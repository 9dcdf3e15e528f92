# A verification of digital-marketplace

TLA+ models of the parts of this marketplace where money, access or a decision
depends on several processes, checked with TLC on small instances, and theorems
about them that TLAPS checks for every value of the constants. Every definition
is read from the code; `PROJECT.json` names, for each one, the lines it stands
for. Paths below are relative to the repository.

## 1. The system

A Next.js application over Postgres. Nothing runs between requests: a serverless
function serves a route, and durable runs (the `durable-workflow` package, rows
in `workflow_runs`) move on when a request ticks them or a cron job calls
`/api/workflows/tick`. Stripe calls the webhook route. So every component is a
set of handlers and runs that interleave at each `await` and that may die
between two of them; the database's conditional updates, unique constraints and
transactions are the only synchronisation.

| Component | State | Operations | What is hard | What makes it correct | Here |
|---|---|---|---|---|---|
| Order checkout and webhook (`src/server/billing.ts`, `src/domain/order.ts`, `src/providers/stripe.ts`) | `Order`, `WebhookEvent`; the provider's session and charge | `startOrderCheckout`, `applyEvent` | events duplicated, reordered, two for one fact; a handler that dies after claiming the event | one winner per transition, status never ahead of the provider, every charge recorded | `Billing` |
| Payouts (`src/server/payouts.ts`, `src/server/workflows.ts`) | `PayoutAccount`, `Payout`; runs `seller-payout`, `payout-reversal` | onboarding, `syncPayoutAccount`, `resumeParkedPayouts`, each step of the runs | lost wake-up between a run that parks and the webhook that wakes; repeated steps; a reversal overtaking a transfer | nothing paid or taken back twice, rows match the provider, no payout parked for ever | `Payouts` |
| Refunds (`src/server/workflows.ts`, `src/app/api/orders/[id]/refund`, `src/app/api/admin/refund`) | run `refund-request` | ask, decide, time out, issue | an answer lost after the provider acted; a refund crossing a payout | a request ends; the seller's share comes back | `Settlement` |
| Subscriptions (`src/server/billing.ts`, `src/domain/subscription.ts`, `src/domain/plans.ts`) | `Subscription`; the provider's subscription | `startSubscriptionCheckout`, `applyEvent`, `entitlementsForUser` | stale reads before the renewal, late or early events, several rows of one member | access only for paid periods, forward-only status, ended members lose access | `Subscriptions` |
| Listing review (`src/server/workflows.ts`, `src/app/api/products/[id]/submit`, `src/app/api/admin/review`) | `Product.status`, `reviewRunId`; run `product-review` | submit, decide, time out | two runs for one listing, repeated steps, a signal to a run that ended | nothing published unapproved, every review ends | `Listings` |
| Usage, assistant, conversations (`src/server/usage.ts`, `assistant.ts`, `translate.ts`, `conversations.ts`, `src/domain/conversation.ts`) | `UsageCounter`, `Thread`, `ThreadTurn` | meter, refund, ask, record, fold, draft | many tabs near the limit, failures on either side of the first token, the month's end, two answers recorded at once | the quota holds, what was delivered is paid for, a thread keeps its turns | `Assistant` |
| Sign-in (`src/server/magic-link.ts`, `oauth.ts`, `auth.ts`, `mail.ts`, `src/providers/google.ts`, `oidc.ts`) | `LoginToken`, `User`, `Session`, two cookies | ask for a link, redeem it, start a flow, its callback, log out | count-then-create, two clicks on one link, a reloaded callback, a secret that rotates, doors that close | a session has a proof of its own, one account per mailbox | `SignIn` |
| First boot (`src/server/bootstrap.ts`, `bootstrap-postgres.ts`, `seed.ts`, `src/instrumentation.ts`) | advisory lock, demo rows | claim, check, seed, release | instances that come up at once, killed half way | one seeder at a time; a half seed taken up again | `Shelf` |
| Documents (`src/app/api/products/[id]/upload`, `src/server/storage.ts`, `src/providers/s3.ts`, `src/rag/store.ts`, `download`, `src/domain/access.ts`) | stored file, `ProductChunk`, `Product.fileKey` | upload, store, index, attach, download | uploads that interleave with each other and with the seed, one write of three failing | a key finds its file; the file is the one indexed | `Shelf` |
| Ratings and analytics (`src/server/reviews.ts`, `src/domain/review.ts`, `src/server/license.ts`, `src/server/analytics.ts`) | `Review`, views | submit, moderate, average, list, record a view | requests that race, a page read in two halves | one rating per purchase, one decision, an average of what is published | `Ratings` |
| Search, passages, chunks (`src/server/search.ts`, `src/rag/`, `src/app/[locale]/page.tsx`, `evals/`) | none: reads | both arms, fusion, the page, diversification, chunking, grading | ties, cuts, boundaries; what the page says of what it shows | a listing two arms found is above one's; the page's words are true; nothing of a document is lost | `Search` |
| Ask box (`src/components/AskBox.tsx`, `src/app/api/products/[id]/ask`) | the component's state, the stream | ask, read, finish, record | a stream that breaks or ends early, a question while one runs | each answer drawn once, under its question | `AskBox` |
| Product form (`src/components/NewProductForm.tsx`, `src/app/api/products`, `src/domain/listing.ts`) | the form, the request in flight | type, draft, create | answers that land late | no written word dropped in silence | `ProductForm` |
| Providers' wiring, other pages, scripts, end-to-end tests | none | clients, rendering | little | | not modelled (section 8) |

How they meet: `applyEvent` starts `seller-payout` when an order becomes PAID
and `payout-reversal` when it becomes REFUNDED; the refund run calls the
provider, whose `charge.refunded` comes back through `applyEvent`;
`account.updated` goes through `applyEvent` to `resumeParkedPayouts`, which
signals payout runs. Listings and subscriptions share no row with these. A boot's
seed and a seller's upload write the same rows, files and chunks, so they are one
module. The ask box is the client of the assistant's route: `AskBox` has the
stream between them, `Assistant` the budget and the thread behind it. Search,
ratings, the ask box and the form meet only on the page.

## 2. The modules

    MoneyDomain      status machines, event mapping, the split of a sale (no state)
      Sales          the orders, and processes that die
        Billing      checkout, sessions, webhook handler for orders
        Payouts      accounts, payout rows, the two payout runs, account.updated
          Settlement Billing and Payouts together, and the refund-request run
      Subscriptions  checkout, provider, webhook handler, entitlements
    Listings         submit, review run, admin
    Assistant        the meter, the runs it counts, the thread and its memory
    SignIn           links, flows, accounts, sessions
    Shelf            first boot, uploads, downloads
    Search           arms, fusion, page, passages, chunks (operators, and one
                     action for each thing that is shown)
    Ratings          submit, moderate, average, list
    AskBox           one tab, its stream, the route behind it
    ProductForm      one form and the two routes it calls
      Storefront     the last four side by side
    Ledger           abstract: what may happen to the money of a sale

A module `MCx` declares the model values of the instances of module `x`; each `.cfg`
is one run. The proofs are in `BillingProofs`, `PayoutsProofs`, `SettlementProofs`,
`MembersProofs` (`SignIn` and `Subscriptions`), `SellersProofs` (`Assistant` and
`Listings`), `ShelfProofs`, `SearchProofs` and `StorefrontProofs` (`Ratings`,
`AskBox`, `ProductForm`, and the four side by side). A definition under a comment
that begins `Slip:` is a plausible bug in the definition that follows it; the
specifications do not use it. It is there to see that a property notices:
`PROJECT.json` pairs each property with one.

### Correspondence

* **Processes.** A handler's or run's place in its code is a variable
  (`billAt`, `hookAt`, `payAt`, `revAt`, `refundAt`, `runAt`, ...), with one
  action for each stretch between two awaits that other processes can see. What a
  process read earlier and uses later is kept (`payReady`, `subSeen`,
  `adminSees`, `revFound`, `hookTodo`).
* **Rows.** One variable per column that a decision reads: `order`,
  `checkoutRef`/`providerRef` (whether the row knows the reference an event would
  be matched by), `payout`, `account`, `sub`, `subKnows`, `periodEnd`, `status`,
  `reviewRunId`. A conditional `updateMany` is one atomic action with the condition
  as its `IF`; its count decides the handler's next place.
* **Events.** An event is an element of `BillEvents`, `AcctEvents` or
  `SubEvents`. It may be handled once what it reports has happened, at any later
  time and so in any order. A second delivery under the same id inserts nothing
  and changes nothing, so it is not an action; what it could do is shown by the
  guard of the claim. `Copies` sends several events, with ids of their own, for
  one fact.
* **The provider.** Sessions, charges, transfers, reversals, subscriptions and a
  seller's standing are provider state, moved by external actions inferred from
  the calls and events in `src/providers/stripe.ts`.
* **The engine.** `durable-workflow` is not in the repository. From its use in
  `src/server/workflows.ts` the models assume: a finished step is remembered and
  not repeated; a step cut short, or thrown out of, is executed again from its
  beginning, up to `maxAttempts` failures; one worker executes a run at a time; a
  signal sent before a run waits is kept for it; starting a run under an id that
  exists does nothing; a run that ended refuses signals; a canceled run takes no
  further step, but a step already executing finishes the calls it has begun.
  "step:memo" is the place where a step's effects are done and not yet
  remembered, so a crash there repeats them.
* **Crashes.** `MaxCrashes` processes may die. A worker that dies leaves its step
  to be executed again. `HookMayCrash` says whether a request may die too: its
  event id stays claimed and nobody continues it.

* **Calls and visits.** In `Assistant` a call is a question or a draft and
  `callAt` its place in `askAboutProduct` or `draftTranslation`: after the plan was
  read, after the meter, after the thread was read, inside the run, before the
  turn is recorded, before the refund. `ModelCall` is one call of the model, before
  which `threadMemory` drops whole turns and folds them; how many it drops depends
  on tokens, so any number is allowed. `meteredIn` and `givenBackIn` remember the
  month each counter update fell in, which the code does not, so that the books can
  be compared with the counter. In `SignIn` a visit is one request being served, or
  its answer; `jar` is the browser's two cookies, and a visit keeps what it read of
  them (`seen`). A tick of the clock is a whole TTL or window.
* **Environments.** The settings a deployment has are a set of names (`settings`,
  `env`, `setting`): `OAuthProviders`, `MailerSends`, `FakesRequested`,
  `SelectStore` and `SeedOnBootRequested` read them as the code does, half-set
  groups and stand-ins beside real keys included, and `Redeploy` changes them
  between two halves of a flow.
* **Documents.** A text is the request that wrote it: `files[<<p, k>>]` is who last
  wrote that key, `index[p]` whose chunks they are. `setting` is what a deployment
  has set of a bucket, and its host: a bucket, and the disk of a server, is
  `files`; on a serverless host with nothing of a bucket set each instance has its
  own `disks[b]`, which no other instance reads and which goes when it is killed
  (`storage.ts:8-10`). `fileKey` may send two names to
  one key, which `KeyOf` says. `disturbed` marks the products of which a writer
  failed or met another.
* **A provider's words.** A completed session of a subscription does not say that
  its first period is paid (`stripe.ts:133-134`): `SessionCompletes` begins the
  membership, `PeriodIsPaid` and `PaymentFails` are later steps of the provider,
  and the handler of the completed session makes the row ACTIVE whichever comes.
* **Requests that are not heard of again.** In `Ratings` a submission or a decision
  may be written and its process die before the answer: it is "unheard", which
  counts as taken or decided. A page lists the `Take` newest of what is published
  (20 in the code), by a `createdAt` that may tie and need not follow the order of
  the inserts (`Newest`).
* **Search.** A corpus is a function from listings to what the arms read of them:
  per language how well the words match, per chunk how well it matches and how near
  it is, as small numbers. `TextArm` and `VectorArm` are the sets of lists Postgres
  may return where it leaves ties open, `ReciprocalRankFusion` is computed with
  integer weights, and the action `SearchPage` shows what the page would. `MMR`,
  `ChunkDocument` and the evaluation's scores are computed in the same way, each
  from every input of a small set.
* **The browser.** `AskBox` has the component's state (`turns`, `asked`, `answer`,
  `busy`), the stream's events on the wire, and the run that writes them; a
  connection may break, and a process die, before any event. `ProductForm` has the
  fields, by who wrote them, the request in flight and the listings made.
* **Composition.** `Storefront` moves one of its four modules at a time while the
  others rest in their initial states: none reads what another writes, so
  interleaving them would only multiply the states.

### What each module leaves out

Amounts, currencies, mail, redirects, text. Stripe's signature check is a guard
before everything modelled. A failed query (other than a process that dies) is
not modelled outside the durable steps; its effect on a handler is that of dying.
Two listings, two members and two orders interact only where a module says so
(two payouts of one seller in `PayoutsSettle`). `Assistant` has one account and
one listing: neither a counter nor a thread is shared across them. `SignIn` leaves
out a session's expiry and who may open which page. `Search` has no embedding and
no `ts_rank`: what they would answer are numbers of the corpus.

## 3. The runs

Passing (TLC explores every state; deadlock is not an error because a sale, a
review or a membership ends):

| Run | Instance | What it shows |
|---|---|---|
| `PayoutsRaces` | one sale, three `account.updated`, standing that comes and goes, two crashes of workers or handlers, two attempts | `NoLostWakeup`: a payout is never parked on a seller whose row says ready unless a handler is about to signal it or died about to. `RowsMatchProvider`: nothing sent or taken back twice, rows true. `PendingHasOwner`, `FoundPaidIsReversed` |
| `PayoutsSettle` | two sales of one seller, one refundable, one crash | `EarnedMoneyMoves`: once the provider would pay the seller, each payout is sent, canceled, or has spent its attempts |
| `BillingDeliveries` | one order, two events for each fact, one process that dies anywhere | `OneWinner`, `OrderMatchesProvider`, `MoneyEventsFindTheirOrder` |
| `SettlementMoney` | one sale from checkout to reversal, refunds from the dashboard too, one attempt, one worker crash | `MoneyFollowsLedger`: the whole implements `Ledger`. `OrdersHaveTheirRuns`: an order has exactly the runs its status calls for. `ChargeIsOwed`: a charge ends as a payout row. `RefundIsRecorded`: a refund reaches an order that knows its charge when the event looks for it. `RefundRequestSettles`: a request ends denied, failed, or with the reversal over |
| `MembershipFollows` | one subscription, two periods, every event | `SubMatchesProvider`: access only after the completed session was handled. `PeriodEndIsPaid`. `KnownMemberIsCanceled`: a membership that ends stays canceled, past every stale renewal |
| `ListingRaces` | three submits that may race, one crash | `PendingIsDecidable`, `PublishedWasApproved`, `ReviewIsDecided` |
| `AssistantBudget` | three questions and a draft, quotas of one and two, two months, four environments | `QuotaHolds`: what a month lets through and keeps charged is within the quota one of its calls read. `PaidIfDelivered`: an answer begun is never given back, a failure with nothing to show is. `HistoryIsPrefix`, `NoQuestionReadTwice`: a thread loses, reorders and repeats no turn |
| `SignInDoors` | one mailbox in two spellings, one browser, three requests, two flows, two ticks, one redeploy | `SessionIsProved`: each session has its own link or code, of this browser's newest flow. `OneAccountPerMailbox`. `LimitHoldsUnlessRaced`. `SpentNeverExpires`: a link once told spent is never told expired |
| `ShelfBoots` | two instances, two demo products, two uploads of three names for two keys, one download, four settings | `OneSeeder`: one instance seeds at a time. With a bucket or a disk that lasts, `DownloadFindsFile`, and `FileIsIndexed`: the file a buyer gets is the one the assistant read |
| `Storefront` | three listings in two languages, every corpus of them; four chunks, six lines; two purchases, two submissions, two moderators, a page that lists one; three questions; one form, two listings | `FusionRewardsAgreement`, `PageAccountsForItself`, `AnswerIsItsPassages`, `ChunksCoverTheDocument`; `OneRatingPerPurchase`, `DecidedOnce`, `AverageIsOfThePublished`; `ThreadIsDrawnOnce`, `NextQuestionHearsTheLast`; `NothingTypedIsDropped` |

The type invariants and the forward-only properties of status machines
(`PayoutForwardOnly`, `OrderForwardOnly`, `SubForwardOnly`) are proved
(section 5) and in no run.

Runs in which the code does not do what the repository says of it:

| Run | Says | Does |
|---|---|---|
| `SettlementRefundRace` | README: a refund "reverses the transfer if there was one" | The reversal reads the row; a transfer made at the provider and not yet written down leaves it PENDING, so the row is canceled and the transfer stays |
| `ShelfSeedRetry` | `bootstrap.ts:56-57`: "a seed that dies half way through is retried by the next boot rather than locked out by a row it already wrote" | The next boot gets the claim, asks whether any product is there, finds the row already written, and leaves the rest of the demo unseeded |

Further statements that TLC refutes, part of no run. Stated in the modules:

* `LostStandingIsWaitedFor` (`Payouts`, five attempts). `payouts.ts:95` says lost
  standing is "worth waiting for rather than a reason to drop the money"; the
  transfer's attempts run out while it is lost and the run fails for good.
* `OrdersHaveTheirRuns` with `HookMayCrash = TRUE` (`Settlement`). `billing.ts:95`
  says that money that arrived is owed; a process that dies after the order's
  update and before the run's start leaves a PAID order without a run, and the
  redelivery is a duplicate.
* `PaidMemberHasPro` (`Subscriptions`, two checkouts). `plans.ts` gives ACTIVE and
  PAST_DUE paid access; the newest row decides, even one that is PENDING.
* `AccessIsPaidFor` (`Subscriptions`). The comment of `stripe.ts:134` says that
  "completed" is not "paid" for asynchronous payment methods, and for orders the
  code waits; a subscription's session is activated by line 133 whatever its
  `payment_status`, and the row is ACTIVE before any period is paid.
* `OwnerDecides` (`Listings`). `schema.prisma:97` has the run "that owns this
  product's review"; two racing submits start two, and the one the listing does not
  name decides it too. For the same reason an approval may be of the other
  submission: `PublishedWasApproved` asks only that some run was approved.
* `PublishedStays` (`Listings`): a run that the listing no longer names times out
  after another's publication, or a worker dies with its decision written and not
  yet remembered, and the step that is executed again replaces what came later.
* `StandingSellerIsPaid` (`Payouts`, `FairPayoutsSpec`, three events, standing may
  drop): `syncPayoutAccount` writes whichever event is applied last.
* `NoLostWakeup` without its disjunct for handlers that died: the handler dies
  between the claim and the signal, and the redelivery is a duplicate.
* `RefundIsRecorded` without its precondition that the row knows its charge when
  the event looks for it: `charge.refunded` handled before `order_paid` finds no
  order and its id is spent. `RefundRequestSettles` has the precondition too, and
  `MoneyEventsFindTheirOrder` fails with `DashboardRefunds = TRUE`.
* `RefundIsAskedOnce` (`Settlement`, one crash): `issue-refund` is repeated, and
  the request carries no idempotency key.
* `CanceledMemberLosesPro` (`Subscriptions`): `customer.subscription.deleted`
  handled before the event that tells the row its subscription.
* `PeriodEndMovesOn` (`Subscriptions`): an invoice handled late writes its earlier
  period over a later one, because the renewal updates by id.
* `DownloadFindsFile` without `FilesAreKept` (`Shelf`). `storage.ts:8-10` and
  `docs/deploy.md:67-69` say so themselves: on a serverless host with no bucket the
  file is on the disk of the instance that took the upload, another instance does
  not find it, and it goes when that one does.

Behaviours of the other modules, each a counterexample to a property without the
exception it makes:

* `Assistant`. A refused call has counted too, so a refused month keeps counting. A
  refund after the month's end is taken from the new month, or is lost when that is
  at zero. `threadFor` fails outside the `try` that refunds, and the unit is lost.
  An answer without text is charged and is no turn.
* `SignIn`. `docs/deploy.md:45` and `oauth.ts:138` say that rotating
  `SESSION_SECRET` ends sessions; they are rows found by the token's hash, and only
  flows in progress end. A process that dies after claiming a link has spent it.
  Requests that count at once pass the limit together. With two tabs the older
  callback fails, and takes the newer flow's cookie with it.
* `Shelf`. `upload/route.ts:25` extracts before storing so that nothing unindexed
  lands on disk; an embedder that fails after the store leaves just that. A listing
  made between the emptiness check and the first row is there when the demo is
  seeded. Without a bucket a serverless demo's own files go as any others do.
* `Ratings`. A purchase refunded between the check and the insert is rated. The
  page's average and its list are two reads.
* `AskBox`. What a question hears (`heard`) is the rows it read; `conversation.ts`
  then cuts them to a window of tokens, which is `Assistant`'s. An answer cut short
  is drawn in the thread though no row keeps it; a row whose connection broke before
  its text is not drawn. With tools called in parallel only the last chip is ever
  marked done.
* `ProductForm`. `NewProductForm.tsx:29-30` says a language already written in is
  left alone; it is looked at before the draft is asked for, and what is typed
  meanwhile is overwritten. A draft that lands after the form was reset is the next
  listing's translation. What is typed while a listing is being saved is reset away
  with the form; `NothingTypedIsDropped` is about what was sent. Pressing the button
  again after a failed upload makes a second listing.
* `Search`. With a limit of 16 or more, `Candidates` outgrows `RRF_K` and
  `TwoArmsOutrankOne` fails; the default is far below. "What each arm alone recalls
  the hybrid recalls" fails at the page's limit. That hits in another language
  "come last" (`search.ts:21`) holds of the text arm and not of the fused page. With
  an overlap of zero `buffer.slice(-overlap)` carries the whole buffer over.

### Bounds, and why they are enough

Orders, sellers and listings are independent but for the seller's account, so one
sale shows every race within a sale and two sales of one seller the rest. `Copies = 2`
makes every delivery race a twin. Three `account.updated` events make ready, not
ready and ready again arrive in every order. Two attempts make a failure that is
retried and one that is final; the code's five differ only in length. In
`SettlementMoney` a step is repeated after the crash and not after a failure, since
one attempt is all it has; `PayoutsRaces` has both. Two periods make a renewal stale
behind another, and a first period that is paid late, or never. Three submissions
make a run orphaned behind a listing that was submitted, decided and submitted
again. One crash reaches every place where a step is repeated; `PayoutsRaces` allows
two because two runs share the row.

A quota of one, or of two, is passed by three questions; with the draft, calls of
both kinds meet at it, and two months have one end. Three questions make a thread of
two turns that a third reads, folds and then folds further. Three requests are the
fewest for two that race and one that follows; two flows the fewest for a callback
of the older one; a window of one tick and two ticks of clock let a link be asked
for inside, at the edge of and outside a window. One mailbox is enough: addresses of
two never meet. Two instances make every race for the lock, and a third would find
what the second does. Four settings are enough: a serverless host that seeds, with
no bucket, half of one and a whole one, and a server that does not seed; a bucket
and the disk of a server behave alike. Three names for two keys make an upload that
replaces a file and one that leaves the old one behind. Three listings are the
fewest for one that two arms found between two that one did; weights and distances
of two or three values give every order and every tie. Six lines reach every
combination of a heading, a blank, a sentence that ends and one that does not, with
a chunk that fills, carries over and fills again. Two submissions race for one
purchase or rate two, and a page that lists one of two ratings cuts its list; two
instants let their times tie, agree with the order of the inserts, or not.

Safety properties that section 5 lists are also proved for every bound.

## 4. Fairness

* A handler whose event has been sent is eventually executed to its end: Stripe
  redelivers until it gets a 2xx, and the route answers only when `applyEvent` has
  returned. (`WF` on `HandleEvent`, `HookStep`, `HandleSubEvent`.)
* A due run is eventually executed: the routes tick the run they start or signal,
  and `/api/workflows/tick` processes what is due, timeouts that passed included.
  (`WF` on `PayStep`, `RevStep`, `RefundStep`, `RunStep`.) A payout waits with no
  timeout, and its wait is left only by a signal, so it gets no fairness there.
* Nothing is assumed of buyers, sellers, admins or the provider's decisions: an
  admin may never decide, a buyer never pay, a seller never onboard.
* `Assistant`, `SignIn`, `Shelf` and `Storefront` state no fairness: their
  properties are of safety. A serverless function may stop at any place for ever, and
  nothing in this code would go on in its stead.
* Crashes are bounded, so a step repeated for ever is not excluded by fairness but
  by the bound.

## 5. What is proved

Every safety property that a passing run checks is a theorem here. Each theorem
holds for every value of the constants that meets the named assumptions, which
state only ranges, and of what its own hypotheses add:

* `OrdersHaveTheirRunsHolds` says `HookMayCrash = FALSE`, and
  `MoneyEventsFindTheirOrderHolds` says `DashboardRefunds = FALSE`;
* `DownloadFindsFile` and `FileIsIndexed` say `FilesAreKept` themselves: a bucket,
  or a host whose disk outlives its instances;
* `FusionRewardsAgreementHolds` says `Candidates <= RRFK`. The code looks for
  max(12 * 4, 24) = 48 listings an arm, and `RRF_K` is 60; past that an arm's first
  listing alone can outweigh two last places, and the property is false;
* `PageAccountsForItselfHolds` says `Limit >= 2` and `Candidates # 0`: on a page of
  one the vector arm's first can push out the only listing whose words matched. The
  limit is 12;
* `ChunksCoverTheDocumentHolds` says `Overlap # 0`, which is 2: of no overlap
  `buffer.slice(-overlap)` carries everything over.

* **Payouts.** `OrderInv` is inductive for each order: for each place of the two
  runs, what the row and the provider may say, how many attempts are left, and
  that a canceled run's row is either no longer PENDING or about to be canceled. It
  is needed because `RowsMatchProvider` says nothing of a transfer made and not yet
  remembered. It gives `RowsMatchProviderHolds`, `PendingHasOwnerHolds`,
  `FoundPaidIsReversedHolds`, `PayoutForwardOnlyHolds` under every crash.
  `NoLostWakeup` is inductive on top of it: the run writes its row and then reads
  the account, the webhook writes the account and then reads the rows.
  `SplitConserves`: fee and share add up to what the buyer paid, and the fee is the
  exact cut rounded down.
* **Billing.** `BillInv` relates each handler's place to what has happened at the
  provider and what the row knows; `OneWinner` is inductive with it, because once
  an order has left a status no update of the same target can succeed.
* **Settlement.** `ImplementsBilling` and `ImplementsPayouts` show that the
  composition's steps are steps of the components, so their invariants carry
  over. With them: `RunsStartOnceHolds`, `OrdersHaveTheirRunsHolds`, and
  `MoneyFollowsLedgerHolds`, the refinement of `Ledger` under `BuyerMoney` and
  `SellerMoney`, where a step of the composition moves one side of the ledger or
  none.
* **Subscriptions.** `MemberInv` keeps with every handler in progress the fact its
  event reports, which stays true once it is; each status and each period end in
  the row is then backed by one. Access is backed by the handled completed session:
  until then the row does not know the subscription that invoices name
  (`OpenedInv`). That it was paid for is not claimed.
* **Listings.** `PendingIsDecidable` is inductive as it stands with the types;
  `PublishedWasApproved` needs that a run about to publish holds an approval. Both
  hold however many submits race and steps are repeated. Who decides, and that what
  is published stays so, is not proved, because it is false.

* **Assistant.** `CallsInv` says of each place of a call whether it was counted and
  may have been given back. `CounterIsTheBooksHolds` is by cardinality: each step
  adds one call to the month's counted or to its given back, or moves neither. From
  it `QuotaHoldsAlways`: the call that last counted was let through by a count that
  is at least the charged calls less the strays. And `PaidIfDeliveredHolds`: a
  refund finds the counter at zero only if as many were given back this month as
  counted in it, so one of them is a stray. `ThreadInv` gives
  `HistoryIsPrefixHolds`, because the thread only grows at its end; `MemoryInv`
  gives `NoQuestionReadTwiceHolds`: what a call tells of the turns it dropped are
  distinct questions of a prefix, and the next fold begins after it
  (`FoldingTellsMore`).
* **Shelf.** `SeederInv` says who holds the lock and that only the holder checks and
  seeds; it gives `OneSeederHolds` even when the holder is killed. `FilesInv` says,
  where files are kept, that one once there stays, and that whoever is about to
  write a key has written its file: `DownloadFindsFileHolds`. `WritersInv` says that
  a listing nothing disturbed has one writer, an upload or the seed, and
  `WrittenInv`, where files are kept, what that one has written so far:
  `FileIsIndexedHolds`.
* **Sign-in.** `SignInInv` keeps, with every request in progress, what it is about
  (`VisitOK`): a request holds a proof only of a link or a code that is spent, a link
  is of the address it was mailed to, a flow that was let through was the browser's
  newest, and every address of a row is folded. It gives `OneAccountPerMailboxHolds`
  and `SpentNeverExpiresHolds`. `ProofInv` adds that no two requests hold the same
  proof, because the claim and the token endpoint each let one through:
  `SessionIsProvedHolds`. `LimitInv` keeps with each request let through, and then
  with its link, that what it counted was below the limit; of the links of one window
  the last one's request counted all the others, unless it raced one:
  `LimitHoldsUnlessRacedHolds`.
* **Ratings.** `RatingInv` ties a rating to the one submission that was taken, told
  so or not, through the unique index; `DecisionInv` a decision to the one update
  that changed its row. `PageInv` keeps the two sets of reviews that a page's
  average is of and that its list is the newest of; a published rating stays
  published and keeps its stars and its time (`PublishedReviewsStay`), so neither
  the sum (`SumsAgree`) nor the cut changes under it:
  `AverageIsOfThePublishedHolds`, for any `Take`.
* **Ask box.** `AskBoxInv` says that of the questions asked the last alone is read,
  that one neither read nor broken has come to its end, and, with each run that has
  its answer, that the box has it too or the stream's last event brings it
  (`AnswerComes`). A text event still to come then appends to the answer that the
  run had when it sent it, and the `done` event replaces it: `ThreadIsDrawnOnceHolds`.
  A row kept is of a question that was ended, so the thread a later run read has it:
  `NextQuestionHearsTheLastHolds`.
* **Product form.** `FormInv` is the types, with `data` whole while a row is made;
  `ListingOfTheForm` is the pure fact that what the route accepts it keeps:
  `NothingTypedIsDroppedHolds`.
* **Search.** `ShownInv` says that what is shown was computed by an action; the rest
  is about the operators, which fold lists.
  *Chunks*: `BuffersHold` is the loop's invariant, that the chunks so far hold the
  sentences passed and the buffer begins within the overlap; rounding up costs one
  token where two texts are joined (`TokensGrow`), hence `Target + 1`.
  *Passages*: `PickStep` is one round of MMR; what gains most is dominated by none.
  `Sorting` says that a finite set under a strict order has a sorted list, and so
  that what `Ordered` chooses exists; with it the in-memory index is one of the
  database's answers.
  *Fusion*: a fraction is compared by products, so `Outweighs` is an order
  (`OutweighsIsOrder`), and the list is sorted by it. `HalvesAreMore` is the
  arithmetic: 1/(k+r) + 1/(k+t) > 1/(k+1) while r and t are at most k. *Page*: on a
  page of two or more there is a listing whose words matched if there is one at all,
  because of the listings only the vector arm found, its first alone can outweigh
  the lexical arm's first (`OnlyNearestOutweighs`).
* **Storefront.** `StorefrontIsItsParts`: a behaviour of the four side by side is
  one of each, so the theorems about each hold of them together.

What a function defined by recursion computes is proved from the least argument at
which it would be wrong, or the first step at which a loop's invariant would fail
(`WFMin` on the naturals), since the library's induction theorems take an operator.

## 6. What is only model-checked

Everything with `~>` (`EarnedMoneyMoves`, `ChargeIsOwed`, `RefundIsRecorded`,
`RefundRequestSettles`, `KnownMemberIsCanceled`, `ReviewIsDecided`): liveness
under fairness is out of the prover's reach. And the two violations, which are
behaviours TLC prints.

## 7. Plan

Done: every module of section 2, and the proofs of section 5. What would add most
next, in this order:

1. An abstract specification of work done at most once (claim, then act), which
   orders, accounts, subscriptions, links and the seed would each implement.
2. A session's life: its expiry, `getCurrentUser`, and what each role may open.
3. The seller's totals (`payoutTotals`) and charts against the rows they add up.

## 8. Not modelled, and why

Embeddings and Postgres' text ranking compute over real numbers; `Search` starts
from what they answer. Wording, other pages, mail's text, cover images and i18n are
layout. `src/server/provider.ts`, `src/providers/resend.ts` and `src/lib` construct
clients. The language model, the agent loop, Stripe, the identity providers and
`durable-workflow` are external, and appear as what the code can observe of them.
The seller's charts only read. `scripts/`, `e2e/` and the evaluation's reports and
fixtures are not part of the running program. The engine's own store (leases, due
times) is behind a package boundary; the assumptions on it are listed in section 2.
