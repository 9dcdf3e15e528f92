------------------------------- MODULE SignIn -------------------------------
(***************************************************************************)
(* The two doors an account is entered by, and the sessions behind them:   *)
(* a link mailed to an address, and a flow that leaves for an identity     *)
(* provider and comes back.  One browser, in as many tabs as it has        *)
(* requests in flight; a process serving a request may die in it.          *)
(*                                                                         *)
(* An address is a mailbox and a spelling of it, which the user table's    *)
(* unique index tells apart.                                               *)
(***************************************************************************)
EXTENDS Integers, Sequences, FiniteSets

CONSTANTS
    Mailboxes,
    Window,      \* REQUEST_WINDOW_MS and LINK_TTL_MS, in ticks
    FlowTTL,     \* FLOW_TTL_MS
    MaxRequests, \* links one address may ask for in a window
    MaxTime,     \* bound: ticks of the clock
    MaxVisits,   \* bound: requests served
    MaxFlows,    \* bound: flows started
    MaxRotations, \* bound: changes of SESSION_SECRET and of the settings
    Environments \* bound: the names an environment sets, of those below

VARIABLES
    clock,
    settings,  \* the names the environment sets
    secret,    \* SESSION_SECRET, by the times it was changed
    links,     \* the LoginToken rows
    inbox,     \* the links whose mail arrived
    flows,     \* the flows that left for a provider
    jar,       \* the browser's two cookies: a session and a flow, 0 for none
    visits,    \* the requests being served, and those that have been
    accounts,  \* the User rows, by address
    sessions   \* the Session rows

signInVars == <<clock, settings, secret, links, inbox, flows, jar, visits, accounts, sessions>>

Spellings == {"folded", "Mixed"}
Addresses == Mailboxes \X Spellings
NoEmail   == <<>>

\* DOORS: what each needs set before it exists.
Required ==
    [google |-> {"GOOGLE_CLIENT_ID", "GOOGLE_CLIENT_SECRET"},
     oidc   |-> {"OIDC_CLIENT_ID", "OIDC_CLIENT_SECRET", "OIDC_AUTHORIZE_URL",
                 "OIDC_TOKEN_URL", "OIDC_USERINFO_URL"}]
Doors  == DOMAIN Required
Mail   == {"RESEND_API_KEY", "MAIL_FROM"}
Names  == UNION {Required[d] : d \in Doors} \cup Mail

ASSUME SignInAssumption ==
    /\ Window \in Nat \ {0} /\ FlowTTL \in Nat \ {0}
    /\ MaxRequests \in Nat \ {0}
    /\ MaxTime \in Nat /\ MaxVisits \in Nat /\ MaxFlows \in Nat /\ MaxRotations \in Nat
    /\ Environments \subseteq SUBSET Names

Fold(a) == <<a[1], "folded">>

\* What userinfo answers: an address or none, and its email_verified claim.
Claims == [email : Addresses \cup {NoEmail}, verified : {"true", "\"true\"", "absent"}]

InFlight == {"counted", "valid", "exchanging", "proved", "entered"}
Replies  == {"nothing", "sent", "failed", "consumed", "expired", "state", "denied",
             "unverified", "no_email", "signed in", "dead"}

Visits == [at : InFlight \cup Replies, about : {"address", "link", "flow"}, id : Nat,
           who : Addresses \cup {NoEmail}, since : 0..MaxTime, seen : Nat]

TypeOKSignIn ==
    /\ clock    \in 0..MaxTime
    /\ settings \subseteq Names
    /\ secret   \in 0..MaxRotations
    /\ links    \in Seq([who : Addresses, created : 0..MaxTime, expires : Nat,
                         seen : Nat, consumed : BOOLEAN])
    /\ inbox    \subseteq DOMAIN links
    /\ flows    \in Seq([door : Doors, expires : Nat, secret : Nat, spent : BOOLEAN])
    /\ jar      \in [session : 0..Len(sessions), flow : 0..Len(flows)]
    /\ visits   \in Seq(Visits)
    /\ accounts \subseteq Addresses
    /\ sessions \in Seq([who : Addresses, open : BOOLEAN,
                         proof : {"link", "flow"} \X Nat])

SignInInit ==
    /\ clock = 0
    /\ settings = Names
    /\ secret = 0
    /\ links = <<>> /\ inbox = {} /\ flows = <<>>
    /\ jar = [session |-> 0, flow |-> 0]
    /\ visits = <<>>
    /\ accounts = {}
    /\ sessions = <<>>

Arrives(visit) == Len(visits) < MaxVisits /\ visits' = Append(visits, visit)
Goes(v, at)    == visits' = [visits EXCEPT ![v].at = at]

-----------------------------------------------------------------------------
(* What the operator changes, and time.                                    *)

Tick ==
    /\ clock < MaxTime
    /\ clock' = clock + 1
    /\ UNCHANGED <<settings, secret, links, inbox, flows, jar, visits, accounts, sessions>>

\* A new environment is a new process: the requests in flight die with the old.
Redeploy ==
    /\ secret < MaxRotations
    /\ secret' = secret + 1
    /\ settings' \in Environments
    /\ visits' = [v \in DOMAIN visits |->
                    IF visits[v].at \in InFlight THEN [visits[v] EXCEPT !.at = "dead"]
                    ELSE visits[v]]
    /\ UNCHANGED <<clock, links, inbox, flows, jar, accounts, sessions>>

\* Nothing set is no mailer but the log, half is an error.
MailerSends == Mail \intersect settings \in {{}, Mail}

\* One door half set up stops them all.
OAuthProviders ==
    IF \E d \in Doors : Required[d] \intersect settings \notin {{}, Required[d]}
    THEN {} ELSE {d \in Doors : Required[d] \subseteq settings}

-----------------------------------------------------------------------------
(* Links.                                                                  *)

\* Slip: links count from when their mail arrived.
RecentLinksSent(a) == {l \in inbox : links[l].who = a /\ links[l].created >= clock - Window}

RecentLinks(a) == {l \in DOMAIN links : links[l].who = a /\ links[l].created >= clock - Window}

WithinRequestLimit(recent) == recent < MaxRequests

\* The first half of requestSignInLink: the count.
AskForLink(a) ==
    /\ Arrives([at |-> IF WithinRequestLimit(Cardinality(RecentLinks(Fold(a))))
                       THEN "counted" ELSE "nothing",
                about |-> "address", id |-> 0, who |-> Fold(a), since |-> clock,
                seen |-> Len(links)])
    /\ UNCHANGED <<clock, settings, secret, links, inbox, flows, jar, accounts, sessions>>

\* The row, then the mail: a mailer that fails leaves a row nobody holds.
SendLink(v) ==
    /\ visits[v].at = "counted"
    /\ links' = Append(links, [who |-> visits[v].who, created |-> clock,
                               expires |-> visits[v].since + Window,
                               seen |-> visits[v].seen, consumed |-> FALSE])
    /\ \/ MailerSends /\ inbox' = inbox \cup {Len(links')} /\ Goes(v, "sent")
       \/ UNCHANGED inbox /\ Goes(v, "failed")
    /\ UNCHANGED <<clock, settings, secret, flows, jar, accounts, sessions>>

\* Slip: expired is looked at first.
LinkStatusExpiredFirst(link) ==
    IF link.expires <= clock THEN "expired" ELSE IF link.consumed THEN "consumed" ELSE "valid"

LinkStatus(link) ==
    IF link.consumed THEN "consumed" ELSE IF link.expires <= clock THEN "expired" ELSE "valid"

ClickLink(l) ==
    /\ Arrives([at |-> LinkStatus(links[l]), about |-> "link", id |-> l,
                who |-> links[l].who, since |-> 0, seen |-> 0])
    /\ UNCHANGED <<clock, settings, secret, links, inbox, flows, jar, accounts, sessions>>

\* Slip: the update does not look at consumedAt.
ClaimLinkAnyway(v) ==
    /\ visits[v].at = "valid"
    /\ links' = [links EXCEPT ![visits[v].id].consumed = TRUE]
    /\ Goes(v, "proved")
    /\ UNCHANGED <<clock, settings, secret, inbox, flows, jar, accounts, sessions>>

\* The update is the lock: of two clicks that read "valid", one holds the link.
ClaimLink(v) ==
    /\ visits[v].at = "valid"
    /\ links' = [links EXCEPT ![visits[v].id].consumed = TRUE]
    /\ Goes(v, IF links[visits[v].id].consumed THEN "consumed" ELSE "proved")
    /\ UNCHANGED <<clock, settings, secret, inbox, flows, jar, accounts, sessions>>

-----------------------------------------------------------------------------
(* Flows.                                                                  *)

\* Signed by the secret of the day.
SealFlow(d, expires) == [door |-> d, expires |-> expires, secret |-> secret, spent |-> FALSE]

\* Its state and its PKCE secret are random, so a flow is as good as both.
StartFlow(d) ==
    /\ Len(flows) < MaxFlows
    /\ flows' = Append(flows, SealFlow(d, clock + FlowTTL))

\* The button: the flow waits in the browser's cookie.
StartRoute(d) ==
    /\ d \in OAuthProviders
    /\ StartFlow(d)
    /\ jar' = [jar EXCEPT !.flow = Len(flows')]
    /\ UNCHANGED <<clock, settings, secret, links, inbox, visits, accounts, sessions>>

FlowStatus(flow) == IF flow.expires <= clock THEN "expired" ELSE "valid"

\* The flow of the browser's cookie, or 0 when there is none to be read.
UnsealFlow ==
    IF jar.flow # 0 /\ flows[jar.flow].secret = secret /\ FlowStatus(flows[jar.flow]) = "valid"
    THEN jar.flow ELSE 0

StateMatches(expected, received) == expected # 0 /\ expected = received

\* completeFlow before the exchange, of a callback carrying f's state and code,
\* or the error of a buyer who pressed cancel.
CheckFlow(f, canceled) ==
    IF canceled THEN "denied"
    ELSE IF StateMatches(UnsealFlow, f) /\ flows[UnsealFlow].door \in OAuthProviders
    THEN "exchanging" ELSE "state"

\* The callback route up to there: whichever way it fails, the cookie is cleared.
Callback(f) ==
    \E canceled \in BOOLEAN :
        /\ OAuthProviders # {}
        /\ Arrives([at |-> CheckFlow(f, canceled), about |-> "flow", id |-> f,
                    who |-> NoEmail, since |-> 0, seen |-> Len(flows)])
        /\ jar' = IF CheckFlow(f, canceled) = "exchanging" THEN jar ELSE [jar EXCEPT !.flow = 0]
        /\ UNCHANGED <<clock, settings, secret, links, inbox, flows, accounts, sessions>>

\* Verified only on a literal true.
Profile(claims) == [email |-> claims.email, emailVerified |-> claims.verified = "true"]

\* Slip: the address is taken as the provider spells it.
AcceptProfileAsSpelt(profile) ==
    [reason |-> IF profile.email = NoEmail THEN "no_email"
                ELSE IF profile.emailVerified THEN "ok" ELSE "unverified",
     email  |-> profile.email]

AcceptProfile(profile) ==
    [reason |-> IF profile.email = NoEmail THEN "no_email"
                ELSE IF profile.emailVerified THEN "ok" ELSE "unverified",
     email  |-> IF profile.email = NoEmail THEN NoEmail ELSE Fold(profile.email)]

\* The token endpoint takes a code once, and with the verifier of its flow.
TokenRequest(f) == flows' = [flows EXCEPT ![f].spent = TRUE]

\* A second time it throws, and the cookie stays.
Exchange(v) ==
    LET f == visits[v].id IN
    /\ visits[v].at = "exchanging"
    /\ TokenRequest(f)
    /\ \/ flows[f].spent /\ Goes(v, "failed") /\ UNCHANGED jar
       \/ /\ ~flows[f].spent
          /\ \E claims \in Claims :
               LET check == AcceptProfile(Profile(claims)) IN
               IF check.reason = "ok"
               THEN /\ visits' = [visits EXCEPT ![v].at = "proved", ![v].who = check.email]
                    /\ UNCHANGED jar
               ELSE Goes(v, check.reason) /\ jar' = [jar EXCEPT !.flow = 0]
    /\ UNCHANGED <<clock, settings, secret, links, inbox, accounts, sessions>>

-----------------------------------------------------------------------------
(* Both doors end at one user row, and at a session of it.                 *)

\* A row is found, or made; neither door changes one that is there.
UpsertUser(v, door) ==
    /\ visits[v].at = "proved" /\ visits[v].about = door
    /\ accounts' = accounts \cup {visits[v].who}
    /\ Goes(v, "entered")
    /\ UNCHANGED <<clock, settings, secret, links, inbox, flows, jar, sessions>>

RedeemSignInLink(v) == UpsertUser(v, "link")
CompleteFlow(v)     == UpsertUser(v, "flow")

IssueSession(v, door) ==
    /\ visits[v].at = "entered" /\ visits[v].about = door
    /\ sessions' = Append(sessions, [who |-> visits[v].who, open |-> TRUE,
                                     proof |-> <<door, visits[v].id>>])
    /\ Goes(v, "signed in")
    /\ UNCHANGED <<clock, settings, secret, links, inbox, flows, accounts>>

\* The responses of the two callbacks.
LinkSignsIn(v) == IssueSession(v, "link") /\ jar' = [jar EXCEPT !.session = Len(sessions')]
FlowSignsIn(v) == IssueSession(v, "flow") /\ jar' = [session |-> Len(sessions'), flow |-> 0]

RequestDies(v) ==
    /\ visits[v].at \in InFlight
    /\ Goes(v, "dead")
    /\ UNCHANGED <<clock, settings, secret, links, inbox, flows, jar, accounts, sessions>>

Logout ==
    /\ jar.session # 0
    /\ sessions' = [sessions EXCEPT ![jar.session].open = FALSE]
    /\ jar' = [jar EXCEPT !.session = 0]
    /\ UNCHANGED <<clock, settings, secret, links, inbox, flows, visits, accounts>>

SignInNext ==
    \/ Tick \/ Redeploy \/ Logout
    \/ \E a \in Addresses : AskForLink(a)
    \/ \E l \in inbox : ClickLink(l)
    \/ \E d \in Doors : StartRoute(d)
    \/ \E f \in DOMAIN flows : Callback(f)
    \/ \E v \in DOMAIN visits :
         \/ SendLink(v) \/ ClaimLink(v) \/ Exchange(v)
         \/ RedeemSignInLink(v) \/ CompleteFlow(v) \/ LinkSignsIn(v) \/ FlowSignsIn(v)
         \/ RequestDies(v)

SignInSpec == SignInInit /\ [][SignInNext]_signInVars

-----------------------------------------------------------------------------
\* Behind every session is a proof of its own: a link spent by its address, or
\* a code spent for the newest flow its browser had started, however often a
\* link is clicked or a callback reloaded at once (magic-link.ts:64, oauth.ts:219).
SessionIsProved ==
    \A s \in DOMAIN sessions :
        LET by == sessions[s].proof IN
        /\ sessions[s].who \in accounts
        /\ \A t \in DOMAIN sessions : sessions[t].proof = by => t = s
        /\ by[1] = "link" => links[by[2]].consumed /\ links[by[2]].who = sessions[s].who
        /\ by[1] = "flow" =>
             /\ flows[by[2]].spent
             /\ \E v \in DOMAIN visits :
                  visits[v].about = "flow" /\ visits[v].id = by[2] /\ visits[v].seen = by[2]

\* The two doors land on the same row: no mailbox has two accounts
\* (domain/oauth.ts:90).
OneAccountPerMailbox == \A a, b \in accounts : Fold(a) = Fold(b) => a = b

\* No window of time holds more links of one address than the limit, unless
\* two of the requests counted at once (domain/magic-link.ts:31).
LimitHoldsUnlessRaced ==
    \A a \in Addresses : \A t \in 0..clock :
        LET asked == {l \in DOMAIN links : links[l].who = a /\ links[l].created \in t..t + Window}
        IN \/ Cardinality(asked) <= MaxRequests
           \/ \E k, l \in asked : k < l /\ links[l].seen < k

\* Once a click of a link was told it is spent, or signed in, no later click is
\* told it has expired (domain/magic-link.ts:19).
SpentNeverExpires ==
    [][\A v \in DOMAIN visits' \ DOMAIN visits :
         visits'[v].at = "expired" =>
           \A u \in DOMAIN visits :
             visits[u].about = "link" /\ visits[u].id = visits'[v].id
               => visits[u].at \notin {"consumed", "proved", "entered", "signed in"}]_visits
=============================================================================
