---------------------------- MODULE MembersProofs -----------------------------
(***************************************************************************)
(* Theorems about who a visitor is and what a member has paid for: SignIn, *)
(* for any mailboxes, bounds and environments, then Subscriptions, for any *)
(* members and events.                                                     *)
(***************************************************************************)
EXTENDS Subscriptions, SignIn, FiniteSetTheorems, WellFoundedInduction, TLAPS

-----------------------------------------------------------------------------
(* SignIn.                                                                 *)

\* The rows of each table.
Link    == [who : Addresses, created : 0..MaxTime, expires : Nat, seen : Nat, consumed : BOOLEAN]
Flow    == [door : Doors, expires : Nat, secret : Nat, spent : BOOLEAN]
Session == [who : Addresses, open : BOOLEAN, proof : {"link", "flow"} \X Nat]

\* A request that goes on is the one that changes, and it alone.
LEMMA GoesOn ==
    ASSUME visits \in Seq(Visits), NEW v \in DOMAIN visits, NEW at \in InFlight \cup Replies,
           Goes(v, at)
    PROVE  /\ visits' \in Seq(Visits) /\ DOMAIN visits' = DOMAIN visits
           /\ visits'[v] = [visits[v] EXCEPT !.at = at]
           /\ \A w \in DOMAIN visits : w # v => visits'[w] = visits[w]
<1>1. visits' = [visits EXCEPT ![v] = [visits[v] EXCEPT !.at = at]]
  BY DEF Goes
<1>2. visits[v] \in Visits
  OBVIOUS
<1>3. [visits[v] EXCEPT !.at = at] \in Visits
  BY <1>2 DEF Visits
<1> QED
  BY <1>1, <1>3

\* A request that arrives comes after those that have.
LEMMA ArrivesLast ==
    ASSUME visits \in Seq(Visits), NEW visit \in Visits, Arrives(visit)
    PROVE  /\ visits' \in Seq(Visits) /\ Len(visits') = Len(visits) + 1
           /\ DOMAIN visits' = DOMAIN visits \cup {Len(visits) + 1}
           /\ Len(visits) + 1 \notin DOMAIN visits
           /\ visits'[Len(visits) + 1] = visit
           /\ \A w \in DOMAIN visits : visits'[w] = visits[w]
BY DEF Arrives

\* An address is folded to one that is.
LEMMA FoldIsFolded ==
    ASSUME NEW a \in Addresses
    PROVE  Fold(a) \in Addresses /\ Fold(a) # NoEmail /\ Fold(a)[2] = "folded"
BY DEF Fold, Addresses, Spellings, NoEmail

\* Type correctness, by the rows of each table.
SignInRows ==
    /\ links \in Seq(Link) /\ flows \in Seq(Flow) /\ visits \in Seq(Visits) /\ sessions \in Seq(Session)
    /\ accounts \subseteq Addresses /\ inbox \subseteq DOMAIN links
    /\ jar \in [session : 0..Len(sessions), flow : 0..Len(flows)]

Environment == clock \in 0..MaxTime /\ settings \subseteq Names /\ secret \in 0..MaxRotations

LEMMA TypesAreRows == TypeOKSignIn <=> SignInRows /\ Environment
BY DEF TypeOKSignIn, SignInRows, Environment, Link, Flow, Session

\* The strengthening: what each request is about is there, and who it is about is
\* whom a link was mailed to, or whom a provider vouched for; whoever holds a proof
\* has spent it, and has done so for the newest flow.
Held == {"proved", "entered", "signed in"}

VisitOK(visit, lks, fls, acc) ==
    /\ visit.at = "counted" => visit.about = "address"
    /\ visit.at = "valid" => visit.about = "link"
    /\ visit.at = "exchanging" => visit.about = "flow"
    /\ visit.at \in Held => visit.about # "address"
    /\ visit.about = "address" => visit.who \in Addresses /\ visit.who[2] = "folded"
    /\ visit.about = "link" =>
         /\ visit.id \in DOMAIN lks /\ visit.who = lks[visit.id].who
         /\ visit.at \in Held \cup {"consumed"} => lks[visit.id].consumed
    /\ visit.about = "flow" =>
         /\ visit.id \in DOMAIN fls
         /\ visit.at \in Held \cup {"exchanging"} => visit.seen = visit.id
         /\ visit.at \in Held => fls[visit.id].spent /\ visit.who \in Addresses /\ visit.who[2] = "folded"
    /\ visit.at \in {"entered", "signed in"} => visit.who \in acc

VisitsOK == \A v \in DOMAIN visits : VisitOK(visits[v], links, flows, accounts)

FoldedInv ==
    /\ \A l \in DOMAIN links : links[l].who[2] = "folded"
    /\ \A a \in accounts : a[2] = "folded"
    /\ jar.flow \in {0, Len(flows)}

\* What was spent stays spent, and what was there stays there.
Grows ==
    /\ DOMAIN links \subseteq DOMAIN links'
    /\ \A l \in DOMAIN links :
         links'[l].who = links[l].who /\ (links[l].consumed => links'[l].consumed)
    /\ DOMAIN flows \subseteq DOMAIN flows'
    /\ \A f \in DOMAIN flows : flows[f].spent => flows'[f].spent
    /\ accounts \subseteq accounts'

LEMMA VisitStaysOK ==
    ASSUME Grows, NEW visit, VisitOK(visit, links, flows, accounts)
    PROVE  VisitOK(visit, links', flows', accounts')
BY DEF Grows, VisitOK

LEMMA VisitGoesOn ==
    ASSUME SignInRows, VisitsOK, Grows, NEW v \in DOMAIN visits, NEW at \in InFlight \cup Replies, Goes(v, at),
           VisitOK([visits[v] EXCEPT !.at = at], links', flows', accounts')
    PROVE  visits' \in Seq(Visits) /\ VisitsOK'
<1>1. visits \in Seq(Visits)
  BY DEF SignInRows
<1>2. /\ visits' \in Seq(Visits) /\ DOMAIN visits' = DOMAIN visits
      /\ visits'[v] = [visits[v] EXCEPT !.at = at]
      /\ \A w \in DOMAIN visits : w # v => visits'[w] = visits[w]
  BY <1>1, GoesOn
<1>3. \A w \in DOMAIN visits : VisitOK(visits[w], links', flows', accounts')
  BY VisitStaysOK DEF VisitsOK
<1> QED
  BY <1>2, <1>3 DEF VisitsOK

LEMMA VisitArrives ==
    ASSUME SignInRows, VisitsOK, NEW visit \in Visits, Arrives(visit), UNCHANGED <<links, flows, accounts>>,
           VisitOK(visit, links, flows, accounts)
    PROVE  visits' \in Seq(Visits) /\ VisitsOK'
<1>1. visits \in Seq(Visits)
  BY DEF SignInRows
<1>2. /\ visits' \in Seq(Visits)
      /\ DOMAIN visits' = DOMAIN visits \cup {Len(visits) + 1}
      /\ visits'[Len(visits) + 1] = visit
      /\ \A w \in DOMAIN visits : visits'[w] = visits[w]
  BY <1>1, ArrivesLast
<1> QED
  BY <1>2 DEF VisitsOK

\* A record is the same in all but the field that is changed.
LEMMA VisitAt ==
    ASSUME NEW visit \in Visits, NEW at \in InFlight \cup Replies
    PROVE  LET next == [visit EXCEPT !.at = at] IN
           /\ next \in Visits /\ next.at = at /\ next.about = visit.about /\ next.id = visit.id
           /\ next.who = visit.who /\ next.seen = visit.seen /\ next.since = visit.since
BY DEF Visits

SignInInv == SignInRows /\ Environment /\ VisitsOK /\ FoldedInv

\* A request that arrives holds no proof yet.
LEMMA NobodyArrivesProved ==
    ASSUME SignInInv,
           \/ \E a \in Addresses : AskForLink(a)
           \/ \E l \in inbox : ClickLink(l)
           \/ \E f \in DOMAIN flows : Callback(f)
    PROVE  /\ \E visit \in Visits :
                Arrives(visit) /\ visit.at \notin Held /\ VisitOK(visit, links, flows, accounts)
           /\ UNCHANGED <<clock, settings, secret, links, inbox, flows, accounts, sessions>>
           /\ jar' \in {jar, [jar EXCEPT !.flow = 0]}
<1>0. /\ clock \in 0..MaxTime /\ visits \in Seq(Visits) /\ links \in Seq(Link) /\ flows \in Seq(Flow)
      /\ inbox \subseteq DOMAIN links /\ FoldedInv /\ 0 \in 0..MaxTime
  BY SignInAssumption DEF SignInInv, SignInRows, Environment
<1>1. UNCHANGED <<clock, settings, secret, links, inbox, flows, accounts, sessions>>
        /\ jar' \in {jar, [jar EXCEPT !.flow = 0]}
  BY DEF AskForLink, ClickLink, Callback
<1>2. ASSUME NEW a \in Addresses, AskForLink(a)
      PROVE  \E visit \in Visits :
               Arrives(visit) /\ visit.at \notin Held /\ VisitOK(visit, links, flows, accounts)
  <2> DEFINE at == IF WithinRequestLimit(Cardinality(RecentLinks(Fold(a)))) THEN "counted" ELSE "nothing"
             visit == [at |-> at, about |-> "address", id |-> 0, who |-> Fold(a), since |-> clock,
                       seen |-> Len(links)]
  <2>1. at \in {"counted", "nothing"} /\ Len(links) \in Nat
    BY <1>0
  <2>2. visit \in Visits /\ visit.at \notin Held
    BY <1>0, <2>1, FoldIsFolded DEF Visits, InFlight, Replies, Held
  <2>3. VisitOK(visit, links, flows, accounts)
    BY <2>1, FoldIsFolded DEF VisitOK, Held
  <2>4. Arrives(visit)
    BY <1>2 DEF AskForLink
  <2> HIDE DEF visit
  <2> QED
    BY <2>2, <2>3, <2>4
<1>3. ASSUME NEW l \in inbox, ClickLink(l)
      PROVE  \E visit \in Visits :
               Arrives(visit) /\ visit.at \notin Held /\ VisitOK(visit, links, flows, accounts)
  <2> DEFINE visit == [at |-> LinkStatus(links[l]), about |-> "link", id |-> l, who |-> links[l].who,
                       since |-> 0, seen |-> 0]
  <2>1. LinkStatus(links[l]) \in {"consumed", "expired", "valid"}
          /\ (LinkStatus(links[l]) = "consumed" => links[l].consumed)
    BY DEF LinkStatus
  <2>2. l \in Nat /\ l \in DOMAIN links /\ links[l].who \in Addresses
    <3>1. l \in DOMAIN links /\ DOMAIN links \subseteq Nat
      BY <1>0
    <3>2. links[l] \in Link
      BY <1>0, <3>1
    <3> QED
      BY <3>1, <3>2 DEF Link
  <2>3. visit \in Visits /\ visit.at \notin Held
    BY <1>0, <2>1, <2>2 DEF Visits, InFlight, Replies, Held
  <2>4. VisitOK(visit, links, flows, accounts)
    BY <2>1, <2>2 DEF VisitOK, Held
  <2>5. Arrives(visit)
    BY <1>3 DEF ClickLink
  <2> HIDE DEF visit
  <2> QED
    BY <2>3, <2>4, <2>5
<1>4. ASSUME NEW f \in DOMAIN flows, Callback(f)
      PROVE  \E visit \in Visits :
               Arrives(visit) /\ visit.at \notin Held /\ VisitOK(visit, links, flows, accounts)
  <2>1. PICK canceled \in BOOLEAN :
          Arrives([at |-> CheckFlow(f, canceled), about |-> "flow", id |-> f,
                   who |-> NoEmail, since |-> 0, seen |-> Len(flows)])
    BY <1>4 DEF Callback
  <2> DEFINE visit == [at |-> CheckFlow(f, canceled), about |-> "flow", id |-> f,
                       who |-> NoEmail, since |-> 0, seen |-> Len(flows)]
  <2>2. CheckFlow(f, canceled) \in {"denied", "exchanging", "state"}
    BY DEF CheckFlow
  <2>3. f \in Nat /\ Len(flows) \in Nat
    BY <1>0
  \* The callback is of the cookie's flow, and that is the newest.
  <2>4. CheckFlow(f, canceled) = "exchanging" => f = Len(flows)
    BY <1>0, <2>3 DEF CheckFlow, StateMatches, UnsealFlow, FoldedInv
  <2>5. visit \in Visits /\ visit.at \notin Held
    BY <1>0, <2>2, <2>3 DEF Visits, InFlight, Replies, Held
  <2>6. VisitOK(visit, links, flows, accounts)
    BY <2>2, <2>4 DEF VisitOK, Held
  <2>7. Arrives(visit)
    BY <2>1
  <2> HIDE DEF visit
  <2> QED
    BY <2>5, <2>6, <2>7
<1> QED
  BY <1>1, <1>2, <1>3, <1>4

LEMMA SignInInvHolds == SignInSpec => []SignInInv
<1>1. SignInInit => SignInInv
  <2>1. SignInInit => TypeOKSignIn
    BY SignInAssumption DEF SignInInit, TypeOKSignIn
  <2> QED
    BY <2>1, TypesAreRows DEF SignInInit, SignInInv, VisitsOK, FoldedInv
<1>2. ASSUME SignInInv, [SignInNext]_signInVars
      PROVE  SignInInv'
  <2>0. /\ clock \in 0..MaxTime /\ visits \in Seq(Visits) /\ links \in Seq(Link)
        /\ flows \in Seq(Flow) /\ sessions \in Seq(Session) /\ accounts \subseteq Addresses
        /\ inbox \subseteq DOMAIN links
        /\ jar \in [session : 0..Len(sessions), flow : 0..Len(flows)]
        /\ secret \in Nat /\ SignInRows /\ Environment /\ VisitsOK /\ FoldedInv /\ 0 \in 0..MaxTime
    BY <1>2, SignInAssumption DEF SignInInv, SignInRows, Environment
  <2>1. /\ \A v \in DOMAIN visits : visits[v] \in Visits
        /\ \A l \in DOMAIN links : links[l] \in Link
        /\ \A f \in DOMAIN flows : flows[f] \in Flow
        /\ \A s \in DOMAIN sessions : sessions[s] \in Session
    BY <2>0
  <2>2. CASE Tick
    <3>1. UNCHANGED <<settings, secret, links, inbox, flows, jar, visits, accounts, sessions>>
            /\ clock' \in 0..MaxTime
      BY <2>0, <2>2, SignInAssumption DEF Tick
    <3> QED
      BY <2>0, <3>1 DEF SignInInv, SignInRows, Environment, VisitsOK, FoldedInv
  <2>3. CASE Redeploy
    <3>1. visits' \in Seq(Visits) /\ VisitsOK'
      <4>1. \A v \in DOMAIN visits :
              LET dead == [visits[v] EXCEPT !.at = "dead"] IN
              dead \in Visits /\ VisitOK(dead, links, flows, accounts)
        <5>1. SUFFICES ASSUME NEW v \in DOMAIN visits
                       PROVE  LET dead == [visits[v] EXCEPT !.at = "dead"] IN
                              dead \in Visits /\ VisitOK(dead, links, flows, accounts)
          OBVIOUS
        <5>2. VisitOK(visits[v], links, flows, accounts) /\ visits[v] \in Visits
          BY <2>0, <2>1 DEF VisitsOK
        <5> DEFINE dead == [visits[v] EXCEPT !.at = "dead"]
        <5>3. /\ dead \in Visits /\ dead.at = "dead" /\ dead.about = visits[v].about
              /\ dead.id = visits[v].id /\ dead.who = visits[v].who
          BY <5>2, VisitAt DEF Replies
        <5> HIDE DEF dead
        <5>4. VisitOK(dead, links, flows, accounts)
          BY <5>2, <5>3 DEF VisitOK, Held
        <5> QED
          BY <5>3, <5>4 DEF dead
      <4>2. DOMAIN visits' = DOMAIN visits /\ \A v \in DOMAIN visits :
              visits'[v] \in {visits[v], [visits[v] EXCEPT !.at = "dead"]}
        BY <2>0, <2>3 DEF Redeploy
      <4>3. UNCHANGED <<links, flows, accounts>>
        BY <2>3 DEF Redeploy
      <4>4. \A v \in DOMAIN visits : visits'[v] \in Visits /\ VisitOK(visits'[v], links, flows, accounts)
        BY <2>0, <2>1, <4>1, <4>2 DEF VisitsOK
      <4>5. visits' \in Seq(Visits)
        <5>1. visits' = [v \in 1..Len(visits) |-> visits'[v]]
          BY <2>0, <2>3 DEF Redeploy
        <5> QED
          BY <2>0, <4>4, <5>1, SMTT(40)
      <4> QED
        BY <4>2, <4>3, <4>4, <4>5 DEF VisitsOK
    <3>2. UNCHANGED <<clock, links, inbox, flows, jar, accounts, sessions>>
            /\ settings' \subseteq Names /\ secret' \in 0..MaxRotations
      BY <2>0, <2>3, SignInAssumption DEF Redeploy, Environment
    <3> QED
      BY <2>0, <3>1, <3>2 DEF SignInInv, SignInRows, Environment, FoldedInv
  <2>4. CASE Logout
    <3>1. sessions' \in Seq(Session) /\ Len(sessions') = Len(sessions)
      <4>1. jar.session \in DOMAIN sessions
        BY <2>0, <2>4 DEF Logout
      <4>2. [sessions[jar.session] EXCEPT !.open = FALSE] \in Session
        BY <2>1, <4>1 DEF Session
      <4>3. sessions' = [sessions EXCEPT ![jar.session] = [sessions[jar.session] EXCEPT !.open = FALSE]]
        BY <2>4 DEF Logout
      <4> QED
        BY <2>0, <4>1, <4>2, <4>3
    <3>2. jar' \in [session : 0..Len(sessions), flow : 0..Len(flows)] /\ jar'.flow = jar.flow
      BY <2>0, <2>4 DEF Logout
    <3>3. UNCHANGED <<clock, settings, secret, links, inbox, flows, visits, accounts>>
      BY <2>4 DEF Logout
    <3> QED
      BY <2>0, <3>1, <3>2, <3>3 DEF SignInInv, SignInRows, Environment, VisitsOK, FoldedInv
  <2>5. CASE \/ \E a \in Addresses : AskForLink(a)
             \/ \E l \in inbox : ClickLink(l)
             \/ \E f \in DOMAIN flows : Callback(f)
    <3>1. PICK visit \in Visits : Arrives(visit) /\ VisitOK(visit, links, flows, accounts)
      BY <1>2, <2>5, NobodyArrivesProved
    <3>2. UNCHANGED <<clock, settings, secret, links, inbox, flows, accounts, sessions>>
            /\ jar' \in {jar, [jar EXCEPT !.flow = 0]}
      BY <1>2, <2>5, NobodyArrivesProved
    <3>3. visits' \in Seq(Visits) /\ VisitsOK'
      BY <2>0, <3>1, <3>2, VisitArrives
    <3>4. jar' \in [session : 0..Len(sessions), flow : 0..Len(flows)] /\ jar'.flow \in {0, jar.flow}
      BY <2>0, <3>2
    <3> QED
      BY <2>0, <3>2, <3>3, <3>4 DEF SignInInv, SignInRows, Environment, FoldedInv
  <2>6. ASSUME NEW d \in Doors, StartRoute(d)
        PROVE  SignInInv'
    <3>1. flows' = Append(flows, SealFlow(d, clock + FlowTTL)) /\ jar' = [jar EXCEPT !.flow = Len(flows')]
      BY <2>6 DEF StartRoute, StartFlow
    <3>2. SealFlow(d, clock + FlowTTL) \in Flow
      BY <2>0, SignInAssumption DEF SealFlow, Flow
    <3>3. flows' \in Seq(Flow) /\ Len(flows') = Len(flows) + 1
      BY <2>0, <3>1, <3>2
    <3>4. jar' \in [session : 0..Len(sessions), flow : 0..Len(flows')] /\ jar'.flow = Len(flows')
      BY <2>0, <3>1, <3>3
    <3>5. UNCHANGED <<clock, settings, secret, links, inbox, visits, accounts, sessions>>
      BY <2>6 DEF StartRoute
    <3>6. Grows
      <4>1. DOMAIN flows \subseteq DOMAIN flows' /\ \A f \in DOMAIN flows : flows'[f] = flows[f]
        BY <2>0, <3>1, <3>2
      <4> QED
        BY <3>5, <4>1 DEF Grows
    <3>7. VisitsOK'
      BY <2>0, <3>5, <3>6, VisitStaysOK DEF VisitsOK
    <3> QED
      BY <2>0, <3>3, <3>4, <3>5, <3>7 DEF SignInInv, SignInRows, Environment, FoldedInv
  \* A request goes on, or dies.
  <2>7. ASSUME NEW v \in DOMAIN visits, NEW at \in InFlight \cup Replies
         PROVE  LET next == [visits[v] EXCEPT !.at = at] IN
                /\ VisitOK(visits[v], links, flows, accounts)
                /\ next.at = at /\ next.about = visits[v].about /\ next.id = visits[v].id
                /\ next.who = visits[v].who /\ next.seen = visits[v].seen
    BY <2>0, <2>1, VisitAt DEF VisitsOK
  <2>8. ASSUME NEW v \in DOMAIN visits, NEW at \in Replies, Goes(v, at), at \notin {"signed in", "consumed"},
                Grows
         PROVE  visits' \in Seq(Visits) /\ VisitsOK'
    <3> DEFINE next == [visits[v] EXCEPT !.at = at]
    <3>1. VisitOK(next, links, flows, accounts)
      <4>1. VisitOK(visits[v], links, flows, accounts) /\ next.at = at /\ next.about = visits[v].about
              /\ next.id = visits[v].id /\ next.who = visits[v].who
        BY <2>7, <2>8
      <4> HIDE DEF next
      <4> QED
        BY <2>8, <4>1 DEF VisitOK, Held, Replies
    <3> HIDE DEF next
    <3>2. VisitOK(next, links', flows', accounts')
      BY <2>8, <3>1, VisitStaysOK
    <3> QED
      BY <2>0, <2>8, <3>2, VisitGoesOn DEF next
  <2>9. ASSUME NEW v \in DOMAIN visits, SendLink(v)
         PROVE  SignInInv'
    <3> DEFINE row == [who |-> visits[v].who, created |-> clock, expires |-> visits[v].since + Window,
                       seen |-> visits[v].seen, consumed |-> FALSE]
    <3>1. visits[v].who \in Addresses /\ visits[v].who[2] = "folded"
      BY <2>0, <2>9 DEF SendLink, VisitsOK, VisitOK
    <3>2. row \in Link /\ row.who[2] = "folded"
      BY <2>0, <2>1, <3>1, SignInAssumption, SMTT(40) DEF Link, Visits
    <3>3. links' = Append(links, row)
      BY <2>9 DEF SendLink
    <3> HIDE DEF row
    <3>4. /\ links' \in Seq(Link) /\ DOMAIN links' = DOMAIN links \cup {Len(links')}
          /\ links'[Len(links')] = row /\ \A l \in DOMAIN links : links'[l] = links[l]
      BY <2>0, <3>2, <3>3
    <3>5. inbox' \subseteq inbox \cup {Len(links')}
            /\ UNCHANGED <<clock, settings, secret, flows, jar, accounts, sessions>>
      BY <2>9 DEF SendLink
    <3>6. Grows
      BY <3>4, <3>5 DEF Grows
    <3>7. visits' \in Seq(Visits) /\ VisitsOK'
      BY <2>8, <2>9, <3>6 DEF SendLink, Replies
    <3> QED
      BY <2>0, <3>2, <3>4, <3>5, <3>7 DEF SignInInv, SignInRows, Environment, FoldedInv
  <2>10. ASSUME NEW v \in DOMAIN visits, ClaimLink(v)
         PROVE  SignInInv'
    <3> DEFINE l == visits[v].id
               at == IF links[l].consumed THEN "consumed" ELSE "proved"
               next == [visits[v] EXCEPT !.at = at]
               row == [links[l] EXCEPT !.consumed = TRUE]
    <3>1. visits[v].about = "link" /\ l \in DOMAIN links /\ visits[v].who = links[l].who
      BY <2>0, <2>10 DEF ClaimLink, VisitsOK, VisitOK
    <3>2. links' = [links EXCEPT ![l] = row] /\ Goes(v, at)
            /\ UNCHANGED <<clock, settings, secret, inbox, flows, jar, accounts, sessions>>
      BY <2>10 DEF ClaimLink
    <3>3. row \in Link /\ row.consumed /\ row.who = links[l].who
      BY <2>1, <3>1 DEF Link
    <3>4. /\ links' \in Seq(Link) /\ DOMAIN links' = DOMAIN links
          /\ links'[l].consumed /\ links'[l].who = links[l].who
          /\ \A k \in DOMAIN links : k # l => links'[k] = links[k]
      <4> HIDE DEF row, l, at
      <4> QED
        BY <2>0, <3>1, <3>2, <3>3
    <3>5. Grows
      BY <3>2, <3>4 DEF Grows
    <3>6. VisitOK(next, links', flows', accounts')
      <4>1. /\ VisitOK(visits[v], links, flows, accounts) /\ next.at = at /\ next.about = "link"
            /\ next.id = l /\ next.who = visits[v].who
        BY <2>7, <3>1 DEF InFlight, Replies
      <4> HIDE DEF next
      <4> QED
        BY <3>1, <3>4, <4>1 DEF VisitOK, Held
    <3>7. visits' \in Seq(Visits) /\ VisitsOK'
      <4>1. at \in InFlight \cup Replies
        BY DEF InFlight, Replies
      <4> HIDE DEF at
      <4> QED
        BY <2>0, <3>2, <3>5, <3>6, <4>1, VisitGoesOn
    <3>8. \A k \in DOMAIN links' : links'[k].who[2] = "folded"
      <4>1. \A k \in DOMAIN links : links'[k].who = links[k].who
        BY <3>4
      <4> QED
        BY <2>0, <3>4, <4>1 DEF FoldedInv
    <3> QED
      BY <2>0, <3>2, <3>4, <3>7, <3>8 DEF SignInInv, SignInRows, Environment, FoldedInv
  <2>11. ASSUME NEW v \in DOMAIN visits, Exchange(v)
         PROVE  SignInInv'
    <3> DEFINE f == visits[v].id
               spentFlow == [flows[f] EXCEPT !.spent = TRUE]
    <3>1. /\ visits[v].about = "flow" /\ f \in DOMAIN flows /\ visits[v].seen = f
          /\ UNCHANGED <<clock, settings, secret, links, inbox, accounts, sessions>>
      BY <2>0, <2>11 DEF Exchange, VisitsOK, VisitOK
    <3>2. flows' = [flows EXCEPT ![f] = spentFlow]
      BY <2>11 DEF Exchange, TokenRequest
    <3>3. spentFlow \in Flow /\ spentFlow.spent
      BY <2>1, <3>1 DEF Flow
    <3>4. /\ flows' \in Seq(Flow) /\ DOMAIN flows' = DOMAIN flows /\ Len(flows') = Len(flows)
          /\ flows'[f].spent /\ \A g \in DOMAIN flows : g # f => flows'[g] = flows[g]
      <4> HIDE DEF spentFlow, f
      <4> QED
        BY <2>0, <3>1, <3>2, <3>3
    <3>5. Grows
      BY <3>1, <3>4 DEF Grows
    <3>6. jar' \in [session : 0..Len(sessions), flow : 0..Len(flows)] /\ jar'.flow \in {0, jar.flow}
      <4>1. jar' \in {jar, [jar EXCEPT !.flow = 0]}
        BY <2>11 DEF Exchange
      <4> QED
        BY <2>0, <4>1
    <3>7. visits' \in Seq(Visits) /\ VisitsOK'
      <4>1. CASE Goes(v, "failed") \/ Goes(v, "no_email") \/ Goes(v, "unverified")
        BY <2>8, <3>5, <4>1 DEF Replies
      <4>2. ASSUME NEW claims \in Claims, AcceptProfile(Profile(claims)).reason = "ok",
                   visits' = [visits EXCEPT ![v].at = "proved",
                                            ![v].who = AcceptProfile(Profile(claims)).email]
            PROVE  visits' \in Seq(Visits) /\ VisitsOK'
        <5> DEFINE who  == AcceptProfile(Profile(claims)).email
                   next == [visits[v] EXCEPT !.at = "proved", !.who = who]
        <5>1. claims.email \in Addresses /\ who = Fold(claims.email)
          BY <4>2 DEF AcceptProfile, Profile, Claims
        <5>2. who \in Addresses /\ who[2] = "folded"
          BY <5>1, FoldIsFolded
        <5>3. /\ next \in Visits /\ next.at = "proved" /\ next.about = "flow" /\ next.id = f
              /\ next.who = who /\ next.seen = f
          <6> HIDE DEF who
          <6> QED
            BY <2>1, <3>1, <5>2 DEF Visits, InFlight
        <5>4. VisitOK(next, links', flows', accounts')
          <6> HIDE DEF next, who
          <6> QED
            BY <3>1, <3>4, <5>2, <5>3 DEF VisitOK, Held
        <5>5. visits' = [visits EXCEPT ![v] = next]
          BY <4>2
        <5>6. \A w \in DOMAIN visits : VisitOK(visits[w], links', flows', accounts')
          BY <2>0, <3>5, VisitStaysOK DEF VisitsOK
        <5> HIDE DEF next
        <5>7. /\ visits' \in Seq(Visits) /\ DOMAIN visits' = DOMAIN visits /\ visits'[v] = next
              /\ \A w \in DOMAIN visits : w # v => visits'[w] = visits[w]
          BY <2>0, <5>3, <5>5
        <5> QED
          BY <5>4, <5>6, <5>7 DEF VisitsOK
      <4>3. \A claims \in Claims : AcceptProfile(Profile(claims)).reason \in {"ok", "no_email", "unverified"}
        BY DEF AcceptProfile
      <4> QED
        BY <2>11, <4>1, <4>2, <4>3 DEF Exchange
    <3> QED
      BY <2>0, <3>1, <3>4, <3>6, <3>7 DEF SignInInv, SignInRows, Environment, FoldedInv
  <2>12. ASSUME NEW v \in DOMAIN visits, NEW door \in {"link", "flow"}, UpsertUser(v, door)
         PROVE  SignInInv'
    <3> DEFINE next == [visits[v] EXCEPT !.at = "entered"]
    <3>1. visits[v].at = "proved" /\ visits[v].about = door /\ accounts' = accounts \cup {visits[v].who}
            /\ Goes(v, "entered") /\ UNCHANGED <<clock, settings, secret, links, inbox, flows, jar, sessions>>
      BY <2>12 DEF UpsertUser
    <3>2. visits[v].who \in Addresses /\ visits[v].who[2] = "folded"
      <4>1. VisitOK(visits[v], links, flows, accounts)
        BY <2>0 DEF VisitsOK
      <4>2. CASE door = "link"
        <5>1. visits[v].id \in DOMAIN links /\ visits[v].who = links[visits[v].id].who
          BY <3>1, <4>1, <4>2 DEF VisitOK
        <5> QED
          BY <2>0, <2>1, <5>1 DEF FoldedInv, Link
      <4>3. CASE door = "flow"
        BY <3>1, <4>1, <4>3 DEF VisitOK, Held
      <4> QED
        BY <4>2, <4>3
    <3>3. Grows
      BY <3>1 DEF Grows
    <3>4. VisitOK(next, links', flows', accounts')
      <4>1. /\ VisitOK(visits[v], links, flows, accounts) /\ next.at = "entered"
            /\ next.about = visits[v].about /\ next.id = visits[v].id /\ next.who = visits[v].who
            /\ next.seen = visits[v].seen
        BY <2>7 DEF InFlight
      <4> HIDE DEF next
      <4> QED
        BY <3>1, <4>1 DEF VisitOK, Held
    <3>5. visits' \in Seq(Visits) /\ VisitsOK'
      BY <2>0, <3>1, <3>3, <3>4, VisitGoesOn DEF InFlight
    <3> QED
      BY <2>0, <3>1, <3>2, <3>5 DEF SignInInv, SignInRows, Environment, FoldedInv
  <2>13. ASSUME NEW v \in DOMAIN visits, LinkSignsIn(v) \/ FlowSignsIn(v)
         PROVE  SignInInv'
    <3>1. PICK door \in {"link", "flow"} : IssueSession(v, door)
      BY <2>13 DEF LinkSignsIn, FlowSignsIn
    <3> DEFINE next == [visits[v] EXCEPT !.at = "signed in"]
               row  == [who |-> visits[v].who, open |-> TRUE, proof |-> <<door, visits[v].id>>]
    <3>2. visits[v].at = "entered" /\ visits[v].about = door /\ sessions' = Append(sessions, row)
            /\ Goes(v, "signed in") /\ UNCHANGED <<clock, settings, secret, links, inbox, flows, accounts>>
      BY <3>1 DEF IssueSession
    <3>3. row \in Session
      BY <2>0, <2>1, <3>2 DEF Session, Visits, VisitsOK, VisitOK
    <3>4. sessions' \in Seq(Session) /\ Len(sessions') = Len(sessions) + 1
      <4>1. sessions' = Append(sessions, row)
        BY <3>2
      <4> HIDE DEF row
      <4> QED
        BY <2>0, <3>3, <4>1
    <3>5. jar' \in [session : 0..Len(sessions'), flow : 0..Len(flows)] /\ jar'.flow \in {0, jar.flow}
      BY <2>0, <2>13, <3>4 DEF LinkSignsIn, FlowSignsIn
    <3>6. Grows
      BY <3>2 DEF Grows
    <3>7. VisitOK(next, links', flows', accounts')
      <4>1. /\ VisitOK(visits[v], links, flows, accounts) /\ next.at = "signed in"
            /\ next.about = visits[v].about /\ next.id = visits[v].id /\ next.who = visits[v].who
            /\ next.seen = visits[v].seen
        BY <2>7 DEF Replies
      <4> HIDE DEF next
      <4> QED
        BY <3>2, <4>1 DEF VisitOK, Held
    <3>8. visits' \in Seq(Visits) /\ VisitsOK'
      BY <2>0, <3>2, <3>6, <3>7, VisitGoesOn DEF Replies
    <3> QED
      BY <2>0, <3>2, <3>4, <3>5, <3>8 DEF SignInInv, SignInRows, Environment, FoldedInv
  <2>14. ASSUME NEW v \in DOMAIN visits, RequestDies(v)
         PROVE  SignInInv'
    <3>1. Goes(v, "dead") /\ UNCHANGED <<clock, settings, secret, links, inbox, flows, jar, accounts, sessions>>
      BY <2>14 DEF RequestDies
    <3>2. Grows
      BY <3>1 DEF Grows
    <3>3. visits' \in Seq(Visits) /\ VisitsOK'
      BY <2>8, <3>1, <3>2 DEF Replies
    <3> QED
      BY <2>0, <3>1, <3>3 DEF SignInInv, SignInRows, Environment, FoldedInv
  <2>15. CASE UNCHANGED signInVars
    BY <2>0, <2>15 DEF signInVars, SignInInv, SignInRows, Environment, VisitsOK, FoldedInv
  <2> QED
    BY <1>2, <2>2, <2>3, <2>4, <2>5, <2>6, <2>9, <2>10, <2>11, <2>12, <2>13, <2>14, <2>15
       DEF SignInNext, RedeemSignInLink, CompleteFlow
<1> QED
  BY <1>1, <1>2, PTL DEF SignInSpec

\* Type correctness of links, flows, requests, accounts and sessions.
THEOREM SignInTypeCorrect == SignInSpec => []TypeOKSignIn
<1>1. SignInInv => TypeOKSignIn
  BY TypesAreRows DEF SignInInv
<1> QED
  BY <1>1, SignInInvHolds, PTL

-----------------------------------------------------------------------------
(* Accounts and links.                                                     *)

\* The two doors land on the same row, for any mailboxes and spellings
\* (domain/oauth.ts:90).
THEOREM OneAccountPerMailboxHolds == SignInSpec => []OneAccountPerMailbox
<1>1. SignInInv => OneAccountPerMailbox
  BY DEF SignInInv, SignInRows, FoldedInv, OneAccountPerMailbox, Fold, Addresses
<1> QED
  BY <1>1, SignInInvHolds, PTL

\* What a later click of a link is told, after one was told that it is spent
\* (domain/magic-link.ts:19).
THEOREM SpentNeverExpiresHolds == SignInSpec => SpentNeverExpires
<1>1. ASSUME SignInInv, [SignInNext]_signInVars
      PROVE  [\A v \in DOMAIN visits' \ DOMAIN visits :
                visits'[v].at = "expired" =>
                  \A u \in DOMAIN visits :
                    visits[u].about = "link" /\ visits[u].id = visits'[v].id
                      => visits[u].at \notin {"consumed", "proved", "entered", "signed in"}]_visits
  <2> SUFFICES ASSUME NEW v \in DOMAIN visits' \ DOMAIN visits, visits'[v].at = "expired",
                      NEW u \in DOMAIN visits, visits[u].about = "link", visits[u].id = visits'[v].id
               PROVE  visits[u].at \notin {"consumed", "proved", "entered", "signed in"}
    OBVIOUS
  <2>0. visits \in Seq(Visits) /\ VisitOK(visits[u], links, flows, accounts)
    BY <1>1 DEF SignInInv, SignInRows, VisitsOK
  <2>1. ASSUME NEW at, NEW w \in DOMAIN visits, Goes(w, at)
        PROVE  FALSE
    BY <2>0, <2>1 DEF Goes
  <2>2. ASSUME NEW visit, Arrives(visit)
        PROVE  visit.at = "expired" /\ visit.id = visits'[v].id
    BY <2>0, <2>2 DEF Arrives
  <2>3. ASSUME NEW l \in inbox, ClickLink(l)
        PROVE  visits[u].at \notin {"consumed", "proved", "entered", "signed in"}
    <3> DEFINE visit == [at |-> LinkStatus(links[l]), about |-> "link", id |-> l, who |-> links[l].who,
                         since |-> 0, seen |-> 0]
    <3>1. Arrives(visit)
      BY <2>3 DEF ClickLink
    <3>2. visit.at = LinkStatus(links[l]) /\ visit.id = l
      OBVIOUS
    <3> HIDE DEF visit
    <3>3. LinkStatus(links[l]) = "expired" /\ visits[u].id = l
      BY <2>2, <3>1, <3>2
    <3>4. ~links[l].consumed
      BY <3>3 DEF LinkStatus
    <3> QED
      BY <2>0, <3>3, <3>4 DEF VisitOK, Held
  <2>4. ASSUME NEW a \in Addresses, AskForLink(a)
        PROVE  FALSE
    <3>1. PICK at \in {"counted", "nothing"} :
            Arrives([at |-> at, about |-> "address", id |-> 0, who |-> Fold(a), since |-> clock,
                     seen |-> Len(links)])
      BY <2>4 DEF AskForLink
    <3>2. [at |-> at, about |-> "address", id |-> 0, who |-> Fold(a), since |-> clock,
           seen |-> Len(links)].at = "expired"
      BY <2>2, <3>1
    <3> QED
      BY <3>2
  <2>5. ASSUME NEW f \in DOMAIN flows, Callback(f)
        PROVE  FALSE
    <3>1. PICK at \in {"denied", "exchanging", "state"} :
            Arrives([at |-> at, about |-> "flow", id |-> f, who |-> NoEmail, since |-> 0,
                     seen |-> Len(flows)])
      BY <2>5 DEF Callback, CheckFlow
    <3>2. [at |-> at, about |-> "flow", id |-> f, who |-> NoEmail, since |-> 0,
           seen |-> Len(flows)].at = "expired"
      BY <2>2, <3>1
    <3> QED
      BY <3>2
  <2>6. ASSUME DOMAIN visits' = DOMAIN visits
        PROVE  FALSE
    BY <2>6
  <2>7. CASE Tick \/ Redeploy \/ Logout \/ (\E d \in Doors : StartRoute(d)) \/ UNCHANGED signInVars
    BY <2>6, <2>7 DEF Tick, Redeploy, Logout, StartRoute, signInVars
  <2>8. ASSUME NEW w \in DOMAIN visits,
               \/ SendLink(w) \/ ClaimLink(w) \/ Exchange(w) \/ RedeemSignInLink(w) \/ CompleteFlow(w)
               \/ LinkSignsIn(w) \/ FlowSignsIn(w) \/ RequestDies(w)
        PROVE  FALSE
    <3>1. CASE Exchange(w)
      BY <2>1, <2>6, <3>1 DEF Exchange
    <3>2. CASE ~Exchange(w)
      BY <2>1, <2>8, <3>2 DEF SendLink, ClaimLink, RedeemSignInLink, CompleteFlow, UpsertUser,
         LinkSignsIn, FlowSignsIn, IssueSession, RequestDies
    <3> QED
      BY <3>1, <3>2
  <2> QED
    BY <1>1, <2>3, <2>4, <2>5, <2>7, <2>8 DEF SignInNext
<1> QED
  BY <1>1, SignInInvHolds, PTL DEF SignInSpec, SpentNeverExpires

-----------------------------------------------------------------------------
(* Sessions.                                                               *)

\* The strengthening: a link or a code is a proof to one request at most, and
\* behind every session is the one that has it.
SameProof(visit, other) == visit.about = other.about /\ visit.id = other.id

ProofInv ==
    /\ \A v, w \in DOMAIN visits :
         visits[v].at \in Held /\ visits[w].at \in Held /\ SameProof(visits[v], visits[w]) => v = w
    /\ \A s \in DOMAIN sessions :
         \E v \in DOMAIN visits :
           /\ visits[v].at = "signed in" /\ sessions[s].proof = <<visits[v].about, visits[v].id>>
           /\ sessions[s].who = visits[v].who
    /\ \A s, t \in DOMAIN sessions : sessions[s].proof = sessions[t].proof => s = t

LEMMA ProofInvHolds == SignInSpec => []ProofInv
<1>1. SignInInit => ProofInv
  BY DEF SignInInit, ProofInv
<1>2. ASSUME SignInInv, ProofInv, [SignInNext]_signInVars
      PROVE  ProofInv'
  <2>0. /\ visits \in Seq(Visits) /\ links \in Seq(Link) /\ flows \in Seq(Flow) /\ sessions \in Seq(Session)
        /\ \A v \in DOMAIN visits : visits[v] \in Visits /\ VisitOK(visits[v], links, flows, accounts)
    BY <1>2 DEF SignInInv, SignInRows, VisitsOK
  \* Nobody comes to hold a proof, and who is signed in stays so.
  <2>1. ASSUME \A v \in DOMAIN visits' : visits'[v].at \in Held =>
                 v \in DOMAIN visits /\ visits[v].at \in Held /\ SameProof(visits[v], visits'[v]),
               \A v \in DOMAIN visits : visits[v].at = "signed in" =>
                 v \in DOMAIN visits' /\ visits'[v] = visits[v],
               DOMAIN sessions' = DOMAIN sessions,
               \A s \in DOMAIN sessions :
                 sessions'[s].proof = sessions[s].proof /\ sessions'[s].who = sessions[s].who
        PROVE  ProofInv'
    <3>1. \A v, w \in DOMAIN visits' :
            visits'[v].at \in Held /\ visits'[w].at \in Held /\ SameProof(visits'[v], visits'[w]) => v = w
      BY <1>2, <2>1 DEF ProofInv, SameProof
    <3>2. \A s \in DOMAIN sessions' :
            \E v \in DOMAIN visits' :
              /\ visits'[v].at = "signed in" /\ sessions'[s].proof = <<visits'[v].about, visits'[v].id>>
              /\ sessions'[s].who = visits'[v].who
      <4>1. SUFFICES ASSUME NEW s \in DOMAIN sessions
                     PROVE  \E v \in DOMAIN visits' :
                              /\ visits'[v].at = "signed in"
                              /\ sessions'[s].proof = <<visits'[v].about, visits'[v].id>>
                              /\ sessions'[s].who = visits'[v].who
        BY <2>1
      <4>2. PICK v \in DOMAIN visits :
              /\ visits[v].at = "signed in" /\ sessions[s].proof = <<visits[v].about, visits[v].id>>
              /\ sessions[s].who = visits[v].who
        BY <1>2 DEF ProofInv
      <4> QED
        BY <2>1, <4>2
    <3>3. \A s, t \in DOMAIN sessions' : sessions'[s].proof = sessions'[t].proof => s = t
      BY <1>2, <2>1 DEF ProofInv
    <3> QED
      BY <3>1, <3>2, <3>3 DEF ProofInv
  <2>2. ASSUME UNCHANGED <<visits, sessions>>
        PROVE  ProofInv'
    BY <1>2, <2>2 DEF ProofInv
  <2>3. ASSUME NEW visit \in Visits, Arrives(visit), visit.at \notin Held, UNCHANGED sessions
        PROVE  ProofInv'
    <3>1. /\ DOMAIN visits' = DOMAIN visits \cup {Len(visits) + 1} /\ visits'[Len(visits) + 1] = visit
          /\ \A w \in DOMAIN visits : visits'[w] = visits[w]
      BY <2>0, <2>3, ArrivesLast
    <3> QED
      BY <2>1, <2>3, <3>1 DEF SameProof
  \* A request that goes on is about what it was.
  <2>4. ASSUME NEW v \in DOMAIN visits, NEW at \in InFlight \cup Replies, Goes(v, at)
        PROVE  /\ DOMAIN visits' = DOMAIN visits
               /\ visits'[v].at = at /\ SameProof(visits[v], visits'[v]) /\ visits'[v].who = visits[v].who
               /\ \A w \in DOMAIN visits : w # v => visits'[w] = visits[w]
    <3> DEFINE next == [visits[v] EXCEPT !.at = at]
    <3>1. next.at = at /\ next.about = visits[v].about /\ next.id = visits[v].id /\ next.who = visits[v].who
      BY <2>0, VisitAt
    <3>2. DOMAIN visits' = DOMAIN visits /\ visits'[v] = next
            /\ \A w \in DOMAIN visits : w # v => visits'[w] = visits[w]
      BY <2>0, <2>4, GoesOn
    <3> HIDE DEF next
    <3> QED
      BY <3>1, <3>2 DEF SameProof
  <2>5. ASSUME NEW v \in DOMAIN visits, NEW at \in InFlight \cup Replies, Goes(v, at),
               visits[v].at # "signed in", at \in Held => visits[v].at \in Held, UNCHANGED sessions
        PROVE  ProofInv'
    BY <2>1, <2>4, <2>5 DEF SameProof
  \* The one that comes to hold a proof spends what nobody had spent.
  <2>6. ASSUME NEW v \in DOMAIN visits, DOMAIN visits' = DOMAIN visits, SameProof(visits[v], visits'[v]),
               visits[v].at # "signed in", UNCHANGED sessions,
               \A w \in DOMAIN visits : w # v => visits'[w] = visits[w],
               \A w \in DOMAIN visits : w # v /\ visits[w].at \in Held => ~SameProof(visits[v], visits[w])
        PROVE  ProofInv'
    <3>1. \A w, x \in DOMAIN visits' :
            visits'[w].at \in Held /\ visits'[x].at \in Held /\ SameProof(visits'[w], visits'[x]) => w = x
      <4>1. ASSUME NEW w \in DOMAIN visits, w # v, visits'[w].at \in Held
            PROVE  ~SameProof(visits'[v], visits'[w]) /\ ~SameProof(visits'[w], visits'[v])
        BY <2>6, <4>1 DEF SameProof
      <4>2. ASSUME NEW w \in DOMAIN visits, NEW x \in DOMAIN visits, w # v, x # v,
                   visits'[w].at \in Held, visits'[x].at \in Held, SameProof(visits'[w], visits'[x])
            PROVE  w = x
        BY <1>2, <2>6, <4>2 DEF ProofInv
      <4> QED
        BY <2>6, <4>1, <4>2
    <3>2. \A s \in DOMAIN sessions' :
            \E w \in DOMAIN visits' :
              /\ visits'[w].at = "signed in" /\ sessions'[s].proof = <<visits'[w].about, visits'[w].id>>
              /\ sessions'[s].who = visits'[w].who
      <4>1. SUFFICES ASSUME NEW s \in DOMAIN sessions
                     PROVE  \E w \in DOMAIN visits' :
                              /\ visits'[w].at = "signed in"
                              /\ sessions'[s].proof = <<visits'[w].about, visits'[w].id>>
                              /\ sessions'[s].who = visits'[w].who
        BY <2>6
      <4>2. PICK w \in DOMAIN visits :
              /\ visits[w].at = "signed in" /\ sessions[s].proof = <<visits[w].about, visits[w].id>>
              /\ sessions[s].who = visits[w].who
        BY <1>2 DEF ProofInv
      <4>3. w # v
        BY <2>6, <4>2
      <4> QED
        BY <2>6, <4>2, <4>3
    <3> QED
      BY <1>2, <2>6, <3>1, <3>2 DEF ProofInv
  <2>7. CASE Tick \/ (\E d \in Doors : StartRoute(d)) \/ UNCHANGED signInVars
    BY <2>2, <2>7 DEF Tick, StartRoute, signInVars
  <2>8. CASE Redeploy
    <3>1. DOMAIN visits' = DOMAIN visits /\ UNCHANGED sessions
            /\ \A v \in DOMAIN visits :
                 visits'[v] = IF visits[v].at \in InFlight THEN [visits[v] EXCEPT !.at = "dead"]
                              ELSE visits[v]
      BY <2>8 DEF Redeploy
    <3>2. ASSUME NEW v \in DOMAIN visits
          PROVE  [visits[v] EXCEPT !.at = "dead"].at = "dead"
      BY <2>0, VisitAt, ZenonT(40) DEF Replies
    <3>3. \A v \in DOMAIN visits : visits'[v] = visits[v] \/ (visits[v].at # "signed in" /\ visits'[v].at = "dead")
      BY <3>1, <3>2 DEF InFlight
    <3> QED
      BY <2>1, <3>1, <3>3 DEF SameProof, Held
  <2>9. CASE Logout
    <3>1. visits' = visits /\ sessions' = [sessions EXCEPT ![jar.session].open = FALSE]
      BY <2>9 DEF Logout
    <3>2. \A s \in DOMAIN sessions : sessions[s] \in Session
      BY <2>0
    <3>3. DOMAIN sessions' = DOMAIN sessions /\ \A s \in DOMAIN sessions :
            sessions'[s].proof = sessions[s].proof /\ sessions'[s].who = sessions[s].who
      BY <2>0, <3>1, <3>2 DEF Session
    <3> QED
      BY <2>1, <3>1, <3>3 DEF SameProof
  <2>10. CASE \/ \E a \in Addresses : AskForLink(a)
              \/ \E l \in inbox : ClickLink(l)
              \/ \E f \in DOMAIN flows : Callback(f)
    BY <1>2, <2>3, <2>10, NobodyArrivesProved
  <2>11. ASSUME NEW v \in DOMAIN visits, SendLink(v) \/ RequestDies(v)
         PROVE  ProofInv'
    BY <2>5, <2>11 DEF SendLink, RequestDies, InFlight, Replies, Held
  <2>12. ASSUME NEW v \in DOMAIN visits, NEW door \in {"link", "flow"}, UpsertUser(v, door)
         PROVE  ProofInv'
    BY <2>5, <2>12 DEF UpsertUser, InFlight, Held
  <2>13. ASSUME NEW v \in DOMAIN visits, ClaimLink(v)
         PROVE  ProofInv'
    <3>1. visits[v].at = "valid" /\ visits[v].about = "link" /\ UNCHANGED sessions
      BY <2>0, <2>13 DEF ClaimLink, VisitOK
    <3>2. CASE links[visits[v].id].consumed
      BY <2>5, <2>13, <3>1, <3>2 DEF ClaimLink, Replies, Held
    <3>3. CASE ~links[visits[v].id].consumed
      <4>1. \A w \in DOMAIN visits : visits[w].at \in Held => ~SameProof(visits[v], visits[w])
        BY <2>0, <3>1, <3>3 DEF VisitOK, SameProof
      <4>2. Goes(v, "proved")
        BY <2>13, <3>3 DEF ClaimLink
      <4> QED
        BY <2>4, <2>6, <3>1, <4>1, <4>2 DEF InFlight
    <3> QED
      BY <3>2, <3>3
  <2>14. ASSUME NEW v \in DOMAIN visits, Exchange(v)
         PROVE  ProofInv'
    <3>1. visits[v].at = "exchanging" /\ visits[v].about = "flow" /\ UNCHANGED sessions
      BY <2>0, <2>14 DEF Exchange, VisitOK
    <3>2. CASE \E at \in {"failed", "no_email", "unverified"} : Goes(v, at)
      BY <2>5, <3>1, <3>2 DEF Replies, Held
    <3>3. ASSUME NEW who, ~flows[visits[v].id].spent,
                 visits' = [visits EXCEPT ![v].at = "proved", ![v].who = who]
          PROVE  ProofInv'
      <4>1. \A w \in DOMAIN visits : visits[w].at \in Held => ~SameProof(visits[v], visits[w])
        BY <2>0, <3>1, <3>3 DEF VisitOK, SameProof
      <4>2. DOMAIN visits' = DOMAIN visits /\ SameProof(visits[v], visits'[v])
              /\ \A w \in DOMAIN visits : w # v => visits'[w] = visits[w]
        BY <2>0, <3>3 DEF Visits, SameProof
      <4> QED
        BY <2>6, <3>1, <4>1, <4>2
    <3>4. \A claims \in Claims : AcceptProfile(Profile(claims)).reason \in {"ok", "no_email", "unverified"}
      BY DEF AcceptProfile
    <3> QED
      BY <2>14, <3>2, <3>3, <3>4 DEF Exchange
  \* A session is of who holds the proof, and nobody else has had one of it.
  <2>15. ASSUME NEW v \in DOMAIN visits, LinkSignsIn(v) \/ FlowSignsIn(v)
         PROVE  ProofInv'
    <3>1. PICK door \in {"link", "flow"} : IssueSession(v, door)
      BY <2>15 DEF LinkSignsIn, FlowSignsIn
    <3> DEFINE row == [who |-> visits[v].who, open |-> TRUE, proof |-> <<door, visits[v].id>>]
               n   == Len(sessions) + 1
    <3>2. visits[v].at = "entered" /\ visits[v].about = door /\ Goes(v, "signed in")
      BY <3>1 DEF IssueSession
    <3>3. sessions' = Append(sessions, row)
      BY <3>1 DEF IssueSession
    <3>4. row.proof = <<visits[v].about, visits[v].id>> /\ row.who = visits[v].who
      BY <3>2
    <3> HIDE DEF row
    <3>5. /\ DOMAIN sessions' = DOMAIN sessions \cup {n} /\ n \notin DOMAIN sessions /\ sessions'[n] = row
          /\ \A s \in DOMAIN sessions : sessions'[s] = sessions[s]
      BY <2>0, <3>3
    <3> HIDE DEF n
    <3>6. /\ DOMAIN visits' = DOMAIN visits /\ visits'[v].at = "signed in"
          /\ visits'[v].about = visits[v].about /\ visits'[v].id = visits[v].id
          /\ visits'[v].who = visits[v].who
          /\ \A w \in DOMAIN visits : w # v => visits'[w] = visits[w]
      BY <2>4, <3>2 DEF Replies, SameProof
    <3>7. \A s \in DOMAIN sessions : sessions[s].proof # row.proof
      <4>1. SUFFICES ASSUME NEW s \in DOMAIN sessions, sessions[s].proof = row.proof
                     PROVE  FALSE
        OBVIOUS
      <4>2. PICK w \in DOMAIN visits :
              visits[w].at = "signed in" /\ sessions[s].proof = <<visits[w].about, visits[w].id>>
        BY <1>2 DEF ProofInv
      <4>3. SameProof(visits[w], visits[v])
        <5>1. <<visits[w].about, visits[w].id>> = <<visits[v].about, visits[v].id>>
          BY <3>4, <4>1, <4>2
        <5>2. visits[w].about = visits[v].about /\ visits[w].id = visits[v].id
          BY <5>1
        <5> QED
          BY <5>2 DEF SameProof
      <4> QED
        BY <1>2, <3>2, <4>2, <4>3 DEF ProofInv, Held
    <3>8. \A w, x \in DOMAIN visits' :
            visits'[w].at \in Held /\ visits'[x].at \in Held /\ SameProof(visits'[w], visits'[x]) => w = x
      <4>1. ASSUME NEW w \in DOMAIN visits
            PROVE  /\ visits'[w].at \in Held => visits[w].at \in Held
                   /\ visits'[w].about = visits[w].about /\ visits'[w].id = visits[w].id
        BY <3>2, <3>6 DEF Held
      <4>2. ASSUME NEW w \in DOMAIN visits, NEW x \in DOMAIN visits,
                   visits'[w].at \in Held, visits'[x].at \in Held, SameProof(visits'[w], visits'[x])
            PROVE  w = x
        <5>1. visits[w].at \in Held /\ visits[x].at \in Held /\ SameProof(visits[w], visits[x])
          BY <4>1, <4>2 DEF SameProof
        <5> QED
          BY <1>2, <5>1 DEF ProofInv
      <4> QED
        BY <3>6, <4>2
    <3>9. \A s \in DOMAIN sessions' :
            \E w \in DOMAIN visits' :
              /\ visits'[w].at = "signed in" /\ sessions'[s].proof = <<visits'[w].about, visits'[w].id>>
              /\ sessions'[s].who = visits'[w].who
      <4>1. ASSUME NEW s \in DOMAIN sessions
            PROVE  \E w \in DOMAIN visits' :
                     /\ visits'[w].at = "signed in"
                     /\ sessions'[s].proof = <<visits'[w].about, visits'[w].id>>
                     /\ sessions'[s].who = visits'[w].who
        <5>1. PICK w \in DOMAIN visits :
                /\ visits[w].at = "signed in" /\ sessions[s].proof = <<visits[w].about, visits[w].id>>
                /\ sessions[s].who = visits[w].who
          BY <1>2 DEF ProofInv
        <5>2. w # v
          BY <3>2, <5>1
        <5> QED
          BY <3>5, <3>6, <5>1, <5>2
      <4> QED
        BY <3>4, <3>5, <3>6, <4>1
    <3>10. \A s, t \in DOMAIN sessions' : sessions'[s].proof = sessions'[t].proof => s = t
      BY <1>2, <3>5, <3>7 DEF ProofInv
    <3> QED
      BY <3>8, <3>9, <3>10 DEF ProofInv
  <2> QED
    BY <1>2, <2>7, <2>8, <2>9, <2>10, <2>11, <2>12, <2>13, <2>14, <2>15
       DEF SignInNext, RedeemSignInLink, CompleteFlow
<1> QED
  BY <1>1, <1>2, SignInInvHolds, PTL DEF SignInSpec

\* Behind every session is a proof of its own: a link that its address spent, or a
\* code spent for the newest flow of its browser (magic-link.ts:64, oauth.ts:219).
THEOREM SessionIsProvedHolds == SignInSpec => []SessionIsProved
<1>1. ASSUME SignInInv, ProofInv
      PROVE  SessionIsProved
  <2> SUFFICES ASSUME NEW s \in DOMAIN sessions
               PROVE  LET by == sessions[s].proof IN
                      /\ sessions[s].who \in accounts
                      /\ \A t \in DOMAIN sessions : sessions[t].proof = by => t = s
                      /\ by[1] = "link" => links[by[2]].consumed /\ links[by[2]].who = sessions[s].who
                      /\ by[1] = "flow" =>
                           /\ flows[by[2]].spent
                           /\ \E v \in DOMAIN visits :
                                visits[v].about = "flow" /\ visits[v].id = by[2] /\ visits[v].seen = by[2]
    BY DEF SessionIsProved
  <2>1. PICK v \in DOMAIN visits :
          /\ visits[v].at = "signed in" /\ sessions[s].proof = <<visits[v].about, visits[v].id>>
          /\ sessions[s].who = visits[v].who
    BY <1>1 DEF ProofInv
  <2>2. VisitOK(visits[v], links, flows, accounts)
    BY <1>1 DEF SignInInv, VisitsOK
  <2>3. \A t \in DOMAIN sessions : sessions[t].proof = sessions[s].proof => t = s
    BY <1>1 DEF ProofInv
  <2>4. sessions[s].proof[1] = visits[v].about /\ sessions[s].proof[2] = visits[v].id
    <3> DEFINE proof == <<visits[v].about, visits[v].id>>
    <3>1. proof[1] = visits[v].about /\ proof[2] = visits[v].id
      OBVIOUS
    <3>2. sessions[s].proof = proof
      BY <2>1
    <3> HIDE DEF proof
    <3> QED
      BY <3>1, <3>2
  <2>5. visits[v].who \in accounts
    BY <2>1, <2>2 DEF VisitOK
  <2>6. visits[v].about = "link" =>
          links[visits[v].id].consumed /\ links[visits[v].id].who = visits[v].who
    BY <2>1, <2>2 DEF VisitOK, Held
  <2>7. visits[v].about = "flow" => flows[visits[v].id].spent /\ visits[v].seen = visits[v].id
    BY <2>1, <2>2 DEF VisitOK, Held
  <2>8. sessions[s].proof[1] = "link" =>
          /\ links[sessions[s].proof[2]].consumed
          /\ links[sessions[s].proof[2]].who = sessions[s].who
    BY <2>1, <2>4, <2>6
  <2>9. sessions[s].proof[1] = "flow" =>
          /\ flows[sessions[s].proof[2]].spent
          /\ \E w \in DOMAIN visits : /\ visits[w].about = "flow" /\ visits[w].id = sessions[s].proof[2]
                                       /\ visits[w].seen = sessions[s].proof[2]
    BY <2>4, <2>7
  <2> QED
    BY <2>1, <2>3, <2>5, <2>8, <2>9
<1> QED
  BY <1>1, SignInInvHolds, ProofInvHolds, PTL

\* A set of rows that is not empty has a last one.
LEMMA LastRow ==
    ASSUME NEW n \in Nat, NEW rows \in SUBSET (1..n), rows # {}
    PROVE  \E l \in rows : \A k \in rows : k <= l
<1> DEFINE back == {n - k : k \in rows}
<1>1. back \subseteq Nat /\ back # {}
  <2>1. \A k \in rows : n - k \in Nat
    OBVIOUS
  <2> QED
    BY <2>1
<1>2. PICK b \in back : \A c \in back : <<c, b>> \notin OpToRel(<, Nat)
  BY <1>1, NatLessThanWellFounded, WFMin
<1>3. \A c \in back : ~(c < b)
  BY <1>1, <1>2 DEF OpToRel
<1>4. PICK l \in rows : b = n - l
  OBVIOUS
<1>5. ASSUME NEW k \in rows
      PROVE  k <= l
  <2>1. n - k \in back
    OBVIOUS
  <2>2. k \in Nat /\ l \in Nat
    OBVIOUS
  <2>3. ~(n - k < n - l)
    BY <1>3, <1>4, <2>1
  <2> HIDE DEF back
  <2> QED
    BY <2>2, <2>3
<1> QED
  BY <1>5

\* What a request counted: the links of its address in the window before it.
CountedThen(lks, a, since, seen) == {k \in 1..seen : lks[k].who = a /\ lks[k].created >= since - Window}

LetThrough(lks, a, since, seen) ==
    seen <= Len(lks) /\ Cardinality(CountedThen(lks, a, since, seen)) < MaxRequests

\* The strengthening: what let a request through stays so, and is kept by its link.
LimitInv ==
    /\ \A v \in DOMAIN visits : visits[v].at = "counted" =>
         visits[v].since <= clock /\ LetThrough(links, visits[v].who, visits[v].since, visits[v].seen)
    /\ \A l \in DOMAIN links :
         /\ links[l].expires - Window <= links[l].created
         /\ LetThrough(links, links[l].who, links[l].expires - Window, links[l].seen)

\* SignInRows that stay count as they did.
LinksKept ==
    /\ Len(links) <= Len(links')
    /\ \A l \in DOMAIN links :
         /\ links'[l].who = links[l].who /\ links'[l].created = links[l].created
         /\ links'[l].expires = links[l].expires /\ links'[l].seen = links[l].seen

LEMMA LetThroughOnce ==
    ASSUME links \in Seq(Link), links' \in Seq(Link), LinksKept,
           NEW a, NEW since, NEW seen \in Nat, LetThrough(links, a, since, seen)
    PROVE  LetThrough(links', a, since, seen)
<1>1. seen <= Len(links) /\ Len(links) \in Nat /\ Len(links') \in Nat /\ Len(links) <= Len(links')
        /\ DOMAIN links = 1..Len(links)
  BY DEF LetThrough, LinksKept
<1>2. \A k \in 1..seen : links'[k].who = links[k].who /\ links'[k].created = links[k].created
  BY <1>1 DEF LinksKept
<1>3. CountedThen(links', a, since, seen) = CountedThen(links, a, since, seen)
  BY <1>2 DEF CountedThen
<1> QED
  BY <1>1, <1>3 DEF LetThrough

\* A request arrives let through, or was; a row is added by one that was.
LEMMA LimitStays ==
    ASSUME SignInRows, SignInRows', LimitInv, LinksKept, clock \in Nat, clock' \in Nat, clock <= clock',
           \A v \in DOMAIN visits' : visits'[v].at = "counted" =>
             \/ v \in DOMAIN visits /\ visits'[v] = visits[v]
             \/ visits'[v].since <= clock' /\ LetThrough(links', visits'[v].who, visits'[v].since, visits'[v].seen),
           \A l \in DOMAIN links' \ DOMAIN links :
             /\ links'[l].expires - Window <= links'[l].created
             /\ LetThrough(links', links'[l].who, links'[l].expires - Window, links'[l].seen)
    PROVE  LimitInv'
<1>0. links \in Seq(Link) /\ links' \in Seq(Link) /\ visits \in Seq(Visits)
  BY DEF SignInRows
<1>1. ASSUME NEW v \in DOMAIN visits', visits'[v].at = "counted"
      PROVE  visits'[v].since <= clock'
               /\ LetThrough(links', visits'[v].who, visits'[v].since, visits'[v].seen)
  <2>1. CASE v \in DOMAIN visits /\ visits'[v] = visits[v]
    <3>1. visits[v] \in Visits
      BY <1>0, <2>1
    <3>2. visits[v].since \in Int /\ visits[v].seen \in Nat
      BY <3>1, SignInAssumption DEF Visits
    <3>3. visits[v].since <= clock /\ LetThrough(links, visits[v].who, visits[v].since, visits[v].seen)
      BY <1>1, <2>1 DEF LimitInv
    <3>4. LetThrough(links', visits[v].who, visits[v].since, visits[v].seen)
      BY <1>0, <3>2, <3>3, LetThroughOnce
    <3> QED
      BY <2>1, <3>2, <3>3, <3>4
  <2> QED
    BY <1>1, <2>1
<1>2. ASSUME NEW l \in DOMAIN links
      PROVE  /\ l \in DOMAIN links' => links'[l].expires - Window <= links'[l].created
             /\ LetThrough(links', links'[l].who, links'[l].expires - Window, links'[l].seen)
  <2>1. links[l].seen \in Nat
    <3>1. links[l] \in Link
      BY <1>0
    <3> QED
      BY <3>1 DEF Link
  <2>2. links[l].expires - Window <= links[l].created
          /\ LetThrough(links, links[l].who, links[l].expires - Window, links[l].seen)
    BY DEF LimitInv
  <2>3. LetThrough(links', links[l].who, links[l].expires - Window, links[l].seen)
    BY <1>0, <2>1, <2>2, LetThroughOnce
  <2> QED
    BY <2>2, <2>3 DEF LinksKept
<1> QED
  BY <1>1, <1>2 DEF LimitInv

LEMMA LimitInvHolds == SignInSpec => []LimitInv
<1>1. SignInInit => LimitInv
  BY DEF SignInInit, LimitInv
<1>2. ASSUME SignInInv, SignInInv', LimitInv, [SignInNext]_signInVars
      PROVE  LimitInv'
  <2>0. /\ SignInRows /\ SignInRows' /\ clock \in 0..MaxTime /\ clock' \in 0..MaxTime
        /\ links \in Seq(Link) /\ visits \in Seq(Visits)
    BY <1>2 DEF SignInInv, Environment, SignInRows
  <2>1. clock \in Nat /\ clock' \in Nat
    BY <2>0, SignInAssumption
  <2>2. \A v \in DOMAIN visits : visits[v] \in Visits
    BY <2>0
  <2>3. ASSUME UNCHANGED links
        PROVE  LinksKept /\ DOMAIN links' = DOMAIN links
    BY <2>0, <2>3 DEF LinksKept
  <2>4. ASSUME NEW v \in DOMAIN visits, NEW at \in InFlight \cup Replies, at # "counted", Goes(v, at)
        PROVE  \A w \in DOMAIN visits' :
                 visits'[w].at = "counted" => w \in DOMAIN visits /\ visits'[w] = visits[w]
    <3>1. /\ DOMAIN visits' = DOMAIN visits /\ visits'[v] = [visits[v] EXCEPT !.at = at]
          /\ \A w \in DOMAIN visits : w # v => visits'[w] = visits[w]
      BY <2>0, <2>4, GoesOn
    <3>2. [visits[v] EXCEPT !.at = at].at = at
      BY <2>2, VisitAt
    <3> QED
      BY <2>4, <3>1, <3>2
  \* No row comes and no request is let through.
  <2>5. ASSUME UNCHANGED <<clock, links>>,
               \A w \in DOMAIN visits' :
                 visits'[w].at = "counted" => w \in DOMAIN visits /\ visits'[w] = visits[w]
        PROVE  LimitInv'
    BY <1>2, <2>0, <2>1, <2>3, <2>5, LimitStays
  <2>6. CASE Tick
    <3>1. clock <= clock' /\ UNCHANGED <<links, visits>>
      BY <2>1, <2>6 DEF Tick
    <3> QED
      BY <1>2, <2>0, <2>1, <2>3, <3>1, LimitStays
  <2>7. CASE Logout \/ (\E d \in Doors : StartRoute(d)) \/ UNCHANGED signInVars
    BY <2>5, <2>7 DEF Logout, StartRoute, signInVars
  <2>8. CASE Redeploy
    <3>1. DOMAIN visits' = DOMAIN visits /\ UNCHANGED <<clock, links>>
            /\ \A v \in DOMAIN visits :
                 visits'[v] = IF visits[v].at \in InFlight THEN [visits[v] EXCEPT !.at = "dead"]
                              ELSE visits[v]
      BY <2>8 DEF Redeploy
    <3>2. \A v \in DOMAIN visits : [visits[v] EXCEPT !.at = "dead"].at = "dead"
      BY <2>2, VisitAt, ZenonT(40) DEF Replies
    <3>3. \A v \in DOMAIN visits : visits'[v] = visits[v] \/ visits'[v].at = "dead"
      BY <3>1, <3>2
    <3> QED
      BY <2>5, <3>1, <3>3
  <2>9. ASSUME NEW visit \in Visits, Arrives(visit), UNCHANGED <<clock, links>>,
               visit.at = "counted" =>
                 visit.since <= clock /\ LetThrough(links, visit.who, visit.since, visit.seen)
        PROVE  LimitInv'
    <3>1. /\ DOMAIN visits' = DOMAIN visits \cup {Len(visits) + 1}
          /\ visits'[Len(visits) + 1] = visit
          /\ \A w \in DOMAIN visits : visits'[w] = visits[w]
      BY <2>0, <2>9, ArrivesLast
    <3>2. \A v \in DOMAIN visits' : visits'[v].at = "counted" =>
            \/ v \in DOMAIN visits /\ visits'[v] = visits[v]
            \/ visits'[v].since <= clock' /\ LetThrough(links', visits'[v].who, visits'[v].since, visits'[v].seen)
      BY <2>9, <3>1
    <3> QED
      BY <1>2, <2>0, <2>1, <2>3, <2>9, <3>2, LimitStays
  <2>10. CASE (\E l \in inbox : ClickLink(l)) \/ (\E f \in DOMAIN flows : Callback(f))
    <3>1. UNCHANGED <<clock, links>>
      BY <2>10 DEF ClickLink, Callback
    <3>2. PICK visit \in Visits : Arrives(visit) /\ visit.at # "counted"
      <4>1. PICK visit \in Visits : Arrives(visit)
        BY <1>2, <2>10, NobodyArrivesProved
      <4>2. visit = visits'[Len(visits) + 1]
        BY <2>0, <4>1, ArrivesLast
      <4>3. ASSUME NEW l \in inbox, ClickLink(l)
            PROVE  visit.at # "counted"
        <5> DEFINE click == [at |-> LinkStatus(links[l]), about |-> "link", id |-> l,
                             who |-> links[l].who, since |-> 0, seen |-> 0]
        <5>1. visits' = Append(visits, click)
          BY <4>3 DEF ClickLink, Arrives
        <5>2. click.at # "counted"
          BY DEF LinkStatus
        <5> HIDE DEF click
        <5>3. visits'[Len(visits) + 1] = click
          BY <2>0, <5>1
        <5> QED
          BY <4>2, <5>2, <5>3
      <4>4. ASSUME NEW f \in DOMAIN flows, Callback(f)
            PROVE  visit.at # "counted"
        <5>1. PICK canceled \in BOOLEAN :
                Arrives([at |-> CheckFlow(f, canceled), about |-> "flow", id |-> f,
                         who |-> NoEmail, since |-> 0, seen |-> Len(flows)])
          BY <4>4 DEF Callback
        <5> DEFINE back == [at |-> CheckFlow(f, canceled), about |-> "flow", id |-> f,
                            who |-> NoEmail, since |-> 0, seen |-> Len(flows)]
        <5>2. visits' = Append(visits, back)
          BY <5>1 DEF Arrives
        <5>3. back.at # "counted"
          BY DEF CheckFlow
        <5> HIDE DEF back
        <5>4. visits'[Len(visits) + 1] = back
          BY <2>0, <5>2
        <5> QED
          BY <4>2, <5>3, <5>4
      <4> QED
        BY <2>10, <4>1, <4>3, <4>4
    <3> QED
      BY <2>9, <3>1, <3>2
  \* A request is let through by what it counts.
  <2>11. ASSUME NEW a \in Addresses, AskForLink(a)
         PROVE  LimitInv'
    <3> DEFINE at == IF WithinRequestLimit(Cardinality(RecentLinks(Fold(a)))) THEN "counted" ELSE "nothing"
               visit == [at |-> at, about |-> "address", id |-> 0, who |-> Fold(a), since |-> clock,
                         seen |-> Len(links)]
    <3>1. at \in {"counted", "nothing"} /\ Len(links) \in Nat /\ 0 \in Nat
      BY <2>0
    <3>2. visit \in Visits
      BY <2>0, <3>1, FoldIsFolded DEF Visits, InFlight, Replies
    <3>3. Arrives(visit) /\ UNCHANGED <<clock, links>>
      BY <2>11 DEF AskForLink
    <3>4. CountedThen(links, Fold(a), clock, Len(links)) = RecentLinks(Fold(a))
      BY <2>0 DEF CountedThen, RecentLinks
    <3>5. at = "counted" => LetThrough(links, Fold(a), clock, Len(links))
      BY <3>1, <3>4 DEF LetThrough, WithinRequestLimit
    <3>6. visit.at = "counted" =>
            visit.since <= clock /\ LetThrough(links, visit.who, visit.since, visit.seen)
      BY <2>1, <3>5
    <3> HIDE DEF visit
    <3> QED
      BY <2>9, <3>2, <3>3, <3>6
  \* Its link keeps what it counted.
  <2>12. ASSUME NEW v \in DOMAIN visits, SendLink(v)
         PROVE  LimitInv'
    <3> DEFINE row == [who |-> visits[v].who, created |-> clock, expires |-> visits[v].since + Window,
                       seen |-> visits[v].seen, consumed |-> FALSE]
               n   == Len(links) + 1
    <3>1. /\ row.who = visits[v].who /\ row.created = clock /\ row.expires = visits[v].since + Window
          /\ row.seen = visits[v].seen
      OBVIOUS
    <3>2. links' = Append(links, row) /\ UNCHANGED clock /\ visits[v].at = "counted"
      BY <2>12 DEF SendLink
    <3> HIDE DEF row
    <3>3. /\ Len(links') = n /\ DOMAIN links' = DOMAIN links \cup {n} /\ links'[n] = row
          /\ \A l \in DOMAIN links : links'[l] = links[l]
      BY <2>0, <3>2
    <3>4. LinksKept
      BY <2>0, <3>3 DEF LinksKept
    <3>5. visits[v].since \in Int /\ visits[v].seen \in Nat /\ Window \in Int
      BY <2>2, SignInAssumption DEF Visits
    <3>6. visits[v].since <= clock /\ LetThrough(links, visits[v].who, visits[v].since, visits[v].seen)
      BY <1>2, <3>2 DEF LimitInv
    <3>7. LetThrough(links', visits[v].who, visits[v].since, visits[v].seen)
      BY <2>0, <3>4, <3>5, <3>6, LetThroughOnce DEF SignInRows
    <3>8. row.expires - Window = visits[v].since
      BY <3>1, <3>5
    <3>9. \A l \in DOMAIN links' \ DOMAIN links :
            /\ links'[l].expires - Window <= links'[l].created
            /\ LetThrough(links', links'[l].who, links'[l].expires - Window, links'[l].seen)
      BY <3>1, <3>3, <3>6, <3>7, <3>8
    <3>10. \A w \in DOMAIN visits' :
             visits'[w].at = "counted" => w \in DOMAIN visits /\ visits'[w] = visits[w]
      BY <2>4, <2>12 DEF SendLink, Replies
    <3> QED
      BY <1>2, <2>0, <2>1, <3>2, <3>4, <3>9, <3>10, LimitStays
  <2>13. ASSUME NEW v \in DOMAIN visits, ClaimLink(v)
         PROVE  LimitInv'
    <3> DEFINE l   == visits[v].id
               row == [links[l] EXCEPT !.consumed = TRUE]
    <3>1. l \in DOMAIN links
      BY <1>2, <2>13 DEF SignInInv, ClaimLink, VisitsOK, VisitOK
    <3>2. /\ row.who = links[l].who /\ row.created = links[l].created
          /\ row.expires = links[l].expires /\ row.seen = links[l].seen
      BY <2>0, <3>1 DEF Link
    <3>3. links' = [links EXCEPT ![l] = row] /\ UNCHANGED clock
      BY <2>13 DEF ClaimLink
    <3> HIDE DEF row
    <3>4. /\ DOMAIN links' = DOMAIN links /\ Len(links') = Len(links) /\ links'[l] = row
          /\ \A k \in DOMAIN links : k # l => links'[k] = links[k]
      BY <2>0, <3>1, <3>3
    <3> HIDE DEF l
    <3>5. LinksKept
      BY <2>0, <3>2, <3>4 DEF LinksKept
    <3>6. \A w \in DOMAIN visits' :
             visits'[w].at = "counted" => w \in DOMAIN visits /\ visits'[w] = visits[w]
      BY <2>4, <2>13 DEF ClaimLink, InFlight, Replies
    <3> QED
      BY <1>2, <2>0, <2>1, <3>3, <3>4, <3>5, <3>6, LimitStays
  <2>14. ASSUME NEW v \in DOMAIN visits, Exchange(v)
         PROVE  LimitInv'
    <3>1. UNCHANGED <<clock, links>>
      BY <2>14 DEF Exchange
    <3>2. CASE \E at \in {"failed", "no_email", "unverified"} : Goes(v, at)
      BY <2>4, <2>5, <3>1, <3>2 DEF Replies
    <3>3. ASSUME NEW who, visits' = [visits EXCEPT ![v].at = "proved", ![v].who = who]
          PROVE  LimitInv'
      <4>1. DOMAIN visits' = DOMAIN visits /\ visits'[v].at = "proved"
              /\ \A w \in DOMAIN visits : w # v => visits'[w] = visits[w]
        BY <2>0, <2>2, <3>3 DEF Visits
      <4> QED
        BY <2>5, <3>1, <4>1
    <3>4. \A claims \in Claims : AcceptProfile(Profile(claims)).reason \in {"ok", "no_email", "unverified"}
      BY DEF AcceptProfile
    <3> QED
      BY <2>14, <3>2, <3>3, <3>4 DEF Exchange
  <2>15. ASSUME NEW v \in DOMAIN visits,
                \/ \E door \in {"link", "flow"} : UpsertUser(v, door) \/ IssueSession(v, door)
                \/ RequestDies(v)
         PROVE  LimitInv'
    <3>1. UNCHANGED <<clock, links>> /\ \E at \in {"entered", "signed in", "dead"} : Goes(v, at)
      BY <2>15 DEF UpsertUser, IssueSession, RequestDies
    <3> QED
      BY <2>4, <2>5, <3>1 DEF InFlight, Replies
  <2> QED
    BY <1>2, <2>6, <2>7, <2>8, <2>10, <2>11, <2>12, <2>13, <2>14, <2>15
       DEF SignInNext, RedeemSignInLink, CompleteFlow, LinkSignsIn, FlowSignsIn
<1> QED
  BY <1>1, <1>2, SignInInvHolds, PTL DEF SignInSpec

\* The links of a window of time, but the last, were counted by the last one's
\* request (domain/magic-link.ts:31).
THEOREM LimitHoldsUnlessRacedHolds == SignInSpec => []LimitHoldsUnlessRaced
<1>1. ASSUME SignInInv, LimitInv
      PROVE  LimitHoldsUnlessRaced
  <2>0. links \in Seq(Link) /\ clock \in 0..MaxTime /\ Window \in Nat /\ MaxRequests \in Nat
    BY <1>1, SignInAssumption DEF SignInInv, SignInRows, Environment
  <2>1. Len(links) \in Nat /\ DOMAIN links = 1..Len(links) /\ \A l \in DOMAIN links : links[l] \in Link
    BY <2>0
  <2> SUFFICES ASSUME NEW a \in Addresses, NEW t \in 0..clock
               PROVE  LET asked == {l \in DOMAIN links : links[l].who = a /\ links[l].created \in t..t + Window}
                      IN \/ Cardinality(asked) <= MaxRequests
                         \/ \E k, l \in asked : k < l /\ links[l].seen < k
    BY DEF LimitHoldsUnlessRaced
  <2> DEFINE asked == {l \in DOMAIN links : links[l].who = a /\ links[l].created \in t..t + Window}
  <2>2. SUFFICES ASSUME \A k, l \in asked : ~(k < l /\ links[l].seen < k)
                 PROVE  Cardinality(asked) <= MaxRequests
    OBVIOUS
  <2>3. IsFiniteSet(asked) /\ asked \in SUBSET (1..Len(links))
    <3>1. asked \in SUBSET (1..Len(links))
      BY <2>1
    <3>2. IsFiniteSet(1..Len(links))
      BY <2>1, FS_Interval
    <3> HIDE DEF asked
    <3> QED
      BY <3>1, <3>2, FS_Subset
  <2>4. CASE asked = {}
    <3>1. Cardinality(asked) = 0
      BY <2>4, FS_EmptySet
    <3> HIDE DEF asked
    <3> QED
      BY <2>0, <3>1
  <2>5. CASE asked # {}
    <3>1. PICK l \in asked : \A k \in asked : k <= l
      BY <2>1, <2>3, <2>5, LastRow
    <3> DEFINE counted == CountedThen(links, links[l].who, links[l].expires - Window, links[l].seen)
    <3>2. /\ links[l].created \in Nat /\ links[l].expires \in Nat /\ links[l].seen \in Nat
          /\ links[l].who = a /\ links[l].created <= t + Window
      BY <2>0, <2>1 DEF Link
    <3>3. /\ links[l].expires - Window <= links[l].created
          /\ links[l].seen <= Len(links) /\ Cardinality(counted) < MaxRequests
      BY <1>1 DEF LimitInv, LetThrough
    <3>4. asked \ {l} \subseteq counted
      <4> SUFFICES ASSUME NEW k \in asked, k # l
                   PROVE  k \in counted
        OBVIOUS
      <4>1. k \in 1..Len(links) /\ l \in 1..Len(links) /\ k <= l
        BY <2>3, <3>1
      <4>2. k \in 1..links[l].seen
        BY <2>2, <3>2, <4>1
      <4>3. links[k].who = links[l].who /\ links[k].created >= t /\ links[k].created \in Int
        BY <2>1, <3>2, <4>1 DEF Link
      <4>4. links[k].created >= (links[l].expires - Window) - Window
        BY <2>0, <3>2, <3>3, <4>3
      <4> QED
        BY <4>2, <4>3, <4>4 DEF CountedThen
    <3>5. IsFiniteSet(counted) /\ Cardinality(counted) \in Nat
      <4>1. counted \in SUBSET (1..links[l].seen)
        BY DEF CountedThen
      <4>2. IsFiniteSet(1..links[l].seen)
        <5>1. \A n \in Nat : IsFiniteSet(1..n)
          BY FS_Interval
        <5> QED
          BY <3>2, <5>1
      <4> HIDE DEF counted
      <4>3. IsFiniteSet(counted)
        BY <4>1, <4>2, FS_Subset
      <4> QED
        BY <4>3, FS_CardinalityType
    <3>6. Cardinality(asked \ {l}) <= Cardinality(counted)
      BY <3>4, <3>5, FS_Subset
    <3>7. Cardinality(asked \ {l}) = Cardinality(asked) - 1 /\ Cardinality(asked) \in Nat
      BY <2>3, FS_RemoveElement, FS_CardinalityType
    <3> HIDE DEF asked, counted
    <3> QED
      BY <2>0, <3>3, <3>5, <3>6, <3>7
  <2> QED
    BY <2>4, <2>5
<1> QED
  BY <1>1, SignInInvHolds, LimitInvHolds, PTL

-----------------------------------------------------------------------------
(* Subscriptions.                                                          *)

USE SubscriptionsAssumption DEF Subs, Periods, Rows, SubscriptionStatuses

LEMMA EventParts ==
    \A e \in SubEvents :
        EventSub(e) \in Subs /\ SubKind(e) \in SubEventKinds /\ InPeriod(e) \in Periods
BY DEF SubEvents, EventSub, SubKind, InPeriod, SubEventKinds

\* What the code's three subscription targets are, and what may precede each.
LEMMA Targets ==
    \A e \in SubEvents :
        /\ SubTarget(e) \in {"ACTIVE", "PAST_DUE", "CANCELED"}
        /\ SubTarget(e) = "ACTIVE" <=> SubKind(e) \in {"completed", "invoice_paid"}
        /\ SubTarget(e) = "PAST_DUE" <=> SubKind(e) = "invoice_failed"
        /\ SubTarget(e) = "CANCELED" <=> SubKind(e) = "deleted"
<1> SUFFICES ASSUME NEW e \in SubEvents
             PROVE  /\ SubTarget(e) \in {"ACTIVE", "PAST_DUE", "CANCELED"}
                    /\ SubTarget(e) = "ACTIVE" <=> SubKind(e) \in {"completed", "invoice_paid"}
                    /\ SubTarget(e) = "PAST_DUE" <=> SubKind(e) = "invoice_failed"
                    /\ SubTarget(e) = "CANCELED" <=> SubKind(e) = "deleted"
  OBVIOUS
<1>1. SubKind(e) \in SubEventKinds
  BY EventParts
<1> QED
  BY <1>1 DEF SubEventKinds, SubTarget, SubNormalize, SubscriptionStatusForEvent

-----------------------------------------------------------------------------
\* Type correctness of a member's subscriptions and of their events' handlers.
THEOREM SubscriptionsTypeCorrect == SubscriptionsSpec => []TypeOKSubscriptions
<1>1. SubscriptionsInit => TypeOKSubscriptions
  BY DEF SubscriptionsInit, TypeOKSubscriptions
<1>2. ASSUME TypeOKSubscriptions, [SubscriptionsNext]_subVars
      PROVE  TypeOKSubscriptions'
  <2> USE <1>2 DEF TypeOKSubscriptions, checkoutVars, memberVars, subHookVars
  <2>1. ASSUME NEW s \in Subs,
               \/ StartSubscriptionCheckout(s) \/ CreateSubscriptionSession(s)
               \/ SaveSubscriptionRef(s)
        PROVE  TypeOKSubscriptions'
    <3>1. CASE StartSubscriptionCheckout(s)
      BY <3>1 DEF StartSubscriptionCheckout
    <3>2. CASE CreateSubscriptionSession(s)
      BY <3>2 DEF CreateSubscriptionSession
    <3>3. CASE SaveSubscriptionRef(s)
      <4>1. subKnows' \in [Subs -> SUBSET {"checkout", "provider"}]
        BY <3>3 DEF SaveSubscriptionRef
      <4> QED
        BY <3>3, <4>1 DEF SaveSubscriptionRef
    <3> QED
      BY <2>1, <3>1, <3>2, <3>3
  <2>2. ASSUME NEW s \in Subs, ProviderMoves(s)
        PROVE  TypeOKSubscriptions'
    <3>1. CASE PeriodIsPaid(s)
      BY <3>1 DEF PeriodIsPaid
    <3>2. CASE PaymentFails(s)
      <4>1. period[s] + 1 \in Periods
        BY <3>2 DEF PaymentFails
      <4> QED
        BY <3>2, <4>1 DEF PaymentFails
    <3>3. CASE SubscriptionEnds(s)
      BY <3>3 DEF SubscriptionEnds
    <3>4. CASE SessionCompletes(s)
      BY <3>4 DEF SessionCompletes
    <3> QED
      BY <2>2, <3>1, <3>2, <3>3, <3>4 DEF ProviderMoves
  <2>3. ASSUME NEW e \in SubEvents, HandleSubEvent(e)
        PROVE  TypeOKSubscriptions'
    <3> DEFINE s == EventSub(e)
    <3>1. s \in Subs /\ InPeriod(e) \in Periods /\ InPeriod(e) \in 0..MaxPeriods
      BY EventParts
    <3>2. SubTarget(e) \in Rows
      BY Targets
    <3>3. CASE ClaimSubEvent(e)
      BY <3>3 DEF ClaimSubEvent, HandlerGoesTo
    <3>4. CASE LookupSub(e)
      BY <3>1, <3>4, ZenonT(40) DEF LookupSub, HandlerGoesTo
    <3>5. CASE UpdateSub(e)
      <4>1. sub' \in [Subs -> Rows]
        BY <3>1, <3>2, <3>5 DEF UpdateSub
      <4>2. subKnows' \in [Subs -> SUBSET {"checkout", "provider"}]
        <5>1. CASE UNCHANGED subKnows
          BY <5>1
        <5>2. CASE subKnows' = [subKnows EXCEPT ![s] = @ \cup {"provider"}]
          BY <3>1, <5>2
        <5> QED
          BY <3>5, <5>1, <5>2 DEF UpdateSub
      <4>3. periodEnd' \in [Subs -> 0..MaxPeriods]
        BY <3>1, <3>5, ZenonT(40) DEF UpdateSub
      <4>4. subEventAt' \in [SubEvents -> {"none", "lookup", "update", "renew", "done"}]
        BY <3>5 DEF UpdateSub, HandlerGoesTo
      <4> QED
        BY <3>5, <4>1, <4>2, <4>3, <4>4 DEF UpdateSub
    <3>6. CASE Renew(e)
      BY <3>1, <3>6 DEF Renew, HandlerGoesTo
    <3> QED
      BY <2>3, <3>3, <3>4, <3>5, <3>6 DEF HandleSubEvent
  <2>4. CASE UNCHANGED subVars
    BY <2>4 DEF subVars
  <2> QED
    BY <2>1, <2>2, <2>3, <2>4 DEF SubscriptionsNext
<1> QED
  BY <1>1, <1>2, PTL DEF SubscriptionsSpec

-----------------------------------------------------------------------------
\* A row is there only once its checkout was started, and the provider knows
\* nothing of it before the session was created.
StartedInv ==
    \A s \in Subs :
        /\ subBuyAt[s] = "none" => sub[s] = "absent"
        /\ subBuyAt[s] \in {"none", "session"} => membership[s] = "none"

LEMMA StartedOnce == SubscriptionsSpec => []StartedInv
<1>1. SubscriptionsInit => StartedInv
  BY DEF SubscriptionsInit, StartedInv
<1>2. ASSUME TypeOKSubscriptions, StartedInv, [SubscriptionsNext]_subVars
      PROVE  StartedInv'
  <2> USE <1>2 DEF TypeOKSubscriptions, StartedInv, checkoutVars, memberVars, subHookVars
  <2>1. ASSUME NEW s \in Subs,
               \/ StartSubscriptionCheckout(s) \/ CreateSubscriptionSession(s)
               \/ SaveSubscriptionRef(s) \/ ProviderMoves(s)
        PROVE  StartedInv'
    BY <2>1, SMTT(40) DEF StartSubscriptionCheckout, CreateSubscriptionSession, SaveSubscriptionRef,
                ProviderMoves, SessionCompletes, PeriodIsPaid, PaymentFails, SubscriptionEnds
  <2>2. ASSUME NEW e \in SubEvents, HandleSubEvent(e)
        PROVE  StartedInv'
    <3>1. CASE ClaimSubEvent(e) \/ LookupSub(e) \/ Renew(e)
      BY <3>1 DEF ClaimSubEvent, LookupSub, Renew
    <3>2. CASE UpdateSub(e)
      BY <3>2, EventParts DEF UpdateSub, SubscriptionPredecessorsOf
    <3> QED
      BY <2>2, <3>1, <3>2 DEF HandleSubEvent
  <2>3. CASE UNCHANGED subVars
    BY <2>3 DEF subVars
  <2> QED
    BY <2>1, <2>2, <2>3 DEF SubscriptionsNext
<1> QED
  BY <1>1, <1>2, SubscriptionsTypeCorrect, PTL DEF SubscriptionsSpec

-----------------------------------------------------------------------------
(* The strengthening: an event that is being handled has happened, and     *)
(* what has happened at the provider stays so.                             *)

HappenedInv ==
    \A e \in SubEvents :
        /\ subEventAt[e] # "none" => SubHappened(e)
        /\ subEventAt[e] = "renew" => SubKind(e) = "invoice_paid"

\* A row that knows its subscription, or has left PENDING, was told so by the
\* handler of its completed session; and a handler found its row by one of the
\* two.
OpenedInv ==
    /\ \A s \in Subs :
         "provider" \in subKnows[s] \/ sub[s] \notin {"absent", "PENDING"}
           => subEventAt[CompletedEvent(s)] = "done"
    /\ \A e \in SubEvents :
         subEventAt[e] = "update" => SubKind(e) = "completed" \/ "provider" \in subKnows[EventSub(e)]

MemberInv == HappenedInv /\ OpenedInv /\ SubMatchesProvider /\ PeriodEndIsPaid

\* Whatever the provider does next, what it did stays done.
LEMMA HappenedIsStable ==
    ASSUME TypeOKSubscriptions, NEW s \in Subs, ProviderMoves(s), NEW e \in SubEvents,
           SubHappened(e)
    PROVE  SubHappened(e)'
<1>1. EventSub(e) \in Subs /\ InPeriod(e) \in Periods
  BY EventParts
<1>2. /\ period'[EventSub(e)] >= period[EventSub(e)]
      /\ failedIn[EventSub(e)] \subseteq failedIn'[EventSub(e)]
      /\ membership[EventSub(e)] = "canceled" => membership'[EventSub(e)] = "canceled"
      /\ membership[EventSub(e)] \notin {"none", "open"} => membership'[EventSub(e)] \notin {"none", "open"}
      /\ period[EventSub(e)] \in Nat /\ period'[EventSub(e)] \in Nat
  BY <1>1, SMTT(40) DEF TypeOKSubscriptions, ProviderMoves, SessionCompletes, PeriodIsPaid,
                        PaymentFails, SubscriptionEnds
<1>3. (SubKind(e))' = SubKind(e) /\ (InPeriod(e))' = InPeriod(e) /\ (EventSub(e))' = EventSub(e)
  BY DEF SubKind, InPeriod, EventSub
<1> QED
  BY <1>1, <1>2, <1>3 DEF SubHappened

\* The event of a completed session is the only one of its kind.
LEMMA CompletedIsOne ==
    /\ \A s \in Subs : CompletedEvent(s) \in SubEvents
    /\ \A e \in SubEvents :
         SubKind(e) = "completed" /\ SubHappened(e) => e = CompletedEvent(EventSub(e))
BY DEF CompletedEvent, SubEvents, SubEventKinds, SubKind, SubHappened, EventSub, InPeriod

\* Handlers keep what says which one opened the row.
LEMMA OpenedStays ==
    ASSUME TypeOKSubscriptions, HappenedInv, OpenedInv, NEW e \in SubEvents, HandleSubEvent(e)
    PROVE  OpenedInv'
<1> DEFINE s == EventSub(e)
<1>1. s \in Subs /\ \A f \in SubEvents : EventSub(f) \in Subs
  BY EventParts
<1>2. \A t \in Subs : CompletedEvent(t) \in SubEvents
  BY CompletedIsOne
<1>3. \A f \in SubEvents \ {e} : subEventAt'[f] = subEventAt[f]
  <2>1. \E at : HandlerGoesTo(e, at)
    <3>1. CASE LookupSub(e)
      BY <3>1, Zenon DEF LookupSub
    <3>2. CASE UpdateSub(e)
      BY <3>2, Zenon DEF UpdateSub
    <3>3. CASE ClaimSubEvent(e) \/ Renew(e)
      BY <3>3, Zenon DEF ClaimSubEvent, Renew
    <3> QED
      BY <3>1, <3>2, <3>3 DEF HandleSubEvent
  <2> QED
    BY <2>1 DEF HandlerGoesTo, TypeOKSubscriptions
<1>4. subEventAt[e] # "done"
  BY DEF HandleSubEvent, ClaimSubEvent, LookupSub, UpdateSub, Renew
<1>5. \A t \in Subs : subEventAt[CompletedEvent(t)] = "done" => subEventAt'[CompletedEvent(t)] = "done"
  BY <1>2, <1>3, <1>4
<1>6. CASE ClaimSubEvent(e) \/ Renew(e)
  BY <1>1, <1>3, <1>5, <1>6 DEF ClaimSubEvent, Renew, HandlerGoesTo, OpenedInv, TypeOKSubscriptions,
                                checkoutVars
<1>7. CASE LookupSub(e)
  <2>1. UNCHANGED <<sub, subKnows>>
    BY <1>7 DEF LookupSub, checkoutVars
  <2>2. subEventAt'[e] = "update" => SubKind(e) = "completed" \/ "provider" \in subKnows[s]
    BY <1>7 DEF LookupSub, HandlerGoesTo, FindsSub, EventNames, TypeOKSubscriptions
  <2> QED
    BY <1>1, <1>3, <1>5, <2>1, <2>2 DEF OpenedInv
<1>8. CASE UpdateSub(e)
  <2>1. SubKind(e) = "completed" \/ "provider" \in subKnows[s]
    BY <1>8 DEF UpdateSub, OpenedInv
  <2>2. subEventAt'[e] # "update" /\ (SubKind(e) = "completed" => subEventAt'[e] = "done")
    BY <1>8 DEF UpdateSub, HandlerGoesTo, CarriesPeriod, TypeOKSubscriptions
  <2>3. subEventAt'[CompletedEvent(s)] = "done"
    <3>1. CASE SubKind(e) = "completed"
      BY <1>8, <2>2, <3>1, CompletedIsOne DEF HappenedInv, UpdateSub
    <3>2. CASE "provider" \in subKnows[s]
      BY <1>1, <1>5, <3>2 DEF OpenedInv
    <3> QED
      BY <2>1, <3>1, <3>2
  <2>4. /\ \A t \in Subs \ {s} : sub'[t] = sub[t] /\ subKnows'[t] = subKnows[t]
        /\ \A t \in Subs : "provider" \in subKnows[t] => "provider" \in subKnows'[t]
    <3>1. CASE UNCHANGED <<sub, subKnows>>
      BY <3>1
    <3>2. CASE /\ sub' = [sub EXCEPT ![s] = SubTarget(e)]
               /\ subKnows' = [subKnows EXCEPT ![s] = @ \cup {"provider"}]
      BY <1>1, <3>2 DEF TypeOKSubscriptions
    <3> QED
      BY <1>8, <3>1, <3>2 DEF UpdateSub
  <2> QED
    BY <1>1, <1>3, <1>5, <2>2, <2>3, <2>4 DEF OpenedInv
<1> QED
  BY <1>6, <1>7, <1>8 DEF HandleSubEvent

\* Every event, delivered late or twice, preserves it.
THEOREM MemberInvariant == SubscriptionsSpec => []MemberInv
<1>1. SubscriptionsInit => MemberInv
  BY CompletedIsOne DEF SubscriptionsInit, MemberInv, HappenedInv, OpenedInv, SubMatchesProvider,
                        PeriodEndIsPaid, PaidAccess
<1>2. ASSUME TypeOKSubscriptions, StartedInv, MemberInv, [SubscriptionsNext]_subVars
      PROVE  MemberInv'
  <2> USE <1>2 DEF TypeOKSubscriptions, checkoutVars, memberVars, subHookVars
  <2>1. ASSUME NEW s \in Subs,
               \/ StartSubscriptionCheckout(s) \/ CreateSubscriptionSession(s)
               \/ SaveSubscriptionRef(s)
        PROVE  MemberInv'
    <3>1. /\ UNCHANGED <<periodEnd, period, failedIn, subHookVars>>
          /\ \A t \in Subs : sub'[t] = sub[t] \/ sub'[t] = "PENDING"
          /\ \A t \in Subs : "provider" \in subKnows'[t] <=> "provider" \in subKnows[t]
          /\ \A t \in Subs : membership[t] = "canceled" => membership'[t] = "canceled"
          /\ \A t \in Subs : membership[t] \notin {"none", "open"} => membership'[t] = membership[t]
      <4>1. CASE StartSubscriptionCheckout(s)
        BY <4>1 DEF StartedInv, StartSubscriptionCheckout
      <4>2. CASE CreateSubscriptionSession(s)
        BY <4>2 DEF StartedInv, CreateSubscriptionSession
      <4>3. CASE SaveSubscriptionRef(s)
        <5>1. \A t \in Subs : "provider" \in subKnows'[t] <=> "provider" \in subKnows[t]
          BY <4>3 DEF SaveSubscriptionRef
        <5> QED
          BY <4>3, <5>1 DEF SaveSubscriptionRef
      <4> QED
        BY <2>1, <4>1, <4>2, <4>3
    <3>2. ASSUME NEW e \in SubEvents, SubHappened(e)
          PROVE  SubHappened(e)'
      BY <3>1, <3>2, EventParts DEF SubHappened
    <3>3. HappenedInv'
      BY <3>1, <3>2 DEF MemberInv, HappenedInv
    <3>4. OpenedInv'
      BY <3>1, EventParts DEF MemberInv, OpenedInv
    <3>5. SubMatchesProvider' /\ PeriodEndIsPaid'
      BY <3>1 DEF MemberInv, SubMatchesProvider, PeriodEndIsPaid, PaidAccess
    <3> QED
      BY <3>3, <3>4, <3>5 DEF MemberInv
  <2>2. ASSUME NEW s \in Subs, ProviderMoves(s)
        PROVE  MemberInv'
    <3>1. UNCHANGED <<checkoutVars, subHookVars>>
      BY <2>2 DEF ProviderMoves, SessionCompletes, PeriodIsPaid, PaymentFails, SubscriptionEnds
    <3>2. HappenedInv' /\ OpenedInv'
      BY <2>2, <3>1, HappenedIsStable DEF MemberInv, HappenedInv, OpenedInv
    <3>3. \A t \in Subs :
            /\ period'[t] >= period[t] /\ period'[t] \in Nat /\ period[t] \in Nat
            /\ failedIn[t] \subseteq failedIn'[t]
            /\ membership[t] = "canceled" => membership'[t] = "canceled"
      <4>1. CASE PeriodIsPaid(s)
        BY <4>1 DEF PeriodIsPaid
      <4>2. CASE PaymentFails(s)
        BY <4>2 DEF PaymentFails
      <4>3. CASE SubscriptionEnds(s)
        BY <4>3 DEF SubscriptionEnds
      <4>4. CASE SessionCompletes(s)
        BY <4>4 DEF SessionCompletes
      <4> QED
        BY <2>2, <4>1, <4>2, <4>3, <4>4 DEF ProviderMoves
    <3>4. SubMatchesProvider'
      <4> SUFFICES ASSUME NEW t \in Subs
                   PROVE  /\ sub[t] \in PaidAccess => subEventAt[CompletedEvent(t)] = "done"
                          /\ sub[t] = "PAST_DUE" => failedIn'[t] # {}
                          /\ sub[t] = "CANCELED" => membership'[t] = "canceled"
        BY <3>1 DEF SubMatchesProvider, PaidAccess
      <4>1. /\ sub[t] \in PaidAccess => subEventAt[CompletedEvent(t)] = "done"
            /\ sub[t] = "PAST_DUE" => failedIn[t] # {}
            /\ sub[t] = "CANCELED" => membership[t] = "canceled"
        BY DEF MemberInv, SubMatchesProvider
      <4>2. failedIn[t] # {} => failedIn'[t] # {}
        BY <3>3
      <4> QED
        BY <3>3, <4>1, <4>2
    <3>5. PeriodEndIsPaid'
      BY <3>1, <3>3 DEF MemberInv, PeriodEndIsPaid
    <3> QED
      BY <3>2, <3>4, <3>5 DEF MemberInv
  <2>3. ASSUME NEW e \in SubEvents, HandleSubEvent(e)
        PROVE  MemberInv'
    <3> DEFINE s == EventSub(e)
    <3>1. s \in Subs /\ InPeriod(e) \in Periods
      BY EventParts
    <3>2. UNCHANGED memberVars
      BY <2>3 DEF HandleSubEvent, ClaimSubEvent, LookupSub, UpdateSub, Renew
    <3>3. \A f \in SubEvents : SubHappened(f)' = SubHappened(f)
      BY <3>2 DEF SubHappened
    <3>4. /\ \A f \in SubEvents \ {e} : subEventAt'[f] = subEventAt[f]
          /\ SubHappened(e)
          /\ subEventAt'[e] = "renew" => SubKind(e) = "invoice_paid"
      BY <2>3 DEF HandleSubEvent, ClaimSubEvent, LookupSub, UpdateSub, Renew, HandlerGoesTo,
                  CarriesPeriod, MemberInv, HappenedInv
    <3>5. HappenedInv'
      BY <3>3, <3>4 DEF MemberInv, HappenedInv
    <3>6. OpenedInv'
      BY <2>3, OpenedStays DEF MemberInv
    <3>7. /\ \A t \in Subs : sub'[t] \in PaidAccess => subEventAt'[CompletedEvent(t)] = "done"
          /\ \A t \in Subs : sub'[t] = "PAST_DUE" => failedIn[t] # {}
          /\ \A t \in Subs : sub'[t] = "CANCELED" => membership[t] = "canceled"
      <4>1. \A t \in Subs : sub'[t] \in PaidAccess => subEventAt'[CompletedEvent(t)] = "done"
        BY <3>6 DEF OpenedInv, PaidAccess
      <4>2. CASE UNCHANGED sub
        BY <4>1, <4>2 DEF MemberInv, SubMatchesProvider
      <4>3. CASE UpdateSub(e)
        <5>1. /\ SubTarget(e) = "PAST_DUE" => failedIn[s] # {}
              /\ SubTarget(e) = "CANCELED" => membership[s] = "canceled"
          BY <3>1, <3>4, Targets DEF SubHappened
        <5>2. UNCHANGED sub \/ sub' = [sub EXCEPT ![s] = SubTarget(e)]
          BY <4>3 DEF UpdateSub
        <5> QED
          BY <3>1, <4>1, <5>1, <5>2 DEF MemberInv, SubMatchesProvider
      <4> QED
        BY <2>3, <4>2, <4>3 DEF HandleSubEvent, ClaimSubEvent, LookupSub, Renew
    <3>8. SubMatchesProvider'
      BY <3>2, <3>7 DEF SubMatchesProvider, PaidAccess
    <3>9. PeriodEndIsPaid'
      <4>1. CASE UNCHANGED periodEnd
        BY <3>2, <4>1 DEF MemberInv, PeriodEndIsPaid
      <4>2. CASE SubKind(e) = "invoice_paid" /\ periodEnd' = [periodEnd EXCEPT ![s] = InPeriod(e)]
        <5>1. InPeriod(e) <= period[s]
          BY <3>4, <4>2 DEF SubHappened
        <5> QED
          BY <3>1, <3>2, <4>2, <5>1 DEF MemberInv, PeriodEndIsPaid
      <4>3. CASE UpdateSub(e)
        BY <3>1, <4>1, <4>2, <4>3 DEF UpdateSub, CarriesPeriod
      <4>4. CASE Renew(e)
        BY <4>2, <4>4 DEF Renew, MemberInv, HappenedInv
      <4> QED
        BY <2>3, <4>1, <4>3, <4>4 DEF HandleSubEvent, ClaimSubEvent, LookupSub
    <3> QED
      BY <3>5, <3>6, <3>8, <3>9 DEF MemberInv
  <2>4. CASE UNCHANGED subVars
    <3>1. \A e \in SubEvents : SubHappened(e)' = SubHappened(e)
      BY <2>4 DEF subVars, SubHappened
    <3> QED
      BY <2>4, <3>1 DEF subVars, MemberInv, HappenedInv, OpenedInv, SubMatchesProvider, PeriodEndIsPaid
  <2> QED
    BY <2>1, <2>2, <2>3, <2>4 DEF SubscriptionsNext
<1> QED
  BY <1>1, <1>2, SubscriptionsTypeCorrect, StartedOnce, PTL DEF SubscriptionsSpec

\* A subscription's row is never ahead of what the provider reported: its
\* completed session opens it, a failed payment makes it PAST_DUE, and only a
\* subscription that ended is CANCELED.
THEOREM SubMatchesProviderHolds == SubscriptionsSpec => []SubMatchesProvider
<1>1. MemberInv => SubMatchesProvider
  BY DEF MemberInv
<1> QED
  BY <1>1, MemberInvariant, PTL

\* The row never promises a period that was not paid for.
THEOREM PeriodEndIsPaidHolds == SubscriptionsSpec => []PeriodEndIsPaid
<1>1. MemberInv => PeriodEndIsPaid
  BY DEF MemberInv
<1> QED
  BY <1>1, MemberInvariant, PTL

\* A subscription's status only moves along its machine: the conditional
\* UPDATE asks again what the lookup read.
THEOREM SubForwardOnlyHolds == SubscriptionsSpec => SubForwardOnly
<1> DEFINE Forward == \A s \in Subs :
              \/ sub'[s] = sub[s]
              \/ sub[s] = "absent" /\ sub'[s] = "PENDING"
              \/ CanTransitionSubscription(sub[s], sub'[s])
<1>1. ASSUME TypeOKSubscriptions, StartedInv, [SubscriptionsNext]_subVars
      PROVE  [Forward]_sub
  <2>1. ASSUME NEW s \in Subs, StartSubscriptionCheckout(s)
        PROVE  Forward
    BY <1>1, <2>1 DEF StartSubscriptionCheckout, StartedInv, TypeOKSubscriptions
  <2>2. ASSUME NEW e \in SubEvents, UpdateSub(e)
        PROVE  Forward
    BY <1>1, <2>2, EventParts DEF UpdateSub, TypeOKSubscriptions, SubscriptionPredecessorsOf
  <2>3. ASSUME NEW s \in Subs,
               CreateSubscriptionSession(s) \/ SaveSubscriptionRef(s) \/ ProviderMoves(s)
        PROVE  UNCHANGED sub
    BY <2>3 DEF CreateSubscriptionSession, SaveSubscriptionRef, ProviderMoves,
                SessionCompletes, PeriodIsPaid, PaymentFails, SubscriptionEnds, checkoutVars
  <2>4. ASSUME NEW e \in SubEvents, ClaimSubEvent(e) \/ LookupSub(e) \/ Renew(e)
        PROVE  UNCHANGED sub
    BY <2>4 DEF ClaimSubEvent, LookupSub, Renew, checkoutVars
  <2>5. CASE UNCHANGED subVars
    BY <2>5 DEF subVars, checkoutVars
  <2> QED
    BY <1>1, <2>1, <2>2, <2>3, <2>4, <2>5 DEF SubscriptionsNext, HandleSubEvent
<1> QED
  BY <1>1, SubscriptionsTypeCorrect, StartedOnce, PTL DEF SubscriptionsSpec, SubForwardOnly
===============================================================================
