--------------------------- MODULE GatewayProofs ---------------------------
(***************************************************************************)
(* For any calls, routes, faults and delays: breakers agree with what was  *)
(* reported to them, a call follows its route, its client hears one model, *)
(* every attempt is booked and the result is true.                         *)
(***************************************************************************)
EXTENDS Gateway, WellFoundedInduction, TLAPS

-----------------------------------------------------------------------------
(* The inductive invariant *)

Underway == {"invoking", "streaming", "recording", "sleeping", "completed"}

\* A call that is under way is at a target of its route, and sent it attempt n last.
PlaceInv(c) ==
    /\ pc[c] = "idle" => /\ at[c] = 0 /\ n[c] = 0 /\ attempts[c] = << >> /\ usage[c] = << >>
                         /\ dropped[c] = {} /\ sent[c] = << >> /\ heard[c] = {}
    /\ pc[c] # "idle" => ask[c] \in Asks
    /\ pc[c] \in Underway => /\ at[c] \in DOMAIN ask[c].route /\ n[c] \in 1 .. MaxAttempts
                             /\ sent[c] # << >> /\ sent[c][Len(sent[c])] = <<Target(c), n[c]>>
    /\ pc[c] = "sleeping" => n[c] < MaxAttempts

\* How far the call has come says whether it has ended, and how.
ResultInv(c) ==
    /\ pc[c] \in {"idle", "invoking", "streaming", "sleeping"} => result[c] = "none"
    /\ pc[c] = "completed" => result[c] = "ok"
    /\ pc[c] = "recording" => \/ result[c] = "none"
                              \/ result[c] = "ok" /\ err[c] = "cancelled"
    /\ pc[c] = "done" => result[c] # "none"

\* Attempt i of those sent, s, under request a, with attempt k on position j the
\* present one: on a target up to the present one, its predecessor the attempt before
\* it or on an earlier target, and not where the data may not go.
Fits(s, i, a, j, k) ==
    \E q \in DOMAIN a.route :
      /\ s[i][1] = a.route[q] /\ s[i][2] \in 1 .. MaxAttempts
      /\ q < j \/ (q = j /\ s[i][2] <= k)
      /\ s[i][1] \notin Disabled
      /\ s[i][1] \in Egressing => a.egress
      /\ IF s[i][2] = 1
         THEN i > 1 => \E p \in DOMAIN a.route : p < q /\ s[i - 1][1] = a.route[p]
         ELSE i > 1 /\ s[i - 1] = <<s[i][1], s[i][2] - 1>>

SentInv(c) == \A i \in DOMAIN sent[c] : Fits(sent[c], i, ask[c], at[c], n[c])

\* What the client has heard is of the last attempt.
HeardInv(c) ==
    /\ pc[c] \in {"invoking", "sleeping"} => heard[c] = {}
    /\ heard[c] # {} => sent[c] # << >> /\ heard[c] = {sent[c][Len(sent[c])]}

\* The present attempt has no row yet.
Unbooked(c) == pc[c] \in {"invoking", "streaming"} \/ (pc[c] = "recording" /\ result[c] = "none")

RowsInv(c) ==
    /\ \A i \in DOMAIN usage[c] : usage[c][i].n \in 1 .. MaxAttempts
    /\ \A i, j \in DOMAIN usage[c] :
         i < j /\ usage[c][i].model = usage[c][j].model /\ usage[c][i].n = usage[c][j].n
           => usage[c][i].outcome = "success" /\ usage[c][j].outcome = "cancelled"

\* Every row for attempt k on m says success.
Praised(c, m, k) ==
    \A i \in DOMAIN usage[c] :
      usage[c][i].model = m /\ usage[c][i].n = k => usage[c][i].outcome = "success"

BooksInv(c) ==
    /\ RowsInv(c)
    /\ \A m \in Models, k \in 1 .. MaxAttempts :
         Tried(c, m, k) <=> Booked(c, m, k) \/ (Unbooked(c) /\ m = Target(c) /\ k = n[c])
    /\ Unbooked(c) => ~ Booked(c, Target(c), n[c])
    /\ result[c] = "ok" /\ pc[c] # "done" => Praised(c, Target(c), n[c])

\* The list for the caller ends with a success or holds none.
Succeeded(c) == result[c] = "ok" \/ (pc[c] = "recording" /\ err[c] = "none")

ListInv(c) ==
    /\ \A i \in DOMAIN attempts[c] :
         attempts[c][i].outcome = "success" <=> i = Len(attempts[c]) /\ Succeeded(c)
    /\ Succeeded(c) => attempts[c] # << >>
    /\ pc[c] = "recording" /\ err[c] \in Errors =>
         attempts[c] # << >> /\ attempts[c][Len(attempts[c])].outcome \in {"timeout", "error"}
    /\ result[c] = "no_available_provider" => sent[c] = << >>
    /\ result[c] \in {"provider_unavailable", "bad_request"} => sent[c] # << >>
    /\ pc[c] = "done" /\ heard[c] # {} => result[c] \in {"ok", "mid_stream", "cancelled"}

CallInv(c) ==
    /\ PlaceInv(c) /\ ResultInv(c) /\ SentInv(c) /\ HeardInv(c) /\ BooksInv(c) /\ ListInv(c)

\* Whom a probe's mark belongs to: a call that may still report, or one that never will.
Holds(c, m) ==
    \/ /\ Target(c) = m
       /\ \/ pc[c] \in {"invoking", "streaming"}
          \/ pc[c] = "recording" /\ err[c] = "cancelled" /\ result[c] = "none"
          \/ pc[c] = "done" /\ result[c] \in {"cancelled", "deadline_exceeded"}
    \/ \E i \in DOMAIN attempts[c] :
         attempts[c][i].model = m /\ attempts[c][i].outcome = "error"

ProbeInv(m) == breakers[m].probe => \E c \in GatewayCalls : Holds(c, m)

BreakerInv(m) ==
    LET b == breakers[m] IN
    /\ b.opened # None <=> b.failures >= Threshold
    /\ b.probe => b.opened # None
    /\ b.opened # None => b.opened <= now

IInv ==
    /\ TypeOK
    /\ \A c \in GatewayCalls : CallInv(c)
    /\ \A m \in Models : BreakerInv(m) /\ ProbeInv(m)

-----------------------------------------------------------------------------
(* What the operators of the model do *)

\* The least of some positions is one of them.
LEMMA LeastOf ==
    ASSUME NEW S, S \subseteq Nat, S # {}
    PROVE  Min(S) \in S /\ \A x \in S : Min(S) <= x
<1>1. PICK x \in S : \A y \in S : ~ (<<y, x>> \in OpToRel(<, Nat))
  BY WFMin, NatLessThanWellFounded
<1>2. \A y \in S : ~ (y < x)
  BY <1>1 DEF OpToRel
<1>3. \A y \in S : x <= y
  BY <1>2
<1> QED
  BY <1>3 DEF Min

\* A breaker's methods return breakers.
LEMMA BreakerTypes ==
    ASSUME NEW b \in Breaker, NEW t \in Nat
    PROVE  record_success(b) \in Breaker /\ record_failure(b, t) \in Breaker
           /\ admitted(b, t) \in Breaker
BY BreakerAssumption DEF Breaker, record_success, record_failure, admitted, Closed, state

Skips(s) == s \in Seq(Attempt) /\ \A k \in DOMAIN s : s[k].outcome = "skipped"

\* Advance lists what it skips and begins with the first target it admits, or ends the call.
LEMMA AdvanceIs ==
    ASSUME TypeOK, NEW c \in GatewayCalls, NEW a \in Asks, NEW i \in 0 .. Len(a.route),
           Advance(c, a, i)
    PROVE  \E s :
             /\ Skips(s) /\ attempts' = [attempts EXCEPT ![c] = attempts[c] \o s]
             /\ \/ \E j \in DOMAIN a.route :
                     /\ j > i /\ _admit(a, a.route[j]) /\ Begin(c, a, j, 1)
                     /\ breakers' = [breakers EXCEPT ![a.route[j]] = admitted(breakers[a.route[j]], now)]
                \/ /\ UNCHANGED <<breakers, at, n, sent>>
                   /\ End(c, IF \A k \in DOMAIN (attempts[c] \o s) :
                                  (attempts[c] \o s)[k].outcome = "skipped"
                             THEN "no_available_provider" ELSE "provider_unavailable")
<1> DEFINE route == a.route
           open == {j \in DOMAIN route : j > i /\ _admit(a, route[j])}
           upto == IF open = {} THEN Len(route) ELSE Min(open) - 1
           skipped == [k \in 1 .. (upto - i) |->
                         [model |-> route[i + k], n |-> 0, outcome |-> "skipped"]]
<1>1. route \in Seq(Models) /\ Len(route) \in Nat /\ DOMAIN route = 1 .. Len(route)
  BY GatewayAssumption DEF Asks
<1>2. open # {} => Min(open) \in open
  <2>1. open \subseteq Nat
    BY <1>1
  <2> HIDE DEF open
  <2> QED
    BY <2>1, LeastOf
<1>3. upto \in i .. Len(route)
  BY <1>1, <1>2
<1>4. Skips(skipped)
  <2>1. \A k \in 1 .. (upto - i) : i + k \in DOMAIN route
    BY <1>1, <1>3
  <2>2. \A k \in 1 .. (upto - i) : route[i + k] \in Models
    BY <1>1, <2>1
  <2> HIDE DEF upto
  <2>3. \A k \in 1 .. (upto - i) :
          [model |-> route[i + k], n |-> 0, outcome |-> "skipped"] \in Attempt
    BY <2>2 DEF Attempt, Outcomes
  <2> HIDE DEF route
  <2>4. upto - i \in Nat
    BY <1>1, <1>3
  <2>5. skipped \in Seq(Attempt)
    BY <2>3, <2>4
  <2> QED
    BY <2>5 DEF Skips
<1>5. attempts' = [attempts EXCEPT ![c] = attempts[c] \o skipped]
  BY DEF Advance
<1>6. CASE open # {}
  <2>1. Begin(c, a, Min(open), 1) /\ \A m : m = route[Min(open)] =>
          breakers' = [breakers EXCEPT ![m] = admitted(@, now)]
    BY <1>6 DEF Advance
  <2>2. Min(open) \in DOMAIN route /\ Min(open) > i /\ _admit(a, route[Min(open)])
    BY <1>2, <1>6
  <2> HIDE DEF open
  <2>3. PICK j : j = Min(open)
    OBVIOUS
  <2>4. route[j] \in Models
    BY <1>1, <2>2, <2>3
  <2>5. breakers' = [breakers EXCEPT ![route[j]] = admitted(breakers[route[j]], now)]
    BY <2>1, <2>3, <2>4 DEF TypeOK
  <2> HIDE DEF skipped
  <2> QED
    BY <1>4, <1>5, <2>1, <2>2, <2>3, <2>5
<1>7. CASE open = {}
  <2>1. /\ UNCHANGED <<breakers, at, n, sent>>
        /\ End(c, IF \A k \in DOMAIN (attempts[c] \o skipped) :
                       (attempts[c] \o skipped)[k].outcome = "skipped"
                  THEN "no_available_provider" ELSE "provider_unavailable")
    BY <1>7 DEF Advance
  <2> HIDE DEF skipped
  <2> QED
    BY <1>4, <1>5, <2>1
<1> QED
  BY <1>6, <1>7

\* A route is a sequence of models without repetitions.
LEMMA RouteIs ==
    ASSUME NEW a \in Asks
    PROVE  /\ a.route \in Seq(Models) /\ Len(a.route) \in Nat /\ DOMAIN a.route = 1 .. Len(a.route)
           /\ \A j \in DOMAIN a.route : a.route[j] \in Models
           /\ \A i, j \in DOMAIN a.route : a.route[i] = a.route[j] => i = j
           /\ a.deadline \in Nat /\ a.egress \in BOOLEAN
<1>1. a.route \in Routes /\ a.deadline \in Nat /\ a.egress \in BOOLEAN
  BY DEF Asks
<1>2. a.route \in Seq(Models)
  BY <1>1, GatewayAssumption
<1> QED
  BY <1>1, <1>2, GatewayAssumption

\* What Begin does to its call.
LEMMA BeginIs ==
    ASSUME TypeOK, NEW c \in GatewayCalls, NEW a, NEW j, NEW k, Begin(c, a, j, k)
    PROVE  /\ at'[c] = j /\ n'[c] = k
           /\ \/ pc'[c] = "done" /\ result'[c] = "deadline_exceeded" /\ sent'[c] = sent[c]
              \/ /\ pc'[c] = "invoking" /\ result'[c] = result[c]
                 /\ sent'[c] = Append(sent[c], <<a.route[j], k>>)
           /\ \A d \in GatewayCalls \ {c} :
                /\ pc'[d] = pc[d] /\ at'[d] = at[d] /\ n'[d] = n[d] /\ sent'[d] = sent[d]
                /\ result'[d] = result[d]
<1>1. /\ pc \in [GatewayCalls -> PCs] /\ at \in [GatewayCalls -> Nat]
      /\ n \in [GatewayCalls -> 0 .. MaxAttempts] /\ sent \in [GatewayCalls -> Seq(Models \X Nat)]
      /\ result \in [GatewayCalls -> Results]
  BY DEF TypeOK
<1>2. at' = [at EXCEPT ![c] = j] /\ n' = [n EXCEPT ![c] = k]
  BY DEF Begin
<1>3. CASE now >= a.deadline
  <2>1. /\ pc' = [pc EXCEPT ![c] = "done"]
        /\ result' = [result EXCEPT ![c] = "deadline_exceeded"] /\ sent' = sent
    BY <1>3 DEF Begin, End
  <2> QED
    BY <1>1, <1>2, <2>1
<1>4. CASE ~ (now >= a.deadline)
  <2>1. /\ pc' = [pc EXCEPT ![c] = "invoking"] /\ result' = result
        /\ sent' = [sent EXCEPT ![c] = Append(sent[c], <<a.route[j], k>>)]
    BY <1>1, <1>4 DEF Begin
  <2> QED
    BY <1>1, <1>2, <2>1
<1> QED
  BY <1>3, <1>4

\* A call starts with a well-formed request ...
LEMMA StartIs ==
    ASSUME TypeOK, NEW c \in GatewayCalls, Start(c)
    PROVE  /\ pc[c] = "idle" /\ UNCHANGED <<now, err, wake, books, heard>>
           /\ \E a \in Asks : ask' = [ask EXCEPT ![c] = a] /\ Advance(c, a, 0)
<1>1. now + Deadline \in Nat
  BY GatewayAssumption DEF TypeOK
<1>2. PICK stream, egress \in BOOLEAN, route \in Routes :
        LET a == [stream |-> stream, egress |-> egress, route |-> route, deadline |-> now + Deadline]
        IN  ask' = [ask EXCEPT ![c] = a] /\ Advance(c, a, 0)
  BY DEF Start
<1>3. [stream |-> stream, egress |-> egress, route |-> route, deadline |-> now + Deadline] \in Asks
  BY <1>1 DEF Asks
<1> QED
  BY <1>2, <1>3 DEF Start

\* ... and falls back from a target of its route.
LEMMA PlaceIs ==
    ASSUME IInv, NEW c \in GatewayCalls, pc[c] \in Underway
    PROVE  /\ ask[c] \in Asks /\ at[c] \in DOMAIN ask[c].route /\ at[c] \in 0 .. Len(ask[c].route)
           /\ n[c] \in 1 .. MaxAttempts /\ Target(c) \in Models /\ breakers[Target(c)] \in Breaker
           /\ sent[c] # << >> /\ sent[c][Len(sent[c])] = <<Target(c), n[c]>>
<1>1. PlaceInv(c)
  BY DEF IInv, CallInv
<1>2. /\ ask[c] \in Asks /\ at[c] \in DOMAIN ask[c].route /\ n[c] \in 1 .. MaxAttempts
      /\ sent[c] # << >> /\ sent[c][Len(sent[c])] = <<Target(c), n[c]>>
  BY <1>1 DEF PlaceInv, Underway
<1>3. Target(c) \in Models /\ at[c] \in 0 .. Len(ask[c].route)
  BY <1>2, RouteIs DEF Target
<1>4. breakers[Target(c)] \in Breaker
  BY <1>3 DEF IInv, TypeOK
<1> QED
  BY <1>2, <1>3, <1>4

\* The row _record writes, and where it ends up.
Row(c) == ThisAttempt(c, CASE err[c] = "none" -> "success"
                           [] err[c] \in {"timeout", "cancelled"} -> err[c]
                           [] OTHER -> "error")

LEMMA RecordIs ==
    ASSUME IInv, NEW c \in GatewayCalls, _record(c)
    PROVE  /\ pc[c] = "recording" /\ err' = [err EXCEPT ![c] = "none"]
           /\ Row(c) \in Attempt /\ Row(c).model = Target(c) /\ Row(c).n = n[c]
           /\ err[c] = "none" => Row(c).outcome = "success"
           /\ err[c] = "cancelled" => Row(c).outcome = "cancelled"
           /\ \/ usage' = [usage EXCEPT ![c] = Append(usage[c], Row(c))] /\ dropped' = dropped
              \/ /\ usage' = usage
                 /\ dropped' = [dropped EXCEPT ![c] = dropped[c] \cup {<<Target(c), n[c]>>}]
<1>1. pc[c] = "recording" /\ err' = [err EXCEPT ![c] = "none"]
  BY DEF _record
<1>2. Target(c) \in Models /\ n[c] \in 1 .. MaxAttempts /\ MaxAttempts \in Nat
  BY <1>1, PlaceIs, GatewayAssumption DEF Underway
<1>3. PICK o : o = CASE err[c] = "none" -> "success"
                     [] err[c] \in {"timeout", "cancelled"} -> err[c]
                     [] OTHER -> "error"
  OBVIOUS
<1>4. o \in Outcomes /\ (err[c] = "none" => o = "success") /\ (err[c] = "cancelled" => o = "cancelled")
  BY <1>3 DEF Outcomes
<1>5. Row(c) = [model |-> Target(c), n |-> n[c], outcome |-> o]
  BY <1>3 DEF Row, ThisAttempt
<1>6. Row(c) \in Attempt
  BY <1>2, <1>4, <1>5 DEF Attempt
<1>7. /\ usage \in [GatewayCalls -> Seq(Attempt)]
      /\ dropped \in [GatewayCalls -> SUBSET (Models \X Nat)]
  BY DEF IInv, TypeOK
<1>8. \/ usage' = [usage EXCEPT ![c] = Append(usage[c], Row(c))] /\ dropped' = dropped
      \/ /\ usage' = usage
         /\ dropped' = [dropped EXCEPT ![c] = dropped[c] \cup {<<Row(c).model, Row(c).n>>}]
  BY <1>7 DEF _record, Row
<1> QED
  BY <1>1, <1>4, <1>5, <1>6, <1>8

Moves(c) == Start(c) \/ Step(c) \/ Cancel(c) \/ CancelSleep(c)

\* A step is one of a call or of the clock, or none.
LEMMA Kinds ==
    ASSUME [Next]_vars
    PROVE  (\E c \in GatewayCalls : Moves(c)) \/ Tick \/ UNCHANGED vars
BY DEF Next, Moves, Idle

LEMMA FallBackIs ==
    ASSUME IInv, NEW c \in GatewayCalls, FallBack(c)
    PROVE  /\ _record(c) /\ err[c] \in Errors \ {"bad_request"} /\ heard[c] = {}
           /\ pc[c] = "recording" /\ UNCHANGED <<now, ask, wake, heard>>
           /\ ask[c] \in Asks /\ at[c] \in 0 .. Len(ask[c].route) /\ Advance(c, ask[c], at[c])
<1>1. _record(c) /\ pc[c] = "recording"
  BY DEF FallBack, MovesOn, _record
<1> QED
  BY <1>1, PlaceIs DEF FallBack, MovesOn, Underway

-----------------------------------------------------------------------------
(* Types *)

LEMMA BeginTypes ==
    ASSUME TypeOK, NEW c \in GatewayCalls, NEW a \in Asks, NEW j \in DOMAIN a.route,
           NEW k \in 1 .. MaxAttempts, Begin(c, a, j, k)
    PROVE  /\ pc' \in [GatewayCalls -> PCs] /\ at' \in [GatewayCalls -> Nat]
           /\ n' \in [GatewayCalls -> 0 .. MaxAttempts]
           /\ sent' \in [GatewayCalls -> Seq(Models \X Nat)]
           /\ result' \in [GatewayCalls -> Results]
<1>1. /\ pc \in [GatewayCalls -> PCs] /\ at \in [GatewayCalls -> Nat]
      /\ n \in [GatewayCalls -> 0 .. MaxAttempts] /\ sent \in [GatewayCalls -> Seq(Models \X Nat)]
      /\ result \in [GatewayCalls -> Results] /\ MaxAttempts \in Nat
  BY GatewayAssumption DEF TypeOK
<1>2. j \in Nat /\ <<a.route[j], k>> \in Models \X Nat /\ k \in 0 .. MaxAttempts
  BY <1>1, RouteIs
<1>3. at' = [at EXCEPT ![c] = j] /\ n' = [n EXCEPT ![c] = k]
  BY DEF Begin
<1>4. at' \in [GatewayCalls -> Nat] /\ n' \in [GatewayCalls -> 0 .. MaxAttempts]
  BY <1>1, <1>2, <1>3
<1>5. Append(sent[c], <<a.route[j], k>>) \in Seq(Models \X Nat)
  BY <1>1, <1>2
<1>6. CASE now >= a.deadline
  <2>1. /\ pc' = [pc EXCEPT ![c] = "done"]
        /\ result' = [result EXCEPT ![c] = "deadline_exceeded"] /\ sent' = sent
    BY <1>6 DEF Begin, End
  <2> QED
    BY <1>1, <1>4, <2>1 DEF PCs, Results
<1>7. CASE ~ (now >= a.deadline)
  <2>1. /\ pc' = [pc EXCEPT ![c] = "invoking"] /\ result' = result
        /\ sent' = [sent EXCEPT ![c] = Append(sent[c], <<a.route[j], k>>)]
    BY <1>1, <1>7 DEF Begin
  <2> QED
    BY <1>1, <1>4, <1>5, <2>1 DEF PCs
<1> QED
  BY <1>6, <1>7

LEMMA AdvanceTypes ==
    ASSUME TypeOK, NEW c \in GatewayCalls, NEW a \in Asks, NEW i \in 0 .. Len(a.route),
           Advance(c, a, i)
    PROVE  /\ pc' \in [GatewayCalls -> PCs] /\ at' \in [GatewayCalls -> Nat]
           /\ n' \in [GatewayCalls -> 0 .. MaxAttempts]
           /\ sent' \in [GatewayCalls -> Seq(Models \X Nat)]
           /\ result' \in [GatewayCalls -> Results]
           /\ attempts' \in [GatewayCalls -> Seq(Attempt)]
           /\ breakers' \in [Models -> Breaker]
<1>1. /\ pc \in [GatewayCalls -> PCs] /\ result \in [GatewayCalls -> Results]
      /\ attempts \in [GatewayCalls -> Seq(Attempt)] /\ breakers \in [Models -> Breaker]
      /\ now \in Nat
  BY DEF TypeOK
<1>2. PICK s : /\ Skips(s) /\ attempts' = [attempts EXCEPT ![c] = attempts[c] \o s]
               /\ \/ \E j \in DOMAIN a.route :
                       /\ j > i /\ _admit(a, a.route[j]) /\ Begin(c, a, j, 1)
                       /\ breakers' = [breakers EXCEPT ![a.route[j]] =
                                         admitted(breakers[a.route[j]], now)]
                  \/ /\ UNCHANGED <<breakers, at, n, sent>>
                     /\ End(c, IF \A k \in DOMAIN (attempts[c] \o s) :
                                    (attempts[c] \o s)[k].outcome = "skipped"
                               THEN "no_available_provider" ELSE "provider_unavailable")
  BY AdvanceIs
<1>3. attempts' \in [GatewayCalls -> Seq(Attempt)]
  <2>1. attempts[c] \o s \in Seq(Attempt)
    BY <1>1, <1>2 DEF Skips
  <2> QED
    BY <1>1, <1>2, <2>1
<1>4. ASSUME NEW j \in DOMAIN a.route, Begin(c, a, j, 1),
             breakers' = [breakers EXCEPT ![a.route[j]] = admitted(breakers[a.route[j]], now)]
      PROVE  /\ pc' \in [GatewayCalls -> PCs] /\ at' \in [GatewayCalls -> Nat]
             /\ n' \in [GatewayCalls -> 0 .. MaxAttempts]
             /\ sent' \in [GatewayCalls -> Seq(Models \X Nat)]
             /\ result' \in [GatewayCalls -> Results] /\ breakers' \in [Models -> Breaker]
  <2>1. a.route[j] \in Models /\ 1 \in 1 .. MaxAttempts
    BY RouteIs, GatewayAssumption
  <2>2. admitted(breakers[a.route[j]], now) \in Breaker
    BY <1>1, <2>1, BreakerTypes
  <2>3. breakers' \in [Models -> Breaker]
    BY <1>1, <1>4, <2>1, <2>2
  <2> QED
    BY <1>4, <2>1, <2>3, BeginTypes
<1>5. ASSUME NEW how \in {"no_available_provider", "provider_unavailable"}, End(c, how)
      PROVE  pc' \in [GatewayCalls -> PCs] /\ result' \in [GatewayCalls -> Results]
  BY <1>1, <1>5 DEF End, PCs, Results
<1> QED
  BY <1>2, <1>3, <1>4, <1>5 DEF TypeOK

LEMMA TypeStep == IInv /\ [Next]_vars => TypeOK'
<1> SUFFICES ASSUME IInv, [Next]_vars PROVE TypeOK'
  OBVIOUS
<1>1. /\ TypeOK /\ breakers \in [Models -> Breaker] /\ now \in Nat
      /\ pc \in [GatewayCalls -> PCs] /\ ask \in [GatewayCalls -> Asks \cup {None}]
      /\ at \in [GatewayCalls -> Nat] /\ n \in [GatewayCalls -> 0 .. MaxAttempts]
      /\ err \in [GatewayCalls -> Errors \cup {"none", "cancelled"}]
      /\ wake \in [GatewayCalls -> Nat] /\ attempts \in [GatewayCalls -> Seq(Attempt)]
      /\ usage \in [GatewayCalls -> Seq(Attempt)]
      /\ dropped \in [GatewayCalls -> SUBSET (Models \X Nat)]
      /\ sent \in [GatewayCalls -> Seq(Models \X Nat)]
      /\ heard \in [GatewayCalls -> SUBSET (Models \X Nat)] /\ result \in [GatewayCalls -> Results]
  BY DEF IInv, TypeOK
<1>2. CASE Tick \/ UNCHANGED vars
  BY <1>1, <1>2 DEF Tick, vars, shared, books, TypeOK
<1>3. ASSUME NEW c \in GatewayCalls, Start(c) PROVE TypeOK'
  <2>1. PICK a \in Asks : ask' = [ask EXCEPT ![c] = a] /\ Advance(c, a, 0)
    BY <1>1, <1>3, StartIs
  <2>2. 0 \in 0 .. Len(a.route)
    BY RouteIs
  <2>3. ask' \in [GatewayCalls -> Asks \cup {None}]
    BY <1>1, <2>1
  <2>4. UNCHANGED <<now, err, wake, books, heard>>
    BY <1>1, <1>3, StartIs
  <2> QED
    BY <1>1, <2>1, <2>2, <2>3, <2>4, AdvanceTypes DEF TypeOK, books
<1>4. ASSUME NEW c \in GatewayCalls, NEW to \in PCs, pc' = [pc EXCEPT ![c] = to]
      PROVE  pc' \in [GatewayCalls -> PCs]
  BY <1>1, <1>4
<1>5. ASSUME NEW c \in GatewayCalls, NEW how \in Results, result' = [result EXCEPT ![c] = how]
      PROVE  result' \in [GatewayCalls -> Results]
  BY <1>1, <1>5
<1>6. ASSUME NEW c \in GatewayCalls, FirstItem(c) PROVE TypeOK'
  <2>1. <<Target(c), n[c]>> \in Models \X Nat
    BY <1>1, <1>6, PlaceIs, GatewayAssumption DEF FirstItem, Underway
  <2>2. heard' \in [GatewayCalls -> SUBSET (Models \X Nat)]
    BY <1>1, <1>6, <2>1 DEF FirstItem
  <2>3. pc' \in [GatewayCalls -> PCs]
    BY <1>4, <1>6 DEF FirstItem, PCs
  <2> QED
    BY <1>1, <1>6, <2>2, <2>3 DEF FirstItem, TypeOK, shared, books
<1>7. ASSUME NEW c \in GatewayCalls, NEW outcome \in Outcomes,
             NEW why \in Errors \cup {"none", "cancelled"}, pc[c] \in Underway,
             Over(c, outcome, why), breakers' \in [Models -> Breaker]
      PROVE  TypeOK'
  <2>1. Target(c) \in Models /\ n[c] \in 1 .. MaxAttempts /\ MaxAttempts \in Nat
    BY <1>7, PlaceIs, GatewayAssumption
  <2>2. ThisAttempt(c, outcome) \in Attempt
    BY <2>1 DEF ThisAttempt, Attempt
  <2>3. attempts' = [attempts EXCEPT ![c] = Append(attempts[c], ThisAttempt(c, outcome))]
    BY <1>1, <1>7 DEF Over
  <2>4. attempts' \in [GatewayCalls -> Seq(Attempt)]
    BY <1>1, <2>2, <2>3
  <2>5. err' \in [GatewayCalls -> Errors \cup {"none", "cancelled"}]
    BY <1>1, <1>7 DEF Over
  <2>6. pc' \in [GatewayCalls -> PCs]
    BY <1>4, <1>7 DEF Over, PCs
  <2> QED
    BY <1>1, <1>7, <2>4, <2>5, <2>6 DEF Over, TypeOK, books
<1>8. ASSUME NEW c \in GatewayCalls, Succeed(c) \/ Fail(c) PROVE TypeOK'
  <2>1. pc[c] \in Underway
    BY <1>8 DEF Succeed, Fail, Underway
  <2>2. Target(c) \in Models /\ breakers[Target(c)] \in Breaker
    BY <2>1, PlaceIs
  <2>3. CASE Succeed(c)
    <3>1. breakers' = [breakers EXCEPT ![Target(c)] = record_success(breakers[Target(c)])]
      BY <1>1, <2>2, <2>3 DEF Succeed
    <3>2. breakers' \in [Models -> Breaker]
      BY <1>1, <2>2, <3>1, BreakerTypes
    <3> QED
      BY <1>7, <2>1, <2>3, <3>2 DEF Succeed, Outcomes
  <2>4. CASE Fail(c)
    <3>1. PICK e \in Faults :
            /\ Over(c, IF e = "timeout" THEN "timeout" ELSE "error", e)
            /\ breakers' = IF e \in Unhealthy
                           THEN [breakers EXCEPT ![Target(c)] = record_failure(@, now)]
                           ELSE breakers
      BY <2>4 DEF Fail
    <3>2. record_failure(breakers[Target(c)], now) \in Breaker
      BY <1>1, <2>2, BreakerTypes
    <3>3. breakers' = breakers
          \/ breakers' = [breakers EXCEPT ![Target(c)] = record_failure(breakers[Target(c)], now)]
      BY <1>1, <2>2, <3>1
    <3>4. breakers' \in [Models -> Breaker]
      BY <1>1, <2>2, <3>2, <3>3
    <3>5. e \in Errors
      BY GatewayAssumption
    <3> QED
      BY <1>7, <2>1, <3>1, <3>4, <3>5 DEF Outcomes
  <2> QED
    BY <1>8, <2>3, <2>4
<1>9. ASSUME NEW c \in GatewayCalls, Cancel(c) PROVE TypeOK'
  <2>1. err' \in [GatewayCalls -> Errors \cup {"none", "cancelled"}]
    BY <1>1, <1>9 DEF Cancel
  <2>2. pc' \in [GatewayCalls -> PCs]
    BY <1>4, <1>9 DEF Cancel, PCs
  <2> QED
    BY <1>1, <1>9, <2>1, <2>2 DEF Cancel, TypeOK, shared, books
<1>10. ASSUME NEW c \in GatewayCalls, CancelSleep(c) \/ Drain(c) PROVE TypeOK'
  <2>1. pc' \in [GatewayCalls -> PCs]
    BY <1>4, <1>10 DEF CancelSleep, Drain, End, PCs
  <2>2. result' \in [GatewayCalls -> Results]
    BY <1>1, <1>5, <1>10 DEF CancelSleep, Drain, End, Results
  <2> QED
    BY <1>1, <1>10, <2>1, <2>2 DEF CancelSleep, Drain, End, TypeOK, shared, books
<1>11. ASSUME NEW c \in GatewayCalls, _record(c)
       PROVE  /\ usage' \in [GatewayCalls -> Seq(Attempt)]
              /\ dropped' \in [GatewayCalls -> SUBSET (Models \X Nat)]
              /\ err' \in [GatewayCalls -> Errors \cup {"none", "cancelled"}]
  <2>1. pc[c] = "recording" /\ err' = [err EXCEPT ![c] = "none"] /\ Row(c) \in Attempt
    BY <1>11, RecordIs
  <2>2. <<Target(c), n[c]>> \in Models \X Nat
    BY <2>1, PlaceIs, GatewayAssumption DEF Underway
  <2>3. Append(usage[c], Row(c)) \in Seq(Attempt)
    BY <1>1, <2>1
  <2>4. dropped[c] \cup {<<Target(c), n[c]>>} \in SUBSET (Models \X Nat)
    BY <1>1, <2>2
  <2>5. \/ usage' = [usage EXCEPT ![c] = Append(usage[c], Row(c))] /\ dropped' = dropped
        \/ /\ usage' = usage
           /\ dropped' = [dropped EXCEPT ![c] = dropped[c] \cup {<<Target(c), n[c]>>}]
    BY <1>11, RecordIs
  <2>6. usage' \in [GatewayCalls -> Seq(Attempt)]
    BY <1>1, <2>3, <2>5
  <2>7. dropped' \in [GatewayCalls -> SUBSET (Models \X Nat)]
    BY <1>1, <2>4, <2>5
  <2>8. err' \in [GatewayCalls -> Errors \cup {"none", "cancelled"}]
    BY <1>1, <2>1
  <2> QED
    BY <2>6, <2>7, <2>8
<1>12. ASSUME NEW c \in GatewayCalls, RecordedSuccess(c) \/ RecordedEnd(c) PROVE TypeOK'
  <2>1. _record(c) /\ UNCHANGED <<shared, ask, at, n, wake, attempts, sent, heard>>
    BY <1>12 DEF RecordedSuccess, RecordedEnd
  <2>2. PICK to \in {"completed", "done"}, how \in {"ok", "cancelled", "mid_stream", "bad_request"} :
          pc' = [pc EXCEPT ![c] = to] /\ result' = [result EXCEPT ![c] = how]
    BY <1>12 DEF RecordedSuccess, RecordedEnd, End
  <2>3. pc' \in [GatewayCalls -> PCs] /\ result' \in [GatewayCalls -> Results]
    BY <1>1, <2>2 DEF PCs, Results
  <2> QED
    BY <1>1, <1>11, <2>1, <2>3 DEF TypeOK, shared
<1>13. ASSUME NEW c \in GatewayCalls, Retry(c) PROVE TypeOK'
  <2>1. _record(c) /\ UNCHANGED <<shared, ask, at, n, attempts, sent, heard, result>>
    BY <1>13 DEF Retry, MovesOn
  <2>2. PICK delay \in Delays : wake' = [wake EXCEPT ![c] = now + delay]
    BY <1>13 DEF Retry
  <2>3. now + delay \in Nat
    BY <1>1, GatewayAssumption
  <2>4. wake' \in [GatewayCalls -> Nat]
    BY <1>1, <2>2, <2>3
  <2>5. pc' \in [GatewayCalls -> PCs]
    BY <1>4, <1>13 DEF Retry, PCs
  <2> QED
    BY <1>1, <1>11, <2>1, <2>4, <2>5 DEF TypeOK, shared
<1>14. ASSUME NEW c \in GatewayCalls, FallBack(c) PROVE TypeOK'
  <2>1. /\ _record(c) /\ UNCHANGED <<now, ask, wake, heard>>
        /\ ask[c] \in Asks /\ at[c] \in 0 .. Len(ask[c].route) /\ Advance(c, ask[c], at[c])
    BY <1>14, FallBackIs
  <2>2. /\ pc' \in [GatewayCalls -> PCs] /\ at' \in [GatewayCalls -> Nat]
        /\ n' \in [GatewayCalls -> 0 .. MaxAttempts]
        /\ sent' \in [GatewayCalls -> Seq(Models \X Nat)]
        /\ result' \in [GatewayCalls -> Results]
        /\ attempts' \in [GatewayCalls -> Seq(Attempt)]
        /\ breakers' \in [Models -> Breaker]
    BY <1>1, <2>1, AdvanceTypes
  <2> QED
    BY <1>1, <1>11, <2>1, <2>2 DEF TypeOK
<1>15. ASSUME NEW c \in GatewayCalls, Wake(c) PROVE TypeOK'
  <2>1. /\ pc[c] = "sleeping" /\ Begin(c, ask[c], at[c], n[c] + 1)
        /\ UNCHANGED <<shared, ask, err, attempts, books, heard>>
        /\ wake' = [wake EXCEPT ![c] = 0]
    BY <1>15 DEF Wake
  <2>2. ask[c] \in Asks /\ at[c] \in DOMAIN ask[c].route /\ n[c] \in 1 .. MaxAttempts
    BY <2>1, PlaceIs DEF Underway
  <2>3. n[c] < MaxAttempts /\ MaxAttempts \in Nat
    BY <2>1, GatewayAssumption DEF IInv, CallInv, PlaceInv
  <2>4. n[c] + 1 \in 1 .. MaxAttempts
    BY <2>2, <2>3
  <2>5. wake' \in [GatewayCalls -> Nat]
    BY <1>1, <2>1
  <2> QED
    BY <1>1, <2>1, <2>2, <2>4, <2>5, BeginTypes DEF TypeOK, shared, books
<1> QED
  BY <1>2, <1>3, <1>6, <1>8, <1>9, <1>10, <1>12, <1>13, <1>14, <1>15, Kinds DEF Moves, Step

-----------------------------------------------------------------------------
(* Calls do not touch each other *)

Still(d) ==
    /\ pc'[d] = pc[d] /\ ask'[d] = ask[d] /\ at'[d] = at[d] /\ n'[d] = n[d] /\ err'[d] = err[d]
    /\ attempts'[d] = attempts[d] /\ usage'[d] = usage[d] /\ dropped'[d] = dropped[d]
    /\ sent'[d] = sent[d] /\ heard'[d] = heard[d] /\ result'[d] = result[d]

LEMMA AdvanceElsewhere ==
    ASSUME TypeOK, NEW c \in GatewayCalls, NEW a \in Asks, NEW i \in 0 .. Len(a.route),
           Advance(c, a, i), NEW d \in GatewayCalls, d # c
    PROVE  /\ pc'[d] = pc[d] /\ at'[d] = at[d] /\ n'[d] = n[d] /\ attempts'[d] = attempts[d]
           /\ sent'[d] = sent[d] /\ result'[d] = result[d]
<1>1. attempts \in [GatewayCalls -> Seq(Attempt)] /\ pc \in [GatewayCalls -> PCs]
      /\ result \in [GatewayCalls -> Results]
  BY DEF TypeOK
<1>2. PICK s : /\ attempts' = [attempts EXCEPT ![c] = attempts[c] \o s]
               /\ \/ \E j \in DOMAIN a.route : Begin(c, a, j, 1)
                  \/ UNCHANGED <<at, n, sent>> /\ \E how : End(c, how)
  BY AdvanceIs
<1>3. attempts'[d] = attempts[d]
  BY <1>1, <1>2
<1>4. CASE \E j \in DOMAIN a.route : Begin(c, a, j, 1)
  BY <1>3, <1>4, BeginIs
<1>5. ASSUME NEW how, End(c, how) PROVE pc'[d] = pc[d] /\ result'[d] = result[d]
  BY <1>1, <1>5 DEF End
<1> QED
  BY <1>2, <1>3, <1>4, <1>5

LEMMA Elsewhere ==
    ASSUME IInv, NEW c \in GatewayCalls, Moves(c), NEW d \in GatewayCalls, d # c
    PROVE  Still(d)
<1>1. /\ TypeOK /\ pc \in [GatewayCalls -> PCs] /\ ask \in [GatewayCalls -> Asks \cup {None}]
      /\ at \in [GatewayCalls -> Nat] /\ n \in [GatewayCalls -> 0 .. MaxAttempts]
      /\ err \in [GatewayCalls -> Errors \cup {"none", "cancelled"}]
      /\ attempts \in [GatewayCalls -> Seq(Attempt)]
      /\ usage \in [GatewayCalls -> Seq(Attempt)]
      /\ dropped \in [GatewayCalls -> SUBSET (Models \X Nat)]
      /\ sent \in [GatewayCalls -> Seq(Models \X Nat)]
      /\ heard \in [GatewayCalls -> SUBSET (Models \X Nat)] /\ result \in [GatewayCalls -> Results]
  BY DEF IInv, TypeOK
<1>2. CASE Start(c)
  <2>1. PICK a \in Asks : ask' = [ask EXCEPT ![c] = a] /\ Advance(c, a, 0)
    BY <1>1, <1>2, StartIs
  <2>2. 0 \in 0 .. Len(a.route)
    BY RouteIs
  <2>3. UNCHANGED <<err, usage, dropped, heard>> /\ ask'[d] = ask[d]
    BY <1>1, <1>2, <2>1, StartIs DEF books
  <2> QED
    BY <1>1, <2>1, <2>2, <2>3, AdvanceElsewhere DEF Still
<1>3. CASE FirstItem(c)
  BY <1>1, <1>3 DEF FirstItem, Still, books
<1>4. CASE Succeed(c) \/ Fail(c)
  <2>1. PICK outcome, why : Over(c, outcome, why)
    BY <1>4 DEF Succeed, Fail
  <2> QED
    BY <1>1, <2>1 DEF Over, Still, books
<1>5. CASE Cancel(c) \/ CancelSleep(c) \/ Drain(c)
  BY <1>1, <1>5 DEF Cancel, CancelSleep, Drain, End, Still, books
<1>6. ASSUME _record(c) PROVE usage'[d] = usage[d] /\ dropped'[d] = dropped[d] /\ err'[d] = err[d]
  <2>1. PICK u, x : /\ usage' = usage \/ usage' = [usage EXCEPT ![c] = u]
                    /\ dropped' = dropped \/ dropped' = [dropped EXCEPT ![c] = x]
                    /\ err' = [err EXCEPT ![c] = "none"]
    BY <1>6, RecordIs, Zenon
  <2> QED
    BY <1>1, <2>1
<1>7. CASE RecordedSuccess(c) \/ RecordedEnd(c)
  <2>1. _record(c) /\ UNCHANGED <<ask, at, n, attempts, sent, heard>>
    BY <1>7 DEF RecordedSuccess, RecordedEnd
  <2>2. pc'[d] = pc[d] /\ result'[d] = result[d]
    BY <1>1, <1>7 DEF RecordedSuccess, RecordedEnd, End
  <2> QED
    BY <1>6, <2>1, <2>2 DEF Still
<1>8. CASE Retry(c)
  <2>1. _record(c) /\ UNCHANGED <<ask, at, n, attempts, sent, heard, result>>
    BY <1>8 DEF Retry, MovesOn
  <2>2. pc'[d] = pc[d]
    BY <1>1, <1>8 DEF Retry
  <2> QED
    BY <1>6, <2>1, <2>2 DEF Still
<1>9. CASE FallBack(c)
  <2>1. /\ _record(c) /\ UNCHANGED <<ask, heard>>
        /\ ask[c] \in Asks /\ at[c] \in 0 .. Len(ask[c].route) /\ Advance(c, ask[c], at[c])
    BY <1>9, FallBackIs
  <2> QED
    BY <1>1, <1>6, <2>1, AdvanceElsewhere DEF Still
<1>10. CASE Wake(c)
  <2>1. Begin(c, ask[c], at[c], n[c] + 1) /\ UNCHANGED <<ask, err, attempts, usage, dropped, heard>>
    BY <1>10 DEF Wake, books
  <2> QED
    BY <1>1, <2>1, BeginIs DEF Still
<1> QED
  BY <1>2, <1>3, <1>4, <1>5, <1>7, <1>8, <1>9, <1>10 DEF Moves, Step

\* Books that were not touched are still right.
LEMMA BooksFrame ==
    ASSUME NEW d \in GatewayCalls, BooksInv(d),
           sent'[d] = sent[d], usage'[d] = usage[d], dropped'[d] = dropped[d],
           ask'[d] = ask[d], at'[d] = at[d], n'[d] = n[d], Unbooked(d)' <=> Unbooked(d),
           result'[d] = "ok" /\ pc'[d] # "done" => result[d] = "ok" /\ pc[d] # "done"
    PROVE  BooksInv(d)'
<1>1. \A m, k : /\ Tried(d, m, k)' <=> Tried(d, m, k)
                /\ Booked(d, m, k)' <=> Booked(d, m, k)
                /\ Praised(d, m, k)' <=> Praised(d, m, k)
  BY DEF Tried, Booked, Praised
<1>2. Target(d)' = Target(d) /\ RowsInv(d)'
  BY DEF Target, RowsInv, BooksInv
<1>3. \A m \in Models, k \in 1 .. MaxAttempts :
        Tried(d, m, k)' <=> Booked(d, m, k)' \/ (Unbooked(d)' /\ m = Target(d)' /\ k = n'[d])
  BY <1>1, <1>2 DEF BooksInv
<1>4. PICK m, k : m = Target(d) /\ k = n[d]
  OBVIOUS
<1>5. Unbooked(d) => ~ Booked(d, m, k)'
  BY <1>1, <1>4 DEF BooksInv
<1>6. result'[d] = "ok" /\ pc'[d] # "done" => Praised(d, m, k)'
  BY <1>1, <1>4 DEF BooksInv
<1>7. /\ Unbooked(d)' => ~ Booked(d, Target(d), n[d])'
      /\ result'[d] = "ok" /\ pc'[d] # "done" => Praised(d, Target(d), n[d])'
  BY <1>2, <1>4, <1>5, <1>6 DEF Booked, Praised
<1> QED
  BY <1>2, <1>3, <1>7 DEF BooksInv

LEMMA CallFrame ==
    ASSUME NEW d \in GatewayCalls, CallInv(d), Still(d)
    PROVE  CallInv(d)'
<1>1. PlaceInv(d)' /\ ResultInv(d)' /\ HeardInv(d)'
  BY DEF CallInv, Still, PlaceInv, ResultInv, HeardInv, Target
<1>2. SentInv(d)'
  BY DEF CallInv, Still, SentInv
<1>3. BooksInv(d)'
  <2>1. Unbooked(d)' <=> Unbooked(d)
    BY DEF Still, Unbooked
  <2>2. /\ sent'[d] = sent[d] /\ usage'[d] = usage[d] /\ dropped'[d] = dropped[d]
        /\ ask'[d] = ask[d] /\ at'[d] = at[d] /\ n'[d] = n[d]
        /\ result'[d] = result[d] /\ pc'[d] = pc[d] /\ BooksInv(d)
    BY DEF Still, CallInv
  <2> QED
    BY <2>1, <2>2, BooksFrame
<1>4. ListInv(d)'
  BY DEF CallInv, Still, ListInv, Succeeded
<1> QED
  BY <1>1, <1>2, <1>3, <1>4 DEF CallInv

-----------------------------------------------------------------------------
(* The steps of a call *)

\* Steps that send nothing and write no row.
LEMMA QuietIs ==
    ASSUME IInv, NEW c \in GatewayCalls,
           FirstItem(c) \/ Succeed(c) \/ Fail(c) \/ Cancel(c) \/ CancelSleep(c) \/ Drain(c)
    PROVE  /\ ask'[c] = ask[c] /\ at'[c] = at[c] /\ n'[c] = n[c] /\ sent'[c] = sent[c]
           /\ usage'[c] = usage[c] /\ dropped'[c] = dropped[c]
           /\ \/ /\ pc[c] = "invoking" /\ pc'[c] = "streaming" /\ err'[c] = err[c]
                 /\ attempts'[c] = attempts[c] /\ result'[c] = result[c]
                 /\ heard'[c] = heard[c] \cup {<<Target(c), n[c]>>}
              \/ /\ pc[c] \in {"invoking", "streaming"} /\ pc'[c] = "recording"
                 /\ heard'[c] = heard[c] /\ result'[c] = result[c]
                 /\ \E outcome \in {"success", "error", "timeout"} :
                      /\ attempts'[c] = Append(attempts[c], ThisAttempt(c, outcome))
                      /\ outcome = "success" <=> err'[c] = "none"
                      /\ err'[c] \in Errors \cup {"none"}
              \/ /\ pc[c] \in {"invoking", "streaming", "completed"} /\ pc'[c] = "recording"
                 /\ err'[c] = "cancelled"
                 /\ attempts'[c] = attempts[c] /\ heard'[c] = heard[c] /\ result'[c] = result[c]
              \/ /\ pc[c] = "sleeping" /\ pc'[c] = "done" /\ result'[c] = "cancelled"
                 /\ attempts'[c] = attempts[c] /\ heard'[c] = heard[c] /\ err'[c] = err[c]
              \/ /\ pc[c] = "completed" /\ pc'[c] = "done" /\ result'[c] = result[c]
                 /\ attempts'[c] = attempts[c] /\ heard'[c] = heard[c] /\ err'[c] = err[c]
<1>1. /\ pc \in [GatewayCalls -> PCs] /\ ask \in [GatewayCalls -> Asks \cup {None}]
      /\ err \in [GatewayCalls -> Errors \cup {"none", "cancelled"}]
      /\ attempts \in [GatewayCalls -> Seq(Attempt)]
      /\ heard \in [GatewayCalls -> SUBSET (Models \X Nat)] /\ result \in [GatewayCalls -> Results]
  BY DEF IInv, TypeOK
<1>2. CASE FirstItem(c)
  BY <1>1, <1>2 DEF FirstItem, books
<1>3. CASE Succeed(c) \/ Fail(c)
  <2>1. pc[c] \in {"invoking", "streaming"}
    BY <1>3 DEF Succeed, Fail
  <2>2. PICK outcome \in {"success", "error", "timeout"}, why \in Errors \cup {"none"} :
          /\ Over(c, outcome, why)
          /\ outcome = "success" <=> why = "none"
    BY <1>3, GatewayAssumption DEF Succeed, Fail, Errors, Unhealthy, Retryable
  <2>3. PICK r : r = ThisAttempt(c, outcome)
    OBVIOUS
  <2>4. /\ attempts' = [attempts EXCEPT ![c] = Append(attempts[c], r)]
        /\ err' = [err EXCEPT ![c] = why] /\ pc' = [pc EXCEPT ![c] = "recording"]
        /\ UNCHANGED <<ask, at, n, usage, dropped, sent, heard, result>>
    BY <1>1, <2>2, <2>3 DEF Over, books
  <2>5. attempts'[c] = Append(attempts[c], r) /\ err'[c] = why /\ pc'[c] = "recording"
    BY <1>1, <2>4
  <2> QED
    BY <2>1, <2>2, <2>3, <2>4, <2>5
<1>4. CASE Cancel(c)
  BY <1>1, <1>4 DEF Cancel, books
<1>5. CASE CancelSleep(c)
  BY <1>1, <1>5 DEF CancelSleep, End, books
<1>6. CASE Drain(c)
  BY <1>1, <1>6 DEF Drain, books
<1> QED
  BY <1>2, <1>3, <1>4, <1>5, <1>6

\* What a quiet step leaves true: the place, what was sent and what is booked.
LEMMA QuietStep ==
    ASSUME IInv, NEW c \in GatewayCalls,
           FirstItem(c) \/ Succeed(c) \/ Fail(c) \/ Cancel(c) \/ CancelSleep(c) \/ Drain(c)
    PROVE  CallInv(c)'
<1>1. CallInv(c)
  BY DEF IInv
<1>2. /\ ask'[c] = ask[c] /\ at'[c] = at[c] /\ n'[c] = n[c] /\ sent'[c] = sent[c]
      /\ usage'[c] = usage[c] /\ dropped'[c] = dropped[c]
  BY QuietIs
<1>3. PICK o \in {"success", "error", "timeout"} :
           \/ /\ pc[c] = "invoking" /\ pc'[c] = "streaming" /\ err'[c] = err[c]
              /\ attempts'[c] = attempts[c] /\ result'[c] = result[c]
              /\ heard'[c] = heard[c] \cup {<<Target(c), n[c]>>}
           \/ /\ pc[c] \in {"invoking", "streaming"} /\ pc'[c] = "recording"
              /\ heard'[c] = heard[c] /\ result'[c] = result[c]
              /\ attempts'[c] = Append(attempts[c], ThisAttempt(c, o))
              /\ o = "success" <=> err'[c] = "none"
              /\ err'[c] \in Errors \cup {"none"}
           \/ /\ pc[c] \in {"invoking", "streaming", "completed"} /\ pc'[c] = "recording"
              /\ err'[c] = "cancelled"
              /\ attempts'[c] = attempts[c] /\ heard'[c] = heard[c] /\ result'[c] = result[c]
           \/ /\ pc[c] = "sleeping" /\ pc'[c] = "done" /\ result'[c] = "cancelled"
              /\ attempts'[c] = attempts[c] /\ heard'[c] = heard[c] /\ err'[c] = err[c]
           \/ /\ pc[c] = "completed" /\ pc'[c] = "done" /\ result'[c] = result[c]
              /\ attempts'[c] = attempts[c] /\ heard'[c] = heard[c] /\ err'[c] = err[c]
  BY QuietIs, Zenon
<1>4. PlaceInv(c)'
  BY <1>1, <1>2, <1>3 DEF CallInv, PlaceInv, Underway, Target
<1>5. ResultInv(c)'
  BY <1>1, <1>3 DEF CallInv, ResultInv, Errors, Unhealthy, Retryable
<1>6. SentInv(c)'
  BY <1>1, <1>2 DEF CallInv, SentInv
<1>7. HeardInv(c)'
  <2>1. CASE pc[c] = "invoking" /\ pc'[c] = "streaming" /\ heard'[c] = heard[c] \cup {<<Target(c), n[c]>>}
    <3>1. heard[c] = {} /\ sent[c] # << >> /\ sent[c][Len(sent[c])] = <<Target(c), n[c]>>
      BY <1>1, <2>1 DEF CallInv, HeardInv, PlaceInv, Underway
    <3>2. heard'[c] = {sent[c][Len(sent[c])]}
      BY <2>1, <3>1
    <3> QED
      BY <1>2, <2>1, <3>1, <3>2 DEF HeardInv
  <2>2. CASE heard'[c] = heard[c] /\ pc'[c] \notin {"invoking", "sleeping"}
    BY <1>1, <1>2, <2>2 DEF CallInv, HeardInv
  <2> QED
    BY <1>3, <2>1, <2>2
<1>8. BooksInv(c)'
  <2>1. Unbooked(c)' <=> Unbooked(c)
    BY <1>1, <1>3 DEF Unbooked, CallInv, ResultInv
  <2>2. result'[c] = "ok" /\ pc'[c] # "done" => result[c] = "ok" /\ pc[c] # "done"
    BY <1>3
  <2> QED
    BY <1>1, <1>2, <2>1, <2>2, BooksFrame DEF CallInv
<1>9. ListInv(c)'
  <2>1. CASE pc'[c] = "recording" /\ attempts'[c] = Append(attempts[c], ThisAttempt(c, o))
    <3>1. attempts[c] \in Seq(Attempt) /\ Target(c) \in Models /\ n[c] \in 1 .. MaxAttempts
          /\ MaxAttempts \in Nat
      BY <1>3, <2>1, PlaceIs, GatewayAssumption DEF IInv, TypeOK, Underway
    <3>2. ThisAttempt(c, o) \in Attempt /\ ThisAttempt(c, o).outcome = o
      BY <3>1 DEF ThisAttempt, Attempt, Outcomes
    <3>3. PICK r \in Attempt : r = ThisAttempt(c, o) /\ r.outcome = o
      BY <3>2
    <3>4. PICK L \in Nat : L = Len(attempts[c])
      BY <3>1
    <3>5. /\ DOMAIN attempts[c] = 1 .. L /\ DOMAIN attempts'[c] = 1 .. L + 1
          /\ Len(attempts'[c]) = L + 1 /\ attempts'[c][L + 1] = r /\ attempts'[c] # << >>
          /\ \A i \in 1 .. L : attempts'[c][i] = attempts[c][i]
      BY <2>1, <3>1, <3>3, <3>4
    <3>6. /\ pc[c] \in {"invoking", "streaming"} /\ result[c] = "none" /\ result'[c] = "none"
          /\ o = "success" <=> err'[c] = "none"
      BY <1>1, <1>3, <2>1, <3>3, <3>4, <3>5 DEF CallInv, ResultInv
    <3>7. \A i \in 1 .. L : attempts'[c][i].outcome # "success"
      BY <1>1, <3>5, <3>6 DEF CallInv, ListInv, Succeeded
    <3>8. Succeeded(c)' <=> o = "success"
      BY <2>1, <3>6 DEF Succeeded
    <3>9. \A i \in DOMAIN attempts'[c] :
            attempts'[c][i].outcome = "success" <=> i = Len(attempts'[c]) /\ Succeeded(c)'
      BY <3>3, <3>5, <3>7, <3>8
    <3>10. err'[c] \in Errors => attempts'[c][Len(attempts'[c])].outcome \in {"timeout", "error"}
      BY <3>3, <3>5, <3>6 DEF Errors, Unhealthy, Retryable
    <3> QED
      BY <2>1, <3>5, <3>6, <3>9, <3>10 DEF ListInv
  <2>2. CASE attempts'[c] = attempts[c] /\ pc'[c] # "recording"
    BY <1>1, <1>2, <1>3, <2>2 DEF CallInv, ListInv, ResultInv, HeardInv, Succeeded
  <2>3. CASE attempts'[c] = attempts[c] /\ pc'[c] = "recording" /\ err'[c] = "cancelled"
    BY <1>1, <1>2, <1>3, <2>3 DEF CallInv, ListInv, ResultInv, Succeeded, Errors, Unhealthy, Retryable
  <2> QED
    BY <1>3, <2>1, <2>2, <2>3
<1> QED
  BY <1>4, <1>5, <1>6, <1>7, <1>8, <1>9 DEF CallInv

\* Once a row is written or dropped, exactly the attempts sent are booked; the
\* rows still agree, and a success has no other row.
LEMMA Recorded ==
    ASSUME IInv, NEW c \in GatewayCalls, _record(c)
    PROVE  /\ \A m \in Models, k \in 1 .. MaxAttempts : Tried(c, m, k) <=> Booked(c, m, k)'
           /\ RowsInv(c)'
           /\ \A m, k : err[c] = "none" /\ m = Target(c) /\ k = n[c] => Praised(c, m, k)'
<1>1. PICK t, k0, r : t = Target(c) /\ k0 = n[c] /\ r = Row(c)
  OBVIOUS
<1>2. /\ pc[c] = "recording" /\ r \in Attempt /\ r.model = t /\ r.n = k0
      /\ err[c] = "none" => r.outcome = "success"
      /\ err[c] = "cancelled" => r.outcome = "cancelled"
  BY <1>1, RecordIs
<1>3. t \in Models /\ k0 \in 1 .. MaxAttempts /\ MaxAttempts \in Nat
  BY <1>1, <1>2, PlaceIs, GatewayAssumption DEF Underway
<1>4. /\ usage[c] \in Seq(Attempt) /\ dropped[c] \in SUBSET (Models \X Nat)
      /\ BooksInv(c) /\ ResultInv(c) /\ sent[c] # << >> /\ sent[c] \in Seq(Models \X Nat)
      /\ sent[c][Len(sent[c])] = <<t, k0>>
  BY <1>1, <1>2, PlaceIs DEF IInv, TypeOK, CallInv, Underway
<1>5. \/ usage'[c] = Append(usage[c], r) /\ dropped'[c] = dropped[c]
      \/ usage'[c] = usage[c] /\ dropped'[c] = dropped[c] \cup {<<t, k0>>}
  <2>1. /\ usage \in [GatewayCalls -> Seq(Attempt)]
        /\ dropped \in [GatewayCalls -> SUBSET (Models \X Nat)]
    BY DEF IInv, TypeOK
  <2>2. \/ usage' = [usage EXCEPT ![c] = Append(usage[c], r)] /\ dropped' = dropped
        \/ /\ usage' = usage
           /\ dropped' = [dropped EXCEPT ![c] = dropped[c] \cup {<<t, k0>>}]
    BY <1>1, RecordIs
  <2> QED
    BY <2>1, <2>2
<1>6. PICK L \in Nat : L = Len(usage[c]) /\ DOMAIN usage[c] = 1 .. L
  BY <1>4
<1>7. ASSUME usage'[c] = Append(usage[c], r), dropped'[c] = dropped[c]
      PROVE  /\ \A m, k : Booked(c, m, k)' <=> Booked(c, m, k) \/ (m = t /\ k = k0)
             /\ RowsInv(c)' /\ (err[c] = "none" => Praised(c, t, k0)')
  <2>1. /\ DOMAIN usage'[c] = 1 .. L + 1 /\ usage'[c][L + 1] = r
        /\ \A i \in 1 .. L : usage'[c][i] = usage[c][i]
    BY <1>2, <1>4, <1>6, <1>7
  <2>2. \A m, k : Booked(c, m, k)' <=> Booked(c, m, k) \/ (m = t /\ k = k0)
    <3> SUFFICES ASSUME NEW m, NEW k
                 PROVE  Booked(c, m, k)' <=> Booked(c, m, k) \/ (m = t /\ k = k0)
      OBVIOUS
    <3>1. Booked(c, m, k) => Booked(c, m, k)'
      BY <1>6, <1>7, <2>1 DEF Booked
    <3>2. m = t /\ k = k0 => Booked(c, m, k)'
      BY <1>2, <1>6, <2>1 DEF Booked
    <3>3. ASSUME Booked(c, m, k)', ~ (m = t /\ k = k0) PROVE Booked(c, m, k)
      <4>1. CASE <<m, k>> \in dropped'[c]
        BY <1>7, <4>1 DEF Booked
      <4>2. ASSUME NEW i \in DOMAIN usage'[c], usage'[c][i].model = m, usage'[c][i].n = k
            PROVE  Booked(c, m, k)
        <5>1. i # L + 1
          BY <1>2, <2>1, <3>3, <4>2
        <5>2. i \in 1 .. L
          BY <2>1, <5>1
        <5> QED
          BY <1>6, <2>1, <4>2, <5>2 DEF Booked
      <4> QED
        BY <3>3, <4>1, <4>2 DEF Booked
    <3> QED
      BY <3>1, <3>2, <3>3
  <2>3. Unbooked(c) => \A i \in 1 .. L : ~ (usage[c][i].model = t /\ usage[c][i].n = k0)
    BY <1>1, <1>4, <1>6 DEF BooksInv, Booked
  <2>4. ~ Unbooked(c) => /\ r.outcome = "cancelled"
                         /\ \A i \in 1 .. L : usage[c][i].model = t /\ usage[c][i].n = k0
                                                => usage[c][i].outcome = "success"
    <3>1. ~ Unbooked(c) => result[c] = "ok" /\ err[c] = "cancelled"
      BY <1>2, <1>4 DEF Unbooked, ResultInv
    <3>2. ~ Unbooked(c) => Praised(c, t, k0)
      BY <1>1, <1>2, <1>4, <3>1 DEF BooksInv
    <3> QED
      BY <1>2, <1>6, <3>1, <3>2 DEF Praised
  <2>5. RowsInv(c)'
    <3>1. \A i \in 1 .. L + 1 : usage'[c][i].n \in 1 .. MaxAttempts
      <4>1. \A i \in 1 .. L : usage'[c][i].n \in 1 .. MaxAttempts
        BY <1>4, <1>6, <2>1 DEF BooksInv, RowsInv
      <4> QED
        BY <1>2, <1>3, <2>1, <4>1
    <3>2. ASSUME NEW i \in 1 .. L + 1, NEW j \in 1 .. L + 1,
                 i < j, usage'[c][i].model = usage'[c][j].model, usage'[c][i].n = usage'[c][j].n
          PROVE  usage'[c][i].outcome = "success" /\ usage'[c][j].outcome = "cancelled"
      <4>1. i \in 1 .. L
        BY <3>2
      <4>2. CASE j \in 1 .. L
        BY <1>4, <1>6, <2>1, <3>2, <4>1, <4>2 DEF BooksInv, RowsInv
      <4>3. CASE j = L + 1
        <5>1. usage[c][i].model = t /\ usage[c][i].n = k0
          BY <1>2, <2>1, <3>2, <4>1, <4>3
        <5> QED
          BY <2>1, <2>3, <2>4, <4>1, <4>3, <5>1
      <4> QED
        BY <4>2, <4>3
    <3> QED
      BY <2>1, <3>1, <3>2 DEF RowsInv
  <2>6. err[c] = "none" => Praised(c, t, k0)'
    <3>1. err[c] = "none" => Unbooked(c) /\ r.outcome = "success"
      BY <1>2, <1>4 DEF Unbooked, ResultInv
    <3>2. ASSUME err[c] = "none", NEW i \in DOMAIN usage'[c],
                 usage'[c][i].model = t, usage'[c][i].n = k0
          PROVE  usage'[c][i].outcome = "success"
      <4>1. i \notin 1 .. L
        BY <2>1, <2>3, <3>1, <3>2
      <4> QED
        BY <2>1, <3>1, <3>2, <4>1
    <3> QED
      BY <3>2 DEF Praised
  <2> QED
    BY <2>2, <2>5, <2>6
<1>8. ASSUME usage'[c] = usage[c], dropped'[c] = dropped[c] \cup {<<t, k0>>}
      PROVE  /\ \A m, k : Booked(c, m, k)' <=> Booked(c, m, k) \/ (m = t /\ k = k0)
             /\ RowsInv(c)' /\ (err[c] = "none" => Praised(c, t, k0)')
  <2>1. \A m, k : Booked(c, m, k)' <=> Booked(c, m, k) \/ (m = t /\ k = k0)
    BY <1>8 DEF Booked
  <2>2. RowsInv(c)'
    BY <1>4, <1>8 DEF BooksInv, RowsInv
  <2>3. err[c] = "none" => Unbooked(c)
    BY <1>2, <1>4 DEF Unbooked, ResultInv
  <2>4. Unbooked(c) => \A i \in DOMAIN usage[c] : ~ (usage[c][i].model = t /\ usage[c][i].n = k0)
    BY <1>1, <1>4 DEF BooksInv, Booked
  <2>5. err[c] = "none" => Praised(c, t, k0)'
    BY <1>8, <2>3, <2>4 DEF Praised
  <2> QED
    BY <2>1, <2>2, <2>5
<1>9. /\ \A m, k : Booked(c, m, k)' <=> Booked(c, m, k) \/ (m = t /\ k = k0)
      /\ RowsInv(c)' /\ (err[c] = "none" => Praised(c, t, k0)')
  BY <1>5, <1>7, <1>8
<1>10. \A m \in Models, k \in 1 .. MaxAttempts : Tried(c, m, k) <=> Booked(c, m, k)'
  <2>1. Tried(c, t, k0)
    <3>1. Len(sent[c]) \in DOMAIN sent[c]
      BY <1>4
    <3> QED
      BY <1>4, <3>1 DEF Tried
  <2>2. \A m \in Models, k \in 1 .. MaxAttempts :
          Tried(c, m, k) <=> Booked(c, m, k) \/ (Unbooked(c) /\ m = t /\ k = k0)
    BY <1>1, <1>4 DEF BooksInv
  <2> QED
    BY <1>9, <2>1, <2>2
<1> QED
  BY <1>1, <1>9, <1>10

\* Books after a step that leaves nothing unbooked but what it has just sent.
LEMMA BooksStep ==
    ASSUME NEW c \in GatewayCalls, sent[c] \in Seq(Models \X Nat), RowsInv(c)',
           \A m \in Models, k \in 1 .. MaxAttempts : Tried(c, m, k) <=> Booked(c, m, k)',
           result'[c] = "ok" /\ pc'[c] # "done" => Praised(c, Target(c), n[c])',
           \/ sent'[c] = sent[c] /\ ~ Unbooked(c)'
           \/ /\ Unbooked(c)' /\ Target(c)' \in Models /\ n'[c] \in 1 .. MaxAttempts
              /\ sent'[c] = Append(sent[c], <<Target(c)', n'[c]>>)
              /\ ~ Tried(c, Target(c)', n'[c])
    PROVE  BooksInv(c)'
<1>1. CASE sent'[c] = sent[c] /\ ~ Unbooked(c)'
  <2>1. \A m, k : Tried(c, m, k)' <=> Tried(c, m, k)
    BY <1>1 DEF Tried
  <2>2. \A m \in Models, k \in 1 .. MaxAttempts : Tried(c, m, k)' <=> Booked(c, m, k)'
    BY <2>1
  <2> QED
    BY <1>1, <2>2 DEF BooksInv
<1>2. CASE Unbooked(c)' /\ sent'[c] # sent[c]
  <2>1. PICK t, k0 : t = Target(c)' /\ k0 = n'[c]
    OBVIOUS
  <2>2. /\ t \in Models /\ k0 \in 1 .. MaxAttempts /\ sent'[c] = Append(sent[c], <<t, k0>>)
        /\ ~ Tried(c, t, k0)
    BY <1>2, <2>1
  <2>3. PICK L \in Nat : /\ DOMAIN sent[c] = 1 .. L /\ DOMAIN sent'[c] = 1 .. L + 1
                         /\ sent'[c][L + 1] = <<t, k0>>
                         /\ \A i \in 1 .. L : sent'[c][i] = sent[c][i]
    <3>1. PICK z \in Models \X Nat : z = <<t, k0>>
      BY <2>2, GatewayAssumption
    <3>2. PICK s \in Seq(Models \X Nat) : s = sent[c] /\ sent'[c] = Append(s, z)
      BY <2>2, <3>1
    <3>3. /\ Len(s) \in Nat /\ DOMAIN s = 1 .. Len(s) /\ DOMAIN Append(s, z) = 1 .. Len(s) + 1
          /\ Append(s, z)[Len(s) + 1] = z /\ \A i \in 1 .. Len(s) : Append(s, z)[i] = s[i]
      OBVIOUS
    <3> QED
      BY <3>1, <3>2, <3>3, SMTT(30)
  <2>4. \A m, k : Tried(c, m, k)' <=> Tried(c, m, k) \/ (m = t /\ k = k0)
    <3> SUFFICES ASSUME NEW m, NEW k
                 PROVE  Tried(c, m, k)' <=> Tried(c, m, k) \/ (m = t /\ k = k0)
      OBVIOUS
    <3>1. Tried(c, m, k) => Tried(c, m, k)'
      BY <2>3, SMTT(30) DEF Tried
    <3>2. m = t /\ k = k0 => Tried(c, m, k)'
      <4>1. L + 1 \in DOMAIN sent'[c]
        BY <2>3
      <4> QED
        BY <2>3, <4>1 DEF Tried
    <3>3. ASSUME NEW i \in 1 .. L + 1, sent'[c][i] = <<m, k>>
          PROVE  Tried(c, m, k) \/ (m = t /\ k = k0)
      <4>1. CASE i = L + 1
        BY <2>3, <3>3, <4>1
      <4>2. CASE i \in 1 .. L
        BY <2>3, <3>3, <4>2 DEF Tried
      <4> QED
        BY <4>1, <4>2
    <3> QED
      BY <2>3, <3>1, <3>2, <3>3 DEF Tried
  <2>5. \A m \in Models, k \in 1 .. MaxAttempts :
          Tried(c, m, k)' <=> Booked(c, m, k)' \/ (Unbooked(c)' /\ m = Target(c)' /\ k = n'[c])
    BY <1>2, <2>1, <2>4
  <2>6. ~ Booked(c, t, k0)'
    BY <2>2
  <2>7. ~ Booked(c, Target(c), n[c])'
    BY <2>1, <2>6 DEF Booked
  <2> QED
    BY <2>5, <2>7 DEF BooksInv
<1> QED
  BY <1>1, <1>2

\* What was sent is of models and attempts, up to the present one.
LEMMA SentIs ==
    ASSUME IInv, NEW c \in GatewayCalls, ask[c] \in Asks
    PROVE  \A i \in DOMAIN sent[c] : \E q \in DOMAIN ask[c].route :
             /\ sent[c][i] = <<ask[c].route[q], sent[c][i][2]>>
             /\ q < at[c] \/ (q = at[c] /\ sent[c][i][2] <= n[c])
<1> SUFFICES ASSUME NEW i \in DOMAIN sent[c]
             PROVE  \E q \in DOMAIN ask[c].route :
                      /\ sent[c][i] = <<ask[c].route[q], sent[c][i][2]>>
                      /\ q < at[c] \/ (q = at[c] /\ sent[c][i][2] <= n[c])
  OBVIOUS
<1>1. SentInv(c) /\ sent[c] \in Seq(Models \X Nat)
  BY DEF IInv, TypeOK, CallInv
<1>2. sent[c][i] \in Models \X Nat
  BY <1>1
<1>3. PICK q \in DOMAIN ask[c].route :
        /\ sent[c][i][1] = ask[c].route[q]
        /\ q < at[c] \/ (q = at[c] /\ sent[c][i][2] <= n[c])
  BY <1>1 DEF SentInv, Fits
<1> QED
  BY <1>2, <1>3

\* A later target, and a later attempt on this one, have not been tried.
LEMMA NotTried ==
    ASSUME IInv, NEW c \in GatewayCalls, ask[c] \in Asks, NEW j \in DOMAIN ask[c].route,
           NEW k \in Nat, j > at[c] \/ (j = at[c] /\ k > n[c])
    PROVE  ~ Tried(c, ask[c].route[j], k)
<1>1. SUFFICES ASSUME NEW i \in DOMAIN sent[c], sent[c][i] = <<ask[c].route[j], k>>
               PROVE  FALSE
  BY DEF Tried
<1>2. PICK q \in DOMAIN ask[c].route :
        /\ sent[c][i] = <<ask[c].route[q], sent[c][i][2]>>
        /\ q < at[c] \/ (q = at[c] /\ sent[c][i][2] <= n[c])
  BY SentIs
<1>3. ask[c].route[q] = ask[c].route[j] /\ sent[c][i][2] = k
  BY <1>1, <1>2
<1>4. q = j
  BY <1>3, RouteIs
<1>5. j \in Nat /\ at[c] \in Nat /\ n[c] \in Nat
  <2>1. j \in Nat
    BY RouteIs
  <2>2. at \in [GatewayCalls -> Nat] /\ n \in [GatewayCalls -> 0 .. MaxAttempts]
    BY DEF IInv, TypeOK
  <2> QED
    BY <2>1, <2>2, GatewayAssumption
<1> QED
  BY <1>2, <1>3, <1>4, <1>5

\* An attempt that fits goes on fitting when the call moves on, and when more is sent.
LEMMA FitsLater ==
    ASSUME NEW s \in Seq(Models \X Nat), NEW i \in DOMAIN s, NEW a \in Asks, NEW j \in Nat,
           NEW k \in Nat, NEW j2 \in Nat, NEW k2 \in Nat, Fits(s, i, a, j, k),
           j < j2 \/ (j = j2 /\ k <= k2), NEW z \in Models \X Nat
    PROVE  Fits(s, i, a, j2, k2) /\ Fits(Append(s, z), i, a, j2, k2)
<1>1. i \in 1 .. Len(s) /\ Len(s) \in Nat /\ DOMAIN a.route \subseteq Nat /\ MaxAttempts \in Nat
  BY RouteIs, GatewayAssumption
<1>2. PICK q \in DOMAIN a.route :
      /\ s[i][1] = a.route[q] /\ s[i][2] \in 1 .. MaxAttempts
      /\ q < j \/ (q = j /\ s[i][2] <= k)
      /\ s[i][1] \notin Disabled
      /\ s[i][1] \in Egressing => a.egress
      /\ IF s[i][2] = 1
         THEN i > 1 => \E p \in DOMAIN a.route : p < q /\ s[i - 1][1] = a.route[p]
         ELSE i > 1 /\ s[i - 1] = <<s[i][1], s[i][2] - 1>>
  BY DEF Fits
<1>3. PICK x \in Nat : x = s[i][2]
  BY <1>1, <1>2
<1>4. q \in Nat /\ (q < j \/ (q = j /\ x <= k))
  BY <1>1, <1>2, <1>3
<1>5. q < j2 \/ (q = j2 /\ x <= k2)
  BY <1>4
<1>6. Fits(s, i, a, j2, k2)
  BY <1>2, <1>3, <1>5 DEF Fits
<1>7. PICK u : u = Append(s, z) /\ u[i] = s[i] /\ (i > 1 => u[i - 1] = s[i - 1])
  <2>1. \A h \in 1 .. Len(s) : Append(s, z)[h] = s[h]
    BY <1>1
  <2>2. i > 1 => i - 1 \in 1 .. Len(s)
    BY <1>1
  <2> QED
    BY <1>1, <2>1, <2>2
<1>8. Fits(u, i, a, j2, k2)
  BY <1>2, <1>3, <1>5, <1>7, ZenonT(40) DEF Fits
<1> QED
  BY <1>6, <1>7, <1>8

\* Sending keeps to the route.
LEMMA SentStep ==
    ASSUME IInv, NEW c \in GatewayCalls, NEW a \in Asks, ask'[c] = a,
           sent[c] = << >> \/ ask[c] = a, NEW j \in DOMAIN a.route, NEW k \in 1 .. MaxAttempts,
           at'[c] = j, n'[c] = k,
           a.route[j] \notin Disabled, a.route[j] \in Egressing => a.egress,
           \/ k = 1 /\ at[c] < j
           \/ /\ k = n[c] + 1 /\ k > 1 /\ at[c] = j /\ sent[c] # << >>
              /\ sent[c][Len(sent[c])] = <<a.route[j], n[c]>>,
           sent'[c] = sent[c] \/ sent'[c] = Append(sent[c], <<a.route[j], k>>)
    PROVE  SentInv(c)'
<1>1. /\ SentInv(c) /\ sent[c] \in Seq(Models \X Nat) /\ at[c] \in Nat /\ n[c] \in 0 .. MaxAttempts
      /\ MaxAttempts \in Nat
  BY GatewayAssumption DEF IInv, TypeOK, CallInv
<1>2. j \in Nat /\ a.route[j] \in Models /\ DOMAIN a.route \subseteq Nat
  BY RouteIs
<1>3. PICK s \in Seq(Models \X Nat), j1 \in Nat, k1 \in Nat :
        s = sent[c] /\ j1 = at[c] /\ k1 = n[c]
  BY <1>1
<1>4. PICK z \in Models \X Nat : z = <<a.route[j], k>> /\ z[1] = a.route[j] /\ z[2] = k
  <2>1. PICK m \in Models, h \in Nat : m = a.route[j] /\ h = k
    BY <1>1, <1>2
  <2>2. <<m, h>> \in Models \X Nat /\ <<m, h>>[1] = m /\ <<m, h>>[2] = h
    OBVIOUS
  <2> QED
    BY <2>1, <2>2
<1>5. PICK L \in Nat : L = Len(s) /\ DOMAIN s = 1 .. L
  OBVIOUS
<1>6. \A i \in 1 .. L : Fits(s, i, a, j1, k1)
  <2>1. CASE s = << >>
    BY <1>5, <2>1
  <2>2. CASE ask[c] = a
    BY <1>1, <1>3, <1>5, <2>2 DEF SentInv
  <2> QED
    BY <1>3, <2>1, <2>2
<1>7. j1 < j \/ (j1 = j /\ k1 <= k)
  BY <1>2, <1>3
<1>8. \A i \in 1 .. L : Fits(s, i, a, j, k) /\ Fits(Append(s, z), i, a, j, k)
  <2>1. PICK j2 \in Nat, k2 \in Nat : j2 = j /\ k2 = k
    BY <1>1, <1>2
  <2>2. ASSUME NEW i \in DOMAIN s
        PROVE  Fits(s, i, a, j2, k2) /\ Fits(Append(s, z), i, a, j2, k2)
    <3>1. Fits(s, i, a, j1, k1)
      BY <1>5, <1>6
    <3>2. j1 < j2 \/ (j1 = j2 /\ k1 <= k2)
      BY <1>7, <2>1
    <3> QED
      BY <3>1, <3>2, FitsLater, Zenon
  <2> QED
    BY <1>5, <2>1, <2>2
<1>9. CASE sent'[c] = s
  BY <1>5, <1>8, <1>9 DEF SentInv
<1>10. CASE sent'[c] = Append(s, z)
  <2>1. PICK u : u = Append(s, z) /\ DOMAIN u = 1 .. L + 1 /\ u[L + 1] = z
                 /\ \A i \in 1 .. L : u[i] = s[i]
    <3>1. /\ DOMAIN Append(s, z) = 1 .. Len(s) + 1 /\ Append(s, z)[Len(s) + 1] = z
          /\ \A i \in 1 .. Len(s) : Append(s, z)[i] = s[i]
      OBVIOUS
    <3> QED
      BY <1>5, <3>1, ZenonT(40)
  <2>2. Fits(u, L + 1, a, j, k)
    <3>1. /\ u[L + 1][1] = a.route[j] /\ u[L + 1][2] \in 1 .. MaxAttempts /\ u[L + 1][2] = k
          /\ u[L + 1][1] \notin Disabled /\ (u[L + 1][1] \in Egressing => a.egress)
          /\ u[L + 1][2] <= k
      BY <1>1, <1>4, <2>1
    <3>2. L + 1 - 1 = L /\ (L + 1 > 1 => L \in 1 .. L /\ u[L] = s[L])
      BY <2>1
    <3>3. CASE k = 1
      <4>1. j1 < j
        BY <1>3, <3>3
      <4>2. ASSUME L + 1 > 1
            PROVE  \E p \in DOMAIN a.route : p < j /\ u[L + 1 - 1][1] = a.route[p]
        <5>1. Fits(s, L, a, j1, k1)
          BY <1>6, <3>2, <4>2
        <5>2. PICK p \in DOMAIN a.route : s[L][1] = a.route[p] /\ (p < j1 \/ p = j1)
          BY <5>1 DEF Fits
        <5> QED
          BY <1>2, <3>2, <4>1, <4>2, <5>2, SMTT(30)
      <4>3. (IF u[L + 1][2] = 1
             THEN L + 1 > 1 => \E p \in DOMAIN a.route : p < j /\ u[L + 1 - 1][1] = a.route[p]
             ELSE L + 1 > 1 /\ u[L + 1 - 1] = <<u[L + 1][1], u[L + 1][2] - 1>>)
        BY <3>1, <3>3, <4>2
      <4> QED
        BY <3>1, <4>3 DEF Fits
    <3>4. CASE k # 1
      <4>1. k = k1 + 1 /\ s # << >> /\ s[L] = <<a.route[j], k1>>
        BY <1>3, <1>5, <3>4
      <4>2. L + 1 > 1 /\ k1 = k - 1
        BY <1>5, <4>1
      <4>3. u[L + 1 - 1] = <<u[L + 1][1], u[L + 1][2] - 1>>
        BY <3>1, <3>2, <4>1, <4>2
      <4> QED
        BY <3>1, <3>4, <4>2, <4>3 DEF Fits
    <3> QED
      BY <3>3, <3>4
  <2>3. \A i \in 1 .. L + 1 : i \in 1 .. L \/ i = L + 1
    OBVIOUS
  <2>4. \A i \in DOMAIN u : Fits(u, i, a, j, k)
    BY <1>8, <2>1, <2>2, <2>3
  <2> QED
    BY <1>10, <2>1, <2>4 DEF SentInv
<1> QED
  BY <1>3, <1>4, <1>9, <1>10

\* The place of a call that begins attempt k on position j.
Arrived(c, a, j, k) ==
    /\ PlaceInv(c)' /\ ResultInv(c)' /\ HeardInv(c)'
    /\ at'[c] = j /\ n'[c] = k /\ Target(c)' = a.route[j] /\ a.route[j] \in Models
    /\ pc'[c] \in {"invoking", "done"} /\ result'[c] \in {"none", "deadline_exceeded"}
    /\ \/ sent'[c] = sent[c] /\ ~ Unbooked(c)'
       \/ Unbooked(c)' /\ sent'[c] = Append(sent[c], <<a.route[j], k>>)

LEMMA Arrives ==
    ASSUME IInv, NEW c \in GatewayCalls, NEW a \in Asks, ask'[c] = a,
           NEW j \in DOMAIN a.route, NEW k \in 1 .. MaxAttempts, Begin(c, a, j, k),
           result[c] = "none", heard'[c] = {}
    PROVE  Arrived(c, a, j, k)
<1>1. /\ at'[c] = j /\ n'[c] = k
      /\ \/ pc'[c] = "done" /\ result'[c] = "deadline_exceeded" /\ sent'[c] = sent[c]
         \/ /\ pc'[c] = "invoking" /\ result'[c] = "none"
            /\ sent'[c] = Append(sent[c], <<a.route[j], k>>)
  BY BeginIs DEF IInv
<1>2. a.route[j] \in Models /\ Target(c)' = a.route[j]
  BY <1>1, RouteIs DEF Target
<1>3. ResultInv(c)' /\ HeardInv(c)'
  BY <1>1 DEF ResultInv, HeardInv
<1>4. pc'[c] = "invoking" => sent'[c] # << >> /\ sent'[c][Len(sent'[c])] = <<a.route[j], k>>
  <2>1. PICK s \in Seq(Models \X Nat) : s = sent[c]
    BY DEF IInv, TypeOK
  <2>2. PICK m \in Models, h \in Nat : m = a.route[j] /\ h = k
    BY <1>2, GatewayAssumption
  <2>3. PICK z \in Models \X Nat : z = <<m, h>>
    OBVIOUS
  <2>4. Append(s, z) # << >> /\ Append(s, z)[Len(Append(s, z))] = z
    OBVIOUS
  <2> QED
    BY <1>1, <2>1, <2>2, <2>3, <2>4
<1>5. PlaceInv(c)'
  BY <1>1, <1>2, <1>4 DEF PlaceInv, Underway
<1> QED
  BY <1>1, <1>2, <1>3, <1>5 DEF Unbooked, Arrived

\* The list after targets were passed over.
LEMMA Listed ==
    ASSUME NEW c \in GatewayCalls, attempts[c] \in Seq(Attempt), ListInv(c), ~ Succeeded(c),
           NEW s, Skips(s), attempts'[c] = attempts[c] \o s,
           pc'[c] # "recording", result'[c] # "ok", heard'[c] = {},
           result'[c] = "no_available_provider" => sent'[c] = << >>,
           result'[c] \in {"provider_unavailable", "bad_request"} => sent'[c] # << >>
    PROVE  ListInv(c)'
<1>1. PICK t \in Seq(Attempt) : t = attempts[c] /\ s \in Seq(Attempt)
  BY DEF Skips
<1>2. \A i \in DOMAIN (t \o s) : (t \o s)[i].outcome # "success"
  <2>1. \A i \in DOMAIN t : t[i].outcome # "success"
    BY <1>1 DEF ListInv
  <2>2. \A i \in DOMAIN s : s[i].outcome # "success"
    BY DEF Skips
  <2>3. ASSUME NEW i \in DOMAIN (t \o s) PROVE (t \o s)[i].outcome # "success"
    <3>1. CASE i <= Len(t)
      <4>1. i \in DOMAIN t /\ (t \o s)[i] = t[i]
        BY <1>1, <3>1
      <4> QED
        BY <2>1, <4>1
    <3>2. CASE ~ (i <= Len(t))
      <4>1. i - Len(t) \in DOMAIN s /\ (t \o s)[i] = s[i - Len(t)]
        BY <1>1, <3>2
      <4> QED
        BY <2>2, <4>1
    <3> QED
      BY <3>1, <3>2
  <2> QED
    BY <2>3
<1>3. ~ Succeeded(c)'
  BY DEF Succeeded
<1> QED
  BY <1>1, <1>2, <1>3 DEF ListInv

LEMMA WakeStep ==
    ASSUME IInv, NEW c \in GatewayCalls, Wake(c)
    PROVE  CallInv(c)'
<1>1. /\ pc[c] = "sleeping" /\ Begin(c, ask[c], at[c], n[c] + 1)
      /\ ask'[c] = ask[c] /\ attempts'[c] = attempts[c] /\ usage'[c] = usage[c]
      /\ dropped'[c] = dropped[c] /\ heard'[c] = heard[c]
  BY DEF Wake, books
<1>2. CallInv(c)
  BY DEF IInv
<1>3. result[c] = "none" /\ heard[c] = {} /\ n[c] < MaxAttempts /\ ~ Unbooked(c) /\ ~ Succeeded(c)
  BY <1>1, <1>2 DEF CallInv, ResultInv, HeardInv, PlaceInv, Unbooked, Succeeded
<1>4. /\ ask[c] \in Asks /\ at[c] \in DOMAIN ask[c].route /\ n[c] \in 1 .. MaxAttempts
      /\ sent[c] # << >> /\ sent[c][Len(sent[c])] = <<Target(c), n[c]>>
      /\ sent[c] \in Seq(Models \X Nat) /\ MaxAttempts \in Nat
  BY <1>1, PlaceIs, GatewayAssumption DEF Underway, IInv, TypeOK
<1>5. PICK a \in Asks, j \in DOMAIN ask[c].route, k \in Nat :
        a = ask[c] /\ j = at[c] /\ k = n[c] + 1
  BY <1>4
<1>6. j \in DOMAIN a.route /\ k \in 1 .. MaxAttempts /\ k > 1
  BY <1>3, <1>4, <1>5
<1>7. /\ PlaceInv(c)' /\ ResultInv(c)' /\ HeardInv(c)'
      /\ at'[c] = j /\ n'[c] = k /\ Target(c)' = a.route[j] /\ a.route[j] \in Models
      /\ pc'[c] \in {"invoking", "done"} /\ result'[c] \in {"none", "deadline_exceeded"}
      /\ \/ sent'[c] = sent[c] /\ ~ Unbooked(c)'
         \/ Unbooked(c)' /\ sent'[c] = Append(sent[c], <<a.route[j], k>>)
  <2>1. ask'[c] = a /\ heard'[c] = {} /\ Begin(c, a, j, k)
    BY <1>1, <1>3, <1>5
  <2>2. Arrived(c, a, j, k)
    BY <1>3, <1>6, <2>1, Arrives
  <2> QED
    BY <2>2 DEF Arrived
<1>8. SentInv(c)'
  <2>1. PICK L \in DOMAIN sent[c] : sent[c][L] = <<a.route[j], n[c]>>
    <3>1. Len(sent[c]) \in DOMAIN sent[c]
      BY <1>4
    <3> QED
      BY <1>4, <1>5, <3>1 DEF Target
  <2>2. Fits(sent[c], L, a, j, n[c])
    BY <1>2, <1>5 DEF CallInv, SentInv
  <2>3. a.route[j] \notin Disabled /\ (a.route[j] \in Egressing => a.egress)
    BY <2>1, <2>2 DEF Fits
  <2>4. sent[c][Len(sent[c])] = <<a.route[j], n[c]>> /\ ask'[c] = a /\ ask[c] = a
    BY <1>1, <1>4, <1>5 DEF Target
  <2> QED
    BY <1>4, <1>5, <1>6, <1>7, <2>3, <2>4, SentStep
<1>9. BooksInv(c)'
  <2>1. \A m, k2 : Booked(c, m, k2)' <=> Booked(c, m, k2)
    BY <1>1 DEF Booked
  <2>2. \A m \in Models, k2 \in 1 .. MaxAttempts : Tried(c, m, k2) <=> Booked(c, m, k2)'
    BY <1>2, <1>3, <2>1 DEF CallInv, BooksInv
  <2>3. ~ Tried(c, a.route[j], k)
    <3>1. k \in Nat /\ k > n[c]
      BY <1>4, <1>5
    <3> QED
      BY <1>4, <1>5, <1>6, <3>1, NotTried
  <2>4. RowsInv(c)'
    BY <1>1, <1>2 DEF CallInv, BooksInv, RowsInv
  <2> QED
    BY <1>4, <1>6, <1>7, <2>2, <2>3, <2>4, BooksStep
<1>10. ListInv(c)'
  BY <1>1, <1>2, <1>3, <1>7 DEF CallInv, ListInv, Succeeded
<1> QED
  BY <1>7, <1>8, <1>9, <1>10 DEF CallInv

LEMMA RecordStep ==
    ASSUME IInv, NEW c \in GatewayCalls, RecordedSuccess(c) \/ RecordedEnd(c) \/ Retry(c)
    PROVE  CallInv(c)'
<1>1. /\ _record(c) /\ pc[c] = "recording" /\ ask'[c] = ask[c] /\ at'[c] = at[c] /\ n'[c] = n[c]
      /\ attempts'[c] = attempts[c] /\ sent'[c] = sent[c] /\ heard'[c] = heard[c]
  BY DEF RecordedSuccess, RecordedEnd, Retry, MovesOn, _record
<1>2. /\ pc \in [GatewayCalls -> PCs] /\ result \in [GatewayCalls -> Results]
      /\ CallInv(c)
  BY DEF IInv, TypeOK
<1>3. \/ err[c] = "none" /\ pc'[c] \in {"completed", "done"} /\ result'[c] = "ok"
      \/ /\ err[c] = "cancelled" /\ pc'[c] = "done"
         /\ result'[c] = IF result[c] = "ok" THEN "ok" ELSE "cancelled"
      \/ /\ err[c] \in Errors /\ pc'[c] = "done" /\ heard[c] # {} /\ result'[c] = "mid_stream"
      \/ /\ err[c] \in Errors /\ pc'[c] = "done" /\ heard[c] = {} /\ result'[c] = "bad_request"
      \/ /\ err[c] \in Errors /\ pc'[c] = "sleeping" /\ heard[c] = {} /\ result'[c] = result[c]
         /\ n[c] < MaxAttempts
  <2>1. CASE RecordedSuccess(c)
    BY <1>2, <2>1 DEF RecordedSuccess
  <2>2. CASE RecordedEnd(c)
    BY <1>2, <2>2 DEF RecordedEnd, End, Errors
  <2>3. CASE Retry(c)
    BY <1>2, <2>3 DEF Retry, MovesOn, _should_retry
  <2> QED
    BY <2>1, <2>2, <2>3
<1>4. PICK e : e = err[c]
  OBVIOUS
<1>5. /\ e \in Errors => result[c] = "none" /\ e # "none" /\ e # "cancelled"
      /\ e = "none" => result[c] = "none"
      /\ result[c] \in {"none", "ok"}
  BY <1>1, <1>2, <1>4 DEF CallInv, ResultInv, Errors, Unhealthy, Retryable
<1>6. PlaceInv(c)'
  BY <1>1, <1>2, <1>3 DEF CallInv, PlaceInv, Underway, Target
<1>7. ResultInv(c)'
  BY <1>3, <1>4, <1>5 DEF ResultInv
<1>8. SentInv(c)'
  BY <1>1, <1>2 DEF CallInv, SentInv
<1>9. HeardInv(c)'
  BY <1>1, <1>2, <1>3 DEF CallInv, HeardInv
<1>10. BooksInv(c)'
  <2>1. PICK t, k : t = Target(c) /\ k = n[c]
    OBVIOUS
  <2>2. err[c] = "none" => Praised(c, t, k)'
    BY <1>1, <2>1, Recorded
  <2>3. result'[c] = "ok" /\ pc'[c] # "done" => Praised(c, t, k)'
    BY <1>3, <1>4, <1>5, <2>2
  <2>4. Target(c)' = t /\ n'[c] = k
    BY <1>1, <2>1 DEF Target
  <2>5. result'[c] = "ok" /\ pc'[c] # "done" => Praised(c, Target(c), n[c])'
    BY <2>3, <2>4 DEF Praised
  <2>6. ~ Unbooked(c)' /\ sent[c] \in Seq(Models \X Nat)
    BY <1>3 DEF Unbooked, IInv, TypeOK
  <2> QED
    BY <1>1, <2>5, <2>6, BooksStep, Recorded
<1>11. ListInv(c)'
  <2>1. Succeeded(c)' <=> Succeeded(c)
    BY <1>1, <1>3, <1>4, <1>5 DEF Succeeded
  <2>2. sent[c] # << >>
    BY <1>1, PlaceIs DEF Underway
  <2>3. pc'[c] # "recording" /\ result'[c] # "no_available_provider"
    BY <1>3, <1>4, <1>5
  <2>4. pc'[c] = "done" /\ heard'[c] # {} => result'[c] \in {"ok", "mid_stream", "cancelled"}
    BY <1>1, <1>3
  <2> QED
    BY <1>1, <1>2, <2>1, <2>2, <2>3, <2>4 DEF CallInv, ListInv
<1> QED
  BY <1>6, <1>7, <1>8, <1>9, <1>10, <1>11 DEF CallInv

LEMMA FallBackStep ==
    ASSUME IInv, NEW c \in GatewayCalls, FallBack(c)
    PROVE  CallInv(c)'
<1>1. /\ _record(c) /\ err[c] \in Errors \ {"bad_request"} /\ heard[c] = {} /\ pc[c] = "recording"
      /\ ask'[c] = ask[c] /\ heard'[c] = {} /\ at[c] \in 0 .. Len(ask[c].route)
      /\ Advance(c, ask[c], at[c])
  BY FallBackIs
<1>2. CallInv(c) /\ TypeOK /\ sent[c] \in Seq(Models \X Nat) /\ attempts \in [GatewayCalls -> Seq(Attempt)]
      /\ pc \in [GatewayCalls -> PCs] /\ result \in [GatewayCalls -> Results]
      /\ 1 \in 1 .. MaxAttempts /\ at[c] \in Nat
  <2>1. /\ CallInv(c) /\ TypeOK /\ sent \in [GatewayCalls -> Seq(Models \X Nat)]
        /\ attempts \in [GatewayCalls -> Seq(Attempt)] /\ pc \in [GatewayCalls -> PCs]
        /\ result \in [GatewayCalls -> Results] /\ at \in [GatewayCalls -> Nat]
    BY DEF IInv, TypeOK
  <2> QED
    BY <2>1, GatewayAssumption
<1>3. result[c] = "none" /\ ~ Succeeded(c) /\ attempts[c] # << >> /\ sent[c] # << >>
      /\ attempts[c][Len(attempts[c])].outcome # "skipped"
  <2>1. err[c] # "cancelled" /\ err[c] # "none"
    BY <1>1 DEF Errors, Unhealthy, Retryable
  <2>2. result[c] = "none"
    BY <1>1, <1>2, <2>1 DEF CallInv, ResultInv
  <2> QED
    BY <1>1, <1>2, <2>1, <2>2 DEF CallInv, PlaceInv, Underway, ListInv, Succeeded
<1>4. PICK a \in Asks, i \in 0 .. Len(ask[c].route) : a = ask[c] /\ i = at[c]
  BY <1>1, <1>2, PlaceIs DEF Underway
<1>5. PICK s :
        /\ Skips(s) /\ attempts' = [attempts EXCEPT ![c] = attempts[c] \o s]
        /\ \/ \E j \in DOMAIN a.route :
                /\ j > i /\ _admit(a, a.route[j]) /\ Begin(c, a, j, 1)
           \/ /\ UNCHANGED <<breakers, at, n, sent>>
              /\ End(c, IF \A k \in DOMAIN (attempts[c] \o s) :
                             (attempts[c] \o s)[k].outcome = "skipped"
                        THEN "no_available_provider" ELSE "provider_unavailable")
  BY <1>1, <1>2, <1>4, AdvanceIs
<1>6. attempts'[c] = attempts[c] \o s
  BY <1>2, <1>5
<1>7. ASSUME NEW j \in DOMAIN a.route, j > i, _admit(a, a.route[j]), Begin(c, a, j, 1)
      PROVE  CallInv(c)'
  <2>1. /\ PlaceInv(c)' /\ ResultInv(c)' /\ HeardInv(c)'
        /\ at'[c] = j /\ n'[c] = 1 /\ Target(c)' = a.route[j] /\ a.route[j] \in Models
        /\ pc'[c] \in {"invoking", "done"} /\ result'[c] \in {"none", "deadline_exceeded"}
        /\ \/ sent'[c] = sent[c] /\ ~ Unbooked(c)'
           \/ Unbooked(c)' /\ sent'[c] = Append(sent[c], <<a.route[j], 1>>)
    <3>1. ask'[c] = a /\ result[c] = "none" /\ heard'[c] = {} /\ 1 \in 1 .. MaxAttempts
      BY <1>1, <1>2, <1>3, <1>4
    <3>2. Arrived(c, a, j, 1)
      BY <1>7, <3>1, Arrives
    <3> QED
      BY <3>2 DEF Arrived
  <2>2. SentInv(c)'
    <3>1. a.route[j] \notin Disabled /\ (a.route[j] \in Egressing => a.egress)
      BY <1>7 DEF _admit
    <3>2. at[c] < j /\ ask'[c] = a /\ ask[c] = a
      BY <1>1, <1>2, <1>4, <1>7, RouteIs
    <3> QED
      BY <1>2, <2>1, <3>1, <3>2, SentStep
  <2>3. BooksInv(c)'
    <3>1. ~ Tried(c, a.route[j], 1)
      BY <1>4, <1>7, NotTried
    <3> QED
      BY <1>1, <1>2, <2>1, <3>1, Recorded, BooksStep
  <2>4. ListInv(c)'
    BY <1>1, <1>2, <1>3, <1>5, <1>6, <2>1, Listed DEF CallInv
  <2> QED
    BY <2>1, <2>2, <2>3, <2>4 DEF CallInv
<1>8. ASSUME UNCHANGED <<breakers, at, n, sent>>,
             End(c, IF \A k \in DOMAIN (attempts[c] \o s) :
                         (attempts[c] \o s)[k].outcome = "skipped"
                    THEN "no_available_provider" ELSE "provider_unavailable")
      PROVE  CallInv(c)'
  <2>1. ~ \A k \in DOMAIN (attempts[c] \o s) : (attempts[c] \o s)[k].outcome = "skipped"
    <3>1. PICK t \in Seq(Attempt), u \in Seq(Attempt) : t = attempts[c] /\ u = s
      BY <1>2, <1>5 DEF Skips
    <3>2. t # << >> => /\ Len(t) \in DOMAIN (t \o u) /\ (t \o u)[Len(t)] = t[Len(t)]
      OBVIOUS
    <3> QED
      BY <1>3, <3>1, <3>2
  <2>2. /\ pc'[c] = "done" /\ result'[c] = "provider_unavailable"
        /\ at'[c] = at[c] /\ n'[c] = n[c] /\ sent'[c] = sent[c]
    BY <1>2, <1>8, <2>1 DEF End
  <2>3. PlaceInv(c)' /\ ResultInv(c)' /\ HeardInv(c)'
    BY <1>1, <1>4, <2>2 DEF PlaceInv, ResultInv, HeardInv, Underway
  <2>4. SentInv(c)'
    BY <1>1, <1>2, <2>2 DEF CallInv, SentInv
  <2>5. BooksInv(c)'
    <3>1. ~ Unbooked(c)'
      BY <2>2 DEF Unbooked
    <3> QED
      BY <1>1, <1>2, <2>2, <3>1, Recorded, BooksStep
  <2>6. ListInv(c)'
    BY <1>1, <1>2, <1>3, <1>5, <1>6, <2>2, Listed DEF CallInv
  <2> QED
    BY <2>3, <2>4, <2>5, <2>6 DEF CallInv
<1> QED
  BY <1>5, <1>7, <1>8

LEMMA StartStep ==
    ASSUME IInv, NEW c \in GatewayCalls, Start(c)
    PROVE  CallInv(c)'
<1>1. PICK a \in Asks : ask' = [ask EXCEPT ![c] = a] /\ Advance(c, a, 0)
  BY StartIs DEF IInv
<1>2. /\ pc[c] = "idle" /\ usage'[c] = usage[c] /\ dropped'[c] = dropped[c] /\ heard'[c] = heard[c]
  BY StartIs DEF IInv, books
<1>3. CallInv(c) /\ TypeOK /\ ask \in [GatewayCalls -> Asks \cup {None}]
      /\ attempts \in [GatewayCalls -> Seq(Attempt)]
      /\ pc \in [GatewayCalls -> PCs] /\ result \in [GatewayCalls -> Results]
      /\ 1 \in 1 .. MaxAttempts /\ sent[c] \in Seq(Models \X Nat) /\ 0 \in 0 .. Len(a.route)
  <2>1. /\ CallInv(c) /\ TypeOK /\ ask \in [GatewayCalls -> Asks \cup {None}]
        /\ attempts \in [GatewayCalls -> Seq(Attempt)]
        /\ pc \in [GatewayCalls -> PCs] /\ result \in [GatewayCalls -> Results]
        /\ sent \in [GatewayCalls -> Seq(Models \X Nat)]
    BY DEF IInv, TypeOK
  <2>2. Len(a.route) \in Nat
    BY RouteIs
  <2> QED
    BY <2>1, <2>2, GatewayAssumption
<1>4. /\ result[c] = "none" /\ ~ Succeeded(c) /\ at[c] = 0 /\ n[c] = 0 /\ attempts[c] = << >>
      /\ usage[c] = << >> /\ dropped[c] = {} /\ sent[c] = << >> /\ heard[c] = {}
  BY <1>2, <1>3 DEF CallInv, ResultInv, PlaceInv, Succeeded
<1>5. PICK s :
        /\ Skips(s) /\ attempts' = [attempts EXCEPT ![c] = attempts[c] \o s]
        /\ \/ \E j \in DOMAIN a.route :
                /\ j > 0 /\ _admit(a, a.route[j]) /\ Begin(c, a, j, 1)
           \/ /\ UNCHANGED <<breakers, at, n, sent>>
              /\ End(c, IF \A k \in DOMAIN (attempts[c] \o s) :
                             (attempts[c] \o s)[k].outcome = "skipped"
                        THEN "no_available_provider" ELSE "provider_unavailable")
  BY <1>1, <1>3, AdvanceIs
<1>6. ask'[c] = a /\ heard'[c] = {} /\ attempts'[c] = attempts[c] \o s
  BY <1>1, <1>2, <1>3, <1>4, <1>5
<1>7. /\ RowsInv(c)' /\ \A m, k : ~ Tried(c, m, k) /\ ~ Booked(c, m, k)'
  BY <1>2, <1>4 DEF RowsInv, Tried, Booked
<1>8. ASSUME NEW j \in DOMAIN a.route, j > 0, _admit(a, a.route[j]), Begin(c, a, j, 1)
      PROVE  CallInv(c)'
  <2>1. /\ PlaceInv(c)' /\ ResultInv(c)' /\ HeardInv(c)'
        /\ at'[c] = j /\ n'[c] = 1 /\ Target(c)' = a.route[j] /\ a.route[j] \in Models
        /\ pc'[c] \in {"invoking", "done"} /\ result'[c] \in {"none", "deadline_exceeded"}
        /\ \/ sent'[c] = sent[c] /\ ~ Unbooked(c)'
           \/ Unbooked(c)' /\ sent'[c] = Append(sent[c], <<a.route[j], 1>>)
    <3>1. Arrived(c, a, j, 1)
      BY <1>3, <1>4, <1>6, <1>8, Arrives
    <3> QED
      BY <3>1 DEF Arrived
  <2>2. SentInv(c)'
    <3>1. a.route[j] \notin Disabled /\ (a.route[j] \in Egressing => a.egress)
      BY <1>8 DEF _admit
    <3>2. at[c] < j
      BY <1>4, <1>8, RouteIs
    <3> QED
      BY <1>3, <1>4, <1>6, <2>1, <3>1, <3>2, SentStep
  <2>3. BooksInv(c)'
    BY <1>3, <1>7, <2>1, BooksStep
  <2>4. ListInv(c)'
    BY <1>3, <1>4, <1>5, <1>6, <2>1, Listed DEF CallInv
  <2> QED
    BY <2>1, <2>2, <2>3, <2>4 DEF CallInv
<1>9. ASSUME UNCHANGED <<breakers, at, n, sent>>,
             End(c, IF \A k \in DOMAIN (attempts[c] \o s) :
                         (attempts[c] \o s)[k].outcome = "skipped"
                    THEN "no_available_provider" ELSE "provider_unavailable")
      PROVE  CallInv(c)'
  <2>1. \A k \in DOMAIN (attempts[c] \o s) : (attempts[c] \o s)[k].outcome = "skipped"
    <3>1. s \in Seq(Attempt) /\ \A k \in DOMAIN s : s[k].outcome = "skipped"
      BY <1>5 DEF Skips
    <3>2. << >> \o s = s
      BY <3>1
    <3> QED
      BY <1>4, <3>1, <3>2
  <2>2. /\ pc'[c] = "done" /\ result'[c] = "no_available_provider"
        /\ at'[c] = 0 /\ n'[c] = 0 /\ sent'[c] = << >>
    BY <1>3, <1>4, <1>9, <2>1 DEF End
  <2>3. PlaceInv(c)' /\ ResultInv(c)' /\ HeardInv(c)'
    BY <1>6, <2>2 DEF PlaceInv, ResultInv, HeardInv, Underway
  <2>4. SentInv(c)'
    BY <2>2 DEF SentInv
  <2>5. BooksInv(c)'
    <3>1. ~ Unbooked(c)'
      BY <2>2 DEF Unbooked
    <3> QED
      BY <1>3, <1>4, <1>7, <2>2, <3>1, BooksStep
  <2>6. ListInv(c)'
    BY <1>3, <1>4, <1>5, <1>6, <2>2, Listed DEF CallInv
  <2> QED
    BY <2>3, <2>4, <2>5, <2>6 DEF CallInv
<1> QED
  BY <1>5, <1>8, <1>9

\* Every call stays as it should be.
LEMMA CallStep == IInv /\ [Next]_vars => \A d \in GatewayCalls : CallInv(d)'
<1> SUFFICES ASSUME IInv, [Next]_vars, NEW d \in GatewayCalls PROVE CallInv(d)'
  OBVIOUS
<1>1. CallInv(d)
  BY DEF IInv
<1>2. CASE Tick \/ UNCHANGED vars
  <2>1. Still(d)
    BY <1>2 DEF Tick, vars, shared, books, Still
  <2> QED
    BY <1>1, <2>1, CallFrame
<1>3. ASSUME NEW c \in GatewayCalls, Moves(c) PROVE CallInv(d)'
  <2>1. CASE c # d
    BY <1>1, <1>3, <2>1, Elsewhere, CallFrame
  <2>2. CASE c = d
    BY <1>3, <2>2, StartStep, QuietStep, WakeStep, RecordStep, FallBackStep DEF Moves, Step
  <2> QED
    BY <2>1, <2>2
<1> QED
  BY <1>2, <1>3, Kinds

-----------------------------------------------------------------------------
(* Breakers *)

\* A breaker's fields agree, at time t.
Agrees(b, t) ==
    /\ b.opened # None <=> b.failures >= Threshold
    /\ b.probe => b.opened # None
    /\ b.opened # None => b.opened <= t

\* Every method of the breaker, and the passage of time, keeps them so; a report
\* clears the probe's mark.
LEMMA MethodsAgree ==
    ASSUME NEW b \in Breaker, NEW t \in Nat, Agrees(b, t)
    PROVE  /\ Agrees(b, t + 1) /\ Agrees(admitted(b, t), t)
           /\ Agrees(record_success(b), t) /\ ~ record_success(b).probe
           /\ Agrees(record_failure(b, t), t) /\ ~ record_failure(b, t).probe
<1>1. /\ b.failures \in Nat /\ b.opened \in Nat \cup {None} /\ b.probe \in BOOLEAN
      /\ Threshold \in Nat \ {0} /\ None \notin Nat
  BY BreakerAssumption DEF Breaker
<1>2. Agrees(b, t + 1)
  BY <1>1 DEF Agrees
<1>3. Agrees(admitted(b, t), t)
  BY <1>1 DEF Agrees, admitted, state
<1>4. Agrees(record_success(b), t) /\ ~ record_success(b).probe
  BY <1>1 DEF Agrees, record_success, Closed
<1>5. ~ record_failure(b, t).probe
  BY DEF record_failure
<1>6. Agrees(record_failure(b, t), t)
  <2>1. PICK f \in Nat, o \in Nat \cup {None} :
          f = b.failures + 1 /\ o = (IF b.opened # None \/ f >= Threshold THEN t ELSE None)
    <3>1. PICK f \in Nat : f = b.failures + 1
      BY <1>1
    <3>2. (IF b.opened # None \/ f >= Threshold THEN t ELSE None) \in Nat \cup {None}
      OBVIOUS
    <3> QED
      BY <3>1, <3>2
  <2>2. record_failure(b, t) = [failures |-> f, opened |-> o, probe |-> FALSE]
    BY <2>1 DEF record_failure
  <2>3. b.opened # None => b.failures >= Threshold
    BY DEF Agrees
  <2>4. o # None <=> f >= Threshold
    BY <1>1, <2>1, <2>3
  <2>5. o # None => o <= t
    BY <2>1
  <2> QED
    BY <2>2, <2>4, <2>5 DEF Agrees
<1> QED
  BY <1>2, <1>3, <1>4, <1>5, <1>6

\* What Advance does to a breaker: nothing, or its call is the one let through.
LEMMA AdvanceBreaker ==
    ASSUME IInv, NEW c \in GatewayCalls, NEW a \in Asks, NEW i \in 0 .. Len(a.route),
           Advance(c, a, i), ask'[c] = a, NEW m \in Models
    PROVE  \/ breakers'[m] = breakers[m]
           \/ breakers'[m] = admitted(breakers[m], now) /\ Holds(c, m)'
<1>1. TypeOK /\ breakers \in [Models -> Breaker]
  BY DEF IInv, TypeOK
<1>2. CASE breakers' = breakers
  BY <1>2
<1>3. ASSUME NEW j \in DOMAIN a.route, Begin(c, a, j, 1),
             breakers' = [breakers EXCEPT ![a.route[j]] = admitted(breakers[a.route[j]], now)]
      PROVE  \/ breakers'[m] = breakers[m]
             \/ breakers'[m] = admitted(breakers[m], now) /\ Holds(c, m)'
  <2>1. CASE m # a.route[j]
    BY <1>1, <1>3, <2>1
  <2>2. CASE m = a.route[j]
    <3>1. breakers'[m] = admitted(breakers[m], now)
      BY <1>1, <1>3, <2>2
    <3>2. /\ at'[c] = j
          /\ (pc'[c] = "done" /\ result'[c] = "deadline_exceeded") \/ pc'[c] = "invoking"
      BY <1>1, <1>3, BeginIs
    <3>3. Target(c)' = m
      BY <2>2, <3>2 DEF Target
    <3> QED
      BY <3>1, <3>2, <3>3 DEF Holds
  <2> QED
    BY <2>1, <2>2
<1> QED
  BY <1>1, <1>2, <1>3, AdvanceIs

\* What a step of a call does to a breaker.
LEMMA BreakerIs ==
    ASSUME IInv, NEW c \in GatewayCalls, Moves(c), NEW m \in Models
    PROVE  /\ now' = now
           /\ \/ breakers'[m] = breakers[m]
              \/ breakers'[m] = admitted(breakers[m], now) /\ Holds(c, m)'
              \/ breakers'[m] = record_success(breakers[m])
              \/ breakers'[m] = record_failure(breakers[m], now)
<1>1. TypeOK /\ breakers \in [Models -> Breaker] /\ ask \in [GatewayCalls -> Asks \cup {None}]
  BY DEF IInv, TypeOK
<1>2. CASE Start(c)
  <2>1. PICK a \in Asks : ask' = [ask EXCEPT ![c] = a] /\ Advance(c, a, 0)
    BY <1>1, <1>2, StartIs
  <2>2. 0 \in 0 .. Len(a.route) /\ ask'[c] = a /\ now' = now
    BY <1>1, <1>2, <2>1, RouteIs, StartIs
  <2> QED
    BY <2>1, <2>2, AdvanceBreaker
<1>3. CASE FallBack(c)
  <2>1. /\ ask[c] \in Asks /\ at[c] \in 0 .. Len(ask[c].route) /\ Advance(c, ask[c], at[c])
        /\ ask'[c] = ask[c] /\ now' = now
    BY <1>3, FallBackIs
  <2> QED
    BY <2>1, AdvanceBreaker
<1>4. CASE Succeed(c)
  <2>1. Target(c) \in Models /\ now' = now
    BY <1>4, PlaceIs DEF Succeed, Underway, Over
  <2>2. breakers' = [breakers EXCEPT ![Target(c)] = record_success(breakers[Target(c)])]
    BY <1>1, <1>4, <2>1 DEF Succeed
  <2>3. breakers'[m] = breakers[m] \/ breakers'[m] = record_success(breakers[m])
    BY <1>1, <2>1, <2>2
  <2> QED
    BY <2>1, <2>3
<1>5. CASE Fail(c)
  <2>1. Target(c) \in Models /\ now' = now
    BY <1>5, PlaceIs DEF Fail, Underway, Over
  <2>2. breakers' = breakers
        \/ breakers' = [breakers EXCEPT ![Target(c)] = record_failure(breakers[Target(c)], now)]
    BY <1>1, <1>5, <2>1 DEF Fail
  <2>3. breakers'[m] = breakers[m] \/ breakers'[m] = record_failure(breakers[m], now)
    BY <1>1, <2>1, <2>2
  <2> QED
    BY <2>1, <2>3
<1>6. CASE FirstItem(c) \/ RecordedSuccess(c) \/ RecordedEnd(c) \/ Retry(c) \/ Wake(c)
           \/ Drain(c) \/ Cancel(c) \/ CancelSleep(c)
  <2>1. breakers' = breakers /\ now' = now
    BY <1>6 DEF FirstItem, RecordedSuccess, RecordedEnd, Retry, Wake, Drain, Cancel, CancelSleep, shared
  <2> QED
    BY <2>1
<1> QED
  BY <1>2, <1>3, <1>4, <1>5, <1>6 DEF Moves, Step

LEMMA BreakerStep == IInv /\ [Next]_vars => \A m \in Models : BreakerInv(m)'
<1> SUFFICES ASSUME IInv, [Next]_vars, NEW m \in Models PROVE BreakerInv(m)'
  OBVIOUS
<1>1. PICK b \in Breaker, t \in Nat : b = breakers[m] /\ t = now /\ Agrees(b, t)
  BY DEF IInv, TypeOK, BreakerInv, Agrees
<1>2. Agrees(breakers'[m], now')
  <2>1. CASE UNCHANGED vars
    BY <1>1, <2>1 DEF vars, shared
  <2>2. CASE Tick
    BY <1>1, <2>2, MethodsAgree DEF Tick
  <2>3. ASSUME NEW c \in GatewayCalls, Moves(c) PROVE Agrees(breakers'[m], now')
    <3>1. /\ now' = t
          /\ \/ breakers'[m] = b \/ breakers'[m] = admitted(b, t)
             \/ breakers'[m] = record_success(b) \/ breakers'[m] = record_failure(b, t)
      BY <1>1, <2>3, BreakerIs
    <3> QED
      BY <1>1, <3>1, MethodsAgree
  <2> QED
    BY <2>1, <2>2, <2>3, Kinds
<1> QED
  BY <1>2 DEF BreakerInv, Agrees

\* What the caller is told of an attempt stays in the list.
LEMMA ListGrows ==
    ASSUME IInv, NEW c \in GatewayCalls, Moves(c), NEW i \in DOMAIN attempts[c]
    PROVE  i \in DOMAIN attempts'[c] /\ attempts'[c][i] = attempts[c][i]
<1>1. PICK t \in Seq(Attempt) : t = attempts[c]
  BY DEF IInv, TypeOK
<1>2. i \in 1 .. Len(t)
  BY <1>1
<1>3. ASSUME NEW s \in Seq(Attempt) PROVE i \in DOMAIN (t \o s) /\ (t \o s)[i] = t[i]
  BY <1>2
<1>4. ASSUME NEW r \in Attempt PROVE i \in DOMAIN Append(t, r) /\ Append(t, r)[i] = t[i]
  BY <1>2
<1>5. TypeOK /\ attempts \in [GatewayCalls -> Seq(Attempt)]
  BY DEF IInv, TypeOK
<1>6. ASSUME NEW a \in Asks, NEW j \in 0 .. Len(a.route), Advance(c, a, j)
      PROVE  i \in DOMAIN attempts'[c] /\ attempts'[c][i] = attempts[c][i]
  <2>1. PICK s : Skips(s) /\ attempts' = [attempts EXCEPT ![c] = attempts[c] \o s]
    BY <1>5, <1>6, AdvanceIs
  <2>2. attempts'[c] = t \o s /\ s \in Seq(Attempt)
    BY <1>1, <1>5, <2>1 DEF Skips
  <2> QED
    BY <1>1, <1>3, <2>2
<1>7. CASE Start(c)
  <2>1. PICK a \in Asks : Advance(c, a, 0)
    BY <1>5, <1>7, StartIs
  <2>2. 0 \in 0 .. Len(a.route)
    BY RouteIs
  <2> QED
    BY <1>6, <2>1, <2>2
<1>8. CASE FallBack(c)
  BY <1>6, <1>8, FallBackIs
<1>9. CASE Succeed(c) \/ Fail(c)
  <2>1. PICK outcome \in {"success", "error", "timeout"} : attempts' =
          [attempts EXCEPT ![c] = Append(attempts[c], ThisAttempt(c, outcome))]
    BY <1>5, <1>9 DEF Succeed, Fail, Over
  <2>2. Target(c) \in Models /\ n[c] \in 1 .. MaxAttempts /\ MaxAttempts \in Nat
    BY <1>9, PlaceIs, GatewayAssumption DEF Succeed, Fail, Underway
  <2>3. PICK r \in Attempt : r = ThisAttempt(c, outcome)
    <3>1. ThisAttempt(c, outcome) \in Attempt
      BY <2>2 DEF ThisAttempt, Attempt, Outcomes
    <3> QED
      BY <3>1
  <2>4. attempts'[c] = Append(t, r)
    BY <1>1, <1>5, <2>1, <2>3
  <2> QED
    BY <1>1, <1>4, <2>4
<1>10. CASE FirstItem(c) \/ RecordedSuccess(c) \/ RecordedEnd(c) \/ Retry(c) \/ Wake(c)
           \/ Drain(c) \/ Cancel(c) \/ CancelSleep(c)
  <2>1. attempts' = attempts
    BY <1>10 DEF FirstItem, RecordedSuccess, RecordedEnd, Retry, Wake, Drain, Cancel, CancelSleep
  <2> QED
    BY <2>1
<1> QED
  BY <1>7, <1>8, <1>9, <1>10 DEF Moves, Step

\* A call keeps a mark on a breaker until it reports.
LEMMA HoldsStep ==
    ASSUME IInv, NEW c \in GatewayCalls, Moves(c), NEW m \in Models, Holds(c, m),
           breakers'[m].probe
    PROVE  Holds(c, m)'
<1>1. TypeOK /\ CallInv(c) /\ breakers \in [Models -> Breaker]
  BY DEF IInv, TypeOK
<1>2. ASSUME NEW i \in DOMAIN attempts[c], attempts[c][i].model = m, attempts[c][i].outcome = "error"
      PROVE  Holds(c, m)'
  BY <1>2, ListGrows DEF Holds
<1>3. ASSUME Target(c) = m, pc[c] \in {"invoking", "streaming"} PROVE Holds(c, m)'
  <2>1. result[c] = "none" /\ Target(c) \in Models
    BY <1>1, <1>3, PlaceIs DEF CallInv, ResultInv, Underway
  <2>2. CASE FirstItem(c) \/ Cancel(c)
    <3>1. /\ ask'[c] = ask[c] /\ at'[c] = at[c] /\ result'[c] = result[c]
          /\ \/ pc'[c] = "streaming"
             \/ pc'[c] = "recording" /\ err'[c] = "cancelled"
      BY <1>1, <2>2 DEF FirstItem, Cancel, TypeOK
    <3> QED
      BY <1>3, <2>1, <3>1 DEF Holds, Target
  <2>3. CASE Succeed(c)
    <3>1. breakers' = [breakers EXCEPT ![m] = record_success(breakers[m])]
      BY <1>1, <1>3, <2>1, <2>3 DEF Succeed
    <3>2. breakers'[m] = Closed
      BY <1>1, <3>1 DEF record_success
    <3> QED
      BY <3>2 DEF Closed
  <2>4. CASE Fail(c)
    <3>1. PICK e \in Faults :
            /\ Over(c, IF e = "timeout" THEN "timeout" ELSE "error", e)
            /\ breakers' = IF e \in Unhealthy
                           THEN [breakers EXCEPT ![m] = record_failure(@, now)]
                           ELSE breakers
      BY <1>3, <2>4 DEF Fail
    <3>2. e \notin Unhealthy
      <4>1. SUFFICES ASSUME e \in Unhealthy PROVE FALSE
        OBVIOUS
      <4>2. breakers'[m] = record_failure(breakers[m], now)
        BY <1>1, <3>1, <4>1
      <4> QED
        BY <4>2 DEF record_failure
    <3>3. PICK r \in Attempt : r = ThisAttempt(c, "error") /\ r.model = m /\ r.outcome = "error"
      <4>1. Target(c) \in Models /\ n[c] \in 1 .. MaxAttempts /\ MaxAttempts \in Nat
        BY <1>3, PlaceIs, GatewayAssumption DEF Underway
      <4>2. /\ ThisAttempt(c, "error") \in Attempt /\ ThisAttempt(c, "error").model = m
            /\ ThisAttempt(c, "error").outcome = "error"
        BY <1>3, <4>1 DEF ThisAttempt, Attempt, Outcomes
      <4> QED
        BY <4>2
    <3>4. attempts'[c] = Append(attempts[c], r)
      <4>1. attempts \in [GatewayCalls -> Seq(Attempt)]
        BY <1>1 DEF TypeOK
      <4>2. attempts' = [attempts EXCEPT ![c] = Append(attempts[c], r)]
        BY <3>1, <3>2, <3>3, <4>1 DEF Over, Unhealthy, Retryable
      <4> QED
        BY <4>1, <4>2
    <3>5. PICK t \in Seq(Attempt) : t = attempts[c]
      BY <1>1 DEF TypeOK
    <3>6. Len(t) + 1 \in DOMAIN Append(t, r) /\ Append(t, r)[Len(t) + 1] = r
      OBVIOUS
    <3> QED
      BY <3>3, <3>4, <3>5, <3>6 DEF Holds
  <2>5. Start(c) \/ CancelSleep(c) \/ Drain(c) \/ Wake(c) \/ RecordedSuccess(c) \/ RecordedEnd(c)
        \/ Retry(c) \/ FallBack(c) => FALSE
    BY <1>3 DEF Start, CancelSleep, Drain, Wake, RecordedSuccess, RecordedEnd, Retry, FallBack,
                MovesOn, _record
  <2> QED
    BY <2>2, <2>3, <2>4, <2>5 DEF Moves, Step
<1>4. ASSUME Target(c) = m, pc[c] = "recording", err[c] = "cancelled", result[c] = "none"
      PROVE  Holds(c, m)'
  <2>1. RecordedEnd(c)
    BY <1>4 DEF Moves, Step, Start, Cancel, CancelSleep, FirstItem, Succeed, Fail, Drain, Wake,
                RecordedSuccess, Retry, FallBack, MovesOn, Errors, Unhealthy, Retryable
  <2>2. pc'[c] = "done" /\ result'[c] = "cancelled" /\ ask' = ask /\ at' = at
    BY <1>1, <1>4, <2>1 DEF RecordedEnd, End, TypeOK, Errors, Unhealthy, Retryable
  <2> QED
    BY <1>4, <2>2 DEF Holds, Target
<1>5. ASSUME pc[c] = "done" PROVE FALSE
  BY <1>5 DEF Moves, Step, Start, Cancel, CancelSleep, FirstItem, Succeed, Fail, Drain, Wake,
              RecordedSuccess, RecordedEnd, Retry, FallBack, MovesOn, _record
<1> QED
  BY <1>2, <1>3, <1>4, <1>5 DEF Holds

LEMMA ProbeStep == IInv /\ [Next]_vars => \A m \in Models : ProbeInv(m)'
<1> SUFFICES ASSUME IInv, [Next]_vars, NEW m \in Models, breakers'[m].probe
             PROVE  \E d \in GatewayCalls : Holds(d, m)'
  BY DEF ProbeInv
<1>1. ASSUME NEW d \in GatewayCalls, Holds(d, m), Still(d) PROVE Holds(d, m)'
  BY <1>1 DEF Holds, Still, Target
<1>2. CASE Tick \/ UNCHANGED vars
  <2>1. breakers' = breakers /\ \A d \in GatewayCalls : Still(d)
    BY <1>2 DEF Tick, vars, shared, books, Still
  <2>2. PICK d \in GatewayCalls : Holds(d, m)
    BY <2>1 DEF IInv, ProbeInv
  <2> QED
    BY <1>1, <2>1, <2>2
<1>3. ASSUME NEW c \in GatewayCalls, Moves(c) PROVE \E d \in GatewayCalls : Holds(d, m)'
  <2>1. CASE Holds(c, m)'
    BY <2>1
  <2>2. CASE ~ Holds(c, m)'
    <3>1. breakers[m] \in Breaker /\ now \in Nat /\ Agrees(breakers[m], now)
      BY DEF IInv, TypeOK, BreakerInv, Agrees
    <3>2. breakers'[m] = breakers[m]
      BY <1>3, <2>2, <3>1, BreakerIs, MethodsAgree
    <3>3. PICK d \in GatewayCalls : Holds(d, m)
      BY <3>2 DEF IInv, ProbeInv
    <3>4. d # c
      BY <1>3, <2>2, <3>3, HoldsStep
    <3> QED
      BY <1>1, <1>3, <3>3, <3>4, Elsewhere
  <2> QED
    BY <2>1, <2>2
<1> QED
  BY <1>2, <1>3, Kinds

-----------------------------------------------------------------------------
(* The invariant, and what it gives *)

LEMMA Initially == Init => IInv
<1> SUFFICES ASSUME Init PROVE IInv
  OBVIOUS
<1>1. TypeOK
  <2>1. Closed \in Breaker
    BY DEF Closed, Breaker
  <2>2. 0 \in 0 .. MaxAttempts /\ "idle" \in PCs /\ "none" \in Results /\ << >> \in Seq(Attempt)
        /\ << >> \in Seq(Models \X Nat)
    BY GatewayAssumption DEF PCs, Results
  <2> QED
    BY <2>1, <2>2 DEF Init, TypeOK
<1>2. ASSUME NEW c \in GatewayCalls PROVE CallInv(c)
  <2>1. /\ pc[c] = "idle" /\ at[c] = 0 /\ n[c] = 0 /\ attempts[c] = << >> /\ usage[c] = << >>
        /\ dropped[c] = {} /\ sent[c] = << >> /\ heard[c] = {} /\ result[c] = "none"
    BY DEF Init
  <2>2. PlaceInv(c) /\ ResultInv(c) /\ HeardInv(c) /\ SentInv(c)
    BY <2>1 DEF PlaceInv, ResultInv, HeardInv, SentInv, Underway
  <2>3. BooksInv(c)
    <3>1. ~ Unbooked(c) /\ \A m, k : ~ Tried(c, m, k) /\ ~ Booked(c, m, k)
      BY <2>1 DEF Unbooked, Tried, Booked
    <3>2. RowsInv(c)
      BY <2>1 DEF RowsInv
    <3> QED
      BY <2>1, <3>1, <3>2 DEF BooksInv
  <2>4. ListInv(c)
    BY <2>1 DEF ListInv, Succeeded
  <2> QED
    BY <2>2, <2>3, <2>4 DEF CallInv
<1>3. ASSUME NEW m \in Models PROVE BreakerInv(m) /\ ProbeInv(m)
  <2>1. breakers[m] = Closed
    BY DEF Init
  <2> QED
    BY <2>1, BreakerAssumption DEF BreakerInv, ProbeInv, Closed
<1> QED
  BY <1>1, <1>2, <1>3 DEF IInv

\* The inductive invariant holds whatever the interleaving: each call is at a place of
\* its route that matches what it sent, booked and listed, and each breaker's mark
\* belongs to a call.
THEOREM Invariance == Spec => []IInv
<1>1. IInv /\ [Next]_vars => IInv'
  <2> SUFFICES ASSUME IInv, [Next]_vars PROVE IInv'
    OBVIOUS
  <2>1. TypeOK' /\ \A c \in GatewayCalls : CallInv(c)'
    BY TypeStep, CallStep
  <2>2. \A m \in Models : BreakerInv(m)' /\ ProbeInv(m)'
    BY BreakerStep, ProbeStep
  <2> QED
    BY <2>1, <2>2 DEF IInv
<1> QED
  BY <1>1, Initially, PTL DEF Spec

\* However many calls overlap on the breakers, their fields agree with the reports they
\* were given, and one that refuses for good was left so by a silent probe
\* (BreakersAreSound).
THEOREM SoundBreakers == Spec => []BreakersAreSound
<1>1. IInv => BreakersAreSound
  <2> SUFFICES ASSUME IInv PROVE BreakersAreSound
    OBVIOUS
  <2>1. BreakerConsistent
    BY DEF IInv, BreakerInv, BreakerConsistent
  <2>2. ASSUME \A c \in GatewayCalls : pc[c] \in {"idle", "done"}, NEW m \in Models,
               state(breakers[m], now) = "half_open", ~ allow(breakers[m], now)
        PROVE  \E c \in GatewayCalls :
                 \/ result[c] \in {"cancelled", "deadline_exceeded"} /\ Target(c) = m
                 \/ \E i \in DOMAIN attempts[c] :
                      attempts[c][i].model = m /\ attempts[c][i].outcome = "error"
    <3>1. breakers[m].probe
      BY <2>2 DEF allow
    <3>2. PICK c \in GatewayCalls : Holds(c, m)
      BY <3>1 DEF IInv, ProbeInv
    <3>3. pc[c] \in {"idle", "done"}
      BY <2>2
    <3> QED
      BY <3>2, <3>3 DEF Holds
  <2>3. OnlySilentProbesBlock
    BY <2>2 DEF OnlySilentProbesBlock
  <2> QED
    BY <2>1, <2>3 DEF BreakersAreSound, IInv
<1> QED
  BY <1>1, Invariance, PTL

\* The client of any call hears one attempt at most, which is the last one (NoSplice).
THEOREM OneVoice == Spec => []NoSplice
<1>1. IInv => NoSplice
  BY DEF IInv, CallInv, HeardInv, NoSplice
<1> QED
  BY <1>1, Invariance, PTL

\* On any route, with any retries and fallbacks, attempts go in order and never where
\* the data may not go (FollowsRoute).
THEOREM RouteIsFollowed == Spec => []FollowsRoute
<1>1. IInv => FollowsRoute
  <2> SUFFICES ASSUME IInv, NEW c \in GatewayCalls, NEW i \in DOMAIN sent[c]
               PROVE  LET m == sent[c][i][1]
                          k == sent[c][i][2]
                          pos(x) == CHOOSE j \in DOMAIN ask[c].route : ask[c].route[j] = x
                      IN  /\ m \notin Disabled
                          /\ m \in Egressing => ask[c].egress
                          /\ k <= MaxAttempts
                          /\ IF k = 1
                             THEN i > 1 => pos(sent[c][i - 1][1]) < pos(m)
                             ELSE i > 1 /\ sent[c][i - 1] = <<m, k - 1>>
    BY DEF FollowsRoute
  <2>1. Fits(sent[c], i, ask[c], at[c], n[c]) /\ pc[c] # "idle" /\ ask[c] \in Asks
    BY DEF IInv, CallInv, SentInv, PlaceInv
  <2>2. PICK a \in Asks, s \in Seq(Models \X Nat) : a = ask[c] /\ s = sent[c]
    BY <2>1 DEF IInv, TypeOK
  <2>3. PICK q \in DOMAIN a.route :
          /\ s[i][1] = a.route[q] /\ s[i][2] \in 1 .. MaxAttempts
          /\ s[i][1] \notin Disabled
          /\ s[i][1] \in Egressing => a.egress
          /\ IF s[i][2] = 1
             THEN i > 1 => \E p \in DOMAIN a.route : p < q /\ s[i - 1][1] = a.route[p]
             ELSE i > 1 /\ s[i - 1] = <<s[i][1], s[i][2] - 1>>
    BY <2>1, <2>2 DEF Fits
  <2> DEFINE pos(x) == CHOOSE j \in DOMAIN a.route : a.route[j] = x
  <2>4. ASSUME NEW p \in DOMAIN a.route PROVE pos(a.route[p]) = p
    <3>1. \A j \in DOMAIN a.route : a.route[j] = a.route[p] => j = p
      BY RouteIs
    <3> QED
      BY <3>1
  <2>5. s[i][2] = 1 /\ i > 1 => pos(s[i - 1][1]) < pos(s[i][1])
    <3> HIDE DEF pos
    <3> QED
      BY <2>3, <2>4
  <2>6. s[i][2] <= MaxAttempts
    BY <2>3, GatewayAssumption
  <2> QED
    BY <2>2, <2>3, <2>5, <2>6
<1> QED
  BY <1>1, Invariance, PTL

\* When any call is over, exactly the attempts sent are booked, and only a success whose
\* reader was cancelled is booked twice (EveryAttemptAccounted).
THEOREM BooksBalance == Spec => []EveryAttemptAccounted
<1>1. IInv => EveryAttemptAccounted
  <2> SUFFICES ASSUME IInv, NEW c \in GatewayCalls, pc[c] = "done"
               PROVE  /\ \A m \in Models, k \in 1 .. MaxAttempts : Tried(c, m, k) <=> Booked(c, m, k)
                      /\ \A i, j \in DOMAIN usage[c] :
                           i < j /\ usage[c][i].model = usage[c][j].model
                             /\ usage[c][i].n = usage[c][j].n
                             => usage[c][i].outcome = "success" /\ usage[c][j].outcome = "cancelled"
    BY DEF EveryAttemptAccounted
  <2>1. BooksInv(c) /\ ~ Unbooked(c)
    BY DEF IInv, CallInv, Unbooked
  <2> QED
    BY <2>1 DEF BooksInv, RowsInv
<1> QED
  BY <1>1, Invariance, PTL

\* The result of any call agrees with what was sent, heard and listed (HonestResult).
THEOREM HonestResults == Spec => []HonestResult
<1>1. IInv => HonestResult
  <2> SUFFICES ASSUME IInv, NEW c \in GatewayCalls, pc[c] = "done"
               PROVE  LET tried == attempts[c]
                          good == {i \in DOMAIN tried : tried[i].outcome = "success"}
                      IN  /\ result[c] = "no_available_provider" => sent[c] = << >> /\ good = {}
                          /\ result[c] \in {"provider_unavailable", "bad_request"} => sent[c] # << >>
                          /\ result[c] = "ok" <=> good = {Len(tried)}
                          /\ result[c] # "ok" <=> good = {}
                          /\ heard[c] # {} => result[c] \in {"ok", "mid_stream", "cancelled"}
    BY DEF HonestResult
  <2>1. ListInv(c) /\ attempts[c] \in Seq(Attempt)
    BY DEF IInv, CallInv, TypeOK
  <2>2. PICK t \in Seq(Attempt), good \in SUBSET DOMAIN attempts[c] :
          t = attempts[c] /\ good = {i \in DOMAIN t : t[i].outcome = "success"}
    BY <2>1
  <2>3. Succeeded(c) <=> result[c] = "ok"
    BY DEF Succeeded
  <2>4. \A i \in DOMAIN t : t[i].outcome = "success" <=> i = Len(t) /\ result[c] = "ok"
    BY <2>1, <2>2, <2>3 DEF ListInv
  <2>5. result[c] = "ok" => Len(t) \in DOMAIN t
    <3>1. result[c] = "ok" => t # << >>
      BY <2>1, <2>2, <2>3 DEF ListInv
    <3> QED
      BY <3>1
  <2>6. result[c] = "ok" => good = {Len(t)}
    BY <2>2, <2>4, <2>5
  <2>7. result[c] # "ok" => good = {}
    BY <2>2, <2>4
  <2>8. /\ result[c] = "no_available_provider" => sent[c] = << >>
        /\ result[c] \in {"provider_unavailable", "bad_request"} => sent[c] # << >>
        /\ heard[c] # {} => result[c] \in {"ok", "mid_stream", "cancelled"}
    BY <2>1 DEF ListInv
  <2> QED
    BY <2>2, <2>6, <2>7, <2>8
<1> QED
  BY <1>1, Invariance, PTL

=============================================================================
