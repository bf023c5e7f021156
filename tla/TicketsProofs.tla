--------------------------- MODULE TicketsProofs ---------------------------
(***************************************************************************)
(* For any users, texts, requests, rates and clocks: callers get no more   *)
(* than their bucket allows, and no ticket is repeated inside the window   *)
(* of the first with its words.                                            *)
(***************************************************************************)
EXTENDS Tickets, TLAPS

-----------------------------------------------------------------------------
(* Arithmetic *)

\* Products distribute over differences and sums, and grow with a factor.
LEMMA Products ==
    ASSUME NEW a \in Int, NEW b \in Int, NEW c \in Int
    PROVE  /\ a * b \in Int
           /\ a * (b + c) = a * b + a * c
           /\ a * (b - c) = a * b - a * c
           /\ (b - c) * a = a * b - a * c
           /\ (b + c) * a = a * b + a * c
           /\ a >= 0 /\ b <= c => a * b <= a * c
BY SMT

\* What a bucket holds, counted back to time 0: refilling never raises it.
Level(b) == b.tokens - Rate * b.ts

\* The script of ratelimit.py on one bucket: the level never rises, falls by Cost when
\* the request is let through, and a bucket written now is neither overfull nor too deep
\* in debt.
LEMMA Script ==
    ASSUME NEW b \in Bucket, NEW now \in Int
    PROVE  /\ After(b, now) \in Bucket
           /\ Level(After(b, now)) \in Int
           /\ After(b, now).ts = now
           /\ Allows(b, now) =>
                /\ Level(After(b, now)) <= Level(b) - Cost
                /\ Level(After(b, now)) <= Burst - Rate * now - Cost
                /\ Level(After(b, now)) + Rate * now >= 0
           /\ ~ Allows(b, now) =>
                /\ Level(After(b, now)) <= Level(b)
                /\ Level(After(b, now)) = Level(b) \/ Level(After(b, now)) = Burst - Rate * now
<1> DEFINE R == Refilled(b, now)
           x == Rate * now
           y == Rate * b.ts
<1>1. /\ Rate \in Int /\ Burst \in Int /\ Cost \in Int
      /\ b.tokens \in Int /\ b.ts \in Int
  BY BucketAssumption DEF Bucket
<1>2. x \in Int /\ y \in Int /\ (now - b.ts) * Rate = x - y
  BY <1>1, Products
<1> HIDE DEF x, y
<1>3. /\ R \in Int /\ R <= Burst /\ R <= b.tokens + (x - y)
      /\ R = Burst \/ R = b.tokens + (x - y)
  BY <1>1, <1>2 DEF Refilled
<1>4. Allows(b, now) <=> R >= Cost
  BY DEF Allows
<1>5. Level(b) = b.tokens - y
  BY DEF Level, y
<1> HIDE DEF R
<1>6. CASE R >= Cost
  <2>1. After(b, now) = [tokens |-> R - Cost, ts |-> now]
    BY <1>6 DEF After, Allows, R
  <2>2. Level(After(b, now)) = R - Cost - x
    BY <2>1 DEF Level, x
  <2>3. After(b, now) \in Bucket /\ After(b, now).ts = now
    BY <2>1, <1>1, <1>3 DEF Bucket
  <2>4. /\ Level(After(b, now)) \in Int
        /\ Level(After(b, now)) <= Level(b) - Cost
        /\ Level(After(b, now)) <= Burst - x - Cost
        /\ Level(After(b, now)) + x >= 0
    BY <2>2, <1>1, <1>2, <1>3, <1>5, <1>6
  <2> QED
    BY <2>3, <2>4, <1>4, <1>6 DEF x
<1>7. CASE ~ (R >= Cost)
  <2>1. After(b, now) = [tokens |-> R, ts |-> now]
    BY <1>7 DEF After, Allows, R
  <2>2. Level(After(b, now)) = R - x
    BY <2>1 DEF Level, x
  <2>3. After(b, now) \in Bucket /\ After(b, now).ts = now
    BY <2>1, <1>1, <1>3 DEF Bucket
  <2>4. Level(After(b, now)) \in Int /\ Level(After(b, now)) <= Level(b)
    BY <2>2, <1>1, <1>2, <1>3, <1>5
  <2>5. CASE R = Burst
    BY <2>2, <2>3, <2>4, <2>5, <1>4, <1>7 DEF x
  <2>6. CASE R = b.tokens + (x - y)
    <3>1. Level(After(b, now)) = Level(b)
      BY <2>2, <2>6, <1>1, <1>2, <1>5
    <3> QED
      BY <3>1, <2>3, <2>4, <1>4, <1>7 DEF x
  <2> QED
    BY <2>5, <2>6, <1>3
<1> QED
  BY <1>6, <1>7

-----------------------------------------------------------------------------
(* The inductive invariant *)

\* A request that got past the middleware knows its user and its text.
RequestsInv ==
    \A r \in Requests : request[r].pc \in {"lookup", "insert"} =>
      request[r].user \in Users /\ request[r].text \in Texts

\* The unique index on the idempotency key.
KeysInv ==
    \A m, n \in DOMAIN tickets :
      SameTicket(m, n) /\ tickets[m].suffix = tickets[n].suffix => m = n

\* A ticket under a suffix repeats one that has the bare key.
RepeatInv ==
    \A n \in DOMAIN tickets : tickets[n].suffix # None =>
      \E m \in DOMAIN tickets : SameTicket(m, n) /\ tickets[m].suffix = None

Bare(r, m) ==
    tickets[m].by = request[r].user /\ tickets[m].text = request[r].text /\ tickets[m].suffix = None

\* A request that is about to insert under a suffix saw the bare key taken, and was
\* begun after the window of the ticket that has it.
SuffixInv ==
    \A r \in Requests : request[r].pc = "insert" /\ request[r].suffix # None =>
      /\ \E m \in DOMAIN tickets : Bare(r, m)
      /\ \A m \in DOMAIN tickets : Bare(r, m) =>
           request[r].begun >= tickets[m].at + Window - MaxSkew

TicketsInv == RequestsInv /\ KeysInv /\ RepeatInv /\ SuffixInv /\ RepeatsWaitForTheWindow

\* Grants of identity i since its m-th, that one included, in tokens.
Spent(i, m) == (Len(granted[i]) - m + 1) * Cost

\* A bucket in Redis owes its level to the grants so far; a bucket that was dropped had
\* the time to fill up.
LevelInv ==
    \A i \in Identities :
      /\ written[i] <= time
      /\ bucket[i] # None =>
           /\ Level(bucket[i]) + Rate * (written[i] + MaxSkew) >= 0
           /\ \A m \in DOMAIN granted[i] :
                Level(bucket[i]) + Spent(i, m) <= Burst - Rate * granted[i][m]
      /\ bucket[i] = None =>
           \A m \in DOMAIN granted[i] : Spent(i, m) <= Rate * time - Rate * granted[i][m]

RateInv == LevelInv /\ RateBounded

IInv == TypeOK /\ TicketsInv /\ RateInv

-----------------------------------------------------------------------------
(* Types *)

Pcs == {"new", "refused", "lookup", "insert", "done", "failed"}
RequestType ==
    [pc : Pcs, user : Users \cup {None}, text : Texts \cup {None}, skew : 0 .. MaxSkew,
     begun : 0 .. MaxTime, suffix : Requests \cup {None}]
TicketType ==
    [by : Users, text : Texts, suffix : Requests \cup {None}, at : 0 .. MaxTime]

\* The bucket the script starts from is a bucket.
LEMMA HeldType ==
    ASSUME TypeOK, NEW i \in Identities, NEW now \in Int
    PROVE  Held(i, now) \in Bucket
BY BucketAssumption DEF TypeOK, Held, Full, Bucket

\* Every step keeps the types.
LEMMA TypeStep == TypeOK /\ RequestsInv /\ [Next]_vars => TypeOK'
<1> SUFFICES ASSUME TypeOK, RequestsInv, [Next]_vars
             PROVE  TypeOK'
  OBVIOUS
<1> USE BucketAssumption, TicketsAssumption
<1>1. /\ request \in [Requests -> RequestType] /\ tickets \in Seq(TicketType)
      /\ 0 \in 0 .. MaxSkew /\ 0 \in 0 .. MaxTime
  BY DEF TypeOK, RequestType, TicketType, Pcs
<1>2. \A pc \in Pcs : Ended(pc) \in RequestType
  BY <1>1 DEF Ended, NoRequest, RequestType
<1>3. \A u \in Users, text \in Texts, skew \in 0 .. MaxSkew :
        [NoRequest EXCEPT !.pc = "lookup", !.user = u, !.text = text, !.skew = skew] \in RequestType
  BY <1>1 DEF NoRequest, RequestType, Pcs
<1>4. ASSUME Tick PROVE TypeOK'
  BY <1>4 DEF Tick, TypeOK
<1>5. ASSUME NEW i \in Identities, Expire(i) PROVE TypeOK'
  BY <1>5 DEF Expire, TypeOK
<1>6. ASSUME NEW r \in Requests, NEW u \in Users, NEW text \in Texts,
             NEW skew \in 0 .. MaxSkew, NEW signed \in BOOLEAN, Limit(r, u, signed, text, skew)
      PROVE  TypeOK'
  <2> DEFINE i == identity_of(signed, u)
             now == time + skew
             b == Held(i, now)
  <2>1. i \in Identities /\ now \in Int /\ time \in 0 .. MaxTime
    BY DEF identity_of, Identities, TypeOK
  <2>2. After(b, now) \in Bucket
    BY <2>1, HeldType, Script
  <2> HIDE DEF b, i, now
  <2>3. bucket' = [bucket EXCEPT ![i] = After(b, now)] /\ written' = [written EXCEPT ![i] = time]
    BY <1>6 DEF Limit, b, i, now
  <2>4. granted' \in [Identities -> Seq(0 .. MaxTime)]
    <3>1. granted \in [Identities -> Seq(0 .. MaxTime)]
      BY DEF TypeOK
    <3>2. Append(granted[i], time) \in Seq(0 .. MaxTime) /\ granted[i] \in Seq(0 .. MaxTime)
      BY <2>1, <3>1
    <3>3. granted' = [granted EXCEPT ![i] = IF Allows(b, now) THEN Append(granted[i], time)
                                            ELSE granted[i]]
      BY <1>6 DEF Limit, b, i, now
    <3> QED
      BY <3>1, <3>2, <3>3
  <2>5. request' \in [Requests -> RequestType]
    <3>1. Ended("refused") \in RequestType
      BY <1>2 DEF Pcs
    <3> QED
      BY <1>6, <1>1, <1>3, <3>1 DEF Limit
  <2>6. UNCHANGED <<time, tickets>>
    BY <1>6 DEF Limit
  <2> QED
    BY <2>1, <2>2, <2>3, <2>4, <2>5, <2>6 DEF TypeOK, RequestType, Pcs
<1>7. ASSUME NEW r \in Requests, NEW u \in Users, NEW text \in Texts,
             NEW skew \in 0 .. MaxSkew, FailOpen(r, u, text, skew)
      PROVE  TypeOK'
  <2>1. request' \in [Requests -> RequestType]
    BY <1>1, <1>3, <1>7 DEF FailOpen
  <2> QED
    BY <2>1, <1>7 DEF FailOpen, TypeOK, RequestType, Pcs
<1>8. ASSUME NEW r \in Requests, Lookup(r) PROVE TypeOK'
  <2>1. Ended("done") \in RequestType
    BY <1>2 DEF Pcs
  <2>2. \A s \in Requests \cup {None} :
          [request[r] EXCEPT !.pc = "insert", !.begun = time, !.suffix = s] \in RequestType
    BY <1>1, ZenonT(40) DEF RequestType, Pcs, TypeOK
  <2>3. request' \in [Requests -> RequestType]
    BY <1>1, <1>8, <2>1, <2>2 DEF Lookup
  <2> QED
    BY <2>3, <1>8 DEF Lookup, TypeOK, RequestType, Pcs
<1>9. ASSUME NEW r \in Requests, Insert(r) PROVE TypeOK'
  <2>1. Ended("done") \in RequestType /\ Ended("failed") \in RequestType
    BY <1>2 DEF Pcs
  <2>2. request' \in [Requests -> RequestType]
    BY <1>1, <1>9, <2>1 DEF Insert
  <2>3. [by |-> request[r].user, text |-> request[r].text, suffix |-> request[r].suffix,
         at |-> request[r].begun] \in TicketType
    BY <1>1, <1>9 DEF Insert, RequestsInv, TicketType, RequestType
  <2>4. tickets' \in Seq(TicketType)
    BY <1>1, <1>9, <2>3 DEF Insert
  <2> QED
    BY <2>2, <2>4, <1>9 DEF Insert, TypeOK, RequestType, TicketType, Pcs
<1>10. CASE UNCHANGED vars
  BY <1>10 DEF vars, TypeOK
<1> QED
  BY <1>4, <1>5, <1>6, <1>7, <1>8, <1>9, <1>10 DEF Next, Serve

-----------------------------------------------------------------------------
(* Tickets *)

\* The statements of create_support_ticket keep what is known of keys and windows.
LEMMA TicketsStep == TypeOK /\ TicketsInv /\ [Next]_vars => TicketsInv'
<1> SUFFICES ASSUME TypeOK, TicketsInv, [Next]_vars
             PROVE  TicketsInv'
  OBVIOUS
<1> USE BucketAssumption, TicketsAssumption
<1>1. /\ request \in [Requests -> RequestType] /\ tickets \in Seq(TicketType)
      /\ time \in Int /\ Window \in Int /\ MaxSkew \in Int
  BY DEF TypeOK, RequestType, TicketType, Pcs
<1>2. RequestsInv /\ KeysInv /\ RepeatInv /\ SuffixInv /\ RepeatsWaitForTheWindow
  BY DEF TicketsInv
\* Most steps add no ticket and bring no request to its insert.
<1>3. ASSUME UNCHANGED tickets, RequestsInv',
             \A r \in Requests : request'[r].pc = "insert" => request'[r] = request[r]
      PROVE  TicketsInv'
  <2>1. KeysInv' /\ RepeatInv' /\ RepeatsWaitForTheWindow'
    BY <1>2, <1>3 DEF KeysInv, RepeatInv, RepeatsWaitForTheWindow, SameTicket
  <2>2. SuffixInv'
    BY <1>2, <1>3 DEF SuffixInv, Bare
  <2> QED
    BY <2>1, <2>2, <1>3 DEF TicketsInv
<1>4. ASSUME UNCHANGED <<request, tickets>> PROVE TicketsInv'
  <2>1. RequestsInv'
    BY <1>2, <1>4 DEF RequestsInv
  <2> QED
    BY <2>1, <1>3, <1>4
<1>5. ASSUME NEW r \in Requests, NEW u \in Users, NEW text \in Texts,
             NEW skew \in 0 .. MaxSkew, NEW q, UNCHANGED tickets,
             request' = [request EXCEPT ![r] = q],
             q = Ended("refused")
               \/ q = [NoRequest EXCEPT !.pc = "lookup", !.user = u, !.text = text, !.skew = skew]
      PROVE  TicketsInv'
  <2>1. q.pc # "insert" /\ (q.pc = "lookup" => q.user \in Users /\ q.text \in Texts)
    BY <1>5 DEF Ended, NoRequest
  <2>2. \A s \in Requests : request'[s] = IF s = r THEN q ELSE request[s]
    BY <1>1, <1>5
  <2>3. RequestsInv'
    BY <1>2, <2>1, <2>2 DEF RequestsInv
  <2> QED
    BY <1>3, <1>5, <2>1, <2>2, <2>3
<1>6. ASSUME NEW r \in Requests, Lookup(r) PROVE TicketsInv'
  <2> DEFINE q == request[r]
             found == WithKey(q.user, q.text, None)
  <2>1. /\ q.pc = "lookup" /\ UNCHANGED tickets
        /\ q \in RequestType /\ q.user \in Users /\ q.text \in Texts
    BY <1>1, <1>2, <1>6 DEF Lookup, RequestsInv
  <2>2. \A s \in Requests : s # r => request'[s] = request[s]
    BY <1>1, <1>6 DEF Lookup
  <2>3. \/ request'[r] = Ended("done")
        \/ /\ \A n \in found : ~ (time + q.skew - tickets[n].at < Window)
           /\ request'[r] = [q EXCEPT !.pc = "insert", !.begun = time,
                                      !.suffix = IF found # {} THEN r ELSE None]
    BY <1>1, <1>6 DEF Lookup
  <2>4. CASE request'[r] = Ended("done")
    <3>1. request'[r].pc = "done"
      BY <2>4 DEF Ended, NoRequest
    <3>2. RequestsInv'
      BY <1>2, <2>2, <3>1 DEF RequestsInv
    <3> QED
      BY <1>3, <2>1, <2>2, <3>1, <3>2
  <2>5. CASE /\ \A n \in found : ~ (time + q.skew - tickets[n].at < Window)
             /\ request'[r] = [q EXCEPT !.pc = "insert", !.begun = time,
                                        !.suffix = IF found # {} THEN r ELSE None]
    <3>1. /\ request'[r].pc = "insert" /\ request'[r].begun = time
          /\ request'[r].user = q.user /\ request'[r].text = q.text
          /\ request'[r].suffix = IF found # {} THEN r ELSE None
      BY <2>1, <2>5 DEF RequestType
    <3>2. RequestsInv'
      BY <1>2, <2>1, <2>2, <3>1 DEF RequestsInv
    <3>3. KeysInv' /\ RepeatInv' /\ RepeatsWaitForTheWindow'
      BY <1>2, <2>1 DEF KeysInv, RepeatInv, RepeatsWaitForTheWindow, SameTicket
    <3>4. \A n \in DOMAIN tickets : Bare(r, n)' <=> n \in found
      BY <2>1, <3>1 DEF Bare, WithKey
    <3>5. \A n \in found : time >= tickets[n].at + Window - MaxSkew
      <4> SUFFICES ASSUME NEW n \in found PROVE time >= tickets[n].at + Window - MaxSkew
        OBVIOUS
      <4>0. n \in DOMAIN tickets
        BY DEF WithKey
      <4>1. tickets[n] \in TicketType
        BY <4>0, <1>1
      <4>2. tickets[n].at \in Int /\ q.skew \in Int /\ q.skew <= MaxSkew
        BY <4>1, <1>1, <2>1 DEF TicketType, RequestType
      <4> QED
        BY <4>2, <1>1, <2>5, SMTT(30)
    <3>6. SuffixInv'
      <4> SUFFICES ASSUME NEW s \in Requests, request'[s].pc = "insert", request'[s].suffix # None
                   PROVE  /\ \E m \in DOMAIN tickets' : Bare(s, m)'
                          /\ \A m \in DOMAIN tickets' : Bare(s, m)' =>
                               request'[s].begun >= tickets'[m].at + Window - MaxSkew
        BY DEF SuffixInv
      <4>1. CASE s = r
        <5>1. found # {} /\ found \subseteq DOMAIN tickets
          BY <3>1, <4>1 DEF WithKey
        <5> QED
          BY <2>1, <3>1, <3>4, <3>5, <4>1, <5>1
      <4>2. CASE s # r
        BY <1>2, <2>1, <2>2, <4>2 DEF SuffixInv, Bare
      <4> QED
        BY <4>1, <4>2
    <3> QED
      BY <3>2, <3>3, <3>6 DEF TicketsInv
  <2> QED
    BY <2>3, <2>4, <2>5
<1>7. ASSUME NEW r \in Requests, Insert(r) PROVE TicketsInv'
  <2> DEFINE q == request[r]
             row == [by |-> q.user, text |-> q.text, suffix |-> q.suffix, at |-> q.begun]
             N == Len(tickets) + 1
  <2>1. /\ q.pc = "insert" /\ q \in RequestType /\ q.user \in Users /\ q.text \in Texts
    BY <1>1, <1>2, <1>7 DEF Insert, RequestsInv
  <2>2. /\ \A s \in Requests : s # r => request'[s] = request[s]
        /\ request'[r].pc \in {"done", "failed"}
    BY <1>1, <1>7 DEF Insert, Ended, NoRequest
  <2>3. RequestsInv'
    BY <1>2, <2>2 DEF RequestsInv
  <2>4. CASE UNCHANGED tickets
    BY <1>3, <2>2, <2>3, <2>4
  <2>5. CASE WithKey(q.user, q.text, q.suffix) = {} /\ tickets' = Append(tickets, row)
    <3>1. /\ Len(tickets) \in Nat /\ DOMAIN tickets = 1 .. Len(tickets)
          /\ DOMAIN tickets' = 1 .. N /\ tickets'[N] = row
          /\ \A n \in DOMAIN tickets : tickets'[n] = tickets[n]
      <4>1. row \in TicketType
        BY <2>1 DEF TicketType, RequestType
      <4> QED
        BY <1>1, <2>5, <4>1
    <3>2. /\ row.by = q.user /\ row.text = q.text /\ row.suffix = q.suffix /\ row.at = q.begun
          /\ \A n \in DOMAIN tickets' : n \in DOMAIN tickets \/ n = N
          /\ N \in DOMAIN tickets' /\ N \notin DOMAIN tickets
          /\ \A n \in DOMAIN tickets : n \in DOMAIN tickets'
      BY <3>1
    <3> HIDE DEF row, N
    <3>3. \A n \in DOMAIN tickets :
            ~ (tickets[n].by = q.user /\ tickets[n].text = q.text /\ tickets[n].suffix = q.suffix)
      BY <2>5 DEF WithKey
    <3>4. KeysInv'
      BY <1>2, <3>1, <3>2, <3>3 DEF KeysInv, SameTicket
    <3>5. q.suffix # None => \E m \in DOMAIN tickets : Bare(r, m)
      BY <1>2, <2>1 DEF SuffixInv
    <3>6. RepeatInv'
      <4> SUFFICES ASSUME NEW n \in DOMAIN tickets', tickets'[n].suffix # None
                   PROVE  \E m \in DOMAIN tickets' : SameTicket(m, n)' /\ tickets'[m].suffix = None
        BY DEF RepeatInv
      <4>1. CASE n \in DOMAIN tickets
        BY <1>2, <3>1, <3>2, <4>1 DEF RepeatInv, SameTicket
      <4>2. CASE n = N
        BY <3>1, <3>2, <3>5, <4>2 DEF Bare, SameTicket
      <4> QED
        BY <3>2, <4>1, <4>2
    \* A suffixed ticket has a bare one before it, so the bare key is not inserted after it.
    <3>7. q.suffix = None => \A n \in DOMAIN tickets : ~ (tickets[n].by = q.user /\ tickets[n].text = q.text)
      BY <1>2, <3>3 DEF RepeatInv, SameTicket
    <3>8. RepeatsWaitForTheWindow'
      <4> SUFFICES ASSUME NEW m \in DOMAIN tickets', NEW n \in DOMAIN tickets',
                          SameTicket(m, n)', tickets'[m].suffix = None, m # n
                   PROVE  /\ tickets'[n].suffix # None
                          /\ tickets'[n].at >= tickets'[m].at + Window - MaxSkew
        BY DEF RepeatsWaitForTheWindow
      <4>1. CASE m \in DOMAIN tickets /\ n \in DOMAIN tickets
        BY <1>2, <3>1, <4>1 DEF RepeatsWaitForTheWindow, SameTicket
      <4>2. CASE m = N
        BY <3>1, <3>2, <3>7, <4>2 DEF SameTicket
      <4>3. CASE n = N /\ m \in DOMAIN tickets
        <5>1. /\ tickets[m].by = q.user /\ tickets[m].text = q.text /\ tickets[m].suffix = None
              /\ tickets'[m].at = tickets[m].at /\ tickets'[n].suffix = q.suffix
              /\ tickets'[n].at = q.begun
          BY <3>1, <3>2, <4>3 DEF SameTicket
        <5>2. q.suffix # None
          BY <3>3, <5>1, <4>3
        <5> QED
          BY <1>2, <2>1, <4>3, <5>1, <5>2 DEF SuffixInv, Bare
      <4> QED
        BY <3>2, <4>1, <4>2, <4>3
    <3>9. SuffixInv'
      <4> SUFFICES ASSUME NEW s \in Requests, request'[s].pc = "insert", request'[s].suffix # None
                   PROVE  /\ \E m \in DOMAIN tickets' : Bare(s, m)'
                          /\ \A m \in DOMAIN tickets' : Bare(s, m)' =>
                               request'[s].begun >= tickets'[m].at + Window - MaxSkew
        BY DEF SuffixInv
      <4>1. s # r /\ request'[s] = request[s]
        BY <2>2
      <4>2. PICK k \in DOMAIN tickets : Bare(s, k)
        BY <1>2, <4>1 DEF SuffixInv
      <4>3. \A m \in DOMAIN tickets : Bare(s, m)' <=> Bare(s, m)
        BY <3>1, <4>1 DEF Bare
      <4>4. \A m \in DOMAIN tickets' : m = N => ~ Bare(s, m)'
        BY <3>1, <3>2, <3>3, <4>1, <4>2 DEF Bare
      <4>5. \E m \in DOMAIN tickets' : Bare(s, m)'
        BY <3>2, <4>2, <4>3
      <4>6. \A m \in DOMAIN tickets : Bare(s, m) =>
              request[s].begun >= tickets[m].at + Window - MaxSkew
        BY <1>2, <4>1 DEF SuffixInv
      <4> QED
        BY <3>1, <3>2, <4>1, <4>3, <4>4, <4>5, <4>6
    <3> QED
      BY <2>3, <3>4, <3>6, <3>8, <3>9 DEF TicketsInv
  <2> QED
    BY <1>7, <2>4, <2>5 DEF Insert
<1>8. ASSUME NEW r \in Requests, Serve(r) PROVE TicketsInv'
  <2>1. ASSUME NEW u \in Users, NEW text \in Texts, NEW skew \in 0 .. MaxSkew,
               NEW signed \in BOOLEAN, Limit(r, u, signed, text, skew)
        PROVE  TicketsInv'
    BY <1>5, <2>1 DEF Limit
  <2>2. ASSUME NEW u \in Users, NEW text \in Texts, NEW skew \in 0 .. MaxSkew,
               FailOpen(r, u, text, skew)
        PROVE  TicketsInv'
    BY <1>5, <2>2 DEF FailOpen
  <2> QED
    BY <1>6, <1>7, <1>8, <2>1, <2>2 DEF Serve
<1> QED
  BY <1>4, <1>8 DEF Next, Tick, Expire, vars

-----------------------------------------------------------------------------
(* Rates *)

\* What LevelInv says of one identity, for a bucket, its last write and its grants.
Books(b, w, g, t) ==
    /\ w <= t
    /\ b # None => /\ Level(b) + Rate * (w + MaxSkew) >= 0
                   /\ \A m \in DOMAIN g : Level(b) + (Len(g) - m + 1) * Cost <= Burst - Rate * g[m]
    /\ b = None => \A m \in DOMAIN g : (Len(g) - m + 1) * Cost <= Rate * t - Rate * g[m]

\* What RateBounded says of it.
Bounded(g) ==
    \A m, n \in DOMAIN g :
      m <= n => (n - m + 1) * Cost <= Burst + Rate * (g[n] - g[m] + MaxSkew)

\* The books of a bucket stay in order while time passes.
LEMMA BooksTick ==
    ASSUME NEW b \in Bucket \cup {None}, NEW w \in Nat, NEW t \in Nat, NEW g \in Seq(Nat),
           Books(b, w, g, t)
    PROVE  Books(b, w, g, t + 1)
<1> USE BucketAssumption
<1>1. Rate * t \in Int /\ Rate * (t + 1) \in Int /\ Rate * t <= Rate * (t + 1)
  BY Products
<1>2. ASSUME NEW m \in DOMAIN g
      PROVE  /\ Rate * g[m] \in Int
             /\ (Len(g) - m + 1) * Cost \in Int
  <2>1. g[m] \in Int /\ Len(g) - m + 1 \in Int
    OBVIOUS
  <2> QED
    BY <2>1, Products
<1>3. b = None => \A m \in DOMAIN g : (Len(g) - m + 1) * Cost <= Rate * (t + 1) - Rate * g[m]
  <2> SUFFICES ASSUME b = None, NEW m \in DOMAIN g
               PROVE  (Len(g) - m + 1) * Cost <= Rate * (t + 1) - Rate * g[m]
    OBVIOUS
  <2>1. (Len(g) - m + 1) * Cost <= Rate * t - Rate * g[m]
    BY DEF Books
  <2> QED
    BY <2>1, <1>1, <1>2
<1> QED
  BY <1>3 DEF Books

\* A bucket Redis drops after Idle had filled up, whatever clocks wrote it.
LEMMA BooksExpire ==
    ASSUME NEW b \in Bucket, NEW w \in Nat, NEW t \in Nat, NEW g \in Seq(Nat),
           None \notin Bucket, Books(b, w, g, t), t >= w + Idle
    PROVE  Books(None, w, g, t)
<1> USE BucketAssumption
<1> DEFINE L == Level(b)
           S == Rate * MaxSkew
<1>1. L \in Int /\ b # None
  <2>1. b.tokens \in Int /\ b.ts \in Int
    BY DEF Bucket
  <2>2. Rate * b.ts \in Int
    BY <2>1, Products
  <2> QED
    BY <2>1, <2>2 DEF Level
<1>2. /\ Rate * w \in Int /\ Rate * t \in Int /\ S \in Int /\ Rate * Idle \in Int /\ S >= 0
      /\ Rate * (w + MaxSkew) = Rate * w + S
      /\ Rate * (w + Idle) = Rate * w + Rate * Idle
      /\ Rate * (w + Idle) <= Rate * t
  <2>1. w + Idle \in Int /\ w + Idle <= t
    OBVIOUS
  <2>2. Rate * 0 <= Rate * MaxSkew /\ Rate * 0 = 0
    BY Products
  <2> QED
    BY <2>1, <2>2, Products
<1>3. Rate * Idle - (S + S) >= Burst
  <2>1. 2 * MaxSkew = MaxSkew + MaxSkew
    OBVIOUS
  <2>2. Rate * (Idle - (MaxSkew + MaxSkew)) = Rate * Idle - Rate * (MaxSkew + MaxSkew)
    BY Products
  <2>3. Rate * (MaxSkew + MaxSkew) = S + S
    BY Products
  <2> QED
    BY <2>1, <2>2, <2>3, <1>2, IdleAssumption
<1>4. ASSUME NEW m \in DOMAIN g
      PROVE  (Len(g) - m + 1) * Cost <= Rate * t - Rate * g[m]
  <2> DEFINE P == (Len(g) - m + 1) * Cost
             G == Rate * g[m]
  <2>1. P \in Int /\ G \in Int
    <3>1. g[m] \in Int /\ Len(g) - m + 1 \in Int
      OBVIOUS
    <3> QED
      BY <3>1, Products
  <2>2. L + P <= Burst - G /\ L + (Rate * w + S) >= 0
    BY <1>1, <1>2 DEF Books
  <2> HIDE DEF P, G, L, S
  <2>3. P <= Rate * t - G
    BY <2>1, <2>2, <1>1, <1>2, <1>3
  <2> QED
    BY <2>3 DEF P, G
<1> QED
  BY <1>4 DEF Books

\* A request is counted: the books stay in order and the grants bounded.
LEMMA BooksLimit ==
    ASSUME NEW held \in Bucket \cup {None}, NEW w \in Nat, NEW t \in Nat, NEW g \in Seq(Nat),
           NEW skew \in 0 .. MaxSkew, None \notin Bucket,
           Books(held, w, g, t), Bounded(g), NEW b,
           b = IF held = None THEN Full(t + skew) ELSE held
    PROVE  LET g2 == IF Allows(b, t + skew) THEN Append(g, t) ELSE g
           IN  Books(After(b, t + skew), t, g2, t) /\ Bounded(g2)
<1> USE BucketAssumption
<1> DEFINE now == t + skew
           A == Level(After(b, now))
           X == Rate * now
           T == Rate * t
           S == Rate * MaxSkew
           P(m) == (Len(g) - m + 1) * Cost
           G(m) == Rate * g[m]
<1>1. now \in Int /\ t <= now /\ now <= t + MaxSkew
  OBVIOUS
<1>2. b \in Bucket
  BY <1>1 DEF Full, Bucket
<1>3. Level(b) \in Int
  <2>1. b.tokens \in Int /\ b.ts \in Int
    BY <1>2 DEF Bucket
  <2>2. Rate * b.ts \in Int
    BY <2>1, Products
  <2> QED
    BY <2>1, <2>2 DEF Level
<1>0. Burst \in Int /\ Cost \in Int
  OBVIOUS
<1>4. /\ X \in Int /\ T \in Int /\ S \in Int /\ S >= 0 /\ T <= X /\ X <= T + S
      /\ Rate * (t + MaxSkew) = T + S
      /\ Rate * (w + MaxSkew) \in Int /\ Rate * (w + MaxSkew) <= T + S
  <2>1. Rate * 0 <= Rate * MaxSkew /\ Rate * 0 = 0
    BY Products
  <2>2. w + MaxSkew \in Int /\ t + MaxSkew \in Int /\ w + MaxSkew <= t + MaxSkew
    BY DEF Books
  <2> QED
    BY <1>1, <2>1, <2>2, Products
<1>5. \A m \in DOMAIN g : /\ m \in Int /\ g[m] \in Int /\ P(m) \in Int /\ G(m) \in Int
                        /\ (Len(g) + 1 - m + 1) * Cost = P(m) + Cost
                        /\ Rate * (t - g[m] + MaxSkew) = T + S - G(m)
  <2> SUFFICES ASSUME NEW m \in DOMAIN g
               PROVE  /\ m \in Int /\ g[m] \in Int /\ P(m) \in Int /\ G(m) \in Int
                      /\ (Len(g) + 1 - m + 1) * Cost = P(m) + Cost
                      /\ Rate * (t - g[m] + MaxSkew) = T + S - G(m)
    OBVIOUS
  <2>1. m \in Int /\ g[m] \in Int /\ Len(g) \in Int
    OBVIOUS
  <2>2. P(m) \in Int /\ G(m) \in Int
    BY <2>1, Products
  <2>3. ((Len(g) - m + 1) + 1) * Cost = Cost * (Len(g) - m + 1) + Cost * 1
    BY <2>1, Products
  <2>4. Cost * (Len(g) - m + 1) = P(m) /\ Cost * 1 = Cost
    BY <2>1
  <2>5. Len(g) + 1 - m + 1 = (Len(g) - m + 1) + 1
    BY <2>1
  <2>6. t - g[m] + MaxSkew = (t + MaxSkew) - g[m]
    BY <2>1
  <2>7. Rate * ((t + MaxSkew) - g[m]) = Rate * (t + MaxSkew) - G(m)
    BY <2>1, Products
  <2> QED
    BY <2>1, <2>2, <2>3, <2>4, <2>5, <2>6, <2>7, <1>4
\* The bucket the script starts from: the one in Redis, or a full one.
<1>6. /\ Level(b) + (T + S) >= 0
      /\ \A m \in DOMAIN g : Level(b) + P(m) <= Burst - G(m)
  <2>1. CASE held # None
    <3>1. /\ Level(b) + Rate * (w + MaxSkew) >= 0
          /\ \A m \in DOMAIN g : Level(b) + P(m) <= Burst - G(m)
      BY <2>1 DEF Books
    <3>2. Level(b) + (T + S) >= 0
      <4> HIDE DEF T, S
      <4> QED
        BY <3>1, <1>3, <1>4
    <3> QED
      BY <3>1, <3>2
  <2>2. CASE held = None
    <3>1. Level(b) = Burst - X
      BY <2>2 DEF Full, Level
    <3>2. \A m \in DOMAIN g : P(m) <= T - G(m)
      BY <2>2 DEF Books
    <3>3. Level(b) + (T + S) >= 0
      <4> HIDE DEF T, X, S
      <4> QED
        BY <3>1, <1>0, <1>4
    <3>4. ASSUME NEW m \in DOMAIN g PROVE Level(b) + P(m) <= Burst - G(m)
      <4>1. P(m) \in Int /\ G(m) \in Int /\ P(m) <= T - G(m)
        BY <3>2, <1>5
      <4> HIDE DEF P, G, T, X, S
      <4> QED
        BY <4>1, <3>1, <1>0, <1>4
    <3> QED
      BY <3>3, <3>4
  <2> QED
    BY <2>1, <2>2
<1>7. /\ After(b, now) \in Bucket /\ A \in Int
      /\ Allows(b, now) => A <= Level(b) - Cost /\ A <= Burst - X - Cost /\ A + X >= 0
      /\ ~ Allows(b, now) => A <= Level(b) /\ (A = Level(b) \/ A = Burst - X)
  BY <1>1, <1>2, Script
<1>8. A + Rate * (t + MaxSkew) >= 0
  <2> HIDE DEF A, X, T, S
  <2> QED
    BY <1>3, <1>4, <1>6, <1>7
<1>9. CASE ~ Allows(b, now)
  <2>1. \A m \in DOMAIN g : A + P(m) <= Burst - G(m)
    <3> SUFFICES ASSUME NEW m \in DOMAIN g PROVE A + P(m) <= Burst - G(m)
      OBVIOUS
    <3>1. P(m) \in Int /\ G(m) \in Int /\ Level(b) + P(m) <= Burst - G(m)
      BY <1>5, <1>6
    <3>2. A \in Int /\ A <= Level(b)
      BY <1>7, <1>9
    <3> HIDE DEF A, P, G
    <3> QED
      BY <3>1, <3>2, <1>0, <1>3
  <2>2. Books(After(b, now), t, g, t)
    BY <1>7, <1>8, <2>1 DEF Books
  <2> QED
    BY <2>2, <1>9
<1>10. CASE Allows(b, now)
  <2> DEFINE h == Append(g, t)
             N == Len(g) + 1
  <2>1. /\ Len(h) = N /\ N \in Int /\ h[N] = t /\ N \in DOMAIN h /\ h \in Seq(Nat)
        /\ \A m \in DOMAIN h : m = N \/ m \in DOMAIN g
        /\ \A m \in DOMAIN g : h[m] = g[m] /\ m < N
    OBVIOUS
  <2>2. (N - N + 1) * Cost = Cost
    BY <2>1
  <2>3. \A m \in DOMAIN h : A + (Len(h) - m + 1) * Cost <= Burst - Rate * h[m]
    <3> SUFFICES ASSUME NEW m \in DOMAIN h
                 PROVE  A + (Len(h) - m + 1) * Cost <= Burst - Rate * h[m]
      OBVIOUS
    <3>1. CASE m = N
      <4>1. A + Cost <= Burst - T
        <5> HIDE DEF A, X, T, S
        <5> QED
          BY <1>4, <1>7, <1>10
      <4> QED
        BY <3>1, <4>1, <2>1, <2>2
    <3>2. CASE m \in DOMAIN g
      <4>1. A + (P(m) + Cost) <= Burst - G(m)
        <5>1. P(m) \in Int /\ G(m) \in Int /\ Level(b) + P(m) <= Burst - G(m)
          BY <1>5, <1>6, <3>2
        <5>2. A \in Int /\ A <= Level(b) - Cost
          BY <1>7, <1>10
        <5> HIDE DEF A, P, G
        <5> QED
          BY <5>1, <5>2, <1>0, <1>3, SMTT(30)
      <4>2. (Len(h) - m + 1) * Cost = P(m) + Cost
        BY <1>5, <2>1, <3>2
      <4> QED
        BY <4>1, <4>2, <2>1, <3>2
    <3> QED
      BY <2>1, <3>1, <3>2
  <2>4. Books(After(b, now), t, h, t)
    BY <1>7, <1>8, <2>3, SMTT(30) DEF Books
  <2>5. Bounded(h)
    <3> SUFFICES ASSUME NEW m \in DOMAIN h, NEW n \in DOMAIN h, m <= n
                 PROVE  (n - m + 1) * Cost <= Burst + Rate * (h[n] - h[m] + MaxSkew)
      BY DEF Bounded
    <3>1. CASE m \in DOMAIN g /\ n \in DOMAIN g
      BY <2>1, <3>1 DEF Bounded
    <3>2. CASE m = N /\ n = N
      <4>1. Cost <= Burst + S
        <5> HIDE DEF A, X, T, S
        <5> QED
          BY <1>4, <1>7, <1>10
      <4>2. h[n] - h[m] + MaxSkew = MaxSkew
        BY <2>1, <3>2
      <4> QED
        BY <4>1, <4>2, <2>1, <2>2, <3>2
    <3>3. CASE m \in DOMAIN g /\ n = N
      <4>1. P(m) + Cost <= Burst + (T + S - G(m))
        <5>1. P(m) \in Int /\ G(m) \in Int /\ Level(b) + P(m) <= Burst - G(m)
          BY <1>5, <1>6, <3>3
        <5>2. A \in Int /\ A <= Level(b) - Cost /\ A + X >= 0
          BY <1>7, <1>10
        <5>3. X \in Int /\ T \in Int /\ S \in Int /\ X <= T + S
          BY <1>4
        <5> HIDE DEF A, X, T, S, P, G
        <5>4. P(m) + Cost <= Burst - G(m) - A
          BY <5>1, <5>2, <1>0, <1>3, SMTT(30)
        <5> QED
          BY <5>1, <5>2, <5>3, <5>4, <1>0, SMTT(30)
      <4>2. (n - m + 1) * Cost = P(m) + Cost
        BY <1>5, <2>1, <3>3
      <4>3. Rate * (h[n] - h[m] + MaxSkew) = T + S - G(m)
        BY <1>5, <2>1, <3>3
      <4> QED
        BY <4>1, <4>2, <4>3
    <3>4. ~ (m = N /\ n \in DOMAIN g)
      BY <2>1
    <3> QED
      BY <2>1, <3>1, <3>2, <3>3, <3>4
  <2> QED
    BY <2>4, <2>5, <1>10
<1> QED
  BY <1>9, <1>10

\* The middleware keeps the books of every identity.
LEMMA RateStep == TypeOK /\ RateInv /\ [Next]_vars => RateInv'
<1> SUFFICES ASSUME TypeOK, RateInv, [Next]_vars
             PROVE  RateInv'
  OBVIOUS
<1>1. /\ bucket \in [Identities -> Bucket \cup {None}] /\ written \in [Identities -> Nat]
      /\ granted \in [Identities -> Seq(Nat)] /\ time \in Nat /\ None \notin Bucket
  <2>1. \A i \in Identities : granted[i] \in Seq(Nat)
    <3> SUFFICES ASSUME NEW i \in Identities PROVE granted[i] \in Seq(Nat)
      OBVIOUS
    <3>1. granted[i] \in Seq(0 .. MaxTime)
      BY DEF TypeOK
    <3> QED
      BY <3>1, TicketsAssumption
  <2> QED
    BY <2>1, TicketsAssumption DEF TypeOK
<1>2. \A i \in Identities : Books(bucket[i], written[i], granted[i], time) /\ Bounded(granted[i])
  BY DEF RateInv, LevelInv, Spent, Books, RateBounded, Bounded
<1>3. SUFFICES \A i \in Identities : /\ Books(bucket'[i], written'[i], granted'[i], time')
                                   /\ Bounded(granted'[i])
  BY DEF RateInv, LevelInv, Spent, Books, RateBounded, Bounded, Level
<1>4. CASE Tick
  BY <1>1, <1>2, <1>4, BooksTick DEF Tick
<1>5. ASSUME NEW i \in Identities, Expire(i)
      PROVE  \A k \in Identities : /\ Books(bucket'[k], written'[k], granted'[k], time')
                                 /\ Bounded(granted'[k])
  <2>1. Books(None, written[i], granted[i], time)
    BY <1>1, <1>2, <1>5, BooksExpire DEF Expire
  <2> QED
    BY <1>1, <1>2, <1>5, <2>1 DEF Expire
<1>6. ASSUME NEW r \in Requests, NEW u \in Users, NEW text \in Texts,
             NEW skew \in 0 .. MaxSkew, NEW signed \in BOOLEAN, Limit(r, u, signed, text, skew)
      PROVE  \A k \in Identities : /\ Books(bucket'[k], written'[k], granted'[k], time')
                                 /\ Bounded(granted'[k])
  <2> DEFINE i == identity_of(signed, u)
             b == Held(i, time + skew)
             g == IF Allows(b, time + skew) THEN Append(granted[i], time) ELSE granted[i]
  <2>1. i \in Identities
    BY DEF identity_of, Identities
  <2>2. b = IF bucket[i] = None THEN Full(time + skew) ELSE bucket[i]
    BY DEF Held
  <2>3. /\ bucket' = [bucket EXCEPT ![i] = After(b, time + skew)]
        /\ written' = [written EXCEPT ![i] = time]
        /\ granted' = [granted EXCEPT ![i] = g]
        /\ UNCHANGED time
    BY <1>6 DEF Limit
  <2> HIDE DEF b, i
  <2>4. Books(After(b, time + skew), time, g, time) /\ Bounded(g)
    BY <1>1, <1>2, <2>1, <2>2, BooksLimit
  <2> HIDE DEF g
  <2> QED
    BY <1>1, <1>2, <2>1, <2>3, <2>4
<1>7. CASE UNCHANGED <<time, bucket, written, granted>>
  BY <1>2, <1>7
<1> QED
  BY <1>4, <1>5, <1>6, <1>7 DEF Next, Serve, FailOpen, Lookup, Insert, vars

-----------------------------------------------------------------------------
(* Theorems *)

\* The invariant holds at the start and is kept, for any number of requests, processes
\* and users.
THEOREM Invariance == Spec => []IInv
<1>1. Init => IInv
  <2> SUFFICES ASSUME Init PROVE IInv
    OBVIOUS
  <2> USE BucketAssumption, TicketsAssumption
  <2>1. \A i \in Identities : /\ granted[i] = << >> /\ DOMAIN granted[i] = {}
                            /\ written[i] = 0 /\ bucket[i] = None
    BY DEF Init
  <2>2. \A r \in Requests : request[r].pc = "new"
    BY DEF Init, NoRequest
  <2>3. tickets = << >> /\ DOMAIN tickets = {}
    BY DEF Init
  <2>4. TypeOK
    BY DEF Init, TypeOK, NoRequest
  <2>5. TicketsInv
    BY <2>2, <2>3 DEF TicketsInv, RequestsInv, KeysInv, RepeatInv, SuffixInv,
                      RepeatsWaitForTheWindow
  <2>6. RateInv
    BY <2>1 DEF Init, RateInv, LevelInv, RateBounded
  <2> QED
    BY <2>4, <2>5, <2>6 DEF IInv
<1>2. IInv /\ [Next]_vars => IInv'
  BY TypeStep, TicketsStep, RateStep DEF IInv, TicketsInv
<1> QED
  BY <1>1, <1>2, PTL DEF Spec

\* TICKET_IDEMPOTENCY_WINDOW: however identical requests overlap, none creates another
\* ticket with the words of one that has the bare key while that one is inside the
\* window.  A third ticket may follow the second at any time.
THEOREM RepeatsWait == Spec => []TicketsAreSound
<1>1. IInv => TicketsAreSound
  BY DEF IInv, TicketsInv, TicketsAreSound
<1> QED
  BY <1>1, Invariance, PTL

\* The token bucket lets nobody through more often than burst and rate allow in any
\* interval, for any rate, burst, cost and skew of the clocks, although Redis drops idle
\* buckets after the time the code gives them.
THEOREM RateIsBounded == Spec => []RateBounded
<1>1. IInv => RateBounded
  BY DEF IInv, RateInv
<1> QED
  BY <1>1, Invariance, PTL

============================================================================
