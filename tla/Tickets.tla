------------------------------ MODULE Tickets ------------------------------
(***************************************************************************)
(* Raising a support ticket over HTTP: the rate limit middleware           *)
(* (ratelimit.py) in front of POST /api/tickets (api/tickets.py) and the   *)
(* idempotent create_support_ticket tool (tools/executor.py).  Requests    *)
(* reach API processes whose clocks differ; they look a ticket up and      *)
(* insert it in one READ COMMITTED transaction, one step per statement.    *)
(***************************************************************************)
EXTENDS TokenBucket, Sequences, FiniteSets

CONSTANTS
    Requests,      \* HTTP requests
    Users,         \* callers
    Holders,       \* users with the ticket:create permission
    Texts,         \* title, severity and details of a ticket
    Window,        \* TICKET_IDEMPOTENCY_WINDOW
    MaxTime, None

ASSUME TicketsAssumption ==
    /\ Window \in Nat /\ MaxTime \in Nat
    /\ Holders \subseteq Users
    /\ None \notin Users \cup Requests \cup Bucket

VARIABLES
    time,      \* the clock of the database and of Redis
    bucket,    \* identity -> the Redis hash, or None
    written,   \* identity -> when the hash was last written
    granted,   \* history: identity -> when the script let a request through
    request,   \* what each request is and holds
    tickets    \* the tickets table in order of insertion

vars == <<time, bucket, written, granted, request, tickets>>

\* A validly signed token names the user; anything else shares the address.
Identities == Users \cup {"ip"}
identity_of(signed, u) == IF signed THEN u ELSE "ip"

NoRequest == [pc |-> "new", user |-> None, text |-> None, skew |-> 0, begun |-> 0,
              suffix |-> None]
Ended(pc) == [NoRequest EXCEPT !.pc = pc]

Init ==
    /\ time = 0
    /\ bucket = [i \in Identities |-> None]
    /\ written = [i \in Identities |-> 0]
    /\ granted = [i \in Identities |-> << >>]
    /\ request = [r \in Requests |-> NoRequest]
    /\ tickets = << >>

Tick ==
    /\ time < MaxTime
    /\ time' = time + 1
    /\ UNCHANGED <<bucket, written, granted, request, tickets>>

\* Redis drops a hash nobody used for a while.
Expire(i) ==
    /\ bucket[i] # None
    /\ time >= written[i] + Idle
    /\ bucket' = [bucket EXCEPT ![i] = None]
    /\ UNCHANGED <<time, written, granted, request, tickets>>

-----------------------------------------------------------------------------
(* The middleware *)

Held(i, now) == IF bucket[i] = None THEN Full(now) ELSE bucket[i]

\* The request reaches the process whose clock is ahead by skew.
Limit(r, u, signed, text, skew) ==
    LET i == identity_of(signed, u)
        now == time + skew
        b == Held(i, now)
    IN  /\ request[r].pc = "new"
        /\ bucket' = [bucket EXCEPT ![i] = After(b, now)]
        /\ written' = [written EXCEPT ![i] = time]
        /\ granted' = [granted EXCEPT ![i] = IF Allows(b, now) THEN Append(@, time) ELSE @]
        /\ request' = [request EXCEPT ![r] =
             IF Allows(b, now) /\ signed /\ u \in Holders
             THEN [NoRequest EXCEPT !.pc = "lookup", !.user = u, !.text = text, !.skew = skew]
             ELSE Ended("refused")]  \* 429, 401, or denied and audited
        /\ UNCHANGED <<time, tickets>>

\* Redis is unavailable: the request passes, nothing is counted.
FailOpen(r, u, text, skew) ==
    /\ request[r].pc = "new"
    /\ u \in Holders
    /\ request' = [request EXCEPT ![r] =
         [NoRequest EXCEPT !.pc = "lookup", !.user = u, !.text = text, !.skew = skew]]
    /\ UNCHANGED <<time, bucket, written, granted, tickets>>

-----------------------------------------------------------------------------
(* create_support_ticket *)

\* The idempotency key is a hash of user, title, severity and details; a ticket
\* that repeats an old one gets a suffix of its own.
WithKey(u, text, suffix) ==
    {n \in DOMAIN tickets :
       tickets[n].by = u /\ tickets[n].text = text /\ tickets[n].suffix = suffix}

\* Mutant: a repeated ticket is numbered, not given a key of its own.
LookupAndNumber(r) ==
    LET q == request[r]
        found == WithKey(q.user, q.text, None)
        recent == {n \in found : time + q.skew - tickets[n].at < Window}
    IN  /\ q.pc = "lookup"
        /\ request' = [request EXCEPT ![r] =
             IF recent # {} THEN Ended("done")
             ELSE [q EXCEPT !.pc = "insert", !.begun = time,
                            !.suffix = IF found # {} THEN Cardinality(found) ELSE None]]
        /\ UNCHANGED <<time, bucket, written, granted, tickets>>

\* The lookup knows the bare key only.
Lookup(r) ==
    LET q == request[r]
        found == WithKey(q.user, q.text, None)
        recent == {n \in found : time + q.skew - tickets[n].at < Window}
    IN  /\ q.pc = "lookup"
        /\ request' = [request EXCEPT ![r] =
             IF recent # {} THEN Ended("done")
             ELSE [q EXCEPT !.pc = "insert", !.begun = time,
                            !.suffix = IF found # {} THEN r ELSE None]]
        /\ UNCHANGED <<time, bucket, written, granted, tickets>>

\* Mutant: the key of a ticket is not unique.
InsertAnyway(r) ==
    LET q == request[r] IN
    /\ q.pc = "insert"
    /\ tickets' = Append(tickets, [by |-> q.user, text |-> q.text, suffix |-> q.suffix,
                                   at |-> q.begun])
    /\ request' = [request EXCEPT ![r] = Ended("done")]
    /\ UNCHANGED <<time, bucket, written, granted>>

\* created_at is the start of the transaction.  The key is unique: the second of
\* two that missed each other fails, and its transaction with it.
Insert(r) ==
    LET q == request[r] IN
    /\ q.pc = "insert"
    /\ IF WithKey(q.user, q.text, q.suffix) = {}
       THEN /\ tickets' = Append(tickets, [by |-> q.user, text |-> q.text, suffix |-> q.suffix,
                                           at |-> q.begun])
            /\ request' = [request EXCEPT ![r] = Ended("done")]
       ELSE /\ request' = [request EXCEPT ![r] = Ended("failed")]
            /\ UNCHANGED tickets
    /\ UNCHANGED <<time, bucket, written, granted>>

Serve(r) ==
    \/ \E u \in Users, text \in Texts, skew \in 0 .. MaxSkew :
         (\E signed \in BOOLEAN : Limit(r, u, signed, text, skew)) \/ FailOpen(r, u, text, skew)
    \/ Lookup(r) \/ Insert(r)

Next ==
    \/ Tick
    \/ \E i \in Identities : Expire(i)
    \/ \E r \in Requests : Serve(r)

Spec == Init /\ [][Next]_vars

-----------------------------------------------------------------------------
(* What callers may rely on *)

\* The clock, the buckets, the requests and the tickets keep their types.
TypeOK ==
    /\ time \in 0 .. MaxTime
    /\ bucket \in [Identities -> Bucket \cup {None}]
    /\ written \in [Identities -> 0 .. MaxTime]
    /\ granted \in [Identities -> Seq(0 .. MaxTime)]
    /\ request \in [Requests -> [pc : {"new", "refused", "lookup", "insert", "done", "failed"},
                     user : Users \cup {None}, text : Texts \cup {None}, skew : 0 .. MaxSkew,
                     begun : 0 .. MaxTime, suffix : Requests \cup {None}]]
    /\ tickets \in Seq([by : Users, text : Texts, suffix : Requests \cup {None},
                        at : 0 .. MaxTime])

\* "A burst is bounded by burst and the sustained rate by per_minute": in no
\* interval is a caller let through more often, whichever processes serve it,
\* however their clocks differ, and although Redis forgets idle buckets.
RateBounded ==
    \A i \in Identities : \A m, n \in DOMAIN granted[i] :
      m <= n => (n - m + 1) * Cost
                  <= Burst + Rate * (granted[i][n] - granted[i][m] + MaxSkew)

SameTicket(m, n) == tickets[m].by = tickets[n].by /\ tickets[m].text = tickets[n].text

\* Of the requests that repeat a ticket, also at the same moment, none creates another
\* one while the first of those words, the one with the bare key, is younger than the
\* window.  Nothing is said of later repeats: the lookup knows the bare key only.
RepeatsWaitForTheWindow ==
    \A m, n \in DOMAIN tickets :
      SameTicket(m, n) /\ tickets[m].suffix = None /\ m # n =>
        tickets[n].suffix # None /\ tickets[n].at >= tickets[m].at + Window - MaxSkew

\* However identical requests overlap: no repeat inside the window of the first ticket.
TicketsAreSound ==
    /\ TypeOK
    /\ RepeatsWaitForTheWindow
=============================================================================
