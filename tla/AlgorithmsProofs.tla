-------------------------- MODULE AlgorithmsProofs --------------------------
(***************************************************************************)
(* For inputs of any size: what the pure functions are said to do.         *)
(***************************************************************************)
EXTENDS Algorithms, FiniteSetTheorems, FunctionTheorems, SequenceTheorems, WellFoundedInduction, TLAPS

-----------------------------------------------------------------------------
(* Folds *)

LEMMA Least ==
    ASSUME NEW W, W \subseteq Nat, W # {}
    PROVE  \E x \in W : \A y \in W : x <= y
<1>1. PICK x \in W : \A y \in W : ~ (<<y, x>> \in OpToRel(<, Nat))
  BY NatLessThanWellFounded, WFMin
<1>2. \A y \in W : ~ (y < x)
  BY <1>1 DEF OpToRel
<1> QED
  BY <1>2

\* Induction along a sequence, the claim as the set of the lengths it holds for.
LEMMA AlongPrefixes ==
    ASSUME NEW N \in Nat, NEW P, 0 \in P, \A n \in 1 .. N : n - 1 \in P => n \in P
    PROVE  0 .. N \subseteq P
<1> SUFFICES ASSUME ~ (0 .. N \subseteq P) PROVE FALSE
  OBVIOUS
<1> DEFINE W == (0 .. N) \ P
<1>1. PICK x \in W : \A y \in W : x <= y
  <2>1. W \subseteq Nat /\ W # {}
    OBVIOUS
  <2> HIDE DEF W
  <2> QED
    BY <2>1, Least
<1>2. x \in 1 .. N /\ x - 1 \notin W
  BY <1>1
<1> QED
  BY <1>1, <1>2

LEMMA MaxOf ==
    ASSUME NEW n \in Nat, NEW s, s \subseteq 1 .. n, n \in s
    PROVE  Max(s) = n
<1>1. \A y \in s : y \in 1 .. n
  OBVIOUS
<1>2. \A y \in s : n >= y
  BY <1>1
<1>3. PICK m : m = Max(s)
  OBVIOUS
<1>4. m \in s /\ \A y \in s : m >= y
  BY <1>2, <1>3 DEF Max
<1>5. m \in 1 .. n /\ m >= n
  BY <1>1, <1>4
<1> QED
  BY <1>3, <1>5

LEMMA MaxPrefix ==
    ASSUME NEW N \in Nat, NEW n \in 1 .. N
    PROVE  /\ Max(1 .. n) = n /\ (1 .. n) \ {n} = 1 .. (n - 1)
           /\ 1 .. n \in SUBSET (1 .. N) /\ 1 .. n # {}
<1>1. n \in Nat /\ n \in 1 .. n /\ \A i \in 1 .. n : i \in 1 .. N
  OBVIOUS
<1>2. Max(1 .. n) = n
  BY <1>1, MaxOf
<1>3. 1 .. n \in SUBSET (1 .. N)
  BY <1>1
<1>4. (1 .. n) \ {n} = 1 .. (n - 1)
  BY <1>1
<1>5. 1 .. n # {}
  BY <1>1
<1> QED
  BY <1>2, <1>3, <1>4, <1>5

LEMMA MaxIn ==
    ASSUME NEW n \in Nat, NEW s, s \subseteq 1 .. n, s # {}
    PROVE  Max(s) \in s
<1> DEFINE W == {n - x : x \in s}
<1>0. \A y \in s : y \in 1 .. n
  OBVIOUS
<1>1. PICK w \in W : \A y \in W : w <= y
  <2>1. W # {}
    OBVIOUS
  <2>2. ASSUME NEW x \in s PROVE n - x \in Nat
    BY <1>0
  <2>3. W \subseteq Nat
    BY <2>2
  <2> HIDE DEF W
  <2> QED
    BY <2>1, <2>3, Least
<1>2. PICK x \in s : w = n - x
  BY <1>1
<1>3. ASSUME NEW y \in s PROVE x >= y
  <2>1. n - x <= n - y
    BY <1>1, <1>2
  <2> QED
    BY <1>0, <2>1
<1> QED
  BY <1>3 DEF Max

\* A fold over the subsets of an interval exists.
Folds(it, N, T, b, F) ==
    /\ it \in [SUBSET (1 .. N) -> T]
    /\ \A s \in SUBSET (1 .. N) :
         it[s] = IF s = {} THEN b ELSE F[<<Max(s), it[s \ {Max(s)}]>>]

LEMMA SubsetRecursion ==
    ASSUME NEW N \in Nat, NEW T, NEW b \in T, NEW F \in [(1 .. N) \X T -> T]
    PROVE  \E it : Folds(it, N, T, b, F)
<1> DEFINE Good(it, n) == \A s \in SUBSET (1 .. n) :
             it[s] = IF s = {} THEN b ELSE F[<<Max(s), it[s \ {Max(s)}]>>]
           P == {n \in 0 .. N : \E it \in [SUBSET (1 .. n) -> T] : Good(it, n)}
<1>1. 0 \in P
  <2>1. [s \in SUBSET (1 .. 0) |-> b] \in [SUBSET (1 .. 0) -> T]
    OBVIOUS
  <2>2. SUBSET (1 .. 0) = {{}}
    OBVIOUS
  <2>3. Good([s \in SUBSET (1 .. 0) |-> b], 0)
    BY <2>2
  <2> HIDE DEF Good
  <2> QED
    BY <2>1, <2>3
<1>2. ASSUME NEW n \in 1 .. N, n - 1 \in P PROVE n \in P
  <2>1. PICK it \in [SUBSET (1 .. (n - 1)) -> T] : Good(it, n - 1)
    BY <1>2
  <2> DEFINE new == [s \in SUBSET (1 .. n) |-> IF n \in s THEN F[<<n, it[s \ {n}]>>] ELSE it[s]]
  <2>2. \A s \in SUBSET (1 .. n) : s \ {n} \in SUBSET (1 .. (n - 1)) /\ (n \notin s => s \ {n} = s)
    OBVIOUS
  <2>3. new \in [SUBSET (1 .. n) -> T]
    BY <2>2
  <2>4. ASSUME NEW s \in SUBSET (1 .. n)
        PROVE  new[s] = IF s = {} THEN b ELSE F[<<Max(s), new[s \ {Max(s)}]>>]
    <3>1. CASE n \in s
      <4>1. Max(s) = n
        BY <3>1, n \in Nat, s \subseteq 1 .. n, MaxOf
      <4>2. new[s \ {n}] = it[s \ {n}]
        BY <2>2
      <4> QED
        BY <3>1, <4>1, <4>2
    <3>2. CASE n \notin s
      <4>1. s \in SUBSET (1 .. (n - 1)) /\ new[s] = it[s]
        BY <2>2, <3>2
      <4>2. CASE s = {}
        BY <2>1, <4>1, <4>2
      <4>3. CASE s # {}
        <5>1. Max(s) \in s
          BY <4>1, <4>3, n - 1 \in Nat, s \subseteq 1 .. (n - 1), MaxIn
        <5>2. new[s \ {Max(s)}] = it[s \ {Max(s)}]
          BY <3>2
        <5>3. it[s] = F[<<Max(s), it[s \ {Max(s)}]>>]
          BY <2>1, <4>1, <4>3
        <5> HIDE DEF new
        <5> QED
          BY <4>1, <4>3, <5>2, <5>3
      <4> QED
        BY <4>2, <4>3
    <3> QED
      BY <3>1, <3>2
  <2>5. Good(new, n)
    <3> HIDE DEF new
    <3> QED
      BY <2>4
  <2> HIDE DEF new, Good
  <2> QED
    BY <2>3, <2>5
<1>3. N \in P
  <2> HIDE DEF P
  <2> QED
    BY <1>1, <1>2, AlongPrefixes
<1> QED
  BY <1>3 DEF Folds

\* Selecting, element by element.
Selecting(g, s, wanted) ==
    /\ g[0] = << >> /\ Select(s, wanted) = g[Len(s)]
    /\ \A n \in 1 .. Len(s) : g[n] = IF s[n] \in wanted THEN Append(g[n - 1], s[n]) ELSE g[n - 1]

LEMMA SelectSteps ==
    ASSUME NEW T, NEW s \in Seq(T), NEW wanted
    PROVE  \E g : Selecting(g, s, wanted)
<1> DEFINE N == Len(s)
           F == [p \in (1 .. N) \X Seq(T) |->
                   IF s[p[1]] \in wanted THEN Append(p[2], s[p[1]]) ELSE p[2]]
           Eq(iter) == iter = [e \in SUBSET (1 .. N) |->
              IF e = {} THEN << >>
              ELSE IF s[Max(e)] \in wanted THEN Append(iter[e \ {Max(e)}], s[Max(e)])
                   ELSE iter[e \ {Max(e)}]]
<1>0. N \in Nat /\ DOMAIN s = 1 .. N /\ \A n \in 1 .. N : s[n] \in T
  OBVIOUS
<1>1. F \in [(1 .. N) \X Seq(T) -> Seq(T)] /\ << >> \in Seq(T)
  BY <1>0
<1>2. PICK it : Folds(it, N, Seq(T), << >>, F)
  <2> HIDE DEF F, N
  <2> QED
    BY <1>0, <1>1, SubsetRecursion
<1>3. ASSUME NEW e \in SUBSET (1 .. N), e # {}
      PROVE  it[e] = IF s[Max(e)] \in wanted THEN Append(it[e \ {Max(e)}], s[Max(e)])
                     ELSE it[e \ {Max(e)}]
  <2>1. Max(e) \in 1 .. N /\ it[e \ {Max(e)}] \in Seq(T)
    BY <1>0, <1>2, <1>3, MaxIn DEF Folds
  <2> QED
    BY <1>2, <1>3, <2>1 DEF Folds
<1>4. Eq(it)
  BY <1>2, <1>3 DEF Folds
<1> DEFINE c == CHOOSE iter : Eq(iter)
<1>5. Eq(c)
  <2> HIDE DEF Eq
  <2> QED
    BY <1>4
<1>6. Select(s, wanted) = c[1 .. N]
  BY <1>0 DEF Select, FoldLeft, MapThenFoldSet
<1> HIDE DEF c
<1>7. c[{}] = << >>
  BY <1>5
<1>8. ASSUME NEW n \in 1 .. N
      PROVE  c[1 .. n] = IF s[n] \in wanted THEN Append(c[1 .. (n - 1)], s[n])
                         ELSE c[1 .. (n - 1)]
  <2>1. /\ Max(1 .. n) = n /\ (1 .. n) \ {n} = 1 .. (n - 1)
        /\ 1 .. n \in SUBSET (1 .. N) /\ 1 .. n # {}
    BY <1>0, MaxPrefix
  <2> QED
    BY <1>5, <2>1
<1> DEFINE g == [n \in 0 .. N |-> c[1 .. n]]
<1>9. g[0] = << >> /\ g[N] = c[1 .. N]
  BY <1>0, <1>7
<1>10. ASSUME NEW n \in 1 .. N PROVE g[n - 1] = c[1 .. (n - 1)] /\ g[n] = c[1 .. n]
  BY <1>0
<1> HIDE DEF g
<1> QED
  BY <1>6, <1>8, <1>9, <1>10 DEF Selecting

LEMMA AppendRange ==
    ASSUME NEW T, NEW s \in Seq(T), NEW x \in T
    PROVE  Append(s, x) \in Seq(T) /\ Range(Append(s, x)) = Range(s) \cup {x}
<1>1. Append(s, x) \in Seq(T) /\ DOMAIN Append(s, x) = 1 .. Len(s) + 1 /\ DOMAIN s = 1 .. Len(s)
  OBVIOUS
<1>2. Append(s, x)[Len(s) + 1] = x /\ \A i \in 1 .. Len(s) : Append(s, x)[i] = s[i]
  OBVIOUS
<1>3. \A i \in 1 .. Len(s) + 1 : i = Len(s) + 1 \/ i \in 1 .. Len(s)
  OBVIOUS
<1>4. Len(s) + 1 \in 1 .. Len(s) + 1 /\ \A i \in 1 .. Len(s) : i \in 1 .. Len(s) + 1
  OBVIOUS
<1> QED
  BY <1>1, <1>2, <1>3, <1>4 DEF Range

LEMMA SelectRange ==
    ASSUME NEW T, NEW s \in Seq(T), NEW wanted
    PROVE  /\ Select(s, wanted) \in Seq(T)
           /\ Range(Select(s, wanted)) = Range(s) \cap wanted
<1> DEFINE N == Len(s)
           Before(n) == {s[i] : i \in 1 .. n}
<1>0. N \in Nat /\ DOMAIN s = 1 .. N /\ \A n \in 1 .. N : s[n] \in T
  OBVIOUS
<1>1. PICK g : /\ g[0] = << >> /\ Select(s, wanted) = g[N]
               /\ \A n \in 1 .. N :
                    g[n] = IF s[n] \in wanted THEN Append(g[n - 1], s[n]) ELSE g[n - 1]
  BY SelectSteps DEF Selecting
<1> DEFINE P == {n \in 0 .. N : g[n] \in Seq(T) /\ Range(g[n]) = Before(n) \cap wanted}
<1>2. 0 \in P
  <2>1. Range(<< >>) = {} /\ Before(0) = {}
    BY DEF Range
  <2> HIDE DEF Before
  <2>2. g[0] \in Seq(T) /\ Range(g[0]) = Before(0) \cap wanted
    BY <1>1, <2>1
  <2> QED
    BY <1>0, <2>2
<1>3. ASSUME NEW n \in 1 .. N, n - 1 \in P PROVE n \in P
  <2>1. PICK old : old = g[n - 1]
    OBVIOUS
  <2>2. old \in Seq(T) /\ Range(old) = Before(n - 1) \cap wanted
    BY <1>3, <2>1
  <2>3. 1 .. n = 1 .. (n - 1) \cup {n}
    BY <1>0
  <2>4. Before(n) = Before(n - 1) \cup {s[n]}
    BY <2>3
  <2>5. Range(Append(old, s[n])) = Range(old) \cup {s[n]} /\ Append(old, s[n]) \in Seq(T)
    BY <1>0, <2>2, AppendRange
  <2>6. g[n] = IF s[n] \in wanted THEN Append(old, s[n]) ELSE old
    BY <1>1, <2>1
  <2> HIDE DEF Before
  <2>7. g[n] \in Seq(T) /\ Range(g[n]) = Before(n) \cap wanted
    BY <2>2, <2>4, <2>5, <2>6
  <2> QED
    BY <2>7
<1>4. N \in P
  <2> HIDE DEF P, N
  <2> QED
    BY <1>0, <1>2, <1>3, AlongPrefixes
<1>5. Before(N) = Range(s)
  BY <1>0 DEF Range
<1> QED
  BY <1>1, <1>4, <1>5

LEMMA ConcatRange ==
    ASSUME NEW T, NEW s \in Seq(T), NEW t \in Seq(T)
    PROVE  s \o t \in Seq(T) /\ Range(s \o t) = Range(s) \cup Range(t)
<1>1. /\ s \o t \in Seq(T) /\ DOMAIN (s \o t) = 1 .. Len(s) + Len(t)
      /\ DOMAIN s = 1 .. Len(s) /\ DOMAIN t = 1 .. Len(t)
  OBVIOUS
<1>2. \A i \in 1 .. Len(s) + Len(t) :
        (s \o t)[i] = IF i <= Len(s) THEN s[i] ELSE t[i - Len(s)]
  OBVIOUS
<1>3. /\ \A i \in 1 .. Len(s) : i \in 1 .. Len(s) + Len(t) /\ i <= Len(s)
      /\ \A i \in 1 .. Len(t) : /\ Len(s) + i \in 1 .. Len(s) + Len(t) /\ ~ (Len(s) + i <= Len(s))
                                /\ Len(s) + i - Len(s) = i
      /\ \A i \in 1 .. Len(s) + Len(t) : IF i <= Len(s) THEN i \in 1 .. Len(s)
                                         ELSE i - Len(s) \in 1 .. Len(t)
  OBVIOUS
<1>4. ASSUME NEW x \in Range(s \o t) PROVE x \in Range(s) \cup Range(t)
  <2>1. PICK i \in 1 .. Len(s) + Len(t) : x = (s \o t)[i]
    BY <1>1, <1>4 DEF Range
  <2> QED
    BY <1>1, <1>2, <1>3, <2>1 DEF Range
<1>5. ASSUME NEW x \in Range(s) PROVE x \in Range(s \o t)
  BY <1>1, <1>2, <1>3, <1>5 DEF Range
<1>6. ASSUME NEW x \in Range(t) PROVE x \in Range(s \o t)
  <2>1. PICK i \in 1 .. Len(t) : x = t[i]
    BY <1>1, <1>6 DEF Range
  <2>2. (s \o t)[Len(s) + i] = x
    BY <1>2, <1>3, <2>1
  <2> QED
    BY <1>1, <1>3, <2>2 DEF Range
<1> QED
  BY <1>1, <1>4, <1>5, <1>6

LEMMA RangeIn ==
    ASSUME NEW T, NEW s \in Seq(T), NEW x \in Range(s) PROVE x \in T
BY DEF Range

LEMMA FirstOfConcat ==
    ASSUME NEW T, NEW x \in T, NEW s \in Seq(T)
    PROVE  <<x>> \o s # << >> /\ (<<x>> \o s)[1] = x
<1>1. PICK one : one = <<x>>
  OBVIOUS
<1>2. one \in Seq(T) /\ Len(one) = 1 /\ one[1] = x
  BY <1>1
<1>3. Len(one \o s) >= 1 /\ (one \o s)[1] = x
  <2>0. one \in Seq(T) /\ s \in Seq(T) /\ Len(s) \in Nat
    BY <1>2
  <2>1. Len(one \o s) = Len(one) + Len(s) /\ Len(s) \in Nat
    BY <2>0, ConcatProperties
  <2>2. 1 \in 1 .. Len(one) + Len(s) /\ 1 <= Len(one)
    BY <1>2, <2>1
  <2>3. (one \o s)[1] = one[1]
    BY <1>2, <2>2, ConcatProperties
  <2> QED
    BY <1>2, <2>1, <2>3
<1>4. one \o s # << >>
  BY <1>3
<1> QED
  BY <1>1, <1>3, <1>4

-----------------------------------------------------------------------------
(* Messages and arguments *)

\* The subject of a profile is the one employee the arguments name.
LEMMA SubjectNamed ==
    ASSUME NEW a \in Arguments, subject(a) # Rejected
    PROVE  /\ subject(a) \in Employees
           /\ Given(a.id) => a.id = subject(a)
           /\ Given(a.name) => \/ Upper(a.name) = subject(a)
                              \/ Matches(a.name) = {subject(a)}
           /\ Given(a.id) \/ Given(a.name)
<1> DEFINE v == Validated(a)
<1>0. a = [id |-> a.id, name |-> a.name] /\ Matches(a.name) \subseteq Employees
  BY ArgumentsAssumption
<1>1. Valid(v) /\ subject(a) = resolve_employee(v)
  BY DEF subject
<1>2. CASE IsEmployeeId(Upper(a.name)) /\ a.id \in {NoField, ""}
  <2>1. v.id = IF Upper(a.name) \in {"", "null"} THEN NoField ELSE Upper(a.name)
    BY <1>2 DEF Validated, _an_id_is_an_id, _absent_means_none
  <2>2. v.name = NoField
    BY <1>2 DEF Validated, _an_id_is_an_id, _absent_means_none, NoField
  <2>3. v.id = Upper(a.name) /\ v.id # NoField
    BY <1>1, <2>1, <2>2 DEF Valid, _exactly_one_subject
  <2>4. subject(a) = Upper(a.name) /\ subject(a) \in Employees
    BY <1>1, <2>3 DEF resolve_employee
  <2> QED
    BY <1>2, <2>4, AbsentIsNoId DEF Given
<1>3. CASE ~ (IsEmployeeId(Upper(a.name)) /\ a.id \in {NoField, ""})
  <2>1. /\ v.id = IF a.id \in {"", "null"} THEN NoField ELSE a.id
        /\ v.name = IF a.name \in {"", "null"} THEN NoField ELSE a.name
    BY <1>0, <1>3 DEF Validated, _an_id_is_an_id, _absent_means_none
  <2>2. CASE v.id # NoField
    <3>1. subject(a) = v.id /\ v.id \in Employees
      BY <1>1, <2>2 DEF resolve_employee
    <3>2. v.name = NoField
      BY <1>1, <2>2 DEF Valid, _exactly_one_subject
    <3> QED
      BY <2>1, <2>2, <3>1, <3>2 DEF Given, NoField
  <2>3. CASE v.id = NoField
    <3>1. v.name # NoField
      BY <1>1, <2>3 DEF Valid, _exactly_one_subject
    <3>2. v.name = a.name /\ Given(a.name) /\ ~ Given(a.id)
      BY <2>1, <2>3, <3>1 DEF Given, NoField
    <3>3. Cardinality(Matches(a.name)) = 1 /\ subject(a) = CHOOSE e \in Matches(a.name) : TRUE
      BY <1>1, <2>3, <3>2 DEF resolve_employee
    <3>4. IsFiniteSet(Matches(a.name))
      BY <1>0, EmployeesAssumption, FS_Subset
    <3>5. PICK e : Matches(a.name) = {e}
      BY <3>3, <3>4, FS_Singleton
    <3> QED
      BY <1>0, <3>2, <3>3, <3>5
  <2> QED
    BY <2>2, <2>3
<1> QED
  BY <1>2, <1>3

\* What the four rules leave of a skill the router chose.
LEMMA OverruledTool ==
    ASSUME NEW m \in Message, NEW r \in Reply, Overrule(m, r).tool # "none"
    PROVE  /\ r.parses /\ r.route = "tool" /\ r.tool \in TOOLS
           /\ Overrule(m, r).tool = r.tool
           /\ asks_for_record(r.tool, m)
           /\ r.tool \in Reads => ~ m.action
<1> DEFINE d1 == _parse_decision(r)
           d2 == Unnamed(d1, m)
           d3 == AboutRules(d2, m)
           d4 == Unsupported(d3, m)
<1>1. Overrule(m, r) = Misread(d4, r)
  BY DEF Overrule
<1>2. d4.tool # "none" /\ Misread(d4, r) = d4
  BY <1>1 DEF Misread, Knowledge
<1>3. d3.tool # "none" /\ d4 = d3
  BY <1>2 DEF Unsupported, Refuse
<1>4. d2.tool # "none" /\ d3 = d2
  BY <1>3 DEF AboutRules, Knowledge
<1>5. d1.tool # "none" /\ d2 = d1
  BY <1>4 DEF Unnamed, Knowledge
<1>6. r.parses /\ r.route = "tool" /\ r.tool \in TOOLS /\ d1 = Use(r.tool)
  BY <1>5 DEF _parse_decision, Knowledge, Refuse, Message, Reply
<1>7. d1.route = "tool" /\ d1.tool = r.tool
  BY <1>6 DEF Use
<1>8. asks_for_record(r.tool, m)
  BY <1>5, <1>7 DEF Unnamed, Knowledge
<1>9. r.tool \in Reads => ~ m.action
  BY <1>2, <1>3, <1>4, <1>5, <1>7 DEF Unsupported, Refuse, asks_for_unsupported_action
<1> QED
  BY <1>1, <1>2, <1>3, <1>4, <1>5, <1>6, <1>7, <1>8, <1>9

\* An instruction for which the router named a read is refused, whatever its arguments.
LEMMA InstructionRefused ==
    ASSUME NEW m \in Message, NEW r \in Reply,
           m.action, r.parses, r.route = "tool", r.tool \in Reads
    PROVE  Overrule(m, r).route = "refuse"
<1>1. r.tool \in TOOLS /\ NamesRecord(r.tool) = {}
  BY DEF Reads, TOOLS, NamesRecord
<1>2. _parse_decision(r) = Use(r.tool)
  BY <1>1 DEF _parse_decision, Reply
<1>3. Unnamed(Use(r.tool), m) = Use(r.tool)
  BY <1>1 DEF Unnamed, Use, asks_for_record
<1>4. AboutRules(Use(r.tool), m) = Use(r.tool)
  BY DEF AboutRules, Use
<1>5. Unsupported(Use(r.tool), m) = Refuse
  BY DEF Unsupported, Use, asks_for_unsupported_action
<1>6. Misread(Refuse, r) = Refuse
  BY DEF Misread, Refuse
<1> QED
  BY <1>2, <1>3, <1>4, <1>5, <1>6 DEF Overrule, Refuse

\* A decision is one of three: a greeting's, a ticket id's, or the router's, overruled.
LEMMA RouteGuarded ==
    ASSUME route PROVE NothingCreatedUnasked' /\ InstructionsAreNotReads'
<1>1. PICK m \in Message, reached \in BOOLEAN, r \in Reply :
         /\ m.greeting => ~ m.action /\ m.ticket_ids = 0
         /\ input' = [kind |-> "message", message |-> m, reached |-> reached, reply |-> r,
                      decision |-> classify(m, reached, r)]
  BY DEF route
<1> DEFINE d == classify(m, reached, r)
<1>2. m.greeting \in BOOLEAN /\ m.ticket_ids \in 0 .. 2 /\ m.action \in BOOLEAN
  BY DEF Message
<1>3. /\ input'.message = m /\ input'.reached = reached /\ input'.reply = r
      /\ input'.decision = d
  BY <1>1
<1>4. CASE m.greeting
  <2>1. d = [route |-> "small_talk", tool |-> "none"]
    BY <1>4 DEF classify
  <2>2. d.tool \notin Writes /\ ~ m.action
    BY <1>1, <1>4, <2>1 DEF Writes, TOOLS
  <2> QED
    BY <1>3, <2>2 DEF NothingCreatedUnasked, InstructionsAreNotReads
<1>5. CASE ~ m.greeting /\ m.ticket_ids > 0
  <2>1. d = Use("get_support_ticket")
    BY <1>5 DEF classify, triggered_skill
  <2>2. d.tool \notin Writes
    BY <2>1 DEF Writes, TOOLS, Reads, Use
  <2> QED
    BY <1>3, <1>5, <2>2 DEF NothingCreatedUnasked, InstructionsAreNotReads
<1>6. CASE ~ m.greeting /\ ~ (m.ticket_ids > 0)
  <2>1. d = IF reached THEN Overrule(m, r) ELSE Knowledge
    BY <1>6 DEF classify, triggered_skill
  <2>2. d.tool # "none" =>
           /\ reached /\ r.parses /\ r.route = "tool" /\ r.tool \in TOOLS /\ d.tool = r.tool
           /\ asks_for_record(r.tool, m) /\ (r.tool \in Reads => ~ m.action)
    BY <2>1, OverruledTool DEF Knowledge
  <2>3. reached /\ m.action /\ r.parses /\ r.route = "tool" /\ r.tool \in Reads =>
           d.route = "refuse"
    BY <2>1, InstructionRefused
  <2>4. "none" \notin TOOLS /\ Reads \subseteq TOOLS
    BY DEF TOOLS, Reads
  <2>5. d.tool \in Writes =>
           m.words \cap (IF d.tool = "create_support_ticket" THEN {"ticket"}
                         ELSE {"vpn", "openvpn"}) # {}
    BY <2>2, <2>4 DEF Writes, asks_for_record, NamesRecord, TOOLS, Reads
  <2>6. d.tool \in Reads => ~ m.action
    BY <2>2, <2>4
  <2> HIDE DEF d
  <2>7. d.tool \in Writes => reached /\ r.parses /\ r.tool = d.tool
    BY <2>2, <2>4 DEF Writes
  <2>8. NothingCreatedUnasked'
    BY <1>3, <2>5, <2>7 DEF NothingCreatedUnasked
  <2> QED
    BY <1>3, <2>3, <2>6, <2>8 DEF InstructionsAreNotReads
<1> QED
  BY <1>2, <1>4, <1>5, <1>6

\* SkillsAreGuarded, for any users and any arguments: the decision of agent/graph.py
\* classify and the employee of tools/executor.py resolve_employee.
THEOREM SkillsGuarded == Spec => []SkillsAreGuarded
<1>1. Init => SkillsAreGuarded
  BY DEF Init, SkillsAreGuarded, NothingCreatedUnasked, InstructionsAreNotReads,
         SubjectIsTheOneNamed, Is
<1>2. SkillsAreGuarded /\ [Next]_input => SkillsAreGuarded'
  <2> SUFFICES ASSUME SkillsAreGuarded, [Next]_input PROVE SkillsAreGuarded'
    OBVIOUS
  <2>1. CASE UNCHANGED input
    BY <2>1 DEF SkillsAreGuarded, NothingCreatedUnasked, InstructionsAreNotReads,
                SubjectIsTheOneNamed, Is
  <2>2. CASE route
    <3>1. input'.kind = "message"
      BY <2>2 DEF route
    <3> QED
      BY <2>2, <3>1, RouteGuarded DEF SkillsAreGuarded, SubjectIsTheOneNamed, Is
  <2>3. CASE name_employee
    <3>1. PICK a \in Arguments : input' = [kind |-> "arguments", args |-> a, subject |-> subject(a)]
      BY <2>3 DEF name_employee
    <3>2. input'.kind = "arguments" /\ input'.args = a /\ input'.subject = subject(a)
      BY <3>1
    <3>3. SubjectIsTheOneNamed'
      BY <3>2, SubjectNamed DEF SubjectIsTheOneNamed
    <3> QED
      BY <3>2, <3>3 DEF SkillsAreGuarded, NothingCreatedUnasked, InstructionsAreNotReads, Is
  <2>4. CASE /\ Next
             /\ ~ route /\ ~ name_employee
    <3>1. input'.kind \notin {"message", "arguments"}
      BY <2>4 DEF Next, parse_and_chunk, find_tables, ground, build_gateway, read_stream,
                  read_vectors, write_request
    <3> QED
      BY <3>1 DEF SkillsAreGuarded, NothingCreatedUnasked, InstructionsAreNotReads,
                  SubjectIsTheOneNamed, Is
  <2> QED
    BY <2>1, <2>2, <2>3, <2>4
<1> QED
  BY <1>1, <1>2, PTL DEF Spec

-----------------------------------------------------------------------------
(* Catalogs *)

\* What _validate_references makes sure of, route by route.
LEMMA RouteFacts ==
    ASSUME NEW c, WellTyped(c), RoutesAreSound(c), NEW n \in DOMAIN c.routes
    PROVE  /\ n \notin Ids(c)
           /\ c.routes[n] \in Seq(STRING) /\ c.routes[n] # << >>
           /\ Range(c.routes[n]) \subseteq Ids(c)
           /\ \A id \in Range(c.routes[n]) : KindOf(c, id) = KindOf(c, c.routes[n][1])
           /\ KindOf(c, c.routes[n][1]) = "embedding" => Len(c.routes[n]) = 1
<1> DEFINE t == c.routes[n]
           h == [i \in 1 .. Len(t) |-> KindOf(c, t[i])]
           kinds == {KindOf(c, x) : x \in Range(t)}
<1>1. t \in Seq(STRING)
  BY DEF WellTyped
<1>2. /\ n \notin Ids(c) /\ t # << >> /\ Range(t) \subseteq Ids(c)
      /\ Cardinality(kinds) = 1
      /\ kinds = {"embedding"} => Len(t) = 1
  BY DEF RoutesAreSound
<1>3. /\ Len(t) \in Nat /\ DOMAIN t = 1 .. Len(t) /\ 1 \in DOMAIN t /\ t[1] \in Range(t)
  BY <1>1, <1>2 DEF Range
<1>4. h \in Surjection(1 .. Len(t), kinds)
  BY <1>3 DEF Surjection, Range
<1>5. IsFiniteSet(1 .. Len(t))
  BY <1>3, FS_Interval
<1>6. IsFiniteSet(kinds)
  <2> HIDE DEF h, kinds, t
  <2> QED
    BY <1>4, <1>5, FS_Surjection
<1>7. PICK k : kinds = {k}
  <2> HIDE DEF kinds
  <2> QED
    BY <1>2, <1>6, FS_Singleton
<1>8. \A x \in Range(t) : KindOf(c, x) = KindOf(c, t[1])
  BY <1>3, <1>7
<1>9. KindOf(c, t[1]) = "embedding" => kinds = {"embedding"}
  BY <1>3, <1>8
<1> QED
  BY <1>1, <1>2, <1>8, <1>9

\* What a name resolves to: models of the catalog, all of the kind asked for, and one
\* only for an embedding.
LEMMA ResolveSound ==
    ASSUME NEW c, WellTyped(c), _validate_references(c),
           NEW name, NEW kind \in {"chat", "embedding"}, resolve(c, name, kind) # Unknown
    PROVE  /\ resolve(c, name, kind).targets \in Seq(STRING)
           /\ \A id \in Range(resolve(c, name, kind).targets) :
                id \in Ids(c) /\ KindOf(c, id) = kind
           /\ kind = "embedding" => Len(resolve(c, name, kind).targets) = 1
<1> DEFINE r == resolve(c, name, kind)
           picks == c.selectable
           route0 == IF name = "" THEN c.defaults[kind] ELSE name
           others == Select(picks, Range(picks) \ {route0})
           targets == IF kind = "chat" /\ route0 \in Range(picks) THEN <<route0>> \o others
                      ELSE IF route0 \in DOMAIN c.routes THEN c.routes[route0]
                      ELSE IF route0 \in Ids(c) THEN <<route0>> ELSE << >>
           Sound(t) == /\ t \in Seq(STRING)
                       /\ \A id \in Range(t) : id \in Ids(c) /\ KindOf(c, id) = kind
                       /\ kind = "embedding" => Len(t) = 1
<1>1. RoutesAreSound(c)
  BY DEF _validate_references
<1>2. \A id \in Range(picks) : id \in Ids(c) /\ KindOf(c, id) = "chat"
  BY DEF _validate_references
<1>3. picks \in Seq(STRING) /\ Ids(c) \subseteq STRING
  <2>1. PICK ms : ms = c.models
    OBVIOUS
  <2>2. ms \in Seq(ModelSpec)
    BY <2>1 DEF WellTyped
  <2>3. ASSUME NEW i \in DOMAIN ms PROVE ms[i].id \in STRING
    <3>1. ms[i] \in ModelSpec
      BY <2>2
    <3> QED
      BY <3>1 DEF ModelSpec
  <2> QED
    BY <2>1, <2>3 DEF WellTyped, Ids
<1>4. r = IF targets = << >> \/ KindOf(c, targets[1]) # kind THEN Unknown
          ELSE [targets |-> targets]
  BY DEF resolve
<1>5. targets # << >> /\ KindOf(c, targets[1]) = kind /\ r.targets = targets
  <2> HIDE DEF targets
  <2> QED
    BY <1>4
<1>6. ASSUME NEW x \in Ids(c), KindOf(c, x) = kind PROVE Sound(<<x>>)
  <2>1. <<x>> \in Seq(STRING) /\ Range(<<x>>) = {x} /\ Len(<<x>>) = 1
    BY <1>3 DEF Range
  <2> QED
    BY <1>6, <2>1
<1>7. CASE kind = "chat" /\ route0 \in Range(picks)
  <2>1. route0 \in Ids(c) /\ KindOf(c, route0) = "chat" /\ route0 \notin DOMAIN c.routes
    BY <1>1, <1>2, <1>7, RouteFacts
  <2>2. targets = <<route0>> \o others
    <3> HIDE DEF route0, others
    <3> QED
      BY <1>7, <2>1 DEF targets
  <2>3. others \in Seq(STRING) /\ Range(others) \subseteq Range(picks)
    <3> DEFINE rest == Range(picks) \ {route0}
    <3> HIDE DEF rest
    <3>1. Select(picks, rest) \in Seq(STRING) /\ Range(Select(picks, rest)) \subseteq Range(picks)
      BY <1>3, SelectRange
    <3> QED
      BY <3>1 DEF rest
  <2>4. <<route0>> \in Seq(STRING) /\ Range(<<route0>>) = {route0}
    <3> HIDE DEF route0
    <3> QED
      BY <1>3, <2>1 DEF Range
  <2>5. targets \in Seq(STRING) /\ Range(targets) = {route0} \cup Range(others)
    <3> HIDE DEF others, route0
    <3>1. PICK one : one = <<route0>>
      OBVIOUS
    <3>2. one \o others \in Seq(STRING) /\ Range(one \o others) = Range(one) \cup Range(others)
      BY <2>3, <2>4, <3>1, ConcatRange
    <3> QED
      BY <2>2, <2>4, <3>1, <3>2
  <2> HIDE DEF targets, others, route0
  <2>6. Sound(targets)
    BY <1>2, <1>7, <2>1, <2>3, <2>5
  <2> QED
    BY <1>5, <2>6
<1>8. CASE ~ (kind = "chat" /\ route0 \in Range(picks)) /\ route0 \in DOMAIN c.routes
  <2>1. route0 \notin Ids(c)
    BY <1>1, <1>8, RouteFacts
  <2>2. targets = c.routes[route0]
    BY <1>8, <2>1
  <2> HIDE DEF targets, route0
  <2>3. Sound(targets)
    BY <1>1, <1>5, <1>8, <2>2, RouteFacts
  <2> QED
    BY <1>5, <2>3
<1>9. CASE ~ (kind = "chat" /\ route0 \in Range(picks)) /\ route0 \notin DOMAIN c.routes
  <2>1. CASE route0 \in Ids(c)
    <3>1. targets = <<route0>>
      BY <1>9, <2>1
    <3> HIDE DEF targets, route0, Sound
    <3>2. Sound(targets)
      BY <1>5, <1>6, <2>1, <3>1
    <3> QED
      BY <1>5, <3>2 DEF Sound
  <2>2. CASE route0 \notin Ids(c)
    <3>1. targets = << >>
      BY <1>9, <2>2
    <3> QED
      BY <1>5, <3>1
  <2> QED
    BY <2>1, <2>2
<1> QED
  BY <1>7, <1>8, <1>9

\* What is left without a provider is a catalog with none of its models.
LEMMA WithoutProvider ==
    ASSUME NEW c, WellTyped(c), NEW p
    PROVE  /\ WellTyped(without_provider(c, p))
           /\ \A m \in Range(without_provider(c, p).models) : m.provider # p
<1> DEFINE others == {m \in Range(c.models) : m.provider # p}
           models == Select(c.models, others)
           kept == {models[i].id : i \in DOMAIN models}
           named == {n \in DOMAIN c.routes : Range(c.routes[n]) \cap kept # {}}
           routes == [name \in named |-> Select(c.routes[name], kept)]
           k == without_provider(c, p)
<1>1. /\ c = [providers |-> c.providers, models |-> c.models, routes |-> c.routes,
             selectable |-> c.selectable, defaults |-> c.defaults]
      /\ c.models \in Seq(ModelSpec) /\ c.selectable \in Seq(STRING)
      /\ \A n \in DOMAIN c.routes : c.routes[n] \in Seq(STRING)
  BY DEF WellTyped
<1>2. models \in Seq(ModelSpec) /\ Range(models) = Range(c.models) \cap others
  <2> HIDE DEF others
  <2> QED
    BY <1>1, SelectRange
<1>3. \A m \in Range(models) : m.provider # p
  <2> HIDE DEF models
  <2> QED
    BY <1>2
<1> HIDE DEF models, kept
<1>4. Select(c.selectable, kept) \in Seq(STRING)
  BY <1>1, SelectRange
<1>5. \A n \in named : Select(c.routes[n], kept) \in Seq(STRING)
  BY <1>1, SelectRange
<1>6. k = [c EXCEPT !.providers = @ \ {p}, !.models = models, !.routes = routes,
                    !.selectable = Select(@, kept)]
  BY DEF without_provider, models, kept
<1> HIDE DEF k, routes
<1>7. k = [providers |-> c.providers \ {p}, models |-> models, routes |-> routes,
           selectable |-> Select(c.selectable, kept), defaults |-> c.defaults]
  BY <1>1, <1>6
<1>8. \A n \in DOMAIN routes : routes[n] \in Seq(STRING)
  BY <1>5 DEF routes
<1>9. /\ k.models = models /\ k.selectable = Select(c.selectable, kept) /\ k.routes = routes
      /\ k = [providers |-> k.providers, models |-> k.models, routes |-> k.routes,
              selectable |-> k.selectable, defaults |-> k.defaults]
  BY <1>7
<1>10. WellTyped(k)
  BY <1>2, <1>4, <1>8, <1>9 DEF WellTyped
<1> QED
  BY <1>3, <1>9, <1>10 DEF k

LEMMA ServedTyped ==
    ASSUME NEW c, WellTyped(c), NEW d PROVE WellTyped(Served(c, d))
BY WithoutProvider DEF Served

\* Where the mock is not switched on, no model of the served catalog is the mock's.
LEMMA ServedWithoutMock ==
    ASSUME NEW c, WellTyped(c), _validate_references(c), NEW d, ~ mock_provider_enabled(d)
    PROVE  \A m \in Range(Served(c, d).models) : m.provider # "mock"
<1>1. CASE "mock" \in c.providers
  BY <1>1, WithoutProvider DEF Served
<1>2. CASE "mock" \notin c.providers
  <2>1. Served(c, d) = c
    BY <1>2 DEF Served
  <2>2. \A m \in Range(c.models) : m.provider \in c.providers
    BY DEF _validate_references
  <2> QED
    BY <1>2, <2>1, <2>2
<1> QED
  BY <1>1, <1>2

LEMMA ModelIn ==
    ASSUME NEW c, NEW id \in Ids(c) PROVE model(c, id) \in Range(c.models)
<1>1. \E i \in DOMAIN c.models : c.models[i].id = id
  BY DEF Ids
<1> DEFINE i == CHOOSE i \in DOMAIN c.models : c.models[i].id = id
<1>2. i \in DOMAIN c.models
  BY <1>1
<1>3. model(c, id) = c.models[i]
  BY DEF model
<1> HIDE DEF i
<1> QED
  BY <1>2, <1>3 DEF Range

LEMMA PicksResolve ==
    ASSUME NEW c, WellTyped(c), _validate_references(c), NEW name \in Range(c.selectable),
           name # ""
    PROVE  resolve(c, name, "chat") # Unknown
<1> DEFINE others == Select(c.selectable, Range(c.selectable) \ {name})
<1>1. KindOf(c, name) = "chat"
  BY DEF _validate_references
<1>2. others \in Seq(STRING) /\ name \in STRING
  <2> DEFINE rest == Range(c.selectable) \ {name}
  <2>1. c.selectable \in Seq(STRING)
    BY DEF WellTyped
  <2>2. name \in STRING
    BY <2>1, RangeIn, Zenon
  <2> HIDE DEF rest
  <2>3. Select(c.selectable, rest) \in Seq(STRING)
    BY <2>1, SelectRange
  <2> QED
    BY <2>2, <2>3 DEF rest
<1> DEFINE targets == <<name>> \o others
<1>3. targets # << >> /\ targets[1] = name
  <2> HIDE DEF others
  <2> QED
    BY <1>2, FirstOfConcat, Zenon
<1>4. resolve(c, name, "chat") = IF targets = << >> \/ KindOf(c, targets[1]) # "chat" THEN Unknown
                                 ELSE [targets |-> targets]
  BY DEF resolve
<1> HIDE DEF targets
<1>5. resolve(c, name, "chat") = [targets |-> targets]
  BY <1>1, <1>3, <1>4
<1>6. "targets" \in DOMAIN resolve(c, name, "chat") /\ "targets" \notin DOMAIN Unknown
  BY <1>5 DEF Unknown
<1> QED
  BY <1>6

LEMMA GatewayServes ==
    ASSUME build_gateway PROVE ChoicesResolve' /\ NoMockInProduction'
<1>1. PICK c \in Catalogs, d \in Deployments :
        /\ Starts(c, d)
        /\ input' = [kind |-> "catalog", deployed |-> d, catalog |-> Served(c, d)]
  BY DEF build_gateway
<1>2. PICK k : k = Served(c, d)
  OBVIOUS
<1>3. /\ WellTyped(c) /\ WellTyped(k) /\ _validate_references(c) /\ _validate_references(k)
      /\ validate_for_env(d)
  BY <1>1, <1>2, CatalogsAssumption, ServedTyped DEF Starts
<1>4. input'.deployed = d /\ input'.catalog = k
  BY <1>1, <1>2
<1>5. ASSUME NEW name PROVE resolve(k, name, "embedding") # Unknown =>
                              Len(resolve(k, name, "embedding").targets) = 1
  BY <1>3, ResolveSound
<1>6. ASSUME NEW name, check_choice(k, name, allow_any_model(d)), name # ""
      PROVE  /\ resolve(k, name, "chat") # Unknown
             /\ \A id \in Range(resolve(k, name, "chat").targets) : KindOf(k, id) = "chat"
  <2>1. resolve(k, name, "chat") # Unknown
    BY <1>3, <1>6, PicksResolve DEF check_choice
  <2> QED
    BY <1>3, <2>1, ResolveSound
<1>7. ChoicesResolve'
  BY <1>4, <1>5, <1>6 DEF ChoicesResolve
<1>8. ASSUME \/ d.env = "prod"
             \/ (d.env = "staging" /\ d.mock # "on"),
             NEW name, NEW kind \in {"chat", "embedding"}, resolve(k, name, kind) # Unknown,
             NEW id \in Range(resolve(k, name, kind).targets)
      PROVE  model(k, id).provider # "mock"
  <2>1. ~ mock_provider_enabled(d)
    BY <1>3, <1>8 DEF mock_provider_enabled, validate_for_env
  <2>2. \A m \in Range(k.models) : m.provider # "mock"
    BY <1>2, <1>3, <2>1, ServedWithoutMock
  <2>3. id \in Ids(k)
    BY <1>3, <1>8, ResolveSound
  <2> QED
    BY <2>2, <2>3, ModelIn
<1>9. NoMockInProduction'
  BY <1>4, <1>8 DEF NoMockInProduction
<1> QED
  BY <1>7, <1>9

\* CatalogIsSound, for any catalog file and any deployment gateway/catalog.py and
\* gateway/factory.py start on: choices resolve to models of one kind, and no mock
\* serves where it is not wanted.
THEOREM CatalogSound == Spec => []CatalogIsSound
<1>1. Init => CatalogIsSound
  BY DEF Init, CatalogIsSound, ChoicesResolve, NoMockInProduction, Is
<1>2. CatalogIsSound /\ [Next]_input => CatalogIsSound'
  <2> SUFFICES ASSUME CatalogIsSound, [Next]_input PROVE CatalogIsSound'
    OBVIOUS
  <2>1. CASE UNCHANGED input
    BY <2>1 DEF CatalogIsSound, ChoicesResolve, NoMockInProduction, Is
  <2>2. CASE build_gateway
    BY <2>2, GatewayServes DEF CatalogIsSound
  <2>3. CASE Next /\ ~ build_gateway
    <3>1. input'.kind # "catalog"
      BY <2>3 DEF Next, parse_and_chunk, find_tables, ground, route, name_employee, read_stream,
                  read_vectors, write_request
    <3> QED
      BY <3>1 DEF CatalogIsSound, ChoicesResolve, NoMockInProduction, Is
  <2> QED
    BY <2>1, <2>2, <2>3
<1> QED
  BY <1>1, <1>2, PTL DEF Spec
-----------------------------------------------------------------------------
(* Streams *)

Readings == [deltas : Nat, usage : BOOLEAN, over : {"no", "end", "response_error", "unavailable"}]

LEMMA OllamaLineType ==
    ASSUME NEW r \in Readings, NEW line \in LineKinds PROVE OllamaLine(r, line) \in Readings
<1>1. CASE r.over # "no" \/ line \in {"skip", "reasoning", "usage"}
  <2>1. OllamaLine(r, line) = r
    BY <1>1 DEF OllamaLine
  <2> QED
    BY <2>1
<1>2. CASE r.over = "no" /\ line = "bad"
  <2>1. OllamaLine(r, line) = [r EXCEPT !.over = "response_error"]
    BY <1>2 DEF OllamaLine
  <2> QED
    BY <2>1 DEF Readings
<1>3. CASE r.over = "no" /\ line = "error"
  <2>1. OllamaLine(r, line) = [r EXCEPT !.over = "unavailable"]
    BY <1>3 DEF OllamaLine
  <2> QED
    BY <2>1 DEF Readings
<1>4. CASE r.over = "no" /\ line = "text"
  <2>1. OllamaLine(r, line) = [r EXCEPT !.deltas = @ + 1]
    BY <1>4 DEF OllamaLine
  <2> QED
    BY <2>1 DEF Readings
<1>5. CASE r.over = "no" /\ line = "last"
  <2>1. OllamaLine(r, line) = [r EXCEPT !.over = "end", !.usage = TRUE]
    BY <1>5 DEF OllamaLine
  <2> QED
    BY <2>1 DEF Readings
<1> QED
  BY <1>1, <1>2, <1>3, <1>4, <1>5 DEF LineKinds

\* Reading Ollama's body, line by line.
LEMMA OllamaSteps ==
    ASSUME NEW s \in Seq(LineKinds)
    PROVE  \E g : /\ g[0] = Reading /\ FoldLeft(OllamaLine, Reading, s) = g[Len(s)]
                  /\ \A n \in 1 .. Len(s) : g[n] = OllamaLine(g[n - 1], s[n])
<1> DEFINE N == Len(s)
           F == [p \in (1 .. N) \X Readings |-> OllamaLine(p[2], s[p[1]])]
           Eq(iter) == iter = [e \in SUBSET (1 .. N) |->
              IF e = {} THEN Reading ELSE OllamaLine(iter[e \ {Max(e)}], s[Max(e)])]
<1>0. N \in Nat /\ DOMAIN s = 1 .. N /\ \A n \in 1 .. N : s[n] \in LineKinds
  OBVIOUS
<1>1. F \in [(1 .. N) \X Readings -> Readings] /\ Reading \in Readings
  <2>1. Reading \in Readings
    BY DEF Reading, Readings
  <2> QED
    BY <1>0, <2>1, OllamaLineType
<1>2. PICK it : Folds(it, N, Readings, Reading, F)
  <2> HIDE DEF F, N
  <2> QED
    BY <1>0, <1>1, SubsetRecursion
<1>3. ASSUME NEW e \in SUBSET (1 .. N), e # {}
      PROVE  it[e] = OllamaLine(it[e \ {Max(e)}], s[Max(e)])
  <2>1. Max(e) \in 1 .. N /\ it[e \ {Max(e)}] \in Readings
    BY <1>0, <1>2, <1>3, MaxIn DEF Folds
  <2> QED
    BY <1>2, <1>3, <2>1 DEF Folds
<1>4. Eq(it)
  BY <1>2, <1>3 DEF Folds
<1> DEFINE c == CHOOSE iter : Eq(iter)
<1>5. Eq(c)
  <2> HIDE DEF Eq
  <2> QED
    BY <1>4
<1>6. FoldLeft(OllamaLine, Reading, s) = c[1 .. N]
  BY <1>0 DEF FoldLeft, MapThenFoldSet
<1> HIDE DEF c
<1>7. c[{}] = Reading
  BY <1>5
<1>8. ASSUME NEW n \in 1 .. N
      PROVE  c[1 .. n] = OllamaLine(c[1 .. (n - 1)], s[n])
  <2>1. /\ Max(1 .. n) = n /\ (1 .. n) \ {n} = 1 .. (n - 1)
        /\ 1 .. n \in SUBSET (1 .. N) /\ 1 .. n # {}
    BY <1>0, MaxPrefix
  <2> QED
    BY <1>5, <2>1
<1> DEFINE g == [n \in 0 .. N |-> c[1 .. n]]
<1>9. g[0] = Reading /\ g[N] = c[1 .. N]
  BY <1>0, <1>7
<1>10. ASSUME NEW n \in 1 .. N PROVE g[n - 1] = c[1 .. (n - 1)] /\ g[n] = c[1 .. n]
  BY <1>0
<1> HIDE DEF g
<1>11. \A n \in 1 .. N : g[n] = OllamaLine(g[n - 1], s[n])
  BY <1>8, <1>10
<1> QED
  BY <1>6, <1>9, <1>11

\* Why a reading is not over, or ended well.
LEMMA OllamaReading ==
    ASSUME NEW s \in Seq(LineKinds)
    PROVE  /\ FoldLeft(OllamaLine, Reading, s) \in Readings
           /\ FoldLeft(OllamaLine, Reading, s).over = "end" =>
                \E i \in DOMAIN s : s[i] = "last" /\ \A j \in 1 .. i : s[j] \notin {"bad", "error"}
<1> DEFINE N == Len(s)
           Clean(n) == \A j \in 1 .. n : s[j] \notin {"bad", "error"}
<1>0. N \in Nat /\ DOMAIN s = 1 .. N /\ \A n \in 1 .. N : s[n] \in LineKinds
  OBVIOUS
<1>1. PICK g : /\ g[0] = Reading /\ FoldLeft(OllamaLine, Reading, s) = g[N]
               /\ \A n \in 1 .. N : g[n] = OllamaLine(g[n - 1], s[n])
  BY OllamaSteps
<1> DEFINE Good(n) == /\ g[n] \in Readings
                      /\ g[n].over = "no" => Clean(n)
                      /\ g[n].over = "end" => \E i \in 1 .. n : s[i] = "last" /\ Clean(i)
           P == {n \in 0 .. N : Good(n)}
<1>2. 0 \in P
  <2>1. Good(0)
    BY <1>1 DEF Reading, Readings
  <2> HIDE DEF Good
  <2> QED
    BY <1>0, <2>1
<1>3. ASSUME NEW n \in 1 .. N, n - 1 \in P PROVE n \in P
  <2>1. PICK r : r = g[n - 1]
    OBVIOUS
  <2>2. /\ r \in Readings /\ (r.over = "no" => Clean(n - 1))
        /\ r.over = "end" => \E i \in 1 .. (n - 1) : s[i] = "last" /\ Clean(i)
    BY <1>3, <2>1
  <2>3. PICK line : line = s[n] /\ line \in LineKinds
    BY <1>0
  <2>4. g[n] = OllamaLine(r, line) /\ g[n] \in Readings
    BY <1>1, <2>1, <2>2, <2>3, OllamaLineType
  <2>5. /\ g[n].over = "no" => r.over = "no" /\ line \notin {"bad", "error"}
        /\ g[n].over = "end" => \/ r.over = "end"
                                \/ r.over = "no" /\ line = "last"
    BY <2>2, <2>3, <2>4 DEF OllamaLine, Readings, LineKinds
  <2>6. Clean(n - 1) /\ line \notin {"bad", "error"} => Clean(n)
    BY <1>0, <2>3
  <2>7. n \in 1 .. n /\ \A i \in 1 .. (n - 1) : i \in 1 .. n
    BY <1>0
  <2> HIDE DEF Clean
  <2>8. g[n].over = "end" => \E i \in 1 .. n : s[i] = "last" /\ Clean(i)
    <3>1. CASE r.over = "end"
      BY <2>2, <2>7, <3>1
    <3>2. CASE r.over = "no" /\ line = "last"
      BY <2>2, <2>3, <2>6, <2>7, <3>2
    <3> QED
      BY <2>5, <3>1, <3>2
  <2>9. Good(n)
    BY <2>2, <2>4, <2>5, <2>6, <2>8
  <2> HIDE DEF Good
  <2> QED
    BY <1>0, <2>9
<1>4. N \in P
  <2> HIDE DEF P, N
  <2> QED
    BY <1>0, <1>2, <1>3, AlongPrefixes
<1> QED
  BY <1>0, <1>1, <1>4

LEMMA StreamRead ==
    ASSUME read_stream PROVE OllamaEndsHonestly'
<1>1. PICK b \in Bodies :
        input' = [kind |-> "stream", body |-> b, read |-> stream_chat(b[1], b[2], b[3], b[4])]
  BY DEF read_stream
<1>2. b[3] \in Seq(LineKinds)
  BY BodiesAssumption
<1>3. input'.body = b /\ input'.read = stream_chat(b[1], b[2], b[3], b[4])
  BY <1>1
<1>4. ASSUME b[1] = "ollama", stream_chat(b[1], b[2], b[3], b[4]).over = "end"
      PROVE  FoldLeft(OllamaLine, Reading, b[3]).over = "end"
  <2>1. PICK read : read = FoldLeft(OllamaLine, Reading, b[3]) /\ read \in Readings
    BY <1>2, OllamaReading
  <2>2. stream_chat(b[1], b[2], b[3], b[4]) =
          IF b[2] >= 400
          THEN [Reading EXCEPT !.over = classify_http_status(b[2])]
          ELSE IF read.over # "no" THEN read
          ELSE [read EXCEPT !.over = IF b[4] = "closed" THEN "response_error"
                                     ELSE EndingError(b[4]),
                            !.usage = @ \/ FALSE]
    BY <1>4, <2>1 DEF stream_chat, Closed
  <2>3. classify_http_status(b[2]) # "end" /\ EndingError(b[4]) # "end"
    BY DEF classify_http_status, EndingError
  <2>4. ~ (b[2] >= 400)
    BY <1>4, <2>2, <2>3 DEF Reading
  <2>5. read.over # "no"
    BY <1>4, <2>1, <2>2, <2>3, <2>4 DEF Readings
  <2>6. read.over = "end"
    BY <1>4, <2>2, <2>4, <2>5
  <2> QED
    BY <2>1, <2>6, Zenon
<1>5. b[1] = "ollama" /\ stream_chat(b[1], b[2], b[3], b[4]).over = "end" =>
        \E i \in DOMAIN b[3] : b[3][i] = "last" /\ \A j \in 1 .. i : b[3][j] \notin {"bad", "error"}
  BY <1>2, <1>4, OllamaReading
<1> QED
  BY <1>3, <1>5 DEF OllamaEndsHonestly, Adapter

-----------------------------------------------------------------------------
(* Vectors *)

\* Distinct numbers below n, n of them: every number occurs, and a number is how many
\* are smaller.
LEMMA Ranks ==
    ASSUME NEW n \in Nat, NEW f \in [1 .. n -> 0 .. n - 1],
           \A i, j \in 1 .. n : f[i] = f[j] => i = j
    PROVE  /\ \A m \in 0 .. n - 1 : \E i \in 1 .. n : f[i] = m
           /\ \A i \in 1 .. n : Cardinality({j \in 1 .. n : f[j] < f[i]}) = f[i]
<1>1. /\ IsFiniteSet(1 .. n) /\ Cardinality(1 .. n) = n
      /\ IsFiniteSet(0 .. n - 1) /\ Cardinality(0 .. n - 1) = n
  <2>1. n - 1 \in Int /\ 0 \in Int /\ 1 \in Int /\ n \in Int
    OBVIOUS
  <2>2. IsFiniteSet(1 .. n) /\ Cardinality(1 .. n) = IF 1 > n THEN 0 ELSE n - 1 + 1
    BY <2>1, FS_Interval
  <2>3. IsFiniteSet(0 .. n - 1) /\ Cardinality(0 .. n - 1) = IF 0 > n - 1 THEN 0 ELSE n - 1 - 0 + 1
    BY <2>1, FS_Interval
  <2> QED
    BY <2>2, <2>3
<1>2. f \in Injection(1 .. n, 0 .. n - 1)
  BY DEF Injection, IsInjective
<1>3. f \in Surjection(1 .. n, 0 .. n - 1)
  BY <1>1, <1>2, FS_Injection
<1>4. \A m \in 0 .. n - 1 : \E i \in 1 .. n : f[i] = m
  BY <1>3 DEF Surjection
<1>5. ASSUME NEW i \in 1 .. n PROVE Cardinality({j \in 1 .. n : f[j] < f[i]}) = f[i]
  <2> DEFINE D == {j \in 1 .. n : f[j] < f[i]}
             m == f[i]
             g == [j \in D |-> f[j]]
  <2>1. m \in 0 .. n - 1
    OBVIOUS
  <2>2. IsFiniteSet(0 .. m - 1) /\ Cardinality(0 .. m - 1) = m
    <3> HIDE DEF m
    <3>1. m \in Nat /\ m - 1 \in Int /\ 0 \in Int
      BY <2>1
    <3>2. IsFiniteSet(0 .. m - 1) /\ Cardinality(0 .. m - 1) = IF 0 > m - 1 THEN 0 ELSE m - 1 - 0 + 1
      BY <3>1, FS_Interval
    <3> QED
      BY <3>1, <3>2
  <2>3. g \in Bijection(D, 0 .. m - 1)
    <3>1. \A j \in D : f[j] \in 0 .. m - 1
      BY <2>1
    <3>2. g \in Injection(D, 0 .. m - 1)
      BY <3>1 DEF Injection, IsInjective
    <3>3. \A x \in 0 .. m - 1 : \E j \in D : g[j] = x
      <4>1. ASSUME NEW x \in 0 .. m - 1 PROVE \E j \in D : g[j] = x
        <5>1. x \in 0 .. n - 1 /\ x < m
          BY <2>1
        <5>2. PICK j \in 1 .. n : f[j] = x
          BY <1>4, <5>1
        <5> QED
          BY <5>1, <5>2
      <4> QED
        BY <4>1
    <3>4. g \in Surjection(D, 0 .. m - 1)
      BY <3>1, <3>3 DEF Surjection
    <3> QED
      BY <3>2, <3>4 DEF Bijection
  <2>4. IsFiniteSet(D)
    BY <1>1, FS_Subset
  <2> HIDE DEF D, m, g
  <2>5. ExistsBijection(D, 0 .. m - 1)
    BY <2>3 DEF ExistsBijection
  <2>6. Cardinality(D) = m
    BY <2>2, <2>4, <2>5, FS_Bijection
  <2> QED
    BY <2>6 DEF D, m
<1> QED
  BY <1>4, <1>5

Row == [index : Int, of : Nat]

\* Rows that are labelled 0 to n - 1, each once, are put in the order of the inputs.
LEMMA Sorted ==
    ASSUME NEW rows \in Seq(Row),
           \A i \in DOMAIN rows : /\ rows[i].index >= 0 /\ rows[i].index = rows[i].of - 1
                                  /\ rows[i].of <= Len(rows),
           \A i, j \in DOMAIN rows : rows[i].index = rows[j].index => i = j
    PROVE  /\ DOMAIN ByIndex(rows) = 1 .. Len(rows)
           /\ \A k \in 1 .. Len(rows) : ByIndex(rows)[k].of = k
<1> DEFINE n == Len(rows)
           f == [i \in 1 .. n |-> rows[i].index]
           Before(i, j) == \/ rows[i].index < rows[j].index
                           \/ rows[i].index = rows[j].index /\ i < j
           Rank(i) == Cardinality({j \in DOMAIN rows : Before(j, i)})
<1>1. n \in Nat /\ DOMAIN rows = 1 .. n
  OBVIOUS
<1>2. ASSUME NEW i \in 1 .. n PROVE rows[i].index \in 0 .. n - 1 /\ rows[i].of = rows[i].index + 1
  <2>1. rows[i] \in Row
    BY <1>1
  <2>2. rows[i].index \in Int /\ rows[i].of \in Nat
    BY <2>1 DEF Row
  <2> QED
    BY <1>1, <2>2
<1>3. f \in [1 .. n -> 0 .. n - 1] /\ \A i, j \in 1 .. n : f[i] = f[j] => i = j
  BY <1>1, <1>2
<1>4. /\ \A m \in 0 .. n - 1 : \E i \in 1 .. n : f[i] = m
      /\ \A i \in 1 .. n : Cardinality({j \in 1 .. n : f[j] < f[i]}) = f[i]
  <2> HIDE DEF f, n
  <2> QED
    BY <1>1, <1>3, Ranks
<1>5. ASSUME NEW i \in 1 .. n PROVE Rank(i) = f[i]
  <2>1. {j \in DOMAIN rows : Before(j, i)} = {j \in 1 .. n : f[j] < f[i]}
    <3>1. ASSUME NEW j \in 1 .. n PROVE Before(j, i) <=> f[j] < f[i]
      <4>1. f[j] = rows[j].index /\ f[i] = rows[i].index
        OBVIOUS
      <4>2. f[i] = f[j] => i = j
        BY <1>3
      <4> HIDE DEF f
      <4> QED
        BY <1>1, <4>1, <4>2
    <3> QED
      BY <1>1, <3>1
  <2> QED
    BY <1>4, <2>1
<1>6. ByIndex(rows) = [k \in DOMAIN rows |-> rows[CHOOSE i \in DOMAIN rows : Rank(i) = k - 1]]
  BY DEF ByIndex
<1> HIDE DEF Rank
<1>7. ASSUME NEW k \in 1 .. n PROVE ByIndex(rows)[k].of = k
  <2> DEFINE i == CHOOSE i \in DOMAIN rows : Rank(i) = k - 1
  <2>1. k - 1 \in 0 .. n - 1
    BY <1>1
  <2>2. \E j \in DOMAIN rows : Rank(j) = k - 1
    BY <1>1, <1>4, <1>5, <2>1
  <2>3. i \in DOMAIN rows /\ Rank(i) = k - 1
    BY <2>2
  <2>4. ByIndex(rows)[k] = rows[i]
    BY <1>1, <1>6
  <2> HIDE DEF i
  <2>5. rows[i].index = k - 1
    BY <1>1, <1>5, <2>3
  <2>6. rows[i].of = k
    BY <1>1, <1>2, <2>3, <2>5
  <2> QED
    BY <2>4, <2>6
<1>8. DOMAIN ByIndex(rows) = 1 .. n
  BY <1>1, <1>6
<1> QED
  BY <1>7, <1>8

LEMMA VectorsRead ==
    ASSUME read_vectors PROVE VectorsMatchInputs'
<1>1. PICK e \in Embeddings :
        input' = [kind |-> "vectors", asked |-> e, got |-> embed(e[1], e[2], e[3])]
  BY DEF read_vectors
<1>2. PICK rows : rows = e[3].rows /\ rows \in Seq(Row)
  BY EmbeddingsAssumption DEF Row
<1>3. input'.asked = e /\ input'.got = embed(e[1], e[2], e[3])
  BY <1>1
<1>4. ASSUME embed(e[1], e[2], e[3]).over = "end", e[1] = "openai",
             \A i \in DOMAIN rows : rows[i].index = rows[i].of - 1 /\ rows[i].of <= e[2],
             \A i, j \in DOMAIN rows : rows[i].index = rows[j].index => i = j
      PROVE  embed(e[1], e[2], e[3]).vectors = [k \in 1 .. e[2] |-> k]
  <2> DEFINE labelled == \A i \in DOMAIN rows : rows[i].index >= 0
             taken == IF labelled THEN ByIndex(rows) ELSE rows
             vectors == [k \in DOMAIN taken |-> taken[k].of]
  <2>1. embed(e[1], e[2], e[3]) =
          IF _post_json(e[3]) # "end" THEN [over |-> _post_json(e[3]), vectors |-> << >>]
          ELSE IF ~ labelled \/ Len(taken) # e[2] THEN [over |-> "response_error", vectors |-> << >>]
          ELSE [over |-> "end", vectors |-> vectors]
    BY <1>2, <1>4 DEF embed
  <2> HIDE DEF labelled, taken, vectors
  <2>2. labelled /\ Len(taken) = e[2] /\ embed(e[1], e[2], e[3]).vectors = vectors
    BY <1>4, <2>1
  <2>3. taken = ByIndex(rows)
    BY <2>2 DEF taken
  <2>4. DOMAIN taken = 1 .. Len(rows)
    BY <1>2, <2>3 DEF ByIndex
  <2>5. Len(taken) = Len(rows)
    <3>1. Len(rows) \in Nat
      BY <1>2
    <3>2. PICK all : all = {taken[k] : k \in 1 .. Len(rows)}
      OBVIOUS
    <3>3. taken = [k \in 1 .. Len(rows) |-> taken[k]]
      BY <1>2, <2>3 DEF ByIndex
    <3>4. taken \in Seq(all)
      BY <3>1, <3>2, <3>3
    <3>5. DOMAIN taken = 1 .. Len(taken) /\ Len(taken) \in Nat
      BY <3>4
    <3> QED
      BY <2>4, <3>1, <3>5
  <2>6. \A i \in DOMAIN rows : /\ rows[i].index >= 0 /\ rows[i].index = rows[i].of - 1
                               /\ rows[i].of <= Len(rows)
    BY <1>4, <2>2, <2>5 DEF labelled
  <2>7. \A k \in 1 .. Len(rows) : taken[k].of = k
    BY <1>2, <1>4, <2>3, <2>6, Sorted
  <2>8. vectors = [k \in 1 .. Len(rows) |-> k]
    BY <2>4, <2>7 DEF vectors
  <2> QED
    BY <2>2, <2>5, <2>8
<1> QED
  BY <1>2, <1>3, <1>4 DEF VectorsMatchInputs

-----------------------------------------------------------------------------
(* Turns *)

Roles == {"system", "user", "assistant"}
Msg == [role : Roles, part : Nat]
Turn == [role : Roles, parts : Seq(Nat)]

\* A selection of messages is in the order of the messages.
LEMMA SelectInOrder ==
    ASSUME NEW p \in Seq(Msg), \A i \in DOMAIN p : p[i].part = i, NEW wanted
    PROVE  /\ Select(p, wanted) \in Seq(Msg)
           /\ \A a, b \in DOMAIN Select(p, wanted) :
                a < b => Select(p, wanted)[a].part < Select(p, wanted)[b].part
<1> DEFINE N == Len(p)
<1>0. N \in Nat /\ DOMAIN p = 1 .. N /\ \A n \in 1 .. N : p[n] \in Msg
  OBVIOUS
<1>1. PICK g : /\ g[0] = << >> /\ Select(p, wanted) = g[N]
               /\ \A n \in 1 .. N :
                    g[n] = IF p[n] \in wanted THEN Append(g[n - 1], p[n]) ELSE g[n - 1]
  BY SelectSteps DEF Selecting
<1> DEFINE Ordered(q, n) == /\ q \in Seq(Msg)
                            /\ \A a \in DOMAIN q : q[a].part <= n
                            /\ \A a, b \in DOMAIN q : a < b => q[a].part < q[b].part
           P == {n \in 0 .. N : Ordered(g[n], n)}
<1>2. 0 \in P
  <2>1. Ordered(<< >>, 0)
    OBVIOUS
  <2> HIDE DEF Ordered
  <2> QED
    BY <1>0, <1>1, <2>1
<1>3. ASSUME NEW n \in 1 .. N, n - 1 \in P PROVE n \in P
  <2>1. PICK q : q = g[n - 1]
    OBVIOUS
  <2>2. Ordered(q, n - 1)
    BY <1>3, <2>1
  <2>3. PICK m : m = p[n] /\ m \in Msg /\ m.part = n
    BY <1>0
  <2>4. g[n] = IF m \in wanted THEN Append(q, m) ELSE q
    BY <1>1, <2>1, <2>3
  <2>5. \A a \in DOMAIN q : q[a].part \in Nat
    <3>1. ASSUME NEW a \in DOMAIN q PROVE q[a] \in Msg
      BY <2>2
    <3> QED
      BY <3>1 DEF Msg
  <2>6. Ordered(q, n)
    BY <1>0, <2>2, <2>5
  <2>7. Ordered(Append(q, m), n)
    <3>1. /\ Append(q, m) \in Seq(Msg) /\ DOMAIN Append(q, m) = 1 .. Len(q) + 1
          /\ DOMAIN q = 1 .. Len(q) /\ Len(q) \in Nat
      BY <2>2, <2>3
    <3>2. Append(q, m)[Len(q) + 1] = m /\ \A a \in 1 .. Len(q) : Append(q, m)[a] = q[a]
      BY <2>2, <2>3
    <3>3. PICK new : new = Append(q, m)
      OBVIOUS
    <3>4. ASSUME NEW a \in 1 .. Len(q) + 1
          PROVE  \/ a = Len(q) + 1 /\ new[a] = m
                 \/ a \in 1 .. Len(q) /\ new[a] = q[a] /\ q[a].part \in Nat /\ q[a].part <= n - 1
      BY <2>2, <2>5, <3>1, <3>2, <3>3
    <3>5. \A a \in 1 .. Len(q) + 1 : new[a].part <= n
      BY <1>0, <2>3, <3>4
    <3>6. ASSUME NEW a \in 1 .. Len(q) + 1, NEW b \in 1 .. Len(q) + 1, a < b
          PROVE  new[a].part < new[b].part
      <4>1. a \in 1 .. Len(q) /\ new[a] = q[a] /\ q[a].part \in Nat /\ q[a].part <= n - 1
        BY <3>1, <3>4, <3>6
      <4>2. CASE b = Len(q) + 1 /\ new[b] = m
        BY <1>0, <2>3, <4>1, <4>2
      <4>3. CASE b \in 1 .. Len(q) /\ new[b] = q[b]
        BY <2>2, <3>1, <3>6, <4>1, <4>3
      <4> QED
        BY <3>4, <4>2, <4>3
    <3> QED
      BY <3>1, <3>3, <3>5, <3>6
  <2> HIDE DEF Ordered
  <2>8. Ordered(g[n], n)
    BY <2>4, <2>6, <2>7
  <2> QED
    BY <1>0, <2>8
<1>4. N \in P
  <2> HIDE DEF P, N
  <2>1. N \in Nat
    BY <1>0
  <2>2. \A n \in 1 .. N : n - 1 \in P => n \in P
    BY <1>3
  <2>3. 0 .. N \subseteq P
    BY <1>2, <2>1, <2>2, AlongPrefixes
  <2> QED
    BY <2>1, <2>3
<1> QED
  BY <1>1, <1>4

\* What AddTurn does to the turns: a part at the end of the last turn, or a turn of its own.
LEMMA AddTurnCases ==
    ASSUME NEW ts \in Seq(Turn), NEW m \in Msg
    PROVE  LET new == AddTurn(ts, m) IN
           \/ /\ Len(ts) > 0 /\ ts[Len(ts)].role = m.role
              /\ new \in Seq(Turn) /\ Len(new) = Len(ts)
              /\ \A i \in 1 .. Len(ts) : i # Len(ts) => new[i] = ts[i]
              /\ new[Len(ts)].role = m.role
              /\ new[Len(ts)].parts = Append(ts[Len(ts)].parts, m.part)
           \/ /\ Len(ts) > 0 => ts[Len(ts)].role # m.role
              /\ new \in Seq(Turn) /\ Len(new) = Len(ts) + 1
              /\ \A i \in 1 .. Len(ts) : new[i] = ts[i]
              /\ new[Len(ts) + 1].role = m.role
              /\ new[Len(ts) + 1].parts = <<m.part>>
<1>0. Len(ts) \in Nat /\ DOMAIN ts = 1 .. Len(ts) /\ m.role \in Roles /\ m.part \in Nat
  BY DEF Msg
<1>1. CASE ts # << >> /\ Last(ts).role = m.role
  <2>1. Len(ts) > 0 /\ Len(ts) \in 1 .. Len(ts)
    BY <1>0, <1>1
  <2>2. PICK last : last = ts[Len(ts)] /\ last \in Turn
    BY <1>0, <2>1
  <2>3. last.role = m.role /\ last.parts \in Seq(Nat) /\ last.role \in Roles
    BY <1>1, <2>2 DEF Last, Turn
  <2>4. PICK one : one = [last EXCEPT !.parts = Append(@, m.part)]
    OBVIOUS
  <2>5. one \in Turn /\ one.role = m.role /\ one.parts = Append(last.parts, m.part)
    <3>1. Append(last.parts, m.part) \in Seq(Nat)
      BY <1>0, <2>3
    <3>2. last = [role |-> last.role, parts |-> last.parts]
      BY <2>2 DEF Turn
    <3>3. one = [role |-> last.role, parts |-> Append(last.parts, m.part)]
      BY <2>4, <3>2
    <3> QED
      BY <2>3, <3>1, <3>3 DEF Turn
  <2>6. AddTurn(ts, m) = [ts EXCEPT ![Len(ts)] = one]
    BY <1>1, <2>2, <2>4 DEF AddTurn
  <2>7. PICK L : L = Len(ts) /\ L \in Nat
    BY <1>0
  <2>8. PICK new : new = [ts EXCEPT ![L] = one]
    OBVIOUS
  <2>9. DOMAIN new = 1 .. L /\ new[L] = one /\ \A i \in 1 .. L : i # L => new[i] = ts[i]
    BY <1>0, <2>1, <2>7, <2>8
  <2>10. new \in [1 .. L -> Turn]
    <3>1. \A i \in 1 .. L : ts[i] \in Turn
      BY <1>0, <2>7
    <3>2. \A i \in 1 .. L : new[i] \in Turn
      BY <2>5, <2>9, <3>1
    <3> QED
      BY <1>0, <2>7, <2>8, <3>2
  <2>11. new \in Seq(Turn) /\ Len(new) = L
    BY <2>7, <2>10
  <2>12. AddTurn(ts, m) = new
    BY <2>6, <2>7, <2>8
  <2> QED
    BY <2>1, <2>2, <2>3, <2>5, <2>7, <2>9, <2>11, <2>12
<1>2. CASE ~ (ts # << >> /\ Last(ts).role = m.role)
  <2>1. PICK one : one = [role |-> m.role, parts |-> <<m.part>>]
    OBVIOUS
  <2>2. one \in Turn /\ one.role = m.role /\ one.parts = <<m.part>>
    BY <1>0, <2>1 DEF Turn
  <2>3. AddTurn(ts, m) = Append(ts, one)
    BY <1>2, <2>1 DEF AddTurn
  <2>4. /\ Append(ts, one) \in Seq(Turn) /\ Len(Append(ts, one)) = Len(ts) + 1
        /\ Append(ts, one)[Len(ts) + 1] = one
        /\ \A i \in 1 .. Len(ts) : Append(ts, one)[i] = ts[i]
    BY <1>0, <2>2
  <2>5. Len(ts) > 0 => ts[Len(ts)].role # m.role
    BY <1>0, <1>2 DEF Last
  <2> QED
    BY <2>2, <2>3, <2>4, <2>5
<1> QED
  BY <1>1, <1>2

LEMMA AddTurnType ==
    ASSUME NEW ts \in Seq(Turn), NEW m \in Msg PROVE AddTurn(ts, m) \in Seq(Turn)
BY AddTurnCases

\* Grouping the messages, one by one.
LEMMA TurnSteps ==
    ASSUME NEW s \in Seq(Msg)
    PROVE  \E g : /\ g[0] = << >> /\ FoldLeft(AddTurn, << >>, s) = g[Len(s)]
                  /\ \A n \in 1 .. Len(s) : g[n] = AddTurn(g[n - 1], s[n])
<1> DEFINE N == Len(s)
           F == [p \in (1 .. N) \X Seq(Turn) |-> AddTurn(p[2], s[p[1]])]
           Eq(iter) == iter = [e \in SUBSET (1 .. N) |->
              IF e = {} THEN << >> ELSE AddTurn(iter[e \ {Max(e)}], s[Max(e)])]
<1>0. N \in Nat /\ DOMAIN s = 1 .. N /\ \A n \in 1 .. N : s[n] \in Msg
  OBVIOUS
<1>1. F \in [(1 .. N) \X Seq(Turn) -> Seq(Turn)] /\ << >> \in Seq(Turn)
  <2>1. << >> \in Seq(Turn)
    OBVIOUS
  <2> QED
    BY <1>0, <2>1, AddTurnType
<1>2. PICK it : Folds(it, N, Seq(Turn), << >>, F)
  <2> HIDE DEF F, N
  <2> QED
    BY <1>0, <1>1, SubsetRecursion
<1>3. ASSUME NEW e \in SUBSET (1 .. N), e # {}
      PROVE  it[e] = AddTurn(it[e \ {Max(e)}], s[Max(e)])
  <2>1. Max(e) \in 1 .. N /\ it[e \ {Max(e)}] \in Seq(Turn)
    BY <1>0, <1>2, <1>3, MaxIn DEF Folds
  <2> QED
    BY <1>2, <1>3, <2>1 DEF Folds
<1>4. Eq(it)
  BY <1>2, <1>3 DEF Folds
<1> DEFINE c == CHOOSE iter : Eq(iter)
<1>5. Eq(c)
  <2> HIDE DEF Eq
  <2> QED
    BY <1>4
<1>6. FoldLeft(AddTurn, << >>, s) = c[1 .. N]
  BY <1>0 DEF FoldLeft, MapThenFoldSet
<1> HIDE DEF c
<1>7. c[{}] = << >>
  BY <1>5
<1>8. ASSUME NEW n \in 1 .. N
      PROVE  c[1 .. n] = AddTurn(c[1 .. (n - 1)], s[n])
  <2>1. /\ Max(1 .. n) = n /\ (1 .. n) \ {n} = 1 .. (n - 1)
        /\ 1 .. n \in SUBSET (1 .. N) /\ 1 .. n # {}
    BY <1>0, MaxPrefix
  <2> QED
    BY <1>5, <2>1
<1> DEFINE g == [n \in 0 .. N |-> c[1 .. n]]
<1>9. g[0] = << >> /\ g[N] = c[1 .. N]
  BY <1>0, <1>7
<1>10. ASSUME NEW n \in 1 .. N PROVE g[n - 1] = c[1 .. (n - 1)] /\ g[n] = c[1 .. n]
  BY <1>0
<1> HIDE DEF g
<1>11. \A n \in 1 .. N : g[n] = AddTurn(g[n - 1], s[n])
  BY <1>8, <1>10
<1> QED
  BY <1>6, <1>9, <1>11

PartsOf(ts) == UNION {Range(ts[i].parts) : i \in DOMAIN ts}
Alternating(ts) == \A i \in 1 .. Len(ts) - 1 : ts[i].role # ts[i + 1].role
InPlace(ts) ==
    \A i, j \in DOMAIN ts : \A a \in DOMAIN ts[i].parts, b \in DOMAIN ts[j].parts :
      i < j \/ (i = j /\ a < b) => ts[i].parts[a] < ts[j].parts[b]
InRole(ts, p) == \A i \in DOMAIN ts : \A part \in Range(ts[i].parts) : p[part].role = ts[i].role

\* A part is where it was, or is the new one in the last place.
Placed(ts, new, x) ==
    /\ \A i \in DOMAIN new : \A a \in DOMAIN new[i].parts :
         \/ /\ i \in DOMAIN ts /\ a \in DOMAIN ts[i].parts
            /\ new[i].parts[a] = ts[i].parts[a] /\ new[i].role = ts[i].role
         \/ i = Len(new) /\ a = Len(new[i].parts) /\ new[i].parts[a] = x
    /\ \A i \in DOMAIN ts : \A a \in DOMAIN ts[i].parts :
         i \in DOMAIN new /\ a \in DOMAIN new[i].parts /\ new[i].parts[a] = ts[i].parts[a]
    /\ \E i \in DOMAIN new : \E a \in DOMAIN new[i].parts : new[i].parts[a] = x

LEMMA AddTurnPlaces ==
    ASSUME NEW ts \in Seq(Turn), NEW m \in Msg, NEW new, new = AddTurn(ts, m)
    PROVE  /\ Placed(ts, new, m.part) /\ new \in Seq(Turn)
           /\ new[Len(new)].role = m.role /\ Len(new) > 0
           /\ Alternating(ts) => Alternating(new)
<1>0. /\ Len(ts) \in Nat /\ DOMAIN ts = 1 .. Len(ts) /\ m.part \in Nat
      /\ \A i \in DOMAIN ts : /\ ts[i].parts \in Seq(Nat)
                              /\ DOMAIN ts[i].parts = 1 .. Len(ts[i].parts)
                              /\ Len(ts[i].parts) \in Nat
  <2>1. \A i \in DOMAIN ts : ts[i] \in Turn
    OBVIOUS
  <2>2. \A i \in DOMAIN ts : ts[i].parts \in Seq(Nat)
    BY <2>1 DEF Turn
  <2> QED
    BY <2>2 DEF Msg
<1>1. CASE /\ Len(ts) > 0 /\ ts[Len(ts)].role = m.role
           /\ new \in Seq(Turn) /\ Len(new) = Len(ts)
           /\ \A i \in 1 .. Len(ts) : i # Len(ts) => new[i] = ts[i]
           /\ new[Len(ts)].role = m.role
           /\ new[Len(ts)].parts = Append(ts[Len(ts)].parts, m.part)
  <2>1. DOMAIN new = 1 .. Len(ts) /\ Len(ts) \in 1 .. Len(ts)
    <3>0. new \in Seq(Turn)
      BY <1>1
    <3>1. DOMAIN new = 1 .. Len(new)
      BY <3>0
    <3>2. Len(new) = Len(ts) /\ Len(ts) > 0
      BY <1>1
    <3>3. Len(ts) \in Nat
      BY <1>0
    <3> QED
      BY <3>1, <3>2, <3>3
  <2>2. PICK old : old = ts[Len(ts)].parts /\ old \in Seq(Nat)
    BY <1>0, <2>1
  <2>3. /\ new[Len(ts)].parts = Append(old, m.part)
        /\ DOMAIN old = 1 .. Len(old) /\ DOMAIN Append(old, m.part) = 1 .. Len(old) + 1
        /\ Len(Append(old, m.part)) = Len(old) + 1 /\ Len(old) \in Nat
        /\ Append(old, m.part)[Len(old) + 1] = m.part
        /\ \A a \in 1 .. Len(old) : Append(old, m.part)[a] = old[a]
    <3>1. old \in Seq(Nat) /\ m.part \in Nat
      BY <1>0, <2>2
    <3>2. new[Len(ts)].parts = Append(old, m.part)
      BY <1>1, <2>2
    <3>3. PICK x \in Nat : x = m.part
      BY <3>1
    <3>4. /\ DOMAIN old = 1 .. Len(old) /\ DOMAIN Append(old, x) = 1 .. Len(old) + 1
          /\ Len(Append(old, x)) = Len(old) + 1 /\ Len(old) \in Nat
          /\ Append(old, x)[Len(old) + 1] = x
          /\ \A a \in 1 .. Len(old) : Append(old, x)[a] = old[a]
      BY <3>1
    <3> QED
      BY <3>2, <3>3, <3>4
  <2>4. /\ \A a \in 1 .. Len(old) + 1 : a \in 1 .. Len(old) \/ a = Len(old) + 1
        /\ \A a \in 1 .. Len(old) : a \in 1 .. Len(old) + 1
        /\ Len(old) + 1 \in 1 .. Len(old) + 1
    BY <2>3
  <2>5. PICK app : app = Append(old, m.part)
    OBVIOUS
  <2>6. ASSUME NEW i \in DOMAIN new, NEW a \in DOMAIN new[i].parts
        PROVE  \/ /\ i \in DOMAIN ts /\ a \in DOMAIN ts[i].parts
                  /\ new[i].parts[a] = ts[i].parts[a] /\ new[i].role = ts[i].role
               \/ i = Len(new) /\ a = Len(new[i].parts) /\ new[i].parts[a] = m.part
    <3>1. CASE i # Len(ts)
      <4>1. i \in 1 .. Len(ts) /\ i \in DOMAIN ts
        BY <1>0, <2>1
      <4>2. new[i] = ts[i]
        BY <1>1, <3>1, <4>1
      <4> QED
        BY <4>1, <4>2
    <3>2. CASE i = Len(ts)
      <4>1. new[i].role = ts[i].role /\ i \in DOMAIN ts /\ i = Len(new)
        BY <1>0, <1>1, <2>1, <3>2
      <4>2. new[i].parts = app /\ ts[i].parts = old
        BY <2>2, <2>3, <2>5, <3>2
      <4>3. CASE a \in 1 .. Len(old)
        BY <2>3, <2>5, <4>1, <4>2, <4>3
      <4>4. CASE a = Len(old) + 1
        BY <2>3, <2>5, <4>1, <4>2, <4>4
      <4> QED
        BY <2>3, <2>4, <2>5, <4>2, <4>3, <4>4
    <3> QED
      BY <3>1, <3>2
  <2>7. ASSUME NEW i \in DOMAIN ts, NEW a \in DOMAIN ts[i].parts
        PROVE  i \in DOMAIN new /\ a \in DOMAIN new[i].parts /\ new[i].parts[a] = ts[i].parts[a]
    <3>0. i \in 1 .. Len(ts) /\ i \in DOMAIN new
      BY <1>0, <2>1
    <3>1. CASE i # Len(ts)
      <4>1. new[i] = ts[i]
        BY <1>1, <3>0, <3>1
      <4> QED
        BY <3>0, <4>1
    <3>2. CASE i = Len(ts)
      <4>1. new[i].parts = app /\ ts[i].parts = old
        BY <2>2, <2>3, <2>5, <3>2
      <4>2. a \in 1 .. Len(old) /\ a \in 1 .. Len(old) + 1
        BY <2>3, <2>4, <4>1
      <4> QED
        BY <2>3, <2>5, <3>0, <4>1, <4>2
    <3> QED
      BY <3>1, <3>2
  <2>8. \E i \in DOMAIN new : \E a \in DOMAIN new[i].parts : new[i].parts[a] = m.part
    BY <2>1, <2>3, <2>4
  <2>9. Placed(ts, new, m.part)
    BY <2>6, <2>7, <2>8 DEF Placed
  <2>10. Alternating(ts) => Alternating(new)
    <3>1. \A i \in 1 .. Len(ts) : new[i].role = ts[i].role
      BY <1>1
    <3>2. \A i \in 1 .. Len(ts) - 1 : i \in 1 .. Len(ts) /\ i + 1 \in 1 .. Len(ts)
      BY <1>0
    <3> QED
      BY <1>1, <3>1, <3>2 DEF Alternating
  <2> QED
    BY <1>1, <2>9, <2>10
<1>2. CASE /\ Len(ts) > 0 => ts[Len(ts)].role # m.role
           /\ new \in Seq(Turn) /\ Len(new) = Len(ts) + 1
           /\ \A i \in 1 .. Len(ts) : new[i] = ts[i]
           /\ new[Len(ts) + 1].role = m.role
           /\ new[Len(ts) + 1].parts = <<m.part>>
  <2>1. /\ DOMAIN new = 1 .. Len(ts) + 1 /\ Len(ts) + 1 \in 1 .. Len(ts) + 1
        /\ \A i \in 1 .. Len(ts) + 1 : i \in 1 .. Len(ts) \/ i = Len(ts) + 1
        /\ \A i \in 1 .. Len(ts) : i \in 1 .. Len(ts) + 1
    BY <1>0, <1>2
  <2>2. PICK one : one = <<m.part>>
    OBVIOUS
  <2>3. DOMAIN one = {1} /\ Len(one) = 1 /\ one[1] = m.part
    BY <2>2
  <2>4. ASSUME NEW i \in DOMAIN new, NEW a \in DOMAIN new[i].parts
        PROVE  \/ /\ i \in DOMAIN ts /\ a \in DOMAIN ts[i].parts
                  /\ new[i].parts[a] = ts[i].parts[a] /\ new[i].role = ts[i].role
               \/ i = Len(new) /\ a = Len(new[i].parts) /\ new[i].parts[a] = m.part
    <3>1. CASE i \in 1 .. Len(ts)
      BY <1>0, <1>2, <2>4, <3>1
    <3>2. CASE i = Len(ts) + 1
      BY <1>2, <2>2, <2>3, <2>4, <3>2
    <3> QED
      BY <2>1, <3>1, <3>2
  <2>5. ASSUME NEW i \in DOMAIN ts, NEW a \in DOMAIN ts[i].parts
        PROVE  i \in DOMAIN new /\ a \in DOMAIN new[i].parts /\ new[i].parts[a] = ts[i].parts[a]
    BY <1>0, <1>2, <2>1, <2>5
  <2>6. \E i \in DOMAIN new : \E a \in DOMAIN new[i].parts : new[i].parts[a] = m.part
    BY <1>2, <2>1, <2>2, <2>3
  <2>7. Placed(ts, new, m.part)
    BY <2>4, <2>5, <2>6 DEF Placed
  <2>8. Alternating(ts) => Alternating(new)
    <3>1. ASSUME Alternating(ts), NEW i \in 1 .. Len(new) - 1
          PROVE  new[i].role # new[i + 1].role
      <4>1. CASE i = Len(ts)
        BY <1>0, <1>2, <3>1, <4>1
      <4>2. CASE i # Len(ts)
        <5>0. PICK L : L = Len(ts) /\ L \in Nat /\ Len(new) = L + 1
          BY <1>0, <1>2
        <5>1. i \in 1 .. Len(ts) - 1 /\ i \in 1 .. Len(ts) /\ i + 1 \in 1 .. Len(ts)
          <6>1. i \in 1 .. L /\ i # L
            BY <3>1, <4>2, <5>0
          <6> QED
            BY <5>0, <6>1
        <5> QED
          BY <1>2, <3>1, <5>1 DEF Alternating
      <4> QED
        BY <4>1, <4>2
    <3> QED
      BY <3>1 DEF Alternating
  <2> QED
    BY <1>0, <1>2, <2>7, <2>8
<1> QED
  BY <1>1, <1>2, AddTurnCases

\* One message more: the turns are still in place, in role and alternating.
LEMMA AddTurnKeeps ==
    ASSUME NEW ts \in Seq(Turn), NEW m \in Msg, NEW p, NEW new, new = AddTurn(ts, m),
           Alternating(ts), InPlace(ts), InRole(ts, p),
           \A x \in PartsOf(ts) : x < m.part, p[m.part].role = m.role
    PROVE  /\ new \in Seq(Turn) /\ Alternating(new) /\ InPlace(new) /\ InRole(new, p)
           /\ PartsOf(new) = PartsOf(ts) \cup {m.part}
<1>1. /\ Placed(ts, new, m.part) /\ new \in Seq(Turn)
      /\ new[Len(new)].role = m.role /\ Alternating(new)
  BY AddTurnPlaces
<1>2. /\ Len(new) \in Nat /\ DOMAIN new = 1 .. Len(new)
      /\ \A i \in DOMAIN new : /\ DOMAIN new[i].parts = 1 .. Len(new[i].parts)
                               /\ Len(new[i].parts) \in Nat
  <2>1. \A i \in DOMAIN new : new[i] \in Turn
    BY <1>1
  <2>2. \A i \in DOMAIN new : new[i].parts \in Seq(Nat)
    BY <2>1 DEF Turn
  <2> QED
    BY <1>1, <2>2
<1>3. \A i \in DOMAIN ts : \A a \in DOMAIN ts[i].parts : ts[i].parts[a] < m.part
  BY DEF PartsOf, Range
<1>4. ASSUME NEW i \in DOMAIN new, NEW j \in DOMAIN new,
             NEW a \in DOMAIN new[i].parts, NEW b \in DOMAIN new[j].parts,
             i < j \/ (i = j /\ a < b)
      PROVE  new[i].parts[a] < new[j].parts[b]
  <2>1. ~ (i = Len(new) /\ a = Len(new[i].parts))
    BY <1>2, <1>4
  <2>2. /\ i \in DOMAIN ts /\ a \in DOMAIN ts[i].parts /\ new[i].parts[a] = ts[i].parts[a]
    BY <1>1, <1>4, <2>1 DEF Placed
  <2>3. CASE j \in DOMAIN ts /\ b \in DOMAIN ts[j].parts /\ new[j].parts[b] = ts[j].parts[b]
    BY <1>4, <2>2, <2>3 DEF InPlace
  <2>4. CASE new[j].parts[b] = m.part
    BY <1>3, <2>2, <2>4
  <2> QED
    BY <1>1, <1>4, <2>3, <2>4 DEF Placed
<1>5. InPlace(new)
  BY <1>4 DEF InPlace
<1>6. ASSUME NEW i \in DOMAIN new, NEW a \in DOMAIN new[i].parts
      PROVE  p[new[i].parts[a]].role = new[i].role
  <2>1. CASE /\ i \in DOMAIN ts /\ a \in DOMAIN ts[i].parts
             /\ new[i].parts[a] = ts[i].parts[a] /\ new[i].role = ts[i].role
    <3>1. ts[i].parts[a] \in Range(ts[i].parts)
      BY <2>1 DEF Range
    <3> QED
      BY <2>1, <3>1 DEF InRole
  <2>2. CASE i = Len(new) /\ new[i].parts[a] = m.part
    BY <1>1, <2>2
  <2> QED
    BY <1>1, <1>6, <2>1, <2>2 DEF Placed
<1>7. InRole(new, p)
  BY <1>6 DEF InRole, Range
<1>8. PartsOf(new) \subseteq PartsOf(ts) \cup {m.part}
  <2> SUFFICES ASSUME NEW i \in DOMAIN new, NEW a \in DOMAIN new[i].parts
               PROVE  new[i].parts[a] \in PartsOf(ts) \cup {m.part}
    BY DEF PartsOf, Range
  <2> QED
    BY <1>1 DEF Placed, PartsOf, Range
<1>9. PartsOf(ts) \subseteq PartsOf(new)
  <2> SUFFICES ASSUME NEW i \in DOMAIN ts, NEW a \in DOMAIN ts[i].parts
               PROVE  ts[i].parts[a] \in PartsOf(new)
    BY DEF PartsOf, Range
  <2>1. i \in DOMAIN new /\ a \in DOMAIN new[i].parts /\ new[i].parts[a] = ts[i].parts[a]
    BY <1>1 DEF Placed
  <2> QED
    BY <2>1 DEF PartsOf, Range
<1>10. m.part \in PartsOf(new)
  <2>1. PICK i \in DOMAIN new : \E a \in DOMAIN new[i].parts : new[i].parts[a] = m.part
    BY <1>1 DEF Placed
  <2>2. PICK a \in DOMAIN new[i].parts : new[i].parts[a] = m.part
    BY <2>1
  <2> QED
    BY <2>2 DEF PartsOf, Range
<1> QED
  BY <1>1, <1>5, <1>7, <1>8, <1>9, <1>10

LEMMA TurnsFold ==
    ASSUME NEW s \in Seq(Msg), NEW p,
           \A a, b \in DOMAIN s : a < b => s[a].part < s[b].part,
           \A a \in DOMAIN s : p[s[a].part].role = s[a].role
    PROVE  \E ts : /\ ts = FoldLeft(AddTurn, << >>, s)
                   /\ ts \in Seq(Turn) /\ Alternating(ts) /\ InPlace(ts) /\ InRole(ts, p)
                   /\ PartsOf(ts) = {s[a].part : a \in DOMAIN s}
<1> DEFINE N == Len(s)
           Sent(n) == {s[a].part : a \in 1 .. n}
           Fine(ts, n) == /\ ts \in Seq(Turn) /\ Alternating(ts) /\ InPlace(ts) /\ InRole(ts, p)
                          /\ PartsOf(ts) = Sent(n)
<1>0. N \in Nat /\ DOMAIN s = 1 .. N /\ \A n \in 1 .. N : s[n] \in Msg
  OBVIOUS
<1>1. PICK g : /\ g[0] = << >> /\ FoldLeft(AddTurn, << >>, s) = g[N]
               /\ \A n \in 1 .. N : g[n] = AddTurn(g[n - 1], s[n])
  BY TurnSteps
<1> DEFINE P == {n \in 0 .. N : Fine(g[n], n)}
<1>2. 0 \in P
  <2>1. PICK ts : ts = << >>
    OBVIOUS
  <2>2. DOMAIN ts = {} /\ Len(ts) = 0 /\ ts \in Seq(Turn)
    BY <2>1
  <2>3. Alternating(ts) /\ InPlace(ts) /\ InRole(ts, p)
    BY <2>2 DEF Alternating, InPlace, InRole
  <2>4. PartsOf(ts) = {} /\ Sent(0) = {}
    BY <2>2 DEF PartsOf
  <2> HIDE DEF Sent
  <2>5. Fine(g[0], 0)
    BY <1>1, <2>1, <2>2, <2>3, <2>4
  <2> HIDE DEF Fine
  <2> QED
    BY <1>0, <2>5
<1>3. ASSUME NEW n \in 1 .. N, n - 1 \in P PROVE n \in P
  <2>1. PICK ts, m, new : ts = g[n - 1] /\ m = s[n] /\ new = AddTurn(ts, m)
    OBVIOUS
  <2>2. Fine(ts, n - 1) /\ m \in Msg /\ g[n] = new
    BY <1>0, <1>1, <1>3, <2>1
  <2>3. \A x \in PartsOf(ts) : x < m.part
    <3>1. \A a \in 1 .. (n - 1) : s[a].part < m.part
      BY <1>0, <2>1
    <3> QED
      BY <2>2, <3>1
  <2>4. p[m.part].role = m.role
    BY <1>0, <2>1
  <2>5. /\ new \in Seq(Turn) /\ Alternating(new) /\ InPlace(new) /\ InRole(new, p)
        /\ PartsOf(new) = PartsOf(ts) \cup {m.part}
    BY <2>1, <2>2, <2>3, <2>4, AddTurnKeeps
  <2>6. Sent(n) = Sent(n - 1) \cup {m.part}
    <3>1. 1 .. n = 1 .. (n - 1) \cup {n}
      BY <1>0
    <3> QED
      BY <2>1, <3>1
  <2> HIDE DEF Sent
  <2>7. Fine(g[n], n)
    BY <2>2, <2>5, <2>6
  <2> HIDE DEF Fine
  <2> QED
    BY <1>0, <2>7
<1>4. N \in P
  <2> HIDE DEF P, N
  <2>1. N \in Nat
    BY <1>0
  <2>2. \A n \in 1 .. N : n - 1 \in P => n \in P
    BY <1>3
  <2>3. 0 .. N \subseteq P
    BY <1>2, <2>1, <2>2, AlongPrefixes
  <2> QED
    BY <2>1, <2>3
<1>5. Fine(g[N], N)
  BY <1>4
<1>6. Sent(N) = {s[a].part : a \in DOMAIN s}
  BY <1>0
<1> HIDE DEF Sent
<1>7. PICK ts : ts = g[N]
  OBVIOUS
<1>8. ts = FoldLeft(AddTurn, << >>, s)
  BY <1>1, <1>7, Zenon
<1> QED
  BY <1>5, <1>6, <1>7, <1>8

LEMMA RequestWritten ==
    ASSUME write_request PROVE TurnsAlternate'
<1>1. PICK p \in Prompts : input' = [kind |-> "prompt", messages |-> p, request |-> _request(p)]
  BY DEF write_request
<1>2. p \in Seq(Msg) /\ \A i \in DOMAIN p : p[i].part = i
  BY PromptsAssumption DEF Msg, Roles
<1> DEFINE system == {m \in Range(p) : m.role = "system"}
           spoken == Range(p) \ system
           first == Select(p, system)
           then == Select(p, spoken)
           Systems == {i \in DOMAIN p : p[i].role = "system"}
<1>3. /\ first \in Seq(Msg) /\ Range(first) = system
      /\ \A a, b \in DOMAIN first : a < b => first[a].part < first[b].part
  <2>1. PICK w : w = system
    OBVIOUS
  <2>2. /\ Select(p, w) \in Seq(Msg) /\ Range(Select(p, w)) = Range(p) \cap w
        /\ \A a, b \in DOMAIN Select(p, w) : a < b => Select(p, w)[a].part < Select(p, w)[b].part
    BY <1>2, SelectRange, SelectInOrder
  <2>3. Range(p) \cap w = system
    BY <2>1
  <2> QED
    BY <2>1, <2>2, <2>3
<1>4. /\ then \in Seq(Msg) /\ Range(then) = spoken
      /\ \A a, b \in DOMAIN then : a < b => then[a].part < then[b].part
  <2>1. PICK w : w = spoken
    OBVIOUS
  <2>2. /\ Select(p, w) \in Seq(Msg) /\ Range(Select(p, w)) = Range(p) \cap w
        /\ \A a, b \in DOMAIN Select(p, w) : a < b => Select(p, w)[a].part < Select(p, w)[b].part
    BY <1>2, SelectRange, SelectInOrder
  <2>3. Range(p) \cap w = spoken
    BY <2>1
  <2> QED
    BY <2>1, <2>2, <2>3
<1>5. \A m \in Range(p) : m.part \in DOMAIN p /\ p[m.part] = m
  BY <1>2 DEF Range
<1>6. \A i \in DOMAIN p : p[i] \in Range(p) /\ p[i].part = i
  BY <1>2 DEF Range
<1>7. {m.part : m \in system} = Systems /\ {m.part : m \in spoken} = DOMAIN p \ Systems
  BY <1>5, <1>6
<1> HIDE DEF system, spoken, first, then
<1>8. \A a \in DOMAIN then : p[then[a].part].role = then[a].role
  <2>1. \A a \in DOMAIN then : then[a] \in Range(p)
    BY <1>4 DEF spoken, Range
  <2> QED
    BY <1>5, <2>1
<1>9. PICK ts : /\ ts = FoldLeft(AddTurn, << >>, then)
                /\ ts \in Seq(Turn) /\ Alternating(ts) /\ InPlace(ts) /\ InRole(ts, p)
                /\ PartsOf(ts) = {then[a].part : a \in DOMAIN then}
  BY <1>4, <1>8, TurnsFold
<1>10. {then[a].part : a \in DOMAIN then} = {m.part : m \in spoken}
  BY <1>4 DEF Range
<1>11. PICK sys : sys = [i \in DOMAIN first |-> first[i].part]
  OBVIOUS
<1>12. Range(sys) = {m.part : m \in system} /\ DOMAIN sys = DOMAIN first
  BY <1>3, <1>11 DEF Range
<1>13. \A i, j \in DOMAIN sys : i < j => sys[i] < sys[j]
  BY <1>3, <1>11
<1>14. _request(p) = [system |-> sys, turns |-> ts]
  BY <1>9, <1>11 DEF _request, first, then, spoken, system
<1>15. /\ input'.messages = p /\ input'.request.system = sys /\ input'.request.turns = ts
  BY <1>1, <1>14
<1>16. PartsOf(ts) = DOMAIN p \ Systems
  BY <1>7, <1>9, <1>10
<1>17. Range(sys) = Systems
  BY <1>7, <1>12
<1> QED
  BY <1>9, <1>13, <1>15, <1>16, <1>17 DEF TurnsAlternate, Alternating, InPlace, InRole, PartsOf

\* AdaptersAreFaithful, for bodies, responses and prompts of any length: what the
\* adapters of providers/ read ends honestly, a vector is its input's, turns alternate.
THEOREM AdaptersFaithful == Spec => []AdaptersAreFaithful
<1>1. Init => AdaptersAreFaithful
  BY DEF Init, AdaptersAreFaithful, OllamaEndsHonestly, VectorsMatchInputs, TurnsAlternate, Is
<1>2. AdaptersAreFaithful /\ [Next]_input => AdaptersAreFaithful'
  <2> SUFFICES ASSUME AdaptersAreFaithful, [Next]_input PROVE AdaptersAreFaithful'
    OBVIOUS
  <2>1. CASE UNCHANGED input
    BY <2>1 DEF AdaptersAreFaithful, OllamaEndsHonestly, VectorsMatchInputs, TurnsAlternate, Is,
                Adapter
  <2>2. ASSUME Next PROVE /\ read_stream \/ input'.kind # "stream"
                          /\ read_vectors \/ input'.kind # "vectors"
                          /\ write_request \/ input'.kind # "prompt"
    BY <2>2 DEF Next, parse_and_chunk, find_tables, ground, route, name_employee, build_gateway,
                read_stream, read_vectors, write_request
  <2>3. CASE Next
    <3>1. OllamaEndsHonestly'
      BY <2>2, <2>3, StreamRead DEF OllamaEndsHonestly, Is
    <3>2. VectorsMatchInputs'
      BY <2>2, <2>3, VectorsRead DEF VectorsMatchInputs, Is
    <3>3. TurnsAlternate'
      BY <2>2, <2>3, RequestWritten DEF TurnsAlternate, Is
    <3> QED
      BY <3>1, <3>2, <3>3 DEF AdaptersAreFaithful
  <2> QED
    BY <2>1, <2>3
<1> QED
  BY <1>1, <1>2, PTL DEF Spec

-----------------------------------------------------------------------------
(* Markers *)

Sentence == [stated : SUBSET Nat, marks : Seq(Nat)]
Repair == [sentence : Sentence, changed : Nat]

LEMMA AppendConcat ==
    ASSUME NEW T, NEW s \in Seq(T), NEW t \in Seq(T), NEW x \in T
    PROVE  Append(s \o t, x) = s \o Append(t, x) /\ Append(t, x) \in Seq(T)
<1>1. PICK one : one = <<x>>
  OBVIOUS
<1>2. one \in Seq(T)
  BY <1>1
<1>3. s \o t \in Seq(T) /\ Append(t, x) \in Seq(T)
  OBVIOUS
<1>4. Append(s \o t, x) = (s \o t) \o one /\ Append(t, x) = t \o one
  BY <1>1, <1>3, AppendIsConcat
<1>5. (s \o t) \o one = s \o (t \o one)
  BY <1>2, ConcatAssociative
<1> QED
  BY <1>3, <1>4, <1>5

\* Selecting from two parts is selecting from each.
LEMMA SelectConcat ==
    ASSUME NEW T, NEW s \in Seq(T), NEW t \in Seq(T), NEW wanted
    PROVE  Select(s \o t, wanted) = Select(s, wanted) \o Select(t, wanted)
<1>0. /\ s \o t \in Seq(T) /\ Len(s \o t) = Len(s) + Len(t) /\ Len(s) \in Nat /\ Len(t) \in Nat
      /\ \A i \in 1 .. Len(s) : (s \o t)[i] = s[i]
      /\ \A i \in 1 .. Len(t) : (s \o t)[Len(s) + i] = t[i]
  <2>1. /\ s \o t \in Seq(T) /\ Len(s \o t) = Len(s) + Len(t) /\ Len(s) \in Nat /\ Len(t) \in Nat
    OBVIOUS
  <2>2. \A i \in 1 .. Len(s) + Len(t) :
          (s \o t)[i] = IF i <= Len(s) THEN s[i] ELSE t[i - Len(s)]
    OBVIOUS
  <2>3. /\ \A i \in 1 .. Len(s) : i \in 1 .. Len(s) + Len(t) /\ i <= Len(s)
        /\ \A i \in 1 .. Len(t) : /\ Len(s) + i \in 1 .. Len(s) + Len(t) /\ ~ (Len(s) + i <= Len(s))
                                  /\ Len(s) + i - Len(s) = i
    BY <2>1
  <2> QED
    BY <2>1, <2>2, <2>3
<1>1. PICK u, L, M : u = s \o t /\ L = Len(s) /\ M = Len(t)
  OBVIOUS
<1>2. /\ u \in Seq(T) /\ Len(u) = L + M /\ L \in Nat /\ M \in Nat
      /\ \A i \in 1 .. L : u[i] = s[i]
      /\ \A i \in 1 .. M : u[L + i] = t[i]
  BY <1>0, <1>1
<1>3. PICK g : Selecting(g, u, wanted)
  BY <1>2, SelectSteps
<1>4. PICK h : Selecting(h, s, wanted)
  BY SelectSteps
<1>5. PICK k : Selecting(k, t, wanted)
  BY SelectSteps
<1>10. /\ g[0] = << >> /\ h[0] = << >> /\ k[0] = << >>
       /\ Select(u, wanted) = g[L + M] /\ Select(s, wanted) = h[L] /\ Select(t, wanted) = k[M]
  BY <1>1, <1>2, <1>3, <1>4, <1>5 DEF Selecting
<1>11. \A n \in 1 .. L + M :
         g[n] = IF u[n] \in wanted THEN Append(g[n - 1], u[n]) ELSE g[n - 1]
  BY <1>2, <1>3 DEF Selecting
<1>12. \A n \in 1 .. L : h[n] = IF s[n] \in wanted THEN Append(h[n - 1], s[n]) ELSE h[n - 1]
  BY <1>1, <1>4 DEF Selecting
<1>13. \A n \in 1 .. M : k[n] = IF t[n] \in wanted THEN Append(k[n - 1], t[n]) ELSE k[n - 1]
  BY <1>1, <1>5 DEF Selecting
<1>6. h[L] \in Seq(T)
  BY <1>10, SelectRange
<1>7. g[L] = h[L]
  <2> DEFINE P == {n \in 0 .. L : g[n] = h[n]}
  <2>1. 0 \in P
    BY <1>2, <1>10
  <2>2. ASSUME NEW n \in 1 .. L, n - 1 \in P PROVE n \in P
    <3>1. g[n - 1] = h[n - 1] /\ n \in 1 .. L + M /\ u[n] = s[n] /\ n \in 0 .. L
      BY <1>2, <2>2
    <3>4. g[n] = h[n]
      BY <1>11, <1>12, <3>1
    <3> QED
      BY <3>1, <3>4
  <2>3. \A n \in 1 .. L : n - 1 \in P => n \in P
    BY <2>2
  <2>4. 0 .. L \subseteq P
    <3> HIDE DEF P
    <3> QED
      BY <1>2, <2>1, <2>3, AlongPrefixes
  <2> QED
    BY <1>2, <2>4
<1>8. g[L + M] = h[L] \o k[M]
  <2>1. PICK pre : pre = h[L]
    OBVIOUS
  <2>2. PICK q : q = [n \in 0 .. M |-> g[L + n]]
    OBVIOUS
  <2>3. q[0] = pre /\ q[M] = g[L + M]
    BY <1>2, <1>7, <2>1, <2>2
  <2>4. ASSUME NEW n \in 1 .. M
        PROVE  q[n] = IF t[n] \in wanted THEN Append(q[n - 1], t[n]) ELSE q[n - 1]
    <3>1. PICK at, before : at = L + n /\ before = L + (n - 1)
      OBVIOUS
    <3>2. at \in 1 .. L + M /\ at - 1 = before /\ u[at] = t[n]
      BY <1>2, <3>1
    <3>3. n \in 0 .. M /\ n - 1 \in 0 .. M
      BY <1>2
    <3>4. q[n] = g[at]
      BY <2>2, <3>1, <3>3
    <3>5. q[n - 1] = g[before]
      BY <2>2, <3>1, <3>3
    <3>6. g[at] = IF u[at] \in wanted THEN Append(g[at - 1], u[at]) ELSE g[at - 1]
      BY <1>11, <3>2
    <3> QED
      BY <3>2, <3>4, <3>5, <3>6
  <2> DEFINE P == {n \in 0 .. M : k[n] \in Seq(T) /\ q[n] = pre \o k[n]}
  <2>5. 0 \in P
    <3>1. PICK none : none = << >>
      OBVIOUS
    <3>2. none \in Seq(T) /\ pre \o none = pre
      BY <1>6, <2>1, <3>1, ConcatEmptySeq
    <3>3. k[0] = none /\ q[0] = pre
      BY <1>10, <2>3, <3>1
    <3>4. k[0] \in Seq(T) /\ q[0] = pre \o k[0]
      BY <3>2, <3>3
    <3>5. 0 \in 0 .. M
      BY <1>2
    <3> QED
      BY <3>4, <3>5
  <2>6. ASSUME NEW n \in 1 .. M, n - 1 \in P PROVE n \in P
    <3>1. PICK old, x : old = k[n - 1] /\ x = t[n]
      OBVIOUS
    <3>2. old \in Seq(T) /\ q[n - 1] = pre \o old /\ pre \in Seq(T)
      BY <1>6, <2>1, <2>6, <3>1
    <3>3. x \in T /\ n \in 0 .. M
      BY <1>1, <1>2, <3>1
    <3>4. q[n] = IF x \in wanted THEN Append(pre \o old, x) ELSE pre \o old
      BY <2>4, <3>1, <3>2
    <3>5. k[n] = IF x \in wanted THEN Append(old, x) ELSE old
      BY <1>13, <3>1
    <3>6. Append(pre \o old, x) = pre \o Append(old, x) /\ Append(old, x) \in Seq(T)
      BY <3>2, <3>3, AppendConcat
    <3>7. k[n] \in Seq(T) /\ q[n] = pre \o k[n]
      BY <3>2, <3>4, <3>5, <3>6
    <3> QED
      BY <3>3, <3>7
  <2>7. \A n \in 1 .. M : n - 1 \in P => n \in P
    BY <2>6
  <2>8. M \in P
    <3> HIDE DEF P
    <3>1. M \in Nat
      BY <1>2
    <3>2. 0 .. M \subseteq P
      BY <2>5, <2>7, <3>1, AlongPrefixes
    <3> QED
      BY <3>1, <3>2
  <2>9. q[M] = pre \o k[M]
    BY <2>8
  <2> QED
    BY <2>1, <2>3, <2>9
<1> QED
  BY <1>1, <1>8, <1>10

LEMMA SelectLen ==
    ASSUME NEW T, NEW s \in Seq(T), NEW wanted
    PROVE  Len(Select(s, wanted)) \in 0 .. Len(s)
<1> DEFINE N == Len(s)
<1>0. N \in Nat /\ \A n \in 1 .. N : s[n] \in T
  OBVIOUS
<1>1. PICK g : /\ g[0] = << >> /\ Select(s, wanted) = g[N]
               /\ \A n \in 1 .. N :
                    g[n] = IF s[n] \in wanted THEN Append(g[n - 1], s[n]) ELSE g[n - 1]
  BY SelectSteps DEF Selecting
<1> DEFINE P == {n \in 0 .. N : g[n] \in Seq(T) /\ Len(g[n]) \in 0 .. n}
<1>2. 0 \in P
  <2>1. g[0] \in Seq(T) /\ Len(g[0]) = 0
    BY <1>1
  <2> QED
    BY <1>0, <2>1
<1>3. ASSUME NEW n \in 1 .. N, n - 1 \in P PROVE n \in P
  <2>1. PICK old : old = g[n - 1] /\ old \in Seq(T) /\ Len(old) \in 0 .. n - 1
    BY <1>3
  <2>2. g[n] = IF s[n] \in wanted THEN Append(old, s[n]) ELSE old
    BY <1>1, <2>1
  <2>3. Append(old, s[n]) \in Seq(T) /\ Len(Append(old, s[n])) = Len(old) + 1
    BY <1>0, <2>1
  <2>4. g[n] \in Seq(T) /\ Len(g[n]) \in 0 .. n
    BY <1>0, <2>1, <2>2, <2>3
  <2> QED
    BY <1>0, <2>4
<1>4. N \in P
  <2> HIDE DEF P, N
  <2>1. N \in Nat
    BY <1>0
  <2>2. \A n \in 1 .. N : n - 1 \in P => n \in P
    BY <1>3
  <2>3. 0 .. N \subseteq P
    BY <1>2, <2>1, <2>2, AlongPrefixes
  <2> QED
    BY <2>1, <2>3
<1> QED
  BY <1>1, <1>4

\* Joining the markers of the sentences, one by one.
LEMMA MarkSteps ==
    ASSUME NEW s \in Seq(Sentence)
    PROVE  \E g : /\ g[0] = << >> /\ AllMarks(s) = g[Len(s)]
                  /\ \A n \in 1 .. Len(s) : g[n] = g[n - 1] \o s[n].marks
<1> DEFINE N == Len(s)
           F == [p \in (1 .. N) \X Seq(Nat) |-> p[2] \o s[p[1]].marks]
           Eq(iter) == iter = [e \in SUBSET (1 .. N) |->
              IF e = {} THEN << >> ELSE iter[e \ {Max(e)}] \o s[Max(e)].marks]
<1>0. N \in Nat /\ DOMAIN s = 1 .. N /\ \A n \in 1 .. N : s[n] \in Sentence
  OBVIOUS
<1>1. F \in [(1 .. N) \X Seq(Nat) -> Seq(Nat)] /\ << >> \in Seq(Nat)
  <2>1. << >> \in Seq(Nat)
    OBVIOUS
  <2>2. \A n \in 1 .. N : s[n].marks \in Seq(Nat)
    BY <1>0 DEF Sentence
  <2> QED
    BY <1>0, <2>1, <2>2
<1>2. PICK it : Folds(it, N, Seq(Nat), << >>, F)
  <2> HIDE DEF F, N
  <2> QED
    BY <1>0, <1>1, SubsetRecursion
<1>3. ASSUME NEW e \in SUBSET (1 .. N), e # {}
      PROVE  it[e] = it[e \ {Max(e)}] \o s[Max(e)].marks
  <2>1. Max(e) \in 1 .. N /\ it[e \ {Max(e)}] \in Seq(Nat)
    BY <1>0, <1>2, <1>3, MaxIn DEF Folds
  <2> QED
    BY <1>2, <1>3, <2>1 DEF Folds
<1>4. Eq(it)
  BY <1>2, <1>3 DEF Folds
<1> DEFINE c == CHOOSE iter : Eq(iter)
<1>5. Eq(c)
  <2> HIDE DEF Eq
  <2> QED
    BY <1>4
<1>6. AllMarks(s) = c[1 .. N]
  BY <1>0 DEF AllMarks, FoldLeft, MapThenFoldSet
<1> HIDE DEF c
<1>7. c[{}] = << >>
  BY <1>5
<1>8. ASSUME NEW n \in 1 .. N
      PROVE  c[1 .. n] = c[1 .. (n - 1)] \o s[n].marks
  <2>1. /\ Max(1 .. n) = n /\ (1 .. n) \ {n} = 1 .. (n - 1)
        /\ 1 .. n \in SUBSET (1 .. N) /\ 1 .. n # {}
    BY <1>0, MaxPrefix
  <2> QED
    BY <1>5, <2>1
<1> DEFINE g == [n \in 0 .. N |-> c[1 .. n]]
<1>9. g[0] = << >> /\ g[N] = c[1 .. N]
  BY <1>0, <1>7
<1>10. ASSUME NEW n \in 1 .. N PROVE g[n - 1] = c[1 .. (n - 1)] /\ g[n] = c[1 .. n]
  BY <1>0
<1> HIDE DEF g
<1>11. \A n \in 1 .. N : g[n] = g[n - 1] \o s[n].marks
  BY <1>8, <1>10
<1> QED
  BY <1>6, <1>9, <1>11

\* Noting first uses, one by one.
LEMMA UseSteps ==
    ASSUME NEW s \in Seq(Nat)
    PROVE  \E g : /\ g[0] = << >> /\ FirstUses(s) = g[Len(s)]
                  /\ \A n \in 1 .. Len(s) : g[n] = IF s[n] \in Range(g[n - 1]) THEN g[n - 1] ELSE Append(g[n - 1], s[n])
<1> DEFINE N == Len(s)
           F == [p \in (1 .. N) \X Seq(Nat) |-> IF s[p[1]] \in Range(p[2]) THEN p[2] ELSE Append(p[2], s[p[1]])]
           Eq(iter) == iter = [e \in SUBSET (1 .. N) |->
              IF e = {} THEN << >> ELSE IF s[Max(e)] \in Range(iter[e \ {Max(e)}]) THEN iter[e \ {Max(e)}] ELSE Append(iter[e \ {Max(e)}], s[Max(e)])]
<1>0. N \in Nat /\ DOMAIN s = 1 .. N /\ \A n \in 1 .. N : s[n] \in Nat
  OBVIOUS
<1>1. F \in [(1 .. N) \X Seq(Nat) -> Seq(Nat)] /\ << >> \in Seq(Nat)
  <2>1. << >> \in Seq(Nat)
    OBVIOUS
  <2> QED
    BY <1>0, <2>1
<1>2. PICK it : Folds(it, N, Seq(Nat), << >>, F)
  <2> HIDE DEF F, N
  <2> QED
    BY <1>0, <1>1, SubsetRecursion
<1>3. ASSUME NEW e \in SUBSET (1 .. N), e # {}
      PROVE  it[e] = IF s[Max(e)] \in Range(it[e \ {Max(e)}]) THEN it[e \ {Max(e)}] ELSE Append(it[e \ {Max(e)}], s[Max(e)])
  <2>1. Max(e) \in 1 .. N /\ it[e \ {Max(e)}] \in Seq(Nat)
    BY <1>0, <1>2, <1>3, MaxIn DEF Folds
  <2> QED
    BY <1>2, <1>3, <2>1 DEF Folds
<1>4. Eq(it)
  BY <1>2, <1>3 DEF Folds
<1> DEFINE c == CHOOSE iter : Eq(iter)
<1>5. Eq(c)
  <2> HIDE DEF Eq
  <2> QED
    BY <1>4
<1>6. FirstUses(s) = c[1 .. N]
  BY <1>0 DEF FirstUses, FoldLeft, MapThenFoldSet
<1> HIDE DEF c
<1>7. c[{}] = << >>
  BY <1>5
<1>8. ASSUME NEW n \in 1 .. N
      PROVE  c[1 .. n] = IF s[n] \in Range(c[1 .. (n - 1)]) THEN c[1 .. (n - 1)] ELSE Append(c[1 .. (n - 1)], s[n])
  <2>1. /\ Max(1 .. n) = n /\ (1 .. n) \ {n} = 1 .. (n - 1)
        /\ 1 .. n \in SUBSET (1 .. N) /\ 1 .. n # {}
    BY <1>0, MaxPrefix
  <2> QED
    BY <1>5, <2>1
<1> DEFINE g == [n \in 0 .. N |-> c[1 .. n]]
<1>9. g[0] = << >> /\ g[N] = c[1 .. N]
  BY <1>0, <1>7
<1>10. ASSUME NEW n \in 1 .. N PROVE g[n - 1] = c[1 .. (n - 1)] /\ g[n] = c[1 .. n]
  BY <1>0
<1> HIDE DEF g
<1>11. \A n \in 1 .. N : g[n] = IF s[n] \in Range(g[n - 1]) THEN g[n - 1] ELSE Append(g[n - 1], s[n])
  BY <1>8, <1>10
<1> QED
  BY <1>6, <1>9, <1>11

\* Adding up the changes, one by one.
LEMMA ChangeSteps ==
    ASSUME NEW s \in Seq(Repair)
    PROVE  \E g : /\ g[0] = 0 /\ Changes(s) = g[Len(s)]
                  /\ \A n \in 1 .. Len(s) : g[n] = g[n - 1] + s[n].changed
<1> DEFINE N == Len(s)
           F == [p \in (1 .. N) \X Nat |-> p[2] + s[p[1]].changed]
           Eq(iter) == iter = [e \in SUBSET (1 .. N) |->
              IF e = {} THEN 0 ELSE iter[e \ {Max(e)}] + s[Max(e)].changed]
<1>0. N \in Nat /\ DOMAIN s = 1 .. N /\ \A n \in 1 .. N : s[n] \in Repair
  OBVIOUS
<1>1. F \in [(1 .. N) \X Nat -> Nat] /\ 0 \in Nat
  <2>1. \A n \in 1 .. N : s[n].changed \in Nat
    BY <1>0 DEF Repair
  <2> QED
    BY <1>0, <2>1
<1>2. PICK it : Folds(it, N, Nat, 0, F)
  <2> HIDE DEF F, N
  <2> QED
    BY <1>0, <1>1, SubsetRecursion
<1>3. ASSUME NEW e \in SUBSET (1 .. N), e # {}
      PROVE  it[e] = it[e \ {Max(e)}] + s[Max(e)].changed
  <2>1. Max(e) \in 1 .. N /\ it[e \ {Max(e)}] \in Nat
    BY <1>0, <1>2, <1>3, MaxIn DEF Folds
  <2> QED
    BY <1>2, <1>3, <2>1 DEF Folds
<1>4. Eq(it)
  BY <1>2, <1>3 DEF Folds
<1> DEFINE c == CHOOSE iter : Eq(iter)
<1>5. Eq(c)
  <2> HIDE DEF Eq
  <2> QED
    BY <1>4
<1>6. Changes(s) = c[1 .. N]
  BY <1>0 DEF Changes, FoldLeft, MapThenFoldSet
<1> HIDE DEF c
<1>7. c[{}] = 0
  BY <1>5
<1>8. ASSUME NEW n \in 1 .. N
      PROVE  c[1 .. n] = c[1 .. (n - 1)] + s[n].changed
  <2>1. /\ Max(1 .. n) = n /\ (1 .. n) \ {n} = 1 .. (n - 1)
        /\ 1 .. n \in SUBSET (1 .. N) /\ 1 .. n # {}
    BY <1>0, MaxPrefix
  <2> QED
    BY <1>5, <2>1
<1> DEFINE g == [n \in 0 .. N |-> c[1 .. n]]
<1>9. g[0] = 0 /\ g[N] = c[1 .. N]
  BY <1>0, <1>7
<1>10. ASSUME NEW n \in 1 .. N PROVE g[n - 1] = c[1 .. (n - 1)] /\ g[n] = c[1 .. n]
  BY <1>0
<1> HIDE DEF g
<1>11. \A n \in 1 .. N : g[n] = g[n - 1] + s[n].changed
  BY <1>8, <1>10
<1> QED
  BY <1>6, <1>9, <1>11

\* Citations in order: none twice, and each first used before the next.
Ordered(c, m) ==
    \A i, j \in 1 .. Len(c) : i < j =>
      /\ c[i] # c[j]
      /\ \A b \in 1 .. Len(m) : m[b] = c[j] => \E a \in 1 .. b : m[a] = c[i]

LEMMA OrderedAppend ==
    ASSUME NEW m \in Seq(Nat), NEW n \in 1 .. Len(m), NEW c \in Seq(Nat), Ordered(c, m),
           Range(c) = {m[i] : i \in 1 .. (n - 1)}, m[n] \notin Range(c)
    PROVE  Ordered(Append(c, m[n]), m)
<1>1. PICK x, new : x = m[n] /\ new = Append(c, x)
  OBVIOUS
<1>2. PICK L : L = Len(c)
  OBVIOUS
<1>3. /\ L \in Nat /\ Len(new) = L + 1 /\ new[L + 1] = x /\ x \in Nat
      /\ \A i \in 1 .. L : new[i] = c[i] /\ c[i] \in Range(c)
  <2>1. L \in Nat /\ x \in Nat
    BY <1>1, <1>2
  <2>2. Len(new) = L + 1 /\ new[L + 1] = x /\ \A i \in 1 .. L : new[i] = c[i]
    BY <1>1, <1>2, <2>1
  <2>3. \A i \in 1 .. L : c[i] \in Range(c)
    BY <1>2 DEF Range
  <2> QED
    BY <2>1, <2>2, <2>3
<1>4. ASSUME NEW i \in 1 .. L, NEW b \in 1 .. Len(m), m[b] = x
      PROVE  c[i] # x /\ \E a \in 1 .. b : m[a] = c[i]
  <2>1. PICK a \in 1 .. (n - 1) : c[i] = m[a]
    BY <1>3
  <2>2. ~ (b \in 1 .. (n - 1))
    BY <1>1, <1>4
  <2>3. a \in 1 .. b
    BY <2>2
  <2>4. c[i] # x
    BY <1>1, <1>3
  <2> QED
    BY <2>1, <2>3, <2>4
<1>5. ASSUME NEW i \in 1 .. L + 1, NEW j \in 1 .. L + 1, i < j
      PROVE  /\ new[i] # new[j]
             /\ \A b \in 1 .. Len(m) : m[b] = new[j] => \E a \in 1 .. b : m[a] = new[i]
  <2>1. i \in 1 .. L /\ new[i] = c[i]
    BY <1>3, <1>5
  <2>2. CASE j = L + 1
    <3>1. new[j] = x /\ n \in 1 .. Len(m) /\ m[n] = x
      BY <1>1, <1>3, <2>2
    <3> QED
      BY <1>4, <2>1, <3>1
  <2>3. CASE j \in 1 .. L
    <3>1. new[j] = c[j] /\ i \in 1 .. Len(c) /\ j \in 1 .. Len(c)
      BY <1>2, <1>3, <2>1, <2>3
    <3>2. /\ c[i] # c[j]
          /\ \A b \in 1 .. Len(m) : m[b] = c[j] => \E a \in 1 .. b : m[a] = c[i]
      BY <1>5, <3>1 DEF Ordered
    <3> QED
      BY <2>1, <3>1, <3>2
  <2> QED
    BY <1>3, <2>2, <2>3
<1>6. Ordered(new, m)
  BY <1>3, <1>5 DEF Ordered
<1> QED
  BY <1>1, <1>6

LEMMA FirstUsesOrdered ==
    ASSUME NEW m \in Seq(Nat)
    PROVE  /\ FirstUses(m) \in Seq(Nat) /\ Range(FirstUses(m)) = Range(m)
           /\ Ordered(FirstUses(m), m)
<1> DEFINE N == Len(m)
           Before(n) == {m[i] : i \in 1 .. n}
<1>0. N \in Nat /\ DOMAIN m = 1 .. N /\ \A n \in 1 .. N : m[n] \in Nat
  OBVIOUS
<1>1. PICK g : /\ g[0] = << >> /\ FirstUses(m) = g[N]
               /\ \A n \in 1 .. N :
                    g[n] = IF m[n] \in Range(g[n - 1]) THEN g[n - 1] ELSE Append(g[n - 1], m[n])
  BY UseSteps
<1> DEFINE P == {n \in 0 .. N : /\ g[n] \in Seq(Nat) /\ Range(g[n]) = Before(n)
                                /\ Ordered(g[n], m)}
<1>2. 0 \in P
  <2>1. Range(<< >>) = {} /\ Before(0) = {}
    BY DEF Range
  <2>2. Ordered(<< >>, m)
    BY DEF Ordered
  <2> HIDE DEF Before
  <2>3. g[0] \in Seq(Nat) /\ Range(g[0]) = Before(0) /\ Ordered(g[0], m)
    <3>1. PICK none : none = << >>
      OBVIOUS
    <3>2. g[0] = none /\ none \in Seq(Nat)
      BY <1>1, <3>1
    <3>3. Range(none) = Before(0) /\ Ordered(none, m)
      BY <2>1, <2>2, <3>1
    <3> QED
      BY <3>2, <3>3
  <2>4. 0 \in 0 .. N
    BY <1>0
  <2> QED
    BY <2>3, <2>4
<1>3. ASSUME NEW n \in 1 .. N, n - 1 \in P PROVE n \in P
  <2>1. PICK old, x : old = g[n - 1] /\ x = m[n]
    OBVIOUS
  <2>2. old \in Seq(Nat) /\ Range(old) = Before(n - 1) /\ Ordered(old, m)
    BY <1>3, <2>1
  <2>3. 1 .. n = 1 .. (n - 1) \cup {n}
    BY <1>0
  <2>4. Before(n) = Before(n - 1) \cup {x}
    BY <2>1, <2>3
  <2>5. Range(Append(old, x)) = Range(old) \cup {x} /\ Append(old, x) \in Seq(Nat)
    <3>1. x \in Nat /\ old \in Seq(Nat)
      BY <1>0, <2>1, <2>2
    <3> QED
      BY <3>1, AppendRange
  <2>6. g[n] = IF x \in Range(old) THEN old ELSE Append(old, x)
    BY <1>1, <2>1
  <2>7. x \notin Range(old) => Ordered(Append(old, x), m)
    BY <2>1, <2>2, OrderedAppend
  <2> HIDE DEF Before
  <2>8. g[n] \in Seq(Nat) /\ Range(g[n]) = Before(n) /\ Ordered(g[n], m)
    BY <2>2, <2>4, <2>5, <2>6, <2>7
  <2> QED
    BY <2>8
<1>4. N \in P
  <2> HIDE DEF P, N
  <2>1. N \in Nat
    BY <1>0
  <2>2. \A n \in 1 .. N : n - 1 \in P => n \in P
    BY <1>3
  <2>3. 0 .. N \subseteq P
    BY <1>2, <2>1, <2>2, AlongPrefixes
  <2> QED
    BY <2>1, <2>3
<1>5. Before(N) = Range(m)
  BY <1>0 DEF Range
<1> QED
  BY <1>1, <1>4, <1>5

LEMMA SelectNothing == ASSUME NEW wanted PROVE Select(<< >>, wanted) = << >>
<1>0. PICK none : none = << >>
  OBVIOUS
<1>1. none = << >> /\ none \in Seq(Nat) /\ Len(none) = 0
  BY <1>0
<1>2. PICK g : Selecting(g, none, wanted)
  BY <1>1, SelectSteps
<1>3. Select(none, wanted) = none
  BY <1>1, <1>2 DEF Selecting
<1> QED
  BY <1>1, <1>3

Kept(text, wanted) ==
    [i \in DOMAIN text |-> [text[i] EXCEPT !.marks = Select(@, wanted)]]

LEMMA KeptText ==
    ASSUME NEW text \in Seq(Sentence), NEW wanted
    PROVE  /\ Kept(text, wanted) \in Seq(Sentence)
           /\ Len(Kept(text, wanted)) = Len(text)
           /\ \A i \in 1 .. Len(text) :
                /\ Kept(text, wanted)[i].stated = text[i].stated
                /\ Kept(text, wanted)[i].marks = Select(text[i].marks, wanted)
<1>1. ASSUME NEW i \in 1 .. Len(text)
      PROVE  /\ [text[i] EXCEPT !.marks = Select(@, wanted)] \in Sentence
             /\ [text[i] EXCEPT !.marks = Select(@, wanted)].stated = text[i].stated
             /\ [text[i] EXCEPT !.marks = Select(@, wanted)].marks = Select(text[i].marks, wanted)
  <2>1. PICK s : s = text[i]
    OBVIOUS
  <2>0. s \in Sentence
    BY <2>1
  <2>2. s \in [stated : SUBSET Nat, marks : Seq(Nat)]
    BY <2>0 DEF Sentence
  <2>3. s.marks \in Seq(Nat)
    BY <2>2
  <2>4. PICK kept : kept = Select(s.marks, wanted)
    OBVIOUS
  <2>5. kept \in Seq(Nat)
    BY <2>3, <2>4, SelectRange
  <2>6. [s EXCEPT !.marks = kept] \in Sentence /\ [s EXCEPT !.marks = kept].stated = s.stated
        /\ [s EXCEPT !.marks = kept].marks = kept
    BY <2>2, <2>5 DEF Sentence
  <2>7. [text[i] EXCEPT !.marks = Select(@, wanted)] = [s EXCEPT !.marks = kept]
    BY <2>1, <2>4
  <2> QED
    BY <2>1, <2>4, <2>6, <2>7
<1>2. DOMAIN text = 1 .. Len(text) /\ Len(text) \in Nat
  OBVIOUS
<1>3. PICK k : k = Kept(text, wanted)
  OBVIOUS
<1>4. /\ k = [i \in 1 .. Len(text) |-> [text[i] EXCEPT !.marks = Select(@, wanted)]]
  BY <1>2, <1>3 DEF Kept
<1>5. k \in Seq(Sentence) /\ Len(k) = Len(text)
  <2>1. k \in [1 .. Len(text) -> Sentence]
    BY <1>1, <1>4
  <2> QED
    BY <1>2, <2>1
<1>6. \A i \in 1 .. Len(text) : /\ k[i].stated = text[i].stated
                                /\ k[i].marks = Select(text[i].marks, wanted)
  BY <1>1, <1>4
<1> QED
  BY <1>3, <1>5, <1>6

\* The markers of the sentences kept are the markers kept.
LEMMA KeptMarks ==
    ASSUME NEW text \in Seq(Sentence), NEW wanted
    PROVE  /\ AllMarks(text) \in Seq(Nat)
           /\ AllMarks(Kept(text, wanted)) = Select(AllMarks(text), wanted)
<1>1. PICK k, N : k = Kept(text, wanted) /\ N = Len(text)
  OBVIOUS
<1>2. /\ N \in Nat /\ k \in Seq(Sentence) /\ Len(k) = N
      /\ \A n \in 1 .. N : k[n].marks = Select(text[n].marks, wanted) /\ text[n].marks \in Seq(Nat)
  <2>0. \A n \in 1 .. N : text[n] \in Sentence
    BY <1>1
  <2>1. \A n \in 1 .. N : text[n].marks \in Seq(Nat)
    BY <2>0 DEF Sentence
  <2> QED
    BY <1>1, <2>1, KeptText
<1>3. PICK g : /\ g[0] = << >> /\ AllMarks(text) = g[N]
               /\ \A n \in 1 .. N : g[n] = g[n - 1] \o text[n].marks
  BY <1>1, MarkSteps
<1>4. PICK h : /\ h[0] = << >> /\ AllMarks(k) = h[N]
               /\ \A n \in 1 .. N : h[n] = h[n - 1] \o k[n].marks
  <2>1. \E h : /\ h[0] = << >> /\ AllMarks(k) = h[Len(k)]
               /\ \A n \in 1 .. Len(k) : h[n] = h[n - 1] \o k[n].marks
    BY <1>2, MarkSteps
  <2> QED
    BY <1>2, <2>1
<1> DEFINE P == {n \in 0 .. N : g[n] \in Seq(Nat) /\ h[n] = Select(g[n], wanted)}
<1>5. 0 \in P
  <2>1. g[0] \in Seq(Nat) /\ h[0] = Select(g[0], wanted)
    BY <1>3, <1>4, SelectNothing
  <2>2. 0 \in 0 .. N
    BY <1>2
  <2> QED
    BY <2>1, <2>2
<1>6. ASSUME NEW n \in 1 .. N, n - 1 \in P PROVE n \in P
  <2>1. PICK old, m : old = g[n - 1] /\ m = text[n].marks
    OBVIOUS
  <2>2. old \in Seq(Nat) /\ h[n - 1] = Select(old, wanted) /\ m \in Seq(Nat)
    BY <1>2, <1>6, <2>1
  <2>3. g[n] = old \o m /\ h[n] = Select(old, wanted) \o Select(m, wanted)
    BY <1>2, <1>3, <1>4, <2>1, <2>2
  <2>4. old \o m \in Seq(Nat)
    BY <2>2
  <2>5. Select(old \o m, wanted) = Select(old, wanted) \o Select(m, wanted)
    BY <2>2, SelectConcat
  <2>6. n \in 0 .. N
    BY <1>2
  <2>7. g[n] \in Seq(Nat) /\ h[n] = Select(g[n], wanted)
    BY <2>3, <2>4, <2>5
  <2> QED
    BY <2>6, <2>7
<1>7. N \in P
  <2> HIDE DEF P
  <2>1. \A n \in 1 .. N : n - 1 \in P => n \in P
    BY <1>6
  <2>2. 0 .. N \subseteq P
    BY <1>2, <1>5, <2>1, AlongPrefixes
  <2> QED
    BY <1>2, <2>2
<1>8. g[N] \in Seq(Nat) /\ h[N] = Select(g[N], wanted)
  BY <1>7
<1> QED
  BY <1>1, <1>3, <1>4, <1>8

LEMMA ChangesType == ASSUME NEW s \in Seq(Repair) PROVE Changes(s) \in Nat
<1> DEFINE N == Len(s)
<1>0. N \in Nat /\ \A n \in 1 .. N : s[n].changed \in Nat
  <2>1. N \in Nat /\ \A n \in 1 .. N : s[n] \in Repair
    OBVIOUS
  <2> QED
    BY <2>1 DEF Repair
<1>1. PICK g : /\ g[0] = 0 /\ Changes(s) = g[N]
               /\ \A n \in 1 .. N : g[n] = g[n - 1] + s[n].changed
  BY ChangeSteps
<1> DEFINE P == {n \in 0 .. N : g[n] \in Nat}
<1>2. 0 \in P
  BY <1>0, <1>1
<1>3. ASSUME NEW n \in 1 .. N, n - 1 \in P PROVE n \in P
  <2>1. g[n - 1] \in Nat /\ s[n].changed \in Nat /\ g[n] = g[n - 1] + s[n].changed
    BY <1>0, <1>1, <1>3
  <2>2. g[n] \in Nat
    BY <2>1
  <2>3. n \in 0 .. N
    BY <1>0
  <2> QED
    BY <2>2, <2>3
<1>4. N \in P
  <2> HIDE DEF P, N
  <2>1. N \in Nat
    BY <1>0
  <2>2. \A n \in 1 .. N : n - 1 \in P => n \in P
    BY <1>3
  <2>3. 0 .. N \subseteq P
    BY <1>2, <2>1, <2>2, AlongPrefixes
  <2> QED
    BY <2>1, <2>3
<1> QED
  BY <1>1, <1>4

LEMMA FiniteRange ==
    ASSUME NEW T, NEW s \in Seq(T) PROVE IsFiniteSet(Range(s))
<1>1. s \in [1 .. Len(s) -> Range(s)] /\ \A x \in Range(s) : \E i \in 1 .. Len(s) : s[i] = x
  BY DEF Range
<1>2. s \in Surjection(1 .. Len(s), Range(s))
  BY <1>1, Fun_IsSurj
<1>3. IsFiniteSet(1 .. Len(s))
  BY FS_Interval
<1> QED
  BY <1>2, <1>3, FS_Surjection

Mark == [form : Forms, n : Nat]

\* Normalising keeps the shape of a sentence, and its figures finitely many.
LEMMA NormalSentenceType ==
    ASSUME NEW s \in [stated : SUBSET Nat, marks : Seq(Mark)], IsFiniteSet(s.stated),
           NEW sources
    PROVE  /\ NormalSentence(s, sources) \in Sentence
           /\ IsFiniteSet(NormalSentence(s, sources).stated)
<1> DEFINE Text(m) == m.form = "prose" /\ ~ ValidIn(m.n, sources)
           texts == {m \in Range(s.marks) : Text(m)}
           figures == {m.n : m \in {m \in Range(s.marks) : Text(m)}}
           marks == Select(s.marks, {m \in Range(s.marks) : ~ Text(m)})
<1>1. s.marks \in Seq(Mark) /\ s.stated \subseteq Nat
  OBVIOUS
<1>2. \A m \in Range(s.marks) : m.n \in Nat
  <2>1. \A m \in Range(s.marks) : m \in Mark
    BY <1>1, RangeIn
  <2> QED
    BY <2>1 DEF Mark
<1>3. IsFiniteSet(figures)
  <2>1. IsFiniteSet(texts)
    <3>1. IsFiniteSet(Range(s.marks)) /\ texts \in SUBSET Range(s.marks)
      BY <1>1, FiniteRange
    <3> HIDE DEF texts
    <3> QED
      BY <3>1, FS_Subset
  <2>2. [m \in texts |-> m.n] \in [texts -> figures]
        /\ \A x \in figures : \E m \in texts : [k \in texts |-> k.n][m] = x
    OBVIOUS
  <2>3. PICK f : f \in [texts -> figures] /\ \A x \in figures : \E m \in texts : f[m] = x
    BY <2>2
  <2> HIDE DEF texts, figures
  <2>4. f \in Surjection(texts, figures)
    BY <2>3, Fun_IsSurj
  <2> QED
    BY <2>1, <2>4, FS_Surjection
<1>4. figures \subseteq Nat
  BY <1>2
<1>5. marks \in Seq(Mark)
  BY <1>1, SelectRange
<1>6. [i \in DOMAIN marks |-> marks[i].n] \in Seq(Nat)
  <2> HIDE DEF marks
  <2>1. DOMAIN marks = 1 .. Len(marks) /\ Len(marks) \in Nat
        /\ \A i \in 1 .. Len(marks) : marks[i] \in Mark
    BY <1>5
  <2>2. \A i \in 1 .. Len(marks) : marks[i].n \in Nat
    BY <2>1 DEF Mark
  <2> QED
    BY <2>1, <2>2
<1>7. PICK all, numbers : all = s.stated \cup figures
                          /\ numbers = [i \in DOMAIN marks |-> marks[i].n]
  OBVIOUS
<1>8. NormalSentence(s, sources) = [stated |-> all, marks |-> numbers]
  BY <1>7 DEF NormalSentence
<1>9. IsFiniteSet(all)
  <2> HIDE DEF figures
  <2> QED
    BY <1>3, <1>7, FS_Union
<1>10. all \in SUBSET Nat /\ numbers \in Seq(Nat)
  BY <1>1, <1>4, <1>6, <1>7
<1> QED
  BY <1>8, <1>9, <1>10 DEF Sentence

-----------------------------------------------------------------------------
(* Replacements *)

\* The source taken is one that states a missing figure.
LEMMA BestStates ==
    ASSUME NEW have \in Seq(SUBSET Nat), NEW missing, IsFiniteSet(missing),
           NEW f \in missing, NEW some \in DOMAIN have, f \in have[some]
    PROVE  /\ BestSource(have, missing) \in DOMAIN have
           /\ have[BestSource(have, missing)] \cap missing # {}
<1> DEFINE size(n) == Cardinality(have[n] \cap missing)
           Better(n, k) == size(n) > size(k) \/ (size(n) = size(k) /\ n <= k)
<1>0. DOMAIN have \subseteq Nat
  OBVIOUS
<1>1. \A n : size(n) \in 0 .. Cardinality(missing) /\ IsFiniteSet(have[n] \cap missing)
  <2> SUFFICES ASSUME NEW n
               PROVE  size(n) \in 0 .. Cardinality(missing) /\ IsFiniteSet(have[n] \cap missing)
    OBVIOUS
  <2>1. have[n] \cap missing \in SUBSET missing
    OBVIOUS
  <2>2. PICK part : part = have[n] \cap missing
    OBVIOUS
  <2>3. IsFiniteSet(part) /\ Cardinality(part) <= Cardinality(missing)
    BY <2>1, <2>2, FS_Subset
  <2>4. Cardinality(part) \in Nat /\ Cardinality(missing) \in Nat
    BY <2>3, FS_CardinalityType
  <2> QED
    BY <2>2, <2>3, <2>4
<1>2. PICK all : all = Cardinality(missing) /\ all \in Nat
  BY FS_CardinalityType
<1>3. \E n \in DOMAIN have : \A k \in DOMAIN have : Better(n, k)
  <2> DEFINE W == {all - size(n) : n \in DOMAIN have}
  <2>0. \A n : size(n) \in Nat /\ size(n) <= all
    BY <1>1, <1>2
  <2> HIDE DEF size
  <2>1. W \subseteq Nat /\ W # {}
    BY <1>2, <2>0
  <2>2. PICK w \in W : \A x \in W : w <= x
    <3> HIDE DEF W
    <3> QED
      BY <2>1, Least
  <2> DEFINE V == {n \in DOMAIN have : all - size(n) = w}
  <2>3. V \subseteq Nat /\ V # {}
    BY <1>0, <2>2
  <2>4. PICK n \in V : \A k \in V : n <= k
    <3> HIDE DEF V
    <3> QED
      BY <2>3, Least
  <2>5. ASSUME NEW k \in DOMAIN have PROVE Better(n, k)
    <3>1. all - size(n) <= all - size(k) /\ all - size(n) = w
      BY <2>2, <2>4
    <3>2. CASE size(n) = size(k)
      <4>1. k \in V
        BY <3>1, <3>2
      <4> QED
        BY <2>4, <3>2, <4>1
    <3>3. CASE size(n) # size(k)
      BY <1>2, <2>0, <3>1, <3>3
    <3> QED
      BY <3>2, <3>3
  <2>6. n \in DOMAIN have
    BY <2>4
  <2> QED
    BY <2>5, <2>6
<1>4. PICK best : best = BestSource(have, missing)
  OBVIOUS
<1>5. best \in DOMAIN have /\ \A k \in DOMAIN have : Better(best, k)
  <2>1. best = CHOOSE n \in DOMAIN have : \A k \in DOMAIN have : Better(n, k)
    BY <1>4 DEF BestSource
  <2> HIDE DEF Better
  <2> QED
    BY <1>3, <2>1
<1>6. size(some) # 0
  <2>1. have[some] \cap missing # {}
    OBVIOUS
  <2>2. PICK part : part = have[some] \cap missing
    OBVIOUS
  <2>3. IsFiniteSet(part) /\ part # {}
    BY <1>1, <2>1, <2>2
  <2>4. Cardinality(part) # 0
    BY <2>3, FS_EmptySet
  <2> QED
    BY <2>2, <2>4
<1>7. size(best) # 0
  <2>1. Better(best, some)
    BY <1>5
  <2>2. size(best) \in Nat /\ size(some) \in Nat
    BY <1>1
  <2> HIDE DEF size
  <2> QED
    BY <1>6, <2>1, <2>2
<1>8. have[best] \cap missing # {}
  BY <1>7, FS_EmptySet
<1> QED
  BY <1>4, <1>5, <1>8

\* One round of the loop.
Takes(have, missing, taken) ==
    IF missing = {} THEN << >>
    ELSE LET best == BestSource(have, missing) IN
         IF have[best] \cap missing = {} THEN << >>
         ELSE <<best>> \o taken[missing \ have[best]]

LEMMA SmallerRest ==
    ASSUME NEW missing, IsFiniteSet(missing), NEW taken, missing \cap taken # {}
    PROVE  /\ IsFiniteSet(missing \ taken) /\ Cardinality(missing \ taken) \in Nat
           /\ Cardinality(missing) \in Nat /\ Cardinality(missing \ taken) < Cardinality(missing)
<1>1. PICK rest : rest = missing \ taken
  OBVIOUS
<1>2. rest \in SUBSET missing /\ rest # missing
  BY <1>1
<1>3. /\ IsFiniteSet(rest) /\ Cardinality(rest) <= Cardinality(missing)
      /\ Cardinality(rest) # Cardinality(missing)
  BY <1>2, FS_Subset
<1>4. Cardinality(rest) \in Nat /\ Cardinality(missing) \in Nat
  BY <1>3, FS_CardinalityType
<1>5. Cardinality(rest) < Cardinality(missing)
  BY <1>3, <1>4
<1> QED
  BY <1>1, <1>3, <1>4, <1>5

\* The loop ends: the function it computes exists.
LEMMA LoopExists ==
    ASSUME NEW have, NEW all, IsFiniteSet(all)
    PROVE  \E taken : taken = [missing \in SUBSET all |-> Takes(have, missing, taken)]
<1> DEFINE Upto(n) == {m \in SUBSET all : Cardinality(m) <= n}
           Good(t, n) == t = [m \in Upto(n) |-> Takes(have, m, t)]
           P == {n \in 0 .. Cardinality(all) : \E t : Good(t, n)}
<1>1. Cardinality(all) \in Nat
  BY FS_CardinalityType
<1>2. ASSUME NEW m \in SUBSET all
      PROVE  IsFiniteSet(m) /\ Cardinality(m) \in Nat /\ Cardinality(m) <= Cardinality(all)
  <2>1. IsFiniteSet(m) /\ Cardinality(m) <= Cardinality(all)
    BY FS_Subset
  <2> QED
    BY <2>1, FS_CardinalityType
<1>3. 0 \in P
  <2>1. PICK t : t = [m \in Upto(0) |-> << >>]
    OBVIOUS
  <2>2. \A m \in Upto(0) : m = {}
    <3> SUFFICES ASSUME NEW m \in SUBSET all, Cardinality(m) <= 0 PROVE m = {}
      OBVIOUS
    <3>1. IsFiniteSet(m) /\ Cardinality(m) = 0
      BY <1>2
    <3> QED
      BY <3>1, FS_EmptySet
  <2> HIDE DEF Upto
  <2>3. \A m \in Upto(0) : Takes(have, m, t) = << >>
    BY <2>2 DEF Takes
  <2>4. Good(t, 0)
    BY <2>1, <2>3
  <2> HIDE DEF Good
  <2> QED
    BY <1>1, <2>4
<1>4. ASSUME NEW n \in 1 .. Cardinality(all), n - 1 \in P PROVE n \in P
  <2>1. PICK t : Good(t, n - 1)
    BY <1>4
  <2>2. PICK new : new = [m \in Upto(n) |-> IF m \in Upto(n - 1) THEN t[m] ELSE Takes(have, m, t)]
    OBVIOUS
  <2>3. ASSUME NEW m \in Upto(n), NEW source, source \cap m # {}
        PROVE  m \ source \in Upto(n - 1) /\ m \ source \in Upto(n)
    <3>1. m \in SUBSET all /\ m \ source \in SUBSET all /\ m \cap source # {}
      BY <2>3
    <3>2. Cardinality(m \ source) < Cardinality(m) /\ Cardinality(m \ source) \in Nat
          /\ Cardinality(m) \in Nat
      BY <1>2, <3>1, SmallerRest
    <3>3. Cardinality(m \ source) <= n - 1 /\ Cardinality(m \ source) <= n
      BY <1>1, <3>2
    <3> QED
      BY <3>1, <3>3
  <2>4. ASSUME NEW m \in Upto(n) PROVE Takes(have, m, new) = Takes(have, m, t)
    <3>1. PICK best : best = BestSource(have, m)
      OBVIOUS
    <3>2. have[best] \cap m # {} => new[m \ have[best]] = t[m \ have[best]]
      <4> HIDE DEF Upto
      <4> QED
        BY <2>2, <2>3
    <3> QED
      BY <3>1, <3>2 DEF Takes
  <2>5. ASSUME NEW m \in Upto(n) PROVE new[m] = Takes(have, m, new)
    <3> HIDE DEF Upto
    <3>1. CASE m \in Upto(n - 1)
      <4>1. new[m] = t[m] /\ t[m] = Takes(have, m, t)
        BY <2>1, <2>2, <3>1
      <4> QED
        BY <2>4, <4>1
    <3>2. CASE m \notin Upto(n - 1)
      BY <2>2, <2>4, <3>2
    <3> QED
      BY <3>1, <3>2
  <2>6. Good(new, n)
    <3> HIDE DEF Upto
    <3>1. new = [m \in Upto(n) |-> new[m]]
      BY <2>2
    <3> QED
      BY <2>5, <3>1
  <2> HIDE DEF Good
  <2> QED
    BY <2>6
<1>5. Cardinality(all) \in P
  <2> HIDE DEF P
  <2>1. \A n \in 1 .. Cardinality(all) : n - 1 \in P => n \in P
    BY <1>4
  <2>2. 0 .. Cardinality(all) \subseteq P
    BY <1>1, <1>3, <2>1, AlongPrefixes
  <2> QED
    BY <1>1, <2>2
<1>6. Upto(Cardinality(all)) = SUBSET all
  BY <1>2
<1>7. PICK t : Good(t, Cardinality(all))
  BY <1>5
<1>8. t = [m \in SUBSET all |-> Takes(have, m, t)]
  <2> HIDE DEF Upto
  <2> QED
    BY <1>6, <1>7
<1> QED
  BY <1>8

\* The sources taken state, together, every figure that was missing.
LEMMA ReplacementsCover ==
    ASSUME NEW have \in Seq(SUBSET Nat), NEW all, IsFiniteSet(all),
           \A f \in all : \E n \in DOMAIN have : f \in have[n]
    PROVE  /\ Replacements(have, all) \in Seq(DOMAIN have)
           /\ \A f \in all : \E n \in Range(Replacements(have, all)) : f \in have[n]
<1> DEFINE Loop(t) == t = [missing \in SUBSET all |-> Takes(have, missing, t)]
           taken == CHOOSE t : Loop(t)
           Covers(r, m) == /\ r \in Seq(DOMAIN have)
                           /\ \A f \in m : \E n \in Range(r) : f \in have[n]
<1>1. Loop(taken)
  <2>1. \E t : Loop(t)
    BY LoopExists
  <2> HIDE DEF Loop
  <2> QED
    BY <2>1
<1>2. Replacements(have, all) = taken[all]
  BY DEF Replacements, Takes
<1> HIDE DEF taken
<1>3. Cardinality(all) \in Nat
  BY FS_CardinalityType
<1>4. ASSUME NEW m \in SUBSET all
      PROVE  /\ IsFiniteSet(m) /\ Cardinality(m) \in Nat /\ Cardinality(m) <= Cardinality(all)
             /\ taken[m] = Takes(have, m, taken)
  <2>1. IsFiniteSet(m) /\ Cardinality(m) <= Cardinality(all)
    BY FS_Subset
  <2>2. taken[m] = Takes(have, m, taken)
    BY <1>1
  <2> QED
    BY <2>1, <2>2, FS_CardinalityType
<1> DEFINE P == {n \in 0 .. Cardinality(all) :
                   \A m \in SUBSET all : Cardinality(m) <= n => Covers(taken[m], m)}
<1>5. ASSUME NEW m \in SUBSET all, m = {} PROVE Covers(taken[m], m)
  <2>1. taken[m] = << >>
    BY <1>4, <1>5 DEF Takes
  <2>2. << >> \in Seq(DOMAIN have)
    OBVIOUS
  <2> QED
    BY <1>5, <2>1, <2>2
<1>6. 0 \in P
  <2>1. ASSUME NEW m \in SUBSET all, Cardinality(m) <= 0 PROVE Covers(taken[m], m)
    <3>1. IsFiniteSet(m) /\ Cardinality(m) = 0
      BY <1>4, <2>1
    <3>2. m = {}
      BY <3>1, FS_EmptySet
    <3> QED
      BY <1>5, <3>2
  <2> HIDE DEF Covers
  <2> QED
    BY <1>3, <2>1
<1>7. ASSUME NEW n \in 1 .. Cardinality(all), n - 1 \in P PROVE n \in P
  <2>1. ASSUME NEW m \in SUBSET all, Cardinality(m) <= n, m # {} PROVE Covers(taken[m], m)
    <3>1. PICK best : best = BestSource(have, m)
      OBVIOUS
    <3>2. best \in DOMAIN have /\ have[best] \cap m # {}
      <4>1. PICK f \in m : TRUE
        BY <2>1
      <4>2. PICK some \in DOMAIN have : f \in have[some]
        BY <4>1
      <4> QED
        BY <1>4, <3>1, <4>1, <4>2, BestStates
    <3>3. PICK rest, source : rest = m \ have[best] /\ source = have[best]
      OBVIOUS
    <3>4. taken[m] = <<best>> \o taken[rest]
      BY <1>4, <2>1, <3>1, <3>2, <3>3 DEF Takes
    <3>5. rest \in SUBSET all /\ Cardinality(rest) <= n - 1
      <4>1. m \cap source # {} /\ rest = m \ source
        BY <3>2, <3>3
      <4>2. Cardinality(rest) \in Nat /\ Cardinality(m) \in Nat /\ Cardinality(rest) < Cardinality(m)
        BY <1>4, <4>1, SmallerRest
      <4> QED
        BY <1>3, <2>1, <3>3, <4>2
    <3>6. Covers(taken[rest], rest)
      BY <1>7, <3>5
    <3>7. PICK one, then : one = <<best>> /\ then = taken[rest]
      OBVIOUS
    <3>8. one \in Seq(DOMAIN have) /\ then \in Seq(DOMAIN have) /\ Range(one) = {best}
      BY <3>2, <3>6, <3>7 DEF Range
    <3>9. one \o then \in Seq(DOMAIN have) /\ Range(one \o then) = {best} \cup Range(then)
      BY <3>8, ConcatRange
    <3>10. ASSUME NEW f \in m PROVE \E k \in {best} \cup Range(then) : f \in have[k]
      <4>1. CASE f \in have[best]
        BY <4>1
      <4>2. CASE f \notin have[best]
        BY <3>3, <3>6, <3>7, <4>2
      <4> QED
        BY <4>1, <4>2
    <3>11. taken[m] = one \o then
      BY <3>4, <3>7
    <3> QED
      BY <3>9, <3>10, <3>11
  <2>2. ASSUME NEW m \in SUBSET all, Cardinality(m) <= n PROVE Covers(taken[m], m)
    <3> HIDE DEF Covers
    <3> QED
      BY <1>5, <2>1, <2>2
  <2> HIDE DEF Covers
  <2> QED
    BY <2>2
<1>8. Cardinality(all) \in P
  <2> HIDE DEF P
  <2>1. \A n \in 1 .. Cardinality(all) : n - 1 \in P => n \in P
    BY <1>7
  <2>2. 0 .. Cardinality(all) \subseteq P
    BY <1>3, <1>6, <2>1, AlongPrefixes
  <2> QED
    BY <1>3, <2>2
<1>9. Covers(taken[all], all)
  <2>1. all \in SUBSET all /\ Cardinality(all) <= Cardinality(all)
    BY <1>3
  <2> HIDE DEF Covers
  <2> QED
    BY <1>8, <2>1
<1> QED
  BY <1>2, <1>9

-----------------------------------------------------------------------------
(* Answers *)

\* A figure of the sentence that some source states is in one of the sources cited.
Attributed(s, have) ==
    Cited(s, have) # {} =>
      \A f \in s.stated : (\E n \in DOMAIN have : f \in have[n]) =>
        \E n \in Cited(s, have) : f \in have[n]

LEMMA Repointed ==
    ASSUME NEW have \in Seq(SUBSET Nat), NEW s \in Sentence, IsFiniteSet(s.stated)
    PROVE  /\ _repoint_sentence(s, have) \in Repair
           /\ Attributed(_repoint_sentence(s, have).sentence, have)
<1> DEFINE cited == Cited(s, have)
           covered == UNION {have[n] : n \in cited}
           missing == {f \in s.stated \ covered : \E n \in DOMAIN have : f \in have[n]}
           new == Replacements(have, missing)
           dead == {n \in cited : have[n] \cap s.stated = {}}
           swapped == [i \in DOMAIN s.marks |->
                         IF s.marks[i] \in dead THEN new[1] ELSE s.marks[i]]
           added == Select(new, Range(new) \ Range(swapped))
           repaired == [sentence |-> [s EXCEPT !.marks = swapped \o added],
                        changed |-> Cardinality(dead) + Len(added)]
           same == [sentence |-> s, changed |-> 0]
<1>0. _repoint_sentence(s, have) = IF cited = {} \/ missing = {} THEN same ELSE repaired
  BY DEF _repoint_sentence
<1>1. /\ s \in [stated : SUBSET Nat, marks : Seq(Nat)]
      /\ s.marks \in Seq(Nat) /\ s.stated \subseteq Nat /\ DOMAIN have \subseteq Nat
  BY DEF Sentence
<1>2. cited = {n \in Range(s.marks) : n \in DOMAIN have}
  BY DEF Cited
<1> HIDE DEF cited
<1>3. CASE cited = {} \/ missing = {}
  <2>1. _repoint_sentence(s, have) = same
    BY <1>0, <1>3
  <2>2. same \in Repair /\ same.sentence = s
    BY DEF Repair
  <2>3. Attributed(s, have)
    <3>1. ASSUME cited # {}, NEW f \in s.stated, NEW n \in DOMAIN have, f \in have[n]
          PROVE  \E k \in cited : f \in have[k]
      <4>1. f \in covered
        BY <1>3, <3>1
      <4> QED
        BY <4>1
    <3> QED
      BY <3>1 DEF Attributed, cited
  <2> HIDE DEF same
  <2> QED
    BY <2>1, <2>2, <2>3
<1>4. CASE cited # {} /\ missing # {}
  <2>1. IsFiniteSet(missing) /\ \A f \in missing : \E n \in DOMAIN have : f \in have[n]
    <3>1. missing \in SUBSET s.stated
      OBVIOUS
    <3>2. \A f \in missing : \E n \in DOMAIN have : f \in have[n]
      OBVIOUS
    <3> HIDE DEF missing
    <3> QED
      BY <3>1, <3>2, FS_Subset
  <2>2. /\ new \in Seq(DOMAIN have)
        /\ \A f \in missing : \E n \in Range(new) : f \in have[n]
    <3> HIDE DEF missing
    <3> QED
      BY <2>1, ReplacementsCover
  <2>3. new[1] \in DOMAIN have
    <3> HIDE DEF missing
    <3>1. PICK f \in missing : TRUE
      BY <1>4
    <3>2. PICK n \in Range(new) : f \in have[n]
      BY <2>2
    <3> HIDE DEF new
    <3>3. PICK i \in DOMAIN new : n = new[i]
      BY <3>2 DEF Range
    <3>4. 1 \in DOMAIN new
      BY <2>2, <3>3
    <3> QED
      BY <2>2, <3>4
  <2> HIDE DEF new, dead
  <2>4. /\ swapped \in Seq(Nat) /\ DOMAIN swapped = DOMAIN s.marks
        /\ \A i \in DOMAIN s.marks :
             swapped[i] = IF s.marks[i] \in dead THEN new[1] ELSE s.marks[i]
    <3>1. /\ DOMAIN s.marks = 1 .. Len(s.marks) /\ Len(s.marks) \in Nat
          /\ \A i \in 1 .. Len(s.marks) : s.marks[i] \in Nat
      BY <1>1
    <3>2. new[1] \in Nat
      BY <1>1, <2>3
    <3>3. \A i \in 1 .. Len(s.marks) : swapped[i] \in Nat
      BY <3>1, <3>2
    <3>4. PICK to : to = swapped
      OBVIOUS
    <3>5. to \in [1 .. Len(s.marks) -> Nat]
      BY <3>1, <3>3, <3>4
    <3>6. to \in Seq(Nat)
      BY <3>1, <3>5
    <3> QED
      BY <3>4, <3>6
  <2> HIDE DEF swapped
  <2>5. added \in Seq(DOMAIN have) /\ Range(added) = Range(new) \ Range(swapped)
    <3>1. /\ added \in Seq(DOMAIN have)
          /\ Range(added) = Range(new) \cap (Range(new) \ Range(swapped))
      BY <2>2, SelectRange
    <3> QED
      BY <3>1
  <2> HIDE DEF added
  <2>6. PICK marks : marks = swapped \o added
    OBVIOUS
  <2>7. added \in Seq(Nat) /\ Len(added) \in Nat
    BY <1>1, <2>5
  <2>8. marks \in Seq(Nat) /\ Range(marks) = Range(swapped) \cup Range(added)
    BY <2>4, <2>6, <2>7, ConcatRange
  <2>9. PICK after : after = [s EXCEPT !.marks = marks]
    OBVIOUS
  <2>10. after \in Sentence /\ after.stated = s.stated /\ after.marks = marks
    BY <1>1, <2>8, <2>9 DEF Sentence
  <2>11. Cardinality(dead) \in Nat
    <3>1. dead \in SUBSET Range(s.marks)
      BY <1>2 DEF dead
    <3>2. IsFiniteSet(Range(s.marks))
      BY <1>1, FiniteRange
    <3>3. IsFiniteSet(dead)
      BY <3>1, <3>2, FS_Subset
    <3> QED
      BY <3>3, FS_CardinalityType
  <2>12. PICK count : count = Cardinality(dead) + Len(added) /\ count \in Nat
    BY <2>7, <2>11
  <2>13. _repoint_sentence(s, have) = [sentence |-> after, changed |-> count]
    BY <1>0, <1>4, <2>6, <2>9, <2>12
  <2>14. ASSUME NEW f \in s.stated, NEW n \in DOMAIN have, f \in have[n]
         PROVE  \E k \in Range(marks) : k \in DOMAIN have /\ f \in have[k]
    <3>1. CASE f \in missing
      <4>1. PICK k \in Range(new) : f \in have[k]
        BY <2>2, <3>1
      <4>2. k \in DOMAIN have
        BY <2>2, RangeIn
      <4>3. k \in Range(marks)
        BY <2>5, <2>8
      <4> QED
        BY <4>1, <4>2, <4>3
    <3>2. CASE f \notin missing
      <4>1. f \in covered
        BY <2>14, <3>2
      <4>2. PICK k \in cited : f \in have[k]
        BY <4>1
      <4>3. k \notin dead
        BY <4>2 DEF dead
      <4>4. PICK i \in DOMAIN s.marks : k = s.marks[i]
        BY <1>2 DEF Range
      <4>5. swapped[i] = k
        BY <2>4, <4>3, <4>4
      <4>6. k \in Range(swapped)
        BY <2>4, <4>5 DEF Range
      <4>7. k \in Range(marks) /\ k \in DOMAIN have
        BY <1>2, <2>8, <4>6
      <4> QED
        BY <4>2, <4>7
    <3> QED
      BY <3>1, <3>2
  <2>15. Attributed(after, have)
    BY <2>10, <2>14 DEF Attributed, Cited
  <2> QED
    BY <2>10, <2>12, <2>13, <2>15 DEF Repair
<1> QED
  BY <1>3, <1>4

Written == [stated : SUBSET Nat, marks : Seq(Mark)]

LEMMA TextRepointed ==
    ASSUME NEW text \in Seq(Sentence), \A i \in DOMAIN text : IsFiniteSet(text[i].stated),
           NEW have \in Seq(SUBSET Nat)
    PROVE  /\ repoint_citations(text, have).text \in Seq(Sentence)
           /\ repoint_citations(text, have).changed \in Nat
           /\ \A i \in DOMAIN repoint_citations(text, have).text :
                Attributed(repoint_citations(text, have).text[i], have)
<1>1. PICK done : done = [i \in DOMAIN text |-> _repoint_sentence(text[i], have)]
  OBVIOUS
<1>2. PICK out : out = [i \in DOMAIN text |-> done[i].sentence]
  OBVIOUS
<1>3. repoint_citations(text, have) = [text |-> out, changed |-> Changes(done)]
  BY <1>1, <1>2 DEF repoint_citations
<1>4. DOMAIN text = 1 .. Len(text) /\ Len(text) \in Nat
      /\ \A i \in DOMAIN text : text[i] \in Sentence
  OBVIOUS
<1>5. \A i \in DOMAIN text : done[i] \in Repair /\ Attributed(done[i].sentence, have)
  BY <1>1, <1>4, Repointed
<1>6. done \in Seq(Repair)
  <2>1. done \in [1 .. Len(text) -> Repair]
    BY <1>1, <1>4, <1>5
  <2> QED
    BY <1>4, <2>1
<1>7. out \in Seq(Sentence) /\ \A i \in DOMAIN out : Attributed(out[i], have)
  <2>1. \A i \in DOMAIN text : out[i] = done[i].sentence
    BY <1>2
  <2>2. \A i \in DOMAIN text : out[i] \in Sentence
    BY <1>5, <2>1 DEF Repair
  <2>3. out \in [1 .. Len(text) -> Sentence] /\ DOMAIN out = DOMAIN text
    BY <1>2, <1>4, <2>2
  <2>4. out \in Seq(Sentence)
    BY <1>4, <2>3
  <2>5. \A i \in DOMAIN out : Attributed(out[i], have)
    BY <1>5, <2>1, <2>3
  <2> QED
    BY <2>4, <2>5
<1>8. Changes(done) \in Nat
  BY <1>6, ChangesType
<1> QED
  BY <1>3, <1>7, <1>8

LEMMA TextNormal ==
    ASSUME NEW text \in Seq(Written), \A i \in DOMAIN text : IsFiniteSet(text[i].stated),
           NEW sources
    PROVE  /\ normalize_markers(text, sources) \in Seq(Sentence)
           /\ \A i \in DOMAIN normalize_markers(text, sources) :
                IsFiniteSet(normalize_markers(text, sources)[i].stated)
<1>1. PICK normal : normal = normalize_markers(text, sources)
  OBVIOUS
<1>2. normal = [i \in DOMAIN text |-> NormalSentence(text[i], sources)]
  BY <1>1 DEF normalize_markers
<1>3. /\ DOMAIN text = 1 .. Len(text) /\ Len(text) \in Nat
      /\ \A i \in DOMAIN text : text[i] \in Written
  OBVIOUS
<1>4. \A i \in DOMAIN text : normal[i] \in Sentence /\ IsFiniteSet(normal[i].stated)
  <2> SUFFICES ASSUME NEW i \in DOMAIN text
               PROVE  normal[i] \in Sentence /\ IsFiniteSet(normal[i].stated)
    OBVIOUS
  <2>1. text[i] \in [stated : SUBSET Nat, marks : Seq(Mark)]
    BY <1>3 DEF Written
  <2> QED
    BY <1>2, <2>1, NormalSentenceType
<1>5. normal \in Seq(Sentence) /\ DOMAIN normal = DOMAIN text
  <2>1. normal \in [1 .. Len(text) -> Sentence]
    BY <1>2, <1>3, <1>4
  <2> QED
    BY <1>3, <2>1
<1> QED
  BY <1>1, <1>4, <1>5

\* What is said of an answer to a reply, over the sources and what they state.
Honest(answer, have) ==
    /\ answer \in Answer
    /\ Range(answer.citations) = Range(AllMarks(answer.text))
    /\ Range(AllMarks(answer.text)) \subseteq DOMAIN have
    /\ Ordered(answer.citations, AllMarks(answer.text))
    /\ \A i \in DOMAIN answer.text : answer.text[i].marks # << >> =>
         \A f \in answer.text[i].stated : (\E n \in DOMAIN have : f \in have[n]) =>
           \E n \in Range(answer.text[i].marks) : f \in have[n]

LEMMA AbstentionHonest ==
    ASSUME NEW have, NEW count \in Nat
    PROVE  Honest([Abstention EXCEPT !.invalid = count], have)
<1>1. PICK none : none = << >>
  OBVIOUS
<1>2. none \in Seq(Nat) /\ none \in Seq(Sentence) /\ Len(none) = 0 /\ DOMAIN none = {}
  BY <1>1
<1>3. PICK answer : answer = [Abstention EXCEPT !.invalid = count]
  OBVIOUS
<1>4. answer = [text |-> none, citations |-> none, abstained |-> TRUE, invalid |-> count,
                repointed |-> 0]
  BY <1>1, <1>3 DEF Abstention
<1>5. answer \in Answer
  BY <1>2, <1>4 DEF Answer, Sentence
<1>6. AllMarks(none) = none
  <2>1. PICK g : g[0] = << >> /\ AllMarks(none) = g[Len(none)]
    BY <1>2, MarkSteps
  <2> QED
    BY <1>1, <1>2, <2>1
<1>7. Range(none) = {} /\ Ordered(none, none)
  BY <1>2 DEF Range, Ordered
<1> QED
  BY <1>2, <1>3, <1>4, <1>5, <1>6, <1>7 DEF Honest

LEMMA FinalHonest ==
    ASSUME NEW reply, reply.text \in Seq(Written),
           \A i \in DOMAIN reply.text : IsFiniteSet(reply.text[i].stated),
           NEW have \in Seq(SUBSET Nat)
    PROVE  Honest(finalize(reply, have), have)
<1>1. PICK K : K = Len(have) /\ K \in Nat /\ DOMAIN have = 1 .. K
  OBVIOUS
<1>2. PICK normal : normal = normalize_markers(reply.text, K)
  OBVIOUS
<1>3. normal \in Seq(Sentence) /\ \A i \in DOMAIN normal : IsFiniteSet(normal[i].stated)
  BY <1>2, TextNormal
<1>4. PICK pointed : pointed = repoint_citations(normal, have)
  OBVIOUS
<1>5. PICK text : text = pointed.text
  OBVIOUS
<1>6. /\ text \in Seq(Sentence) /\ pointed.changed \in Nat
      /\ \A i \in DOMAIN text : Attributed(text[i], have)
  BY <1>3, <1>4, <1>5, TextRepointed
<1>7. PICK kept, marks, left : /\ kept = Kept(text, 1 .. K) /\ marks = AllMarks(text)
                               /\ left = Select(marks, 1 .. K)
  OBVIOUS
<1>8. CASE is_abstention(reply, normal)
  <2>1. PICK count : count = Len(AllMarks(normal))
    OBVIOUS
  <2>2. AllMarks(normal) \in Seq(Nat)
    BY <1>3, KeptMarks
  <2>3. count \in Nat
    BY <2>1, <2>2
  <2>4. finalize(reply, have) = [Abstention EXCEPT !.invalid = count]
    BY <1>1, <1>2, <1>8, <2>1 DEF finalize
  <2> QED
    BY <2>3, <2>4, AbstentionHonest
<1>9. CASE ~ is_abstention(reply, normal)
  <2>1. PICK answer : answer = finalize(reply, have)
    OBVIOUS
  <2>2. PICK invalid : invalid = Len(marks) - Len(left)
    OBVIOUS
  <2>3. answer = [text |-> kept, citations |-> FirstUses(left), abstained |-> FALSE,
                  invalid |-> invalid, repointed |-> pointed.changed]
    BY <1>1, <1>2, <1>4, <1>5, <1>7, <1>9, <2>1, <2>2 DEF finalize, Kept
  <2>4. marks \in Seq(Nat) /\ AllMarks(kept) = left
    BY <1>6, <1>7, KeptMarks
  <2>5. left \in Seq(Nat) /\ Range(left) = Range(marks) \cap 1 .. K
    <3>1. Select(marks, 1 .. K) \in Seq(Nat)
      BY <2>4, SelectRange
    <3>2. Range(Select(marks, 1 .. K)) = Range(marks) \cap 1 .. K
      BY <2>4, SelectRange
    <3> QED
      BY <1>7, <3>1, <3>2
  <2>6. invalid \in Nat
    <3>1. Len(left) \in 0 .. Len(marks) /\ Len(marks) \in Nat
      BY <1>7, <2>4, SelectLen
    <3> QED
      BY <2>2, <3>1
  <2>7. PICK citations : citations = FirstUses(left)
    OBVIOUS
  <2>8. citations \in Seq(Nat) /\ Range(citations) = Range(left) /\ Ordered(citations, left)
    BY <2>5, <2>7, FirstUsesOrdered
  <2>9. /\ kept \in Seq(Sentence) /\ DOMAIN kept = DOMAIN text
        /\ \A i \in DOMAIN text : /\ kept[i].stated = text[i].stated
                                  /\ kept[i].marks = Select(text[i].marks, 1 .. K)
    <3>1. /\ kept \in Seq(Sentence) /\ Len(kept) = Len(text)
          /\ \A i \in 1 .. Len(text) : /\ kept[i].stated = text[i].stated
                                       /\ kept[i].marks = Select(text[i].marks, 1 .. K)
      BY <1>6, <1>7, KeptText
    <3>2. DOMAIN kept = 1 .. Len(kept) /\ DOMAIN text = 1 .. Len(text)
      BY <1>6, <3>1
    <3> QED
      BY <3>1, <3>2
  <2>10. answer \in Answer
    BY <1>6, <2>3, <2>6, <2>7, <2>8, <2>9 DEF Answer, Sentence
  <2>11. ASSUME NEW i \in DOMAIN kept, kept[i].marks # << >>, NEW f \in kept[i].stated,
                NEW n \in DOMAIN have, f \in have[n]
         PROVE  \E k \in Range(kept[i].marks) : f \in have[k]
    <3>1. PICK s, m : s = text[i] /\ m = kept[i].marks
      OBVIOUS
    <3>2. s \in Sentence /\ m = Select(s.marks, 1 .. K) /\ f \in s.stated /\ Attributed(s, have)
      BY <1>6, <2>9, <2>11, <3>1
    <3>3. s.marks \in Seq(Nat)
      BY <3>2 DEF Sentence
    <3>4. m \in Seq(Nat) /\ Range(m) = Range(s.marks) \cap 1 .. K
      BY <3>2, <3>3, SelectRange
    <3>5. Range(m) = Cited(s, have)
      BY <1>1, <3>4 DEF Cited
    <3>6. Range(m) # {}
      <4>1. m # << >>
        BY <2>11, <3>1
      <4>2. Len(m) >= 1
        BY <3>4, <4>1
      <4>3. m[1] \in Range(m)
        BY <3>4, <4>2 DEF Range
      <4> QED
        BY <4>3
    <3>7. \E k \in Cited(s, have) : f \in have[k]
      BY <2>11, <3>2, <3>5, <3>6 DEF Attributed
    <3> QED
      BY <3>1, <3>5, <3>7
  <2>12. answer.text = kept /\ answer.citations = citations
    BY <2>3, <2>7
  <2>13. Range(left) \subseteq DOMAIN have
    BY <1>1, <2>5
  <2> QED
    BY <2>1, <2>4, <2>8, <2>10, <2>11, <2>12, <2>13 DEF Honest
<1> QED
  BY <1>8, <1>9

LEMMA GroundHonest == ASSUME ground PROVE CitationsMatchTheText' /\ FiguresAreAttributed'
<1>1. PICK t \in Texts : input' = [kind |-> "reply", reply |-> t[1], have |-> t[2],
                                   answer |-> finalize(t[1], t[2])]
  BY DEF ground
<1>2. PICK reply, have, answer : reply = t[1] /\ have = t[2] /\ answer = finalize(reply, have)
  OBVIOUS
<1>3. /\ reply.text \in Seq(Written) /\ have \in Seq(SUBSET Nat)
      /\ \A i \in DOMAIN reply.text : IsFiniteSet(reply.text[i].stated)
  BY <1>2, TextsAssumption DEF Written, Mark
<1>4. Honest(answer, have)
  BY <1>2, <1>3, FinalHonest
<1>5. input'.have = have /\ input'.answer = answer
  BY <1>1, <1>2
<1>6. answer.citations \in Seq(Nat) /\ AllMarks(answer.text) \in Seq(Nat)
  <2>1. answer \in Answer
    BY <1>4 DEF Honest
  <2>2. answer.citations \in Seq(Nat) /\ answer.text \in Seq(Sentence)
    BY <2>1 DEF Answer, Sentence
  <2> QED
    BY <2>2, KeptMarks
<1>7. DOMAIN answer.citations = 1 .. Len(answer.citations)
      /\ DOMAIN AllMarks(answer.text) = 1 .. Len(AllMarks(answer.text))
  BY <1>6
<1>8. CitationsMatchTheText'
  BY <1>4, <1>5, <1>7 DEF CitationsMatchTheText, Honest, Ordered
<1>9. FiguresAreAttributed'
  <2>1. ASSUME NEW s \in Range(answer.text), s.marks # << >>, NEW f \in s.stated,
               \E n \in DOMAIN have : f \in have[n]
        PROVE  \E n \in Range(s.marks) : f \in have[n]
    <3>1. PICK i \in DOMAIN answer.text : s = answer.text[i]
      BY DEF Range
    <3> QED
      BY <1>4, <2>1, <3>1 DEF Honest
  <2> QED
    BY <1>5, <2>1 DEF FiguresAreAttributed
<1> QED
  BY <1>8, <1>9

\* CitationsAreHonest, for replies and sources of any size: after finalize (rag.py), the
\* citations shown are the markers left in the text, in order of first use, each points
\* at a source, and no figure a cited source could have stated is left unattributed.
THEOREM CitationsHonest == Spec => []CitationsAreHonest
<1>1. Init => CitationsAreHonest
  BY DEF Init, CitationsAreHonest, CitationsMatchTheText, FiguresAreAttributed, Is
<1>2. CitationsAreHonest /\ [Next]_input => CitationsAreHonest'
  <2> SUFFICES ASSUME CitationsAreHonest, [Next]_input PROVE CitationsAreHonest'
    OBVIOUS
  <2>1. CASE UNCHANGED input
    BY <2>1 DEF CitationsAreHonest, CitationsMatchTheText, FiguresAreAttributed, Is
  <2>2. ASSUME Next PROVE ground \/ input'.kind # "reply"
    BY <2>2 DEF Next, parse_and_chunk, find_tables, ground, route, name_employee, build_gateway,
                read_stream, read_vectors, write_request
  <2>3. CASE Next
    <3>1. CitationsMatchTheText'
      BY <2>2, <2>3, GroundHonest DEF CitationsMatchTheText, Is
    <3>2. FiguresAreAttributed'
      BY <2>2, <2>3, GroundHonest DEF FiguresAreAttributed, Is
    <3> QED
      BY <3>1, <3>2 DEF CitationsAreHonest
  <2> QED
    BY <2>1, <2>3
<1> QED
  BY <1>1, <1>2, PTL DEF Spec

-----------------------------------------------------------------------------
(* Tables *)

\* The same set of lines, whatever the texts are.
Rows(K) == [x : Seq(Int), key : K]

\* A table ends after the lines that are in line with its header.
LEMMA EndOfTable ==
    ASSUME NEW K, NEW lines \in Seq(Rows(K)), NEW i \in 1 .. Len(lines)
    PROVE  /\ End(lines, i) \in i + 1 .. Len(lines) + 1
           /\ \A j \in i + 1 .. End(lines, i) - 1 : _same_columns(lines[i], lines[j])
<1> DEFINE Out(j) == \/ j > Len(lines) \/ Len(lines[i].x) < MinColumns
                     \/ ~ _same_columns(lines[i], lines[j])
           W == {j \in i + 1 .. Len(lines) + 1 : Out(j)}
<1>1. End(lines, i) = Min(W)
  BY DEF End
<1>2. Len(lines) \in Nat /\ i \in Nat
  OBVIOUS
<1>3. Len(lines) + 1 \in W
  BY <1>2
<1>4. W \subseteq Nat
  BY <1>2
<1>5. PICK m \in W : \A y \in W : m <= y
  <2> HIDE DEF W
  <2> QED
    BY <1>3, <1>4, Least
<1>6. PICK e : e = End(lines, i)
  OBVIOUS
<1>7. e \in W /\ \A y \in W : e <= y
  <2> HIDE DEF W
  <2> QED
    BY <1>1, <1>5, <1>6 DEF Min
<1>8. e \in i + 1 .. Len(lines) + 1
  BY <1>7
<1>9. ASSUME NEW j \in i + 1 .. e - 1 PROVE _same_columns(lines[i], lines[j])
  <2>1. j \in i + 1 .. Len(lines) + 1 /\ ~ (e <= j)
    BY <1>2, <1>8
  <2>2. j \notin W
    BY <1>7, <2>1
  <2> QED
    BY <2>1, <2>2
<1> QED
  BY <1>6, <1>8, <1>9

LEMMA Prepend ==
    ASSUME NEW T, NEW x \in T, NEW s \in Seq(T)
    PROVE  /\ <<x>> \o s \in Seq(T) /\ Len(<<x>> \o s) = Len(s) + 1 /\ (<<x>> \o s)[1] = x
           /\ \A k \in 2 .. Len(s) + 1 : (<<x>> \o s)[k] = s[k - 1]
<1>1. PICK one : one = <<x>>
  OBVIOUS
<1>2. one \in Seq(T) /\ Len(one) = 1 /\ one[1] = x /\ Len(s) \in Nat
  BY <1>1
<1>3. PICK t : t = one \o s
  OBVIOUS
<1>4. /\ t \in Seq(T) /\ Len(t) = Len(s) + 1
      /\ \A k \in 1 .. Len(s) + 1 : t[k] = IF k <= 1 THEN one[k] ELSE s[k - 1]
  <2>1. t \in Seq(T) /\ Len(t) = Len(one) + Len(s)
    BY <1>2, <1>3, ConcatProperties
  <2>2. \A k \in 1 .. Len(one) + Len(s) :
          t[k] = IF k <= Len(one) THEN one[k] ELSE s[k - Len(one)]
    BY <1>2, <1>3, ConcatProperties
  <2>3. Len(one) + Len(s) = Len(s) + 1
    BY <1>2
  <2> QED
    BY <1>2, <2>1, <2>2, <2>3
<1>5. t[1] = x
  BY <1>2, <1>4
<1>6. \A k \in 2 .. Len(s) + 1 : t[k] = s[k - 1]
  BY <1>4
<1> QED
  BY <1>1, <1>3, <1>4, <1>5, <1>6

\* Tables that start at a line or after it, one after the other.
TablesFrom(ts, lines, from) ==
    /\ ts \in Seq(Nat \X Nat)
    /\ \A k \in 1 .. Len(ts) :
         /\ from <= ts[k][1] /\ ts[k][1] \in 1 .. Len(lines) /\ ts[k][1] + 2 <= ts[k][2]
         /\ ts[k][2] = End(lines, ts[k][1])
    /\ \A k, l \in 1 .. Len(ts) : k < l => ts[k][2] <= ts[l][1]

LEMMA TablesAdded ==
    ASSUME NEW K, NEW lines \in Seq(Rows(K)), NEW i \in 1 .. Len(lines), IsTable(lines, i),
           NEW ts, TablesFrom(ts, lines, End(lines, i))
    PROVE  TablesFrom(<<<<i, End(lines, i)>>>> \o ts, lines, i)
<1>1. PICK e, t : e = End(lines, i) /\ t = <<i, e>>
  OBVIOUS
<1>2. e \in i + 1 .. Len(lines) + 1 /\ i + 2 <= e /\ i \in Nat /\ e \in Nat
  BY <1>1, EndOfTable DEF IsTable
<1>3. PICK new : new = <<t>> \o ts
  OBVIOUS
<1>4. t \in Nat \X Nat /\ t[1] = i /\ t[2] = e /\ ts \in Seq(Nat \X Nat)
  BY <1>1, <1>2 DEF TablesFrom
<1>5. /\ new \in Seq(Nat \X Nat) /\ Len(new) = Len(ts) + 1 /\ new[1] = t
      /\ \A k \in 2 .. Len(ts) + 1 : new[k] = ts[k - 1]
  BY <1>3, <1>4, Prepend
<1>6. Len(ts) \in Nat
  BY <1>4
<1>7. ASSUME NEW k \in 2 .. Len(ts) + 1
      PROVE  /\ e <= new[k][1] /\ new[k][1] \in 1 .. Len(lines) /\ new[k][1] + 2 <= new[k][2]
             /\ new[k][2] = End(lines, new[k][1])
  <2>1. PICK p : p = k - 1 /\ p \in 1 .. Len(ts)
    BY <1>6
  <2>2. new[k] = ts[p]
    BY <1>5, <2>1
  <2> QED
    BY <1>1, <2>1, <2>2 DEF TablesFrom
<1>8. ASSUME NEW k \in 1 .. Len(ts) + 1
      PROVE  /\ i <= new[k][1] /\ new[k][1] \in 1 .. Len(lines) /\ new[k][1] + 2 <= new[k][2]
             /\ new[k][2] = End(lines, new[k][1])
  <2>1. CASE k = 1
    BY <1>1, <1>2, <1>4, <1>5, <2>1
  <2>2. CASE k # 1
    <3>1. k \in 2 .. Len(ts) + 1
      BY <1>6, <2>2
    <3>2. i <= e
      BY <1>2
    <3> QED
      BY <1>2, <1>7, <3>1, <3>2
  <2> QED
    BY <2>1, <2>2
<1>9. ASSUME NEW k \in 1 .. Len(ts) + 1, NEW l \in 1 .. Len(ts) + 1, k < l
      PROVE  new[k][2] <= new[l][1]
  <2>0. l \in 2 .. Len(ts) + 1
    BY <1>6, <1>9
  <2>1. CASE k = 1
    BY <1>4, <1>5, <1>7, <2>0, <2>1
  <2>2. CASE k # 1
    <3>1. PICK p, q : p = k - 1 /\ q = l - 1 /\ p \in 1 .. Len(ts) /\ q \in 1 .. Len(ts) /\ p < q
      BY <1>6, <1>9, <2>2
    <3>0. k \in 2 .. Len(ts) + 1
      BY <1>6, <2>2
    <3>2. new[k] = ts[p] /\ new[l] = ts[q]
      BY <1>5, <2>0, <3>0, <3>1
    <3> QED
      BY <3>1, <3>2 DEF TablesFrom
  <2> QED
    BY <2>1, <2>2
<1>10. TablesFrom(new, lines, i)
  BY <1>5, <1>8, <1>9 DEF TablesFrom
<1> QED
  BY <1>1, <1>3, <1>10

\* One step of the search for tables.
Found(lines, i, later) ==
    IF i > Len(lines) THEN << >>
    ELSE IF IsTable(lines, i) THEN <<<<i, End(lines, i)>>>> \o later[End(lines, i)]
    ELSE later[i + 1]

LEMMA SearchExists ==
    ASSUME NEW K, NEW lines \in Seq(Rows(K))
    PROVE  \E later : later = [i \in 1 .. Len(lines) + 1 |-> Found(lines, i, later)]
<1> DEFINE N == Len(lines)
           Good(f, n) == f = [i \in N + 1 - n .. N + 1 |-> Found(lines, i, f)]
           P == {n \in 0 .. N : \E f : Good(f, n)}
<1>0. N \in Nat
  OBVIOUS
<1>1. 0 \in P
  <2>1. PICK f : f = [i \in N + 1 - 0 .. N + 1 |-> << >>]
    OBVIOUS
  <2>2. \A i \in N + 1 - 0 .. N + 1 : Found(lines, i, f) = << >>
    BY <1>0 DEF Found
  <2>3. Good(f, 0)
    BY <2>1, <2>2
  <2> HIDE DEF Good
  <2> QED
    BY <1>0, <2>3
<1>2. ASSUME NEW n \in 1 .. N, n - 1 \in P PROVE n \in P
  <2>1. PICK f : Good(f, n - 1)
    BY <1>2
  <2>2. PICK at : at = N + 1 - n
    OBVIOUS
  <2>3. at \in 1 .. N /\ N + 1 - (n - 1) = at + 1
    BY <1>0, <2>2
  <2>4. PICK new : new = [i \in at .. N + 1 |-> IF i = at THEN Found(lines, at, f) ELSE f[i]]
    OBVIOUS
  <2>5. /\ f = [i \in at + 1 .. N + 1 |-> Found(lines, i, f)]
        /\ \A i \in at + 1 .. N + 1 : new[i] = f[i]
    <3>1. f = [i \in at + 1 .. N + 1 |-> Found(lines, i, f)]
      BY <2>1, <2>3
    <3>2. ASSUME NEW i \in at + 1 .. N + 1 PROVE new[i] = f[i]
      <4>1. i \in at .. N + 1 /\ i # at
        BY <1>0, <2>3
      <4> QED
        BY <2>4, <4>1
    <3> QED
      BY <3>1, <3>2
  <2>6. ASSUME NEW i \in at .. N + 1 PROVE Found(lines, i, new) = Found(lines, i, f)
    <3>1. CASE i > N
      BY <3>1 DEF Found
    <3>2. CASE ~ (i > N)
      <4>1. i \in 1 .. N /\ i + 1 \in at + 1 .. N + 1
        BY <1>0, <2>3, <3>2
      <4>2. End(lines, i) \in i + 1 .. N + 1
        BY <4>1, EndOfTable
      <4>3. End(lines, i) \in at + 1 .. N + 1
        BY <1>0, <2>3, <4>1, <4>2
      <4>4. new[End(lines, i)] = f[End(lines, i)] /\ new[i + 1] = f[i + 1]
        BY <2>5, <4>1, <4>3
      <4> QED
        BY <4>4 DEF Found
    <3> QED
      BY <3>1, <3>2
  <2>7. ASSUME NEW i \in at .. N + 1 PROVE new[i] = Found(lines, i, new)
    <3>1. CASE i = at
      <4>1. new[i] = Found(lines, i, f)
        BY <2>4, <3>1
      <4> QED
        BY <2>6, <4>1
    <3>2. CASE i # at
      <4>1. i \in at + 1 .. N + 1
        BY <1>0, <2>3, <3>2
      <4>2. new[i] = f[i] /\ f[i] = Found(lines, i, f)
        BY <2>5, <4>1
      <4> QED
        BY <2>6, <4>2
    <3> QED
      BY <3>1, <3>2
  <2>8. new = [i \in at .. N + 1 |-> Found(lines, i, new)]
    <3>1. new = [i \in at .. N + 1 |-> new[i]]
      BY <2>4
    <3> QED
      BY <2>7, <3>1
  <2>9. Good(new, n)
    BY <2>2, <2>8
  <2> HIDE DEF Good
  <2> QED
    BY <1>0, <2>9
<1>3. N \in P
  <2> HIDE DEF P, N
  <2>1. \A n \in 1 .. N : n - 1 \in P => n \in P
    BY <1>2
  <2>2. 0 .. N \subseteq P
    BY <1>0, <1>1, <2>1, AlongPrefixes
  <2> QED
    BY <1>0, <2>2
<1>4. PICK f : Good(f, N)
  BY <1>3
<1>5. N + 1 - N = 1
  BY <1>0
<1>6. f = [i \in 1 .. N + 1 |-> Found(lines, i, f)]
  BY <1>4, <1>5
<1> QED
  BY <1>6

LEMMA TablesFound ==
    ASSUME NEW K, NEW lines \in Seq(Rows(K))
    PROVE  TablesFrom(TablesOf(lines), lines, 1)
<1> DEFINE N == Len(lines)
           Loop(f) == f = [i \in 1 .. Len(lines) + 1 |-> Found(lines, i, f)]
           from == CHOOSE f : Loop(f)
           P == {n \in 0 .. N : \A i \in N + 1 - n .. N + 1 : TablesFrom(from[i], lines, i)}
<1>0. N \in Nat
  OBVIOUS
<1>1. Loop(from)
  <2>1. \E f : Loop(f)
    BY SearchExists
  <2> HIDE DEF Loop
  <2> QED
    BY <2>1
<1>2. TablesOf(lines) = from[1]
  BY DEF TablesOf, Found
<1> HIDE DEF from
<1>3. \A i \in 1 .. N + 1 : from[i] = Found(lines, i, from)
  BY <1>1
<1>4. 0 \in P
  <2>1. ASSUME NEW i \in N + 1 - 0 .. N + 1 PROVE TablesFrom(from[i], lines, i)
    <3>1. i = N + 1 /\ i > Len(lines) /\ i \in 1 .. N + 1
      BY <1>0
    <3>2. PICK none : none = << >>
      OBVIOUS
    <3>3. from[i] = none
      BY <1>3, <3>1, <3>2 DEF Found
    <3>4. none \in Seq(Nat \X Nat) /\ Len(none) = 0
      BY <3>2
    <3> QED
      BY <3>3, <3>4 DEF TablesFrom
  <2> QED
    BY <1>0, <2>1
<1>5. ASSUME NEW n \in 1 .. N, n - 1 \in P PROVE n \in P
  <2>1. PICK at : at = N + 1 - n
    OBVIOUS
  <2>2. at \in 1 .. N /\ N + 1 - (n - 1) = at + 1 /\ at \in 1 .. N + 1 /\ ~ (at > Len(lines))
    BY <1>0, <2>1
  <2>3. \A i \in at + 1 .. N + 1 : TablesFrom(from[i], lines, i)
    BY <1>5, <2>2
  <2>4. TablesFrom(from[at], lines, at)
    <3>1. CASE IsTable(lines, at)
      <4>1. from[at] = <<<<at, End(lines, at)>>>> \o from[End(lines, at)]
        BY <1>3, <2>2, <3>1 DEF Found
      <4>2. End(lines, at) \in at + 1 .. N + 1
        BY <2>2, EndOfTable
      <4>3. TablesFrom(from[End(lines, at)], lines, End(lines, at))
        BY <2>3, <4>2
      <4> QED
        BY <2>2, <3>1, <4>1, <4>3, TablesAdded
    <3>2. CASE ~ IsTable(lines, at)
      <4>1. from[at] = from[at + 1]
        BY <1>3, <2>2, <3>2 DEF Found
      <4>2. at + 1 \in at + 1 .. N + 1
        BY <1>0, <2>2
      <4>3. PICK ts, next : ts = from[at] /\ next = at + 1 /\ TablesFrom(ts, lines, next)
        BY <2>3, <4>1, <4>2
      <4>4. \A k \in 1 .. Len(ts) : next <= ts[k][1] /\ ts[k][1] \in 1 .. Len(lines)
        BY <4>3 DEF TablesFrom
      <4>5. \A k \in 1 .. Len(ts) : at <= ts[k][1]
        BY <1>0, <2>2, <4>3, <4>4
      <4> QED
        BY <4>3, <4>5 DEF TablesFrom
    <3> QED
      BY <3>1, <3>2
  <2>5. \A i \in at .. N + 1 : i = at \/ i \in at + 1 .. N + 1
    BY <1>0, <2>2
  <2>6. \A i \in at .. N + 1 : TablesFrom(from[i], lines, i)
    BY <2>3, <2>4, <2>5
  <2> QED
    BY <1>0, <2>1, <2>6
<1>6. N \in P
  <2> HIDE DEF P, N
  <2>1. \A n \in 1 .. N : n - 1 \in P => n \in P
    BY <1>5
  <2>2. 0 .. N \subseteq P
    BY <1>0, <1>4, <2>1, AlongPrefixes
  <2> QED
    BY <1>0, <2>2
<1>7. 1 \in N + 1 - N .. N + 1
  BY <1>0
<1> QED
  BY <1>2, <1>6, <1>7

-----------------------------------------------------------------------------
(* Flattening *)

Joining(g, ss) ==
    /\ g[0] = << >> /\ FlattenSeq(ss) = g[Len(ss)]
    /\ \A n \in 1 .. Len(ss) : g[n] = g[n - 1] \o ss[n]

LEMMA FlattenSteps ==
    ASSUME NEW T, NEW ss \in Seq(Seq(T)) PROVE \E g : Joining(g, ss)
<1> DEFINE N == Len(ss)
           F == [p \in (1 .. N) \X Seq(T) |-> p[2] \o ss[p[1]]]
           Eq(f) == f = [i \in 1 .. N |-> IF i = 1 THEN ss[i] ELSE f[i - 1] \o ss[i]]
<1>0. N \in Nat /\ \A n \in 1 .. N : ss[n] \in Seq(T)
  OBVIOUS
<1>1. F \in [(1 .. N) \X Seq(T) -> Seq(T)] /\ << >> \in Seq(T)
  BY <1>0
<1>2. PICK it : Folds(it, N, Seq(T), << >>, F)
  <2> HIDE DEF F, N
  <2> QED
    BY <1>0, <1>1, SubsetRecursion
<1>3. PICK g : g = [n \in 0 .. N |-> it[1 .. n]]
  OBVIOUS
<1>4. g[0] = << >> /\ \A n \in 0 .. N : g[n] \in Seq(T)
  <2>1. \A n \in 0 .. N : 1 .. n \in SUBSET (1 .. N) /\ g[n] = it[1 .. n]
    BY <1>0, <1>3
  <2>2. \A n \in 0 .. N : g[n] \in Seq(T)
    BY <1>2, <2>1 DEF Folds
  <2>3. 0 \in 0 .. N /\ 1 .. 0 = {}
    BY <1>0
  <2>4. g[0] = it[{}]
    BY <2>1, <2>3
  <2>5. it[{}] = << >>
    BY <1>2 DEF Folds
  <2> QED
    BY <2>2, <2>4, <2>5
<1>5. ASSUME NEW n \in 1 .. N PROVE g[n] = g[n - 1] \o ss[n]
  <2>1. /\ Max(1 .. n) = n /\ (1 .. n) \ {n} = 1 .. (n - 1)
        /\ 1 .. n \in SUBSET (1 .. N) /\ 1 .. n # {}
    BY <1>0, MaxPrefix
  <2>2. n \in 0 .. N /\ n - 1 \in 0 .. N
    BY <1>0
  <2>3. it[1 .. n] = F[<<n, it[1 .. (n - 1)]>>]
    BY <1>2, <2>1 DEF Folds
  <2>4. g[n - 1] = it[1 .. (n - 1)] /\ g[n] = it[1 .. n] /\ g[n - 1] \in Seq(T)
    BY <1>3, <1>4, <2>2
  <2> QED
    BY <2>3, <2>4
<1>6. PICK h : h = [n \in 1 .. N |-> g[n]]
  OBVIOUS
<1>7. Eq(h)
  <2>1. ASSUME NEW i \in 1 .. N PROVE h[i] = IF i = 1 THEN ss[i] ELSE h[i - 1] \o ss[i]
    <3>1. h[i] = g[i - 1] \o ss[i]
      BY <1>5, <1>6
    <3>2. CASE i = 1
      <4>1. PICK first : first = ss[i] /\ first \in Seq(T)
        BY <1>0
      <4>2. << >> \o first = first
        BY <4>1, ConcatEmptySeq
      <4>3. g[i - 1] = << >>
        BY <1>4, <3>2
      <4> QED
        BY <3>1, <3>2, <4>1, <4>2, <4>3
    <3>3. CASE i # 1
      <4>1. i - 1 \in 1 .. N
        BY <1>0, <3>3
      <4>2. h[i - 1] = g[i - 1]
        BY <1>6, <4>1
      <4> QED
        BY <3>1, <3>3, <4>2
    <3> QED
      BY <3>2, <3>3
  <2>2. h = [i \in 1 .. N |-> h[i]]
    BY <1>6
  <2> QED
    BY <2>1, <2>2
<1> DEFINE c == CHOOSE f : Eq(f)
<1>8. Eq(c)
  <2> HIDE DEF Eq
  <2> QED
    BY <1>7
<1>9. N # 0 => FlattenSeq(ss) = c[N]
  BY DEF FlattenSeq
<1>10. N = 0 => FlattenSeq(ss) = << >>
  <2>1. N = 0 => ss = << >>
    OBVIOUS
  <2> QED
    BY <2>1 DEF FlattenSeq
<1> HIDE DEF c
<1> DEFINE P == {n \in 0 .. N : n # 0 => c[n] = g[n]}
<1>11. 0 \in P
  BY <1>0
<1>12. ASSUME NEW n \in 1 .. N, n - 1 \in P PROVE n \in P
  <2>1. c[n] = IF n = 1 THEN ss[n] ELSE c[n - 1] \o ss[n]
    BY <1>8
  <2>2. h[n] = IF n = 1 THEN ss[n] ELSE h[n - 1] \o ss[n]
    BY <1>7
  <2>3. n # 1 => n - 1 \in 1 .. N /\ n - 1 # 0
    BY <1>0
  <2>4. n # 1 => c[n - 1] = h[n - 1]
    BY <1>6, <1>12, <2>3
  <2>5. c[n] = h[n]
    BY <2>1, <2>2, <2>4
  <2>6. c[n] = g[n] /\ n \in 0 .. N
    BY <1>0, <1>6, <2>5
  <2> QED
    BY <2>6
<1>13. N \in P
  <2> HIDE DEF P, N
  <2>1. \A n \in 1 .. N : n - 1 \in P => n \in P
    BY <1>12
  <2>2. 0 .. N \subseteq P
    BY <1>0, <1>11, <2>1, AlongPrefixes
  <2> QED
    BY <1>0, <2>2
<1>14. FlattenSeq(ss) = g[N]
  BY <1>4, <1>9, <1>10, <1>13
<1> QED
  BY <1>4, <1>5, <1>14 DEF Joining

LEMMA FlattenRange ==
    ASSUME NEW T, NEW ss \in Seq(Seq(T))
    PROVE  /\ FlattenSeq(ss) \in Seq(T)
           /\ Range(FlattenSeq(ss)) = UNION {Range(ss[i]) : i \in 1 .. Len(ss)}
<1> DEFINE N == Len(ss)
           Upto(n) == UNION {Range(ss[i]) : i \in 1 .. n}
<1>0. N \in Nat /\ \A n \in 1 .. N : ss[n] \in Seq(T)
  OBVIOUS
<1>1. PICK g : Joining(g, ss)
  BY FlattenSteps
<1> DEFINE P == {n \in 0 .. N : g[n] \in Seq(T) /\ Range(g[n]) = Upto(n)}
<1>2. 0 \in P
  <2>1. PICK none : none = << >>
    OBVIOUS
  <2>2. none \in Seq(T) /\ Range(none) = {} /\ Upto(0) = {}
    BY <2>1 DEF Range
  <2>3. g[0] = none
    BY <1>1, <2>1 DEF Joining
  <2> HIDE DEF Upto
  <2>4. g[0] \in Seq(T) /\ Range(g[0]) = Upto(0)
    BY <2>2, <2>3
  <2>5. 0 \in 0 .. N
    BY <1>0
  <2> QED
    BY <2>4, <2>5
<1>3. ASSUME NEW n \in 1 .. N, n - 1 \in P PROVE n \in P
  <2>1. PICK old, x : old = g[n - 1] /\ x = ss[n]
    OBVIOUS
  <2>2. old \in Seq(T) /\ Range(old) = Upto(n - 1) /\ x \in Seq(T)
    BY <1>0, <1>3, <2>1
  <2>3. 1 .. n = 1 .. (n - 1) \cup {n}
    BY <1>0
  <2>4. Upto(n) = Upto(n - 1) \cup Range(x)
    BY <2>1, <2>3
  <2>5. old \o x \in Seq(T) /\ Range(old \o x) = Range(old) \cup Range(x)
    BY <2>2, ConcatRange
  <2>6. g[n] = old \o x
    BY <1>1, <2>1 DEF Joining
  <2> HIDE DEF Upto
  <2>7. n \in 0 .. N
    BY <1>0
  <2> QED
    BY <2>2, <2>4, <2>5, <2>6, <2>7
<1>4. N \in P
  <2> HIDE DEF P, N
  <2>1. \A n \in 1 .. N : n - 1 \in P => n \in P
    BY <1>3
  <2>2. 0 .. N \subseteq P
    BY <1>0, <1>2, <2>1, AlongPrefixes
  <2> QED
    BY <1>0, <2>2
<1>5. g[N] \in Seq(T) /\ Range(g[N]) = Upto(N)
  BY <1>4
<1> QED
  BY <1>1, <1>5 DEF Joining

-----------------------------------------------------------------------------
(* Rows and labels *)

LEMMA LastSelected ==
    ASSUME NEW T, NEW s \in Seq(T), NEW wanted, NEW x, x \in Range(s), x \in wanted
    PROVE  Last(Select(s, wanted)) \in Range(s) \cap wanted
<1>1. PICK sel : sel = Select(s, wanted)
  OBVIOUS
<1>2. sel \in Seq(T) /\ Range(sel) = Range(s) \cap wanted
  BY <1>1, SelectRange
<1>3. PICK i \in DOMAIN sel : sel[i] = x
  BY <1>2 DEF Range
<1>4. Len(sel) \in DOMAIN sel
  BY <1>2, <1>3
<1>5. Last(sel) \in Range(sel)
  BY <1>4 DEF Last, Range
<1> QED
  BY <1>1, <1>2, <1>5

InTable(ts, n, k) == k \in 1 .. Len(ts) /\ n \in ts[k][1] .. ts[k][2] - 1
LabelIn(lines, ts, n, k) == IF n = ts[k][1] THEN NoLabels ELSE lines[ts[k][1]].key
Entries(K) == [key : K, labels : K \cup {NoLabels}]
EntryOf(lines, ts, n, k) == [key |-> lines[n].key, labels |-> LabelIn(lines, ts, n, k)]

\* A line is in one table at most.
LEMMA OneTable ==
    ASSUME NEW lines, NEW ts, TablesFrom(ts, lines, 1), NEW n, NEW k, NEW l,
           Len(lines) \in Nat, InTable(ts, n, k), InTable(ts, n, l)
    PROVE  k = l
<1>0. Len(ts) \in Nat
  BY DEF TablesFrom
<1>1. ASSUME NEW a \in 1 .. Len(ts), NEW b \in 1 .. Len(ts), a < b,
             n \in ts[a][1] .. ts[a][2] - 1, n \in ts[b][1] .. ts[b][2] - 1
      PROVE  FALSE
  <2>1. PICK h, e, h2, e2 : h = ts[a][1] /\ e = ts[a][2] /\ h2 = ts[b][1] /\ e2 = ts[b][2]
    OBVIOUS
  <2>2. e <= h2
    BY <1>1, <2>1 DEF TablesFrom
  <2>3. h \in Nat /\ e \in Nat /\ h2 \in Nat /\ e2 \in Nat
    BY <2>1 DEF TablesFrom
  <2>4. n \in h .. e - 1 /\ n \in h2 .. e2 - 1
    BY <1>1, <2>1
  <2> QED
    BY <2>2, <2>3, <2>4
<1>2. k \in 1 .. Len(ts) /\ l \in 1 .. Len(ts)
  BY DEF InTable
<1>3. ~ (k < l) /\ ~ (l < k)
  BY <1>1, <1>2 DEF InTable
<1> QED
  BY <1>2, <1>3

LEMMA InTableLine ==
    ASSUME NEW K, NEW lines \in Seq(Rows(K)), NEW ts, TablesFrom(ts, lines, 1),
           NEW n, NEW k, InTable(ts, n, k)
    PROVE  /\ n \in 1 .. Len(lines) /\ ts[k][1] \in 1 .. Len(lines) /\ ts[k][1] <= n
           /\ n # ts[k][1] => _same_columns(lines[ts[k][1]], lines[n])
           /\ \A m \in ts[k][1] .. n : InTable(ts, m, k)
           /\ InTable(ts, ts[k][1] + 1, k)
<1>1. PICK h, e : h = ts[k][1] /\ e = ts[k][2]
  OBVIOUS
<1>2. k \in 1 .. Len(ts) /\ n \in h .. e - 1
  BY <1>1 DEF InTable
<1>3. h \in 1 .. Len(lines) /\ h + 2 <= e /\ e = End(lines, h)
  BY <1>1, <1>2 DEF TablesFrom
<1>4. /\ e \in h + 1 .. Len(lines) + 1
      /\ \A j \in h + 1 .. e - 1 : _same_columns(lines[h], lines[j])
  BY <1>3, EndOfTable
<1>5. Len(lines) \in Nat
  OBVIOUS
<1>6. n \in 1 .. Len(lines) /\ h <= n /\ (n # h => n \in h + 1 .. e - 1)
      /\ h + 1 \in h .. e - 1 /\ \A m \in h .. n : m \in h .. e - 1
  BY <1>2, <1>3, <1>4, <1>5
<1>7. n # h => _same_columns(lines[h], lines[n])
  BY <1>4, <1>6
<1>8. (\A m \in h .. n : InTable(ts, m, k)) /\ InTable(ts, h + 1, k)
  BY <1>1, <1>2, <1>6 DEF InTable
<1> QED
  BY <1>1, <1>3, <1>6, <1>7, <1>8

\* The entries are the lines of tables with their labels.
LEMMA EntriesOfTables ==
    ASSUME NEW K, NEW lines \in Seq(Rows(K)), NEW ts, TablesFrom(ts, lines, 1),
           NEW ss, ss = [i \in DOMAIN ts |-> Rendered(lines, ts[i])]
    PROVE  /\ FlattenSeq(ss) \in Seq(Entries(K))
           /\ \A e : e \in Range(FlattenSeq(ss)) <=>
                \E n, k : InTable(ts, n, k) /\ e = EntryOf(lines, ts, n, k)
<1>0. PICK T : T = Entries(K)
  OBVIOUS
<1>1. Len(ts) \in Nat /\ DOMAIN ts = 1 .. Len(ts)
  BY DEF TablesFrom
<1>2. ASSUME NEW i \in 1 .. Len(ts)
      PROVE  /\ ss[i] \in Seq(T)
             /\ \A e : e \in Range(ss[i]) <=>
                  \E n : InTable(ts, n, i) /\ e = EntryOf(lines, ts, n, i)
  <2>1. PICK h, size : h = ts[i][1] /\ size = ts[i][2] - h
    OBVIOUS
  <2>2. PICK s : s = ss[i]
    OBVIOUS
  <2>3. s = [k \in 1 .. size |-> [key |-> lines[h + k - 1].key,
                                  labels |-> IF k = 1 THEN NoLabels ELSE lines[h].key]]
    BY <1>1, <2>1, <2>2 DEF Rendered
  <2>4. h \in 1 .. Len(lines) /\ ts[i][2] \in Nat /\ size \in Nat
        /\ size = ts[i][2] - h
    BY <2>1 DEF TablesFrom
  <2>5. \A n : InTable(ts, n, i) <=> n \in h .. h + size - 1
    <3>0. PICK e : e = ts[i][2]
      OBVIOUS
    <3>01. e \in Nat /\ h \in Nat /\ size = e - h
      BY <2>4, <3>0
    <3>02. e - 1 = h + size - 1
      BY <3>01
    <3>1. ts[i][1] = h /\ ts[i][2] - 1 = h + size - 1
      BY <2>1, <3>0, <3>02
    <3> QED
      BY <3>1 DEF InTable
  <2>6. ASSUME NEW k \in 1 .. size
        PROVE  /\ InTable(ts, h + k - 1, i) /\ s[k] = EntryOf(lines, ts, h + k - 1, i)
               /\ s[k] \in T
    <3>1. PICK n : n = h + k - 1
      OBVIOUS
    <3>2. n \in h .. h + size - 1 /\ (k = 1 <=> n = h)
      BY <2>4, <3>1
    <3>3. InTable(ts, n, i)
      BY <2>5, <3>2
    <3>4. n \in 1 .. Len(lines)
      BY <3>3, InTableLine
    <3>5. s[k] = [key |-> lines[n].key, labels |-> IF n = h THEN NoLabels ELSE lines[h].key]
      BY <2>3, <3>1, <3>2
    <3>6. lines[n] \in Rows(K) /\ lines[h] \in Rows(K)
      BY <2>4, <3>4
    <3>61. lines[n].key \in K /\ lines[h].key \in K
      BY <3>6 DEF Rows
    <3>7. s[k] \in T
      BY <1>0, <3>5, <3>61 DEF Entries
    <3>8. s[k] = EntryOf(lines, ts, n, i)
      BY <2>1, <3>5 DEF EntryOf, LabelIn
    <3> QED
      BY <3>1, <3>3, <3>7, <3>8
  <2>7. DOMAIN s = 1 .. size
    BY <2>3
  <2>8. s \in Seq(T)
    <3>0. \A k \in 1 .. size : s[k] \in T
      BY <2>6
    <3>1. s = [k \in 1 .. size |-> s[k]]
      BY <2>3
    <3>2. PICK f : f = s
      OBVIOUS
    <3>3. f \in [1 .. size -> T] /\ size \in Nat
      BY <2>4, <3>0, <3>1, <3>2
    <3>4. f \in Seq(T)
      BY <3>3
    <3> QED
      BY <3>2, <3>4
  <2>9. ASSUME NEW e, e \in Range(s) PROVE \E n : InTable(ts, n, i) /\ e = EntryOf(lines, ts, n, i)
    <3>1. PICK k \in 1 .. size : e = s[k]
      BY <2>7, <2>9 DEF Range
    <3> QED
      BY <2>6, <3>1
  <2>10. ASSUME NEW n, InTable(ts, n, i) PROVE EntryOf(lines, ts, n, i) \in Range(s)
    <3>1. n \in h .. h + size - 1
      BY <2>5, <2>10
    <3>2. PICK k : k = n - h + 1
      OBVIOUS
    <3>21. h \in Nat /\ size \in Nat
      BY <2>4
    <3>3. k \in 1 .. size /\ h + k - 1 = n
      BY <3>1, <3>2, <3>21
    <3>4. s[k] = EntryOf(lines, ts, n, i)
      BY <2>6, <3>3
    <3> QED
      BY <2>7, <3>3, <3>4 DEF Range
  <2> QED
    BY <2>2, <2>8, <2>9, <2>10
<1>3. ss \in Seq(Seq(T)) /\ Len(ss) = Len(ts)
  <2>1. ss \in [1 .. Len(ts) -> Seq(T)]
    BY <1>1, <1>2
  <2> QED
    BY <1>1, <2>1
<1>4. /\ FlattenSeq(ss) \in Seq(T)
      /\ Range(FlattenSeq(ss)) = UNION {Range(ss[i]) : i \in 1 .. Len(ss)}
  BY <1>3, FlattenRange
<1>5. \A e : e \in Range(FlattenSeq(ss)) <=> \E i \in 1 .. Len(ts) : e \in Range(ss[i])
  BY <1>3, <1>4
<1>51. \A n, k : InTable(ts, n, k) => k \in 1 .. Len(ts)
  BY DEF InTable
<1>52. ASSUME NEW e, e \in Range(FlattenSeq(ss))
       PROVE  \E n, k : InTable(ts, n, k) /\ e = EntryOf(lines, ts, n, k)
  <2>1. PICK i \in 1 .. Len(ts) : e \in Range(ss[i])
    BY <1>5, <1>52
  <2>2. PICK n : InTable(ts, n, i) /\ e = EntryOf(lines, ts, n, i)
    BY <1>2, <2>1
  <2> QED
    BY <2>2
<1>53. ASSUME NEW n, NEW k, InTable(ts, n, k)
       PROVE  EntryOf(lines, ts, n, k) \in Range(FlattenSeq(ss))
  <2>1. k \in 1 .. Len(ts)
    BY <1>51, <1>53
  <2>2. EntryOf(lines, ts, n, k) \in Range(ss[k])
    BY <1>2, <1>53, <2>1
  <2> QED
    BY <1>5, <2>1, <2>2
<1>6. \A e : e \in Range(FlattenSeq(ss)) <=>
         \E n, k : InTable(ts, n, k) /\ e = EntryOf(lines, ts, n, k)
  BY <1>52, <1>53
<1> QED
  BY <1>0, <1>4, <1>6

\* No text occurs twice on the page.
Distinct(lines) == \A i, j \in DOMAIN lines : lines[i].key = lines[j].key => i = j

\* The dictionary knows the lines of tables, and gives each its label.
LEMMA RowLabels ==
    ASSUME NEW K, NEW lines \in Seq(Rows(K)), NEW ts, ts = TablesOf(lines), Distinct(lines)
    PROVE  /\ TablesFrom(ts, lines, 1)
           /\ \A n \in 1 .. Len(lines) :
                lines[n].key \in DOMAIN table_rows(lines) <=> \E k : InTable(ts, n, k)
           /\ \A n, k : InTable(ts, n, k) =>
                table_rows(lines)[lines[n].key] = LabelIn(lines, ts, n, k)
<1>1. TablesFrom(ts, lines, 1) /\ Len(lines) \in Nat /\ DOMAIN lines = 1 .. Len(lines)
  BY TablesFound
<1>2. PICK ss : ss = [i \in DOMAIN ts |-> Rendered(lines, ts[i])]
  OBVIOUS
<1>4. PICK entries : entries = FlattenSeq(ss)
  OBVIOUS
<1>5. /\ entries \in Seq(Entries(K))
      /\ \A e : e \in Range(entries) <=>
           \E n, k : InTable(ts, n, k) /\ e = EntryOf(lines, ts, n, k)
  BY <1>1, <1>2, <1>4, EntriesOfTables
<1>6. PICK rows : rows = table_rows(lines)
  OBVIOUS
<1>7. rows = [key \in {entries[i].key : i \in DOMAIN entries} |->
                Last(Select(entries, {e \in Range(entries) : e.key = key})).labels]
  BY <1>2, <1>4, <1>6 DEF table_rows
<1>8. DOMAIN rows = {e.key : e \in Range(entries)}
  BY <1>7 DEF Range
<1>9. ASSUME NEW n, NEW k, InTable(ts, n, k)
      PROVE  /\ lines[n].key \in DOMAIN rows
             /\ rows[lines[n].key] = LabelIn(lines, ts, n, k)
  <2>1. PICK key, e : key = lines[n].key /\ e = EntryOf(lines, ts, n, k)
    OBVIOUS
  <2>2. e \in Range(entries) /\ e.key = key
    BY <1>5, <1>9, <2>1 DEF EntryOf
  <2>3. key \in DOMAIN rows
    BY <1>8, <2>2
  <2>4. PICK same : same = {d \in Range(entries) : d.key = key}
    OBVIOUS
  <2>5. rows[key] = Last(Select(entries, same)).labels
    BY <1>7, <2>3, <2>4
  <2>6. e \in same
    BY <2>2, <2>4
  <2>7. PICK d : d = Last(Select(entries, same)) /\ d \in Range(entries) \cap same
    BY <1>5, <2>2, <2>6, LastSelected
  <2>8. PICK m, l : InTable(ts, m, l) /\ d = EntryOf(lines, ts, m, l)
    BY <1>5, <2>7
  <2>9. lines[m].key = key
    BY <2>4, <2>7, <2>8 DEF EntryOf
  <2>10. m \in 1 .. Len(lines) /\ n \in 1 .. Len(lines)
    BY <1>1, <1>9, <2>8, InTableLine
  <2>11. m = n
    BY <1>1, <2>1, <2>9, <2>10 DEF Distinct
  <2>12. l = k
    BY <1>1, <1>9, <2>8, <2>11, OneTable
  <2>13. d.labels = LabelIn(lines, ts, n, k)
    BY <2>8, <2>11, <2>12 DEF EntryOf
  <2> QED
    BY <2>1, <2>3, <2>5, <2>7, <2>13
<1>10. ASSUME NEW n \in 1 .. Len(lines), lines[n].key \in DOMAIN rows
       PROVE  \E k : InTable(ts, n, k)
  <2>1. PICK e : e \in Range(entries) /\ e.key = lines[n].key
    BY <1>8, <1>10
  <2>2. PICK m, l : InTable(ts, m, l) /\ e = EntryOf(lines, ts, m, l)
    BY <1>5, <2>1
  <2>3. lines[m].key = lines[n].key /\ m \in 1 .. Len(lines)
    BY <1>1, <2>1, <2>2, InTableLine DEF EntryOf
  <2>4. m = n
    BY <1>1, <2>3 DEF Distinct
  <2> QED
    BY <2>2, <2>4
<1> QED
  BY <1>1, <1>6, <1>9, <1>10

-----------------------------------------------------------------------------
(* The page as it is written *)

RowPieces(K) == [line : Nat, labels : K \cup {NoLabels}]
Blank == [line |-> 0, labels |-> NoLabels]
OutOf(lines, rows, n) ==
    IF lines[n].key \notin DOMAIN rows THEN <<[line |-> n, labels |-> NoLabels]>>
    ELSE IF rows[lines[n].key] = NoLabels THEN << >>
    ELSE <<Blank, [line |-> n, labels |-> rows[lines[n].key]], Blank>>

WellLabelled(K, lines, rows, n) ==
    lines[n].key \in DOMAIN rows => rows[lines[n].key] \in K \cup {NoLabels}
WrittenOnce(s, n) ==
    /\ \A i \in 1 .. Len(s) : s[i].line \in {0, n}
    /\ \A i, j \in 1 .. Len(s) : i < j => 0 \in {s[i].line, s[j].line}
WithLabels(lines, rows, n, s) ==
    /\ \A o \in Range(s) :
         /\ o.line \in {0, n}
         /\ o.labels # NoLabels =>
              o.line = n /\ lines[n].key \in DOMAIN rows /\ o.labels = rows[lines[n].key]
         /\ o.line = n /\ lines[n].key \in DOMAIN rows => rows[lines[n].key] # NoLabels
    /\ lines[n].key \notin DOMAIN rows => \E o \in Range(s) : o.line = n
    /\ lines[n].key \in DOMAIN rows /\ rows[lines[n].key] # NoLabels =>
         [line |-> n, labels |-> rows[lines[n].key]] \in Range(s)

\* A line is written once at most, with the labels the dictionary has for it.
LEMMA OutOfLine ==
    ASSUME NEW K, NEW lines, NEW rows, NEW n \in Nat, n # 0, WellLabelled(K, lines, rows, n),
           NEW s, s = OutOf(lines, rows, n)
    PROVE  s \in Seq(RowPieces(K)) /\ WrittenOnce(s, n) /\ WithLabels(lines, rows, n, s)
<1>1. PICK key, o1, o2 : /\ key = lines[n].key /\ o1 = [line |-> n, labels |-> NoLabels]
                         /\ o2 = [line |-> n, labels |-> rows[key]]
  OBVIOUS
<1>2. PICK T, b : T = RowPieces(K) /\ b = Blank
  OBVIOUS
<1>3. b \in T /\ o1 \in T /\ b.line = 0 /\ b.labels = NoLabels /\ o1.line = n /\ o1.labels = NoLabels
  BY <1>1, <1>2 DEF RowPieces, Blank
<1>4. CASE key \notin DOMAIN rows
  <2>1. s = <<o1>>
    BY <1>1, <1>4 DEF OutOf
  <2>2. s \in Seq(T) /\ Len(s) = 1 /\ s[1] = o1 /\ Range(s) = {o1}
    <3>1. s \in Seq(T) /\ Len(s) = 1 /\ s[1] = o1 /\ DOMAIN s = 1 .. 1
      BY <1>3, <2>1
    <3> QED
      BY <3>1 DEF Range
  <2>3. WrittenOnce(s, n)
    <3>1. /\ \A i \in 1 .. Len(s) : s[i].line \in {0, n}
          /\ \A i, j \in 1 .. Len(s) : ~ (i < j)
      BY <1>3, <2>2
    <3> QED
      BY <3>1 DEF WrittenOnce
  <2>4. WithLabels(lines, rows, n, s)
    BY <1>1, <1>3, <1>4, <2>2 DEF WithLabels
  <2> QED
    BY <1>2, <2>2, <2>3, <2>4
<1>5. CASE key \in DOMAIN rows /\ rows[key] = NoLabels
  <2>1. s = << >>
    BY <1>1, <1>5 DEF OutOf
  <2>2. s \in Seq(T) /\ Len(s) = 0 /\ Range(s) = {}
    BY <2>1 DEF Range
  <2>3. WrittenOnce(s, n) /\ WithLabels(lines, rows, n, s)
    BY <1>1, <1>5, <2>2 DEF WrittenOnce, WithLabels
  <2> QED
    BY <1>2, <2>2, <2>3
<1>6. CASE key \in DOMAIN rows /\ rows[key] # NoLabels
  <2>1. s = <<b, o2, b>>
    BY <1>1, <1>2, <1>6 DEF OutOf
  <2>2. o2 \in T /\ o2.line = n /\ o2.labels = rows[key]
    BY <1>1, <1>2, <1>6 DEF RowPieces, WellLabelled
  <2>3. s \in Seq(T) /\ Len(s) = 3 /\ s[1] = b /\ s[2] = o2 /\ s[3] = b /\ DOMAIN s = 1 .. 3
    BY <1>3, <2>1, <2>2
  <2>4. Range(s) = {b, o2}
    BY <2>3 DEF Range
  <2>5. \A i \in 1 .. Len(s) : s[i].line \in {0, n}
    BY <1>3, <2>2, <2>3
  <2>6. \A i, j \in 1 .. Len(s) : i < j => 0 \in {s[i].line, s[j].line}
    <3>1. \A i, j \in 1 .. 3 : i < j => i = 1 \/ j = 3
      OBVIOUS
    <3> QED
      BY <1>3, <2>3, <3>1
  <2>7. WithLabels(lines, rows, n, s)
    BY <1>1, <1>3, <1>6, <2>2, <2>4 DEF WithLabels
  <2> QED
    BY <1>2, <2>3, <2>5, <2>6, <2>7 DEF WrittenOnce
<1> QED
  BY <1>4, <1>5, <1>6

\* The lines written so far, each at most once and in the order of the page.
InOrder(t, n) ==
    /\ \A i \in 1 .. Len(t) : t[i].line \in 0 .. n
    /\ \A i, j \in 1 .. Len(t) : i < j /\ 0 \notin {t[i].line, t[j].line} => t[i].line < t[j].line

LEMMA OrderGrows ==
    ASSUME NEW K, NEW n \in Nat, n # 0, NEW old \in Seq(RowPieces(K)), InOrder(old, n - 1),
           NEW s \in Seq(RowPieces(K)), WrittenOnce(s, n)
    PROVE  old \o s \in Seq(RowPieces(K)) /\ InOrder(old \o s, n)
<1>1. PICK T, t, a, b : T = RowPieces(K) /\ t = old \o s /\ a = Len(old) /\ b = Len(s)
  OBVIOUS
<1>2. old \in Seq(T) /\ s \in Seq(T) /\ a \in Nat /\ b \in Nat
  BY <1>1
<1>3. /\ t \in Seq(T) /\ Len(t) = a + b
      /\ \A i \in 1 .. a + b : t[i] = IF i <= a THEN old[i] ELSE s[i - a]
  BY <1>1, <1>2, ConcatProperties
<1>4. ASSUME NEW i \in 1 .. a + b
      PROVE  \/ i \in 1 .. a /\ t[i] = old[i] /\ t[i].line \in 0 .. n - 1
             \/ i - a \in 1 .. b /\ t[i] = s[i - a] /\ t[i].line \in {0, n}
  <2>1. CASE i <= a
    <3>1. i \in 1 .. a /\ t[i] = old[i]
      BY <1>2, <1>3, <2>1
    <3> QED
      BY <1>1, <3>1 DEF InOrder
  <2>2. CASE ~ (i <= a)
    <3>1. PICK p : p = i - a
      OBVIOUS
    <3>2. p \in 1 .. b /\ t[i] = s[p]
      BY <1>2, <1>3, <2>2, <3>1
    <3> QED
      BY <1>1, <3>1, <3>2 DEF WrittenOnce
  <2> QED
    BY <2>1, <2>2
<1>5. \A i \in 1 .. a + b : t[i].line \in 0 .. n
  <2>1. \A v : v \in 0 .. n - 1 \/ v \in {0, n} => v \in 0 .. n
    OBVIOUS
  <2> QED
    BY <1>4, <2>1
<1>6. ASSUME NEW i \in 1 .. a + b, NEW j \in 1 .. a + b, i < j, t[i].line # 0, t[j].line # 0
      PROVE  t[i].line < t[j].line
  <2>1. CASE j \in 1 .. a
    <3>1. i \in 1 .. a /\ i <= a /\ j <= a
      BY <1>2, <1>6, <2>1
    <3>2. t[i] = old[i] /\ t[j] = old[j]
      BY <1>3, <2>1, <3>1
    <3> QED
      BY <1>1, <1>6, <2>1, <3>1, <3>2 DEF InOrder
  <2>2. CASE j \notin 1 .. a
    <3>1. j - a \in 1 .. b /\ t[j] = s[j - a] /\ t[j].line = n
      BY <1>4, <1>6, <2>2
    <3>2. CASE i \in 1 .. a
      <4>1. i <= a
        BY <1>2, <3>2
      <4>2. t[i] = old[i]
        BY <1>3, <4>1
      <4>3. t[i].line \in 0 .. n - 1
        BY <1>1, <3>2, <4>2 DEF InOrder
      <4> QED
        BY <3>1, <4>3
    <3>3. CASE i \notin 1 .. a
      <4>1. i - a \in 1 .. b /\ t[i] = s[i - a]
        BY <1>4, <3>3
      <4>2. PICK p, q : p = i - a /\ q = j - a
        OBVIOUS
      <4>3. p \in 1 .. b /\ q \in 1 .. b /\ p < q /\ t[i] = s[p] /\ t[j] = s[q]
        BY <1>2, <1>6, <3>1, <4>1, <4>2
      <4>4. 0 \in {s[p].line, s[q].line}
        BY <1>1, <4>3 DEF WrittenOnce
      <4> QED
        BY <1>6, <4>3, <4>4
    <3> QED
      BY <3>2, <3>3
  <2> QED
    BY <2>1, <2>2
<1> QED
  BY <1>1, <1>3, <1>5, <1>6 DEF InOrder

\* What is written of a page.
LEMMA PageWritten ==
    ASSUME NEW K, NEW lines \in Seq(Rows(K)), NEW rows,
           \A n \in 1 .. Len(lines) : WellLabelled(K, lines, rows, n),
           NEW out, out = _render_tables(lines, rows)
    PROVE  /\ out \in Seq(RowPieces(K)) /\ InOrder(out, Len(lines))
           /\ \A o : o \in Range(out) <=>
                       \E n \in 1 .. Len(lines) : o \in Range(OutOf(lines, rows, n))
<1>1. PICK N, T : N = Len(lines) /\ T = RowPieces(K)
  OBVIOUS
<1>2. N \in Nat /\ DOMAIN lines = 1 .. N
  BY <1>1
<1>3. PICK ss : ss = [n \in 1 .. N |-> OutOf(lines, rows, n)]
  OBVIOUS
<1>4. out = FlattenSeq(ss)
  BY <1>2, <1>3 DEF _render_tables, OutOf, Blank
<1>5. ASSUME NEW n \in 1 .. N
      PROVE  /\ ss[n] \in Seq(T) /\ n \in Nat /\ n # 0 /\ ss[n] = OutOf(lines, rows, n)
             /\ WrittenOnce(ss[n], n)
  <2>1. PICK s : s = ss[n] /\ s = OutOf(lines, rows, n)
    BY <1>3
  <2>2. n \in Nat /\ n # 0
    BY <1>2
  <2>3. WellLabelled(K, lines, rows, n)
    BY <1>1
  <2>4. s \in Seq(RowPieces(K)) /\ WrittenOnce(s, n)
    BY <2>1, <2>2, <2>3, OutOfLine
  <2> QED
    BY <1>1, <2>1, <2>2, <2>4
<1>6. ss \in Seq(Seq(T)) /\ Len(ss) = N
  <2>1. \A n \in 1 .. N : ss[n] \in Seq(T)
    BY <1>5
  <2>2. PICK f : f = ss /\ f = [n \in 1 .. N |-> f[n]]
    BY <1>3
  <2>3. f \in [1 .. N -> Seq(T)]
    BY <2>1, <2>2
  <2>4. f \in Seq(Seq(T)) /\ Len(f) = N
    BY <1>2, <2>3
  <2> QED
    BY <2>2, <2>4
<1>7. PICK g : Joining(g, ss)
  BY <1>6, FlattenSteps
<1> DEFINE P == {n \in 0 .. N : g[n] \in Seq(T) /\ InOrder(g[n], n)}
<1>8. 0 \in P
  <2>1. PICK none : none = << >>
    OBVIOUS
  <2>2. none \in Seq(T) /\ Len(none) = 0
    BY <2>1
  <2>3. InOrder(none, 0)
    BY <2>2 DEF InOrder
  <2>4. g[0] = none
    BY <1>7, <2>1 DEF Joining
  <2>5. 0 \in 0 .. N
    BY <1>2
  <2> QED
    BY <2>2, <2>3, <2>4, <2>5
<1>9. ASSUME NEW n \in 1 .. N, n - 1 \in P PROVE n \in P
  <2>1. PICK old, s : old = g[n - 1] /\ s = ss[n]
    OBVIOUS
  <2>2. old \in Seq(T) /\ InOrder(old, n - 1)
    BY <1>9, <2>1
  <2>3. s \in Seq(T) /\ n \in Nat /\ n # 0 /\ WrittenOnce(s, n)
    BY <1>5, <2>1
  <2>4. old \o s \in Seq(T) /\ InOrder(old \o s, n)
    BY <1>1, <2>2, <2>3, OrderGrows
  <2>5. g[n] = old \o s
    BY <1>6, <1>7, <2>1 DEF Joining
  <2>6. n \in 0 .. N
    BY <1>2
  <2> QED
    BY <2>4, <2>5, <2>6
<1>10. N \in P
  <2> HIDE DEF P
  <2>1. \A n \in 1 .. N : n - 1 \in P => n \in P
    BY <1>9
  <2>2. 0 .. N \subseteq P
    BY <1>2, <1>8, <2>1, AlongPrefixes
  <2> QED
    BY <1>2, <2>2
<1>11. out \in Seq(T) /\ InOrder(out, N)
  <2>1. out = g[N]
    BY <1>4, <1>6, <1>7 DEF Joining
  <2> QED
    BY <1>10, <2>1
<1>12. Range(out) = UNION {Range(ss[i]) : i \in 1 .. N}
  BY <1>4, <1>6, FlattenRange
<1>13. \A o : o \in Range(out) <=> \E n \in 1 .. N : o \in Range(ss[n])
  BY <1>12
<1>14. \A o : o \in Range(out) <=> \E n \in 1 .. N : o \in Range(OutOf(lines, rows, n))
  BY <1>5, <1>13
<1> QED
  BY <1>1, <1>11, <1>14

\* What is said of a page and the pieces written in its place.
PageKeepsLabels(lines, out) ==
    LET shown == {o.line : o \in Range(out)}
        labelled == {o \in Range(out) : o.labels # NoLabels}
        Header(key) == CHOOSE i \in DOMAIN lines : lines[i].key = key
    IN  /\ \A o \in labelled :
             LET h == Header(o.labels) IN
             /\ h < o.line /\ h \notin shown
             /\ \A j \in h + 1 .. o.line : j \in shown /\ _same_columns(lines[h], lines[j])
        /\ \A n \in DOMAIN lines \ shown : \E o \in labelled : o.labels = lines[n].key
        /\ \A i, j \in DOMAIN out :
             i < j /\ 0 \notin {out[i].line, out[j].line} => out[i].line < out[j].line

LEMMA LabelsKept ==
    ASSUME NEW K, NoLabels \notin K, NEW lines \in Seq(Rows(K)), Distinct(lines),
           NEW out, out = _render_tables(lines, table_rows(lines))
    PROVE  PageKeepsLabels(lines, out)
<1>1. PICK ts, rows, N : ts = TablesOf(lines) /\ rows = table_rows(lines) /\ N = Len(lines)
  OBVIOUS
<1>2. N \in Nat /\ DOMAIN lines = 1 .. N
  BY <1>1
<1>3. /\ TablesFrom(ts, lines, 1)
      /\ \A n \in 1 .. N : lines[n].key \in DOMAIN rows <=> \E k : InTable(ts, n, k)
      /\ \A n, k : InTable(ts, n, k) => rows[lines[n].key] = LabelIn(lines, ts, n, k)
  BY <1>1, RowLabels
<1>4. \A n \in 1 .. N : lines[n].key \in K
  <2>1. \A n \in 1 .. N : lines[n] \in Rows(K)
    BY <1>2
  <2> QED
    BY <2>1 DEF Rows
<1>5. ASSUME NEW n, NEW k, InTable(ts, n, k)
      PROVE  /\ n \in 1 .. N /\ ts[k][1] \in 1 .. N /\ ts[k][1] <= n
             /\ lines[n].key \in DOMAIN rows
             /\ n = ts[k][1] => rows[lines[n].key] = NoLabels
             /\ n # ts[k][1] => /\ rows[lines[n].key] = lines[ts[k][1]].key
                                /\ rows[lines[n].key] \in K /\ rows[lines[n].key] # NoLabels
                                /\ _same_columns(lines[ts[k][1]], lines[n])
  <2>1. PICK h : h = ts[k][1]
    OBVIOUS
  <2>2. n \in 1 .. N /\ h \in 1 .. N /\ h <= n /\ (n # h => _same_columns(lines[h], lines[n]))
    BY <1>1, <1>3, <1>5, <2>1, InTableLine
  <2>3. lines[n].key \in DOMAIN rows /\ rows[lines[n].key] = LabelIn(lines, ts, n, k)
    BY <1>3, <1>5, <2>2
  <2>4. LabelIn(lines, ts, n, k) = IF n = h THEN NoLabels ELSE lines[h].key
    BY <2>1 DEF LabelIn
  <2> QED
    BY <1>4, <2>1, <2>2, <2>3, <2>4
<1>6. \A n \in 1 .. N : WellLabelled(K, lines, rows, n)
  BY <1>3, <1>5 DEF WellLabelled
<1>7. /\ out \in Seq(RowPieces(K)) /\ InOrder(out, N)
      /\ \A o : o \in Range(out) <=> \E n \in 1 .. N : o \in Range(OutOf(lines, rows, n))
  BY <1>1, <1>6, PageWritten
<1>8. ASSUME NEW n \in 1 .. N, NEW s, s = OutOf(lines, rows, n)
      PROVE  WithLabels(lines, rows, n, s)
  <2>1. n \in Nat /\ n # 0 /\ WellLabelled(K, lines, rows, n)
    BY <1>2, <1>6
  <2> QED
    BY <1>8, <2>1, OutOfLine
<1> DEFINE shown == {o.line : o \in Range(out)}
           labelled == {o \in Range(out) : o.labels # NoLabels}
           Header(key) == CHOOSE i \in DOMAIN lines : lines[i].key = key
\* A line is left out just if it is a header.
<1>9. ASSUME NEW n \in 1 .. N
      PROVE  n \in shown <=> (lines[n].key \in DOMAIN rows => rows[lines[n].key] # NoLabels)
  <2>1. PICK s : s = OutOf(lines, rows, n)
    OBVIOUS
  <2>2. ASSUME n \in shown, lines[n].key \in DOMAIN rows PROVE rows[lines[n].key] # NoLabels
    <3>1. PICK o \in Range(out) : o.line = n
      BY <2>2
    <3>20. PICK m \in 1 .. N : o \in Range(OutOf(lines, rows, m))
      BY <1>7, <3>1
    <3>2. PICK t : o \in Range(t) /\ t = OutOf(lines, rows, m)
      BY <3>20
    <3>3. WithLabels(lines, rows, m, t) /\ n # 0
      BY <1>2, <1>8, <3>2
    <3>4. m = n
      BY <3>1, <3>2, <3>3 DEF WithLabels
    <3> QED
      BY <2>2, <3>1, <3>2, <3>3, <3>4 DEF WithLabels
  <2>3. ASSUME lines[n].key \in DOMAIN rows => rows[lines[n].key] # NoLabels PROVE n \in shown
    <3>1. CASE lines[n].key \notin DOMAIN rows
      <4>1. PICK o \in Range(s) : o.line = n
        BY <1>8, <2>1, <3>1 DEF WithLabels
      <4> QED
        BY <1>7, <2>1, <4>1
    <3>2. CASE lines[n].key \in DOMAIN rows
      <4>1. PICK o : o = [line |-> n, labels |-> rows[lines[n].key]]
        OBVIOUS
      <4>2. o \in Range(s) /\ o.line = n
        BY <1>8, <2>1, <2>3, <3>2, <4>1 DEF WithLabels
      <4> QED
        BY <1>7, <2>1, <4>2
    <3> QED
      BY <3>1, <3>2
  <2> QED
    BY <2>2, <2>3
<1>10. \A n, k : InTable(ts, n, k) => (n \in shown <=> n # ts[k][1])
  BY <1>5, <1>9
<1>11. ASSUME NEW o \in labelled
       PROVE  /\ Header(o.labels) < o.line /\ Header(o.labels) \notin shown
              /\ \A j \in Header(o.labels) + 1 .. o.line :
                   j \in shown /\ _same_columns(lines[Header(o.labels)], lines[j])
  <2>100. PICK n \in 1 .. N : o \in Range(OutOf(lines, rows, n))
    BY <1>7
  <2>1. PICK s : o \in Range(s) /\ s = OutOf(lines, rows, n)
    BY <2>100
  <2>2. o.line = n /\ lines[n].key \in DOMAIN rows /\ o.labels = rows[lines[n].key]
        /\ o.labels # NoLabels
    <3>1. WithLabels(lines, rows, n, s)
      BY <1>8, <2>1
    <3>2. o.labels # NoLabels
      OBVIOUS
    <3> HIDE DEF labelled
    <3> QED
      BY <2>1, <3>1, <3>2 DEF WithLabels
  <2>3. PICK k : InTable(ts, n, k)
    BY <1>3, <2>2
  <2>4. PICK h : h = ts[k][1]
    OBVIOUS
  <2>5. n # h /\ h \in 1 .. N /\ h <= n /\ o.labels = lines[h].key
    BY <1>5, <2>2, <2>3, <2>4
  <2>6. Header(o.labels) = h
    <3>1. \A i \in DOMAIN lines : lines[i].key = o.labels <=> i = h
      BY <1>2, <2>5 DEF Distinct
    <3> QED
      BY <1>2, <2>5, <3>1
  <2>7. \A m \in h .. n : InTable(ts, m, k)
    BY <1>3, <2>3, <2>4, InTableLine
  <2>8. h < n /\ h \in h .. n /\ \A j \in h + 1 .. n : j \in h .. n /\ j # h
    BY <1>2, <2>5
  <2>9. h \notin shown
    BY <1>10, <2>4, <2>7, <2>8
  <2>10. \A j \in h + 1 .. n : j \in shown /\ _same_columns(lines[h], lines[j])
    BY <1>5, <1>10, <2>4, <2>7, <2>8
  <2> HIDE DEF shown, Header
  <2> QED
    BY <2>2, <2>6, <2>8, <2>9, <2>10
<1>12. ASSUME NEW n \in DOMAIN lines, n \notin shown
       PROVE  \E o \in labelled : o.labels = lines[n].key
  <2>1. n \in 1 .. N /\ lines[n].key \in DOMAIN rows
    BY <1>2, <1>9, <1>12
  <2>2. PICK k : InTable(ts, n, k)
    BY <1>3, <2>1
  <2>3. n = ts[k][1]
    BY <1>10, <1>12, <2>2
  <2>4. PICK m : m = n + 1
    OBVIOUS
  <2>5. InTable(ts, m, k)
    BY <1>3, <2>2, <2>3, <2>4, InTableLine
  <2>6. m # n
    BY <1>2, <2>1, <2>4
  <2>7. m \in 1 .. N /\ lines[m].key \in DOMAIN rows /\ rows[lines[m].key] = lines[n].key
        /\ rows[lines[m].key] # NoLabels
    BY <1>5, <2>3, <2>5, <2>6
  <2>8. PICK o, s : s = OutOf(lines, rows, m) /\ o = [line |-> m, labels |-> rows[lines[m].key]]
    OBVIOUS
  <2>9. o \in Range(s) /\ o.labels = lines[n].key /\ o.labels # NoLabels
    BY <1>8, <2>7, <2>8 DEF WithLabels
  <2>10. o \in Range(out)
    BY <1>7, <2>7, <2>8, <2>9
  <2> QED
    BY <2>9, <2>10
<1>13. ASSUME NEW i \in DOMAIN out, NEW j \in DOMAIN out, i < j,
              0 \notin {out[i].line, out[j].line}
       PROVE  out[i].line < out[j].line
  <2>1. DOMAIN out = 1 .. Len(out)
    BY <1>7
  <2> QED
    BY <1>7, <1>13, <2>1 DEF InOrder
<1> QED
  BY <1>11, <1>12, <1>13 DEF PageKeepsLabels
LEMMA PageHonest == ASSUME find_tables PROVE RowsKeepTheirLabels'
<1>1. PICK p \in Pages :
        input' = [kind |-> "page", lines |-> p, out |-> _render_tables(p, table_rows(p))]
  BY DEF find_tables
<1>2. PICK S, K : S = STRING /\ K = S \ {NoLabels}
  OBVIOUS
<1>3. p \in Seq([x : Seq(Int), key : S]) /\ \A i \in DOMAIN p : p[i].key # NoLabels
  BY <1>2, PagesAssumption
<1>4. p \in Seq(Rows(K))
  <2>1. PICK n : n = Len(p) /\ n \in Nat /\ DOMAIN p = 1 .. n
    BY <1>3
  <2>2. ASSUME NEW i \in 1 .. n PROVE p[i] \in Rows(K)
    <3>1. PICK r : r = p[i]
      OBVIOUS
    <3>2. r \in [x : Seq(Int), key : S]
      <4>1. PICK T : T = [x : Seq(Int), key : S]
        OBVIOUS
      <4>2. p \in Seq(T)
        BY <1>3, <4>1
      <4>3. p[i] \in T
        BY <2>1, <4>2
      <4> QED
        BY <3>1, <4>1, <4>3
    <3>3. r.key # NoLabels
      BY <1>3, <2>1, <3>1
    <3> QED
      BY <1>2, <3>1, <3>2, <3>3 DEF Rows
  <2>3. p = [i \in 1 .. n |-> p[i]]
    BY <1>3, <2>1
  <2>4. p \in [1 .. n -> Rows(K)]
    BY <2>2, <2>3
  <2> QED
    BY <2>1, <2>4
<1>5. PICK out : out = _render_tables(p, table_rows(p))
  OBVIOUS
<1>6. input'.lines = p /\ input'.out = out
  BY <1>1, <1>5
<1>7. Distinct(p) => PageKeepsLabels(p, out)
  BY <1>2, <1>4, <1>5, LabelsKept
<1>8. Distinct(input'.lines) => PageKeepsLabels(input'.lines, input'.out)
  BY <1>6, <1>7
<1> QED
  BY <1>8 DEF RowsKeepTheirLabels, PageKeepsLabels, Distinct, Labelled, Shown
-----------------------------------------------------------------------------
(* Sequences of sequences *)

\* The sequences of gs, one after the other, are the first of s; lo is where each begins.
Tiles(lo, gs, s) ==
    /\ lo \in [1 .. Len(gs) + 1 -> Nat] /\ lo[1] = 1
    /\ \A i \in 1 .. Len(gs) :
         /\ lo[i + 1] = lo[i] + Len(gs[i])
         /\ \A k \in 1 .. Len(gs[i]) : gs[i][k] = s[lo[i] + k - 1]

LEMMA Inner ==
    ASSUME NEW T, NEW ss \in Seq(Seq(T))
    PROVE  /\ Len(ss) \in Nat /\ DOMAIN ss = 1 .. Len(ss)
           /\ \A i \in 1 .. Len(ss) :
                ss[i] \in Seq(T) /\ Len(ss[i]) \in Nat /\ DOMAIN ss[i] = 1 .. Len(ss[i])
<1>1. PICK S : S = Seq(T)
  OBVIOUS
<1>2. ss \in Seq(S)
  BY <1>1
<1>3. Len(ss) \in Nat /\ DOMAIN ss = 1 .. Len(ss)
  BY <1>2
<1>4. ASSUME NEW i \in 1 .. Len(ss)
      PROVE  ss[i] \in Seq(T) /\ Len(ss[i]) \in Nat /\ DOMAIN ss[i] = 1 .. Len(ss[i])
  <2>1. PICK x : x = ss[i]
    OBVIOUS
  <2>2. x \in S
    BY <1>2, <2>1
  <2>3. x \in Seq(T)
    BY <1>1, <2>2
  <2>4. Len(x) \in Nat /\ DOMAIN x = 1 .. Len(x)
    BY <2>3
  <2> QED
    BY <2>1, <2>3, <2>4
<1> QED
  BY <1>3, <1>4

LEMMA TilesInOrder ==
    ASSUME NEW T, NEW gs \in Seq(Seq(T)), NEW s, NEW lo, Tiles(lo, gs, s),
           NEW i \in 1 .. Len(gs) + 1, NEW j \in 1 .. Len(gs) + 1, i <= j
    PROVE  lo[i] <= lo[j]
<1> DEFINE N == Len(gs)
           P == {n \in 0 .. N : i <= n + 1 => lo[i] <= lo[n + 1]}
<1>0. N \in Nat /\ lo \in [1 .. N + 1 -> Nat] /\ i \in 1 .. N + 1 /\ j \in 1 .. N + 1
  BY DEF Tiles
<1>1. 0 \in P
  <2>1. i <= 0 + 1 => i = 0 + 1
    BY <1>0
  <2>2. lo[i] <= lo[i]
    BY <1>0
  <2> QED
    BY <1>0, <2>1, <2>2
<1>2. ASSUME NEW n \in 1 .. N, n - 1 \in P PROVE n \in P
  <2>1. PICK a, b, c : a = lo[i] /\ b = lo[n] /\ c = lo[n + 1] /\ a \in Nat /\ b \in Nat /\ c \in Nat
    <3>1. n \in 1 .. N + 1 /\ n + 1 \in 1 .. N + 1
      BY <1>0
    <3> QED
      BY <1>0, <3>1
  <2>2. b <= c
    <3>1. c = b + Len(gs[n])
      BY <2>1 DEF Tiles
    <3>2. Len(gs[n]) \in Nat
      BY Inner
    <3> QED
      BY <2>1, <3>1, <3>2
  <2>3. i <= n => a <= b
    <3>1. n - 1 + 1 = n
      BY <1>0
    <3> QED
      BY <1>2, <2>1, <3>1
  <2>4. i <= n + 1 => i <= n \/ i = n + 1
    BY <1>0
  <2>41. a \in Nat /\ b \in Nat /\ c \in Nat
    BY <2>1
  <2>42. a <= b => a <= c
    BY <2>2, <2>41
  <2>43. i = n + 1 => a = c
    BY <2>1
  <2>5. i <= n + 1 => a <= c
    BY <2>3, <2>4, <2>41, <2>42, <2>43
  <2> QED
    BY <1>0, <2>1, <2>5
<1>3. N \in 0 .. N /\ 0 .. N \subseteq P
  <2>0. N \in 0 .. N
    BY <1>0
  <2> HIDE DEF P, N
  <2>1. \A n \in 1 .. N : n - 1 \in P => n \in P
    BY <1>2
  <2>2. 0 .. N \subseteq P
    BY <1>0, <1>1, <2>1, AlongPrefixes
  <2> QED
    BY <2>0, <2>2
<1>4. PICK n : n = j - 1
  OBVIOUS
<1>5. n \in 0 .. N /\ n + 1 = j
  BY <1>0, <1>4
<1>6. n \in P
  <2> HIDE DEF P, N
  <2> QED
    BY <1>3, <1>5
<1> QED
  BY <1>5, <1>6

\* A tile lies before the next one, and in the sequence.
Apart(lo, gs, s, i, k) ==
    /\ lo[i] + k - 1 \in 1 .. lo[Len(gs) + 1] - 1
    /\ lo[i] <= lo[i] + k - 1 /\ lo[i] + k - 1 < lo[i + 1]
    /\ gs[i][k] = s[lo[i] + k - 1]
    /\ \A j \in i + 1 .. Len(gs) : lo[i] + k - 1 < lo[j]

LEMMA TileApart ==
    ASSUME NEW T, NEW gs \in Seq(Seq(T)), NEW s, NEW lo, Tiles(lo, gs, s),
           NEW i \in 1 .. Len(gs), NEW k \in 1 .. Len(gs[i])
    PROVE  Apart(lo, gs, s, i, k)
<1>1. PICK N, L : N = Len(gs) /\ N \in Nat /\ L = Len(gs[i]) /\ L \in Nat
  <2>1. Len(gs) \in Nat /\ Len(gs[i]) \in Nat
    BY Inner
  <2> QED
    BY <2>1
<1>2. i \in 1 .. N + 1 /\ i + 1 \in 1 .. N + 1 /\ N + 1 \in 1 .. N + 1 /\ 1 \in 1 .. N + 1
      /\ 1 <= i /\ i + 1 <= N + 1
  BY <1>1
<1>3. PICK a, b, c : a = lo[i] /\ b = lo[i + 1] /\ c = lo[N + 1]
  OBVIOUS
<1>4. lo \in [1 .. N + 1 -> Nat] /\ lo[1] = 1
  BY <1>1 DEF Tiles
<1>5. a \in Nat /\ b \in Nat /\ c \in Nat
  BY <1>2, <1>3, <1>4
<1>6. 1 <= a
  BY <1>1, <1>2, <1>3, <1>4, TilesInOrder
<1>7. b <= c
  BY <1>1, <1>2, <1>3, TilesInOrder
<1>8. b = a + L
  BY <1>1, <1>3 DEF Tiles
<1>9. /\ a + k - 1 \in 1 .. c - 1 /\ a <= a + k - 1 /\ a + k - 1 < b
  BY <1>1, <1>5, <1>6, <1>7, <1>8
<1>10. gs[i][k] = s[a + k - 1]
  BY <1>3 DEF Tiles
<1>11. ASSUME NEW j \in i + 1 .. N PROVE a + k - 1 < lo[j]
  <2>1. j \in 1 .. N + 1 /\ i + 1 <= j
    BY <1>1
  <2>2. b <= lo[j] /\ lo[j] \in Nat
    BY <1>1, <1>2, <1>3, <1>4, <2>1, TilesInOrder
  <2> QED
    BY <1>1, <1>5, <1>9, <2>2
<1> QED
  BY <1>1, <1>3, <1>9, <1>10, <1>11 DEF Apart

\* Every place is in a tile.
InTile(lo, gs, q) == \E i \in 1 .. Len(gs) : \E k \in 1 .. Len(gs[i]) : q = lo[i] + k - 1

LEMMA TilesCover ==
    ASSUME NEW T, NEW gs \in Seq(Seq(T)), NEW s, NEW lo, Tiles(lo, gs, s),
           NEW q \in 1 .. lo[Len(gs) + 1] - 1
    PROVE  InTile(lo, gs, q)
<1> DEFINE N == Len(gs)
           Here == \E i \in 1 .. Len(gs) : \E k \in 1 .. Len(gs[i]) : q = lo[i] + k - 1
           P == {n \in 0 .. N : q < lo[n + 1] => Here}
<1>0. N \in Nat /\ lo \in [1 .. N + 1 -> Nat] /\ lo[1] = 1 /\ N + 1 \in 1 .. N + 1
  BY DEF Tiles
<1>1. q \in Nat /\ 1 <= q /\ q < lo[N + 1]
  <2>1. PICK c : c = lo[N + 1] /\ c \in Nat
    BY <1>0
  <2>2. q \in 1 .. c - 1
    BY <2>1
  <2> QED
    BY <2>1, <2>2
<1>2. 0 \in P
  BY <1>0, <1>1
<1>3. ASSUME NEW n \in 1 .. N, n - 1 \in P PROVE n \in P
  <2>1. PICK b, c, L : b = lo[n] /\ c = lo[n + 1] /\ L = Len(gs[n]) /\ b \in Nat /\ c \in Nat /\ L \in Nat
    <3>1. n \in 1 .. N + 1 /\ n + 1 \in 1 .. N + 1
      BY <1>0
    <3>2. Len(gs[n]) \in Nat
      BY Inner
    <3> QED
      BY <1>0, <3>1, <3>2
  <2>2. c = b + L
    BY <2>1 DEF Tiles
  <2>3. n - 1 + 1 = n
    BY <1>0
  <2>4. q < b => Here
    <3> HIDE DEF Here
    <3> QED
      BY <1>3, <2>1, <2>3
  <2>5. ~ (q < b) /\ q < c => Here
    <3> SUFFICES ASSUME ~ (q < b), q < c PROVE Here
      OBVIOUS
    <3>1. PICK k : k = q - b + 1
      OBVIOUS
    <3>2. k \in 1 .. L /\ q = b + k - 1
      <4>1. q \in Nat /\ b \in Nat /\ L \in Nat /\ b <= q /\ q < b + L
        BY <1>1, <2>1, <2>2
      <4> HIDE DEF Here, N
      <4> QED
        BY <3>1, <4>1
    <3> QED
      BY <2>1, <3>2
  <2> HIDE DEF Here
  <2>6. q < c => Here
    BY <2>4, <2>5
  <2>7. n \in 0 .. N
    BY <1>0
  <2> QED
    BY <2>1, <2>6, <2>7
<1>4. N \in P
  <2> HIDE DEF P, N
  <2>1. \A n \in 1 .. N : n - 1 \in P => n \in P
    BY <1>3
  <2>2. 0 .. N \subseteq P
    BY <1>0, <1>2, <2>1, AlongPrefixes
  <2> QED
    BY <1>0, <2>2
<1> QED
  BY <1>1, <1>4 DEF InTile

\* Flattening lays tiles.
LEMMA FlattenTiles ==
    ASSUME NEW T, NEW ss \in Seq(Seq(T))
    PROVE  \E lo : Tiles(lo, ss, FlattenSeq(ss)) /\ lo[Len(ss) + 1] = Len(FlattenSeq(ss)) + 1
<1>0. PICK N : N = Len(ss) /\ N \in Nat /\ \A n \in 1 .. N : ss[n] \in Seq(T) /\ Len(ss[n]) \in Nat
  <2>1. Len(ss) \in Nat /\ \A n \in 1 .. Len(ss) : ss[n] \in Seq(T) /\ Len(ss[n]) \in Nat
    BY Inner
  <2> QED
    BY <2>1
<1>1. PICK g : g[0] = << >> /\ FlattenSeq(ss) = g[N] /\ \A n \in 1 .. N : g[n] = g[n - 1] \o ss[n]
  BY <1>0, FlattenSteps DEF Joining
<1> DEFINE P == {n \in 0 .. N : g[n] \in Seq(T)}
<1>2. 0 \in P
  <2>1. PICK none : none = << >>
    OBVIOUS
  <2>2. none \in Seq(T) /\ g[0] = none
    BY <1>1, <2>1
  <2> QED
    BY <1>0, <2>2
<1>3. ASSUME NEW n \in 1 .. N, n - 1 \in P PROVE n \in P
  <2>1. g[n - 1] \in Seq(T) /\ ss[n] \in Seq(T)
    BY <1>0, <1>3
  <2>2. g[n - 1] \o ss[n] \in Seq(T)
    BY <2>1, ConcatProperties
  <2>3. n \in 0 .. N
    BY <1>0
  <2> QED
    BY <1>1, <2>2, <2>3
<1>4. ASSUME NEW n \in 0 .. N PROVE g[n] \in Seq(T) /\ Len(g[n]) \in Nat
  <2>1. 0 .. N \subseteq P
    <3> HIDE DEF P
    <3>1. \A e \in 1 .. N : e - 1 \in P => e \in P
      BY <1>3
    <3> QED
      BY <1>0, <1>2, <3>1, AlongPrefixes
  <2>2. g[n] \in Seq(T)
    BY <2>1
  <2> QED
    BY <2>2
<1> HIDE DEF P
<1>5. ASSUME NEW n \in 1 .. N
      PROVE  /\ Len(g[n]) = Len(g[n - 1]) + Len(ss[n])
             /\ \A k \in 1 .. Len(g[n - 1]) : g[n][k] = g[n - 1][k]
             /\ \A k \in 1 .. Len(ss[n]) : g[n][Len(g[n - 1]) + k] = ss[n][k]
  <2>1. PICK old, x, new : old = g[n - 1] /\ x = ss[n] /\ new = g[n]
    OBVIOUS
  <2>2. n - 1 \in 0 .. N
    BY <1>0
  <2>3. old \in Seq(T) /\ Len(old) \in Nat /\ x \in Seq(T) /\ Len(x) \in Nat /\ new = old \o x
    BY <1>0, <1>1, <1>4, <2>1, <2>2
  <2>4. /\ Len(new) = Len(old) + Len(x)
        /\ \A k \in 1 .. Len(old) + Len(x) : new[k] = IF k <= Len(old) THEN old[k] ELSE x[k - Len(old)]
    BY <2>3, ConcatProperties
  <2>5. ASSUME NEW k \in 1 .. Len(old) PROVE new[k] = old[k]
    BY <2>3, <2>4
  <2>6. ASSUME NEW k \in 1 .. Len(x) PROVE new[Len(old) + k] = x[k]
    <3>1. PICK p : p = Len(old) + k
      OBVIOUS
    <3>2. p \in 1 .. Len(old) + Len(x) /\ ~ (p <= Len(old)) /\ p - Len(old) = k
      BY <2>3, <3>1
    <3> QED
      BY <2>4, <3>1, <3>2
  <2> QED
    BY <2>1, <2>4, <2>5, <2>6
\* What has been laid stays.
<1> DEFINE Remains(i, n) == /\ Len(g[i]) <= Len(g[n])
                         /\ \A k \in 1 .. Len(g[i]) : g[n][k] = g[i][k]
<1>6. ASSUME NEW i \in 0 .. N PROVE \A n \in 0 .. N : i <= n => Remains(i, n)
  <2> DEFINE Q == {n \in 0 .. N : i <= n => Remains(i, n)}
  <2>1. 0 \in Q
    <3>1. i <= 0 => i = 0
      BY <1>0
    <3>2. Remains(0, 0)
      <4>1. 0 \in 0 .. N
        BY <1>0
      <4> QED
        BY <1>4, <4>1
    <3> HIDE DEF Remains
    <3> QED
      BY <1>0, <3>1, <3>2
  <2>2. ASSUME NEW n \in 1 .. N, n - 1 \in Q PROVE n \in Q
    <3>0. n \in 0 .. N /\ n - 1 \in 0 .. N
      BY <1>0
    <3>1. PICK a, b, c : a = Len(g[i]) /\ b = Len(g[n - 1]) /\ c = Len(g[n])
      OBVIOUS
    <3>2. a \in Nat /\ b \in Nat /\ c \in Nat /\ b <= c
      <4>1. a \in Nat /\ b \in Nat /\ c \in Nat
        BY <1>4, <3>0, <3>1
      <4>2. c = b + Len(ss[n]) /\ Len(ss[n]) \in Nat
        BY <1>0, <1>5, <3>1
      <4> QED
        BY <4>1, <4>2
    <3>3. CASE i <= n - 1
      <4>1. a <= b /\ \A k \in 1 .. a : g[n - 1][k] = g[i][k]
        BY <2>2, <3>1, <3>3
      <4>2. ASSUME NEW k \in 1 .. a PROVE g[n][k] = g[i][k]
        <5>1. k \in 1 .. b
          BY <3>2, <4>1
        <5> QED
          BY <1>5, <3>1, <4>1, <5>1
      <4> QED
        BY <3>0, <3>1, <3>2, <4>1, <4>2
    <3>4. CASE ~ (i <= n - 1)
      <4>1. i <= n => i = n
        BY <3>0, <3>4
      <4> QED
        BY <3>0, <3>1, <3>2, <4>1
    <3> QED
      BY <3>3, <3>4
  <2>3. 0 .. N \subseteq Q
    <3> HIDE DEF Q
    <3>1. \A n \in 1 .. N : n - 1 \in Q => n \in Q
      BY <2>2
    <3> QED
      BY <1>0, <2>1, <3>1, AlongPrefixes
  <2> QED
    BY <2>3
<1>7. PICK lo : lo = [n \in 1 .. N + 1 |-> Len(g[n - 1]) + 1]
  OBVIOUS
<1>71. \A n \in 1 .. N + 1 : \A m : m = n - 1 => lo[n] = Len(g[m]) + 1
  BY <1>7
<1>8. lo \in [1 .. N + 1 -> Nat]
  <2>1. ASSUME NEW n \in 1 .. N + 1 PROVE Len(g[n - 1]) + 1 \in Nat
    <3>1. n - 1 \in 0 .. N
      BY <1>0
    <3>2. Len(g[n - 1]) \in Nat
      BY <1>4, <3>1
    <3> QED
      BY <3>2
  <2> QED
    BY <1>7, <2>1
<1>9. lo[1] = 1
  <2>1. 1 \in 1 .. N + 1 /\ 1 - 1 = 0
    BY <1>0
  <2>2. lo[1] = Len(g[0]) + 1
    BY <1>7, <2>1
  <2>3. PICK none : none = << >> /\ Len(none) = 0
    OBVIOUS
  <2> QED
    BY <1>1, <2>2, <2>3
<1>10. ASSUME NEW i \in 1 .. N
       PROVE  /\ lo[i + 1] = lo[i] + Len(ss[i])
              /\ \A k \in 1 .. Len(ss[i]) : ss[i][k] = FlattenSeq(ss)[lo[i] + k - 1]
  <2>1. i \in 1 .. N + 1 /\ i + 1 \in 1 .. N + 1 /\ i - 1 \in 0 .. N /\ i + 1 - 1 = i /\ N \in 0 .. N
        /\ i \in 0 .. N /\ i <= N
    BY <1>0
  <2>2. lo[i] = Len(g[i - 1]) + 1 /\ lo[i + 1] = Len(g[i]) + 1
    BY <1>71, <2>1
  <2>3. PICK a, b : a = Len(g[i - 1]) /\ b = Len(ss[i])
    OBVIOUS
  <2>4. Len(g[i]) = a + b /\ a \in Nat /\ b \in Nat
    BY <1>0, <1>4, <1>5, <2>1, <2>3
  <2>41. PICK l, m : l = lo[i] /\ m = lo[i + 1] /\ l = a + 1 /\ m = a + b + 1
    BY <2>2, <2>3, <2>4
  <2>5. ASSUME NEW k \in 1 .. b PROVE ss[i][k] = FlattenSeq(ss)[lo[i] + k - 1]
    <3>1. PICK p : p = a + k
      OBVIOUS
    <3>2. p \in 1 .. Len(g[i]) /\ lo[i] + k - 1 = p
      BY <2>4, <2>41, <3>1
    <3>3. g[i][p] = ss[i][k]
      BY <1>5, <2>3, <3>1
    <3>4. g[N][p] = g[i][p]
      BY <1>6, <2>1, <3>2
    <3> QED
      BY <1>1, <3>2, <3>3, <3>4
  <2>6. lo[i + 1] = lo[i] + b
    BY <2>4, <2>41
  <2> QED
    BY <2>3, <2>5, <2>6
<1>11. lo[N + 1] = Len(FlattenSeq(ss)) + 1
  <2>1. PICK e : e = N + 1
    OBVIOUS
  <2>2. e \in 1 .. N + 1 /\ N = e - 1
    BY <1>0, <2>1
  <2>3. lo[e] = Len(g[N]) + 1
    BY <1>71, <2>2
  <2> QED
    BY <1>1, <2>1, <2>3
<1>12. Tiles(lo, ss, FlattenSeq(ss))
  BY <1>0, <1>8, <1>9, <1>10 DEF Tiles
<1> QED
  BY <1>0, <1>11, <1>12
-----------------------------------------------------------------------------
(* Selections *)

LEMMA SelectAppend ==
    ASSUME NEW T, NEW s \in Seq(T), NEW x \in T, NEW wanted
    PROVE  Select(Append(s, x), wanted) =
             IF x \in wanted THEN Append(Select(s, wanted), x) ELSE Select(s, wanted)
<1>1. PICK one : one = <<x>>
  OBVIOUS
<1>2. one \in Seq(T) /\ Len(one) = 1 /\ one[1] = x
  BY <1>1
<1>3. Append(s, x) = s \o one
  BY <1>1, AppendIsConcat
<1>4. Select(s \o one, wanted) = Select(s, wanted) \o Select(one, wanted)
  BY <1>2, SelectConcat
<1>5. Select(s, wanted) \in Seq(T)
  BY SelectRange
<1>6. PICK none : none = << >>
  OBVIOUS
<1>7. PICK g : Selecting(g, one, wanted)
  BY <1>2, SelectSteps
<1>8. Select(one, wanted) = g[1] /\ g[1] = IF x \in wanted THEN Append(none, x) ELSE none
  <2>1. g[1] = IF one[1] \in wanted THEN Append(g[1 - 1], one[1]) ELSE g[1 - 1]
    BY <1>2, <1>7 DEF Selecting
  <2>2. g[1 - 1] = none
    BY <1>6, <1>7 DEF Selecting
  <2>3. Select(one, wanted) = g[1]
    BY <1>2, <1>7 DEF Selecting
  <2> QED
    BY <1>2, <2>1, <2>2, <2>3
<1>9. Append(none, x) = one
  BY <1>1, <1>6
<1>10. CASE x \in wanted
  <2>1. Select(one, wanted) = one
    BY <1>8, <1>9, <1>10
  <2>2. Append(Select(s, wanted), x) = Select(s, wanted) \o one
    BY <1>1, <1>5, AppendIsConcat
  <2> QED
    BY <1>3, <1>4, <1>10, <2>1, <2>2
<1>11. CASE x \notin wanted
  <2>1. Select(one, wanted) = << >>
    BY <1>6, <1>8, <1>11
  <2>2. Select(s, wanted) \o << >> = Select(s, wanted)
    BY <1>5, ConcatEmptySeq
  <2> QED
    BY <1>3, <1>4, <1>11, <2>1, <2>2
<1> QED
  BY <1>10, <1>11

\* Selecting twice is selecting by both.
LEMMA SelectTwice ==
    ASSUME NEW T, NEW s \in Seq(T), NEW V, NEW W
    PROVE  Select(Select(s, V), W) = Select(s, V \cap W)
<1>0. PICK N : N = Len(s) /\ N \in Nat /\ \A n \in 1 .. N : s[n] \in T
  OBVIOUS
<1>1. PICK g, h : Selecting(g, s, V) /\ Selecting(h, s, V \cap W)
  BY SelectSteps
<1>2. /\ g[0] = << >> /\ Select(s, V) = g[N]
      /\ \A n \in 1 .. N : g[n] = IF s[n] \in V THEN Append(g[n - 1], s[n]) ELSE g[n - 1]
      /\ h[0] = << >> /\ Select(s, V \cap W) = h[N]
      /\ \A n \in 1 .. N : h[n] = IF s[n] \in V \cap W THEN Append(h[n - 1], s[n]) ELSE h[n - 1]
  BY <1>0, <1>1 DEF Selecting
<1> DEFINE P == {n \in 0 .. N : g[n] \in Seq(T) /\ Select(g[n], W) = h[n]}
<1>3. 0 \in P
  <2>0. PICK none : none = << >>
    OBVIOUS
  <2>1. none = << >> /\ none \in Seq(T)
    BY <2>0
  <2>2. Select(none, W) = none
    BY <2>1, SelectNothing
  <2>3. g[0] = none /\ h[0] = none /\ 0 \in 0 .. N
    BY <1>0, <1>2, <2>0
  <2>4. g[0] \in Seq(T) /\ Select(g[0], W) = h[0]
    BY <2>1, <2>2, <2>3
  <2> QED
    BY <2>3, <2>4
<1>4. ASSUME NEW n \in 1 .. N, n - 1 \in P PROVE n \in P
  <2>1. PICK old, x, new : old = g[n - 1] /\ x = s[n] /\ new = h[n - 1]
    OBVIOUS
  <2>2. old \in Seq(T) /\ x \in T /\ Select(old, W) = new /\ n \in 0 .. N
    BY <1>0, <1>4, <2>1
  <2>3. g[n] = (IF x \in V THEN Append(old, x) ELSE old)
        /\ h[n] = (IF x \in V \cap W THEN Append(new, x) ELSE new)
    BY <1>2, <2>1
  <2>4. Append(old, x) \in Seq(T)
    BY <2>2
  <2>5. Select(Append(old, x), W) = IF x \in W THEN Append(new, x) ELSE new
    BY <2>2, SelectAppend
  <2>6. g[n] \in Seq(T) /\ Select(g[n], W) = h[n]
    BY <2>2, <2>3, <2>4, <2>5
  <2> QED
    BY <2>2, <2>6
<1>5. N \in P
  <2> HIDE DEF P
  <2>1. \A n \in 1 .. N : n - 1 \in P => n \in P
    BY <1>4
  <2>2. 0 .. N \subseteq P
    BY <1>0, <1>3, <2>1, AlongPrefixes
  <2> QED
    BY <1>0, <2>2
<1> QED
  BY <1>2, <1>5

LEMMA SelectAll ==
    ASSUME NEW T, NEW s \in Seq(T) PROVE Select(s, Range(s)) = s
<1>0. PICK N : N = Len(s) /\ N \in Nat /\ \A n \in 1 .. N : s[n] \in T
  OBVIOUS
<1>1. PICK g : Selecting(g, s, Range(s))
  BY SelectSteps
<1>2. g[0] = << >> /\ Select(s, Range(s)) = g[N]
  BY <1>0, <1>1 DEF Selecting
<1>3. \A n \in 1 .. N : g[n] = Append(g[n - 1], s[n])
  <2>1. \A n \in 1 .. N : s[n] \in Range(s)
    BY <1>0 DEF Range
  <2> QED
    BY <1>0, <1>1, <2>1 DEF Selecting
<1> DEFINE P == {n \in 0 .. N : g[n] \in Seq(T) /\ Len(g[n]) = n /\ \A i \in 1 .. n : g[n][i] = s[i]}
<1>4. 0 \in P
  <2>0. PICK none : none = << >>
    OBVIOUS
  <2>1. none \in Seq(T) /\ Len(none) = 0 /\ 1 .. 0 = {}
    BY <2>0
  <2>2. g[0] = none /\ 0 \in 0 .. N
    BY <1>0, <1>2, <2>0
  <2>3. g[0] \in Seq(T) /\ Len(g[0]) = 0
    BY <2>1, <2>2
  <2> QED
    BY <2>1, <2>2, <2>3
<1>5. ASSUME NEW n \in 1 .. N, n - 1 \in P PROVE n \in P
  <2>1. PICK old, x : old = g[n - 1] /\ x = s[n]
    OBVIOUS
  <2>2. old \in Seq(T) /\ x \in T /\ Len(old) = n - 1 /\ \A i \in 1 .. n - 1 : old[i] = s[i]
    BY <1>0, <1>5, <2>1
  <2>3. PICK new : new = Append(old, x)
    OBVIOUS
  <2>4. /\ new \in Seq(T) /\ Len(new) = Len(old) + 1 /\ new[Len(old) + 1] = x
        /\ \A i \in 1 .. Len(old) : new[i] = old[i]
    BY <2>2, <2>3, AppendProperties
  <2>5. Len(old) + 1 = n
    BY <1>0, <2>2
  <2>6. ASSUME NEW i \in 1 .. n PROVE new[i] = s[i]
    <3>1. CASE i = n
      BY <2>1, <2>4, <2>5, <3>1
    <3>2. CASE i # n
      <4>1. i \in 1 .. n - 1
        BY <1>0, <3>2
      <4> QED
        BY <2>2, <2>4, <4>1
    <3> QED
      BY <3>1, <3>2
  <2>7. g[n] = new /\ n \in 0 .. N
    BY <1>0, <1>3, <2>1, <2>3
  <2> QED
    BY <2>4, <2>5, <2>6, <2>7
<1>6. N \in P
  <2> HIDE DEF P
  <2>1. \A n \in 1 .. N : n - 1 \in P => n \in P
    BY <1>5
  <2>2. 0 .. N \subseteq P
    BY <1>0, <1>4, <2>1, AlongPrefixes
  <2> QED
    BY <1>0, <2>2
<1>7. PICK f : f = g[N] /\ f \in Seq(T) /\ Len(f) = N /\ \A i \in 1 .. N : f[i] = s[i]
  BY <1>6
<1>8. f = s
  BY <1>0, <1>7, SeqEqual
<1> QED
  BY <1>2, <1>7, <1>8

\* The places of the selected.
Sited(at, sel, s, n) ==
    /\ at \in [1 .. Len(sel) -> 1 .. n]
    /\ \A a \in 1 .. Len(sel) : sel[a] = s[at[a]]
    /\ \A a, b \in 1 .. Len(sel) : a < b => at[a] < at[b]

LEMMA SelectPlaces ==
    ASSUME NEW T, NEW s \in Seq(T), NEW wanted
    PROVE  \E at : Sited(at, Select(s, wanted), s, Len(s))
<1>0. PICK N : N = Len(s) /\ N \in Nat /\ \A n \in 1 .. N : s[n] \in T
  OBVIOUS
<1>1. PICK g : Selecting(g, s, wanted)
  BY SelectSteps
<1>2. /\ g[0] = << >> /\ Select(s, wanted) = g[N]
      /\ \A n \in 1 .. N : g[n] = IF s[n] \in wanted THEN Append(g[n - 1], s[n]) ELSE g[n - 1]
  BY <1>0, <1>1 DEF Selecting
<1> DEFINE P == {n \in 0 .. N : g[n] \in Seq(T) /\ \E at : Sited(at, g[n], s, n)}
<1>3. 0 \in P
  <2>0. PICK none : none = << >>
    OBVIOUS
  <2>1. none = << >> /\ none \in Seq(T) /\ Len(none) = 0
    BY <2>0
  <2>2. PICK at : at = [a \in 1 .. 0 |-> 1]
    OBVIOUS
  <2>3. 1 .. 0 = {} /\ at \in [1 .. 0 -> 1 .. 0]
    BY <2>2
  <2>4. Sited(at, none, s, 0)
    BY <2>1, <2>3 DEF Sited
  <2>5. g[0] = none /\ 0 \in 0 .. N
    BY <1>0, <1>2, <2>0
  <2>6. g[0] \in Seq(T) /\ Sited(at, g[0], s, 0)
    BY <2>1, <2>4, <2>5
  <2> QED
    BY <2>5, <2>6
<1>4. ASSUME NEW n \in 1 .. N, n - 1 \in P PROVE n \in P
  <2>1. PICK old, x : old = g[n - 1] /\ x = s[n]
    OBVIOUS
  <2>2. old \in Seq(T) /\ x \in T /\ n \in 0 .. N /\ Len(old) \in Nat
    BY <1>0, <1>4, <2>1
  <2>3. PICK at : Sited(at, old, s, n - 1)
    BY <1>4, <2>1
  <2>4. g[n] = IF x \in wanted THEN Append(old, x) ELSE old
    BY <1>2, <2>1
  <2>5. CASE x \notin wanted
    <3>1. \A v : v \in 1 .. n - 1 => v \in 1 .. n
      BY <1>0
    <3>2. at \in [1 .. Len(old) -> 1 .. n]
      BY <2>3, <3>1 DEF Sited
    <3>3. Sited(at, old, s, n)
      BY <2>3, <3>2 DEF Sited
    <3> QED
      BY <2>2, <2>4, <2>5, <3>3
  <2>6. CASE x \in wanted
    <3>1. PICK L, new : L = Len(old) /\ new = Append(old, x)
      OBVIOUS
    <3>2. /\ new \in Seq(T) /\ Len(new) = L + 1 /\ new[L + 1] = x /\ L \in Nat
          /\ \A a \in 1 .. L : new[a] = old[a]
      BY <2>2, <3>1
    <3>3. PICK to : to = [a \in 1 .. L + 1 |-> IF a = L + 1 THEN n ELSE at[a]]
      OBVIOUS
    <3>4. /\ at \in [1 .. L -> 1 .. n - 1] /\ \A a \in 1 .. L : old[a] = s[at[a]]
          /\ \A a, b \in 1 .. L : a < b => at[a] < at[b]
      BY <2>3, <3>1 DEF Sited
    <3>5. \A a \in 1 .. L + 1 : a = L + 1 \/ (a \in 1 .. L /\ a # L + 1)
      BY <3>2
    <3>6. L + 1 \in 1 .. L + 1 /\ to[L + 1] = n
      BY <3>2, <3>3
    <3>7. ASSUME NEW a \in 1 .. L PROVE a \in 1 .. L + 1 /\ to[a] = at[a] /\ at[a] \in 1 .. n - 1
      <4>1. a \in 1 .. L + 1 /\ a # L + 1
        BY <3>2
      <4> QED
        BY <3>3, <3>4, <4>1
    <3>8. to \in [1 .. L + 1 -> 1 .. n]
      <4>1. ASSUME NEW a \in 1 .. L + 1 PROVE to[a] \in 1 .. n
        BY <1>0, <3>5, <3>6, <3>7
      <4>2. to = [a \in 1 .. L + 1 |-> to[a]]
        BY <3>3
      <4> QED
        BY <4>1, <4>2
    <3>9. \A a \in 1 .. L + 1 : new[a] = s[to[a]]
      BY <2>1, <3>2, <3>4, <3>5, <3>6, <3>7
    <3>10. ASSUME NEW a \in 1 .. L + 1, NEW b \in 1 .. L + 1, a < b PROVE to[a] < to[b]
      <4>1. a \in 1 .. L
        BY <3>2, <3>10
      <4>2. CASE b \in 1 .. L
        BY <3>4, <3>7, <3>10, <4>1, <4>2
      <4>3. CASE b = L + 1
        <5>1. to[b] = n /\ to[a] \in 1 .. n - 1
          BY <3>6, <3>7, <4>1, <4>3
        <5> QED
          BY <1>0, <5>1
      <4> QED
        BY <3>5, <4>2, <4>3
    <3>11. Sited(to, new, s, n)
      BY <3>2, <3>8, <3>9, <3>10 DEF Sited
    <3> QED
      BY <2>2, <2>4, <2>6, <3>1, <3>2, <3>11
  <2> QED
    BY <2>5, <2>6
<1>5. N \in P
  <2> HIDE DEF P
  <2>1. \A n \in 1 .. N : n - 1 \in P => n \in P
    BY <1>4
  <2>2. 0 .. N \subseteq P
    BY <1>0, <1>3, <2>1, AlongPrefixes
  <2> QED
    BY <1>0, <2>2
<1> QED
  BY <1>0, <1>2, <1>5

\* Open headings and the path that stands for them.
Alike(s, path) ==
    /\ Len(s) = Len(path)
    /\ \A k \in 1 .. Len(s) : s[k].level = path[k].level /\ Last(s[k].headings) = path[k].title

LEMMA AlikeGrows ==
    ASSUME NEW S, NEW T, NEW s \in Seq(S), NEW t \in Seq(T), Alike(s, t),
           NEW x \in S, NEW y \in T, x.level = y.level, Last(x.headings) = y.title
    PROVE  Alike(Append(s, x), Append(t, y))
<1>1. PICK L, s2, t2 : L = Len(s) /\ s2 = Append(s, x) /\ t2 = Append(t, y)
  OBVIOUS
<1>2. L \in Nat /\ L = Len(t)
  BY <1>1 DEF Alike
<1>3. /\ Len(s2) = L + 1 /\ s2[L + 1] = x /\ \A k \in 1 .. L : s2[k] = s[k]
      /\ Len(t2) = L + 1 /\ t2[L + 1] = y /\ \A k \in 1 .. L : t2[k] = t[k]
  <2>1. Len(s2) = L + 1 /\ s2[L + 1] = x /\ \A k \in 1 .. L : s2[k] = s[k]
    BY <1>1, AppendProperties
  <2>2. Len(t2) = L + 1 /\ t2[L + 1] = y /\ \A k \in 1 .. L : t2[k] = t[k]
    BY <1>1, <1>2, AppendProperties
  <2> QED
    BY <2>1, <2>2
<1>4. \A k \in 1 .. L + 1 : k = L + 1 \/ k \in 1 .. L
  BY <1>2
<1>5. \A k \in 1 .. L : s[k].level = t[k].level /\ Last(s[k].headings) = t[k].title
  BY <1>1 DEF Alike
<1>6. ASSUME NEW k \in 1 .. L + 1
      PROVE  s2[k].level = t2[k].level /\ Last(s2[k].headings) = t2[k].title
  <2>1. CASE k = L + 1
    <3>1. s2[k] = x /\ t2[k] = y
      BY <1>3, <2>1
    <3> QED
      BY <3>1
  <2>2. CASE k \in 1 .. L
    <3>1. s2[k] = s[k] /\ t2[k] = t[k]
      BY <1>3, <2>2
    <3> QED
      BY <1>5, <2>2, <3>1
  <2> QED
    BY <1>4, <2>1, <2>2
<1> QED
  BY <1>1, <1>3, <1>6 DEF Alike

LEMMA SelectAlike ==
    ASSUME NEW S, NEW T, NEW s \in Seq(S), NEW t \in Seq(T), Alike(s, t), NEW V, NEW W,
           \A k \in 1 .. Len(s) : s[k] \in V <=> t[k] \in W
    PROVE  Alike(Select(s, V), Select(t, W))
<1>0. PICK N : N = Len(s) /\ N = Len(t) /\ N \in Nat
               /\ \A n \in 1 .. N : s[n] \in S /\ t[n] \in T
  BY DEF Alike
<1>1. PICK g, h : Selecting(g, s, V) /\ Selecting(h, t, W)
  BY SelectSteps
<1>2. /\ g[0] = << >> /\ Select(s, V) = g[N]
      /\ \A n \in 1 .. N : g[n] = IF s[n] \in V THEN Append(g[n - 1], s[n]) ELSE g[n - 1]
      /\ h[0] = << >> /\ Select(t, W) = h[N]
      /\ \A n \in 1 .. N : h[n] = IF t[n] \in W THEN Append(h[n - 1], t[n]) ELSE h[n - 1]
  BY <1>0, <1>1 DEF Selecting
<1> DEFINE P == {n \in 0 .. N : g[n] \in Seq(S) /\ h[n] \in Seq(T) /\ Alike(g[n], h[n])}
<1>3. 0 \in P
  <2>0. PICK none : none = << >>
    OBVIOUS
  <2>1. none = << >> /\ Len(none) = 0 /\ none \in Seq(S) /\ none \in Seq(T)
    BY <2>0
  <2>2. Alike(none, none)
    BY <2>1 DEF Alike
  <2>3. g[0] = none /\ h[0] = none /\ 0 \in 0 .. N
    BY <1>0, <1>2, <2>0
  <2>4. g[0] \in Seq(S) /\ h[0] \in Seq(T) /\ Alike(g[0], h[0])
    BY <2>1, <2>2, <2>3
  <2> QED
    BY <2>3, <2>4
<1>4. ASSUME NEW n \in 1 .. N, n - 1 \in P PROVE n \in P
  <2>1. PICK a, b, x, y : a = g[n - 1] /\ b = h[n - 1] /\ x = s[n] /\ y = t[n]
    OBVIOUS
  <2>2. a \in Seq(S) /\ b \in Seq(T) /\ Alike(a, b) /\ x \in S /\ y \in T /\ n \in 0 .. N
    BY <1>0, <1>4, <2>1
  <2>3. x.level = y.level /\ Last(x.headings) = y.title /\ (x \in V <=> y \in W)
    BY <1>0, <2>1 DEF Alike
  <2>4. g[n] = (IF x \in V THEN Append(a, x) ELSE a) /\ h[n] = (IF y \in W THEN Append(b, y) ELSE b)
    BY <1>2, <2>1
  <2>5. Append(a, x) \in Seq(S) /\ Append(b, y) \in Seq(T) /\ Alike(Append(a, x), Append(b, y))
    BY <2>2, <2>3, AlikeGrows
  <2> QED
    BY <2>2, <2>3, <2>4, <2>5
<1>5. N \in P
  <2> HIDE DEF P
  <2>1. \A n \in 1 .. N : n - 1 \in P => n \in P
    BY <1>4
  <2>2. 0 .. N \subseteq P
    BY <1>0, <1>3, <2>1, AlongPrefixes
  <2> QED
    BY <1>0, <2>2
<1> QED
  BY <1>2, <1>5
-----------------------------------------------------------------------------
(* Blocks *)

Tops(K) == [level : Nat, title : K]
Parts(K, M) == [kind : {"heading", "paragraph", "item"}, text : Seq(M), page : Nat,
                headings : Seq(K), level : Nat]

Rising(t) == \A i, j \in 1 .. Len(t) : i < j => t[i] < t[j]

\* The headings that are open before a line.
OpenAt(B, n) ==
    LET before == {b \in Range(B) : b.kind = "heading" /\ b.text[1] < n}
    IN  {h \in before : \A g \in before : h.text[1] < g.text[1] => h.level < g.level}
Titles(s) == [k \in DOMAIN s |-> Last(s[k].headings)]

\* Blocks hold lines up to m, in their order.
Shaped(B, m) ==
    /\ \A i \in 1 .. Len(B) : /\ B[i].text # << >> /\ Rising(B[i].text)
                              /\ \A n \in Range(B[i].text) : n <= m
                              /\ B[i].kind = "heading" => Len(B[i].text) = 1
    /\ \A i, j \in 1 .. Len(B) : i < j =>
         \A a \in Range(B[i].text), c \in Range(B[j].text) : a < c

\* The path is what is open; a block of text knows what was open before its lines.
Headed(B, path, m) ==
    /\ Alike(Select(B, OpenAt(B, m + 1)), path)
    /\ \A i \in 1 .. Len(B) : B[i].kind # "heading" =>
         \A n \in Range(B[i].text) : B[i].headings = Titles(Select(B, OpenAt(B, n)))

LEMMA Appended ==
    ASSUME NEW T, NEW s \in Seq(T), NEW x \in T
    PROVE  /\ Append(s, x) \in Seq(T) /\ Len(s) \in Nat /\ Len(Append(s, x)) = Len(s) + 1
           /\ \A i \in 1 .. Len(s) : Append(s, x)[i] = s[i]
           /\ Append(s, x)[Len(s) + 1] = x
           /\ \A i \in 1 .. Len(s) + 1 : i \in 1 .. Len(s) \/ i = Len(s) + 1
BY AppendProperties

LEMMA FirstIn ==
    ASSUME NEW M, NEW t \in Seq(M), t # << >>
    PROVE  t[1] \in M /\ t[1] \in Range(t) /\ Len(t) \in Nat /\ 1 \in 1 .. Len(t)
           /\ t[Len(t)] \in M /\ t[Len(t)] \in Range(t)
<1>1. Len(t) \in Nat /\ Len(t) # 0 /\ DOMAIN t = 1 .. Len(t)
  OBVIOUS
<1>2. 1 \in 1 .. Len(t) /\ Len(t) \in 1 .. Len(t)
  BY <1>1
<1> QED
  BY <1>1, <1>2 DEF Range

LEMMA ShapeGrows ==
    ASSUME NEW K, NEW M, M \subseteq Nat, NEW B \in Seq(Parts(K, M)), NEW m \in Nat, NEW m2 \in Nat,
           m <= m2, Shaped(B, m), NEW y \in Parts(K, M), y.text # << >>, Rising(y.text),
           \A n \in Range(y.text) : m < n /\ n <= m2, y.kind = "heading" => Len(y.text) = 1
    PROVE  Append(B, y) \in Seq(Parts(K, M)) /\ Shaped(Append(B, y), m2)
<1>1. PICK T, L, C : T = Parts(K, M) /\ L = Len(B) /\ C = Append(B, y)
  OBVIOUS
<1>2. /\ C \in Seq(T) /\ L \in Nat /\ Len(C) = L + 1 /\ C[L + 1] = y
      /\ \A i \in 1 .. L : C[i] = B[i]
      /\ \A i \in 1 .. L + 1 : i \in 1 .. L \/ i = L + 1
  BY <1>1, Appended
<1>3. ASSUME NEW i \in 1 .. L
      PROVE  \A n \in Range(B[i].text) : n \in Nat /\ n <= m
  <2>1. B[i] \in T
    BY <1>1
  <2>2. B[i].text \in Seq(M)
    BY <1>1, <2>1 DEF Parts
  <2>3. \A n \in Range(B[i].text) : n \in M
    BY <2>2, RangeIn
  <2> QED
    BY <1>1, <2>3 DEF Shaped
<1>4. \A n \in Range(y.text) : n \in Nat
  <2>1. y.text \in Seq(M)
    BY DEF Parts
  <2>2. \A n \in Range(y.text) : n \in M
    BY <2>1, RangeIn
  <2> QED
    BY <2>2
<1>5. ASSUME NEW i \in 1 .. L + 1
      PROVE  /\ C[i].text # << >> /\ Rising(C[i].text)
             /\ \A n \in Range(C[i].text) : n <= m2
             /\ C[i].kind = "heading" => Len(C[i].text) = 1
  <2>1. CASE i \in 1 .. L
    <3>1. C[i] = B[i]
      BY <1>2, <2>1
    <3>2. ASSUME NEW n \in Range(B[i].text) PROVE n <= m2
      <4>1. n \in Nat /\ n <= m
        BY <1>3, <2>1
      <4> QED
        BY <4>1
    <3> QED
      BY <1>1, <2>1, <3>1, <3>2 DEF Shaped
  <2>2. CASE i = L + 1
    BY <1>2, <2>2
  <2> QED
    BY <1>2, <2>1, <2>2
<1>6. ASSUME NEW i \in 1 .. L + 1, NEW j \in 1 .. L + 1, i < j,
             NEW a \in Range(C[i].text), NEW c \in Range(C[j].text)
      PROVE  a < c
  <2>1. i \in 1 .. L
    BY <1>2, <1>6
  <2>2. C[i] = B[i]
    BY <1>2, <2>1
  <2>3. CASE j \in 1 .. L
    <3>1. C[j] = B[j]
      BY <1>2, <2>3
    <3> QED
      BY <1>1, <1>6, <2>1, <2>2, <2>3, <3>1 DEF Shaped
  <2>4. CASE j = L + 1
    <3>1. c \in Range(y.text) /\ a \in Range(B[i].text)
      BY <1>2, <2>2, <2>4
    <3>2. c \in Nat /\ m < c
      BY <1>4, <3>1
    <3>3. a \in Nat /\ a <= m
      BY <1>3, <2>1, <3>1
    <3> QED
      BY <3>2, <3>3
  <2> QED
    BY <1>2, <2>3, <2>4
<1>7. Shaped(C, m2)
  BY <1>2, <1>5, <1>6 DEF Shaped
<1> QED
  BY <1>1, <1>2, <1>7

\* A block that is no heading before the line changes nothing of what is open there.
LEMMA OpenStays ==
    ASSUME NEW T, NEW B \in Seq(T), NEW y \in T, NEW n, y.kind = "heading" => ~ (y.text[1] < n)
    PROVE  /\ OpenAt(Append(B, y), n) = OpenAt(B, n)
           /\ Select(Append(B, y), OpenAt(B, n)) = Select(B, OpenAt(B, n))
<1>1. Range(Append(B, y)) = Range(B) \cup {y}
  BY AppendRange
<1>2. {b \in Range(Append(B, y)) : b.kind = "heading" /\ b.text[1] < n}
        = {b \in Range(B) : b.kind = "heading" /\ b.text[1] < n}
  BY <1>1
<1>3. OpenAt(Append(B, y), n) = OpenAt(B, n) /\ y \notin OpenAt(B, n)
  BY <1>2 DEF OpenAt
<1> QED
  BY <1>3, SelectAppend

Past(B, n, m) ==
    /\ OpenAt(B, n) = OpenAt(B, m + 1)
    /\ \A b \in Range(B) : b.text[1] \in Nat /\ b.text[1] < n

\* After the last line the same headings are open.
LEMMA OpenAfter ==
    ASSUME NEW K, NEW M, M \subseteq Nat, NEW B \in Seq(Parts(K, M)), NEW m \in Nat, Shaped(B, m),
           NEW n \in Nat, m < n
    PROVE  Past(B, n, m)
<1>1. ASSUME NEW b \in Range(B) PROVE b.text[1] \in Nat /\ b.text[1] <= m
  <2>0. PICK T : T = Parts(K, M)
    OBVIOUS
  <2>01. B \in Seq(T)
    BY <2>0
  <2>02. DOMAIN B = 1 .. Len(B)
    BY <2>01
  <2>1. PICK i \in 1 .. Len(B) : b = B[i]
    BY <2>02 DEF Range
  <2>2. b \in T
    BY <2>01, <2>1
  <2>3. b.text \in Seq(M) /\ b.text # << >>
    BY <2>0, <2>1, <2>2 DEF Parts, Shaped
  <2>4. b.text[1] \in M /\ b.text[1] \in Range(b.text)
    BY <2>3, FirstIn
  <2> QED
    BY <2>1, <2>4 DEF Shaped
<1>2. \A b \in Range(B) : b.text[1] \in Nat /\ b.text[1] < n /\ b.text[1] < m + 1
  BY <1>1
<1>3. {b \in Range(B) : b.kind = "heading" /\ b.text[1] < n}
        = {b \in Range(B) : b.kind = "heading" /\ b.text[1] < m + 1}
  BY <1>2
<1> QED
  BY <1>2, <1>3 DEF OpenAt, Past

LEMMA TitlesAlike ==
    ASSUME NEW S, NEW T, NEW s \in Seq(S), NEW t \in Seq(T), Alike(s, t)
    PROVE  Titles(s) = _headings(t)
<1>1. PICK N : N = Len(s) /\ N = Len(t) /\ DOMAIN s = 1 .. N /\ DOMAIN t = 1 .. N
  BY DEF Alike
<1>2. \A k \in 1 .. N : Last(s[k].headings) = t[k].title
  BY <1>1 DEF Alike
<1>3. Titles(s) = [k \in 1 .. N |-> Last(s[k].headings)]
  BY <1>1 DEF Titles
<1>4. _headings(t) = [k \in 1 .. N |-> t[k].title]
  BY <1>1 DEF _headings
<1> QED
  BY <1>2, <1>3, <1>4

LEMMA AddParagraph ==
    ASSUME NEW K, NEW M, M \subseteq Nat, NEW B \in Seq(Parts(K, M)), NEW m \in Nat, NEW m2 \in Nat,
           m <= m2, Shaped(B, m), NEW path \in Seq(Tops(K)), Headed(B, path, m),
           NEW y \in Parts(K, M), y.text # << >>, Rising(y.text),
           \A n \in Range(y.text) : m < n /\ n <= m2, y.kind # "heading",
           y.headings = _headings(path)
    PROVE  Headed(Append(B, y), path, m2)
<1>1. PICK T, L, C : T = Parts(K, M) /\ L = Len(B) /\ C = Append(B, y)
  OBVIOUS
<1>2. /\ C \in Seq(T) /\ L \in Nat /\ Len(C) = L + 1 /\ C[L + 1] = y
      /\ \A i \in 1 .. L : C[i] = B[i]
      /\ \A i \in 1 .. L + 1 : i \in 1 .. L \/ i = L + 1
  BY <1>1, Appended
<1>3. \A n : OpenAt(C, n) = OpenAt(B, n) /\ Select(C, OpenAt(C, n)) = Select(B, OpenAt(B, n))
  BY <1>1, OpenStays
<1>4. ASSUME NEW n \in Nat, m < n
      PROVE  Alike(Select(B, OpenAt(B, n)), path)
  <2>0. Past(B, n, m)
    BY <1>4, OpenAfter
  <2>1. OpenAt(B, n) = OpenAt(B, m + 1)
    BY <2>0 DEF Past
  <2> QED
    BY <2>1 DEF Headed
<1>5. Alike(Select(C, OpenAt(C, m2 + 1)), path)
  <2>1. m2 + 1 \in Nat /\ m < m2 + 1
    OBVIOUS
  <2> QED
    BY <1>3, <1>4, <2>1
<1>6. \A n \in Range(y.text) : n \in Nat
  <2>1. y.text \in Seq(M)
    BY DEF Parts
  <2>2. \A n \in Range(y.text) : n \in M
    BY <2>1, RangeIn
  <2> QED
    BY <2>2
<1>7. ASSUME NEW i \in 1 .. L + 1, C[i].kind # "heading", NEW n \in Range(C[i].text)
      PROVE  C[i].headings = Titles(Select(C, OpenAt(C, n)))
  <2>1. CASE i \in 1 .. L
    <3>1. C[i] = B[i]
      BY <1>2, <2>1
    <3>2. B[i].headings = Titles(Select(B, OpenAt(B, n)))
      BY <1>1, <1>7, <2>1, <3>1 DEF Headed
    <3> QED
      BY <1>3, <3>1, <3>2
  <2>2. CASE i = L + 1
    <3>1. C[i] = y /\ n \in Range(y.text)
      BY <1>2, <1>7, <2>2
    <3>2. Alike(Select(B, OpenAt(B, n)), path)
      BY <1>4, <1>6, <3>1
    <3>3. Select(B, OpenAt(B, n)) \in Seq(T)
      BY <1>1, SelectRange
    <3>4. Titles(Select(B, OpenAt(B, n))) = _headings(path)
      BY <3>2, <3>3, TitlesAlike
    <3> QED
      BY <1>3, <3>1, <3>4
  <2> QED
    BY <1>2, <2>1, <2>2
<1> QED
  BY <1>1, <1>2, <1>5, <1>7 DEF Headed

LEMMA AddHeading ==
    ASSUME NEW K, NEW M, M \subseteq Nat, NEW B \in Seq(Parts(K, M)), NEW m \in Nat, NEW m2 \in Nat,
           Shaped(B, m), NEW path \in Seq(Tops(K)), Headed(B, path, m),
           NEW y \in Parts(K, M), NEW n \in Nat, m < n, n <= m2, y.text[1] = n, y.kind = "heading",
           NEW top \in Tops(K), top.level = y.level, Last(y.headings) = top.title
    PROVE  Headed(Append(B, y),
                  Append(Select(path, {h \in Range(path) : h.level < y.level}), top), m2)
<1>1. PICK T, L, C, l : T = Parts(K, M) /\ L = Len(B) /\ C = Append(B, y) /\ l = y.level
  OBVIOUS
<1>2. /\ C \in Seq(T) /\ L \in Nat /\ Len(C) = L + 1 /\ C[L + 1] = y
      /\ \A i \in 1 .. L : C[i] = B[i]
      /\ \A i \in 1 .. L + 1 : i \in 1 .. L \/ i = L + 1
  BY <1>1, Appended
<1>3. Range(C) = Range(B) \cup {y}
  BY <1>1, AppendRange
<1>4. OpenAt(B, m + 1) = OpenAt(B, n) /\ \A b \in Range(B) : b.text[1] \in Nat /\ b.text[1] < n
  <2>1. Past(B, n, m)
    BY OpenAfter
  <2> QED
    BY <2>1 DEF Past
<1>5. PICK open, low : open = OpenAt(B, n) /\ low = {h \in Range(B) : h.level < l}
  OBVIOUS
<1>6. OpenAt(C, m2 + 1) = (open \cap low) \cup {y} /\ y \notin Range(B)
  <2>1. PICK old, new : /\ old = {b \in Range(B) : b.kind = "heading" /\ b.text[1] < n}
                        /\ new = {b \in Range(C) : b.kind = "heading" /\ b.text[1] < m2 + 1}
    OBVIOUS
  <2>2. n < m2 + 1
    OBVIOUS
  <2>3. \A b \in Range(B) : b.text[1] < m2 + 1
    BY <1>4, <2>2
  <2>4. new = old \cup {y}
    BY <1>3, <1>4, <2>1, <2>2, <2>3
  <2>5. y \notin Range(B)
    BY <1>4
  <2>6. open = {h \in old : \A g \in old : h.text[1] < g.text[1] => h.level < g.level}
    BY <1>5, <2>1 DEF OpenAt
  <2>7. OpenAt(C, m2 + 1) = {h \in new : \A g \in new : h.text[1] < g.text[1] => h.level < g.level}
    BY <2>1 DEF OpenAt
  <2>8. \A h \in old : h \in Range(B) /\ h.text[1] < y.text[1] /\ ~ (y.text[1] < h.text[1])
    BY <1>4, <2>1
  <2>9. ~ (y.text[1] < y.text[1])
    OBVIOUS
  <2>10. ASSUME NEW h PROVE h \in OpenAt(C, m2 + 1) <=> h \in (open \cap low) \cup {y}
    BY <1>1, <1>5, <2>4, <2>6, <2>7, <2>8, <2>9
  <2> QED
    BY <2>5, <2>10
<1>7. PICK sel, rest : sel = Select(B, open) /\ rest = Select(B, open \cap low)
  OBVIOUS
<1>8. sel \in Seq(T) /\ rest \in Seq(T) /\ rest = Select(sel, low) /\ Range(sel) \subseteq Range(B)
  BY <1>1, <1>7, SelectRange, SelectTwice
<1>9. Select(C, OpenAt(C, m2 + 1)) = Append(rest, y)
  <2>1. PICK W : W = OpenAt(C, m2 + 1)
    OBVIOUS
  <2>2. Select(C, W) = Append(Select(B, W), y)
    BY <1>1, <1>6, <2>1, SelectAppend
  <2>3. Select(B, W) = rest
    <3>1. PICK R : R = Range(B)
      OBVIOUS
    <3>2. Select(B, R) = B
      BY <1>1, <3>1, SelectAll
    <3>3. Select(Select(B, R), W) = Select(B, R \cap W)
      BY SelectTwice
    <3>4. R \cap W = open \cap low
      BY <1>5, <1>6, <2>1, <3>1
    <3> QED
      BY <1>7, <3>2, <3>3, <3>4
  <2> QED
    BY <2>1, <2>2, <2>3
<1>10. PICK below : below = {h \in Range(path) : h.level < l}
  OBVIOUS
<1>11. Alike(sel, path)
  BY <1>4, <1>5, <1>7 DEF Headed
<1>12. ASSUME NEW k \in 1 .. Len(sel) PROVE sel[k] \in low <=> path[k] \in below
  <2>1. sel[k] \in Range(sel) /\ path[k] \in Range(path)
    <3>1. DOMAIN sel = 1 .. Len(sel) /\ DOMAIN path = 1 .. Len(path) /\ Len(sel) = Len(path)
      BY <1>8, <1>11 DEF Alike
    <3> QED
      BY <3>1 DEF Range
  <2>2. sel[k].level = path[k].level
    BY <1>11 DEF Alike
  <2> QED
    BY <1>5, <1>8, <1>10, <2>1, <2>2
<1>13. Alike(rest, Select(path, below))
  BY <1>8, <1>11, <1>12, SelectAlike
<1>14. Alike(Append(rest, y), Append(Select(path, below), top))
  <2>1. Select(path, below) \in Seq(Tops(K))
    BY SelectRange
  <2> QED
    BY <1>1, <1>8, <1>13, <2>1, AlikeGrows
<1>15. ASSUME NEW i \in 1 .. L + 1, C[i].kind # "heading", NEW k \in Range(C[i].text)
       PROVE  C[i].headings = Titles(Select(C, OpenAt(C, k)))
  <2>1. i \in 1 .. L /\ C[i] = B[i]
    BY <1>2, <1>15
  <2>2. B[i].headings = Titles(Select(B, OpenAt(B, k)))
    BY <1>1, <1>15, <2>1 DEF Headed
  <2>3. k \in Nat /\ k <= m
    <3>1. B[i] \in T
      BY <1>1, <2>1
    <3>2. B[i].text \in Seq(M)
      BY <1>1, <3>1 DEF Parts
    <3>3. k \in M
      BY <1>15, <2>1, <3>2, RangeIn
    <3> QED
      BY <1>1, <1>15, <2>1, <3>3 DEF Shaped
  <2>4. ~ (y.text[1] < k)
    BY <2>3
  <2> QED
    BY <1>1, <2>1, <2>2, <2>4, OpenStays
<1> QED
  BY <1>1, <1>2, <1>9, <1>10, <1>14, <1>15 DEF Headed
-----------------------------------------------------------------------------
(* Building blocks *)

Lines(K) == [shape : {"blank", "hash", "item", "text"}, level : Nat, title : K, size : Nat]
Builder(K, M) == [blocks : Seq(Parts(K, M)), path : Seq(Tops(K)), current : Seq(M),
                  kind : {"paragraph", "item"}]

LinesOf(B) == UNION {Range(x.text) : x \in Range(B)}

\* The blocks stand up to m; the open block goes on from there.
Laid(b, m) == Shaped(b.blocks, m) /\ Headed(b.blocks, b.path, m)
Built(b, m) ==
    \E from \in Nat : /\ from <= m /\ Laid(b, from) /\ Rising(b.current)
                      /\ \A n \in Range(b.current) : from < n /\ n <= m
Settled(b, m) == Laid(b, m) /\ b.current = << >>

LEMMA LaidLater ==
    ASSUME NEW K, NEW M, M \subseteq Nat, NEW b \in Builder(K, M), NEW m \in Nat, NEW m2 \in Nat,
           m <= m2, Laid(b, m)
    PROVE  Laid(b, m2)
<1>1. PICK B : B = b.blocks /\ B \in Seq(Parts(K, M)) /\ Shaped(B, m) /\ Headed(B, b.path, m)
  BY DEF Builder, Laid
<1>2. m2 + 1 \in Nat /\ m < m2 + 1
  OBVIOUS
<1>3. Past(B, m2 + 1, m)
  BY <1>1, <1>2, OpenAfter
<1>4. Headed(B, b.path, m2)
  BY <1>1, <1>3 DEF Headed, Past
<1>5. Shaped(B, m2)
  <2>1. ASSUME NEW i \in 1 .. Len(B), NEW n \in Range(B[i].text) PROVE n <= m2
    <3>0. PICK T : T = Parts(K, M) /\ B \in Seq(T)
      BY <1>1
    <3>1. B[i] \in T
      BY <3>0
    <3>2. B[i].text \in Seq(M)
      BY <3>0, <3>1 DEF Parts
    <3>3. n \in M
      BY <3>2, RangeIn
    <3>4. n <= m
      BY <1>1 DEF Shaped
    <3> QED
      BY <3>3, <3>4
  <2> QED
    BY <1>1, <2>1 DEF Shaped
<1> QED
  BY <1>1, <1>4, <1>5 DEF Laid

LEMMA SettledBuilt ==
    ASSUME NEW K, NEW M, M \subseteq Nat, NEW b \in Builder(K, M), NEW m \in Nat, NEW m2 \in Nat,
           m <= m2, Settled(b, m)
    PROVE  Built(b, m2)
<1>1. PICK t : t = b.current /\ t = << >>
  BY DEF Settled
<1>2. Len(t) = 0 /\ Range(t) = {}
  BY <1>1 DEF Range
<1>3. Rising(t)
  BY <1>2 DEF Rising
<1> QED
  BY <1>1, <1>2, <1>3 DEF Settled, Built

LEMMA LinesAppended ==
    ASSUME NEW T, NEW B \in Seq(T), NEW y \in T
    PROVE  LinesOf(Append(B, y)) = LinesOf(B) \cup Range(y.text)
<1>1. Range(Append(B, y)) = Range(B) \cup {y}
  BY AppendRange
<1> QED
  BY <1>1 DEF LinesOf

LEMMA HeadingType ==
    ASSUME NEW K, NEW path \in Seq(Tops(K)) PROVE _headings(path) \in Seq(K)
<1>0. PICK S : S = Tops(K)
  OBVIOUS
<1>1. PICK n : n = Len(path) /\ n \in Nat /\ DOMAIN path = 1 .. n /\ path \in Seq(S)
  BY <1>0
<1>2. ASSUME NEW i \in 1 .. n PROVE path[i].title \in K
  <2>1. path[i] \in S
    BY <1>1
  <2> QED
    BY <1>0, <2>1 DEF Tops
<1>3. PICK f : f = [i \in 1 .. n |-> path[i].title]
  OBVIOUS
<1>4. f \in [1 .. n -> K]
  BY <1>2, <1>3
<1>5. f \in Seq(K)
  BY <1>1, <1>4
<1> QED
  BY <1>1, <1>3, <1>5 DEF _headings

\* From b to r one heading was added, line n.
Entitled(K, M, b, m, n, r) ==
    /\ r \in Builder(K, M) /\ Laid(r, m) /\ r.current = b.current
    /\ LinesOf(r.blocks) = LinesOf(b.blocks) \cup {n}

LEMMA HeadingLaid ==
    ASSUME NEW K, NEW M, M \subseteq Nat, NEW b \in Builder(K, M), NEW from \in Nat, NEW m \in Nat,
           Laid(b, from), NEW n \in M, from < n, n <= m, NEW level \in Nat, NEW title \in K,
           NEW page \in Nat, NEW r, r = _heading(b, level, n, title, page)
    PROVE  Entitled(K, M, b, m, n, r)
<1>1. PICK B, path, below, top, new, y :
        /\ B = b.blocks /\ path = b.path
        /\ below = Select(path, {h \in Range(path) : h.level < level})
        /\ top = [level |-> level, title |-> title]
        /\ new = Append(below, top)
        /\ y = Block("heading", <<n>>, page, _headings(new), level)
  OBVIOUS
<1>2. r = [b EXCEPT !.path = new, !.blocks = Append(B, y)]
  BY <1>1 DEF _heading
<1>3. B \in Seq(Parts(K, M)) /\ path \in Seq(Tops(K))
  BY <1>1 DEF Builder
<1>4. top \in Tops(K) /\ top.level = level /\ top.title = title
  BY <1>1 DEF Tops
<1>5. below \in Seq(Tops(K))
  BY <1>1, <1>3, SelectRange
<1>6. new \in Seq(Tops(K)) /\ Len(new) = Len(below) + 1 /\ new[Len(below) + 1] = top
      /\ Len(below) \in Nat
  BY <1>1, <1>4, <1>5, Appended
<1>7. PICK hs : hs = _headings(new) /\ hs \in Seq(K)
  BY <1>6, HeadingType
<1>8. Last(hs) = title
  <2>1. PICK N : N = Len(new) /\ N \in Nat /\ DOMAIN new = 1 .. N /\ new[N] = top /\ N \in 1 .. N
    BY <1>6
  <2>2. hs = [i \in 1 .. N |-> new[i].title]
    BY <1>7, <2>1 DEF _headings
  <2>3. Len(hs) = N /\ hs[N] = title
    BY <1>4, <2>1, <2>2
  <2> QED
    BY <2>3 DEF Last
<1>9. PICK one : one = <<n>>
  OBVIOUS
<1>10. one \in Seq(M) /\ Len(one) = 1 /\ one[1] = n /\ one # << >> /\ Range(one) = {n}
  <2>1. one \in Seq(M) /\ Len(one) = 1 /\ one[1] = n /\ DOMAIN one = 1 .. 1
    BY <1>9
  <2>2. Range(one) = {n}
    <3>1. \A i \in 1 .. 1 : i = 1
      OBVIOUS
    <3>2. 1 \in 1 .. 1
      OBVIOUS
    <3> QED
      BY <2>1, <3>1, <3>2 DEF Range
  <2>3. one # << >>
    <3>1. PICK none : none = << >> /\ Len(none) = 0
      OBVIOUS
    <3> QED
      BY <2>1, <3>1
  <2> QED
    BY <2>1, <2>2, <2>3
<1>11. /\ y \in Parts(K, M) /\ y.text = one /\ y.kind = "heading" /\ y.level = level
       /\ y.headings = hs
  BY <1>1, <1>7, <1>9, <1>10 DEF Block, Parts
<1>12. Rising(one)
  BY <1>10 DEF Rising
<1>13. Shaped(B, from) /\ Headed(B, path, from)
  BY <1>1 DEF Laid
<1>14. n \in Nat /\ from <= m
  <2>1. n \in Nat
    OBVIOUS
  <2> QED
    BY <2>1
<1>15. Append(B, y) \in Seq(Parts(K, M)) /\ Shaped(Append(B, y), m)
  BY <1>3, <1>10, <1>11, <1>12, <1>13, <1>14, ShapeGrows
<1>16. Headed(Append(B, y), new, m)
  <2>1. y.text[1] = n /\ Last(y.headings) = top.title /\ top.level = y.level
    BY <1>4, <1>8, <1>10, <1>11
  <2>2. new = Append(Select(path, {h \in Range(path) : h.level < y.level}), top)
    BY <1>1, <1>11
  <2> QED
    BY <1>3, <1>4, <1>11, <1>13, <1>14, <2>1, <2>2, AddHeading
<1>17. r.blocks = Append(B, y) /\ r.path = new /\ r.current = b.current /\ r \in Builder(K, M)
  BY <1>2, <1>6, <1>15 DEF Builder
<1>18. LinesOf(Append(B, y)) = LinesOf(B) \cup {n}
  BY <1>3, <1>10, <1>11, LinesAppended
<1> QED
  BY <1>1, <1>15, <1>16, <1>17, <1>18 DEF Laid, Entitled

Flushed(K, M, b, m, r) ==
    /\ r \in Builder(K, M) /\ Settled(r, m)
    /\ LinesOf(b.blocks) \cup Range(b.current) = LinesOf(r.blocks)

LEMMA FlushSettles ==
    ASSUME NEW K, NEW doc \in Seq(Lines(K)), NEW M, M = DOMAIN doc, NEW b \in Builder(K, M),
           NEW m \in Nat, Built(b, m), NEW mode, NEW page \in Nat,
           NEW r, r = _flush(b, doc, mode, page)
    PROVE  Flushed(K, M, b, m, r)
<1>1. PICK from \in Nat : /\ from <= m /\ Laid(b, from) /\ Rising(b.current)
                          /\ \A n \in Range(b.current) : from < n /\ n <= m
  BY DEF Built
<1>0. M \subseteq Nat
  BY DEF Lines
<1>2. PICK t : t = b.current /\ t \in Seq(M)
  BY DEF Builder
<1>3. CASE t = << >>
  <2>1. r = b
    BY <1>2, <1>3 DEF _flush
  <2>2. Laid(b, m)
    BY <1>0, <1>1, LaidLater
  <2>3. Range(t) = {}
    BY <1>3 DEF Range
  <2> QED
    BY <1>2, <1>3, <2>1, <2>2, <2>3 DEF Settled, Flushed
<1>4. CASE t # << >>
  <2>1. PICK first, level : first = t[1] /\ level = doc[first].level
    OBVIOUS
  <2>2. first \in M /\ first \in Range(t) /\ Len(t) \in Nat
    BY <1>2, <1>4, <2>1, FirstIn
  <2>3. level \in Nat /\ doc[first].title \in K
    <3>1. PICK S : S = Lines(K) /\ doc \in Seq(S)
      OBVIOUS
    <3>2. doc[first] \in S
      BY <2>2, <3>1
    <3> QED
      BY <2>1, <3>1, <3>2 DEF Lines
  <2>4. CASE mode = "layout" /\ Len(t) = 1 /\ level > 0
    <3>0. PICK title : title = doc[first].title /\ title \in K
      BY <2>3
    <3>10. PICK none : none = << >>
      OBVIOUS
    <3>11. PICK h : h = _heading(b, level, first, title, page)
      OBVIOUS
    <3>1. h = _heading(b, level, first, title, page) /\ none = << >>
      BY <3>10, <3>11
    <3>2. r = [h EXCEPT !.current = none]
      BY <1>2, <1>4, <2>1, <2>4, <3>0, <3>1 DEF _flush
    <3>3. from < first /\ first <= m
      BY <1>1, <1>2, <2>2
    <3>31. from \in Nat /\ Laid(b, from) /\ first \in M /\ level \in Nat /\ title \in K
      BY <1>1, <2>2, <2>3, <3>0
    <3>32. h = _heading(b, level, first, title, page)
      BY <3>1
    <3>33. Entitled(K, M, b, m, first, h)
      BY <1>0, <3>3, <3>31, <3>32, HeadingLaid
    <3>4. /\ h \in Builder(K, M) /\ Laid(h, m)
          /\ LinesOf(h.blocks) = LinesOf(b.blocks) \cup {first}
      BY <3>33 DEF Entitled
    <3>41. none \in Seq(M)
      BY <3>1
    <3>5. r \in Builder(K, M) /\ r.blocks = h.blocks /\ r.path = h.path /\ r.current = << >>
      BY <3>1, <3>2, <3>4, <3>41 DEF Builder
    <3>6. Range(t) = {first}
      <4>1. DOMAIN t = 1 .. 1
        BY <1>2, <2>4
      <4>2. \A i : i \in 1 .. 1 <=> i = 1
        OBVIOUS
      <4> QED
        BY <2>1, <4>1, <4>2 DEF Range
    <3> QED
      BY <1>2, <3>4, <3>5, <3>6 DEF Laid, Settled, Flushed
  <2>5. CASE ~ (mode = "layout" /\ Len(t) = 1 /\ level > 0)
    <3>1. PICK B, path, y : /\ B = b.blocks /\ path = b.path
                            /\ y = Block(b.kind, t, page, _headings(path), 0)
      OBVIOUS
    <3>20. PICK none : none = << >>
      OBVIOUS
    <3>21. PICK h : h = [b EXCEPT !.blocks = Append(B, y)]
      OBVIOUS
    <3>2. h = [b EXCEPT !.blocks = Append(B, y)] /\ none = << >>
      BY <3>20, <3>21
    <3>3. r = [h EXCEPT !.current = none]
      BY <1>2, <1>4, <2>1, <2>5, <3>1, <3>2 DEF _flush
    <3>4. B \in Seq(Parts(K, M)) /\ path \in Seq(Tops(K)) /\ b.kind \in {"paragraph", "item"}
      BY <3>1 DEF Builder
    <3>5. PICK hs : hs = _headings(path) /\ hs \in Seq(K)
      BY <3>4, HeadingType
    <3>6. /\ y \in Parts(K, M) /\ y.text = t /\ y.kind # "heading" /\ y.headings = _headings(path)
      BY <1>2, <3>1, <3>4, <3>5 DEF Block, Parts
    <3>7. Shaped(B, from) /\ Headed(B, path, from)
      BY <1>1, <3>1 DEF Laid
    <3>8. Append(B, y) \in Seq(Parts(K, M)) /\ Shaped(Append(B, y), m)
      BY <1>0, <1>1, <1>2, <1>4, <3>4, <3>6, <3>7, ShapeGrows
    <3>9. Headed(Append(B, y), path, m)
      BY <1>0, <1>1, <1>2, <1>4, <3>4, <3>6, <3>7, AddParagraph
    <3>10. h \in Builder(K, M) /\ h.blocks = Append(B, y) /\ h.path = path
      BY <3>1, <3>2, <3>8 DEF Builder
    <3>101. none \in Seq(M)
      BY <3>2
    <3>11. r \in Builder(K, M) /\ r.blocks = Append(B, y) /\ r.path = path /\ r.current = << >>
      BY <3>2, <3>3, <3>10, <3>101 DEF Builder
    <3>12. LinesOf(Append(B, y)) = LinesOf(B) \cup Range(t)
      BY <3>4, <3>6, LinesAppended
    <3> QED
      BY <1>2, <3>1, <3>8, <3>9, <3>11, <3>12 DEF Laid, Settled, Flushed
  <2> QED
    BY <2>4, <2>5
<1> QED
  BY <1>3, <1>4

-----------------------------------------------------------------------------
(* Feeding the lines of a page *)

LEMMA RisingGrows ==
    ASSUME NEW M, M \subseteq Nat, NEW t \in Seq(M), Rising(t), NEW n \in M,
           \A k \in Range(t) : k < n
    PROVE  Rising(Append(t, n))
<1>1. PICK L, u : L = Len(t) /\ u = Append(t, n)
  OBVIOUS
<1>2. /\ Len(u) = L + 1 /\ u[L + 1] = n /\ L \in Nat /\ \A i \in 1 .. L : u[i] = t[i]
      /\ \A i \in 1 .. L + 1 : i \in 1 .. L \/ i = L + 1
  BY <1>1, Appended
<1>3. \A i \in 1 .. L : t[i] \in Range(t)
  BY <1>1 DEF Range
<1>4. ASSUME NEW i \in 1 .. L + 1, NEW j \in 1 .. L + 1, i < j PROVE u[i] < u[j]
  <2>1. i \in 1 .. L
    BY <1>2, <1>4
  <2>2. CASE j \in 1 .. L
    BY <1>1, <1>2, <1>4, <2>1, <2>2 DEF Rising
  <2>3. CASE j = L + 1
    <3>1. u[i] = t[i] /\ u[j] = n /\ t[i] \in Range(t)
      BY <1>2, <1>3, <2>1, <2>3
    <3> QED
      BY <3>1
  <2> QED
    BY <1>2, <2>2, <2>3
<1> QED
  BY <1>1, <1>2, <1>4 DEF Rising

IsText(line, mode) == line.shape # "blank" /\ ~ (line.shape = "hash" /\ mode = "markdown")
Held(b) == LinesOf(b.blocks) \cup Range(b.current)

\* From b to r one line was fed, line n.
Fed(K, M, b, r, n, text) ==
    /\ r \in Builder(K, M) /\ Built(r, n) /\ Held(b) \subseteq Held(r)
    /\ text => n \in Held(r)

LEMMA LineFed ==
    ASSUME NEW K, NEW doc \in Seq(Lines(K)), NEW M, M = DOMAIN doc, NEW b \in Builder(K, M),
           NEW m \in Nat, Built(b, m), NEW mode, NEW page \in Nat, NEW n \in M, n = m + 1,
           NEW r, r = FeedLine(b, doc, mode, page, n)
    PROVE  Fed(K, M, b, r, n, IsText(doc[n], mode))
<1>0. M \subseteq Nat /\ n \in Nat /\ m < n /\ m <= n
  BY DEF Lines
<1>1. PICK line, f : line = doc[n] /\ f = _flush(b, doc, mode, page)
  OBVIOUS
<1>2. line.shape \in {"blank", "hash", "item", "text"} /\ line.level \in Nat /\ line.title \in K
  <2>1. PICK S : S = Lines(K) /\ doc \in Seq(S)
    OBVIOUS
  <2>2. line \in S
    BY <1>1, <2>1
  <2> QED
    BY <2>1, <2>2 DEF Lines
<1>3. Flushed(K, M, b, m, f)
  BY <1>1, FlushSettles
<1>4. /\ f \in Builder(K, M) /\ Laid(f, m) /\ Settled(f, m) /\ f.current = << >>
      /\ Held(b) = LinesOf(f.blocks)
  BY <1>3 DEF Flushed, Settled, Held
<1>5. CASE line.shape = "blank"
  <2>1. r = f
    BY <1>1, <1>5 DEF FeedLine
  <2>2. Built(f, n)
    BY <1>0, <1>4, SettledBuilt
  <2>3. ~ IsText(line, mode)
    BY <1>5 DEF IsText
  <2> QED
    BY <1>1, <1>4, <2>1, <2>2, <2>3 DEF Fed, Held
<1>6. CASE line.shape = "hash" /\ mode = "markdown"
  <2>1. PICK level, title : level = line.level /\ title = line.title /\ level \in Nat /\ title \in K
    BY <1>2
  <2>2. r = _heading(f, level, n, title, page)
    BY <1>1, <1>6, <2>1 DEF FeedLine
  <2>3. Entitled(K, M, f, n, n, r)
    <3>1. n <= n
      BY <1>0
    <3> QED
      BY <1>0, <1>4, <2>1, <2>2, <3>1, HeadingLaid
  <2>4. r \in Builder(K, M) /\ Settled(r, n) /\ LinesOf(f.blocks) \subseteq LinesOf(r.blocks)
    BY <1>4, <2>3 DEF Entitled, Settled
  <2>5. Built(r, n)
    <3>1. n <= n
      BY <1>0
    <3> QED
      BY <1>0, <2>4, <3>1, SettledBuilt
  <2>6. ~ IsText(line, mode)
    BY <1>6 DEF IsText
  <2> QED
    BY <1>1, <1>4, <2>4, <2>5, <2>6 DEF Fed, Held
<1>7. CASE line.shape = "item"
  <2>1. PICK one, k : one = <<n>> /\ k = "item"
    OBVIOUS
  <2>2. r = [f EXCEPT !.kind = k, !.current = one]
    BY <1>1, <1>7, <2>1 DEF FeedLine
  <2>3. one \in Seq(M) /\ Len(one) = 1 /\ one[1] = n
    BY <2>1
  <2>4. Range(one) = {n}
    <3>1. DOMAIN one = 1 .. 1 /\ \A i : i \in 1 .. 1 <=> i = 1
      BY <2>3
    <3> QED
      BY <2>3, <3>1 DEF Range
  <2>5. Rising(one)
    BY <2>3 DEF Rising
  <2>6. /\ r \in Builder(K, M) /\ r.current = one /\ r.blocks = f.blocks /\ r.path = f.path
    BY <1>4, <2>1, <2>2, <2>3 DEF Builder
  <2>7. Laid(r, m)
    BY <1>4, <2>6 DEF Laid
  <2>8. Built(r, n)
    <3>1. n <= n
      BY <1>0
    <3> QED
      BY <1>0, <2>4, <2>5, <2>6, <2>7, <3>1 DEF Built
  <2> QED
    BY <1>4, <2>4, <2>6, <2>8 DEF Fed, Held
<1>8. CASE line.shape # "blank" /\ line.shape # "item" /\ ~ (line.shape = "hash" /\ mode = "markdown")
  <2>1. PICK t, u, k : /\ t = b.current /\ u = Append(t, n)
                       /\ k = IF t = << >> THEN "paragraph" ELSE b.kind
    OBVIOUS
  <2>2. r = [b EXCEPT !.kind = k, !.current = u]
    BY <1>1, <1>8, <2>1 DEF FeedLine
  <2>3. t \in Seq(M) /\ b.kind \in {"paragraph", "item"}
    BY <2>1 DEF Builder
  <2>4. k \in {"paragraph", "item"}
    BY <2>1, <2>3
  <2>5. u \in Seq(M) /\ Range(u) = Range(t) \cup {n}
    BY <2>1, <2>3, AppendRange
  <2>6. /\ r \in Builder(K, M) /\ r.current = u /\ r.blocks = b.blocks /\ r.path = b.path
    BY <2>2, <2>4, <2>5 DEF Builder
  <2>7. PICK from \in Nat : /\ from <= m /\ Laid(b, from) /\ Rising(t)
                            /\ \A e \in Range(t) : from < e /\ e <= m
    BY <2>1 DEF Built
  <2>8. \A e \in Range(t) : e \in Nat /\ e < n /\ e <= n /\ from < e
    <3>1. \A e \in Range(t) : e \in M
      BY <2>3, RangeIn
    <3> QED
      BY <1>0, <2>7, <3>1
  <2>9. Rising(u)
    BY <1>0, <2>1, <2>3, <2>7, <2>8, RisingGrows
  <2>10. Laid(r, from)
    BY <2>6, <2>7 DEF Laid
  <2>11. from <= n /\ from < n /\ n <= n
    BY <1>0, <2>7
  <2>12. Built(r, n)
    BY <2>5, <2>6, <2>8, <2>9, <2>10, <2>11 DEF Built
  <2> QED
    BY <2>1, <2>5, <2>6, <2>12 DEF Fed, Held
<1> QED
  BY <1>2, <1>5, <1>6, <1>7, <1>8

LEMMA HeadingTyped ==
    ASSUME NEW K, NEW M, NEW b \in Builder(K, M), NEW n \in M, NEW level \in Nat, NEW title \in K,
           NEW page \in Nat
    PROVE  _heading(b, level, n, title, page) \in Builder(K, M)
<1>1. PICK B, path, below, top, new, one : 
        /\ B = b.blocks /\ path = b.path
        /\ below = Select(path, {h \in Range(path) : h.level < level})
        /\ top = [level |-> level, title |-> title]
        /\ new = Append(below, top) /\ one = <<n>>
  OBVIOUS
<1>2. PICK hs, y : hs = _headings(new) /\ y = Block("heading", one, page, hs, level)
  OBVIOUS
<1>3. _heading(b, level, n, title, page) = [b EXCEPT !.path = new, !.blocks = Append(B, y)]
  BY <1>1, <1>2 DEF _heading
<1>4. B \in Seq(Parts(K, M)) /\ path \in Seq(Tops(K))
  BY <1>1 DEF Builder
<1>5. top \in Tops(K)
  BY <1>1 DEF Tops
<1>6. below \in Seq(Tops(K))
  BY <1>1, <1>4, SelectRange
<1>7. new \in Seq(Tops(K))
  BY <1>1, <1>5, <1>6, Appended
<1>8. hs \in Seq(K)
  BY <1>2, <1>7, HeadingType
<1>9. one \in Seq(M)
  BY <1>1
<1>10. y \in Parts(K, M)
  BY <1>2, <1>8, <1>9 DEF Block, Parts
<1>11. Append(B, y) \in Seq(Parts(K, M))
  BY <1>4, <1>10, Appended
<1> QED
  BY <1>3, <1>7, <1>11 DEF Builder

LEMMA FlushTyped ==
    ASSUME NEW K, NEW doc \in Seq(Lines(K)), NEW M, M = DOMAIN doc, NEW b \in Builder(K, M),
           NEW mode, NEW page \in Nat
    PROVE  _flush(b, doc, mode, page) \in Builder(K, M)
<1>1. PICK t : t = b.current /\ t \in Seq(M)
  BY DEF Builder
<1>2. CASE t = << >>
  BY <1>1, <1>2 DEF _flush
<1>3. CASE t # << >>
  <2>1. PICK first, level, title, none : first = t[1] /\ level = doc[first].level
                                         /\ title = doc[first].title /\ none = << >>
    OBVIOUS
  <2>2. first \in M /\ none \in Seq(M)
    BY <1>1, <1>3, <2>1, FirstIn
  <2>3. level \in Nat /\ title \in K
    <3>1. PICK S : S = Lines(K) /\ doc \in Seq(S)
      OBVIOUS
    <3>2. doc[first] \in S
      BY <2>2, <3>1
    <3> QED
      BY <2>1, <3>1, <3>2 DEF Lines
  <2>4. CASE mode = "layout" /\ Len(t) = 1 /\ level > 0
    <3>1. PICK h : h = _heading(b, level, first, title, page)
      OBVIOUS
    <3>2. _flush(b, doc, mode, page) = [h EXCEPT !.current = none]
      BY <1>1, <1>3, <2>1, <2>4, <3>1 DEF _flush
    <3>3. h \in Builder(K, M)
      BY <2>2, <2>3, <3>1, HeadingTyped
    <3> QED
      BY <2>2, <3>2, <3>3 DEF Builder
  <2>5. CASE ~ (mode = "layout" /\ Len(t) = 1 /\ level > 0)
    <3>1. PICK B, path, hs : B = b.blocks /\ path = b.path /\ hs = _headings(path)
      OBVIOUS
    <3>2. PICK y : y = Block(b.kind, t, page, hs, 0)
      OBVIOUS
    <3>3. PICK h : h = [b EXCEPT !.blocks = Append(B, y)]
      OBVIOUS
    <3>4. _flush(b, doc, mode, page) = [h EXCEPT !.current = none]
      BY <1>1, <1>3, <2>1, <2>5, <3>1, <3>2, <3>3 DEF _flush
    <3>5. B \in Seq(Parts(K, M)) /\ path \in Seq(Tops(K)) /\ b.kind \in {"paragraph", "item"}
      BY <3>1 DEF Builder
    <3>6. hs \in Seq(K)
      BY <3>1, <3>5, HeadingType
    <3>7. y \in Parts(K, M)
      BY <1>1, <3>2, <3>5, <3>6 DEF Block, Parts
    <3>8. Append(B, y) \in Seq(Parts(K, M))
      BY <3>5, <3>7, Appended
    <3>9. h \in Builder(K, M)
      BY <3>3, <3>8 DEF Builder
    <3> QED
      BY <2>2, <3>4, <3>9 DEF Builder
  <2> QED
    BY <2>4, <2>5
<1> QED
  BY <1>2, <1>3

LEMMA FeedTyped ==
    ASSUME NEW K, NEW doc \in Seq(Lines(K)), NEW M, M = DOMAIN doc, NEW b \in Builder(K, M),
           NEW mode, NEW page \in Nat, NEW n \in M
    PROVE  FeedLine(b, doc, mode, page, n) \in Builder(K, M)
<1>1. PICK line, f, r : /\ line = doc[n] /\ f = _flush(b, doc, mode, page)
                        /\ r = FeedLine(b, doc, mode, page, n)
  OBVIOUS
<1>2. line.shape \in {"blank", "hash", "item", "text"} /\ line.level \in Nat /\ line.title \in K
  <2>1. PICK S : S = Lines(K) /\ doc \in Seq(S)
    OBVIOUS
  <2>2. line \in S
    BY <1>1, <2>1
  <2> QED
    BY <2>1, <2>2 DEF Lines
<1>3. f \in Builder(K, M)
  BY <1>1, FlushTyped
<1>4. CASE line.shape = "blank"
  BY <1>1, <1>3, <1>4 DEF FeedLine
<1>5. CASE line.shape = "hash" /\ mode = "markdown"
  <2>1. PICK level, title : level = line.level /\ title = line.title /\ level \in Nat /\ title \in K
    BY <1>2
  <2>2. r = _heading(f, level, n, title, page)
    BY <1>1, <1>5, <2>1 DEF FeedLine
  <2>3. r \in Builder(K, M)
    BY <1>3, <2>1, <2>2, HeadingTyped
  <2> QED
    BY <1>1, <2>3
<1>6. CASE line.shape = "item"
  <2>1. PICK one, k : one = <<n>> /\ k = "item"
    OBVIOUS
  <2>2. r = [f EXCEPT !.kind = k, !.current = one]
    BY <1>1, <1>6, <2>1 DEF FeedLine
  <2>3. one \in Seq(M) /\ k \in {"paragraph", "item"}
    BY <2>1
  <2>4. r \in Builder(K, M)
    BY <1>3, <2>2, <2>3 DEF Builder
  <2> QED
    BY <1>1, <2>4
<1>7. CASE line.shape # "blank" /\ line.shape # "item" /\ ~ (line.shape = "hash" /\ mode = "markdown")
  <2>1. PICK t, u, k : /\ t = b.current /\ u = Append(t, n)
                       /\ k = IF t = << >> THEN "paragraph" ELSE b.kind
    OBVIOUS
  <2>2. r = [b EXCEPT !.kind = k, !.current = u]
    BY <1>1, <1>7, <2>1 DEF FeedLine
  <2>3. t \in Seq(M) /\ b.kind \in {"paragraph", "item"}
    BY <2>1 DEF Builder
  <2>4. k \in {"paragraph", "item"} /\ u \in Seq(M)
    BY <2>1, <2>3
  <2> QED
    BY <1>1, <2>2, <2>4 DEF Builder
<1> QED
  BY <1>2, <1>4, <1>5, <1>6, <1>7

Through(b, doc, mode, page, s) ==
    FoldLeft(LAMBDA acc, n : FeedLine(acc, doc, mode, page, n), b, s)

Stepping(g, b, doc, mode, page, s) ==
    /\ g[0] = b /\ Through(b, doc, mode, page, s) = g[Len(s)]
    /\ \A n \in 1 .. Len(s) : g[n] = FeedLine(g[n - 1], doc, mode, page, s[n])

\* The lines of a page, one by one.
LEMMA PageSteps ==
    ASSUME NEW K, NEW doc \in Seq(Lines(K)), NEW M, M = DOMAIN doc, NEW b \in Builder(K, M),
           NEW mode, NEW page \in Nat, NEW s \in Seq(M)
    PROVE  \E g : Stepping(g, b, doc, mode, page, s)
<1> DEFINE N == Len(s)
           F == [p \in (1 .. N) \X Builder(K, M) |-> FeedLine(p[2], doc, mode, page, s[p[1]])]
           Eq(iter) == iter = [e \in SUBSET (1 .. N) |->
              IF e = {} THEN b ELSE FeedLine(iter[e \ {Max(e)}], doc, mode, page, s[Max(e)])]
<1>0. N \in Nat /\ DOMAIN s = 1 .. N /\ \A n \in 1 .. N : s[n] \in M
  OBVIOUS
<1>1. F \in [(1 .. N) \X Builder(K, M) -> Builder(K, M)] /\ b \in Builder(K, M)
  BY <1>0, FeedTyped
<1>2. PICK it : Folds(it, N, Builder(K, M), b, F)
  <2> HIDE DEF F, N
  <2> QED
    BY <1>0, <1>1, SubsetRecursion
<1>3. ASSUME NEW e \in SUBSET (1 .. N), e # {}
      PROVE  it[e] = FeedLine(it[e \ {Max(e)}], doc, mode, page, s[Max(e)])
  <2>1. Max(e) \in 1 .. N /\ it[e \ {Max(e)}] \in Builder(K, M)
    BY <1>0, <1>2, <1>3, MaxIn DEF Folds
  <2> QED
    BY <1>2, <1>3, <2>1 DEF Folds
<1>4. Eq(it)
  BY <1>2, <1>3 DEF Folds
<1> DEFINE c == CHOOSE iter : Eq(iter)
<1>5. Eq(c)
  <2> HIDE DEF Eq
  <2> QED
    BY <1>4
<1>6. Through(b, doc, mode, page, s) = c[1 .. N]
  BY <1>0 DEF Through, FoldLeft, MapThenFoldSet
<1> HIDE DEF c
<1>7. c[{}] = b
  BY <1>5
<1>8. ASSUME NEW n \in 1 .. N
      PROVE  c[1 .. n] = FeedLine(c[1 .. (n - 1)], doc, mode, page, s[n])
  <2>1. /\ Max(1 .. n) = n /\ (1 .. n) \ {n} = 1 .. (n - 1)
        /\ 1 .. n \in SUBSET (1 .. N) /\ 1 .. n # {}
    BY <1>0, MaxPrefix
  <2> QED
    BY <1>5, <2>1
<1> DEFINE g == [n \in 0 .. N |-> c[1 .. n]]
<1>9. g[0] = b /\ g[N] = c[1 .. N]
  BY <1>0, <1>7
<1>10. ASSUME NEW n \in 1 .. N PROVE g[n - 1] = c[1 .. (n - 1)] /\ g[n] = c[1 .. n]
  BY <1>0
<1> HIDE DEF g
<1>11. \A n \in 1 .. N : g[n] = FeedLine(g[n - 1], doc, mode, page, s[n])
  BY <1>8, <1>10
<1> QED
  BY <1>6, <1>9, <1>11 DEF Stepping

\* A page whose lines go on from m.
Paged(K, M, doc, mode, b, m, s, r) ==
    /\ r \in Builder(K, M) /\ Settled(r, m + Len(s)) /\ Held(b) \subseteq Held(r)
    /\ \A k \in 1 .. Len(s) : IsText(doc[s[k]], mode) => s[k] \in Held(r)

LEMMA PageFed ==
    ASSUME NEW K, NEW doc \in Seq(Lines(K)), NEW M, M = DOMAIN doc, NEW b \in Builder(K, M),
           NEW m \in Nat, Settled(b, m), NEW mode, NEW page \in Nat, NEW s \in Seq(M),
           \A k \in 1 .. Len(s) : s[k] = m + k, NEW r, r = feed(b, doc, mode, page, s)
    PROVE  Paged(K, M, doc, mode, b, m, s, r)
<1>0. PICK N : N = Len(s) /\ N \in Nat /\ \A k \in 1 .. N : s[k] \in M /\ s[k] = m + k
  OBVIOUS
<1>01. M \subseteq Nat
  BY DEF Lines
<1>1. PICK g : /\ g[0] = b /\ Through(b, doc, mode, page, s) = g[N]
               /\ \A n \in 1 .. N : g[n] = FeedLine(g[n - 1], doc, mode, page, s[n])
  <2>1. PICK g : Stepping(g, b, doc, mode, page, s)
    BY PageSteps
  <2> QED
    BY <1>0, <2>1 DEF Stepping
<1> DEFINE P == {n \in 0 .. N : /\ g[n] \in Builder(K, M) /\ Built(g[n], m + n)
                                /\ Held(b) \subseteq Held(g[n])
                                /\ \A k \in 1 .. n : IsText(doc[s[k]], mode) => s[k] \in Held(g[n])}
<1>2. 0 \in P
  <2>1. Built(b, m)
    BY <1>01, SettledBuilt
  <2>2. m + 0 = m /\ 1 .. 0 = {} /\ 0 \in 0 .. N
    BY <1>0
  <2>3. g[0] = b
    BY <1>1
  <2>4. Built(g[0], m + 0) /\ g[0] \in Builder(K, M) /\ Held(b) \subseteq Held(g[0])
    BY <2>1, <2>2, <2>3
  <2> QED
    BY <2>2, <2>4
<1>3. ASSUME NEW n \in 1 .. N, n - 1 \in P PROVE n \in P
  <2>1. PICK old, new, at, e : old = g[n - 1] /\ new = g[n] /\ e = s[n] /\ at = m + (n - 1)
    OBVIOUS
  <2>2. /\ old \in Builder(K, M) /\ Built(old, at) /\ Held(b) \subseteq Held(old)
        /\ \A k \in 1 .. n - 1 : IsText(doc[s[k]], mode) => s[k] \in Held(old)
    BY <1>3, <2>1
  <2>3. at \in Nat /\ e \in M /\ e = at + 1 /\ e = m + n /\ n \in 0 .. N
    BY <1>0, <2>1
  <2>4. new = FeedLine(old, doc, mode, page, e)
    BY <1>1, <2>1
  <2>5. Fed(K, M, old, new, e, IsText(doc[e], mode))
    BY <2>2, <2>3, <2>4, LineFed
  <2>6. /\ new \in Builder(K, M) /\ Built(new, e) /\ Held(old) \subseteq Held(new)
        /\ IsText(doc[e], mode) => e \in Held(new)
    BY <2>5 DEF Fed
  <2>7. ASSUME NEW k \in 1 .. n, IsText(doc[s[k]], mode) PROVE s[k] \in Held(new)
    <3>1. CASE k = n
      BY <2>1, <2>6, <2>7, <3>1
    <3>2. CASE k # n
      <4>1. k \in 1 .. n - 1
        BY <1>0, <3>2
      <4> QED
        BY <2>2, <2>6, <2>7, <4>1
    <3> QED
      BY <3>1, <3>2
  <2> QED
    BY <2>1, <2>2, <2>3, <2>6, <2>7
<1>4. N \in P
  <2> HIDE DEF P
  <2>1. \A n \in 1 .. N : n - 1 \in P => n \in P
    BY <1>3
  <2>2. 0 .. N \subseteq P
    BY <1>0, <1>2, <2>1, AlongPrefixes
  <2> QED
    BY <1>0, <2>2
<1>5. PICK f, at : f = g[N] /\ at = m + N /\ at \in Nat
  BY <1>0
<1>6. /\ f \in Builder(K, M) /\ Built(f, at) /\ Held(b) \subseteq Held(f)
      /\ \A k \in 1 .. N : IsText(doc[s[k]], mode) => s[k] \in Held(f)
  BY <1>4, <1>5
<1>7. r = _flush(f, doc, mode, page)
  <2>1. feed(b, doc, mode, page, s) = _flush(Through(b, doc, mode, page, s), doc, mode, page)
    BY DEF feed, Through
  <2> QED
    BY <1>1, <1>5, <2>1
<1>8. Flushed(K, M, f, at, r)
  BY <1>5, <1>6, <1>7, FlushSettles
<1>9. r \in Builder(K, M) /\ Settled(r, at) /\ Held(f) = LinesOf(r.blocks)
  BY <1>8 DEF Flushed, Held
<1>10. Held(f) \subseteq Held(r)
  BY <1>9 DEF Held
<1> QED
  BY <1>0, <1>5, <1>6, <1>9, <1>10 DEF Paged

LEMMA PageTyped ==
    ASSUME NEW K, NEW doc \in Seq(Lines(K)), NEW M, M = DOMAIN doc, NEW b \in Builder(K, M),
           NEW mode, NEW page \in Nat, NEW s \in Seq(M)
    PROVE  feed(b, doc, mode, page, s) \in Builder(K, M)
<1>0. PICK N : N = Len(s) /\ N \in Nat /\ \A k \in 1 .. N : s[k] \in M
  OBVIOUS
<1>1. PICK g : /\ g[0] = b /\ Through(b, doc, mode, page, s) = g[N]
               /\ \A n \in 1 .. N : g[n] = FeedLine(g[n - 1], doc, mode, page, s[n])
  <2>1. PICK g : Stepping(g, b, doc, mode, page, s)
    BY PageSteps
  <2> QED
    BY <1>0, <2>1 DEF Stepping
<1> DEFINE P == {n \in 0 .. N : g[n] \in Builder(K, M)}
<1>2. 0 \in P
  BY <1>0, <1>1
<1>3. ASSUME NEW n \in 1 .. N, n - 1 \in P PROVE n \in P
  <2>1. PICK old, e : old = g[n - 1] /\ e = s[n]
    OBVIOUS
  <2>2. old \in Builder(K, M) /\ e \in M /\ g[n] = FeedLine(old, doc, mode, page, e) /\ n \in 0 .. N
    BY <1>0, <1>1, <1>3, <2>1
  <2>3. FeedLine(old, doc, mode, page, e) \in Builder(K, M)
    BY <2>2, FeedTyped
  <2> QED
    BY <2>2, <2>3
<1>4. N \in P
  <2> HIDE DEF P
  <2>1. \A n \in 1 .. N : n - 1 \in P => n \in P
    BY <1>3
  <2>2. 0 .. N \subseteq P
    BY <1>0, <1>2, <2>1, AlongPrefixes
  <2> QED
    BY <1>0, <2>2
<1>5. PICK f : f = g[N] /\ f \in Builder(K, M)
  BY <1>4
<1>6. feed(b, doc, mode, page, s) = _flush(Through(b, doc, mode, page, s), doc, mode, page)
  BY DEF feed, Through
<1>7. _flush(f, doc, mode, page) \in Builder(K, M)
  BY <1>5, FlushTyped
<1> QED
  BY <1>1, <1>5, <1>6, <1>7

LEMMA EmptyLaid ==
    ASSUME NEW K, NEW M PROVE Empty \in Builder(K, M) /\ Settled(Empty, 0)
<1>1. PICK none : none = << >>
  OBVIOUS
<1>2. Empty = [blocks |-> none, path |-> none, current |-> none, kind |-> "paragraph"]
  BY <1>1 DEF Empty
<1>3. /\ none \in Seq(Parts(K, M)) /\ none \in Seq(Tops(K)) /\ none \in Seq(M)
      /\ Len(none) = 0 /\ 1 .. 0 = {}
  BY <1>1
<1>4. Empty \in Builder(K, M)
  BY <1>2, <1>3 DEF Builder
<1>5. Shaped(none, 0)
  BY <1>3 DEF Shaped
<1>6. Select(none, OpenAt(none, 0 + 1)) = none
  BY <1>1, SelectNothing
<1>7. Headed(none, none, 0)
  BY <1>3, <1>6 DEF Headed, Alike
<1> QED
  BY <1>1, <1>2, <1>4, <1>5, <1>7 DEF Settled, Laid

AllPages(doc, mode, pages, s) ==
    FoldLeft(LAMBDA b, p : feed(b, doc, mode, p, pages[p]), Empty, s)

Paging(g, doc, mode, pages, s) ==
    /\ g[0] = Empty /\ AllPages(doc, mode, pages, s) = g[Len(s)]
    /\ \A n \in 1 .. Len(s) : g[n] = feed(g[n - 1], doc, mode, s[n], pages[s[n]])

\* The pages of a document, one by one.
LEMMA DocumentSteps ==
    ASSUME NEW K, NEW doc \in Seq(Lines(K)), NEW M, M = DOMAIN doc,
           NEW mode, NEW pages \in Seq(Seq(M)), NEW s \in Seq(1 .. Len(pages))
    PROVE  \E g : Paging(g, doc, mode, pages, s)
<1> DEFINE N == Len(s)
           F == [p \in (1 .. N) \X Builder(K, M) |-> feed(p[2], doc, mode, s[p[1]], pages[s[p[1]]])]
           Eq(iter) == iter = [e \in SUBSET (1 .. N) |->
              IF e = {} THEN Empty ELSE feed(iter[e \ {Max(e)}], doc, mode, s[Max(e)], pages[s[Max(e)]])]
<1>0. N \in Nat /\ DOMAIN s = 1 .. N /\ \A n \in 1 .. N : s[n] \in 1 .. Len(pages)
  OBVIOUS
<1>1. F \in [(1 .. N) \X Builder(K, M) -> Builder(K, M)] /\ Empty \in Builder(K, M)
  <2>1. \A x \in 1 .. Len(pages) : x \in Nat /\ pages[x] \in Seq(M)
    BY Inner
  <2>2. ASSUME NEW x \in 1 .. Len(pages), NEW b \in Builder(K, M)
        PROVE  feed(b, doc, mode, x, pages[x]) \in Builder(K, M)
    BY <2>1, PageTyped
  <2>3. \A p \in (1 .. N) \X Builder(K, M) : s[p[1]] \in 1 .. Len(pages) /\ p[2] \in Builder(K, M)
    BY <1>0
  <2>4. Empty \in Builder(K, M)
    BY EmptyLaid
  <2> QED
    BY <2>2, <2>3, <2>4
<1>2. PICK it : Folds(it, N, Builder(K, M), Empty, F)
  <2> HIDE DEF F, N
  <2> QED
    BY <1>0, <1>1, SubsetRecursion
<1>3. ASSUME NEW e \in SUBSET (1 .. N), e # {}
      PROVE  it[e] = feed(it[e \ {Max(e)}], doc, mode, s[Max(e)], pages[s[Max(e)]])
  <2>1. Max(e) \in 1 .. N /\ it[e \ {Max(e)}] \in Builder(K, M)
    BY <1>0, <1>2, <1>3, MaxIn DEF Folds
  <2> QED
    BY <1>2, <1>3, <2>1 DEF Folds
<1>4. Eq(it)
  BY <1>2, <1>3 DEF Folds
<1> DEFINE c == CHOOSE iter : Eq(iter)
<1>5. Eq(c)
  <2> HIDE DEF Eq
  <2> QED
    BY <1>4
<1>6. AllPages(doc, mode, pages, s) = c[1 .. N]
  BY <1>0 DEF AllPages, FoldLeft, MapThenFoldSet
<1> HIDE DEF c
<1>7. c[{}] = Empty
  BY <1>5
<1>8. ASSUME NEW n \in 1 .. N
      PROVE  c[1 .. n] = feed(c[1 .. (n - 1)], doc, mode, s[n], pages[s[n]])
  <2>1. /\ Max(1 .. n) = n /\ (1 .. n) \ {n} = 1 .. (n - 1)
        /\ 1 .. n \in SUBSET (1 .. N) /\ 1 .. n # {}
    BY <1>0, MaxPrefix
  <2> QED
    BY <1>5, <2>1
<1> DEFINE g == [n \in 0 .. N |-> c[1 .. n]]
<1>9. g[0] = Empty /\ g[N] = c[1 .. N]
  BY <1>0, <1>7
<1>10. ASSUME NEW n \in 1 .. N PROVE g[n - 1] = c[1 .. (n - 1)] /\ g[n] = c[1 .. n]
  BY <1>0
<1> HIDE DEF g
<1>11. \A n \in 1 .. N : g[n] = feed(g[n - 1], doc, mode, s[n], pages[s[n]])
  BY <1>8, <1>10
<1> QED
  BY <1>6, <1>9, <1>11 DEF Paging


\* The blocks of a document.
Blocked(K, M, doc, mode, B) ==
    /\ B \in Seq(Parts(K, M)) /\ Shaped(B, Len(doc)) /\ \E path : Headed(B, path, Len(doc))
    /\ \A n \in M : IsText(doc[n], mode) => n \in LinesOf(B)

LEMMA DocumentBuilt ==
    ASSUME NEW K, NEW doc \in Seq(Lines(K)), NEW M, M = DOMAIN doc, NEW mode,
           NEW pages \in Seq(Seq(M)), FlattenSeq(pages) = [n \in DOMAIN doc |-> n]
    PROVE  Blocked(K, M, doc, mode, blocks_of(doc, mode, pages))
<1>0. PICK N : N = Len(pages) /\ N \in Nat /\ DOMAIN pages = 1 .. N
               /\ \A p \in 1 .. N : pages[p] \in Seq(M) /\ Len(pages[p]) \in Nat
  <2>1. Len(pages) \in Nat /\ DOMAIN pages = 1 .. Len(pages)
        /\ \A p \in 1 .. Len(pages) : pages[p] \in Seq(M) /\ Len(pages[p]) \in Nat
    BY Inner
  <2> QED
    BY <2>1
<1>01. PICK D : D = Len(doc) /\ D \in Nat /\ M = 1 .. D
  OBVIOUS
<1>1. PICK s : s = [i \in 1 .. N |-> i]
  OBVIOUS
<1>2. s \in Seq(1 .. N) /\ Len(s) = N /\ \A i \in 1 .. N : s[i] = i
  BY <1>0, <1>1
<1>3. PICK g : /\ g[0] = Empty /\ AllPages(doc, mode, pages, s) = g[N]
               /\ \A p \in 1 .. N : g[p] = feed(g[p - 1], doc, mode, p, pages[p])
  <2>1. PICK g : Paging(g, doc, mode, pages, s)
    BY <1>0, <1>2, DocumentSteps
  <2> QED
    BY <1>2, <2>1 DEF Paging
<1>4. blocks_of(doc, mode, pages) = g[N].blocks
  <2>1. blocks_of(doc, mode, pages) = AllPages(doc, mode, pages, s).blocks
    BY <1>0, <1>1 DEF blocks_of, AllPages, FoldLeftDomain
  <2> QED
    BY <1>3, <2>1
<1>5. PICK flat : flat = FlattenSeq(pages) /\ Len(flat) = D /\ \A n \in 1 .. D : flat[n] = n
  BY <1>01
<1>6. PICK lo : Tiles(lo, pages, flat) /\ lo[N + 1] = D + 1
  BY <1>0, <1>5, FlattenTiles
<1>7. /\ lo \in [1 .. N + 1 -> Nat] /\ lo[1] = 1
      /\ \A p \in 1 .. N : lo[p + 1] = lo[p] + Len(pages[p])
  BY <1>0, <1>6 DEF Tiles
<1>8. ASSUME NEW p \in 1 .. N, NEW k \in 1 .. Len(pages[p]) PROVE pages[p][k] = lo[p] + k - 1
  <2>10. Apart(lo, pages, flat, p, k)
    BY <1>0, <1>6, TileApart
  <2>1. pages[p][k] = flat[lo[p] + k - 1] /\ lo[p] + k - 1 \in 1 .. lo[N + 1] - 1
    BY <1>0, <2>10 DEF Apart
  <2>2. lo[N + 1] - 1 = D
    BY <1>01, <1>6
  <2> QED
    BY <1>5, <2>1, <2>2
<1> DEFINE P == {p \in 0 .. N : /\ g[p] \in Builder(K, M) /\ Settled(g[p], lo[p + 1] - 1)
                                /\ \A n \in 1 .. lo[p + 1] - 1 :
                                     IsText(doc[n], mode) => n \in Held(g[p])}
<1>9. 0 \in P
  <2>1. 0 + 1 = 1 /\ lo[0 + 1] - 1 = 0 /\ 1 .. 0 = {} /\ 0 \in 0 .. N
    BY <1>0, <1>7
  <2>2. Empty \in Builder(K, M) /\ Settled(Empty, 0)
    BY EmptyLaid
  <2> QED
    BY <1>3, <2>1, <2>2
<1>10. ASSUME NEW p \in 1 .. N, p - 1 \in P PROVE p \in P
  <2>1. PICK old, new, m, t, L : /\ old = g[p - 1] /\ new = g[p] /\ t = pages[p] /\ m = lo[p] - 1
                                 /\ L = Len(t)
    OBVIOUS
  <2>2. p - 1 + 1 = p /\ p \in 0 .. N /\ p \in Nat /\ p \in 1 .. N + 1
    BY <1>0
  <2>3. old \in Builder(K, M) /\ Settled(old, m)
        /\ \A n \in 1 .. m : IsText(doc[n], mode) => n \in Held(old)
    BY <1>10, <2>1, <2>2
  <2>4. m \in Nat
    <3>1. 1 \in 1 .. N + 1 /\ 1 <= p
      BY <1>0
    <3>2. lo[1] <= lo[p]
      BY <1>0, <1>6, <2>2, <3>1, TilesInOrder
    <3>3. lo[p] \in Nat
      BY <1>7, <2>2
    <3> QED
      BY <1>7, <2>1, <3>2, <3>3
  <2>5. t \in Seq(M) /\ L \in Nat
    BY <1>0, <2>1
  <2>6. \A k \in 1 .. L : t[k] = m + k
    <3>1. lo[p] \in Nat
      BY <1>7, <2>2
    <3>2. \A k \in 1 .. L : t[k] = lo[p] + k - 1
      BY <1>8, <2>1
    <3>3. PICK a : a = lo[p] /\ a \in Nat /\ m = a - 1
      BY <2>1, <3>1
    <3>4. \A k \in 1 .. L : a + k - 1 = m + k
      BY <2>5, <3>3
    <3> QED
      BY <3>2, <3>3, <3>4
  <2>7. new = feed(old, doc, mode, p, t)
    BY <1>3, <2>1
  <2>8. Paged(K, M, doc, mode, old, m, t, new)
    BY <2>1, <2>2, <2>3, <2>4, <2>5, <2>6, <2>7, PageFed
  <2>9. /\ new \in Builder(K, M) /\ Settled(new, m + L) /\ Held(old) \subseteq Held(new)
        /\ \A k \in 1 .. L : IsText(doc[t[k]], mode) => t[k] \in Held(new)
    BY <2>1, <2>8 DEF Paged
  <2>10. lo[p + 1] - 1 = m + L
    <3>1. PICK a, c : a = lo[p] /\ c = lo[p + 1]
      OBVIOUS
    <3>2. a \in Nat /\ c = a + L
      BY <1>7, <2>1, <2>2, <3>1
    <3>3. m = a - 1 /\ L \in Nat
      BY <2>1, <2>5, <3>1
    <3>4. c - 1 = m + L
      BY <3>2, <3>3
    <3> QED
      BY <3>1, <3>4
  <2>11. ASSUME NEW n \in 1 .. m + L, IsText(doc[n], mode) PROVE n \in Held(new)
    <3>1. CASE n \in 1 .. m
      BY <2>3, <2>9, <2>11, <3>1
    <3>2. CASE n \notin 1 .. m
      <4>1. PICK k : k = n - m
        OBVIOUS
      <4>2. k \in 1 .. L /\ n = m + k
        BY <2>4, <2>5, <3>2, <4>1
      <4>3. t[k] = n
        BY <2>6, <4>2
      <4> QED
        BY <2>9, <2>11, <4>2, <4>3
    <3> QED
      BY <3>1, <3>2
  <2> QED
    BY <2>1, <2>2, <2>9, <2>10, <2>11
<1>11. N \in P
  <2> HIDE DEF P
  <2>1. \A p \in 1 .. N : p - 1 \in P => p \in P
    BY <1>10
  <2>2. 0 .. N \subseteq P
    BY <1>0, <1>9, <2>1, AlongPrefixes
  <2> QED
    BY <1>0, <2>2
<1>12. PICK f : /\ f = g[N] /\ f \in Builder(K, M) /\ Settled(f, D)
                /\ \A n \in 1 .. D : IsText(doc[n], mode) => n \in Held(f)
  <2>1. lo[N + 1] - 1 = D
    BY <1>01, <1>6
  <2> QED
    BY <1>11, <2>1
<1>13. Held(f) = LinesOf(f.blocks)
  <2>1. Range(f.current) = {}
    BY <1>12 DEF Settled, Range
  <2> QED
    BY <2>1 DEF Held
<1>14. f.blocks \in Seq(Parts(K, M)) /\ Shaped(f.blocks, D) /\ Headed(f.blocks, f.path, D)
  BY <1>12 DEF Builder, Settled, Laid
<1> QED
  BY <1>01, <1>4, <1>12, <1>13, <1>14 DEF Blocked

-----------------------------------------------------------------------------
(* The lines of the blocks *)

LEMMA TileOrder ==
    ASSUME NEW T, NEW gs \in Seq(Seq(T)), NEW s, NEW lo, Tiles(lo, gs, s),
           NEW i \in 1 .. Len(gs), NEW k \in 1 .. Len(gs[i]),
           NEW j \in 1 .. Len(gs), NEW l \in 1 .. Len(gs[j])
    PROVE  (lo[i] + k - 1 < lo[j] + l - 1) <=> (i < j \/ (i = j /\ k < l))
<1>1. PICK N, a, b : N = Len(gs) /\ N \in Nat /\ a = lo[i] /\ b = lo[j]
  <2>1. Len(gs) \in Nat
    BY Inner
  <2> QED
    BY <2>1
<1>2. a \in Nat /\ b \in Nat
  <2>1. lo \in [1 .. N + 1 -> Nat]
    BY <1>1 DEF Tiles
  <2>2. i \in 1 .. N + 1 /\ j \in 1 .. N + 1
    BY <1>1
  <2> QED
    BY <1>1, <2>1, <2>2
<1>3. k \in Nat /\ l \in Nat /\ 1 <= k /\ 1 <= l /\ i \in Nat /\ j \in Nat
  <2>1. Len(gs[i]) \in Nat /\ Len(gs[j]) \in Nat
    BY Inner
  <2> QED
    BY <1>1, <2>1
<1>4. CASE i < j
  <2>1. j \in i + 1 .. N
    BY <1>1, <1>3, <1>4
  <2>2. a + k - 1 < b
    BY <1>1, <2>1, TileApart DEF Apart
  <2>3. a + k - 1 < b + l - 1
    BY <1>2, <1>3, <2>2
  <2> QED
    BY <1>1, <1>4, <2>3
<1>5. CASE j < i
  <2>1. i \in j + 1 .. N
    BY <1>1, <1>3, <1>5
  <2>2. b + l - 1 < a
    BY <1>1, <2>1, TileApart DEF Apart
  <2>3. ~ (a + k - 1 < b + l - 1) /\ ~ (i < j) /\ i # j
    BY <1>2, <1>3, <1>5, <2>2
  <2> QED
    BY <1>1, <2>3
<1>6. CASE i = j
  <2>1. a = b
    BY <1>1, <1>6
  <2>2. (a + k - 1 < b + l - 1) <=> k < l
    BY <1>2, <1>3, <2>1
  <2>3. ~ (i < j)
    BY <1>3, <1>6
  <2> QED
    BY <1>1, <1>6, <2>2, <2>3
<1> QED
  BY <1>3, <1>4, <1>5, <1>6

TextsOf(B) == [i \in DOMAIN B |-> B[i].text]

LEMMA TextsType ==
    ASSUME NEW K, NEW M, NEW B \in Seq(Parts(K, M))
    PROVE  /\ TextsOf(B) \in Seq(Seq(M)) /\ Len(TextsOf(B)) = Len(B) /\ Len(B) \in Nat
           /\ \A i \in 1 .. Len(B) : TextsOf(B)[i] = B[i].text /\ B[i] \in Parts(K, M)
                                     /\ B[i].text \in Seq(M)
<1>1. PICK T, n : T = Parts(K, M) /\ B \in Seq(T) /\ n = Len(B)
  OBVIOUS
<1>2. n \in Nat /\ DOMAIN B = 1 .. n /\ \A i \in 1 .. n : B[i] \in T
  BY <1>1
<1>3. \A i \in 1 .. n : B[i].text \in Seq(M)
  BY <1>1, <1>2 DEF Parts
<1>4. PICK f, S : f = [i \in 1 .. n |-> B[i].text] /\ S = Seq(M)
  OBVIOUS
<1>5. f \in [1 .. n -> S]
  BY <1>3, <1>4
<1>6. f \in Seq(S) /\ Len(f) = n
  BY <1>2, <1>5
<1>7. f = TextsOf(B)
  BY <1>2, <1>4 DEF TextsOf
<1> QED
  BY <1>1, <1>2, <1>3, <1>4, <1>6, <1>7

LEMMA BodyInOrder ==
    ASSUME NEW K, NEW M, M \subseteq Nat, NEW B \in Seq(Parts(K, M)), NEW m, Shaped(B, m),
           NEW body, body = FlattenSeq(TextsOf(B))
    PROVE  /\ \A i, j \in DOMAIN body : i < j => body[i] < body[j]
           /\ Range(body) = LinesOf(B)
<1>1. PICK ss : ss = TextsOf(B) /\ ss \in Seq(Seq(M)) /\ Len(ss) = Len(B)
                /\ \A i \in 1 .. Len(B) : ss[i] = B[i].text /\ ss[i] \in Seq(M)
  BY TextsType
<1>11. ss \in Seq(Seq(M))
  BY <1>1
<1>2. body \in Seq(M) /\ Range(body) = UNION {Range(ss[i]) : i \in 1 .. Len(ss)}
  <2>1. FlattenSeq(ss) \in Seq(M) /\ Range(FlattenSeq(ss)) = UNION {Range(ss[i]) : i \in 1 .. Len(ss)}
    BY <1>11, FlattenRange
  <2>2. body = FlattenSeq(ss)
    BY <1>1
  <2> QED
    BY <2>1, <2>2
<1>3. Range(body) = LinesOf(B)
  <2>1. DOMAIN B = 1 .. Len(B)
    OBVIOUS
  <2>2. \A x : x \in Range(B) <=> \E i \in 1 .. Len(B) : x = B[i]
    BY <2>1 DEF Range
  <2>3. \A i \in 1 .. Len(ss) : Range(ss[i]) = Range(B[i].text)
    BY <1>1
  <2>4. ASSUME NEW n \in LinesOf(B) PROVE n \in Range(body)
    <3>1. PICK x \in Range(B) : n \in Range(x.text)
      BY <2>4 DEF LinesOf
    <3>2. PICK i \in 1 .. Len(ss) : n \in Range(ss[i])
      BY <1>1, <2>2, <2>3, <3>1
    <3> QED
      BY <1>2, <3>2
  <2>5. ASSUME NEW n \in Range(body) PROVE n \in LinesOf(B)
    <3>1. PICK i \in 1 .. Len(ss) : n \in Range(ss[i])
      BY <1>2, <2>5
    <3>2. B[i] \in Range(B) /\ n \in Range(B[i].text)
      BY <1>1, <2>2, <2>3, <3>1
    <3> QED
      BY <3>2 DEF LinesOf
  <2> QED
    BY <2>4, <2>5
<1>4. PICK lo : Tiles(lo, ss, body) /\ lo[Len(ss) + 1] = Len(body) + 1
  <2>1. \E lo : Tiles(lo, ss, FlattenSeq(ss)) /\ lo[Len(ss) + 1] = Len(FlattenSeq(ss)) + 1
    BY <1>11, FlattenTiles
  <2>2. body = FlattenSeq(ss)
    BY <1>1
  <2> QED
    BY <2>1, <2>2
<1>41. Tiles(lo, ss, body)
  BY <1>4
<1>5. DOMAIN body = 1 .. Len(body) /\ Len(body) \in Nat
  BY <1>2
<1>6. ASSUME NEW i \in DOMAIN body, NEW j \in DOMAIN body, i < j PROVE body[i] < body[j]
  <2>0. i \in 1 .. lo[Len(ss) + 1] - 1 /\ j \in 1 .. lo[Len(ss) + 1] - 1
    BY <1>4, <1>5
  <2>1. PICK p \in 1 .. Len(ss) : \E k \in 1 .. Len(ss[p]) : i = lo[p] + k - 1
    <3>1. InTile(lo, ss, i)
      BY <1>11, <1>41, <2>0, TilesCover
    <3> QED
      BY <3>1 DEF InTile
  <2>2. PICK k \in 1 .. Len(ss[p]) : i = lo[p] + k - 1
    BY <2>1
  <2>3. PICK q \in 1 .. Len(ss) : \E l \in 1 .. Len(ss[q]) : j = lo[q] + l - 1
    <3>1. InTile(lo, ss, j)
      BY <1>11, <1>41, <2>0, TilesCover
    <3> QED
      BY <3>1 DEF InTile
  <2>4. PICK l \in 1 .. Len(ss[q]) : j = lo[q] + l - 1
    BY <2>3
  <2>5. p < q \/ (p = q /\ k < l)
    BY <1>11, <1>41, <1>6, <2>2, <2>4, TileOrder
  <2>6. body[i] = ss[p][k] /\ body[j] = ss[q][l]
    <3>1. Apart(lo, ss, body, p, k) /\ Apart(lo, ss, body, q, l)
      BY <1>11, <1>41, TileApart
    <3> QED
      BY <2>2, <2>4, <3>1 DEF Apart
  <2>7. ss[p] = B[p].text /\ ss[q] = B[q].text /\ p \in 1 .. Len(B) /\ q \in 1 .. Len(B)
    BY <1>1
  <2>8. CASE p < q
    <3>1. ss[p][k] \in Range(ss[p]) /\ ss[q][l] \in Range(ss[q])
      BY <1>1, <2>7 DEF Range
    <3> QED
      BY <2>6, <2>7, <2>8, <3>1 DEF Shaped
  <2>9. CASE p = q /\ k < l
    <3>1. Rising(ss[p])
      BY <2>7 DEF Shaped
    <3>2. k \in 1 .. Len(ss[p]) /\ l \in 1 .. Len(ss[p])
      BY <2>9
    <3> QED
      BY <2>6, <2>9, <3>1, <3>2 DEF Rising
  <2> QED
    BY <2>5, <2>8, <2>9
<1> QED
  BY <1>3, <1>6

HeadedBy(B, n) == Titles(Select(B, OpenAt(B, n)))

LinesHeaded(doc, mode, B) ==
    /\ LET body == FlattenSeq([i \in DOMAIN B |-> B[i].text]) IN
       /\ \A i, j \in DOMAIN body : i < j => body[i] < body[j]
       /\ TextLines(doc, mode) \subseteq Range(body)
    /\ \A b \in Range(B) : b.kind # "heading" => \A n \in Range(b.text) : b.headings = HeadedBy(B, n)

LEMMA BlocksHeaded ==
    ASSUME NEW K, NEW M, M \subseteq Nat, NEW doc, M = DOMAIN doc, NEW mode, NEW B,
           Blocked(K, M, doc, mode, B)
    PROVE  LinesHeaded(doc, mode, B)
<1>1. /\ B \in Seq(Parts(K, M)) /\ Shaped(B, Len(doc)) /\ \E path : Headed(B, path, Len(doc))
      /\ \A n \in M : IsText(doc[n], mode) => n \in LinesOf(B)
  BY DEF Blocked
<1>2. PICK body : body = FlattenSeq(TextsOf(B))
  OBVIOUS
<1>3. /\ \A i, j \in DOMAIN body : i < j => body[i] < body[j]
      /\ Range(body) = LinesOf(B)
  BY <1>1, <1>2, BodyInOrder
<1>4. TextLines(doc, mode) \subseteq Range(body)
  <2>1. \A n \in TextLines(doc, mode) : n \in M /\ IsText(doc[n], mode)
    BY DEF TextLines, IsText
  <2> QED
    BY <1>1, <1>3, <2>1
<1>5. ASSUME NEW b \in Range(B), b.kind # "heading", NEW n \in Range(b.text)
      PROVE  b.headings = HeadedBy(B, n)
  <2>1. PICK i \in 1 .. Len(B) : b = B[i]
    <3>1. DOMAIN B = 1 .. Len(B)
      BY <1>1
    <3> QED
      BY <3>1 DEF Range
  <2> QED
    BY <1>1, <1>5, <2>1 DEF Headed, HeadedBy
<1>6. body = FlattenSeq([i \in DOMAIN B |-> B[i].text])
  BY <1>2 DEF TextsOf
<1> QED
  BY <1>3, <1>4, <1>5, <1>6 DEF LinesHeaded

-----------------------------------------------------------------------------
(* Pieces *)

Cutter(M) == [done : Seq(Seq(M)), piece : Seq(M)]

\* Only neighbours have a line in common.
Stepwise(ps) ==
    \A i, j \in 1 .. Len(ps) : i < j =>
      \A x \in Range(ps[i]), y \in Range(ps[j]) : x <= y /\ (i + 1 < j => x < y)

Follows(ps, q) ==
    \A i \in 1 .. Len(ps) : \A x \in Range(ps[i]), y \in Range(q) : x <= y /\ (i < Len(ps) => x < y)

LEMMA StepwiseGrows ==
    ASSUME NEW M, NEW ps \in Seq(Seq(M)), NEW q \in Seq(M)
    PROVE  Stepwise(Append(ps, q)) <=> Stepwise(ps) /\ Follows(ps, q)
<1>1. PICK L, S, C : L = Len(ps) /\ S = Seq(M) /\ C = Append(ps, q)
  OBVIOUS
<1>2. /\ L \in Nat /\ Len(C) = L + 1 /\ C[L + 1] = q
      /\ \A i \in 1 .. L : C[i] = ps[i]
      /\ \A i \in 1 .. L + 1 : i \in 1 .. L \/ i = L + 1
  BY <1>1, Appended
<1>3. ASSUME Stepwise(C) PROVE Stepwise(ps) /\ Follows(ps, q)
  <2>1. ASSUME NEW i \in 1 .. L, NEW j \in 1 .. L, i < j,
               NEW x \in Range(ps[i]), NEW y \in Range(ps[j])
        PROVE  x <= y /\ (i + 1 < j => x < y)
    <3>1. i \in 1 .. L + 1 /\ j \in 1 .. L + 1 /\ C[i] = ps[i] /\ C[j] = ps[j]
      BY <1>2
    <3> QED
      BY <1>2, <1>3, <2>1, <3>1 DEF Stepwise
  <2>2. ASSUME NEW i \in 1 .. L, NEW x \in Range(ps[i]), NEW y \in Range(q)
        PROVE  x <= y /\ (i < L => x < y)
    <3>1. PICK j : j = L + 1
      OBVIOUS
    <3>2. i \in 1 .. L + 1 /\ j \in 1 .. L + 1 /\ C[i] = ps[i] /\ C[j] = q /\ i < j
      BY <1>2, <3>1
    <3>3. x <= y /\ (i + 1 < j => x < y)
      BY <1>2, <1>3, <2>2, <3>2 DEF Stepwise
    <3>4. i < L => i + 1 < j
      BY <1>2, <3>1
    <3> QED
      BY <3>3, <3>4
  <2> QED
    BY <1>1, <2>1, <2>2 DEF Stepwise, Follows
<1>4. ASSUME Stepwise(ps), Follows(ps, q) PROVE Stepwise(C)
  <2>1. ASSUME NEW i \in 1 .. L + 1, NEW j \in 1 .. L + 1, i < j,
               NEW x \in Range(C[i]), NEW y \in Range(C[j])
        PROVE  x <= y /\ (i + 1 < j => x < y)
    <3>1. i \in 1 .. L /\ C[i] = ps[i]
      BY <1>2, <2>1
    <3>2. CASE j \in 1 .. L
      <4>1. C[j] = ps[j]
        BY <1>2, <3>2
      <4> QED
        BY <1>1, <1>4, <2>1, <3>1, <3>2, <4>1 DEF Stepwise
    <3>3. CASE j = L + 1
      <4>1. C[j] = q /\ (i + 1 < j => i < L)
        BY <1>2, <3>1, <3>3
      <4> QED
        BY <1>1, <1>4, <2>1, <3>1, <4>1 DEF Follows
    <3> QED
      BY <1>2, <3>2, <3>3
  <2> QED
    BY <1>2, <2>1 DEF Stepwise
<1> QED
  BY <1>1, <1>3, <1>4

\* The last piece ends at top, the ones before it are below.
Split(acc, top) ==
    /\ acc.piece # << >> /\ Last(acc.piece) = top
    /\ \A i \in 1 .. Len(acc.done) : acc.done[i] # << >>
    /\ Stepwise(Append(acc.done, acc.piece))
    /\ \A x \in Range(acc.piece) : x <= top
    /\ \A i \in 1 .. Len(acc.done) : \A x \in Range(acc.done[i]) : x < top

Spread(ps) == UNION {Range(p) : p \in Range(ps)}
Taken(acc) == Spread(acc.done) \cup Range(acc.piece)

LEMMA CutTyped ==
    ASSUME NEW doc, NEW M, NEW acc \in Cutter(M), NEW n \in M
    PROVE  Cut(doc, acc, n) \in Cutter(M)
<1>1. PICK d, p, S : d = acc.done /\ p = acc.piece /\ S = Seq(M) /\ d \in Seq(S) /\ p \in S
  BY DEF Cutter
<1>2. CASE p # << >> /\ estimate_tokens(doc, Append(p, n)) > TargetTokens
  <2>1. PICK two : two = <<Last(p), n>>
    OBVIOUS
  <2>2. Cut(doc, acc, n) = [done |-> Append(d, p), piece |-> two]
    BY <1>1, <1>2, <2>1 DEF Cut
  <2>3. Last(p) \in M
    <3>1. p[Len(p)] \in M
      BY <1>1, <1>2, FirstIn
    <3> QED
      BY <3>1 DEF Last
  <2>4. two \in S
    BY <1>1, <2>1, <2>3
  <2>5. Append(d, p) \in Seq(S)
    BY <1>1, Appended
  <2> QED
    BY <1>1, <2>2, <2>4, <2>5 DEF Cutter
<1>3. CASE ~ (p # << >> /\ estimate_tokens(doc, Append(p, n)) > TargetTokens)
  <2>1. Cut(doc, acc, n) = [acc EXCEPT !.piece = Append(p, n)]
    BY <1>1, <1>3 DEF Cut
  <2>2. Append(p, n) \in S
    BY <1>1, Appended
  <2> QED
    BY <1>1, <2>1, <2>2 DEF Cutter
<1> QED
  BY <1>2, <1>3

LEMMA LastAppended ==
    ASSUME NEW T, NEW s \in Seq(T), NEW x \in T
    PROVE  Append(s, x) # << >> /\ Last(Append(s, x)) = x
<1>1. PICK u, L : u = Append(s, x) /\ L = Len(s)
  OBVIOUS
<1>2. Len(u) = L + 1 /\ L \in Nat /\ u[L + 1] = x
  BY <1>1, Appended
<1>3. u # << >>
  <2>1. PICK none : none = << >> /\ Len(none) = 0
    OBVIOUS
  <2> QED
    BY <1>2, <2>1
<1> QED
  BY <1>1, <1>2, <1>3 DEF Last

LEMMA TwoOf ==
    ASSUME NEW T, NEW a \in T, NEW b \in T
    PROVE  <<a, b>> \in Seq(T) /\ <<a, b>> # << >> /\ Last(<<a, b>>) = b /\ Range(<<a, b>>) = {a, b}
<1>1. PICK two : two = <<a, b>>
  OBVIOUS
<1>2. two \in Seq(T) /\ Len(two) = 2 /\ two[1] = a /\ two[2] = b /\ DOMAIN two = 1 .. 2
  BY <1>1
<1>3. \A i : i \in 1 .. 2 <=> i = 1 \/ i = 2
  OBVIOUS
<1>4. Range(two) = {a, b}
  BY <1>2, <1>3 DEF Range
<1>5. two # << >>
  <2>1. PICK none : none = << >> /\ Len(none) = 0
    OBVIOUS
  <2>2. Len(two) = 2
    BY <1>2
  <2>3. two # none
    BY <2>1, <2>2
  <2> QED
    BY <2>1, <2>3
<1>6. Last(two) = b
  BY <1>2 DEF Last
<1> QED
  BY <1>1, <1>2, <1>4, <1>5, <1>6

\* A line above all others is added.
Grown(M, acc, n, r) ==
    /\ r \in Cutter(M) /\ Split(r, n) /\ Taken(r) = Taken(acc) \cup {n}

LEMMA CutSplits ==
    ASSUME NEW doc, NEW M, M \subseteq Nat, NEW acc \in Cutter(M), NEW top \in M, Split(acc, top),
           NEW n \in M, top < n, NEW r, r = Cut(doc, acc, n)
    PROVE  Grown(M, acc, n, r)
<1>1. PICK d, p, S : d = acc.done /\ p = acc.piece /\ S = Seq(M) /\ d \in Seq(S) /\ p \in S
  BY DEF Cutter
<1>2. /\ p # << >> /\ Last(p) = top
      /\ \A i \in 1 .. Len(d) : d[i] # << >>
      /\ Stepwise(Append(d, p))
      /\ \A x \in Range(p) : x <= top
      /\ \A i \in 1 .. Len(d) : \A x \in Range(d[i]) : x < top
  BY <1>1 DEF Split
<1>3. Stepwise(d) /\ Follows(d, p)
  BY <1>1, <1>2, StepwiseGrows
<1>4. r \in Cutter(M)
  BY CutTyped
<1>5. PICK L : L = Len(d) /\ L \in Nat
  BY <1>1
<1>6. /\ \A x \in Range(p) : x \in Nat /\ x < n /\ x <= n
      /\ \A i \in 1 .. L : \A x \in Range(d[i]) : x \in Nat /\ x < n /\ x <= n /\ x < top
  <2>1. \A x \in Range(p) : x \in M
    BY <1>1, RangeIn
  <2>2. ASSUME NEW i \in 1 .. L PROVE \A x \in Range(d[i]) : x \in M
    <3>1. d[i] \in Seq(M)
      BY <1>1, <1>5
    <3> QED
      BY <3>1, RangeIn
  <2>3. top \in Nat /\ n \in Nat
    OBVIOUS
  <2>4. \A x \in Range(p) : x \in Nat /\ x <= top
    BY <1>2, <2>1
  <2>5. \A i \in 1 .. L : \A x \in Range(d[i]) : x \in Nat /\ x < top
    BY <1>2, <1>5, <2>2
  <2> QED
    BY <2>3, <2>4, <2>5
<1>7. CASE estimate_tokens(doc, Append(p, n)) > TargetTokens
  <2>1. PICK two, e : two = <<top, n>> /\ e = Append(d, p)
    OBVIOUS
  <2>2. r = [done |-> e, piece |-> two]
    BY <1>1, <1>2, <1>7, <2>1 DEF Cut
  <2>3. two \in Seq(M) /\ two # << >> /\ Last(two) = n /\ Range(two) = {top, n}
    BY <2>1, TwoOf
  <2>4. /\ e \in Seq(S) /\ Len(e) = L + 1 /\ e[L + 1] = p
        /\ \A i \in 1 .. L : e[i] = d[i]
        /\ \A i \in 1 .. L + 1 : i \in 1 .. L \/ i = L + 1
    BY <1>1, <1>5, <2>1, Appended
  <2>5. \A i \in 1 .. L + 1 : e[i] # << >> /\ \A x \in Range(e[i]) : x < n
    <3>1. ASSUME NEW i \in 1 .. L + 1 PROVE e[i] # << >> /\ \A x \in Range(e[i]) : x < n
      <4>1. CASE i \in 1 .. L
        BY <1>2, <1>5, <1>6, <2>4, <4>1
      <4>2. CASE i = L + 1
        BY <1>2, <1>6, <2>4, <4>2
      <4> QED
        BY <2>4, <4>1, <4>2
    <3> QED
      BY <3>1
  <2>6. Follows(e, two)
    <3>1. ASSUME NEW i \in 1 .. L + 1, NEW x \in Range(e[i]), NEW y \in Range(two)
          PROVE  x <= y /\ (i < L + 1 => x < y)
      <4>1. CASE i \in 1 .. L
        <5>1. x \in Nat /\ x < n /\ x < top
          BY <1>6, <2>4, <3>1, <4>1
        <5>2. top \in Nat /\ n \in Nat
          OBVIOUS
        <5>3. x <= n /\ x <= top
          BY <5>1, <5>2
        <5>4. y = top \/ y = n
          BY <2>3, <3>1
        <5> QED
          BY <5>1, <5>3, <5>4
      <4>2. CASE i = L + 1
        <5>1. x \in Range(p)
          BY <2>4, <3>1, <4>2
        <5>2. x <= top /\ x <= n
          BY <1>2, <1>6, <5>1
        <5>3. ~ (i < L + 1)
          BY <1>5, <4>2
        <5>4. y = top \/ y = n
          BY <2>3, <3>1
        <5> QED
          BY <5>2, <5>3, <5>4
      <4> QED
        BY <2>4, <4>1, <4>2
    <3> QED
      BY <2>4, <3>1 DEF Follows
  <2>7. Stepwise(Append(e, two))
    <3>1. Stepwise(e)
      BY <1>2, <2>1
    <3> QED
      BY <1>1, <2>3, <2>4, <2>6, <3>1, StepwiseGrows
  <2>8. \A x \in Range(two) : x <= n
    BY <2>3
  <2>9. r.done = e /\ r.piece = two
    BY <2>2
  <2>10. Split(r, n)
    BY <2>3, <2>4, <2>5, <2>7, <2>8, <2>9 DEF Split
  <2>11. Taken(r) = Taken(acc) \cup {n}
    <3>1. Range(e) = Range(d) \cup {p}
      BY <1>1, <2>1, AppendRange
    <3>2. top \in Range(p)
      <4>1. p[Len(p)] \in Range(p)
        BY <1>1, <1>2, FirstIn
      <4> QED
        BY <1>2, <4>1 DEF Last
    <3>3. Spread(e) = Spread(d) \cup Range(p)
      BY <3>1 DEF Spread
    <3>4. Taken(r) = Spread(e) \cup {top, n} /\ Taken(acc) = Spread(d) \cup Range(p)
      BY <1>1, <2>3, <2>9 DEF Taken
    <3> QED
      BY <3>2, <3>3, <3>4
  <2> QED
    BY <1>4, <2>10, <2>11 DEF Grown
<1>8. CASE ~ (estimate_tokens(doc, Append(p, n)) > TargetTokens)
  <2>1. PICK q : q = Append(p, n)
    OBVIOUS
  <2>2. r = [acc EXCEPT !.piece = q]
    BY <1>1, <1>8, <2>1 DEF Cut
  <2>3. r.done = d /\ r.piece = q
    BY <1>1, <2>2 DEF Cutter
  <2>4. q \in Seq(M) /\ Range(q) = Range(p) \cup {n} /\ q # << >> /\ Last(q) = n
    BY <1>1, <2>1, AppendRange, LastAppended
  <2>5. Follows(d, q)
    <3>1. ASSUME NEW i \in 1 .. L, NEW x \in Range(d[i]), NEW y \in Range(q)
          PROVE  x <= y /\ (i < L => x < y)
      <4>1. CASE y \in Range(p)
        BY <1>3, <1>5, <3>1, <4>1 DEF Follows
      <4>2. CASE y = n
        BY <1>6, <3>1, <4>2
      <4> QED
        BY <2>4, <4>1, <4>2
    <3> QED
      BY <1>5, <3>1 DEF Follows
  <2>6. Stepwise(Append(d, q))
    BY <1>1, <1>3, <2>4, <2>5, StepwiseGrows
  <2>7. \A x \in Range(q) : x <= n
    BY <1>6, <2>4
  <2>8. \A i \in 1 .. L : \A x \in Range(d[i]) : x < n
    BY <1>6
  <2>9. Split(r, n)
    BY <1>2, <1>5, <2>3, <2>4, <2>6, <2>7, <2>8 DEF Split
  <2>10. Taken(r) = Taken(acc) \cup {n}
    BY <1>1, <2>3, <2>4 DEF Taken
  <2> QED
    BY <1>4, <2>9, <2>10 DEF Grown
<1> QED
  BY <1>7, <1>8

AllCut(doc, s) == FoldLeft(LAMBDA acc, n : Cut(doc, acc, n), Uncut, s)

Cutting(g, doc, s) ==
    /\ g[0] = Uncut /\ AllCut(doc, s) = g[Len(s)]
    /\ \A n \in 1 .. Len(s) : g[n] = Cut(doc, g[n - 1], s[n])

LEMMA UncutTyped == ASSUME NEW M PROVE Uncut \in Cutter(M)
<1>1. PICK none : none = << >>
  OBVIOUS
<1>2. Uncut = [done |-> none, piece |-> none] /\ none \in Seq(Seq(M)) /\ none \in Seq(M)
  BY <1>1 DEF Uncut
<1> QED
  BY <1>2 DEF Cutter

\* The lines of a paragraph, one by one.
LEMMA CutSteps ==
    ASSUME NEW doc, NEW M, NEW s \in Seq(M)
    PROVE  \E g : Cutting(g, doc, s)
<1> DEFINE N == Len(s)
           F == [p \in (1 .. N) \X Cutter(M) |-> Cut(doc, p[2], s[p[1]])]
           Eq(iter) == iter = [e \in SUBSET (1 .. N) |->
              IF e = {} THEN Uncut ELSE Cut(doc, iter[e \ {Max(e)}], s[Max(e)])]
<1>0. N \in Nat /\ DOMAIN s = 1 .. N /\ \A n \in 1 .. N : s[n] \in M
  OBVIOUS
<1>1. F \in [(1 .. N) \X Cutter(M) -> Cutter(M)] /\ Uncut \in Cutter(M)
  BY <1>0, CutTyped, UncutTyped
<1>2. PICK it : Folds(it, N, Cutter(M), Uncut, F)
  <2> HIDE DEF F, N
  <2> QED
    BY <1>0, <1>1, SubsetRecursion
<1>3. ASSUME NEW e \in SUBSET (1 .. N), e # {}
      PROVE  it[e] = Cut(doc, it[e \ {Max(e)}], s[Max(e)])
  <2>1. Max(e) \in 1 .. N /\ it[e \ {Max(e)}] \in Cutter(M)
    BY <1>0, <1>2, <1>3, MaxIn DEF Folds
  <2> QED
    BY <1>2, <1>3, <2>1 DEF Folds
<1>4. Eq(it)
  BY <1>2, <1>3 DEF Folds
<1> DEFINE c == CHOOSE iter : Eq(iter)
<1>5. Eq(c)
  <2> HIDE DEF Eq
  <2> QED
    BY <1>4
<1>6. AllCut(doc, s) = c[1 .. N]
  BY <1>0 DEF AllCut, FoldLeft, MapThenFoldSet
<1> HIDE DEF c
<1>7. c[{}] = Uncut
  BY <1>5
<1>8. ASSUME NEW n \in 1 .. N
      PROVE  c[1 .. n] = Cut(doc, c[1 .. (n - 1)], s[n])
  <2>1. /\ Max(1 .. n) = n /\ (1 .. n) \ {n} = 1 .. (n - 1)
        /\ 1 .. n \in SUBSET (1 .. N) /\ 1 .. n # {}
    BY <1>0, MaxPrefix
  <2> QED
    BY <1>5, <2>1
<1> DEFINE g == [n \in 0 .. N |-> c[1 .. n]]
<1>9. g[0] = Uncut /\ g[N] = c[1 .. N]
  BY <1>0, <1>7
<1>10. ASSUME NEW n \in 1 .. N PROVE g[n - 1] = c[1 .. (n - 1)] /\ g[n] = c[1 .. n]
  BY <1>0
<1> HIDE DEF g
<1>11. \A n \in 1 .. N : g[n] = Cut(doc, g[n - 1], s[n])
  BY <1>8, <1>10
<1> QED
  BY <1>6, <1>9, <1>11 DEF Cutting


\* The pieces of a paragraph: all its lines, and only neighbours share one.
Pieced(M, ps, text) ==
    /\ ps \in Seq(Seq(M)) /\ ps # << >>
    /\ \A i \in 1 .. Len(ps) : ps[i] # << >>
    /\ Spread(ps) = Range(text) /\ Stepwise(ps)

LEMMA PiecesSplit ==
    ASSUME NEW doc, NEW M, M \subseteq Nat, NEW text \in Seq(M), text # << >>, Rising(text)
    PROVE  Pieced(M, Pieces(doc, text), text)
<1>0. PICK N : N = Len(text) /\ N \in Nat /\ 1 \in 1 .. N /\ \A n \in 1 .. N : text[n] \in M
  BY FirstIn
<1>1. PICK g : /\ g[0] = Uncut /\ AllCut(doc, text) = g[N]
               /\ \A n \in 1 .. N : g[n] = Cut(doc, g[n - 1], text[n])
  <2>1. PICK g : Cutting(g, doc, text)
    BY CutSteps
  <2> QED
    BY <1>0, <2>1 DEF Cutting
<1> DEFINE Before(n) == {text[i] : i \in 1 .. n}
           P == {n \in 0 .. N : n # 0 => /\ g[n] \in Cutter(M) /\ Split(g[n], text[n])
                                         /\ Taken(g[n]) = Before(n)}
<1>2. 0 \in P
  BY <1>0
<1>3. ASSUME NEW n \in 1 .. N, n - 1 \in P PROVE n \in P
  <2>1. PICK old, new, e : old = g[n - 1] /\ new = g[n] /\ e = text[n] /\ new = Cut(doc, old, e)
    BY <1>1
  <2>2. e \in M /\ n \in 0 .. N /\ n # 0
    BY <1>0, <2>1
  <2>3. CASE n = 1
    <3>1. old = Uncut
      BY <1>1, <2>1, <2>3
    <3>2. PICK none, one : none = << >> /\ one = <<e>>
      OBVIOUS
    <3>3. Append(none, e) = one
      BY <3>2
    <3>4. new = [done |-> none, piece |-> one]
      BY <2>1, <3>1, <3>2, <3>3 DEF Cut, Uncut
    <3>5. one \in Seq(M) /\ none \in Seq(M) /\ none \in Seq(Seq(M)) /\ Len(none) = 0 /\ 1 .. 0 = {}
      BY <2>2, <3>2
    <3>6. one # << >> /\ Last(one) = e /\ Range(one) = {e}
      <4>1. one # << >> /\ Last(one) = e
        BY <2>2, <3>3, <3>5, LastAppended
      <4>2. Range(none) = {}
        BY <3>2 DEF Range
      <4>3. Range(Append(none, e)) = Range(none) \cup {e}
        <5>1. none \in Seq(M) /\ e \in M
          BY <2>2, <3>5
        <5> QED
          BY <5>1, AppendRange
      <4>4. Range(Append(none, e)) = Range(one)
        BY <3>3
      <4>5. Range(one) = {e}
        BY <4>2, <4>3, <4>4
      <4> QED
        BY <4>1, <4>5
    <3>7. Stepwise(Append(none, one))
      <4>1. Stepwise(none) /\ Follows(none, one)
        BY <3>5 DEF Stepwise, Follows
      <4> QED
        BY <3>5, <4>1, StepwiseGrows
    <3>8. new \in Cutter(M) /\ new.done = none /\ new.piece = one
      BY <3>4, <3>5 DEF Cutter
    <3>9. \A x \in Range(one) : x <= e
      BY <2>2, <3>6
    <3>10. Split(new, e)
      BY <3>5, <3>6, <3>7, <3>8, <3>9 DEF Split
    <3>11. Taken(new) = {e}
      <4>1. Range(none) = {}
        BY <3>2 DEF Range
      <4> QED
        BY <3>6, <3>8, <4>1 DEF Taken, Spread
    <3>12. Before(1) = {e}
      BY <2>1, <2>3
    <3> QED
      BY <2>1, <2>2, <2>3, <3>8, <3>10, <3>11, <3>12
  <2>4. CASE n # 1
    <3>0. n - 1 # 0 /\ n - 1 \in 1 .. N /\ n - 1 < n
      BY <1>0, <2>4
    <3>1. PICK top : top = text[n - 1] /\ top \in M
      BY <1>0, <3>0
    <3>2. old \in Cutter(M) /\ Split(old, top) /\ Taken(old) = Before(n - 1)
      <4> HIDE DEF Before
      <4> QED
        BY <1>3, <2>1, <3>0, <3>1
    <3>3. top < e
      BY <1>0, <2>1, <3>0, <3>1 DEF Rising
    <3>4. Grown(M, old, e, new)
      BY <2>1, <2>2, <3>1, <3>2, <3>3, CutSplits
    <3>5. Before(n) = Before(n - 1) \cup {e}
      <4>1. 1 .. n = 1 .. (n - 1) \cup {n}
        BY <1>0
      <4> QED
        BY <2>1, <4>1
    <3>6. new \in Cutter(M) /\ Split(new, e) /\ Taken(new) = Taken(old) \cup {e}
      BY <3>4 DEF Grown
    <3> HIDE DEF Before
    <3> QED
      BY <2>1, <2>2, <3>2, <3>5, <3>6
  <2> QED
    BY <2>3, <2>4
<1>4. N \in P
  <2> HIDE DEF P
  <2>1. \A n \in 1 .. N : n - 1 \in P => n \in P
    BY <1>3
  <2>2. 0 .. N \subseteq P
    BY <1>0, <1>2, <2>1, AlongPrefixes
  <2> QED
    BY <1>0, <2>2
<1>5. PICK f, top : f = g[N] /\ top = text[N] /\ f \in Cutter(M) /\ Split(f, top)
                    /\ Taken(f) = Before(N)
  <2>1. N # 0
    BY <1>0
  <2> HIDE DEF Before
  <2> QED
    BY <1>4, <2>1
<1>6. Before(N) = Range(text)
  BY <1>0 DEF Range
<1>7. PICK d, p, S : d = f.done /\ p = f.piece /\ S = Seq(M) /\ d \in Seq(S) /\ p \in S
  BY <1>5 DEF Cutter
<1>8. PICK ps, L : ps = Append(d, p) /\ L = Len(d)
  OBVIOUS
<1>9. Pieces(doc, text) = ps
  <2>1. Pieces(doc, text) = Append(AllCut(doc, text).done, AllCut(doc, text).piece)
    BY DEF Pieces, AllCut
  <2> QED
    BY <1>1, <1>5, <1>7, <1>8, <2>1
<1>10. /\ ps \in Seq(S) /\ Len(ps) = L + 1 /\ ps[L + 1] = p /\ L \in Nat
       /\ \A i \in 1 .. L : ps[i] = d[i]
       /\ \A i \in 1 .. L + 1 : i \in 1 .. L \/ i = L + 1
  BY <1>7, <1>8, Appended
<1>11. ps # << >>
  BY <1>7, <1>8, LastAppended
<1>12. ASSUME NEW i \in 1 .. Len(ps) PROVE ps[i] # << >>
  <2>1. CASE i \in 1 .. L
    BY <1>5, <1>7, <1>8, <1>10, <2>1 DEF Split
  <2>2. CASE i = L + 1
    BY <1>5, <1>7, <1>10, <2>2 DEF Split
  <2> QED
    BY <1>10, <2>1, <2>2
<1>13. Stepwise(ps)
  BY <1>5, <1>7, <1>8 DEF Split
<1>14. Spread(ps) = Range(text)
  <2>1. Range(ps) = Range(d) \cup {p}
    BY <1>7, <1>8, AppendRange
  <2>2. Spread(ps) = Spread(d) \cup Range(p)
    BY <2>1 DEF Spread
  <2> QED
    BY <1>5, <1>6, <1>7, <2>2 DEF Taken
<1> QED
  BY <1>7, <1>9, <1>10, <1>11, <1>12, <1>13, <1>14 DEF Pieced

-----------------------------------------------------------------------------
(* Groups *)

Packer(U) == [groups : Seq(Seq(U)), current : Seq(U)]

\* The sequences of gs, one after the other, are what is in s before place e.
EndsAt(gs, s, e) == \E lo : Tiles(lo, gs, s) /\ lo[Len(gs) + 1] = e
From(e, t, s) == \A k \in 1 .. Len(t) : t[k] = s[e + k - 1]

LEMMA EndsNone == ASSUME NEW s PROVE EndsAt(<< >>, s, 1)
<1>1. PICK none : none = << >> /\ Len(none) = 0
  OBVIOUS
<1>2. PICK lo : lo = [i \in 1 .. 0 + 1 |-> 1]
  OBVIOUS
<1>3. 1 .. 0 = {} /\ 1 \in 1 .. 0 + 1 /\ 0 + 1 = 1
  OBVIOUS
<1>4. lo \in [1 .. Len(none) + 1 -> Nat] /\ lo[1] = 1 /\ lo[0 + 1] = 1
  BY <1>1, <1>2, <1>3
<1>5. Tiles(lo, none, s) /\ lo[Len(none) + 1] = 1
  BY <1>1, <1>3, <1>4 DEF Tiles
<1> QED
  BY <1>1, <1>5 DEF EndsAt

LEMMA EndsAppend ==
    ASSUME NEW T, NEW gs \in Seq(Seq(T)), NEW s, NEW e, EndsAt(gs, s, e), NEW t \in Seq(T),
           From(e, t, s)
    PROVE  e \in Nat /\ EndsAt(Append(gs, t), s, e + Len(t))
<1>1. PICK lo : Tiles(lo, gs, s) /\ lo[Len(gs) + 1] = e
  BY DEF EndsAt
<1>2. PICK N, S, C, L : N = Len(gs) /\ S = Seq(T) /\ C = Append(gs, t) /\ L = Len(t)
  OBVIOUS
<1>3. /\ N \in Nat /\ Len(C) = N + 1 /\ C[N + 1] = t /\ L \in Nat
      /\ \A i \in 1 .. N : C[i] = gs[i]
      /\ \A i \in 1 .. N + 1 : i \in 1 .. N \/ i = N + 1
  BY <1>2, Appended
<1>4. /\ lo \in [1 .. N + 1 -> Nat] /\ lo[1] = 1 /\ lo[N + 1] = e /\ N + 1 \in 1 .. N + 1
      /\ \A i \in 1 .. N : /\ lo[i + 1] = lo[i] + Len(gs[i])
                           /\ \A k \in 1 .. Len(gs[i]) : gs[i][k] = s[lo[i] + k - 1]
  BY <1>1, <1>2, <1>3 DEF Tiles
<1>5. e \in Nat
  BY <1>4
<1>6. PICK to : to = [i \in 1 .. N + 1 + 1 |-> IF i = N + 1 + 1 THEN e + L ELSE lo[i]]
  OBVIOUS
<1>7. \A i \in 1 .. N + 1 : i \in 1 .. N + 1 + 1 /\ i # N + 1 + 1 /\ to[i] = lo[i] /\ lo[i] \in Nat
  <2>1. \A i \in 1 .. N + 1 : i \in 1 .. N + 1 + 1 /\ i # N + 1 + 1
    BY <1>3
  <2> QED
    BY <1>4, <1>6, <2>1
<1>8. N + 1 + 1 \in 1 .. N + 1 + 1 /\ to[N + 1 + 1] = e + L /\ e + L \in Nat
  BY <1>3, <1>5, <1>6
<1>9. to \in [1 .. N + 1 + 1 -> Nat]
  <2>1. ASSUME NEW i \in 1 .. N + 1 + 1 PROVE to[i] \in Nat
    <3>1. i \in 1 .. N + 1 \/ i = N + 1 + 1
      BY <1>3
    <3> QED
      BY <1>7, <1>8, <3>1
  <2>2. to = [i \in 1 .. N + 1 + 1 |-> to[i]]
    BY <1>6
  <2> QED
    BY <2>1, <2>2
<1>10. to[1] = 1
  <2>1. 1 \in 1 .. N + 1
    BY <1>3
  <2> QED
    BY <1>4, <1>7, <2>1
<1>11. ASSUME NEW i \in 1 .. N + 1
       PROVE  /\ to[i + 1] = to[i] + Len(C[i])
              /\ \A k \in 1 .. Len(C[i]) : C[i][k] = s[to[i] + k - 1]
  <2>1. CASE i \in 1 .. N
    <3>1. i \in 1 .. N + 1 /\ i + 1 \in 1 .. N + 1
      BY <1>3, <2>1
    <3>2. to[i] = lo[i] /\ to[i + 1] = lo[i + 1] /\ C[i] = gs[i]
      BY <1>3, <1>7, <2>1, <3>1
    <3> QED
      BY <1>4, <2>1, <3>2
  <2>2. CASE i = N + 1
    <3>1. to[i] = e /\ C[i] = t
      BY <1>3, <1>4, <1>7, <2>2
    <3>2. to[i + 1] = e + L
      BY <1>8, <2>2
    <3>3. \A k \in 1 .. Len(t) : t[k] = s[e + k - 1]
      BY DEF From
    <3> QED
      BY <1>2, <3>1, <3>2, <3>3
  <2> QED
    BY <1>3, <2>1, <2>2
<1>12. Tiles(to, C, s)
  BY <1>3, <1>9, <1>10, <1>11 DEF Tiles
<1>13. to[Len(C) + 1] = e + L
  BY <1>3, <1>8
<1> QED
  BY <1>2, <1>5, <1>12, <1>13 DEF EndsAt

OneSection(g) == \A a, b \in 1 .. Len(g) : g[a].headings = g[b].headings

\* A group is of one section, and of one unit if it is too large.
Fair(doc, limit, g) ==
    /\ g # << >> /\ OneSection(g)
    /\ Len(g) # 1 => ~ (estimate_tokens(doc, TextOf(g)) > limit)

\* What is packed after m units.
Packing(doc, limit, acc, s, m) ==
    \E e : /\ EndsAt(acc.groups, s, e) /\ e + Len(acc.current) = m + 1
           /\ From(e, acc.current, s)
           /\ \A i \in 1 .. Len(acc.groups) : Fair(doc, limit, acc.groups[i])
           /\ acc.current # << >> => Fair(doc, limit, acc.current)

LEMMA PackTyped ==
    ASSUME NEW doc, NEW limit, NEW U, NEW acc \in Packer(U), NEW u \in U
    PROVE  Pack(doc, limit, acc, u) \in Packer(U)
<1>1. PICK d, p, S : d = acc.groups /\ p = acc.current /\ S = Seq(U) /\ d \in Seq(S) /\ p \in S
  BY DEF Packer
<1>2. PICK one, e, q : one = <<u>> /\ e = Append(d, p) /\ q = Append(p, u)
  OBVIOUS
<1>3. one \in S /\ e \in Seq(S) /\ q \in S
  <2>1. one \in S
    BY <1>1, <1>2
  <2> QED
    BY <1>1, <1>2, <2>1, Appended
<1>4. PICK W : W <=> p # << >> /\ (\/ Last(p).headings # u.headings
                                   \/ estimate_tokens(doc, TextOf(q)) > limit)
  OBVIOUS
<1>5. CASE W
  <2>1. Pack(doc, limit, acc, u) = [groups |-> e, current |-> one]
    BY <1>1, <1>2, <1>4, <1>5 DEF Pack
  <2> QED
    BY <1>1, <1>3, <2>1 DEF Packer
<1>6. CASE ~ W
  <2>1. Pack(doc, limit, acc, u) = [acc EXCEPT !.current = q]
    BY <1>1, <1>2, <1>4, <1>6 DEF Pack
  <2> QED
    BY <1>1, <1>3, <2>1 DEF Packer
<1> QED
  BY <1>5, <1>6

LEMMA OneUnit ==
    ASSUME NEW doc, NEW limit, NEW U, NEW u \in U, NEW one, one = <<u>>
    PROVE  /\ one \in Seq(U) /\ Len(one) = 1 /\ one[1] = u /\ Fair(doc, limit, one)
           /\ \A i \in 1 .. Len(one) : i = 1
<1>1. one \in Seq(U) /\ Len(one) = 1 /\ one[1] = u
  OBVIOUS
<1>2. one # << >>
  <2>1. PICK none : none = << >> /\ Len(none) = 0
    OBVIOUS
  <2>2. one # none
    BY <1>1, <2>1
  <2> QED
    BY <2>1, <2>2
<1>3. \A i \in 1 .. Len(one) : i = 1
  BY <1>1
<1>4. OneSection(one)
  BY <1>3 DEF OneSection
<1> QED
  BY <1>1, <1>2, <1>3, <1>4 DEF Fair

LEMMA PackKeeps ==
    ASSUME NEW doc, NEW limit, NEW U, NEW acc \in Packer(U), NEW s \in Seq(U), NEW n \in 1 .. Len(s),
           NEW m, n = m + 1, m \in Nat, Packing(doc, limit, acc, s, m),
           NEW u, u = s[n], NEW r, r = Pack(doc, limit, acc, u)
    PROVE  r \in Packer(U) /\ Packing(doc, limit, r, s, n)
<1>1. PICK d, p, S : d = acc.groups /\ p = acc.current /\ S = Seq(U) /\ d \in Seq(S) /\ p \in S
  BY DEF Packer
<1>2. PICK e : /\ EndsAt(d, s, e) /\ e + Len(p) = m + 1 /\ From(e, p, s)
               /\ \A i \in 1 .. Len(d) : Fair(doc, limit, d[i])
               /\ p # << >> => Fair(doc, limit, p)
  BY <1>1 DEF Packing
<1>3. u \in U /\ r \in Packer(U)
  <2>1. u \in U
    OBVIOUS
  <2> QED
    BY <2>1, PackTyped
<1>40. PICK L : L = Len(p)
  OBVIOUS
<1>41. p \in Seq(U)
  BY <1>1
<1>4. L = Len(p) /\ L \in Nat
  BY <1>40, <1>41
<1>5. e \in Nat /\ EndsAt(Append(d, p), s, e + L)
  BY <1>1, <1>2, <1>4, EndsAppend
<1>6. PICK one, q, f : one = <<u>> /\ q = Append(p, u) /\ f = e + L
  OBVIOUS
<1>7. f = n /\ f \in Nat /\ f + 1 = n + 1
  BY <1>2, <1>4, <1>5, <1>6
<1>8. /\ one \in Seq(U) /\ Len(one) = 1 /\ one[1] = u /\ Fair(doc, limit, one)
      /\ \A i \in 1 .. Len(one) : i = 1
  BY <1>3, <1>6, OneUnit
<1>9. PICK W : W <=> p # << >> /\ (\/ Last(p).headings # u.headings
                                   \/ estimate_tokens(doc, TextOf(q)) > limit)
  OBVIOUS
<1>10. CASE W
  <2>1. PICK c : c = Append(d, p)
    OBVIOUS
  <2>2. r = [groups |-> c, current |-> one]
    BY <1>1, <1>6, <1>9, <1>10, <2>1 DEF Pack
  <2>3. EndsAt(c, s, f)
    BY <1>5, <1>6, <2>1
  <2>4. f + Len(one) = n + 1
    BY <1>7, <1>8
  <2>5. From(f, one, s)
    <3>1. ASSUME NEW k \in 1 .. Len(one) PROVE one[k] = s[f + k - 1]
      <4>1. k = 1 /\ f + k - 1 = n
        BY <1>7, <1>8
      <4> QED
        BY <1>8, <4>1
    <3> QED
      BY <3>1 DEF From
  <2>6. \A i \in 1 .. Len(c) : Fair(doc, limit, c[i])
    <3>1. PICK D : D = Len(d)
      OBVIOUS
    <3>2. /\ Len(c) = D + 1 /\ c[D + 1] = p /\ D \in Nat
          /\ \A i \in 1 .. D : c[i] = d[i]
          /\ \A i \in 1 .. D + 1 : i \in 1 .. D \/ i = D + 1
      BY <1>1, <2>1, <3>1, Appended
    <3>3. Fair(doc, limit, p)
      BY <1>2, <1>9, <1>10
    <3>4. ASSUME NEW i \in 1 .. D + 1 PROVE Fair(doc, limit, c[i])
      BY <1>2, <3>1, <3>2, <3>3
    <3> QED
      BY <3>2, <3>4
  <2>7. r.groups = c /\ r.current = one
    BY <2>2
  <2> QED
    BY <1>3, <1>8, <2>3, <2>4, <2>5, <2>6, <2>7 DEF Packing
<1>11. CASE ~ W
  <2>1. r = [acc EXCEPT !.current = q]
    BY <1>1, <1>6, <1>9, <1>11 DEF Pack
  <2>2. r.groups = d /\ r.current = q
    BY <1>1, <2>1 DEF Packer
  <2>3. /\ q \in Seq(U) /\ Len(q) = L + 1 /\ q[L + 1] = u
        /\ \A i \in 1 .. L : q[i] = p[i]
        /\ \A i \in 1 .. L + 1 : i \in 1 .. L \/ i = L + 1
    BY <1>1, <1>3, <1>4, <1>6, Appended
  <2>4. e + Len(q) = n + 1
    BY <1>4, <1>5, <1>6, <1>7, <2>3
  <2>5. From(e, q, s)
    <3>1. ASSUME NEW k \in 1 .. L + 1 PROVE q[k] = s[e + k - 1]
      <4>1. CASE k \in 1 .. L
        BY <1>2, <1>4, <2>3, <4>1 DEF From
      <4>2. CASE k = L + 1
        <5>1. e + k - 1 = n
          BY <1>4, <1>5, <1>6, <1>7, <4>2
        <5> QED
          BY <2>3, <4>2, <5>1
      <4> QED
        BY <2>3, <4>1, <4>2
    <3> QED
      BY <2>3, <3>1 DEF From
  <2>6. Fair(doc, limit, q)
    <3>1. CASE p = << >>
      <4>1. q = one
        BY <1>6, <3>1
      <4> QED
        BY <1>8, <4>1
    <3>2. CASE p # << >>
      <4>1. Last(p).headings = u.headings /\ ~ (estimate_tokens(doc, TextOf(q)) > limit)
        BY <1>9, <1>11, <3>2
      <4>2. Fair(doc, limit, p) /\ L \in 1 .. L /\ Last(p) = p[L]
        <5>1. L \in 1 .. L
          <6>1. L # 0
            BY <1>1, <1>4, <3>2
          <6> QED
            BY <1>4, <6>1
        <5> QED
          BY <1>2, <1>4, <3>2, <5>1 DEF Last
      <4>3. ASSUME NEW a \in 1 .. L + 1 PROVE q[a].headings = u.headings
        <5>1. CASE a \in 1 .. L
          BY <1>4, <2>3, <4>1, <4>2, <5>1 DEF Fair, OneSection
        <5>2. CASE a = L + 1
          BY <2>3, <5>2
        <5> QED
          BY <2>3, <5>1, <5>2
      <4>4. OneSection(q)
        BY <2>3, <4>3 DEF OneSection
      <4>5. q # << >>
        BY <1>1, <1>3, <1>6, LastAppended
      <4> QED
        BY <4>1, <4>4, <4>5 DEF Fair
    <3> QED
      BY <3>1, <3>2
  <2> QED
    BY <1>2, <1>3, <2>2, <2>4, <2>5, <2>6 DEF Packing
<1> QED
  BY <1>10, <1>11

AllPacked(doc, limit, s) == FoldLeft(LAMBDA acc, u : Pack(doc, limit, acc, u), Unpacked, s)

PackingUp(g, doc, limit, s) ==
    /\ g[0] = Unpacked /\ AllPacked(doc, limit, s) = g[Len(s)]
    /\ \A n \in 1 .. Len(s) : g[n] = Pack(doc, limit, g[n - 1], s[n])

LEMMA UnpackedTyped ==
    ASSUME NEW U, NEW doc, NEW limit, NEW s
    PROVE  Unpacked \in Packer(U) /\ Packing(doc, limit, Unpacked, s, 0)
<1>1. PICK none : none = << >>
  OBVIOUS
<1>2. /\ Unpacked = [groups |-> none, current |-> none] /\ none \in Seq(Seq(U)) /\ none \in Seq(U)
      /\ Len(none) = 0 /\ 1 .. 0 = {}
  BY <1>1 DEF Unpacked
<1>3. EndsAt(none, s, 1) /\ From(1, none, s)
  BY <1>1, <1>2, EndsNone DEF From
<1>4. Unpacked \in Packer(U) /\ Unpacked.groups = none /\ Unpacked.current = none
  BY <1>2 DEF Packer
<1>5. 1 + Len(none) = 0 + 1
  BY <1>2
<1> QED
  BY <1>1, <1>2, <1>3, <1>4, <1>5 DEF Packing

\* The units of a document, one by one.
LEMMA PackSteps ==
    ASSUME NEW doc, NEW limit, NEW U, NEW s \in Seq(U)
    PROVE  \E g : PackingUp(g, doc, limit, s)
<1> DEFINE N == Len(s)
           F == [p \in (1 .. N) \X Packer(U) |-> Pack(doc, limit, p[2], s[p[1]])]
           Eq(iter) == iter = [e \in SUBSET (1 .. N) |->
              IF e = {} THEN Unpacked ELSE Pack(doc, limit, iter[e \ {Max(e)}], s[Max(e)])]
<1>0. N \in Nat /\ DOMAIN s = 1 .. N /\ \A n \in 1 .. N : s[n] \in U
  OBVIOUS
<1>1. F \in [(1 .. N) \X Packer(U) -> Packer(U)] /\ Unpacked \in Packer(U)
  BY <1>0, PackTyped, UnpackedTyped
<1>2. PICK it : Folds(it, N, Packer(U), Unpacked, F)
  <2> HIDE DEF F, N
  <2> QED
    BY <1>0, <1>1, SubsetRecursion
<1>3. ASSUME NEW e \in SUBSET (1 .. N), e # {}
      PROVE  it[e] = Pack(doc, limit, it[e \ {Max(e)}], s[Max(e)])
  <2>1. Max(e) \in 1 .. N /\ it[e \ {Max(e)}] \in Packer(U)
    BY <1>0, <1>2, <1>3, MaxIn DEF Folds
  <2> QED
    BY <1>2, <1>3, <2>1 DEF Folds
<1>4. Eq(it)
  BY <1>2, <1>3 DEF Folds
<1> DEFINE c == CHOOSE iter : Eq(iter)
<1>5. Eq(c)
  <2> HIDE DEF Eq
  <2> QED
    BY <1>4
<1>6. AllPacked(doc, limit, s) = c[1 .. N]
  BY <1>0 DEF AllPacked, FoldLeft, MapThenFoldSet
<1> HIDE DEF c
<1>7. c[{}] = Unpacked
  BY <1>5
<1>8. ASSUME NEW n \in 1 .. N
      PROVE  c[1 .. n] = Pack(doc, limit, c[1 .. (n - 1)], s[n])
  <2>1. /\ Max(1 .. n) = n /\ (1 .. n) \ {n} = 1 .. (n - 1)
        /\ 1 .. n \in SUBSET (1 .. N) /\ 1 .. n # {}
    BY <1>0, MaxPrefix
  <2> QED
    BY <1>5, <2>1
<1> DEFINE g == [n \in 0 .. N |-> c[1 .. n]]
<1>9. g[0] = Unpacked /\ g[N] = c[1 .. N]
  BY <1>0, <1>7
<1>10. ASSUME NEW n \in 1 .. N PROVE g[n - 1] = c[1 .. (n - 1)] /\ g[n] = c[1 .. n]
  BY <1>0
<1> HIDE DEF g
<1>11. \A n \in 1 .. N : g[n] = Pack(doc, limit, g[n - 1], s[n])
  BY <1>8, <1>10
<1> QED
  BY <1>6, <1>9, <1>11 DEF PackingUp


\* The groups hold all units in their order, and each is fair.
Grouped(doc, limit, U, gs, s) ==
    /\ gs \in Seq(Seq(U)) /\ EndsAt(gs, s, Len(s) + 1)
    /\ \A i \in 1 .. Len(gs) : Fair(doc, limit, gs[i])

LEMMA UnitsGrouped ==
    ASSUME NEW doc, NEW limit, NEW U, NEW s \in Seq(U)
    PROVE  Grouped(doc, limit, U, pack_units(doc, s, limit), s)
<1>0. PICK N : N = Len(s) /\ N \in Nat
  OBVIOUS
<1>1. PICK g : /\ g[0] = Unpacked /\ AllPacked(doc, limit, s) = g[N]
               /\ \A n \in 1 .. N : g[n] = Pack(doc, limit, g[n - 1], s[n])
  <2>1. PICK g : PackingUp(g, doc, limit, s)
    BY PackSteps
  <2> QED
    BY <1>0, <2>1 DEF PackingUp
<1> DEFINE P == {n \in 0 .. N : g[n] \in Packer(U) /\ Packing(doc, limit, g[n], s, n)}
<1>2. 0 \in P
  <2>1. 0 \in 0 .. N
    BY <1>0
  <2> QED
    BY <1>1, <2>1, UnpackedTyped
<1>3. ASSUME NEW n \in 1 .. N, n - 1 \in P PROVE n \in P
  <2>1. PICK old, new, u, m : old = g[n - 1] /\ new = g[n] /\ u = s[n] /\ m = n - 1
    OBVIOUS
  <2>2. /\ old \in Packer(U) /\ Packing(doc, limit, old, s, m) /\ n = m + 1 /\ m \in Nat
        /\ n \in 1 .. Len(s) /\ n \in 0 .. N /\ new = Pack(doc, limit, old, u)
    BY <1>0, <1>1, <1>3, <2>1
  <2>3. new \in Packer(U) /\ Packing(doc, limit, new, s, n)
    BY <2>1, <2>2, PackKeeps
  <2> QED
    BY <2>1, <2>2, <2>3
<1>4. N \in P
  <2> HIDE DEF P
  <2>1. \A n \in 1 .. N : n - 1 \in P => n \in P
    BY <1>3
  <2>2. 0 .. N \subseteq P
    BY <1>0, <1>2, <2>1, AlongPrefixes
  <2> QED
    BY <1>0, <2>2
<1>5. PICK f : f = g[N] /\ f \in Packer(U) /\ Packing(doc, limit, f, s, N)
  BY <1>4
<1>6. PICK d, p, S : d = f.groups /\ p = f.current /\ S = Seq(U) /\ d \in Seq(S) /\ p \in S
  BY <1>5 DEF Packer
<1>7. PICK gs : gs = pack_units(doc, s, limit)
  OBVIOUS
<1>8. gs = IF p = << >> THEN d ELSE Append(d, p)
  <2>1. pack_units(doc, s, limit) =
          IF AllPacked(doc, limit, s).current = << >> THEN AllPacked(doc, limit, s).groups
          ELSE Append(AllPacked(doc, limit, s).groups, AllPacked(doc, limit, s).current)
    BY DEF pack_units, AllPacked
  <2> QED
    BY <1>1, <1>5, <1>6, <1>7, <2>1
<1>9. PICK e : /\ EndsAt(d, s, e) /\ e + Len(p) = N + 1 /\ From(e, p, s)
               /\ \A i \in 1 .. Len(d) : Fair(doc, limit, d[i])
               /\ p # << >> => Fair(doc, limit, p)
  BY <1>5, <1>6 DEF Packing
<1>10. e \in Nat /\ EndsAt(Append(d, p), s, e + Len(p))
  BY <1>6, <1>9, EndsAppend
<1>11. CASE p = << >>
  <2>1. Len(p) = 0
    BY <1>11
  <2>2. e = N + 1
    BY <1>0, <1>9, <1>10, <2>1
  <2> QED
    BY <1>0, <1>6, <1>7, <1>8, <1>9, <1>11, <2>2 DEF Grouped
<1>12. CASE p # << >>
  <2>1. gs = Append(d, p) /\ EndsAt(gs, s, N + 1)
    BY <1>8, <1>9, <1>10, <1>12
  <2>2. PICK D : D = Len(d)
    OBVIOUS
  <2>3. /\ gs \in Seq(S) /\ Len(gs) = D + 1 /\ gs[D + 1] = p /\ D \in Nat
        /\ \A i \in 1 .. D : gs[i] = d[i]
        /\ \A i \in 1 .. D + 1 : i \in 1 .. D \/ i = D + 1
    BY <1>6, <2>1, <2>2, Appended
  <2>4. ASSUME NEW i \in 1 .. D + 1 PROVE Fair(doc, limit, gs[i])
    BY <1>9, <1>12, <2>2, <2>3
  <2> QED
    BY <1>0, <1>6, <1>7, <2>1, <2>3, <2>4 DEF Grouped
<1> QED
  BY <1>11, <1>12

-----------------------------------------------------------------------------
(* Units *)

Body(B) == Select(B, {b \in Range(B) : b.kind # "heading"})

\* The paragraphs keep the order of the blocks.
LEMMA BodyShaped ==
    ASSUME NEW K, NEW M, NEW B \in Seq(Parts(K, M)), NEW m, Shaped(B, m), NEW body, body = Body(B)
    PROVE  /\ body \in Seq(Parts(K, M)) /\ Shaped(body, m)
           /\ \A b : b \in Range(body) <=> b \in Range(B) /\ b.kind # "heading"
<1>1. PICK T, W : T = Parts(K, M) /\ W = {b \in Range(B) : b.kind # "heading"} /\ B \in Seq(T)
  OBVIOUS
<1>2. body = Select(B, W)
  BY <1>1 DEF Body
<1>3. body \in Seq(T) /\ Range(body) = Range(B) \cap W
  BY <1>1, <1>2, SelectRange
<1>4. PICK at : Sited(at, body, B, Len(B))
  BY <1>1, <1>2, SelectPlaces
<1>5. /\ at \in [1 .. Len(body) -> 1 .. Len(B)]
      /\ \A a \in 1 .. Len(body) : body[a] = B[at[a]]
      /\ \A a, b \in 1 .. Len(body) : a < b => at[a] < at[b]
  BY <1>4 DEF Sited
<1>6. Shaped(body, m)
  <2>1. ASSUME NEW i \in 1 .. Len(body)
        PROVE  /\ body[i].text # << >> /\ Rising(body[i].text)
               /\ \A n \in Range(body[i].text) : n <= m
               /\ body[i].kind = "heading" => Len(body[i].text) = 1
    <3>1. PICK j : j = at[i] /\ j \in 1 .. Len(B) /\ body[i] = B[j]
      BY <1>5
    <3> QED
      BY <3>1 DEF Shaped
  <2>2. ASSUME NEW i \in 1 .. Len(body), NEW j \in 1 .. Len(body), i < j,
               NEW a \in Range(body[i].text), NEW c \in Range(body[j].text)
        PROVE  a < c
    <3>1. PICK k, l : k = at[i] /\ l = at[j] /\ k \in 1 .. Len(B) /\ l \in 1 .. Len(B) /\ k < l
                      /\ body[i] = B[k] /\ body[j] = B[l]
      BY <1>5, <2>2
    <3> QED
      BY <2>2, <3>1 DEF Shaped
  <2> QED
    BY <2>1, <2>2 DEF Shaped
<1>7. \A b : b \in Range(body) <=> b \in Range(B) /\ b.kind # "heading"
  BY <1>1, <1>3
<1> QED
  BY <1>1, <1>3, <1>6, <1>7

PiecesOf(doc, text) == IF estimate_tokens(doc, text) <= SplitTokens THEN <<text>> ELSE Pieces(doc, text)

LEMMA PiecesWhole ==
    ASSUME NEW doc, NEW M, M \subseteq Nat, NEW text \in Seq(M), text # << >>, Rising(text)
    PROVE  Pieced(M, PiecesOf(doc, text), text)
<1>1. CASE ~ (estimate_tokens(doc, text) <= SplitTokens)
  BY <1>1, PiecesSplit DEF PiecesOf
<1>2. CASE estimate_tokens(doc, text) <= SplitTokens
  <2>1. PICK S, one : S = Seq(M) /\ one = <<text>> /\ text \in S
    OBVIOUS
  <2>2. one \in Seq(S) /\ Len(one) = 1 /\ one[1] = text /\ \A i \in 1 .. Len(one) : i = 1
    <3>1. one \in Seq(S) /\ Len(one) = 1 /\ one[1] = text
      BY <2>1
    <3> QED
      BY <3>1
  <2>3. one # << >>
    <3>1. PICK none : none = << >> /\ Len(none) = 0
      OBVIOUS
    <3>2. Len(one) = 1
      BY <2>2
    <3>3. one = none => Len(one) = Len(none)
      OBVIOUS
    <3>4. one # none
      <4> HIDE <2>1, <2>2
      <4> QED
        BY ONLY <3>1, <3>2, <3>3
    <3> QED
      BY <3>1, <3>4
  <2>4. Range(one) = {text}
    <3>1. DOMAIN one = 1 .. 1 /\ \A i : i \in 1 .. 1 <=> i = 1
      BY <2>2
    <3> QED
      BY <2>2, <3>1 DEF Range
  <2>5. Spread(one) = Range(text)
    BY <2>4 DEF Spread
  <2>6. Stepwise(one)
    <3>1. \A i, j \in 1 .. Len(one) : ~ (i < j)
      BY <2>2
    <3> QED
      BY <3>1 DEF Stepwise
  <2>7. \A i \in 1 .. Len(one) : one[i] # << >>
    BY <2>2
  <2>8. Pieced(M, one, text)
    BY <2>1, <2>2, <2>3, <2>5, <2>6, <2>7 DEF Pieced
  <2>9. PiecesOf(doc, text) = one
    BY <1>2, <2>1 DEF PiecesOf
  <2> QED
    BY <2>8, <2>9
<1> QED
  BY <1>1, <1>2

Units(K, M) == [text : Seq(M), ordinal : Nat, page : Nat, headings : Seq(K)]
UnitsOf(doc, body, o) ==
    [i \in DOMAIN PiecesOf(doc, body[o].text) |-> Unit(body[o], PiecesOf(doc, body[o].text)[i], o)]

\* The units of one paragraph.
OneBlock(K, M, body, o, us, ps) ==
    /\ us \in Seq(Units(K, M)) /\ Len(us) = Len(ps) /\ Len(us) \in Nat /\ 1 \in 1 .. Len(us)
    /\ \A i \in 1 .. Len(us) : us[i] = Unit(body[o], ps[i], o)
    /\ Pieced(M, ps, body[o].text)

LEMMA UnitsOfBlock ==
    ASSUME NEW doc, NEW K, NEW M, M \subseteq Nat, NEW body \in Seq(Parts(K, M)), NEW m,
           Shaped(body, m), NEW o \in 1 .. Len(body), NEW us, us = UnitsOf(doc, body, o),
           NEW ps, ps = PiecesOf(doc, body[o].text)
    PROVE  OneBlock(K, M, body, o, us, ps)
<1>1. PICK b, T, S : b = body[o] /\ T = Parts(K, M) /\ S = Seq(M) /\ body \in Seq(T)
  OBVIOUS
<1>2. b \in T
  BY <1>1
<1>3. b.text \in S /\ b.page \in Nat /\ b.headings \in Seq(K)
  BY <1>1, <1>2 DEF Parts
<1>4. b.text # << >> /\ Rising(b.text)
  BY <1>1 DEF Shaped
<1>5. Pieced(M, ps, b.text)
  BY <1>1, <1>3, <1>4, PiecesWhole
<1>6. ps \in Seq(S) /\ ps # << >>
  BY <1>1, <1>5 DEF Pieced
<1>7. PICK N : N = Len(ps) /\ N \in Nat /\ DOMAIN ps = 1 .. N /\ 1 \in 1 .. N
               /\ \A i \in 1 .. N : ps[i] \in S
  BY <1>6, FirstIn
<1>8. us = [i \in 1 .. N |-> Unit(b, ps[i], o)]
  BY <1>1, <1>7 DEF UnitsOf
<1>9. PICK U : U = Units(K, M)
  OBVIOUS
<1>10. ASSUME NEW i \in 1 .. N PROVE us[i] = Unit(b, ps[i], o) /\ us[i] \in U
  <2>1. us[i] = Unit(b, ps[i], o)
    BY <1>8
  <2>2. ps[i] \in Seq(M) /\ o \in Nat
    BY <1>1, <1>7
  <2>3. Unit(b, ps[i], o) \in U
    BY <1>3, <1>9, <2>2 DEF Unit, Units
  <2> QED
    BY <2>1, <2>3
<1>11. us = [i \in 1 .. N |-> us[i]]
  BY <1>8
<1>12. us \in [1 .. N -> U]
  BY <1>10, <1>11
<1>13. us \in Seq(U) /\ Len(us) = N
  BY <1>7, <1>12
<1> QED
  BY <1>1, <1>5, <1>7, <1>9, <1>10, <1>13 DEF OneBlock

\* Units of the paragraphs of body: none is empty, all lines are in them, the ordinals
\* go on by one at most, and only neighbours share a line.
Unitary(K, M, body, us) ==
    /\ us \in Seq(Units(K, M))
    /\ \A q \in 1 .. Len(us) :
         \E o \in 1 .. Len(body) : /\ us[q].ordinal = o /\ us[q].text # << >>
                                   /\ us[q].headings = body[o].headings
                                   /\ Range(us[q].text) \subseteq Range(body[o].text)
    /\ \A o \in 1 .. Len(body) : \A n \in Range(body[o].text) :
         \E q \in 1 .. Len(us) : n \in Range(us[q].text)
    /\ \A q, r \in 1 .. Len(us) : q < r =>
         /\ us[q].ordinal <= us[r].ordinal
         /\ q + 1 = r => us[r].ordinal <= us[q].ordinal + 1
         /\ \A n \in Range(us[q].text) : n \in Range(us[r].text) => q + 1 = r

Piece(u, body, ps, o, i) ==
    /\ u.ordinal = o /\ u.text = ps[i] /\ u.text # << >> /\ u.headings = body[o].headings
    /\ Range(u.text) \subseteq Range(body[o].text)

LEMMA UnitsSplit ==
    ASSUME NEW doc, NEW K, NEW M, M \subseteq Nat, NEW B, NEW body, body = Body(B),
           body \in Seq(Parts(K, M)), NEW m, Shaped(body, m)
    PROVE  Unitary(K, M, body, split_units(doc, B))
<1>0. PICK N, U : N = Len(body) /\ N \in Nat /\ DOMAIN body = 1 .. N /\ U = Units(K, M)
  <2>1. PICK T : T = Parts(K, M) /\ body \in Seq(T)
    OBVIOUS
  <2>2. Len(body) \in Nat /\ DOMAIN body = 1 .. Len(body)
    BY <2>1
  <2> QED
    BY <2>2
<1>1. PICK ss : ss = [o \in 1 .. N |-> UnitsOf(doc, body, o)]
  OBVIOUS
<1>2. PICK us : us = FlattenSeq(ss)
  OBVIOUS
<1>3. split_units(doc, B) = us
  BY <1>0, <1>1, <1>2 DEF split_units, UnitsOf, PiecesOf, Body
<1> DEFINE P(o) == PiecesOf(doc, body[o].text)
<1>4. ASSUME NEW o \in 1 .. N
      PROVE  /\ ss[o] \in Seq(U) /\ Len(ss[o]) = Len(P(o)) /\ Len(ss[o]) \in Nat /\ 1 \in 1 .. Len(ss[o])
             /\ \A i \in 1 .. Len(ss[o]) : ss[o][i] = Unit(body[o], P(o)[i], o)
             /\ Pieced(M, P(o), body[o].text)
  <2>1. PICK u, ps : u = ss[o] /\ ps = P(o) /\ u = UnitsOf(doc, body, o)
    BY <1>1
  <2>2. ps = PiecesOf(doc, body[o].text) /\ o \in 1 .. Len(body)
    BY <1>0, <2>1
  <2>3. OneBlock(K, M, body, o, u, ps)
    BY <2>1, <2>2, UnitsOfBlock
  <2> HIDE DEF P
  <2> QED
    BY <1>0, <2>1, <2>3 DEF OneBlock
<1> HIDE DEF P
<1>5. ss \in Seq(Seq(U)) /\ Len(ss) = N
  <2>1. PICK Z : Z = Seq(U)
    OBVIOUS
  <2>2. ss = [o \in 1 .. N |-> ss[o]]
    BY <1>1
  <2>3. ss \in [1 .. N -> Z]
    BY <1>4, <2>1, <2>2
  <2>4. ss \in Seq(Z) /\ Len(ss) = N
    BY <1>0, <2>3
  <2> QED
    BY <2>1, <2>4
<1>6. PICK lo : Tiles(lo, ss, us) /\ lo[Len(ss) + 1] = Len(us) + 1
  BY <1>2, <1>5, FlattenTiles
<1>7. us \in Seq(U)
  BY <1>2, <1>5, FlattenRange
<1>8. ASSUME NEW q \in 1 .. Len(us)
      PROVE  \E o \in 1 .. N : \E i \in 1 .. Len(ss[o]) :
               q = lo[o] + i - 1 /\ us[q] = Unit(body[o], P(o)[i], o)
  <2>0. Len(us) \in Nat
    BY <1>7
  <2>1. q \in 1 .. lo[Len(ss) + 1] - 1
    BY <1>6, <2>0
  <2>2. InTile(lo, ss, q)
    BY <1>5, <1>6, <2>1, TilesCover
  <2>3. PICK o \in 1 .. N : \E i \in 1 .. Len(ss[o]) : q = lo[o] + i - 1
    BY <1>5, <2>2 DEF InTile
  <2>4. PICK i \in 1 .. Len(ss[o]) : q = lo[o] + i - 1
    BY <2>3
  <2>5. Apart(lo, ss, us, o, i)
    BY <1>5, <1>6, TileApart
  <2>6. us[q] = ss[o][i]
    BY <2>4, <2>5 DEF Apart
  <2> QED
    BY <1>4, <2>4, <2>6
<1>9. ASSUME NEW o \in 1 .. N, NEW i \in 1 .. Len(ss[o])
      PROVE  P(o)[i] # << >> /\ Range(P(o)[i]) \subseteq Range(body[o].text)
  <2>2. Pieced(M, P(o), body[o].text) /\ i \in 1 .. Len(P(o))
    BY <1>4
  <2>3. P(o)[i] # << >> /\ P(o) \in Seq(Seq(M)) /\ Spread(P(o)) = Range(body[o].text)
    BY <2>2 DEF Pieced
  <2>4. P(o)[i] \in Range(P(o))
    <3>1. DOMAIN P(o) = 1 .. Len(P(o))
      BY <2>3, Inner
    <3> QED
      BY <2>2, <3>1 DEF Range
  <2>5. Range(P(o)[i]) \subseteq Spread(P(o))
    BY <2>4 DEF Spread
  <2> QED
    BY <2>3, <2>5
<1>91. ASSUME NEW q \in 1 .. Len(us)
       PROVE  \E o \in 1 .. N : \E i \in 1 .. Len(ss[o]) :
                q = lo[o] + i - 1 /\ Piece(us[q], body, P(o), o, i)
  <2>1. PICK o \in 1 .. N : \E i \in 1 .. Len(ss[o]) :
               q = lo[o] + i - 1 /\ us[q] = Unit(body[o], P(o)[i], o)
    BY <1>8
  <2>2. PICK i \in 1 .. Len(ss[o]) : q = lo[o] + i - 1 /\ us[q] = Unit(body[o], P(o)[i], o)
    BY <2>1
  <2>3. PICK u, t, b : u = us[q] /\ t = P(o)[i] /\ b = body[o]
    OBVIOUS
  <2>4. u = Unit(b, t, o)
    BY <2>2, <2>3
  <2>5. u.ordinal = o /\ u.text = t /\ u.headings = b.headings
    BY <2>4 DEF Unit
  <2>6. t # << >> /\ Range(t) \subseteq Range(b.text)
    BY <1>9, <2>3
  <2>7. Piece(u, body, P(o), o, i)
    BY <2>3, <2>5, <2>6 DEF Piece
  <2>8. q = lo[o] + i - 1 /\ Piece(us[q], body, P(o), o, i)
    BY <2>2, <2>3, <2>7
  <2> QED
    BY <2>8
<1>10. ASSUME NEW q \in 1 .. Len(us)
       PROVE  \E o \in 1 .. Len(body) : /\ us[q].ordinal = o /\ us[q].text # << >>
                                        /\ us[q].headings = body[o].headings
                                        /\ Range(us[q].text) \subseteq Range(body[o].text)
  <2>1. PICK o \in 1 .. N : \E i \in 1 .. Len(ss[o]) : Piece(us[q], body, P(o), o, i)
    BY <1>91
  <2>2. /\ us[q].ordinal = o /\ us[q].text # << >> /\ us[q].headings = body[o].headings
        /\ Range(us[q].text) \subseteq Range(body[o].text)
    BY <2>1 DEF Piece
  <2> QED
    BY <1>0, <2>2
<1>11. ASSUME NEW o \in 1 .. Len(body), NEW n \in Range(body[o].text)
       PROVE  \E q \in 1 .. Len(us) : n \in Range(us[q].text)
  <2>1. Pieced(M, P(o), body[o].text) /\ Len(ss[o]) = Len(P(o)) /\ o \in 1 .. N
    BY <1>0, <1>4
  <2>2. P(o) \in Seq(Seq(M)) /\ Spread(P(o)) = Range(body[o].text)
    BY <2>1 DEF Pieced
  <2>3. PICK p \in Range(P(o)) : n \in Range(p)
    BY <2>2 DEF Spread
  <2>4. DOMAIN P(o) = 1 .. Len(P(o))
    BY <2>2, Inner
  <2>5. PICK i \in 1 .. Len(ss[o]) : p = P(o)[i]
    BY <2>1, <2>3, <2>4 DEF Range
  <2>6. Apart(lo, ss, us, o, i)
    BY <1>5, <1>6, <2>1, TileApart
  <2>7. PICK q : q = lo[o] + i - 1
    OBVIOUS
  <2>8. q \in 1 .. lo[Len(ss) + 1] - 1 /\ ss[o][i] = us[q]
    BY <2>6, <2>7 DEF Apart
  <2>9. q \in 1 .. Len(us)
    <3>1. Len(us) \in Nat
      BY <1>7
    <3> QED
      BY <1>6, <2>8, <3>1
  <2>10. us[q] = Unit(body[o], P(o)[i], o)
    BY <1>4, <2>1, <2>8
  <2>11. us[q].text = p
    BY <2>5, <2>10 DEF Unit
  <2> QED
    BY <2>3, <2>9, <2>11
<1>12. ASSUME NEW q \in 1 .. Len(us), NEW r \in 1 .. Len(us), q < r
       PROVE  /\ us[q].ordinal <= us[r].ordinal
              /\ q + 1 = r => us[r].ordinal <= us[q].ordinal + 1
              /\ \A n \in Range(us[q].text) : n \in Range(us[r].text) => q + 1 = r
  <2>0. q \in Nat /\ r \in Nat
    <3>1. Len(us) \in Nat
      BY <1>7
    <3> QED
      BY <3>1
  <2>1. PICK o \in 1 .. N : \E i \in 1 .. Len(ss[o]) : q = lo[o] + i - 1 /\ Piece(us[q], body, P(o), o, i)
    BY <1>91
  <2>2. PICK i \in 1 .. Len(ss[o]) : q = lo[o] + i - 1 /\ Piece(us[q], body, P(o), o, i)
    BY <2>1
  <2>3. PICK p \in 1 .. N : \E j \in 1 .. Len(ss[p]) : r = lo[p] + j - 1 /\ Piece(us[r], body, P(p), p, j)
    BY <1>91
  <2>4. PICK j \in 1 .. Len(ss[p]) : r = lo[p] + j - 1 /\ Piece(us[r], body, P(p), p, j)
    BY <2>3
  <2>5. o < p \/ (o = p /\ i < j)
    BY <1>5, <1>6, <1>12, <2>2, <2>4, TileOrder
  <2>6. us[q].ordinal = o /\ us[q].text = P(o)[i] /\ us[r].ordinal = p /\ us[r].text = P(p)[j]
        /\ Range(us[q].text) \subseteq Range(body[o].text)
        /\ Range(us[r].text) \subseteq Range(body[p].text)
    BY <2>2, <2>4 DEF Piece
  <2>7. o <= p
    BY <1>0, <2>5
  <2>8. q + 1 = r => p <= o + 1
    <3> SUFFICES ASSUME q + 1 = r, ~ (p <= o + 1) PROVE FALSE
      BY <1>0
    <3>1. PICK t : t = o + 1
      OBVIOUS
    <3>2. t \in 1 .. N /\ o < t /\ t < p
      BY <1>0, <3>1
    <3>3. PICK k : k = 1 /\ k \in 1 .. Len(ss[t])
      BY <1>4, <3>2
    <3>4. PICK x : x = lo[t] + k - 1
      OBVIOUS
    <3>41. o \in 1 .. Len(ss) /\ p \in 1 .. Len(ss) /\ t \in 1 .. Len(ss)
      BY <1>5, <3>2
    <3>5. q < x /\ x < r
      <4>1. lo[o] + i - 1 < lo[t] + k - 1
        BY <1>5, <1>6, <3>2, <3>3, <3>41, TileOrder
      <4>2. lo[t] + k - 1 < lo[p] + j - 1
        BY <1>5, <1>6, <3>2, <3>3, <3>41, TileOrder
      <4> QED
        BY <2>2, <2>4, <3>4, <4>1, <4>2
    <3>6. x \in Nat
      <4>1. Apart(lo, ss, us, t, k)
        BY <1>5, <1>6, <3>3, <3>41, TileApart
      <4>2. x \in 1 .. lo[Len(ss) + 1] - 1
        BY <3>4, <4>1 DEF Apart
      <4>3. Len(us) \in Nat /\ lo[Len(ss) + 1] - 1 = Len(us)
        BY <1>6, <1>7
      <4> QED
        BY <4>2, <4>3
    <3> QED
      BY <2>0, <3>5, <3>6
  <2>9. ASSUME NEW n \in Range(us[q].text), n \in Range(us[r].text) PROVE q + 1 = r
    <3>0. n \in Range(body[o].text) /\ n \in Range(body[p].text) /\ n \in Nat
      <4>1. n \in Range(body[o].text) /\ n \in Range(body[p].text)
        BY <2>6, <2>9
      <4>2. body[o].text \in Seq(M)
        <5>1. PICK T : T = Parts(K, M) /\ body \in Seq(T)
          OBVIOUS
        <5>2. body[o] \in T
          BY <1>0, <5>1
        <5> QED
          BY <5>1, <5>2 DEF Parts
      <4>3. n \in M
        BY <4>1, <4>2, RangeIn
      <4> QED
        BY <4>1, <4>3
    <3>1. o = p /\ i < j
      <4>1. ~ (o < p)
        <5>1. o < p => n < n
          BY <1>0, <3>0 DEF Shaped
        <5> QED
          BY <3>0, <5>1
      <4> QED
        BY <2>5, <4>1
    <3>2. Stepwise(P(o)) /\ Len(ss[o]) = Len(P(o)) /\ Len(ss[o]) \in Nat
      BY <1>4 DEF Pieced
    <3>3. ~ (i + 1 < j)
      <4>1. n \in Range(P(o)[i]) /\ n \in Range(P(o)[j]) /\ i \in 1 .. Len(P(o)) /\ j \in 1 .. Len(P(o))
        BY <2>6, <2>9, <3>1, <3>2
      <4>2. i + 1 < j => n < n
        BY <3>1, <3>2, <4>1 DEF Stepwise
      <4> QED
        BY <3>0, <4>2
    <3>4. j = i + 1
      BY <3>1, <3>2, <3>3
    <3>5. lo[o] \in Nat
      <4>1. lo \in [1 .. Len(ss) + 1 -> Nat]
        BY <1>6 DEF Tiles
      <4>2. o \in 1 .. N + 1
        BY <1>0
      <4> QED
        BY <1>5, <4>1, <4>2
    <3>6. PICK a : a = lo[o] /\ a \in Nat /\ q = a + i - 1 /\ r = a + j - 1
      BY <2>2, <2>4, <3>1, <3>5
    <3> QED
      BY <3>2, <3>4, <3>6
  <2> QED
    BY <2>6, <2>7, <2>8, <2>9
<1>13. Unitary(K, M, body, us)
  BY <1>0, <1>7, <1>10, <1>11, <1>12 DEF Unitary
<1> QED
  BY <1>3, <1>13

-----------------------------------------------------------------------------
(* Chunks *)

\* The text of a group is the lines of its units.
LEMMA TextHeld ==
    ASSUME NEW K, NEW M, NEW g \in Seq(Units(K, M))
    PROVE  /\ TextOf(g) \in Seq(M)
           /\ \A n : n \in Range(TextOf(g)) <=> \E k \in 1 .. Len(g) : n \in Range(g[k].text)
<1>1. PICK U, L, S : U = Units(K, M) /\ g \in Seq(U) /\ L = Len(g) /\ S = Seq(M)
  OBVIOUS
<1>2. L \in Nat /\ DOMAIN g = 1 .. L /\ \A k \in 1 .. L : g[k] \in U
  BY <1>1
<1>3. \A k \in 1 .. L : g[k].text \in S
  BY <1>1, <1>2 DEF Units
<1>4. PICK ss : ss = [k \in 1 .. L |-> g[k].text]
  OBVIOUS
<1>5. ss \in [1 .. L -> S]
  BY <1>3, <1>4
<1>6. ss \in Seq(S) /\ Len(ss) = L /\ \A k \in 1 .. L : ss[k] = g[k].text
  BY <1>2, <1>4, <1>5
<1>7. ss \in Seq(Seq(M))
  BY <1>1, <1>6
<1>8. FlattenSeq(ss) \in Seq(M) /\ Range(FlattenSeq(ss)) = UNION {Range(ss[k]) : k \in 1 .. Len(ss)}
  BY <1>7, FlattenRange
<1>9. TextOf(g) = FlattenSeq(ss)
  BY <1>2, <1>4 DEF TextOf
<1>10. \A k \in 1 .. L : Range(ss[k]) = Range(g[k].text)
  BY <1>6
<1>11. \A n : n \in Range(FlattenSeq(ss)) <=> \E k \in 1 .. L : n \in Range(g[k].text)
  BY <1>6, <1>8, <1>10
<1> QED
  BY <1>1, <1>8, <1>9, <1>11

\* Group i holds what is at the places at[i] of s.
Spotted(gs, s, at) ==
    /\ \A i \in 1 .. Len(gs) : at[i] \subseteq 1 .. Len(s)
    /\ \A i \in 1 .. Len(gs) : \A q \in at[i] : \E k \in 1 .. Len(gs[i]) : gs[i][k] = s[q]
    /\ \A i \in 1 .. Len(gs) : \A k \in 1 .. Len(gs[i]) : \E q \in at[i] : gs[i][k] = s[q]
    /\ \A i, j \in 1 .. Len(gs) : i < j => \A q \in at[i], r \in at[j] : q < r
    /\ \A q \in 1 .. Len(s) : \E i \in 1 .. Len(gs) : q \in at[i]

LEMMA GroupsSpotted ==
    ASSUME NEW U, NEW gs \in Seq(Seq(U)), NEW s \in Seq(U), EndsAt(gs, s, Len(s) + 1)
    PROVE  \E at : Spotted(gs, s, at)
<1>1. PICK lo : Tiles(lo, gs, s) /\ lo[Len(gs) + 1] = Len(s) + 1
  BY DEF EndsAt
<1>20. PICK N : N = Len(gs)
  OBVIOUS
<1>2. PICK L : N = Len(gs) /\ L = Len(s) /\ L \in Nat /\ lo[Len(gs) + 1] - 1 = L
  <2>1. PICK L : L = Len(s) /\ L \in Nat
    OBVIOUS
  <2>2. L + 1 - 1 = L /\ lo[Len(gs) + 1] = L + 1
    BY <1>1, <2>1
  <2>3. N = Len(gs) /\ L = Len(s) /\ L \in Nat /\ lo[Len(gs) + 1] - 1 = L
    BY <1>20, <2>1, <2>2
  <2> QED
    BY <2>3
<1>3. PICK at : at = [i \in 1 .. N |-> {q \in 1 .. L : \E k \in 1 .. Len(gs[i]) : q = lo[i] + k - 1}]
  OBVIOUS
<1>4. ASSUME NEW i \in 1 .. N, NEW k \in 1 .. Len(gs[i]), NEW q, q = lo[i] + k - 1
      PROVE  q \in at[i] /\ gs[i][k] = s[q]
  <2>1. Apart(lo, gs, s, i, k)
    BY <1>1, <1>2, TileApart
  <2>2. q \in 1 .. L /\ gs[i][k] = s[q]
    BY <1>2, <1>4, <2>1 DEF Apart
  <2> QED
    BY <1>3, <1>4, <2>2
<1>5. \A i \in 1 .. N : at[i] \subseteq 1 .. L
  BY <1>3
<1>6. ASSUME NEW i \in 1 .. N, NEW q \in at[i]
      PROVE  \E k \in 1 .. Len(gs[i]) : q = lo[i] + k - 1 /\ gs[i][k] = s[q]
  <2>1. PICK k \in 1 .. Len(gs[i]) : q = lo[i] + k - 1
    BY <1>3
  <2>2. gs[i][k] = s[q]
    BY <1>4, <2>1
  <2> QED
    BY <2>1, <2>2
<1>7. \A i \in 1 .. N : \A k \in 1 .. Len(gs[i]) : \E q \in at[i] : gs[i][k] = s[q]
  BY <1>4
<1>8. ASSUME NEW i \in 1 .. N, NEW j \in 1 .. N, i < j, NEW q \in at[i], NEW r \in at[j] PROVE q < r
  <2>1. PICK k \in 1 .. Len(gs[i]) : q = lo[i] + k - 1
    BY <1>6
  <2>2. PICK l \in 1 .. Len(gs[j]) : r = lo[j] + l - 1
    BY <1>6
  <2> QED
    BY <1>1, <1>2, <1>8, <2>1, <2>2, TileOrder
<1>9. ASSUME NEW q \in 1 .. L PROVE \E i \in 1 .. N : q \in at[i]
  <2>1. q \in 1 .. lo[Len(gs) + 1] - 1
    BY <1>2
  <2>2. InTile(lo, gs, q)
    BY <1>1, <2>1, TilesCover
  <2>3. PICK i \in 1 .. N : \E k \in 1 .. Len(gs[i]) : q = lo[i] + k - 1
    BY <1>2, <2>2 DEF InTile
  <2> QED
    BY <1>4, <2>3
<1>10. \A i \in 1 .. N : \A q \in at[i] : \E k \in 1 .. Len(gs[i]) : gs[i][k] = s[q]
  BY <1>6
<1>11. Spotted(gs, s, at)
  BY <1>2, <1>5, <1>7, <1>8, <1>9, <1>10 DEF Spotted
<1> QED
  BY <1>11

ChildrenOf(doc, parent, p) ==
    LET groups == pack_units(doc, parent, TargetTokens) IN
    [i \in DOMAIN groups |-> make_chunk(doc, groups[i], parent, p)]

\* What every chunk says of its parent.
Citing(c, parent) ==
    c.context = TextOf(parent) /\ c.locator = locator_for(parent) /\ c.headings = parent[1].headings

\* The lines of a chunk are those of the units at places spot.
Holding(c, s, spot) == \A n : n \in Range(c.text) <=> \E q \in spot : n \in Range(s[q].text)

\* Chunk i has the units at the places at[i] of its parent.
Brood(cs, parent, at) ==
    /\ Len(cs) \in Nat /\ DOMAIN cs = 1 .. Len(cs) /\ cs = [i \in 1 .. Len(cs) |-> cs[i]]
    /\ \A i \in 1 .. Len(cs) :
         at[i] \subseteq 1 .. Len(parent) /\ Citing(cs[i], parent) /\ Holding(cs[i], parent, at[i])
    /\ \A i, j \in 1 .. Len(cs) : i < j => \A q \in at[i], r \in at[j] : q < r
    /\ \A q \in 1 .. Len(parent) : \E i \in 1 .. Len(cs) : q \in at[i]

LEMMA ChildrenSpotted ==
    ASSUME NEW doc, NEW K, NEW M, NEW U, U = Units(K, M), NEW parent \in Seq(U), OneSection(parent),
           NEW p, NEW cs, cs = ChildrenOf(doc, parent, p)
    PROVE  \E at : Brood(cs, parent, at)
<1>1. PICK gs : gs = pack_units(doc, parent, TargetTokens)
  OBVIOUS
<1>2. Grouped(doc, TargetTokens, U, gs, parent)
  BY <1>1, UnitsGrouped
<1>3. /\ gs \in Seq(Seq(U)) /\ EndsAt(gs, parent, Len(parent) + 1)
      /\ \A i \in 1 .. Len(gs) : Fair(doc, TargetTokens, gs[i])
  BY <1>2 DEF Grouped
<1>4. PICK at : Spotted(gs, parent, at)
  BY <1>3, GroupsSpotted
<1>5. PICK N : N = Len(gs) /\ N \in Nat /\ DOMAIN gs = 1 .. N /\ \A i \in 1 .. N : gs[i] \in Seq(U)
  <2>1. /\ Len(gs) \in Nat /\ DOMAIN gs = 1 .. Len(gs)
        /\ \A i \in 1 .. Len(gs) : gs[i] \in Seq(U)
    BY <1>3, Inner
  <2> QED
    BY <2>1
<1>6. cs = [i \in 1 .. N |-> make_chunk(doc, gs[i], parent, p)]
  BY <1>1, <1>5 DEF ChildrenOf
<1>7. Len(cs) = N /\ DOMAIN cs = 1 .. N /\ cs = [i \in 1 .. N |-> cs[i]]
  BY <1>5, <1>6
<1>8. ASSUME NEW i \in 1 .. N
      PROVE at[i] \subseteq 1 .. Len(parent) /\ Citing(cs[i], parent) /\ Holding(cs[i], parent, at[i])
  <2>1. PICK g, c, A : g = gs[i] /\ c = cs[i] /\ A = at[i] /\ g \in Seq(U)
    BY <1>5
  <2>2. /\ A \subseteq 1 .. Len(parent)
        /\ \A q \in A : \E k \in 1 .. Len(g) : g[k] = parent[q]
        /\ \A k \in 1 .. Len(g) : \E q \in A : g[k] = parent[q]
    BY <1>4, <1>5, <2>1 DEF Spotted
  <2>3. c = make_chunk(doc, g, parent, p)
    BY <1>6, <2>1
  <2>4. /\ c.text = TextOf(g) /\ c.context = TextOf(parent) /\ c.locator = locator_for(parent)
        /\ c.headings = Head(g).headings
    BY <2>3 DEF make_chunk
  <2>5. \A n : n \in Range(TextOf(g)) <=> \E k \in 1 .. Len(g) : n \in Range(g[k].text)
    BY <2>1, TextHeld
  <2>6. Holding(c, parent, A)
    <3>1. ASSUME NEW n, n \in Range(c.text) PROVE \E q \in A : n \in Range(parent[q].text)
      <4>1. PICK k \in 1 .. Len(g) : n \in Range(g[k].text)
        BY <2>4, <2>5, <3>1
      <4>2. PICK q \in A : g[k] = parent[q]
        BY <2>2
      <4> QED
        BY <4>1, <4>2
    <3>2. ASSUME NEW n, NEW q \in A, n \in Range(parent[q].text) PROVE n \in Range(c.text)
      <4>1. PICK k \in 1 .. Len(g) : g[k] = parent[q]
        BY <2>2
      <4>2. n \in Range(g[k].text)
        BY <3>2, <4>1
      <4> QED
        BY <2>4, <2>5, <4>2
    <3> QED
      BY <3>1, <3>2 DEF Holding
  <2>7. 1 \in 1 .. Len(g) /\ Head(g) = g[1]
    <3>1. g # << >>
      BY <1>3, <1>5, <2>1 DEF Fair
    <3>2. 1 \in 1 .. Len(g)
      BY <2>1, <3>1, FirstIn
    <3> QED
      BY <2>1, <3>1, <3>2
  <2>8. Head(g).headings = parent[1].headings
    <3>1. PICK q \in A : g[1] = parent[q]
      BY <2>2, <2>7
    <3>2. q \in 1 .. Len(parent)
      BY <2>2
    <3>3. 1 \in 1 .. Len(parent)
      BY <3>2
    <3>4. parent[q].headings = parent[1].headings
      BY <3>2, <3>3 DEF OneSection
    <3> QED
      BY <2>7, <3>1, <3>4
  <2> QED
    BY <2>1, <2>2, <2>4, <2>6, <2>8 DEF Citing
<1>9. /\ \A i, j \in 1 .. N : i < j => \A q \in at[i], r \in at[j] : q < r
      /\ \A q \in 1 .. Len(parent) : \E i \in 1 .. N : q \in at[i]
  BY <1>4, <1>5 DEF Spotted
<1>10. Brood(cs, parent, at)
  BY <1>5, <1>7, <1>8, <1>9 DEF Brood
<1> QED
  BY <1>10

\* A parent is what is in s from place e on.
Holds(doc, U, s, parent, e) ==
    /\ parent \in Seq(U) /\ Fair(doc, MaxTokens, parent)
    /\ e \in Nat /\ 1 <= e /\ e + Len(parent) - 1 <= Len(s) /\ From(e, parent, s)

\* A chunk has the units at places spot, all of them in one parent.
Chunked(doc, U, s, c, spot) ==
    /\ spot \subseteq 1 .. Len(s) /\ Holding(c, s, spot)
    /\ \E parent, e : /\ Holds(doc, U, s, parent, e) /\ Citing(c, parent)
                      /\ spot \subseteq e .. e + Len(parent) - 1

Placement(doc, U, s, chunks, at) ==
    /\ Len(chunks) \in Nat /\ DOMAIN chunks = 1 .. Len(chunks)
    /\ \A j \in 1 .. Len(chunks) : Chunked(doc, U, s, chunks[j], at[j])
    /\ \A i, j \in 1 .. Len(chunks) : i < j => \A q \in at[i], r \in at[j] : q < r
    /\ \A q \in 1 .. Len(s) : \E j \in 1 .. Len(chunks) : q \in at[j]

\* The places of a child, counted from the first unit of the document.
Moved(spot, a) == {a + x - 1 : x \in spot}

LEMMA ChildChunked ==
    ASSUME NEW doc, NEW U, NEW s \in Seq(U), NEW parent, NEW a, Holds(doc, U, s, parent, a), NEW c,
           NEW spot, spot \subseteq 1 .. Len(parent), Citing(c, parent), Holding(c, parent, spot)
    PROVE  Chunked(doc, U, s, c, Moved(spot, a))
<1>0. PICK L, N, A : L = Len(parent) /\ N = Len(s) /\ A = Moved(spot, a)
  OBVIOUS
<1>01. parent \in Seq(U)
  BY DEF Holds
<1>1. L = Len(parent) /\ N = Len(s) /\ L \in Nat /\ N \in Nat /\ A = Moved(spot, a)
  BY <1>0, <1>01
<1>2. a \in Nat /\ 1 <= a /\ a + L - 1 <= N /\ \A x \in 1 .. L : parent[x] = s[a + x - 1]
  BY <1>1 DEF Holds, From
<1>3. ASSUME NEW x \in spot PROVE a + x - 1 \in 1 .. N /\ a + x - 1 \in a .. a + L - 1 /\ parent[x] = s[a + x - 1]
  <2>1. x \in 1 .. L
    BY <1>1
  <2> QED
    BY <1>1, <1>2, <2>1
<1>4. \A q : q \in A <=> \E x \in spot : q = a + x - 1
  BY <1>1 DEF Moved
<1>5. A \subseteq 1 .. N /\ A \subseteq a .. a + L - 1
  BY <1>3, <1>4
<1>6. Holding(c, s, A)
  <2>1. ASSUME NEW n, n \in Range(c.text) PROVE \E q \in A : n \in Range(s[q].text)
    <3>1. PICK x \in spot : n \in Range(parent[x].text)
      BY <2>1 DEF Holding
    <3>2. PICK q : q = a + x - 1
      OBVIOUS
    <3>3. q \in A /\ parent[x] = s[q]
      BY <1>3, <1>4, <3>2
    <3> QED
      BY <3>1, <3>3
  <2>2. ASSUME NEW n, NEW q \in A, n \in Range(s[q].text) PROVE n \in Range(c.text)
    <3>1. PICK x \in spot : q = a + x - 1
      BY <1>4
    <3>2. parent[x] = s[q]
      BY <1>3, <3>1
    <3>3. n \in Range(parent[x].text)
      BY <2>2, <3>2
    <3> QED
      BY <3>3 DEF Holding
  <2> QED
    BY <2>1, <2>2 DEF Holding
<1> QED
  BY <1>1, <1>5, <1>6 DEF Chunked

LEMMA ChunksPlaced ==
    ASSUME NEW doc, NEW K, NEW M, NEW U, U = Units(K, M), NEW B, NEW s, s = split_units(doc, B),
           s \in Seq(U)
    PROVE  \E at : Placement(doc, U, s, chunk_document(doc, B), at)
<1>1. PICK gs, ch : gs = pack_units(doc, s, MaxTokens) /\ ch = chunk_document(doc, B)
  OBVIOUS
<1>2. Grouped(doc, MaxTokens, U, gs, s)
  BY <1>1, UnitsGrouped
<1>3. gs \in Seq(Seq(U)) /\ EndsAt(gs, s, Len(s) + 1) /\ \A p \in 1 .. Len(gs) : Fair(doc, MaxTokens, gs[p])
  BY <1>2 DEF Grouped
<1>4. PICK lo : Tiles(lo, gs, s) /\ lo[Len(gs) + 1] = Len(s) + 1
  BY <1>3 DEF EndsAt
<1>41. Tiles(lo, gs, s) /\ gs \in Seq(Seq(U))
  BY <1>3, <1>4
<1>5. PICK N : N = Len(gs) /\ N \in Nat /\ DOMAIN gs = 1 .. N
               /\ \A p \in 1 .. N : gs[p] \in Seq(U) /\ Len(gs[p]) \in Nat
  <2>1. /\ Len(gs) \in Nat /\ DOMAIN gs = 1 .. Len(gs)
        /\ \A i \in 1 .. Len(gs) : gs[i] \in Seq(U) /\ Len(gs[i]) \in Nat
    BY <1>3, Inner
  <2> QED
    BY <2>1
<1>6. PICK L : L = Len(s) /\ L \in Nat /\ lo[Len(gs) + 1] - 1 = L
  <2>1. PICK L : L = Len(s) /\ L \in Nat
    OBVIOUS
  <2>2. L + 1 - 1 = L /\ lo[Len(gs) + 1] = L + 1
    BY <1>4, <2>1
  <2>3. L = Len(s) /\ L \in Nat /\ lo[Len(gs) + 1] - 1 = L
    BY <2>1, <2>2
  <2> QED
    BY <2>3
<1>7. PICK ss : ss = [p \in 1 .. N |-> ChildrenOf(doc, gs[p], p)]
  OBVIOUS
<1>8. ch = FlattenSeq(ss)
  <2>1. ch = FlattenSeq([p \in DOMAIN gs |-> ChildrenOf(doc, gs[p], p)])
    BY <1>1 DEF chunk_document, ChildrenOf
  <2> QED
    BY <1>5, <1>7, <2>1
<1>9. PICK al : al = [p \in 1 .. N |-> CHOOSE at : Brood(ss[p], gs[p], at)]
  OBVIOUS
<1>10. ASSUME NEW p \in 1 .. N PROVE Brood(ss[p], gs[p], al[p])
  <2>1. PICK g, cs : g = gs[p] /\ cs = ss[p] /\ g \in Seq(U)
    BY <1>5
  <2>2. OneSection(g)
    BY <1>3, <1>5, <2>1 DEF Fair
  <2>3. cs = ChildrenOf(doc, g, p)
    BY <1>7, <2>1
  <2>4. \E at : Brood(cs, g, at)
    BY <2>1, <2>2, <2>3, ChildrenSpotted
  <2>5. al[p] = CHOOSE at : Brood(cs, g, at)
    BY <1>9, <2>1
  <2>6. Brood(cs, g, al[p])
    BY <2>4, <2>5
  <2> QED
    BY <2>1, <2>6
<1>11. PICK T : T = UNION {Range(ss[p]) : p \in 1 .. N}
  OBVIOUS
<1>12. ss \in Seq(Seq(T)) /\ Len(ss) = N /\ \A p \in 1 .. N : Len(ss[p]) \in Nat
  <2>1. ASSUME NEW p \in 1 .. N PROVE ss[p] \in Seq(T) /\ Len(ss[p]) \in Nat
    <3>0. PICK cs, m : cs = ss[p] /\ m = Len(cs)
      OBVIOUS
    <3>1. cs = ss[p] /\ m = Len(cs) /\ m \in Nat /\ DOMAIN cs = 1 .. m /\ cs = [i \in 1 .. m |-> cs[i]]
      BY <1>10, <3>0 DEF Brood
    <3>2. \A i \in 1 .. m : cs[i] \in Range(cs)
      BY <3>1 DEF Range
    <3>3. Range(cs) \subseteq T
      BY <1>11, <3>1
    <3>4. cs \in [1 .. m -> T]
      BY <3>1, <3>2, <3>3
    <3>5. cs \in Seq(T)
      BY <3>1, <3>4
    <3> QED
      BY <3>1, <3>5
  <2>2. PICK Z : Z = Seq(T)
    OBVIOUS
  <2>3. ss \in [1 .. N -> Z]
    BY <1>7, <2>1, <2>2
  <2>4. ss \in Seq(Z) /\ Len(ss) = N
    BY <1>5, <2>3
  <2> QED
    BY <2>1, <2>2, <2>4
<1>13. ss \in Seq(Seq(T))
  BY <1>12
<1>14. PICK to : Tiles(to, ss, ch) /\ to[Len(ss) + 1] = Len(ch) + 1
  BY <1>8, <1>13, FlattenTiles
<1>15. ch \in Seq(T)
  BY <1>8, <1>13, FlattenRange
<1>16. PICK C : C = Len(ch) /\ C \in Nat /\ to[Len(ss) + 1] - 1 = C
  <2>1. PICK C : C = Len(ch) /\ C \in Nat
    BY <1>15
  <2>2. C + 1 - 1 = C /\ to[Len(ss) + 1] = C + 1
    BY <1>14, <2>1
  <2>3. C = Len(ch) /\ C \in Nat /\ to[Len(ss) + 1] - 1 = C
    BY <2>1, <2>2
  <2> QED
    BY <2>3
<1>17. Tiles(to, ss, ch)
  BY <1>14
\* Chunk j is child i of parent p.
<1> DEFINE ChildAt(j, p, i) == i \in 1 .. Len(ss[p]) /\ j = to[p] + i - 1 /\ ch[j] = ss[p][i]
<1>18. ASSUME NEW j \in 1 .. C PROVE \E p \in 1 .. N : \E i : ChildAt(j, p, i)
  <2>1. j \in 1 .. to[Len(ss) + 1] - 1
    BY <1>16
  <2>2. InTile(to, ss, j)
    BY <1>13, <1>17, <2>1, TilesCover
  <2>3. PICK p \in 1 .. N : \E i \in 1 .. Len(ss[p]) : j = to[p] + i - 1
    BY <1>12, <2>2 DEF InTile
  <2>4. PICK i \in 1 .. Len(ss[p]) : j = to[p] + i - 1
    BY <2>3
  <2>5. Apart(to, ss, ch, p, i)
    BY <1>12, <1>13, <1>17, TileApart
  <2>6. ch[j] = ss[p][i]
    BY <2>4, <2>5 DEF Apart
  <2> QED
    BY <2>4, <2>6
<1>19. PICK at : at = [j \in 1 .. C |-> UNION {Moved(al[x[1]][x[2]], lo[x[1]]) :
                          x \in {y \in (1 .. N) \X Nat : ChildAt(j, y[1], y[2])}}]
  OBVIOUS
<1>20. ASSUME NEW j \in 1 .. C, NEW p \in 1 .. N, NEW i, ChildAt(j, p, i)
       PROVE  at[j] = Moved(al[p][i], lo[p])
  <2>1. i \in Nat /\ i \in 1 .. Len(ss[p]) /\ j = to[p] + i - 1
    BY <1>12, <1>20
  <2>2. ASSUME NEW q \in 1 .. N, NEW k, ChildAt(j, q, k) PROVE q = p /\ k = i
    <3>1. k \in 1 .. Len(ss[q]) /\ j = to[q] + k - 1 /\ k \in Nat
      BY <1>12, <2>2
    <3>2. /\ j < j <=> (p < q \/ (p = q /\ i < k))
          /\ j < j <=> (q < p \/ (q = p /\ k < i))
      <4>1. (to[p] + i - 1 < to[q] + k - 1) <=> (p < q \/ (p = q /\ i < k))
        BY <1>12, <1>13, <1>17, <2>1, <3>1, TileOrder
      <4>2. (to[q] + k - 1 < to[p] + i - 1) <=> (q < p \/ (q = p /\ k < i))
        BY <1>12, <1>13, <1>17, <2>1, <3>1, TileOrder
      <4> QED
        BY <2>1, <3>1, <4>1, <4>2
    <3>3. ~ (j < j) /\ p \in Nat /\ q \in Nat
      BY <1>5, <1>16
    <3>4. ~ (p < q) /\ ~ (q < p)
      BY <3>2, <3>3
    <3>5. p = q
      BY <3>3, <3>4
    <3>6. ~ (i < k) /\ ~ (k < i)
      BY <3>2, <3>3, <3>5
    <3> QED
      BY <2>1, <3>1, <3>5, <3>6
  <2>3. PICK X : X = {y \in (1 .. N) \X Nat : ChildAt(j, y[1], y[2])}
    OBVIOUS
  <2>4. PICK z : z = <<p, i>>
    OBVIOUS
  <2>41. z[1] = p /\ z[2] = i
    BY <2>4
  <2>5. z \in X
    BY <1>20, <2>1, <2>3, <2>4, <2>41
  <2>6. ASSUME NEW y \in X PROVE y[1] = p /\ y[2] = i
    BY <2>2, <2>3
  <2>7. UNION {Moved(al[x[1]][x[2]], lo[x[1]]) : x \in X} = Moved(al[p][i], lo[p])
    <3> HIDE DEF ChildAt
    <3> QED
      BY <2>41, <2>5, <2>6
  <2>8. at[j] = UNION {Moved(al[x[1]][x[2]], lo[x[1]]) : x \in X}
    <3> HIDE DEF ChildAt
    <3> QED
      BY <1>19, <2>3
  <2> QED
    BY <2>7, <2>8
<1>21. ASSUME NEW p \in 1 .. N PROVE Holds(doc, U, s, gs[p], lo[p])
  <2>1. PICK g, a, b, l : g = gs[p] /\ a = lo[p] /\ b = lo[p + 1] /\ l = Len(g) /\ g \in Seq(U) /\ l \in Nat
    BY <1>5
  <2>2. /\ lo \in [1 .. N + 1 -> Nat] /\ lo[1] = 1 /\ b = a + l
        /\ \A k \in 1 .. l : g[k] = s[a + k - 1]
    BY <1>4, <1>5, <2>1 DEF Tiles
  <2>3. /\ p \in 1 .. N + 1 /\ p + 1 \in 1 .. N + 1 /\ 1 \in 1 .. N + 1 /\ N + 1 \in 1 .. N + 1
        /\ 1 <= p /\ p + 1 <= N + 1
    BY <1>5
  <2>4. a \in Nat /\ b \in Nat
    BY <2>1, <2>2, <2>3
  <2>5. lo[1] <= lo[p]
    BY <1>41, <1>5, <2>3, TilesInOrder
  <2>6. lo[p + 1] <= lo[N + 1]
    BY <1>41, <1>5, <2>3, TilesInOrder
  <2>7. lo[N + 1] = L + 1
    BY <1>4, <1>5, <1>6
  <2>8. 1 <= a /\ b <= L + 1
    BY <2>1, <2>2, <2>5, <2>6, <2>7
  <2>9. a + l - 1 <= L
    BY <1>6, <2>1, <2>2, <2>4, <2>8
  <2>10. Fair(doc, MaxTokens, g)
    BY <1>3, <1>5, <2>1
  <2> QED
    BY <1>6, <2>1, <2>2, <2>4, <2>8, <2>9, <2>10 DEF Holds, From
<1>22. ASSUME NEW j \in 1 .. C PROVE Chunked(doc, U, s, ch[j], at[j])
  <2>1. PICK p \in 1 .. N : \E i : ChildAt(j, p, i)
    BY <1>18
  <2>2. PICK i : ChildAt(j, p, i)
    BY <2>1
  <2>3. at[j] = Moved(al[p][i], lo[p])
    BY <1>20, <2>2
  <2>4. PICK parent, a, c, spot, f : /\ parent = gs[p] /\ a = lo[p] /\ c = ch[j] /\ spot = al[p][i]
                                     /\ f = al[p]
    OBVIOUS
  <2>5. Brood(ss[p], gs[p], al[p])
    BY <1>10
  <2>6. spot \subseteq 1 .. Len(parent) /\ Citing(c, parent) /\ Holding(c, parent, spot)
    BY <2>2, <2>4, <2>5 DEF Brood
  <2>7. Holds(doc, U, s, parent, a)
    BY <1>21, <2>4
  <2>8. Chunked(doc, U, s, c, Moved(spot, a))
    BY <2>6, <2>7, ChildChunked
  <2> QED
    BY <2>3, <2>4, <2>8
<1>23. ASSUME NEW h \in 1 .. C, NEW j \in 1 .. C, h < j, NEW q \in at[h], NEW r \in at[j] PROVE q < r
  <2>1. PICK p \in 1 .. N : \E i : ChildAt(h, p, i)
    BY <1>18
  <2>2. PICK i : ChildAt(h, p, i)
    BY <2>1
  <2>3. PICK t \in 1 .. N : \E k : ChildAt(j, t, k)
    BY <1>18
  <2>4. PICK k : ChildAt(j, t, k)
    BY <2>3
  <2>5. at[h] = Moved(al[p][i], lo[p]) /\ at[j] = Moved(al[t][k], lo[t])
    BY <1>20, <2>2, <2>4
  <2>6. PICK x \in al[p][i] : q = lo[p] + x - 1
    BY <2>5 DEF Moved
  <2>7. PICK y \in al[t][k] : r = lo[t] + y - 1
    BY <2>5 DEF Moved
  <2>8. Brood(ss[p], gs[p], al[p]) /\ Brood(ss[t], gs[t], al[t])
    BY <1>10
  <2>9. x \in 1 .. Len(gs[p]) /\ y \in 1 .. Len(gs[t])
    BY <2>2, <2>4, <2>6, <2>7, <2>8 DEF Brood
  <2>10. p < t \/ (p = t /\ i < k)
    BY <1>12, <1>13, <1>17, <1>23, <2>2, <2>4, TileOrder
  <2>11. p = t /\ i < k => x < y
    BY <2>2, <2>4, <2>6, <2>7, <2>8 DEF Brood
  <2>12. p < t \/ (p = t /\ x < y)
    BY <2>10, <2>11
  <2>13. lo[p] + x - 1 < lo[t] + y - 1
    BY <1>41, <1>5, <2>9, <2>12, TileOrder
  <2> QED
    BY <2>6, <2>7, <2>13
<1>24. ASSUME NEW q \in 1 .. L PROVE \E j \in 1 .. C : q \in at[j]
  <2>1. q \in 1 .. lo[Len(gs) + 1] - 1
    BY <1>6
  <2>2. InTile(lo, gs, q)
    BY <1>41, <2>1, TilesCover
  <2>3. PICK p \in 1 .. N : \E x \in 1 .. Len(gs[p]) : q = lo[p] + x - 1
    BY <1>5, <2>2 DEF InTile
  <2>4. PICK x \in 1 .. Len(gs[p]) : q = lo[p] + x - 1
    BY <2>3
  <2>5. Brood(ss[p], gs[p], al[p])
    BY <1>10
  <2>6. PICK i \in 1 .. Len(ss[p]) : x \in al[p][i]
    BY <2>4, <2>5 DEF Brood
  <2>7. PICK j : j = to[p] + i - 1
    OBVIOUS
  <2>8. Apart(to, ss, ch, p, i)
    BY <1>12, <1>13, <1>17, TileApart
  <2>9. j \in 1 .. C /\ ch[j] = ss[p][i]
    BY <1>16, <2>7, <2>8 DEF Apart
  <2>10. at[j] = Moved(al[p][i], lo[p])
    BY <1>20, <2>7, <2>9
  <2>11. q \in at[j]
    BY <2>4, <2>6, <2>10 DEF Moved
  <2> QED
    BY <2>9, <2>11
<1>25. DOMAIN ch = 1 .. C
  BY <1>15, <1>16
<1>26. Placement(doc, U, s, ch, at)
  BY <1>6, <1>16, <1>22, <1>23, <1>24, <1>25 DEF Placement
<1> QED
  BY <1>1, <1>26

-----------------------------------------------------------------------------
(* Chunks and lines *)

LEMMA AtMostTwo ==
    ASSUME NEW N \in Nat, NEW S \in SUBSET (1 .. N),
           \A a, b, c \in S : a < b => ~ (b < c)
    PROVE  Cardinality(S) <= 2
<1>1. IsFiniteSet(S)
  <2>1. IsFiniteSet(1 .. N)
    BY FS_Interval
  <2> QED
    BY <2>1, FS_Subset
<1>2. CASE S = {}
  BY <1>2, FS_EmptySet
<1>3. CASE S # {}
  <2>1. PICK a : a \in S
    BY <1>3
  <2>2. \A b, c \in S : a = b \/ a = c \/ b = c
    <3>1. \A x \in S : x \in Nat
      OBVIOUS
    <3>2. ASSUME NEW b \in S, NEW c \in S, a # b, a # c, b # c PROVE FALSE
      <4>1. a \in Nat /\ b \in Nat /\ c \in Nat
        BY <2>1, <3>1
      <4>2. \/ (a < b /\ b < c) \/ (a < c /\ c < b) \/ (b < a /\ a < c)
            \/ (b < c /\ c < a) \/ (c < a /\ a < b) \/ (c < b /\ b < a)
        BY <3>2, <4>1
      <4> QED
        BY <2>1, <4>2
    <3> QED
      BY <3>2
  <2>3. IsFiniteSet(S \ {a}) /\ Cardinality(S \ {a}) = Cardinality(S) - 1 /\ Cardinality(S) \in Nat
    BY <1>1, <2>1, FS_RemoveElement, FS_CardinalityType
  <2>4. CASE S \ {a} = {}
    <3>1. Cardinality(S \ {a}) = 0
      BY <2>4, FS_EmptySet
    <3> QED
      BY <2>3, <3>1
  <2>5. CASE S \ {a} # {}
    <3>1. PICK b : b \in S \ {a}
      BY <2>5
    <3>2. S \ {a} = {b}
      BY <2>2, <3>1
    <3>3. Cardinality(S \ {a}) = 1
      BY <3>2, FS_Singleton
    <3> QED
      BY <2>3, <3>3
  <2> QED
    BY <2>4, <2>5
<1> QED
  BY <1>2, <1>3

\* A sequence of numbers that goes on by one at most passes every number on its way.
LEMMA NoneSkipped ==
    ASSUME NEW L \in Nat, 1 <= L, NEW f \in [1 .. L -> Nat],
           \A k \in 1 .. L : k + 1 \in 1 .. L => f[k + 1] <= f[k] + 1,
           NEW v \in f[1] .. f[L]
    PROVE  \E k \in 1 .. L : f[k] = v
<1> DEFINE P == {n \in 0 .. L - 1 : v <= f[n + 1] => \E k \in 1 .. L : f[k] = v}
<1>0. PICK N : N = L - 1
  OBVIOUS
<1>1. /\ N \in Nat /\ N + 1 = L /\ 1 \in 1 .. L /\ L \in 1 .. L /\ 0 + 1 = 1
      /\ \A n \in 0 .. N : n + 1 \in 1 .. L
  BY <1>0
<1>2. f[1] \in Nat /\ f[L] \in Nat
  BY <1>1
<1>3. v \in Nat /\ f[1] <= v /\ v <= f[L]
  BY <1>2
<1>4. 0 \in P
  <2>1. v <= f[1] => f[1] = v
    BY <1>2, <1>3
  <2> QED
    BY <1>0, <1>1, <2>1
<1>5. ASSUME NEW n \in 1 .. N, n - 1 \in P PROVE n \in P
  <2>1. PICK a, b : a = f[n] /\ b = f[n + 1]
    OBVIOUS
  <2>2. n \in 1 .. L /\ n + 1 \in 1 .. L /\ n - 1 + 1 = n
    BY <1>1
  <2>3. a \in Nat /\ b \in Nat /\ b <= a + 1
    BY <2>1, <2>2
  <2>4. v <= a => \E k \in 1 .. L : f[k] = v
    BY <1>5, <2>1, <2>2
  <2>5. v <= b => v <= a \/ v = b
    BY <1>3, <2>3
  <2>6. v <= f[n + 1] => \E k \in 1 .. L : f[k] = v
    BY <2>1, <2>2, <2>4, <2>5
  <2> QED
    BY <1>0, <1>1, <2>6
<1>6. N \in P
  <2> HIDE DEF P
  <2>1. \A n \in 1 .. N : n - 1 \in P => n \in P
    BY <1>5
  <2>2. 0 .. N \subseteq P
    BY <1>1, <1>4, <2>1, AlongPrefixes
  <2> QED
    BY <1>1, <2>2
<1> QED
  BY <1>1, <1>3, <1>6

\* No sentence is lost, and at most two chunks hold it.
Indexed(B, chunks) ==
    LET lines == UNION {Range(b.text) : b \in {b \in Range(B) : b.kind # "heading"}} IN
    /\ UNION {Range(c.text) : c \in Range(chunks)} = lines
    /\ \A n \in lines : Cardinality({i \in DOMAIN chunks : n \in Range(chunks[i].text)}) <= 2

LEMMA SentencesIndexed ==
    ASSUME NEW doc, NEW K, NEW M, NEW U, NEW B, NEW body, NEW s, NEW chunks, NEW at,
           body \in Seq(Parts(K, M)), \A b : b \in Range(body) <=> b \in Range(B) /\ b.kind # "heading",
           Unitary(K, M, body, s), Placement(doc, U, s, chunks, at)
    PROVE  Indexed(B, chunks)
<1>1. PICK L : L = Len(s) /\ L \in Nat
  <2>1. s \in Seq(Units(K, M))
    BY DEF Unitary
  <2> QED
    BY <2>1
<1>2. PICK C : C = Len(chunks) /\ C \in Nat /\ DOMAIN chunks = 1 .. C
  <2>1. Len(chunks) \in Nat /\ DOMAIN chunks = 1 .. Len(chunks)
    BY DEF Placement
  <2> QED
    BY <2>1
<1>3. PICK lines : lines = UNION {Range(b.text) : b \in {b \in Range(B) : b.kind # "heading"}}
  OBVIOUS
<1>4. \A n : n \in lines <=> \E o \in 1 .. Len(body) : n \in Range(body[o].text)
  <2>1. PICK T : T = Parts(K, M) /\ body \in Seq(T)
    OBVIOUS
  <2>2. \A b : b \in Range(body) <=> \E o \in 1 .. Len(body) : b = body[o]
    BY <2>1 DEF Range
  <2>3. \A n : n \in lines <=> \E b : b \in Range(body) /\ n \in Range(b.text)
    BY <1>3
  <2> QED
    BY <2>2, <2>3
<1>5. ASSUME NEW j \in 1 .. C
      PROVE  /\ at[j] \subseteq 1 .. L
             /\ \A n : n \in Range(chunks[j].text) <=> \E q \in at[j] : n \in Range(s[q].text)
  BY <1>1, <1>2 DEF Placement, Chunked, Holding
<1>6. /\ \A i, j \in 1 .. C : i < j => \A q \in at[i], r \in at[j] : q < r
      /\ \A q \in 1 .. L : \E j \in 1 .. C : q \in at[j]
  BY <1>1, <1>2 DEF Placement
<1>7. ASSUME NEW n, NEW j \in 1 .. C, n \in Range(chunks[j].text) PROVE n \in lines
  <2>1. PICK q \in at[j] : n \in Range(s[q].text)
    BY <1>5, <1>7
  <2>2. q \in 1 .. L
    BY <1>5
  <2>3. PICK o \in 1 .. Len(body) : Range(s[q].text) \subseteq Range(body[o].text)
    BY <1>1, <2>2 DEF Unitary
  <2> QED
    BY <1>4, <2>1, <2>3
<1>8. ASSUME NEW n \in lines PROVE \E j \in 1 .. C : n \in Range(chunks[j].text)
  <2>1. PICK o \in 1 .. Len(body) : n \in Range(body[o].text)
    BY <1>4
  <2>2. PICK q \in 1 .. L : n \in Range(s[q].text)
    BY <1>1, <2>1 DEF Unitary
  <2>3. PICK j \in 1 .. C : q \in at[j]
    BY <1>6
  <2> QED
    BY <1>5, <2>2, <2>3
<1>9. UNION {Range(c.text) : c \in Range(chunks)} = lines
  <2>1. \A c : c \in Range(chunks) <=> \E j \in 1 .. C : c = chunks[j]
    BY <1>2 DEF Range
  <2>2. \A n : n \in UNION {Range(c.text) : c \in Range(chunks)}
                 <=> \E j \in 1 .. C : n \in Range(chunks[j].text)
    BY <2>1
  <2> QED
    BY <1>7, <1>8, <2>2
<1>10. ASSUME NEW n \in lines
       PROVE  Cardinality({i \in DOMAIN chunks : n \in Range(chunks[i].text)}) <= 2
  <2>1. PICK S : S = {i \in 1 .. C : n \in Range(chunks[i].text)}
    OBVIOUS
  <2>2. ASSUME NEW a \in S, NEW b \in S, NEW c \in S, a < b, b < c PROVE FALSE
    <3>0. a \in 1 .. C /\ b \in 1 .. C /\ c \in 1 .. C
      BY <2>1
    <3>1. PICK q \in at[a] : n \in Range(s[q].text)
      BY <1>5, <2>1
    <3>2. PICK r \in at[b] : n \in Range(s[r].text)
      BY <1>5, <2>1
    <3>3. PICK t \in at[c] : n \in Range(s[t].text)
      BY <1>5, <2>1
    <3>4. q \in 1 .. L /\ r \in 1 .. L /\ t \in 1 .. L
      BY <1>5, <3>0
    <3>5. q < r /\ r < t
      BY <1>6, <2>2, <3>0
    <3>6. q < t
      BY <1>1, <3>4, <3>5
    <3>7. q + 1 = r /\ q + 1 = t
      BY <1>1, <3>1, <3>2, <3>3, <3>4, <3>5, <3>6 DEF Unitary
    <3> QED
      BY <1>1, <3>4, <3>5, <3>7
  <2>3. Cardinality(S) <= 2
    <3>1. S \in SUBSET (1 .. C)
      BY <2>1
    <3>2. \A a, b, c \in S : a < b => ~ (b < c)
      BY <2>2
    <3> QED
      BY <1>2, <3>1, <3>2, AtMostTwo
  <2>4. S = {i \in DOMAIN chunks : n \in Range(chunks[i].text)}
    BY <1>2, <2>1
  <2> QED
    BY <2>3, <2>4
<1> QED
  BY <1>3, <1>9, <1>10 DEF Indexed

\* The number of the paragraph a line is in.
ParagraphIn(B, n) == CHOOSE i \in DOMAIN Body(B) : n \in Range(Body(B)[i].text)

\* What a chunk gives the model is one section with its citation.
Citable(doc, B, c) ==
    /\ Range(c.text) \subseteq Range(c.context)
    /\ \A n \in Range(c.context) : /\ c.headings = HeadedBy(B, n)
                                   /\ c.locator.section = _path(HeadedBy(B, n))
    /\ {ParagraphIn(B, n) : n \in Range(c.context)} = c.locator.paragraphs[1] .. c.locator.paragraphs[2]
    /\ estimate_tokens(doc, c.context) > MaxTokens =>
         \A n \in Range(c.context) : ParagraphIn(B, n) = c.locator.paragraphs[1]

Numbered(B, body) == \A o \in 1 .. Len(body) : \A n \in Range(body[o].text) : ParagraphIn(B, n) = o

LEMMA ParagraphFound ==
    ASSUME NEW K, NEW M, M \subseteq Nat, NEW B, NEW body, body = Body(B), body \in Seq(Parts(K, M)),
           NEW m, Shaped(body, m)
    PROVE  Numbered(B, body)
<1> SUFFICES ASSUME NEW o \in 1 .. Len(body), NEW n \in Range(body[o].text)
             PROVE  ParagraphIn(B, n) = o
  BY DEF Numbered
<1>1. PICK T : T = Parts(K, M) /\ body \in Seq(T)
  OBVIOUS
<1>2. Len(body) \in Nat /\ DOMAIN body = 1 .. Len(body) /\ \A i \in 1 .. Len(body) : body[i] \in T
  BY <1>1
<1>3. ASSUME NEW i \in 1 .. Len(body), n \in Range(body[i].text) PROVE i = o
  <2>1. n \in Nat
    <3>1. body[o].text \in Seq(M)
      BY <1>1, <1>2 DEF Parts
    <3>2. n \in M
      BY <3>1, RangeIn
    <3> QED
      BY <3>2
  <2>2. i < o => n < n
    BY <1>3 DEF Shaped
  <2>3. o < i => n < n
    BY <1>3 DEF Shaped
  <2>4. ~ (i < o) /\ ~ (o < i)
    BY <2>1, <2>2, <2>3
  <2> QED
    BY <1>2, <2>4
<1>4. \A i \in DOMAIN body : n \in Range(body[i].text) <=> i = o
  BY <1>2, <1>3
<1> DEFINE found == CHOOSE i \in DOMAIN body : n \in Range(body[i].text)
<1>5. ParagraphIn(B, n) = found
  BY DEF ParagraphIn
<1>6. found \in DOMAIN body /\ n \in Range(body[found].text)
  <2>1. \E i \in DOMAIN body : n \in Range(body[i].text)
    BY <1>2
  <2> QED
    BY <2>1
<1> HIDE DEF found
<1>7. found = o
  BY <1>4, <1>6
<1> QED
  BY <1>5, <1>7

LEMMA ContextCitable ==
    ASSUME NEW K, NEW M, M \subseteq Nat, NEW doc, NEW mode, NEW B, LinesHeaded(doc, mode, B),
           NEW body, body = Body(B), body \in Seq(Parts(K, M)), NEW m, Shaped(body, m),
           \A b : b \in Range(body) <=> b \in Range(B) /\ b.kind # "heading",
           NEW U, U = Units(K, M), NEW s, Unitary(K, M, body, s),
           NEW c, NEW spot, Chunked(doc, U, s, c, spot)
    PROVE  Citable(doc, B, c)
<1>1. PICK parent, e : /\ Holds(doc, U, s, parent, e) /\ Citing(c, parent)
                       /\ spot \subseteq e .. e + Len(parent) - 1
  BY DEF Chunked
<1>2. PICK L, N, O : L = Len(parent) /\ N = Len(s) /\ O = [k \in 1 .. L |-> parent[k].ordinal]
  OBVIOUS
<1>3. parent \in Seq(U) /\ s \in Seq(U)
  BY <1>1 DEF Holds, Unitary
<1>4. L \in Nat /\ N \in Nat /\ e \in Nat /\ 1 <= e /\ e + L - 1 <= N
  BY <1>1, <1>2, <1>3 DEF Holds
<1>5. parent # << >> /\ OneSection(parent) /\ (L # 1 => ~ (estimate_tokens(doc, TextOf(parent)) > MaxTokens))
  BY <1>1, <1>2 DEF Holds, Fair
<1>6. 1 \in 1 .. L /\ L \in 1 .. L /\ 1 <= L
  <2>1. L # 0
    BY <1>2, <1>3, <1>5
  <2> QED
    BY <1>4, <2>1
<1>7. Head(parent) = parent[1] /\ Last(parent) = parent[L]
  BY <1>2, <1>3, <1>5 DEF Last
<1>8. ASSUME NEW k \in 1 .. L PROVE e + k - 1 \in 1 .. N /\ parent[k] = s[e + k - 1]
  <2>1. parent[k] = s[e + k - 1]
    BY <1>1, <1>2 DEF Holds, From
  <2> QED
    BY <1>4, <2>1
<1>9. ASSUME NEW k \in 1 .. L
      PROVE  /\ O[k] \in 1 .. Len(body) /\ parent[k].text # << >>
             /\ parent[k].headings = body[O[k]].headings
             /\ Range(parent[k].text) \subseteq Range(body[O[k]].text)
  <2>1. PICK q : q = e + k - 1 /\ q \in 1 .. N /\ parent[k] = s[q]
    BY <1>8
  <2>2. PICK o \in 1 .. Len(body) : /\ s[q].ordinal = o /\ s[q].text # << >>
                                    /\ s[q].headings = body[o].headings
                                    /\ Range(s[q].text) \subseteq Range(body[o].text)
    <3>1. q \in 1 .. Len(s)
      BY <1>2, <2>1
    <3> QED
      BY <3>1 DEF Unitary
  <2>3. O[k] = o
    BY <1>2, <2>1, <2>2
  <2> QED
    BY <2>1, <2>2, <2>3
<1>10. /\ c.context = TextOf(parent) /\ c.headings = parent[1].headings
       /\ c.locator.section = _path(parent[1].headings)
       /\ c.locator.paragraphs[1] = O[1] /\ c.locator.paragraphs[2] = O[L]
  <2>1. c.context = TextOf(parent) /\ c.locator = locator_for(parent) /\ c.headings = parent[1].headings
    BY <1>1 DEF Citing
  <2>2. O[1] = parent[1].ordinal /\ O[L] = parent[L].ordinal
    BY <1>2, <1>6
  <2> QED
    BY <1>7, <2>1, <2>2 DEF locator_for
<1>11. \A n : n \in Range(c.context) <=> \E k \in 1 .. L : n \in Range(parent[k].text)
  <2>1. \A n : n \in Range(TextOf(parent)) <=> \E k \in 1 .. Len(parent) : n \in Range(parent[k].text)
    BY <1>3, TextHeld
  <2> QED
    BY <1>2, <1>10, <2>1
<1>12. ASSUME NEW k \in 1 .. L, NEW n \in Range(parent[k].text)
       PROVE  ParagraphIn(B, n) = O[k] /\ parent[1].headings = HeadedBy(B, n)
  <2>1. PICK o : o = O[k] /\ o \in 1 .. Len(body) /\ n \in Range(body[o].text)
    BY <1>9
  <2>11. Numbered(B, body)
    BY ParagraphFound
  <2>2. ParagraphIn(B, n) = o
    BY <2>1, <2>11 DEF Numbered
  <2>3. body[o] \in Range(B) /\ body[o].kind # "heading"
    <3>1. PICK T : T = Parts(K, M) /\ body \in Seq(T)
      OBVIOUS
    <3>2. body[o] \in Range(body)
      BY <2>1, <3>1 DEF Range
    <3> QED
      BY <3>2
  <2>4. body[o].headings = HeadedBy(B, n)
    BY <2>1, <2>3 DEF LinesHeaded
  <2>5. parent[k].headings = body[o].headings
    BY <1>9, <2>1
  <2>6. parent[1].headings = parent[k].headings
    BY <1>2, <1>5, <1>6 DEF OneSection
  <2> QED
    BY <2>1, <2>2, <2>4, <2>5, <2>6
<1>13. Range(c.text) \subseteq Range(c.context)
  <2>1. ASSUME NEW n \in Range(c.text) PROVE n \in Range(c.context)
    <3>1. PICK q \in spot : n \in Range(s[q].text)
      BY <2>1 DEF Chunked, Holding
    <3>2. q \in e .. e + L - 1
      BY <1>1, <1>2
    <3>3. PICK k : k = q - e + 1 /\ k \in 1 .. L /\ e + k - 1 = q
      <4>1. q - e + 1 \in 1 .. L /\ e + (q - e + 1) - 1 = q
        BY <1>4, <3>2
      <4> QED
        BY <4>1
    <3>4. parent[k] = s[q]
      BY <1>8, <3>3
    <3> QED
      BY <1>11, <3>1, <3>3, <3>4
  <2> QED
    BY <2>1
<1>14. ASSUME NEW n \in Range(c.context)
       PROVE  c.headings = HeadedBy(B, n) /\ c.locator.section = _path(HeadedBy(B, n))
  <2>1. PICK k \in 1 .. L : n \in Range(parent[k].text)
    BY <1>11
  <2>2. parent[1].headings = HeadedBy(B, n)
    BY <1>12, <2>1
  <2> QED
    BY <1>10, <2>2
<1>15. ASSUME NEW k \in 1 .. L PROVE \E n \in Range(c.context) : ParagraphIn(B, n) = O[k]
  <2>1. parent[k].text \in Seq(M) /\ parent[k].text # << >>
    <3>1. parent[k] \in U
      BY <1>2, <1>3
    <3> QED
      BY <1>9, <3>1 DEF Units
  <2>2. PICK n : n \in Range(parent[k].text)
    BY <2>1, FirstIn
  <2> QED
    BY <1>11, <1>12, <2>2
<1>16. O \in [1 .. L -> Nat]
  <2>1. Len(body) \in Nat
    <3>1. PICK T : T = Parts(K, M) /\ body \in Seq(T)
      OBVIOUS
    <3> QED
      BY <3>1
  <2>2. \A k \in 1 .. L : O[k] \in Nat
    BY <1>9, <2>1
  <2> QED
    BY <1>2, <2>2
<1>17. ASSUME NEW j \in 1 .. L, NEW k \in 1 .. L, j < k
       PROVE  O[j] <= O[k] /\ (j + 1 = k => O[k] <= O[j] + 1)
  <2>1. PICK q, r : q = e + j - 1 /\ r = e + k - 1
    OBVIOUS
  <2>2. /\ q \in 1 .. N /\ r \in 1 .. N /\ parent[j] = s[q] /\ parent[k] = s[r]
    BY <1>8, <2>1
  <2>3. q < r /\ (j + 1 = k => q + 1 = r)
    BY <1>4, <1>17, <2>1
  <2>4. s[q].ordinal <= s[r].ordinal /\ (q + 1 = r => s[r].ordinal <= s[q].ordinal + 1)
    BY <1>2, <2>2, <2>3 DEF Unitary
  <2>5. O[j] = s[q].ordinal /\ O[k] = s[r].ordinal
    BY <1>2, <2>2
  <2> QED
    BY <2>3, <2>4, <2>5
<1>18. {ParagraphIn(B, n) : n \in Range(c.context)} = O[1] .. O[L]
  <2>1. ASSUME NEW n \in Range(c.context) PROVE ParagraphIn(B, n) \in O[1] .. O[L]
    <3>1. PICK k \in 1 .. L : n \in Range(parent[k].text)
      BY <1>11
    <3>2. ParagraphIn(B, n) = O[k]
      BY <1>12, <3>1
    <3>3. O[1] \in Nat /\ O[L] \in Nat /\ O[k] \in Nat
      BY <1>6, <1>16
    <3>4. O[1] <= O[k]
      <4>1. 1 < k => O[1] <= O[k]
        BY <1>6, <1>17
      <4>2. 1 < k \/ k = 1
        BY <1>4
      <4> QED
        BY <3>3, <4>1, <4>2
    <3>5. O[k] <= O[L]
      <4>1. k < L => O[k] <= O[L]
        BY <1>6, <1>17
      <4>2. k < L \/ k = L
        BY <1>4
      <4> QED
        BY <3>3, <4>1, <4>2
    <3> QED
      BY <3>2, <3>3, <3>4, <3>5
  <2>2. ASSUME NEW v \in O[1] .. O[L] PROVE \E n \in Range(c.context) : ParagraphIn(B, n) = v
    <3>1. \A k \in 1 .. L : k + 1 \in 1 .. L => O[k + 1] <= O[k] + 1
      <4>1. ASSUME NEW k \in 1 .. L, k + 1 \in 1 .. L PROVE O[k + 1] <= O[k] + 1
        <5>1. PICK j : j = k + 1 /\ j \in 1 .. L /\ k < j
          BY <1>4, <4>1
        <5> QED
          BY <1>17, <5>1
      <4> QED
        BY <4>1
    <3>2. PICK k \in 1 .. L : O[k] = v
      BY <1>4, <1>6, <1>16, <3>1, NoneSkipped
    <3> QED
      BY <1>15, <3>2
  <2> QED
    BY <2>1, <2>2
<1>19. ASSUME estimate_tokens(doc, c.context) > MaxTokens, NEW n \in Range(c.context)
       PROVE  ParagraphIn(B, n) = O[1]
  <2>1. L = 1
    BY <1>5, <1>10, <1>19
  <2>2. PICK k \in 1 .. L : n \in Range(parent[k].text)
    BY <1>11
  <2>3. k = 1
    BY <2>1
  <2> QED
    BY <1>12, <2>2, <2>3
<1> QED
  BY <1>10, <1>13, <1>14, <1>18, <1>19 DEF Citable

\* What parse_and_chunk makes of a document.
Indexable(doc, mode, B, chunks) ==
    /\ LinesHeaded(doc, mode, B) /\ Indexed(B, chunks)
    /\ \A c \in Range(chunks) : Citable(doc, B, c)

LEMMA DocumentIndexable ==
    ASSUME NEW K, NEW doc \in Seq(Lines(K)), NEW mode, NEW pages \in Seq(Seq(DOMAIN doc)),
           FlattenSeq(pages) = [n \in DOMAIN doc |-> n],
           NEW B, B = blocks_of(doc, mode, pages), NEW chunks, chunks = chunk_document(doc, B)
    PROVE  Indexable(doc, mode, B, chunks)
<1>1. PICK M : M = DOMAIN doc
  OBVIOUS
<1>2. M \subseteq Nat
  <2>1. PICK T : T = Lines(K) /\ doc \in Seq(T)
    OBVIOUS
  <2> QED
    BY <1>1, <2>1
<1>3. Blocked(K, M, doc, mode, B)
  <2>1. pages \in Seq(Seq(M))
    BY <1>1
  <2>2. Blocked(K, M, doc, mode, blocks_of(doc, mode, pages))
    BY <1>1, <2>1, DocumentBuilt
  <2> QED
    BY <2>2
<1>4. LinesHeaded(doc, mode, B)
  BY <1>1, <1>2, <1>3, BlocksHeaded
<1>5. PICK m : m = Len(doc) /\ Shaped(B, m)
  BY <1>3 DEF Blocked
<1>6. B \in Seq(Parts(K, M))
  BY <1>3 DEF Blocked
<1>7. PICK body : body = Body(B)
  OBVIOUS
<1>8. /\ body \in Seq(Parts(K, M)) /\ Shaped(body, m)
      /\ \A b : b \in Range(body) <=> b \in Range(B) /\ b.kind # "heading"
  BY <1>5, <1>6, <1>7, BodyShaped
<1>9. PICK s, U : s = split_units(doc, B) /\ U = Units(K, M)
  OBVIOUS
<1>10. Unitary(K, M, body, s)
  <2>1. Unitary(K, M, body, split_units(doc, B))
    BY <1>2, <1>7, <1>8, UnitsSplit
  <2> QED
    BY <1>9, <2>1
<1>11. s \in Seq(U)
  BY <1>9, <1>10 DEF Unitary
<1>12. PICK at : Placement(doc, U, s, chunks, at)
  <2>1. \E at : Placement(doc, U, s, chunk_document(doc, B), at)
    BY <1>9, <1>11, ChunksPlaced
  <2> QED
    BY <2>1
<1>13. Indexed(B, chunks)
  BY <1>8, <1>10, <1>12, SentencesIndexed
<1>14. ASSUME NEW c \in Range(chunks) PROVE Citable(doc, B, c)
  <2>1. PICK j \in 1 .. Len(chunks) : c = chunks[j]
    BY <1>12 DEF Placement, Range
  <2>2. PICK spot : spot = at[j]
    OBVIOUS
  <2>3. Chunked(doc, U, s, c, spot)
    BY <1>12, <2>1, <2>2 DEF Placement
  <2> QED
    BY <1>2, <1>4, <1>7, <1>8, <1>9, <1>10, <2>3, ContextCitable
<1> QED
  BY <1>4, <1>13, <1>14 DEF Indexable

LEMMA DocumentHonest ==
    ASSUME parse_and_chunk
    PROVE  LinesKeepTheirHeadings' /\ EverySentenceIsIndexed' /\ ContextIsOneCitableSection'
<1>1. PICK d \in Documents :
        input' = [kind |-> "document", lines |-> d[1], mode |-> d[2], pages |-> d[3],
                  blocks |-> blocks_of(d[1], d[2], d[3]),
                  chunks |-> chunk_document(d[1], blocks_of(d[1], d[2], d[3]))]
  BY DEF parse_and_chunk
<1>2. PICK doc, mode, pages : doc = d[1] /\ mode = d[2] /\ pages = d[3]
  OBVIOUS
<1>3. PICK B : B = blocks_of(doc, mode, pages)
  OBVIOUS
<1>4. PICK chunks : chunks = chunk_document(doc, B)
  OBVIOUS
<1>5. /\ input'.lines = doc /\ input'.mode = mode /\ input'.blocks = B /\ input'.chunks = chunks
  BY <1>1, <1>2, <1>3, <1>4
<1>6. PICK K : K = STRING
  OBVIOUS
<1>7. Line = Lines(K)
  BY <1>6 DEF Line, Lines
<1>8. doc \in Seq(Lines(K)) /\ pages \in Seq(Seq(DOMAIN doc)) /\ FlattenSeq(pages) = [n \in DOMAIN doc |-> n]
  BY <1>2, <1>7, DocumentsAssumption
<1>9. Indexable(doc, mode, B, chunks)
  BY <1>3, <1>4, <1>8, DocumentIndexable
<1>10. \A n : Under(n)' = HeadedBy(B, n)
  BY <1>5 DEF Under, HeadedBy, OpenAt, Titles
<1>11. \A n : ParagraphOf(n)' = ParagraphIn(B, n)
  BY <1>5 DEF ParagraphOf, Paragraphs, ParagraphIn, Body
<1>12. LinesKeepTheirHeadings'
  BY <1>5, <1>9, <1>10 DEF LinesKeepTheirHeadings, Indexable, LinesHeaded
<1>13. EverySentenceIsIndexed'
  BY <1>5, <1>9 DEF EverySentenceIsIndexed, BodyLines, Indexable, Indexed
<1>14. ContextIsOneCitableSection'
  BY <1>5, <1>9, <1>10, <1>11 DEF ContextIsOneCitableSection, Indexable, Citable
<1> QED
  BY <1>12, <1>13, <1>14

\* DocumentsKeepTheirShape, for documents and pages of any size: parsing (parsing.py)
\* keeps every line of text once, in order and under its headings, and every table row
\* under its labels; chunking (chunking.py) indexes every sentence, none more than
\* twice, and gives the model one section with the paragraphs it cites.
THEOREM DocumentsShaped == Spec => []DocumentsKeepTheirShape
<1>1. Init => DocumentsKeepTheirShape
  BY DEF Init, DocumentsKeepTheirShape, LinesKeepTheirHeadings, EverySentenceIsIndexed,
         ContextIsOneCitableSection, RowsKeepTheirLabels, Is
<1>2. DocumentsKeepTheirShape /\ [Next]_input => DocumentsKeepTheirShape'
  <2> SUFFICES ASSUME DocumentsKeepTheirShape, [Next]_input PROVE DocumentsKeepTheirShape'
    OBVIOUS
  <2>1. CASE UNCHANGED input
    <3>0. input' = input
      BY <2>1
    <3>1. /\ LinesKeepTheirHeadings /\ EverySentenceIsIndexed
          /\ ContextIsOneCitableSection /\ RowsKeepTheirLabels
      BY DEF DocumentsKeepTheirShape
    <3>2. \A n : Under(n)' = Under(n) /\ ParagraphOf(n)' = ParagraphOf(n)
      BY <3>0 DEF Under, Paragraphs, ParagraphOf
    <3>3. LinesKeepTheirHeadings'
      BY <3>0, <3>1, <3>2 DEF LinesKeepTheirHeadings, Is
    <3>4. EverySentenceIsIndexed'
      BY <3>0, <3>1 DEF EverySentenceIsIndexed, BodyLines, Is
    <3>5. ContextIsOneCitableSection'
      <4>1. Is("document") => \A c \in Range(input.chunks) : Citable(input.lines, input.blocks, c)
        BY <3>1 DEF ContextIsOneCitableSection, Citable, HeadedBy, OpenAt, Titles, ParagraphIn,
                   Under, ParagraphOf, Paragraphs, Body
      <4>2. input'.kind = "document" =>
              \A c \in Range(input'.chunks) : Citable(input'.lines, input'.blocks, c)
        BY <3>0, <4>1 DEF Is
      <4> QED
        BY <4>2 DEF ContextIsOneCitableSection, Citable, HeadedBy, OpenAt, Titles, ParagraphIn,
                   Under, ParagraphOf, Paragraphs, Body, Is
    <3>6. RowsKeepTheirLabels'
      BY <3>0, <3>1 DEF RowsKeepTheirLabels, Is, Labelled, Shown
    <3> QED
      BY <3>3, <3>4, <3>5, <3>6 DEF DocumentsKeepTheirShape
  <2>2. ASSUME Next
        PROVE  \/ parse_and_chunk /\ input'.kind = "document"
               \/ find_tables /\ input'.kind = "page"
               \/ input'.kind \notin {"document", "page"}
    BY <2>2 DEF Next, parse_and_chunk, find_tables, ground, route, name_employee, build_gateway,
                read_stream, read_vectors, write_request
  <2>3. CASE parse_and_chunk /\ input'.kind = "document"
    <3>1. LinesKeepTheirHeadings' /\ EverySentenceIsIndexed' /\ ContextIsOneCitableSection'
      BY <2>3, DocumentHonest
    <3>2. RowsKeepTheirLabels'
      BY <2>3 DEF RowsKeepTheirLabels, Is
    <3> QED
      BY <3>1, <3>2 DEF DocumentsKeepTheirShape
  <2>4. CASE input'.kind # "document" /\ RowsKeepTheirLabels'
    <3>1. LinesKeepTheirHeadings' /\ EverySentenceIsIndexed' /\ ContextIsOneCitableSection'
      BY <2>4 DEF LinesKeepTheirHeadings, EverySentenceIsIndexed, ContextIsOneCitableSection, Is
    <3> QED
      BY <2>4, <3>1 DEF DocumentsKeepTheirShape
  <2>5. CASE find_tables /\ input'.kind = "page"
    <3>1. RowsKeepTheirLabels'
      BY <2>5, PageHonest
    <3>2. input'.kind # "document"
      BY <2>5
    <3> QED
      BY <2>4, <3>1, <3>2
  <2>6. CASE input'.kind \notin {"document", "page"}
    <3>1. RowsKeepTheirLabels'
      BY <2>6 DEF RowsKeepTheirLabels, Is
    <3> QED
      BY <2>4, <2>6, <3>1
  <2> QED
    BY <2>1, <2>2, <2>3, <2>5, <2>6
<1> QED
  BY <1>1, <1>2, PTL DEF Spec
=============================================================================
