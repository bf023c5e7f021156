-------------------------- MODULE AnsweringProofs --------------------------
(***************************************************************************)
(* For any chunks, permissions, documents re-indexed during the search,    *)
(* replies and verdicts: a model and the caller see only what the caller   *)
(* may read, sensitive text stays on the box, the sources are sound, and   *)
(* the better answer is shown.                                             *)
(***************************************************************************)
EXTENDS Answering, FiniteSetTheorems, SequenceTheorems, WellFoundedInduction, TLAPS

-----------------------------------------------------------------------------
(* The inductive invariant *)

Scope == scope_for(ask.perms)
Pcs == {"new", "embed", "query", "review", "answer", "escalate", "done", "failed"}
Searched == Pcs \ {"new", "embed", "query"}
Fields == {"pc", "kind", "perms", "held", "todo", "fused", "chunks", "misses", "first", "second",
           "shown", "cost", "ticket"}

\* The statements left are a suffix of those of the scope.
ChunksVector == <<"chunks", "vector">>
ChunksFts == <<"chunks", "fts">>
SecretVector == <<"confidential_chunks", "vector">>
SecretFts == <<"confidential_chunks", "fts">>

PublicTodo ==
    {<<ChunksVector, ChunksFts>>, <<ChunksFts>>, << >>}
SecretTodo ==
    {<<ChunksVector, ChunksFts, SecretVector, SecretFts>>,
     <<ChunksFts, SecretVector, SecretFts>>, <<SecretVector, SecretFts>>, <<SecretFts>>, << >>}

TodoInv ==
    /\ ask.pc = "query" =>
         ask.todo \in IF Scope.confidential = {} THEN PublicTodo ELSE SecretTodo
    /\ ask.pc \in {"new", "embed"} => ask.fused = << >>

\* How many statements were executed; the search is at its end when it is over.
Done == IF ask.pc = "query" THEN Len(Queries(Scope)) - Len(ask.todo) ELSE 4

\* The candidates after n statements: each under its own score and in its own place.
Score(c, n) == [rrf : 0 .. Scale * n, sim : {None, c.sim}, seen : 1 .. Candidates * n]

Scored(fused, n) ==
    /\ DOMAIN fused \subseteq Chunks
    /\ \A c \in DOMAIN fused : fused[c] \in Score(c, n)
    /\ \A c, e \in DOMAIN fused : fused[c].seen = fused[e].seen => c = e

\* Each was found where the caller may read.
FusedInv == Scored(ask.fused, Done) /\ \A c \in DOMAIN ask.fused : Permitted(c)

\* A document has one version in the index, and what the search has measured is not
\* newer than what the index holds.
Measured == {c \in DOMAIN ask.fused : ask.fused[c].sim # None}

VersionsInv ==
    /\ index \subseteq Chunks
    /\ \A c, e \in index : c.doc = e.doc => c.version = e.version
    /\ \A c \in Measured, e \in index : c.doc = e.doc => c.version <= e.version
    /\ \A c, e \in Measured : c.doc = e.doc =>
         /\ TableOf(c) = TableOf(e) => c.version = e.version
         /\ TableOf(c) = "chunks" => c.version <= e.version
    /\ ask.pc = "query" => \A c \in Measured : \A i \in DOMAIN ask.todo :
         /\ ask.todo[i] # <<TableOf(c), "vector">>
         /\ TableOf(c) = "confidential_chunks" => ask.todo[i] # ChunksVector

\* What may stand behind an answer: a candidate that came near enough.
Near(c) ==
    /\ c \in DOMAIN ask.fused
    /\ c.sim >= Threshold - ReviewMargin
    /\ ReviewMargin < Threshold => c \in Measured

SourcesInv ==
    /\ ask.chunks \in Seq(Chunks) /\ ask.misses \in Seq(Chunks)
    /\ ask.pc \in {"new", "embed", "query"} => ask.chunks = << >> /\ ask.misses = << >>
    /\ \A c \in Range(ask.chunks) \cup Range(ask.misses) : Near(c)

\* Places are given to sections.
Places(n) == IF n < TopK THEN n ELSE TopK

PlacesInv ==
    ask.pc \in Searched /\ ask.kind # "tool" /\ Admitted # {} =>
      /\ Len(ask.chunks) = Places(Cardinality(BestOfSections(Admitted, ask.fused)))
      /\ ask.pc # "review"

\* A call carried what was found, and went out only if all of it may.
CallInv(call) ==
    /\ \A c \in call.chunks : Near(c)
    /\ call.egress =>
         /\ \A c \in call.chunks : Rank(c.class) <= Rank(EgressMax)
         /\ call.to # "judge" /\ ask.held # None => Rank(ask.held) <= Rank(EgressMax)

CallsInv ==
    /\ ask.pc \in {"new", "embed", "query"} => calls = << >>
    /\ \A n \in DOMAIN calls : CallInv(calls[n])

\* Before the second answer the first one is shown.
ShownInv ==
    /\ ask.pc # "done" => ~ Good(ask.second) /\ (Good(ask.first) => Good(ask.shown))
    /\ ask.pc \notin {"escalate", "done", "failed"} => ~ Good(ask.first)
    /\ BestAnswerShown

IInv ==
    /\ TypeOK /\ DOMAIN ask = Fields
    /\ TodoInv
    /\ FusedInv
    /\ VersionsInv
    /\ SourcesInv
    /\ PlacesInv
    /\ CallsInv
    /\ ShownInv

-----------------------------------------------------------------------------
(* What the operators of the model do *)

\* The length of the k best of a set, and what every choice of them is.
Size(S, k) == IF Cardinality(S) < k THEN Cardinality(S) ELSE k
Picks(S, k) == {s \in [1 .. Size(S, k) -> S] : \A i, j \in DOMAIN s : i < j => s[i] # s[j]}

LEMMA RowsArePicked ==
    ASSUME NEW query, NEW active, NEW scope, NEW rows \in _candidate_sql(query, active, scope)
    PROVE  rows \in Picks({c \in active :
                             /\ TableOf(c) = query[1] /\ c.model = IndexModel
                             /\ Filter(c, query[1], scope) /\ RowSecurity(c, scope)
                             /\ query[2] = "fts" => c.fts > 0}, Candidates)
BY DEF _candidate_sql, Best, Picks, Size

LEMMA SectionsArePicked ==
    ASSUME NEW kept, NEW fused, NEW k, NEW s \in _distinct_sections(kept, fused, k)
    PROVE  s \in Picks(BestOfSections(kept, fused), k)
BY DEF _distinct_sections, Ranked, Best, Picks, Size

LEMMA ShownArePicked ==
    ASSUME NEW S, NEW fused, NEW k, NEW s \in Ranked(S, fused, k)
    PROVE  s \in Picks(S, k)
BY DEF Ranked, Best, Picks, Size

LEMMA AdmittedArePicked ==
    ASSUME NEW verdict, NEW offered, NEW s \in admitted_passages(verdict, offered)
    PROVE  s = << >> \/ s \in Picks({n \in verdict : 1 <= n /\ n <= offered}, offered)
BY DEF admitted_passages, Best, Picks, Size

\* A choice of at most k of a finite set is a sequence without repetitions.
LEMMA Picked ==
    ASSUME NEW S, IsFiniteSet(S), NEW k \in Nat, NEW s \in Picks(S, k)
    PROVE  /\ Size(S, k) \in Nat /\ s \in Seq(S) /\ Len(s) = Size(S, k)
           /\ DOMAIN s = 1 .. Size(S, k)
           /\ \A i, j \in DOMAIN s : s[i] = s[j] => i = j
           /\ Range(s) \subseteq S /\ IsFiniteSet(Range(s)) /\ Cardinality(Range(s)) = Len(s)
<1>1. Cardinality(S) \in Nat
  BY FS_CardinalityType
<1>2. Size(S, k) \in Nat
  BY <1>1 DEF Size
<1>3. s \in [1 .. Size(S, k) -> S] /\ \A i, j \in DOMAIN s : i < j => s[i] # s[j]
  BY DEF Picks
<1>4. s \in Seq(S) /\ Len(s) = Size(S, k) /\ DOMAIN s = 1 .. Size(S, k)
  BY <1>2, <1>3
<1>5. \A i, j \in DOMAIN s : s[i] = s[j] => i = j
  BY <1>2, <1>3, <1>4
<1>6. Range(s) \subseteq S
  BY <1>3 DEF Range
<1>7. s \in Bijection(1 .. Size(S, k), Range(s))
  BY <1>3, <1>4, <1>5 DEF Bijection, Injection, Surjection, Range, IsInjective
<1>8. IsFiniteSet(1 .. Size(S, k)) /\ Cardinality(1 .. Size(S, k)) = Size(S, k)
  BY <1>2, FS_Interval
<1>9. ExistsBijection(1 .. Size(S, k), Range(s))
  BY <1>7 DEF ExistsBijection
<1>10. IsFiniteSet(Range(s)) /\ Cardinality(Range(s)) = Cardinality(1 .. Size(S, k))
  BY <1>8, <1>9, FS_Bijection
<1> QED
  BY <1>2, <1>4, <1>5, <1>6, <1>8, <1>10

\* One rule, written three times: the filter of a query, the row-level security of its
\* table and can_read of policy/access.py let the same chunks through.
THEOREM RulesAgree ==
    ASSUME NEW c \in Chunk, NEW perms
    PROVE  LET scope == scope_for(perms) IN
           /\ Filter(c, TableOf(c), scope) <=> can_read(scope, c.department, c.class)
           /\ RowSecurity(c, scope) <=> can_read(scope, c.department, c.class)
           /\ can_read(scope, c.department, c.class) <=>
                \/ c.class = "public"
                \/ /\ <<"docs", c.department>> \in perms
                   /\ c.class = "confidential" => <<"confidential", c.department>> \in perms
<1>1. c.class \in Classes /\ c.department \in Departments
  BY DEF Chunk
<1> QED
  BY <1>1 DEF Filter, TableOf, RowSecurity, can_read, scope_for, Classes

\* The most sensitive class of a context bounds the others.
LEMMA MaxClassification ==
    ASSUME NEW chunks \in Seq(Chunks), chunks # << >>
    PROVE  /\ max_classification(chunks) \in Classes
           /\ \A c \in Range(chunks) : Rank(c.class) <= Rank(max_classification(chunks))
<1> DEFINE S == {c.class : c \in Range(chunks)}
<1>1. Range(chunks) \subseteq Chunks /\ Range(chunks) # {}
  <2>1. Len(chunks) \in Nat /\ DOMAIN chunks = 1 .. Len(chunks) /\ Len(chunks) # 0
        /\ \A i \in DOMAIN chunks : chunks[i] \in Chunks
    OBVIOUS
  <2>2. 1 \in DOMAIN chunks
    BY <2>1
  <2> QED
    BY <2>1, <2>2 DEF Range
<1>2. S \subseteq Classes /\ S # {}
  <2>1. \A c \in Chunks : c.class \in Classes
    BY RetrievalAssumption DEF Chunk
  <2> QED
    BY <1>1, <2>1
<1> HIDE DEF S
<1>3. \E x \in S : \A y \in S : Rank(y) <= Rank(x)
  <2>1. CASE "confidential" \in S
    <3>1. \A y \in S : Rank(y) <= Rank("confidential")
      BY <1>2 DEF Rank, Classes
    <3> QED
      BY <2>1, <3>1
  <2>2. CASE "confidential" \notin S /\ "internal" \in S
    <3>1. \A y \in S : Rank(y) <= Rank("internal")
      BY <1>2, <2>2 DEF Rank, Classes
    <3> QED
      BY <2>2, <3>1
  <2>3. CASE "confidential" \notin S /\ "internal" \notin S
    <3>1. \A y \in S : y = "public"
      BY <1>2, <2>3 DEF Classes
    <3>2. \A y \in S : Rank(y) <= Rank("public")
      BY <3>1 DEF Rank
    <3> QED
      BY <1>2, <3>1, <3>2
  <2> QED
    BY <2>1, <2>2, <2>3
<1>4. max_classification(chunks) = CHOOSE x \in S : \A y \in S : Rank(y) <= Rank(x)
  BY DEF max_classification, S
<1>5. max_classification(chunks) \in S /\ \A y \in S : Rank(y) <= Rank(max_classification(chunks))
  BY <1>3, <1>4
<1> QED
  BY <1>2, <1>5 DEF S

\* allows_egress on what a call carries, and on what the conversation holds besides.
LEMMA EgressBounds ==
    ASSUME NEW chunks \in Seq(Chunks), NEW held \in Classes \cup {None}
    PROVE  /\ allows_egress(max_classification(chunks)) =>
                \A c \in Range(chunks) : Rank(c.class) <= Rank(EgressMax)
           /\ allows_egress(most_sensitive(held, max_classification(chunks))) =>
                /\ \A c \in Range(chunks) : Rank(c.class) <= Rank(EgressMax)
                /\ held # None => Rank(held) <= Rank(EgressMax)
<1>0. /\ None \notin Classes /\ EgressMax \in Classes
      /\ \A x \in Classes : Rank(x) \in Int
  BY RetrievalAssumption, AnsweringAssumption DEF Rank, Classes
<1>1. CASE chunks = << >>
  <2>1. Range(chunks) = {} /\ max_classification(chunks) = None
    BY <1>1 DEF Range, max_classification
  <2> QED
    BY <2>1, <1>0 DEF allows_egress, most_sensitive
<1>2. CASE chunks # << >>
  <2>1. /\ max_classification(chunks) \in Classes
        /\ \A c \in Range(chunks) : Rank(c.class) <= Rank(max_classification(chunks))
    BY <1>2, MaxClassification
  <2>2. \A c \in Range(chunks) : c.class \in Classes
    BY RetrievalAssumption DEF Range, Chunk
  <2> HIDE DEF max_classification
  <2>3. allows_egress(max_classification(chunks)) =>
          Rank(max_classification(chunks)) <= Rank(EgressMax)
    BY <2>1, <1>0 DEF allows_egress
  <2>4. allows_egress(most_sensitive(held, max_classification(chunks))) =>
          /\ Rank(max_classification(chunks)) <= Rank(EgressMax)
          /\ held # None => Rank(held) <= Rank(EgressMax)
    BY <2>1, <1>0 DEF allows_egress, most_sensitive
  <2> QED
    BY <2>1, <2>2, <2>3, <2>4, <1>0
<1> QED
  BY <1>1, <1>2

LEMMA Products ==
    ASSUME NEW a \in Nat, NEW b \in Nat
    PROVE  a * b \in Nat /\ a * (b + 1) = a * b + a
BY SMT

\* A share of the scale is at most the scale.
LEMMA Shares ==
    ASSUME NEW rank \in Nat \ {0}
    PROVE  Scale \div (RRF_K + rank) \in 0 .. Scale
<1>1. Scale \in Nat /\ RRF_K \in Nat
  BY RetrievalAssumption
<1>2. ASSUME NEW a \in Nat, NEW b \in Nat \ {0}
      PROVE  a \div b \in 0 .. a
  BY SMTT(30)
<1> QED
  BY <1>1, <1>2

LEMMA RankIs ==
    ASSUME NEW rows, NEW c \in Range(rows)
    PROVE  RankIn(rows, c) \in DOMAIN rows /\ rows[RankIn(rows, c)] = c
<1>1. \E rank \in DOMAIN rows : rows[rank] = c
  BY DEF Range
<1> QED
  BY <1>1 DEF RankIn

\* What a statement's rows do to the candidates of the n statements before it.
Fused(fused, new, S, rows, kind, n) ==
    /\ DOMAIN new = DOMAIN fused \cup Range(rows)
    /\ Range(rows) \subseteq S
    /\ Scored(new, n + 1)
    /\ \A c \in DOMAIN new :
         new[c].sim # None <=> \/ c \in DOMAIN fused /\ fused[c].sim # None
                               \/ kind = "vector" /\ c \in Range(rows)

LEMMA FuseIs ==
    ASSUME NEW fused, NEW n \in Nat, Scored(fused, n), NEW S \in SUBSET Chunks,
           NEW rows \in Picks(S, Candidates), NEW kind
    PROVE  Fused(fused, Fuse(fused, rows, kind, Candidates * n), S, rows, kind, n)
<1> DEFINE B == Candidates * n
           new == Fuse(fused, rows, kind, B)
           rank(c) == RankIn(rows, c)
<1>1. Candidates \in Nat /\ Scale \in Nat /\ B \in Nat /\ Candidates * (n + 1) = B + Candidates
      /\ Scale * n \in Nat /\ Scale * (n + 1) = Scale * n + Scale
  BY RetrievalAssumption, Products
<1>2. IsFiniteSet(S) /\ S \subseteq Chunks
  BY RetrievalAssumption, FS_Subset
<1>3. /\ Range(rows) \subseteq S /\ Size(S, Candidates) \in Nat
      /\ DOMAIN rows = 1 .. Size(S, Candidates)
      /\ \A i, j \in DOMAIN rows : rows[i] = rows[j] => i = j
  BY <1>1, <1>2, Picked
<1>4. Size(S, Candidates) <= Candidates
  <2>1. Cardinality(S) \in Nat
    BY <1>2, FS_CardinalityType
  <2> QED
    BY <1>1, <2>1 DEF Size
<1>5. \A c \in Range(rows) : rank(c) \in 1 .. Candidates /\ rows[rank(c)] = c
  BY <1>1, <1>3, <1>4, RankIs
<1>6. \A c \in Chunks : c.sim \in 0 .. 100 /\ c.sim # None
  BY RetrievalAssumption DEF Chunk
<1>7. /\ DOMAIN new = DOMAIN fused \cup Range(rows)
      /\ \A c \in DOMAIN fused : c \notin Range(rows) => new[c] = fused[c]
  BY DEF Fuse
<1>8. ASSUME NEW c \in Range(rows), c \in DOMAIN fused
      PROVE  /\ new[c] = [fused[c] EXCEPT !.rrf = @ + Scale \div (RRF_K + rank(c)),
                                          !.sim = IF kind = "vector" THEN c.sim ELSE @]
  BY <1>8 DEF Fuse
<1>9. ASSUME NEW c \in Range(rows), c \notin DOMAIN fused
      PROVE  new[c] = [rrf |-> 0 + Scale \div (RRF_K + rank(c)),
                       sim |-> IF kind = "vector" THEN c.sim ELSE None, seen |-> B + rank(c)]
  BY <1>9 DEF Fuse
<1> HIDE DEF B, new, rank
<1>10. \A c \in DOMAIN fused : fused[c] \in Score(c, n)
  BY DEF Scored
<1>11. \A c \in Range(rows) : rank(c) \in Nat /\ Scale \div (RRF_K + rank(c)) \in 0 .. Scale
  BY <1>1, <1>5, Shares
<1>12. ASSUME NEW c \in DOMAIN new
       PROVE  /\ new[c] \in Score(c, n + 1)
              /\ new[c].sim # None <=> \/ c \in DOMAIN fused /\ fused[c].sim # None
                                       \/ kind = "vector" /\ c \in Range(rows)
              /\ c \in DOMAIN fused => new[c].seen = fused[c].seen /\ new[c].seen \in 1 .. B
              /\ c \notin DOMAIN fused => new[c].seen = B + rank(c) /\ c \in Range(rows)
  <2>1. CASE c \notin Range(rows)
    <3>1. c \in DOMAIN fused /\ new[c] = fused[c] /\ fused[c] \in Score(c, n)
      BY <1>7, <1>10, <2>1
    <3>2. 0 .. Scale * n \subseteq 0 .. Scale * (n + 1) /\ 1 .. B \subseteq 1 .. Candidates * (n + 1)
      BY <1>1
    <3> QED
      BY <2>1, <3>1, <3>2 DEF Score, B
  <2>2. CASE c \in Range(rows) /\ c \in DOMAIN fused
    <3>1. PICK q \in Nat : q = Scale \div (RRF_K + rank(c)) /\ q <= Scale
      BY <1>1, <1>11, <2>2
    <3>2. PICK r \in Score(c, n) : r = fused[c]
      BY <1>10, <2>2
    <3>3. /\ r.rrf \in 0 .. Scale * n /\ r.sim \in {None, c.sim} /\ r.seen \in 1 .. B
          /\ r = [rrf |-> r.rrf, sim |-> r.sim, seen |-> r.seen]
      BY DEF Score, B
    <3>4. new[c] = [rrf |-> r.rrf + q, sim |-> IF kind = "vector" THEN c.sim ELSE r.sim,
                    seen |-> r.seen]
      BY <1>8, <2>2, <3>1, <3>2, <3>3
    <3>5. r.rrf + q \in 0 .. Scale * (n + 1) /\ r.seen \in 1 .. Candidates * (n + 1)
      BY <1>1, <3>1, <3>3
    <3>6. c.sim # None
      BY <1>2, <1>3, <1>6, <2>2
    <3> QED
      BY <2>2, <3>2, <3>3, <3>4, <3>5, <3>6 DEF Score
  <2>3. CASE c \in Range(rows) /\ c \notin DOMAIN fused
    <3>1. PICK q \in Nat : q = Scale \div (RRF_K + rank(c)) /\ q <= Scale
      BY <1>1, <1>11, <2>3
    <3>2. new[c] = [rrf |-> q, sim |-> IF kind = "vector" THEN c.sim ELSE None,
                    seen |-> B + rank(c)]
      <4>1. new[c] = [rrf |-> 0 + Scale \div (RRF_K + rank(c)),
                      sim |-> IF kind = "vector" THEN c.sim ELSE None, seen |-> B + rank(c)]
        BY <1>9, <2>3, Zenon
      <4>2. 0 + Scale \div (RRF_K + rank(c)) = q
        BY <3>1
      <4> QED
        BY <4>1, <4>2, Zenon
    <3>3. q \in 0 .. Scale * (n + 1) /\ B + rank(c) \in 1 .. Candidates * (n + 1)
      BY <1>1, <1>5, <2>3, <3>1
    <3>4. c.sim # None
      BY <1>2, <1>3, <1>6, <2>3
    <3> QED
      BY <2>3, <3>2, <3>3, <3>4 DEF Score
  <2> QED
    BY <1>7, <2>1, <2>2, <2>3
<1>13. ASSUME NEW c \in DOMAIN new, NEW e \in DOMAIN new, new[c].seen = new[e].seen
       PROVE  c = e
  <2>1. CASE c \in DOMAIN fused /\ e \in DOMAIN fused
    BY <1>12, <1>13, <2>1 DEF Scored
  <2>2. CASE c \notin DOMAIN fused /\ e \notin DOMAIN fused
    <3>1. rank(c) = rank(e)
      BY <1>1, <1>11, <1>12, <1>13, <2>2
    <3> QED
      BY <1>5, <1>12, <2>2, <3>1
  <2>3. CASE c \in DOMAIN fused /\ e \notin DOMAIN fused
    BY <1>1, <1>5, <1>12, <1>13, <2>3
  <2>4. CASE c \notin DOMAIN fused /\ e \in DOMAIN fused
    BY <1>1, <1>5, <1>12, <1>13, <2>4
  <2> QED
    BY <2>1, <2>2, <2>3, <2>4
<1>14. DOMAIN new \subseteq Chunks
  BY <1>2, <1>3, <1>7 DEF Scored
<1>15. Scored(new, n + 1)
  BY <1>12, <1>13, <1>14 DEF Scored
<1>16. Fused(fused, new, S, rows, kind, n)
  BY <1>3, <1>7, <1>12, <1>15 DEF Fused
<1> QED
  BY <1>16 DEF new, B

-----------------------------------------------------------------------------
(* Sections *)

LEMMA Least ==
    ASSUME NEW S, S \subseteq Nat, S # {}
    PROVE  \E x \in S : \A y \in S : x <= y
<1>1. PICK x \in S : \A y \in S : ~ (<<y, x>> \in OpToRel(<, Nat))
  BY NatLessThanWellFounded, WFMin
<1>2. \A y \in S : ~ (y < x)
  BY <1>1 DEF OpToRel
<1> QED
  BY <1>2

\* Of any candidates one comes first.
LEMMA FirstExists ==
    ASSUME NEW fused, NEW n \in Nat, Scored(fused, n), NEW T \in SUBSET DOMAIN fused, T # {}
    PROVE  \E c \in T : \A e \in T : e # c => First(fused, c, e)
<1> DEFINE M == {Scale * n - fused[c].rrf : c \in T}
<1>1. Scale * n \in Nat
  BY RetrievalAssumption, Products
<1>2. \A c \in T : fused[c].rrf \in 0 .. Scale * n /\ fused[c].seen \in Nat
  <2>1. Candidates * n \in Nat
    BY RetrievalAssumption, Products
  <2>2. \A c \in T : fused[c] \in Score(c, n)
    BY DEF Scored
  <2> QED
    BY <2>1, <2>2 DEF Score
<1>3. M \subseteq Nat /\ M # {}
  BY <1>1, <1>2
<1>4. PICK m \in M : \A y \in M : m <= y
  <2> HIDE DEF M
  <2> QED
    BY <1>3, Least
<1>5. PICK a \in T : m = Scale * n - fused[a].rrf
  BY <1>4
<1>6. \A e \in T : fused[e].rrf <= fused[a].rrf
  <2> SUFFICES ASSUME NEW e \in T PROVE fused[e].rrf <= fused[a].rrf
    OBVIOUS
  <2>1. m <= Scale * n - fused[e].rrf
    BY <1>4
  <2> QED
    BY <2>1, <1>1, <1>2, <1>5
<1> DEFINE U == {c \in T : fused[c].rrf = fused[a].rrf}
           N == {fused[c].seen : c \in U}
<1>7. N \subseteq Nat /\ N # {}
  BY <1>2
<1>8. PICK k \in N : \A y \in N : k <= y
  <2> HIDE DEF N
  <2> QED
    BY <1>7, Least
<1>9. PICK b \in U : k = fused[b].seen
  BY <1>8
<1>10. ASSUME NEW e \in T, e # b PROVE First(fused, b, e)
  <2>1. CASE e \in U
    <3>1. fused[b].seen <= fused[e].seen
      BY <1>8, <1>9, <2>1
    <3>2. fused[b].seen # fused[e].seen
      BY <1>10 DEF Scored
    <3> QED
      BY <3>1, <3>2, <2>1, <1>2 DEF First
  <2>2. CASE e \notin U
    <3>1. fused[e].rrf < fused[b].rrf
      BY <1>2, <1>6, <2>2
    <3> QED
      BY <3>1, <1>2 DEF First
  <2> QED
    BY <2>1, <2>2
<1> QED
  BY <1>9, <1>10

\* A section as the answer's reader knows it.
Section(c) == <<c.class = "confidential", c.doc, c.version, c.parent,
                IF c.parent = None THEN c.locator ELSE 0>>

LEMMA SameSection ==
    ASSUME NEW c, NEW e
    PROVE  SectionOf(c) = SectionOf(e) <=> Section(c) = Section(e)
<1>1. TableOf(c) = TableOf(e) <=> (c.class = "confidential" <=> e.class = "confidential")
  BY DEF TableOf
<1>2. SectionOf(c) = SectionOf(e) <=>
        /\ TableOf(c) = TableOf(e) /\ c.doc = e.doc /\ c.version = e.version
        /\ c.parent = e.parent
        /\ (IF c.parent = None THEN c.locator ELSE 0) = (IF e.parent = None THEN e.locator ELSE 0)
  BY DEF SectionOf
<1>3. Section(c) = Section(e) <=>
        /\ (c.class = "confidential") = (e.class = "confidential")
        /\ c.doc = e.doc /\ c.version = e.version /\ c.parent = e.parent
        /\ (IF c.parent = None THEN c.locator ELSE 0) = (IF e.parent = None THEN e.locator ELSE 0)
  BY DEF Section
<1> QED
  BY <1>1, <1>2, <1>3

\* One chunk a section: as many as there are sections.
LEMMA OneASection ==
    ASSUME NEW fused, NEW n \in Nat, Scored(fused, n), NEW kept \in SUBSET DOMAIN fused
    PROVE  /\ IsFiniteSet(BestOfSections(kept, fused))
           /\ Cardinality(BestOfSections(kept, fused)) = Cardinality({Section(c) : c \in kept})
<1> DEFINE B == BestOfSections(kept, fused)
           S == {Section(c) : c \in kept}
           f == [c \in B |-> Section(c)]
<1>1. B \subseteq kept /\ IsFiniteSet(B)
  <2>1. B \subseteq kept /\ kept \subseteq Chunks
    BY DEF BestOfSections, Scored
  <2> QED
    BY <2>1, RetrievalAssumption, FS_Subset
<1>2. ASSUME NEW c \in B, NEW e \in B, Section(c) = Section(e) PROVE c = e
  <2>1. SectionOf(c) = SectionOf(e)
    BY <1>2, SameSection
  <2>2. c # e => First(fused, c, e) /\ First(fused, e, c)
    BY <1>1, <2>1 DEF BestOfSections
  <2>3. \A x \in kept : fused[x].rrf \in Int /\ fused[x].seen \in Int
    <3>1. \A x \in kept : fused[x] \in Score(x, n)
      BY DEF Scored
    <3> QED
      BY <3>1 DEF Score
  <2> QED
    BY <1>1, <2>2, <2>3 DEF First
<1>3. ASSUME NEW x \in S PROVE \E c \in B : Section(c) = x
  <2>1. PICK e \in kept : x = Section(e)
    OBVIOUS
  <2> DEFINE T == {c \in kept : SectionOf(c) = SectionOf(e)}
  <2>2. T \in SUBSET DOMAIN fused /\ T # {}
    OBVIOUS
  <2>3. PICK c \in T : \A d \in T : d # c => First(fused, c, d)
    <3> HIDE DEF T
    <3> QED
      BY <2>2, FirstExists
  <2>4. c \in B
    BY <2>3 DEF BestOfSections
  <2>5. Section(c) = x
    BY <2>1, <2>3, SameSection
  <2> QED
    BY <2>4, <2>5
<1>4. f \in Bijection(B, S)
  <2> HIDE DEF B
  <2>1. f \in [B -> S]
    BY <1>1
  <2>2. \A c, e \in B : f[c] = f[e] => c = e
    BY <1>2
  <2>3. \A x \in S : \E c \in B : f[c] = x
    <3> SUFFICES ASSUME NEW x \in S PROVE \E c \in B : f[c] = x
      OBVIOUS
    <3> QED
      BY <1>3
  <2> QED
    BY <2>1, <2>2, <2>3 DEF Bijection, Injection, Surjection, IsInjective
<1>5. ExistsBijection(B, S)
  BY <1>4 DEF ExistsBijection
<1> HIDE DEF B, S
<1>6. Cardinality(S) = Cardinality(B)
  BY <1>1, <1>5, FS_Bijection
<1> QED
  BY <1>1, <1>6 DEF B, S

-----------------------------------------------------------------------------
(* After the search *)

\* An answer says whether it is an abstention.
LEMMA FinalizeType ==
    ASSUME NEW reply, NEW have
    PROVE  finalize(reply, have).abstained \in BOOLEAN
BY DEF finalize, Abstention

\* A call about passages s, of which it may take out only what may leave the box.
Lawful(call, s) ==
    /\ call = [to |-> call.to, chunks |-> call.chunks, egress |-> call.egress]
    /\ call.chunks = Range(s) /\ call.to \in {"judge", "model", "escalation"}
    /\ call.egress \in BOOLEAN
    /\ call.egress =>
         /\ allows_egress(max_classification(s)) \/
            allows_egress(most_sensitive(ask.held, max_classification(s)))
         /\ call.to # "judge" => allows_egress(most_sensitive(ask.held, max_classification(s)))

\* What the steps after the search have in common.
Later ==
    /\ ask.pc \in {"review", "answer", "escalate"}
    /\ ask'.pc \in {"answer", "escalate", "done", "failed"}
    /\ index' = index /\ DOMAIN ask' = DOMAIN ask
    /\ ask'.fused = ask.fused /\ ask'.misses = ask.misses
    /\ ask'.kind = ask.kind /\ ask'.perms = ask.perms /\ ask'.held = ask.held
    /\ \/ ask'.chunks = ask.chunks
       \/ /\ ask.pc = "review" /\ ask'.chunks \in Seq(Chunks)
          /\ Range(ask'.chunks) \subseteq Range(ask.misses)
    /\ \/ calls' = calls
       \/ \E call, s : /\ calls' = Append(calls, call)
                       /\ s = ask.chunks \/ s = ask.misses
                       /\ Lawful(call, s)

LaterStep ==
    \/ \E v \in Verdicts \cup {Unreadable} : review_near_misses(v)
    \/ ReviewFails \/ Abstain
    \/ \E r \in Replies, m \in {Small, Large} : FirstAnswer(r, m)
    \/ AnswerFails
    \/ \E r \in Replies : Escalate(r)
    \/ EscalateFails

\* allows_egress is a yes or a no.
LEMMA EgressType ==
    ASSUME NEW class PROVE allows_egress(class) \in BOOLEAN
BY DEF allows_egress

LEMMA ReviewCall ==
    Lawful(Call("judge", ask.misses, ReviewEgress), ask.misses)
BY EgressType DEF Lawful, Call, ReviewEgress

LEMMA ModelCall ==
    ASSUME NEW to \in {"model", "escalation"}
    PROVE  Lawful(Call(to, ask.chunks, Egress), ask.chunks)
BY EgressType DEF Lawful, Call, Egress

\* What a reviewer admits is among what it was shown.
LEMMA ReviewAdmits ==
    ASSUME NEW v \in Verdicts \cup {Unreadable}, NEW misses \in Seq(Chunks),
           NEW admitted \in admitted_passages(v, Len(misses))
    PROVE  /\ [i \in DOMAIN admitted |-> misses[admitted[i]]] \in Seq(Chunks)
           /\ Range([i \in DOMAIN admitted |-> misses[admitted[i]]]) \subseteq Range(misses)
<1> DEFINE s == [i \in DOMAIN admitted |-> misses[admitted[i]]]
<1>1. Len(misses) \in Nat /\ DOMAIN misses = 1 .. Len(misses)
      /\ \A i \in DOMAIN misses : misses[i] \in Chunks
  OBVIOUS
<1>2. \E k \in Nat : DOMAIN admitted = 1 .. k /\ \A i \in 1 .. k : admitted[i] \in DOMAIN misses
  <2>1. CASE admitted = << >>
    BY <2>1
  <2>2. CASE v = Unreadable
    <3>1. admitted = << >>
      BY <2>2 DEF admitted_passages
    <3> QED
      BY <3>1
  <2>3. CASE admitted # << >> /\ v # Unreadable
    <3> DEFINE S == {n \in v : 1 <= n /\ n <= Len(misses)}
    <3>1. admitted \in Picks(S, Len(misses))
      BY <2>3, AdmittedArePicked
    <3>2. v \subseteq Int
      BY <2>3, AnsweringAssumption
    <3>3. S \subseteq DOMAIN misses /\ IsFiniteSet(DOMAIN misses)
      <4>1. IsFiniteSet(1 .. Len(misses))
        BY <1>1, FS_Interval
      <4>2. ASSUME NEW n \in S PROVE n \in 1 .. Len(misses)
        <5>1. n \in Int /\ 1 <= n /\ n <= Len(misses)
          BY <3>2
        <5> QED
          BY <1>1, <5>1
      <4> QED
        BY <1>1, <4>1, <4>2
    <3>4. IsFiniteSet(S)
      BY <3>3, FS_Subset
    <3> HIDE DEF S
    <3>5. DOMAIN admitted = 1 .. Size(S, Len(misses)) /\ Size(S, Len(misses)) \in Nat
          /\ Range(admitted) \subseteq S
      BY <1>1, <3>1, <3>4, Picked
    <3>6. \A i \in DOMAIN admitted : admitted[i] \in Range(admitted)
      BY DEF Range
    <3> QED
      BY <3>3, <3>5, <3>6
  <2> QED
    BY <2>1, <2>2, <2>3
<1>3. PICK k \in Nat : DOMAIN admitted = 1 .. k /\ \A i \in 1 .. k : admitted[i] \in DOMAIN misses
  BY <1>2
<1>4. s \in [1 .. k -> Chunks] /\ \A i \in 1 .. k : s[i] \in Range(misses)
  BY <1>1, <1>3 DEF Range
<1>5. DOMAIN s = 1 .. k
  BY <1>3
<1> HIDE DEF s
<1>6. s \in Seq(Chunks)
  BY <1>4
<1>7. Range(s) \subseteq Range(misses)
  <2>1. \A x \in Range(s) : \E i \in DOMAIN s : x = s[i]
    BY DEF Range
  <2> QED
    BY <2>1, <1>4, <1>5
<1> QED
  BY <1>6, <1>7 DEF s

LEMMA LaterIs ==
    ASSUME IInv, LaterStep
    PROVE  Later
<1>0. DOMAIN ask = Fields /\ ask.misses \in Seq(Chunks)
  BY DEF IInv, SourcesInv
<1>1. ASSUME NEW v \in Verdicts \cup {Unreadable}, review_near_misses(v) PROVE Later
  <2>1. PICK admitted \in admitted_passages(v, Len(ask.misses)) :
          ask' = [ask EXCEPT !.pc = "answer",
                             !.chunks = [i \in DOMAIN admitted |-> ask.misses[admitted[i]]]]
    BY <1>1 DEF review_near_misses
  <2>2. /\ ask'.chunks = [i \in DOMAIN admitted |-> ask.misses[admitted[i]]]
        /\ ask'.pc = "answer" /\ DOMAIN ask' = DOMAIN ask
        /\ ask'.fused = ask.fused /\ ask'.misses = ask.misses
        /\ ask'.kind = ask.kind /\ ask'.perms = ask.perms /\ ask'.held = ask.held
    BY <1>0, <2>1 DEF Fields
  <2>3. ask'.chunks \in Seq(Chunks) /\ Range(ask'.chunks) \subseteq Range(ask.misses)
    <3>1. PICK misses \in Seq(Chunks) : misses = ask.misses
      BY <1>0
    <3>2. admitted \in admitted_passages(v, Len(misses))
      BY <3>1
    <3>3. /\ [i \in DOMAIN admitted |-> misses[admitted[i]]] \in Seq(Chunks)
          /\ Range([i \in DOMAIN admitted |-> misses[admitted[i]]]) \subseteq Range(misses)
      BY <3>2, ReviewAdmits
    <3> QED
      BY <2>2, <3>1, <3>3, Zenon
  <2>4. /\ ask.pc = "review" /\ index' = index
        /\ calls' = Append(calls, Call("judge", ask.misses, ReviewEgress))
    BY <1>1 DEF review_near_misses
  <2> QED
    BY <2>2, <2>3, <2>4, ReviewCall DEF Later
<1>2. ASSUME ReviewFails PROVE Later
  BY <1>0, <1>2, ReviewCall DEF ReviewFails, Later, Fields
<1>3. ASSUME Abstain PROVE Later
  BY <1>0, <1>3 DEF Abstain, Later, Fields
<1>4. ASSUME NEW r \in Replies, NEW m \in {Small, Large}, FirstAnswer(r, m) PROVE Later
  <2> DEFINE a == finalize(r, Have)
             p == IF escalation_reason(r, a) # None /\ m # Large THEN "escalate" ELSE "done"
             t == a.abstained /\ MayRaise
  <2>1. ask' = [ask EXCEPT !.pc = p, !.first = a, !.shown = a, !.cost = 1, !.ticket = t]
    BY <1>4 DEF FirstAnswer
  <2>3. p \in {"escalate", "done"}
    OBVIOUS
  <2> HIDE DEF a, p, t
  <2>2. /\ ask.pc = "answer" /\ index' = index
        /\ calls' = Append(calls, Call("model", ask.chunks, Egress))
    BY <1>4 DEF FirstAnswer
  <2> QED
    BY <1>0, <2>1, <2>2, <2>3, ModelCall DEF Later, Fields
<1>5. ASSUME AnswerFails PROVE Later
  BY <1>0, <1>5, ModelCall DEF AnswerFails, Later, Fields
<1>6. ASSUME NEW r \in Replies, Escalate(r) PROVE Later
  <2>1. PICK a, b, k : ask' = [ask EXCEPT !.pc = "done", !.second = a, !.cost = k, !.shown = b]
    BY <1>6 DEF Escalate
  <2>2. /\ ask.pc = "escalate" /\ index' = index
        /\ calls' = Append(calls, Call("escalation", ask.chunks, Egress))
    BY <1>6 DEF Escalate
  <2> QED
    BY <1>0, <2>1, <2>2, ModelCall DEF Later, Fields
<1>7. ASSUME EscalateFails PROVE Later
  BY <1>0, <1>7, ModelCall DEF EscalateFails, Later, Fields
<1> QED
  BY <1>1, <1>2, <1>3, <1>4, <1>5, <1>6, <1>7 DEF LaterStep

\* The answers: which one is shown.
LEMMA LaterShown ==
    ASSUME IInv, LaterStep
    PROVE  ShownInv' /\ \A n \in {"first", "second", "shown"} : ask'[n].abstained \in BOOLEAN
<1>0. /\ DOMAIN ask = Fields /\ ShownInv
      /\ \A n \in {"first", "second", "shown"} : ask[n].abstained \in BOOLEAN
      /\ ~ Good(Abstention) /\ Abstention.abstained \in BOOLEAN
  BY DEF IInv, TypeOK, Good, Abstention
<1> DEFINE Same == ask'.first = ask.first /\ ask'.second = ask.second /\ ask'.shown = ask.shown
<1>1. ASSUME NEW v \in Verdicts \cup {Unreadable}, review_near_misses(v)
      PROVE  Same /\ ask.pc = "review" /\ ask'.pc = "answer"
  <2>1. PICK x : ask' = [ask EXCEPT !.pc = "answer", !.chunks = x]
    BY <1>1 DEF review_near_misses
  <2> QED
    BY <1>0, <1>1, <2>1 DEF review_near_misses, Fields
<1>2. ASSUME ReviewFails PROVE Same /\ ask.pc = "review" /\ ask'.pc = "answer"
  BY <1>0, <1>2 DEF ReviewFails, Fields
<1>3. ASSUME AnswerFails PROVE Same /\ ask.pc = "answer" /\ ask'.pc = "failed"
  BY <1>0, <1>3 DEF AnswerFails, Fields
<1>4. ASSUME EscalateFails PROVE Same /\ ask.pc = "escalate" /\ ask'.pc = "done"
  BY <1>0, <1>4 DEF EscalateFails, Fields
<1>5. ASSUME Abstain
      PROVE  /\ ask'.first = ask.first /\ ask'.second = ask.second /\ ask'.shown = Abstention
             /\ ask.pc = "answer" /\ ask'.pc = "done"
  BY <1>0, <1>5 DEF Abstain, Fields
<1>6. ASSUME NEW r \in Replies, NEW m \in {Small, Large}, FirstAnswer(r, m)
      PROVE  /\ ask'.first = finalize(r, Have) /\ ask'.second = ask.second
             /\ ask'.shown = finalize(r, Have)
             /\ ask.pc = "answer" /\ ask'.pc \in {"escalate", "done"}
  <2> DEFINE a == finalize(r, Have)
             p == IF escalation_reason(r, a) # None /\ m # Large THEN "escalate" ELSE "done"
             t == a.abstained /\ MayRaise
  <2>1. ask' = [ask EXCEPT !.pc = p, !.first = a, !.shown = a, !.cost = 1, !.ticket = t]
        /\ ask.pc = "answer"
    BY <1>6 DEF FirstAnswer
  <2>2. p \in {"escalate", "done"}
    OBVIOUS
  <2> HIDE DEF a, p, t
  <2>3. ask'.first = a /\ ask'.shown = a /\ ask'.second = ask.second /\ ask'.pc = p
    BY <1>0, <2>1 DEF Fields
  <2> QED
    BY <2>1, <2>2, <2>3 DEF a
<1>7. ASSUME NEW r \in Replies, Escalate(r)
      PROVE  /\ ask'.first = ask.first /\ ask'.second = finalize(r, Have)
             /\ ask'.shown = pick_answer(ask.first, finalize(r, Have))
             /\ ask.pc = "escalate" /\ ask'.pc = "done"
  <2>1. PICK k :
          ask' = [ask EXCEPT !.pc = "done", !.second = finalize(r, Have), !.cost = k,
                             !.shown = pick_answer(ask.first, finalize(r, Have))]
    BY <1>7 DEF Escalate
  <2> QED
    BY <1>0, <1>7, <2>1 DEF Escalate, Fields
<1>8. CASE /\ Same /\ ask.pc # "done"
           /\ \/ ask'.pc \in {"done", "failed"}
              \/ ask.pc = "review" /\ ask'.pc = "answer"
  BY <1>0, <1>8 DEF ShownInv, BestAnswerShown
<1>9. CASE Abstain
  BY <1>0, <1>5, <1>9 DEF ShownInv, BestAnswerShown
<1>10. ASSUME NEW r \in Replies, NEW m \in {Small, Large}, FirstAnswer(r, m)
       PROVE  ShownInv' /\ \A n \in {"first", "second", "shown"} : ask'[n].abstained \in BOOLEAN
  <2>1. PICK a : a = finalize(r, Have) /\ a.abstained \in BOOLEAN
    BY FinalizeType
  <2> QED
    BY <1>0, <1>6, <1>10, <2>1 DEF ShownInv, BestAnswerShown
<1>11. ASSUME NEW r \in Replies, Escalate(r)
       PROVE  ShownInv' /\ \A n \in {"first", "second", "shown"} : ask'[n].abstained \in BOOLEAN
  <2>1. PICK a : a = finalize(r, Have) /\ a.abstained \in BOOLEAN
    BY FinalizeType
  <2>2. /\ ask'.first = ask.first /\ ask'.second = a /\ ask'.shown = pick_answer(ask.first, a)
        /\ ask'.pc = "done"
    BY <1>7, <1>11, <2>1
  <2>3. pick_answer(ask.first, a) = IF Good(a) THEN a ELSE ask.first
    BY DEF pick_answer, Good
  <2> QED
    BY <1>0, <2>1, <2>2, <2>3 DEF ShownInv, BestAnswerShown
<1>12. CASE \E v \in Verdicts \cup {Unreadable} : review_near_misses(v)
  BY <1>1, <1>8, <1>12
<1>13. CASE ReviewFails
  BY <1>2, <1>8, <1>13
<1>14. CASE AnswerFails
  BY <1>3, <1>8, <1>14
<1>15. CASE EscalateFails
  BY <1>4, <1>8, <1>15
<1> QED
  BY <1>9, <1>10, <1>11, <1>12, <1>13, <1>14, <1>15 DEF LaterStep

\* The calls: each was lawful when it was made, and what it is measured by stays.
CallType == [to : {"judge", "model", "escalation"}, chunks : SUBSET Chunks, egress : BOOLEAN]

LEMMA LawfulCall ==
    ASSUME IInv, NEW call, NEW s, s = ask.chunks \/ s = ask.misses, Lawful(call, s)
    PROVE  CallInv(call) /\ call.chunks \subseteq Chunks
<1>1. s \in Seq(Chunks) /\ \A c \in Range(s) : Near(c)
  BY DEF IInv, SourcesInv
<1>2. Range(s) \subseteq Chunks
  BY <1>1 DEF Range
<1>3. PICK held \in Classes \cup {None} : held = ask.held
  BY AnsweringAssumption DEF IInv, TypeOK
<1>4. /\ allows_egress(max_classification(s)) =>
           \A c \in Range(s) : Rank(c.class) <= Rank(EgressMax)
      /\ allows_egress(most_sensitive(held, max_classification(s))) =>
           /\ \A c \in Range(s) : Rank(c.class) <= Rank(EgressMax)
           /\ held # None => Rank(held) <= Rank(EgressMax)
  BY <1>1, EgressBounds, Zenon
<1>5. call.egress =>
         /\ \A c \in Range(s) : Rank(c.class) <= Rank(EgressMax)
         /\ call.to # "judge" /\ ask.held # None => Rank(ask.held) <= Rank(EgressMax)
  BY <1>3, <1>4 DEF Lawful
<1> QED
  BY <1>1, <1>2, <1>5 DEF CallInv, Lawful

LEMMA LaterInv ==
    ASSUME IInv, LaterStep
    PROVE  IInv'
<1>1. Later /\ ShownInv' /\ \A n \in {"first", "second", "shown"} : ask'[n].abstained \in BOOLEAN
  BY LaterIs, LaterShown
<1>2. \A c : Near(c)' <=> Near(c)
  BY <1>1 DEF Later, Near, Measured
<1>3. TodoInv' /\ FusedInv' /\ VersionsInv'
  <2>1. /\ ask'.pc \notin {"new", "embed", "query"} /\ ask.pc \notin {"new", "embed", "query"}
        /\ ask'.fused = ask.fused /\ ask'.perms = ask.perms /\ index' = index
    BY <1>1 DEF Later
  <2>2. Done' = Done
    BY <2>1 DEF Done
  <2>3. \A c : Permitted(c)' <=> Permitted(c)
    BY <2>1 DEF Permitted
  <2>4. Measured' = Measured
    BY <2>1 DEF Measured
  <2>5. FusedInv'
    BY <2>1, <2>2, <2>3 DEF IInv, FusedInv
  <2>6. VersionsInv'
    BY <2>1, <2>4 DEF IInv, VersionsInv
  <2> QED
    BY <2>1, <2>5, <2>6 DEF TodoInv
<1>4. SourcesInv'
  <2>1. SourcesInv
    BY DEF IInv
  <2>2. ask'.chunks \in Seq(Chunks) /\ ask'.misses \in Seq(Chunks)
    BY <1>1, <2>1 DEF Later, SourcesInv
  <2>3. \A c \in Range(ask'.chunks) \cup Range(ask'.misses) : Near(c)
    BY <1>1, <2>1 DEF Later, SourcesInv
  <2>4. ask'.pc \notin {"new", "embed", "query"}
    BY <1>1 DEF Later
  <2> QED
    BY <1>2, <2>2, <2>3, <2>4 DEF SourcesInv
<1>5. PlacesInv'
  <2>1. PlacesInv
    BY DEF IInv
  <2>2. Admitted' = Admitted /\ ask'.kind = ask.kind /\ ask'.pc # "review" /\ ask.pc \in Searched
    BY <1>1 DEF Later, Admitted, Passes, Searched, Pcs
  <2>3. BestOfSections(Admitted, ask.fused)' = BestOfSections(Admitted, ask.fused)
    BY <1>1, <2>2 DEF Later, BestOfSections, First
  <2>4. ask.pc # "review" => ask'.chunks = ask.chunks
    BY <1>1 DEF Later
  <2> QED
    BY <2>1, <2>2, <2>3, <2>4 DEF PlacesInv
<1>6. CallsInv' /\ calls' \in Seq(CallType)
  <2>1. calls \in Seq(CallType) /\ \A n \in DOMAIN calls : CallInv(calls[n])
    BY DEF IInv, TypeOK, CallsInv, CallType
  <2>2. \A call : CallInv(call)' <=> CallInv(call)
    BY <1>1, <1>2 DEF CallInv, Later
  <2>3. ask'.pc \notin {"new", "embed", "query"}
    BY <1>1 DEF Later
  <2>4. CASE calls' = calls
    BY <2>1, <2>2, <2>3, <2>4 DEF CallsInv
  <2>5. ASSUME NEW call, NEW s, calls' = Append(calls, call), s = ask.chunks \/ s = ask.misses,
               Lawful(call, s)
        PROVE  CallsInv' /\ calls' \in Seq(CallType)
    <3>1. CallInv(call) /\ call.chunks \subseteq Chunks
      BY <2>5, LawfulCall
    <3>2. PICK L \in Nat : L = Len(calls) /\ DOMAIN calls = 1 .. L
      BY <2>1
    <3>3. call \in CallType
      <4>1. /\ call = [to |-> call.to, chunks |-> call.chunks, egress |-> call.egress]
            /\ call.to \in {"judge", "model", "escalation"} /\ call.egress \in BOOLEAN
            /\ call.chunks \in SUBSET Chunks
        BY <2>5, <3>1 DEF Lawful
      <4>2. [to |-> call.to, chunks |-> call.chunks, egress |-> call.egress] \in CallType
        BY <4>1 DEF CallType
      <4> QED
        BY <4>1, <4>2, Zenon
    <3>4. /\ calls' \in Seq(CallType) /\ DOMAIN calls' = 1 .. L + 1 /\ calls'[L + 1] = call
          /\ \A n \in 1 .. L : calls'[n] = calls[n]
      BY <2>1, <2>5, <3>2, <3>3
    <3>5. ASSUME NEW n \in DOMAIN calls' PROVE CallInv(calls'[n])
      BY <2>1, <3>1, <3>2, <3>4
    <3> QED
      BY <2>2, <2>3, <3>4, <3>5 DEF CallsInv
  <2> QED
    BY <1>1, <2>4, <2>5 DEF Later
<1>7. TypeOK'
  <2>1. /\ index' \subseteq Chunks /\ ask'.pc \in Pcs /\ ask'.kind \in Kinds \cup {None}
        /\ ask'.perms \subseteq Permissions /\ ask'.held \in Held \cup {None}
    BY <1>1 DEF Later, IInv, TypeOK, Pcs
  <2>2. Range(ask'.chunks) \cup Range(ask'.misses) \subseteq Chunks
    BY <1>4 DEF SourcesInv, Range
  <2> QED
    BY <1>1, <1>6, <2>1, <2>2 DEF TypeOK, Pcs, CallType
<1>8. (DOMAIN ask = Fields)'
  BY <1>1 DEF Later, IInv
<1> QED
  BY <1>1, <1>3, <1>4, <1>5, <1>6, <1>7, <1>8 DEF IInv

-----------------------------------------------------------------------------
(* The statements of the search *)

\* The first statement is taken off: no statement comes twice, and the confidential
\* table is measured last.
Taken(todo, q, rest) ==
    /\ q \in {ChunksVector, ChunksFts, SecretVector, SecretFts}
    /\ 1 \in DOMAIN todo /\ todo[1] = q
    /\ Len(todo) \in Nat /\ Len(rest) \in Nat /\ Len(rest) = Len(todo) - 1
    /\ \A i \in DOMAIN rest : \E k \in DOMAIN todo : rest[i] = todo[k]
    /\ \A i \in DOMAIN rest : rest[i] # q
    /\ q \in {SecretVector, SecretFts} => \A i \in DOMAIN rest : rest[i] # ChunksVector

Todos(secret) == IF secret = {} THEN PublicTodo ELSE SecretTodo

LEMMA Statements ==
    /\ ChunksVector # ChunksFts /\ ChunksVector # SecretVector /\ ChunksVector # SecretFts
    /\ ChunksFts # SecretVector /\ ChunksFts # SecretFts /\ SecretVector # SecretFts
BY DEF ChunksVector, ChunksFts, SecretVector, SecretFts

LEMMA TodoStep ==
    ASSUME NEW secret, NEW todo \in Todos(secret), todo # << >>
    PROVE  Taken(todo, Head(todo), Tail(todo)) /\ Tail(todo) \in Todos(secret)
<1>1. CASE secret = {}
  <2>1. todo = <<ChunksVector, ChunksFts>> \/ todo = <<ChunksFts>>
    BY <1>1 DEF Todos, PublicTodo
  <2>2. CASE todo = <<ChunksVector, ChunksFts>>
    <3>1. Head(todo) = ChunksVector /\ Tail(todo) = <<ChunksFts>>
      BY <2>2
    <3> QED
      BY <1>1, <2>2, <3>1, Statements DEF Todos, PublicTodo, Taken
  <2>3. CASE todo = <<ChunksFts>>
    <3>1. Head(todo) = ChunksFts /\ Tail(todo) = << >>
      BY <2>3
    <3> QED
      BY <1>1, <2>3, <3>1 DEF Todos, PublicTodo, Taken
  <2> QED
    BY <2>1, <2>2, <2>3
<1>2. CASE secret # {}
  <2>1. \/ todo = <<ChunksVector, ChunksFts, SecretVector, SecretFts>>
        \/ todo = <<ChunksFts, SecretVector, SecretFts>>
        \/ todo = <<SecretVector, SecretFts>>
        \/ todo = <<SecretFts>>
    BY <1>2 DEF Todos, SecretTodo
  <2>2. CASE todo = <<ChunksVector, ChunksFts, SecretVector, SecretFts>>
    <3>1. Head(todo) = ChunksVector /\ Tail(todo) = <<ChunksFts, SecretVector, SecretFts>>
      BY <2>2
    <3>2. /\ DOMAIN todo = 1 .. 4 /\ Len(todo) = 4 /\ todo[1] = ChunksVector
          /\ todo[2] = ChunksFts /\ todo[3] = SecretVector /\ todo[4] = SecretFts
      BY <2>2
    <3>3. PICK rest : rest = <<ChunksFts, SecretVector, SecretFts>>
      OBVIOUS
    <3>4. /\ DOMAIN rest = 1 .. 3 /\ Len(rest) = 3
          /\ rest[1] = ChunksFts /\ rest[2] = SecretVector /\ rest[3] = SecretFts
      BY <3>3
    <3>5. \A i \in DOMAIN rest : \E k \in DOMAIN todo : rest[i] = todo[k]
      BY <3>2, <3>4
    <3>6. \A i \in DOMAIN rest : rest[i] # ChunksVector
      BY <3>4, Statements
    <3>7. Taken(todo, ChunksVector, rest)
      BY <3>2, <3>4, <3>5, <3>6 DEF Taken
    <3>8. rest \in Todos(secret)
      BY <1>2, <3>3 DEF Todos, SecretTodo
    <3> QED
      BY <3>1, <3>3, <3>7, <3>8
  <2>3. CASE todo = <<ChunksFts, SecretVector, SecretFts>>
    <3>1. Head(todo) = ChunksFts /\ Tail(todo) = <<SecretVector, SecretFts>>
      BY <2>3
    <3> QED
      BY <1>2, <2>3, <3>1, Statements DEF Todos, SecretTodo, Taken
  <2>4. CASE todo = <<SecretVector, SecretFts>>
    <3>1. Head(todo) = SecretVector /\ Tail(todo) = <<SecretFts>>
      BY <2>4
    <3> QED
      BY <1>2, <2>4, <3>1, Statements DEF Todos, SecretTodo, Taken
  <2>5. CASE todo = <<SecretFts>>
    <3>1. Head(todo) = SecretFts /\ Tail(todo) = << >>
      BY <2>5
    <3> QED
      BY <1>2, <2>5, <3>1 DEF Todos, SecretTodo, Taken
  <2> QED
    BY <2>1, <2>2, <2>3, <2>4, <2>5
<1> QED
  BY <1>1, <1>2

\* The statements of a scope, and how many there are at most.
LEMMA QueriesIs ==
    ASSUME NEW scope
    PROVE  /\ Queries(scope) \in Todos(scope.confidential)
           /\ Len(Queries(scope)) = IF scope.confidential = {} THEN 2 ELSE 4
<1>1. CASE scope.confidential = {}
  <2>1. Queries(scope) = <<ChunksVector, ChunksFts>>
    BY <1>1 DEF Queries, ChunksVector, ChunksFts
  <2> QED
    BY <1>1, <2>1 DEF Todos, PublicTodo
<1>2. CASE scope.confidential # {}
  <2>1. Queries(scope) = <<ChunksVector, ChunksFts>> \o <<SecretVector, SecretFts>>
    BY <1>2 DEF Queries, ChunksVector, ChunksFts, SecretVector, SecretFts
  <2>2. ASSUME NEW a, NEW b, NEW c, NEW d
        PROVE  <<a, b>> \o <<c, d>> = <<a, b, c, d>>
    <3> DEFINE S == {a, b, c, d}
               p == <<a, b>>
               q == <<c, d>>
               t == <<a, b, c, d>>
    <3>1. /\ p \in Seq(S) /\ Len(p) = 2 /\ p[1] = a /\ p[2] = b
          /\ q \in Seq(S) /\ Len(q) = 2 /\ q[1] = c /\ q[2] = d
      OBVIOUS
    <3>2. t \in Seq(S) /\ Len(t) = 4 /\ t[1] = a /\ t[2] = b /\ t[3] = c /\ t[4] = d
      OBVIOUS
    <3> HIDE DEF p, q, t, S
    <3>3. PICK r : r = p \o q
      OBVIOUS
    <3>4. /\ r \in Seq(S) /\ Len(r) = Len(p) + Len(q)
          /\ \A i \in 1 .. Len(p) + Len(q) :
               r[i] = IF i <= Len(p) THEN p[i] ELSE q[i - Len(p)]
      BY <3>1, <3>3, ConcatProperties, Zenon
    <3>5. Len(r) = Len(t) /\ \A i \in 1 .. Len(r) : r[i] = t[i]
      BY <3>1, <3>2, <3>4
    <3>6. r = t
      BY <3>2, <3>4, <3>5, SeqEqual, Zenon
    <3> QED
      BY <3>3, <3>6 DEF p, q, t
  <2>3. Queries(scope) = <<ChunksVector, ChunksFts, SecretVector, SecretFts>>
    BY <2>1, <2>2
  <2> QED
    BY <1>2, <2>3 DEF Todos, SecretTodo
<1> QED
  BY <1>1, <1>2

LEMMA TodoLength ==
    ASSUME NEW scope, NEW todo \in Todos(scope.confidential)
    PROVE  Len(todo) \in Nat /\ Len(Queries(scope)) - Len(todo) \in 0 .. 4
<1> DEFINE L == Len(Queries(scope))
<1>1. L = IF scope.confidential = {} THEN 2 ELSE 4
  BY QueriesIs
<1> HIDE DEF L
<1>2. CASE scope.confidential = {}
  <2>1. PICK n \in 0 .. 2 : n = Len(todo)
    BY <1>2 DEF Todos, PublicTodo
  <2>2. Len(todo) \in Nat /\ L - Len(todo) \in 0 .. 4
    BY <1>1, <1>2, <2>1
  <2> QED
    BY <2>2 DEF L
<1>3. CASE scope.confidential # {}
  <2>1. PICK n \in 0 .. 4 : n = Len(todo)
    BY <1>3 DEF Todos, SecretTodo
  <2>2. Len(todo) \in Nat /\ L - Len(todo) \in 0 .. 4
    BY <1>1, <1>3, <2>1
  <2> QED
    BY <2>2 DEF L
<1> QED
  BY <1>2, <1>3

-----------------------------------------------------------------------------
(* Up to the search *)

\* What the steps up to the search leave alone.
Early ==
    /\ ask.pc \in {"new", "embed", "query"} /\ ask'.pc \in {"embed", "query", "failed"}
    /\ index' = index /\ calls' = calls /\ DOMAIN ask' = DOMAIN ask
    /\ ask'.chunks = ask.chunks /\ ask'.misses = ask.misses
    /\ ask'.first = ask.first /\ ask'.second = ask.second /\ ask'.shown = ask.shown
    /\ ask'.kind \in Kinds \cup {None} /\ ask'.perms \subseteq Permissions
    /\ ask'.held \in Held \cup {None}
    /\ ask'.pc = "failed" => ask'.fused = << >>

LEMMA EarlyInv ==
    ASSUME IInv, Early
    PROVE  /\ TypeOK' /\ (DOMAIN ask = Fields)' /\ SourcesInv' /\ PlacesInv' /\ CallsInv'
           /\ ShownInv'
<1>1. ask.chunks = << >> /\ ask.misses = << >> /\ calls = << >>
  BY DEF IInv, SourcesInv, CallsInv, Early
<1>2. ask'.chunks = << >> /\ ask'.misses = << >> /\ calls' = << >>
  BY <1>1 DEF Early
<1>3. Range(<< >>) = {}
  BY DEF Range
<1>4. \A n \in {"first", "second", "shown"} : ask'[n].abstained \in BOOLEAN
  BY DEF IInv, TypeOK, Early
<1>5. TypeOK'
  <2>1. /\ index' \subseteq Chunks /\ ask'.pc \in Pcs /\ ask'.kind \in Kinds \cup {None}
        /\ ask'.perms \subseteq Permissions /\ ask'.held \in Held \cup {None}
        /\ calls' \in Seq(CallType)
    BY DEF Early, IInv, TypeOK, Pcs, CallType
  <2>2. Range(ask'.chunks) \cup Range(ask'.misses) \subseteq Chunks
    BY <1>2, <1>3
  <2> QED
    BY <1>4, <2>1, <2>2 DEF TypeOK, Pcs, CallType
<1>6. SourcesInv'
  BY <1>2, <1>3 DEF SourcesInv
<1>7. PlacesInv'
  <2>1. CASE ask'.pc = "failed"
    <3>1. Admitted' = {}
      BY <2>1 DEF Early, Admitted
    <3> QED
      BY <3>1 DEF PlacesInv
  <2>2. CASE ask'.pc # "failed"
    BY <2>2 DEF Early, PlacesInv, Searched, Pcs
  <2> QED
    BY <2>1, <2>2
<1>8. CallsInv'
  BY <1>2 DEF CallsInv
<1>9. ShownInv'
  <2>1. ~ Good(ask.first) /\ ~ Good(ask.second)
    BY DEF IInv, ShownInv, Early
  <2> QED
    BY <2>1 DEF ShownInv, BestAnswerShown, Early
<1> QED
  BY <1>5, <1>6, <1>7, <1>8, <1>9 DEF IInv, Early

\* Before the first statement nothing was found.
LEMMA NothingFound ==
    ASSUME IInv, Early, ask'.fused = << >>
    PROVE  FusedInv' /\ VersionsInv'
<1>1. DOMAIN ask'.fused = {} /\ Measured' = {}
  BY DEF Measured
<1>2. FusedInv'
  BY <1>1 DEF FusedInv, Scored
<1>3. VersionsInv'
  BY <1>1 DEF VersionsInv, IInv, Early
<1> QED
  BY <1>2, <1>3

LEMMA AskInv ==
    ASSUME IInv, NEW k \in Kinds, NEW p \in SUBSET Permissions, NEW h \in Held, Ask(k, p, h)
    PROVE  IInv'
<1>1. DOMAIN ask = Fields /\ ask.pc = "new" /\ ask.fused = << >>
  BY DEF IInv, TodoInv, Ask
<1>2. Early /\ ask'.fused = << >> /\ ask'.pc = "embed"
  BY <1>1 DEF Ask, Early, Fields
<1> QED
  BY <1>2, EarlyInv, NothingFound DEF IInv, TodoInv

LEMMA EmbedInv ==
    ASSUME IInv, Embed
    PROVE  IInv'
<1>1. DOMAIN ask = Fields /\ ask.pc = "embed" /\ ask.fused = << >>
  BY DEF IInv, TodoInv, Embed
<1> DEFINE todo == Queries(scope_for(ask.perms))
<1>2. ask' = [ask EXCEPT !.pc = "query", !.todo = todo] /\ index' = index /\ calls' = calls
  BY DEF Embed
<1> HIDE DEF todo
<1>3. /\ ask'.fused = << >> /\ ask'.pc = "query" /\ ask'.todo = todo /\ ask'.perms = ask.perms
      /\ DOMAIN ask' = DOMAIN ask /\ ask'.chunks = ask.chunks /\ ask'.misses = ask.misses
      /\ ask'.first = ask.first /\ ask'.second = ask.second /\ ask'.shown = ask.shown
      /\ ask'.kind = ask.kind /\ ask'.held = ask.held
  BY <1>1, <1>2 DEF Fields
<1>4. Early
  BY <1>1, <1>2, <1>3 DEF Early, IInv, TypeOK
<1>5. ask'.todo \in Todos(Scope'.confidential)
  BY <1>3, QueriesIs DEF Scope, todo
<1>6. TodoInv'
  BY <1>3, <1>5 DEF TodoInv, Todos
<1> QED
  BY <1>3, <1>4, <1>6, EarlyInv, NothingFound DEF IInv

LEMMA EmbedFailsInv ==
    ASSUME IInv, EmbedFails
    PROVE  IInv'
<1>1. DOMAIN ask = Fields /\ ask.pc = "embed" /\ ask.fused = << >>
  BY DEF IInv, TodoInv, EmbedFails
<1>2. Early /\ ask'.fused = << >> /\ ask'.pc = "failed"
  BY <1>1 DEF EmbedFails, Early, Fields, IInv, TypeOK
<1> QED
  BY <1>2, EarlyInv, NothingFound DEF IInv, TodoInv

\* What one statement does to the question.
Rows(q, scope) ==
    {c \in index : /\ TableOf(c) = q[1] /\ c.model = IndexModel
                   /\ Filter(c, q[1], scope) /\ RowSecurity(c, scope)
                   /\ q[2] = "fts" => c.fts > 0}

Queried(q, rest, rows, n) ==
    /\ Early /\ ask.pc = "query" /\ ask'.pc = "query"
    /\ ask'.todo = rest /\ ask'.perms = ask.perms
    /\ Taken(ask.todo, q, rest) /\ rest \in Todos(Scope.confidential)
    /\ n \in Nat /\ Done = n /\ Done' = n + 1
    /\ Fused(ask.fused, ask'.fused, Rows(q, Scope), rows, q[2], n)

LEMMA QueryIs ==
    ASSUME IInv, Query
    PROVE  \E q, rest, rows, n : Queried(q, rest, rows, n)
<1> DEFINE q == Head(ask.todo)
           rest == Tail(ask.todo)
           n == Len(Queries(Scope)) - Len(ask.todo)
<1>1. DOMAIN ask = Fields /\ ask.pc = "query" /\ ask.todo # << >> /\ index \subseteq Chunks
  BY DEF IInv, TypeOK, Query
<1>2. ask.todo \in Todos(Scope.confidential)
  BY <1>1 DEF IInv, TodoInv, Todos
<1>3. Taken(ask.todo, q, rest) /\ rest \in Todos(Scope.confidential)
  BY <1>1, <1>2, TodoStep
<1>4. n \in 0 .. 4 /\ Done = n
  BY <1>1, <1>2, TodoLength DEF Done
<1>5. PICK rows \in _candidate_sql(q, index, Scope) :
        ask' = [ask EXCEPT !.fused = Fuse(ask.fused, rows, q[2], Candidates * n), !.todo = rest]
  BY DEF Query, Scope
<1>6. rows \in Picks(Rows(q, Scope), Candidates)
  BY RowsArePicked DEF Rows
<1> DEFINE new == Fuse(ask.fused, rows, q[2], Candidates * n)
<1>7. Fused(ask.fused, new, Rows(q, Scope), rows, q[2], n)
  <2>1. Scored(ask.fused, n) /\ n \in Nat
    BY <1>4 DEF IInv, FusedInv
  <2>2. Rows(q, Scope) \in SUBSET Chunks
    BY <1>1 DEF Rows
  <2> HIDE DEF n, q
  <2> QED
    BY <1>6, <2>1, <2>2, FuseIs
<1>8. ask' = [ask EXCEPT !.fused = new, !.todo = rest] /\ index' = index /\ calls' = calls
  BY <1>5 DEF Query
<1> HIDE DEF new, rest, q
<1>9. /\ ask'.fused = new /\ ask'.pc = "query" /\ ask'.todo = rest /\ ask'.perms = ask.perms
      /\ DOMAIN ask' = DOMAIN ask /\ ask'.chunks = ask.chunks /\ ask'.misses = ask.misses
      /\ ask'.first = ask.first /\ ask'.second = ask.second /\ ask'.shown = ask.shown
      /\ ask'.kind = ask.kind /\ ask'.held = ask.held
  BY <1>1, <1>8 DEF Fields
<1>10. Early
  BY <1>1, <1>8, <1>9 DEF Early, IInv, TypeOK
<1>11. Done' = n + 1
  <2>1. Len(Queries(Scope)) \in Int
    <3>1. Len(Queries(Scope)) = IF Scope.confidential = {} THEN 2 ELSE 4
      BY QueriesIs
    <3> QED
      BY <3>1
  <2>2. Done' = Len(Queries(Scope)) - Len(rest)
    BY <1>9 DEF Done, Scope
  <2>3. Len(ask.todo) \in Nat /\ Len(rest) = Len(ask.todo) - 1
    BY <1>3 DEF Taken
  <2> QED
    BY <2>1, <2>2, <2>3
<1>12. n \in Nat
  BY <1>4
<1> HIDE DEF n
<1>13. Queried(q, rest, rows, n)
  BY <1>1, <1>3, <1>4, <1>7, <1>9, <1>10, <1>11, <1>12 DEF Queried
<1> QED
  BY <1>13

LEMMA QueryInv ==
    ASSUME IInv, Query
    PROVE  IInv'
<1>1. PICK q, rest, rows, n : Queried(q, rest, rows, n)
  BY QueryIs
<1>2. Early /\ ask.pc = "query" /\ ask'.pc = "query" /\ index' = index
  BY <1>1 DEF Queried, Early
<1>3. /\ DOMAIN ask'.fused = DOMAIN ask.fused \cup Range(rows)
      /\ Range(rows) \subseteq Rows(q, Scope)
      /\ Scored(ask'.fused, n + 1)
      /\ \A c \in DOMAIN ask'.fused :
           ask'.fused[c].sim # None <=> \/ c \in DOMAIN ask.fused /\ ask.fused[c].sim # None
                                        \/ q[2] = "vector" /\ c \in Range(rows)
  BY <1>1 DEF Queried, Fused
<1>4. TodoInv'
  <2>1. Scope' = Scope
    BY <1>1 DEF Scope, Queried
  <2> QED
    BY <1>1, <1>2, <2>1 DEF Queried, TodoInv, Todos
<1>5. FusedInv'
  <2>1. ASSUME NEW c \in DOMAIN ask'.fused PROVE Permitted(c)'
    <3>1. Permitted(c)' <=> Permitted(c)
      BY <1>1 DEF Permitted, Queried
    <3>2. CASE c \in DOMAIN ask.fused
      BY <3>1, <3>2 DEF IInv, FusedInv
    <3>3. CASE c \in Range(rows)
      <4>1. c \in index /\ TableOf(c) = q[1] /\ Filter(c, q[1], Scope)
        BY <1>3, <3>3 DEF Rows
      <4>2. c \in Chunk
        BY <4>1, RetrievalAssumption DEF IInv, TypeOK
      <4>3. \/ c.class = "public"
            \/ /\ <<"docs", c.department>> \in ask.perms
               /\ c.class = "confidential" => <<"confidential", c.department>> \in ask.perms
        BY <4>1, <4>2, RulesAgree DEF Scope
      <4> QED
        BY <3>1, <4>3 DEF Permitted
    <3> QED
      BY <1>3, <3>2, <3>3
  <2>2. Scored(ask'.fused, Done')
    BY <1>1, <1>3 DEF Queried
  <2> QED
    BY <2>1, <2>2 DEF FusedInv
<1>6. VersionsInv'
  <2>1. VersionsInv
    BY DEF IInv
  <2>2. Taken(ask.todo, q, rest) /\ ask'.todo = rest
    BY <1>1 DEF Queried
  <2> DEFINE Hit(c) == /\ q[2] = "vector" /\ c \in index /\ TableOf(c) = q[1]
                       /\ q = <<TableOf(c), "vector">>
  <2>3. \A c \in Measured' : c \in Measured \/ Hit(c)
    <3> SUFFICES ASSUME NEW c \in Measured' PROVE c \in Measured \/ Hit(c)
      OBVIOUS
    <3>1. \/ c \in DOMAIN ask.fused /\ ask.fused[c].sim # None
          \/ q[2] = "vector" /\ c \in Rows(q, Scope)
      BY <1>3 DEF Measured
    <3>2. q = <<q[1], q[2]>>
      BY <2>2 DEF Taken, ChunksVector, ChunksFts, SecretVector, SecretFts
    <3>3. CASE q[2] = "vector" /\ c \in Rows(q, Scope)
      <4>1. c \in index /\ TableOf(c) = q[1]
        BY <3>3 DEF Rows
      <4>2. q = <<TableOf(c), "vector">>
        BY <3>2, <3>3, <4>1, Zenon
      <4> QED
        BY <3>3, <4>1, <4>2
    <3> QED
      BY <3>1, <3>3 DEF Measured
  <2>4. ASSUME NEW c \in Measured
        PROVE  q # <<TableOf(c), "vector">> /\ (TableOf(c) = "confidential_chunks" => q # ChunksVector)
    BY <1>2, <2>1, <2>2 DEF Taken, VersionsInv
  <2>5. \A c : TableOf(c) \in {"chunks", "confidential_chunks"}
    BY DEF TableOf
  <2>6. \A c \in Measured' : \A e \in index : c.doc = e.doc => c.version <= e.version
    <3>1. \A c, e \in index : c.doc = e.doc => c.version <= e.version
      <4>1. \A c \in index : c.version \in Nat
        BY RetrievalAssumption DEF IInv, TypeOK, Chunk
      <4> QED
        BY <2>1, <4>1 DEF VersionsInv
    <3> QED
      BY <2>1, <2>3, <3>1 DEF VersionsInv
  <2>7. ASSUME NEW c \in Measured', NEW e \in Measured', c.doc = e.doc
        PROVE  /\ TableOf(c) = TableOf(e) => c.version = e.version
               /\ TableOf(c) = "chunks" => c.version <= e.version
    <3>1. CASE c \in Measured /\ e \in Measured
      BY <2>1, <2>7, <3>1 DEF VersionsInv
    <3>2. CASE Hit(c) /\ Hit(e)
      BY <2>1, <2>6, <2>7, <3>2 DEF VersionsInv
    <3>3. CASE c \in Measured /\ Hit(e)
      <4>1. TableOf(c) # TableOf(e)
        BY <2>4, <3>3
      <4> QED
        BY <2>6, <2>7, <3>3, <4>1
    <3>4. CASE Hit(c) /\ e \in Measured
      <4>1. TableOf(c) # TableOf(e)
        BY <2>4, <3>4
      <4>2. TableOf(c) # "chunks"
        BY <2>4, <2>5, <3>4, <4>1 DEF ChunksVector
      <4> QED
        BY <4>1, <4>2
    <3> QED
      BY <2>3, <3>1, <3>2, <3>3, <3>4
  <2>8. ASSUME NEW c \in Measured', NEW i \in DOMAIN rest
        PROVE  /\ rest[i] # <<TableOf(c), "vector">>
               /\ TableOf(c) = "confidential_chunks" => rest[i] # ChunksVector
    <3>1. CASE c \in Measured
      <4>1. PICK k \in DOMAIN ask.todo : rest[i] = ask.todo[k]
        BY <2>2 DEF Taken
      <4> QED
        BY <1>2, <2>1, <3>1, <4>1 DEF VersionsInv
    <3>2. CASE Hit(c)
      <4>1. rest[i] # q
        BY <2>2 DEF Taken
      <4>2. TableOf(c) = "confidential_chunks" => rest[i] # ChunksVector
        BY <2>2, <3>2 DEF Taken, SecretVector
      <4> QED
        BY <3>2, <4>1, <4>2
    <3> QED
      BY <2>3, <3>1, <3>2
  <2> QED
    BY <1>2, <2>1, <2>2, <2>6, <2>7, <2>8 DEF VersionsInv
<1> QED
  BY <1>2, <1>4, <1>5, <1>6, EarlyInv DEF IInv

-----------------------------------------------------------------------------
(* The relevance gate *)

LEMMA ScoredLater ==
    ASSUME NEW fused, NEW n \in 0 .. 4, Scored(fused, n)
    PROVE  Scored(fused, 4)
<1>1. ASSUME NEW a \in Nat PROVE a * n <= a * 4
  BY SMTT(30)
<1>2. /\ Scale \in Nat /\ Candidates \in Nat /\ Scale * n \in Nat /\ Candidates * n \in Nat
      /\ Scale * 4 \in Nat /\ Candidates * 4 \in Nat
  BY RetrievalAssumption, Products
<1>3. Scale * n <= Scale * 4 /\ Candidates * n <= Candidates * 4
  BY <1>1, <1>2
<1>4. 0 .. Scale * n \subseteq 0 .. Scale * 4 /\ 1 .. Candidates * n \subseteq 1 .. Candidates * 4
  BY <1>2, <1>3
<1>5. \A c : Score(c, n) \subseteq Score(c, 4)
  BY <1>4 DEF Score
<1> QED
  BY <1>5 DEF Scored

\* What the gate lets through is relevant, and so are the near misses.
LEMMA GateLets ==
    ASSUME IInv, NEW c
    PROVE  Passes(c, ask.fused) \/ NearMiss(c, ask.fused) => (c \in DOMAIN ask.fused => Near(c))
<1> SUFFICES ASSUME c \in DOMAIN ask.fused, Passes(c, ask.fused) \/ NearMiss(c, ask.fused)
             PROVE  Near(c)
  OBVIOUS
<1>1. c \in Chunks /\ ask.fused[c].sim \in {None, c.sim}
  BY DEF IInv, FusedInv, Scored, Score
<1>2. c.sim \in Nat /\ Threshold \in Nat /\ ReviewMargin \in Nat
  BY <1>1, RetrievalAssumption DEF Chunk
<1>3. CASE Passes(c, ask.fused)
  <2>1. ask.fused[c].sim # None /\ ask.fused[c].sim = c.sim /\ c.sim >= Threshold
    BY <1>1, <1>3 DEF Passes
  <2> QED
    BY <1>2, <2>1 DEF Near, Measured
<1>4. CASE NearMiss(c, ask.fused)
  <2>1. (IF ask.fused[c].sim = None THEN 0 ELSE ask.fused[c].sim) >= Threshold - ReviewMargin
    BY <1>4 DEF NearMiss
  <2>2. CASE ask.fused[c].sim = None
    BY <1>2, <2>1, <2>2 DEF Near
  <2>3. CASE ask.fused[c].sim # None
    BY <1>1, <1>2, <2>1, <2>3 DEF Near, Measured
  <2> QED
    BY <2>2, <2>3
<1> QED
  BY <1>3, <1>4

\* The end of the search.
Gated(shown, misses) ==
    /\ ask.pc = "query" /\ ask'.pc \in {"done", "review", "answer"}
    /\ index' = index /\ calls' = calls /\ DOMAIN ask' = DOMAIN ask
    /\ ask'.chunks = shown /\ ask'.misses = misses /\ ask'.fused = ask.fused
    /\ ask'.first = ask.first /\ ask'.second = ask.second /\ ask'.shown = ask.shown
    /\ ask'.kind = ask.kind /\ ask'.perms = ask.perms /\ ask'.held = ask.held
    /\ shown \in Seq(Chunks) /\ misses \in Seq(Chunks)
    /\ \A c \in Range(shown) \cup Range(misses) : Near(c)
    /\ ask.kind # "tool" /\ Admitted # {} =>
         /\ Len(shown) = Places(Cardinality(BestOfSections(Admitted, ask.fused)))
         /\ ask'.pc # "review"
    /\ Done \in 0 .. 4

LEMMA GateIs ==
    ASSUME IInv, NEW department \in Departments \cup {None}, Gate(department)
    PROVE  \E shown, misses : Gated(shown, misses)
<1>1. /\ DOMAIN ask = Fields /\ ask.pc = "query" /\ ask.todo = << >>
      /\ DOMAIN ask.fused \subseteq Chunks /\ IsFiniteSet(Chunks) /\ TopK \in Nat
      /\ ReviewMax \in Nat
  BY RetrievalAssumption DEF IInv, FusedInv, Scored, Gate
<1>2. PICK chunks \in gate(ask.fused, TopK), misses \in NearMisses(ask.fused) :
        \E shown \in Ranked(Shown(chunks, department), ask.fused, TopK) :
          ask' = [ask EXCEPT
             !.pc = IF ask.kind # "chat" THEN "done"
                    ELSE IF misses # << >> THEN "review" ELSE "answer",
             !.chunks = shown, !.misses = misses]
  BY DEF Gate
<1>3. PICK shown \in Ranked(Shown(chunks, department), ask.fused, TopK) :
        ask' = [ask EXCEPT
           !.pc = IF ask.kind # "chat" THEN "done"
                  ELSE IF misses # << >> THEN "review" ELSE "answer",
           !.chunks = shown, !.misses = misses]
  BY <1>2
<1> DEFINE B == BestOfSections(Admitted, ask.fused)
           N == {c \in DOMAIN ask.fused : NearMiss(c, ask.fused)}
           M == BestOfSections(N, ask.fused)
           R == Shown(chunks, department)
           p == IF ask.kind # "chat" THEN "done"
                ELSE IF misses # << >> THEN "review" ELSE "answer"
<1>4. B \subseteq Admitted /\ Admitted \subseteq DOMAIN ask.fused /\ IsFiniteSet(B)
      /\ M \subseteq N /\ IsFiniteSet(M) /\ Admitted = Kept(ask.fused)
  <2>1. /\ B \subseteq Admitted /\ Admitted \subseteq DOMAIN ask.fused /\ M \subseteq N
        /\ Admitted = Kept(ask.fused) /\ N \subseteq DOMAIN ask.fused
    BY DEF BestOfSections, Admitted, Kept
  <2>2. IsFiniteSet(DOMAIN ask.fused)
    BY <1>1, FS_Subset
  <2>3. B \subseteq DOMAIN ask.fused /\ M \subseteq DOMAIN ask.fused
    BY <2>1
  <2> QED
    BY <2>1, <2>2, <2>3, FS_Subset
<1>5. chunks \in Picks(B, TopK)
  BY <1>4, SectionsArePicked DEF gate
<1>6. misses = << >> \/ misses \in Picks(M, ReviewMax)
  BY SectionsArePicked DEF NearMisses
<1>7. Admitted # {} => misses = << >>
  BY <1>4 DEF NearMisses
<1>8. shown \in Picks(R, TopK)
  BY ShownArePicked
<1>9. R \subseteq Range(chunks) /\ (ask.kind # "tool" => R = Range(chunks))
  BY DEF Shown, Gate
<1>10. ask' = [ask EXCEPT !.pc = p, !.chunks = shown, !.misses = misses]
       /\ index' = index /\ calls' = calls
  BY <1>3 DEF Gate
<1>11. p \in {"done", "review", "answer"} /\ (misses = << >> => p # "review")
  OBVIOUS
<1> HIDE DEF B, N, M, R, p
<1>12. /\ Range(chunks) \subseteq B /\ IsFiniteSet(Range(chunks))
       /\ Cardinality(Range(chunks)) = Size(B, TopK) /\ Size(B, TopK) \in Nat
  BY <1>1, <1>4, <1>5, Picked
<1>13. IsFiniteSet(R)
  BY <1>9, <1>12, FS_Subset
<1>14. shown \in Seq(R) /\ Len(shown) = Size(R, TopK) /\ Range(shown) \subseteq R
       /\ DOMAIN shown = 1 .. Size(R, TopK) /\ Size(R, TopK) \in Nat
  BY <1>1, <1>8, <1>13, Picked
<1>15. misses \in Seq(M) /\ Range(misses) \subseteq M
  <2>1. CASE misses = << >>
    BY <2>1 DEF Range
  <2>2. CASE misses \in Picks(M, ReviewMax)
    BY <1>1, <1>4, <2>2, Picked
  <2> QED
    BY <1>6, <2>1, <2>2
<1>16. R \subseteq Chunks /\ M \subseteq Chunks
  <2>1. N \subseteq DOMAIN ask.fused
    BY DEF N
  <2> QED
    BY <1>1, <1>4, <1>9, <1>12, <2>1
<1>17. shown \in Seq(Chunks) /\ misses \in Seq(Chunks)
  BY <1>14, <1>15, <1>16
<1>18. ASSUME NEW c \in Range(shown) \cup Range(misses) PROVE Near(c)
  <2>1. c \in Admitted \/ c \in N
    BY <1>4, <1>9, <1>12, <1>14, <1>15
  <2> QED
    BY <2>1, GateLets DEF Admitted, N
<1>19. ask.kind # "tool" => Len(shown) = Places(Cardinality(B))
  <2>1. Cardinality(B) \in Nat
    BY <1>4, FS_CardinalityType
  <2>2. Size(B, TopK) = Places(Cardinality(B)) /\ Size(B, TopK) <= TopK
    BY <1>1, <2>1 DEF Size, Places
  <2>3. ask.kind # "tool" => Len(shown) = Size(Range(chunks), TopK)
    BY <1>9, <1>14
  <2>4. Size(Range(chunks), TopK) = Size(B, TopK)
    BY <1>1, <1>12, <2>2 DEF Size
  <2> QED
    BY <2>2, <2>3, <2>4
<1>20. Done \in 0 .. 4
  <2>1. ask.todo \in Todos(Scope.confidential)
    BY <1>1 DEF IInv, TodoInv, Todos
  <2> QED
    BY <1>1, <2>1, TodoLength DEF Done
<1>21. /\ ask'.pc = p /\ ask'.chunks = shown /\ ask'.misses = misses /\ ask'.fused = ask.fused
       /\ DOMAIN ask' = DOMAIN ask
       /\ ask'.first = ask.first /\ ask'.second = ask.second /\ ask'.shown = ask.shown
       /\ ask'.kind = ask.kind /\ ask'.perms = ask.perms /\ ask'.held = ask.held
  BY <1>1, <1>10 DEF Fields
<1>22. Gated(shown, misses)
  BY <1>1, <1>7, <1>10, <1>11, <1>17, <1>18, <1>19, <1>20, <1>21 DEF Gated, B
<1> QED
  BY <1>22

LEMMA GateInv ==
    ASSUME IInv, NEW department \in Departments \cup {None}, Gate(department)
    PROVE  IInv'
<1>1. PICK shown, misses : Gated(shown, misses)
  BY GateIs
<1>2. /\ ask'.pc \notin {"new", "embed", "query"} /\ ask.pc = "query"
      /\ ask'.fused = ask.fused /\ ask'.perms = ask.perms /\ index' = index
      /\ calls' = calls /\ calls = << >>
  BY <1>1 DEF Gated, IInv, CallsInv
<1>3. Measured' = Measured /\ \A c : Permitted(c)' <=> Permitted(c)
  BY <1>2 DEF Measured, Permitted
<1>4. FusedInv'
  <2>1. Scored(ask.fused, 4)
    BY <1>1, ScoredLater DEF Gated, IInv, FusedInv
  <2>2. Done' = 4
    BY <1>2 DEF Done
  <2> QED
    BY <1>2, <1>3, <2>1, <2>2 DEF IInv, FusedInv
<1>5. TodoInv' /\ VersionsInv'
  BY <1>2, <1>3 DEF IInv, VersionsInv, TodoInv
<1>6. SourcesInv'
  <2>1. \A c : Near(c)' <=> Near(c)
    BY <1>2, <1>3 DEF Near
  <2> QED
    BY <1>1, <1>2, <2>1 DEF Gated, SourcesInv
<1>7. PlacesInv'
  <2>1. Admitted' = Admitted
    BY <1>2 DEF Admitted, Passes
  <2>2. BestOfSections(Admitted, ask.fused)' = BestOfSections(Admitted, ask.fused)
    BY <1>2, <2>1 DEF BestOfSections, First
  <2> QED
    BY <1>1, <2>1, <2>2 DEF Gated, PlacesInv
<1>8. CallsInv'
  BY <1>2 DEF CallsInv
<1>9. ShownInv'
  <2>1. ~ Good(ask.first) /\ ~ Good(ask.second)
    BY <1>2 DEF IInv, ShownInv
  <2> QED
    BY <1>1, <2>1 DEF ShownInv, BestAnswerShown, Gated
<1>10. TypeOK'
  <2>1. /\ index' \subseteq Chunks /\ ask'.pc \in Pcs /\ ask'.kind \in Kinds \cup {None}
        /\ ask'.perms \subseteq Permissions /\ ask'.held \in Held \cup {None}
        /\ calls' \in Seq(CallType)
    BY <1>1 DEF Gated, IInv, TypeOK, Pcs, CallType
  <2>2. Range(ask'.chunks) \cup Range(ask'.misses) \subseteq Chunks
    BY <1>6 DEF SourcesInv, Range
  <2>3. \A n \in {"first", "second", "shown"} : ask'[n].abstained \in BOOLEAN
    BY <1>1 DEF IInv, TypeOK, Gated
  <2> QED
    BY <2>1, <2>2, <2>3 DEF TypeOK, Pcs, CallType
<1>11. (DOMAIN ask = Fields)'
  BY <1>1 DEF Gated, IInv
<1> QED
  BY <1>4, <1>5, <1>6, <1>7, <1>8, <1>9, <1>10, <1>11 DEF IInv

-----------------------------------------------------------------------------
(* Documents move *)

\* Only the versions depend on the index.
LEMMA MoveInv ==
    ASSUME IInv, ask' = ask, calls' = calls, VersionsInv'
    PROVE  IInv'
<1>1. index' \subseteq Chunks
  BY DEF VersionsInv
<1>2. TypeOK'
  BY <1>1 DEF IInv, TypeOK
<1>3. TodoInv' /\ FusedInv' /\ (DOMAIN ask = Fields)'
  BY DEF IInv, TodoInv, FusedInv, Done, Scope, Permitted
<1>4. \A c : Near(c)' <=> Near(c)
  BY DEF Near, Measured
<1>5. SourcesInv' /\ CallsInv'
  BY <1>4 DEF IInv, SourcesInv, CallsInv, CallInv
<1>6. PlacesInv'
  <2>1. Admitted' = Admitted
    BY DEF Admitted, Passes
  <2>2. BestOfSections(Admitted, ask.fused)' = BestOfSections(Admitted, ask.fused)
    BY <2>1 DEF BestOfSections, First
  <2> QED
    BY <2>1, <2>2 DEF IInv, PlacesInv
<1>7. ShownInv'
  BY DEF IInv, ShownInv, BestAnswerShown
<1> QED
  BY <1>2, <1>3, <1>5, <1>6, <1>7 DEF IInv

\* The new version is newer than any the search has measured.
LEMMA ReindexInv ==
    ASSUME IInv, NEW d \in Moving, Reindex(d)
    PROVE  IInv'
<1> DEFINE old == {c \in index : c.doc = d}
           new == Version(d, 1 + Max({c.version : c \in old} \cup {0}))
<1>1. old # {} /\ index' = (index \ old) \cup new /\ ask' = ask /\ calls' = calls
  BY DEF Reindex
<1>2. VersionsInv /\ index \subseteq Chunks
  BY DEF IInv, VersionsInv
<1>3. \A c \in Chunks : c.version \in Nat
  BY RetrievalAssumption DEF Chunk
<1>4. PICK o \in index : o.doc = d
  BY <1>1
<1>5. PICK v \in Nat : v = o.version
  BY <1>2, <1>3
<1>6. \A c \in old : c.version = v
  BY <1>2, <1>4, <1>5 DEF VersionsInv
<1>7. Max({c.version : c \in old} \cup {0}) = v
  <2>1. {c.version : c \in old} \cup {0} = {v, 0}
    BY <1>4, <1>5, <1>6
  <2>2. Max({v, 0}) = v
    <3>1. Max({v, 0}) = CHOOSE x \in {v, 0} : \A y \in {v, 0} : x >= y
      BY DEF Max
    <3>2. \A x \in {v, 0} : (\A y \in {v, 0} : x >= y) => x = v
      BY <1>5
    <3>3. \A y \in {v, 0} : v >= y
      BY <1>5
    <3> QED
      BY <3>1, <3>2, <3>3
  <2> QED
    BY <2>1, <2>2, Zenon
<1>8. \A c \in new : c \in Chunks /\ c.doc = d /\ c.version = 1 + v
  BY <1>7 DEF Version
<1>9. Measured' = Measured
  BY <1>1 DEF Measured
<1>10. \A c \in index' : (c \in index /\ c.doc # d) \/ c \in new
  BY <1>1
<1> HIDE DEF old, new
<1>11. \A c \in Measured : c.version \in Nat
  BY <1>3 DEF IInv, FusedInv, Scored, Measured
<1>12. \A c, e \in index' : c.doc = e.doc => c.version = e.version
  BY <1>2, <1>8, <1>10 DEF VersionsInv
<1>13. \A c \in Measured, e \in index' : c.doc = e.doc => c.version <= e.version
  <2> SUFFICES ASSUME NEW c \in Measured, NEW e \in index', c.doc = e.doc
               PROVE  c.version <= e.version
    OBVIOUS
  <2>1. CASE e \in index
    BY <1>2, <2>1 DEF VersionsInv
  <2>2. CASE e \in new
    <3>1. c.version <= v
      BY <1>2, <1>4, <1>5, <1>8, <2>2 DEF VersionsInv
    <3> QED
      BY <1>5, <1>8, <1>11, <2>2, <3>1
  <2> QED
    BY <1>10, <2>1, <2>2
<1>14. index' \subseteq Chunks
  BY <1>2, <1>8, <1>10
<1>15. VersionsInv'
  BY <1>1, <1>2, <1>9, <1>12, <1>13, <1>14 DEF VersionsInv
<1> QED
  BY <1>1, <1>15, MoveInv

LEMMA DeactivateInv ==
    ASSUME IInv, NEW d \in Moving, Deactivate(d)
    PROVE  IInv'
<1>1. index' \subseteq index /\ ask' = ask /\ calls' = calls
  BY DEF Deactivate
<1>2. Measured' = Measured
  BY <1>1 DEF Measured
<1>3. VersionsInv'
  BY <1>1, <1>2 DEF IInv, VersionsInv
<1> QED
  BY <1>1, <1>3, MoveInv

-----------------------------------------------------------------------------
(* The theorems *)

LEMMA InitInv ==
    Init => IInv
<1> SUFFICES ASSUME Init PROVE IInv
  OBVIOUS
<1>1. /\ ask.pc = "new" /\ ask.kind = None /\ ask.perms = {} /\ ask.held = None
      /\ ask.fused = << >> /\ ask.chunks = << >> /\ ask.misses = << >>
      /\ ask.first = Abstention /\ ask.second = Abstention /\ ask.shown = Abstention
      /\ DOMAIN ask = Fields /\ calls = << >>
  BY DEF Init, NoAsk, NoAnswer, Fields
<1>2. index \subseteq Chunks /\ \A c \in index : c.version = 1
  BY DEF Init, Version
<1>3. ~ Good(Abstention) /\ Abstention.abstained \in BOOLEAN
  BY DEF Good, Abstention
<1>4. Range(<< >>) = {} /\ DOMAIN ask.fused = {} /\ Measured = {} /\ Admitted = {}
  BY <1>1 DEF Range, Measured, Admitted
<1>5. TypeOK
  BY <1>1, <1>2, <1>3, <1>4 DEF TypeOK
<1>6. FusedInv /\ VersionsInv /\ TodoInv
  BY <1>1, <1>2, <1>4 DEF FusedInv, Scored, VersionsInv, TodoInv
<1>7. SourcesInv /\ PlacesInv /\ CallsInv
  BY <1>1, <1>4 DEF SourcesInv, PlacesInv, CallsInv
<1>8. ShownInv
  BY <1>1, <1>3 DEF ShownInv, BestAnswerShown
<1> QED
  BY <1>1, <1>5, <1>6, <1>7, <1>8 DEF IInv

LEMMA NextInv ==
    IInv /\ [Next]_vars => IInv'
<1> SUFFICES ASSUME IInv, [Next]_vars PROVE IInv'
  OBVIOUS
<1>1. CASE UNCHANGED vars
  <2>1. ask' = ask /\ calls' = calls /\ index' = index
    BY <1>1 DEF vars
  <2>2. VersionsInv'
    BY <2>1 DEF IInv, VersionsInv, Measured
  <2> QED
    BY <2>1, <2>2, MoveInv
<1>2. CASE \E d \in Moving : Reindex(d) \/ Deactivate(d)
  BY <1>2, ReindexInv, DeactivateInv
<1>3. CASE \E k \in Kinds, p \in SUBSET Permissions, h \in Held : Ask(k, p, h)
  BY <1>3, AskInv
<1>4. CASE Embed
  BY <1>4, EmbedInv
<1>5. CASE EmbedFails
  BY <1>5, EmbedFailsInv
<1>6. CASE Query
  BY <1>6, QueryInv
<1>7. CASE \E d \in Departments \cup {None} : Gate(d)
  BY <1>7, GateInv
<1>8. CASE LaterStep
  BY <1>8, LaterInv
<1> QED
  BY <1>1, <1>2, <1>3, <1>4, <1>5, <1>6, <1>7, <1>8 DEF Next, LaterStep

\* The invariant holds in every reachable state, whatever is re-indexed or deleted
\* between the statements of the search (knowledge/retrieval.py: retrieve).
THEOREM Invariance == Spec => []IInv
BY InitInv, NextInv, PTL DEF Spec

\* Nothing the caller may not read reaches a model, the judge or the caller
\* (policy/access.py, knowledge/retrieval.py).
THEOREM Permission == Spec => []OnlyPermittedText
<1>1. IInv => OnlyPermittedText
  <2> SUFFICES ASSUME IInv PROVE OnlyPermittedText
    OBVIOUS
  <2>1. \A c : Near(c) => Permitted(c)
    BY DEF IInv, FusedInv, Near
  <2> QED
    BY <2>1 DEF IInv, SourcesInv, CallsInv, CallInv, OnlyPermittedText
<1> QED
  BY <1>1, Invariance, PTL

\* A call that may leave the box carries nothing above egress_max_classification, nor
\* does the conversation it belongs to (agent/service.py: allows_egress); the judge of a
\* near miss is exempt from the second, and is sent nothing of the earlier turns.
THEOREM Egresses == Spec => []StaysOnTheBox
<1>1. IInv => StaysOnTheBox
  BY DEF IInv, CallsInv, CallInv, StaysOnTheBox
<1> QED
  BY <1>1, Invariance, PTL

\* Passages are relevant, of distinct sections, and of one version of a document
\* unless it was reclassified during the search (knowledge/retrieval.py: gate).
THEOREM Sources == Spec => []SourcesAreSound
<1>1. IInv => SourcesAreSound
  <2> SUFFICES ASSUME IInv PROVE SourcesAreSound
    OBVIOUS
  <2>1. NoModelForAClearMiss
    BY DEF IInv, CallsInv, CallInv, Near, NoModelForAClearMiss
  <2>2. SectionsAreDistinct
    <3> SUFFICES ASSUME ask.pc \in {"answer", "done"}, ask.kind # "tool", Admitted # {}
                 PROVE  Len(ask.chunks) = Places(Cardinality({Section(c) : c \in Admitted}))
      BY DEF SectionsAreDistinct, Places, Section
    <3>1. Len(ask.chunks) = Places(Cardinality(BestOfSections(Admitted, ask.fused)))
      BY DEF IInv, PlacesInv, Searched, Pcs
    <3>2. Scored(ask.fused, Done) /\ Done \in Nat /\ Admitted \in SUBSET DOMAIN ask.fused
      BY DEF IInv, FusedInv, Done, Admitted
    <3>3. Cardinality(BestOfSections(Admitted, ask.fused)) = Cardinality({Section(c) : c \in Admitted})
      <4> HIDE DEF Done, Admitted
      <4> QED
        BY <3>2, OneASection
    <3> QED
      BY <3>1, <3>3
  <2>3. VersionsMixOnlyByReclassification
    <3> SUFFICES ASSUME ReviewMargin < Threshold,
                        NEW c \in Range(ask.chunks) \cup Range(ask.misses),
                        NEW e \in Range(ask.chunks) \cup Range(ask.misses),
                        c.doc = e.doc, c.version < e.version
                 PROVE  TableOf(c) = "chunks" /\ TableOf(e) = "confidential_chunks"
      BY DEF VersionsMixOnlyByReclassification
    <3>1. c \in Measured /\ e \in Measured
      BY DEF IInv, SourcesInv, Near
    <3>2. c.version \in Nat /\ e.version \in Nat
      BY <3>1, RetrievalAssumption DEF IInv, FusedInv, Scored, Measured, Chunk
    <3>3. /\ TableOf(c) = TableOf(e) => c.version = e.version
          /\ TableOf(e) = "chunks" => e.version <= c.version
      BY <3>1 DEF IInv, VersionsInv
    <3>4. TableOf(c) \in {"chunks", "confidential_chunks"}
          /\ TableOf(e) \in {"chunks", "confidential_chunks"}
      BY DEF TableOf
    <3> QED
      BY <3>2, <3>3, <3>4
  <2> QED
    BY <2>1, <2>2, <2>3 DEF SourcesAreSound, IInv
<1> QED
  BY <1>1, Invariance, PTL

\* A cited answer is never given up for a worse one (agent/service.py: pick_answer).
THEOREM Answers == Spec => []BestAnswerShown
<1>1. IInv => BestAnswerShown
  BY DEF IInv, ShownInv
<1> QED
  BY <1>1, Invariance, PTL

=============================================================================
