----------------------------- MODULE Retrieval -----------------------------
(***************************************************************************)
(* Scoped hybrid retrieval (policy/access.py, knowledge/retrieval.py): the *)
(* scope of a caller, the four candidate queries, their fusion, the        *)
(* relevance gate and the sections just under it.  Similarities are whole  *)
(* percents; a fused score is an exact integer multiple of 1 / Scale.      *)
(***************************************************************************)
EXTENDS Integers, Sequences, FiniteSets, SequencesExt, FiniteSetsExt

CONSTANTS
    Chunks,           \* every chunk of every version: set of records, see Chunk
    Departments,
    IndexModel,       \* index_embedding_model
    Candidates, TopK, \* retrieval_candidates, retrieval_top_k
    Threshold, Margin, ReviewMargin, ReviewMax,
    RRF_K, Scale,     \* every 1 / (RRF_K + rank) is a multiple of 1 / Scale
    None

Classes == {"public", "internal", "confidential"}

\* fts is 0 when the words do not match, parent is None in rows older than
\* the parent identity, figures are the numbers its section states.
Chunk == [id : Nat, doc : STRING, version : Nat, department : Departments, class : Classes,
          parent : Nat \cup {None}, locator : Nat, model : STRING, sim : 0 .. 100, fts : Nat,
          figures : SUBSET Nat]

ASSUME RetrievalAssumption ==
    /\ Chunks \subseteq Chunk /\ IsFiniteSet(Chunks)
    /\ None \notin Int /\ None \notin Classes
    /\ \A c, e \in Chunks : c.id = e.id => c = e
    /\ Candidates \in Nat \ {0} /\ TopK \in Nat \ {0} /\ ReviewMax \in Nat \ {0}
    /\ {Threshold, Margin, ReviewMargin, RRF_K, Scale} \subseteq Nat
    /\ \A rank \in 1 .. Candidates : Scale % (RRF_K + rank) = 0

-----------------------------------------------------------------------------
(* policy/access.py: permissions are <<"docs", d>> and <<"confidential", d>> *)

\* Mutant: the confidential permission is enough by itself.
ScopeWithoutDocs(perms) ==
    [internal     |-> {d \in Departments : <<"docs", d>> \in perms},
     confidential |-> {d \in Departments : <<"confidential", d>> \in perms}]

scope_for(perms) ==
    LET internal == {d \in Departments : <<"docs", d>> \in perms} IN
    [internal |-> internal, confidential |-> {d \in internal : <<"confidential", d>> \in perms}]

can_read(scope, d, class) ==
    \/ class = "public"
    \/ class = "internal" /\ d \in scope.internal
    \/ class = "confidential" /\ d \in scope.confidential

TableOf(c) == IF c.class = "confidential" THEN "confidential_chunks" ELSE "chunks"

\* The policies of both tables read the settings apply_scope made.
RowSecurity(c, scope) ==
    IF TableOf(c) = "chunks" THEN c.class = "public" \/ c.department \in scope.internal
                             ELSE c.department \in scope.confidential

-----------------------------------------------------------------------------
(* The candidate queries *)

\* The confidential table is not even queried without a confidential department.
Queries(scope) ==
    <<<<"chunks", "vector">>, <<"chunks", "fts">>>>
    \o IF scope.confidential = {} THEN << >>
       ELSE <<<<"confidential_chunks", "vector">>, <<"confidential_chunks", "fts">>>>

\* The filter a query carries itself.
Filter(c, table, scope) ==
    IF table = "chunks" THEN c.class = "public" \/ c.department \in scope.internal
                        ELSE c.department \in scope.confidential

\* The k best of S, best first; equals may come in any order.
Best(S, k, Better(_, _)) ==
    {s \in [1 .. (IF Cardinality(S) < k THEN Cardinality(S) ELSE k) -> S] :
       /\ \A i, j \in DOMAIN s : i < j => s[i] # s[j] /\ ~ Better(s[j], s[i])
       /\ \A x \in S \ Range(s), i \in DOMAIN s : ~ Better(x, s[i])}

\* One statement: its rows are what is active at that moment.  ORDER BY leaves open
\* which of two equal rows comes first.
_candidate_sql(query, active, scope) ==
    LET kind == query[2]
        rows == {c \in active : /\ TableOf(c) = query[1] /\ c.model = IndexModel
                                /\ Filter(c, query[1], scope) /\ RowSecurity(c, scope)
                                /\ kind = "fts" => c.fts > 0}
        Better(c, e) == IF kind = "vector" THEN c.sim > e.sim ELSE c.fts > e.fts
    IN  Best(rows, Candidates, Better)

RankIn(rows, c) == CHOOSE rank \in DOMAIN rows : rows[rank] = c

\* The candidates: a dictionary by table and id, hence by chunk.  before counts the
\* rows that may have come earlier, so that seen is the order of the dictionary.  Only
\* the vector query knows a similarity.
Fuse(fused, rows, kind, before) ==
    LET Old(c) == IF c \in DOMAIN fused THEN fused[c]
                  ELSE [rrf |-> 0, sim |-> None, seen |-> before + RankIn(rows, c)]
    IN  [c \in DOMAIN fused \cup Range(rows) |->
           IF c \notin Range(rows) THEN fused[c]
           ELSE [Old(c) EXCEPT !.rrf = @ + Scale \div (RRF_K + RankIn(rows, c)),
                               !.sim = IF kind = "vector" THEN c.sim ELSE @]]

-----------------------------------------------------------------------------
(* The relevance gate *)

\* The parent's identity; a row without one is told apart by its locator.
SectionOf(c) == <<TableOf(c), c.doc, c.version, c.parent, IF c.parent = None THEN c.locator ELSE 0>>

\* The higher score; of equals the one found first, since Python's sort is stable.
First(fused, c, e) ==
    \/ fused[c].rrf > fused[e].rrf
    \/ fused[c].rrf = fused[e].rrf /\ fused[c].seen < fused[e].seen

BestOfSections(kept, fused) ==
    {c \in kept : \A e \in kept : e # c /\ SectionOf(e) = SectionOf(c) => First(fused, c, e)}

\* Best first, the first k of them.
Ranked(S, fused, k) == Best(S, k, LAMBDA c, e : First(fused, c, e))

\* One chunk a section.
_distinct_sections(kept, fused, k) == Ranked(BestOfSections(kept, fused), fused, k)

\* At least the threshold, and within the margin of the best similarity.
Passes(c, fused) ==
    /\ fused[c].sim # None /\ fused[c].sim >= Threshold
    /\ \A e \in DOMAIN fused : fused[e].sim # None => fused[c].sim >= fused[e].sim - Margin

\* Mutant: every candidate below the bar is a near miss, relevant or not.
AnyMiss(c, fused) == ReviewMargin > 0 /\ ~ Passes(c, fused)

NearMiss(c, fused) ==
    /\ ReviewMargin > 0 /\ ~ Passes(c, fused)
    /\ (IF fused[c].sim = None THEN 0 ELSE fused[c].sim) >= Threshold - ReviewMargin

Kept(fused) == {c \in DOMAIN fused : Passes(c, fused)}

\* What a reviewer may look at when the gate admits nothing.
NearMisses(fused) ==
    IF Kept(fused) # {} THEN {<< >>}
    ELSE _distinct_sections({c \in DOMAIN fused : NearMiss(c, fused)}, fused, ReviewMax)

\* Mutant: the places are given out before siblings are collapsed.
CutThenCollapse(fused, k) ==
    UNION {_distinct_sections(Range(cut), fused, k) : cut \in Ranked(Kept(fused), fused, k)}

\* What the gate admits.
gate(fused, k) == _distinct_sections(Kept(fused), fused, k)

Rank(class) == CASE class = "public" -> 0 [] class = "internal" -> 1 [] OTHER -> 2

\* The most sensitive class of a context; None of an empty one.
max_classification(chunks) ==
    IF chunks = << >> THEN None
    ELSE LET classes == {c.class : c \in Range(chunks)} IN
         CHOOSE x \in classes : \A y \in classes : Rank(y) <= Rank(x)
=============================================================================
