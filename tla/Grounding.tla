----------------------------- MODULE Grounding -----------------------------
(***************************************************************************)
(* Turning a model's reply into a grounded answer (rag.py): markers are    *)
(* normalised, abstentions recognised, figures re-attributed to a source   *)
(* that states them, and citations of nothing removed.  A reply is what    *)
(* these functions look for in it: for each sentence the figures it states *)
(* and its markers in order, and whether it opens with or contains the     *)
(* wording of an abstention.                                               *)
(***************************************************************************)
EXTENDS Integers, Sequences, FiniteSets, SequencesExt, FiniteSetsExt, Selection

Forms == {"ascii", "wide", "prose"}   \* [2], its full-width form, "source 2"

ValidIn(n, sources) == 1 <= n /\ n <= sources

\* Full-width markers become plain ones, whatever they name; a prose reference
\* only when it names a source, otherwise its number is a figure like any other.
NormalSentence(s, sources) ==
    LET Text(m) == m.form = "prose" /\ ~ ValidIn(m.n, sources)
        marks == Select(s.marks, {m \in Range(s.marks) : ~ Text(m)})
    IN  [stated |-> s.stated \cup {m.n : m \in {m \in Range(s.marks) : Text(m)}},
         marks  |-> [i \in DOMAIN marks |-> marks[i].n]]

normalize_markers(text, sources) == [i \in DOMAIN text |-> NormalSentence(text[i], sources)]

\* An answer that cites anything is no abstention, unless it opens with the fixed one.
is_abstention(reply, text) ==
    reply.opens \/ (reply.declines /\ \A i \in DOMAIN text : text[i].marks = << >>)

-----------------------------------------------------------------------------
(* Citation attribution.  have[n] is the set of figures source n states. *)

\* The source with most of the missing figures, the first of equals.
BestSource(have, missing) ==
    CHOOSE n \in DOMAIN have : \A k \in DOMAIN have :
      LET a == Cardinality(have[n] \cap missing)
          b == Cardinality(have[k] \cap missing)
      IN  a > b \/ (a = b /\ n <= k)

\* The loop: sources taken until no figure is missing.
Replacements(have, all) ==
    LET taken[missing \in SUBSET all] ==
          IF missing = {} THEN << >>
          ELSE LET best == BestSource(have, missing) IN
               IF have[best] \cap missing = {} THEN << >>
               ELSE <<best>> \o taken[missing \ have[best]]
    IN  taken[all]

Cited(s, have) == {n \in Range(s.marks) : n \in DOMAIN have}

\* Mutant: the first replacement is enough.
AddOne(s, have) ==
    LET cited == Cited(s, have)
        covered == UNION {have[n] : n \in cited}
        missing == {f \in s.stated \ covered : \E n \in DOMAIN have : f \in have[n]}
    IN  IF cited = {} \/ missing = {} THEN [sentence |-> s, changed |-> 0]
        ELSE [sentence |-> [s EXCEPT !.marks = Append(@, BestSource(have, missing))],
              changed |-> 1]

\* Dead sources, which state none of the sentence's figures, give way to the first
\* replacement; the other replacements follow the last marker.
_repoint_sentence(s, have) ==
    LET cited == Cited(s, have)
        covered == UNION {have[n] : n \in cited}
        missing == {f \in s.stated \ covered : \E n \in DOMAIN have : f \in have[n]}
        new == Replacements(have, missing)
        dead == {n \in cited : have[n] \cap s.stated = {}}
        swapped == [i \in DOMAIN s.marks |-> IF s.marks[i] \in dead THEN new[1] ELSE s.marks[i]]
        added == Select(new, Range(new) \ Range(swapped))
    IN  IF cited = {} \/ missing = {} THEN [sentence |-> s, changed |-> 0]
        ELSE [sentence |-> [s EXCEPT !.marks = swapped \o added],
              changed |-> Cardinality(dead) + Len(added)]

Changes(done) == FoldLeft(LAMBDA n, d : n + d.changed, 0, done)

repoint_citations(text, have) ==
    LET done == [i \in DOMAIN text |-> _repoint_sentence(text[i], have)] IN
    [text    |-> [i \in DOMAIN text |-> done[i].sentence],
     changed |-> Changes(done)]

-----------------------------------------------------------------------------
AllMarks(text) == FoldLeft(LAMBDA acc, s : acc \o s.marks, << >>, text)

FirstUses(marks) ==
    FoldLeft(LAMBDA acc, n : IF n \in Range(acc) THEN acc ELSE Append(acc, n), << >>, marks)

Answer == [text : Seq([stated : SUBSET Nat, marks : Seq(Nat)]), citations : Seq(Nat),
           abstained : BOOLEAN, invalid : Nat, repointed : Nat]

Abstention == [text |-> << >>, citations |-> << >>, abstained |-> TRUE, invalid |-> 0,
               repointed |-> 0]

\* Mutant: the markers are counted before they are repointed.
FinalizeEarly(reply, have) ==
    LET sources == Len(have)
        normal == normalize_markers(reply.text, sources)
        pointed == repoint_citations(normal, have)
        Keep(marks) == Select(marks, 1 .. sources)
    IN  IF is_abstention(reply, normal)
        THEN [Abstention EXCEPT !.invalid = Len(AllMarks(normal))]
        ELSE [text |-> [i \in DOMAIN pointed.text |->
                          [pointed.text[i] EXCEPT !.marks = Keep(@)]],
              citations |-> FirstUses(Keep(AllMarks(normal))),
              abstained |-> FALSE,
              invalid |-> Len(AllMarks(normal)) - Len(Keep(AllMarks(normal))),
              repointed |-> pointed.changed]

\* Only markers that point at a provided source stay; citations in order of first use.
finalize(reply, have) ==
    LET sources == Len(have)
        normal == normalize_markers(reply.text, sources)
        pointed == repoint_citations(normal, have)
        marks == AllMarks(pointed.text)
        Keep(m) == Select(m, 1 .. sources)
    IN  IF is_abstention(reply, normal)
        THEN [Abstention EXCEPT !.invalid = Len(AllMarks(normal))]
        ELSE [text |-> [i \in DOMAIN pointed.text |->
                          [pointed.text[i] EXCEPT !.marks = Keep(@)]],
              citations |-> FirstUses(Keep(marks)),
              abstained |-> FALSE,
              invalid |-> Len(marks) - Len(Keep(marks)),
              repointed |-> pointed.changed]
=============================================================================
