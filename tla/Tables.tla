------------------------------- MODULE Tables -------------------------------
(***************************************************************************)
(* Tables of a PDF page (knowledge/parsing.py): lines whose cells start at *)
(* the same positions are a table, its first line is the header, and every *)
(* row is rewritten to carry the header's labels.  A line is [x, key]: the *)
(* positions of its cells and its text without whitespace, by which the    *)
(* geometry is matched with the extracted text.                            *)
(***************************************************************************)
EXTENDS Integers, Sequences, FiniteSetsExt, SequencesExt, Selection
CONSTANTS MinColumns, Tolerance

_same_columns(a, b) ==
    /\ Len(a.x) = Len(b.x)
    /\ \A i \in DOMAIN a.x : a.x[i] - b.x[i] \in - Tolerance .. Tolerance

\* The first line after i that is not in line with it.
End(lines, i) ==
    Min({j \in i + 1 .. Len(lines) + 1 :
           j > Len(lines) \/ Len(lines[i].x) < MinColumns \/ ~ _same_columns(lines[i], lines[j])})

\* Mutant: a header alone is a table.
HeaderAlone(lines, i) == End(lines, i) - i >= 1 /\ Len(lines[i].x) >= MinColumns

IsTable(lines, i) == End(lines, i) - i >= 2

\* Header and end of each table, one after the other.
TablesOf(lines) ==
    LET From[i \in 1 .. Len(lines) + 1] ==
          IF i > Len(lines) THEN << >>
          ELSE IF IsTable(lines, i) THEN <<<<i, End(lines, i)>>>> \o From[End(lines, i)]
          ELSE From[i + 1]
    IN  From[1]

NoLabels == "none"

\* The lines of a table with their labels.
Rendered(lines, t) ==
    [k \in 1 .. t[2] - t[1] |-> [key |-> lines[t[1] + k - 1].key,
                                 labels |-> IF k = 1 THEN NoLabels ELSE lines[t[1]].key]]

\* The dict: a text that occurs again gets the entry of its last occurrence.
table_rows(lines) ==
    LET tables == TablesOf(lines)
        entries == FlattenSeq([i \in DOMAIN tables |-> Rendered(lines, tables[i])])
        Entry(key) == Last(Select(entries, {e \in Range(entries) : e.key = key}))
    IN  [key \in {entries[i].key : i \in DOMAIN entries} |-> Entry(key).labels]

\* A header line goes; a row, with its labels, stands between blank lines (number 0).
_render_tables(lines, rows) ==
    LET Blank == [line |-> 0, labels |-> NoLabels]
        Out(n) == IF lines[n].key \notin DOMAIN rows THEN <<[line |-> n, labels |-> NoLabels]>>
                  ELSE IF rows[lines[n].key] = NoLabels THEN << >>
                  ELSE <<Blank, [line |-> n, labels |-> rows[lines[n].key]], Blank>>
    IN  FlattenSeq([n \in DOMAIN lines |-> Out(n)])
=============================================================================
