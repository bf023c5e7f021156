---------------------------- MODULE MCAnswering ----------------------------
(* An instance of Answering for TLC: two departments and five documents. *)
EXTENDS Answering

Row(id, doc, version, department, class, parent, sim, fts, figures) ==
    [id |-> id, doc |-> doc, version |-> version, department |-> department, class |-> class,
     parent |-> parent, locator |-> id, model |-> "nomic", sim |-> sim, fts |-> fts,
     figures |-> figures]

\* The runbook becomes confidential in its second version; two of its chunks are of
\* one section, and the leave policy predates the parent identity.
SomeChunks ==
    { Row(1, "runbook", 1, "it", "internal", 1, 72, 3, {5}),
      Row(2, "runbook", 1, "it", "internal", 1, 70, 0, {5}),
      Row(3, "runbook", 1, "it", "internal", 2, 66, 3, {7}),
      Row(4, "runbook", 2, "it", "confidential", 1, 71, 4, {6}),
      Row(5, "leave", 1, "hr", "public", None, 52, 1, {14}),
      Row(6, "leave", 2, "hr", "public", None, 54, 1, {15}),
      Row(7, "salaries", 1, "hr", "confidential", 1, 55, 5, {9}),
      Row(8, "canteen", 1, "it", "public", 1, 20, 6, {1}),
      [Row(9, "archive", 1, "it", "internal", 1, 90, 7, {2}) EXCEPT !.model = "old"] }

SomePermissions == {<<"docs", "it">>, <<"confidential", "it">>, <<"docs", "hr">>,
                    <<"confidential", "hr">>, <<"ticket", "create">>}

Sentence(stated, marks) == [stated |-> stated, marks |-> marks]
Ascii(n) == [form |-> "ascii", n |-> n]
Reply(opens, declines, hedges, text) ==
    [opens |-> opens, declines |-> declines, hedges |-> hedges, text |-> text]

SomeReplies ==
    { Reply(FALSE, FALSE, FALSE, <<Sentence({7}, <<Ascii(1)>>)>>),
      Reply(FALSE, FALSE, TRUE, <<Sentence({5}, <<Ascii(1)>>), Sentence({}, <<Ascii(9)>>)>>),
      Reply(FALSE, FALSE, FALSE, <<Sentence({5}, << >>)>>),
      Reply(FALSE, TRUE, FALSE, <<Sentence({}, << >>)>>),
      Reply(TRUE, FALSE, FALSE, <<Sentence({}, <<Ascii(1)>>)>>) }
=============================================================================
