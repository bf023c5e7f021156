---------------------------- MODULE MCAlgorithms ----------------------------
(* An instance of Algorithms for TLC. *)
EXTENDS Algorithms

L(shape, level, title, size) == [shape |-> shape, level |-> level, title |-> title, size |-> size]

\* Two headings share a title, one has the document's.  Where markup is gone a text, an
\* item or a hash line may look like a heading.
SomeLines(mode) ==
    { L("blank", 0, "", 0), L("item", 0, "", 7), L("text", 0, "", 15) } \cup
    IF mode = "markdown"
    THEN { L("hash", 1, "guide", 5), L("hash", 1, "notes", 5), L("hash", 2, "notes", 5),
           L("text", 0, "", 3) }
    ELSE { L("item", 1, "guide", 5), L("text", 1, "notes", 5), L("text", 2, "notes", 5),
           L("hash", 1, "# notes", 7) }

Numbers(doc) == [i \in DOMAIN doc |-> i]

SomeDocuments ==
    LET Docs(mode) == UNION {[1 .. n -> SomeLines(mode)] : n \in 2 .. 4} IN
    UNION {{<<d, mode, <<Numbers(d)>>>> : d \in Docs(mode)} : mode \in {"markdown", "layout"}}
      \cup {<<d, "layout", <<SubSeq(Numbers(d), 1, 2), SubSeq(Numbers(d), 3, Len(d))>>>> :
              d \in {d \in Docs("layout") : Len(d) > 2}}
      \cup {<<h \o [i \in 1 .. 5 |-> L("text", 0, "", size[i])], "markdown",
              <<Numbers(h \o <<1, 2, 3, 4, 5>>)>>>> :
              h \in {<< >>, <<L("hash", 1, "notes", 5)>>}, size \in [1 .. 5 -> {3, 15}]}

Marks == [form : Forms, n : 0 .. 3]
SomeTexts ==
    LET Sentences == {[stated |-> f, marks |-> m] :
                        f \in SUBSET {1, 2, 3}, m \in UNION {[1 .. k -> Marks] : k \in 0 .. 2}}
        Figures == {<<a, b>> : a, b \in SUBSET {1, 2, 3}}
    IN  {<<[opens |-> opens, declines |-> declines, text |-> <<s>>], have>> :
           opens, declines \in BOOLEAN, s \in Sentences,
           have \in {<<{1}, {2, 3}>>, <<{}, {1, 2}>>, <<{3}, {3}>>, <<{}, {1}, {2, 3}>>}}
        \cup {<<[opens |-> FALSE, declines |-> TRUE,
                text |-> <<[stated |-> {f}, marks |-> <<[form |-> "wide", n |-> a]>>],
                           [stated |-> {2}, marks |-> <<[form |-> "ascii", n |-> b]>>]>>], have>> :
                f \in {1, 3}, a, b \in 0 .. 3, have \in Figures}

Models == {[id |-> id, provider |-> p, kind |-> k, dimensions |-> d] :
             id \in {"m1", "m2", "m3"}, p \in {"mock", "ollama"},
             k \in {"chat", "embedding"}, d \in {0, 768}}
SomeNames == {"m1", "m2", "m3", "ghost", "smart", "vectors", "spare"}
SomeCatalogs ==
    {[providers |-> {"mock", "ollama"}, models |-> <<m1, m2, m3>>,
      routes |-> [r \in {"smart", "vectors", "spare"} |->
                    CASE r = "smart" -> smart [] r = "vectors" -> vectors [] OTHER -> <<"m3">>],
      selectable |-> picks, defaults |-> [chat |-> "smart", embedding |-> "vectors"]] :
     m1 \in {m \in Models : m.id = "m1" /\ m.dimensions = 0},
     m2 \in {m \in Models : m.id = "m2"}, m3 \in {m \in Models : m.id = "m3" /\ m.kind = "embedding"},
     smart \in {<< >>, <<"m1">>, <<"m1", "m2">>, <<"m1", "ghost">>},
     vectors \in {<<"m3">>, <<"m3", "m2">>, <<"m1">>},
     picks \in {<< >>, <<"m1">>, <<"m2", "m1">>, <<"m1", "m1">>, <<"m3">>}}

Secrets == {[env |-> e, mock |-> m, own_secrets |-> TRUE] :
              e \in {"dev", "staging", "prod"}, m \in {"unset", "on", "off"}}
SomeDeployments ==
    Secrets \cup {[env |-> e, mock |-> "unset", own_secrets |-> FALSE] : e \in {"test", "prod"}}

SomeBodies ==
    {<<a, 200, lines, e>> : a \in {"openai", "ollama", "anthropic"}, e \in Endings,
                            lines \in UNION {[1 .. n -> LineKinds] : n \in 0 .. 3}}
      \cup {<<a, status, << >>, "closed">> : a \in {"openai", "ollama", "anthropic"},
              status \in {400, 401, 403, 404, 408, 409, 429, 500, 529}}

Adapters == {"openai", "ollama"}
Good(rows) == [status |-> 200, ending |-> "closed", json |-> "object", rows |-> rows]
SomeEmbeddings ==
    {<<a, n, Good(rows)>> : a \in Adapters, n \in 1 .. 3,
       rows \in UNION {[1 .. k -> [index : -1 .. 2, of : 1 .. 3]] : k \in 0 .. 3}}
      \cup {<<a, 1, [status |-> s, ending |-> e, json |-> j, rows |-> << >>]>> :
              a \in Adapters, s \in {200, 404, 429, 503}, e \in Endings,
              j \in {"object", "other", "none"}}

SomePrompts ==
    {[i \in DOMAIN roles |-> [role |-> roles[i], part |-> i]] :
       roles \in UNION {[1 .. n -> {"system", "user", "assistant"}] : n \in 1 .. 5}}

\* The second and the third shape are in line with each other, the first and the third
\* are not; the fourth is too narrow for a table.
Shapes == {<<0, 10, 20>>, <<2, 12, 22>>, <<5, 15, 25>>, <<0, 10>>}
SomePages ==
    {[i \in DOMAIN x |-> [x |-> x[i], key |-> keys[i]]] :
       x \in [1 .. 5 -> Shapes], keys \in {<<"a", "b", "c", "d", "e">>, <<"a", "b", "c", "a", "b">>}}

Staff == {"U001", "U002"}
IsId(text) == text \in {"U001", "U002", "U999"}
InCapitals(text) == IF text = "u002" THEN "U002" ELSE text
Named(text) == CASE text = "ann" -> {"U001"} [] text = "dan" -> {"U002"} [] text = "an" -> Staff
                 [] OTHER -> {}
FieldTexts == {"absent", "", "null", "U001", "u002", "U999", "ann", "dan", "an", "zoe"}
SomeArguments == [id : FieldTexts, name : FieldTexts]
=============================================================================
