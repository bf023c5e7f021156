----------------------------- MODULE Adapters ------------------------------
(***************************************************************************)
(* The provider adapters (providers/openai_compat.py, ollama.py,           *)
(* anthropic_provider.py, base.py): what they send, and what they make of  *)
(* a response: the deltas or the vectors, and then either an end or one    *)
(* error of the hierarchy the gateway decides by.                          *)
(***************************************************************************)
EXTENDS Integers, Sequences, FiniteSets, SequencesExt, Selection

\* A line of the body: "skip" is blank or no data, "bad" is no JSON, "error" an error
\* the server reports inside the stream, "text" a piece of the answer, "reasoning" a
\* chunk without content, "usage" one with the usage, "last" the final mark ([DONE],
\* done: true).
LineKinds == {"skip", "bad", "error", "text", "reasoning", "usage", "last"}
\* How the body ends when no line ended it first.
Endings == {"closed", "timeout", "transport"}

classify_http_status(status) ==
    CASE status = 429 -> "rate_limited"
      [] status \in {401, 403} -> "auth"
      [] status = 404 -> "not_found"
      [] status = 408 \/ status >= 500 -> "unavailable"
      [] OTHER -> "bad_request"

\* AnthropicProvider._map_error also retries a 409.
_map_error(status) ==
    CASE status = 429 -> "rate_limited"
      [] status \in {401, 403} -> "auth"
      [] status = 404 -> "not_found"
      [] status >= 500 \/ status \in {408, 409} -> "unavailable"
      [] OTHER -> "bad_request"

EndingError(ending) == IF ending = "timeout" THEN "timeout" ELSE "unavailable"

Reading == [deltas |-> 0, usage |-> FALSE, over |-> "no"]

\* Chunks without content yield nothing; neither does an error inside the stream,
\* which this adapter does not look for.
OpenAILine(r, line) ==
    CASE r.over # "no" \/ line \in {"skip", "reasoning", "error"} -> r
      [] r.over = "no" /\ line = "bad" -> [r EXCEPT !.over = "response_error"]
      [] r.over = "no" /\ line = "text" -> [r EXCEPT !.deltas = @ + 1]
      [] r.over = "no" /\ line = "usage" -> [r EXCEPT !.usage = TRUE]
      [] r.over = "no" /\ line = "last" -> [r EXCEPT !.over = "end"]

\* Mutant: the errors inside the stream are overlooked here too.
OllamaLineTrusting(r, line) ==
    CASE r.over # "no" \/ line \in {"skip", "reasoning", "usage", "error"} -> r
      [] r.over = "no" /\ line = "bad" -> [r EXCEPT !.over = "response_error"]
      [] r.over = "no" /\ line = "text" -> [r EXCEPT !.deltas = @ + 1]
      [] r.over = "no" /\ line = "last" -> [r EXCEPT !.over = "end", !.usage = TRUE]

\* The final chunk carries the usage.
OllamaLine(r, line) ==
    CASE r.over # "no" \/ line \in {"skip", "reasoning", "usage"} -> r
      [] r.over = "no" /\ line = "bad" -> [r EXCEPT !.over = "response_error"]
      [] r.over = "no" /\ line = "error" -> [r EXCEPT !.over = "unavailable"]
      [] r.over = "no" /\ line = "text" -> [r EXCEPT !.deltas = @ + 1]
      [] r.over = "no" /\ line = "last" -> [r EXCEPT !.over = "end", !.usage = TRUE]

\* The SDK reads the events; the adapter passes its texts on and maps what it raises.
AnthropicLine(r, line) == IF line = "text" THEN [r EXCEPT !.deltas = @ + 1] ELSE r

\* A body that just stops is an error to the Ollama adapter only; for Anthropic the
\* SDK then holds a final message, with its usage.
Closed(adapter) == IF adapter = "ollama" THEN "response_error" ELSE "end"

stream_chat(adapter, status, lines, ending) ==
    LET read == CASE adapter = "openai" -> FoldLeft(OpenAILine, Reading, lines)
                  [] adapter = "ollama" -> FoldLeft(OllamaLine, Reading, lines)
                  [] adapter = "anthropic" -> FoldLeft(AnthropicLine, Reading, lines)
    IN  IF status >= 400
        THEN [Reading EXCEPT !.over = IF adapter = "anthropic" THEN _map_error(status)
                                      ELSE classify_http_status(status)]
        ELSE IF read.over # "no" THEN read
        ELSE [read EXCEPT !.over = IF ending = "closed" THEN Closed(adapter)
                                   ELSE EndingError(ending),
                          !.usage = @ \/ adapter = "anthropic"]

-----------------------------------------------------------------------------
(* One request, one response: [status, ending, json, rows] *)

_post_json(r) ==
    CASE r.ending # "closed" -> EndingError(r.ending)
      [] r.ending = "closed" /\ r.status >= 400 -> classify_http_status(r.status)
      [] r.ending = "closed" /\ r.status < 400 ->
           IF r.json = "object" THEN "end" ELSE "response_error"

\* Mutant: the rows are taken as they come.
AsReceived(rows) == rows

\* By index, rows with the same index in the order they came.
ByIndex(rows) ==
    LET Before(i, j) == \/ rows[i].index < rows[j].index
                        \/ rows[i].index = rows[j].index /\ i < j
    IN  [k \in DOMAIN rows |->
           rows[CHOOSE i \in DOMAIN rows :
                  Cardinality({j \in DOMAIN rows : Before(j, i)}) = k - 1]]

\* A row of OpenAI's response says which input it belongs to (index -1: it does not
\* say); Ollama's are in the order of the inputs.  of is the input it was computed from.
embed(adapter, inputs, r) ==
    LET over == _post_json(r)
        labelled == adapter = "openai" => \A i \in DOMAIN r.rows : r.rows[i].index >= 0
        rows == IF adapter = "openai" /\ labelled THEN ByIndex(r.rows) ELSE r.rows
    IN  IF over # "end" THEN [over |-> over, vectors |-> << >>]
        ELSE IF ~ labelled \/ Len(rows) # inputs THEN [over |-> "response_error", vectors |-> << >>]
        ELSE [over |-> "end", vectors |-> [k \in DOMAIN rows |-> rows[k].of]]

-----------------------------------------------------------------------------
(* What Anthropic is sent *)

\* Mutant: every message is a turn of its own.
AppendTurn(turns, m) == Append(turns, [role |-> m.role, parts |-> <<m.part>>])

\* The turns of one role that follow each other become one.
AddTurn(turns, m) ==
    IF turns # << >> /\ Last(turns).role = m.role
    THEN [turns EXCEPT ![Len(turns)].parts = Append(@, m.part)]
    ELSE Append(turns, [role |-> m.role, parts |-> <<m.part>>])

_request(messages) ==
    LET System == {m \in Range(messages) : m.role = "system"}
        system == Select(messages, System)
        spoken == Select(messages, Range(messages) \ System)
    IN  [system |-> [i \in DOMAIN system |-> system[i].part],
         turns |-> FoldLeft(AddTurn, << >>, spoken)]
=============================================================================
