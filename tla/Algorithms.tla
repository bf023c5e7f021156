----------------------------- MODULE Algorithms -----------------------------
(***************************************************************************)
(* The pure functions of the system against what is said of them, over     *)
(* every input of a bounded set: each step hands one input to one of them. *)
(***************************************************************************)
EXTENDS Adapters, Catalog, Chunking, Grounding, Routing, Tables, ToolArguments

CONSTANTS
    Documents,   \* <<lines, mode, pages>>
    Texts,       \* <<reply, figures of each source>>
    Pages,       \* lines of a PDF page
    Arguments,   \* what the router model filled in
    Catalogs, Deployments, Names,
    Bodies,      \* <<adapter, status, lines, ending>>
    Embeddings,  \* <<adapter, number of inputs, response>>
    Prompts      \* the messages of a call

\* The pages hold the lines of the document, in their order.
ASSUME DocumentsAssumption ==
    \A d \in Documents : /\ d[1] \in Seq(Line) /\ d[2] \in {"markdown", "layout"}
                         /\ d[3] \in Seq(Seq(DOMAIN d[1]))
                         /\ FlattenSeq(d[3]) = [n \in DOMAIN d[1] |-> n]

\* The arguments are two texts, and a search by name finds employees.
ASSUME ArgumentsAssumption ==
    \A a \in Arguments : /\ a = [id |-> a.id, name |-> a.name]
                         /\ Matches(a.name) \subseteq Employees

\* A sentence states finitely many figures.
ASSUME TextsAssumption ==
    \A t \in Texts :
      /\ t[1].opens \in BOOLEAN /\ t[1].declines \in BOOLEAN
      /\ t[1].text \in Seq([stated : SUBSET Nat, marks : Seq([form : Forms, n : Nat])])
      /\ \A i \in DOMAIN t[1].text : IsFiniteSet(t[1].text[i].stated)
      /\ t[2] \in Seq(SUBSET Nat)

\* No text of a line is the mark of a row without labels.
ASSUME PagesAssumption ==
    \A p \in Pages : /\ p \in Seq([x : Seq(Int), key : STRING])
                     /\ \A i \in DOMAIN p : p[i].key # NoLabels

ASSUME CatalogsAssumption == \A c \in Catalogs : WellTyped(c)

ASSUME BodiesAssumption == \A b \in Bodies : b[3] \in Seq(LineKinds)

ASSUME EmbeddingsAssumption == \A e \in Embeddings : e[3].rows \in Seq([index : Int, of : Nat])

\* A message is known by its place.
ASSUME PromptsAssumption ==
    \A p \in Prompts : /\ p \in Seq([role : {"system", "user", "assistant"}, part : Nat])
                       /\ \A i \in DOMAIN p : p[i].part = i

VARIABLE input

Init == input = [kind |-> "none"]

parse_and_chunk ==
    \E d \in Documents :
      LET blocks == blocks_of(d[1], d[2], d[3]) IN
      /\ HasText(blocks)
      /\ input' = [kind |-> "document", lines |-> d[1], mode |-> d[2], pages |-> d[3],
                   blocks |-> blocks, chunks |-> chunk_document(d[1], blocks)]

ground ==
    \E t \in Texts :
      input' = [kind |-> "reply", reply |-> t[1], have |-> t[2], answer |-> finalize(t[1], t[2])]

route ==
    \E m \in Message, reached \in BOOLEAN, r \in Reply :
      /\ m.greeting => ~ m.action /\ m.ticket_ids = 0
      /\ input' = [kind |-> "message", message |-> m, reached |-> reached, reply |-> r,
                   decision |-> classify(m, reached, r)]

find_tables ==
    \E p \in Pages :
      input' = [kind |-> "page", lines |-> p, out |-> _render_tables(p, table_rows(p))]

name_employee ==
    \E a \in Arguments : input' = [kind |-> "arguments", args |-> a, subject |-> subject(a)]

build_gateway ==
    \E c \in Catalogs, d \in Deployments :
      /\ Starts(c, d)
      /\ input' = [kind |-> "catalog", deployed |-> d, catalog |-> Served(c, d)]

read_stream ==
    \E b \in Bodies :
      input' = [kind |-> "stream", body |-> b, read |-> stream_chat(b[1], b[2], b[3], b[4])]

read_vectors ==
    \E e \in Embeddings :
      input' = [kind |-> "vectors", asked |-> e, got |-> embed(e[1], e[2], e[3])]

write_request ==
    \E p \in Prompts : input' = [kind |-> "prompt", messages |-> p, request |-> _request(p)]

Next ==
    /\ input.kind = "none"
    /\ \/ parse_and_chunk \/ find_tables \/ ground \/ route \/ name_employee
       \/ build_gateway \/ read_stream \/ read_vectors \/ write_request

Spec == Init /\ [][Next]_input

Is(kind) == input.kind = kind

-----------------------------------------------------------------------------
(* Documents *)

TextLines(doc, mode) ==
    {n \in DOMAIN doc : doc[n].shape # "blank" /\ ~ (doc[n].shape = "hash" /\ mode = "markdown")}

\* The headings a line stands under, by definition: the headings before it that no
\* later one of the same or a higher level replaces.
Under(n) ==
    LET before == {b \in Range(input.blocks) : b.kind = "heading" /\ b.text[1] < n}
        open == {h \in before : \A g \in before : h.text[1] < g.text[1] => h.level < g.level}
        path == Select(input.blocks, open)
    IN  [k \in DOMAIN path |-> Last(path[k].headings)]

\* Every line of text is in the document's blocks once and in the order of the
\* document, under the headings it was written under, also after a page break.
LinesKeepTheirHeadings ==
    Is("document") =>
      /\ LET body == FlattenSeq([i \in DOMAIN input.blocks |-> input.blocks[i].text]) IN
         /\ \A i, j \in DOMAIN body : i < j => body[i] < body[j]
         /\ TextLines(input.lines, input.mode) \subseteq Range(body)
      /\ \A b \in Range(input.blocks) : b.kind # "heading" =>
           \A n \in Range(b.text) : b.headings = Under(n)

BodyLines == UNION {Range(b.text) : b \in {b \in Range(input.blocks) : b.kind # "heading"}}

\* No sentence is lost, and none is indexed in more than two chunks.
EverySentenceIsIndexed ==
    Is("document") =>
      /\ UNION {Range(c.text) : c \in Range(input.chunks)} = BodyLines
      /\ \A n \in BodyLines :
           Cardinality({i \in DOMAIN input.chunks : n \in Range(input.chunks[i].text)}) <= 2

Paragraphs == Select(input.blocks, {b \in Range(input.blocks) : b.kind # "heading"})
ParagraphOf(n) == CHOOSE i \in DOMAIN Paragraphs : n \in Range(Paragraphs[i].text)

\* What the model reads around a match is one section, no longer than the limit unless
\* it is one piece, and the citation names exactly the paragraphs it holds.
ContextIsOneCitableSection ==
    Is("document") => \A c \in Range(input.chunks) :
      /\ Range(c.text) \subseteq Range(c.context)
      /\ \A n \in Range(c.context) : /\ c.headings = Under(n)
                                      /\ c.locator.section = _path(Under(n))
      /\ {ParagraphOf(n) : n \in Range(c.context)}
           = c.locator.paragraphs[1] .. c.locator.paragraphs[2]
      /\ estimate_tokens(input.lines, c.context) > MaxTokens =>
           \A n \in Range(c.context) : ParagraphOf(n) = c.locator.paragraphs[1]

Labelled == {o \in Range(input.out) : o.labels # NoLabels}
Shown == {o.line : o \in Range(input.out)}

\* "Every data row is rewritten to carry its own labels": where no text occurs twice on
\* the page, a row is labelled with the nearest header all lines since are in line
\* with, a line is left out only if rows carry its labels, and the order is kept.
RowsKeepTheirLabels ==
    Is("page") /\ (\A i, j \in DOMAIN input.lines :
                      input.lines[i].key = input.lines[j].key => i = j) =>
      LET Header(key) == CHOOSE i \in DOMAIN input.lines : input.lines[i].key = key IN
      /\ \A o \in Labelled :
           LET h == Header(o.labels) IN
           /\ h < o.line /\ h \notin Shown
           /\ \A j \in h + 1 .. o.line : j \in Shown /\ _same_columns(input.lines[h], input.lines[j])
      /\ \A n \in DOMAIN input.lines \ Shown :
           \E o \in Labelled : o.labels = input.lines[n].key
      /\ \A i, j \in DOMAIN input.out :
           i < j /\ 0 \notin {input.out[i].line, input.out[j].line}
             => input.out[i].line < input.out[j].line

-----------------------------------------------------------------------------
(* Answers *)

\* The citations shown are the markers left in the text, in order of first use, and
\* each of them points at a source.
CitationsMatchTheText ==
    Is("reply") =>
      LET marks == AllMarks(input.answer.text)
          citations == input.answer.citations
      IN  /\ input.answer \in Answer
          /\ Range(citations) = Range(marks)
          /\ Range(marks) \subseteq DOMAIN input.have
          /\ \A i, j \in DOMAIN citations : i < j =>
               /\ citations[i] # citations[j]
               /\ \A b \in DOMAIN marks : marks[b] = citations[j] =>
                    \E a \in 1 .. b : marks[a] = citations[i]

\* "If a figure the sentence states is in none of the sources it cites but is in
\* another retrieved source, cite that source": afterwards no such figure is left.
FiguresAreAttributed ==
    Is("reply") => \A s \in Range(input.answer.text) : s.marks # << >> =>
      \A f \in s.stated : (\E n \in DOMAIN input.have : f \in input.have[n]) =>
        \E n \in Range(s.marks) : f \in input.have[n]

-----------------------------------------------------------------------------
(* Messages *)

Writes == TOOLS \ Reads

\* "Nothing is created that nobody asked for": a skill that writes runs only if the
\* router chose it and the message names its record.
NothingCreatedUnasked ==
    Is("message") /\ input.decision.tool \in Writes =>
      /\ input.reached /\ input.reply.parses /\ input.reply.tool = input.decision.tool
      /\ input.message.words \cap (IF input.decision.tool = "create_support_ticket"
                                   THEN {"ticket"} ELSE {"vpn", "openvpn"}) # {}

\* "A status read would look like an answer and ignore the request": an instruction to
\* change a system is answered by a read only if it names a ticket.
InstructionsAreNotReads ==
    Is("message") /\ input.message.action /\ input.message.ticket_ids = 0 =>
      /\ input.decision.tool \notin Reads
      /\ input.reached /\ input.reply.parses /\ input.reply.route = "tool"
           /\ input.reply.tool \in Reads => input.decision.route = "refuse"

Given(text) == text \notin {NoField, "", "null"}

\* "The server resolves names, the model never invents an id": a profile is for an
\* employee every field that was filled in stands for, and stands for alone.
SubjectIsTheOneNamed ==
    Is("arguments") /\ input.subject # Rejected =>
      /\ input.subject \in Employees
      /\ Given(input.args.id) => input.args.id = input.subject
      /\ Given(input.args.name) =>
           \/ Upper(input.args.name) = input.subject
           \/ Matches(input.args.name) = {input.subject}
      /\ Given(input.args.id) \/ Given(input.args.name)

-----------------------------------------------------------------------------
(* Catalogs and streams *)

\* "Embeddings never fall back across models", and no accepted choice of a client
\* fails to resolve: every chain is of models of one kind.
ChoicesResolve ==
    Is("catalog") => \A name \in Names \cup {""} :
      /\ LET e == resolve(input.catalog, name, "embedding") IN
         e # Unknown => Len(e.targets) = 1
      /\ check_choice(input.catalog, name, allow_any_model(input.deployed)) /\ name # "" =>
           LET r == resolve(input.catalog, name, "chat") IN
           /\ r # Unknown
           /\ \A id \in Range(r.targets) : KindOf(input.catalog, id) = "chat"

\* "The mock provider must never serve production traffic": in production, and wherever
\* it is not switched on, nothing a client or the application names resolves to it.
NoMockInProduction ==
    Is("catalog") /\ (\/ input.deployed.env = "prod"
                      \/ (input.deployed.env = "staging" /\ input.deployed.mock # "on")) =>
      \A name \in Names \cup {""}, kind \in {"chat", "embedding"} :
        LET r == resolve(input.catalog, name, kind) IN
        r # Unknown =>
          \A id \in Range(r.targets) : model(input.catalog, id).provider # "mock"

Adapter == input.body[1]

\* Ollama's stream ends well only with its final chunk and without an error before it.
OllamaEndsHonestly ==
    Is("stream") /\ Adapter = "ollama" /\ input.read.over = "end" =>
      \E i \in DOMAIN input.body[3] :
        /\ input.body[3][i] = "last"
        /\ \A j \in 1 .. i : input.body[3][j] \notin {"bad", "error"}

\* A vector belongs to the passage it is stored with: the k-th vector of an embedding
\* was computed from the k-th input, in whatever order the server's rows came, as
\* long as it labelled them rightly, none twice, and only inputs it was sent.
VectorsMatchInputs ==
    LET rows == input.asked[3].rows IN
    Is("vectors") /\ input.got.over = "end" /\ input.asked[1] = "openai"
    /\ (\A i \in DOMAIN rows : rows[i].index = rows[i].of - 1 /\ rows[i].of <= input.asked[2])
    /\ (\A i, j \in DOMAIN rows : rows[i].index = rows[j].index => i = j) =>
      input.got.vectors = [k \in 1 .. input.asked[2] |-> k]

\* Claude "requires user/assistant turns to alternate": no two turns of one role follow
\* each other, and every message is sent once, in its role and in its place.
TurnsAlternate ==
    Is("prompt") =>
      LET turns == input.request.turns
          system == input.request.system
          Role(part) == input.messages[part].role
          Systems == {i \in DOMAIN input.messages : Role(i) = "system"}
      IN  /\ \A i \in 1 .. Len(turns) - 1 : turns[i].role # turns[i + 1].role
          /\ \A i, j \in DOMAIN turns :
               \A a \in DOMAIN turns[i].parts, b \in DOMAIN turns[j].parts :
                 i < j \/ (i = j /\ a < b) => turns[i].parts[a] < turns[j].parts[b]
          /\ \A i \in DOMAIN turns : \A part \in Range(turns[i].parts) : Role(part) = turns[i].role
          /\ UNION {Range(turns[i].parts) : i \in DOMAIN turns} = DOMAIN input.messages \ Systems
          /\ \A i, j \in DOMAIN system : i < j => system[i] < system[j]
          /\ Range(system) = Systems

-----------------------------------------------------------------------------
(* Together *)

\* A document's lines, tables and sections survive parsing and chunking.
DocumentsKeepTheirShape ==
    /\ LinesKeepTheirHeadings
    /\ EverySentenceIsIndexed
    /\ ContextIsOneCitableSection
    /\ RowsKeepTheirLabels

\* The markers of an answer, its citations and its figures agree with the sources.
CitationsAreHonest ==
    /\ CitationsMatchTheText
    /\ FiguresAreAttributed

\* The model proposes, the code decides: what it may choose, and for whom.
SkillsAreGuarded ==
    /\ NothingCreatedUnasked
    /\ InstructionsAreNotReads
    /\ SubjectIsTheOneNamed

\* What a deployment serves: choices that resolve, and no mock where it is not wanted.
CatalogIsSound ==
    /\ ChoicesResolve
    /\ NoMockInProduction

\* What goes through an adapter keeps its order, its owner and its ending.
AdaptersAreFaithful ==
    /\ OllamaEndsHonestly
    /\ VectorsMatchInputs
    /\ TurnsAlternate
=============================================================================
