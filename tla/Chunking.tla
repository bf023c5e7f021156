------------------------------ MODULE Chunking ------------------------------
(***************************************************************************)
(* From the lines of a document to citable chunks (knowledge/parsing.py,   *)
(* knowledge/chunking.py).  A line is known by its number, its size in     *)
(* characters, its shape, and the heading it would be; a text is the       *)
(* sequence of the numbers of its lines, each of which is a sentence.      *)
(***************************************************************************)
EXTENDS Integers, Sequences, FiniteSets, SequencesExt, Selection

CONSTANTS
    TargetTokens, MaxTokens, SplitTokens,  \* ChunkingConfig
    Title                                  \* of the document

\* level and title: the heading the line would be in the mode of the document, level 0
\* for none.  In markdown that is a hash line, with as many levels as hashes and without
\* them in its title; in layout any line that stands alone, an item or a hash line too,
\* with the level _layout_heading_level gives it and all of the line as its title.
Line == [shape : {"blank", "hash", "item", "text"}, level : Nat, title : STRING, size : Nat]

-----------------------------------------------------------------------------
(* _BlockBuilder.  A page is the sequence of its lines, each <<number, Line>>. *)

Empty == [blocks |-> << >>, path |-> << >>, current |-> << >>, kind |-> "paragraph"]

Block(kind, text, page, headings, level) ==
    [kind |-> kind, text |-> text, page |-> page, headings |-> headings, level |-> level]

\* A block and a chunk know their headings by title only.
_headings(path) == [i \in DOMAIN path |-> path[i].title]

\* Mutant: a heading only ends the one before it.
PopOnce(b, level, n, title, page) ==
    LET path == IF b.path # << >> /\ Last(b.path).level >= level THEN Front(b.path) ELSE b.path
        new == Append(path, [level |-> level, title |-> title])
    IN  [b EXCEPT !.path = new,
                  !.blocks = Append(@, Block("heading", <<n>>, page, _headings(new), level))]

\* Headings of the same or a deeper level leave the path.
_heading(b, level, n, title, page) ==
    LET path == Select(b.path, {h \in Range(b.path) : h.level < level})
        new == Append(path, [level |-> level, title |-> title])
    IN  [b EXCEPT !.path = new,
                  !.blocks = Append(@, Block("heading", <<n>>, page, _headings(new), level))]

\* A block that is one line may be a heading where markup is gone.
_flush(b, doc, mode, page) ==
    LET first == b.current[1]
        level == doc[first].level
    IN  IF b.current = << >> THEN b
        ELSE [(IF mode = "layout" /\ Len(b.current) = 1 /\ level > 0
               THEN _heading(b, level, first, doc[first].title, page)
               ELSE [b EXCEPT !.blocks =
                       Append(@, Block(b.kind, b.current, page, _headings(b.path), 0))])
              EXCEPT !.current = << >>]

\* Markdown headings are hash lines; without markup a hash line is text.
FeedLine(b, doc, mode, page, n) ==
    LET line == doc[n]
        flushed == _flush(b, doc, mode, page)
    IN  CASE line.shape = "blank" -> flushed
          [] line.shape = "hash" /\ mode = "markdown" -> 
               _heading(flushed, line.level, n, line.title, page)
          [] line.shape = "item" -> [flushed EXCEPT !.kind = "item", !.current = <<n>>]
          [] OTHER -> [b EXCEPT !.kind = IF b.current = << >> THEN "paragraph" ELSE @,
                                !.current = Append(@, n)]

\* The heading path survives the page; an open block does not.
feed(b, doc, mode, page, lines) ==
    _flush(FoldLeft(LAMBDA acc, n : FeedLine(acc, doc, mode, page, n), b, lines), doc, mode, page)

\* pages is a sequence of sequences of line numbers.
blocks_of(doc, mode, pages) ==
    FoldLeftDomain(LAMBDA b, p : feed(b, doc, mode, p, pages[p]), Empty, pages).blocks

\* A document without any text is refused.
HasText(blocks) == \E i \in DOMAIN blocks : blocks[i].kind # "heading"

-----------------------------------------------------------------------------
(* chunking.py *)

\* Characters of the lines joined by one separator each.
Characters(doc, text) == FoldLeft(LAMBDA sum, n : sum + doc[n].size + 1, 0, text) - 1

estimate_tokens(doc, text) ==
    IF text = << >> THEN 0
    ELSE LET t == (Characters(doc, text) + 3) \div 4 IN IF t > 1 THEN t ELSE 1

Unit(block, text, ordinal) ==
    [text |-> text, ordinal |-> ordinal, page |-> block.page, headings |-> block.headings]

\* An oversized paragraph is split at sentences, with one sentence of overlap.
Cut(doc, acc, n) ==
    IF acc.piece # << >> /\ estimate_tokens(doc, Append(acc.piece, n)) > TargetTokens
    THEN [done |-> Append(acc.done, acc.piece), piece |-> <<Last(acc.piece), n>>]
    ELSE [acc EXCEPT !.piece = Append(@, n)]

Uncut == [done |-> << >>, piece |-> << >>]

\* Mutant: the pieces of a long paragraph are cut where the limit is, and the rest of
\* the last one is dropped.
PiecesDropTail(doc, text) == FoldLeft(LAMBDA acc, n : Cut(doc, acc, n), Uncut, text).done

Pieces(doc, text) ==
    LET cut == FoldLeft(LAMBDA acc, n : Cut(doc, acc, n), Uncut, text)
    IN  Append(cut.done, cut.piece)

split_units(doc, blocks) ==
    LET body == Select(blocks, {b \in Range(blocks) : b.kind # "heading"})
        Units(ordinal) ==
          LET b == body[ordinal]
              pieces == IF estimate_tokens(doc, b.text) <= SplitTokens THEN <<b.text>>
                        ELSE Pieces(doc, b.text)
          IN  [i \in DOMAIN pieces |-> Unit(b, pieces[i], ordinal)]
    IN  FlattenSeq([ordinal \in DOMAIN body |-> Units(ordinal)])

TextOf(group) == FlattenSeq([i \in DOMAIN group |-> group[i].text])

\* Mutant: only the size ends a group.
PackAcrossSections(doc, limit, acc, u) ==
    IF acc.current # << >> /\ estimate_tokens(doc, TextOf(Append(acc.current, u))) > limit
    THEN [groups |-> Append(acc.groups, acc.current), current |-> <<u>>]
    ELSE [acc EXCEPT !.current = Append(@, u)]

\* Greedy packing that never crosses a heading path.
Pack(doc, limit, acc, u) ==
    IF acc.current # << >>
       /\ \/ Last(acc.current).headings # u.headings
          \/ estimate_tokens(doc, TextOf(Append(acc.current, u))) > limit
    THEN [groups |-> Append(acc.groups, acc.current), current |-> <<u>>]
    ELSE [acc EXCEPT !.current = Append(@, u)]

Unpacked == [groups |-> << >>, current |-> << >>]

pack_units(doc, units, limit) ==
    LET packed == FoldLeft(LAMBDA acc, u : Pack(doc, limit, acc, u), Unpacked, units)
    IN  IF packed.current = << >> THEN packed.groups ELSE Append(packed.groups, packed.current)

\* The document's title is often its first heading too, and is not repeated.
_path(headings) == Select(headings, {h \in Range(headings) : h # Title})

\* The locator names the section, the pages and the paragraphs of the parent.
locator_for(parent) ==
    [section |-> _path(Head(parent).headings),
     pages |-> <<Head(parent).page, Last(parent).page>>,
     paragraphs |-> <<Head(parent).ordinal, Last(parent).ordinal>>]

make_chunk(doc, child, parent, parent_index) ==
    [parent_index |-> parent_index, text |-> TextOf(child), context |-> TextOf(parent),
     locator |-> locator_for(parent), headings |-> Head(child).headings,
     page_start |-> Head(child).page, token_count |-> estimate_tokens(doc, TextOf(child))]

\* Children of what is embedded, parents of what the model reads.
chunk_document(doc, blocks) ==
    LET parents == pack_units(doc, split_units(doc, blocks), MaxTokens)
        Children(p) ==
          LET groups == pack_units(doc, parents[p], TargetTokens) IN
          [i \in DOMAIN groups |-> make_chunk(doc, groups[i], parents[p], p)]
    IN  FlattenSeq([p \in DOMAIN parents |-> Children(p)])
=============================================================================
