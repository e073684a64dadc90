----------------------------- MODULE Extraction -----------------------------
(***************************************************************************)
(* How the text of a document becomes sections, blocks and tables          *)
(* (index_tools/structure/extract.py): one pass over the lines, in         *)
(* paragraphs, with a buffer of table rows.  The text is read as it is     *)
(* chosen, line by line; a line is a row of a table, a heading of some     *)
(* level or other text, and stored text is the set of its lines.  Styles,  *)
(* language hints, token counts and the quality score are left out.        *)
(***************************************************************************)
EXTENDS Integers, Sequences, FiniteSets, SequencesExt

CONSTANTS
    Levels,         \* heading levels; level 0 is a title
    RowLine,            \* a line between bars
    ProseLine,          \* any other line
    Misheading,     \* a line that begins like a heading and is none
    MaxLines,       \* bound: lines of a text
    MaxParsed       \* bound: tables a parser reports beside the text

\* A line between bars is never read as a heading.
ASSUME ExtractionConstants == RowLine \notin Levels

VARIABLES
    paragraphs,     \* lines of the paragraphs that are done
    paragraph,      \* lines of the paragraph being scanned
    buffer,         \* table_buffer: places of the rows
    sections,       \* [level, at], in the order found
    blocks,         \* [kind, section, lines, order]
    tables,         \* [section, rows]
    order,          \* reading_order_index of the next block
    flags,          \* malformed_flags
    parsed          \* tables of the parser: -1 while the text is read

extractionVars ==
    <<paragraphs, paragraph, buffer, sections, blocks, tables, order, flags, parsed>>

LineKinds == {RowLine, ProseLine, Misheading} \cup Levels

\* A section gets its id when the document is stored (structure/service.py:95-104),
\* and blocks and tables copy it before: it is None above the first heading and
\* empty below, whatever the heading.
NoSection == "None"
EmptyId == ""
SectionId(n) == IF n = 0 THEN NoSection ELSE EmptyId

CurrentSection == SectionId(Len(sections))

ExtractionInit ==
    /\ paragraphs = <<>>
    /\ paragraph = <<>>
    /\ buffer = <<>>
    /\ sections = <<>>
    /\ blocks = <<>>
    /\ tables = <<>>
    /\ order = 0
    /\ flags = {}
    /\ parsed = -1

\* The number of the paragraph being scanned and the place of its next line.
Number == Len(paragraphs) + 1
Here == <<Number, Len(paragraph) + 1>>

Block(kind, section, lines, at) ==
    [kind |-> kind, section |-> section, lines |-> lines, order |-> at]

\* _flush_table: two rows or more are a table of the current section and a
\* block; one row is dropped.
IsTable(rows) == Len(rows) >= 2

FlushedTables ==
    IF IsTable(buffer)
    THEN Append(tables, [section |-> CurrentSection, rows |-> ToSet(buffer)])
    ELSE tables

FlushedBlocks ==
    IF IsTable(buffer)
    THEN Append(blocks, Block("table", CurrentSection, ToSet(buffer), order))
    ELSE blocks

FlushedOrder == IF IsTable(buffer) THEN order + 1 ELSE order

\* Mutant: a row too few for a table stays in the buffer.
BufferKept(rows) == IF IsTable(rows) THEN <<>> ELSE rows

BufferAfter(rows) == <<>>

ScanRow ==
    /\ buffer' = Append(buffer, Here)
    /\ paragraph' = Append(paragraph, RowLine)
    /\ UNCHANGED <<paragraphs, sections, blocks, tables, order, flags, parsed>>

ScanOther(kind) ==
    /\ kind # RowLine
    /\ buffer' = BufferAfter(buffer)
    /\ blocks' = FlushedBlocks
    /\ tables' = FlushedTables
    /\ order' = FlushedOrder
    /\ paragraph' = Append(paragraph, kind)
    /\ UNCHANGED <<paragraphs, sections, flags, parsed>>

\* The end of a paragraph, by what the paragraph is.
OnlyRows == ToSet(paragraph) = {RowLine}

ParagraphEnds ==
    /\ paragraph # <<>>
    /\ buffer' = BufferAfter(buffer)
    /\ tables' = FlushedTables
    /\ paragraphs' = Append(paragraphs, paragraph)
    /\ paragraph' = <<>>
    /\ UNCHANGED parsed

EndTable ==
    /\ OnlyRows
    /\ ParagraphEnds
    /\ blocks' = FlushedBlocks
    /\ order' = FlushedOrder
    /\ UNCHANGED <<sections, flags>>

\* The heading is a block; what follows it in the paragraph is not stored.
EndHeading ==
    /\ paragraph # <<>>
    /\ paragraph[1] \in Levels
    /\ ParagraphEnds
    /\ sections' = Append(sections, [level |-> paragraph[1], at |-> Number])
    /\ blocks' = Append(FlushedBlocks,
                        Block(IF paragraph[1] = 0 THEN "title" ELSE "heading",
                              SectionId(Len(sections) + 1), {<<Number, 1>>}, FlushedOrder))
    /\ order' = FlushedOrder + 1
    /\ UNCHANGED flags

EndProse ==
    /\ ~OnlyRows
    /\ paragraph # <<>>
    /\ paragraph[1] \notin Levels
    /\ ParagraphEnds
    /\ blocks' = Append(FlushedBlocks,
                        Block("paragraph", CurrentSection,
                              {<<Number, i>> : i \in DOMAIN paragraph}, FlushedOrder))
    /\ order' = FlushedOrder + 1
    /\ flags' = flags \cup {k \in {Misheading} : paragraph[1] = k}
    /\ UNCHANGED sections

\* normalise_ir_to_bundle goes on with the tables the parser reports: they
\* have no section and no block, and those found in the text stay.
TextEnds ==
    /\ parsed = -1
    /\ paragraph = <<>>
    /\ parsed' = 0
    /\ UNCHANGED <<paragraphs, paragraph, buffer, sections, blocks, tables, order, flags>>

ParserTable ==
    /\ parsed \in 0..(MaxParsed - 1)
    /\ parsed' = parsed + 1
    /\ tables' = Append(tables, [section |-> NoSection, rows |-> {}])
    /\ UNCHANGED <<paragraphs, paragraph, buffer, sections, blocks, order, flags>>

LinesRead == FoldLeft(LAMBDA n, p : n + Len(p), 0, paragraphs) + Len(paragraph)

ExtractionNext ==
    \/ /\ parsed = -1
       /\ LinesRead < MaxLines
       /\ ScanRow \/ (\E kind \in LineKinds : ScanOther(kind))
    \/ EndTable
    \/ EndHeading
    \/ EndProse
    \/ TextEnds
    \/ ParserTable

ExtractionSpec == ExtractionInit /\ [][ExtractionNext]_extractionVars

---------------------------------------------------------------------------

\* The runs of rows that are tables: first and last row, and no row beside them.
TableRuns(lines) ==
    {r \in (DOMAIN lines) \X (DOMAIN lines) :
        /\ r[1] < r[2]
        /\ \A i \in r[1]..r[2] : lines[i] = RowLine
        /\ r[1] > 1 => lines[r[1] - 1] # RowLine
        /\ r[2] < Len(lines) => lines[r[2] + 1] # RowLine}

LinesOf(p, from, to) == {<<p, i>> : i \in from..to}

Headed(p) == paragraphs[p][1] \in Levels
HeadingsAbove(p) == Cardinality({q \in 1..(p - 1) : Headed(q)})

\* The blocks of paragraph p, each with the section it names.  Left out is a row
\* alone among rows only, and what stands under a heading and is in no table.
Expected(p) ==
    LET lines == paragraphs[p] IN
    {<<LinesOf(p, r[1], r[2]), SectionId(HeadingsAbove(p))>> : r \in TableRuns(lines)}
    \cup (IF Headed(p) THEN {<<LinesOf(p, 1, 1), SectionId(HeadingsAbove(p) + 1)>>}
         ELSE IF ToSet(lines) = {RowLine} THEN {}
         ELSE {<<LinesOf(p, 1, Len(lines)), SectionId(HeadingsAbove(p))>>})

Before(x, y) == x[1] < y[1] \/ (x[1] = y[1] /\ x[2] < y[2])

\* The blocks of a text are exactly its headings, its runs of rows and its
\* paragraphs of prose, no two of them the same, numbered in the order of the
\* paragraphs, whatever rows were buffered or dropped on the way; the tables of
\* the text are its table blocks in the order of the text.  None of them names
\* the section it stands in: above the first heading they have no section, below
\* it the empty id (extract.py:178-330).
BlocksFollowText ==
    paragraph = <<>> =>
        /\ {<<b.lines, b.section>> : b \in ToSet(blocks)} =
               UNION {Expected(p) : p \in DOMAIN paragraphs}
        /\ \A i \in DOMAIN blocks : blocks[i].order = i - 1
        /\ \A i, j \in DOMAIN blocks : i < j =>
               /\ blocks[i].lines # blocks[j].lines
               /\ \A x \in blocks[i].lines, y \in blocks[j].lines : x[1] <= y[1]
        /\ {<<t.rows, t.section>> : t \in {u \in ToSet(tables) : u.rows # {}}} =
               {<<b.lines, b.section>> : b \in {c \in ToSet(blocks) : c.kind = "table"}}
        /\ \A i, j \in DOMAIN tables : i < j =>
               \A x \in tables[i].rows, y \in tables[j].rows : Before(x, y)

=============================================================================
