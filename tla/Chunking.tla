------------------------------ MODULE Chunking ------------------------------
(***************************************************************************)
(* How a file becomes the texts that are embedded: the document parsers    *)
(* (internal/ingestion/parser.go), the chunker (internal/knowledge/        *)
(* chunking.go) and the deduplication of one run (internal/ingestion/      *)
(* dedup.go).                                                              *)
(*                                                                         *)
(* A text is a sequence of runes <<p, i>>, rune i of paragraph p; the two  *)
(* runes "\n\n" between paragraphs are Gaps.  A document is a sequence of  *)
(* paragraphs [runes, wide], where each rune of a wide one takes two bytes *)
(* and a paragraph of no runes is blank.                                   *)
(***************************************************************************)
EXTENDS Integers, Sequences, FiniteSets, SequencesExt

CONSTANTS
  DefaultChunkSize,     \* 1000 in the code
  DefaultChunkOverlap   \* 200 in the code

ASSUME ChunkDefaultsAssumption ==
  /\ DefaultChunkSize \in Nat /\ DefaultChunkOverlap \in Nat \ {0}
  /\ DefaultChunkOverlap < DefaultChunkSize

Gap == <<0, 0>>

-----------------------------------------------------------------------------
\* knowledge/chunking.go

RecursiveChunker(size, overlap) ==
  [ChunkSize |-> IF size <= 0 THEN DefaultChunkSize ELSE size,
   ChunkOverlap |-> IF overlap <= 0 THEN DefaultChunkOverlap ELSE overlap]

Paragraph(doc, p) == [i \in 1 .. doc[p].runes |-> <<p, i>>]

\* strings.Builder counts bytes, everything else in the chunker counts runes.
BytesOf(doc, text) ==
  FoldLeft(LAMBDA n, r : n + IF r # Gap /\ doc[r[1]].wide THEN 2 ELSE 1, 0, text)

GetTail(c, text) ==
  SubSeq(text, IF Len(text) <= c.ChunkOverlap THEN 1 ELSE Len(text) - c.ChunkOverlap + 1,
         Len(text))

\* Mutant of SplitBySize: a last window that is not full is dropped.
XSplitWhole(c, text) ==
  LET step == c.ChunkSize - c.ChunkOverlap IN
  [k \in 1 .. 1 + (Len(text) - c.ChunkSize) \div step |->
     SubSeq(text, (k - 1) * step + 1, (k - 1) * step + c.ChunkSize)]

\* The windows of a paragraph longer than a chunk, ChunkSize - ChunkOverlap runes
\* apart, up to the first that reaches the end.
SplitBySize(c, text) ==
  LET step == c.ChunkSize - c.ChunkOverlap
      last == 1 + (Len(text) - c.ChunkSize + step - 1) \div step
      upTo(k) == (k - 1) * step + c.ChunkSize
  IN [k \in 1 .. last |->
        SubSeq(text, (k - 1) * step + 1, IF upTo(k) > Len(text) THEN Len(text) ELSE upTo(k))]

\* The loop of SplitBySize advances; otherwise it appends the same window for
\* ever, or its second window begins before the text and panics.
Splittable(c, doc) ==
  c.ChunkOverlap < c.ChunkSize \/ \A p \in DOMAIN doc : doc[p].runes <= c.ChunkSize

\* One turn of the loop over the paragraphs.
AddParagraph(c, doc, made, p) ==
  LET para == Paragraph(doc, p)
      flush == /\ BytesOf(doc, made.current) + Len(para) + 2 > c.ChunkSize
               /\ made.current # <<>>
      then == IF flush THEN [chunks |-> Append(made.chunks, made.current),
                             current |-> GetTail(c, made.current)]
                       ELSE made
      rest == IF then.current = <<>> THEN then.chunks ELSE Append(then.chunks, then.current)
  IN CASE para = <<>> -> made
       [] para # <<>> /\ Len(para) > c.ChunkSize ->
            [chunks |-> rest \o SplitBySize(c, para), current |-> <<>>]
       [] para # <<>> /\ Len(para) <= c.ChunkSize ->
            [then EXCEPT !.current = IF @ = <<>> THEN para ELSE @ \o <<Gap, Gap>> \o para]

ChunkDocument(c, doc) ==
  LET made == FoldLeft(LAMBDA m, p : AddParagraph(c, doc, m, p),
                       [chunks |-> <<>>, current |-> <<>>], [p \in DOMAIN doc |-> p])
  IN IF made.current = <<>> THEN made.chunks ELSE Append(made.chunks, made.current)

\* ingestion/dedup.go: the chunks of a run that were not seen in it before.
NotSeen(chunks) ==
  FoldLeft(LAMBDA kept, t : IF Contains(kept, t) THEN kept ELSE Append(kept, t),
           <<>>, chunks)

-----------------------------------------------------------------------------
\* ingestion/parser.go.  A line of a PDF page is [blank, ends, hyphen]: it has no
\* text, its last character ends a sentence, or it is a hyphen.

\* One turn of NormalizePDFText's loop: a word joins the paragraph, with whether it
\* is written onto the word before it.  The word after a joined one never is.
AddLine(lines, st, i) ==
  LET glue == st.para # <<>> /\ st.join
      para == Append(st.para, [line |-> i, glued |-> glue])
  IN CASE lines[i].blank -> st
       [] ~ lines[i].blank /\ lines[i].ends ->
            [paras |-> Append(st.paras, para), para |-> <<>>, join |-> FALSE]
       [] ~ lines[i].blank /\ ~ lines[i].ends ->
            [paras |-> st.paras, para |-> para, join |-> lines[i].hyphen /\ ~ glue]

NormalizePDFText(lines) ==
  LET end == FoldLeft(LAMBDA st, i : AddLine(lines, st, i),
                      [paras |-> <<>>, para |-> <<>>, join |-> FALSE],
                      [i \in DOMAIN lines |-> i])
  IN IF end.para = <<>> THEN end.paras ELSE Append(end.paras, end.para)

\* ParseDOCX: what separates each paragraph with text from the one before it.  The
\* body is a sequence of "row" (a table row begins), "cell" and "body" paragraphs
\* inside and outside a table, and "blank" ones.  A row's number is that of the
\* last row begun, which nothing resets when the table ends.
DocxRow(body, i) == Cardinality({j \in 1 .. i : body[j] = "row"})

DocxTextsBefore(body, i) == {j \in 1 .. i - 1 : body[j] \in {"cell", "body"}}

LastDocxText(body, i) == Max(DocxTextsBefore(body, i))

ParseDOCX(body) ==
  [i \in {j \in DOMAIN body : body[j] \in {"cell", "body"} /\ DocxTextsBefore(body, j) # {}} |->
     IF DocxRow(body, i) # 0 /\ DocxRow(body, i) = DocxRow(body, LastDocxText(body, i))
     THEN "tab" ELSE "newline"]

\* ParseXLSX: a sheet is one paragraph, a heading line and a line for each row with
\* text, here of one rune each.
ParseXLSX(sheets) ==
  [s \in DOMAIN sheets |->
     [runes |-> 1 + Cardinality({r \in DOMAIN sheets[s] : sheets[s][r] = "text"}),
      wide |-> FALSE]]

-----------------------------------------------------------------------------

InText(text) == {text[i] : i \in DOMAIN text}

RunesOf(doc) ==
  UNION {{<<p, i>> : i \in 1 .. doc[p].runes} : p \in DOMAIN doc}

\* A chunk that says nothing the one before it did not: the tail of that chunk,
\* flushed because the paragraph after it is longer than a chunk.
Echo(c, doc, chunks, k) ==
  /\ k > 1 /\ k < Len(chunks)
  /\ chunks[k] = GetTail(c, chunks[k - 1])
  /\ chunks[k + 1][1] # Gap /\ chunks[k + 1][1][2] = 1
  /\ doc[chunks[k + 1][1][1]].runes > c.ChunkSize

SaidBefore(chunks, k) == UNION {InText(chunks[j]) : j \in 1 .. k - 1}

\* The text of a chunk comes after that of the chunks before it; no chunk is empty or
\* longer than its bound; a chunk without news is an echo; and the windows of a long
\* paragraph share ChunkOverlap runes.
ChunkAgrees(c, doc, chunks, k) ==
  LET news == InText(chunks[k]) \ (SaidBefore(chunks, k) \cup {Gap}) IN
  /\ Len(chunks[k]) \in 1 .. c.ChunkSize + c.ChunkOverlap + 2
  /\ Len(chunks[k]) > c.ChunkSize => k > 1 /\ Gap \in InText(chunks[k])
  /\ \A r \in news, q \in SaidBefore(chunks, k) \ {Gap} :
       r[1] > q[1] \/ (r[1] = q[1] /\ r[2] > q[2])
  /\ news = {} <=> Echo(c, doc, chunks, k)
  /\ k > 1 /\ Gap \notin InText(chunks[k]) \cup InText(chunks[k - 1])
     /\ chunks[k][1][2] > 1 /\ ~ Echo(c, doc, chunks, k) =>
       SubSeq(chunks[k], 1, c.ChunkOverlap) = GetTail(c, chunks[k - 1])

\* Every rune of the document is in some chunk, in the order of the document, and
\* what one run stores is every text of it once.
ChunksAgree(size, overlap, doc) ==
  LET c      == RecursiveChunker(size, overlap)
      chunks == ChunkDocument(c, doc)
  IN Splittable(c, doc) =>
       /\ SaidBefore(chunks, Len(chunks) + 1) \ {Gap} = RunesOf(doc)
       /\ \A k \in DOMAIN chunks : ChunkAgrees(c, doc, chunks, k)
       /\ InText(NotSeen(chunks)) = InText(chunks) /\ IsInjective(NotSeen(chunks))

\* How many words that end in a hyphen come right before word k of a paragraph.
HyphensBefore(lines, para, k) ==
  CHOOSE n \in 0 .. k - 1 :
    /\ \A j \in k - n .. k - 1 : lines[para[j].line].hyphen
    /\ n = k - 1 \/ ~ lines[para[k - n - 1].line].hyphen

\* No word of a page is lost or moved, a paragraph ends exactly where a sentence
\* does, and a word is written onto the one before it exactly when an odd number of
\* words that end in a hyphen come right before it in its paragraph: of two in a
\* row, the second one joins nothing, whatever the comment of normalizePDFText says.
PagesAgree(lines) ==
  LET paras == NormalizePDFText(lines)
  IN /\ \A i \in DOMAIN lines : ~ lines[i].blank =>
          \E p \in DOMAIN paras : \E k \in DOMAIN paras[p] : paras[p][k].line = i
     /\ \A p \in DOMAIN paras : \A k \in DOMAIN paras[p] :
          /\ paras[p][k].line \in DOMAIN lines /\ ~ lines[paras[p][k].line].blank
          /\ \A q \in 1 .. p : \A j \in DOMAIN paras[q] :
               q < p \/ j < k => paras[q][j].line < paras[p][k].line
          /\ lines[paras[p][k].line].ends => k = Len(paras[p])
          /\ k = Len(paras[p]) => lines[paras[p][k].line].ends \/ p = Len(paras)
          /\ paras[p][k].glued <=> HyphensBefore(lines, paras[p], k) % 2 = 1

\* Cells of one row are the columns of a line, and a paragraph outside any table
\* starts a line, but for those that follow a table whose last row has text or
\* came after such a one: they are written onto that row's line.
TablesAgree(body) ==
  \A i \in DOMAIN ParseDOCX(body) :
    LET last == LastDocxText(body, i) IN
    ParseDOCX(body)[i] = "tab" <=>
      /\ \A m \in last .. i : body[m] # "row"
      /\ \E m \in 1 .. last : body[m] = "row"

\* The heading that gives a sheet's rows their context is in every chunk with rows
\* of the sheet, but for the later windows of a sheet longer than a chunk and the
\* tail of a sheet that a chunk begins with.
SheetsAgree(size, overlap, sheets) ==
  LET c      == RecursiveChunker(size, overlap)
      doc    == ParseXLSX(sheets)
      chunks == ChunkDocument(c, doc)
  IN Splittable(c, doc) =>
       \A k \in DOMAIN chunks : \A r \in InText(chunks[k]) \ {Gap} :
         \/ <<r[1], 1>> \in InText(chunks[k])
         \/ doc[r[1]].runes > c.ChunkSize
         \/ k > 1 /\ r \in InText(GetTail(c, chunks[k - 1]))
=============================================================================
