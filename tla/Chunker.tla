--------------------------------- MODULE Chunker ---------------------------------
(***************************************************************************)
(* chunkText: a document, as the lengths of its paragraphs, is cut into    *)
(* chunks of whole paragraphs.                                             *)
(***************************************************************************)
EXTENDS Integers, Sequences

Paragraph == Nat \ {0}   \* a paragraph, by its length: empty ones are filtered out

Separator == 2   \* the blank line between two paragraphs of a chunk

(* The length of a chunk's text. *)
Sums(chunk) ==
  LET sum[n \in 0 .. Len(chunk)] == IF n = 0 THEN 0 ELSE sum[n - 1] + chunk[n]
  IN  sum

TextLength(chunk) == Sums(chunk)[Len(chunk)] + Separator * (Len(chunk) - 1)

(* The next paragraph joins the current chunk as long as that stays within
   maxChars; one that is longer by itself is a chunk of its own. *)
Pack(s, paragraph, maxChars) ==
  LET candidate == Append(s.current, paragraph)
  IN  IF TextLength(candidate) > maxChars /\ s.current # <<>>
        THEN [chunks |-> Append(s.chunks, s.current), current |-> <<paragraph>>]
        ELSE [s EXCEPT !.current = candidate]

Packed(paragraphs, maxChars) ==
  LET packed[n \in 0 .. Len(paragraphs)] ==
        IF n = 0 THEN [chunks |-> <<>>, current |-> <<>>]
                 ELSE Pack(packed[n - 1], paragraphs[n], maxChars)
  IN  packed

ChunkText(paragraphs, maxChars) ==
  LET last == Packed(paragraphs, maxChars)[Len(paragraphs)]
  IN  IF last.current = <<>> THEN last.chunks ELSE Append(last.chunks, last.current)

(* The paragraphs of a sequence of chunks, in order. *)
Joins(chunks) ==
  LET joined[n \in 0 .. Len(chunks)] == IF n = 0 THEN <<>> ELSE joined[n - 1] \o chunks[n]
  IN  joined

Reassembled(chunks) == Joins(chunks)[Len(chunks)]

(* What chunkText promises: whole paragraphs in order, no chunk over the
   budget unless it is a single paragraph, none that the first paragraph of
   the next would still have fitted into. *)
WellChunked(paragraphs, maxChars) ==
  LET chunks == ChunkText(paragraphs, maxChars) IN
  /\ Reassembled(chunks) = paragraphs
  /\ \A i \in DOMAIN chunks :
       /\ chunks[i] # <<>>
       /\ TextLength(chunks[i]) <= maxChars \/ Len(chunks[i]) = 1
       /\ i < Len(chunks) => TextLength(Append(chunks[i], Head(chunks[i + 1]))) > maxChars
==================================================================================
