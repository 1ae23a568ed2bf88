-------------------------- MODULE MCKnowledgeIngestion --------------------------
(* Three runs over one file, or two over the two places of CONTRIBUTING.md;
   contents of two chunks, of one, and of none. *)
EXTENDS KnowledgeIngestion, TLC

CONSTANTS guide, contributing, dotgithub, long, short, blank

OneFile == {guide}
OneOrder == (guide :> 1)

TwoPlaces == {contributing, dotgithub}
TwoOrder == (contributing :> 1 @@ dotgithub :> 2)

MCVersions == {long, short, blank}
MCContent == (long :> <<2, 2>> @@ short :> <<1>> @@ blank :> <<>>)

RunSymmetry == Permutations(Runs)

(* Every document of up to four paragraphs is cut as chunkText promises. *)
ShortDocuments == UNION {[1 .. n -> 1 .. 5] : n \in 0 .. 4}
ASSUME ChunkingAssumption == \A d \in ShortDocuments, m \in {1, 4, 6, 9} : WellChunked(d, m)
=================================================================================
