----------------------- MODULE KnowledgeIngestion_proofs -----------------------
(***************************************************************************)
(* Proofs about KnowledgeIngestion, for any number of runs, files and      *)
(* contents, and any limit on the length of a chunk.  First chunkText,     *)
(* then the runs.                                                          *)
(***************************************************************************)
EXTENDS KnowledgeIngestion, TLAPS, WellFoundedInduction, SequenceTheorems

------------------------------------------------------------------------------
(* Every non-empty set of numbers has a least element. *)
LEMMA LeastNumber ==
  ASSUME NEW S \in SUBSET Nat, S # {}
  PROVE  \E m \in S : \A k \in S : m <= k
<1> DEFINE Less == {pair \in Nat \X Nat : pair[1] < pair[2]}
<1>1. IsWellFoundedOn(Less, Nat)
  BY NatLessThanWellFounded DEF OpToRel
<1>2. PICK m \in S : \A k \in S : ~ (<<k, m>> \in Less)
  <2> HIDE DEF Less
  <2> QED
    BY <1>1, WFMin
<1>3. ASSUME NEW k \in S PROVE m <= k
  <2>1. k \in Nat /\ m \in Nat /\ (<<k, m>> \in Less <=> k < m)
    OBVIOUS
  <2> HIDE DEF Less
  <2> QED
    BY <1>2, <2>1
<1> QED
  BY <1>3

(* Induction along a loop of L rounds, for a set of rounds. *)
LEMMA Rounds ==
  ASSUME NEW L \in Nat, NEW S, 0 \in S,
         \A n \in 1 .. L : n - 1 \in S => n \in S
  PROVE  0 .. L \subseteq S
<1> SUFFICES ASSUME (0 .. L) \ S # {} PROVE FALSE
  OBVIOUS
<1>1. PICK m \in (0 .. L) \ S : \A k \in (0 .. L) \ S : m <= k
  <2>1. (0 .. L) \ S \in SUBSET Nat
    OBVIOUS
  <2> QED
    BY <2>1, LeastNumber
<1>2. m \in 1 .. L /\ m - 1 \in 0 .. L /\ ~ (m <= m - 1)
  BY <1>1
<1> QED
  BY <1>1, <1>2

(* A loop of L rounds over T that starts with a and applies F[n] in round n. *)
Loop(f, L, T, a, F) ==
  f \in [0 .. L -> T] /\ f[0] = a /\ \A n \in 1 .. L : f[n] = F[n][f[n - 1]]

(* Such a loop is a function. *)
LEMMA LoopExists ==
  ASSUME NEW L \in Nat, NEW T, NEW a \in T, NEW F \in [1 .. L -> [T -> T]]
  PROVE  \E f : Loop(f, L, T, a, F)
<1> DEFINE S == {k \in 0 .. L : \E f : Loop(f, k, T, a, F)}
<1>1. 0 \in S
  <2>1. Loop([n \in 0 .. 0 |-> a], 0, T, a, F)
    BY DEF Loop
  <2> QED
    BY <2>1
<1>2. \A n \in 1 .. L : n - 1 \in S => n \in S
  <2> SUFFICES ASSUME NEW n \in 1 .. L, n - 1 \in S PROVE n \in S
    OBVIOUS
  <2>1. PICK f : Loop(f, n - 1, T, a, F)
    OBVIOUS
  <2> DEFINE g == [i \in 0 .. n |-> IF i = n THEN F[n][f[n - 1]] ELSE f[i]]
  <2>2. F[n][f[n - 1]] \in T
    BY <2>1 DEF Loop
  <2>3. g \in [0 .. n -> T] /\ g[0] = a
    BY <2>1, <2>2 DEF Loop
  <2>4. ASSUME NEW i \in 1 .. n PROVE g[i] = F[i][g[i - 1]]
    <3>1. CASE i = n
      BY <3>1
    <3>2. CASE i # n
      BY <2>1, <3>2 DEF Loop
    <3> QED
      BY <3>1, <3>2
  <2>5. Loop(g, n, T, a, F)
    BY <2>3, <2>4 DEF Loop
  <2> HIDE DEF g
  <2> QED
    BY <2>5
<1>3. 0 .. L \subseteq S
  <2> HIDE DEF S
  <2> QED
    BY <1>1, <1>2, Rounds
<1> QED
  BY <1>3

(* Sums, Packed and Joins are loops. *)
LEMMA SumsLoop ==
  ASSUME NEW c \in Seq(Paragraph)
  PROVE  Sums(c) = [n \in 0 .. Len(c) |-> IF n = 0 THEN 0 ELSE Sums(c)[n - 1] + c[n]]
<1> DEFINE F == [n \in 1 .. Len(c) |-> [s \in Nat |-> s + c[n]]]
<1>0. Len(c) \in Nat /\ 0 \in Nat
  OBVIOUS
<1>1. F \in [1 .. Len(c) -> [Nat -> Nat]]
  BY DEF Paragraph
<1>2. PICK f : Loop(f, Len(c), Nat, 0, F)
  <2> HIDE DEF F
  <2> QED
    BY <1>0, <1>1, LoopExists
<1>3. f = [n \in 0 .. Len(c) |-> IF n = 0 THEN 0 ELSE f[n - 1] + c[n]]
  BY <1>2 DEF Loop
<1> QED
  BY <1>3 DEF Sums

LEMMA TextLengthType ==
  ASSUME NEW c \in Seq(Paragraph)
  PROVE  TextLength(c) \in Int
<1> DEFINE S == {n \in 0 .. Len(c) : Sums(c)[n] \in Nat}
<1>1. 0 \in S
  BY SumsLoop
<1>2. \A n \in 1 .. Len(c) : n - 1 \in S => n \in S
  <2> SUFFICES ASSUME NEW n \in 1 .. Len(c), n - 1 \in S PROVE n \in S
    OBVIOUS
  <2>1. Sums(c)[n] = Sums(c)[n - 1] + c[n]
    BY SumsLoop
  <2> QED
    BY <2>1 DEF Paragraph
<1>3. 0 .. Len(c) \subseteq S
  <2>1. Len(c) \in Nat
    OBVIOUS
  <2> HIDE DEF S
  <2> QED
    BY <1>1, <1>2, <2>1, Rounds
<1> QED
  BY <1>3 DEF TextLength, Separator

(* chunkText's local variables. *)
State == [chunks : Seq(Seq(Paragraph)), current : Seq(Paragraph)]

LEMMA PackType ==
  ASSUME NEW s \in State, NEW p \in Paragraph, NEW m
  PROVE  Pack(s, p, m) \in State
<1> DEFINE candidate == Append(s.current, p)
<1>1. s.chunks \in Seq(Seq(Paragraph)) /\ s.current \in Seq(Paragraph)
  BY DEF State
<1>2. candidate \in Seq(Paragraph) /\ <<p>> \in Seq(Paragraph)
      /\ Append(s.chunks, s.current) \in Seq(Seq(Paragraph))
  BY <1>1
<1>3. [s EXCEPT !.current = candidate] \in State
  BY <1>2 DEF State
<1>4. [chunks |-> Append(s.chunks, s.current), current |-> <<p>>] \in State
  BY <1>2 DEF State
<1> QED
  BY <1>3, <1>4 DEF Pack

LEMMA PackedLoop ==
  ASSUME NEW ps \in Seq(Paragraph), NEW m
  PROVE  Packed(ps, m) = [n \in 0 .. Len(ps) |->
           IF n = 0 THEN [chunks |-> <<>>, current |-> <<>>]
                    ELSE Pack(Packed(ps, m)[n - 1], ps[n], m)]
<1> DEFINE F == [n \in 1 .. Len(ps) |-> [s \in State |-> Pack(s, ps[n], m)]]
           a == [chunks |-> <<>>, current |-> <<>>]
<1>0. Len(ps) \in Nat /\ a \in State
  BY DEF State
<1>1. F \in [1 .. Len(ps) -> [State -> State]]
  BY PackType
<1>2. PICK f : Loop(f, Len(ps), State, a, F)
  <2> HIDE DEF F, a
  <2> QED
    BY <1>0, <1>1, LoopExists
<1>3. ASSUME NEW n \in 1 .. Len(ps) PROVE f[n] = Pack(f[n - 1], ps[n], m)
  <2>1. n - 1 \in 0 .. Len(ps) /\ f[n - 1] \in State
    BY <1>2 DEF Loop
  <2> QED
    BY <1>2, <2>1 DEF Loop
<1>4. f = [n \in 0 .. Len(ps) |-> IF n = 0 THEN a ELSE Pack(f[n - 1], ps[n], m)]
  BY <1>2, <1>3 DEF Loop
<1> QED
  BY <1>4 DEF Packed

LEMMA JoinsLoop ==
  ASSUME NEW cs \in Seq(Seq(Paragraph))
  PROVE  /\ Joins(cs)[0] = <<>>
         /\ \A n \in 1 .. Len(cs) : Joins(cs)[n] = Joins(cs)[n - 1] \o cs[n]
<1> DEFINE F == [n \in 1 .. Len(cs) |-> [s \in Seq(Paragraph) |-> s \o cs[n]]]
           empty == <<>>
           Joined(f, n) == f[n - 1] \o cs[n]
           Is(f) == f = [n \in 0 .. Len(cs) |-> IF n = 0 THEN empty ELSE Joined(f, n)]
<1>0. Len(cs) \in Nat /\ empty \in Seq(Paragraph)
  OBVIOUS
<1>1. F \in [1 .. Len(cs) -> [Seq(Paragraph) -> Seq(Paragraph)]]
  OBVIOUS
<1>2. PICK f : Loop(f, Len(cs), Seq(Paragraph), empty, F)
  <2> HIDE DEF F, empty
  <2> QED
    BY <1>0, <1>1, LoopExists
<1>3. /\ f \in [0 .. Len(cs) -> Seq(Paragraph)] /\ f[0] = empty
      /\ \A n \in 1 .. Len(cs) : f[n] = F[n][f[n - 1]]
  <2> HIDE DEF F, empty
  <2> QED
    BY <1>2 DEF Loop
<1>4. ASSUME NEW n \in 1 .. Len(cs) PROVE f[n] = Joined(f, n)
  <2>1. f[n - 1] \in Seq(Paragraph)
    <3>1. n - 1 \in 0 .. Len(cs)
      BY <1>0
    <3>2. f \in [0 .. Len(cs) -> Seq(Paragraph)]
      BY <1>3
    <3> QED
      BY <3>1, <3>2, Zenon
  <2>2. F[n] = [s \in Seq(Paragraph) |-> s \o cs[n]]
    OBVIOUS
  <2>3. F[n][f[n - 1]] = Joined(f, n)
    BY <2>1, <2>2
  <2> HIDE DEF F, Joined
  <2> QED
    BY <1>3, <2>3
<1>5. Is(f)
  <2> HIDE DEF F, empty, Joined
  <2> QED
    BY <1>3, <1>4
<1>6. Is(Joins(cs))
  BY <1>5, Zenon DEF Joins
<1>7. Joins(cs)[0] = empty /\ \A n \in 1 .. Len(cs) : Joins(cs)[n] = Joined(Joins(cs), n)
  <2> DEFINE g == Joins(cs)
  <2>1. g = [n \in 0 .. Len(cs) |-> IF n = 0 THEN empty ELSE Joined(g, n)]
    BY <1>6
  <2> HIDE DEF empty, Joined, g
  <2>2. 0 \in 0 .. Len(cs) /\ \A n \in 1 .. Len(cs) : n \in 0 .. Len(cs) /\ n # 0
    BY <1>0
  <2>3. g[0] = empty /\ \A n \in 1 .. Len(cs) : g[n] = Joined(g, n)
    BY <2>1, <2>2
  <2> QED
    BY <2>3 DEF g
<1> QED
  BY <1>7, Zenon

(* Whatever is joined is a sequence of paragraphs. *)
LEMMA JoinsType ==
  ASSUME NEW cs \in Seq(Seq(Paragraph))
  PROVE  \A n \in 0 .. Len(cs) : Joins(cs)[n] \in Seq(Paragraph)
<1> DEFINE S == {n \in 0 .. Len(cs) : Joins(cs)[n] \in Seq(Paragraph)}
<1>0. Len(cs) \in Nat /\ \A n \in 1 .. Len(cs) : cs[n] \in Seq(Paragraph) /\ n \in 0 .. Len(cs)
  OBVIOUS
<1>1. 0 \in S
  <2>0. 0 \in 0 .. Len(cs)
    BY <1>0
  <2>1. Joins(cs)[0] = <<>>
    BY JoinsLoop
  <2>2. Joins(cs)[0] \in Seq(Paragraph)
    BY <2>1, EmptySeq
  <2> QED
    BY <2>0, <2>2
<1>2. \A n \in 1 .. Len(cs) : n - 1 \in S => n \in S
  <2> SUFFICES ASSUME NEW n \in 1 .. Len(cs), n - 1 \in S PROVE n \in S
    OBVIOUS
  <2>1. Joins(cs)[n] = Joins(cs)[n - 1] \o cs[n]
    BY JoinsLoop
  <2>2. Joins(cs)[n - 1] \in Seq(Paragraph)
    OBVIOUS
  <2>3. Joins(cs)[n] \in Seq(Paragraph)
    BY <1>0, <2>1, <2>2, ConcatProperties
  <2> QED
    BY <1>0, <2>3
<1>3. 0 .. Len(cs) \subseteq S
  <2> HIDE DEF S
  <2> QED
    BY <1>0, <1>1, <1>2, Rounds
<1> QED
  BY <1>3

(* One more chunk is one more to join. *)
LEMMA ReassembledAppend ==
  ASSUME NEW cs \in Seq(Seq(Paragraph)), NEW c \in Seq(Paragraph)
  PROVE  Reassembled(Append(cs, c)) = Reassembled(cs) \o c
<1> DEFINE more == Append(cs, c)
           S == {n \in 0 .. Len(cs) : Joins(more)[n] = Joins(cs)[n]}
<1>0. /\ more \in Seq(Seq(Paragraph)) /\ Len(cs) \in Nat /\ Len(more) = Len(cs) + 1
      /\ more[Len(cs) + 1] = c /\ \A n \in 1 .. Len(cs) : more[n] = cs[n]
  OBVIOUS
<1> HIDE DEF more
<1>a. /\ Joins(more)[0] = <<>>
      /\ \A n \in 1 .. Len(cs) + 1 : Joins(more)[n] = Joins(more)[n - 1] \o more[n]
  BY <1>0, JoinsLoop
<1>b. /\ Joins(cs)[0] = <<>>
      /\ \A n \in 1 .. Len(cs) : Joins(cs)[n] = Joins(cs)[n - 1] \o cs[n]
  BY JoinsLoop
<1>1. 0 \in S
  BY <1>0, <1>a, <1>b
<1>2. \A n \in 1 .. Len(cs) : n - 1 \in S => n \in S
  <2> SUFFICES ASSUME NEW n \in 1 .. Len(cs), n - 1 \in S PROVE n \in S
    OBVIOUS
  <2>1. n \in 0 .. Len(cs) /\ n \in 1 .. Len(cs) + 1
    BY <1>0
  <2>2. Joins(more)[n] = Joins(more)[n - 1] \o cs[n]
    BY <1>0, <1>a, <2>1, Zenon
  <2>3. Joins(more)[n - 1] = Joins(cs)[n - 1]
    OBVIOUS
  <2>4. Joins(more)[n] = Joins(cs)[n]
    BY <1>b, <2>2, <2>3, Zenon
  <2> QED
    BY <2>1, <2>4
<1>3. 0 .. Len(cs) \subseteq S
  <2> HIDE DEF S
  <2> QED
    BY <1>0, <1>1, <1>2, Rounds
<1>4. Joins(more)[Len(cs)] = Joins(cs)[Len(cs)]
  BY <1>0, <1>3
<1>5. Joins(more)[Len(cs) + 1] = Joins(more)[Len(cs)] \o c
  <2>1. Len(cs) + 1 \in 1 .. Len(cs) + 1 /\ (Len(cs) + 1) - 1 = Len(cs)
    BY <1>0
  <2> QED
    BY <1>0, <1>a, <2>1
<1>6. Joins(more)[Len(more)] = Joins(cs)[Len(cs)] \o c
  BY <1>0, <1>4, <1>5
<1> QED
  BY <1>6, Zenon DEF Reassembled, more

(* What WellChunked says of each chunk, apart from the paragraphs' order. *)
Fits(c, m) == TextLength(c) <= m \/ Len(c) = 1
Full(c, next, m) == TextLength(Append(c, Head(next))) > m
WellCut(cs, m) ==
  \A i \in 1 .. Len(cs) :
    cs[i] # <<>> /\ Fits(cs[i], m) /\ (i < Len(cs) => Full(cs[i], cs[i + 1], m))

LEMMA WellCutAppend ==
  ASSUME NEW m, NEW cs \in Seq(Seq(Paragraph)), NEW c \in Seq(Paragraph), c # <<>>,
         WellCut(cs, m), Fits(c, m), cs # <<>> => Full(cs[Len(cs)], c, m)
  PROVE  WellCut(Append(cs, c), m)
<1> DEFINE more == Append(cs, c)
<1>0. /\ Len(cs) \in Nat /\ Len(more) = Len(cs) + 1
      /\ more[Len(cs) + 1] = c /\ \A n \in 1 .. Len(cs) : more[n] = cs[n]
      /\ Len(cs) > 0 => cs # <<>>
  OBVIOUS
<1> HIDE DEF more
<1>1. ASSUME NEW i \in 1 .. Len(more)
      PROVE  more[i] # <<>> /\ Fits(more[i], m) /\ (i < Len(more) => Full(more[i], more[i + 1], m))
  <2>1. CASE i = Len(cs) + 1
    BY <1>0, <2>1
  <2>2. CASE i = Len(cs)
    <3>1. i \in 1 .. Len(cs) /\ more[i] = cs[i] /\ more[i + 1] = c /\ cs # <<>>
      BY <1>0, <2>2
    <3> QED
      BY <2>2, <3>1 DEF WellCut
  <2>3. CASE i < Len(cs)
    <3>1. i \in 1 .. Len(cs) /\ i + 1 \in 1 .. Len(cs)
      BY <1>0, <2>3
    <3>2. more[i] = cs[i] /\ more[i + 1] = cs[i + 1]
      BY <1>0, <3>1, Zenon
    <3> QED
      BY <2>3, <3>1, <3>2 DEF WellCut
  <2> QED
    BY <1>0, <2>1, <2>2, <2>3
<1>2. WellCut(more, m)
  BY <1>1 DEF WellCut
<1> QED
  BY <1>2, Zenon DEF more

LEMMA ConcatAppend ==
  ASSUME NEW S, NEW a \in Seq(S), NEW b \in Seq(S), NEW e \in S
  PROVE  a \o Append(b, e) = (a \o b) \o <<e>>
<1>1. <<e>> \in Seq(S) /\ Append(b, e) = b \o <<e>>
  BY AppendIsConcat
<1>2. \A c \in Seq(S) : (a \o b) \o c = a \o (b \o c)
  BY ConcatAssociative
<1> QED
  BY <1>1, <1>2, Zenon

(* What a state of the loop has come to: chunks cut as they should be, and a
   current chunk whose first paragraph no longer fitted into the last. *)
Packing(s, m) ==
  /\ WellCut(s.chunks, m)
  /\ s.current = <<>> => s.chunks = <<>>
  /\ s.current # <<>> => Fits(s.current, m)
  /\ s.chunks # <<>> => Full(s.chunks[Len(s.chunks)], s.current, m)

LEMMA PackKeeps ==
  ASSUME NEW s \in State, NEW p \in Paragraph, NEW m \in Int, Packing(s, m)
  PROVE  /\ Packing(Pack(s, p, m), m) /\ Pack(s, p, m).current # <<>>
         /\ Reassembled(Pack(s, p, m).chunks) \o Pack(s, p, m).current
              = (Reassembled(s.chunks) \o s.current) \o <<p>>
<1> DEFINE candidate == Append(s.current, p)
           t == Pack(s, p, m)
           before == Reassembled(s.chunks)
<1>1. /\ s.chunks \in Seq(Seq(Paragraph)) /\ s.current \in Seq(Paragraph)
      /\ candidate \in Seq(Paragraph) /\ <<p>> \in Seq(Paragraph)
  BY DEF State
<1>2. candidate = s.current \o <<p>> /\ candidate # <<>>
  BY <1>1, AppendProperties, AppendIsConcat
<1>3. before \in Seq(Paragraph)
  BY <1>1, JoinsType, LenProperties DEF Reassembled
<1>4. TextLength(candidate) \in Int
  BY <1>1, TextLengthType
<1>5. CASE TextLength(candidate) > m /\ s.current # <<>>
  <2>1. t.chunks = Append(s.chunks, s.current) /\ t.current = <<p>>
    BY <1>5 DEF Pack
  <2>2. Reassembled(t.chunks) = before \o s.current
    BY <1>1, <2>1, ReassembledAppend
  <2>3. WellCut(t.chunks, m)
    BY <1>1, <1>5, <2>1, WellCutAppend DEF Packing
  <2>4. /\ t.current # <<>> /\ Fits(t.current, m)
        /\ t.chunks[Len(t.chunks)] = s.current /\ Head(t.current) = p
    <3> HIDE DEF t
    <3> QED
      BY <1>1, <2>1 DEF Fits
  <2>5. Full(t.chunks[Len(t.chunks)], t.current, m)
    BY <1>5, <2>4 DEF Full
  <2> HIDE DEF t, before, candidate
  <2>6. Packing(t, m)
    BY <2>3, <2>4, <2>5 DEF Packing
  <2>7. Reassembled(t.chunks) \o t.current = (before \o s.current) \o <<p>>
    BY <2>1, <2>2
  <2> QED
    BY <2>4, <2>6, <2>7 DEF t, before
<1>6. CASE ~ (TextLength(candidate) > m /\ s.current # <<>>)
  <2>1. t.chunks = s.chunks /\ t.current = candidate
    BY <1>6 DEF Pack, State
  <2>2. Fits(candidate, m)
    <3>1. CASE s.current = <<>>
      BY <1>1, <3>1 DEF Fits
    <3>2. CASE s.current # <<>>
      BY <1>4, <1>6, <3>2 DEF Fits
    <3> QED
      BY <3>1, <3>2
  <2>3. s.chunks # <<>> => s.current # <<>> /\ Head(candidate) = Head(s.current)
    BY <1>1 DEF Packing
  <2>4. s.chunks # <<>> => Full(s.chunks[Len(s.chunks)], candidate, m)
    BY <2>3 DEF Packing, Full
  <2>5. before \o candidate = (before \o s.current) \o <<p>>
    <3>1. \A a, b \in Seq(Paragraph) : a \o Append(b, p) = (a \o b) \o <<p>>
      BY ConcatAppend
    <3> HIDE DEF before
    <3> QED
      BY <1>1, <1>3, <3>1, Zenon
  <2> HIDE DEF t, before, candidate
  <2>6. Packing(t, m)
    BY <1>2, <2>1, <2>2, <2>4 DEF Packing
  <2>7. Reassembled(t.chunks) \o t.current = (before \o s.current) \o <<p>>
    BY <2>1, <2>5 DEF before
  <2> QED
    BY <1>2, <2>1, <2>6, <2>7 DEF t, before
<1> QED
  BY <1>5, <1>6

(* What is so after n paragraphs, by induction. *)
LEMMA PackedSoFar ==
  ASSUME NEW ps \in Seq(Paragraph), NEW m \in Int
  PROVE  \A n \in 0 .. Len(ps) :
           /\ Packed(ps, m)[n] \in State /\ Packing(Packed(ps, m)[n], m)
           /\ Reassembled(Packed(ps, m)[n].chunks) \o Packed(ps, m)[n].current = SubSeq(ps, 1, n)
<1> DEFINE s(n) == Packed(ps, m)[n]
           So(n) == /\ s(n) \in State /\ Packing(s(n), m)
                    /\ Reassembled(s(n).chunks) \o s(n).current = SubSeq(ps, 1, n)
           S == {n \in 0 .. Len(ps) : So(n)}
<1>0. Len(ps) \in Nat /\ 0 \in 0 .. Len(ps)
  OBVIOUS
<1>1. 0 \in S
  <2>0. s(0) = [chunks |-> <<>>, current |-> <<>>]
    BY <1>0, PackedLoop
  <2>1. s(0).chunks = <<>> /\ s(0).current = <<>> /\ s(0) \in State
    BY <2>0 DEF State
  <2>2. Packing(s(0), m)
    BY <2>1 DEF Packing, WellCut
  <2>3. Reassembled(<<>>) = <<>>
    BY JoinsLoop, EmptySeq DEF Reassembled
  <2>4. <<>> \o <<>> = <<>>
    BY ConcatEmptySeq, EmptySeq
  <2>5. SubSeq(ps, 1, 0) = <<>>
    BY SubSeqEmpty
  <2> HIDE DEF s
  <2>6. So(0)
    BY <2>1, <2>2, <2>3, <2>4, <2>5
  <2> QED
    BY <1>0, <2>6
<1>2. \A n \in 1 .. Len(ps) : n - 1 \in S => n \in S
  <2> SUFFICES ASSUME NEW n \in 1 .. Len(ps), n - 1 \in S PROVE n \in S
    OBVIOUS
  <2>0. n \in 0 .. Len(ps) /\ n # 0 /\ ps[n] \in Paragraph
    BY <1>0
  <2>1. So(n - 1)
    <3> HIDE DEF So
    <3> QED
      OBVIOUS
  <2>2. s(n) = Pack(s(n - 1), ps[n], m)
    BY <2>0, PackedLoop
  <2>3. SubSeq(ps, 1, n) = SubSeq(ps, 1, n - 1) \o <<ps[n]>>
    BY <1>0, SubSeqRecursiveSecond
  <2> HIDE DEF s
  <2>4. So(n)
    BY <2>0, <2>1, <2>2, <2>3, PackType, PackKeeps
  <2> HIDE DEF So
  <2> QED
    BY <2>0, <2>4
<1>3. 0 .. Len(ps) \subseteq S
  <2> HIDE DEF S
  <2> QED
    BY <1>0, <1>1, <1>2, Rounds
<1> QED
  BY <1>3

(* chunkText keeps its word for every document and every budget: the chunks
   hold the paragraphs whole and in order, a chunk over the budget is a
   single paragraph, and no chunk had room for the paragraph that follows. *)
THEOREM DocumentsAreWellChunked ==
  ASSUME NEW ps \in Seq(Paragraph), NEW m \in Int
  PROVE  ChunkText(ps, m) \in Seq(Seq(Paragraph)) /\ WellChunked(ps, m)
<1> DEFINE last == Packed(ps, m)[Len(ps)]
           cut == ChunkText(ps, m)
<1>1. /\ last \in State /\ Packing(last, m)
      /\ Reassembled(last.chunks) \o last.current = SubSeq(ps, 1, Len(ps))
  <2>1. Len(ps) \in 0 .. Len(ps)
    OBVIOUS
  <2> QED
    BY <2>1, PackedSoFar
<1>2. last.chunks \in Seq(Seq(Paragraph)) /\ last.current \in Seq(Paragraph)
  BY <1>1 DEF State
<1>3. SubSeq(ps, 1, Len(ps)) = ps
  BY SubSeqFull
<1>4. cut = IF last.current = <<>> THEN last.chunks ELSE Append(last.chunks, last.current)
  BY Zenon DEF ChunkText
<1> HIDE DEF last, cut
<1>5. cut \in Seq(Seq(Paragraph)) /\ Reassembled(cut) = ps /\ WellCut(cut, m)
  <2>1. CASE last.current = <<>>
    <3>1. Reassembled(last.chunks) \in Seq(Paragraph)
      BY <1>2, JoinsType, LenProperties DEF Reassembled
    <3>2. Reassembled(last.chunks) \o last.current = Reassembled(last.chunks)
      BY <2>1, <3>1, ConcatEmptySeq
    <3> QED
      BY <1>1, <1>2, <1>3, <1>4, <2>1, <3>2 DEF Packing
  <2>2. CASE last.current # <<>>
    <3>1. cut = Append(last.chunks, last.current)
      BY <1>4, <2>2
    <3>2. cut \in Seq(Seq(Paragraph)) /\ Reassembled(cut) = ps
      BY <1>1, <1>2, <1>3, <3>1, AppendProperties, ReassembledAppend
    <3>3. WellCut(cut, m)
      BY <1>1, <1>2, <2>2, <3>1, WellCutAppend DEF Packing
    <3> QED
      BY <3>2, <3>3
  <2> QED
    BY <2>1, <2>2
<1>6. DOMAIN cut = 1 .. Len(cut)
  BY <1>5
<1>7. \A i \in 1 .. Len(cut) :
        /\ cut[i] # <<>>
        /\ TextLength(cut[i]) <= m \/ Len(cut[i]) = 1
        /\ i < Len(cut) => TextLength(Append(cut[i], Head(cut[i + 1]))) > m
  BY <1>5, Zenon DEF WellCut, Fits, Full
<1> QED
  BY <1>5, <1>6, <1>7, Zenon DEF WellChunked, cut

LEMMA ChunksType == \A v \in Versions : Chunks(v) \in Seq(Seq(Paragraph))
BY ContentAssumption, DocumentsAreWellChunked DEF Chunks

------------------------------------------------------------------------------
USE IngestionAssumption

Processing == {"insertSource", "select", "insertDocument", "store"} \cup Rebuilding
Holding == {"store"} \cup Rebuilding
Early == {"idle", "repo", "insertRepo", "fetch"}

SourceRow(p, x, s) == [path |-> p, repo |-> x, by |-> s]

(* What a run holds, stage by stage. *)
RunOK(r) ==
  /\ run[r].pc \notin Writing => run[r].next = 1
  /\ run[r].pc \in {"fetch", "doc"} \cup Processing => run[r].repo \in repos
  /\ run[r].pc \in Processing => Pending(r) # {}
  /\ run[r].pc \in {"select", "insertDocument"} =>
       SourceRow(Path(r), run[r].repo, run[r].source) \in sources
  /\ run[r].pc \in Holding =>
       /\ run[r].document \in Document
       /\ checksum[run[r].document] # None
       /\ run[r].document.path = Path(r)
  /\ run[r].pc = "clear" => \A c \in run[r].stale : c.document = run[r].document

(* A document's row names a source, and the run that inserted it is past
   the file: it has inserted no other row for it and never will. *)
RowOK(d) ==
  checksum[d] # None =>
    /\ SourceRow(d.path, d.repo, d.source) \in sources
    /\ run[d.by].pc \notin Early
    /\ \/ run[d.by].docs[d.path] = None
       \/ run[d.by].pc \in Writing /\ run[d.by].document = d

(* The chunks run r has inserted for document d, up to an index. *)
Made(r, d, i) == [document |-> d, index |-> i, version |-> Version(r), by |-> r]
Inserted(r) == IF run[r].pc = "embed" THEN run[r].next ELSE run[r].next - 1

(* Document d has the chunks that run r has inserted, and no others. *)
WrittenBy(r, d) ==
  /\ Inserted(r) <= Len(Chunks(Version(r)))
  /\ \A c \in chunks : c.document = d => c = Made(r, d, c.index) /\ c.index \in 1 .. Inserted(r)
  /\ \A i \in 1 .. Inserted(r) : Made(r, d, i) \in chunks
  /\ \A i \in 1 .. run[r].next - 1 : Made(r, d, i) \in embedded

(* A document that two runs have not rebuilt at once: one run at the most
   rebuilds it, to the content of its checksum; its chunks are of one
   version; and with no run at it, none cut off in it, it is complete. *)
DocumentOK(d) ==
  /\ checksum[d] = None => \A c \in chunks : c.document # d
  /\ d \notin contested =>
       /\ \A r, q \in Runs : Rebuilds(r, d) /\ Rebuilds(q, d) => r = q
       /\ \A r \in Runs : Rebuilds(r, d) => checksum[d] = Version(r)
       /\ \A r \in Runs : Rebuilds(r, d) /\ run[r].pc \in Writing => WrittenBy(r, d)
       /\ \A c1, c2 \in chunks : c1.document = d /\ c2.document = d => c1.version = c2.version
       /\ checksum[d] # None /\ d \notin interrupted /\ (\A r \in Runs : ~ Rebuilds(r, d))
            => Complete(d)

(* As long as runs have not overlapped nothing is there twice. *)
Alone ==
  ~ overlapped =>
    /\ contested = {}
    /\ \A r, q \in Runs : run[r].pc \in Busy /\ run[q].pc \in Busy => r = q
    /\ \A x, y \in repos : x = y
    /\ \A r \in Runs : run[r].pc = "insertRepo" => repos = {}
    /\ \A s, t \in sources : s.repo = t.repo /\ s.path = t.path => s = t
    /\ \A r \in Runs : run[r].pc = "insertSource" =>
         \A s \in sources : ~ (s.repo = run[r].repo /\ s.path = Path(r))
    /\ \A d1, d2 \in Document :
         /\ checksum[d1] # None /\ checksum[d2] # None
         /\ d1.path = d2.path /\ d1.repo = d2.repo
         => d1 = d2
    /\ \A r \in Runs : run[r].pc = "insertDocument" => Rows(r) = {}

IngestionInv ==
  /\ TypeOK
  /\ \A r \in Runs : RunOK(r)
  /\ \A d \in Document : RowOK(d) /\ DocumentOK(d)
  /\ Alone

-----------------------------------------------------------------------------
LEMMA FirstIn == ASSUME NEW S \in SUBSET Paths, S # {} PROVE First(S) \in S
<1>1. \E p \in S : \A q \in S \ {p} : Order[p] < Order[q]
  OBVIOUS
<1> QED
  BY <1>1 DEF First

LEMMA PathIn ==
  ASSUME TypeOK, NEW r \in Runs, Pending(r) # {}
  PROVE  Path(r) \in Paths /\ run[r].docs[Path(r)] # None /\ Version(r) \in Versions
<1>1. Pending(r) \in SUBSET Paths
  BY DEF Pending
<1>2. Path(r) \in Pending(r)
  BY <1>1, FirstIn DEF Path
<1>3. run[r].docs \in [Paths -> Optional(Versions)]
  BY DEF TypeOK, Run
<1> QED
  BY <1>2, <1>3 DEF Pending, Version, Optional

(* The run r moves to x; the others stay. *)
Moves(r, x) == run' = [run EXCEPT ![r] = x]

LEMMA MovesType ==
  ASSUME TypeOK, NEW r \in Runs, NEW x \in Run, Moves(r, x)
  PROVE  run' \in [Runs -> Run] /\ run'[r] = x /\ \A q \in Runs \ {r} : run'[q] = run[q]
BY DEF TypeOK, Moves

(* The values a run's variables are given. *)
LEMMA Gotos ==
  ASSUME TypeOK, NEW r \in Runs, NEW pc \in PC
  PROVE  /\ [run[r] EXCEPT !.pc = pc] \in Run
         /\ Goto(r, pc) => Moves(r, [run[r] EXCEPT !.pc = pc])
<1>0. run[r] \in Run
  BY DEF TypeOK
<1>1. [run[r] EXCEPT !.pc = pc] \in Run
  BY <1>0 DEF Run
<1>2. Goto(r, pc) => run' = [run EXCEPT ![r] = [run[r] EXCEPT !.pc = pc]]
  BY DEF Goto, TypeOK
<1> QED
  BY <1>1, <1>2 DEF Moves

LEMMA Bounds == MaxEdits \in Nat /\ MaxFaults \in Nat
OBVIOUS

LEMMA Nexts ==
  ASSUME TypeOK, NEW r \in Runs, NEW p \in Paths
  PROVE  /\ NextDocument(run[r], p) \in Run
         /\ NextDocument(run[r], p).pc = "doc" /\ NextDocument(run[r], p).next = 1
         /\ NextDocument(run[r], p).repo = run[r].repo
         /\ NextDocument(run[r], p).docs = [run[r].docs EXCEPT ![p] = None]
<1>1. run[r] \in Run
  BY DEF TypeOK
<1>2. "doc" \in PC /\ 1 \in Nat \ {0}
  BY DEF PC, Busy
<1>3. NextDocument(run[r], p) \in Run
  BY <1>1, <1>2 DEF NextDocument, Run, Optional
<1> QED
  BY <1>1, <1>3 DEF NextDocument, Run

LEMMA Stops ==
  ASSUME TypeOK, NEW r \in Runs, NEW pc \in PC, Stop(r, pc)
  PROVE  /\ [Fresh EXCEPT !.pc = pc] \in Run
         /\ Moves(r, [Fresh EXCEPT !.pc = pc])
BY DEF TypeOK, Stop, Fresh, Moves, Run, Optional

-----------------------------------------------------------------------------
(* The step of run r, and what it moves to. *)
Step(r) == Start(r) \/ Resolve(r) \/ SkipBlank(r) \/ Rebuild(r) \/ Finish(r) \/ Fail(r)

LEMMA TypeInit == Init => TypeOK
<1> SUFFICES ASSUME Init PROVE TypeOK
  OBVIOUS
<1>1. Fresh \in Run
  BY DEF Fresh, Run, PC, Optional
<1>2. checksum \in [Document -> Optional(Versions)]
  BY DEF Init, Optional
<1>3. edits \in 0 .. MaxEdits /\ faults \in 0 .. MaxFaults
  BY Bounds DEF Init
<1> QED
  BY <1>1, <1>2, <1>3 DEF Init, TypeOK

LEMMA ResolveType ==
  ASSUME TypeOK, NEW r \in Runs, RunOK(r), Start(r) \/ Resolve(r) \/ SkipBlank(r)
  PROVE  /\ TypeOK'
         /\ \A q \in Runs \ {r} : run'[q] = run[q]
<1>0. run[r] \in Run /\ {"repo", "fetch", "insertRepo", "doc", "insertSource", "select", "store",
                          "insertDocument"} \subseteq PC
  BY DEF TypeOK, PC, Busy
<1> USE DEF TypeOK
<1>1. CASE Start(r)
  BY <1>0, <1>1, Gotos, MovesType DEF Start, tables, counters
<1>2. CASE SelectRepository(r)
  <2>1. ASSUME NEW x \in repos, run' = [run EXCEPT ![r].pc = "fetch", ![r].repo = x] PROVE
          run' \in [Runs -> Run] /\ \A q \in Runs \ {r} : run'[q] = run[q]
    BY <1>0, <2>1 DEF Run, Optional
  <2> QED
    BY <1>0, <1>2, <2>1, Gotos, MovesType DEF SelectRepository, tables, history, counters
<1>3. CASE InsertRepository(r)
  <2>1. run' \in [Runs -> Run] /\ \A q \in Runs \ {r} : run'[q] = run[q]
    BY <1>0, <1>3 DEF InsertRepository, Run, Optional
  <2> QED
    BY <1>3, <2>1 DEF InsertRepository, history, counters
<1>4. CASE Fetch(r)
  <2> DEFINE p == First(run[r].todo)
  <2>1. p \in Paths /\ run[r].todo \subseteq Paths
    BY <1>0, <1>4, FirstIn DEF Fetch, Run
  <2>2. ASSUME NEW T \in SUBSET Paths, run' = [run EXCEPT ![r].todo = @ \ T]
        PROVE  run' \in [Runs -> Run] /\ \A q \in Runs \ {r} : run'[q] = run[q]
    BY <1>0, <2>2 DEF Run
  <2>3. ASSUME NEW T \in SUBSET Paths, head[p] # None,
               run' = [run EXCEPT ![r].docs[p] = head[p], ![r].todo = @ \ T]
        PROVE  run' \in [Runs -> Run] /\ \A q \in Runs \ {r} : run'[q] = run[q]
    BY <1>0, <2>1, <2>3 DEF Run, Optional
  <2>4. Alternatives \in SUBSET Paths /\ Listed \in SUBSET Paths /\ {p} \in SUBSET Paths
    BY <2>1
  <2>5. run' \in [Runs -> Run] /\ \A q \in Runs \ {r} : run'[q] = run[q]
    BY <1>4, <2>2, <2>3, <2>4 DEF Fetch
  <2> QED
    BY <1>4, <2>5 DEF Fetch, tables, history, counters
<1>5. CASE Fetched(r)
  BY <1>0, <1>5, Gotos, MovesType DEF Fetched, tables, history, counters
<1>6. CASE SelectSource(r)
  <2>1. ASSUME NEW s \in sources, run' = [run EXCEPT ![r].pc = "select", ![r].source = s.by]
        PROVE  run' \in [Runs -> Run] /\ \A q \in Runs \ {r} : run'[q] = run[q]
    BY <1>0, <2>1 DEF Run, Optional, Source
  <2> QED
    BY <1>0, <1>6, <2>1, Gotos, MovesType DEF SelectSource, tables, history, counters
<1>8. CASE SkipBlank(r)
  <2>1. Path(r) \in Paths
    BY <1>8, PathIn DEF SkipBlank
  <2>2. Moves(r, NextDocument(run[r], Path(r)))
    BY <1>8 DEF SkipBlank, Moves
  <2> QED
    BY <1>8, <2>1, <2>2, Nexts, MovesType DEF SkipBlank, tables, history, counters
<1>9. CASE InsertSource(r)
  <2>1. Path(r) \in Paths /\ run[r].repo \in Runs
    BY <1>9, PathIn DEF InsertSource, RunOK, Processing
  <2>2. run' \in [Runs -> Run] /\ \A q \in Runs \ {r} : run'[q] = run[q]
    BY <1>0, <1>9 DEF InsertSource, Run, Optional
  <2>3. sources' \subseteq Source
    BY <1>9, <2>1 DEF InsertSource, Source
  <2> QED
    BY <1>9, <2>2, <2>3 DEF InsertSource, history, counters
<1>10. CASE SelectDocument(r)
  <2>1. Path(r) \in Paths
    BY <1>10, PathIn DEF SelectDocument, RunOK, Processing
  <2>2. ASSUME NEW d \in Document, run' = [run EXCEPT ![r] = [@ EXCEPT !.pc = "store", !.document = d]]
        PROVE  run' \in [Runs -> Run] /\ \A q \in Runs \ {r} : run'[q] = run[q]
    BY <1>0, <2>2 DEF Run, Optional
  <2>3. ASSUME run' = [run EXCEPT ![r] = NextDocument(@, Path(r))]
        PROVE  run' \in [Runs -> Run] /\ \A q \in Runs \ {r} : run'[q] = run[q]
    BY <2>1, <2>3, Nexts, MovesType DEF Moves
  <2>4. run' \in [Runs -> Run] /\ \A q \in Runs \ {r} : run'[q] = run[q]
    <3>1. CASE Goto(r, "insertDocument")
      BY <1>0, <3>1, Gotos, MovesType
    <3>2. CASE ~ Goto(r, "insertDocument")
      <4>1. PICK d \in Rows(r) :
              run' = [run EXCEPT ![r] = IF checksum[d] = Version(r)
                                          THEN NextDocument(@, Path(r))
                                          ELSE [@ EXCEPT !.pc = "store", !.document = d]]
        BY <1>10, <3>2 DEF SelectDocument
      <4> QED
        BY <2>2, <2>3, <4>1 DEF Rows
    <3> QED
      BY <3>1, <3>2
  <2> QED
    BY <1>10, <2>4 DEF SelectDocument, tables, history, counters
<1> QED
  BY <1>1, <1>2, <1>3, <1>4, <1>5, <1>6, <1>8, <1>9, <1>10 DEF Resolve

LEMMA RebuildType ==
  ASSUME TypeOK, NEW r \in Runs, RunOK(r), Rebuild(r) \/ Finish(r) \/ Fail(r)
  PROVE  /\ TypeOK'
         /\ \A q \in Runs \ {r} : run'[q] = run[q]
<1>0. /\ run[r] \in Run /\ run \in [Runs -> Run]
      /\ {"chunk", "stale", "clear", "embed", "done", "failed", "collided"} \subseteq PC
  BY DEF TypeOK, PC, Busy, Rebuilding, Clearing, Writing
<1> USE DEF TypeOK
<1>1. CASE InsertDocument(r)
  <2> DEFINE d == [path |-> Path(r), repo |-> run[r].repo, source |-> run[r].source, by |-> r]
  <2>1. SourceRow(Path(r), run[r].repo, run[r].source) \in Source /\ run[r].repo \in Runs
    BY <1>1 DEF InsertDocument, RunOK, Processing
  <2>2. Path(r) \in Paths /\ Version(r) \in Versions
    BY <1>1, PathIn DEF InsertDocument, RunOK, Processing
  <2>3. d \in Document
    BY <2>1, <2>2 DEF Document, SourceRow, Source
  <2>4. run' \in [Runs -> Run] /\ \A q \in Runs \ {r} : run'[q] = run[q]
    BY <1>0, <1>1, <2>3 DEF InsertDocument, Run, Optional
  <2>5. checksum' \in [Document -> Optional(Versions)]
    BY <1>1, <2>2, <2>3 DEF InsertDocument, Optional
  <2> QED
    BY <1>1, <2>4, <2>5 DEF InsertDocument, history, counters
<1>2. CASE StoreChecksum(r)
  <2>1. run[r].document \in Document /\ Version(r) \in Versions
    BY <1>2, PathIn DEF StoreChecksum, RunOK, Holding, Processing
  <2>2. run' \in [Runs -> Run] /\ \A q \in Runs \ {r} : run'[q] = run[q]
    BY <1>0, <1>2, Gotos, MovesType DEF StoreChecksum
  <2>3. checksum' \in [Document -> Optional(Versions)] /\ contested' \subseteq Document
    BY <1>2, <2>1 DEF StoreChecksum, Optional
  <2> QED
    BY <1>2, <2>2, <2>3 DEF StoreChecksum, counters
<1>3. CASE SelectStale(r)
  <2>1. ChunksOf(run[r].document) \in SUBSET Chunk
    BY DEF ChunksOf
  <2>2. ASSUME NEW T \in SUBSET Chunk, run' = [run EXCEPT ![r].pc = "clear", ![r].stale = T]
        PROVE  run' \in [Runs -> Run] /\ \A q \in Runs \ {r} : run'[q] = run[q]
    <3> HIDE DEF TypeOK
    <3>1. [run[r] EXCEPT !.pc = "clear", !.stale = T] \in Run
      BY <1>0, <2>2 DEF Run
    <3>2. Moves(r, [run[r] EXCEPT !.pc = "clear", !.stale = T])
      BY <1>0, <2>2 DEF Moves
    <3> QED
      BY <3>1, <3>2, MovesType
  <2> QED
    BY <1>3, <2>1, <2>2 DEF SelectStale, tables, history, counters
<1>4. CASE DeleteEmbedding(r)
  <2>1. run' \in [Runs -> Run] /\ \A q \in Runs \ {r} : run'[q] = run[q]
    <3>1. PICK c \in run[r].stale : run' = [run EXCEPT ![r].stale = @ \ {c}]
      BY <1>4 DEF DeleteEmbedding
    <3>2. run[r].stale \in SUBSET Chunk
      BY <1>0 DEF Run
    <3> DEFINE T == run[r].stale \ {c}
    <3>3. T \in SUBSET Chunk
      BY <3>2
    <3> HIDE DEF T
    <3>4. [run[r] EXCEPT !.stale = T] \in Run
      BY <1>0, <3>3 DEF Run
    <3>5. Moves(r, [run[r] EXCEPT !.stale = T])
      BY <1>0, <3>1 DEF Moves, T
    <3> QED
      BY <3>4, <3>5, MovesType
  <2> QED
    BY <1>4, <2>1 DEF DeleteEmbedding, history, counters
<1>5. CASE DeleteChunks(r)
  <2>1. run' \in [Runs -> Run] /\ \A q \in Runs \ {r} : run'[q] = run[q]
    BY <1>0, <1>5, Gotos, MovesType DEF DeleteChunks
  <2> QED
    BY <1>5, <2>1 DEF DeleteChunks, counters
<1>6. CASE InsertChunk(r) \/ InsertEmbedding(r)
  <2>1. run[r].document \in Document /\ Version(r) \in Versions
    BY <1>6, PathIn DEF InsertChunk, InsertEmbedding, RunOK, Holding, Processing, Rebuilding, Writing
  <2>2. NextChunk(r) \in Chunk
    BY <1>0, <2>1 DEF NextChunk, Chunk, Run
  <2>3. ASSUME Stop(r, "collided")
        PROVE  run' \in [Runs -> Run] /\ \A q \in Runs \ {r} : run'[q] = run[q]
    BY <1>0, <2>3, Stops, MovesType
  <2>4. ASSUME Abandon(r) PROVE interrupted' \subseteq Document
    BY <2>1, <2>4 DEF Abandon
  <2>5. CASE InsertChunk(r)
    <3>1. run' \in [Runs -> Run] /\ \A q \in Runs \ {r} : run'[q] = run[q]
      BY <1>0, <2>3, <2>5, Gotos, MovesType DEF InsertChunk
    <3>2. chunks' \subseteq Chunk /\ chunks \subseteq chunks' /\ interrupted' \subseteq Document
      BY <2>2, <2>4, <2>5 DEF InsertChunk
    <3> QED
      BY <2>5, <3>1, <3>2 DEF InsertChunk, counters
  <2>6. CASE InsertEmbedding(r)
    <3>1. ASSUME run' = [run EXCEPT ![r].pc = "chunk", ![r].next = @ + 1]
          PROVE  run' \in [Runs -> Run] /\ \A q \in Runs \ {r} : run'[q] = run[q]
      <4>1. run[r].next \in Nat \ {0}
        BY <1>0 DEF Run
      <4>2. run[r].next + 1 \in Nat \ {0}
        BY <4>1
      <4> QED
        BY <1>0, <3>1, <4>2 DEF Run
    <3> QED
      BY <2>2, <2>3, <2>4, <2>6, <3>1 DEF InsertEmbedding, counters
  <2> QED
    BY <1>6, <2>5, <2>6
<1>7. CASE FinishDocument(r)
  <2>1. Path(r) \in Paths
    BY <1>7, PathIn DEF FinishDocument, RunOK, Processing, Rebuilding, Writing
  <2>2. Moves(r, NextDocument(run[r], Path(r)))
    BY <1>7 DEF FinishDocument, Moves
  <2> QED
    BY <1>7, <2>1, <2>2, Nexts, MovesType DEF FinishDocument, tables, history, counters
<1>8. CASE Finish(r)
  BY <1>0, <1>8, Stops, MovesType DEF Finish, tables, history, counters
<1>9. CASE Fail(r)
  <2>1. interrupted' \subseteq Document
    BY <1>9 DEF Fail, Abandon, RunOK, Holding
  <2>2. faults' \in 0 .. MaxFaults
    BY <1>9, Bounds DEF Fail
  <2> QED
    BY <1>0, <1>9, <2>1, <2>2, Stops, MovesType DEF Fail, tables
<1> QED
  BY <1>1, <1>2, <1>3, <1>4, <1>5, <1>6, <1>7, <1>8, <1>9 DEF Rebuild

-----------------------------------------------------------------------------
(* Rows are never deleted, and a checksum is never taken back. *)
LEMMA Monotone ==
  ASSUME TypeOK, NEW r \in Runs, RunOK(r), Step(r)
  PROVE  /\ repos \subseteq repos' /\ sources \subseteq sources'
         /\ \A d \in Document : checksum[d] # None => checksum'[d] # None
<1>1. CASE InsertDocument(r) \/ StoreChecksum(r)
  <2>1. Version(r) \in Versions
    BY <1>1, PathIn DEF InsertDocument, StoreChecksum, RunOK, Processing
  <2> QED
    BY <1>1, <2>1 DEF InsertDocument, StoreChecksum, TypeOK
<1>2. CASE Start(r) \/ Resolve(r) \/ SkipBlank(r) \/ Finish(r) \/ Fail(r)
  BY <1>2 DEF Start, Resolve, SelectRepository, InsertRepository, Fetch, Fetched, SelectSource,
     InsertSource, SelectDocument, SkipBlank, Finish, Fail, tables
<1>3. CASE /\ Rebuild(r)
           /\ ~ InsertDocument(r) /\ ~ StoreChecksum(r)
  BY <1>3 DEF Rebuild, SelectStale, DeleteEmbedding, DeleteChunks, InsertChunk, InsertEmbedding,
     FinishDocument, tables
<1> QED
  BY <1>1, <1>2, <1>3 DEF Step

LEMMA StepType ==
  ASSUME TypeOK, NEW r \in Runs, RunOK(r), Step(r)
  PROVE  TypeOK' /\ \A q \in Runs \ {r} : run'[q] = run[q]
BY ResolveType, RebuildType DEF Step

(* A run that does not move keeps what it holds. *)
LEMMA OtherRunOK ==
  ASSUME TypeOK, NEW q \in Runs, RunOK(q), run'[q] = run[q],
         repos \subseteq repos', sources \subseteq sources',
         \A d \in Document : checksum[d] # None => checksum'[d] # None
  PROVE  RunOK(q)'
BY DEF RunOK, Pending, Path, Processing, Holding

LEMMA GotoFields ==
  ASSUME TypeOK, NEW r \in Runs, NEW pc \in PC, Goto(r, pc)
  PROVE  /\ run'[r].pc = pc /\ run'[r].docs = run[r].docs /\ run'[r].repo = run[r].repo
         /\ run'[r].source = run[r].source /\ run'[r].document = run[r].document
         /\ run'[r].next = run[r].next
         /\ Pending(r)' = Pending(r) /\ Path(r)' = Path(r) /\ Version(r)' = Version(r)
<1>1. /\ run'[r].pc = pc /\ run'[r].docs = run[r].docs /\ run'[r].repo = run[r].repo
      /\ run'[r].source = run[r].source /\ run'[r].document = run[r].document
      /\ run'[r].next = run[r].next
  BY DEF TypeOK, Goto, Run
<1> QED
  BY <1>1 DEF Pending, Path, Version

LEMMA NextFields ==
  ASSUME TypeOK, NEW r \in Runs, Pending(r) # {},
         run' = [run EXCEPT ![r] = NextDocument(@, Path(r))]
  PROVE  /\ run'[r].pc = "doc" /\ run'[r].next = 1 /\ run'[r].repo = run[r].repo
         /\ run'[r].docs = [run[r].docs EXCEPT ![Path(r)] = None]
BY PathIn, Nexts DEF TypeOK

LEMMA StopFields ==
  ASSUME TypeOK, NEW r \in Runs, NEW pc \in PC, Stop(r, pc)
  PROVE  run'[r].pc = pc /\ run'[r].next = 1 /\ \A p \in Paths : run'[r].docs[p] = None
BY DEF TypeOK, Stop, Fresh

LEMMA ResolveRunOK ==
  ASSUME TypeOK, NEW r \in Runs, RunOK(r), Start(r) \/ Resolve(r) \/ SkipBlank(r)
  PROVE  RunOK(r)'
<1>0. /\ run[r] \in Run /\ run \in [Runs -> Run]
      /\ {"repo", "fetch", "insertRepo", "doc", "insertSource", "insertDocument"} \subseteq PC
  BY DEF TypeOK, PC, Busy
<1>1. repos \subseteq repos' /\ sources \subseteq sources'
  BY Monotone DEF Step
<1> USE DEF Processing, Holding, Rebuilding, Clearing, Writing
<1>2. CASE Start(r)
  BY <1>0, <1>2, GotoFields DEF Start, RunOK
<1>3. CASE SelectRepository(r) \/ InsertRepository(r)
  <2>1. CASE Goto(r, "insertRepo")
    BY <1>0, <1>3, <2>1, GotoFields DEF SelectRepository, InsertRepository, RunOK
  <2>2. CASE \E x \in repos' : run' = [run EXCEPT ![r].pc = "fetch", ![r].repo = x]
    <3>1. run'[r].pc = "fetch" /\ run'[r].next = run[r].next /\ run'[r].repo \in repos'
      BY <1>0, <2>2 DEF Run
    <3> QED
      BY <1>3, <3>1 DEF RunOK, SelectRepository, InsertRepository
  <2> QED
    BY <1>3, <2>1, <2>2 DEF SelectRepository, InsertRepository, tables
<1>4. CASE Fetch(r)
  <2>1. run'[r].pc = "fetch" /\ run'[r].next = run[r].next /\ run'[r].repo = run[r].repo
    BY <1>0, <1>4 DEF Fetch, Run
  <2> QED
    BY <1>1, <1>4, <2>1 DEF RunOK, Fetch
<1>5. CASE Fetched(r)
  BY <1>0, <1>1, <1>5, GotoFields DEF Fetched, RunOK
<1>6. CASE SkipBlank(r)
  BY <1>1, <1>6, NextFields DEF SkipBlank, RunOK
<1>7. CASE SelectSource(r)
  <2>1. CASE Goto(r, "insertSource")
    BY <1>0, <1>1, <1>7, <2>1, GotoFields DEF SelectSource, RunOK
  <2>2. ASSUME NEW s \in sources, s.repo = run[r].repo, s.path = Path(r),
               run' = [run EXCEPT ![r].pc = "select", ![r].source = s.by]
        PROVE  RunOK(r)'
    <3>1. /\ run'[r].pc = "select" /\ run'[r].next = run[r].next /\ run'[r].repo = run[r].repo
          /\ run'[r].docs = run[r].docs /\ run'[r].source = s.by
      BY <1>0, <2>2 DEF Run
    <3>2. Pending(r)' = Pending(r) /\ Path(r)' = Path(r)
      BY <3>1 DEF Pending, Path
    <3>3. s = SourceRow(Path(r), run[r].repo, s.by)
      BY <2>2 DEF SourceRow, TypeOK, Source
    <3> QED
      BY <1>1, <1>7, <3>1, <3>2, <3>3 DEF RunOK, SelectSource
  <2> QED
    BY <1>7, <2>1, <2>2 DEF SelectSource
<1>8. CASE InsertSource(r)
  <2>1. /\ run'[r].pc = "select" /\ run'[r].next = run[r].next /\ run'[r].repo = run[r].repo
        /\ run'[r].docs = run[r].docs /\ run'[r].source = r
    BY <1>0, <1>8 DEF InsertSource, Run
  <2>2. Pending(r)' = Pending(r) /\ Path(r)' = Path(r)
    BY <2>1 DEF Pending, Path
  <2>3. SourceRow(Path(r), run[r].repo, r) \in sources'
    BY <1>8 DEF InsertSource, SourceRow
  <2> QED
    BY <1>1, <1>8, <2>1, <2>2, <2>3 DEF RunOK, InsertSource
<1>9. CASE SelectDocument(r)
  <2>1. CASE Goto(r, "insertDocument")
    BY <1>0, <1>1, <1>9, <2>1, GotoFields DEF SelectDocument, RunOK
  <2>2. CASE run' = [run EXCEPT ![r] = NextDocument(@, Path(r))]
    BY <1>1, <1>9, <2>2, NextFields DEF SelectDocument, RunOK
  <2>3. ASSUME NEW d \in Rows(r), run' = [run EXCEPT ![r] = [@ EXCEPT !.pc = "store", !.document = d]]
        PROVE  RunOK(r)'
    <3>1. /\ run'[r].pc = "store" /\ run'[r].next = run[r].next /\ run'[r].repo = run[r].repo
          /\ run'[r].docs = run[r].docs /\ run'[r].document = d
      BY <1>0, <2>3 DEF Run
    <3>2. Pending(r)' = Pending(r) /\ Path(r)' = Path(r)
      BY <3>1 DEF Pending, Path
    <3>3. checksum' = checksum
      BY <1>9 DEF SelectDocument, tables
    <3> QED
      BY <1>1, <1>9, <2>3, <3>1, <3>2, <3>3 DEF RunOK, SelectDocument, Rows
  <2> QED
    BY <1>9, <2>1, <2>2, <2>3 DEF SelectDocument
<1> QED
  BY <1>2, <1>3, <1>4, <1>5, <1>6, <1>7, <1>8, <1>9 DEF Resolve

LEMMA RebuildRunOK ==
  ASSUME TypeOK, NEW r \in Runs, RunOK(r), Rebuild(r) \/ Finish(r) \/ Fail(r)
  PROVE  RunOK(r)'
<1>0. /\ run[r] \in Run /\ run \in [Runs -> Run]
      /\ {"stale", "chunk", "embed", "done", "failed", "collided"} \subseteq PC
  BY DEF TypeOK, PC, Busy, Rebuilding, Clearing, Writing
<1>1. /\ repos \subseteq repos' /\ sources \subseteq sources'
      /\ \A d \in Document : checksum[d] # None => checksum'[d] # None
  BY Monotone DEF Step
<1> USE DEF Processing, Holding, Rebuilding, Clearing, Writing
<1>2. ASSUME NEW pc \in PC \cap {"done", "failed", "collided"}, Stop(r, pc) PROVE RunOK(r)'
  BY <1>2, StopFields DEF RunOK
<1>3. CASE InsertDocument(r)
  <2> DEFINE d == [path |-> Path(r), repo |-> run[r].repo, source |-> run[r].source, by |-> r]
  <2>1. /\ run'[r].pc = "chunk" /\ run'[r].next = run[r].next /\ run'[r].repo = run[r].repo
        /\ run'[r].docs = run[r].docs /\ run'[r].document = d
    BY <1>0, <1>3 DEF InsertDocument, Run
  <2>2. Pending(r)' = Pending(r) /\ Path(r)' = Path(r)
    BY <2>1 DEF Pending, Path
  <2>3. Path(r) \in Paths /\ Version(r) \in Versions
    BY <1>3, PathIn DEF InsertDocument, RunOK
  <2>4. d \in Document
    BY <1>3, <2>3 DEF InsertDocument, RunOK, SourceRow, Document, TypeOK, Source
  <2>5. checksum'[d] # None
    BY <1>3, <2>3, <2>4 DEF InsertDocument, TypeOK
  <2> QED
    BY <1>1, <1>3, <2>1, <2>2, <2>4, <2>5 DEF RunOK, InsertDocument
<1>4. ASSUME NEW pc \in PC \cap {"stale", "chunk", "embed"}, Goto(r, pc), run[r].pc \in Holding,
             run[r].pc \in Writing => pc \in Writing
      PROVE  RunOK(r)'
  BY <1>1, <1>4, GotoFields DEF RunOK
<1>5. CASE StoreChecksum(r) \/ DeleteChunks(r)
  BY <1>0, <1>4, <1>5 DEF StoreChecksum, DeleteChunks
<1>6. CASE SelectStale(r) \/ DeleteEmbedding(r)
  <2>1. /\ run[r].pc \in Clearing
        /\ run'[r].pc = "clear" /\ run'[r].next = run[r].next /\ run'[r].repo = run[r].repo
        /\ run'[r].docs = run[r].docs /\ run'[r].document = run[r].document
    BY <1>0, <1>6 DEF SelectStale, DeleteEmbedding, Run
  <2>2. Pending(r)' = Pending(r) /\ Path(r)' = Path(r)
    BY <2>1 DEF Pending, Path
  <2>3. \A c \in run'[r].stale : c.document = run[r].document
    <3>1. CASE SelectStale(r)
      <4>1. run'[r].stale = ChunksOf(run[r].document)
        BY <1>0, <3>1 DEF SelectStale, Run
      <4> QED
        BY <4>1 DEF ChunksOf
    <3>2. CASE DeleteEmbedding(r)
      <4>1. PICK c \in run[r].stale : run' = [run EXCEPT ![r].stale = @ \ {c}]
        BY <3>2 DEF DeleteEmbedding
      <4>2. run'[r].stale = run[r].stale \ {c} /\ run[r].pc = "clear"
        BY <1>0, <3>2, <4>1 DEF Run, DeleteEmbedding
      <4> QED
        BY <4>2 DEF RunOK
    <3> QED
      BY <1>6, <3>1, <3>2
  <2> QED
    BY <1>1, <2>1, <2>2, <2>3 DEF RunOK
<1>7. CASE InsertChunk(r)
  BY <1>0, <1>2, <1>4, <1>7 DEF InsertChunk
<1>8. CASE InsertEmbedding(r)
  <2>1. CASE run' = [run EXCEPT ![r].pc = "chunk", ![r].next = @ + 1]
    <3>1. /\ run'[r].pc = "chunk" /\ run'[r].repo = run[r].repo
          /\ run'[r].docs = run[r].docs /\ run'[r].document = run[r].document
      BY <1>0, <2>1 DEF Run
    <3>2. Pending(r)' = Pending(r) /\ Path(r)' = Path(r)
      BY <3>1 DEF Pending, Path
    <3> QED
      BY <1>1, <1>8, <3>1, <3>2 DEF RunOK, InsertEmbedding
  <2> QED
    BY <1>0, <1>2, <1>8, <2>1 DEF InsertEmbedding
<1>9. CASE FinishDocument(r)
  BY <1>1, <1>9, NextFields DEF FinishDocument, RunOK
<1>10. CASE Finish(r) \/ Fail(r)
  BY <1>0, <1>2, <1>10 DEF Finish, Fail
<1> QED
  BY <1>3, <1>5, <1>6, <1>7, <1>8, <1>9, <1>10 DEF Rebuild

(* The runs' part of the invariant. *)
LEMMA RunsOK ==
  ASSUME TypeOK, \A q \in Runs : RunOK(q), NEW r \in Runs, Step(r)
  PROVE  TypeOK' /\ \A q \in Runs : RunOK(q)'
<1>1. RunOK(r)'
  BY ResolveRunOK, RebuildRunOK DEF Step
<1>2. ASSUME NEW q \in Runs \ {r} PROVE RunOK(q)'
  BY StepType, Monotone, OtherRunOK
<1> QED
  BY <1>1, <1>2, StepType

-----------------------------------------------------------------------------
(* Which rows a run has inserted. *)
LEMMA RowKept ==
  ASSUME NEW d \in Document, RowOK(d), checksum[d] # None, sources \subseteq sources',
         run'[d.by].pc \notin Early,
         \/ run'[d.by].docs[d.path] = None
         \/ /\ run'[d.by].docs = run[d.by].docs
            /\ run'[d.by].document = run[d.by].document
            /\ run[d.by].pc \in Writing => run'[d.by].pc \in Writing
  PROVE  RowOK(d)'
BY DEF RowOK

(* The row that run r inserts for the document it is at. *)
NewRow(r) == [path |-> Path(r), repo |-> run[r].repo, source |-> run[r].source, by |-> r]

LEMMA InsertFacts ==
  ASSUME TypeOK, NEW r \in Runs, RunOK(r), InsertDocument(r)
  PROVE  /\ NewRow(r) \in Document
         /\ Version(r) \in Versions
         /\ checksum' = [checksum EXCEPT ![NewRow(r)] = Version(r)]
         /\ run'[r].pc = "chunk" /\ run'[r].next = 1 /\ run'[r].repo = run[r].repo
         /\ run'[r].docs = run[r].docs /\ run'[r].document = NewRow(r)
         /\ Version(r)' = Version(r)
<1>0. run[r] \in Run /\ run \in [Runs -> Run] /\ run[r].pc = "insertDocument"
  BY DEF TypeOK, InsertDocument
<1>1. Path(r) \in Paths /\ Version(r) \in Versions
  BY <1>0, PathIn DEF RunOK, Processing
<1>2. NewRow(r) \in Document
  BY <1>0, <1>1 DEF NewRow, RunOK, SourceRow, Document, TypeOK, Source, Processing
<1>3. checksum' = [checksum EXCEPT ![NewRow(r)] = Version(r)]
  BY DEF InsertDocument, NewRow
<1>4. run' = [run EXCEPT ![r].pc = "chunk", ![r].document = NewRow(r)]
  BY DEF InsertDocument, NewRow
<1>5. /\ run'[r].pc = "chunk" /\ run'[r].next = run[r].next /\ run'[r].repo = run[r].repo
      /\ run'[r].docs = run[r].docs /\ run'[r].document = NewRow(r)
  BY <1>0, <1>4 DEF Run
<1>6. run[r].next = 1
  BY <1>0 DEF RunOK, Writing
<1>7. Version(r)' = Version(r)
  BY <1>5 DEF Version, Path, Pending
<1> QED
  BY <1>1, <1>2, <1>3, <1>5, <1>6, <1>7

LEMMA RowsOK ==
  ASSUME TypeOK, NEW r \in Runs, RunOK(r), Step(r), NEW d \in Document, RowOK(d)
  PROVE  RowOK(d)'
<1>0. /\ run[r] \in Run /\ run \in [Runs -> Run] /\ d.by \in Runs /\ d.path \in Paths
      /\ run[r].docs \in [Paths -> Optional(Versions)]
      /\ {"repo", "fetch", "insertRepo", "doc", "insertSource", "insertDocument", "stale", "chunk",
          "embed", "done", "failed", "collided"} \subseteq PC
  BY DEF TypeOK, PC, Busy, Document, Run, Rebuilding, Clearing, Writing
<1>1. /\ sources \subseteq sources' /\ \A q \in Runs \ {r} : run'[q] = run[q]
  BY Monotone, StepType
<1>2. CASE checksum'[d] = None
  BY <1>2 DEF RowOK
<1>3. CASE checksum[d] # None /\ d.by # r
  BY <1>0, <1>1, <1>3, RowKept DEF RowOK
<1>4. CASE checksum[d] # None /\ d.by = r
  <2>1. run[r].pc \notin Early
    BY <1>4 DEF RowOK
  <2>2. ASSUME NEW pc \in PC \ Early, Goto(r, pc), run[r].pc \in Writing => pc \in Writing
        PROVE  RowOK(d)'
    BY <1>1, <1>4, <2>1, <2>2, GotoFields, RowKept DEF RowOK
  <2>3. ASSUME NEW pc \in PC \ Early, Stop(r, pc) PROVE RowOK(d)'
    BY <1>0, <1>1, <1>4, <2>1, <2>3, StopFields, RowKept DEF RowOK
  <2>4. ASSUME Pending(r) # {}, run' = [run EXCEPT ![r] = NextDocument(@, Path(r))],
               run[r].pc \in Writing => run[r].document.path = Path(r)
        PROVE  RowOK(d)'
    <3>1. run'[r].pc = "doc" /\ run'[r].docs = [run[r].docs EXCEPT ![Path(r)] = None]
      BY <2>4, NextFields
    <3>2. run'[r].docs[d.path] = None
      BY <1>0, <1>4, <2>4, <3>1 DEF RowOK
    <3> QED
      BY <1>1, <1>4, <3>1, <3>2, RowKept DEF RowOK, Early
  <2>5. ASSUME run'[r].pc \notin Early, run'[r].docs = run[r].docs,
               \/ run[r].pc \notin Writing
               \/ run'[r].pc \in Writing /\ run'[r].document = run[r].document
        PROVE  RowOK(d)'
    BY <1>1, <1>4, <2>5 DEF RowOK
  <2> USE DEF Early, Processing, Rebuilding, Holding, Clearing, Writing
  <2>6. CASE Start(r) \/ SelectRepository(r) \/ InsertRepository(r) \/ Fetch(r) \/ Fetched(r)
    BY <2>1, <2>6 DEF Start, SelectRepository, InsertRepository, Fetch, Fetched
  <2>7. CASE SkipBlank(r)
    BY <2>4, <2>7 DEF SkipBlank
  <2>8. CASE SelectSource(r) \/ InsertSource(r)
    <3>1. CASE Goto(r, "insertSource")
      BY <1>0, <2>2, <2>8, <3>1 DEF SelectSource, InsertSource
    <3>2. CASE ~ Goto(r, "insertSource")
      <4>1. PICK x \in Runs : run' = [run EXCEPT ![r].pc = "select", ![r].source = x]
        BY <2>8, <3>2 DEF SelectSource, InsertSource, TypeOK, Source
      <4>2. run'[r].pc = "select" /\ run'[r].docs = run[r].docs
        BY <1>0, <4>1 DEF Run
      <4> QED
        BY <2>5, <2>8, <4>2 DEF SelectSource, InsertSource
    <3> QED
      BY <3>1, <3>2
  <2>9. CASE SelectDocument(r)
    <3>1. CASE Goto(r, "insertDocument")
      BY <1>0, <2>2, <2>9, <3>1 DEF SelectDocument
    <3>2. CASE run' = [run EXCEPT ![r] = NextDocument(@, Path(r))]
      BY <2>4, <2>9, <3>2 DEF SelectDocument, RunOK
    <3>3. ASSUME NEW e \in Document, run' = [run EXCEPT ![r] = [@ EXCEPT !.pc = "store", !.document = e]]
          PROVE  RowOK(d)'
      <4>1. run'[r].pc = "store" /\ run'[r].docs = run[r].docs
        BY <1>0, <3>3 DEF Run
      <4> QED
        BY <2>5, <2>9, <4>1 DEF SelectDocument
    <3> QED
      BY <2>9, <3>1, <3>2, <3>3 DEF SelectDocument, Rows
  <2>10. CASE InsertDocument(r)
    BY <2>5, <2>10, InsertFacts DEF InsertDocument
  <2>11. CASE StoreChecksum(r) \/ DeleteChunks(r)
    BY <1>0, <2>2, <2>11 DEF StoreChecksum, DeleteChunks
  <2>12. CASE SelectStale(r) \/ DeleteEmbedding(r)
    <3>1. run'[r].pc = "clear" /\ run'[r].docs = run[r].docs /\ run[r].pc \notin Writing
      BY <1>0, <2>12 DEF SelectStale, DeleteEmbedding, Run
    <3> QED
      BY <2>5, <3>1
  <2>13. CASE InsertChunk(r)
    BY <1>0, <2>2, <2>3, <2>13 DEF InsertChunk
  <2>14. CASE InsertEmbedding(r)
    <3>1. CASE run' = [run EXCEPT ![r].pc = "chunk", ![r].next = @ + 1]
      <4>1. run'[r].pc = "chunk" /\ run'[r].docs = run[r].docs /\ run'[r].document = run[r].document
        BY <1>0, <3>1 DEF Run
      <4> QED
        BY <2>5, <2>14, <4>1
    <3> QED
      BY <1>0, <2>3, <2>14, <3>1 DEF InsertEmbedding
  <2>15. CASE FinishDocument(r)
    BY <2>4, <2>15 DEF FinishDocument, RunOK
  <2>16. CASE Finish(r) \/ Fail(r)
    BY <1>0, <2>3, <2>16 DEF Finish, Fail
  <2> QED
    BY <2>6, <2>7, <2>8, <2>9, <2>10, <2>11, <2>12, <2>13, <2>14, <2>15, <2>16
       DEF Step, Resolve, Rebuild
<1>5. CASE checksum[d] = None /\ checksum'[d] # None
  <2>1. InsertDocument(r)
    <3>1. ~ StoreChecksum(r)
      BY <1>5 DEF StoreChecksum, RunOK, Holding, TypeOK
    <3>2. checksum' # checksum
      BY <1>5
    <3> QED
      BY <3>1, <3>2 DEF Step, Start, Resolve, SelectRepository, InsertRepository, Fetch, Fetched,
         SelectSource, InsertSource, SelectDocument, SkipBlank, Finish, Fail, tables, Rebuild,
         SelectStale, DeleteEmbedding, DeleteChunks, InsertChunk, InsertEmbedding, FinishDocument
  <2>2. d = NewRow(r)
    BY <1>5, <2>1, InsertFacts DEF TypeOK
  <2>3. SourceRow(d.path, d.repo, d.source) \in sources /\ d.by = r
    BY <2>1, <2>2 DEF NewRow, InsertDocument, RunOK
  <2> QED
    BY <1>1, <2>1, <2>2, <2>3, InsertFacts DEF RowOK, Early, Writing
<1> QED
  BY <1>2, <1>3, <1>4, <1>5

-----------------------------------------------------------------------------
(* Documents.  What run r makes is a chunk. *)
LEMMA MadeIn ==
  ASSUME TypeOK, NEW r \in Runs, RunOK(r), NEW d \in Document, Rebuilds(r, d)
  PROVE  /\ Version(r) \in Versions /\ Inserted(r) \in Nat /\ run[r].next \in Nat \ {0}
         /\ \A i \in Nat : Made(r, d, i) \in Chunk
<1>1. Version(r) \in Versions
  BY PathIn DEF Rebuilds, RunOK, Processing
<1>2. run[r].next \in Nat \ {0}
  BY DEF TypeOK, Run
<1> QED
  BY <1>1, <1>2 DEF Made, Chunk, Inserted

IndexTaken(r) == \E c \in ChunksOf(run[r].document) : c.index = run[r].next

(* A step that leaves the document, its chunks and the runs at it alone. *)
Untouched(d) ==
  /\ checksum'[d] = checksum[d]
  /\ \A c \in Chunk : c.document = d =>
        (c \in chunks' <=> c \in chunks) /\ (c \in embedded' <=> c \in embedded)
  /\ d \in contested => d \in contested'
  /\ d \in interrupted => d \in interrupted'
  /\ \A q \in Runs : run'[q] = run[q] \/ (~ Rebuilds(q, d) /\ ~ Rebuilds(q, d)')

LEMMA DocumentUntouched ==
  ASSUME TypeOK, TypeOK', \A q \in Runs : RunOK(q), NEW d \in Document, DocumentOK(d),
         Untouched(d)
  PROVE  DocumentOK(d)'
<1> USE DEF Untouched
<1>1. chunks \subseteq Chunk /\ chunks' \subseteq Chunk /\ embedded \subseteq Chunk
      /\ embedded' \subseteq Chunk
  BY DEF TypeOK
<1>2. ASSUME NEW q \in Runs
      PROVE  /\ Rebuilds(q, d)' <=> Rebuilds(q, d)
             /\ Rebuilds(q, d) => run'[q] = run[q] /\ Version(q)' = Version(q)
  BY <1>2 DEF Rebuilds, Version, Path, Pending
<1>3. ASSUME NEW q \in Runs, Rebuilds(q, d), WrittenBy(q, d) PROVE WrittenBy(q, d)'
  <2>1. run'[q] = run[q] /\ Version(q)' = Version(q) /\ Inserted(q)' = Inserted(q)
    BY <1>2, <1>3 DEF Inserted
  <2>2. \A i : Made(q, d, i)' = Made(q, d, i)
    BY <2>1 DEF Made
  <2>3. /\ Inserted(q) \in Nat /\ run[q].next \in Nat \ {0}
        /\ \A i \in Nat : Made(q, d, i) \in Chunk /\ Made(q, d, i).document = d
    BY <1>3, MadeIn DEF Made
  <2>4. \A i \in 1 .. Inserted(q) : Made(q, d, i) \in chunks'
    BY <1>3, <2>3 DEF WrittenBy
  <2>5. \A i \in 1 .. run[q].next - 1 : Made(q, d, i) \in embedded'
    BY <1>3, <2>3 DEF WrittenBy
  <2>6. \A c \in chunks' : c.document = d => c = Made(q, d, c.index) /\ c.index \in 1 .. Inserted(q)
    BY <1>1, <1>3 DEF WrittenBy
  <2> QED
    BY <1>3, <2>1, <2>2, <2>4, <2>5, <2>6 DEF WrittenBy
<1>4. Complete(d)' <=> Complete(d)
  <2>1. ChunksOf(d)' = ChunksOf(d)
    BY <1>1 DEF ChunksOf
  <2>2. (ChunksOf(d) \subseteq embedded') <=> (ChunksOf(d) \subseteq embedded)
    BY <1>1 DEF ChunksOf
  <2> QED
    BY <2>1, <2>2 DEF Complete
<1>5. checksum'[d] = None => \A c \in chunks' : c.document # d
  BY <1>1 DEF DocumentOK
<1>6. ASSUME d \notin contested'
      PROVE  /\ \A r, q \in Runs : Rebuilds(r, d)' /\ Rebuilds(q, d)' => r = q
             /\ \A r \in Runs : Rebuilds(r, d)' => checksum'[d] = Version(r)'
             /\ \A r \in Runs : Rebuilds(r, d)' /\ run'[r].pc \in Writing => WrittenBy(r, d)'
             /\ \A c1, c2 \in chunks' : c1.document = d /\ c2.document = d => c1.version = c2.version
             /\ checksum'[d] # None /\ d \notin interrupted' /\ (\A r \in Runs : ~ Rebuilds(r, d)')
                  => Complete(d)'
  BY <1>1, <1>2, <1>3, <1>4, <1>6 DEF DocumentOK
<1> QED
  BY <1>5, <1>6 DEF DocumentOK

(* A step after which run r is at the document, alone if it is not contested. *)
LEMMA SoleOK ==
  ASSUME NEW d \in Document, NEW r \in Runs, Rebuilds(r, d)', checksum'[d] # None,
         d \notin contested' =>
           /\ \A q \in Runs \ {r} : ~ Rebuilds(q, d)'
           /\ checksum'[d] = Version(r)'
           /\ run'[r].pc \in Writing => WrittenBy(r, d)'
           /\ \A c1, c2 \in chunks' : c1.document = d /\ c2.document = d => c1.version = c2.version
  PROVE  DocumentOK(d)'
BY DEF DocumentOK

(* A step with which run r leaves the document as it is. *)
LEMMA LeftOK ==
  ASSUME TypeOK, NEW d \in Document, NEW r \in Runs, DocumentOK(d), Rebuilds(r, d),
         ~ Rebuilds(r, d)', \A q \in Runs \ {r} : run'[q] = run[q],
         checksum' = checksum, chunks' = chunks, contested' = contested,
         d \notin contested => d \in interrupted' \/ Complete(d)'
  PROVE  DocumentOK(d)'
<1>1. ASSUME NEW q \in Runs, Rebuilds(q, d)'
      PROVE  q # r /\ Rebuilds(q, d) /\ run'[q] = run[q]
  BY <1>1 DEF Rebuilds
<1>2. ASSUME NEW q \in Runs, Rebuilds(q, d)' PROVE d \in contested
  BY <1>1, <1>2 DEF DocumentOK
<1> QED
  BY <1>2 DEF DocumentOK

(* The run at document d is the only one, unless d is contested. *)
LEMMA AtIt ==
  ASSUME TypeOK, NEW r \in Runs, RunOK(r), run[r].pc \in Rebuilding,
         \A q \in Runs \ {r} : run'[q] = run[q],
         NEW d, d = run[r].document, DocumentOK(d)
  PROVE  /\ d \in Document /\ Rebuilds(r, d) /\ checksum[d] # None
         /\ d \notin contested =>
              /\ Rivals(r, d) = {} /\ \A q \in Runs \ {r} : ~ Rebuilds(q, d)'
              /\ checksum[d] = Version(r)
              /\ run[r].pc \in Writing => WrittenBy(r, d)
BY DEF RunOK, Holding, Rebuilds, DocumentOK, Rivals

LEMMA LeaveDocument ==
  ASSUME TypeOK, NEW r \in Runs, RunOK(r), NEW d \in Document, DocumentOK(d),
         run[r].pc \in Rebuilding, d = run[r].document,
         NEW pc \in {"failed", "collided"}, Stop(r, pc), Abandon(r),
         UNCHANGED <<checksum, chunks, contested>>
  PROVE  DocumentOK(d)'
<1>1. pc \in PC /\ pc \notin Rebuilding
  BY DEF PC, Rebuilding, Clearing, Writing
<1>2. run'[r].pc = pc /\ \A q \in Runs \ {r} : run'[q] = run[q]
  BY <1>1, StopFields, Stops, MovesType
<1>3. d \in interrupted'
  BY DEF Abandon
<1> QED
  BY <1>1, <1>2, <1>3, LeftOK DEF Rebuilds

LEMMA InsertedDocument ==
  ASSUME TypeOK, TypeOK', \A q \in Runs : RunOK(q), NEW r \in Runs, InsertDocument(r),
         NEW d \in Document, RowOK(d), DocumentOK(d), d = NewRow(r)
  PROVE  DocumentOK(d)'
<1>1. run[r].pc = "insertDocument" /\ checksum[d] = None
  <2>1. run[r].pc = "insertDocument" /\ Pending(r) # {}
    BY DEF InsertDocument, RunOK, Processing
  <2>2. d.by = r /\ d.path = Path(r) /\ run[r].docs[Path(r)] # None
    BY <2>1, PathIn DEF NewRow
  <2> QED
    BY <2>1, <2>2 DEF RowOK, Writing
<1>2. /\ run'[r].pc = "chunk" /\ run'[r].document = d /\ run'[r].next = 1
      /\ Version(r)' = Version(r) /\ Version(r) \in Versions /\ checksum'[d] = Version(r)
      /\ \A q \in Runs \ {r} : run'[q] = run[q]
  BY InsertFacts, StepType DEF Step, Rebuild, TypeOK
<1>3. \A q \in Runs \ {r} : ~ Rebuilds(q, d)'
  BY <1>1, <1>2 DEF Rebuilds, RunOK, Holding
<1>4. \A c \in chunks' : c.document # d
  BY <1>1 DEF DocumentOK, InsertDocument
<1>5. WrittenBy(r, d)'
  <2>1. Inserted(r)' = 0
    BY <1>2 DEF Inserted
  <2>2. Len(Chunks(Version(r))) \in Nat
    BY <1>2, ChunksType
  <2> QED
    BY <1>2, <1>4, <2>1, <2>2 DEF WrittenBy
<1> QED
  BY <1>2, <1>3, <1>4, <1>5, SoleOK DEF Rebuilds, Rebuilding, Writing

LEMMA StoredChecksum ==
  ASSUME TypeOK, NEW r \in Runs, RunOK(r), StoreChecksum(r),
         NEW d \in Document, DocumentOK(d), d = run[r].document
  PROVE  DocumentOK(d)'
<1>1. /\ run'[r].pc = "stale" /\ run'[r].document = d /\ Version(r)' = Version(r)
      /\ \A q \in Runs \ {r} : run'[q] = run[q]
  BY GotoFields, StepType DEF StoreChecksum, PC, Busy, Rebuilding, Clearing, Step, Rebuild
<1>2. checksum'[d] = Version(r) /\ Version(r) # None
  BY PathIn DEF StoreChecksum, RunOK, Processing, TypeOK
<1>3. d \notin contested' => d \notin contested /\ Rivals(r, d) = {}
  BY DEF StoreChecksum
<1>4. d \notin contested' => \A q \in Runs \ {r} : ~ Rebuilds(q, d)'
  BY <1>1, <1>3 DEF Rivals, Rebuilds
<1>5. d \notin contested' =>
        \A c1, c2 \in chunks' : c1.document = d /\ c2.document = d => c1.version = c2.version
  BY <1>3 DEF DocumentOK, StoreChecksum
<1> QED
  BY <1>1, <1>2, <1>4, <1>5, SoleOK DEF Rebuilds, Rebuilding, Clearing, Writing

LEMMA Clearings ==
  ASSUME TypeOK, NEW r \in Runs, RunOK(r), SelectStale(r) \/ DeleteEmbedding(r),
         NEW d \in Document, DocumentOK(d), d = run[r].document
  PROVE  DocumentOK(d)'
<1>0. run[r] \in Run /\ run \in [Runs -> Run] /\ run[r].pc \in Clearing
  BY DEF TypeOK, SelectStale, DeleteEmbedding, Clearing
<1>1. /\ run'[r].pc = "clear" /\ run'[r].document = d /\ run'[r].docs = run[r].docs
      /\ \A q \in Runs \ {r} : run'[q] = run[q]
  BY <1>0 DEF SelectStale, DeleteEmbedding, Run
<1>2. Version(r)' = Version(r)
  BY <1>1 DEF Version, Path, Pending
<1>3. checksum' = checksum /\ chunks' = chunks /\ contested' = contested
  BY DEF SelectStale, DeleteEmbedding, tables, history
<1>4. /\ checksum[d] # None
      /\ d \notin contested => /\ \A q \in Runs \ {r} : ~ Rebuilds(q, d)'
                              /\ checksum[d] = Version(r)
  BY <1>0, <1>1, AtIt DEF Rebuilding
<1> QED
  BY <1>1, <1>2, <1>3, <1>4, SoleOK DEF DocumentOK, Rebuilds, Rebuilding, Clearing, Writing

LEMMA DeletedChunks ==
  ASSUME TypeOK, NEW r \in Runs, RunOK(r), DeleteChunks(r),
         NEW d \in Document, DocumentOK(d), d = run[r].document
  PROVE  DocumentOK(d)'
<1>0. run[r].pc = "clear" /\ run[r].pc \in Rebuilding
  BY DEF DeleteChunks, Rebuilding, Clearing
<1>1. /\ run'[r].pc = "chunk" /\ run'[r].document = d /\ Version(r)' = Version(r)
      /\ run'[r].next = 1 /\ \A q \in Runs \ {r} : run'[q] = run[q]
  BY <1>0, GotoFields, StepType
     DEF DeleteChunks, PC, Busy, Rebuilding, Clearing, Writing, Step, Rebuild, RunOK
<1>2. checksum' = checksum /\ checksum[d] # None
  BY <1>0, <1>1, AtIt DEF DeleteChunks
<1>3. ASSUME d \notin contested' PROVE Rivals(r, d) = {} /\ checksum[d] = Version(r)
  BY <1>0, <1>1, <1>3, AtIt DEF DeleteChunks
<1>4. \A c \in chunks' : c.document # d
  BY DEF DeleteChunks, ChunksOf
<1>5. WrittenBy(r, d)'
  <2>1. Inserted(r)' = 0
    BY <1>1 DEF Inserted
  <2>2. Len(Chunks(Version(r))) \in Nat
    BY <1>0, PathIn, ChunksType DEF RunOK, Processing
  <2> QED
    BY <1>1, <1>4, <2>1, <2>2 DEF WrittenBy
<1>6. d \notin contested' => \A q \in Runs \ {r} : ~ Rebuilds(q, d)'
  BY <1>1, <1>3 DEF Rivals, Rebuilds
<1> QED
  BY <1>1, <1>2, <1>3, <1>4, <1>5, <1>6, SoleOK DEF Rebuilds, Rebuilding, Writing

LEMMA InsertedChunk ==
  ASSUME TypeOK, NEW r \in Runs, RunOK(r), InsertChunk(r), ~ IndexTaken(r),
         NEW d \in Document, DocumentOK(d), d = run[r].document
  PROVE  DocumentOK(d)'
<1>0. run[r].pc = "chunk" /\ run[r].pc \in Rebuilding \cap Writing /\ MoreChunks(r)
  BY DEF InsertChunk, Rebuilding, Writing
<1>1. /\ run'[r].pc = "embed" /\ run'[r].document = d /\ Version(r)' = Version(r)
      /\ run'[r].next = run[r].next /\ \A q \in Runs \ {r} : run'[q] = run[q]
  BY GotoFields, StepType DEF InsertChunk, PC, Busy, Rebuilding, Writing, Step, Rebuild, IndexTaken
<1>2. /\ checksum' = checksum /\ contested' = contested /\ embedded' = embedded
      /\ chunks' = chunks \cup {Made(r, d, run[r].next)}
  BY DEF InsertChunk, NextChunk, Made, IndexTaken
<1>3. Rebuilds(r, d) /\ checksum[d] # None
  BY <1>0, <1>1, AtIt
<1>4. ASSUME d \notin contested
      PROVE  /\ \A q \in Runs \ {r} : ~ Rebuilds(q, d)'
             /\ checksum[d] = Version(r) /\ WrittenBy(r, d)
  BY <1>0, <1>1, <1>4, AtIt
<1>5. run[r].next \in Nat \ {0} /\ Inserted(r) = run[r].next - 1 /\ Inserted(r)' = run[r].next
  BY <1>0, <1>1, <1>3, MadeIn DEF Inserted
<1>6. \A i : Made(r, d, i)' = Made(r, d, i) /\ Made(r, d, i).index = i
  BY <1>1 DEF Made
<1>7. ASSUME d \notin contested PROVE WrittenBy(r, d)'
  <2>1. run[r].next <= Len(Chunks(Version(r)))
    BY <1>0 DEF MoreChunks
  <2>2. ASSUME NEW c \in chunks', c.document = d
        PROVE  c = Made(r, d, c.index) /\ c.index \in 1 .. run[r].next
    <3>1. CASE c \in chunks
      BY <1>4, <1>5, <1>7, <2>2, <3>1 DEF WrittenBy
    <3>2. CASE c = Made(r, d, run[r].next)
      BY <1>5, <1>6, <3>2
    <3> QED
      BY <1>2, <3>1, <3>2
  <2>3. ASSUME NEW i \in 1 .. run[r].next PROVE Made(r, d, i) \in chunks'
    <3>1. CASE i = run[r].next
      BY <1>2, <3>1
    <3>2. CASE i # run[r].next
      <4>1. i \in 1 .. Inserted(r)
        BY <1>5, <3>2
      <4> QED
        BY <1>2, <1>4, <1>7, <4>1 DEF WrittenBy
    <3> QED
      BY <3>1, <3>2
  <2>4. \A i \in 1 .. run[r].next - 1 : Made(r, d, i) \in embedded'
    BY <1>2, <1>4, <1>7 DEF WrittenBy
  <2> QED
    BY <1>1, <1>5, <1>6, <2>1, <2>2, <2>3, <2>4 DEF WrittenBy
<1>8. ASSUME d \notin contested, NEW c1 \in chunks', NEW c2 \in chunks',
             c1.document = d, c2.document = d
      PROVE  c1.version = c2.version
  <2>1. c1 = Made(r, d, c1.index) /\ c2 = Made(r, d, c2.index)
    BY <1>6, <1>7, <1>8 DEF WrittenBy
  <2> QED
    BY <2>1 DEF Made
<1> QED
  BY <1>1, <1>2, <1>3, <1>4, <1>7, <1>8, SoleOK DEF Rebuilds, Rebuilding, Writing

LEMMA InsertedEmbedding ==
  ASSUME TypeOK, NEW r \in Runs, RunOK(r), InsertEmbedding(r), NextChunk(r) \in chunks,
         NEW d \in Document, DocumentOK(d), d = run[r].document
  PROVE  DocumentOK(d)'
<1>0. run[r].pc = "embed" /\ run[r].pc \in Rebuilding \cap Writing
      /\ run[r] \in Run /\ run \in [Runs -> Run]
  BY DEF InsertEmbedding, Rebuilding, Writing, TypeOK
<1>1. /\ run'[r].pc = "chunk" /\ run'[r].document = d /\ run'[r].docs = run[r].docs
      /\ run'[r].next = run[r].next + 1 /\ \A q \in Runs \ {r} : run'[q] = run[q]
  BY <1>0 DEF InsertEmbedding, Run
<1>2. Version(r)' = Version(r)
  BY <1>1 DEF Version, Path, Pending
<1>3. /\ checksum' = checksum /\ contested' = contested /\ chunks' = chunks
      /\ embedded' = embedded \cup {Made(r, d, run[r].next)}
  BY DEF InsertEmbedding, NextChunk, Made
<1>4. Rebuilds(r, d) /\ checksum[d] # None
  BY <1>0, <1>1, AtIt
<1>5. ASSUME d \notin contested
      PROVE  /\ \A q \in Runs \ {r} : ~ Rebuilds(q, d)'
             /\ checksum[d] = Version(r) /\ WrittenBy(r, d)
  BY <1>0, <1>1, <1>5, AtIt
<1>6. run[r].next \in Nat \ {0} /\ Inserted(r) = run[r].next /\ Inserted(r)' = run[r].next
  BY <1>0, <1>1, <1>4, MadeIn DEF Inserted
<1>7. \A i : Made(r, d, i)' = Made(r, d, i)
  BY <1>1, <1>2 DEF Made
<1>8. ASSUME d \notin contested PROVE WrittenBy(r, d)'
  <2>1. ASSUME NEW i \in 1 .. run'[r].next - 1 PROVE Made(r, d, i) \in embedded'
    <3>1. CASE i = run[r].next
      BY <1>3, <3>1
    <3>2. CASE i # run[r].next
      <4>1. i \in 1 .. run[r].next - 1
        BY <1>1, <1>6, <3>2
      <4> QED
        BY <1>3, <1>5, <1>8, <4>1 DEF WrittenBy
    <3> QED
      BY <3>1, <3>2
  <2> QED
    BY <1>2, <1>3, <1>5, <1>6, <1>7, <1>8, <2>1 DEF WrittenBy
<1> QED
  BY <1>1, <1>2, <1>3, <1>4, <1>5, <1>8, SoleOK DEF DocumentOK, Rebuilds, Rebuilding, Writing

LEMMA FinishedDocument ==
  ASSUME TypeOK, NEW r \in Runs, RunOK(r), FinishDocument(r),
         NEW d \in Document, DocumentOK(d), d = run[r].document
  PROVE  DocumentOK(d)' /\ (d \notin contested => Complete(d) /\ checksum[d] = Version(r))
<1>0. run[r].pc = "chunk" /\ run[r].pc \in Rebuilding \cap Writing /\ ~ MoreChunks(r)
  BY DEF FinishDocument, Rebuilding, Writing
<1>1. run'[r].pc = "doc" /\ \A q \in Runs \ {r} : run'[q] = run[q]
  BY <1>0, NextFields, StepType
     DEF FinishDocument, Step, Rebuild, RunOK, Processing
<1>2. Rebuilds(r, d) /\ ~ Rebuilds(r, d)'
  BY <1>0, <1>1, AtIt DEF Rebuilds, Rebuilding, Clearing, Writing
<1>3. UNCHANGED <<checksum, chunks, embedded, contested>>
  BY DEF FinishDocument, tables, history
<1>4. ASSUME d \notin contested PROVE Complete(d) /\ checksum[d] = Version(r)
  <2>1. checksum[d] = Version(r) /\ WrittenBy(r, d)
    BY <1>0, <1>1, <1>4, AtIt
  <2>2. /\ run[r].next \in Nat \ {0} /\ Inserted(r) = run[r].next - 1 /\ Version(r) \in Versions
    BY <1>0, <1>2, MadeIn DEF Inserted
  <2>3. Chunks(Version(r)) \in Seq(Seq(Paragraph))
    BY <2>2, ChunksType
  <2>4. /\ DOMAIN Chunks(Version(r)) = 1 .. Len(Chunks(Version(r)))
        /\ Len(Chunks(Version(r))) \in Nat
    BY <2>3
  <2>5. Len(Chunks(Version(r))) = Inserted(r)
    BY <1>0, <2>1, <2>2, <2>4 DEF MoreChunks, WrittenBy
  <2>6. ASSUME NEW c \in ChunksOf(d)
        PROVE  c = Made(r, d, c.index) /\ c.index \in 1 .. Inserted(r) /\ c \in embedded
               /\ c.version = Version(r)
    <3>1. c = Made(r, d, c.index) /\ c.index \in 1 .. Inserted(r)
      BY <2>1, <2>6 DEF WrittenBy, ChunksOf
    <3>2. Made(r, d, c.index) \in embedded
      BY <2>1, <2>2, <3>1 DEF WrittenBy
    <3> QED
      BY <3>1, <3>2 DEF Made
  <2>7. ASSUME NEW i \in 1 .. Inserted(r)
        PROVE  \E c \in ChunksOf(d) : c.index = i
    <3>1. Made(r, d, i) \in chunks
      BY <2>1, <2>7 DEF WrittenBy
    <3> QED
      BY <3>1 DEF ChunksOf, Made
  <2>8. {[index |-> c.index, version |-> c.version] : c \in ChunksOf(d)}
          = {[index |-> i, version |-> checksum[d]] : i \in 1 .. Inserted(r)}
    BY <2>1, <2>6, <2>7
  <2> QED
    BY <2>1, <2>4, <2>5, <2>6, <2>8 DEF Complete
<1>5. Complete(d)' <=> Complete(d)
  BY <1>3 DEF Complete, ChunksOf
<1> QED
  BY <1>1, <1>2, <1>3, <1>4, <1>5, LeftOK

(* Steps from one stage that leave the tables' documents alone. *)
LEMMA QuietOK ==
  ASSUME TypeOK, \A q \in Runs : RunOK(q), NEW r \in Runs, Step(r),
         NEW d \in Document, DocumentOK(d), ~ Rebuilds(r, d), ~ Rebuilds(r, d)',
         UNCHANGED <<checksum, chunks, embedded, contested>>, interrupted \subseteq interrupted'
  PROVE  DocumentOK(d)'
<1>1. TypeOK' /\ \A q \in Runs \ {r} : run'[q] = run[q]
  BY StepType
<1>2. Untouched(d)
  BY <1>1 DEF Untouched
<1> QED
  BY <1>1, <1>2, DocumentUntouched

LEMMA QuietStep ==
  ASSUME TypeOK, NEW r \in Runs, RunOK(r),
         Start(r) \/ SkipBlank(r) \/ Resolve(r) \/ Finish(r) \/ Fail(r) \/ FinishDocument(r)
  PROVE  /\ UNCHANGED <<checksum, chunks, embedded, contested>>
         /\ interrupted \subseteq interrupted'
         /\ run'[r].pc \notin Rebuilding \cup {"collided"}
<1>0. /\ run[r] \in Run /\ run \in [Runs -> Run]
      /\ {"repo", "fetch", "insertRepo", "doc", "insertSource", "insertDocument", "done",
          "failed"} \subseteq PC
  BY DEF TypeOK, PC, Busy
<1>1. UNCHANGED <<checksum, chunks, embedded, contested>> /\ interrupted \subseteq interrupted'
  BY DEF Start, SkipBlank, Resolve, Finish, Fail, SelectRepository, InsertRepository, Fetch,
     Fetched, SelectSource, InsertSource, SelectDocument, FinishDocument, tables, history, Abandon
<1> USE DEF Rebuilding, Clearing, Writing
<1>2. CASE Start(r) \/ Fetched(r)
  BY <1>0, <1>1, <1>2, GotoFields DEF Start, Fetched
<1>3. CASE SkipBlank(r) \/ FinishDocument(r)
  BY <1>1, <1>3, NextFields DEF SkipBlank, FinishDocument, RunOK, Processing
<1>4. CASE SelectRepository(r) \/ InsertRepository(r) \/ SelectSource(r) \/ InsertSource(r)
  <2>1. CASE Goto(r, "insertRepo") \/ Goto(r, "insertSource")
    BY <1>0, <1>1, <2>1, GotoFields
  <2>2. CASE \E x : run' = [run EXCEPT ![r].pc = "fetch", ![r].repo = x]
    BY <1>0, <1>1, <2>2 DEF Run
  <2>3. CASE \E x : run' = [run EXCEPT ![r].pc = "select", ![r].source = x]
    BY <1>0, <1>1, <2>3 DEF Run
  <2> QED
    BY <1>4, <2>1, <2>2, <2>3 DEF SelectRepository, InsertRepository, SelectSource, InsertSource
<1>5. CASE Fetch(r)
  <2>1. run'[r].pc = "fetch"
    BY <1>0, <1>5 DEF Fetch, Run
  <2> QED
    BY <1>1, <2>1
<1>6. CASE SelectDocument(r)
  <2>1. CASE Goto(r, "insertDocument")
    BY <1>0, <1>1, <2>1, GotoFields
  <2>2. CASE run' = [run EXCEPT ![r] = NextDocument(@, Path(r))]
    BY <1>1, <1>6, <2>2, NextFields DEF SelectDocument, RunOK, Processing
  <2>3. ASSUME NEW e \in Document, run' = [run EXCEPT ![r] = [@ EXCEPT !.pc = "store", !.document = e]]
        PROVE  run'[r].pc = "store"
    BY <1>0, <2>3 DEF Run
  <2> QED
    BY <1>1, <1>6, <2>1, <2>2, <2>3 DEF SelectDocument, Rows
<1>7. CASE Finish(r) \/ Fail(r)
  BY <1>0, <1>1, <1>7, StopFields DEF Finish, Fail
<1> QED
  BY <1>2, <1>3, <1>4, <1>5, <1>6, <1>7 DEF Resolve

(* What a step of run r changes is of the document it is at. *)
LEMMA ElsewhereOK ==
  ASSUME TypeOK, \A q \in Runs : RunOK(q), NEW r \in Runs, Step(r),
         NEW d \in Document, DocumentOK(d),
         ~ Rebuilds(r, d), run[r].pc # "store" \/ run[r].document # d,
         run[r].pc # "insertDocument" \/ NewRow(r) # d
  PROVE  DocumentOK(d)'
<1>0. /\ TypeOK' /\ run[r] \in Run /\ run \in [Runs -> Run]
      /\ \A q \in Runs \ {r} : run'[q] = run[q]
      /\ {"repo", "fetch", "insertRepo", "doc", "insertSource", "insertDocument", "stale", "chunk",
          "embed", "done", "failed", "collided"} \subseteq PC
  BY StepType DEF TypeOK, PC, Busy, Rebuilding, Clearing, Writing
<1> USE DEF Rebuilding, Clearing, Writing
<1>2. CASE Start(r) \/ SkipBlank(r) \/ Resolve(r) \/ Finish(r) \/ Fail(r) \/ FinishDocument(r)
  BY <1>2, QuietOK, QuietStep DEF Rebuilds
<1>3. CASE InsertDocument(r)
  <2>1. run'[r].document # d /\ checksum'[d] = checksum[d]
    BY <1>3, InsertFacts DEF InsertDocument, TypeOK
  <2>2. Untouched(d)
    BY <1>0, <1>3, <2>1 DEF InsertDocument, history, Rebuilds, Untouched
  <2> QED
    BY <1>0, <2>2, DocumentUntouched
<1>4. CASE StoreChecksum(r)
  <2>1. run[r].document # d /\ run'[r].document # d /\ checksum'[d] = checksum[d]
    BY <1>0, <1>4, GotoFields DEF StoreChecksum, TypeOK
  <2>2. Untouched(d)
    BY <1>0, <1>4, <2>1 DEF StoreChecksum, Rebuilds, Untouched
  <2> QED
    BY <1>0, <2>2, DocumentUntouched
<1>5. CASE SelectStale(r) \/ DeleteEmbedding(r)
  <2>1. run[r].document # d /\ run'[r].document # d
    BY <1>0, <1>5 DEF SelectStale, DeleteEmbedding, Run, Rebuilds
  <2>2. \A c \in Chunk : c.document = d => (c \in embedded' <=> c \in embedded)
    BY <1>5, <2>1 DEF SelectStale, DeleteEmbedding, RunOK, tables
  <2>3. Untouched(d)
    BY <1>0, <1>5, <2>1, <2>2
       DEF SelectStale, DeleteEmbedding, tables, history, Rebuilds, Untouched
  <2> QED
    BY <1>0, <2>3, DocumentUntouched
<1>6. CASE DeleteChunks(r)
  <2>1. run[r].document # d /\ run'[r].document # d
    BY <1>0, <1>6, GotoFields DEF DeleteChunks, Rebuilds
  <2>2. \A c \in Chunk : c.document = d =>
           (c \in chunks' <=> c \in chunks) /\ (c \in embedded' <=> c \in embedded)
    BY <1>6, <2>1 DEF DeleteChunks, ChunksOf
  <2>3. /\ checksum' = checksum /\ (d \in contested => d \in contested')
        /\ (d \in interrupted => d \in interrupted')
    BY <1>6, <2>1 DEF DeleteChunks
  <2>4. Untouched(d)
    BY <1>0, <2>1, <2>2, <2>3 DEF Rebuilds, Untouched
  <2> QED
    BY <1>0, <2>4, DocumentUntouched
<1>7. CASE InsertChunk(r) \/ InsertEmbedding(r)
  <2>1. run[r].document # d /\ run[r].pc \in Rebuilding
    BY <1>7 DEF InsertChunk, InsertEmbedding, Rebuilds
  <2>2. ~ Rebuilds(r, d)'
    <3>1. CASE Stop(r, "collided")
      BY <1>0, <3>1, StopFields DEF Rebuilds
    <3>2. CASE ~ Stop(r, "collided")
      <4>1. run'[r].document = run[r].document
        BY <1>0, <1>7, <3>2, GotoFields DEF InsertChunk, InsertEmbedding, Run
      <4> QED
        BY <2>1, <4>1 DEF Rebuilds
    <3> QED
      BY <3>1, <3>2
  <2>3. NextChunk(r).document # d
    BY <2>1 DEF NextChunk
  <2>4. \A c \in Chunk : c.document = d =>
           (c \in chunks' <=> c \in chunks) /\ (c \in embedded' <=> c \in embedded)
    BY <1>7, <2>3 DEF InsertChunk, InsertEmbedding
  <2>5. checksum' = checksum /\ contested' = contested /\ interrupted \subseteq interrupted'
    BY <1>7 DEF InsertChunk, InsertEmbedding, Abandon
  <2>6. Untouched(d)
    BY <1>0, <2>2, <2>4, <2>5 DEF Untouched
  <2> QED
    BY <1>0, <2>6, DocumentUntouched
<1> QED
  BY <1>2, <1>3, <1>4, <1>5, <1>6, <1>7 DEF Step, Rebuild

LEMMA DocumentsOK ==
  ASSUME TypeOK, \A q \in Runs : RunOK(q), NEW r \in Runs, Step(r),
         NEW d \in Document, RowOK(d), DocumentOK(d)
  PROVE  DocumentOK(d)'
<1>0. TypeOK'
  BY StepType
<1>1. CASE run[r].pc = "insertDocument" /\ NewRow(r) = d
  <2>1. InsertDocument(r) \/ Fail(r)
    BY <1>1 DEF Step, Start, Resolve, SelectRepository, InsertRepository, Fetch, Fetched,
       SelectSource, InsertSource, SelectDocument, SkipBlank, Finish, Rebuild, StoreChecksum,
       SelectStale, DeleteEmbedding, DeleteChunks, InsertChunk, InsertEmbedding, FinishDocument
  <2>2. CASE Fail(r)
    BY <1>1, <2>2, QuietOK, QuietStep DEF Rebuilds, Rebuilding, Clearing, Writing
  <2> QED
    BY <1>0, <1>1, <2>1, <2>2, InsertedDocument
<1>2. CASE run[r].pc = "store" /\ run[r].document = d
  <2>1. StoreChecksum(r) \/ Fail(r)
    BY <1>2 DEF Step, Start, Resolve, SelectRepository, InsertRepository, Fetch, Fetched,
       SelectSource, InsertSource, SelectDocument, SkipBlank, Finish, Rebuild, InsertDocument,
       SelectStale, DeleteEmbedding, DeleteChunks, InsertChunk, InsertEmbedding, FinishDocument
  <2>2. CASE Fail(r)
    BY <1>2, <2>2, QuietOK, QuietStep DEF Rebuilds, Rebuilding, Clearing, Writing
  <2> QED
    BY <1>2, <2>1, <2>2, StoredChecksum
<1>3. CASE Rebuilds(r, d)
  <2>1. run[r].pc \in Rebuilding /\ d = run[r].document
    BY <1>3 DEF Rebuilds
  <2>2. \/ SelectStale(r) \/ DeleteEmbedding(r) \/ DeleteChunks(r) \/ InsertChunk(r)
        \/ InsertEmbedding(r) \/ FinishDocument(r) \/ Fail(r)
    BY <2>1 DEF Step, Start, Resolve, SelectRepository, InsertRepository, Fetch, Fetched,
       SelectSource, InsertSource, SelectDocument, SkipBlank, Finish, Rebuild, InsertDocument,
       StoreChecksum, Rebuilding, Clearing, Writing
  <2>3. CASE Fail(r)
    BY <2>1, <2>3, LeaveDocument DEF Fail, tables
  <2>4. CASE InsertChunk(r)
    <3>1. CASE IndexTaken(r)
      BY <2>1, <2>4, <3>1, LeaveDocument DEF InsertChunk, IndexTaken
    <3> QED
      BY <2>1, <2>4, <3>1, InsertedChunk
  <2>5. CASE InsertEmbedding(r)
    <3>1. CASE NextChunk(r) \notin chunks
      BY <2>1, <2>5, <3>1, LeaveDocument DEF InsertEmbedding
    <3> QED
      BY <2>1, <2>5, <3>1, InsertedEmbedding
  <2> QED
    BY <2>1, <2>2, <2>3, <2>4, <2>5, Clearings, DeletedChunks, FinishedDocument
<1> QED
  BY <1>1, <1>2, <1>3, ElsewhereOK

-----------------------------------------------------------------------------
(* Runs that do not overlap.  A run that is about to insert a row has just
   seen that there is none. *)
LEMMA Seen ==
  ASSUME TypeOK, NEW r \in Runs, RunOK(r), Step(r)
  PROVE  /\ run'[r].pc = "insertRepo" => repos = {} /\ repos' = repos
         /\ run'[r].pc = "insertSource" =>
              /\ sources' = sources /\ run'[r].repo = run[r].repo /\ Path(r)' = Path(r)
              /\ \A s \in sources : ~ (s.repo = run[r].repo /\ s.path = Path(r))
         /\ run'[r].pc = "insertDocument" =>
              /\ checksum' = checksum /\ run'[r].repo = run[r].repo
              /\ run'[r].source = run[r].source /\ Path(r)' = Path(r)
              /\ Rows(r) = {}
<1>0. /\ run[r] \in Run /\ run \in [Runs -> Run]
      /\ {"repo", "fetch", "insertRepo", "doc", "insertSource", "insertDocument", "stale", "chunk",
          "embed", "done", "failed", "collided"} \subseteq PC
  BY DEF TypeOK, PC, Busy, Rebuilding, Clearing, Writing
<1> DEFINE Inserts == {"insertRepo", "insertSource", "insertDocument"}
<1>1. CASE Start(r) \/ Fetched(r) \/ StoreChecksum(r) \/ DeleteChunks(r)
  <2>1. run'[r].pc \notin Inserts
    BY <1>0, <1>1, GotoFields DEF Start, Fetched, StoreChecksum, DeleteChunks
  <2> QED
    BY <2>1
<1>2. CASE SelectRepository(r)
  <2>1. ASSUME NEW x, run' = [run EXCEPT ![r].pc = "fetch", ![r].repo = x]
        PROVE  run'[r].pc = "fetch"
    BY <1>0, <2>1 DEF Run
  <2>2. CASE Goto(r, "insertRepo")
    BY <1>0, <1>2, <2>1, <2>2, GotoFields DEF SelectRepository, tables
  <2> QED
    BY <1>2, <2>1, <2>2 DEF SelectRepository
<1>3. CASE InsertRepository(r) \/ Fetch(r) \/ InsertSource(r) \/ SelectStale(r) \/ DeleteEmbedding(r)
  <2>1. run'[r].pc \notin Inserts
    BY <1>0, <1>3 DEF InsertRepository, Fetch, InsertSource, SelectStale, DeleteEmbedding, Run
  <2> QED
    BY <2>1
<1>4. CASE SkipBlank(r) \/ FinishDocument(r)
  BY <1>4, NextFields DEF SkipBlank, FinishDocument, RunOK, Processing, Rebuilding, Writing
<1>5. CASE SelectSource(r)
  <2>1. ASSUME NEW x, run' = [run EXCEPT ![r].pc = "select", ![r].source = x]
        PROVE  run'[r].pc = "select"
    BY <1>0, <2>1 DEF Run
  <2>2. CASE Goto(r, "insertSource") /\ {s \in sources : s.repo = run[r].repo /\ s.path = Path(r)} = {}
    <3>1. \A s \in sources : ~ (s.repo = run[r].repo /\ s.path = Path(r))
      BY <2>2
    <3> QED
      BY <1>0, <1>5, <2>2, <3>1, GotoFields DEF SelectSource, tables
  <2> QED
    BY <1>5, <2>1, <2>2 DEF SelectSource
<1>6. CASE SelectDocument(r)
  <2>1. CASE run' = [run EXCEPT ![r] = NextDocument(@, Path(r))]
    BY <1>6, <2>1, NextFields DEF SelectDocument, RunOK, Processing
  <2>2. ASSUME NEW e \in Document, run' = [run EXCEPT ![r] = [@ EXCEPT !.pc = "store", !.document = e]]
        PROVE  run'[r].pc = "store"
    BY <1>0, <2>2 DEF Run
  <2>3. CASE Goto(r, "insertDocument") /\ Rows(r) = {}
    BY <1>0, <1>6, <2>3, GotoFields DEF SelectDocument, tables
  <2> QED
    BY <1>6, <2>1, <2>2, <2>3 DEF SelectDocument, Rows
<1>7. CASE InsertDocument(r)
  BY <1>7, InsertFacts
<1>8. CASE InsertChunk(r) \/ InsertEmbedding(r)
  <2>1. CASE Goto(r, "embed") \/ Stop(r, "collided")
    BY <1>0, <2>1, GotoFields, StopFields
  <2>2. CASE run' = [run EXCEPT ![r].pc = "chunk", ![r].next = @ + 1]
    <3>1. run'[r].pc = "chunk"
      BY <1>0, <2>2 DEF Run
    <3> QED
      BY <3>1
  <2> QED
    BY <1>8, <2>1, <2>2 DEF InsertChunk, InsertEmbedding
<1>9. CASE Finish(r) \/ Fail(r)
  BY <1>0, <1>9, StopFields DEF Finish, Fail
<1> QED
  BY <1>1, <1>2, <1>3, <1>4, <1>5, <1>6, <1>7, <1>8, <1>9 DEF Step, Resolve, Rebuild

(* The run that steps is the only one in progress. *)
LEMMA Sole ==
  ASSUME TypeOK, \A q \in Runs : RunOK(q), Alone, NEW r \in Runs, Step(r), ~ overlapped'
  PROVE  /\ ~ overlapped
         /\ \A q \in Runs \ {r} : run[q].pc \notin Busy /\ run'[q] = run[q]
<1>1. \A q \in Runs \ {r} : run'[q] = run[q]
  BY StepType
<1>2. CASE Start(r)
  BY <1>1, <1>2 DEF Start
<1>3. CASE ~ Start(r)
  <2>1. run[r].pc \in Busy
    BY <1>3 DEF Busy, Rebuilding, Clearing, Writing, Step, Resolve, SelectRepository,
       InsertRepository, Fetch, Fetched, SelectSource, InsertSource, SelectDocument, SkipBlank,
       Finish, Fail, Rebuild, InsertDocument, StoreChecksum, SelectStale, DeleteEmbedding,
       DeleteChunks, InsertChunk, InsertEmbedding, FinishDocument
  <2>2. overlapped' = overlapped
    BY <1>3 DEF Step, Resolve, SelectRepository,
       InsertRepository, Fetch, Fetched, SelectSource, InsertSource, SelectDocument, SkipBlank,
       Finish, Fail, Rebuild, InsertDocument, StoreChecksum, SelectStale, DeleteEmbedding,
       DeleteChunks, InsertChunk, InsertEmbedding, FinishDocument, history
  <2> QED
    BY <1>1, <2>1, <2>2 DEF Alone
<1> QED
  BY <1>2, <1>3

(* Whatever a step inserts was not there. *)
LEMMA Inserting ==
  ASSUME TypeOK, NEW r \in Runs, RunOK(r), Step(r)
  PROVE  /\ repos' = repos \/ (run[r].pc = "insertRepo" /\ repos' = repos \cup {r})
         /\ \/ sources' = sources
            \/ /\ run[r].pc = "insertSource"
               /\ sources' = sources \cup {SourceRow(Path(r), run[r].repo, r)}
         /\ \/ \A d \in Document : checksum'[d] # None => checksum[d] # None
            \/ InsertDocument(r)
         /\ \/ contested' \subseteq contested
            \/ run[r].pc = "store" /\ Rivals(r, run[r].document) # {}
<1>1. CASE Start(r) \/ SelectRepository(r) \/ Fetch(r) \/ Fetched(r) \/ SelectSource(r)
            \/ SelectDocument(r) \/ SkipBlank(r) \/ Finish(r) \/ Fail(r)
  BY <1>1 DEF Start, SelectRepository, Fetch, Fetched, SelectSource, SelectDocument, SkipBlank,
     Finish, Fail, tables, history
<1>2. CASE InsertRepository(r)
  BY <1>2 DEF InsertRepository, history
<1>3. CASE InsertSource(r)
  BY <1>3 DEF InsertSource, SourceRow, history
<1>4. CASE InsertDocument(r)
  BY <1>4 DEF InsertDocument, history
<1>5. CASE StoreChecksum(r)
  <2>1. \A d \in Document : checksum'[d] # None => checksum[d] # None
    BY <1>5 DEF StoreChecksum, RunOK, Holding, TypeOK
  <2>2. contested' \subseteq contested \/ Rivals(r, run[r].document) # {}
    BY <1>5 DEF StoreChecksum
  <2> QED
    BY <1>5, <2>1, <2>2 DEF StoreChecksum
<1>6. CASE SelectStale(r) \/ DeleteEmbedding(r) \/ InsertChunk(r) \/ InsertEmbedding(r)
            \/ FinishDocument(r)
  BY <1>6 DEF SelectStale, DeleteEmbedding, InsertChunk, InsertEmbedding, FinishDocument, tables,
     history
<1>7. CASE DeleteChunks(r)
  BY <1>7 DEF DeleteChunks
<1> QED
  BY <1>1, <1>2, <1>3, <1>4, <1>5, <1>6, <1>7 DEF Step, Resolve, Rebuild

LEMMA AloneStep ==
  ASSUME IngestionInv, NEW r \in Runs, Step(r)
  PROVE  Alone'
<1> SUFFICES ASSUME ~ overlapped' PROVE Alone'
  BY DEF Alone
<1>0. /\ TypeOK /\ TypeOK' /\ ~ overlapped
      /\ \A q \in Runs : RunOK(q)
      /\ \A d \in Document : RowOK(d)
      /\ \A q \in Runs \ {r} : run[q].pc \notin Busy /\ run'[q] = run[q]
  BY StepType, Sole DEF IngestionInv
<1>1. /\ contested = {}
      /\ \A x, y \in repos : x = y
      /\ run[r].pc = "insertRepo" => repos = {}
      /\ \A s, t \in sources : s.repo = t.repo /\ s.path = t.path => s = t
      /\ run[r].pc = "insertSource" =>
           \A s \in sources : ~ (s.repo = run[r].repo /\ s.path = Path(r))
      /\ \A d1, d2 \in Document :
           /\ checksum[d1] # None /\ checksum[d2] # None
           /\ d1.path = d2.path /\ d1.repo = d2.repo
           => d1 = d2
      /\ run[r].pc = "insertDocument" => Rows(r) = {}
  BY <1>0 DEF Alone, IngestionInv
<1>2. {"insertRepo", "insertSource", "insertDocument"} \cup Rebuilding \subseteq Busy
  BY DEF Busy
<1>3. contested' = {}
  BY <1>0, <1>1, <1>2, Inserting DEF Rivals, Rebuilds
<1>4. \A q, p \in Runs : run'[q].pc \in Busy /\ run'[p].pc \in Busy => q = p
  BY <1>0
<1>5. \A x, y \in repos' : x = y
  BY <1>0, <1>1, Inserting
<1>6. \A q \in Runs : run'[q].pc = "insertRepo" => repos' = {}
  BY <1>0, <1>2, Seen
<1>7. \A s, t \in sources' : s.repo = t.repo /\ s.path = t.path => s = t
  BY <1>0, <1>1, Inserting DEF SourceRow
<1>8. \A q \in Runs : run'[q].pc = "insertSource" =>
        \A s \in sources' : ~ (s.repo = run'[q].repo /\ s.path = Path(q)')
  BY <1>0, <1>2, Seen
<1>9. \A d1, d2 \in Document :
        /\ checksum'[d1] # None /\ checksum'[d2] # None
        /\ d1.path = d2.path /\ d1.repo = d2.repo
        => d1 = d2
  <2>1. CASE InsertDocument(r)
    <3>1. /\ NewRow(r) \in Document
          /\ \A d \in Document \ {NewRow(r)} : checksum'[d] = checksum[d]
      BY <1>0, <2>1, InsertFacts DEF TypeOK
    <3>2. ASSUME NEW d \in Document \ {NewRow(r)}, checksum[d] # None,
                 d.path = Path(r), d.repo = run[r].repo
          PROVE  FALSE
      <4>1. SourceRow(d.path, d.repo, d.source) \in sources
        BY <1>0, <3>2 DEF RowOK
      <4>2. SourceRow(Path(r), run[r].repo, run[r].source) \in sources
        BY <1>0, <2>1 DEF InsertDocument, RunOK
      <4>3. d.source = run[r].source
        BY <1>1, <3>2, <4>1, <4>2 DEF SourceRow
      <4>4. d \in Rows(r)
        BY <3>2, <4>3 DEF Rows
      <4> QED
        BY <1>1, <2>1, <4>4 DEF InsertDocument
    <3>3. NewRow(r).path = Path(r) /\ NewRow(r).repo = run[r].repo
      BY DEF NewRow
    <3> QED
      BY <1>1, <3>1, <3>2, <3>3
  <2> QED
    BY <1>0, <1>1, <2>1, Inserting
<1>10. \A q \in Runs : run'[q].pc = "insertDocument" => Rows(q)' = {}
  BY <1>0, <1>2, Seen DEF Rows
<1> QED
  BY <1>3, <1>4, <1>5, <1>6, <1>7, <1>8, <1>9, <1>10 DEF Alone

-----------------------------------------------------------------------------
LEMMA InvInit == Init => IngestionInv
<1> SUFFICES ASSUME Init PROVE IngestionInv
  OBVIOUS
<1>1. /\ TypeOK /\ chunks = {} /\ repos = {} /\ sources = {} /\ contested = {}
      /\ \A d \in Document : checksum[d] = None
      /\ \A r \in Runs : run[r].pc = "idle" /\ run[r].next = 1
  BY TypeInit DEF Init, Fresh
<1>2. \A r \in Runs : RunOK(r) /\ run[r].pc \notin Busy \cup Rebuilding
  BY <1>1 DEF RunOK, Busy, Processing, Holding, Rebuilding, Clearing, Writing
<1>3. \A d \in Document : RowOK(d) /\ DocumentOK(d)
  BY <1>1, <1>2 DEF RowOK, DocumentOK, Rebuilds
<1>4. Alone
  BY <1>1, <1>2 DEF Alone, Busy
<1> QED
  BY <1>1, <1>2, <1>3, <1>4 DEF IngestionInv

(* The invariant does not look at GitHub, nor at the counters. *)
LEMMA InvUnchanged ==
  ASSUME IngestionInv, UNCHANGED <<tables, run, history>>, TypeOK'
  PROVE  IngestionInv'
<1> USE DEF tables, history
<1>1. \A r \in Runs : RunOK(r)'
  BY DEF IngestionInv, RunOK, Pending, Path
<1>2. \A d \in Document : RowOK(d)'
  BY DEF IngestionInv, RowOK
<1>3. \A d \in Document : DocumentOK(d)'
  <2>1. \A r \in Runs : Path(r)' = Path(r) /\ Version(r)' = Version(r)
    BY DEF Version, Path, Pending
  <2>2. \A r \in Runs, d \in Document :
          (Rebuilds(r, d)' <=> Rebuilds(r, d)) /\ (WrittenBy(r, d)' <=> WrittenBy(r, d))
    BY <2>1 DEF Rebuilds, WrittenBy, Inserted, Made
  <2>3. \A d \in Document : Complete(d)' <=> Complete(d)
    BY DEF Complete, ChunksOf
  <2> QED
    BY <2>1, <2>2, <2>3 DEF IngestionInv, DocumentOK
<1>4. Alone'
  BY DEF IngestionInv, Alone, Path, Pending, Rows
<1> QED
  BY <1>1, <1>2, <1>3, <1>4 DEF IngestionInv

LEMMA InvStep == IngestionInv /\ [Next]_vars => IngestionInv'
<1> SUFFICES ASSUME IngestionInv, [Next]_vars PROVE IngestionInv'
  OBVIOUS
<1>0. /\ TypeOK /\ \A q \in Runs : RunOK(q)
      /\ \A d \in Document : RowOK(d) /\ DocumentOK(d)
  BY DEF IngestionInv
<1>1. ASSUME NEW r \in Runs, Step(r) PROVE IngestionInv'
  BY <1>0, <1>1, StepType, RunsOK, RowsOK, DocumentsOK, AloneStep DEF IngestionInv
<1>2. ASSUME NEW p \in Paths, Push(p) PROVE IngestionInv'
  <2>1. head' \in [Paths -> Optional(Versions)]
    BY <1>0, <1>2 DEF Push, TypeOK, Optional
  <2>2. edits' \in 0 .. MaxEdits
    BY <1>0, <1>2, Bounds DEF Push, TypeOK
  <2>3. TypeOK'
    BY <1>0, <1>2, <2>1, <2>2 DEF Push, TypeOK, tables, history
  <2> QED
    BY <1>2, <2>3, InvUnchanged DEF Push
<1>3. CASE UNCHANGED vars
  <2>1. TypeOK'
    BY <1>0, <1>3 DEF TypeOK, vars, tables, history, counters
  <2> QED
    BY <1>3, <2>1, InvUnchanged DEF vars
<1> QED
  BY <1>1, <1>2, <1>3 DEF Next, Step

(* Only an insert of the rebuild runs into a constraint. *)
LEMMA MovesNot ==
  ASSUME TypeOK, NEW r \in Runs, RunOK(r), Step(r), run'[r].pc = "collided",
         run[r].pc # "collided"
  PROVE  InsertChunk(r) \/ InsertEmbedding(r)
<1>0. /\ run[r] \in Run /\ run \in [Runs -> Run]
      /\ {"stale", "chunk"} \subseteq PC
  BY DEF TypeOK, PC, Busy, Rebuilding, Clearing, Writing
<1>1. CASE Start(r) \/ SkipBlank(r) \/ Resolve(r) \/ Finish(r) \/ Fail(r) \/ FinishDocument(r)
  BY <1>1, QuietStep
<1>2. CASE InsertDocument(r)
  BY <1>2, InsertFacts
<1>3. CASE StoreChecksum(r) \/ DeleteChunks(r)
  BY <1>0, <1>3, GotoFields DEF StoreChecksum, DeleteChunks
<1>4. CASE SelectStale(r) \/ DeleteEmbedding(r)
  <2>1. run'[r].pc = "clear"
    BY <1>0, <1>4 DEF SelectStale, DeleteEmbedding, Run
  <2> QED
    BY <2>1
<1> QED
  BY <1>1, <1>2, <1>3, <1>4 DEF Step, Rebuild

-----------------------------------------------------------------------------
(* What holds of the runs, the rows and the documents whatever the
   interleaving, wherever runs stop. *)
THEOREM IngestionInvariant == Spec => []IngestionInv
BY InvInit, InvStep, PTL DEF Spec

(* Every variable of the ingestion keeps its type: no row, chunk or local
   variable ever names something that is not there. *)
THEOREM IngestionTypes == Spec => []TypeOK
<1>1. IngestionInv => TypeOK
  BY DEF IngestionInv
<1> QED
  BY <1>1, IngestionInvariant, PTL

(* A document no run is at, cut off in, or rebuilt by two at once has exactly
   the chunks of its checksum's content, each with its embedding. *)
THEOREM ChecksumsAreTrusted == Spec => []ChecksumTrusted
<1>1. IngestionInv => ChecksumTrusted
  BY DEF IngestionInv, DocumentOK, ChecksumTrusted
<1> QED
  BY <1>1, IngestionInvariant, PTL

(* A search never finds chunks of two versions of a document, nor, unless
   runs have overlapped, of a file. *)
THEOREM OneVersionIsFound == Spec => []OneVersionFound
<1>1. ASSUME IngestionInv, NEW x \in repos, NEW c1 \in SearchRows(x), NEW c2 \in SearchRows(x),
             c1.document.path = c2.document.path,
             c1.document = c2.document \/ ~ overlapped, c1.document \notin contested
      PROVE  c1.version = c2.version
  <2>1. c1 \in chunks /\ c2 \in chunks /\ c1.document.repo = x /\ c2.document.repo = x
    BY <1>1 DEF SearchRows, IngestionInv, TypeOK
  <2>2. c1.document \in Document /\ c2.document \in Document
    BY <1>1, <2>1 DEF IngestionInv, TypeOK, Chunk
  <2>3. c1.document = c2.document
    <3>1. checksum[c1.document] # None /\ checksum[c2.document] # None
      BY <1>1, <2>1, <2>2 DEF IngestionInv, DocumentOK
    <3> QED
      BY <1>1, <2>1, <2>2, <3>1 DEF IngestionInv, Alone
  <2> QED
    BY <1>1, <2>1, <2>2, <2>3 DEF IngestionInv, DocumentOK
<1>2. IngestionInv => OneVersionFound
  BY <1>1 DEF OneVersionFound
<1> QED
  BY <1>2, IngestionInvariant, PTL

(* A run that fails on a constraint was rebuilding its document together
   with another run. *)
THEOREM CollisionsAreExplained == Spec => CollisionsExplained
<1>1. ASSUME IngestionInv, NEW r \in Runs, Step(r), NEW q \in Runs,
             run[q].pc # "collided", run'[q].pc = "collided"
      PROVE  run[q].document \in contested
  <2>0. /\ TypeOK /\ RunOK(r) /\ run[r] \in Run /\ run \in [Runs -> Run]
        /\ {"repo", "fetch", "insertRepo", "doc", "insertSource", "insertDocument", "stale",
            "chunk", "embed", "done", "failed", "collided"} \subseteq PC
    BY <1>1 DEF IngestionInv, TypeOK, PC, Busy, Rebuilding, Clearing, Writing
  <2>1. q = r
    BY <1>1, <2>0, StepType
  <2>2. InsertChunk(r) \/ InsertEmbedding(r)
    BY <1>1, <2>0, <2>1, MovesNot
  <2>3. run[r].pc \in Rebuilding \cap Writing
    BY <2>2 DEF InsertChunk, InsertEmbedding, Rebuilding, Writing
  <2>4. run[r].document \in Document /\ Rebuilds(r, run[r].document)
    BY <2>0, <2>3 DEF RunOK, Holding, Rebuilds
  <2> SUFFICES ASSUME run[r].document \notin contested PROVE FALSE
    BY <2>1
  <2>5. WrittenBy(r, run[r].document)
    BY <1>1, <2>3, <2>4 DEF IngestionInv, DocumentOK
  <2>6. run[r].next \in Nat \ {0}
    BY <2>0 DEF Run
  <2>7. CASE InsertChunk(r)
    <3>1. ~ Goto(r, "embed")
      BY <1>1, <2>0, <2>1, GotoFields
    <3>2. PICK c \in ChunksOf(run[r].document) : c.index = run[r].next
      BY <2>7, <3>1 DEF InsertChunk
    <3>3. c.index \in 1 .. run[r].next - 1
      BY <2>5, <2>7, <3>2 DEF WrittenBy, Inserted, InsertChunk, ChunksOf
    <3> QED
      BY <2>6, <3>2, <3>3
  <2>8. CASE InsertEmbedding(r)
    <3>1. NextChunk(r) = Made(r, run[r].document, run[r].next)
      BY DEF NextChunk, Made
    <3>2. run[r].next \in 1 .. Inserted(r)
      BY <2>6, <2>8 DEF Inserted, InsertEmbedding
    <3>3. NextChunk(r) \in chunks
      BY <2>5, <3>1, <3>2 DEF WrittenBy
    <3>4. run' = [run EXCEPT ![r].pc = "chunk", ![r].next = @ + 1]
      BY <2>8, <3>3 DEF InsertEmbedding
    <3>5. run'[r].pc = "chunk"
      BY <2>0, <3>4 DEF Run
    <3> QED
      BY <1>1, <2>1, <3>5
  <2> QED
    BY <2>2, <2>7, <2>8
<1>2. ASSUME IngestionInv, [Next]_vars, NEW q \in Runs,
             run[q].pc # "collided", run'[q].pc = "collided"
      PROVE  run[q].document \in contested
  BY <1>1, <1>2 DEF Next, Step, Push, vars
<1>3. IngestionInv /\ [Next]_vars =>
        [\A r \in Runs : run[r].pc # "collided" /\ run'[r].pc = "collided"
           => run[r].document \in contested]_vars
  BY <1>2
<1> QED
  BY <1>3, IngestionInvariant, PTL DEF Spec, CollisionsExplained
(* How a run gets through a file: it is blank, or skipped, or finished. *)
LEMMA Passing ==
  ASSUME TypeOK, NEW r \in Runs, RunOK(r), Step(r), NEW p \in Paths, Passes(r, p)
  PROVE  /\ p = Path(r)
         /\ \/ FinishDocument(r)
            \/ run[r].pc = "select" /\ \E d \in Rows(r) : checksum[d] = Version(r)
<1>0. /\ run[r] \in Run /\ run \in [Runs -> Run]
      /\ {"repo", "fetch", "insertRepo", "doc", "insertSource", "insertDocument", "stale",
          "chunk", "embed", "done", "failed", "collided"} \subseteq PC
      /\ run'[r].pc = "doc" /\ run[r].docs[p] # None /\ run'[r].docs[p] = None
      /\ ~ Blank(run[r].docs[p])
  BY DEF TypeOK, PC, Busy, Rebuilding, Clearing, Writing, Passes
<1>1. ASSUME run'[r].docs = run[r].docs PROVE FALSE
  BY <1>0, <1>1
<1>2. ASSUME run'[r].pc # "doc" PROVE FALSE
  BY <1>0, <1>2
<1>3. CASE Start(r) \/ Fetched(r) \/ StoreChecksum(r) \/ DeleteChunks(r)
  BY <1>0, <1>1, <1>3, GotoFields DEF Start, Fetched, StoreChecksum, DeleteChunks
<1>4. CASE SelectRepository(r)
  <2>1. ASSUME NEW x, run' = [run EXCEPT ![r].pc = "fetch", ![r].repo = x] PROVE FALSE
    BY <1>0, <2>1 DEF Run
  <2> QED
    BY <1>0, <1>2, <1>4, <2>1, GotoFields DEF SelectRepository
<1>5. CASE \/ InsertRepository(r) \/ Fetch(r) \/ InsertSource(r) \/ SelectStale(r)
           \/ DeleteEmbedding(r)
  <2>1. run'[r].pc # "doc"
    BY <1>0, <1>5 DEF InsertRepository, Fetch, InsertSource, SelectStale, DeleteEmbedding, Run
  <2> QED
    BY <1>2, <2>1
<1>6. CASE SelectSource(r)
  <2>1. ASSUME NEW x, run' = [run EXCEPT ![r].pc = "select", ![r].source = x] PROVE FALSE
    BY <1>0, <2>1 DEF Run
  <2>2. CASE Goto(r, "insertSource")
    BY <1>0, <1>2, <2>2, GotoFields
  <2> QED
    BY <1>6, <2>1, <2>2 DEF SelectSource
<1>7. ASSUME Pending(r) # {}, run' = [run EXCEPT ![r] = NextDocument(@, Path(r))]
      PROVE  p = Path(r)
  <2>1. run'[r].docs = [run[r].docs EXCEPT ![Path(r)] = None]
    BY <1>7, NextFields
  <2> QED
    BY <1>0, <2>1 DEF Run
<1>8. CASE SkipBlank(r)
  BY <1>0, <1>7, <1>8 DEF SkipBlank, Version
<1>9. CASE FinishDocument(r)
  BY <1>7, <1>9 DEF FinishDocument, RunOK, Processing, Rebuilding, Writing
<1>10. CASE SelectDocument(r)
  <2>1. run[r].pc = "select" /\ Pending(r) # {}
    BY <1>10 DEF SelectDocument, RunOK, Processing
  <2>2. ~ Goto(r, "insertDocument")
    BY <1>0, GotoFields
  <2>3. ASSUME NEW d \in Rows(r), checksum[d] # Version(r),
               run' = [run EXCEPT ![r] = [@ EXCEPT !.pc = "store", !.document = d]]
        PROVE  FALSE
    <3>1. run'[r].pc = "store"
      BY <1>0, <2>3 DEF Run
    <3> QED
      BY <1>2, <3>1
  <2>4. ASSUME NEW d \in Rows(r), checksum[d] = Version(r),
               run' = [run EXCEPT ![r] = NextDocument(@, Path(r))]
        PROVE  p = Path(r) /\ \E e \in Rows(r) : checksum[e] = Version(r)
    BY <1>7, <2>1, <2>4
  <2>5. PICK d \in Rows(r) :
          run' = [run EXCEPT ![r] = IF checksum[d] = Version(r)
                                      THEN NextDocument(@, Path(r))
                                      ELSE [@ EXCEPT !.pc = "store", !.document = d]]
    BY <1>10, <2>2 DEF SelectDocument
  <2>6. CASE checksum[d] = Version(r)
    BY <2>1, <2>4, <2>5, <2>6
  <2>7. CASE checksum[d] # Version(r)
    BY <2>3, <2>5, <2>7
  <2> QED
    BY <2>6, <2>7
<1>11. CASE InsertDocument(r)
  BY <1>2, <1>11, InsertFacts
<1>12. CASE InsertChunk(r) \/ InsertEmbedding(r)
  <2>1. CASE Goto(r, "embed") \/ Stop(r, "collided")
    BY <1>0, <1>2, <2>1, GotoFields, StopFields
  <2>2. CASE run' = [run EXCEPT ![r].pc = "chunk", ![r].next = @ + 1]
    <3>1. run'[r].pc = "chunk"
      BY <1>0, <2>2 DEF Run
    <3> QED
      BY <1>2, <3>1
  <2> QED
    BY <1>12, <2>1, <2>2 DEF InsertChunk, InsertEmbedding
<1>13. CASE Finish(r) \/ Fail(r)
  BY <1>0, <1>2, <1>13, StopFields DEF Finish, Fail
<1> QED
  BY <1>3, <1>4, <1>5, <1>6, <1>8, <1>9, <1>10, <1>11, <1>12, <1>13 DEF Step, Resolve, Rebuild

(* What a run is through with, and did not overlap with another, is indexed. *)
THEOREM PassedIsIndexed == Spec => PassedMeansIndexed
<1>1. ASSUME IngestionInv, NEW r \in Runs, Step(r), NEW q \in Runs, NEW p \in Paths,
             Passes(q, p), ~ overlapped
      PROVE  \E d \in Document : /\ d.path = p /\ checksum[d] = run[q].docs[p]
                                 /\ Complete(d) \/ d \in interrupted
  <2>0. TypeOK /\ RunOK(r) /\ contested = {}
    BY <1>1 DEF IngestionInv, Alone
  <2>1. q = r
    BY <1>1, <2>0, StepType DEF Passes
  <2>2. p = Path(r) /\ run[q].docs[p] = Version(r)
    BY <1>1, <2>0, <2>1, Passing DEF Version
  <2>3. CASE FinishDocument(r)
    <3>1. run[r].document \in Document /\ run[r].document.path = Path(r)
      BY <2>0, <2>3 DEF FinishDocument, RunOK, Holding, Rebuilding, Writing
    <3>2. Complete(run[r].document) /\ checksum[run[r].document] = Version(r)
      BY <1>1, <2>0, <2>3, <3>1, FinishedDocument DEF IngestionInv
    <3> QED
      BY <2>2, <3>1, <3>2
  <2>4. ASSUME run[r].pc = "select", NEW d \in Rows(r), checksum[d] = Version(r)
        PROVE  /\ d \in Document /\ d.path = Path(r)
               /\ Complete(d) \/ d \in interrupted
    <3>1. d \in Document /\ d.path = Path(r) /\ checksum[d] # None
      BY <2>4 DEF Rows
    <3>2. \A o \in Runs : ~ Rebuilds(o, d)
      <4>1. run[r].pc \in Busy /\ run[r].pc \notin Rebuilding /\ Rebuilding \subseteq Busy
        BY <2>4 DEF Busy, Rebuilding, Clearing, Writing
      <4> QED
        BY <1>1, <4>1 DEF Rebuilds, IngestionInv, Alone
    <3> QED
      BY <1>1, <2>0, <3>1, <3>2 DEF IngestionInv, DocumentOK
  <2> QED
    BY <1>1, <2>0, <2>1, <2>2, <2>3, <2>4, Passing
<1>2. ASSUME IngestionInv, [Next]_vars, NEW q \in Runs, NEW p \in Paths, Passes(q, p), ~ overlapped
      PROVE  \E d \in Document : /\ d.path = p /\ checksum[d] = run[q].docs[p]
                                 /\ Complete(d) \/ d \in interrupted
  <2>1. run' # run
    BY <1>2 DEF Passes
  <2> QED
    BY <1>1, <1>2, <2>1 DEF Next, Step, Push, vars
<1>3. IngestionInv /\ [Next]_vars =>
        [\A r \in Runs, p \in Paths :
           Passes(r, p) /\ ~ overlapped
           => \E d \in Document : /\ d.path = p /\ checksum[d] = run[r].docs[p]
                                  /\ (Complete(d) \/ d \in interrupted)]_vars
  BY <1>2
<1> QED
  BY <1>3, IngestionInvariant, PTL DEF Spec, PassedMeansIndexed

================================================================================
