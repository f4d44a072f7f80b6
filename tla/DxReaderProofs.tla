----------------------------- MODULE DxReaderProofs ----------------------------
(***************************************************************************)
(* For any chunk length: the reader keeps to one chunk, and its offsets to *)
(* that chunk.                                                             *)
(***************************************************************************)
EXTENDS DxReader, SequenceTheorems, TLAPS

\* Marks are taken in the only chunk there is.
MarksTheChunk == mark.ridx = 0

\* Parsing goes on only where something was appended.
ParsesAChunk == pc \in {"parsing", "cut", "more"} => Len(chainbuf) = 1

IInv == TypeOK /\ OneChunk /\ MarksTheChunk /\ ParsesAChunk

-------------------------------------------------------------------------------
\* A slice holds what the sequence holds.
LEMMA SliceType ==
  ASSUME NEW S, NEW s \in Seq(S), NEW i \in Nat, NEW j \in Int, j <= Len(s)
  PROVE  Slice(s, i, j) \in Seq(S)
BY DEF Slice

\* A slice buf[i:j] has j - i bytes.
LEMMA SliceLen ==
  ASSUME NEW S, NEW s \in Seq(S), NEW i \in Nat, NEW j \in Nat, i <= j, j <= Len(s)
  PROVE  Len(Slice(s, i, j)) = j - i
BY DEF Slice

\* Appending keeps the kind of the bytes.
LEMMA ConcatType ==
  ASSUME NEW S, NEW s \in Seq(S), NEW t \in Seq(S)
  PROVE  s \o t \in Seq(S)
OBVIOUS

\* A sequence of one element is a function on 1..1.
LEMMA OneElement ==
  ASSUME NEW S, NEW q \in Seq(S), Len(q) = 1
  PROVE  q \in [1..1 -> S] /\ q[1] \in S
<1>1. q \in [1..Len(q) -> S]
  OBVIOUS
<1> QED
  BY <1>1

\* Copying bytes into a chunk gives a chunk.
LEMMA CopiedType ==
  ASSUME NEW c \in Chunk, NEW i \in Nat, NEW s \in Seq(Byte)
  PROVE  Copied(c, i, s) \in Chunk
<1>1. c \in Seq(Content) /\ Len(c) = bufsize
  BY DEF Chunk
<1>2. Copied(c, i, s) \in [1..bufsize -> Content]
  <2> SUFFICES ASSUME NEW x \in 1..bufsize
               PROVE  (IF x > i /\ x <= i + Len(s) THEN s[x - i] ELSE c[x]) \in Content
    BY <1>1, BufsizeAssumption DEF Copied
  <2>1. c[x] \in Content
    BY <1>1
  <2>2. x > i /\ x <= i + Len(s) => s[x - i] \in Byte
    BY BufsizeAssumption
  <2> QED
    BY <2>1, <2>2 DEF Content
<1>3. Copied(c, i, s) \in Seq(Content) /\ Len(Copied(c, i, s)) = bufsize
  BY <1>2, BufsizeAssumption
<1> QED
  BY <1>3 DEF Chunk

\* What ReadAppend makes is a chunk.
LEMMA NewChunkType == NewChunk \in Chunk
<1>1. NewChunk \in [1..bufsize -> Content]
  BY DEF NewChunk, Content
<1>2. NewChunk \in Seq(Content) /\ Len(NewChunk) = bufsize
  BY <1>1, BufsizeAssumption
<1> QED
  BY <1>2 DEF Chunk

\* ReadAppend fills the chunk, or makes the first one: the comparison that should
\* notice a full chunk is between its length and the index 0.
LEMMA ReadAppendStep ==
  ASSUME IInv, NEW s \in Seq(Byte), ReadAppend(s)
  PROVE  /\ chainbuf' \in Seq(Chunk) /\ Len(chainbuf') = 1
         /\ widx' = 0 /\ bytepool' = {} /\ w' \in 0..bufsize
         /\ stream' \in Seq(Byte)
<1>1. stream' \in Seq(Byte)
  BY ConcatType DEF IInv, TypeOK, ReadAppend, AppendTo
<1>2. CASE chainbuf = <<>>
  <2>1. widx = -1 /\ bytepool = {}
    BY <1>2 DEF IInv, OneChunk
  <2>2. chainbuf' = Append(chainbuf, Copied(NewChunk, 0, s))
    BY <1>2, <2>1 DEF ReadAppend, AppendTo
  <2>3. Copied(NewChunk, 0, s) \in Chunk
    BY CopiedType, NewChunkType
  <2>4. chainbuf' \in Seq(Chunk) /\ Len(chainbuf') = 1
    BY <2>2, <2>3, <1>2 DEF IInv, TypeOK
  <2>5. widx' = 0 /\ bytepool' = {} /\ w' \in 0..bufsize
    BY <1>2, <2>1, BufsizeAssumption DEF ReadAppend, AppendTo
  <2> QED
    BY <1>1, <2>4, <2>5
<1>3. CASE chainbuf # <<>>
  <2>1. Len(chainbuf) = 1 /\ widx = 0
    BY <1>3 DEF IInv, OneChunk, TypeOK
  <2>2. bufsize # widx
    BY <2>1, BufsizeAssumption
  <2>3. /\ chainbuf' = [chainbuf EXCEPT ![1] = Copied(chainbuf[1], w, s)]
        /\ widx' = 0 /\ bytepool' = bytepool
        /\ w' = w + Len(s) /\ Len(s) <= bufsize - w
    BY <1>3, <2>1, <2>2 DEF ReadAppend, AppendTo
  <2>4. chainbuf \in [1..1 -> Chunk] /\ w \in Nat
    BY <2>1, OneElement DEF IInv, TypeOK
  <2>5. Copied(chainbuf[1], w, s) \in Chunk
    BY <2>4, CopiedType
  <2>7. chainbuf' \in Seq(Chunk) /\ Len(chainbuf') = 1
    <3>1. chainbuf \in Seq(Chunk) /\ 1 \in 1..Len(chainbuf)
      BY <2>1 DEF IInv, TypeOK
    <3>2. /\ [chainbuf EXCEPT ![1] = Copied(chainbuf[1], w, s)] \in Seq(Chunk)
          /\ Len([chainbuf EXCEPT ![1] = Copied(chainbuf[1], w, s)]) = Len(chainbuf)
      BY <2>5, <3>1, ExceptSeq
    <3> QED
      BY <2>1, <2>3, <3>2
  <2>8. bytepool' = {} /\ w' \in 0..bufsize
    BY <2>3, BufsizeAssumption DEF IInv, OneChunk, TypeOK
  <2> QED
    BY <1>1, <2>3, <2>7, <2>8
<1> QED
  BY <1>2, <1>3

\* ClearRead keeps the one chunk and puts the offsets inside it.
LEMMA ClearReadStep ==
  ASSUME IInv, Len(chainbuf) = 1, NEW off \in 0..bufsize, ClearRead(0, off)
  PROVE  /\ chainbuf' \in Seq(Chunk) /\ Len(chainbuf') = 1
         /\ widx' = 0 /\ ridx' = 0 /\ bytepool' = {}
         /\ w' \in 0..bufsize /\ r' \in 0..bufsize
<1>1. widx = 0 /\ bytepool = {} /\ chainbuf \in Seq(Chunk) /\ w \in 0..bufsize
  BY DEF IInv, OneChunk, TypeOK
<1>2. chainbuf' = [i \in 1..1 |-> IF i + 0 <= 1 THEN chainbuf[i + 0] ELSE chainbuf[i]]
  BY <1>1 DEF ClearRead, ClearTo
<1>3. chainbuf \in [1..1 -> Chunk]
  BY <1>1, OneElement
<1>4. chainbuf' = chainbuf
  BY <1>2, <1>3
<1>5. chainbuf' \in Seq(Chunk) /\ Len(chainbuf') = 1
  BY <1>1, <1>4
<1>6. widx' = 0 /\ ridx' = 0 /\ bytepool' = {}
  BY <1>1 DEF ClearRead, ClearTo
<1>7. w' \in 0..bufsize /\ r' \in 0..bufsize
  BY <1>1, BufsizeAssumption DEF ClearRead, ClearTo
<1> QED
  BY <1>5, <1>6, <1>7

-------------------------------------------------------------------------------
\* A new reader has no chunk.
LEMMA InitInv == Init => IInv
<1> SUFFICES ASSUME Init PROVE IInv
  OBVIOUS
<1>1. /\ <<>> \in Seq(Chunk) /\ <<>> \in Seq(Content) /\ <<>> \in Seq(Byte)
      /\ <<>> \in Seq(Chunk)
  OBVIOUS
<1>2. Len(chainbuf) = 0
  BY DEF Init
<1>3. TypeOK
  <2>1. 0 \in 0..bufsize /\ widx \in Nat \cup {-1}
    BY BufsizeAssumption DEF Init
  <2> QED
    BY <1>1, <2>1 DEF Init, TypeOK
<1>4. OneChunk /\ MarksTheChunk /\ ParsesAChunk
  BY <1>2 DEF Init, OneChunk, MarksTheChunk, ParsesAChunk
<1> QED
  BY <1>3, <1>4 DEF IInv

\* What a parser is given are bytes of the chunk.
LEMMA GivenType ==
  ASSUME IInv, Len(chainbuf) = 1, NEW i \in Nat, NEW j \in 0..bufsize
  PROVE  /\ Slice(Current, i, j) \in Seq(Content)
         /\ Slice(chainbuf[widx + 1], i, j) \in Seq(Content)
<1>1. Current = chainbuf[1] /\ chainbuf[widx + 1] = chainbuf[1]
  BY DEF IInv, OneChunk, Current
<1>2. chainbuf[1] \in Chunk
  BY OneElement DEF IInv, TypeOK
<1>3. chainbuf[1] \in Seq(Content) /\ Len(chainbuf[1]) = bufsize
  BY <1>2 DEF Chunk
<1> QED
  BY <1>1, <1>3, SliceType, BufsizeAssumption

\* No call of the loop or of the parser leaves the chunk.
LEMMA NextInv == IInv /\ [Next]_vars => IInv'
<1> SUFFICES ASSUME IInv, [Next]_vars PROVE IInv'
  OBVIOUS
<1> USE DEF IInv, MarksTheChunk, ParsesAChunk
<1>0. <<>> \in Seq(Byte) /\ <<>> \in Seq(Content)
  OBVIOUS
<1>1. ASSUME ReadSome PROVE IInv'
  <2>1. PICK n \in 1..bufsize : \E s \in [1..n -> Byte] : ReadAppend(s)
    BY <1>1 DEF ReadSome
  <2>2. PICK s \in [1..n -> Byte] : ReadAppend(s)
    BY <2>1
  <2>3. s \in Seq(Byte)
    BY <2>1, <2>2, BufsizeAssumption
  <2>4. /\ chainbuf' \in Seq(Chunk) /\ Len(chainbuf') = 1
        /\ widx' = 0 /\ bytepool' = {} /\ w' \in 0..bufsize
        /\ stream' \in Seq(Byte)
    BY <2>2, <2>3, ReadAppendStep
  <2> QED
    BY <1>1, <2>4 DEF ReadSome, TypeOK, OneChunk
<1>2. ASSUME ReadNone PROVE IInv'
  <2>1. /\ chainbuf' \in Seq(Chunk) /\ Len(chainbuf') = 1
        /\ widx' = 0 /\ bytepool' = {} /\ w' \in 0..bufsize
        /\ stream' \in Seq(Byte)
    BY <1>0, <1>2, ReadAppendStep DEF ReadNone
  <2> QED
    BY <1>2, <2>1 DEF ReadNone, TypeOK, OneChunk
<1>3. ASSUME MarkIndex PROVE IInv'
  <2>1. ~IsEmpty => Len(chainbuf) = 1
    BY DEF IsEmpty, OneChunk, TypeOK
  <2> QED
    BY <1>3, <2>1 DEF MarkIndex, buffer, TypeOK, OneChunk
<1>4. ASSUME Accept PROVE IInv'
  BY <1>4, ClearReadStep DEF Accept, TypeOK, OneChunk
<1>5. ASSUME RestoreMark PROVE IInv'
  BY <1>5 DEF RestoreMark, RestoreTo, TypeOK, OneChunk
<1>6. ASSUME ParserFails PROVE IInv'
  BY <1>6 DEF ParserFails, buffer, TypeOK, OneChunk
<1>7. ASSUME Read PROVE IInv'
  <2>1. PICK n \in 1..Buffered : /\ n <= bufsize - r
                                /\ got' = got \o Slice(Current, r, r + n)
                                /\ r' = r + n
    BY <1>7 DEF Read
  <2>2. n \in Int /\ n > 0
    BY <2>1 DEF Buffered, TypeOK, OneChunk
  <2>3. r' \in 0..bufsize
    BY <2>1, <2>2, BufsizeAssumption DEF TypeOK
  <2>4. got' \in Seq(Content)
    BY <1>7, <2>1, <2>3, GivenType, ConcatType DEF Read, TypeOK
  <2> QED
    BY <1>7, <2>3, <2>4 DEF Read, TypeOK, OneChunk
<1>8. ASSUME ReadBytes PROVE IInv'
  BY <1>8 DEF ReadBytes, NoDelim, buffer, TypeOK, OneChunk
<1>9. ASSUME CutHere PROVE IInv'
  <2>1. PICK i \in 0..bufsize - 1 :
          /\ FirstDelim(Slice(Current, r, bufsize), i)
          /\ Return(Slice(Current, r, r + i + 1))
          /\ r' = r + i + 1
    BY <1>9 DEF CutHere
  <2>2. Len(chainbuf) = 1 /\ r \in 0..bufsize
    BY <1>9 DEF CutHere, TypeOK
  <2>3. Current \in Seq(Content) /\ Len(Current) = bufsize
    <3>1. chainbuf[1] \in Chunk /\ ridx = 0
      BY <2>2, OneElement DEF TypeOK, OneChunk
    <3> QED
      BY <3>1 DEF Current, Chunk
  <2>4. r' \in 0..bufsize
    BY <2>1, <2>2, <2>3, SliceLen, BufsizeAssumption DEF FirstDelim
  <2>5. Slice(Current, r, r + i + 1) \in Seq(Content)
    BY <2>1, <2>2, <2>4, GivenType
  <2>6. got' \in Seq(Content) /\ line' = <<>> /\ pc' = "parsing"
    BY <2>1, <2>5, ConcatType DEF Return, TypeOK
  <2> QED
    BY <1>9, <2>4, <2>6 DEF CutHere, TypeOK, OneChunk
<1>10. ASSUME CutLast PROVE IInv'
  <2>1. Len(chainbuf) = 1 /\ r \in 0..bufsize
    BY <1>10 DEF CutLast, TypeOK
  <2>2. PICK i \in 0..bufsize - 1 :
          IF r + i + 1 <= bufsize
          THEN /\ Return(Slice(Current, r, bufsize)
                         \o Slice(chainbuf[widx + 1], 0, r + i + 1))
               /\ r' = r + i + 1
          ELSE pc' = "panic" /\ UNCHANGED <<line, got, r>>
    BY <1>10 DEF CutLast
  <2>3. r' \in 0..bufsize
    BY <2>1, <2>2, BufsizeAssumption
  <2>4. ridx' = 0 /\ UNCHANGED <<chainbuf, bytepool, widx, w, mark, stream, kept, blind>>
    BY <1>10, <2>1 DEF CutLast, OneChunk
  <2>5. CASE r + i + 1 <= bufsize
    <3>1. r \in Nat /\ 0 \in Nat /\ bufsize \in 0..bufsize /\ r + i + 1 \in 0..bufsize
      BY <2>1, <2>5, BufsizeAssumption
    <3>2. /\ Slice(Current, r, bufsize) \in Seq(Content)
          /\ Slice(chainbuf[widx + 1], 0, r + i + 1) \in Seq(Content)
      BY <2>1, <3>1, GivenType
    <3>3. /\ got' = got \o line \o (Slice(Current, r, bufsize)
                                   \o Slice(chainbuf[widx + 1], 0, r + i + 1))
          /\ line' = <<>> /\ pc' = "parsing"
      BY <2>2, <2>5 DEF Return
    <3>4. got' \in Seq(Content)
      BY <3>2, <3>3, ConcatType DEF TypeOK
    <3>5. TypeOK'
      BY <2>1, <2>3, <2>4, <3>3, <3>4 DEF TypeOK
    <3> QED
      BY <2>1, <2>4, <3>3, <3>5 DEF OneChunk
  <2>6. CASE ~(r + i + 1 <= bufsize)
    BY <2>1, <2>2, <2>3, <2>4, <2>6 DEF TypeOK, OneChunk
  <2> QED
    BY <2>5, <2>6
<1>11. ASSUME CutNothing PROVE IInv'
  <2>1. Len(chainbuf) = 1 /\ widx = 0 /\ w \in 0..bufsize /\ r \in 0..bufsize
    BY <1>11 DEF CutNothing, TypeOK, OneChunk
  <2>2. /\ Slice(Current, r, bufsize) \in Seq(Content)
        /\ Slice(chainbuf[widx + 1], 0, w) \in Seq(Content)
    <3>1. r \in Nat /\ 0 \in Nat /\ bufsize \in 0..bufsize
      BY <2>1, BufsizeAssumption
    <3> QED
      BY <2>1, <3>1, GivenType
  <2>3. line' \in Seq(Content)
    BY <1>11, <2>2, ConcatType DEF CutNothing, TypeOK
  <2>4. ClearRead(0, w)
    BY <1>11, <2>1 DEF CutNothing
  <2> QED
    BY <1>11, <2>1, <2>3, <2>4, ClearReadStep DEF CutNothing, TypeOK, OneChunk
<1>12. ASSUME ReadMore PROVE IInv'
  <2>1. CASE pc' = "cut" /\ UNCHANGED line
    <3>1. PICK n \in 1..bufsize : \E s \in [1..n -> Byte] : ReadAppend(s)
      BY <1>12, <2>1 DEF ReadMore
    <3>2. PICK s \in [1..n -> Byte] : ReadAppend(s)
      BY <3>1
    <3>3. s \in Seq(Byte)
      BY <3>1, <3>2, BufsizeAssumption
    <3>4. /\ chainbuf' \in Seq(Chunk) /\ Len(chainbuf') = 1
          /\ widx' = 0 /\ bytepool' = {} /\ w' \in 0..bufsize
          /\ stream' \in Seq(Byte)
      BY <3>2, <3>3, ReadAppendStep
    <3> QED
      BY <1>12, <2>1, <3>4 DEF ReadMore, TypeOK, OneChunk
  <2>2. CASE ReadAppend(<<>>) /\ pc' = "parsing" /\ line' = <<>>
    <3>1. /\ chainbuf' \in Seq(Chunk) /\ Len(chainbuf') = 1
          /\ widx' = 0 /\ bytepool' = {} /\ w' \in 0..bufsize
          /\ stream' \in Seq(Byte)
      BY <1>0, <2>2, ReadAppendStep
    <3> QED
      BY <1>0, <1>12, <2>2, <3>1 DEF ReadMore, TypeOK, OneChunk
  <2> QED
    BY <1>12, <2>1, <2>2 DEF ReadMore
<1>13. ASSUME UNCHANGED vars PROVE IInv'
  BY <1>13 DEF vars, TypeOK, OneChunk
<1> QED
  BY <1>1, <1>2, <1>3, <1>4, <1>5, <1>6, <1>7, <1>8, <1>9, <1>10, <1>11, <1>12,
     <1>13 DEF Next

\* The first inductive invariant: one chunk, and offsets inside it.
LEMMA Inductive == Spec => []IInv
BY InitInv, NextInv, PTL DEF Spec

\* Every offset stays in its chunk, for any chunk length and whatever the parser
\* calls: the slices ReadAppend and Read make do not panic.
THEOREM TypeCorrect == Spec => []TypeOK
<1>1. IInv => TypeOK
  BY DEF IInv
<1> QED
  BY Inductive, <1>1, PTL

\* For any chunk length the chain never has a second chunk: a full chunk ends the
\* reading, and the loops over further chunks are dead code.
THEOREM ChainIsOneChunk == Spec => []OneChunk
<1>1. IInv => OneChunk
  BY DEF IInv
<1> QED
  BY Inductive, <1>1, PTL

-------------------------------------------------------------------------------
(***************************************************************************)
(* The order of the bytes.                                                 *)
(***************************************************************************)

\* The bytes of the chunk from offset o to the write offset.
Held(o) == IF chainbuf = <<>> THEN <<>> ELSE Slice(chainbuf[1], o, w)

\* A parser that never called ReadBytes with no Delim in the data: its offsets
\* are where they should be, and what it has taken and what is held, from the
\* read offset or from the mark, is the stream.
Offsets ==
  /\ r <= w
  /\ chainbuf = <<>> => r = 0 /\ w = 0
  /\ pc \in {"append", "parse"} => r < w \/ w = 0
  /\ pc \in {"parsing", "cut"} => mark.r <= r /\ mark.r < w
  /\ pc \notin {"more", "panic"} /\ line = <<>>
Delimited == pc = "cut" => ~NoDelim(Unread)
Taken == got \o Held(r) = stream
Restorable == pc \in {"parsing", "cut"} => kept \o Held(mark.r) = stream

Ordered == ~blind => Offsets /\ Delimited /\ Taken /\ Restorable

-------------------------------------------------------------------------------
\* A slice, its length and its elements.
LEMMA SliceProperties ==
  ASSUME NEW S, NEW s \in Seq(S), NEW i \in Nat, NEW j \in Nat, i <= j, j <= Len(s)
  PROVE  /\ Slice(s, i, j) \in Seq(S)
         /\ Len(Slice(s, i, j)) = j - i
         /\ \A x \in 1..j - i : Slice(s, i, j)[x] = s[x + i]
<1>1. \A x \in i + 1..j : s[x] \in S
  BY LenProperties
<1>2. /\ SubSeq(s, i + 1, j) \in Seq(S)
      /\ Len(SubSeq(s, i + 1, j)) = IF i + 1 <= j THEN j - (i + 1) + 1 ELSE 0
      /\ \A x \in 1..j - (i + 1) + 1 : SubSeq(s, i + 1, j)[x] = s[(i + 1) + x - 1]
  BY <1>1, SubSeqProperties
<1>3. j - (i + 1) + 1 = j - i /\ (IF i + 1 <= j THEN j - (i + 1) + 1 ELSE 0) = j - i
  OBVIOUS
<1>4. ASSUME NEW x \in 1..j - i PROVE SubSeq(s, i + 1, j)[x] = s[x + i]
  <2>1. (i + 1) + x - 1 = x + i
    OBVIOUS
  <2> QED
    BY <1>2, <1>3, <2>1
<1> QED
  BY <1>2, <1>3, <1>4 DEF Slice

\* Two slices that meet are one.
LEMMA SliceSplit ==
  ASSUME NEW S, NEW s \in Seq(S), NEW i \in Nat, NEW j \in Nat, NEW k \in Nat,
         i <= j, j <= k, k <= Len(s)
  PROVE  Slice(s, i, j) \o Slice(s, j, k) = Slice(s, i, k)
<1>1. /\ i + 1 \in 1..Len(s) + 1
      /\ j \in (i + 1) - 1..Len(s)
      /\ k \in j..Len(s)
  BY LenProperties
<1> QED
  BY <1>1, ConcatAdjacentSubSeq DEF Slice

\* buf[i:i] is empty.
LEMMA SliceEmpty ==
  ASSUME NEW s, NEW i \in Nat
  PROVE  Slice(s, i, i) = <<>>
BY SubSeqEmpty DEF Slice

\* A chunk is a sequence of bufsize bytes.
LEMMA ChunkIs ==
  ASSUME NEW c \in Chunk
  PROVE  c \in Seq(Content) /\ Len(c) = bufsize
BY DEF Chunk

\* Element x of buf[i:j] is element x + i of buf.
LEMMA SliceElement ==
  ASSUME NEW S, NEW s \in Seq(S), NEW i \in Nat, NEW j \in Nat, i <= j, j <= Len(s),
         NEW x \in 1..j - i
  PROVE  Slice(s, i, j)[x] = s[x + i]
BY SliceProperties

\* What was copied behind the write offset comes after what was there.
LEMMA CopiedSlice ==
  ASSUME NEW c \in Chunk, NEW s \in Seq(Byte), NEW i \in Nat, NEW j \in Nat,
         NEW k \in Nat, i <= j, k = j + Len(s), k <= bufsize
  PROVE  Slice(Copied(c, j, s), i, k) = Slice(c, i, j) \o s
<1> DEFINE d == Copied(c, j, s)
           left == Slice(d, i, k)
           before == Slice(c, i, j)
           right == before \o s
<1>1. /\ c \in Seq(Content) /\ Len(c) = bufsize
      /\ d \in Seq(Content) /\ Len(d) = bufsize
      /\ s \in Seq(Content) /\ Len(s) \in Nat
      /\ j <= Len(c) /\ k <= Len(d) /\ i <= k
  BY LenProperties, ChunkIs, CopiedType, SeqMonotonic DEF Content
<1>2. \A x \in 1..bufsize : d[x] = IF x > j /\ x <= k THEN s[x - j] ELSE c[x]
  BY <1>1 DEF Copied
<1> HIDE DEF d
<1>3. /\ before \in Seq(Content)
      /\ Len(before) = j - i
      /\ \A x \in 1..j - i : before[x] = c[x + i]
  <2>1. before \in Seq(Content)
    BY <1>1, SliceProperties
  <2>2. Len(before) = j - i
    BY <1>1, SliceProperties
  <2>3. ASSUME NEW x \in 1..j - i PROVE before[x] = c[x + i]
    BY <1>1, SliceElement
  <2> QED
    BY <2>1, <2>2, <2>3
<1>4. /\ left \in Seq(Content)
      /\ Len(left) = k - i
      /\ \A x \in 1..k - i : left[x] = d[x + i]
  <2>1. left \in Seq(Content) /\ Len(left) = k - i
    BY <1>1, SliceProperties
  <2>2. ASSUME NEW x \in 1..k - i PROVE left[x] = d[x + i]
    BY <1>1, SliceElement
  <2> QED
    BY <2>1, <2>2
<1> HIDE DEF left, before
<1>5. /\ right \in Seq(Content)
      /\ Len(right) = Len(before) + Len(s)
      /\ \A x \in 1..Len(before) + Len(s) :
           right[x] = IF x <= Len(before) THEN before[x] ELSE s[x - Len(before)]
  BY <1>1, <1>3, ConcatProperties
<1> HIDE DEF right
<1>6. Len(before) + Len(s) = k - i
  BY <1>1, <1>3
<1>7. ASSUME NEW x \in 1..k - i PROVE left[x] = right[x]
  <2>1. x + i \in 1..bufsize
    BY <1>1, BufsizeAssumption
  <2>2. left[x] = IF x + i > j /\ x + i <= k THEN s[(x + i) - j] ELSE c[x + i]
    BY <1>2, <1>4, <2>1
  <2>3. right[x] = IF x <= j - i THEN before[x] ELSE s[x - (j - i)]
    BY <1>3, <1>5, <1>6
  <2>4. x + i > j <=> ~(x <= j - i)
    OBVIOUS
  <2>5. x + i <= k /\ (x + i) - j = x - (j - i)
    OBVIOUS
  <2>6. x <= j - i => before[x] = c[x + i]
    BY <1>3
  <2> QED
    BY <2>2, <2>3, <2>4, <2>5, <2>6
<1>8. left = right
  BY <1>3, <1>4, <1>5, <1>6, <1>7, SeqEqual
<1> QED
  BY <1>8 DEF left, right, before, d

\* The reader's bytes are those behind the read offset.
LEMMA UnreadIsHeld ==
  ASSUME IInv, r <= w, chainbuf = <<>> => r = 0
  PROVE  Unread = Held(r)
<1>1. CASE chainbuf = <<>>
  BY <1>1 DEF Unread, IsEmpty, Held
<1>2. CASE chainbuf # <<>>
  <2>1. ridx = 0 /\ widx = 0 /\ r \in Nat /\ w \in Nat
    BY <1>2, EmptySeq, BufsizeAssumption DEF IInv, OneChunk, TypeOK
  <2>2. r = w => Held(r) = <<>>
    BY <1>2, <2>1, SliceEmpty DEF Held
  <2> QED
    BY <1>2, <2>1, <2>2 DEF Unread, IsEmpty, Held, Current
<1> QED
  BY <1>1, <1>2

\* What is held are bytes.
LEMMA HeldType ==
  ASSUME IInv, NEW o \in Nat, o <= w
  PROVE  Held(o) \in Seq(Content)
<1>1. CASE chainbuf = <<>>
  BY <1>1, EmptySeq DEF Held
<1>2. CASE chainbuf # <<>>
  <2>1. chainbuf[1] \in Chunk /\ w \in Nat /\ w <= bufsize
    BY <1>2, EmptySeq, OneElement, BufsizeAssumption DEF IInv, OneChunk, TypeOK
  <2>2. chainbuf[1] \in Seq(Content) /\ w <= Len(chainbuf[1])
    BY <2>1, ChunkIs
  <2> QED
    BY <1>2, <2>1, <2>2, SliceProperties DEF Held
<1> QED
  BY <1>1, <1>2

\* ReadAppend puts its bytes behind those that are held.
LEMMA AppendedHeld ==
  ASSUME IInv, NEW s \in Seq(Byte), ReadAppend(s), UNCHANGED r,
         r <= w, chainbuf = <<>> => r = 0
  PROVE  /\ Held(r)' = Held(r) \o s
         /\ w' = (IF chainbuf = <<>> THEN 0 ELSE w) + Len(s)
         /\ chainbuf' # <<>> /\ stream' = stream \o s
<1>0. /\ Len(chainbuf') = 1 /\ w' \in 0..bufsize /\ stream' = stream \o s
      /\ Len(s) \in Nat /\ s \in Seq(Content)
  <2>1. s \in Seq(Content)
    BY SeqMonotonic DEF Content
  <2> QED
    BY <2>1, ReadAppendStep, LenProperties DEF ReadAppend, AppendTo
<1>1. CASE chainbuf = <<>>
  <2>1. widx = -1 /\ bytepool = {} /\ r = 0
    BY <1>1, EmptySeq DEF IInv, OneChunk
  <2>2. /\ chainbuf' = Append(chainbuf, Copied(NewChunk, 0, s))
        /\ w' = Len(s)
    BY <1>0, <1>1, <2>1 DEF ReadAppend, AppendTo
  <2>3. chainbuf' = <<Copied(NewChunk, 0, s)>>
    BY <1>1, <2>2
  <2>4. Slice(Copied(NewChunk, 0, s), 0, w') = Slice(NewChunk, 0, 0) \o s
    BY <1>0, <2>2, NewChunkType, CopiedSlice, BufsizeAssumption
  <2>5. Slice(NewChunk, 0, 0) = <<>> /\ <<>> \o s = s
    BY <1>0, SliceEmpty, ConcatEmptySeq
  <2> QED
    BY <1>0, <1>1, <2>1, <2>2, <2>3, <2>4, <2>5 DEF Held
<1>2. CASE chainbuf # <<>>
  <2>1. /\ widx = 0 /\ chainbuf \in Seq(Chunk) /\ Len(chainbuf) = 1
        /\ chainbuf[1] \in Chunk /\ r \in Nat /\ w \in Nat
    BY <1>2, EmptySeq, OneElement, BufsizeAssumption DEF IInv, OneChunk, TypeOK
  <2>2. bufsize # widx
    BY <2>1, BufsizeAssumption
  <2>3. /\ chainbuf' = [chainbuf EXCEPT ![1] = Copied(chainbuf[1], w, s)]
        /\ w' = w + Len(s)
    BY <1>2, <2>1, <2>2 DEF ReadAppend, AppendTo
  <2>4. chainbuf'[1] = Copied(chainbuf[1], w, s)
    BY <2>1, <2>3, OneElement
  <2>5. w' \in Nat /\ w' <= bufsize
    BY <1>0, BufsizeAssumption
  <2>6. Slice(Copied(chainbuf[1], w, s), r, w') = Slice(chainbuf[1], r, w) \o s
    BY <2>1, <2>3, <2>5, CopiedSlice
  <2>7. chainbuf' # <<>>
    <3> SUFFICES ASSUME chainbuf' = <<>> PROVE Len(chainbuf') = 0
      BY <1>0
    <3> QED
      OBVIOUS
  <2> QED
    BY <1>0, <1>2, <2>3, <2>4, <2>6, <2>7 DEF Held
<1> QED
  BY <1>1, <1>2

-------------------------------------------------------------------------------
\* At first nothing was sent and nothing taken.
LEMMA InitOrdered == Init => Ordered
<1> SUFFICES ASSUME Init PROVE Ordered
  OBVIOUS
<1>1. Offsets /\ Delimited /\ Restorable
  BY DEF Init, Offsets, Delimited, Restorable
<1>2. Taken
  BY EmptySeq, ConcatEmptySeq DEF Init, Taken, Held
<1> QED
  BY <1>1, <1>2 DEF Ordered

\* What the loop appends.
LEMMA AppendOrdered ==
  ASSUME IInv, Ordered, NEW s \in Seq(Byte), ReadAppend(s), pc = "append",
         UNCHANGED <<ridx, r, mark, line, got, kept, blind>>,
         \/ pc' = "done"
         \/ pc' = "parse" /\ Len(s) > 0
  PROVE  Ordered'
<1> SUFFICES ASSUME ~blind PROVE (Offsets /\ Delimited /\ Taken /\ Restorable)'
  BY DEF Ordered
<1>1. Offsets /\ Taken /\ r \in Nat /\ w \in Nat /\ Len(s) \in Nat
  BY LenProperties, BufsizeAssumption DEF Ordered, IInv, TypeOK
<1>2. /\ Held(r)' = Held(r) \o s
      /\ w' = (IF chainbuf = <<>> THEN 0 ELSE w) + Len(s)
      /\ chainbuf' # <<>> /\ stream' = stream \o s
  BY <1>1, AppendedHeld DEF Offsets
<1>3. Offsets'
  BY <1>1, <1>2 DEF Offsets
<1>4. Taken'
  <2>1. got \in Seq(Content) /\ Held(r) \in Seq(Content) /\ s \in Seq(Content)
    BY <1>1, HeldType, SeqMonotonic DEF IInv, TypeOK, Content, Offsets
  <2>2. (got \o Held(r)) \o s = got \o (Held(r) \o s)
    BY <2>1, ConcatAssociative
  <2> QED
    BY <1>1, <1>2, <2>2 DEF Taken
<1>5. Delimited' /\ Restorable'
  BY DEF Delimited, Restorable
<1> QED
  BY <1>3, <1>4, <1>5

\* Taking n of the bytes that are held.
LEMMA TakeHeld ==
  ASSUME IInv, Ordered, ~blind, chainbuf # <<>>, NEW k \in Nat, r <= k, k <= w
  PROVE  (got \o Slice(Current, r, k)) \o Held(k) = stream
<1>1. /\ Current = chainbuf[1] /\ r \in Nat /\ w \in Nat /\ w <= bufsize
      /\ chainbuf[1] \in Chunk /\ got \in Seq(Content)
  BY EmptySeq, OneElement, BufsizeAssumption DEF IInv, OneChunk, TypeOK, Current
<1>2. chainbuf[1] \in Seq(Content) /\ Len(chainbuf[1]) = bufsize
  BY <1>1, ChunkIs
<1>3. /\ Slice(Current, r, k) \in Seq(Content)
      /\ Slice(Current, k, w) \in Seq(Content)
  <2>1. k <= Len(Current) /\ w <= Len(Current) /\ Current \in Seq(Content)
    BY <1>1, <1>2
  <2>2. Slice(Current, r, k) \in Seq(Content)
    BY <1>1, <2>1, SliceProperties
  <2>3. Slice(Current, k, w) \in Seq(Content)
    BY <1>1, <2>1, SliceProperties
  <2> QED
    BY <2>2, <2>3
<1>4. Slice(Current, r, k) \o Slice(Current, k, w) = Slice(Current, r, w)
  BY <1>1, <1>2, SliceSplit
<1>5. (got \o Slice(Current, r, k)) \o Slice(Current, k, w)
        = got \o (Slice(Current, r, k) \o Slice(Current, k, w))
  BY <1>1, <1>3, ConcatAssociative
<1> QED
  BY <1>1, <1>4, <1>5 DEF Ordered, Taken, Held

\* A Delim that is held is found, and found before the write offset.
LEMMA DelimIsFound ==
  ASSUME IInv, Ordered, ~blind, pc = "cut"
  PROVE  /\ ~NoDelim(Slice(Current, r, bufsize))
         /\ \A i \in Nat : FirstDelim(Slice(Current, r, bufsize), i) => r + i + 1 <= w
<1>1. /\ Len(chainbuf) = 1 /\ Current = chainbuf[1] /\ chainbuf[1] \in Chunk
      /\ r \in Nat /\ w \in Nat /\ w <= bufsize /\ r <= w
      /\ ~NoDelim(Unread) /\ Unread = Held(r)
  BY OneElement, UnreadIsHeld, BufsizeAssumption
     DEF IInv, OneChunk, TypeOK, Current, Ordered, Offsets, Delimited, ParsesAChunk
<1>2. Current \in Seq(Content) /\ Len(Current) = bufsize /\ r <= bufsize
  BY <1>1, ChunkIs
<1>3. Unread = Slice(Current, r, w)
  BY <1>1, EmptySeq DEF Held
<1>4. Len(Slice(Current, r, w)) = w - r
  BY <1>1, <1>2, SliceProperties
<1>5. PICK x \in 1..w - r : Slice(Current, r, w)[x] = Delim
  BY <1>1, <1>3, <1>4 DEF NoDelim
<1>6. Len(Slice(Current, r, bufsize)) = bufsize - r
  BY <1>1, <1>2, SliceProperties, BufsizeAssumption
<1>7. x \in 1..bufsize - r
  BY <1>1, <1>5, BufsizeAssumption
<1>8. Slice(Current, r, bufsize)[x] = Delim
  <2>1. Slice(Current, r, w)[x] = Current[x + r]
    BY <1>1, <1>2, <1>5, SliceElement
  <2>2. Slice(Current, r, bufsize)[x] = Current[x + r]
    BY <1>1, <1>2, <1>7, SliceElement, BufsizeAssumption
  <2> QED
    BY <1>5, <2>1, <2>2
<1>9. ~NoDelim(Slice(Current, r, bufsize))
  BY <1>6, <1>7, <1>8 DEF NoDelim
<1>10. ASSUME NEW i \in Nat, FirstDelim(Slice(Current, r, bufsize), i)
       PROVE  r + i + 1 <= w
  <2>1. ~(x \in 1..i)
    BY <1>8, <1>10 DEF FirstDelim
  <2> QED
    BY <1>1, <1>5, <2>1
<1> QED
  BY <1>9, <1>10

\* Appending, taking, marking, restoring and clearing keep the order.
LEMMA NextOrdered == IInv /\ Ordered /\ [Next]_vars => Ordered'
<1> SUFFICES ASSUME IInv, Ordered, [Next]_vars, ~blind'
             PROVE  (Offsets /\ Delimited /\ Taken /\ Restorable)'
  BY DEF Ordered
<1> DEFINE Goal == (Offsets /\ Delimited /\ Taken /\ Restorable)'
<1>b. ~blind
  <2>1. blind \in BOOLEAN
    BY DEF IInv, TypeOK
  <2> QED
    BY <2>1 DEF Next, ReadSome, ReadNone, MarkIndex, Accept, RestoreMark, RestoreTo,
       ParserFails, Read, ReadBytes, CutHere, CutLast, CutNothing, ReadMore, vars
<1>i. /\ Offsets /\ Delimited /\ Taken /\ Restorable
      /\ r \in Nat /\ w \in Nat /\ w <= bufsize /\ mark.r \in Nat
  BY <1>b, BufsizeAssumption DEF Ordered, IInv, TypeOK
<1>c. pc \in {"parsing", "cut"} => chainbuf # <<>> /\ ridx = 0 /\ widx = 0
  <2>1. Len(<<>>) = 0
    OBVIOUS
  <2> QED
    BY <2>1 DEF IInv, ParsesAChunk, OneChunk
<1>1. ASSUME ReadSome PROVE Goal
  <2>1. PICK n \in 1..bufsize : \E s \in [1..n -> Byte] : ReadAppend(s)
    BY <1>1 DEF ReadSome
  <2>2. PICK s \in [1..n -> Byte] : ReadAppend(s)
    BY <2>1
  <2>3. s \in Seq(Byte) /\ Len(s) > 0
    BY <2>1, <2>2, BufsizeAssumption
  <2>4. Ordered'
    BY <1>1, <2>2, <2>3, AppendOrdered DEF ReadSome
  <2> QED
    BY <2>4 DEF Ordered
<1>2. ASSUME ReadNone PROVE Goal
  <2>1. <<>> \in Seq(Byte)
    OBVIOUS
  <2>2. Ordered'
    BY <1>2, <2>1, AppendOrdered DEF ReadNone
  <2> QED
    BY <2>2 DEF Ordered
<1>3. ASSUME MarkIndex PROVE Goal
  <2>1. UNCHANGED <<chainbuf, r, w, stream, got, line, ridx, widx>>
    BY <1>3 DEF MarkIndex, buffer
  <2>2. Taken'
    BY <1>i, <2>1 DEF Taken, Held
  <2>3. CASE IsEmpty
    BY <1>3, <1>i, <2>1, <2>2, <2>3 DEF MarkIndex, Offsets, Delimited, Restorable
  <2>4. CASE ~IsEmpty
    <3>1. pc = "parse" /\ pc' = "parsing" /\ mark'.r = r /\ kept' = got
      BY <1>3, <2>4 DEF MarkIndex
    <3>2. r < w
      <4>1. chainbuf # <<>> /\ ~(r = w /\ ridx = widx) /\ Len(<<>>) = 0
        BY <2>4 DEF IsEmpty
      <4>2. ridx = widx
        BY <4>1, EmptySeq DEF IInv, OneChunk, TypeOK
      <4> QED
        BY <1>i, <4>1, <4>2 DEF Offsets
    <3>3. Offsets' /\ Delimited'
      BY <1>i, <2>1, <3>1, <3>2 DEF Offsets, Delimited
    <3>4. Restorable'
      BY <1>i, <2>1, <3>1 DEF Restorable, Taken, Held
    <3> QED
      BY <2>2, <3>3, <3>4
  <2> QED
    BY <2>3, <2>4
<1>4. ASSUME Accept PROVE Goal
  <2>1. /\ chainbuf # <<>> /\ widx = 0 /\ Len(chainbuf) = 1
        /\ pc' = "parse" /\ line' = line /\ ClearRead(0, r)
    BY <1>4, <1>c DEF Accept, IInv, ParsesAChunk
  <2>2. chainbuf' = chainbuf
    <3>1. chainbuf' = [i \in 1..1 |-> IF i + 0 <= 1 THEN chainbuf[i + 0] ELSE chainbuf[i]]
      BY <2>1 DEF ClearRead, ClearTo
    <3>2. chainbuf \in [1..1 -> Chunk]
      BY <2>1, OneElement DEF IInv, TypeOK
    <3> QED
      BY <3>1, <3>2
  <2>3. IF r = w THEN r' = 0 /\ w' = 0 ELSE r' = r /\ w' = w
    BY <2>1 DEF ClearRead, ClearTo
  <2>4. Offsets' /\ Delimited' /\ Restorable'
    BY <1>i, <2>1, <2>2, <2>3 DEF Offsets, Delimited, Restorable
  <2>5. Held(r)' = Held(r)
    <3>1. Slice(chainbuf[1], 0, 0) = <<>> /\ Slice(chainbuf[1], r, r) = <<>>
      BY <1>i, SliceEmpty
    <3> QED
      BY <2>1, <2>2, <2>3, <3>1 DEF Held
  <2>6. Taken'
    BY <1>4, <1>i, <2>5 DEF Accept, Taken
  <2> QED
    BY <2>4, <2>6
<1>5. ASSUME RestoreMark PROVE Goal
  <2>1. mark.ridx <= widx /\ r <= w /\ pc = "parsing" /\ chainbuf # <<>>
    BY <1>5, <1>c, <1>i DEF RestoreMark, RestoreTo, IInv, MarksTheChunk, Offsets
  <2>2. /\ r' = mark.r /\ got' = kept /\ pc' = "append"
        /\ UNCHANGED <<chainbuf, w, line, stream>>
    BY <1>5, <2>1 DEF RestoreMark, RestoreTo
  <2>3. Offsets' /\ Delimited' /\ Restorable'
    BY <1>i, <2>1, <2>2 DEF Offsets, Delimited, Restorable
  <2>4. Taken'
    BY <1>i, <2>1, <2>2 DEF Taken, Restorable, Held
  <2> QED
    BY <2>3, <2>4
<1>6. ASSUME ParserFails PROVE Goal
  BY <1>6, <1>i
     DEF ParserFails, buffer, Offsets, Delimited, Taken, Restorable, Held
<1>7. ASSUME Read PROVE Goal
  <2>1. PICK n \in 1..Buffered : /\ got' = got \o Slice(Current, r, r + n)
                                /\ r' = r + n
    BY <1>7 DEF Read
  <2>2. /\ pc = "parsing" /\ pc' = pc /\ chainbuf # <<>>
        /\ UNCHANGED <<chainbuf, w, mark, line, stream, kept>>
    BY <1>7, <1>c DEF Read
  <2>3. r' \in Nat /\ r <= r' /\ r' <= w
    BY <1>c, <1>i, <2>1, <2>2 DEF Buffered
  <2>4. (got \o Slice(Current, r, r')) \o Held(r') = stream
    BY <1>b, <2>2, <2>3, TakeHeld
  <2>5. Taken'
    BY <2>1, <2>2, <2>4 DEF Taken, Held
  <2>6. Offsets' /\ Delimited' /\ Restorable'
    BY <1>i, <2>2, <2>3 DEF Offsets, Delimited, Restorable, Held
  <2> QED
    BY <2>5, <2>6
<1>8. ASSUME ReadBytes PROVE Goal
  <2>1. ~NoDelim(Unread)
    BY <1>8 DEF ReadBytes
  <2>2. UNCHANGED <<buffer, mark, line, stream, got, kept>> /\ pc = "parsing" /\ pc' = "cut"
    BY <1>8 DEF ReadBytes
  <2>3. Unread' = Unread
    BY <2>2 DEF buffer, Unread, IsEmpty, Current
  <2>4. Delimited'
    BY <2>1, <2>3 DEF Delimited, NoDelim
  <2> QED
    BY <1>i, <2>2, <2>4 DEF buffer, Offsets, Taken, Restorable, Held
<1>9. ASSUME CutHere PROVE Goal
  <2>1. PICK i \in 0..bufsize - 1 :
          /\ FirstDelim(Slice(Current, r, bufsize), i)
          /\ Return(Slice(Current, r, r + i + 1))
          /\ r' = r + i + 1
    BY <1>9 DEF CutHere
  <2>2. /\ pc = "cut" /\ chainbuf # <<>>
        /\ UNCHANGED <<chainbuf, w, mark, stream, kept>>
    BY <1>9, <1>c DEF CutHere
  <2>3. r' \in Nat /\ r <= r' /\ r' <= w
    BY <1>b, <1>i, <2>1, <2>2, DelimIsFound, BufsizeAssumption
  <2>4. line = <<>> /\ got \in Seq(Content)
    BY <1>i DEF Offsets, IInv, TypeOK
  <2>5. got' = got \o Slice(Current, r, r') /\ line' = <<>> /\ pc' = "parsing"
    <3>1. got \o line = got
      BY <2>4, ConcatEmptySeq
    <3> QED
      BY <2>1, <3>1 DEF Return
  <2>6. (got \o Slice(Current, r, r')) \o Held(r') = stream
    BY <1>b, <2>2, <2>3, TakeHeld
  <2>7. Taken'
    BY <2>2, <2>5, <2>6 DEF Taken, Held
  <2>8. Offsets' /\ Delimited' /\ Restorable'
    BY <1>i, <2>2, <2>3, <2>5 DEF Offsets, Delimited, Restorable, Held
  <2> QED
    BY <2>7, <2>8
<1>10. ASSUME CutLast PROVE Goal
  BY <1>10, <1>b, DelimIsFound DEF CutLast
<1>11. ASSUME CutNothing PROVE Goal
  BY <1>11, <1>b, DelimIsFound DEF CutNothing
<1>12. ASSUME ReadMore PROVE Goal
  BY <1>12, <1>i DEF ReadMore, Offsets
<1>13. ASSUME UNCHANGED vars PROVE Goal
  BY <1>13, <1>i DEF vars, Offsets, Delimited, Taken, Restorable, Held, Unread,
     IsEmpty, Current, NoDelim
<1> QED
  BY <1>1, <1>2, <1>3, <1>4, <1>5, <1>6, <1>7, <1>8, <1>9, <1>10, <1>11, <1>12,
     <1>13 DEF Next

\* The second inductive invariant: the order of the bytes.
LEMMA AlwaysOrdered == Spec => [](IInv /\ Ordered)
<1>1. Init => IInv /\ Ordered
  BY InitInv, InitOrdered
<1>2. IInv /\ Ordered /\ [Next]_vars => (IInv /\ Ordered)'
  BY NextInv, NextOrdered
<1> QED
  BY <1>1, <1>2, PTL DEF Spec

\* For any chunk length and any stream, what a parser is given and what is still
\* held are the peer's bytes, in order and each once, as long as it calls ReadBytes
\* only when there is a delimiter.
THEOREM BytesInOrder == Spec => []InOrder
<1>1. IInv /\ Ordered => InOrder
  <2> SUFFICES ASSUME IInv, Ordered, ~blind PROVE got \o Unread = stream
    BY DEF InOrder
  <2>1. Unread = Held(r)
    BY UnreadIsHeld DEF Ordered, Offsets
  <2> QED
    BY <2>1 DEF Ordered, Taken
<1> QED
  BY AlwaysOrdered, <1>1, PTL

\* For any chunk length, a chunk is full at ReadAppend only when an incomplete
\* package fills it: a parser that takes what it is given is never cut off.
THEOREM FullMeansPending == Spec => []FullOnlyWhenPending
<1>1. IInv /\ Ordered => FullOnlyWhenPending
  <2> SUFFICES ASSUME IInv, Ordered, ~blind, pc = "append", w = bufsize
               PROVE  Unread # <<>>
    BY DEF FullOnlyWhenPending
  <2>1. /\ r < w /\ r \in Nat /\ w \in Nat /\ Offsets
    BY BufsizeAssumption DEF Ordered, Offsets, IInv, TypeOK
  <2>2. Unread = Held(r)
    BY <2>1, UnreadIsHeld DEF Offsets
  <2>3. CASE chainbuf = <<>>
    BY <2>1, <2>3 DEF Offsets
  <2>4. CASE chainbuf # <<>>
    <3>1. chainbuf[1] \in Chunk
      BY <2>4, EmptySeq, OneElement DEF IInv, OneChunk, TypeOK
    <3>2. /\ chainbuf[1] \in Seq(Content) /\ w <= Len(chainbuf[1])
          /\ r \in Nat /\ w \in Nat /\ r <= w
      BY <2>1, <3>1, ChunkIs
    <3>3. Len(Slice(chainbuf[1], r, w)) = w - r
      BY <3>2, SliceLen
    <3>4. Len(<<>>) = 0
      OBVIOUS
    <3> QED
      BY <2>1, <2>2, <2>4, <3>3, <3>4 DEF Held
  <2> QED
    BY <2>3, <2>4
<1> QED
  BY AlwaysOrdered, <1>1, PTL
================================================================================
