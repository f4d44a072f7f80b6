----------------------------- MODULE FramesProofs -----------------------------
(* Five parts.  conRead never slices past the end of its buffer: the invariant *)
(* relates the length that lastReadBufLen remembers to the buffer that was     *)
(* made; that a header is a number rests on the bytes on the way being bytes.  *)
(* Then the arithmetic of the counter; induction over sets of numbers, and     *)
(* what it says of the folds that Nonempty, Lengths and Waiting are; that the  *)
(* counter counts the traffic; and that frames survive.                        *)
EXTENDS Frames, SequenceTheorems, FiniteSetTheorems, WellFoundedInduction,
        NaturalsInduction, TLAPS

\* What is on the way, and what will be, are bytes.
Bytes ==
  /\ headLen \in {2, 4}
  /\ obj \in [Writer -> Seq(Byte)]
  /\ buf \in [Writer \cup {Shared} -> Seq(Byte)]
  /\ stream \in Seq(Byte) /\ part \in Seq(Byte)

Numbers == pkglen \in Nat /\ tmpLen \in Nat /\ lastLen \in Nat

\* tmpBuffer is never shorter than the last package it was used for.
Kept == lastLen <= tmpLen

IInv == Bytes /\ Numbers /\ Kept /\ BufferHoldsPackage

LEMMA BaseIsNat == Base \in Nat /\ Base > 1 /\ MaxBufferLen \in Nat /\ Byte \subseteq Nat
PROOF
  BY FramesAssumption DEF Byte

LEMMA PutUintIsBytes ==
  ASSUME headLen \in {2, 4}, NEW n \in Nat
  PROVE  PutUint(n) \in Seq(Byte) /\ Len(PutUint(n)) = headLen
PROOF
<1>1. ASSUME NEW a \in Nat PROVE a % Base \in Byte
  BY BaseIsNat, SMT DEF Byte
<1>2. ASSUME NEW a \in Nat \ {0} PROVE n \div a \in Nat
  BY SMT
<1>3. /\ Base \in Nat \ {0} /\ Base * Base \in Nat \ {0} /\ Base * Base * Base \in Nat \ {0}
  BY BaseIsNat, SMT
<1>4. /\ (n \div Base) % Base \in Byte /\ n % Base \in Byte
      /\ (n \div (Base * Base)) % Base \in Byte /\ (n \div (Base * Base * Base)) % Base \in Byte
  BY <1>1, <1>2, <1>3
<1>5. CASE headLen = 2
  BY <1>4, <1>5 DEF PutUint
<1>6. CASE headLen = 4
  BY <1>4, <1>6 DEF PutUint
<1> QED
  BY <1>5, <1>6

LEMMA UintIsNat ==
  ASSUME NEW d \in Seq(Byte), Len(d) \in {2, 4}
  PROVE  Uint(d) \in Nat
PROOF
<1>1. ASSUME NEW a \in Nat, NEW b \in Nat PROVE a * Base + b \in Nat
  <2>1. a * Base \in Nat
    BY BaseIsNat
  <2> QED
    BY <2>1
<1>2. d[1] \in Nat /\ d[2] \in Nat /\ (Len(d) = 4 => d[3] \in Nat /\ d[4] \in Nat)
  <2>1. \A i \in 1 .. Len(d) : d[i] \in Byte
    OBVIOUS
  <2>2. 1 \in 1 .. Len(d) /\ 2 \in 1 .. Len(d) /\ (Len(d) = 4 => 3 \in 1 .. Len(d) /\ 4 \in 1 .. Len(d))
    BY SMT
  <2> QED
    BY <2>1, <2>2, BaseIsNat
<1>3. CASE Len(d) = 2
  BY <1>1, <1>2, <1>3 DEF Uint
<1>4. CASE Len(d) = 4
  <2>1. d[1] * Base + d[2] \in Nat
    BY <1>1, <1>2
  <2>2. (d[1] * Base + d[2]) * Base + d[3] \in Nat
    BY <1>1, <1>2, <1>4, <2>1
  <2>3. ((d[1] * Base + d[2]) * Base + d[3]) * Base + d[4] \in Nat
    BY <1>1, <1>2, <1>4, <2>2
  <2> QED
    BY <1>4, <2>3 DEF Uint
<1> QED
  BY <1>3, <1>4

LEMMA FrameIsBytes ==
  ASSUME headLen \in {2, 4}, NEW b \in Seq(Byte)
  PROVE  Frame(b) \in Seq(Byte) /\ Len(Frame(b)) = Len(b)
PROOF
<1> DEFINE len == (Len(b) - headLen) % Limit
           rest == SubSeq(b, headLen + 1, Len(b))
<1>1. Limit \in Nat /\ Limit > 0
  BY BaseIsNat, SMT DEF Limit
<1>2. len \in Nat
  BY <1>1, SMT
<1>3. PutUint(len) \in Seq(Byte)
  BY <1>2, PutUintIsBytes
<1>4. rest \in Seq(Byte)
  BY SubSeqProperties
<1> HIDE DEF len, rest
<1>5. PutUint(len) \o rest \in Seq(Byte)
  BY <1>3, <1>4
<1>6. Len(b) <= Len(PutUint(len) \o rest)
  <2>1. Len(PutUint(len)) = headLen
    BY <1>2, PutUintIsBytes
  <2>2. Len(rest) = IF headLen + 1 <= Len(b) THEN Len(b) - headLen ELSE 0
    BY SubSeqProperties DEF rest
  <2> QED
    BY <1>3, <1>4, <2>1, <2>2
<1>7. /\ SubSeq(PutUint(len) \o rest, 1, Len(b)) \in Seq(Byte)
      /\ Len(SubSeq(PutUint(len) \o rest, 1, Len(b))) = Len(b)
  BY <1>5, <1>6, SubSeqProperties
<1> QED
  BY <1>7 DEF Frame, len, rest

\* The initial state, and every action, keep the four parts of IInv.
LEMMA InitIInv == Init => IInv
PROOF
<1> SUFFICES ASSUME Init PROVE IInv
  OBVIOUS
<1>1. Bytes
  BY DEF Init, Bytes
<1> QED
  BY <1>1, BaseIsNat DEF Init, IInv, Numbers, Kept, BufferHoldsPackage

\* Writers leave the reader's side alone; what they add to the stream are bytes.
LEMMA WriterStep ==
  ASSUME IInv, NEW w \in Writer,
         PutHead(w) \/ Encode(w) \/ EncodeFails(w) \/ Write(w) \/ WriteFails(w) \/ Reset(w)
  PROVE  IInv'
PROOF
<1>1. UNCHANGED <<reader, headLen>>
  BY DEF PutHead, Encode, EncodeFails, Write, WriteFails, Reset, setup
<1>2. Numbers' /\ Kept' /\ BufferHoldsPackage' /\ (part \in Seq(Byte))'
  BY <1>1 DEF IInv, Bytes, Numbers, Kept, BufferHoldsPackage, reader
<1>3. Bytes
  BY DEF IInv
<1>4. BufferOf(w) \in Writer \cup {Shared}
  BY DEF BufferOf
<1>5. CASE PutHead(w)
  <2>1. PICK o \in Objects : obj' = [obj EXCEPT ![w] = o]
    BY <1>5 DEF PutHead
  <2>2. o \in Seq(Byte)
    BY FramesAssumption DEF Byte
  <2>3. buf[BufferOf(w)] \o PutUint(1) \in Seq(Byte)
    <3>1. PutUint(1) \in Seq(Byte)
      BY <1>3, PutUintIsBytes DEF Bytes
    <3> QED
      BY <1>3, <1>4, <3>1 DEF Bytes
  <2> QED
    BY <1>1, <1>2, <1>3, <1>5, <2>1, <2>2, <2>3 DEF PutHead, IInv, Bytes
<1>6. CASE Encode(w)
  <2>1. buf[BufferOf(w)] \o obj[w] \in Seq(Byte)
    BY <1>3, <1>4 DEF Bytes
  <2> QED
    BY <1>1, <1>2, <1>3, <1>6, <2>1 DEF Encode, IInv, Bytes
<1>7. CASE EncodeFails(w)
  BY <1>1, <1>2, <1>3, <1>7 DEF EncodeFails, IInv, Bytes
<1> DEFINE frame == Frame(buf[BufferOf(w)])
<1>8. frame \in Seq(Byte)
  BY <1>3, <1>4, FrameIsBytes DEF Bytes
<1>9. CASE Write(w)
  <2>1. stream \o frame \in Seq(Byte)
    BY <1>3, <1>8 DEF Bytes
  <2>2. /\ buf' = [buf EXCEPT ![BufferOf(w)] = frame] /\ stream' = stream \o frame
        /\ obj' = [obj EXCEPT ![w] = <<>>]
    BY <1>9 DEF Write
  <2> HIDE DEF frame
  <2>3. buf' \in [Writer \cup {Shared} -> Seq(Byte)]
    BY <1>3, <1>4, <1>8, <2>2 DEF Bytes
  <2>4. obj' \in [Writer -> Seq(Byte)]
    BY <1>3, <2>2 DEF Bytes
  <2> QED
    BY <1>1, <1>2, <1>3, <2>1, <2>2, <2>3, <2>4 DEF IInv, Bytes
<1>10. CASE WriteFails(w)
  <2>1. UNCHANGED buf /\ obj' = [obj EXCEPT ![w] = <<>>]
    BY <1>10 DEF WriteFails
  <2>2. \/ \E n \in 0 .. Len(frame) - 1 : stream' = stream \o SubSeq(frame, 1, n)
        \/ UNCHANGED stream
    BY <1>10 DEF WriteFails
  <2>3. stream' \in Seq(Byte)
    <3>1. CASE UNCHANGED stream
      BY <1>3, <3>1 DEF Bytes
    <3>2. CASE \E n \in 0 .. Len(frame) - 1 : stream' = stream \o SubSeq(frame, 1, n)
      <4> HIDE DEF frame
      <4>1. PICK n \in 0 .. Len(frame) - 1 : stream' = stream \o SubSeq(frame, 1, n)
        BY <3>2
      <4>2. SubSeq(frame, 1, n) \in Seq(Byte)
        BY <1>8, SubSeqProperties
      <4> QED
        BY <1>3, <4>1, <4>2 DEF Bytes
    <3> QED
      BY <2>2, <3>1, <3>2
  <2> QED
    BY <1>1, <1>2, <1>3, <2>1, <2>3 DEF IInv, Bytes
<1>11. CASE Reset(w)
  <2>1. buf' = [buf EXCEPT ![BufferOf(w)] = <<>>] /\ UNCHANGED <<obj, stream>>
    BY <1>11 DEF Reset
  <2>2. buf' \in [Writer \cup {Shared} -> Seq(Byte)]
    BY <1>3, <1>4, <2>1 DEF Bytes
  <2> QED
    BY <1>1, <1>2, <1>3, <2>1, <2>2 DEF IInv, Bytes
<1> QED
  BY <1>5, <1>6, <1>7, <1>9, <1>10, <1>11

\* What Take leaves on the way, and what it takes, are bytes.
LEMMA TakeKeepsBytes ==
  ASSUME Bytes, NEW n, Arrived(n), Take(n)
  PROVE  stream' \in Seq(Byte) /\ SubSeq(stream, 1, n) \in Seq(Byte)
         /\ Len(SubSeq(stream, 1, n)) = n
PROOF
<1>1. n \in 1 .. Len(stream) /\ stream \in Seq(Byte)
  BY DEF Arrived, Bytes
<1>2. SubSeq(stream, n + 1, Len(stream)) \in Seq(Byte)
  BY <1>1, SubSeqProperties
<1>3. SubSeq(stream, 1, n) \in Seq(Byte) /\ Len(SubSeq(stream, 1, n)) = n
  BY <1>1, SubSeqProperties
<1> QED
  BY <1>2, <1>3 DEF Take

LEMMA ReadHeadStep == ASSUME IInv, ReadHead PROVE IInv'
PROOF
<1>1. PICK n \in {2, 4} :
        LET len == Uint(SubSeq(stream, 1, n))
        IN /\ Arrived(n) /\ Take(n) /\ pkglen' = len /\ FitBuffer(len)
           /\ rpc' = IF len > 0 THEN "body" ELSE "head"
  BY DEF ReadHead
<1> DEFINE len == Uint(SubSeq(stream, 1, n))
<1>2. stream' \in Seq(Byte) /\ SubSeq(stream, 1, n) \in Seq(Byte)
      /\ Len(SubSeq(stream, 1, n)) = n
  BY <1>1, TakeKeepsBytes DEF IInv
<1>3. len \in Nat
  BY <1>2, UintIsNat
<1> HIDE DEF len
<1>4. Bytes'
  BY <1>2 DEF ReadHead, IInv, Bytes, setup, writers
<1>5. Numbers' /\ Kept' /\ BufferHoldsPackage'
  BY <1>1, <1>3, BaseIsNat DEF len, FitBuffer, IInv, Numbers, Kept, BufferHoldsPackage
<1> QED
  BY <1>4, <1>5 DEF IInv

LEMMA ReadBodyStep == ASSUME IInv, ReadBody PROVE IInv'
PROOF
<1>1. PICK n : Arrived(n) /\ Take(n) /\ part' = part \o SubSeq(stream, 1, n)
  BY DEF ReadBody
<1>2. stream' \in Seq(Byte) /\ SubSeq(stream, 1, n) \in Seq(Byte)
  BY <1>1, TakeKeepsBytes DEF IInv
<1>3. part' \in Seq(Byte)
  BY <1>1, <1>2 DEF IInv, Bytes
<1>4. Bytes'
  BY <1>2, <1>3 DEF ReadBody, IInv, Bytes, setup, writers
<1>5. rpc = "body" /\ UNCHANGED <<pkglen, tmpLen, lastLen>>
  BY DEF ReadBody
<1>6. Numbers' /\ Kept' /\ BufferHoldsPackage'
  BY <1>5 DEF IInv, Numbers, Kept, BufferHoldsPackage
<1> QED
  BY <1>4, <1>6 DEF IInv

LEMMA NextIInv == IInv /\ [Next]_vars => IInv'
PROOF
<1> SUFFICES ASSUME IInv, [Next]_vars PROVE IInv'
  OBVIOUS
<1>1. ASSUME NEW w \in Writer,
             PutHead(w) \/ Encode(w) \/ EncodeFails(w) \/ Write(w) \/ WriteFails(w) \/ Reset(w)
      PROVE  IInv'
  BY <1>1, WriterStep
<1>2. CASE ReadHeadPanics
  <2>1. PICK n : Arrived(n) /\ Take(n)
    BY <1>2 DEF ReadHeadPanics
  <2>2. stream' \in Seq(Byte)
    BY <2>1, TakeKeepsBytes DEF IInv
  <2> QED
    BY <1>2, <2>2 DEF ReadHeadPanics, IInv, Bytes, Numbers, Kept, BufferHoldsPackage,
                      setup, writers
<1>3. CASE ReadHead
  BY <1>3, ReadHeadStep
<1>4. CASE ReadBody
  BY <1>4, ReadBodyStep
<1>5. CASE Decode
  BY <1>5 DEF Decode, IInv, Bytes, Numbers, Kept, BufferHoldsPackage, setup, writers
<1>6. CASE ReaderEnds
  BY <1>6 DEF ReaderEnds, IInv, Bytes, Numbers, Kept, BufferHoldsPackage, setup, writers
<1>7. CASE AddDataSize
  BY <1>7 DEF AddDataSize, IInv, Bytes, Numbers, Kept, BufferHoldsPackage, setup, writers,
              reader
<1>8. CASE UNCHANGED vars
  BY <1>8 DEF vars, IInv, Bytes, Numbers, Kept, BufferHoldsPackage, setup, writers, reader
<1> QED
  BY <1>1, <1>2, <1>3, <1>4, <1>5, <1>6, <1>7, <1>8 DEF Next

\* However many writers there are and however the bytes arrive, conRead reads
\* every package into a buffer that holds it.
THEOREM BufferHolds == Spec => []BufferHoldsPackage
PROOF
<1>1. IInv => BufferHoldsPackage
  BY DEF IInv
<1> QED
  BY <1>1, InitIInv, NextIInv, PTL DEF Spec

-----------------------------------------------------------------------------
(* The server's counter (DiskSize).  Add and AddByteSize lose nothing but what *)
(* the TB field cannot hold: they keep the total that the five fields stand    *)
(* for, for any unit.  The proofs go from the bytes up, one carry after the    *)
(* other.                                                                      *)

\* A digit and what is added to it: the digit that stays and the carry are the
\* same amount, and the carry is no more than what was added.
LEMMA Carry ==
  ASSUME NEW d \in Digit, NEW c \in Nat
  PROVE  /\ (d + c) \div Unit \in Nat /\ (d + c) % Unit \in Digit
         /\ d + c = ((d + c) % Unit) + Unit * ((d + c) \div Unit)
         /\ (d + c) \div Unit <= c
         /\ c = 0 => (d + c) % Unit = d /\ (d + c) \div Unit = 0
PROOF
<1> DEFINE q == (d + c) \div Unit
<1>1. Unit \in Nat /\ Unit > 0 /\ d \in Nat /\ d < Unit
  BY UnitAssumption DEF Digit
<1>2. q \in Nat /\ (d + c) % Unit \in Digit /\ d + c = ((d + c) % Unit) + Unit * q
  BY <1>1, SMT DEF Digit
<1>3. q <= c
  <2>1. SUFFICES ASSUME q > c PROVE FALSE
    BY <1>2
  <2>2. PICK r \in Nat : q = c + 1 + r
    <3>1. q - c - 1 \in Nat /\ q = c + 1 + (q - c - 1)
      BY <1>2, <2>1
    <3> QED
      BY <3>1
  <2>3. Unit * q = Unit * (c + r) + Unit
    BY <2>2, <1>1, SMT
  <2>4. Unit * (c + r) >= c + r
    <3>1. PICK u \in Nat : Unit = u + 1
      <4>1. Unit - 1 \in Nat /\ Unit = (Unit - 1) + 1
        BY <1>1
      <4> QED
        BY <4>1
    <3>2. (u + 1) * (c + r) = u * (c + r) + (c + r) /\ u * (c + r) \in Nat
      BY <2>2, <3>1, SMT
    <3> DEFINE p == u * (c + r)
    <3>3. Unit * (c + r) = p + (c + r) /\ p \in Nat
      BY <3>1, <3>2
    <3> HIDE DEF p
    <3> QED
      BY <3>3, <2>2
  <2> DEFINE e == (d + c) % Unit
             p == Unit * (c + r)
  <2>5. e \in Nat /\ p \in Nat /\ p >= c + r
    BY <1>1, <1>2, <2>2, <2>4 DEF Digit
  <2>6. d + c = e + (p + Unit)
    BY <1>2, <2>3
  <2> HIDE DEF e, p, q
  <2> QED
    BY <2>5, <2>6, <1>1, <2>2
<1>4. c = 0 => (d + c) % Unit = d /\ q = 0
  BY <1>1, SMT
<1> QED
  BY <1>2, <1>3, <1>4

\* The same below further units: the carry goes to them.
LEMMA Shift ==
  ASSUME NEW d \in Digit, NEW c \in Nat, NEW rest \in Nat
  PROVE  d + Unit * rest + c = ((d + c) % Unit) + Unit * (rest + ((d + c) \div Unit))
PROOF
<1> DEFINE q == (d + c) \div Unit
           r == (d + c) % Unit
<1>1. Unit \in Nat /\ d \in Nat /\ Digit \subseteq Nat
  BY UnitAssumption DEF Digit
<1>2. q \in Nat /\ r \in Digit /\ d + c = r + Unit * q
  BY Carry
<1> HIDE DEF q, r
<1>3. Unit * (rest + q) = Unit * rest + Unit * q
  BY <1>1, <1>2, SMT
<1>4. Unit * rest \in Nat /\ Unit * q \in Nat /\ r \in Nat
  BY <1>1, <1>2
<1>5. d + Unit * rest + c = r + Unit * (rest + q)
  <2> DEFINE a == Unit * rest
             b == Unit * q
  <2>1. a \in Nat /\ b \in Nat /\ Unit * (rest + q) = a + b /\ d + c = r + b
    BY <1>2, <1>3, <1>4
  <2> HIDE DEF a, b
  <2>2. d + a + c = r + (a + b)
    BY <2>1, <1>1, <1>4
  <2> QED
    BY <2>1, <2>2 DEF a
<1> QED
  BY <1>5 DEF q, r

\* A number below the modulus is not changed.
LEMMA Small ==
  ASSUME NEW w \in Nat, NEW a \in Nat, a < w
  PROVE  a % w = a
PROOF
  BY SMT

\* The carries of AddByteSize, from the bytes to the terabytes.
C1(s, n) == (s.SizeByte + n) \div Unit
C2(s, n) == (s.SizeKB + C1(s, n)) \div Unit
C3(s, n) == (s.SizeMB + C2(s, n)) \div Unit
C4(s, n) == (s.SizeGB + C3(s, n)) \div Unit

\* What AddByteSize would leave if it never returned early.
Full(s, n) ==
  [SizeByte |-> (s.SizeByte + n) % Unit, SizeKB |-> (s.SizeKB + C1(s, n)) % Unit,
   SizeMB |-> (s.SizeMB + C2(s, n)) % Unit, SizeGB |-> (s.SizeGB + C3(s, n)) % Unit,
   SizeTB |-> s.SizeTB + C4(s, n)]

LEMMA Carries ==
  ASSUME NEW s \in DxDiskSize, NEW n \in Nat
  PROVE  /\ C1(s, n) \in Nat /\ C2(s, n) \in Nat /\ C3(s, n) \in Nat /\ C4(s, n) \in Nat
         /\ C1(s, n) <= n /\ C2(s, n) <= C1(s, n) /\ C3(s, n) <= C2(s, n)
         /\ C4(s, n) <= C3(s, n)
PROOF
<1>1. /\ s.SizeByte \in Digit /\ s.SizeKB \in Digit /\ s.SizeMB \in Digit
      /\ s.SizeGB \in Digit
  BY DEF DxDiskSize
<1>2. C1(s, n) \in Nat /\ C1(s, n) <= n
  BY <1>1, Carry DEF C1
<1>3. C2(s, n) \in Nat /\ C2(s, n) <= C1(s, n)
  BY <1>1, <1>2, Carry DEF C2
<1>4. C3(s, n) \in Nat /\ C3(s, n) <= C2(s, n)
  BY <1>1, <1>3, Carry DEF C3
<1>5. C4(s, n) \in Nat /\ C4(s, n) <= C3(s, n)
  BY <1>1, <1>4, Carry DEF C4
<1> QED
  BY <1>2, <1>3, <1>4, <1>5

LEMMA FullTotal ==
  ASSUME NEW s \in DxDiskSize, NEW n \in Nat
  PROVE  Total(Full(s, n)) = Total(s) + n
PROOF
<1> DEFINE t == s.SizeTB
           g == s.SizeGB + Unit * t
           m == s.SizeMB + Unit * g
           k == s.SizeKB + Unit * m
<1>1. /\ s.SizeByte \in Digit /\ s.SizeKB \in Digit /\ s.SizeMB \in Digit
      /\ s.SizeGB \in Digit /\ t \in Nat
  BY WordAssumption DEF DxDiskSize
<1>2. g \in Nat /\ m \in Nat /\ k \in Nat
  BY <1>1, UnitAssumption DEF Digit
<1>3. C1(s, n) \in Nat /\ C2(s, n) \in Nat /\ C3(s, n) \in Nat /\ C4(s, n) \in Nat
  BY Carries
<1>4. s.SizeByte + Unit * k + n = ((s.SizeByte + n) % Unit) + Unit * (k + C1(s, n))
  BY <1>1, <1>2, Shift DEF C1
<1>5. k + C1(s, n) = ((s.SizeKB + C1(s, n)) % Unit) + Unit * (m + C2(s, n))
  BY <1>1, <1>2, <1>3, Shift DEF C2
<1>6. m + C2(s, n) = ((s.SizeMB + C2(s, n)) % Unit) + Unit * (g + C3(s, n))
  BY <1>1, <1>2, <1>3, Shift DEF C3
<1>7. g + C3(s, n) = ((s.SizeGB + C3(s, n)) % Unit) + Unit * (t + C4(s, n))
  BY <1>1, <1>2, <1>3, Shift DEF C4
<1>8. Total(s) = s.SizeByte + Unit * k
  BY DEF Total
<1>9. Total(Full(s, n)) = ((s.SizeByte + n) % Unit) + Unit * (((s.SizeKB + C1(s, n)) % Unit)
        + Unit * (((s.SizeMB + C2(s, n)) % Unit) + Unit * (((s.SizeGB + C3(s, n)) % Unit)
        + Unit * (t + C4(s, n)))))
  BY DEF Total, Full
<1> HIDE DEF t, g, m, k
<1> QED
  BY <1>4, <1>5, <1>6, <1>7, <1>8, <1>9

\* Where AddByteSize returns early the units above have no carry to take.
LEMMA EarlyReturns ==
  ASSUME NEW s \in DxDiskSize, NEW n \in Nat, s.SizeByte + n < Word,
         s.SizeTB + C4(s, n) < Word
  PROVE  AddByteSize(s, n) = Full(s, n)
PROOF
<1>1. /\ s.SizeByte \in Digit /\ s.SizeKB \in Digit /\ s.SizeMB \in Digit
      /\ s.SizeGB \in Digit /\ s.SizeTB \in Nat /\ Digit \subseteq Nat
      /\ s = [SizeByte |-> s.SizeByte, SizeKB |-> s.SizeKB, SizeMB |-> s.SizeMB,
              SizeGB |-> s.SizeGB, SizeTB |-> s.SizeTB]
  BY WordAssumption, UnitAssumption DEF DxDiskSize, Digit
<1>2. /\ C1(s, n) \in Nat /\ C2(s, n) \in Nat /\ C3(s, n) \in Nat /\ C4(s, n) \in Nat
      /\ C1(s, n) <= n /\ C2(s, n) <= C1(s, n) /\ C3(s, n) <= C2(s, n)
      /\ C4(s, n) <= C3(s, n)
  BY Carries
<1>3. (s.SizeByte + n) % Word = s.SizeByte + n
  BY <1>1, Small, WordAssumption
<1>4. (s.SizeTB + C4(s, n)) % Word = s.SizeTB + C4(s, n)
  <2>1. s.SizeTB + C4(s, n) \in Nat
    BY <1>1, <1>2, WordAssumption
  <2> QED
    BY <2>1, Small, WordAssumption
<1>5. /\ C1(s, n) = 0 => (s.SizeKB + C1(s, n)) % Unit = s.SizeKB
      /\ C2(s, n) = 0 => (s.SizeMB + C2(s, n)) % Unit = s.SizeMB
      /\ C3(s, n) = 0 => (s.SizeGB + C3(s, n)) % Unit = s.SizeGB
      /\ C4(s, n) = 0 => s.SizeTB + C4(s, n) = s.SizeTB
  BY <1>1, <1>2, Carry
<1>6. /\ C1(s, n) = 0 => C2(s, n) = 0
      /\ C2(s, n) = 0 => C3(s, n) = 0
      /\ C3(s, n) = 0 => C4(s, n) = 0
  BY <1>2
<1>7. CASE C1(s, n) = 0
  BY <1>1, <1>3, <1>5, <1>6, <1>7 DEF AddByteSize, Full, C1, C2, C3, C4
<1>8. CASE C1(s, n) # 0 /\ C2(s, n) = 0
  BY <1>1, <1>3, <1>5, <1>6, <1>8 DEF AddByteSize, Full, C1, C2, C3, C4
<1>9. CASE C1(s, n) # 0 /\ C2(s, n) # 0 /\ C3(s, n) = 0
  BY <1>1, <1>3, <1>5, <1>6, <1>9 DEF AddByteSize, Full, C1, C2, C3, C4
<1>10. CASE C1(s, n) # 0 /\ C2(s, n) # 0 /\ C3(s, n) # 0
  BY <1>1, <1>3, <1>4, <1>5, <1>10 DEF AddByteSize, Full, C1, C2, C3, C4
<1> QED
  BY <1>7, <1>8, <1>9, <1>10

\* What the five fields can hold.
Capacity == Unit * (Unit * (Unit * (Unit * Word)))

LEMMA AboveUnit ==
  ASSUME NEW a \in Nat, NEW b \in Nat, a <= b, NEW d \in Nat
  PROVE  Unit * a \in Nat /\ d + Unit * b \in Nat /\ Unit * a <= d + Unit * b
PROOF
<1>1. PICK c \in Nat : b = a + c
  <2>1. b - a \in Nat /\ b = a + (b - a)
    OBVIOUS
  <2> QED
    BY <2>1
<1> DEFINE u == Unit * a
           v == Unit * c
<1>2. u \in Nat /\ v \in Nat /\ Unit * (a + c) = u + v
  BY UnitAssumption, SMT
<1> HIDE DEF u, v
<1>3. d + (u + v) \in Nat /\ u <= d + (u + v)
  BY <1>2
<1> QED
  BY <1>1, <1>2, <1>3 DEF u

\* A total that the fields can hold leaves the carry room in the TB field.
LEMMA RoomForCarry ==
  ASSUME NEW s \in DxDiskSize, NEW n \in Nat, Total(s) + n < Capacity
  PROVE  s.SizeTB + C4(s, n) < Word
PROOF
<1> DEFINE t == s.SizeTB + C4(s, n)
           g == (s.SizeGB + C3(s, n)) % Unit
           m == (s.SizeMB + C2(s, n)) % Unit
           k == (s.SizeKB + C1(s, n)) % Unit
           b == (s.SizeByte + n) % Unit
<1>1. /\ s.SizeByte \in Digit /\ s.SizeKB \in Digit /\ s.SizeMB \in Digit
      /\ s.SizeGB \in Digit /\ s.SizeTB \in Nat /\ Digit \subseteq Nat /\ Word \in Nat
  BY WordAssumption, UnitAssumption DEF DxDiskSize, Digit
<1>2. C1(s, n) \in Nat /\ C2(s, n) \in Nat /\ C3(s, n) \in Nat /\ C4(s, n) \in Nat
  BY Carries
<1>3. b \in Nat /\ k \in Nat /\ m \in Nat /\ g \in Nat /\ t \in Nat
  <2>1. b \in Digit /\ k \in Digit /\ m \in Digit /\ g \in Digit
    BY <1>1, <1>2, Carry
  <2>2. t \in Nat
    BY <1>1, <1>2
  <2> HIDE DEF b, k, m, g, t
  <2> QED
    BY <1>1, <2>1, <2>2
<1>4. Total(s) + n = b + Unit * (k + Unit * (m + Unit * (g + Unit * t)))
  BY FullTotal DEF Full, Total
<1> HIDE DEF t, g, m, k, b
<1>5. SUFFICES ASSUME Word <= t PROVE FALSE
  BY <1>1, <1>3 DEF t
<1>6. /\ Unit * Word \in Nat /\ g + Unit * t \in Nat
      /\ Unit * Word <= g + Unit * t
  BY <1>1, <1>3, <1>5, AboveUnit
<1>7. /\ Unit * (Unit * Word) \in Nat /\ m + Unit * (g + Unit * t) \in Nat
      /\ Unit * (Unit * Word) <= m + Unit * (g + Unit * t)
  BY <1>3, <1>6, AboveUnit
<1>8. /\ Unit * (Unit * (Unit * Word)) \in Nat /\ k + Unit * (m + Unit * (g + Unit * t)) \in Nat
      /\ Unit * (Unit * (Unit * Word)) <= k + Unit * (m + Unit * (g + Unit * t))
  BY <1>3, <1>7, AboveUnit
<1>9. /\ Capacity \in Nat /\ b + Unit * (k + Unit * (m + Unit * (g + Unit * t))) \in Nat
      /\ Capacity <= b + Unit * (k + Unit * (m + Unit * (g + Unit * t)))
  <2> DEFINE e == k + Unit * (m + Unit * (g + Unit * t))
             h == Unit * (Unit * (Unit * Word))
  <2>1. h \in Nat /\ e \in Nat /\ h <= e
    BY <1>8
  <2> HIDE DEF e, h
  <2>2. Unit * h \in Nat /\ b + Unit * e \in Nat /\ Unit * h <= b + Unit * e
    BY <1>3, <2>1, AboveUnit
  <2> QED
    BY <2>2 DEF Capacity, e, h
<1> DEFINE e == b + Unit * (k + Unit * (m + Unit * (g + Unit * t)))
<1>10. e \in Nat /\ Capacity \in Nat /\ Capacity <= e /\ e < Capacity
  BY <1>4, <1>9
<1> HIDE DEF e
<1> QED
  BY <1>10

\* AddByteSize keeps the total, as long as the sum of the bytes fits 32 bits
\* and the five fields can hold it: no carry is lost by an early return.
THEOREM AddByteSizeKeepsTotal ==
  ASSUME NEW s \in DxDiskSize, NEW n \in Nat, s.SizeByte + n < Word,
         Total(s) + n < Capacity
  PROVE  AddByteSize(s, n) \in DxDiskSize /\ Total(AddByteSize(s, n)) = Total(s) + n
PROOF
<1>1. Full(s, n) \in DxDiskSize
  <2>1. /\ s.SizeByte \in Digit /\ s.SizeKB \in Digit /\ s.SizeMB \in Digit
        /\ s.SizeGB \in Digit /\ s.SizeTB \in Nat
    BY WordAssumption DEF DxDiskSize
  <2>2. C1(s, n) \in Nat /\ C2(s, n) \in Nat /\ C3(s, n) \in Nat /\ C4(s, n) \in Nat
    BY Carries
  <2>3. /\ (s.SizeByte + n) % Unit \in Digit /\ (s.SizeKB + C1(s, n)) % Unit \in Digit
        /\ (s.SizeMB + C2(s, n)) % Unit \in Digit
        /\ (s.SizeGB + C3(s, n)) % Unit \in Digit
    BY <2>1, <2>2, Carry
  <2>4. s.SizeTB + C4(s, n) \in 0 .. Word - 1
    BY <2>1, <2>2, RoomForCarry, WordAssumption
  <2> QED
    BY <2>3, <2>4 DEF Full, DxDiskSize
<1> QED
  BY <1>1, RoomForCarry, EarlyReturns, FullTotal

\* Two digits and a carry of one give a carry of at most one.
LEMMA CarryOfOne ==
  ASSUME NEW d \in Digit, NEW e \in Digit, NEW c \in 0 .. 1
  PROVE  (d + e + c) \div Unit \in 0 .. 1
PROOF
<1> DEFINE q == (d + (e + c)) \div Unit
<1>1. Unit \in Nat /\ Unit > 0 /\ d \in Nat /\ e \in Nat /\ d < Unit /\ e < Unit
  BY UnitAssumption DEF Digit
<1>2. q \in Nat /\ (d + (e + c)) % Unit \in Nat
      /\ d + (e + c) = ((d + (e + c)) % Unit) + Unit * q
  BY <1>1, Carry DEF Digit
<1>3. q < 2
  <2>1. SUFFICES ASSUME q >= 2 PROVE FALSE
    BY <1>2
  <2>2. PICK r \in Nat : q = 2 + r
    <3>1. q - 2 \in Nat /\ q = 2 + (q - 2)
      BY <1>2, <2>1
    <3> QED
      BY <3>1
  <2> DEFINE p == Unit * r
             f == (d + (e + c)) % Unit
  <2>3. Unit * q = 2 * Unit + p /\ p \in Nat /\ f \in Nat
    BY <2>2, <1>1, <1>2, SMT
  <2>4. d + (e + c) = f + (2 * Unit + p)
    BY <1>2, <2>3
  <2> HIDE DEF p, f, q
  <2> QED
    BY <2>3, <2>4, <1>1
<1>4. d + e + c = d + (e + c)
  BY <1>1
<1> QED
  BY <1>2, <1>3, <1>4

\* A number above c others of a unit: its digit stays, its carry joins them.
LEMMA Split ==
  ASSUME NEW a \in Nat, NEW c \in Nat
  PROVE  /\ a \div Unit \in Nat /\ a % Unit \in Digit
         /\ a + Unit * c = (a % Unit) + Unit * (c + a \div Unit)
PROOF
<1> DEFINE q == a \div Unit
           r == a % Unit
           u == Unit * c
           v == Unit * q
<1>1. Unit \in Nat /\ q \in Nat /\ r \in Digit /\ r \in Nat /\ a = r + v /\ v \in Nat
  BY UnitAssumption, SMT DEF Digit
<1>2. u \in Nat /\ Unit * (c + q) = u + v
  BY <1>1, SMT
<1> HIDE DEF q, r, u, v
<1>3. a + u = r + (u + v)
  BY <1>1, <1>2
<1> QED
  BY <1>1, <1>2, <1>3 DEF q, r, u

\* The sum of two numbers that are given as a digit and the rest.
LEMMA TwoSums ==
  ASSUME NEW d \in Nat, NEW e \in Nat, NEW p \in Nat, NEW q \in Nat
  PROVE  /\ d + Unit * p \in Nat
         /\ (d + Unit * p) + (e + Unit * q) = (d + e) + Unit * (p + q)
PROOF
<1> DEFINE u == Unit * p
           v == Unit * q
<1>1. u \in Nat /\ v \in Nat /\ Unit * (p + q) = u + v
  BY UnitAssumption, SMT
<1> HIDE DEF u, v
<1>2. d + u \in Nat /\ (d + u) + (e + v) = (d + e) + (u + v)
  BY <1>1
<1> QED
  BY <1>1, <1>2 DEF u, v

\* Five digits, each above Unit times the rest.
Five(b, k, m, g, t) == b + Unit * (k + Unit * (m + Unit * (g + Unit * t)))

LEMMA TotalSums ==
  ASSUME NEW s \in DxDiskSize, NEW n \in DxDiskSize
  PROVE  Total(s) + Total(n)
           = Five(s.SizeByte + n.SizeByte, s.SizeKB + n.SizeKB, s.SizeMB + n.SizeMB,
                  s.SizeGB + n.SizeGB, s.SizeTB + n.SizeTB)
PROOF
<1> DEFINE b == s.SizeByte
           k == s.SizeKB
           m == s.SizeMB
           g == s.SizeGB
           t == s.SizeTB
           c == n.SizeByte
           l == n.SizeKB
           v == n.SizeMB
           h == n.SizeGB
           u == n.SizeTB
           g1 == g + Unit * t
           g2 == h + Unit * u
           m1 == m + Unit * g1
           m2 == v + Unit * g2
           k1 == k + Unit * m1
           k2 == l + Unit * m2
<1>0. /\ b \in Nat /\ k \in Nat /\ m \in Nat /\ g \in Nat /\ t \in Nat
      /\ c \in Nat /\ l \in Nat /\ v \in Nat /\ h \in Nat /\ u \in Nat
  BY WordAssumption DEF DxDiskSize, Digit
<1> HIDE DEF b, k, m, g, t, c, l, v, h, u
<1>1. g1 \in Nat /\ g2 \in Nat /\ g1 + g2 = (g + h) + Unit * (t + u)
  BY <1>0, TwoSums
<1> HIDE DEF g1, g2
<1>2. m1 \in Nat /\ m2 \in Nat /\ m1 + m2 = (m + v) + Unit * (g1 + g2)
  BY <1>0, <1>1, TwoSums
<1> HIDE DEF m1, m2
<1>3. k1 \in Nat /\ k2 \in Nat /\ k1 + k2 = (k + l) + Unit * (m1 + m2)
  BY <1>0, <1>2, TwoSums
<1> HIDE DEF k1, k2
<1>4. (b + Unit * k1) + (c + Unit * k2) = (b + c) + Unit * (k1 + k2)
  BY <1>0, <1>3, TwoSums
<1>5. Total(s) = b + Unit * k1 /\ Total(n) = c + Unit * k2
  BY Zenon DEF Total, b, k, m, g, t, c, l, v, h, u, k1, k2, m1, m2, g1, g2
<1>6. (b + c) + Unit * (k1 + k2) = Five(b + c, k + l, m + v, g + h, t + u)
  BY <1>1, <1>2, <1>3, Zenon DEF Five
<1> QED
  BY <1>4, <1>5, <1>6, Zenon DEF b, k, m, g, t, c, l, v, h, u

\* One level: the digit of a stays, its carry joins the next unit.
LEMMA Level ==
  ASSUME NEW a \in Nat, NEW d \in Nat, NEW r \in Nat, NEW y, y = d + a \div Unit
  PROVE  y \in Nat /\ a + Unit * (d + Unit * r) = (a % Unit) + Unit * (y + Unit * r)
PROOF
<1> DEFINE u == Unit * r
           q == a \div Unit
<1>1. u \in Nat /\ q \in Nat
  BY UnitAssumption, Split
<1>2. d + u \in Nat
  BY <1>1
<1>3. a + Unit * (d + u) = (a % Unit) + Unit * ((d + u) + q)
  BY <1>2, Split
<1>4. y = d + q
  OBVIOUS
<1> HIDE DEF u, q
<1>5. y \in Nat /\ (d + u) + q = y + u
  BY <1>1, <1>4
<1> QED
  BY <1>3, <1>5 DEF u

\* Five sums brought to digits, carry after carry.
LEMMA FiveCarries ==
  ASSUME NEW b \in Nat, NEW k \in Nat, NEW m \in Nat, NEW g \in Nat, NEW t \in Nat,
         NEW x, NEW y, NEW z, x = k + b \div Unit, y = m + x \div Unit, z = g + y \div Unit
  PROVE  Five(b, k, m, g, t) = Five(b % Unit, x % Unit, y % Unit, z % Unit, t + z \div Unit)
PROOF
<1>1. g + Unit * t \in Nat /\ m + Unit * (g + Unit * t) \in Nat
  BY TwoSums
<1>2. /\ x \in Nat
      /\ b + Unit * (k + Unit * (m + Unit * (g + Unit * t)))
           = (b % Unit) + Unit * (x + Unit * (m + Unit * (g + Unit * t)))
  BY <1>1, Level
<1>3. /\ y \in Nat
      /\ x + Unit * (m + Unit * (g + Unit * t))
           = (x % Unit) + Unit * (y + Unit * (g + Unit * t))
  BY <1>1, <1>2, Level
<1>4. z \in Nat /\ y + Unit * (g + Unit * t) = (y % Unit) + Unit * (z + Unit * t)
  BY <1>3, Level
<1>5. z + Unit * t = (z % Unit) + Unit * (t + z \div Unit)
  BY <1>4, Split
<1> QED
  BY <1>2, <1>3, <1>4, <1>5, Zenon DEF Five

\* Add keeps the totals: the 16-bit sums do not overflow, because every field
\* but the last is a digit.
THEOREM AddKeepsTotal ==
  ASSUME NEW s \in DxDiskSize, NEW n \in DxDiskSize, s.SizeTB + n.SizeTB + 1 < Word
  PROVE  Add(s, n) \in DxDiskSize /\ Total(Add(s, n)) = Total(s) + Total(n)
PROOF
<1> DEFINE b == s.SizeByte + n.SizeByte
           k == s.SizeKB + n.SizeKB
           m == s.SizeMB + n.SizeMB
           g == s.SizeGB + n.SizeGB
           t == s.SizeTB + n.SizeTB
           x == k + b \div Unit
           y == m + x \div Unit
           z == g + y \div Unit
<1>1. /\ s.SizeByte \in Digit /\ s.SizeKB \in Digit /\ s.SizeMB \in Digit
      /\ s.SizeGB \in Digit /\ s.SizeTB \in Nat
      /\ n.SizeByte \in Digit /\ n.SizeKB \in Digit /\ n.SizeMB \in Digit
      /\ n.SizeGB \in Digit /\ n.SizeTB \in Nat
  BY WordAssumption DEF DxDiskSize
<1>2. /\ s.SizeByte \in Nat /\ s.SizeKB \in Nat /\ s.SizeMB \in Nat /\ s.SizeGB \in Nat
      /\ n.SizeByte \in Nat /\ n.SizeKB \in Nat /\ n.SizeMB \in Nat /\ n.SizeGB \in Nat
  BY <1>1 DEF Digit
<1>3. b \in Nat /\ k \in Nat /\ m \in Nat /\ g \in Nat /\ t \in Nat /\ t + 1 < Word
  BY <1>1, <1>2
<1>4. b \div Unit \in 0 .. 1
  <2>1. b = s.SizeByte + n.SizeByte + 0
    BY <1>1, <1>2
  <2> QED
    BY <1>1, <2>1, CarryOfOne
<1>5. x \div Unit \in 0 .. 1
  BY <1>1, <1>4, CarryOfOne
<1>6. y \div Unit \in 0 .. 1
  BY <1>1, <1>5, CarryOfOne
<1>7. z \div Unit \in 0 .. 1
  BY <1>1, <1>6, CarryOfOne
<1>8. ASSUME NEW d \in Digit, NEW e \in Digit
      PROVE  (d + e) % Half = d + e
  <2>1. d + e \in Nat /\ d + e < Half /\ Half \in Nat
    BY UnitAssumption DEF Digit
  <2> QED
    BY <2>1, Small
<1>9. /\ b % Half = b /\ k % Half = k /\ m % Half = m /\ g % Half = g
  BY <1>1, <1>8
<1>10. t + z \div Unit \in 0 .. Word - 1 /\ (t + z \div Unit) % Word = t + z \div Unit
  <2> DEFINE c == z \div Unit
  <2>1. c \in 0 .. 1
    BY <1>7
  <2> HIDE DEF c, t
  <2>2. t + c \in Nat /\ t + c < Word
    BY <1>3, <2>1, WordAssumption
  <2>3. (t + c) % Word = t + c
    BY <2>2, Small, WordAssumption
  <2> QED
    BY <2>2, <2>3, WordAssumption DEF c
<1>11. Add(s, n) = [SizeByte |-> b % Unit, SizeKB |-> x % Unit, SizeMB |-> y % Unit,
                    SizeGB |-> z % Unit, SizeTB |-> t + z \div Unit]
  BY <1>9, <1>10 DEF Add
<1>12. /\ b % Unit \in Digit /\ x % Unit \in Digit /\ y % Unit \in Digit
       /\ z % Unit \in Digit
  <2>1. ASSUME NEW a \in Nat, NEW c \in 0 .. 1
        PROVE  a + c \in Nat /\ (a + c) % Unit \in Digit
    <3>1. a + c \in Nat
      OBVIOUS
    <3> QED
      BY <3>1, Split
  <2>2. b % Unit \in Digit
    BY <1>3, Split
  <2> HIDE DEF b, k, m, g
  <2> QED
    BY <1>3, <1>4, <1>5, <1>6, <2>1, <2>2
<1>13. Add(s, n) \in DxDiskSize
  BY <1>10, <1>11, <1>12 DEF DxDiskSize
<1>14. Total(Add(s, n)) = Total(s) + Total(n)
  <2>2. Total(s) + Total(n) = Five(b, k, m, g, t)
    BY TotalSums
  <2>3. Five(b, k, m, g, t) = Five(b % Unit, x % Unit, y % Unit, z % Unit, t + z \div Unit)
    BY <1>3, FiveCarries
  <2>4. Total(Add(s, n)) = Five(b % Unit, x % Unit, y % Unit, z % Unit, t + z \div Unit)
    BY <1>11 DEF Total, Five
  <2> QED
    BY <2>2, <2>3, <2>4
<1> QED
  BY <1>13, <1>14

-----------------------------------------------------------------------------
(* Induction, over sets of numbers, and what it says of the folds: the library *)
(* has the least element of a well-founded relation, and the rest follows.     *)

LEMMA Least == ASSUME NEW T \in SUBSET Nat, T # {} PROVE \E m \in T : \A n \in T : m <= n
PROOF
<1> DEFINE R == OpToRel(<, Nat)
<1>1. IsWellFoundedOn(R, Nat)
  BY NatLessThanWellFounded, Zenon
<1>2. \A x, y \in Nat : <<x, y>> \in R <=> x < y
  BY DEF OpToRel
<1> HIDE DEF R
<1>3. \E m \in T : \A n \in T : ~(<<n, m>> \in R)
  BY <1>1, WFMin
<1>4. \A x, y \in Nat : ~(y < x) => x <= y
  OBVIOUS
<1>5. \A x, y \in T : ~(<<y, x>> \in R) => x <= y
  BY <1>2, <1>4
<1> QED
  BY <1>3, <1>5

LEMMA Induct ==
  ASSUME NEW P \in SUBSET Nat, 0 \in P, \A n \in P : n + 1 \in P
  PROVE  P = Nat
PROOF
<1> SUFFICES ASSUME P # Nat PROVE FALSE
  OBVIOUS
<1>1. Nat \ P \in SUBSET Nat /\ Nat \ P # {}
  OBVIOUS
<1>2. PICK m \in Nat \ P : \A n \in Nat \ P : m <= n
  BY <1>1, Least
<1>3. m \in Nat /\ m # 0 /\ m - 1 \in Nat /\ ~(m <= m - 1) /\ m - 1 + 1 = m
  BY <1>2
<1>4. m - 1 \in P
  BY <1>2, <1>3
<1> QED
  BY <1>2, <1>3, <1>4

\* A finite set of numbers has a greatest one.
LEMMA Greatest ==
  ASSUME NEW n \in Nat, NEW T \in SUBSET (1 .. n), T # {}
  PROVE  Max(T) \in T /\ \A m \in T : m <= Max(T)
PROOF
<1> DEFINE U == {u \in Nat : \A m \in T : m <= u}
<1>1. n \in U /\ U \in SUBSET Nat
  OBVIOUS
<1>2. PICK u \in U : \A v \in U : u <= v
  BY <1>1, Least
<1>3. u \in T
  <2> SUFFICES ASSUME u \notin T PROVE FALSE
    OBVIOUS
  <2>1. \A m \in T : m \in Nat /\ m <= u /\ m # u /\ m >= 1
    BY <1>2
  <2>2. u - 1 \in Nat /\ ~(u <= u - 1)
    <3> PICK m \in T : TRUE
      OBVIOUS
    <3>1. u \in Nat /\ m \in Nat /\ m >= 1 /\ m <= u
      BY <1>2, <2>1
    <3> QED
      BY <3>1
  <2>3. \A m \in T : m <= u - 1
    BY <1>2, <2>1
  <2> QED
    BY <1>2, <2>2, <2>3
<1>4. \E x \in T : \A m \in T : x >= m
  BY <1>2, <1>3
<1>5. Max(T) \in T /\ \A m \in T : Max(T) >= m
  BY <1>4 DEF Max
<1> QED
  BY <1>5

LEMMA GreatestOfInterval ==
  ASSUME NEW k \in Nat
  PROVE  1 .. (k + 1) # {} /\ Max(1 .. (k + 1)) = k + 1
PROOF
<1>1. 1 .. (k + 1) # {} /\ k + 1 \in 1 .. (k + 1) /\ k + 1 \in Nat
  OBVIOUS
<1>2. Max(1 .. (k + 1)) \in 1 .. (k + 1) /\ k + 1 <= Max(1 .. (k + 1))
  BY <1>1, Greatest
<1> QED
  BY <1>1, <1>2

\* The functions on the subsets of D that take one element away after the other.
Solutions(D, V, base, step, pick) ==
  {it \in [SUBSET D -> V] : \A S \in SUBSET D :
     it[S] = IF S = {} THEN base ELSE step[pick[S]][it[S \ {pick[S]}]]}

LEMMA SetRecursion ==
  ASSUME NEW D, IsFiniteSet(D), NEW V, NEW base \in V, NEW step \in [D -> [V -> V]],
         NEW pick, \A S \in SUBSET D : S # {} => pick[S] \in S
  PROVE  Solutions(D, V, base, step, pick) # {}
PROOF
<1> DEFINE AtMost(n) == {S \in SUBSET D : Cardinality(S) <= n}
           Solves(it, n) == \A S \in AtMost(n) :
              it[S] = IF S = {} THEN base ELSE step[pick[S]][it[S \ {pick[S]}]]
           P == {n \in Nat : \E it \in [SUBSET D -> V] : Solves(it, n)}
<1>0. \A S \in SUBSET D : IsFiniteSet(S) /\ Cardinality(S) \in Nat
  BY FS_Subset, FS_CardinalityType
<1>1. \A S \in SUBSET D : S # {} => Cardinality(S \ {pick[S]}) = Cardinality(S) - 1
  BY <1>0, FS_RemoveElement
<1>2. 0 \in P
  <2> DEFINE it == [S \in SUBSET D |-> base]
  <2>1. it \in [SUBSET D -> V]
    OBVIOUS
  <2>2. \A S \in AtMost(0) : S = {}
    BY <1>0, FS_EmptySet
  <2>3. Solves(it, 0)
    BY <2>2
  <2> QED
    BY <2>1, <2>3
<1>3. ASSUME NEW n \in P PROVE n + 1 \in P
  <2>1. PICK it \in [SUBSET D -> V] : Solves(it, n)
    BY <1>3
  <2> DEFINE jt == [S \in SUBSET D |->
                      IF S = {} THEN base ELSE step[pick[S]][it[S \ {pick[S]}]]]
  <2>2. jt \in [SUBSET D -> V]
    OBVIOUS
  <2>3. \A S \in AtMost(n) : jt[S] = it[S]
    BY <2>1
  <2>4. ASSUME NEW S \in AtMost(n + 1), S # {} PROVE S \ {pick[S]} \in AtMost(n)
    <3>1. Cardinality(S \ {pick[S]}) = Cardinality(S) - 1 /\ Cardinality(S) <= n + 1
          /\ Cardinality(S) \in Nat /\ n \in Nat
      BY <1>0, <1>1, <1>3, <2>4
    <3>2. Cardinality(S \ {pick[S]}) <= n
      BY <3>1
    <3> QED
      BY <3>2
  <2>5. Solves(jt, n + 1)
    <3> TAKE S \in AtMost(n + 1)
    <3>1. CASE S = {}
      BY <3>1
    <3>2. CASE S # {}
      <4>1. jt[S \ {pick[S]}] = it[S \ {pick[S]}]
        BY <2>3, <2>4, <3>2
      <4> QED
        BY <3>2, <4>1
    <3> QED
      BY <3>1, <3>2
  <2>6. n + 1 \in Nat
    BY <1>3
  <2> QED
    BY <2>2, <2>5, <2>6
<1>4. P = Nat
  <2> HIDE DEF P
  <2>1. P \in SUBSET Nat
    BY DEF P
  <2> QED
    BY <1>2, <1>3, <2>1, Induct
<1>5. Cardinality(D) \in P
  BY <1>0, <1>4
<1>6. PICK it \in [SUBSET D -> V] : Solves(it, Cardinality(D))
  BY <1>5
<1>7. \A S \in SUBSET D : Cardinality(S) <= Cardinality(D)
  BY FS_Subset
<1>8. it \in Solutions(D, V, base, step, pick)
  BY <1>6, <1>7 DEF Solutions
<1> QED
  BY <1>8

\* FoldLeft takes the sequence from the left, one element after the other.
LeftFolds(s, V, base, step) ==
  {it \in [SUBSET DOMAIN s -> V] : \A S \in SUBSET DOMAIN s :
     it[S] = IF S = {} THEN base ELSE step[s[Max(S)]][it[S \ {Max(S)}]]}

LEMMA FoldExists ==
  ASSUME NEW E, NEW s \in Seq(E), NEW V, NEW base \in V, NEW step \in [E -> [V -> V]]
  PROVE  LeftFolds(s, V, base, step) # {}
PROOF
<1> DEFINE D == DOMAIN s
           st == [i \in D |-> step[s[i]]]
           pick == [S \in SUBSET D |-> Max(S)]
<1>0. D = 1 .. Len(s) /\ Len(s) \in Nat /\ IsFiniteSet(D) /\ \A i \in D : s[i] \in E
  BY FS_Interval
<1>1. st \in [D -> [V -> V]]
  BY <1>0
<1>2. \A S \in SUBSET D : S # {} => pick[S] \in S /\ pick[S] = Max(S)
  BY <1>0, Greatest
<1>a. \A S \in SUBSET D : S # {} => pick[S] \in S
  BY <1>2
<1> HIDE DEF D, pick, st
<1>3. PICK it \in Solutions(D, V, base, st, pick) : TRUE
  BY <1>0, <1>1, <1>a, SetRecursion
<1>b. /\ it \in [SUBSET D -> V]
      /\ \A S \in SUBSET D : it[S] = IF S = {} THEN base ELSE st[pick[S]][it[S \ {pick[S]}]]
  BY DEF Solutions
<1>4. ASSUME NEW S \in SUBSET D, S # {}
      PROVE  it[S] = step[s[Max(S)]][it[S \ {Max(S)}]]
  <2>1. Max(S) \in D
    BY <1>2, <1>4
  <2>2. st[Max(S)] = step[s[Max(S)]]
    BY <2>1 DEF st
  <2> QED
    BY <1>2, <1>b, <1>4, <2>2
<1>5. it \in LeftFolds(s, V, base, step)
  BY <1>b, <1>4 DEF D, LeftFolds
<1> QED
  BY <1>5

LEMMA UpTo ==
  ASSUME NEW k \in Nat, NEW n \in Nat, k < n
  PROVE  /\ 1 .. (k + 1) \in SUBSET (1 .. n) /\ 1 .. (k + 1) # {} /\ 1 .. k \in SUBSET (1 .. n)
         /\ Max(1 .. (k + 1)) = k + 1 /\ (1 .. (k + 1)) \ {k + 1} = 1 .. k /\ 1 .. 0 = {}
PROOF
  BY GreatestOfInterval

LEMMA LengthsSteps ==
  ASSUME NEW B, NEW s \in Seq(Seq(B))
  PROVE  \E c : /\ Lengths(s) = c[1 .. Len(s)] /\ c[1 .. 0] = 0
                /\ \A k \in Nat : k < Len(s) => c[1 .. (k + 1)] = c[1 .. k] + Len(s[k + 1])
PROOF
<1> DEFINE c == CHOOSE it : it = [S \in SUBSET DOMAIN s |->
                   IF S = {} THEN 0 ELSE it[S \ {Max(S)}] + Len(s[Max(S)])]
           step == [o \in Seq(B) |-> [n \in Nat |-> n + Len(o)]]
<1>0. DOMAIN s = 1 .. Len(s) /\ Len(s) \in Nat /\ \A i \in DOMAIN s : s[i] \in Seq(B)
  OBVIOUS
<1>1. Lengths(s) = c[DOMAIN s]
  BY DEF Lengths, FoldLeft, MapThenFoldSet
<1>2. step \in [Seq(B) -> [Nat -> Nat]]
  OBVIOUS
<1>a. PICK it \in LeftFolds(s, Nat, 0, step) : TRUE
  <2> HIDE DEF step
  <2>1. 0 \in Nat
    OBVIOUS
  <2>2. LeftFolds(s, Nat, 0, step) # {}
    BY <1>2, <2>1, FoldExists
  <2> QED
    BY <2>2
<1>3. /\ it \in [SUBSET DOMAIN s -> Nat]
      /\ \A S \in SUBSET DOMAIN s :
           it[S] = IF S = {} THEN 0 ELSE step[s[Max(S)]][it[S \ {Max(S)}]]
  BY DEF LeftFolds
<1>4. \A S \in SUBSET DOMAIN s :
        it[S] = IF S = {} THEN 0 ELSE it[S \ {Max(S)}] + Len(s[Max(S)])
  BY <1>0, <1>3, Greatest
<1>5. it = [S \in SUBSET DOMAIN s |-> IF S = {} THEN 0 ELSE it[S \ {Max(S)}] + Len(s[Max(S)])]
  BY <1>3, <1>4
<1>6. c = [S \in SUBSET DOMAIN s |-> IF S = {} THEN 0 ELSE c[S \ {Max(S)}] + Len(s[Max(S)])]
  BY <1>5
<1> HIDE DEF c
<1>7. \A S \in SUBSET DOMAIN s : c[S] = IF S = {} THEN 0 ELSE c[S \ {Max(S)}] + Len(s[Max(S)])
  BY <1>6
<1>8. c[1 .. 0] = 0
  <2>1. 1 .. 0 = {} /\ {} \in SUBSET DOMAIN s
    OBVIOUS
  <2> QED
    BY <1>7, <2>1
<1>9. ASSUME NEW k \in Nat, k < Len(s) PROVE c[1 .. (k + 1)] = c[1 .. k] + Len(s[k + 1])
  <2> DEFINE S == 1 .. (k + 1)
  <2>1. S \in SUBSET DOMAIN s /\ S # {} /\ Max(S) = k + 1 /\ S \ {k + 1} = 1 .. k
    BY <1>0, <1>9, UpTo
  <2> HIDE DEF S
  <2>2. c[S] = c[S \ {Max(S)}] + Len(s[Max(S)])
    BY <1>7, <2>1
  <2>3. c[S] = c[1 .. k] + Len(s[k + 1])
    BY <2>1, <2>2
  <2> QED
    BY <2>3 DEF S
<1> QED
  BY <1>0, <1>1, <1>8, <1>9

LEMMA LengthsOfAppend ==
  ASSUME NEW B, NEW s \in Seq(Seq(B)), NEW e \in Seq(B)
  PROVE  Lengths(s) \in Nat /\ Lengths(Append(s, e)) = Lengths(s) + Len(e)
PROOF
<1> DEFINE t == Append(s, e)
<1>0. /\ t \in Seq(Seq(B)) /\ Len(t) = Len(s) + 1 /\ Len(s) \in Nat /\ t[Len(s) + 1] = e
      /\ \A i \in 1 .. Len(s) : t[i] = s[i] /\ s[i] \in Seq(B) /\ Len(s[i]) \in Nat
  OBVIOUS
<1> HIDE DEF t
<1>1. PICK c : /\ Lengths(s) = c[1 .. Len(s)] /\ c[1 .. 0] = 0
               /\ \A k \in Nat : k < Len(s) => c[1 .. (k + 1)] = c[1 .. k] + Len(s[k + 1])
  BY LengthsSteps
<1>2. PICK d : /\ Lengths(t) = d[1 .. Len(t)] /\ d[1 .. 0] = 0
               /\ \A k \in Nat : k < Len(t) => d[1 .. (k + 1)] = d[1 .. k] + Len(t[k + 1])
  BY <1>0, LengthsSteps
<1> DEFINE P == {k \in Nat : k <= Len(s) => c[1 .. k] \in Nat /\ d[1 .. k] = c[1 .. k]}
<1>3. 0 \in P
  BY <1>1, <1>2
<1>4. ASSUME NEW k \in P PROVE k + 1 \in P
  <2> SUFFICES ASSUME k + 1 <= Len(s)
               PROVE  c[1 .. (k + 1)] \in Nat /\ d[1 .. (k + 1)] = c[1 .. (k + 1)]
    BY <1>4
  <2>1. k \in Nat /\ k < Len(s) /\ k < Len(t) /\ k <= Len(s) /\ k + 1 \in 1 .. Len(s)
    BY <1>0, <1>4
  <2>2. c[1 .. k] \in Nat /\ d[1 .. k] = c[1 .. k]
    BY <1>4, <2>1
  <2>3. Len(s[k + 1]) \in Nat /\ t[k + 1] = s[k + 1]
    BY <1>0, <2>1
  <2> QED
    BY <1>1, <1>2, <2>1, <2>2, <2>3
<1>5. Len(s) \in P
  <2> HIDE DEF P
  <2>1. P \in SUBSET Nat
    BY DEF P
  <2> QED
    BY <1>0, <1>3, <1>4, <2>1, Induct
<1>6. c[1 .. Len(s)] \in Nat /\ d[1 .. Len(s)] = c[1 .. Len(s)]
  BY <1>0, <1>5
<1>7. d[1 .. (Len(s) + 1)] = d[1 .. Len(s)] + Len(t[Len(s) + 1])
  <2>1. Len(s) < Len(t) /\ Len(s) \in Nat
    BY <1>0
  <2> QED
    BY <1>2, <2>1
<1> QED
  BY <1>0, <1>1, <1>2, <1>6, <1>7 DEF t

LEMMA LengthsOfNothing == Lengths(<<>>) = 0
PROOF
<1>1. <<>> \in Seq(Seq({})) /\ Len(<<>>) = 0
  OBVIOUS
<1>2. PICK c : Lengths(<<>>) = c[1 .. Len(<<>>)] /\ c[1 .. 0] = 0
  BY <1>1, LengthsSteps
<1> QED
  BY <1>1, <1>2

LEMMA NonemptySteps ==
  ASSUME NEW B, NEW s \in Seq(Seq(B))
  PROVE  \E c : /\ Nonempty(s) = c[1 .. Len(s)] /\ c[1 .. 0] = <<>>
                /\ \A k \in Nat : k < Len(s) =>
                     c[1 .. (k + 1)] = IF s[k + 1] = <<>> THEN c[1 .. k]
                                       ELSE Append(c[1 .. k], s[k + 1])
PROOF
<1> DEFINE V == Seq(Seq(B))
           Takes(t, o) == IF o = <<>> THEN t ELSE Append(t, o)
           c == CHOOSE it : it = [S \in SUBSET DOMAIN s |->
                   IF S = {} THEN <<>> ELSE Takes(it[S \ {Max(S)}], s[Max(S)])]
           step == [o \in Seq(B) |-> [t \in V |-> Takes(t, o)]]
<1>0. DOMAIN s = 1 .. Len(s) /\ Len(s) \in Nat /\ \A i \in DOMAIN s : s[i] \in Seq(B)
  OBVIOUS
<1>1. Nonempty(s) = c[DOMAIN s]
  BY DEF Nonempty, FoldLeft, MapThenFoldSet
<1>2. step \in [Seq(B) -> [V -> V]]
  <2>1. \A o \in Seq(B), t \in V : Takes(t, o) \in V
    OBVIOUS
  <2> QED
    BY <2>1
<1>a. PICK it \in LeftFolds(s, V, <<>>, step) : TRUE
  <2> HIDE DEF step
  <2>1. <<>> \in V
    OBVIOUS
  <2>2. LeftFolds(s, V, <<>>, step) # {}
    BY <1>2, <2>1, FoldExists
  <2> QED
    BY <2>2
<1>3. /\ it \in [SUBSET DOMAIN s -> V]
      /\ \A S \in SUBSET DOMAIN s :
           it[S] = IF S = {} THEN <<>> ELSE step[s[Max(S)]][it[S \ {Max(S)}]]
  BY DEF LeftFolds
<1> HIDE DEF V, Takes
<1>4. \A S \in SUBSET DOMAIN s :
        it[S] = IF S = {} THEN <<>> ELSE Takes(it[S \ {Max(S)}], s[Max(S)])
  BY <1>0, <1>3, Greatest
<1>5. it = [S \in SUBSET DOMAIN s |->
              IF S = {} THEN <<>> ELSE Takes(it[S \ {Max(S)}], s[Max(S)])]
  BY <1>3, <1>4
<1>6. c = [S \in SUBSET DOMAIN s |->
             IF S = {} THEN <<>> ELSE Takes(c[S \ {Max(S)}], s[Max(S)])]
  BY <1>5
<1> HIDE DEF c
<1>7. \A S \in SUBSET DOMAIN s :
        c[S] = IF S = {} THEN <<>> ELSE Takes(c[S \ {Max(S)}], s[Max(S)])
  BY <1>6
<1>8. c[1 .. 0] = <<>>
  <2>1. 1 .. 0 = {} /\ {} \in SUBSET DOMAIN s
    OBVIOUS
  <2> QED
    BY <1>7, <2>1
<1>9. ASSUME NEW k \in Nat, k < Len(s) PROVE c[1 .. (k + 1)] = Takes(c[1 .. k], s[k + 1])
  <2> DEFINE S == 1 .. (k + 1)
  <2>1. S \in SUBSET DOMAIN s /\ S # {} /\ Max(S) = k + 1 /\ S \ {k + 1} = 1 .. k
    BY <1>0, <1>9, UpTo
  <2> HIDE DEF S
  <2>2. c[S] = Takes(c[S \ {Max(S)}], s[Max(S)])
    BY <1>7, <2>1
  <2>3. c[S] = Takes(c[1 .. k], s[k + 1])
    BY <2>1, <2>2
  <2> QED
    BY <2>3 DEF S
<1> QED
  BY <1>0, <1>1, <1>8, <1>9 DEF Takes

LEMMA NonemptyOfAppend ==
  ASSUME NEW B, NEW s \in Seq(Seq(B)), NEW e \in Seq(B)
  PROVE  /\ Nonempty(s) \in Seq(Seq(B))
         /\ Nonempty(Append(s, e)) = IF e = <<>> THEN Nonempty(s) ELSE Append(Nonempty(s), e)
PROOF
<1> DEFINE t == Append(s, e)
           V == Seq(Seq(B))
           Takes(u, o) == IF o = <<>> THEN u ELSE Append(u, o)
<1>0. /\ t \in Seq(Seq(B)) /\ Len(t) = Len(s) + 1 /\ Len(s) \in Nat /\ t[Len(s) + 1] = e
      /\ \A i \in 1 .. Len(s) : t[i] = s[i] /\ s[i] \in Seq(B)
  OBVIOUS
<1>a. \A o \in Seq(B), u \in V : Takes(u, o) \in V
  OBVIOUS
<1>b. <<>> \in V
  OBVIOUS
<1> HIDE DEF t
<1>1. PICK c : /\ Nonempty(s) = c[1 .. Len(s)] /\ c[1 .. 0] = <<>>
               /\ \A k \in Nat : k < Len(s) => c[1 .. (k + 1)] = Takes(c[1 .. k], s[k + 1])
  BY NonemptySteps
<1>2. PICK d : /\ Nonempty(t) = d[1 .. Len(t)] /\ d[1 .. 0] = <<>>
               /\ \A k \in Nat : k < Len(t) => d[1 .. (k + 1)] = Takes(d[1 .. k], t[k + 1])
  BY <1>0, NonemptySteps
<1> HIDE DEF V, Takes
<1> DEFINE P == {k \in Nat : k <= Len(s) => c[1 .. k] \in V /\ d[1 .. k] = c[1 .. k]}
<1>3. 0 \in P
  BY <1>1, <1>2, <1>b
<1>4. ASSUME NEW k \in P PROVE k + 1 \in P
  <2> SUFFICES ASSUME k + 1 <= Len(s)
               PROVE  c[1 .. (k + 1)] \in V /\ d[1 .. (k + 1)] = c[1 .. (k + 1)]
    BY <1>4
  <2>1. k \in Nat /\ k < Len(s) /\ k < Len(t) /\ k <= Len(s) /\ k + 1 \in 1 .. Len(s)
    BY <1>0, <1>4
  <2>2. c[1 .. k] \in V /\ d[1 .. k] = c[1 .. k]
    BY <1>4, <2>1
  <2>3. s[k + 1] \in Seq(B) /\ t[k + 1] = s[k + 1]
    BY <1>0, <2>1
  <2> QED
    BY <1>1, <1>2, <1>a, <2>1, <2>2, <2>3
<1>5. Len(s) \in P
  <2> HIDE DEF P
  <2>1. P \in SUBSET Nat
    BY DEF P
  <2> QED
    BY <1>0, <1>3, <1>4, <2>1, Induct
<1>6. c[1 .. Len(s)] \in V /\ d[1 .. Len(s)] = c[1 .. Len(s)]
  BY <1>0, <1>5
<1>7. d[1 .. (Len(s) + 1)] = Takes(d[1 .. Len(s)], t[Len(s) + 1])
  <2>1. Len(s) < Len(t) /\ Len(s) \in Nat
    BY <1>0
  <2> QED
    BY <1>2, <2>1
<1>8. Nonempty(t) = Takes(Nonempty(s), e) /\ Nonempty(s) \in V
  BY <1>0, <1>1, <1>2, <1>6, <1>7
<1> QED
  BY <1>8 DEF t, V, Takes

LEMMA NonemptyOfNothing == Nonempty(<<>>) = <<>>
PROOF
<1>1. <<>> \in Seq(Seq({})) /\ Len(<<>>) = 0
  OBVIOUS
<1>2. PICK c : Nonempty(<<>>) = c[1 .. Len(<<>>)] /\ c[1 .. 0] = <<>>
  BY <1>1, NonemptySteps
<1> QED
  BY <1>1, <1>2

\* How MapThenSumSet adds up a bag of lengths: one after the other.
Adds(bag, c) ==
  \A S \in SUBSET DOMAIN bag :
    c[S] = IF S = {} THEN 0
           ELSE (CHOOSE x \in S : TRUE) * bag[CHOOSE x \in S : TRUE]
                  + c[S \ {CHOOSE x \in S : TRUE}]

Lengthy(bag) == /\ bag \in [DOMAIN bag -> Nat \ {0}]
                /\ DOMAIN bag \subseteq Nat /\ IsFiniteSet(DOMAIN bag)

LEMMA WaitingSteps ==
  ASSUME NEW bag, Lengthy(bag)
  PROVE  \E c : Waiting(bag) = c[DOMAIN bag] /\ Adds(bag, c)
PROOF
<1> DEFINE c == CHOOSE it : it = [S \in SUBSET DOMAIN bag |->
                   IF S = {} THEN 0
                   ELSE (CHOOSE x \in S : TRUE) * bag[CHOOSE x \in S : TRUE]
                         + it[S \ {CHOOSE x \in S : TRUE}]]
           pick == [S \in SUBSET DOMAIN bag |-> CHOOSE x \in S : TRUE]
           step == [x \in DOMAIN bag |-> [n \in Nat |-> x * bag[x] + n]]
<1>1. Waiting(bag) = c[DOMAIN bag]
  BY DEF Waiting, BagToSet, MapThenSumSet, MapThenFoldSet
<1>2. step \in [DOMAIN bag -> [Nat -> Nat]]
  <2>1. \A x \in DOMAIN bag, n \in Nat : x * bag[x] + n \in Nat
    BY DEF Lengthy
  <2> QED
    BY <2>1
<1>3. \A S \in SUBSET DOMAIN bag : S # {} => pick[S] \in S
  OBVIOUS
<1>a. PICK it \in Solutions(DOMAIN bag, Nat, 0, step, pick) : TRUE
  <2> HIDE DEF step, pick
  <2>1. 0 \in Nat /\ IsFiniteSet(DOMAIN bag)
    BY DEF Lengthy
  <2>2. Solutions(DOMAIN bag, Nat, 0, step, pick) # {}
    BY <1>2, <1>3, <2>1, SetRecursion
  <2> QED
    BY <2>2
<1>4. /\ it \in [SUBSET DOMAIN bag -> Nat]
      /\ \A S \in SUBSET DOMAIN bag :
           it[S] = IF S = {} THEN 0 ELSE step[pick[S]][it[S \ {pick[S]}]]
  BY DEF Solutions
<1>5. Adds(bag, it)
  <2>1. ASSUME NEW S \in SUBSET DOMAIN bag, S # {}
        PROVE  step[pick[S]][it[S \ {pick[S]}]] = pick[S] * bag[pick[S]] + it[S \ {pick[S]}]
    <3>1. pick[S] \in DOMAIN bag /\ it[S \ {pick[S]}] \in Nat
      BY <1>3, <1>4, <2>1
    <3> HIDE DEF pick
    <3> QED
      BY <3>1
  <2> QED
    BY <1>4, <2>1 DEF Adds
<1>6. it = [S \in SUBSET DOMAIN bag |->
                   IF S = {} THEN 0
                   ELSE (CHOOSE x \in S : TRUE) * bag[CHOOSE x \in S : TRUE]
                         + it[S \ {CHOOSE x \in S : TRUE}]]
  BY <1>4, <1>5 DEF Adds
<1>7. c = [S \in SUBSET DOMAIN bag |->
                   IF S = {} THEN 0
                   ELSE (CHOOSE x \in S : TRUE) * bag[CHOOSE x \in S : TRUE]
                         + c[S \ {CHOOSE x \in S : TRUE}]]
  BY <1>6
<1> HIDE DEF c
<1>8. Adds(bag, c)
  BY <1>7 DEF Adds
<1> QED
  BY <1>1, <1>8

\* In whatever order.
InAnyOrder(bag, c) ==
  \A S \in SUBSET DOMAIN bag : c[S] \in Nat /\ \A x \in S : c[S] = x * bag[x] + c[S \ {x}]

LEMMA AddsInAnyOrder ==
  ASSUME NEW bag, Lengthy(bag), NEW c, Adds(bag, c)
  PROVE  InAnyOrder(bag, c)
PROOF
<1> DEFINE D == DOMAIN bag
           F(x) == x * bag[x]
           Fine(S) == c[S] \in Nat /\ \A x \in S : c[S] = F(x) + c[S \ {x}]
           P == {n \in Nat : \A S \in SUBSET D : Cardinality(S) <= n => Fine(S)}
<1>0. \A S \in SUBSET D : /\ IsFiniteSet(S) /\ Cardinality(S) \in Nat
                          /\ Cardinality(S) <= Cardinality(D)
  BY FS_Subset, FS_CardinalityType DEF Lengthy
<1>1. \A S \in SUBSET D : \A x \in S : Cardinality(S \ {x}) = Cardinality(S) - 1
  BY <1>0, FS_RemoveElement
<1>2. \A x \in D : F(x) \in Nat
  BY DEF Lengthy
<1>e. c[{}] = 0
  <2>1. {} \in SUBSET DOMAIN bag
    OBVIOUS
  <2> QED
    BY <2>1 DEF Adds
<1>3. 0 \in P
  <2>1. ASSUME NEW S \in SUBSET D, Cardinality(S) <= 0 PROVE Fine(S)
    <3>1. S = {}
      BY <1>0, <2>1, FS_EmptySet
    <3> QED
      BY <1>e, <3>1
  <2> QED
    BY <2>1
<1>4. ASSUME NEW n \in P PROVE n + 1 \in P
  <2>1. ASSUME NEW S \in SUBSET D, Cardinality(S) <= n + 1 PROVE Fine(S)
    <3>0. \A T \in SUBSET D : Cardinality(T) <= n => Fine(T)
      BY <1>4
    <3>a. \A x \in S : Fine(S \ {x})
      <4> TAKE x \in S
      <4>1. Cardinality(S \ {x}) = Cardinality(S) - 1 /\ Cardinality(S) \in Nat /\ n \in Nat
        BY <1>0, <1>1, <1>4
      <4>2. Cardinality(S \ {x}) <= n /\ S \ {x} \in SUBSET D
        BY <2>1, <4>1
      <4> QED
        BY <3>0, <4>2
    <3>1. CASE S = {}
      BY <1>e, <3>1
    <3>2. CASE S # {}
      <4> DEFINE p == CHOOSE x \in S : TRUE
      <4>1. p \in S /\ p \in D
        BY <3>2
      <4>2. c[S] = F(p) + c[S \ {p}]
        BY <3>2 DEF Adds
      <4> HIDE DEF p, F
      <4>3. c[S] \in Nat
        <5>1. c[S \ {p}] \in Nat /\ F(p) \in Nat
          BY <1>2, <3>a, <4>1
        <5> QED
          BY <4>2, <5>1
      <4>4. ASSUME NEW x \in S PROVE c[S] = F(x) + c[S \ {x}]
        <5>1. CASE x = p
          BY <4>2, <5>1
        <5>2. CASE x # p
          <6>1. x \in S \ {p} /\ p \in S \ {x} /\ (S \ {p}) \ {x} = (S \ {x}) \ {p}
            BY <4>1, <5>2
          <6>2. c[S \ {p}] = F(x) + c[(S \ {p}) \ {x}]
            BY <3>a, <4>1, <6>1
          <6>3. c[S \ {x}] = F(p) + c[(S \ {x}) \ {p}]
            BY <3>a, <4>4, <6>1
          <6> DEFINE r == c[(S \ {p}) \ {x}]
          <6>4. r \in Nat
            <7>1. Fine(S \ {p}) /\ Cardinality((S \ {p}) \ {x}) = Cardinality(S \ {p}) - 1
              BY <1>1, <3>a, <4>1, <6>1
            <7>2. Cardinality(S \ {p}) = Cardinality(S) - 1 /\ Cardinality(S) \in Nat /\ n \in Nat
              BY <1>0, <1>1, <1>4, <4>1
            <7>3. Cardinality((S \ {p}) \ {x}) <= n /\ (S \ {p}) \ {x} \in SUBSET D
              BY <2>1, <7>1, <7>2
            <7> QED
              BY <3>0, <7>3
          <6>5. F(x) \in Nat /\ F(p) \in Nat
            BY <1>2, <4>1, <4>4
          <6> HIDE DEF r
          <6>6. c[S \ {p}] = F(x) + r /\ c[S \ {x}] = F(p) + r
            BY <6>1, <6>2, <6>3 DEF r
          <6> QED
            BY <4>2, <6>4, <6>5, <6>6
        <5> QED
          BY <5>1, <5>2
      <4> QED
        BY <4>3, <4>4
    <3> QED
      BY <3>1, <3>2
  <2> QED
    BY <1>4, <2>1
<1>5. Cardinality(D) \in P
  <2> HIDE DEF P
  <2>1. P \in SUBSET Nat
    BY DEF P
  <2> QED
    BY <1>0, <1>3, <1>4, <2>1, Induct
<1>6. \A S \in SUBSET D : Fine(S)
  BY <1>0, <1>5
<1> QED
  BY <1>6 DEF InAnyOrder

\* Where two bags agree they add up to the same.
LEMMA SameAdds ==
  ASSUME NEW bag, Lengthy(bag), NEW c, Adds(bag, c),
         NEW more, Lengthy(more), NEW d, Adds(more, d),
         NEW D, D \subseteq DOMAIN bag, D \subseteq DOMAIN more, \A x \in D : bag[x] = more[x]
  PROVE  c[D] = d[D]
PROOF
<1> DEFINE P == {n \in Nat : \A S \in SUBSET D : Cardinality(S) <= n => c[S] = d[S]}
<1>0. \A S \in SUBSET D : IsFiniteSet(S) /\ Cardinality(S) \in Nat
  BY FS_Subset, FS_CardinalityType DEF Lengthy
<1>1. /\ \A S \in SUBSET D : \A x \in S : c[S] = x * bag[x] + c[S \ {x}]
      /\ \A S \in SUBSET D : \A x \in S : d[S] = x * more[x] + d[S \ {x}]
  <2>1. InAnyOrder(bag, c) /\ InAnyOrder(more, d)
    BY AddsInAnyOrder
  <2> QED
    BY <2>1 DEF InAnyOrder
<1>2. c[{}] = 0 /\ d[{}] = 0
  <2>1. {} \in SUBSET DOMAIN bag /\ {} \in SUBSET DOMAIN more
    OBVIOUS
  <2> QED
    BY <2>1 DEF Adds
<1>3. 0 \in P
  <2>1. ASSUME NEW S \in SUBSET D, Cardinality(S) <= 0 PROVE S = {}
    BY <1>0, <2>1, FS_EmptySet
  <2> QED
    BY <1>2, <2>1
<1>4. ASSUME NEW n \in P PROVE n + 1 \in P
  <2>1. ASSUME NEW S \in SUBSET D, Cardinality(S) <= n + 1 PROVE c[S] = d[S]
    <3>1. CASE S = {}
      BY <1>2, <3>1
    <3>2. CASE S # {}
      <4> PICK x \in S : TRUE
        BY <3>2
      <4>1. Cardinality(S \ {x}) = Cardinality(S) - 1 /\ Cardinality(S) \in Nat /\ n \in Nat
        BY <1>0, <1>4, FS_RemoveElement
      <4>2. Cardinality(S \ {x}) <= n /\ S \ {x} \in SUBSET D
        BY <2>1, <4>1
      <4>3. c[S \ {x}] = d[S \ {x}]
        BY <1>4, <4>2
      <4>4. c[S] = x * bag[x] + c[S \ {x}] /\ d[S] = x * more[x] + d[S \ {x}] /\ bag[x] = more[x]
        BY <1>1
      <4> QED
        BY <4>3, <4>4
    <3> QED
      BY <3>1, <3>2
  <2> QED
    BY <1>4, <2>1
<1>5. Cardinality(D) \in P
  <2> HIDE DEF P
  <2>1. P \in SUBSET Nat
    BY DEF P
  <2> QED
    BY <1>0, <1>3, <1>4, <2>1, Induct
<1>6. Cardinality(D) <= Cardinality(D)
  BY <1>0
<1> QED
  BY <1>5, <1>6

LEMMA WaitingForMore ==
  ASSUME NEW bag, Lengthy(bag), NEW len \in Nat
  PROVE  /\ Lengthy(bag (+) SetToBag({len})) /\ Waiting(bag) \in Nat
         /\ Waiting(bag (+) SetToBag({len})) = Waiting(bag) + len
PROOF
<1> DEFINE more == bag (+) SetToBag({len})
           D == DOMAIN bag
           n == IF len \in D THEN bag[len] ELSE 0
<1>1. /\ DOMAIN more = D \cup {len} /\ more[len] = n + 1
      /\ \A x \in D \ {len} : more[x] = bag[x]
      /\ more = [x \in D \cup {len} |-> more[x]]
  <2>1. /\ DOMAIN SetToBag({len}) = {len} /\ SetToBag({len})[len] = 1
    BY DEF SetToBag
  <2>2. more = [x \in D \cup {len} |-> (IF x \in D THEN bag[x] ELSE 0)
                                       + (IF x \in {len} THEN SetToBag({len})[x] ELSE 0)]
    BY <2>1 DEF (+)
  <2>3. \A x \in D : bag[x] \in Nat
    BY DEF Lengthy
  <2> HIDE DEF more
  <2>4. /\ DOMAIN more = D \cup {len}
        /\ \A x \in D \cup {len} : more[x] = (IF x \in D THEN bag[x] ELSE 0)
                                       + (IF x \in {len} THEN SetToBag({len})[x] ELSE 0)
    BY <2>2
  <2>5. more[len] = n + 1
    BY <2>1, <2>4
  <2>6. \A x \in D \ {len} : more[x] = bag[x]
    BY <2>3, <2>4
  <2>7. more = [x \in D \cup {len} |-> more[x]]
    BY <2>2, <2>4
  <2> QED
    BY <2>4, <2>5, <2>6, <2>7
<1>2. n \in Nat /\ \A x \in D : bag[x] \in Nat \ {0}
  BY DEF Lengthy
<1>3. Lengthy(more)
  <2> HIDE DEF more, n
  <2>1. D \cup {len} \subseteq Nat /\ IsFiniteSet(D \cup {len})
    BY FS_AddElement DEF Lengthy
  <2>2. n + 1 \in Nat \ {0}
    BY <1>2
  <2>3. \A x \in D \cup {len} : more[x] \in Nat \ {0}
    BY <1>1, <1>2, <2>2
  <2> QED
    BY <1>1, <2>1, <2>3 DEF Lengthy
<1> HIDE DEF more, D, n
<1>4. PICK c : Waiting(bag) = c[D] /\ Adds(bag, c)
  BY WaitingSteps DEF D
<1>5. PICK d : Waiting(more) = d[DOMAIN more] /\ Adds(more, d)
  BY <1>3, WaitingSteps
<1> DEFINE R == D \ {len}
<1>6. c[R] = d[R] /\ c[R] \in Nat /\ c[D] \in Nat
  <2>1. R \subseteq DOMAIN bag /\ R \subseteq DOMAIN more /\ \A x \in R : bag[x] = more[x]
    BY <1>1 DEF D
  <2>2. c[R] = d[R]
    <3> HIDE DEF R
    <3> QED
      BY <1>3, <1>4, <1>5, <2>1, SameAdds
  <2>a. InAnyOrder(bag, c)
    BY <1>4, AddsInAnyOrder
  <2>3. c[R] \in Nat /\ c[D] \in Nat
    BY <2>a DEF D, InAnyOrder
  <2> QED
    BY <2>2, <2>3
<1>7. d[DOMAIN more] = len * (n + 1) + d[R]
  <2>1. len \in DOMAIN more /\ (DOMAIN more) \ {len} = R
    BY <1>1
  <2>2. InAnyOrder(more, d)
    BY <1>3, <1>5, AddsInAnyOrder
  <2>3. d[DOMAIN more] = len * more[len] + d[(DOMAIN more) \ {len}]
    BY <2>1, <2>2 DEF InAnyOrder
  <2> QED
    BY <1>1, <2>1, <2>3
<1>8. c[D] = len * n + c[R]
  <2>1. CASE len \in D
    <3>1. InAnyOrder(bag, c)
      BY <1>4, AddsInAnyOrder
    <3> QED
      BY <2>1, <3>1 DEF D, n, InAnyOrder
  <2>2. CASE len \notin D
    <3>1. R = D /\ n = 0 /\ len * 0 = 0
      BY <2>2 DEF n
    <3> QED
      BY <1>6, <3>1
  <2> QED
    BY <2>1, <2>2
<1>9. len * (n + 1) = len * n + len /\ len * n \in Nat
  BY <1>2
<1>10. Waiting(more) = Waiting(bag) + len
  <2> DEFINE a == len * n
             b == len * (n + 1)
  <2>1. a \in Nat /\ b = a + len
    BY <1>9
  <2>2. d[DOMAIN more] = b + c[R] /\ c[D] = a + c[R]
    BY <1>6, <1>7, <1>8
  <2> HIDE DEF a, b
  <2> QED
    BY <1>4, <1>5, <1>6, <2>1, <2>2
<1> QED
  BY <1>3, <1>4, <1>6, <1>10 DEF more

LEMMA WaitingForLess ==
  ASSUME NEW bag, Lengthy(bag), NEW len \in DOMAIN bag
  PROVE  /\ Lengthy(bag (-) SetToBag({len})) /\ Waiting(bag (-) SetToBag({len})) \in Nat
         /\ Waiting(bag) = Waiting(bag (-) SetToBag({len})) + len
PROOF
<1> DEFINE less == bag (-) SetToBag({len})
           D == {x \in DOMAIN bag : x # len \/ bag[x] > 1}
<1>0. len \in Nat /\ \A x \in DOMAIN bag : bag[x] \in Nat /\ bag[x] > 0 /\ bag[x] # 0
  BY DEF Lengthy
<1>1. /\ DOMAIN less = D
      /\ \A x \in D : less[x] = IF x = len THEN bag[x] - 1 ELSE bag[x]
      /\ less = [x \in D |-> less[x]]
  <2>1. \A x \in DOMAIN bag : (IF x = len THEN bag[x] - 1 ELSE bag[x]) > 0 <=> x # len \/ bag[x] > 1
    BY <1>0
  <2> QED
    BY <2>1 DEF (-), SetToBag
<1> HIDE DEF less
<1>2. Lengthy(less)
  <2>1. D \subseteq Nat /\ IsFiniteSet(D)
    BY FS_Subset DEF Lengthy
  <2>2. \A x \in D : less[x] \in Nat \ {0}
    BY <1>0, <1>1
  <2> QED
    BY <1>1, <2>1, <2>2 DEF Lengthy
<1>3. less (+) SetToBag({len}) = bag
  <2> DEFINE back == less (+) SetToBag({len})
  <2>1. /\ DOMAIN back = D \cup {len} /\ back = [x \in D \cup {len} |-> back[x]]
        /\ \A x \in D \cup {len} :
             back[x] = (IF x \in D THEN less[x] ELSE 0) + (IF x = len THEN 1 ELSE 0)
    BY <1>1 DEF (+), SetToBag
  <2> HIDE DEF back
  <2>2. D \cup {len} = DOMAIN bag
    OBVIOUS
  <2>3. \A x \in DOMAIN bag : back[x] = bag[x]
    <3> TAKE x \in DOMAIN bag
    <3>1. CASE x # len
      BY <1>0, <1>1, <2>1, <3>1
    <3>2. CASE x = len /\ bag[x] > 1
      BY <1>0, <1>1, <2>1, <3>2
    <3>3. CASE x = len /\ ~(bag[x] > 1)
      <4>1. x \notin D /\ bag[x] = 1
        BY <1>0, <3>3
      <4> QED
        BY <2>1, <3>3, <4>1
    <3> QED
      BY <3>1, <3>2, <3>3
  <2>4. bag = [x \in DOMAIN bag |-> bag[x]]
    BY DEF Lengthy
  <2> QED
    BY <2>1, <2>2, <2>3, <2>4 DEF back
<1>4. Waiting(less) \in Nat /\ Waiting(less (+) SetToBag({len})) = Waiting(less) + len
  BY <1>0, <1>2, WaitingForMore
<1> QED
  BY <1>2, <1>3, <1>4 DEF less

LEMMA WaitingForNothing == Lengthy(EmptyBag) /\ Waiting(EmptyBag) = 0
PROOF
<1>1. DOMAIN EmptyBag = {} /\ EmptyBag = [x \in {} |-> EmptyBag[x]]
  BY DEF EmptyBag, SetToBag
<1>2. Lengthy(EmptyBag)
  BY <1>1, FS_EmptySet DEF Lengthy
<1>3. PICK c : Waiting(EmptyBag) = c[DOMAIN EmptyBag] /\ Adds(EmptyBag, c)
  BY <1>2, WaitingSteps
<1>4. {} \in SUBSET DOMAIN EmptyBag
  OBVIOUS
<1> QED
  BY <1>1, <1>2, <1>3, <1>4 DEF Adds

-----------------------------------------------------------------------------
(* The server's counter and the closures on their way to it.                   *)

\* The packages that the counter is about, and their bytes.
Moved == IF from = "client" THEN got ELSE sent
Traffic == IF from = "client" THEN Lengths(got) ELSE Lengths(sent) + headLen * Len(sent)

\* The counter can hold the traffic, and no package comes so near to 32 bits
\* that its length overflows when it is added to the bytes.
Fits ==
  /\ Traffic < Capacity
  /\ \A i \in 1 .. Len(Moved) : Len(Moved[i]) + headLen + Unit <= Word

\* What writers and the reader know of the lengths they post.
Measured ==
  /\ from \in {"server", "client"} /\ pc \in [Writer -> {"idle", "encode", "write", "reset"}]
  /\ from = "server" => \A w \in Writer :
       /\ pc[w] = "idle" => buf[w] = <<>>
       /\ pc[w] = "encode" => Len(buf[w]) = headLen
       /\ pc[w] = "write" => Len(buf[w]) = headLen + Len(obj[w])
  /\ rpc = "head" => part = <<>>
  /\ rpc = "body" => Len(part) <= pkglen
  /\ rpc = "decode" => Len(part) = pkglen
  /\ sent \in Seq(Seq(Byte)) /\ got \in Seq(Seq(Byte)) /\ Lengthy(posted)

Counted ==
  Fits => /\ counter \in DxDiskSize /\ TrafficAddsUp
          /\ \A len \in DOMAIN posted : len + Unit <= Word

TInv == IInv /\ Measured /\ Counted

LEMMA TotalIsNat ==
  ASSUME NEW s \in DxDiskSize
  PROVE  Total(s) \in Nat
PROOF
<1>1. /\ s.SizeByte \in Nat /\ s.SizeKB \in Nat /\ s.SizeMB \in Nat /\ s.SizeGB \in Nat
      /\ s.SizeTB \in Nat
  BY WordAssumption DEF DxDiskSize, Digit
<1> DEFINE g == s.SizeGB + Unit * s.SizeTB
           m == s.SizeMB + Unit * g
           k == s.SizeKB + Unit * m
<1>2. g \in Nat
  BY <1>1, TwoSums
<1> HIDE DEF g
<1>3. m \in Nat
  BY <1>1, <1>2, TwoSums
<1> HIDE DEF m
<1>4. k \in Nat
  BY <1>1, <1>3, TwoSums
<1> HIDE DEF k
<1>5. s.SizeByte + Unit * k \in Nat
  BY <1>1, <1>4, TwoSums
<1> QED
  BY <1>5, Zenon DEF Total, g, m, k

LEMMA InitTInv == Init => TInv
PROOF
<1> SUFFICES ASSUME Init PROVE TInv
  OBVIOUS
<1>1. IInv
  BY InitIInv
<1>2. Lengthy(EmptyBag) /\ Waiting(EmptyBag) = 0 /\ Lengths(<<>>) = 0 /\ DOMAIN EmptyBag = {}
  BY WaitingForNothing, LengthsOfNothing DEF EmptyBag, SetToBag
<1>3. Measured
  <2>1. <<>> \in Seq(Seq(Byte))
    OBVIOUS
  <2>2. buf = [b \in Writer \cup {Shared} |-> <<>>] /\ pc = [w \in Writer |-> "idle"]
        /\ sent = <<>> /\ got = <<>> /\ posted = EmptyBag /\ rpc = "head" /\ part = <<>>
        /\ from \in {"server", "client"}
    BY DEF Init
  <2> QED
    BY <1>2, <2>1, <2>2 DEF Measured
<1>4. Counted
  <2>1. /\ sent = <<>> /\ got = <<>> /\ posted = EmptyBag /\ counter = Zeroed /\ headLen \in Nat
        /\ Len(<<>>) = 0
    BY DEF Init
  <2>2. Zeroed \in DxDiskSize /\ Total(Zeroed) = 0
    <3>1. 0 \in Digit /\ 0 \in 0 .. Word - 1 /\ Unit * 0 = 0
      BY UnitAssumption, WordAssumption DEF Digit
    <3> QED
      BY <3>1 DEF Zeroed, DxDiskSize, Total
  <2>3. TrafficAddsUp
    <3>1. headLen * 0 = 0
      BY <2>1
    <3> QED
      BY <1>2, <2>1, <2>2, <3>1 DEF TrafficAddsUp
  <2> QED
    BY <1>2, <2>1, <2>2, <2>3 DEF Counted
<1> QED
  BY <1>1, <1>3, <1>4 DEF TInv

\* The traffic only grows, so that what fits has fitted.
LEMMA OneMoreFits ==
  ASSUME TInv, NEW o \in Seq(Byte), Moved' = Append(Moved, o),
         UNCHANGED <<from, headLen>>, Fits'
  PROVE  /\ Fits /\ Len(o) + headLen + Unit <= Word
         /\ Traffic' = Traffic + Len(o) + IF from = "client" THEN 0 ELSE headLen
PROOF
<1>1. Moved \in Seq(Seq(Byte)) /\ sent \in Seq(Seq(Byte)) /\ got \in Seq(Seq(Byte))
      /\ headLen \in {2, 4}
  BY DEF TInv, IInv, Bytes, Measured, Moved
<1>2. Lengths(Moved) \in Nat /\ Lengths(Append(Moved, o)) = Lengths(Moved) + Len(o)
  BY <1>1, LengthsOfAppend
<1>3. /\ Len(Moved) \in Nat /\ Len(o) \in Nat /\ Len(Append(Moved, o)) = Len(Moved) + 1
      /\ Append(Moved, o)[Len(Moved) + 1] = o
      /\ \A i \in 1 .. Len(Moved) : Append(Moved, o)[i] = Moved[i]
  BY <1>1
<1>4. /\ Traffic = Lengths(Moved) + IF from = "client" THEN 0 ELSE headLen * Len(Moved)
      /\ Traffic' = Lengths(Moved') + IF from = "client" THEN 0 ELSE headLen * Len(Moved')
  <2>1. CASE from = "client"
    <3>1. Moved = got /\ Moved' = got' /\ Traffic = Lengths(got) /\ Traffic' = Lengths(got')
      BY <2>1 DEF Moved, Traffic
    <3>2. Lengths(Moved') \in Nat
      BY <1>2, <1>3
    <3>3. Lengths(Moved) + 0 = Lengths(Moved) /\ Lengths(Moved') + 0 = Lengths(Moved')
      BY <1>2, <3>2
    <3> QED
      BY <2>1, <3>1, <3>3
  <2>2. CASE from # "client"
    BY <2>2 DEF Moved, Traffic
  <2> QED
    BY <2>1, <2>2
<1>5. headLen * (Len(Moved) + 1) = headLen * Len(Moved) + headLen /\ headLen * Len(Moved) \in Nat
  BY <1>1, <1>3
<1>6. /\ Traffic \in Nat
      /\ Traffic' = Traffic + Len(o) + IF from = "client" THEN 0 ELSE headLen
  <2> DEFINE h == headLen * Len(Moved)
             l == Lengths(Moved)
  <2>1. /\ Traffic = l + IF from = "client" THEN 0 ELSE h
        /\ Traffic' = (l + Len(o)) + IF from = "client" THEN 0 ELSE h + headLen
        /\ l \in Nat /\ h \in Nat
    BY <1>2, <1>3, <1>4, <1>5
  <2>2. Len(o) \in Nat /\ headLen \in Nat
    BY <1>1
  <2> DEFINE k == Len(o)
             z == IF from = "client" THEN 0 ELSE headLen
             y == IF from = "client" THEN 0 ELSE h
  <2>3. /\ Traffic = l + y /\ Traffic' = (l + k) + (y + z)
        /\ l \in Nat /\ k \in Nat /\ y \in Nat /\ z \in Nat
    BY <2>1, <2>2
  <2> HIDE DEF l, h, k, y, z
  <2>4. Traffic \in Nat /\ Traffic' = Traffic + k + z
    BY <2>3
  <2> QED
    BY <2>4 DEF k, z
<1>7. Capacity \in Nat
  BY UnitAssumption, WordAssumption DEF Capacity
<1>8. Fits /\ Len(o) + headLen + Unit <= Word
  <2>1. Traffic' < Capacity /\ \A i \in 1 .. Len(Moved') : Len(Moved'[i]) + headLen + Unit <= Word
    BY DEF Fits
  <2>2. Traffic < Capacity
    BY <1>1, <1>3, <1>6, <1>7, <2>1
  <2>3. \A i \in 1 .. Len(Moved) : i \in 1 .. Len(Moved') /\ Moved'[i] = Moved[i]
    BY <1>3
  <2>4. Len(Moved) + 1 \in 1 .. Len(Moved') /\ Moved'[Len(Moved) + 1] = o
    BY <1>3
  <2> QED
    BY <2>1, <2>2, <2>3, <2>4 DEF Fits
<1> QED
  BY <1>6, <1>8

LEMMA UsualTraffic == TrafficAddsUp <=> Total(counter) + Waiting(posted) = Traffic
PROOF
  BY DEF TrafficAddsUp, Traffic

\* What the counter is about, the counter and the closures stay.
LEMMA SameTraffic ==
  ASSUME TInv, UNCHANGED <<from, headLen, counter, posted>>, Moved' = Moved
  PROVE  Counted'
PROOF
<1>1. Traffic' = Traffic
  BY DEF Moved, Traffic
<1>2. Fits' => Fits
  BY <1>1 DEF Fits
<1> QED
  BY <1>1, <1>2, UsualTraffic DEF TInv, Counted, TrafficAddsUp, Traffic

\* A package more, and the closure that counts it.
LEMMA OneMorePosted ==
  ASSUME TInv, NEW o \in Seq(Byte), Moved' = Append(Moved, o),
         UNCHANGED <<from, headLen, counter>>,
         NEW len, len = Len(o) + IF from = "client" THEN 0 ELSE headLen,
         posted' = posted (+) SetToBag({len})
  PROVE  Counted' /\ Lengthy(posted)'
PROOF
<1>1. headLen \in {2, 4} /\ Len(o) \in Nat /\ Lengthy(posted)
  BY DEF TInv, IInv, Bytes, Measured
<1>2. len \in Nat /\ len <= Len(o) + headLen
  BY <1>1
<1>3. Lengthy(posted') /\ Waiting(posted) \in Nat /\ Waiting(posted') = Waiting(posted) + len
  BY <1>1, <1>2, WaitingForMore
<1>4. SUFFICES ASSUME Fits'
               PROVE  /\ counter' \in DxDiskSize /\ TrafficAddsUp'
                      /\ \A l \in DOMAIN posted' : l + Unit <= Word
  BY <1>3 DEF Counted, Lengthy
<1>5. /\ Fits /\ Len(o) + headLen + Unit <= Word
      /\ Traffic' = Traffic + Len(o) + IF from = "client" THEN 0 ELSE headLen
  BY <1>4, OneMoreFits
<1>6. /\ counter \in DxDiskSize /\ Total(counter) + Waiting(posted) = Traffic
      /\ \A l \in DOMAIN posted : l + Unit <= Word
  BY <1>5, UsualTraffic DEF TInv, Counted
<1>7. Total(counter) \in Nat
  BY <1>6, TotalIsNat
<1>8. Traffic' = Traffic + len
  <2> DEFINE z == IF from = "client" THEN 0 ELSE headLen
  <2>1. Traffic \in Nat /\ z \in Nat
    BY <1>1, <1>3, <1>6, <1>7
  <2>2. Traffic' = Traffic + Len(o) + z /\ len = Len(o) + z
    BY <1>5
  <2> HIDE DEF z
  <2> QED
    BY <1>1, <2>1, <2>2
<1>9. Total(counter') + Waiting(posted') = Traffic'
  <2> DEFINE t == Total(counter)
             v == Waiting(posted)
  <2>1. t \in Nat /\ v \in Nat /\ t + v = Traffic /\ Total(counter') = t
        /\ Waiting(posted') = v + len
    BY <1>3, <1>6, <1>7
  <2> HIDE DEF t, v
  <2> QED
    BY <1>2, <1>8, <2>1
<1>10. \A l \in DOMAIN posted' : l + Unit <= Word
  <2>1. DOMAIN posted' = DOMAIN posted \cup {len}
    BY DEF (+), SetToBag
  <2>2. len + Unit <= Word
    BY <1>1, <1>2, <1>5, UnitAssumption, WordAssumption
  <2> QED
    BY <1>6, <2>1, <2>2
<1> QED
  BY <1>6, <1>9, <1>10 DEF TrafficAddsUp, Traffic

LEMMA AddDataSizeTInv == ASSUME TInv, AddDataSize PROVE TInv'
PROOF
<1>1. PICK len \in BagToSet(posted) : /\ counter' = AddByteSize(counter, len)
                                      /\ posted' = posted (-) SetToBag({len})
  BY DEF AddDataSize
<1>2. Lengthy(posted) /\ len \in DOMAIN posted
  BY DEF TInv, Measured, BagToSet
<1>3. /\ Lengthy(posted') /\ Waiting(posted') \in Nat /\ len \in Nat
      /\ Waiting(posted) = Waiting(posted') + len
  BY <1>1, <1>2, WaitingForLess DEF Lengthy
<1>4. IInv'
  BY NextIInv DEF Next, TInv
<1>5. UNCHANGED <<from, headLen, pc, obj, buf, sent, rpc, pkglen, part, got>>
  BY DEF AddDataSize, setup, writers, reader
<1>6. Measured'
  BY <1>3, <1>5, Zenon DEF TInv, Measured
<1>7. Traffic' = Traffic /\ (Fits' => Fits)
  BY <1>5 DEF Traffic, Fits, Moved
<1>8. Counted'
  <2> SUFFICES ASSUME Fits
               PROVE  /\ counter' \in DxDiskSize /\ TrafficAddsUp'
                      /\ \A l \in DOMAIN posted' : l + Unit <= Word
    BY <1>7 DEF Counted
  <2>1. /\ counter \in DxDiskSize /\ Total(counter) + Waiting(posted) = Traffic
        /\ \A l \in DOMAIN posted : l + Unit <= Word
    BY UsualTraffic DEF TInv, Counted
  <2>2. Total(counter) \in Nat /\ Capacity \in Nat
    BY <2>1, TotalIsNat, UnitAssumption, WordAssumption DEF Capacity
  <2>3. counter.SizeByte + len < Word
    <3>1. counter.SizeByte \in Nat /\ counter.SizeByte < Unit /\ Unit \in Nat /\ Word \in Nat
      BY <2>1, UnitAssumption, WordAssumption DEF DxDiskSize, Digit
    <3>2. len + Unit <= Word
      BY <1>2, <2>1
    <3> QED
      BY <1>3, <3>1, <3>2
  <2>4. Total(counter) + len < Capacity
    <3>1. Traffic < Capacity
      BY DEF Fits
    <3> QED
      BY <1>3, <2>1, <2>2, <3>1
  <2>5. counter' \in DxDiskSize /\ Total(counter') = Total(counter) + len
    BY <1>1, <1>3, <2>1, <2>3, <2>4, AddByteSizeKeepsTotal
  <2>6. Total(counter') + Waiting(posted') = Traffic'
    BY <1>3, <1>7, <2>1, <2>2, <2>5
  <2>7. DOMAIN posted' \subseteq DOMAIN posted
    BY <1>1 DEF (-), SetToBag
  <2> QED
    BY <2>1, <2>5, <2>6, <2>7 DEF TrafficAddsUp, Traffic
<1> QED
  BY <1>4, <1>6, <1>8 DEF TInv

\* Whose lengths a server's call of SendData has changed: its own only.
MeasuredOf(w) ==
  /\ pc[w] = "idle" => buf[w] = <<>>
  /\ pc[w] = "encode" => Len(buf[w]) = headLen
  /\ pc[w] = "write" => Len(buf[w]) = headLen + Len(obj[w])

LEMMA OthersMeasured ==
  ASSUME TInv, NEW w \in Writer, UNCHANGED <<from, headLen, rpc, pkglen, part, got>>,
         NEW step \in {"idle", "encode", "write", "reset"}, pc' = [pc EXCEPT ![w] = step],
         \A v \in Writer \ {w} : obj'[v] = obj[v],
         from = "server" => \A v \in Writer \ {w} : buf'[v] = buf[v],
         from = "server" => MeasuredOf(w)',
         sent' \in Seq(Seq(Byte)), Lengthy(posted')
  PROVE  Measured'
PROOF
<1>1. pc' \in [Writer -> {"idle", "encode", "write", "reset"}]
  BY DEF TInv, Measured
<1>2. ASSUME from = "server", NEW v \in Writer PROVE MeasuredOf(v)'
  <2>1. CASE v = w
    BY <1>2, <2>1
  <2>2. CASE v # w
    <3>1. pc'[v] = pc[v] /\ obj'[v] = obj[v] /\ buf'[v] = buf[v]
      BY <1>2, <2>2 DEF TInv, Measured
    <3> QED
      BY <1>2, <3>1, Zenon DEF TInv, Measured, MeasuredOf
  <2> QED
    BY <2>1, <2>2
<1> QED
  BY <1>1, <1>2, Zenon DEF TInv, Measured, MeasuredOf, Lengthy

LEMMA OwnBuffer ==
  ASSUME TInv, from = "server", NEW w \in Writer, NEW b, buf' = [buf EXCEPT ![BufferOf(w)] = b]
  PROVE  buf'[w] = b /\ BufferOf(w) = w /\ \A v \in Writer \ {w} : buf'[v] = buf[v]
PROOF
  BY DEF TInv, IInv, Bytes, BufferOf

LEMMA WriterTInv ==
  ASSUME TInv, NEW w \in Writer,
         PutHead(w) \/ Encode(w) \/ EncodeFails(w) \/ Write(w) \/ WriteFails(w) \/ Reset(w)
  PROVE  TInv'
PROOF
<1>1. IInv' /\ IInv
  BY NextIInv DEF Next, TInv
<1>2. UNCHANGED <<from, headLen, rpc, pkglen, part, got, counter>>
  BY DEF PutHead, Encode, EncodeFails, Write, WriteFails, Reset, setup, reader, traffic
<1>3. /\ headLen \in {2, 4} /\ obj \in [Writer -> Seq(Byte)] /\ sent \in Seq(Seq(Byte))
      /\ buf \in [Writer \cup {Shared} -> Seq(Byte)] /\ BufferOf(w) \in Writer \cup {Shared}
      /\ Lengthy(posted) /\ pc \in [Writer -> {"idle", "encode", "write", "reset"}]
      /\ from = "server" => MeasuredOf(w)
  BY <1>1 DEF IInv, Bytes, TInv, Measured, MeasuredOf, BufferOf
<1>4. CASE PutHead(w) \/ Encode(w) \/ EncodeFails(w) \/ WriteFails(w) \/ Reset(w)
  <2>1. UNCHANGED <<sent, posted>>
    BY <1>4 DEF PutHead, Encode, EncodeFails, WriteFails, Reset, traffic
  <2>2. Counted'
    BY <1>2, <2>1, SameTraffic DEF Moved
  <2>3. \A v \in Writer \ {w} : obj'[v] = obj[v]
    <3>1. CASE PutHead(w)
      BY <1>3, <3>1 DEF PutHead
    <3>2. CASE EncodeFails(w) \/ WriteFails(w)
      BY <1>3, <3>2 DEF EncodeFails, WriteFails
    <3>3. CASE Encode(w) \/ Reset(w)
      BY <3>3 DEF Encode, Reset
    <3> QED
      BY <1>4, <3>1, <3>2, <3>3
  <2>4. sent' \in Seq(Seq(Byte)) /\ Lengthy(posted')
    BY <1>3, <2>1 DEF Lengthy
  <2>5. CASE PutHead(w)
    <3>1. pc[w] = "idle" /\ pc' = [pc EXCEPT ![w] = "encode"]
          /\ buf' = [buf EXCEPT ![BufferOf(w)] = buf[BufferOf(w)] \o PutUint(1)]
      BY <2>5 DEF PutHead
    <3>2. PutUint(1) \in Seq(Byte) /\ Len(PutUint(1)) = headLen
      BY <1>3, PutUintIsBytes
    <3>3. ASSUME from = "server"
          PROVE  MeasuredOf(w)' /\ \A v \in Writer \ {w} : buf'[v] = buf[v]
      <4>1. buf'[w] = buf[w] \o PutUint(1) /\ \A v \in Writer \ {w} : buf'[v] = buf[v]
        BY <3>1, <3>3, OwnBuffer
      <4>2. buf[w] = <<>>
        BY <1>3, <3>1, <3>3 DEF MeasuredOf
      <4>3. Len(buf'[w]) = headLen
        BY <3>2, <4>1, <4>2
      <4>4. pc'[w] = "encode"
        BY <1>3, <3>1
      <4> QED
        BY <1>2, <4>1, <4>3, <4>4 DEF MeasuredOf
    <3>4. Measured'
      BY <1>2, <2>3, <2>4, <3>1, <3>3, OthersMeasured
    <3> QED
      BY <1>1, <2>2, <3>4 DEF TInv
  <2>6. CASE Encode(w)
    <3>1. pc[w] = "encode" /\ pc' = [pc EXCEPT ![w] = "write"] /\ obj' = obj
          /\ buf' = [buf EXCEPT ![BufferOf(w)] = buf[BufferOf(w)] \o obj[w]]
      BY <2>6 DEF Encode
    <3>2. obj[w] \in Seq(Byte)
      BY <1>3
    <3>3. ASSUME from = "server"
          PROVE  MeasuredOf(w)' /\ \A v \in Writer \ {w} : buf'[v] = buf[v]
      <4>1. buf'[w] = buf[w] \o obj[w] /\ \A v \in Writer \ {w} : buf'[v] = buf[v]
        BY <3>1, <3>3, OwnBuffer
      <4>2. Len(buf[w]) = headLen /\ buf[w] \in Seq(Byte)
        BY <1>3, <3>1, <3>3 DEF MeasuredOf
      <4>3. Len(buf'[w]) = headLen + Len(obj'[w])
        <5>1. Len(buf[w] \o obj[w]) = Len(buf[w]) + Len(obj[w])
          BY <3>2, <4>2, ConcatProperties, Zenon
        <5> QED
          BY <3>1, <4>1, <4>2, <5>1, Zenon
      <4>4. pc'[w] = "write"
        BY <1>3, <3>1
      <4> QED
        BY <1>2, <4>1, <4>3, <4>4 DEF MeasuredOf
    <3>4. Measured'
      BY <1>2, <2>3, <2>4, <3>1, <3>3, OthersMeasured
    <3> QED
      BY <1>1, <2>2, <3>4 DEF TInv
  <2>7. CASE EncodeFails(w) \/ WriteFails(w)
    <3>1. pc' = [pc EXCEPT ![w] = "reset"] /\ UNCHANGED buf
      BY <2>7 DEF EncodeFails, WriteFails
    <3>2. pc'[w] = "reset"
      BY <1>3, <3>1
    <3>3. Measured'
      BY <1>2, <2>3, <2>4, <3>1, <3>2, OthersMeasured DEF MeasuredOf
    <3> QED
      BY <1>1, <2>2, <3>3 DEF TInv
  <2>8. CASE Reset(w)
    <3>1. pc' = [pc EXCEPT ![w] = "idle"] /\ buf' = [buf EXCEPT ![BufferOf(w)] = <<>>]
      BY <2>8 DEF Reset
    <3>2. ASSUME from = "server"
          PROVE  MeasuredOf(w)' /\ \A v \in Writer \ {w} : buf'[v] = buf[v]
      <4>1. buf'[w] = <<>> /\ \A v \in Writer \ {w} : buf'[v] = buf[v]
        BY <3>1, <3>2, OwnBuffer
      <4>2. pc'[w] = "idle"
        BY <1>3, <3>1
      <4> QED
        BY <4>1, <4>2 DEF MeasuredOf
    <3>3. Measured'
      BY <1>2, <2>3, <2>4, <3>1, <3>2, OthersMeasured
    <3> QED
      BY <1>1, <2>2, <3>3 DEF TInv
  <2> QED
    BY <1>4, <2>5, <2>6, <2>7, <2>8
<1>5. CASE Write(w)
  <2> DEFINE b == buf[BufferOf(w)]
             o == obj[w]
  <2>1. /\ pc[w] = "write" /\ pc' = [pc EXCEPT ![w] = "reset"] /\ sent' = Append(sent, o)
        /\ buf' = [buf EXCEPT ![BufferOf(w)] = Frame(b)]
        /\ obj' = [obj EXCEPT ![w] = <<>>] /\ posted' = Post("server", Len(Frame(b)))
    BY <1>5 DEF Write
  <2>2. b \in Seq(Byte) /\ o \in Seq(Byte) /\ Len(Frame(b)) = Len(b)
    BY <1>3, FrameIsBytes
  <2>3. Counted' /\ Lengthy(posted')
    <3>1. CASE from = "server"
      <4>1. Len(b) = headLen + Len(o)
        BY <1>3, <2>1, <3>1 DEF MeasuredOf, BufferOf
      <4>2. Len(Frame(b)) = Len(o) + headLen
        BY <1>3, <2>2, <4>1
      <4>3. posted' = posted (+) SetToBag({Len(Frame(b))}) /\ Moved' = Append(Moved, o)
        BY <1>2, <2>1, <3>1 DEF Post, Moved
      <4> DEFINE len == Len(Frame(b))
      <4>4. len = Len(o) + IF from = "client" THEN 0 ELSE headLen
        BY <3>1, <4>2
      <4> HIDE DEF len, b, o
      <4> QED
        BY <1>2, <2>2, <4>3, <4>4, OneMorePosted DEF len
    <3>2. CASE from # "server"
      <4>1. posted' = posted /\ Moved' = Moved
        BY <1>2, <2>1, <3>2 DEF Post, Moved, TInv, Measured
      <4> QED
        BY <1>2, <1>3, <4>1, SameTraffic DEF Lengthy
    <3> QED
      BY <3>1, <3>2
  <2>4. pc'[w] = "reset" /\ \A v \in Writer \ {w} : obj'[v] = obj[v]
    BY <1>3, <2>1
  <2>5. MeasuredOf(w)'
    BY <2>4 DEF MeasuredOf
  <2>6. from = "server" => \A v \in Writer \ {w} : buf'[v] = buf[v]
    BY <2>1, OwnBuffer
  <2>7. sent' \in Seq(Seq(Byte))
    BY <1>3, <2>1, <2>2
  <2>8. Measured'
    BY <1>2, <2>1, <2>3, <2>4, <2>5, <2>6, <2>7, OthersMeasured
  <2> QED
    BY <1>1, <2>3, <2>8 DEF TInv
<1> QED
  BY <1>4, <1>5

\* What the reader does to the lengths of the package it reads.
LEMMA ReaderTInv ==
  ASSUME TInv, ReadHeadPanics \/ ReadHead \/ ReadBody \/ ReaderEnds
  PROVE  TInv'
PROOF
<1>1. IInv'
  BY NextIInv DEF Next, TInv
<1>2. UNCHANGED <<from, headLen, pc, obj, buf, sent, got, counter, posted>>
  BY DEF ReadHeadPanics, ReadHead, ReadBody, ReaderEnds, setup, writers, traffic
<1>3. Counted'
  BY <1>2, SameTraffic DEF Moved
<1>4. /\ rpc' = "head" => part' = <<>>
      /\ rpc' = "body" => Len(part') <= pkglen'
      /\ rpc' = "decode" => Len(part') = pkglen'
  <2>1. CASE ReadHead
    <3>1. part' = part /\ part = <<>> /\ pkglen' \in Nat /\ rpc' \in {"head", "body"}
          /\ Len(<<>>) = 0
      BY <1>1, <2>1 DEF ReadHead, TInv, IInv, Numbers, Measured
    <3> QED
      BY <3>1
  <2>2. CASE ReadBody
    <3>1. PICK n \in 1 .. pkglen - Len(part) :
            /\ Arrived(n) /\ Take(n) /\ part' = part \o SubSeq(stream, 1, n)
            /\ rpc' = IF Len(part) + n >= pkglen THEN "decode" ELSE "body"
      BY <2>2 DEF ReadBody
    <3>2. SubSeq(stream, 1, n) \in Seq(Byte) /\ Len(SubSeq(stream, 1, n)) = n
      BY <3>1, TakeKeepsBytes DEF TInv, IInv
    <3>3. pkglen' = pkglen /\ pkglen \in Nat /\ part \in Seq(Byte)
      BY <2>2 DEF ReadBody, TInv, IInv, Numbers, Bytes
    <3>4. Len(part') = Len(part) + n /\ Len(part) \in Nat
      BY <3>1, <3>2, <3>3
    <3> DEFINE l == Len(part)
    <3>5. /\ l \in Nat /\ n \in Nat /\ l + n <= pkglen /\ Len(part') = l + n
          /\ rpc' = IF l + n >= pkglen THEN "decode" ELSE "body"
      BY <3>1, <3>3, <3>4
    <3> HIDE DEF l
    <3> QED
      BY <3>3, <3>5
  <2>3. CASE ReadHeadPanics \/ ReaderEnds
    BY <2>3 DEF ReadHeadPanics, ReaderEnds
  <2> QED
    BY <2>1, <2>2, <2>3
<1>6. Measured'
  BY <1>2, <1>4, Zenon DEF TInv, Measured, Lengthy
<1> QED
  BY <1>1, <1>3, <1>6 DEF TInv

LEMMA DecodeTInv == ASSUME TInv, Decode PROVE TInv'
PROOF
<1>1. IInv'
  BY NextIInv DEF Next, TInv
<1>2. /\ UNCHANGED <<from, headLen, pc, obj, buf, sent, counter>> /\ got' = Append(got, part)
      /\ posted' = Post("client", pkglen) /\ rpc = "decode" /\ rpc' = "head" /\ part' = <<>>
  BY DEF Decode, setup, writers
<1>3. part \in Seq(Byte) /\ Len(part) = pkglen /\ got \in Seq(Seq(Byte)) /\ pkglen \in Nat
      /\ Lengthy(posted) /\ from \in {"server", "client"}
  BY <1>2 DEF TInv, IInv, Bytes, Numbers, Measured
<1>4. Counted' /\ Lengthy(posted')
  <2>1. CASE from = "client"
    <3>1. posted' = posted (+) SetToBag({pkglen}) /\ Moved' = Append(Moved, part)
      BY <1>2, <2>1 DEF Post, Moved
    <3>2. pkglen = Len(part) + IF from = "client" THEN 0 ELSE headLen
      BY <1>3, <2>1
    <3> QED
      BY <1>2, <1>3, <3>1, <3>2, OneMorePosted
  <2>2. CASE from # "client"
    <3>1. posted' = posted /\ Moved' = Moved
      BY <1>2, <2>2 DEF Post, Moved
    <3> QED
      BY <1>2, <1>3, <3>1, SameTraffic DEF Lengthy
  <2> QED
    BY <2>1, <2>2
<1>5. got' \in Seq(Seq(Byte))
  BY <1>2, <1>3
<1>6. Measured'
  BY <1>2, <1>4, <1>5, Zenon DEF TInv, Measured, Lengthy
<1> QED
  BY <1>1, <1>4, <1>6 DEF TInv

LEMMA NextTInv == TInv /\ [Next]_vars => TInv'
PROOF
<1> SUFFICES ASSUME TInv, [Next]_vars PROVE TInv'
  OBVIOUS
<1>1. CASE UNCHANGED vars
  <2>1. UNCHANGED <<from, headLen, pc, obj, buf, sent, rpc, pkglen, part, got, counter, posted>>
    BY <1>1 DEF vars, setup, writers, reader, traffic
  <2>2. IInv' /\ Counted'
    BY <2>1, NextIInv, SameTraffic DEF TInv, Moved
  <2>3. Measured'
    BY <2>1, Zenon DEF TInv, Measured, Lengthy
  <2> QED
    BY <2>2, <2>3 DEF TInv
<1> QED
  BY <1>1, WriterTInv, ReaderTInv, DecodeTInv, AddDataSizeTInv DEF Next

\* However calls overlap, bytes arrive and posted closures are run: as long as
\* no length comes within a unit of 32 bits and the five fields can hold the
\* traffic, the counter and the closures that wait add up to it exactly.
THEOREM TrafficIsCounted == Spec => [](Fits => TrafficAddsUp)
PROOF
<1>1. TInv => (Fits => TrafficAddsUp)
  BY DEF TInv, Counted
<1> QED
  BY <1>1, InitTInv, NextTInv, PTL DEF Spec

-----------------------------------------------------------------------------
(* The frames themselves: what PutUint writes is what Uint reads.              *)

LEMMA OneQuotient ==
  ASSUME NEW m \in Nat \ {0}, NEW q \in Nat, NEW r \in Nat, r < m
  PROVE  (m * q + r) \div m = q /\ (m * q + r) % m = r
PROOF
<1> DEFINE n == m * q + r
           p == n \div m
           s == n % m
<1>1. n \in Nat /\ m * q \in Nat
  OBVIOUS
<1>2. p \in Nat /\ s \in Nat /\ s < m /\ n = m * p + s
  BY <1>1, SMT
<1>3. ASSUME NEW a \in Nat, NEW b \in Nat, NEW c \in Nat, NEW d \in Nat,
             c < m, d < m, m * a + c = m * b + d
      PROVE  ~(a < b)
  <2>1. SUFFICES ASSUME a < b PROVE FALSE
    OBVIOUS
  <2>2. PICK e \in Nat : b = a + 1 + e
    <3>1. b - a - 1 \in Nat /\ b = a + 1 + (b - a - 1)
      BY <2>1
    <3> QED
      BY <3>1
  <2> DEFINE x == m * a
             y == m * e
  <2>3. x \in Nat /\ y \in Nat /\ m * b = x + m + y
    BY <2>2, SMT
  <2>4. x + c = (x + m + y) + d
    BY <1>3, <2>3
  <2> HIDE DEF x, y
  <2> QED
    BY <1>3, <2>3, <2>4
<1>4. m * p + s = m * q + r
  BY <1>2
<1> HIDE DEF n, p, s
<1>5. ~(p < q) /\ ~(q < p)
  BY <1>2, <1>3, <1>4
<1>6. p = q
  BY <1>2, <1>5
<1>7. s = r
  <2> DEFINE x == m * q
  <2>1. x \in Nat /\ x + s = x + r
    BY <1>4, <1>6
  <2> HIDE DEF x
  <2> QED
    BY <1>2, <2>1
<1> QED
  BY <1>6, <1>7 DEF n, p, s

\* A division by a product is two divisions.
LEMMA TwoDivisions ==
  ASSUME NEW n \in Nat, NEW a \in Nat \ {0}, NEW b \in Nat \ {0}
  PROVE  n \div (a * b) = (n \div a) \div b
PROOF
<1> DEFINE q == n \div a
           r == n % a
           p == q \div b
           s == q % b
<1>1. q \in Nat /\ r \in Nat /\ r < a /\ n = a * q + r
  BY SMT
<1>2. p \in Nat /\ s \in Nat /\ s < b /\ q = b * p + s
  BY <1>1, SMT
<1> HIDE DEF q, r, p, s
<1>3. a * b \in Nat \ {0}
  BY SMT
<1>4. n = (a * b) * p + (a * s + r)
  <2>1. a * (b * p + s) = (a * b) * p + a * s
    BY <1>2, SMT
  <2> DEFINE x == (a * b) * p
             y == a * s
  <2>2. x \in Nat /\ y \in Nat /\ n = (x + y) + r
    BY <1>1, <1>2, <1>3, <2>1, SMT
  <2> HIDE DEF x, y
  <2>3. n = x + (y + r)
    BY <1>1, <2>2
  <2> QED
    BY <2>3 DEF x, y
<1>5. a * s + r \in Nat /\ a * s + r < a * b
  <2>1. PICK e \in Nat : b = s + 1 + e
    <3>1. b - s - 1 \in Nat /\ b = s + 1 + (b - s - 1)
      BY <1>2
    <3> QED
      BY <3>1
  <2> DEFINE x == a * s
             y == a * e
  <2>2. x \in Nat /\ y \in Nat /\ a * b = x + a + y
    BY <1>2, <2>1, SMT
  <2> HIDE DEF x, y
  <2>3. x + r \in Nat /\ x + r < x + a + y
    BY <1>1, <2>2
  <2> QED
    BY <2>2, <2>3 DEF x
<1> DEFINE m == a * b
           t == a * s + r
<1>6. m \in Nat \ {0} /\ t \in Nat /\ t < m /\ n = m * p + t
  BY <1>3, <1>4, <1>5
<1> HIDE DEF m, t
<1>7. n \div m = p
  BY <1>2, <1>6, OneQuotient
<1> QED
  BY <1>7 DEF m, p, q

\* A number below m * Base has a quotient by Base below m.
LEMMA QuotientBelow ==
  ASSUME NEW n \in Nat, NEW m \in Nat, n < m * Base
  PROVE  n \div Base \in Nat /\ n \div Base < m
         /\ (n \div Base) * Base + (n % Base) = n
PROOF
<1> DEFINE q == n \div Base
           r == n % Base
<1>1. q \in Nat /\ r \in Nat /\ n = q * Base + r
  BY BaseIsNat, SMT
<1> HIDE DEF q, r
<1>2. q < m
  <2>1. SUFFICES ASSUME m <= q PROVE FALSE
    BY <1>1
  <2>2. PICK e \in Nat : q = m + e
    <3>1. q - m \in Nat /\ q = m + (q - m)
      BY <1>1, <2>1
    <3> QED
      BY <3>1
  <2> DEFINE x == m * Base
             y == e * Base
  <2>3. x \in Nat /\ y \in Nat /\ q * Base = x + y
    BY <2>2, BaseIsNat, SMT
  <2>4. n < x /\ n = (x + y) + r
    BY <1>1, <2>3
  <2> HIDE DEF x, y
  <2> QED
    BY <1>1, <2>3, <2>4
<1>3. q \in Nat /\ q < m /\ q * Base + r = n
  BY <1>1, <1>2
<1> QED
  BY <1>3 DEF q, r

LEMMA UintOfPutUint ==
  ASSUME headLen \in {2, 4}, NEW n \in Nat, n < Limit
  PROVE  Uint(PutUint(n)) = n
PROOF
<1> DEFINE q == n \div Base
           p == q \div Base
           o == p \div Base
<1>1. Base \in Nat \ {0} /\ Base * Base \in Nat \ {0} /\ Base * Base * Base \in Nat \ {0}
  BY BaseIsNat, SMT
<1>2. CASE headLen = 2
  <2>1. q \in Nat /\ q < Base /\ q * Base + (n % Base) = n
    BY <1>1, <1>2, QuotientBelow DEF Limit
  <2>2. q % Base = q
    BY <1>1, <2>1, Small
  <2>3. PutUint(n) = <<q, n % Base>>
    BY <1>2, <2>2 DEF PutUint
  <2>4. Uint(PutUint(n)) = q * Base + (n % Base)
    <3> DEFINE d == <<q, n % Base>>
    <3>1. Len(d) = 2 /\ d[1] = q /\ d[2] = n % Base
      OBVIOUS
    <3> HIDE DEF d
    <3>2. Uint(d) = d[1] * Base + d[2]
      BY <3>1 DEF Uint
    <3> QED
      BY <2>3, <3>1, <3>2 DEF d
  <2> QED
    BY <2>1, <2>4, Zenon
<1>3. CASE headLen = 4
  <2>1. n < (Base * Base * Base) * Base
    BY <1>3 DEF Limit
  <2>2. q \in Nat /\ q < (Base * Base) * Base /\ q * Base + (n % Base) = n
    BY <1>1, <2>1, QuotientBelow
  <2> HIDE DEF q
  <2>3. p \in Nat /\ p < Base * Base /\ p * Base + (q % Base) = q
    BY <1>1, <2>2, QuotientBelow
  <2> HIDE DEF p
  <2>4. o \in Nat /\ o < Base /\ o * Base + (p % Base) = p
    BY <1>1, <2>3, QuotientBelow
  <2> HIDE DEF o
  <2>5. n \div (Base * Base) = p
    BY <1>1, TwoDivisions DEF p, q
  <2>6. n \div (Base * Base * Base) = o
    BY <1>1, <2>5, TwoDivisions DEF o
  <2>7. o % Base = o
    BY <1>1, <2>4, Small
  <2>8. PutUint(n) = <<o, p % Base, q % Base, n % Base>>
    BY <1>3, <2>5, <2>6, <2>7 DEF PutUint, q
  <2>9. Uint(PutUint(n)) = ((o * Base + (p % Base)) * Base + (q % Base)) * Base + (n % Base)
    <3> DEFINE d == <<o, p % Base, q % Base, n % Base>>
    <3>1. Len(d) = 4 /\ d[1] = o /\ d[2] = p % Base /\ d[3] = q % Base /\ d[4] = n % Base
      OBVIOUS
    <3> HIDE DEF d
    <3>2. Uint(d) = ((d[1] * Base + d[2]) * Base + d[3]) * Base + d[4]
      BY <3>1 DEF Uint
    <3> QED
      BY <2>8, <3>1, <3>2 DEF d
  <2> QED
    BY <2>2, <2>3, <2>4, <2>9, Zenon
<1> QED
  BY <1>2, <1>3

\* The first elements of a sequence.
LEMMA Firsts ==
  ASSUME NEW S, NEW s \in Seq(S), NEW n \in 0 .. Len(s)
  PROVE  /\ SubSeq(s, 1, n) \in Seq(S) /\ Len(SubSeq(s, 1, n)) = n
         /\ \A i \in 1 .. n : SubSeq(s, 1, n)[i] = s[i]
PROOF
<1>1. \A i \in 1 .. n : s[i] \in S
  OBVIOUS
<1>2. /\ SubSeq(s, 1, n) \in Seq(S)
      /\ Len(SubSeq(s, 1, n)) = IF 1 <= n THEN n - 1 + 1 ELSE 0
      /\ \A i \in 1 .. n - 1 + 1 : SubSeq(s, 1, n)[i] = s[1 + i - 1]
  BY <1>1, SubSeqProperties
<1>3. Len(SubSeq(s, 1, n)) = n
  BY <1>2
<1>4. \A i \in 1 .. n : i \in 1 .. n - 1 + 1 /\ 1 + i - 1 = i
  OBVIOUS
<1> QED
  BY <1>2, <1>3, <1>4

LEMMA FirstsOfAppend ==
  ASSUME NEW S, NEW s \in Seq(S), NEW e \in S, NEW n \in 0 .. Len(s)
  PROVE  SubSeq(Append(s, e), 1, n) = SubSeq(s, 1, n)
PROOF
<1>1. /\ Append(s, e) \in Seq(S) /\ n \in 0 .. Len(Append(s, e))
      /\ \A i \in 1 .. n : Append(s, e)[i] = s[i]
  BY AppendProperties
<1> DEFINE t == Append(s, e)
<1> HIDE DEF t
<1>2. /\ SubSeq(t, 1, n) \in Seq(S) /\ Len(SubSeq(t, 1, n)) = n
      /\ \A i \in 1 .. n : SubSeq(t, 1, n)[i] = t[i]
  BY <1>1, Firsts DEF t
<1>3. /\ SubSeq(s, 1, n) \in Seq(S) /\ Len(SubSeq(s, 1, n)) = n
      /\ \A i \in 1 .. n : SubSeq(s, 1, n)[i] = s[i]
  BY Firsts
<1>4. SubSeq(t, 1, n) = SubSeq(s, 1, n)
  <2> DEFINE u == SubSeq(t, 1, n)
             v == SubSeq(s, 1, n)
  <2>1. u \in Seq(S) /\ v \in Seq(S) /\ Len(u) = Len(v) /\ \A i \in 1 .. Len(u) : u[i] = v[i]
    BY <1>1, <1>2, <1>3 DEF t
  <2> HIDE DEF u, v
  <2>2. u = v
    BY <2>1, SeqEqual
  <2> QED
    BY <2>2 DEF u, v
<1> QED
  BY <1>4 DEF t

LEMMA OneMoreOfFirsts ==
  ASSUME NEW S, NEW s \in Seq(S), NEW n \in Nat, n < Len(s)
  PROVE  SubSeq(s, 1, n + 1) = Append(SubSeq(s, 1, n), s[n + 1])
PROOF
<1> DEFINE u == SubSeq(s, 1, n + 1)
           v == SubSeq(s, 1, n)
<1>1. n + 1 \in 0 .. Len(s) /\ n \in 0 .. Len(s) /\ s[n + 1] \in S
  OBVIOUS
<1>2. u \in Seq(S) /\ Len(u) = n + 1 /\ \A i \in 1 .. n + 1 : u[i] = s[i]
  BY <1>1, Firsts
<1>3. v \in Seq(S) /\ Len(v) = n /\ \A i \in 1 .. n : v[i] = s[i]
  BY <1>1, Firsts
<1> HIDE DEF u, v
<1>4. /\ Append(v, s[n + 1]) \in Seq(S) /\ Len(Append(v, s[n + 1])) = n + 1
      /\ \A i \in 1 .. n : Append(v, s[n + 1])[i] = v[i]
      /\ Append(v, s[n + 1])[n + 1] = s[n + 1]
  BY <1>1, <1>3, AppendProperties
<1>5. \A i \in 1 .. n + 1 : i \in 1 .. n \/ i = n + 1
  OBVIOUS
<1>6. \A i \in 1 .. Len(u) : u[i] = Append(v, s[n + 1])[i]
  BY <1>2, <1>3, <1>4, <1>5
<1>7. u = Append(v, s[n + 1])
  BY <1>2, <1>4, <1>6, SeqEqual
<1> QED
  BY <1>7 DEF u, v

\* What was given of the first objects is a prefix of what is given of all.
LEMMA NonemptyOfFirsts ==
  ASSUME NEW B, NEW s \in Seq(Seq(B)), NEW k \in 0 .. Len(s)
  PROVE  IsPrefix(Nonempty(SubSeq(s, 1, k)), Nonempty(s))
PROOF
<1> DEFINE N(n) == Nonempty(SubSeq(s, 1, n))
           Starts(a, b) == Len(a) <= Len(b) /\ \A i \in 1 .. Len(a) : a[i] = b[i]
           P == {m \in Nat : k + m <= Len(s) => Starts(N(k), N(k + m))}
<1>1. \A n \in 0 .. Len(s) : N(n) \in Seq(Seq(B))
  <2> TAKE n \in 0 .. Len(s)
  <2>1. SubSeq(s, 1, n) \in Seq(Seq(B)) /\ <<>> \in Seq(B)
    BY Firsts
  <2> QED
    BY <2>1, NonemptyOfAppend
<1>2. \A n \in Nat : n < Len(s) =>
        N(n + 1) = IF s[n + 1] = <<>> THEN N(n) ELSE Append(N(n), s[n + 1])
  <2> TAKE n \in Nat
  <2> HAVE n < Len(s)
  <2>1. SubSeq(s, 1, n + 1) = Append(SubSeq(s, 1, n), s[n + 1])
    BY OneMoreOfFirsts
  <2>2. n \in 0 .. Len(s) /\ s[n + 1] \in Seq(B)
    OBVIOUS
  <2>3. SubSeq(s, 1, n) \in Seq(Seq(B))
    BY <2>2, Firsts
  <2> QED
    BY <2>1, <2>2, <2>3, NonemptyOfAppend
<1> HIDE DEF N
<1>3. 0 \in P
  <2>1. k + 0 = k /\ N(k) \in Seq(Seq(B))
    BY <1>1
  <2>2. Len(N(k)) \in Nat
    BY <2>1
  <2> QED
    BY <2>1, <2>2
<1>4. ASSUME NEW m \in P PROVE m + 1 \in P
  <2>1. m \in Nat /\ m + 1 \in Nat /\ (k + m <= Len(s) => Starts(N(k), N(k + m)))
    BY <1>4
  <2>2. ASSUME k + (m + 1) <= Len(s) PROVE Starts(N(k), N(k + (m + 1)))
    <3>1. k + m \in Nat /\ k + m < Len(s) /\ k + (m + 1) = (k + m) + 1 /\ k + m <= Len(s)
          /\ k + m \in 0 .. Len(s) /\ (k + m) + 1 \in 1 .. Len(s)
      BY <2>1, <2>2
    <3> DEFINE a == N(k)
               b == N(k + m)
               e == s[(k + m) + 1]
               c == N((k + m) + 1)
    <3>2. /\ a \in Seq(Seq(B)) /\ b \in Seq(Seq(B)) /\ e \in Seq(B)
          /\ c = IF e = <<>> THEN b ELSE Append(b, e)
      BY <1>1, <1>2, <3>1
    <3>3. Len(a) <= Len(b) /\ \A i \in 1 .. Len(a) : a[i] = b[i]
      BY <2>1, <3>1
    <3> HIDE DEF a, b, c, e
    <3>4. Len(b) <= Len(c) /\ \A i \in 1 .. Len(b) : b[i] = c[i]
      <4>1. CASE e = <<>>
        BY <3>2, <4>1
      <4>2. CASE e # <<>>
        BY <3>2, <4>2, AppendProperties
      <4> QED
        BY <4>1, <4>2
    <3>5. Len(c) \in Nat /\ Len(a) \in Nat /\ Len(b) \in Nat
      <4>1. c \in Seq(Seq(B))
        BY <3>2
      <4> QED
        BY <3>2, <4>1
    <3>6. Len(a) <= Len(c) /\ \A i \in 1 .. Len(a) : a[i] = c[i]
      <4>1. \A i \in 1 .. Len(a) : i \in 1 .. Len(b)
        BY <3>3, <3>5
      <4> QED
        BY <3>3, <3>4, <3>5, <4>1
    <3> QED
      BY <3>1, <3>6 DEF a, c
  <2> QED
    BY <2>1, <2>2
<1>5. Len(s) - k \in P
  <2> HIDE DEF P
  <2>1. P \in SUBSET Nat /\ Len(s) - k \in Nat
    BY DEF P
  <2> QED
    BY <1>3, <1>4, <2>1, Induct
<1>6. Starts(N(k), N(Len(s)))
  BY <1>5
<1>7. N(Len(s)) = Nonempty(s)
  BY SubSeqFull DEF N
<1>8. N(k) \in Seq(Seq(B)) /\ Nonempty(s) \in Seq(Seq(B))
  <2>1. Len(s) \in 0 .. Len(s)
    OBVIOUS
  <2> QED
    BY <1>1, <1>7, <2>1
<1> DEFINE a == N(k)
           b == Nonempty(s)
<1>9. /\ a \in Seq(Seq(B)) /\ b \in Seq(Seq(B)) /\ Len(a) <= Len(b)
      /\ \A i \in 1 .. Len(a) : a[i] = b[i]
  BY <1>6, <1>7, <1>8
<1> HIDE DEF a, b
<1>10. SubSeq(b, 1, Len(a)) = a
  <2> DEFINE c == SubSeq(b, 1, Len(a))
  <2>1. Len(a) \in 0 .. Len(b)
    BY <1>9
  <2>2. c \in Seq(Seq(B)) /\ Len(c) = Len(a) /\ \A i \in 1 .. Len(a) : c[i] = b[i]
    BY <1>9, <2>1, Firsts
  <2> HIDE DEF c
  <2>3. \A i \in 1 .. Len(c) : c[i] = a[i]
    BY <1>9, <2>2
  <2>4. c = a
    BY <1>9, <2>2, <2>3, SeqEqual
  <2> QED
    BY <2>4 DEF c
<1>11. SubSeq(a, 1, Len(a)) = a
  BY <1>9, SubSeqFull
<1>12. IsPrefix(a, b)
  BY <1>9, <1>10, <1>11 DEF IsPrefix
<1> QED
  BY <1>12 DEF a, b, N

\* The header and what follows it.
FrameOf(o) == PutUint(Len(o)) \o o
Holds(b, o) ==
  /\ Len(b) = headLen + Len(o) /\ Len(o) < Limit
  /\ \A i \in 1 .. Len(o) : b[headLen + i] = o[i]

LEMMA FrameOfBytes ==
  ASSUME headLen \in {2, 4}, NEW o \in Seq(Byte)
  PROVE  /\ FrameOf(o) \in Seq(Byte) /\ Len(FrameOf(o)) = headLen + Len(o)
         /\ \A i \in 1 .. headLen : FrameOf(o)[i] = PutUint(Len(o))[i]
         /\ \A i \in 1 .. Len(o) : FrameOf(o)[headLen + i] = o[i]
PROOF
<1> DEFINE h == PutUint(Len(o))
<1>1. h \in Seq(Byte) /\ Len(h) = headLen /\ Len(o) \in Nat
  BY PutUintIsBytes
<1> HIDE DEF h
<1>2. /\ h \o o \in Seq(Byte) /\ Len(h \o o) = headLen + Len(o)
      /\ \A i \in 1 .. headLen + Len(o) :
           (h \o o)[i] = IF i <= headLen THEN h[i] ELSE o[i - headLen]
  BY <1>1, ConcatProperties
<1>3. \A i \in 1 .. headLen : i \in 1 .. headLen + Len(o) /\ i <= headLen
  BY <1>1
<1>4. \A i \in 1 .. Len(o) : /\ headLen + i \in 1 .. headLen + Len(o)
                             /\ ~(headLen + i <= headLen) /\ (headLen + i) - headLen = i
  BY <1>1
<1> QED
  BY <1>2, <1>3, <1>4 DEF FrameOf, h

LEMMA FrameIsFrameOf ==
  ASSUME headLen \in {2, 4}, NEW b \in Seq(Byte), NEW o \in Seq(Byte), Holds(b, o)
  PROVE  Frame(b) = FrameOf(o)
PROOF
<1> DEFINE len == (Len(b) - headLen) % Limit
           rest == SubSeq(b, headLen + 1, Len(b))
<1>1. Limit \in Nat /\ Len(o) \in Nat /\ Len(b) - headLen = Len(o) /\ Len(o) < Limit
      /\ Len(b) = headLen + Len(o)
  BY BaseIsNat, SMT DEF Limit, Holds
<1>2. len = Len(o)
  BY <1>1, Small
<1>3. rest = o
  <2>1. headLen + 1 \in Int /\ Len(b) \in Int
        /\ \A i \in (headLen + 1) .. Len(b) : b[i] \in Byte
    BY <1>1
  <2>2. /\ rest \in Seq(Byte)
        /\ Len(rest) = IF headLen + 1 <= Len(b) THEN Len(b) - (headLen + 1) + 1 ELSE 0
        /\ \A i \in 1 .. Len(b) - (headLen + 1) + 1 : rest[i] = b[(headLen + 1) + i - 1]
    BY <2>1, SubSeqProperties
  <2> HIDE DEF rest
  <2>3. Len(rest) = Len(o)
    BY <1>1, <2>2
  <2>4. \A i \in 1 .. Len(o) : /\ i \in 1 .. Len(b) - (headLen + 1) + 1
                               /\ (headLen + 1) + i - 1 = headLen + i
    BY <1>1
  <2>5. \A i \in 1 .. Len(rest) : rest[i] = o[i]
    BY <2>2, <2>3, <2>4 DEF Holds
  <2> QED
    BY <2>2, <2>3, <2>5, SeqEqual
<1>4. FrameOf(o) \in Seq(Byte) /\ Len(FrameOf(o)) = Len(b)
  BY <1>1, FrameOfBytes
<1>5. SubSeq(FrameOf(o), 1, Len(b)) = FrameOf(o)
  BY <1>4, SubSeqFull
<1>6. Frame(b) = SubSeq(PutUint(len) \o rest, 1, Len(b))
  BY DEF Frame
<1> HIDE DEF len, rest
<1> QED
  BY <1>2, <1>3, <1>5, <1>6 DEF FrameOf

-----------------------------------------------------------------------------
(* Frames survive.  Every sendBuffer holds the frame of its caller's object;   *)
(* the bytes on the way are frames laid one after the other, and the reader    *)
(* stands where it takes itself to be in them.                                 *)

\* A buffer is empty before its call, has room for the length, then a frame.
Clean ==
  /\ from = "client" => \A v, w \in Busy : v = w
  /\ \A w \in Writer :
       /\ pc[w] = "idle" /\ (from = "server" \/ Busy = {}) => buf[BufferOf(w)] = <<>>
       /\ pc[w] = "encode" => Len(buf[BufferOf(w)]) = headLen
       /\ pc[w] = "write" => Holds(buf[BufferOf(w)], obj[w])

\* The objects whose frames are laid out, also one that was written in part.
Written(all) ==
  /\ all \in Seq(Seq(Byte))
  /\ Len(sent) <= Len(all) /\ Len(all) <= Len(sent) + 1
  /\ link = "up" => Len(all) = Len(sent)
  /\ \A i \in 1 .. Len(sent) : all[i] = sent[i]
  /\ \A i \in 1 .. Len(all) : Len(all[i]) < Limit

\* Where every frame ends, counted from the next byte to be read.
Positions(all, at) ==
  /\ at \in [0 .. Len(all) -> Int]
  /\ \A j \in 1 .. Len(all) : at[j] = at[j - 1] + headLen + Len(all[j])
  /\ \A i, j \in 0 .. Len(all) : i < j => at[i] < at[j]

\* The bytes on the way are those of the frames that are laid there.
Bears(all, at) ==
  \A j \in 1 .. Len(all) : \A i \in 1 .. headLen + Len(all[j]) :
    at[j - 1] + i \in 1 .. Len(stream) => stream[at[j - 1] + i] = FrameOf(all[j])[i]

Ends(all, at) ==
  /\ at[Len(sent)] <= Len(stream) /\ Len(stream) <= at[Len(all)]
  /\ Len(sent) < Len(all) => Len(stream) < at[Len(all)]

\* The reader is at the front of a frame, or in what follows the header.
Reads(all, at, k) ==
  /\ rpc \in {"head", "body", "decode"}
  /\ rpc = "head" => at[k] = 0
  /\ rpc # "head" =>
       /\ k < Len(all) /\ pkglen = Len(all[k + 1]) /\ pkglen > 0
       /\ at[k + 1] = pkglen - Len(part)
       /\ \A i \in 1 .. Len(part) : part[i] = all[k + 1][i]

OnTheWay(all, at, k) ==
  Written(all) /\ Positions(all, at) /\ Bears(all, at) /\ Ends(all, at) /\ Reads(all, at, k)

\* The receiver was given the first k objects; the rest is on the way.
GivenFirst(k) ==
  /\ got = Nonempty(SubSeq(sent, 1, k))
  /\ IF rpc = "closed" THEN link = "down" ELSE \E all, at : OnTheWay(all, at, k)

Survives == \E k \in 0 .. Len(sent) : GivenFirst(k)

SInv == TInv /\ (spoilt = {} => Clean /\ Survives)

\* The call of one writer changes its own buffer, and a client has one caller.
LEMMA OneCaller ==
  ASSUME TInv, Clean, NEW w \in Writer, from = "client" => Busy \subseteq {w},
         UNCHANGED <<from, headLen>>,
         NEW step \in {"idle", "encode", "write", "reset"}, pc' = [pc EXCEPT ![w] = step],
         NEW b, buf' = [buf EXCEPT ![BufferOf(w)] = b],
         NEW o, obj' = [obj EXCEPT ![w] = o],
         step = "idle" => b = <<>>, step = "encode" => Len(b) = headLen,
         step = "write" => Holds(b, o)
  PROVE  Clean'
PROOF
<1>1. /\ from \in {"server", "client"} /\ pc \in [Writer -> {"idle", "encode", "write", "reset"}]
      /\ obj \in [Writer -> Seq(Byte)] /\ buf \in [Writer \cup {Shared} -> Seq(Byte)]
  BY DEF TInv, Measured, IInv, Bytes
<1>2. \A v \in Writer : BufferOf(v)' = BufferOf(v) /\ BufferOf(v) \in Writer \cup {Shared}
  BY DEF BufferOf
<1>3. ASSUME NEW x, NEW y, Holds(x, y) PROVE Holds(x, y)'
  BY <1>3 DEF Holds, Limit
<1>4. pc'[w] = step /\ buf'[BufferOf(w)] = b /\ obj'[w] = o
  BY <1>1, <1>2
<1>5. \A v \in Writer \ {w} : pc'[v] = pc[v] /\ obj'[v] = obj[v]
  BY <1>1
<1>6. from = "client" => \A u, v \in Busy' : u = v
  <2>1. from = "client" => Busy' \subseteq {w}
    BY <1>5 DEF Busy
  <2> QED
    BY <2>1
<1> DEFINE Own(v) ==
      /\ pc[v] = "idle" /\ (from = "server" \/ Busy = {}) => buf[BufferOf(v)] = <<>>
      /\ pc[v] = "encode" => Len(buf[BufferOf(v)]) = headLen
      /\ pc[v] = "write" => Holds(buf[BufferOf(v)], obj[v])
<1>7. ASSUME NEW v \in Writer PROVE Own(v)'
  <2>1. CASE v = w
    <3>1. pc'[v] = step /\ buf'[BufferOf(v)'] = b /\ obj'[v] = o
      BY <1>2, <1>4, <2>1
    <3>2. step = "write" => Holds(b, o)'
      BY <1>3
    <3> QED
      BY <3>1, <3>2, Zenon DEF Holds
  <2>2. CASE v # w /\ from = "server"
    <3>1. BufferOf(v) = v /\ BufferOf(w) = w
      BY <2>2 DEF BufferOf
    <3>2. buf'[BufferOf(v)'] = buf[BufferOf(v)] /\ pc'[v] = pc[v] /\ obj'[v] = obj[v]
      BY <1>1, <1>2, <1>5, <2>2, <3>1
    <3>3. Own(v)
      BY DEF Clean
    <3>4. pc'[v] = "write" => Holds(buf[BufferOf(v)], obj[v])'
      BY <3>2, <3>3 DEF Holds, Limit
    <3> QED
      BY <2>2, <3>2, <3>3, <3>4, Zenon
  <2>3. CASE v # w /\ from = "client"
    <3>1. pc'[v] = "idle" /\ BufferOf(v)' = BufferOf(w)
      BY <1>1, <1>2, <1>5, <2>3 DEF Busy, BufferOf
    <3>2. Busy' = {} => step = "idle"
      BY <1>4 DEF Busy
    <3>3. from' # "server"
      BY <2>3
    <3> QED
      BY <1>4, <3>1, <3>2, <3>3
  <2> QED
    BY <1>1, <2>1, <2>2, <2>3
<1> QED
  BY <1>6, <1>7 DEF Clean

LEMMA WriterKeepsClean ==
  ASSUME TInv, Clean, spoilt' = {}, NEW w \in Writer,
         PutHead(w) \/ Encode(w) \/ EncodeFails(w) \/ Write(w) \/ WriteFails(w) \/ Reset(w)
  PROVE  Clean'
PROOF
<1>1. /\ headLen \in {2, 4} /\ pc \in [Writer -> {"idle", "encode", "write", "reset"}]
      /\ obj \in [Writer -> Seq(Byte)] /\ buf \in [Writer \cup {Shared} -> Seq(Byte)]
      /\ BufferOf(w) \in Writer \cup {Shared}
  BY DEF TInv, Measured, IInv, Bytes, BufferOf
<1>2. UNCHANGED <<from, headLen>>
  BY DEF PutHead, Encode, EncodeFails, Write, WriteFails, Reset, setup
<1> DEFINE b == buf[BufferOf(w)]
<1>3. buf = [buf EXCEPT ![BufferOf(w)] = b] /\ obj = [obj EXCEPT ![w] = obj[w]]
  BY <1>1
<1>4. pc[w] # "idle" => (from = "client" => Busy \subseteq {w})
  BY DEF Clean, Busy
<1> HIDE DEF b
<1>5. CASE PutHead(w)
  <2>1. PICK o : obj' = [obj EXCEPT ![w] = o]
    BY <1>5 DEF PutHead
  <2>2. /\ pc[w] = "idle" /\ pc' = [pc EXCEPT ![w] = "encode"]
        /\ buf' = [buf EXCEPT ![BufferOf(w)] = b \o PutUint(1)]
    BY <1>5 DEF PutHead, b
  <2>3. from = "client" => Busy = {}
    BY <1>5 DEF PutHead
  <2>4. b = <<>>
    BY <2>2, <2>3 DEF Clean, b, TInv, Measured
  <2>5. PutUint(1) \in Seq(Byte) /\ Len(PutUint(1)) = headLen
    BY <1>1, PutUintIsBytes
  <2>6. Len(b \o PutUint(1)) = headLen
    BY <2>4, <2>5
  <2> QED
    BY <1>2, <2>1, <2>2, <2>3, <2>6, OneCaller
<1>6. CASE Encode(w)
  <2>1. /\ pc[w] = "encode" /\ pc' = [pc EXCEPT ![w] = "write"] /\ UNCHANGED obj
        /\ buf' = [buf EXCEPT ![BufferOf(w)] = b \o obj[w]]
    BY <1>6 DEF Encode, b
  <2>2. Len(b) = headLen /\ b \in Seq(Byte) /\ obj[w] \in Seq(Byte)
    BY <1>1, <2>1 DEF Clean, b
  <2>3. Len(obj[w]) < Limit
    <3>1. ~(Len(obj[w]) >= Limit)
      BY <1>6 DEF Encode
    <3>2. Limit \in Nat /\ Len(obj[w]) \in Nat
      BY <2>2, BaseIsNat, SMT DEF Limit
    <3> QED
      BY <3>1, <3>2
  <2> DEFINE o == obj[w]
             c == b \o o
  <2> HIDE DEF o
  <2>4. /\ Len(c) = headLen + Len(o)
        /\ \A i \in 1 .. headLen + Len(o) : c[i] = IF i <= headLen THEN b[i] ELSE o[i - headLen]
    BY <2>2, ConcatProperties DEF o
  <2>5. \A i \in 1 .. Len(o) : /\ headLen + i \in 1 .. headLen + Len(o)
                               /\ ~(headLen + i <= headLen) /\ (headLen + i) - headLen = i
    BY <1>1, <2>2 DEF o
  <2> HIDE DEF c
  <2>6. Holds(c, o)
    BY <2>3, <2>4, <2>5 DEF Holds, o
  <2>7. buf' = [buf EXCEPT ![BufferOf(w)] = c] /\ obj' = [obj EXCEPT ![w] = o]
    BY <1>3, <2>1 DEF c, o
  <2> QED
    BY <1>2, <1>4, <2>1, <2>6, <2>7, OneCaller
<1>7. CASE EncodeFails(w) \/ WriteFails(w)
  <2>1. /\ pc[w] # "idle" /\ pc' = [pc EXCEPT ![w] = "reset"]
        /\ buf' = [buf EXCEPT ![BufferOf(w)] = b] /\ obj' = [obj EXCEPT ![w] = <<>>]
    BY <1>3, <1>7 DEF EncodeFails, WriteFails
  <2> QED
    BY <1>2, <1>4, <2>1, OneCaller
<1>8. CASE Write(w)
  <2>1. /\ pc[w] # "idle" /\ pc' = [pc EXCEPT ![w] = "reset"]
        /\ buf' = [buf EXCEPT ![BufferOf(w)] = Frame(b)] /\ obj' = [obj EXCEPT ![w] = <<>>]
    BY <1>8 DEF Write, b
  <2> QED
    BY <1>2, <1>4, <2>1, OneCaller
<1>9. CASE Reset(w)
  <2>1. /\ pc[w] # "idle" /\ pc' = [pc EXCEPT ![w] = "idle"]
        /\ buf' = [buf EXCEPT ![BufferOf(w)] = <<>>] /\ obj' = [obj EXCEPT ![w] = obj[w]]
    BY <1>3, <1>9 DEF Reset
  <2> QED
    BY <1>2, <1>4, <2>1, OneCaller
<1> QED
  BY <1>5, <1>6, <1>7, <1>8, <1>9

\* Nobody writes.
LEMMA SameBuffers ==
  ASSUME Clean, UNCHANGED <<from, headLen, pc, obj, buf>>
  PROVE  Clean'
PROOF
<1>1. Busy' = Busy /\ \A w \in Writer : BufferOf(w)' = BufferOf(w)
  BY DEF Busy, BufferOf
<1>2. ASSUME NEW w \in Writer, Holds(buf[BufferOf(w)], obj[w])
      PROVE  Holds(buf[BufferOf(w)], obj[w])'
  BY <1>1, <1>2 DEF Holds, Limit
<1> QED
  BY <1>1, <1>2, Zenon DEF Clean

\* Nothing is written or read.
LEMMA SameWire ==
  ASSUME Survives, UNCHANGED <<headLen, sent, link, stream, rpc, pkglen, part, got>>
  PROVE  Survives'
PROOF
<1>1. ASSUME NEW all, NEW at, NEW k, OnTheWay(all, at, k) PROVE OnTheWay(all, at, k)'
  <2>1. Written(all)'
    BY <1>1 DEF OnTheWay, Written, Limit
  <2>2. Positions(all, at)'
    BY <1>1, Zenon DEF OnTheWay, Positions
  <2>3. Bears(all, at)'
    BY <1>1, Zenon DEF OnTheWay, Bears, FrameOf, PutUint
  <2>4. Ends(all, at)'
    BY <1>1, Zenon DEF OnTheWay, Ends
  <2>5. Reads(all, at, k)'
    BY <1>1, Zenon DEF OnTheWay, Reads
  <2> QED
    BY <2>1, <2>2, <2>3, <2>4, <2>5 DEF OnTheWay
<1>2. PICK k \in 0 .. Len(sent) : GivenFirst(k)
  BY DEF Survives
<1>3. GivenFirst(k)'
  BY <1>1, <1>2, Zenon DEF GivenFirst
<1> QED
  BY <1>3 DEF Survives

\* Positions are counted from the next byte: reading moves all of them.
Moves(at, n) == [j \in DOMAIN at |-> at[j] - n]

LEMMA WireMoves ==
  ASSUME TInv, NEW all, NEW at, Written(all), Positions(all, at), Bears(all, at), Ends(all, at),
         NEW n \in Nat, Arrived(n), Take(n), UNCHANGED <<headLen, sent, link>>
  PROVE  /\ Written(all)' /\ Positions(all, Moves(at, n))' /\ Bears(all, Moves(at, n))'
         /\ Ends(all, Moves(at, n))'
         /\ \A j \in 0 .. Len(all) : Moves(at, n)[j] = at[j] - n
PROOF
<1> DEFINE m == Moves(at, n)
<1>1. /\ stream \in Seq(Byte) /\ headLen \in {2, 4} /\ n \in 1 .. Len(stream)
      /\ sent \in Seq(Seq(Byte)) /\ Len(sent) \in Nat
  BY DEF TInv, Measured, IInv, Bytes, Arrived
<1>2. /\ all \in Seq(Seq(Byte)) /\ Len(all) \in Nat /\ Len(sent) <= Len(all)
      /\ \A j \in 1 .. Len(all) : Len(all[j]) \in Nat
  BY DEF Written
<1>3. /\ at \in [0 .. Len(all) -> Int]
      /\ \A j \in 1 .. Len(all) : at[j] = at[j - 1] + headLen + Len(all[j])
      /\ \A i, j \in 0 .. Len(all) : i < j => at[i] < at[j]
  BY DEF Positions
<1>4. m \in [0 .. Len(all) -> Int] /\ \A j \in 0 .. Len(all) : m[j] = at[j] - n
  BY <1>3 DEF Moves
<1> HIDE DEF m
<1>5. /\ stream' \in Seq(Byte) /\ Len(stream') = Len(stream) - n
      /\ \A i \in 1 .. Len(stream) - n : stream'[i] = stream[n + i]
  <2>1. /\ n + 1 \in Int /\ Len(stream) \in Int
        /\ \A i \in (n + 1) .. Len(stream) : stream[i] \in Byte
    BY <1>1
  <2>2. stream' = SubSeq(stream, n + 1, Len(stream))
    BY DEF Take
  <2>3. /\ stream' \in Seq(Byte)
        /\ Len(stream') = IF n + 1 <= Len(stream) THEN Len(stream) - (n + 1) + 1 ELSE 0
        /\ \A i \in 1 .. Len(stream) - (n + 1) + 1 : stream'[i] = stream[(n + 1) + i - 1]
    BY <2>1, <2>2, SubSeqProperties
  <2>4. Len(stream') = Len(stream) - n
    BY <1>1, <2>3
  <2>5. \A i \in 1 .. Len(stream) - n : /\ i \in 1 .. Len(stream) - (n + 1) + 1
                                        /\ (n + 1) + i - 1 = n + i
    BY <1>1
  <2> QED
    BY <2>3, <2>4, <2>5
<1>6. Written(all)'
  BY DEF Written, Limit
<1>7. ASSUME NEW j \in 1 .. Len(all)
      PROVE  /\ j \in 0 .. Len(all) /\ j - 1 \in 0 .. Len(all) /\ at[j] \in Int
             /\ at[j - 1] \in Int /\ m[j] = at[j] - n /\ m[j - 1] = at[j - 1] - n
             /\ m[j] \in Int /\ m[j - 1] \in Int
  <2>1. j \in 0 .. Len(all) /\ j - 1 \in 0 .. Len(all)
    BY <1>2
  <2> QED
    BY <1>3, <1>4, <2>1
<1>8. Positions(all, m)'
  <2>1. ASSUME NEW j \in 1 .. Len(all) PROVE m[j] = m[j - 1] + headLen + Len(all[j])
    <3> DEFINE a == at[j]
               b == at[j - 1]
               l == Len(all[j])
    <3>1. /\ a \in Int /\ b \in Int /\ l \in Nat /\ a = b + headLen + l
          /\ m[j] = a - n /\ m[j - 1] = b - n
      BY <1>2, <1>3, <1>7
    <3> HIDE DEF a, b, l
    <3>2. a - n = (b - n) + headLen + l
      BY <1>1, <3>1
    <3> QED
      BY <3>1, <3>2 DEF l
  <2>2. ASSUME NEW i \in 0 .. Len(all), NEW j \in 0 .. Len(all), i < j PROVE m[i] < m[j]
    <3>1. at[i] \in Int /\ at[j] \in Int /\ at[i] < at[j]
      BY <1>3, <2>2
    <3> QED
      BY <1>1, <1>4, <3>1
  <2> QED
    BY <1>4, <2>1, <2>2 DEF Positions
<1>9. ASSUME NEW j \in 1 .. Len(all), NEW i \in 1 .. headLen + Len(all[j]),
             m[j - 1] + i \in 1 .. Len(stream')
      PROVE  stream'[m[j - 1] + i] = FrameOf(all[j])[i]
  <2>1. /\ at[j - 1] \in Int /\ m[j - 1] = at[j - 1] - n /\ i \in Nat
        /\ Len(stream') = Len(stream) - n /\ Len(stream) \in Nat /\ n \in Nat
    BY <1>1, <1>5, <1>7
  <2>2. /\ at[j - 1] + i \in 1 .. Len(stream) /\ m[j - 1] + i \in 1 .. Len(stream) - n
        /\ n + (m[j - 1] + i) = at[j - 1] + i
    <3> DEFINE a == at[j - 1]
               l == Len(stream)
    <3>1. /\ a \in Int /\ l \in Nat /\ m[j - 1] = a - n /\ (a - n) + i \in 1 .. l - n
      BY <1>9, <2>1
    <3> HIDE DEF a, l
    <3>2. /\ a + i \in 1 .. l /\ (a - n) + i \in 1 .. l - n /\ n + ((a - n) + i) = a + i
      BY <2>1, <3>1
    <3> QED
      BY <3>1, <3>2 DEF a, l
  <2>3. stream'[m[j - 1] + i] = stream[at[j - 1] + i]
    BY <1>5, <2>2
  <2> QED
    BY <2>2, <2>3 DEF Bears
<1>10. Bears(all, m)'
  <2>1. \A o : FrameOf(o)' = FrameOf(o)
    BY DEF FrameOf, PutUint
  <2> QED
    BY <1>9, <2>1, Zenon DEF Bears
<1>11. Ends(all, m)'
  <2>1. Len(sent) \in 0 .. Len(all) /\ Len(all) \in 0 .. Len(all)
    BY <1>1, <1>2
  <2>2. /\ m[Len(sent)] = at[Len(sent)] - n /\ at[Len(sent)] \in Int
        /\ m[Len(all)] = at[Len(all)] - n /\ at[Len(all)] \in Int
    BY <1>3, <1>4, <2>1
  <2>3. /\ m[Len(sent)] <= Len(stream') /\ Len(stream') <= m[Len(all)]
        /\ Len(sent) < Len(all) => Len(stream') < m[Len(all)]
    BY <1>1, <1>5, <2>2 DEF Ends
  <2> QED
    BY <2>3 DEF Ends
<1> QED
  BY <1>4, <1>6, <1>8, <1>10, <1>11 DEF m

\* A frame that has arrived is that of an object that was written.
LEMMA WholeFrame ==
  ASSUME NEW all, NEW at, Written(all), Positions(all, at), Ends(all, at),
         stream \in Seq(Byte), sent \in Seq(Seq(Byte)), NEW k \in 0 .. Len(sent),
         k < Len(all), at[k + 1] <= Len(stream)
  PROVE  k + 1 \in 0 .. Len(sent) /\ k < Len(sent) /\ all[k + 1] = sent[k + 1]
PROOF
<1>1. k < Len(sent)
  <2>1. SUFFICES ASSUME k = Len(sent) PROVE FALSE
    OBVIOUS
  <2>2. Len(all) = k + 1 /\ Len(sent) < Len(all)
    BY <2>1 DEF Written
  <2>3. Len(stream) < at[k + 1]
    BY <2>2 DEF Ends
  <2>4. at[k + 1] \in Int /\ Len(stream) \in Nat
    BY <2>2 DEF Positions
  <2> QED
    BY <2>3, <2>4
<1>2. k + 1 \in 1 .. Len(sent)
  BY <1>1
<1> QED
  BY <1>1, <1>2 DEF Written

LEMMA ReadHeadSurvives ==
  ASSUME TInv, Survives, ReadHead, spoilt' = {}
  PROVE  Survives'
PROOF
<1>1. PICK k \in 0 .. Len(sent) : GivenFirst(k)
  BY DEF Survives
<1>2. rpc = "head" /\ UNCHANGED <<headLen, sent, link, part, got>> /\ part = <<>>
  BY DEF ReadHead, setup, writers, TInv, Measured
<1>3. PICK all, at : OnTheWay(all, at, k)
  BY <1>1, <1>2 DEF GivenFirst
<1>4. /\ Written(all) /\ Positions(all, at) /\ Bears(all, at) /\ Ends(all, at) /\ at[k] = 0
  BY <1>2, <1>3 DEF OnTheWay, Reads
<1>5. /\ stream \in Seq(Byte) /\ headLen \in {2, 4} /\ sent \in Seq(Seq(Byte))
      /\ Len(stream) \in Nat /\ Len(sent) \in Nat /\ k \in Nat /\ k <= Len(sent)
  BY DEF TInv, Measured, IInv, Bytes
<1>6. /\ all \in Seq(Seq(Byte)) /\ Len(all) \in Nat /\ Len(sent) <= Len(all)
  BY <1>4 DEF Written
<1> DEFINE len == Uint(SubSeq(stream, 1, headLen))
<1>7. /\ Arrived(headLen) /\ Take(headLen) /\ pkglen' = len
      /\ rpc' = IF len > 0 THEN "body" ELSE "head"
  <2>1. PICK n \in {2, 4} :
          /\ n <= headLen /\ Arrived(n) /\ Take(n)
          /\ pkglen' = Uint(SubSeq(stream, 1, n))
          /\ rpc' = IF Uint(SubSeq(stream, 1, n)) > 0 THEN "body" ELSE "head"
          /\ spoilt' = spoilt \cup IF n < headLen THEN {"cut"} ELSE {}
    BY DEF ReadHead
  <2>2. ~(n < headLen)
    BY <2>1
  <2>3. n = headLen
    BY <1>5, <2>1, <2>2
  <2> QED
    BY <2>1, <2>3
<1> HIDE DEF len
<1>8. k < Len(all)
  <2>1. SUFFICES ASSUME k = Len(all) PROVE FALSE
    BY <1>5, <1>6
  <2>2. Len(stream) <= 0
    BY <1>4, <2>1 DEF Ends
  <2> QED
    BY <1>5, <1>7, <2>2 DEF Arrived
<1> DEFINE o == all[k + 1]
<1>9. /\ k + 1 \in 1 .. Len(all) /\ o \in Seq(Byte) /\ Len(o) \in Nat /\ Len(o) < Limit
      /\ (k + 1) - 1 = k /\ at[k + 1] = headLen + Len(o)
  <2>1. k + 1 \in 1 .. Len(all) /\ (k + 1) - 1 = k
    BY <1>5, <1>6, <1>8
  <2>2. o \in Seq(Byte) /\ Len(o) < Limit
    BY <1>4, <2>1 DEF Written
  <2>3. at[k + 1] = at[(k + 1) - 1] + headLen + Len(o)
    BY <1>4, <2>1 DEF Positions
  <2>4. at[k + 1] = 0 + headLen + Len(o)
    BY <1>4, <2>1, <2>3
  <2> QED
    BY <1>5, <2>1, <2>2, <2>4
<1>10. len = Len(o)
  <2>1. ASSUME NEW i \in 1 .. headLen PROVE stream[i] = PutUint(Len(o))[i]
    <3>1. /\ i \in 1 .. headLen + Len(o) /\ at[(k + 1) - 1] + i = i /\ i \in 1 .. Len(stream)
      BY <1>4, <1>5, <1>7, <1>9 DEF Arrived
    <3>2. stream[i] = FrameOf(o)[i]
      BY <1>4, <1>9, <3>1, Zenon DEF Bears
    <3> QED
      BY <1>5, <1>9, <3>2, FrameOfBytes
  <2> DEFINE d == SubSeq(stream, 1, headLen)
             e == PutUint(Len(o))
  <2>2. headLen \in 0 .. Len(stream)
    BY <1>5, <1>7 DEF Arrived
  <2>3. d \in Seq(Byte) /\ Len(d) = headLen /\ \A i \in 1 .. headLen : d[i] = stream[i]
    BY <1>5, <2>2, Firsts
  <2>4. e \in Seq(Byte) /\ Len(e) = headLen
    BY <1>5, <1>9, PutUintIsBytes
  <2>5. Uint(e) = Len(o)
    BY <1>5, <1>9, UintOfPutUint
  <2>6. \A i \in 1 .. Len(d) : d[i] = e[i]
    BY <2>1, <2>3
  <2> HIDE DEF d, e
  <2>7. d = e
    BY <2>3, <2>4, <2>6, SeqEqual
  <2> QED
    BY <2>5, <2>7 DEF len, d
<1>pick. PICK n \in Nat : n = headLen
  BY <1>5
<1> DEFINE m == Moves(at, n)
<1>11. /\ Written(all)' /\ Positions(all, m)' /\ Bears(all, m)' /\ Ends(all, m)'
       /\ m[k + 1] = Len(o)
  <2>1. Arrived(n) /\ Take(n)
    BY <1>7, <1>pick
  <2>2. /\ Written(all)' /\ Positions(all, m)' /\ Bears(all, m)' /\ Ends(all, m)'
        /\ \A j \in 0 .. Len(all) : m[j] = at[j] - n
    BY <1>2, <1>4, <1>pick, <2>1, WireMoves
  <2>3. m[k + 1] = (headLen + Len(o)) - n
    BY <1>9, <2>2
  <2> QED
    BY <1>5, <1>9, <1>pick, <2>2, <2>3
<1> HIDE DEF m
<1>12. CASE len > 0
  <2>1. rpc' = "body"
    BY <1>7, <1>12
  <2>2. Reads(all, m, k)'
    <3>1. Len(part') = 0 /\ m[k + 1] = pkglen' - Len(part') /\ pkglen' = Len(o) /\ pkglen' > 0
      BY <1>2, <1>7, <1>9, <1>10, <1>11, <1>12
    <3>2. 1 .. 0 = {}
      OBVIOUS
    <3> QED
      BY <1>8, <2>1, <3>1, <3>2 DEF Reads
  <2>3. OnTheWay(all, m, k)'
    BY <1>11, <2>2 DEF OnTheWay
  <2>4. GivenFirst(k)'
    BY <1>1, <1>2, <2>1, <2>3, Zenon DEF GivenFirst
  <2> QED
    BY <1>2, <2>4 DEF Survives
<1>13. CASE ~(len > 0)
  <2>1. rpc' = "head" /\ Len(o) = 0 /\ o = <<>>
    BY <1>7, <1>9, <1>10, <1>13
  <2>2. at[k + 1] <= Len(stream)
    BY <1>5, <1>7, <1>9, <2>1 DEF Arrived
  <2>3. k + 1 \in 0 .. Len(sent) /\ k < Len(sent) /\ o = sent[k + 1]
    BY <1>4, <1>5, <1>8, <2>2, WholeFrame
  <2>4. Reads(all, m, k + 1)'
    BY <1>11, <2>1 DEF Reads
  <2>5. OnTheWay(all, m, k + 1)'
    BY <1>11, <2>4 DEF OnTheWay
  <2>6. got' = Nonempty(SubSeq(sent, 1, k + 1))
    <3>1. SubSeq(sent, 1, k + 1) = Append(SubSeq(sent, 1, k), sent[k + 1])
      BY <1>5, <2>3, OneMoreOfFirsts
    <3>2. SubSeq(sent, 1, k) \in Seq(Seq(Byte))
      BY <1>5, Firsts
    <3>3. sent[k + 1] \in Seq(Byte) /\ sent[k + 1] = <<>>
      BY <1>9, <2>1, <2>3
    <3>4. Nonempty(Append(SubSeq(sent, 1, k), sent[k + 1])) = Nonempty(SubSeq(sent, 1, k))
      BY <3>2, <3>3, NonemptyOfAppend
    <3> QED
      BY <1>1, <1>2, <3>1, <3>4 DEF GivenFirst
  <2>7. GivenFirst(k + 1)'
    BY <1>2, <2>1, <2>5, <2>6, Zenon DEF GivenFirst
  <2> QED
    BY <1>2, <2>3, <2>7 DEF Survives
<1> QED
  BY <1>12, <1>13

LEMMA ReadBodySurvives ==
  ASSUME TInv, Survives, ReadBody
  PROVE  Survives'
PROOF
<1>1. PICK k \in 0 .. Len(sent) : GivenFirst(k)
  BY DEF Survives
<1>2. rpc = "body" /\ UNCHANGED <<headLen, sent, link, pkglen, got>>
  BY DEF ReadBody, setup, writers
<1>3. PICK all, at : OnTheWay(all, at, k)
  BY <1>1, <1>2 DEF GivenFirst
<1> DEFINE o == all[k + 1]
           l == Len(part)
<1>4. /\ Written(all) /\ Positions(all, at) /\ Bears(all, at) /\ Ends(all, at)
      /\ k < Len(all) /\ pkglen = Len(o) /\ pkglen > 0 /\ at[k + 1] = pkglen - l
      /\ \A i \in 1 .. l : part[i] = o[i]
  BY <1>2, <1>3 DEF OnTheWay, Reads
<1>5. /\ stream \in Seq(Byte) /\ headLen \in {2, 4} /\ part \in Seq(Byte) /\ l \in Nat
      /\ Len(stream) \in Nat /\ k \in Nat
  BY DEF TInv, Measured, IInv, Bytes
<1>6. /\ k + 1 \in 1 .. Len(all) /\ k + 1 \in 0 .. Len(all) /\ o \in Seq(Byte) /\ Len(o) \in Nat
      /\ (k + 1) - 1 = k /\ at[k] \in Int /\ at[k] + headLen + l = 0
  <2>1. all \in Seq(Seq(Byte)) /\ Len(all) \in Nat
    BY <1>4 DEF Written
  <2>2. k + 1 \in 1 .. Len(all) /\ k + 1 \in 0 .. Len(all) /\ (k + 1) - 1 = k
        /\ k \in 0 .. Len(all)
    BY <1>4, <1>5, <2>1
  <2>3. o \in Seq(Byte) /\ Len(o) \in Nat
    BY <2>1, <2>2
  <2>4. at[k] \in Int /\ at[k + 1] = at[(k + 1) - 1] + headLen + Len(o)
    BY <1>4, <2>2 DEF Positions
  <2> DEFINE a == at[k]
             c == Len(o)
  <2>5. a \in Int /\ c \in Nat /\ c - l = a + headLen + c
    BY <1>4, <2>2, <2>3, <2>4
  <2> HIDE DEF a, c
  <2>6. a + headLen + l = 0
    BY <1>5, <2>5
  <2> QED
    BY <2>2, <2>3, <2>4, <2>6 DEF a
<1>7. PICK n \in 1 .. pkglen - l :
        /\ Arrived(n) /\ Take(n) /\ part' = part \o SubSeq(stream, 1, n)
        /\ rpc' = IF l + n >= pkglen THEN "decode" ELSE "body"
  BY DEF ReadBody
<1> HIDE DEF l
<1>8. /\ n \in Nat /\ n \in 1 .. Len(stream) /\ n \in 0 .. Len(stream) /\ l + n <= Len(o)
  BY <1>4, <1>5, <1>6, <1>7 DEF Arrived
<1>9. Len(part') = l + n /\ \A i \in 1 .. l + n : part'[i] = o[i]
  <2> DEFINE t == SubSeq(stream, 1, n)
  <2>1. t \in Seq(Byte) /\ Len(t) = n /\ \A i \in 1 .. n : t[i] = stream[i]
    BY <1>5, <1>8, Firsts
  <2> HIDE DEF t
  <2>2. /\ Len(part') = l + n
        /\ \A i \in 1 .. l + n : part'[i] = IF i <= l THEN part[i] ELSE t[i - l]
    BY <1>5, <1>7, <2>1, ConcatProperties DEF l, t
  <2>3. ASSUME NEW i \in 1 .. l + n PROVE part'[i] = o[i]
    <3>1. CASE i <= l
      <4>1. i \in 1 .. l
        BY <1>5, <3>1
      <4> QED
        BY <1>4, <2>2, <3>1, <4>1
    <3>2. CASE ~(i <= l)
      <4>1. /\ i \in Nat /\ i - l \in 1 .. n /\ i - l \in 1 .. Len(stream) /\ i \in 1 .. Len(o)
            /\ headLen + i \in 1 .. headLen + Len(o)
        <5> DEFINE c == Len(o)
                   s == Len(stream)
        <5>1. /\ c \in Nat /\ s \in Nat /\ n \in 1 .. s /\ l + n <= c /\ i \in 1 .. l + n
              /\ l \in Nat /\ ~(i <= l)
          BY <1>5, <1>6, <1>8, <3>2 DEF l
        <5> HIDE DEF c, s
        <5>2. /\ i \in Nat /\ i - l \in 1 .. n /\ i - l \in 1 .. s /\ i \in 1 .. c
              /\ headLen + i \in 1 .. headLen + c
          BY <1>5, <5>1
        <5> QED
          BY <5>2 DEF c, s
      <4>2. at[k] + (headLen + i) = i - l
        <5> DEFINE a == at[k]
        <5>1. a \in Int /\ a + headLen + l = 0 /\ i \in Nat
          BY <1>6, <4>1
        <5> HIDE DEF a
        <5>2. a + (headLen + i) = i - l
          BY <1>5, <5>1
        <5> QED
          BY <5>2 DEF a
      <4>3. stream[i - l] = FrameOf(o)[headLen + i]
        <5>1. at[(k + 1) - 1] + (headLen + i) = i - l
          BY <1>6, <4>2
        <5> QED
          BY <1>4, <1>6, <4>1, <5>1, Zenon DEF Bears
      <4>4. FrameOf(o)[headLen + i] = o[i]
        BY <1>5, <1>6, <4>1, FrameOfBytes
      <4>5. part'[i] = t[i - l] /\ t[i - l] = stream[i - l]
        BY <2>1, <2>2, <3>2, <4>1
      <4> QED
        BY <4>3, <4>4, <4>5
    <3> QED
      BY <3>1, <3>2
  <2> QED
    BY <2>2, <2>3
<1> DEFINE m == Moves(at, n)
<1>10. /\ Written(all)' /\ Positions(all, m)' /\ Bears(all, m)' /\ Ends(all, m)'
       /\ \A j \in 0 .. Len(all) : m[j] = at[j] - n
  BY <1>2, <1>4, <1>7, <1>8, WireMoves
<1> HIDE DEF m
<1>11. m[k + 1] = pkglen' - Len(part')
  <2>1. m[k + 1] = (pkglen - l) - n /\ pkglen' = pkglen /\ pkglen \in Nat
    BY <1>2, <1>4, <1>6, <1>10
  <2> QED
    BY <1>5, <1>8, <1>9, <2>1
<1>12. Reads(all, m, k)'
  <2>1. rpc' \in {"body", "decode"}
    BY <1>7
  <2> QED
    BY <1>2, <1>4, <1>9, <1>11, <2>1 DEF Reads
<1>13. OnTheWay(all, m, k)' /\ rpc' # "closed"
  BY <1>7, <1>10, <1>12 DEF OnTheWay
<1>14. GivenFirst(k)'
  BY <1>1, <1>2, <1>13, Zenon DEF GivenFirst
<1> QED
  BY <1>2, <1>14 DEF Survives

LEMMA DecodeSurvives ==
  ASSUME TInv, Survives, Decode
  PROVE  Survives'
PROOF
<1>1. PICK k \in 0 .. Len(sent) : GivenFirst(k)
  BY DEF Survives
<1>2. /\ rpc = "decode" /\ UNCHANGED <<headLen, sent, link, stream>> /\ rpc' = "head"
      /\ got' = Append(got, part) /\ Len(part) = pkglen
  BY DEF Decode, setup, writers, TInv, Measured
<1>3. PICK all, at : OnTheWay(all, at, k)
  BY <1>1, <1>2 DEF GivenFirst
<1> DEFINE o == all[k + 1]
<1>4. /\ Written(all) /\ Positions(all, at) /\ Bears(all, at) /\ Ends(all, at)
      /\ k < Len(all) /\ pkglen = Len(o) /\ pkglen > 0 /\ at[k + 1] = pkglen - Len(part)
      /\ \A i \in 1 .. Len(part) : part[i] = o[i]
  BY <1>2, <1>3 DEF OnTheWay, Reads
<1>5. /\ stream \in Seq(Byte) /\ part \in Seq(Byte) /\ sent \in Seq(Seq(Byte)) /\ pkglen \in Nat
      /\ Len(stream) \in Nat /\ k \in Nat
  BY DEF TInv, Measured, IInv, Bytes, Numbers
<1>6. k + 1 \in 1 .. Len(all) /\ o \in Seq(Byte)
  <2>1. all \in Seq(Seq(Byte)) /\ Len(all) \in Nat
    BY <1>4 DEF Written
  <2>2. k + 1 \in 1 .. Len(all)
    BY <1>4, <1>5, <2>1
  <2> QED
    BY <2>1, <2>2
<1>7. at[k + 1] = 0 /\ at[k + 1] <= Len(stream)
  BY <1>2, <1>4, <1>5
<1>8. k + 1 \in 0 .. Len(sent) /\ k < Len(sent) /\ o = sent[k + 1]
  BY <1>4, <1>5, <1>7, WholeFrame
<1>9. part = o /\ o # <<>>
  BY <1>2, <1>4, <1>5, <1>6, SeqEqual
<1>10. got' = Nonempty(SubSeq(sent, 1, k + 1))
  <2>1. SubSeq(sent, 1, k + 1) = Append(SubSeq(sent, 1, k), sent[k + 1])
    BY <1>5, <1>8, OneMoreOfFirsts
  <2>2. SubSeq(sent, 1, k) \in Seq(Seq(Byte))
    BY <1>5, Firsts
  <2>3. Nonempty(Append(SubSeq(sent, 1, k), o)) = Append(Nonempty(SubSeq(sent, 1, k)), o)
    <3> HIDE DEF o
    <3> QED
      BY <1>6, <1>9, <2>2, NonemptyOfAppend
  <2>4. got = Nonempty(SubSeq(sent, 1, k))
    BY <1>1 DEF GivenFirst
  <2> HIDE DEF o
  <2> QED
    BY <1>2, <1>8, <1>9, <2>1, <2>3, <2>4
<1> HIDE DEF o
<1>11. ASSUME NEW x PROVE FrameOf(x)' = FrameOf(x)
  BY <1>2 DEF FrameOf, PutUint
<1>12. OnTheWay(all, at, k + 1)'
  <2>1. Written(all)'
    BY <1>2, <1>4 DEF Written, Limit
  <2>2. Positions(all, at)'
    BY <1>2, <1>4, Zenon DEF Positions
  <2>3. Bears(all, at)'
    BY <1>2, <1>4, Zenon DEF Bears, FrameOf, PutUint
  <2>4. Ends(all, at)'
    BY <1>2, <1>4, Zenon DEF Ends
  <2>5. Reads(all, at, k + 1)'
    BY <1>2, <1>7 DEF Reads
  <2> QED
    BY <2>1, <2>2, <2>3, <2>4, <2>5 DEF OnTheWay
<1>13. GivenFirst(k + 1)'
  BY <1>2, <1>10, <1>12, Zenon DEF GivenFirst
<1> QED
  BY <1>2, <1>8, <1>13 DEF Survives

LEMMA ReaderEndsSurvives ==
  ASSUME Survives, ReaderEnds
  PROVE  Survives'
PROOF
<1>1. PICK k \in 0 .. Len(sent) : GivenFirst(k)
  BY DEF Survives
<1>2. UNCHANGED <<sent, got>> /\ rpc' = "closed" /\ link' = "down"
  BY DEF ReaderEnds, writers
<1>3. GivenFirst(k)'
  BY <1>1, <1>2, Zenon DEF GivenFirst
<1> QED
  BY <1>2, <1>3 DEF Survives

\* A frame is written, or a part of it before the connection is closed.
LEMMA SendsSurvives ==
  ASSUME TInv, Survives, link = "up", NEW o \in Seq(Byte), Len(o) < Limit,
         UNCHANGED <<headLen, rpc, pkglen, part, got>>,
         NEW n \in 0 .. Len(FrameOf(o)), stream' = stream \o SubSeq(FrameOf(o), 1, n),
         \/ n = Len(FrameOf(o)) /\ sent' = Append(sent, o) /\ link' = "up"
         \/ n < Len(FrameOf(o)) /\ sent' = sent /\ link' = "down"
  PROVE  Survives'
PROOF
<1>1. PICK k \in 0 .. Len(sent) : GivenFirst(k)
  BY DEF Survives
<1>2. PICK all, at : OnTheWay(all, at, k)
  BY <1>1 DEF GivenFirst
<1>3. Written(all) /\ Positions(all, at) /\ Bears(all, at) /\ Ends(all, at) /\ Reads(all, at, k)
  BY <1>2 DEF OnTheWay
<1>len. PICK c, l, end, more :
        /\ c = Len(all) /\ l = Len(stream) /\ end = l + headLen + Len(o)
        /\ more = Append(all, o)
  OBVIOUS
<1>4. /\ stream \in Seq(Byte) /\ headLen \in {2, 4} /\ sent \in Seq(Seq(Byte))
      /\ l \in Nat /\ Len(sent) \in Nat /\ Len(o) \in Nat
  BY <1>len DEF TInv, Measured, IInv, Bytes
<1>5. /\ all \in Seq(Seq(Byte)) /\ c \in Nat /\ c = Len(sent) /\ k \in 0 .. c
      /\ \A j \in 1 .. c : all[j] \in Seq(Byte) /\ Len(all[j]) \in Nat
  BY <1>3, <1>len DEF Written
<1>6. /\ at \in [0 .. c -> Int] /\ \A j \in 1 .. c : at[j] = at[j - 1] + headLen + Len(all[j])
      /\ \A i, j \in 0 .. c : i < j => at[i] < at[j]
  BY <1>3, <1>len DEF Positions
<1>7. at[c] = l
  <2>1. at[c] <= l /\ l <= at[c]
    BY <1>3, <1>5, <1>len DEF Ends
  <2>2. at[c] \in Int
    <3>1. c \in 0 .. c
      BY <1>5
    <3> QED
      BY <1>6, <3>1
  <2> QED
    BY <1>4, <2>1, <2>2
<1>8. /\ FrameOf(o) \in Seq(Byte) /\ Len(FrameOf(o)) = headLen + Len(o)
      /\ FrameOf(o)' = FrameOf(o)
  BY <1>4, FrameOfBytes DEF FrameOf, PutUint
<1>9. /\ Len(stream') = l + n /\ n \in Nat
      /\ \A i \in 1 .. l : stream'[i] = stream[i]
      /\ \A i \in 1 .. n : stream'[l + i] = FrameOf(o)[i]
  <2> DEFINE t == SubSeq(FrameOf(o), 1, n)
  <2>1. t \in Seq(Byte) /\ Len(t) = n /\ \A i \in 1 .. n : t[i] = FrameOf(o)[i]
    BY <1>8, Firsts
  <2>2. stream' = stream \o t
    OBVIOUS
  <2>3. n \in Nat /\ l = Len(stream)
    BY <1>4, <1>8, <1>len
  <2> HIDE DEF t
  <2>4. /\ Len(stream') = l + n
        /\ \A i \in 1 .. l + n : stream'[i] = IF i <= l THEN stream[i] ELSE t[i - l]
    BY <1>4, <2>1, <2>2, <2>3, ConcatProperties
  <2>5. \A i \in 1 .. l : i \in 1 .. l + n /\ i <= l
    BY <1>4, <2>3
  <2>6. \A i \in 1 .. n : l + i \in 1 .. l + n /\ ~(l + i <= l) /\ (l + i) - l = i
    BY <1>4, <2>3
  <2> QED
    BY <2>1, <2>3, <2>4, <2>5, <2>6
<1>10. /\ more \in Seq(Seq(Byte)) /\ Len(more) = c + 1 /\ more[c + 1] = o
       /\ \A j \in 1 .. c : more[j] = all[j]
  BY <1>5, <1>len, AppendProperties
<1>11. PICK to :
       /\ to \in [0 .. c + 1 -> Int] /\ \A j \in 0 .. c : to[j] = at[j]
       /\ to[c + 1] = end /\ to[c] = l /\ end \in Int
  <2> DEFINE far == [j \in 0 .. c + 1 |-> IF j <= c THEN at[j] ELSE end]
  <2>1. end \in Int
    BY <1>4, <1>len
  <2>2. \A j \in 0 .. c : at[j] \in Int
    BY <1>6
  <2>3. \A j \in 0 .. c : j \in 0 .. c + 1 /\ j <= c
    BY <1>5
  <2>4. c + 1 \in 0 .. c + 1 /\ ~(c + 1 <= c) /\ c \in 0 .. c
    BY <1>5
  <2>5. \A j \in 0 .. c + 1 : j <= c => j \in 0 .. c
    BY <1>5
  <2>6. /\ far \in [0 .. c + 1 -> Int] /\ (\A j \in 0 .. c : far[j] = at[j])
        /\ far[c + 1] = end
    BY <2>1, <2>2, <2>3, <2>4, <2>5
  <2> HIDE DEF far
  <2>7. far[c] = l
    BY <1>7, <2>4, <2>6
  <2> QED
    BY <2>1, <2>6, <2>7
<1>12. \A j \in 1 .. c + 1 : j \in 1 .. c \/ j = c + 1
  BY <1>5
<1>13. Written(more)'
  <2>1. \A i \in 1 .. Len(sent') : more[i] = sent'[i]
    <3>1. \A i \in 1 .. c : more[i] = sent[i]
      BY <1>3, <1>5, <1>10 DEF Written
    <3>2. CASE sent' = sent
      BY <1>5, <3>1, <3>2
    <3>3. CASE sent' = Append(sent, o)
      <4>1. /\ Len(sent') = c + 1 /\ sent'[c + 1] = o
            /\ \A j \in 1 .. c : sent'[j] = sent[j]
        BY <1>4, <1>5, <3>3, AppendProperties
      <4> QED
        BY <1>10, <1>12, <3>1, <4>1
    <3> QED
      BY <3>2, <3>3
  <2>2. \A i \in 1 .. Len(more) : Len(more[i]) < Limit'
    <3>1. Limit' = Limit /\ \A i \in 1 .. c : Len(all[i]) < Limit
      BY <1>3, <1>len DEF Limit, Written
    <3> QED
      BY <1>10, <1>12, <3>1
  <2>3. Len(sent') <= c + 1 /\ c + 1 <= Len(sent') + 1 /\ (link' = "up" => c + 1 = Len(sent'))
    <3>1. CASE sent' = sent /\ link' = "down"
      BY <1>5, <3>1
    <3>2. CASE sent' = Append(sent, o)
      <4>1. Len(sent') = c + 1
        BY <1>4, <1>5, <3>2, AppendProperties
      <4> QED
        BY <1>5, <4>1
    <3> QED
      BY <3>1, <3>2
  <2> QED
    BY <1>10, <2>1, <2>2, <2>3 DEF Written
<1>14. Positions(more, to)'
  <2>1. ASSUME NEW j \in 1 .. c + 1 PROVE to[j] = to[j - 1] + headLen + Len(more[j])
    <3>1. CASE j \in 1 .. c
      <4>1. j \in 0 .. c /\ j - 1 \in 0 .. c
        BY <1>5, <3>1
      <4>2. to[j] = at[j] /\ to[j - 1] = at[j - 1] /\ more[j] = all[j]
        BY <1>10, <1>11, <3>1, <4>1
      <4> QED
        BY <1>6, <3>1, <4>2
    <3>2. CASE j = c + 1
      <4>1. j - 1 = c
        BY <1>5, <3>2
      <4> QED
        BY <1>10, <1>11, <1>len, <3>2, <4>1
    <3> QED
      BY <1>12, <3>1, <3>2
  <2>2. ASSUME NEW i \in 0 .. c + 1, NEW j \in 0 .. c + 1, i < j PROVE to[i] < to[j]
    <3>1. i \in 0 .. c /\ (j \in 0 .. c \/ j = c + 1)
      BY <1>5, <2>2
    <3>2. CASE j \in 0 .. c
      BY <1>6, <1>11, <2>2, <3>1, <3>2
    <3>3. CASE j = c + 1
      <4>1. at[i] <= l /\ at[i] \in Int
        <5>1. i < c \/ i = c
          BY <1>5, <3>1
        <5>2. at[i] \in Int /\ c \in 0 .. c
          <6>1. c \in 0 .. c
            BY <1>5
          <6> QED
            BY <1>6, <3>1, <6>1
        <5> QED
          BY <1>4, <1>6, <1>7, <3>1, <5>1, <5>2
      <4>2. to[i] = at[i] /\ to[j] = end
        BY <1>11, <3>1, <3>3
      <4> QED
        BY <1>4, <1>len, <4>1, <4>2
    <3> QED
      BY <3>1, <3>2, <3>3
  <2> QED
    BY <1>10, <1>11, <2>1, <2>2 DEF Positions
<1>15. ASSUME NEW j \in 1 .. c + 1, NEW i \in 1 .. headLen + Len(more[j]),
              to[j - 1] + i \in 1 .. Len(stream')
       PROVE  stream'[to[j - 1] + i] = FrameOf(more[j])[i]
  <2>1. CASE j \in 1 .. c
    <3>1. /\ j \in 0 .. c /\ j - 1 \in 0 .. c /\ c \in 0 .. c /\ (j < c \/ j = c)
      BY <1>5, <2>1
    <3>2. to[j - 1] = at[j - 1] /\ more[j] = all[j]
      BY <1>10, <1>11, <2>1, <3>1
    <3>3. at[j - 1] \in Int /\ at[j] \in Int /\ at[j] = at[j - 1] + headLen + Len(all[j])
          /\ Len(all[j]) \in Nat
      BY <1>5, <1>6, <2>1, <3>1
    <3>4. at[j] <= l
      <4>1. at[j] < at[c] \/ at[j] = at[c]
        BY <1>6, <3>1
      <4> QED
        BY <1>4, <1>7, <3>3, <4>1
    <3>5. at[j - 1] + i \in 1 .. l
      <4> DEFINE a == at[j - 1]
                 b == at[j]
                 d == Len(all[j])
                 e == Len(stream')
      <4>1. /\ a \in Int /\ b \in Int /\ d \in Nat /\ b = a + headLen + d /\ b <= l
            /\ i \in 1 .. headLen + d /\ a + i \in 1 .. e
        BY <1>15, <3>2, <3>3, <3>4
      <4>2. e \in Nat
        BY <1>4, <1>9
      <4> HIDE DEF a, b, d, e
      <4>3. a + i \in 1 .. l
        BY <1>4, <4>1, <4>2
      <4> QED
        BY <4>3 DEF a
    <3>6. stream[at[j - 1] + i] = FrameOf(all[j])[i]
      <4>1. /\ j \in 1 .. Len(all) /\ i \in 1 .. headLen + Len(all[j])
            /\ at[j - 1] + i \in 1 .. Len(stream)
        BY <1>15, <1>len, <2>1, <3>2, <3>5, Zenon
      <4> QED
        BY <1>3, <4>1, Zenon DEF Bears
    <3> QED
      BY <1>9, <3>2, <3>5, <3>6
  <2>2. CASE j = c + 1
    <3>1. to[j - 1] = l /\ more[j] = o
      BY <1>5, <1>10, <1>11, <2>2
    <3>2. i \in 1 .. n
      <4>1. i \in 1 .. headLen + Len(o) /\ l + i \in 1 .. l + n
        BY <1>9, <1>15, <3>1
      <4> QED
        BY <1>4, <1>9, <4>1
    <3> QED
      BY <1>9, <3>1, <3>2
  <2> QED
    BY <1>12, <2>1, <2>2
<1>16. Bears(more, to)'
  <2>1. ASSUME NEW x PROVE FrameOf(x)' = FrameOf(x)
    BY DEF FrameOf, PutUint
  <2> QED
    BY <1>10, <1>15, <2>1, Zenon DEF Bears
<1>17. Ends(more, to)'
  <2>1. CASE n = Len(FrameOf(o)) /\ sent' = Append(sent, o)
    <3>1. Len(sent') = c + 1
      BY <1>4, <1>5, <2>1, AppendProperties
    <3>2. Len(stream') = end
      BY <1>4, <1>8, <1>9, <1>len, <2>1
    <3>3. ~(c + 1 < c + 1)
      BY <1>5
    <3> QED
      BY <1>10, <1>11, <3>1, <3>2, <3>3 DEF Ends
  <2>2. CASE n < Len(FrameOf(o)) /\ sent' = sent
    <3>1. Len(sent') = c
      BY <1>5, <2>2
    <3>2. l <= Len(stream') /\ Len(stream') < end
      BY <1>4, <1>8, <1>9, <1>len, <2>2
    <3>3. Len(stream') <= end
      BY <1>4, <1>9, <1>11, <3>2
    <3> QED
      BY <1>10, <1>11, <3>1, <3>2, <3>3 DEF Ends
  <2> QED
    BY <2>1, <2>2
<1>18. Reads(more, to, k)'
  <2>1. to[k] = at[k]
    BY <1>5, <1>11
  <2>2. k < c => /\ k < c + 1 /\ more[k + 1] = all[k + 1] /\ to[k + 1] = at[k + 1]
    <3>1. SUFFICES ASSUME k < c PROVE k + 1 \in 1 .. c /\ k + 1 \in 0 .. c /\ k < c + 1
      BY <1>10, <1>11
    <3> QED
      BY <1>5, <3>1
  <2> QED
    BY <1>3, <1>10, <1>len, <2>1, <2>2 DEF Reads
<1>19. OnTheWay(more, to, k)' /\ rpc' # "closed"
  BY <1>13, <1>14, <1>16, <1>17, <1>18 DEF OnTheWay, Reads
<1>20. SubSeq(sent', 1, k) = SubSeq(sent, 1, k) /\ k \in 0 .. Len(sent')
  <2>1. CASE sent' = sent
    BY <2>1
  <2>2. CASE sent' = Append(sent, o)
    <3>1. Len(sent') = Len(sent) + 1
      BY <1>4, <2>2, AppendProperties
    <3>2. SubSeq(sent', 1, k) = SubSeq(sent, 1, k)
      BY <1>4, <2>2, FirstsOfAppend
    <3> QED
      BY <1>4, <3>1, <3>2
  <2> QED
    BY <2>1, <2>2
<1>21. GivenFirst(k)'
  BY <1>1, <1>19, <1>20, Zenon DEF GivenFirst
<1> QED
  BY <1>20, <1>21 DEF Survives

LEMMA InitSInv == Init => SInv
PROOF
<1> SUFFICES ASSUME Init PROVE SInv
  OBVIOUS
<1>1. TInv
  BY InitTInv
<1>2. /\ pc = [w \in Writer |-> "idle"] /\ buf = [b \in Writer \cup {Shared} |-> <<>>]
      /\ sent = <<>> /\ got = <<>> /\ stream = <<>> /\ link = "up" /\ rpc = "head"
      /\ Len(<<>>) = 0
  BY DEF Init
<1>3. Clean
  BY <1>2 DEF Clean, Busy, BufferOf
<1>4. Survives
  <2> DEFINE at == [j \in 0 .. 0 |-> 0]
  <2>1. Written(<<>>)
    <3>1. <<>> \in Seq(Seq(Byte))
      OBVIOUS
    <3> QED
      BY <1>2, <3>1 DEF Written
  <2>2. Positions(<<>>, at)
    BY <1>2 DEF Positions
  <2>3. Bears(<<>>, at)
    BY <1>2 DEF Bears
  <2>4. Ends(<<>>, at) /\ Reads(<<>>, at, 0)
    BY <1>2 DEF Ends, Reads
  <2>5. OnTheWay(<<>>, at, 0)
    BY <2>1, <2>2, <2>3, <2>4 DEF OnTheWay
  <2>6. got = Nonempty(SubSeq(sent, 1, 0))
    <3>1. SubSeq(<<>>, 1, 0) = <<>>
      BY SubSeqEmpty
    <3> QED
      BY <1>2, <3>1, NonemptyOfNothing
  <2>7. GivenFirst(0)
    BY <1>2, <2>5, <2>6, Zenon DEF GivenFirst
  <2> QED
    BY <1>2, <2>7 DEF Survives
<1> QED
  BY <1>1, <1>3, <1>4 DEF SInv

LEMMA WriterSurvives ==
  ASSUME TInv, Clean, Survives, spoilt' = {}, NEW w \in Writer,
         PutHead(w) \/ Encode(w) \/ EncodeFails(w) \/ Write(w) \/ WriteFails(w) \/ Reset(w)
  PROVE  Survives'
PROOF
<1>1. UNCHANGED <<headLen, rpc, pkglen, part, got>>
  BY DEF PutHead, Encode, EncodeFails, Write, WriteFails, Reset, setup, reader
<1>2. CASE PutHead(w) \/ Encode(w) \/ EncodeFails(w) \/ Reset(w)
  <2>1. UNCHANGED <<sent, link, stream>>
    BY <1>2 DEF PutHead, Encode, EncodeFails, Reset
  <2> QED
    BY <1>1, <2>1, SameWire
<1>3. CASE WriteFails(w) /\ link # "up"
  <2>1. UNCHANGED <<sent, link, stream>>
    BY <1>3 DEF WriteFails
  <2> QED
    BY <1>1, <2>1, SameWire
<1>4. CASE (Write(w) \/ WriteFails(w)) /\ link = "up"
  <2>1. PICK o : o = obj[w]
    OBVIOUS
  <2>2. /\ headLen \in {2, 4} /\ o \in Seq(Byte) /\ buf[BufferOf(w)] \in Seq(Byte)
        /\ pc[w] = "write"
    BY <1>4, <2>1 DEF TInv, IInv, Bytes, BufferOf, Write, WriteFails
  <2>3. Holds(buf[BufferOf(w)], o)
    BY <2>1, <2>2 DEF Clean
  <2>4. Frame(buf[BufferOf(w)]) = FrameOf(o) /\ Len(o) < Limit
    BY <2>2, <2>3, FrameIsFrameOf DEF Holds
  <2>5. FrameOf(o) \in Seq(Byte) /\ Len(FrameOf(o)) \in Nat
    BY <2>2, FrameOfBytes
  <2>6. CASE Write(w)
    <3>1. stream' = stream \o FrameOf(o) /\ sent' = Append(sent, o) /\ link' = "up"
      BY <1>4, <2>1, <2>4, <2>6 DEF Write
    <3>2. PICK n \in 0 .. Len(FrameOf(o)) : n = Len(FrameOf(o))
      BY <2>5
    <3>3. SubSeq(FrameOf(o), 1, n) = FrameOf(o)
      BY <2>5, <3>2, SubSeqFull
    <3> QED
      BY <1>1, <1>4, <2>2, <2>4, <3>1, <3>2, <3>3, SendsSurvives
  <2>7. CASE WriteFails(w)
    <3>1. PICK n \in 0 .. Len(FrameOf(o)) - 1 : stream' = stream \o SubSeq(FrameOf(o), 1, n)
      BY <1>4, <2>4, <2>7 DEF WriteFails
    <3>2. n \in 0 .. Len(FrameOf(o)) /\ n < Len(FrameOf(o))
      BY <2>5, <3>1
    <3>3. sent' = sent /\ link' = "down"
      BY <2>7 DEF WriteFails
    <3> QED
      BY <1>1, <1>4, <2>2, <2>4, <3>1, <3>2, <3>3, SendsSurvives
  <2> QED
    BY <1>4, <2>6, <2>7
<1> QED
  BY <1>2, <1>3, <1>4 DEF Write

LEMMA NextSInv == SInv /\ [Next]_vars => SInv'
PROOF
<1> SUFFICES ASSUME SInv, [Next]_vars PROVE SInv'
  OBVIOUS
<1>1. TInv /\ TInv'
  BY NextTInv DEF SInv
<1>2. spoilt \subseteq spoilt'
  BY DEF Next, PutHead, Encode, EncodeFails, Write, WriteFails, Reset, ReadHeadPanics, ReadHead,
         ReadBody, Decode, ReaderEnds, AddDataSize, vars
<1>3. SUFFICES ASSUME spoilt' = {} PROVE Clean' /\ Survives'
  BY <1>1 DEF SInv
<1>4. Clean /\ Survives
  BY <1>2, <1>3 DEF SInv
<1>5. ASSUME NEW w \in Writer,
             PutHead(w) \/ Encode(w) \/ EncodeFails(w) \/ Write(w) \/ WriteFails(w) \/ Reset(w)
      PROVE  Clean' /\ Survives'
  BY <1>1, <1>3, <1>4, <1>5, WriterKeepsClean, WriterSurvives
<1>6. ~ReadHeadPanics
  BY <1>3 DEF ReadHeadPanics
<1>7. CASE ReadHead \/ ReadBody \/ Decode \/ ReaderEnds
  <2>1. Clean'
    <3>1. UNCHANGED <<from, headLen, pc, obj, buf>>
      BY <1>7 DEF ReadHead, ReadBody, Decode, ReaderEnds, setup, writers
    <3> QED
      BY <1>4, <3>1, SameBuffers
  <2> QED
    BY <1>1, <1>3, <1>4, <1>7, <2>1, ReadHeadSurvives, ReadBodySurvives, DecodeSurvives,
       ReaderEndsSurvives
<1>8. CASE AddDataSize \/ UNCHANGED vars
  <2>1. /\ UNCHANGED <<from, headLen, pc, obj, buf>>
        /\ UNCHANGED <<sent, link, stream, rpc, pkglen, part, got>>
    BY <1>8 DEF AddDataSize, vars, setup, writers, reader
  <2> QED
    BY <1>4, <2>1, SameBuffers, SameWire
<1> QED
  BY <1>5, <1>6, <1>7, <1>8 DEF Next

\* The receiver has the first k objects, and all of them when nothing is left.
LEMMA SInvSurvive == SInv => FramesSurvive
PROOF
<1> SUFFICES ASSUME SInv, spoilt = {}
             PROVE  /\ IsPrefix(got, Nonempty(sent))
                    /\ rpc = "head" /\ stream = <<>> => got = Nonempty(sent)
  BY DEF FramesSurvive
<1>1. PICK k \in 0 .. Len(sent) : GivenFirst(k)
  BY DEF SInv, Survives
<1>2. sent \in Seq(Seq(Byte)) /\ got = Nonempty(SubSeq(sent, 1, k))
  BY <1>1 DEF SInv, TInv, Measured, GivenFirst
<1>3. IsPrefix(got, Nonempty(sent))
  BY <1>2, NonemptyOfFirsts
<1>4. ASSUME rpc = "head", stream = <<>> PROVE got = Nonempty(sent)
  <2>1. PICK all, at : OnTheWay(all, at, k)
    BY <1>1, <1>4 DEF GivenFirst
  <2>2. Written(all) /\ Positions(all, at) /\ Ends(all, at) /\ at[k] = 0
    BY <1>4, <2>1 DEF OnTheWay, Reads
  <2>3. k \in 0 .. Len(all) /\ Len(sent) \in 0 .. Len(all) /\ Len(sent) \in Nat
    <3>1. Len(all) \in Nat /\ Len(sent) \in Nat /\ Len(sent) <= Len(all)
      BY <1>2, <2>2 DEF Written
    <3> QED
      BY <3>1
  <2>4. at[Len(sent)] <= 0 /\ at[Len(sent)] \in Int
    <3>1. Len(stream) = 0
      BY <1>4
    <3> QED
      BY <2>2, <2>3, <3>1 DEF Ends, Positions
  <2>5. ~(k < Len(sent))
    <3>1. k < Len(sent) => at[k] < at[Len(sent)]
      BY <2>2, <2>3 DEF Positions
    <3> QED
      BY <2>2, <2>4, <3>1
  <2>6. k = Len(sent)
    BY <2>3, <2>5
  <2> QED
    BY <1>2, <2>6, SubSeqFull
<1> QED
  BY <1>3, <1>4

\* However calls overlap, writes fail and bytes arrive: as long as no header is
\* cut, no object outgrows the length field and a client's calls do not overlap,
\* the receiver is given what was written, whole and in order.
THEOREM FramesAreWhole == Spec => []FramesSurvive
PROOF
  BY InitSInv, NextSInv, SInvSurvive, PTL DEF Spec

=============================================================================
