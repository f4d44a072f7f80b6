-------------------------------- MODULE Frames --------------------------------
(* What travels in one direction of a connection with a coder and no protocol: *)
(* SendData of the server or of the client builds frames, a header with the    *)
(* length and then the encoded object; conRead at the other end takes them     *)
(* apart again.  TCP may deliver the bytes in any parts.                       *)
(*                                                                             *)
(* The server gives every call a buffer of its own, the client has one         *)
(* sendBuffer and no lock.  A byte is a digit below Base, so that lengths      *)
(* overflow the header in small instances: 2 digits stand for uint16, 4 for    *)
(* uint32, in the big-endian order of the RPC coder.  What is left out: the    *)
(* effects that overlapping calls of the client have inside one step (a slice  *)
(* of sendBuffer that is overwritten while it is being written out).           *)
EXTENDS DiskSize, Sequences, SequencesExt, FiniteSetsExt, Bags

CONSTANTS
  Writer,        \* goroutines that call SendData
  Objects,       \* encoded objects: sequences of bytes
  Base,          \* 256
  MaxBufferLen,  \* of the coder
  MaxSends       \* bound: calls of SendData

ASSUME FramesAssumption ==
  /\ Base \in Nat \ {0, 1} /\ MaxBufferLen \in Nat /\ MaxSends \in Nat
  /\ Objects \subseteq Seq(0 .. Base - 1)

VARIABLES
  from,      \* whose SendData it is: "server" or "client"
  headLen,   \* HeadBufferLen() rounded to 2 or 4
  pc, obj,   \* of a writer
  buf,       \* sendBuffer of a writer's call, or the client's
  sent,      \* objects whose frame was written out
  link,      \* "up", or "down" after a failed write
  stream,    \* bytes on the way
  spoilt,    \* what happened that a frame may not survive
  rpc,       \* the reader: "head", "body", "decode", "closed" or "panic"
  pkglen, part,   \* of the package that is being read, and what was read of it
  tmpLen,         \* len(tmpBuffer)
  lastLen,        \* lastReadBufLen
  got,       \* byte strings handed to the receiver
  counter,   \* the server's RecvDataSize or SendDataSize
  posted     \* posted addDataSize2Host closures

writers == <<pc, obj, buf, sent>>
reader == <<rpc, pkglen, part, tmpLen, lastLen, got>>
traffic == <<counter, posted>>
setup == <<from, headLen>>
vars == <<setup, writers, link, stream, spoilt, reader, traffic>>

Byte == 0 .. Base - 1
Shared == "shared"
BufferOf(w) == IF from = "server" THEN w ELSE Shared

\* Lengths below this fit the header.
Limit == IF headLen = 2 THEN Base * Base ELSE Base * Base * Base * Base

\* PutUint16 and PutUint32 of what is left of n in that many digits, and back.
PutUint(n) ==
  IF headLen = 2
  THEN <<(n \div Base) % Base, n % Base>>
  ELSE <<(n \div (Base * Base * Base)) % Base, (n \div (Base * Base)) % Base,
         (n \div Base) % Base, n % Base>>

Uint(digits) ==
  IF Len(digits) = 2
  THEN digits[1] * Base + digits[2]
  ELSE ((digits[1] * Base + digits[2]) * Base + digits[3]) * Base + digits[4]

\* The server's counter gets the length of what it read, or of what it wrote.
Post(end, len) == IF from = end THEN posted (+) SetToBag({len}) ELSE posted
--------------------------------------------------------------------------------
Init ==
  /\ from \in {"server", "client"} /\ headLen \in {2, 4}
  /\ pc = [w \in Writer |-> "idle"]
  /\ obj = [w \in Writer |-> <<>>]
  /\ buf = [b \in Writer \cup {Shared} |-> <<>>]
  /\ sent = <<>> /\ link = "up" /\ stream = <<>> /\ spoilt = {}
  /\ rpc = "head" /\ pkglen = 0 /\ part = <<>> /\ tmpLen = 0 /\ lastLen = 0 /\ got = <<>>
  /\ counter = Zeroed /\ posted = EmptyBag
--------------------------------------------------------------------------------
(* SendData.                                                                   *)

Busy == {w \in Writer : pc[w] # "idle"}

\* Room for the length at the front of the buffer.
PutHead(w) ==
  /\ pc[w] = "idle" /\ link = "up"
  /\ Len(sent) + Cardinality(Busy) < MaxSends
  /\ \E o \in Objects : obj' = [obj EXCEPT ![w] = o]
  /\ pc' = [pc EXCEPT ![w] = "encode"]
  /\ buf' = [buf EXCEPT ![BufferOf(w)] = @ \o PutUint(1)]
  /\ spoilt' = spoilt \cup IF from = "client" /\ Busy # {} THEN {"mixed"} ELSE {}
  /\ UNCHANGED <<setup, sent, link, stream, reader, traffic>>

Encode(w) ==
  /\ pc[w] = "encode"
  /\ pc' = [pc EXCEPT ![w] = "write"]
  /\ buf' = [buf EXCEPT ![BufferOf(w)] = @ \o obj[w]]
  /\ spoilt' = spoilt \cup IF Len(obj[w]) >= Limit THEN {"long"} ELSE {}
  /\ UNCHANGED <<setup, obj, sent, link, stream, reader, traffic>>

\* Encode returns an error: nothing is written.
EncodeFails(w) ==
  /\ pc[w] = "encode"
  /\ pc' = [pc EXCEPT ![w] = "reset"]
  /\ obj' = [obj EXCEPT ![w] = <<>>]
  /\ UNCHANGED <<setup, buf, sent, link, stream, spoilt, reader, traffic>>

\* Mutant: the length counts the header too.
FrameCountsHeader(b) ==
  SubSeq(PutUint(Len(b) % Limit) \o SubSeq(b, headLen + 1, Len(b)), 1, Len(b))

\* The buffer with the length of what follows the header, as far as it fits.
Frame(b) ==
  LET len == (Len(b) - headLen) % Limit
  IN SubSeq(PutUint(len) \o SubSeq(b, headLen + 1, Len(b)), 1, Len(b))

\* writeBytes writes all of it ...
Write(w) ==
  LET frame == Frame(buf[BufferOf(w)])
  IN /\ pc[w] = "write" /\ link = "up"
     /\ pc' = [pc EXCEPT ![w] = "reset"]
     /\ buf' = [buf EXCEPT ![BufferOf(w)] = frame]
     /\ stream' = stream \o frame
     /\ sent' = Append(sent, obj[w])
     /\ obj' = [obj EXCEPT ![w] = <<>>]
     /\ posted' = Post("server", Len(frame))
     /\ UNCHANGED <<setup, link, spoilt, reader, counter>>

\* ... or a part, and closes the connection.
WriteFails(w) ==
  /\ pc[w] = "write"
  /\ pc' = [pc EXCEPT ![w] = "reset"]
  /\ link' = "down"
  /\ LET frame == Frame(buf[BufferOf(w)])
     IN \/ link = "up" /\ \E n \in 0 .. Len(frame) - 1 : stream' = stream \o SubSeq(frame, 1, n)
        \/ link = "down" /\ UNCHANGED stream
  /\ obj' = [obj EXCEPT ![w] = <<>>]
  /\ UNCHANGED <<setup, buf, sent, spoilt, reader, traffic>>

\* ReciveBuffer of the server, Reset in the client.
Reset(w) ==
  /\ pc[w] = "reset"
  /\ pc' = [pc EXCEPT ![w] = "idle"]
  /\ buf' = [buf EXCEPT ![BufferOf(w)] = <<>>]
  /\ UNCHANGED <<setup, obj, sent, link, stream, spoilt, reader, traffic>>
--------------------------------------------------------------------------------
(* conRead.                                                                    *)

Arrived(n) == n \in 1 .. Len(stream)
Take(n) == stream' = SubSeq(stream, n + 1, Len(stream))

\* A header that came in one or three bytes is too short for Uint16 or Uint32.
ReadHeadPanics ==
  /\ rpc = "head"
  /\ \E n \in {1, 3} : n < headLen /\ Arrived(n) /\ Take(n)
  /\ rpc' = "panic"
  /\ spoilt' = spoilt \cup {"cut"}
  /\ UNCHANGED <<setup, writers, link, pkglen, part, tmpLen, lastLen, got, traffic>>

\* Mutant: tmpBuffer is made once.
FitBufferOnce(len) ==
  /\ tmpLen' = IF len > MaxBufferLen /\ tmpLen = 0 THEN len ELSE tmpLen
  /\ lastLen' = IF len > MaxBufferLen THEN len ELSE lastLen

\* tmpBuffer is made anew when the last package it held was shorter.
FitBuffer(len) ==
  /\ tmpLen' = IF len > MaxBufferLen /\ lastLen < len THEN len ELSE tmpLen
  /\ lastLen' = IF len > MaxBufferLen THEN len ELSE lastLen

\* Two bytes are read as a length of 16 bits whatever the header's length is.
\* A package of length 0 is skipped.
ReadHead ==
  /\ rpc = "head"
  /\ \E n \in {2, 4} :
       LET len == Uint(SubSeq(stream, 1, n))
       IN /\ n <= headLen /\ Arrived(n) /\ Take(n)
          /\ pkglen' = len
          /\ FitBuffer(len)
          /\ rpc' = IF len > 0 THEN "body" ELSE "head"
          /\ spoilt' = spoilt \cup IF n < headLen THEN {"cut"} ELSE {}
  /\ UNCHANGED <<setup, writers, link, part, got, traffic>>

\* readbuf[lastread:pkglen] is filled read by read.
ReadBody ==
  /\ rpc = "body"
  /\ \E n \in 1 .. pkglen - Len(part) :
       /\ Arrived(n) /\ Take(n)
       /\ part' = part \o SubSeq(stream, 1, n)
       /\ rpc' = IF Len(part) + n >= pkglen THEN "decode" ELSE "body"
  /\ UNCHANGED <<setup, writers, link, spoilt, pkglen, tmpLen, lastLen, got, traffic>>

Decode ==
  /\ rpc = "decode"
  /\ rpc' = "head"
  /\ got' = Append(got, part)
  /\ posted' = Post("client", pkglen)
  /\ pkglen' = 0 /\ part' = <<>>
  /\ UNCHANGED <<setup, writers, link, stream, spoilt, tmpLen, lastLen, counter>>

\* The coder refuses the package, or a read fails or times out.
ReaderEnds ==
  /\ rpc \in {"head", "body", "decode"}
  /\ rpc' = "closed" /\ link' = "down"
  /\ pkglen' = 0 /\ part' = <<>> /\ stream' = <<>>
  /\ UNCHANGED <<setup, writers, spoilt, tmpLen, lastLen, got, traffic>>

\* Posted closures run in any order, each under the server's lock.
AddDataSize ==
  /\ \E len \in BagToSet(posted) :
       /\ counter' = AddByteSize(counter, len)
       /\ posted' = posted (-) SetToBag({len})
  /\ UNCHANGED <<setup, writers, link, stream, spoilt, reader>>
--------------------------------------------------------------------------------
Next ==
  \/ \E w \in Writer :
       \/ PutHead(w) \/ Encode(w) \/ EncodeFails(w)
       \/ Write(w) \/ WriteFails(w) \/ Reset(w)
  \/ ReadHeadPanics \/ ReadHead \/ ReadBody \/ Decode \/ ReaderEnds
  \/ AddDataSize

Spec == Init /\ [][Next]_vars
--------------------------------------------------------------------------------
(* Properties.                                                                 *)

\* Every variable keeps its type.
TypeOK ==
  /\ from \in {"server", "client"} /\ headLen \in {2, 4} /\ link \in {"up", "down"}
  /\ pc \in [Writer -> {"idle", "encode", "write", "reset"}]
  /\ obj \in [Writer -> Objects \cup {<<>>}]
  /\ buf \in [Writer \cup {Shared} -> Seq(Byte)]
  /\ sent \in Seq(Objects) /\ stream \in Seq(Byte)
  /\ spoilt \subseteq {"mixed", "long", "cut"}
  /\ rpc \in {"head", "body", "decode", "closed", "panic"}
  /\ pkglen \in Nat /\ part \in Seq(Byte) /\ tmpLen \in Nat /\ lastLen \in Nat
  /\ got \in Seq(Seq(Byte)) /\ counter \in DxDiskSize /\ IsABag(posted)

\* conRead never slices its buffer past the end: the package being read fits
\* the buffer chosen for it, although lastReadBufLen remembers the last long
\* package and not the length of tmpBuffer.
BufferHoldsPackage ==
  rpc \in {"body", "decode"} =>
    pkglen <= IF pkglen > MaxBufferLen THEN tmpLen ELSE MaxBufferLen

\* The objects of a sequence that are not empty, in order.
Nonempty(s) == FoldLeft(LAMBDA t, o : IF o = <<>> THEN t ELSE Append(t, o), <<>>, s)

\* What the objects of a sequence have in bytes, and the posted lengths together.
Lengths(s) == FoldLeft(LAMBDA n, o : n + Len(o), 0, s)
Waiting(bag) == MapThenSumSet(LAMBDA len : len * bag[len], BagToSet(bag))

\* Calls of SendData may overlap at a server, writes may fail half way and bytes
\* arrive in any parts: as long as no header was cut, no object outgrew the
\* length field and no two calls of the client overlapped, the receiver is given
\* the objects that were written, whole and in order, and all of them once
\* nothing is left on the way.
FramesSurvive ==
  spoilt = {} => /\ IsPrefix(got, Nonempty(sent))
                 /\ rpc = "head" /\ stream = <<>> => got = Nonempty(sent)

\* The server's traffic counter and the closures still posted add up to the
\* bytes it has received in packages, or has sent in frames: carries are not lost.
TrafficAddsUp ==
  Total(counter) + Waiting(posted) =
    IF from = "client" THEN Lengths(got) ELSE Lengths(sent) + headLen * Len(sent)
================================================================================
