------------------------------- MODULE DxReader -------------------------------
(* The buffered reader a protocol parses from (ServerBase/DxBuffered.go) in the *)
(* loop that drives it (conCustomRead): the loop appends what the socket gives  *)
(* to a chain of chunks, the parser takes bytes out of it, and an incomplete    *)
(* package is put back with RestoreMark until more has arrived.  A chunk is a   *)
(* sequence of bufsize bytes, an offset is the code's, counted from 0.  Read,   *)
(* WriteTo and ReadBytes are modelled in the chunk they start in; their loops   *)
(* over further chunks are never entered, which OneChunk says.                  *)
EXTENDS Integers, Sequences, SequencesExt

CONSTANTS bufsize,    \* length of a chunk: MaxBufferLen / 2, at least 512
          Byte,       \* what the peer sends
          Zero,       \* what a new chunk is filled with
          Delim,      \* the delimiter the parser gives to ReadBytes
          MaxStream   \* bound: bytes the peer sends

ASSUME BufsizeAssumption == bufsize \in Nat \ {0}
ASSUME MaxStreamAssumption == MaxStream \in Nat
ASSUME DelimAssumption == Delim \in Byte

Content == Byte \cup {Zero}
Chunk == {c \in Seq(Content) : Len(c) = bufsize}

VARIABLES chainbuf, bytepool, ridx, widx, r, w,   \* DxReader
          pc,        \* where the loop of conCustomRead is
          mark,      \* markidx, markOffset
          line,      \* the line ReadBytes has collected
          stream,    \* history: all bytes that were appended
          got,       \* history: all bytes the parser has taken and not put back
          kept,      \* history: got at the mark
          blind      \* history: ReadBytes was called with no Delim in the data

buffer == <<chainbuf, bytepool, ridx, widx, r, w>>
vars == <<chainbuf, bytepool, ridx, widx, r, w, pc, mark, line, stream, got, kept, blind>>

-------------------------------------------------------------------------------
\* Slices: buf[i:j], and what is left of buf after copy(buf[i:], s).
Slice(buf, i, j) == SubSeq(buf, i + 1, j)
Copied(buf, i, s) ==
  [x \in 1..Len(buf) |-> IF x > i /\ x <= i + Len(s) THEN s[x - i] ELSE buf[x]]

\* bytes.IndexByte(buf, Delim) = i
FirstDelim(buf, i) ==
  /\ i \in 0..Len(buf) - 1
  /\ buf[i + 1] = Delim
  /\ \A j \in 1..i : buf[j] # Delim
NoDelim(buf) == \A j \in 1..Len(buf) : buf[j] # Delim

Current == chainbuf[ridx + 1]
NewChunk == [x \in 1..bufsize |-> Zero]

IsEmpty == chainbuf = <<>> \/ (r = w /\ ridx = widx)
Buffered ==
  IF ridx = widx THEN w - r
  ELSE bufsize - r + w + (IF widx - ridx > 2 THEN (widx - ridx - 2) * bufsize ELSE 0)

\* The appended bytes the parser has not taken.
Unread == IF IsEmpty THEN <<>> ELSE Slice(Current, r, w)

-------------------------------------------------------------------------------
Init ==
  /\ chainbuf = <<>> /\ bytepool = {}
  /\ ridx = 0 /\ widx = -1 /\ r = 0 /\ w = 0
  /\ pc = "append"
  /\ mark = [ridx |-> 0, r |-> 0]
  /\ line = <<>>
  /\ stream = <<>> /\ got = <<>> /\ kept = <<>> /\ blind = FALSE

\* ReadAppend: the socket puts s behind the write offset, in the last chunk or,
\* when one is needed, in a new one, which is taken for size bytes long.
AppendTo(s, needed, size) ==
  LET n == IF needed THEN widx + 1 ELSE widx
      at == IF needed THEN 0 ELSE w
  IN /\ Len(s) <= size - at
     /\ IF needed
        THEN \E buf \in bytepool \cup {NewChunk} :
               /\ chainbuf' = Append(chainbuf, Copied(buf, at, s))
               /\ bytepool' = bytepool \ {buf}
        ELSE /\ chainbuf' = [chainbuf EXCEPT ![n + 1] = Copied(@, at, s)]
             /\ UNCHANGED bytepool
     /\ widx' = n
     /\ w' = at + Len(s)
     /\ stream' = stream \o s

\* Mutant: the comparison that was meant.
ReadAppendAtFull(s) == AppendTo(s, chainbuf = <<>> \/ bufsize = w, bufsize)

ReadAppend(s) == AppendTo(s, chainbuf = <<>> \/ bufsize = widx, bufsize)

\* ClearRead at chunk idx and offset off: the chunks before go back to the pool,
\* and an empty reader starts again at the beginning of its chunk.
ClearTo(idx, off, empty) ==
  LET n == Len(chainbuf)
      moved == [i \in 1..n |-> IF i + idx <= n THEN chainbuf[i + idx] ELSE chainbuf[i]]
  IN /\ bytepool' = bytepool \cup {chainbuf[i] : i \in 1..idx}
     /\ ridx' = IF n = 0 THEN idx ELSE 0
     /\ widx' = IF n = 0 THEN widx ELSE widx - idx
     /\ chainbuf' = IF widx - idx > 0 THEN SubSeq(moved, 1, widx - idx) ELSE moved
     /\ r' = IF empty THEN 0 ELSE off
     /\ w' = IF ~empty THEN w ELSE IF n = 0 THEN -1 ELSE 0

\* Mutant: the emptied chunk is not started again.
ClearReadGoesOn(idx, off) == ClearTo(idx, off, chainbuf = <<>>)

ClearRead(idx, off) ==
  ClearTo(idx, off, chainbuf = <<>> \/ (off = w /\ idx = widx))

-------------------------------------------------------------------------------
\* The loop of conCustomRead.

ReadSome ==
  /\ pc = "append"
  /\ \E n \in 1..bufsize : \E s \in [1..n -> Byte] :
       /\ Len(stream) + n <= MaxStream
       /\ ReadAppend(s)
  /\ pc' = "parse"
  /\ UNCHANGED <<ridx, r, mark, line, got, kept, blind>>

\* e # nil or rlen = 0: the peer has left, or the slice to read into is empty.
ReadNone ==
  /\ pc = "append"
  /\ ReadAppend(<<>>)
  /\ pc' = "done"
  /\ UNCHANGED <<ridx, r, mark, line, got, kept, blind>>

MarkIndex ==
  /\ pc = "parse"
  /\ IF IsEmpty
     THEN pc' = "append" /\ UNCHANGED <<mark, kept, blind>>
     ELSE /\ pc' = "parsing"
          /\ mark' = [ridx |-> ridx, r |-> r]
          /\ kept' = got
  /\ UNCHANGED <<buffer, line, stream, got, blind>>

\* pok: the package is complete.
Accept ==
  /\ pc = "parsing"
  /\ ClearRead(ridx, r)
  /\ pc' = "parse"
  /\ UNCHANGED <<mark, line, stream, got, kept, blind>>

\* ~pok: the package goes on in what is not there yet.
RestoreTo(off) ==
  /\ pc = "parsing"
  /\ IF mark.ridx <= widx
     THEN /\ ridx' = mark.ridx
          /\ r' = IF r <= w THEN off ELSE r
     ELSE UNCHANGED <<ridx, r>>
  /\ got' = kept
  /\ pc' = "append"
  /\ UNCHANGED <<chainbuf, bytepool, widx, w, mark, line, stream, kept, blind>>

\* Mutant: the chunk is restored and the offset is not.
RestoreMarkChunk == RestoreTo(r)

RestoreMark == RestoreTo(mark.r)

ParserFails ==
  /\ pc = "parsing"
  /\ pc' = "done"
  /\ UNCHANGED <<buffer, mark, line, stream, got, kept, blind>>

-------------------------------------------------------------------------------
\* What a parser calls.

\* Read into a slice, or WriteTo, of n bytes: a parser asks Buffered first, as
\* the one of EchoDemo does.
Read ==
  /\ pc = "parsing" /\ ~IsEmpty
  /\ \E n \in 1..Buffered :
       /\ n <= bufsize - r
       /\ got' = got \o Slice(Current, r, r + n)
       /\ r' = r + n
  /\ UNCHANGED <<chainbuf, bytepool, ridx, widx, w, pc, mark, line, stream, kept, blind>>

\* ReadBytes(Delim), by a parser that has seen a Delim or by one that has not.
ReadBytes ==
  /\ pc = "parsing" /\ ~IsEmpty
  /\ pc' = "cut"
  /\ blind' = (blind \/ NoDelim(Unread))
  /\ UNCHANGED <<buffer, mark, line, stream, got, kept>>

Return(cut) ==
  /\ got' = got \o line \o cut
  /\ line' = <<>>
  /\ pc' = "parsing"

\* Delim is found from the read offset to the end of the chunk.
CutHere ==
  /\ pc = "cut"
  /\ \E i \in 0..bufsize - 1 :
       /\ FirstDelim(Slice(Current, r, bufsize), i)
       /\ Return(Slice(Current, r, r + i + 1))
       /\ r' = r + i + 1
  /\ UNCHANGED <<chainbuf, bytepool, ridx, widx, w, mark, stream, kept, blind>>

\* It is not there but in the last chunk, searched from its beginning; a slice
\* that ends behind the chunk panics.
CutLast ==
  /\ pc = "cut"
  /\ NoDelim(Slice(Current, r, bufsize))
  /\ \E i \in 0..bufsize - 1 :
       /\ FirstDelim(Slice(chainbuf[widx + 1], 0, w), i)
       /\ IF r + i + 1 <= bufsize
          THEN /\ Return(Slice(Current, r, bufsize)
                         \o Slice(chainbuf[widx + 1], 0, r + i + 1))
               /\ r' = r + i + 1
          ELSE pc' = "panic" /\ UNCHANGED <<line, got, r>>
  /\ ridx' = widx
  /\ UNCHANGED <<chainbuf, bytepool, widx, w, mark, stream, kept, blind>>

\* It is nowhere: everything belongs to the line, and more is needed.
CutNothing ==
  /\ pc = "cut"
  /\ NoDelim(Slice(Current, r, bufsize))
  /\ NoDelim(Slice(chainbuf[widx + 1], 0, w))
  /\ line' = line \o Slice(Current, r, bufsize) \o Slice(chainbuf[widx + 1], 0, w)
  /\ ClearRead(widx, w)
  /\ pc' = "more"
  /\ UNCHANGED <<mark, stream, got, kept, blind>>

\* ReadBytes appends and searches again, or returns nil when nothing came.
ReadMore ==
  /\ pc = "more"
  /\ \/ /\ \E n \in 1..bufsize : \E s \in [1..n -> Byte] :
             /\ Len(stream) + n <= MaxStream
             /\ ReadAppend(s)
        /\ pc' = "cut"
        /\ UNCHANGED line
     \/ /\ ReadAppend(<<>>)
        /\ pc' = "parsing"
        /\ line' = <<>>
  /\ UNCHANGED <<ridx, r, mark, got, kept, blind>>

Next ==
  \/ ReadSome \/ ReadNone
  \/ MarkIndex \/ Accept \/ RestoreMark \/ ParserFails
  \/ Read \/ ReadBytes
  \/ CutHere \/ CutLast \/ CutNothing \/ ReadMore

Spec == Init /\ [][Next]_vars

-------------------------------------------------------------------------------
\* Offsets stay in the chunk, whatever the parser calls.
TypeOK ==
  /\ chainbuf \in Seq(Chunk)
  /\ bytepool \subseteq Chunk
  /\ ridx \in Nat /\ widx \in Nat \cup {-1}
  /\ r \in 0..bufsize
  /\ w \in 0..bufsize
  /\ pc \in {"append", "parse", "parsing", "cut", "more", "done", "panic"}
  /\ mark \in [ridx : Nat, r : 0..bufsize]
  /\ line \in Seq(Content) /\ got \in Seq(Content) /\ kept \in Seq(Content)
  /\ stream \in Seq(Byte)
  /\ blind \in BOOLEAN

\* ReadAppend compares the chunk's length with the index of the chunk and not
\* with the write offset, so the chain never gets a second chunk, and the loops
\* of Read, WriteTo, ReadBytes and Buffered over further chunks are never entered.
OneChunk ==
  /\ Len(chainbuf) <= 1
  /\ ridx = 0 /\ widx = Len(chainbuf) - 1
  /\ bytepool = {}

\* Across appends, marks that are restored, and chunks that are started again,
\* what a parser was given and what is still there are the bytes of the peer in
\* their order, each once - unless it called ReadBytes with no Delim in the data.
InOrder == ~blind => got \o Unread = stream

\* A chunk is full at ReadAppend, which then reads nothing and lets the loop
\* close the connection, only when a package the parser has put back fills it to
\* the end: a parser that takes what it is given is never cut off - again unless
\* it called ReadBytes with no Delim in the data.
FullOnlyWhenPending == ~blind /\ pc = "append" /\ w = bufsize => Unread # <<>>

================================================================================
