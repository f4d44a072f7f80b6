------------------------------- MODULE LogWriter -------------------------------
(***************************************************************************)
(* BufferLoggerWriter (BufferLogWritter.go): loggers put records into the  *)
(* channel datachan, WriteData2File takes them out, writes them to a file  *)
(* and gives their buffers back through bufferchan, QuitWriter ends it.    *)
(* All three read the channel fields without a lock.                       *)
(***************************************************************************)
EXTENDS Naturals, Sequences, FiniteSets

CONSTANTS
  Loggers,    \* goroutines that call Write
  DataCap,    \* capacity of datachan (20)
  BufferCap,  \* capacity of bufferchan (100)
  FileCap,    \* records after which a new file is begun (10 MB)
  MaxWrites   \* bound: calls of Write that get past the first test

ASSUME CapsAssumption == {DataCap, BufferCap, FileCap, MaxWrites} \subseteq Nat
ASSUME LoggersAssumption == IsFiniteSet(Loggers)

VARIABLES
  datachan,    \* the field is not nil
  data,        \* the buffers in the data channel
  dataClosed,
  bufferchan,  \* the field: which buffer channel, 0 for nil
  free,        \* the buffers in each buffer channel
  freeClosed,  \* the buffer channels that are closed
  made,        \* buffer channels made so far
  bufs,        \* buffers made so far
  content,     \* the record in each buffer
  records,     \* records accepted by Write so far
  logger,      \* per logger: where it is, with which record and buffer
  writer,      \* where WriteData2File is
  select,      \* it waits for the data channel, not for nil
  hand,        \* the buffer it holds, 0 for none
  size,        \* logDataSize
  file,        \* what it did with each record: [rec, written]
  quit,        \* where QuitWriter is
  sent,        \* history: the records in the order they went into the channel
  panicked

dataVars == <<datachan, data, dataClosed>>
bufferVars == <<bufferchan, freeClosed, made>>
chans == <<dataVars, bufferVars, free>>
buffers == <<bufs, content, records>>
writerVars == <<writer, select, hand, size, file>>
rest == <<quit, sent, panicked>>
vars == <<chans, buffers, logger, writerVars, rest>>

Chans == 1 .. Cardinality(Loggers)
Buffers == 1 .. MaxWrites

\* WriteData2File goes on with a file that is not full yet or makes a new one,
\* or cannot open it and returns.
Opening == writer \in {"eval", "dead"} /\ select = FALSE /\ hand = 0 /\ size = 0 /\ file = <<>>

Init ==
  /\ datachan = TRUE /\ data = <<>> /\ dataClosed = FALSE
  /\ bufferchan = 0 /\ free = [g \in Chans |-> <<>>] /\ freeClosed = {} /\ made = 0
  /\ bufs = 0 /\ content = [b \in Buffers |-> 0] /\ records = 0
  /\ logger = [l \in Loggers |-> [pc |-> "idle", rec |-> 0, buf |-> 0]]
  /\ Opening
  /\ quit = "idle" /\ sent = <<>> /\ panicked = FALSE

LoggerAt(l, pc) == ~panicked /\ logger[l].pc = pc
LoggerTo(l, pc, r, b) == logger' = [logger EXCEPT ![l] = [pc |-> pc, rec |-> r, buf |-> b]]
WriterAt(pc) == ~panicked /\ writer = pc
QuitAt(pc) == ~panicked /\ quit = pc
Panics == panicked' = TRUE /\ UNCHANGED <<chans, buffers, logger, writerVars, quit, sent>>

-----------------------------------------------------------------------------
(* Write.  The field datachan is read twice; bufferchan is made by the      *)
(* first logger, or by several that find it nil at once.                    *)
CheckChan(l) ==
  /\ LoggerAt(l, "idle") /\ datachan
  /\ records < MaxWrites
  /\ records' = records + 1
  /\ LoggerTo(l, IF bufferchan = 0 THEN "make" ELSE "get", records', 0)
  /\ UNCHANGED <<chans, bufs, content, writerVars, rest>>

\* copy(mp, p): the record of logger l goes into buffer b.
Fill(l, b) ==
  /\ content' = [content EXCEPT ![b] = logger[l].rec]
  /\ LoggerTo(l, "send", logger[l].rec, b)

NewBuffer(l) == bufs' = bufs + 1 /\ Fill(l, bufs + 1)

\* Mutant: the buffer stays in the channel.
GetBufferLeaves(l) ==
  /\ LoggerAt(l, "get")
  /\ IF free[bufferchan] # <<>> THEN Fill(l, Head(free[bufferchan])) /\ UNCHANGED bufs
     ELSE NewBuffer(l)
  /\ UNCHANGED <<chans, records, writerVars, rest>>

\* getBuffer with a buffer channel: a buffer from it, if there is one and it
\* is large enough, or a new one.
GetBuffer(l) ==
  /\ LoggerAt(l, "get")
  /\ \/ /\ free[bufferchan] # <<>>
        /\ free' = [free EXCEPT ![bufferchan] = Tail(@)]
        /\ \/ Fill(l, Head(free[bufferchan])) /\ UNCHANGED bufs
           \/ NewBuffer(l)
     \/ /\ free[bufferchan] = <<>>
        /\ NewBuffer(l)
        /\ UNCHANGED free
  /\ UNCHANGED <<dataVars, bufferVars, records, writerVars, rest>>

\* The second test of the field: with a channel there by now only the buffer is made.
MakeBufferChan(l) ==
  /\ LoggerAt(l, "make")
  /\ \/ made' = made + 1 /\ bufferchan' = made'
     \/ bufferchan # 0 /\ UNCHANGED <<made, bufferchan>>
  /\ NewBuffer(l)
  /\ UNCHANGED <<dataVars, free, freeClosed, records, writerVars, rest>>

\* A send on a nil channel never ends.
ReadChan(l) ==
  /\ LoggerAt(l, "send")
  /\ LoggerTo(l, IF datachan THEN "sending" ELSE "stuck", logger[l].rec, logger[l].buf)
  /\ UNCHANGED <<chans, buffers, writerVars, rest>>

Send(l) ==
  /\ LoggerAt(l, "sending")
  /\ \/ dataClosed /\ Panics
     \/ /\ ~dataClosed /\ Len(data) < DataCap
        /\ data' = Append(data, logger[l].buf)
        /\ sent' = Append(sent, logger[l].rec)
        /\ LoggerTo(l, "idle", 0, 0)
        /\ UNCHANGED <<datachan, dataClosed, bufferVars, free, buffers, writerVars, quit, panicked>>

-----------------------------------------------------------------------------
(* WriteData2File evaluates the field for every turn of its select. *)
Evaluate ==
  /\ WriterAt("eval")
  /\ select' = datachan
  /\ writer' = "wait"
  /\ UNCHANGED <<chans, buffers, logger, hand, size, file, rest>>

TakeRecord ==
  /\ WriterAt("wait") /\ select
  /\ data # <<>>
  /\ hand' = Head(data)
  /\ data' = Tail(data)
  /\ writer' = "write"
  /\ UNCHANGED <<datachan, dataClosed, bufferVars, buffers, logger, select, size, file, rest>>

Drained(next) ==
  /\ WriterAt("wait") /\ select
  /\ data = <<>> /\ dataClosed
  /\ writer' = next
  /\ UNCHANGED <<chans, buffers, logger, select, hand, size, file, rest>>

\* Mutants: the buffer is given back before it is written, and the writer
\* returns when the data channel is closed.
TakeDataGivesBack == TakeRecord /\ free' = [free EXCEPT ![bufferchan] = Append(@, Head(data))]
TakeDataReturns == (TakeRecord /\ UNCHANGED free) \/ Drained("ended")

TakeData == (TakeRecord /\ UNCHANGED free) \/ Drained("eval")

\* A write may fail, and the file that follows a full one may not open: then
\* the writer is over.
Log(written) == file' = Append(file, [rec |-> content[hand], written |-> written])

Written ==
  /\ WriterAt("write")
  /\ Log(TRUE)
  /\ size' = IF size + 1 >= FileCap THEN 0 ELSE size + 1
  /\ \/ writer' = "give"
     \/ size' = 0 /\ writer' = "giveLast"
  /\ UNCHANGED <<chans, buffers, logger, select, hand, rest>>

WriteError(next) ==
  /\ WriterAt("write")
  /\ Log(FALSE)
  /\ writer' = next
  /\ UNCHANGED <<chans, buffers, logger, select, hand, size, rest>>

\* Mutant: the writer returns when a write fails.
WriteRecordReturns == Written \/ WriteError("ended")

WriteRecord == Written \/ WriteError("give")

\* reciveBuffer: a full channel is given up after five seconds.
GiveBack ==
  /\ WriterAt("give") \/ WriterAt("giveLast")
  /\ \/ bufferchan \in freeClosed /\ Panics
     \/ /\ bufferchan \notin freeClosed
        /\ free' = IF Len(free[bufferchan]) < BufferCap
                   THEN [free EXCEPT ![bufferchan] = Append(@, hand)] ELSE free
        /\ hand' = 0
        /\ writer' = IF writer = "give" THEN "eval" ELSE "dead"
        /\ UNCHANGED <<dataVars, bufferVars, buffers, logger, select, size, file, rest>>

-----------------------------------------------------------------------------
(* QuitWriter *)
CloseData ==
  /\ QuitAt("idle")
  /\ dataClosed' = TRUE
  /\ quit' = "field"
  /\ UNCHANGED <<datachan, data, bufferVars, free, buffers, logger, writerVars, sent, panicked>>

ClearData ==
  /\ QuitAt("field")
  /\ datachan' = FALSE
  /\ quit' = "buffers"
  /\ UNCHANGED <<data, dataClosed, bufferVars, free, buffers, logger, writerVars, sent, panicked>>

CloseBuffers ==
  /\ QuitAt("buffers")
  /\ freeClosed' = freeClosed \cup ({bufferchan} \ {0})
  /\ quit' = "send"
  /\ UNCHANGED <<dataVars, bufferchan, free, made, buffers, logger, writerVars, sent, panicked>>

\* quitchan has no buffer: the writer closes its file and returns.
SendQuit ==
  /\ QuitAt("send") /\ WriterAt("wait")
  /\ writer' = "ended"
  /\ quit' = "done"
  /\ UNCHANGED <<chans, buffers, logger, select, hand, size, file, sent, panicked>>

-----------------------------------------------------------------------------
LoggerStep(l) == GetBuffer(l) \/ MakeBufferChan(l) \/ ReadChan(l) \/ Send(l)
WriterStep == Evaluate \/ TakeData \/ WriteRecord \/ GiveBack
QuitStep == ClearData \/ CloseBuffers \/ SendQuit

Next ==
  \/ \E l \in Loggers : CheckChan(l) \/ LoggerStep(l)
  \/ WriterStep
  \/ CloseData \/ QuitStep

Spec == Init /\ [][Next]_vars

\* A call of Write or QuitWriter that was begun goes on when it can.
LiveSpec ==
  /\ Spec
  /\ \A l \in Loggers : WF_vars(LoggerStep(l))
  /\ WF_vars(WriterStep) /\ WF_vars(QuitStep)

-----------------------------------------------------------------------------
TypeOK ==
  /\ datachan \in BOOLEAN /\ data \in Seq(Buffers) /\ dataClosed \in BOOLEAN
  /\ made \in 0 .. Cardinality(Loggers) /\ bufferchan \in 0 .. made
  /\ free \in [Chans -> Seq(Buffers)] /\ freeClosed \in SUBSET Chans
  /\ records \in 0 .. MaxWrites /\ bufs \in 0 .. records
  /\ content \in [Buffers -> 0 .. records]
  /\ logger \in [Loggers -> [pc : {"idle", "get", "make", "send", "sending", "stuck"},
                             rec : 0 .. records, buf : 0 .. bufs]]
  /\ writer \in {"eval", "wait", "write", "give", "giveLast", "dead", "ended"}
  /\ select \in BOOLEAN /\ hand \in 0 .. bufs /\ size \in 0 .. FileCap
  /\ quit \in {"idle", "field", "buffers", "send", "done"}
  /\ panicked \in BOOLEAN

\* Where a buffer is: in the hand of a logger or of the writer, in datachan or
\* in a buffer channel.
Places(b) ==
  Cardinality({l \in Loggers : logger[l].buf = b})
  + Cardinality({i \in DOMAIN data : data[i] = b})
  + Cardinality({hand} \cap {b})
  + Cardinality({at \in Chans \X Buffers : at[2] \in DOMAIN free[at[1]] /\ free[at[1]][at[2]] = b})

\* A buffer is never in two hands, however many loggers make and replace the
\* buffer channel: nobody fills one whose record is still to be written.
BuffersExclusive == \A b \in Buffers : Places(b) <= 1

\* What the writer handled, what it holds and what waits for it are the
\* records as they were sent, in that order; only a record whose write fails and
\* what waits when the writer ends are lost.
LogIsWhatWasSent ==
  [i \in DOMAIN file |-> file[i].rec]
    \o (IF writer = "write" THEN <<content[hand]>> ELSE <<>>)
    \o [i \in DOMAIN data |-> content[data[i]]]
  = sent

\* QuitWriter returns, unless the writer could not open a file and has ended
\* before: then nobody takes its message.
QuitReturns == quit # "idle" ~> quit = "done" \/ writer = "dead" \/ panicked

\* A Write returns, unless QuitWriter was called or the writer could not
\* open a file.
WriteReturns ==
  \A l \in Loggers :
    logger[l].pc # "idle" ~>
      logger[l].pc = "idle" \/ quit # "idle" \/ writer = "dead" \/ panicked

=============================================================================
