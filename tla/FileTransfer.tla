----------------------------- MODULE FileTransfer -----------------------------
(***************************************************************************)
(* One FileClient (Demo/FileClient/DxFileClient) that downloads files from *)
(* the DxFileServer of module FileServer, beside connections whose peers   *)
(* send whatever they like.  The client has its user interface thread,     *)
(* which calls DownLoadFile, and the goroutines that its receiver starts,  *)
(* one for every result.  Both wait for results in ExecuteWait, through    *)
(* one channel and one method id.  The client connects once.               *)
(***************************************************************************)
EXTENDS FileServer, Sequences, FiniteSets

CONSTANTS
  Me,           \* the server's object for the connection of the client
  PeerFiles,    \* the files that the other peers ask for (bound)
  Parsers,      \* goroutines of parserRecvPkg that may exist at one time (bound)
  MaxCalls,     \* bound: calls of DownLoadFile
  MaxTimeouts   \* bound: waits that end before their result while the client is connected

ASSUME MeAssumption == Me \in Cons /\ PeerFiles \subseteq Files

VARIABLES
  link,            \* "new", "up", "broken", "over" when the server's object is pooled
  clientcon,       \* of the client: "live", "down" after its disconnect event, "gone"
  toSrv, toCli,    \* requests and results under way, in order
  pc,              \* of Ui and of each parser
  file,            \* the file of a DownLoadFile call
  pkg,             \* the result that a parser was started with
  waitId,          \* the method id that a thread waits for
  fWaitMethodId,   \* the id whose result the client expects, 0 for none
  curResultPkg,    \* the Err of that result, "nil" for no result
  fbusystate, fUpdownFiles, curRemoteFile, curfilePosition,
  curOpFile,       \* "nil", "open", "closed" but not nil
  mutex,           \* holder of the client's mutex
  nextId, calls, timeouts,
  late,            \* history: a parser went on with a result whose wait had ended
  mixed,           \* history: a block of one file was written into the next
  reasons,         \* history: why files may wait without anybody to fetch them
  crashed          \* the client has panicked

Ui == "ui"
Threads == {Ui} \cup Parsers

ASSUME ParsersAssumption == Ui \notin Parsers

net == <<link, toSrv, toCli>>
waits == <<waitId, fWaitMethodId, nextId>>
current == <<curRemoteFile, curfilePosition, curOpFile>>
queue == <<fbusystate, fUpdownFiles>>
history == <<late, mixed, reasons, calls, timeouts>>
rest == <<clientcon, history, crashed>>
clientVars == <<pc, file, pkg, waits, curResultPkg, queue, current, mutex, rest>>
vars == <<serverVars, net, clientVars>>

Mine == link \in {"up", "broken"}
NoPkg == [m |-> "none", id |-> 0, err |-> "ok", pos |-> 0, total |-> 0]

-----------------------------------------------------------------------------
(* SendData: nothing is written once the connection is closed. *)
Message(m, f, id, pos) == [m |-> m, f |-> f, id |-> id, pos |-> pos]

Sent(m, f, id, pos) ==
  IF clientcon = "live" /\ link = "up" THEN Append(toSrv, Message(m, f, id, pos)) ELSE toSrv

ExecuteMethod(f, pos) == toSrv' = Sent("DownLoad", f, 0, pos) /\ UNCHANGED <<waits, link, toCli>>

\* A new id is expected, and SendRequest follows.
ExecuteWait(t) ==
  /\ nextId' = nextId + 1
  /\ fWaitMethodId' = nextId
  /\ waitId' = [waitId EXCEPT ![t] = nextId]
  /\ UNCHANGED net

Goto(t, l) == pc' = [pc EXCEPT ![t] = l]

\* A client that has mixed up two files is not followed any further.
Step(t, l) == ~crashed /\ ~mixed /\ pc[t] = l /\ UNCHANGED serverVars

ClientInit ==
  /\ link = "new" /\ clientcon = "live" /\ toSrv = <<>> /\ toCli = <<>>
  /\ pc = [t \in Threads |-> "idle"]
  /\ file = NoFile
  /\ pkg = [p \in Parsers |-> NoPkg]
  /\ waitId = [t \in Threads |-> 0] /\ fWaitMethodId = 0 /\ nextId = 1
  /\ curResultPkg = "nil"
  /\ fbusystate = 0 /\ fUpdownFiles = {}
  /\ curRemoteFile = NoFile /\ curfilePosition = 0 /\ curOpFile = "nil"
  /\ mutex = "free"
  /\ calls = 0 /\ timeouts = 0 /\ late = FALSE /\ mixed = FALSE /\ reasons = {}
  /\ crashed = FALSE

-----------------------------------------------------------------------------
(* The user interface: DownLoadFile.  With fbusystate = 0 no other thread    *)
(* sets it, so its test and the LockFile request are one step.               *)
DownLoadFile(f) ==
  /\ Step(Ui, "idle") /\ link # "new"
  /\ calls < MaxCalls
  /\ calls' = calls + 1
  /\ file' = f
  /\ \/ /\ fbusystate = 1
        /\ Goto(Ui, "queue")
        /\ UNCHANGED <<net, waits>>
     \/ /\ fbusystate = 0
        /\ ExecuteWait(Ui)
        /\ Goto(Ui, "lockSend")
  /\ UNCHANGED <<clientcon, pkg, curResultPkg, queue, current, mutex, late, mixed, reasons,
                 timeouts, crashed>>

\* The map is written without the mutex: with a doNextFile in its loop over
\* the map the run-time system may stop the program.
QueueFile ==
  /\ Step(Ui, "queue")
  /\ \/ /\ fUpdownFiles' = fUpdownFiles \cup {file}
        /\ reasons' = IF fbusystate = 0 THEN reasons \cup {"missed"} ELSE reasons
        /\ Goto(Ui, "idle") /\ file' = NoFile
        /\ UNCHANGED crashed
     \/ /\ \E p \in Parsers : pc[p] = "ranging"
        /\ crashed' = TRUE
        /\ UNCHANGED <<fUpdownFiles, reasons, pc, file>>
  /\ UNCHANGED <<net, clientcon, pkg, waits, curResultPkg, fbusystate, current, mutex, late,
                 mixed, calls, timeouts>>

\* curResultPkg is read after the wait: it may have been set to nil meanwhile.
NilResult(t) ==
  /\ Step(t, "locked") /\ curResultPkg = "nil"
  /\ crashed' = TRUE
  /\ UNCHANGED <<net, clientcon, pc, file, pkg, waits, curResultPkg, queue, current, mutex,
                 history>>

StartDownLoad ==
  /\ Step(Ui, "locked") /\ curResultPkg = "ok"
  /\ fbusystate' = 1
  /\ curRemoteFile' = file
  /\ ExecuteMethod(file, 0)
  /\ Goto(Ui, "idle") /\ file' = NoFile
  /\ UNCHANGED <<rest, pkg, curResultPkg, fUpdownFiles, curfilePosition, curOpFile, mutex>>

\* The file goes to fDelayUpDownFiles, which nothing reads.
Refused ==
  /\ Step(Ui, "locked") /\ curResultPkg \notin {"nil", "ok"}
  /\ curResultPkg' = "nil"
  /\ Goto(Ui, "idle") /\ file' = NoFile
  /\ UNCHANGED <<net, rest, pkg, waits, queue, current, mutex>>

-----------------------------------------------------------------------------
(* The channel fWaitchan has no buffer: a parser that delivers waits for the *)
(* next thread that waits, whatever that thread asked for.                   *)
Target(t) == IF t = Ui THEN file ELSE curRemoteFile

\* The request gets the id that is read from fWaitMethodId again: a late parser may
\* have cleared it.
SendRequest(t, m, from, to) ==
  /\ Step(t, from) /\ Goto(t, to)
  /\ toSrv' = Sent(m, Target(t), fWaitMethodId, 0)
  /\ UNCHANGED <<link, toCli, rest, file, pkg, waits, curResultPkg, queue, current, mutex>>

SendLock(t) == SendRequest(t, "LockFile", "lockSend", "lockWait")
SendUnlock(t) == SendRequest(t, "UnLockFile", "unlockSend", "unlockWait")

\* After doNextFile a parser whose file could not be created goes on with its block.
AfterNext(t) == IF t # Ui /\ pkg[t] # NoPkg THEN "recheck" ELSE "idle"

AfterWait(l) == IF l = "lockWait" THEN "locked" ELSE "unlocked"

WakeUp(t, p) ==
  /\ Step(t, pc[t]) /\ pc[t] \in {"lockWait", "unlockWait"}
  /\ pc[p] = "deliver"
  /\ pc' = [pc EXCEPT ![t] = AfterWait(@), ![p] = "idle"]
  /\ pkg' = [pkg EXCEPT ![p] = NoPkg]
  /\ waitId' = [waitId EXCEPT ![t] = 0]
  /\ late' = (late \/ pkg[p].id # waitId[t])
  /\ UNCHANGED <<net, clientcon, file, fWaitMethodId, nextId, curResultPkg, queue, current, mutex,
                 mixed, reasons, calls, timeouts, crashed>>

\* 30 seconds have passed.  A parser in doNextFile leaves fbusystate at 1.
TimeOut(t) ==
  /\ Step(t, pc[t]) /\ pc[t] \in {"lockWait", "unlockWait"}
  /\ clientcon = "live" /\ link = "up" => timeouts < MaxTimeouts
  /\ timeouts' = IF timeouts < MaxTimeouts THEN timeouts + 1 ELSE timeouts
  /\ waitId' = [waitId EXCEPT ![t] = 0]
  /\ Goto(t, IF pc[t] = "unlockWait" THEN "unlocked" ELSE AfterNext(t))
  /\ IF t # Ui /\ pc[t] = "lockWait"
     THEN mutex' = "free" /\ reasons' = reasons \cup {"timeout"}
     ELSE UNCHANGED <<mutex, reasons>>
  /\ file' = IF t = Ui THEN NoFile ELSE file
  /\ UNCHANGED <<net, clientcon, pkg, fWaitMethodId, nextId, curResultPkg, queue, current, late,
                 mixed, calls, crashed>>

-----------------------------------------------------------------------------
(* The receiver starts a goroutine of parserRecvPkg for every result. *)
Receive(p) ==
  /\ Step(p, "idle") /\ clientcon # "gone"
  /\ toCli # <<>>
  /\ pkg' = [pkg EXCEPT ![p] = Head(toCli)]
  /\ toCli' = Tail(toCli)
  /\ Goto(p, "got")
  /\ UNCHANGED <<link, toSrv, rest, file, waits, curResultPkg, queue, current, mutex>>

\* Is it the result that is waited for?
Expected(p) ==
  /\ Step(p, "got") /\ pkg[p].m # "DownLoad"
  /\ IF pkg[p].id = fWaitMethodId
     THEN Goto(p, "expected") /\ UNCHANGED pkg
     ELSE Goto(p, "idle") /\ pkg' = [pkg EXCEPT ![p] = NoPkg]
  /\ UNCHANGED <<net, rest, file, waits, curResultPkg, queue, current, mutex>>

\* That wait may be over by now, and another one begun, before the result is stored ...
SetResult(p) ==
  /\ Step(p, "expected") /\ Goto(p, "stored")
  /\ curResultPkg' = pkg[p].err
  /\ late' = (late \/ ~\E t \in Threads : /\ pc[t] \in {"lockWait", "unlockWait"}
                                          /\ waitId[t] = pkg[p].id)
  /\ UNCHANGED <<net, clientcon, file, pkg, waits, queue, current, mutex, mixed, reasons, calls,
                 timeouts, crashed>>

\* ... and before the id is cleared, which may then be that of the other one.
ClearId(p) ==
  /\ Step(p, "stored") /\ Goto(p, "deliver")
  /\ fWaitMethodId' = 0
  /\ late' = (late \/ fWaitMethodId \notin {0, pkg[p].id})
  /\ UNCHANGED <<net, clientcon, file, pkg, waitId, nextId, curResultPkg, queue, current, mutex,
                 mixed, reasons, calls, timeouts, crashed>>

\* The local file cannot be created: the next file is taken, and the lock kept.
CreateFails(p) ==
  /\ Step(p, "got") /\ pkg[p].m = "DownLoad" /\ pkg[p].err = "ok"
  /\ curOpFile = "nil"
  /\ Goto(p, "next")
  /\ UNCHANGED <<net, rest, file, pkg, waits, curResultPkg, queue, current, mutex>>

\* Writing to a file that the disconnect event has closed adds nothing.
Written == IF curOpFile = "closed" THEN curfilePosition ELSE curfilePosition + 1

\* The next block is asked for, or else doneCurFileOperate is begun.
NextBlock(p) ==
  /\ Written # pkg[p].total
  /\ curfilePosition' = Written
  /\ curOpFile' = IF curOpFile = "nil" THEN "open" ELSE curOpFile
  /\ ExecuteMethod(curRemoteFile, Written)
  /\ Goto(p, "idle")
  /\ pkg' = [pkg EXCEPT ![p] = NoPkg]
  /\ UNCHANGED <<file, curResultPkg, queue, curRemoteFile, mutex>>

Finish(p) ==
  /\ IF pkg[p].err = "ok" THEN Written = pkg[p].total /\ curfilePosition' = Written
     ELSE UNCHANGED curfilePosition
  /\ curOpFile' = "nil"
  /\ ExecuteWait(p)
  /\ Goto(p, "unlockSend")
  /\ pkg' = [pkg EXCEPT ![p] = NoPkg]
  /\ UNCHANGED <<file, curResultPkg, queue, curRemoteFile, mutex>>

WriteBlock(p) ==
  /\ Step(p, "got") /\ pkg[p].m = "DownLoad" /\ pkg[p].err = "ok"
  /\ NextBlock(p)
  /\ UNCHANGED rest

\* The last block, or an answer without one.
LastBlock(p) ==
  /\ Step(p, "got") /\ pkg[p].m = "DownLoad"
  /\ Finish(p)
  /\ UNCHANGED rest

\* curOpFile is tested again after doNextFile: if the next file has been opened by
\* then, the old block is written into it.
OldBlock(p) ==
  /\ Step(p, "recheck") /\ curOpFile # "nil"
  /\ NextBlock(p) \/ Finish(p)
  /\ mixed' = TRUE
  /\ UNCHANGED <<clientcon, late, reasons, calls, timeouts, crashed>>

NoFileOpen(p) ==
  /\ Step(p, "recheck") /\ curOpFile = "nil"
  /\ Goto(p, "idle")
  /\ pkg' = [pkg EXCEPT ![p] = NoPkg]
  /\ UNCHANGED <<net, rest, file, waits, curResultPkg, queue, current, mutex>>

Unlock(p, position, next) ==
  /\ Step(p, "unlocked")
  /\ curRemoteFile' = NoFile
  /\ curfilePosition' = position
  /\ Goto(p, next)
  /\ UNCHANGED <<net, rest, file, pkg, waits, curResultPkg, queue, curOpFile, mutex>>

\* Mutants: the position is kept, and the files that wait are forgotten.
UnlockedKeepsPosition(p) == Unlock(p, curfilePosition, "next")
UnlockedStops(p) == Unlock(p, 0, "idle")

Unlocked(p) == Unlock(p, 0, "next")

-----------------------------------------------------------------------------
(* doNextFile, under the client's mutex *)
DoNextFile(p) ==
  /\ Step(p, "next") /\ mutex = "free"
  /\ mutex' = p
  /\ Goto(p, "ranging")
  /\ UNCHANGED <<net, rest, file, pkg, waits, curResultPkg, queue, current>>

TakeFile(p, f) ==
  /\ Step(p, "ranging") /\ f \in fUpdownFiles
  /\ fUpdownFiles' = fUpdownFiles \ {f}
  /\ curRemoteFile' = f
  /\ ExecuteWait(p)
  /\ Goto(p, "lockSend")
  /\ UNCHANGED <<rest, file, pkg, curResultPkg, fbusystate, curfilePosition, curOpFile, mutex>>

NoMoreFiles(p) ==
  /\ Step(p, "ranging") /\ fUpdownFiles = {}
  /\ fbusystate' = 0
  /\ mutex' = "free"
  /\ Goto(p, AfterNext(p))
  /\ UNCHANGED <<net, rest, file, pkg, waits, curResultPkg, fUpdownFiles, current>>

Fetch(p) ==
  /\ ExecuteMethod(curRemoteFile, 0)
  /\ mutex' = "free"
  /\ Goto(p, AfterNext(p))
  /\ UNCHANGED <<rest, file, pkg, curResultPkg, queue, current>>

NextDownLoad(p) == Step(p, "locked") /\ curResultPkg = "ok" /\ Fetch(p)

\* Mutant: a refused file is fetched all the same.
NextRefusedDownLoads(p) == Step(p, "locked") /\ curResultPkg \notin {"nil", "ok"} /\ Fetch(p)

\* The refused file goes to fDelayUpDownFiles, and fbusystate stays at 1.
NextRefused(p) ==
  /\ Step(p, "locked") /\ curResultPkg \notin {"nil", "ok"}
  /\ curResultPkg' = "nil"
  /\ mutex' = "free"
  /\ Goto(p, AfterNext(p))
  /\ reasons' = reasons \cup {"refused"}
  /\ UNCHANGED <<net, clientcon, file, pkg, waits, queue, current, late, mixed, calls, timeouts,
                 crashed>>

-----------------------------------------------------------------------------
(* The connection between the two. *)
Connect ==
  /\ link = "new"
  /\ Accept(Me)
  /\ link' = "up"
  /\ UNCHANGED <<toSrv, toCli, clientVars>>

\* The receiver of the server handles the next request; its answer is lost
\* when either side has closed the connection.
Answer(err, total) ==
  LET r == Head(toSrv)
  IN  /\ toSrv' = Tail(toSrv)
      /\ toCli' = IF phase[Me] = "live" /\ link = "up"
                  THEN Append(toCli, [m |-> r.m, id |-> r.id, err |-> err, pos |-> r.pos,
                                      total |-> total])
                  ELSE toCli
      /\ UNCHANGED link

Handle ==
  /\ Mine /\ toSrv # <<>>
  /\ LET r == Head(toSrv)
     IN  \/ /\ r.m = "LockFile"
            /\ LockFile(Me, r.f, TRUE)
            /\ Answer(LockResult(Me, r.f, TRUE), 0)
         \/ /\ r.m = "UnLockFile"
            /\ UnlockFile(Me, r.f, TRUE)
            /\ Answer("ok", 0)
         \/ /\ r.m = "DownLoad"
            /\ Answer(DownLoadError(r.f, r.pos), size[r.f])
            /\ UNCHANGED serverVars
  /\ UNCHANGED clientVars

ServerDrops ==
  /\ Mine
  /\ DisConnect(Me)
  /\ link' = "broken"
  /\ UNCHANGED <<toSrv, toCli, clientVars>>

ServerPools ==
  /\ Mine
  /\ Release(Me)
  /\ link' = "over"
  /\ toSrv' = <<>>
  /\ UNCHANGED <<toCli, clientVars>>

\* OnClientDisConnected of the client: curOpFile is closed and not set to nil,
\* fbusystate is left alone.
ClientDrops ==
  /\ ~crashed /\ link # "new" /\ clientcon = "live"
  /\ clientcon' = "down"
  /\ link' = IF link = "up" THEN "broken" ELSE link
  /\ curOpFile' = IF curOpFile = "open" THEN "closed" ELSE curOpFile
  /\ curResultPkg' = "nil"
  /\ curRemoteFile' = NoFile
  /\ curfilePosition' = 0
  /\ fWaitMethodId' = 0
  /\ fUpdownFiles' = {}
  /\ reasons' = reasons \cup {"dropped"}
  /\ UNCHANGED <<serverVars, toSrv, toCli, pc, file, pkg, waitId, nextId, fbusystate, mutex, late,
                 mixed, calls, timeouts, crashed>>

ClientGone ==
  /\ clientcon = "down"
  /\ clientcon' = "gone"
  /\ toCli' = <<>>
  /\ UNCHANGED <<serverVars, link, toSrv, pc, file, pkg, waits, curResultPkg, queue, current, mutex,
                 history, crashed>>

Peer ==
  /\ \E c \in Cons \ {Me} :
       \/ Accept(c) \/ DisConnect(c) \/ Release(c)
       \/ \E f \in PeerFiles : \/ \E ReadLock \in BOOLEAN :
                                    LockFile(c, f, ReadLock) \/ UnlockFile(c, f, ReadLock)
                               \/ \E position \in 0 .. MaxBlocks : UpLoad(c, f, position)
  /\ UNCHANGED <<net, clientVars>>

-----------------------------------------------------------------------------
\* The peers' files do not exist at first, the others are of full length (bound).
TransferInit ==
  /\ Init /\ ClientInit
  /\ size = [f \in Files |-> IF f \in PeerFiles THEN Absent ELSE MaxBlocks]

UiStep ==
  \/ \E f \in Files : DownLoadFile(f)
  \/ QueueFile \/ StartDownLoad \/ Refused

Waiting(t) == SendLock(t) \/ SendUnlock(t) \/ NilResult(t) \/ TimeOut(t)
              \/ \E p \in Parsers : WakeUp(t, p)

Parser(p) ==
  \/ Receive(p) \/ Expected(p) \/ SetResult(p) \/ ClearId(p)
  \/ CreateFails(p) \/ WriteBlock(p) \/ LastBlock(p) \/ OldBlock(p) \/ NoFileOpen(p)
  \/ Unlocked(p) \/ DoNextFile(p) \/ NoMoreFiles(p) \/ NextDownLoad(p) \/ NextRefused(p)
  \/ \E f \in Files : TakeFile(p, f)

TransferNext ==
  \/ UiStep
  \/ \E t \in Threads : Waiting(t)
  \/ \E p \in Parsers : Parser(p)
  \/ Connect \/ Handle \/ ServerDrops \/ ServerPools \/ ClientDrops \/ ClientGone \/ Peer

TransferSpec == TransferInit /\ [][TransferNext]_vars

-----------------------------------------------------------------------------
TransferTypeOK ==
  /\ TypeOK
  /\ link \in {"new", "up", "broken", "over"}
  /\ clientcon \in {"live", "down", "gone"}
  /\ toSrv \in Seq([m : {"LockFile", "UnLockFile", "DownLoad"}, f : Files, id : Nat, pos : Nat])
  /\ toCli \in Seq([m : {"LockFile", "UnLockFile", "DownLoad"}, id : Nat, pos : Nat,
                    err : {"ok", "busy", "missing", "end"}, total : Absent .. MaxBlocks])
  /\ pc \in [Threads -> {"idle", "queue", "lockSend", "lockWait", "locked", "unlockSend",
                         "unlockWait", "unlocked", "got", "expected", "stored", "deliver",
                         "next", "ranging", "recheck"}]
  /\ waitId \in [Threads -> 0 .. nextId] /\ fWaitMethodId \in 0 .. nextId
  /\ curResultPkg \in {"nil", "ok", "busy", "missing"}
  /\ fbusystate \in {0, 1} /\ fUpdownFiles \subseteq Files
  /\ file \in Files \cup {NoFile}
  /\ curRemoteFile \in Files \cup {NoFile} /\ curfilePosition \in Nat
  /\ curOpFile \in {"nil", "open", "closed"}
  /\ mutex \in Parsers \cup {"free"}
  /\ late \in BOOLEAN /\ mixed \in BOOLEAN /\ crashed \in BOOLEAN
  /\ reasons \subseteq {"missed", "refused", "timeout", "dropped"}

DownLoads(s) == {i \in DOMAIN s : s[i].m = "DownLoad"}
Downloading == {p \in Parsers : pc[p] = "got" /\ pkg[p].m = "DownLoad"}
InFlight == Cardinality(DownLoads(toSrv)) + Cardinality(DownLoads(toCli)) + Cardinality(Downloading)

\* While the client asks for blocks of a file the server has its connection
\* as a reader of that file, unless a parser went on with a result whose wait had
\* timed out: it may store that result over the next one, clear the next wait's id, or
\* end the next wait (late); or an old block went into the next file (mixed).
DownLoadHoldsLock ==
  phase[Me] = "live" /\ ~late /\ ~mixed =>
    \A i \in DownLoads(toSrv) : Me \in fReadingFile[toSrv[i].f]

\* The user interface and the parsers never have two downloads under way, and
\* a block that arrives is the one that comes next in the local file, unless a file
\* could not be created and its block went into the next file.
BlocksInOrder ==
  ~mixed => /\ InFlight <= 1
            /\ clientcon = "live" => \A p \in Downloading : pkg[p].pos = curfilePosition

\* Files that wait have a client that is busy, unless DownLoadFile put one
\* there when the last download had just ended; and while it is busy some
\* goroutine or request carries the downloads on, except after doNextFile was
\* refused a lock or waited for it in vain, or after an old block went into the next file.
QueueIsServed ==
  ~mixed =>
    /\ fUpdownFiles # {} => fbusystate = 1 \/ reasons # {}
    /\ fbusystate = 1 /\ link = "up" /\ ~crashed /\ reasons \subseteq {"missed"} =>
         \/ InFlight = 1
         \/ \E p \in Parsers :
              pc[p] \in {"unlockSend", "unlockWait", "unlocked", "next", "ranging", "lockSend",
                        "lockWait", "locked"}

=============================================================================
