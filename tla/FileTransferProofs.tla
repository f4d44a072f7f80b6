--------------------------- MODULE FileTransferProofs ---------------------------
(***************************************************************************)
(* What the lock tables keep for any number of connections and files, and  *)
(* what a client beside them keeps.                                        *)
(*                                                                         *)
(* LeftLocksSlipped is not inductive: it rests on Tracked, that the one    *)
(* file in fLockingQueue is the only one a connection holds as long as it  *)
(* has not slipped, and that only a live connection then holds any.        *)
(*                                                                         *)
(* For the client the invariant follows the turn: at most one request for  *)
(* a block, answer to one, parser or doNextFile carries the downloads on,  *)
(* so whoever waits for a lock has sent the last request of all, and the   *)
(* server has nothing left to handle once that one is answered.            *)
(***************************************************************************)
EXTENDS FileTransfer, FiniteSetTheorems, TLAPS

Tracked ==
  \A c \in Cons, f \in Files :
    Holds(c, f) /\ c \notin slipped => fLockingQueue[c] = f /\ phase[c] = "live"

TablesInv == TypeOK /\ WriteLockExcludes /\ Tracked

LEMMA InitTables == Init => TablesInv
  BY BlocksAssumption, NoneAssumption
     DEF Init, TablesInv, TypeOK, WriteLockExcludes, Tracked, Holds, Absent

LEMMA AcceptTables ==
  ASSUME TablesInv, NEW c \in Cons, Accept(c)
  PROVE  TablesInv'
  BY NoneAssumption
     DEF Accept, tables, TablesInv, TypeOK, WriteLockExcludes, Tracked, Holds, Absent

LEMMA ReleaseTables ==
  ASSUME TablesInv, NEW c \in Cons, Release(c)
  PROVE  TablesInv'
  BY NoneAssumption
     DEF Release, tables, TablesInv, TypeOK, WriteLockExcludes, Tracked, Holds, Absent

LEMMA UpLoadTables ==
  ASSUME TablesInv, NEW c \in Cons, NEW f \in Files, NEW position \in 0 .. MaxBlocks,
         UpLoad(c, f, position)
  PROVE  TablesInv'
<1>1. position + 1 \in Absent .. MaxBlocks
  BY BlocksAssumption DEF UpLoad, Absent
<1>2. size' \in [Files -> Absent .. MaxBlocks]
  BY <1>1 DEF UpLoad, TablesInv, TypeOK
<1> QED
  BY <1>2 DEF UpLoad, tables, TablesInv, TypeOK, WriteLockExcludes, Tracked, Holds

\* The disconnect event releases the file of fLockingQueue, which is the only
\* one of a connection that has not slipped.
LEMMA DisConnectTables ==
  ASSUME TablesInv, NEW c \in Cons, DisConnect(c)
  PROVE  TablesInv'
<1>1. TypeOK'
  BY NoneAssumption DEF DisConnect, TablesInv, TypeOK
<1>2. WriteLockExcludes'
  BY NoneAssumption DEF DisConnect, TablesInv, TypeOK, WriteLockExcludes
<1>3. Tracked'
  <2> SUFFICES ASSUME NEW d \in Cons, NEW g \in Files, Holds(d, g)', d \notin slipped'
               PROVE  fLockingQueue'[d] = g /\ phase'[d] = "live"
    BY DEF Tracked
  <2>1. Holds(d, g) /\ d \notin slipped
    BY NoneAssumption DEF DisConnect, TablesInv, TypeOK, Holds
  <2>2. fLockingQueue[d] = g /\ phase[d] = "live"
    BY <2>1 DEF TablesInv, Tracked
  <2>3. d # c
    BY <2>2, NoneAssumption DEF DisConnect, TablesInv, TypeOK, WriteLockExcludes, Holds
  <2> QED
    BY <2>2, <2>3 DEF DisConnect, TablesInv, TypeOK
<1> QED
  BY <1>1, <1>2, <1>3 DEF TablesInv

LEMMA LockFileTables ==
  ASSUME TablesInv, NEW c \in Cons, NEW f \in Files, NEW ReadLock \in BOOLEAN,
         LockFile(c, f, ReadLock)
  PROVE  TablesInv'
<1>1. CASE LockError(f, ReadLock) # "ok" \/ Relock(c, f, ReadLock)
  BY <1>1 DEF LockFile, tables, TablesInv, TypeOK, WriteLockExcludes, Tracked, Holds
<1>2. CASE ~(LockError(f, ReadLock) # "ok" \/ Relock(c, f, ReadLock))
  <2>1. fWritingFile[f] = NoCon /\ (~ReadLock => fReadingFile[f] = {})
    BY <1>2 DEF LockError
  <2>2. /\ fLockingQueue' = [fLockingQueue EXCEPT ![c] = f]
        /\ UNCHANGED <<phase, size>>
        /\ \/ /\ ReadLock
              /\ fReadingFile' = [fReadingFile EXCEPT ![f] = @ \cup {c}]
              /\ UNCHANGED fWritingFile
           \/ /\ ~ReadLock
              /\ fWritingFile' = [fWritingFile EXCEPT ![f] = c]
              /\ UNCHANGED fReadingFile
    BY <1>2 DEF LockFile
  <2>3. \/ slipped' = slipped \cup {c}
        \/ slipped' = slipped /\ phase[c] = "live" /\ \A h \in Files : ~Holds(c, h)
    BY <1>2 DEF LockFile, TablesInv, TypeOK
  <2>4. TypeOK'
    BY <2>2, <2>3 DEF TablesInv, TypeOK
  <2>5. WriteLockExcludes'
    BY <2>1, <2>2, NoneAssumption DEF TablesInv, TypeOK, WriteLockExcludes
  <2>6. Tracked'
    <3> SUFFICES ASSUME NEW d \in Cons, NEW g \in Files, Holds(d, g)', d \notin slipped'
                 PROVE  fLockingQueue'[d] = g /\ phase'[d] = "live"
      BY DEF Tracked
    <3>1. CASE d = c
      <4>1. phase[c] = "live" /\ ~Holds(c, g)
        BY <2>3, <3>1
      <4>2. g = f
        BY <2>2, <3>1, <4>1 DEF TablesInv, TypeOK, Holds
      <4> QED
        BY <2>2, <3>1, <4>1, <4>2 DEF TablesInv, TypeOK
    <3>2. CASE d # c
      <4>1. Holds(d, g) /\ d \notin slipped
        BY <2>2, <2>3, <3>2 DEF TablesInv, TypeOK, Holds
      <4> QED
        BY <2>2, <3>2, <4>1 DEF TablesInv, TypeOK, Tracked
    <3> QED
      BY <3>1, <3>2
  <2> QED
    BY <2>4, <2>5, <2>6 DEF TablesInv
<1> QED
  BY <1>1, <1>2

\* The write lock of another connection may be gone afterwards, and an entry
\* of fLockingQueue: then the connection holds nothing or has slipped.
LEMMA UnlockFileTables ==
  ASSUME TablesInv, NEW c \in Cons, NEW f \in Files, NEW ReadUnlock \in BOOLEAN,
         UnlockFile(c, f, ReadUnlock)
  PROVE  TablesInv'
<1>1. TypeOK'
  BY DEF UnlockFile, tables, TablesInv, TypeOK
<1>2. WriteLockExcludes'
  BY DEF UnlockFile, tables, TablesInv, TypeOK, WriteLockExcludes
<1>3. Tracked'
  <2> SUFFICES ASSUME NEW d \in Cons, NEW g \in Files, Holds(d, g)', d \notin slipped'
               PROVE  fLockingQueue'[d] = g /\ phase'[d] = "live"
    BY DEF Tracked
  <2>1. Holds(d, g) /\ d \notin slipped
    BY NoneAssumption DEF UnlockFile, tables, TablesInv, TypeOK, Holds
  <2>2. fLockingQueue[d] = g /\ phase[d] = "live"
    BY <2>1 DEF TablesInv, Tracked
  <2>3. d = c => fLockingQueue'[c] # NoFile
    BY DEF UnlockFile, TablesInv, TypeOK
  <2>4. fLockingQueue'[d] = fLockingQueue[d]
    BY <2>3, NoneAssumption DEF UnlockFile, tables, TablesInv, TypeOK
  <2> QED
    BY <2>2, <2>4 DEF UnlockFile
<1> QED
  BY <1>1, <1>2, <1>3 DEF TablesInv

LEMMA NextTables == TablesInv /\ [Next]_serverVars => TablesInv'
<1> SUFFICES ASSUME TablesInv, [Next]_serverVars
             PROVE  TablesInv'
  OBVIOUS
<1>1. CASE UNCHANGED serverVars
  BY <1>1 DEF serverVars, TablesInv, TypeOK, WriteLockExcludes, Tracked, Holds
<1>2. ASSUME NEW c \in Cons, Accept(c) PROVE TablesInv'
  BY <1>2, AcceptTables
<1>3. ASSUME NEW c \in Cons, Request(c) PROVE TablesInv'
  BY <1>3, LockFileTables, UnlockFileTables, UpLoadTables DEF Request
<1>4. ASSUME NEW c \in Cons, DisConnect(c) PROVE TablesInv'
  BY <1>4, DisConnectTables
<1>5. ASSUME NEW c \in Cons, Release(c) PROVE TablesInv'
  BY <1>5, ReleaseTables
<1> QED
  BY <1>1, <1>2, <1>3, <1>4, <1>5 DEF Next

LEMMA TablesHold == Spec => []TablesInv
  BY InitTables, NextTables, PTL DEF Spec

\* Whatever the peers ask for and in whatever order the handlers run, a file
\* locked for writing has no reader in the tables of DxFileServer.
THEOREM WriteLockHolds == Spec => []WriteLockExcludes
<1>1. TablesInv => WriteLockExcludes
  BY DEF TablesInv
<1> QED
  BY <1>1, TablesHold, PTL

\* The disconnect event of DxFileServer leaves a lock behind only for a
\* connection that slipped from fLockingQueue in one of the ways it names.
THEOREM LeftLocks == Spec => []LeftLocksSlipped
<1>1. TablesInv => LeftLocksSlipped
  BY DEF TablesInv, TypeOK, Tracked, LeftLocksSlipped
<1> QED
  BY <1>1, TablesHold, PTL

-----------------------------------------------------------------------------
(* The client.  What it may send rests on who may send at all: there is one  *)
(* turn, which a request for a block, its answer, the parser that handles it *)
(* and the doNextFile after it pass on; without a busy client there is none. *)
ChainStates == {"unlockSend", "unlockWait", "unlocked", "next", "ranging", "lockSend", "lockWait",
                "locked"}
OffTurn == {"idle", "queue", "got", "expected", "stored", "deliver", "recheck"}
Locking == {"lockSend", "lockWait", "locked"}
HasResult(p) == pc[p] \in {"got", "expected", "stored", "deliver"}
InTurn(p) == pc[p] \in ChainStates \/ (pc[p] = "got" /\ pkg[p].m = "DownLoad")
Turn == {p \in Parsers : InTurn(p)}
Lone(S) == \A x, y \in S : x = y

OneTurn ==
  /\ Lone(DownLoads(toSrv)) /\ Lone(DownLoads(toCli)) /\ Lone(Turn)
  /\ DownLoads(toSrv) = {} \/ (DownLoads(toCli) = {} /\ Turn = {})
  /\ DownLoads(toCli) = {} \/ Turn = {}
  /\ fbusystate = 0 => DownLoads(toSrv) = {} /\ DownLoads(toCli) = {} /\ Turn = {}
  /\ pc[Ui] \in Locking => fbusystate = 0

\* The messages: a download has no id.
Methods == {"LockFile", "UnLockFile", "DownLoad"}
Requests == [m : Methods, f : Files, id : Nat, pos : Nat]
Results == [m : Methods, id : Nat, pos : Nat, err : {"ok", "busy", "missing", "end"},
           total : Absent .. MaxBlocks]
Asked(r) == r.id < nextId /\ (r.m = "DownLoad" => r.id = 0)
Answered(a) ==
  /\ Asked(a)
  /\ IF a.m = "DownLoad" THEN a.err = "ok" => a.pos < a.total ELSE a.err # "end"

Messages ==
  /\ toSrv \in Seq(Requests) /\ toCli \in Seq(Results)
  /\ \A i \in DOMAIN toSrv : Asked(toSrv[i])
  /\ \A i, j \in DOMAIN toSrv : i < j /\ toSrv[i].id # 0 /\ toSrv[j].id # 0
                                => toSrv[i].id < toSrv[j].id
  /\ \A i \in DOMAIN toCli : Answered(toCli[i])
  /\ \A p \in Parsers : HasResult(p) => pkg[p] \in Results /\ Answered(pkg[p])

Threading ==
  /\ pc \in [Threads -> OffTurn \cup ChainStates]
  /\ pc[Ui] \in {"idle", "queue"} \cup Locking
  /\ \A p \in Parsers : /\ pc[p] # "queue"
                        /\ pc[p] \in {"expected", "stored", "deliver"} => pkg[p].m # "DownLoad"
  /\ pkg \in [Parsers -> Results \cup {NoPkg}]
  /\ nextId \in Nat \ {0} /\ waitId \in [Threads -> 0 .. nextId]
  /\ fWaitMethodId \in {0, nextId - 1}

Scalars ==
  /\ link \in {"new", "up", "broken", "over"}
  /\ clientcon \in {"live", "down", "gone"}
  /\ curResultPkg \in {"nil", "ok", "busy", "missing"}
  /\ fbusystate \in {0, 1} /\ fUpdownFiles \subseteq Files
  /\ file \in Files \cup {NoFile} /\ curRemoteFile \in Files \cup {NoFile}
  /\ curfilePosition \in Nat /\ curOpFile \in {"nil", "open", "closed"}
  /\ mutex \in Parsers \cup {"free"}
  /\ late \in BOOLEAN /\ mixed \in BOOLEAN /\ crashed \in BOOLEAN
  /\ reasons \subseteq {"missed", "refused", "timeout", "dropped"}

\* The ends of the connection.
Ends ==
  /\ link = "new" => /\ toSrv = <<>> /\ toCli = <<>> /\ \A t \in Threads : pc[t] = "idle"
                     /\ fbusystate = 0 /\ clientcon = "live"
  /\ link = "up" => phase[Me] = "live"
  /\ clientcon # "live" => link # "up" /\ "dropped" \in reasons

\* What holds even when an old block has been written into the next file.
Basic == Messages /\ Threading /\ Scalars /\ Ends

\* A thread asks with the last id that was given, which no message has before it
\* sends its request.  Only a late parser takes the id away.
Asking == {"lockSend", "lockWait", "unlockSend", "unlockWait"}
AtSend(t) == pc[t] \in {"lockSend", "unlockSend"}

NotSent ==
  /\ \A i \in DOMAIN toSrv : toSrv[i].id # nextId - 1
  /\ \A i \in DOMAIN toCli : toCli[i].id # nextId - 1
  /\ \A p \in Parsers : HasResult(p) => pkg[p].id # nextId - 1

Named ==
  /\ \A i \in DOMAIN toSrv : toSrv[i].m # "DownLoad" => toSrv[i].id # 0
  /\ \A i \in DOMAIN toCli : toCli[i].m # "DownLoad" => toCli[i].id # 0
  /\ \A p \in Parsers : HasResult(p) /\ pkg[p].m # "DownLoad" => pkg[p].id # 0

Ids ==
  /\ \A t \in Threads : pc[t] \in Asking => nextId # 1 /\ waitId[t] = nextId - 1
  /\ \A t \in Threads : AtSend(t) => NotSent
  /\ ~late => Named
  /\ ~late /\ clientcon = "live" => \A t \in Threads : AtSend(t) => fWaitMethodId = nextId - 1

\* What is asked for next: the file has a name, and the position is the one
\* that the local file has reached.
Names ==
  /\ pc[Ui] # "idle" => file \in Files
  /\ clientcon = "live" =>
       /\ DownLoads(toSrv) # {} \/ DownLoads(toCli) # {} \/ curOpFile # "nil" =>
            curRemoteFile \in Files
       /\ \A p \in Turn : pc[p] \notin {"next", "ranging"} => curRemoteFile \in Files

Positions ==
  /\ clientcon = "live" =>
       /\ \A i \in DownLoads(toSrv) : toSrv[i].pos = curfilePosition
       /\ \A i \in DownLoads(toCli) : toCli[i].pos = curfilePosition
       /\ \A p \in Downloading : pkg[p].pos = curfilePosition
       /\ curOpFile # "closed"
       /\ curOpFile = "nil" =>
            \/ curfilePosition = 0
            \/ \E p \in Parsers : pc[p] \in {"unlockSend", "unlockWait", "unlocked"}
       /\ \A p \in Parsers : pc[p] \in ChainStates => curOpFile = "nil"
       /\ fbusystate = 0 => curOpFile = "nil"

\* The lock.  A thread that waits for a lock has the last id, so once its
\* request is answered nothing is on the way to the server that could give
\* the lock back; nor is there while blocks are asked for.
Reads(f) == Me \in fReadingFile[f]
Sound == phase[Me] = "live" /\ ~late

AnswerCounts(t, a) == a.id = nextId - 1 => toSrv = <<>> /\ (a.err = "ok" => Reads(Target(t)))
Stored(p) == pc[p] \in {"stored", "deliver"} /\ pkg[p].id = nextId - 1

LockAsked ==
  Sound /\ clientcon = "live" =>
    \A t \in Threads : pc[t] = "lockWait" =>
      /\ \A i \in DOMAIN toSrv :
           toSrv[i].id = nextId - 1 => toSrv[i].m = "LockFile" /\ toSrv[i].f = Target(t)
      /\ \A i \in DOMAIN toCli : AnswerCounts(t, toCli[i])
      /\ \A p \in Parsers : HasResult(p) => AnswerCounts(t, pkg[p])
      /\ \A p \in Parsers : Stored(p) => (curResultPkg = "ok" => Reads(Target(t)))

LockGiven ==
  Sound /\ clientcon = "live" =>
    \A t \in Threads : pc[t] = "locked" =>
      toSrv = <<>> /\ (curResultPkg = "ok" => Reads(Target(t)))

OnlyDownLoads == \A i \in DOMAIN toSrv : toSrv[i].m = "DownLoad"

LockKept ==
  Sound =>
    /\ \A i \in DownLoads(toSrv) :
         /\ Reads(toSrv[i].f) /\ OnlyDownLoads
         /\ clientcon = "live" => toSrv[i].f = curRemoteFile
    /\ clientcon = "live" /\ (DownLoads(toCli) # {} \/ Downloading # {}) =>
         Reads(curRemoteFile) /\ OnlyDownLoads

\* A busy client has the turn somewhere.
Served ==
  /\ fUpdownFiles # {} => fbusystate = 1 \/ reasons # {}
  /\ fbusystate = 1 /\ link = "up" /\ ~crashed /\ reasons \subseteq {"missed"} =>
       DownLoads(toSrv) # {} \/ DownLoads(toCli) # {} \/ Turn # {}

Turns ==
  /\ OneTurn /\ Ids /\ Names /\ Positions
  /\ LockAsked /\ LockGiven /\ LockKept /\ Served

ClientInv == Basic /\ Turns

\* The invariant of a client that has not mixed up two files, and of any.
IInv == TablesInv /\ ClientInv
TransferInv == TablesInv /\ Basic /\ (~mixed => Turns)

-----------------------------------------------------------------------------
LEMMA Appended ==
  ASSUME NEW S, NEW s \in Seq(S), NEW x \in S
  PROVE  /\ Append(s, x) \in Seq(S)
         /\ DOMAIN s = 1 .. Len(s) /\ Len(s) \in Nat
         /\ DOMAIN Append(s, x) = 1 .. Len(s) + 1
         /\ Append(s, x)[Len(s) + 1] = x
         /\ \A i \in DOMAIN s : i \in DOMAIN Append(s, x) /\ Append(s, x)[i] = s[i]
  OBVIOUS

LEMMA Taken ==
  ASSUME NEW S, NEW s \in Seq(S), s # <<>>
  PROVE  /\ Tail(s) \in Seq(S) /\ Head(s) \in S
         /\ DOMAIN s = 1 .. Len(s) /\ Len(s) \in Nat \ {0}
         /\ 1 \in DOMAIN s /\ Head(s) = s[1]
         /\ \A i \in DOMAIN Tail(s) : i \in Nat /\ i + 1 \in DOMAIN s /\ Tail(s)[i] = s[i + 1]
  OBVIOUS

LEMMA InitIInv ==
  ASSUME TransferInit PROVE IInv
<1>1. TablesInv
  BY InitTables DEF TransferInit
<1>2. OneTurn
  BY ParsersAssumption DEF TransferInit, ClientInit, OneTurn, Lone, Turn, InTurn, DownLoads,
     ChainStates, Locking, Threads
<1>3. Messages
  BY DEF TransferInit, ClientInit, Messages, HasResult, Threads
<1>4. Threading
  <2>1. 0 \in 0 .. 1
    OBVIOUS
  <2> QED
    BY <2>1 DEF TransferInit, ClientInit, Threading, Threads, ChainStates, OffTurn
<1>5. Scalars /\ Ends
  BY DEF TransferInit, ClientInit, Scalars, Ends
<1>6. Names /\ Positions
  BY DEF TransferInit, ClientInit, Names, Positions, Turn, InTurn, ChainStates, DownLoads,
     Downloading, Threads, Ui
<1>7. LockAsked /\ LockGiven /\ LockKept
  BY DEF TransferInit, ClientInit, LockAsked, LockGiven, LockKept, DownLoads, Downloading, Threads
<1>8. Served
  BY DEF TransferInit, ClientInit, Served
<1>9. Ids
  BY DEF TransferInit, ClientInit, Ids, Asking, AtSend, Named, HasResult, Threads
<1> QED
  BY <1>1, <1>2, <1>3, <1>4, <1>5, <1>6, <1>7, <1>8, <1>9 DEF IInv, ClientInv, Basic, Turns

-----------------------------------------------------------------------------
(* Steps of a thread that sends nothing and receives nothing. *)
Quiet == UNCHANGED <<net, serverVars, nextId, clientcon>>

LEMMA ParsersAreThreads == \A p \in Parsers : p \in Threads /\ p # Ui
  BY ParsersAssumption DEF Threads

\* Whoever has the turn is the only one.
LEMMA HasTurn ==
  ASSUME OneTurn, NEW p \in Parsers, InTurn(p)
  PROVE  /\ fbusystate # 0 /\ pc[Ui] \notin Locking
         /\ DownLoads(toSrv) = {} /\ DownLoads(toCli) = {}
         /\ \A q \in Parsers : InTurn(q) => q = p
  BY DEF OneTurn, Lone, Turn

\* Nor has any parser the turn while the user interface locks a file.
LEMMA UiLocks ==
  ASSUME OneTurn, pc[Ui] \in Locking
  PROVE  /\ fbusystate = 0 /\ DownLoads(toSrv) = {} /\ DownLoads(toCli) = {}
         /\ \A q \in Parsers : ~InTurn(q)
  BY DEF OneTurn, Turn

LEMMA MessagesStay ==
  ASSUME Messages, Quiet,
         \A p \in Parsers : HasResult(p)' => HasResult(p) /\ pkg'[p] = pkg[p]
  PROVE  Messages'
<1>1. toSrv' = toSrv /\ toCli' = toCli /\ nextId' = nextId
  BY DEF Quiet, net
<1>2. \A r : Asked(r)' <=> Asked(r)
  BY <1>1 DEF Asked
<1>3. \A a : Answered(a)' <=> Answered(a)
  BY <1>2 DEF Answered
<1>4. /\ toSrv' \in Seq(Requests) /\ toCli' \in Seq(Results)
      /\ \A i \in DOMAIN toSrv' : Asked(toSrv[i])'
      /\ \A i, j \in DOMAIN toSrv' : i < j /\ toSrv'[i].id # 0 /\ toSrv'[j].id # 0
                                => toSrv'[i].id < toSrv'[j].id
      /\ \A i \in DOMAIN toCli' : Answered(toCli[i])'
  BY <1>1, <1>2, <1>3 DEF Messages
<1>5. \A p \in Parsers : HasResult(p)' => pkg'[p] \in Results /\ Answered(pkg[p])'
  BY <1>3 DEF Messages
<1> QED
  BY <1>4, <1>5 DEF Messages, Requests, Results

LEMMA LockAskedStays ==
  ASSUME LockAsked, Quiet, late => late',
         \A t \in Threads : pc'[t] = "lockWait" =>
           /\ pc[t] = "lockWait" /\ Target(t)' = Target(t)
           /\ curResultPkg' = "ok" => curResultPkg = "ok",
         \A p \in Parsers : HasResult(p)' => HasResult(p) /\ pkg'[p] = pkg[p],
         \A p \in Parsers : pc'[p] \in {"stored", "deliver"} => pc[p] \in {"stored", "deliver"}
  PROVE  LockAsked'
<1>1. /\ toSrv' = toSrv /\ toCli' = toCli /\ nextId' = nextId /\ clientcon' = clientcon
      /\ fReadingFile' = fReadingFile /\ phase' = phase
  BY DEF Quiet, net, serverVars
<1> SUFFICES ASSUME Sound', clientcon' = "live", NEW t \in Threads, pc'[t] = "lockWait"
             PROVE  /\ \A i \in DOMAIN toSrv' :
                         toSrv'[i].id = nextId' - 1 =>
                           toSrv'[i].m = "LockFile" /\ toSrv'[i].f = Target(t)'
                    /\ \A i \in DOMAIN toCli' : AnswerCounts(t, toCli[i])'
                    /\ \A p \in Parsers : HasResult(p)' => AnswerCounts(t, pkg[p])'
                    /\ \A p \in Parsers : Stored(p)' =>
                         (curResultPkg' = "ok" => Reads(Target(t))')
  BY DEF LockAsked
<1>2. Sound /\ clientcon = "live" /\ pc[t] = "lockWait" /\ Target(t)' = Target(t)
  BY <1>1 DEF Sound
<1>3. \A a : AnswerCounts(t, a)' <=> AnswerCounts(t, a)
  BY <1>1, <1>2 DEF AnswerCounts, Reads
<1>4. \A p \in Parsers : Stored(p)' => Stored(p)
  BY <1>1 DEF Stored, HasResult
<1> QED
  BY <1>1, <1>2, <1>3, <1>4 DEF LockAsked, HasResult, Reads

LEMMA IdsStay ==
  ASSUME Ids, Quiet, late => late',
         fWaitMethodId' = fWaitMethodId \/ late' \/ \A t \in Threads : ~AtSend(t)',
         \A t \in Threads : pc'[t] \in Asking => pc[t] \in Asking /\ waitId'[t] = waitId[t],
         \A t \in Threads : AtSend(t)' => AtSend(t),
         \A p \in Parsers : HasResult(p)' => HasResult(p) /\ pkg'[p] = pkg[p]
  PROVE  Ids'
<1>1. toSrv' = toSrv /\ toCli' = toCli /\ nextId' = nextId /\ clientcon' = clientcon
  BY DEF Quiet, net
<1>2. (NotSent => NotSent') /\ (Named => Named')
  BY <1>1 DEF NotSent, Named
<1> QED
  BY <1>1, <1>2 DEF Ids

LEMMA LockGivenStays ==
  ASSUME LockGiven, Quiet, late => late',
         \A t \in Threads : pc'[t] = "locked" =>
           pc[t] = "locked" /\ Target(t)' = Target(t) /\ (curResultPkg' = "ok" => curResultPkg = "ok")
  PROVE  LockGiven'
  BY DEF LockGiven, Quiet, net, serverVars, Sound, Reads

LEMMA LockKeptStays ==
  ASSUME LockKept, Quiet, late => late', Downloading' \subseteq Downloading,
         UNCHANGED curRemoteFile
  PROVE  LockKept'
<1>1. /\ toSrv' = toSrv /\ DownLoads(toSrv)' = DownLoads(toSrv)
      /\ DownLoads(toCli)' = DownLoads(toCli) /\ clientcon' = clientcon
      /\ fReadingFile' = fReadingFile /\ phase' = phase
  BY DEF Quiet, net, serverVars, DownLoads
<1> QED
  BY <1>1 DEF LockKept, Sound, Reads, OnlyDownLoads

LEMMA DoNextFileIInv ==
  ASSUME IInv, NEW p \in Parsers, DoNextFile(p)
  PROVE  IInv'
<1> USE DEF IInv, ClientInv, Basic, Turns
<1>1. /\ Quiet
      /\ pc[p] = "next"
      /\ mutex' = p
      /\ UNCHANGED <<late, mixed, reasons, crashed, file, pkg, waitId, fWaitMethodId, curResultPkg,
                     fbusystate, fUpdownFiles, curRemoteFile, curfilePosition, curOpFile>>
      /\ pc' = [pc EXCEPT ![p] = "ranging"]
      /\ \A t \in Threads : pc'[t] = IF t = p THEN "ranging" ELSE pc[t]
  BY ParsersAreThreads DEF DoNextFile, Step, Goto, Quiet, net, rest, waits, queue, current,
     history, Threading
<1>2. OneTurn'
  BY <1>1, ParsersAreThreads DEF OneTurn, Lone, Turn, InTurn, DownLoads, ChainStates, Locking, Quiet,
     net
<1>3. Messages'
  BY <1>1, ParsersAreThreads, MessagesStay DEF HasResult
<1>4. Threading'
  BY <1>1, ParsersAreThreads DEF Threading, Quiet, ChainStates, OffTurn, Locking
<1>5. Scalars'
  BY <1>1, ParsersAreThreads DEF Scalars, Quiet, net
<1>6. Ends'
  BY <1>1, ParsersAreThreads DEF Ends, Quiet, net, serverVars
<1>7. Names'
  BY <1>1, ParsersAreThreads DEF Names, Quiet, net, Turn, InTurn, DownLoads, ChainStates
<1>8. Positions'
  BY <1>1, ParsersAreThreads DEF Positions, Quiet, net, DownLoads, Downloading, ChainStates
<1>9. LockAsked'
  BY <1>1, ParsersAreThreads, LockAskedStays DEF HasResult, Target, Stored
<1>10. LockGiven'
  BY <1>1, ParsersAreThreads, LockGivenStays DEF Target
<1>11. LockKept'
  BY <1>1, ParsersAreThreads, LockKeptStays DEF Downloading
<1>12. Served'
  BY <1>1, ParsersAreThreads DEF Served, Quiet, net, Turn, InTurn, ChainStates, DownLoads
<1>13. TablesInv'
  BY <1>1, NextTables DEF Quiet
<1>14. Ids'
  BY <1>1, ParsersAreThreads, IdsStay DEF HasResult, Asking, AtSend
<1> QED
  BY <1>2, <1>3, <1>4, <1>5, <1>6, <1>7, <1>8, <1>9, <1>10, <1>11, <1>12, <1>13, <1>14

LEMMA ExpectedIInv ==
  ASSUME IInv, NEW p \in Parsers, Expected(p)
  PROVE  IInv'
<1> USE DEF IInv, ClientInv, Basic, Turns
<1>1. /\ Quiet
      /\ pc[p] = "got" /\ pkg[p].m # "DownLoad"
      /\ UNCHANGED <<late, mixed, reasons, crashed, file, waitId, fWaitMethodId, curResultPkg,
                     fbusystate, fUpdownFiles, curRemoteFile, curfilePosition, curOpFile, mutex>>
      /\ \E l \in {"expected", "idle"} :
           /\ pc' = [pc EXCEPT ![p] = l]
           /\ \A t \in Threads : pc'[t] = IF t = p THEN l ELSE pc[t]
           /\ \/ l = "expected" /\ UNCHANGED pkg
              \/ /\ l = "idle" /\ pkg' = [pkg EXCEPT ![p] = NoPkg]
                 /\ \A q \in Parsers : pkg'[q] = IF q = p THEN NoPkg ELSE pkg[q]
  BY ParsersAreThreads DEF Expected, Step, Goto, Quiet, net, rest, waits, queue, current, history,
     Threading
<1>2. OneTurn'
  BY <1>1, ParsersAreThreads DEF OneTurn, Lone, Turn, InTurn, DownLoads, ChainStates, Locking, Quiet,
     net
<1>3. Messages'
  BY <1>1, ParsersAreThreads, MessagesStay DEF HasResult
<1>4. Threading'
  BY <1>1, ParsersAreThreads DEF Threading, Quiet, ChainStates, OffTurn, Locking
<1>5. Scalars'
  BY <1>1, ParsersAreThreads DEF Scalars, Quiet, net
<1>6. Ends'
  BY <1>1, ParsersAreThreads DEF Ends, Quiet, net, serverVars
<1>7. Names'
  BY <1>1, ParsersAreThreads DEF Names, Quiet, net, Turn, InTurn, DownLoads, ChainStates
<1>8. Positions'
  BY <1>1, ParsersAreThreads DEF Positions, Quiet, net, DownLoads, Downloading, ChainStates
<1>9. LockAsked'
  BY <1>1, ParsersAreThreads, LockAskedStays DEF HasResult, Target, Stored
<1>10. LockGiven'
  BY <1>1, ParsersAreThreads, LockGivenStays DEF Target
<1>11. LockKept'
  BY <1>1, ParsersAreThreads, LockKeptStays DEF Downloading
<1>12. Served'
  BY <1>1, ParsersAreThreads DEF Served, Quiet, net, Turn, InTurn, ChainStates, DownLoads
<1>13. TablesInv'
  BY <1>1, NextTables DEF Quiet
<1>14. Ids'
  BY <1>1, ParsersAreThreads, IdsStay DEF HasResult, Asking, AtSend
<1> QED
  BY <1>2, <1>3, <1>4, <1>5, <1>6, <1>7, <1>8, <1>9, <1>10, <1>11, <1>12, <1>13, <1>14

\* A result that is stored while somebody waits is that of the request that was
\* sent for the wait, or else the parser is late.
LEMMA SetResultIInv ==
  ASSUME IInv, NEW p \in Parsers, SetResult(p)
  PROVE  IInv'
<1> USE DEF IInv, ClientInv, Basic, Turns
<1>1. /\ Quiet
      /\ pc[p] = "expected"
      /\ UNCHANGED <<mixed, reasons, crashed, file, pkg, waitId, fWaitMethodId, fbusystate,
                     fUpdownFiles, curRemoteFile, curfilePosition, curOpFile, mutex>>
      /\ curResultPkg' = pkg[p].err
      /\ late' \in BOOLEAN /\ (late => late')
      /\ ~late' => \E t \in Threads : pc[t] \in {"lockWait", "unlockWait"} /\ waitId[t] = pkg[p].id
      /\ pc' = [pc EXCEPT ![p] = "stored"]
      /\ \A t \in Threads : pc'[t] = IF t = p THEN "stored" ELSE pc[t]
  BY ParsersAreThreads DEF SetResult, Step, Goto, Quiet, net, rest, waits, queue, current, history,
     Threading
<1>2. OneTurn'
  BY <1>1, ParsersAreThreads DEF OneTurn, Lone, Turn, InTurn, DownLoads, ChainStates, Locking, Quiet,
     net
<1>3. Messages'
  BY <1>1, ParsersAreThreads, MessagesStay DEF HasResult
<1>4. Threading'
  BY <1>1, ParsersAreThreads DEF Threading, Quiet, ChainStates, OffTurn, Locking
<1>5. Scalars'
  <2>1. pkg[p].err \in {"ok", "busy", "missing"}
    BY <1>1 DEF Messages, HasResult, Results, Answered, Threading
  <2> QED
    BY <1>1, <2>1 DEF Scalars, Quiet, net
<1>6. Ends'
  BY <1>1, ParsersAreThreads DEF Ends, Quiet, net, serverVars
<1>7. Names'
  BY <1>1, ParsersAreThreads DEF Names, Quiet, net, Turn, InTurn, DownLoads, ChainStates
<1>8. Positions'
  BY <1>1, ParsersAreThreads DEF Positions, Quiet, net, DownLoads, Downloading, ChainStates
<1>id. ~late' => pkg[p].id = nextId - 1
  BY <1>1 DEF Ids, Asking
<1>9. LockAsked'
  <2>1. UNCHANGED <<toSrv, toCli, nextId, clientcon, fReadingFile, phase>>
    BY <1>1 DEF Quiet, net, serverVars
  <2> SUFFICES ASSUME Sound', clientcon' = "live", NEW t \in Threads, pc'[t] = "lockWait"
               PROVE  /\ \A i \in DOMAIN toSrv' :
                           toSrv'[i].id = nextId' - 1 =>
                             toSrv'[i].m = "LockFile" /\ toSrv'[i].f = Target(t)'
                      /\ \A i \in DOMAIN toCli' : AnswerCounts(t, toCli[i])'
                      /\ \A q \in Parsers : HasResult(q)' => AnswerCounts(t, pkg[q])'
                      /\ \A q \in Parsers : Stored(q)' =>
                           (curResultPkg' = "ok" => Reads(Target(t))')
    BY DEF LockAsked
  <2>2. Sound /\ clientcon = "live" /\ pc[t] = "lockWait" /\ Target(t)' = Target(t)
    BY <1>1, <2>1 DEF Sound, Target
  <2>3. \A a : AnswerCounts(t, a)' <=> AnswerCounts(t, a)
    BY <2>1, <2>2 DEF AnswerCounts, Reads
  <2>4. \A q \in Parsers : HasResult(q)' => HasResult(q)
    BY <1>1, ParsersAreThreads DEF HasResult
  <2>5. curResultPkg' = "ok" => Reads(Target(t))
    <3>1. pkg[p].id = nextId - 1 /\ HasResult(p)
      BY <1>1, <1>id DEF Sound, HasResult
    <3>2. AnswerCounts(t, pkg[p])
      BY <2>2, <3>1 DEF LockAsked
    <3> QED
      BY <1>1, <3>1, <3>2 DEF AnswerCounts
  <2> QED
    BY <1>1, <2>1, <2>2, <2>3, <2>4, <2>5 DEF LockAsked, Reads
<1>10. LockGiven'
  <2> SUFFICES ASSUME Sound', clientcon' = "live", NEW x \in Threads, pc'[x] = "locked"
               PROVE  FALSE
    BY DEF LockGiven
  <2>1. PICK t \in Threads : pc[t] \in {"lockWait", "unlockWait"}
    BY <1>1 DEF Sound
  <2>2. pc[x] = "locked" /\ x # t
    BY <1>1, <2>1
  <2>3. CASE x = Ui \/ t = Ui
    BY <2>1, <2>2, <2>3, UiLocks, ParsersAreThreads DEF Threads, InTurn, ChainStates, Locking,
       Threading
  <2>4. CASE x # Ui /\ t # Ui
    BY <2>1, <2>2, <2>4 DEF Threads, InTurn, ChainStates, OneTurn, Lone, Turn
  <2> QED
    BY <2>3, <2>4
<1>11. LockKept'
  BY <1>1, ParsersAreThreads, LockKeptStays DEF Downloading
<1>12. Served'
  BY <1>1, ParsersAreThreads DEF Served, Quiet, net, Turn, InTurn, ChainStates, DownLoads
<1>13. TablesInv'
  BY <1>1, NextTables DEF Quiet
<1>14. Ids'
  BY <1>1, ParsersAreThreads, IdsStay DEF HasResult, Asking, AtSend
<1> QED
  BY <1>2, <1>3, <1>4, <1>5, <1>6, <1>7, <1>8, <1>9, <1>10, <1>11, <1>12, <1>13, <1>14

LEMMA ClearIdIInv ==
  ASSUME IInv, NEW p \in Parsers, ClearId(p)
  PROVE  IInv'
<1> USE DEF IInv, ClientInv, Basic, Turns
<1>1. /\ Quiet
      /\ pc[p] = "stored"
      /\ UNCHANGED <<mixed, reasons, crashed, file, pkg, waitId, curResultPkg, fbusystate,
                     fUpdownFiles, curRemoteFile, curfilePosition, curOpFile, mutex>>
      /\ fWaitMethodId' = 0
      /\ late' \in BOOLEAN /\ (late => late')
      /\ ~late' => fWaitMethodId \in {0, pkg[p].id}
      /\ pc' = [pc EXCEPT ![p] = "deliver"]
      /\ \A t \in Threads : pc'[t] = IF t = p THEN "deliver" ELSE pc[t]
  BY ParsersAreThreads DEF ClearId, Step, Goto, Quiet, net, rest, waits, queue, current, history,
     Threading
<1>2. OneTurn'
  BY <1>1, ParsersAreThreads DEF OneTurn, Lone, Turn, InTurn, DownLoads, ChainStates, Locking, Quiet,
     net
<1>3. Messages'
  BY <1>1, ParsersAreThreads, MessagesStay DEF HasResult
<1>4. Threading'
  BY <1>1, ParsersAreThreads DEF Threading, Quiet, ChainStates, OffTurn, Locking
<1>5. Scalars'
  BY <1>1, ParsersAreThreads DEF Scalars, Quiet, net
<1>6. Ends'
  BY <1>1, ParsersAreThreads DEF Ends, Quiet, net, serverVars
<1>7. Names'
  BY <1>1, ParsersAreThreads DEF Names, Quiet, net, Turn, InTurn, DownLoads, ChainStates
<1>8. Positions'
  BY <1>1, ParsersAreThreads DEF Positions, Quiet, net, DownLoads, Downloading, ChainStates
<1>9. LockAsked'
  BY <1>1, ParsersAreThreads, LockAskedStays DEF HasResult, Target, Stored
<1>10. LockGiven'
  BY <1>1, ParsersAreThreads, LockGivenStays DEF Target
<1>11. LockKept'
  BY <1>1, ParsersAreThreads, LockKeptStays DEF Downloading
<1>12. Served'
  BY <1>1, ParsersAreThreads DEF Served, Quiet, net, Turn, InTurn, ChainStates, DownLoads
<1>13. TablesInv'
  BY <1>1, NextTables DEF Quiet
<1>14. Ids'
  <2>1. /\ toSrv' = toSrv /\ toCli' = toCli /\ nextId' = nextId /\ clientcon' = clientcon
        /\ \A q \in Parsers : HasResult(q)' => HasResult(q)
    BY <1>1, ParsersAreThreads DEF Quiet, net, HasResult
  <2>2. (NotSent => NotSent') /\ (Named => Named')
    BY <1>1, <2>1 DEF NotSent, Named
  <2>3. \A t \in Threads : pc'[t] \in Asking => pc[t] \in Asking /\ waitId'[t] = waitId[t]
    BY <1>1 DEF Asking
  <2>4. \A t \in Threads : AtSend(t)' => AtSend(t)
    BY <1>1 DEF AtSend
  <2>5. ASSUME ~late', clientcon = "live", NEW t \in Threads, AtSend(t)' PROVE FALSE
    <3>1. fWaitMethodId = nextId - 1 /\ NotSent
      BY <1>1, <2>4, <2>5 DEF Ids
    <3>2. pkg[p].id # nextId - 1
      BY <1>1, <3>1 DEF NotSent, HasResult
    <3>3. nextId # 1 /\ nextId \in Nat
      BY <2>4, <2>5 DEF Ids, Asking, AtSend, Threading
    <3> QED
      BY <1>1, <2>5, <3>1, <3>2, <3>3
  <2> QED
    BY <1>1, <2>1, <2>2, <2>3, <2>4, <2>5 DEF Ids
<1> QED
  BY <1>2, <1>3, <1>4, <1>5, <1>6, <1>7, <1>8, <1>9, <1>10, <1>11, <1>12, <1>13, <1>14

LEMMA QueueFileIInv ==
  ASSUME IInv, QueueFile
  PROVE  IInv'
<1> USE DEF IInv, ClientInv, Basic, Turns
<1>1. /\ Quiet
      /\ pc[Ui] = "queue" /\ Ui \in Threads
      /\ UNCHANGED <<late, mixed, pkg, waitId, fWaitMethodId, curResultPkg, fbusystate, curRemoteFile,
                     curfilePosition, curOpFile, mutex>>
      /\ \/ /\ pc' = [pc EXCEPT ![Ui] = "idle"] /\ file' = NoFile /\ crashed' = crashed
            /\ \A t \in Threads : pc'[t] = IF t = Ui THEN "idle" ELSE pc[t]
            /\ fUpdownFiles' = fUpdownFiles \cup {file}
            /\ reasons' = IF fbusystate = 0 THEN reasons \cup {"missed"} ELSE reasons
         \/ UNCHANGED <<pc, file, fUpdownFiles, reasons>> /\ crashed' = TRUE
  BY ParsersAreThreads DEF QueueFile, Threads, Step, Goto, Quiet, net, rest, waits, queue,
     current, history, Threading
<1>2. OneTurn'
  BY <1>1, ParsersAreThreads DEF OneTurn, Lone, Turn, InTurn, DownLoads, ChainStates, Locking, Quiet,
     net
<1>3. Messages'
  BY <1>1, ParsersAreThreads, MessagesStay DEF HasResult
<1>4. Threading'
  BY <1>1, ParsersAreThreads DEF Threading, Quiet, ChainStates, OffTurn, Locking
<1>5. Scalars'
  <2>1. crashed' \in BOOLEAN
    BY <1>1 DEF Scalars
  <2>2. reasons' \subseteq {"missed", "refused", "timeout", "dropped"}
    BY <1>1 DEF Scalars
  <2>3. fUpdownFiles' \subseteq Files /\ file' \in Files \cup {NoFile}
    BY <1>1 DEF Scalars, Names
  <2> QED
    BY <1>1, <2>1, <2>2, <2>3 DEF Scalars, Quiet, net
<1>6. Ends'
  BY <1>1, ParsersAreThreads DEF Ends, Quiet, net, serverVars
<1>7. Names'
  BY <1>1, ParsersAreThreads DEF Names, Quiet, net, Turn, InTurn, DownLoads, ChainStates
<1>8. Positions'
  BY <1>1, ParsersAreThreads DEF Positions, Quiet, net, DownLoads, Downloading, ChainStates
<1>9. LockAsked'
  BY <1>1, ParsersAreThreads, LockAskedStays DEF HasResult, Target, Stored
<1>10. LockGiven'
  BY <1>1, ParsersAreThreads, LockGivenStays DEF Target
<1>11. LockKept'
  BY <1>1, ParsersAreThreads, LockKeptStays DEF Downloading
<1>12. Served'
  <2>1. fUpdownFiles' # {} => fbusystate' = 1 \/ reasons' # {}
    BY <1>1 DEF Served, Scalars
  <2>2. (reasons' \subseteq {"missed"} => reasons \subseteq {"missed"}) /\ (~crashed' => ~crashed)
    BY <1>1
  <2>3. \A p \in Parsers : pc'[p] = pc[p]
    BY <1>1, ParsersAreThreads
  <2> QED
    BY <1>1, <2>1, <2>2, <2>3 DEF Served, Quiet, net, Turn, InTurn, DownLoads
<1>13. TablesInv'
  BY <1>1, NextTables DEF Quiet
<1>14. Ids'
  BY <1>1, ParsersAreThreads, IdsStay DEF HasResult, Asking, AtSend
<1> QED
  BY <1>2, <1>3, <1>4, <1>5, <1>6, <1>7, <1>8, <1>9, <1>10, <1>11, <1>12, <1>13, <1>14

LEMMA NilResultIInv ==
  ASSUME IInv, NEW t \in Threads, NilResult(t)
  PROVE  IInv'
<1> USE DEF IInv, ClientInv, Basic, Turns
<1>1. /\ Quiet
      /\ pc[t] = "locked"
      /\ UNCHANGED <<late, mixed, reasons, file, pkg, waitId, fWaitMethodId, curResultPkg, fbusystate,
                     fUpdownFiles, curRemoteFile, curfilePosition, curOpFile, mutex>>
      /\ pc' = pc
      /\ crashed' = TRUE
  BY ParsersAreThreads DEF NilResult, Step, Goto, Quiet, net, rest, waits, queue, current,
     history, Threading
<1>2. OneTurn'
  BY <1>1, ParsersAreThreads DEF OneTurn, Lone, Turn, InTurn, DownLoads, ChainStates, Locking, Quiet,
     net
<1>3. Messages'
  BY <1>1, ParsersAreThreads, MessagesStay DEF HasResult
<1>4. Threading'
  BY <1>1, ParsersAreThreads DEF Threading, Quiet, ChainStates, OffTurn, Locking
<1>5. Scalars'
  BY <1>1, ParsersAreThreads DEF Scalars, Quiet, net
<1>6. Ends'
  BY <1>1, ParsersAreThreads DEF Ends, Quiet, net, serverVars
<1>7. Names'
  BY <1>1, ParsersAreThreads DEF Names, Quiet, net, Turn, InTurn, DownLoads, ChainStates
<1>8. Positions'
  BY <1>1, ParsersAreThreads DEF Positions, Quiet, net, DownLoads, Downloading, ChainStates
<1>9. LockAsked'
  BY <1>1, ParsersAreThreads, LockAskedStays DEF HasResult, Target, Stored
<1>10. LockGiven'
  BY <1>1, ParsersAreThreads, LockGivenStays DEF Target
<1>11. LockKept'
  BY <1>1, ParsersAreThreads, LockKeptStays DEF Downloading
<1>12. Served'
  BY <1>1, ParsersAreThreads DEF Served, Quiet, net, Turn, InTurn, ChainStates, DownLoads
<1>13. TablesInv'
  BY <1>1, NextTables DEF Quiet
<1>14. Ids'
  BY <1>1, ParsersAreThreads, IdsStay DEF HasResult, Asking, AtSend
<1> QED
  BY <1>2, <1>3, <1>4, <1>5, <1>6, <1>7, <1>8, <1>9, <1>10, <1>11, <1>12, <1>13, <1>14

LEMMA RefusedIInv ==
  ASSUME IInv, Refused
  PROVE  IInv'
<1> USE DEF IInv, ClientInv, Basic, Turns
<1>1. /\ Quiet
      /\ pc[Ui] = "locked" /\ Ui \in Threads
      /\ UNCHANGED <<late, mixed, reasons, crashed, pkg, waitId, fWaitMethodId, fbusystate, fUpdownFiles,
                     curRemoteFile, curfilePosition, curOpFile, mutex>>
      /\ curResultPkg' = "nil" /\ file' = NoFile
      /\ pc' = [pc EXCEPT ![Ui] = "idle"]
      /\ \A t \in Threads : pc'[t] = IF t = Ui THEN "idle" ELSE pc[t]
  BY ParsersAreThreads DEF Refused, Threads, Step, Goto, Quiet, net, rest, waits, queue, current,
     history, Threading
<1>alone. fbusystate = 0 /\ \A q \in Parsers : ~InTurn(q)
  BY <1>1, UiLocks DEF Locking
<1>nolock. \A t \in Threads : pc'[t] \notin {"lockWait", "locked"}
  BY <1>1, <1>alone DEF Threads, InTurn, ChainStates, Locking, Threading
<1>2. OneTurn'
  BY <1>1, ParsersAreThreads DEF OneTurn, Lone, Turn, InTurn, DownLoads, ChainStates, Locking, Quiet,
     net
<1>3. Messages'
  BY <1>1, ParsersAreThreads, MessagesStay DEF HasResult
<1>4. Threading'
  BY <1>1, ParsersAreThreads DEF Threading, Quiet, ChainStates, OffTurn, Locking
<1>5. Scalars'
  BY <1>1, ParsersAreThreads DEF Scalars, Quiet, net
<1>6. Ends'
  BY <1>1, ParsersAreThreads DEF Ends, Quiet, net, serverVars
<1>7. Names'
  BY <1>1, ParsersAreThreads DEF Names, Quiet, net, Turn, InTurn, DownLoads, ChainStates
<1>8. Positions'
  BY <1>1, ParsersAreThreads DEF Positions, Quiet, net, DownLoads, Downloading, ChainStates
<1>9. LockAsked'
  BY <1>nolock DEF LockAsked
<1>10. LockGiven'
  BY <1>nolock DEF LockGiven
<1>11. LockKept'
  BY <1>1, ParsersAreThreads, LockKeptStays DEF Downloading
<1>12. Served'
  BY <1>1, ParsersAreThreads DEF Served, Quiet, net, Turn, InTurn, ChainStates, DownLoads
<1>13. TablesInv'
  BY <1>1, NextTables DEF Quiet
<1>14. Ids'
  BY <1>1, ParsersAreThreads, IdsStay DEF HasResult, Asking, AtSend
<1> QED
  BY <1>2, <1>3, <1>4, <1>5, <1>6, <1>7, <1>8, <1>9, <1>10, <1>11, <1>12, <1>13, <1>14

LEMMA CreateFailsIInv ==
  ASSUME IInv, NEW p \in Parsers, CreateFails(p)
  PROVE  IInv'
<1> USE DEF IInv, ClientInv, Basic, Turns
<1>1. /\ Quiet
      /\ pc[p] = "got" /\ pkg[p].m = "DownLoad" /\ curOpFile = "nil"
      /\ UNCHANGED <<late, mixed, reasons, crashed, file, pkg, waitId, fWaitMethodId, curResultPkg,
                     fbusystate, fUpdownFiles, curRemoteFile, curfilePosition, curOpFile, mutex>>
      /\ pc' = [pc EXCEPT ![p] = "next"]
      /\ \A t \in Threads : pc'[t] = IF t = p THEN "next" ELSE pc[t]
  BY ParsersAreThreads DEF CreateFails, Step, Goto, Quiet, net, rest, waits, queue, current,
     history, Threading
<1>alone. /\ InTurn(p) /\ fbusystate # 0 /\ pc[Ui] \notin Locking
      /\ DownLoads(toSrv) = {} /\ DownLoads(toCli) = {}
      /\ \A q \in Parsers : InTurn(q) => q = p
  <2>1. InTurn(p)
    BY <1>1 DEF InTurn, ChainStates
  <2> QED
    BY <2>1, HasTurn
<1>nolock. \A t \in Threads : pc'[t] \notin {"lockWait", "locked"}
  BY <1>1, <1>alone DEF Threads, InTurn, ChainStates, Locking, Threading
<1>2. OneTurn'
  BY <1>1, ParsersAreThreads DEF OneTurn, Lone, Turn, InTurn, DownLoads, ChainStates, Locking, Quiet,
     net
<1>3. Messages'
  BY <1>1, ParsersAreThreads, MessagesStay DEF HasResult
<1>4. Threading'
  BY <1>1, ParsersAreThreads DEF Threading, Quiet, ChainStates, OffTurn, Locking
<1>5. Scalars'
  BY <1>1, ParsersAreThreads DEF Scalars, Quiet, net
<1>6. Ends'
  BY <1>1, ParsersAreThreads DEF Ends, Quiet, net, serverVars
<1>7. Names'
  BY <1>1, ParsersAreThreads DEF Names, Quiet, net, Turn, InTurn, DownLoads, ChainStates
<1>8. Positions'
  BY <1>1, ParsersAreThreads DEF Positions, Quiet, net, DownLoads, Downloading, ChainStates
<1>9. LockAsked'
  BY <1>nolock DEF LockAsked
<1>10. LockGiven'
  BY <1>nolock DEF LockGiven
<1>11. LockKept'
  BY <1>1, ParsersAreThreads, LockKeptStays DEF Downloading
<1>12. Served'
  BY <1>1, ParsersAreThreads DEF Served, Quiet, net, Turn, InTurn, ChainStates, DownLoads
<1>13. TablesInv'
  BY <1>1, NextTables DEF Quiet
<1>14. Ids'
  BY <1>1, ParsersAreThreads, IdsStay DEF HasResult, Asking, AtSend
<1> QED
  BY <1>2, <1>3, <1>4, <1>5, <1>6, <1>7, <1>8, <1>9, <1>10, <1>11, <1>12, <1>13, <1>14

LEMMA UnlockedIInv ==
  ASSUME IInv, NEW p \in Parsers, Unlocked(p)
  PROVE  IInv'
<1> USE DEF IInv, ClientInv, Basic, Turns
<1>1. /\ Quiet
      /\ pc[p] = "unlocked"
      /\ UNCHANGED <<late, mixed, reasons, crashed, file, pkg, waitId, fWaitMethodId, curResultPkg,
                     fbusystate, fUpdownFiles, curOpFile, mutex>>
      /\ curRemoteFile' = NoFile /\ curfilePosition' = 0
      /\ pc' = [pc EXCEPT ![p] = "next"]
      /\ \A t \in Threads : pc'[t] = IF t = p THEN "next" ELSE pc[t]
  BY ParsersAreThreads DEF Unlocked, Unlock, Step, Goto, Quiet, net, rest, waits, queue, current,
     history, Threading
<1>alone. /\ InTurn(p) /\ fbusystate # 0 /\ pc[Ui] \notin Locking
      /\ DownLoads(toSrv) = {} /\ DownLoads(toCli) = {}
      /\ \A q \in Parsers : InTurn(q) => q = p
  <2>1. InTurn(p)
    BY <1>1 DEF InTurn, ChainStates
  <2> QED
    BY <2>1, HasTurn
<1>nolock. \A t \in Threads : pc'[t] \notin {"lockWait", "locked"}
  BY <1>1, <1>alone DEF Threads, InTurn, ChainStates, Locking, Threading
<1>moved. Downloading' = {} /\ Turn' = {p} /\ pc'[p] = "next"
  BY <1>1, <1>alone, ParsersAreThreads DEF Downloading, Turn, InTurn, ChainStates
<1>2. OneTurn'
  BY <1>1, ParsersAreThreads DEF OneTurn, Lone, Turn, InTurn, DownLoads, ChainStates, Locking, Quiet,
     net
<1>3. Messages'
  BY <1>1, ParsersAreThreads, MessagesStay DEF HasResult
<1>4. Threading'
  BY <1>1, ParsersAreThreads DEF Threading, Quiet, ChainStates, OffTurn, Locking
<1>5. Scalars'
  BY <1>1, BlocksAssumption DEF Scalars, Quiet, net
<1>6. Ends'
  BY <1>1, ParsersAreThreads DEF Ends, Quiet, net, serverVars
<1>7. Names'
  <2>1. clientcon = "live" => curOpFile = "nil"
    BY <1>1 DEF Positions, ChainStates
  <2> QED
    BY <1>1, <1>alone, <1>moved, <2>1 DEF Names, Quiet, net, DownLoads
<1>8. Positions'
  BY <1>1, <1>alone, <1>moved, ParsersAreThreads DEF Positions, Quiet, net, DownLoads, Downloading,
     ChainStates, InTurn
<1>9. LockAsked'
  BY <1>nolock DEF LockAsked
<1>10. LockGiven'
  BY <1>nolock DEF LockGiven
<1>11. LockKept'
  BY <1>1, <1>alone, <1>moved DEF LockKept, Quiet, net, DownLoads
<1>12. Served'
  BY <1>1, ParsersAreThreads DEF Served, Quiet, net, Turn, InTurn, ChainStates, DownLoads
<1>13. TablesInv'
  BY <1>1, NextTables DEF Quiet
<1>14. Ids'
  BY <1>1, ParsersAreThreads, IdsStay DEF HasResult, Asking, AtSend
<1> QED
  BY <1>2, <1>3, <1>4, <1>5, <1>6, <1>7, <1>8, <1>9, <1>10, <1>11, <1>12, <1>13, <1>14

LEMMA NoMoreFilesIInv ==
  ASSUME IInv, NEW p \in Parsers, NoMoreFiles(p)
  PROVE  IInv'
<1> USE DEF IInv, ClientInv, Basic, Turns
<1>1. /\ Quiet
      /\ pc[p] = "ranging" /\ fUpdownFiles = {}
      /\ UNCHANGED <<late, mixed, reasons, crashed, file, pkg, waitId, fWaitMethodId, curResultPkg,
                     fUpdownFiles, curRemoteFile, curfilePosition, curOpFile>>
      /\ fbusystate' = 0 /\ mutex' = "free"
      /\ \E l \in {"idle", "recheck"} :
           /\ pc' = [pc EXCEPT ![p] = l]
           /\ \A t \in Threads : pc'[t] = IF t = p THEN l ELSE pc[t]
  BY ParsersAreThreads DEF NoMoreFiles, AfterNext, Step, Goto, Quiet, net, rest, waits, queue, current,
     history, Threading
<1>alone. /\ InTurn(p) /\ fbusystate # 0 /\ pc[Ui] \notin Locking
      /\ DownLoads(toSrv) = {} /\ DownLoads(toCli) = {}
      /\ \A q \in Parsers : InTurn(q) => q = p
  <2>1. InTurn(p)
    BY <1>1 DEF InTurn, ChainStates
  <2> QED
    BY <2>1, HasTurn
<1>nolock. \A t \in Threads : pc'[t] \notin {"lockWait", "locked"}
  BY <1>1, <1>alone DEF Threads, InTurn, ChainStates, Locking, Threading
<1>2. OneTurn'
  BY <1>1, ParsersAreThreads DEF OneTurn, Lone, Turn, InTurn, DownLoads, ChainStates, Locking, Quiet,
     net
<1>3. Messages'
  BY <1>1, ParsersAreThreads, MessagesStay DEF HasResult
<1>4. Threading'
  BY <1>1, ParsersAreThreads DEF Threading, Quiet, ChainStates, OffTurn, Locking
<1>5. Scalars'
  BY <1>1, ParsersAreThreads DEF Scalars, Quiet, net
<1>6. Ends'
  BY <1>1, ParsersAreThreads DEF Ends, Quiet, net, serverVars
<1>7. Names'
  BY <1>1, ParsersAreThreads DEF Names, Quiet, net, Turn, InTurn, DownLoads, ChainStates
<1>8. Positions'
  BY <1>1, ParsersAreThreads DEF Positions, Quiet, net, DownLoads, Downloading, ChainStates
<1>9. LockAsked'
  BY <1>nolock DEF LockAsked
<1>10. LockGiven'
  BY <1>nolock DEF LockGiven
<1>11. LockKept'
  BY <1>1, ParsersAreThreads, LockKeptStays DEF Downloading
<1>12. Served'
  BY <1>1, ParsersAreThreads DEF Served, Quiet, net, Turn, InTurn, ChainStates, DownLoads
<1>13. TablesInv'
  BY <1>1, NextTables DEF Quiet
<1>14. Ids'
  BY <1>1, ParsersAreThreads, IdsStay DEF HasResult, Asking, AtSend
<1> QED
  BY <1>2, <1>3, <1>4, <1>5, <1>6, <1>7, <1>8, <1>9, <1>10, <1>11, <1>12, <1>13, <1>14

LEMMA NextRefusedIInv ==
  ASSUME IInv, NEW p \in Parsers, NextRefused(p)
  PROVE  IInv'
<1> USE DEF IInv, ClientInv, Basic, Turns
<1>1. /\ Quiet
      /\ pc[p] = "locked"
      /\ UNCHANGED <<late, mixed, crashed, file, pkg, waitId, fWaitMethodId, fbusystate, fUpdownFiles,
                     curRemoteFile, curfilePosition, curOpFile>>
      /\ curResultPkg' = "nil" /\ mutex' = "free" /\ reasons' = reasons \cup {"refused"}
      /\ \E l \in {"idle", "recheck"} :
           /\ pc' = [pc EXCEPT ![p] = l]
           /\ \A t \in Threads : pc'[t] = IF t = p THEN l ELSE pc[t]
  BY ParsersAreThreads DEF NextRefused, AfterNext, Step, Goto, Quiet, net, rest, waits, queue, current,
     history, Threading
<1>alone. /\ InTurn(p) /\ fbusystate # 0 /\ pc[Ui] \notin Locking
      /\ DownLoads(toSrv) = {} /\ DownLoads(toCli) = {}
      /\ \A q \in Parsers : InTurn(q) => q = p
  <2>1. InTurn(p)
    BY <1>1 DEF InTurn, ChainStates
  <2> QED
    BY <2>1, HasTurn
<1>nolock. \A t \in Threads : pc'[t] \notin {"lockWait", "locked"}
  BY <1>1, <1>alone DEF Threads, InTurn, ChainStates, Locking, Threading
<1>2. OneTurn'
  BY <1>1, ParsersAreThreads DEF OneTurn, Lone, Turn, InTurn, DownLoads, ChainStates, Locking, Quiet,
     net
<1>3. Messages'
  BY <1>1, ParsersAreThreads, MessagesStay DEF HasResult
<1>4. Threading'
  BY <1>1, ParsersAreThreads DEF Threading, Quiet, ChainStates, OffTurn, Locking
<1>5. Scalars'
  BY <1>1, ParsersAreThreads DEF Scalars, Quiet, net
<1>6. Ends'
  BY <1>1, ParsersAreThreads DEF Ends, Quiet, net, serverVars
<1>7. Names'
  BY <1>1, ParsersAreThreads DEF Names, Quiet, net, Turn, InTurn, DownLoads, ChainStates
<1>8. Positions'
  BY <1>1, ParsersAreThreads DEF Positions, Quiet, net, DownLoads, Downloading, ChainStates
<1>9. LockAsked'
  BY <1>nolock DEF LockAsked
<1>10. LockGiven'
  BY <1>nolock DEF LockGiven
<1>11. LockKept'
  BY <1>1, ParsersAreThreads, LockKeptStays DEF Downloading
<1>12. Served'
  BY <1>1, ParsersAreThreads DEF Served, Quiet, net, Turn, InTurn, ChainStates, DownLoads
<1>13. TablesInv'
  BY <1>1, NextTables DEF Quiet
<1>14. Ids'
  BY <1>1, ParsersAreThreads, IdsStay DEF HasResult, Asking, AtSend
<1> QED
  BY <1>2, <1>3, <1>4, <1>5, <1>6, <1>7, <1>8, <1>9, <1>10, <1>11, <1>12, <1>13, <1>14

LEMMA WakeUpIInv ==
  ASSUME IInv, NEW t \in Threads, NEW p \in Parsers, WakeUp(t, p)
  PROVE  IInv'
<1> USE DEF IInv, ClientInv, Basic, Turns
<1> DEFINE l == AfterWait(pc[t])
<1>1. /\ Quiet
      /\ pc[t] \in {"lockWait", "unlockWait"} /\ pc[p] = "deliver" /\ p # t
      /\ UNCHANGED <<mixed, reasons, crashed, file, fWaitMethodId, curResultPkg, fbusystate,
                     fUpdownFiles, curRemoteFile, curfilePosition, curOpFile, mutex>>
      /\ l \in {"locked", "unlocked"} /\ (l = "locked" <=> pc[t] = "lockWait")
      /\ pc' \in [Threads -> OffTurn \cup ChainStates]
      /\ \A x \in Threads : pc'[x] = IF x = t THEN l ELSE IF x = p THEN "idle" ELSE pc[x]
      /\ pkg' = [pkg EXCEPT ![p] = NoPkg]
      /\ \A q \in Parsers : pkg'[q] = IF q = p THEN NoPkg ELSE pkg[q]
      /\ waitId' = [waitId EXCEPT ![t] = 0]
      /\ \A x \in Threads : waitId'[x] = IF x = t THEN 0 ELSE waitId[x]
      /\ late' \in BOOLEAN /\ (late => late') /\ (~late' => pkg[p].id = waitId[t])
  BY ParsersAreThreads DEF WakeUp, AfterWait, ChainStates, OffTurn, Step, Goto, Quiet, net, rest, waits,
     queue, current, history, Threading
<1> HIDE DEF l
<1>2. OneTurn'
  <2>1. \A q \in Parsers : InTurn(q)' => InTurn(q)
    BY <1>1, ParsersAreThreads DEF InTurn, ChainStates
  <2>2. pc'[Ui] \in Locking => pc[Ui] \in Locking
    BY <1>1, ParsersAssumption DEF Threading, Threads
  <2> QED
    BY <1>1, <2>1, <2>2 DEF OneTurn, Lone, Turn, DownLoads, Quiet, net
<1>3. Messages'
  BY <1>1, ParsersAreThreads, MessagesStay DEF HasResult
<1>4. Threading'
  <2>1. pc'[Ui] \in {"idle", "queue"} \cup Locking
    BY <1>1, ParsersAssumption DEF Threading, Threads, Locking
  <2>2. \A q \in Parsers : pc'[q] # "queue" /\ (pc'[q] \in {"expected", "stored", "deliver"} => pkg'[q].m # "DownLoad")
    BY <1>1, ParsersAreThreads DEF Threading
  <2>3. waitId' \in [Threads -> 0 .. nextId] /\ pkg' \in [Parsers -> Results \cup {NoPkg}]
    BY <1>1 DEF Threading
  <2> QED
    BY <1>1, <2>1, <2>2, <2>3 DEF Threading, Quiet, Results, Absent
<1>5. Scalars'
  BY <1>1, ParsersAreThreads DEF Scalars, Quiet, net
<1>6. Ends'
  BY <1>1, ParsersAreThreads DEF Ends, Quiet, net, serverVars
<1>7. Names'
  <2>1. \A q \in Parsers : InTurn(q)' /\ pc'[q] \notin {"next", "ranging"} =>
                            InTurn(q) /\ pc[q] \notin {"next", "ranging"}
    BY <1>1, ParsersAreThreads DEF InTurn, ChainStates
  <2>2. pc'[Ui] # "idle" => pc[Ui] # "idle"
    BY <1>1, ParsersAssumption DEF Threading, Threads
  <2> QED
    BY <1>1, <2>1, <2>2 DEF Names, Quiet, net, Turn, DownLoads
<1>8. Positions'
  BY <1>1, ParsersAreThreads DEF Positions, Quiet, net, DownLoads, Downloading, ChainStates
<1>9. LockAsked'
  BY <1>1, ParsersAreThreads, LockAskedStays DEF HasResult, Target, Stored
<1>10. LockGiven'
  <2>1. UNCHANGED <<toSrv, fReadingFile, phase, clientcon, file, curRemoteFile, curResultPkg>>
    BY <1>1 DEF Quiet, net, serverVars
  <2> SUFFICES ASSUME Sound', clientcon' = "live", NEW x \in Threads, pc'[x] = "locked"
               PROVE  toSrv' = <<>> /\ (curResultPkg' = "ok" => Reads(Target(x))')
    BY DEF LockGiven
  <2>2. /\ Sound /\ clientcon = "live" /\ pkg[p].id = waitId[t]
        /\ Target(x)' = Target(x) /\ (Reads(Target(x))' <=> Reads(Target(x)))
    BY <1>1, <2>1 DEF Sound, Target, Reads
  <2>3. CASE x = t
    <3>1. pc[t] = "lockWait" /\ pkg[p].id = nextId - 1
      BY <1>1, <2>2, <2>3 DEF Ids, Asking
    <3>2. (curResultPkg = "ok" => Reads(Target(t))) /\ AnswerCounts(t, pkg[p])
      BY <1>1, <2>2, <3>1 DEF LockAsked, HasResult, Stored
    <3> QED
      BY <2>1, <2>2, <2>3, <3>1, <3>2 DEF AnswerCounts
  <2>4. CASE x # t
    <3>1. pc[x] = "locked"
      BY <1>1, <2>4
    <3> QED
      BY <2>1, <2>2, <3>1 DEF LockGiven
  <2> QED
    BY <2>3, <2>4
<1>11. LockKept'
  BY <1>1, ParsersAreThreads, LockKeptStays DEF Downloading
<1>12. Served'
  BY <1>1, ParsersAreThreads DEF Served, Quiet, net, Turn, InTurn, ChainStates, DownLoads
<1>13. TablesInv'
  BY <1>1, NextTables DEF Quiet
<1>14. Ids'
  BY <1>1, ParsersAreThreads, IdsStay DEF HasResult, Asking, AtSend
<1> QED
  BY <1>2, <1>3, <1>4, <1>5, <1>6, <1>7, <1>8, <1>9, <1>10, <1>11, <1>12, <1>13, <1>14

LEMMA TimeOutIInv ==
  ASSUME IInv, NEW t \in Threads, TimeOut(t)
  PROVE  IInv'
<1> USE DEF IInv, ClientInv, Basic, Turns
<1> DEFINE l == IF pc[t] = "unlockWait" THEN "unlocked" ELSE AfterNext(t)
<1>1. /\ Quiet
      /\ pc[t] \in {"lockWait", "unlockWait"}
      /\ UNCHANGED <<late, mixed, crashed, pkg, fWaitMethodId, curResultPkg, fbusystate, fUpdownFiles,
                     curRemoteFile, curfilePosition, curOpFile>>
      /\ l \in {"unlocked", "idle", "recheck"} /\ (l = "unlocked" <=> pc[t] = "unlockWait")
      /\ t = Ui => l # "recheck"
      /\ pc' = [pc EXCEPT ![t] = l]
      /\ \A x \in Threads : pc'[x] = IF x = t THEN l ELSE pc[x]
      /\ waitId' = [waitId EXCEPT ![t] = 0]
      /\ \A x \in Threads : waitId'[x] = IF x = t THEN 0 ELSE waitId[x]
      /\ IF t # Ui /\ pc[t] = "lockWait" THEN mutex' = "free" /\ reasons' = reasons \cup {"timeout"}
         ELSE UNCHANGED <<mutex, reasons>>
      /\ file' = IF t = Ui THEN NoFile ELSE file
  BY ParsersAreThreads DEF TimeOut, AfterNext, Step, Goto, Quiet, net, rest, waits, queue, current, history,
     Threading
<1> HIDE DEF l
<1>2. OneTurn'
  BY <1>1, ParsersAreThreads DEF OneTurn, Lone, Turn, InTurn, DownLoads, ChainStates, Locking, Quiet,
     net
<1>3. Messages'
  BY <1>1, ParsersAreThreads, MessagesStay DEF HasResult
<1>4. Threading'
  BY <1>1, ParsersAreThreads DEF Threading, Quiet, ChainStates, OffTurn, Locking
<1>5. Scalars'
  <2>1. mutex' \in Parsers \cup {"free"} /\ file' \in Files \cup {NoFile}
    BY <1>1 DEF Scalars
  <2>2. reasons' \subseteq {"missed", "refused", "timeout", "dropped"}
    BY <1>1 DEF Scalars
  <2> QED
    BY <1>1, <2>1, <2>2 DEF Scalars, Quiet, net
<1>6. Ends'
  BY <1>1, ParsersAreThreads DEF Ends, Quiet, net, serverVars
<1>7. Names'
  <2>1. \A q \in Parsers : InTurn(q)' /\ pc'[q] \notin {"next", "ranging"} =>
                            InTurn(q) /\ pc[q] \notin {"next", "ranging"}
    BY <1>1, ParsersAreThreads DEF InTurn, ChainStates
  <2>2. pc'[Ui] # "idle" => pc[Ui] # "idle" /\ file' = file
    BY <1>1 DEF Threading, Threads, Locking
  <2> QED
    BY <1>1, <2>1, <2>2 DEF Names, Quiet, net, Turn, DownLoads
<1>8. Positions'
  BY <1>1, ParsersAreThreads DEF Positions, Quiet, net, DownLoads, Downloading, ChainStates
<1>9. LockAsked'
  BY <1>1, ParsersAreThreads, LockAskedStays DEF HasResult, Target, Stored
<1>10. LockGiven'
  BY <1>1, ParsersAreThreads, LockGivenStays DEF Target
<1>11. LockKept'
  BY <1>1, ParsersAreThreads, LockKeptStays DEF Downloading
<1>12. Served'
  BY <1>1, ParsersAreThreads DEF Served, Quiet, net, Turn, InTurn, ChainStates, DownLoads
<1>13. TablesInv'
  BY <1>1, NextTables DEF Quiet
<1>14. Ids'
  BY <1>1, ParsersAreThreads, IdsStay DEF HasResult, Asking, AtSend
<1> QED
  BY <1>2, <1>3, <1>4, <1>5, <1>6, <1>7, <1>8, <1>9, <1>10, <1>11, <1>12, <1>13, <1>14

-----------------------------------------------------------------------------
(* Steps of a thread that sends a request. *)
LEMMA SentFacts ==
  ASSUME Messages, NEW r \in Requests, toSrv' = Append(toSrv, r)
  PROVE  /\ toSrv' \in Seq(Requests) /\ Len(toSrv) \in Nat
         /\ DOMAIN toSrv = 1 .. Len(toSrv) /\ DOMAIN toSrv' = 1 .. Len(toSrv) + 1
         /\ toSrv'[Len(toSrv) + 1] = r
         /\ \A i \in DOMAIN toSrv : i \in DOMAIN toSrv' /\ toSrv'[i] = toSrv[i]
         /\ \A i \in DOMAIN toSrv' : i \in DOMAIN toSrv \/ i = Len(toSrv) + 1
         /\ DownLoads(toSrv)' = DownLoads(toSrv) \cup
                                (IF r.m = "DownLoad" THEN {Len(toSrv) + 1} ELSE {})
<1>1. toSrv \in Seq(Requests)
  BY DEF Messages
<1>2. /\ toSrv' \in Seq(Requests) /\ Len(toSrv) \in Nat
      /\ DOMAIN toSrv = 1 .. Len(toSrv) /\ DOMAIN toSrv' = 1 .. Len(toSrv) + 1
      /\ toSrv'[Len(toSrv) + 1] = r
      /\ \A i \in DOMAIN toSrv : i \in DOMAIN toSrv' /\ toSrv'[i] = toSrv[i]
  BY <1>1, Appended
<1>3. \A i \in DOMAIN toSrv' : i \in DOMAIN toSrv \/ i = Len(toSrv) + 1
  BY <1>2
<1>4. Len(toSrv) + 1 \in DOMAIN toSrv'
  BY <1>2
<1>5. DownLoads(toSrv)' = DownLoads(toSrv) \cup
                          (IF r.m = "DownLoad" THEN {Len(toSrv) + 1} ELSE {})
  BY <1>2, <1>3, <1>4 DEF DownLoads
<1> QED
  BY <1>2, <1>3, <1>5

LEMMA AskedMessages ==
  ASSUME Messages, NEW r \in Requests, toSrv' = toSrv \/ toSrv' = Append(toSrv, r),
         nextId \in Nat, nextId' \in Nat, nextId <= nextId',
         r.id < nextId', r.m = "DownLoad" => r.id = 0,
         r.id # 0 => \A i \in DOMAIN toSrv : toSrv[i].id < r.id,
         UNCHANGED toCli,
         \A p \in Parsers : HasResult(p)' => HasResult(p) /\ pkg'[p] = pkg[p]
  PROVE  Messages'
<1>1. \A x \in Requests \cup Results : x.id \in Nat
  BY DEF Requests, Results
<1>2. \A x \in Requests \cup Results : Asked(x) => Asked(x)'
  BY <1>1 DEF Asked
<1>3. \A a \in Results : Answered(a) => Answered(a)'
  BY <1>2 DEF Answered
<1>4. /\ toCli' \in Seq(Results)
      /\ \A i \in DOMAIN toCli' : Answered(toCli[i])'
  <2>1. \A i \in DOMAIN toCli : toCli[i] \in Results
    BY DEF Messages
  <2> QED
    BY <1>3, <2>1 DEF Messages
<1>5. \A p \in Parsers : HasResult(p)' => pkg'[p] \in Results /\ Answered(pkg[p])'
  BY <1>3 DEF Messages
<1>6. \A i \in DOMAIN toSrv : toSrv[i] \in Requests /\ toSrv[i].id < nextId /\ Asked(toSrv[i])
  BY DEF Messages, Asked
<1>7. /\ toSrv' \in Seq(Requests)
      /\ \A i \in DOMAIN toSrv' : Asked(toSrv[i])'
      /\ \A i, j \in DOMAIN toSrv' : i < j /\ toSrv'[i].id # 0 /\ toSrv'[j].id # 0
                                => toSrv'[i].id < toSrv'[j].id
  <2>1. CASE toSrv' = toSrv
    BY <1>2, <1>6, <2>1 DEF Messages
  <2>2. CASE toSrv' = Append(toSrv, r)
    <3>1. Asked(r)'
      BY DEF Asked
    <3>2. \A i \in DOMAIN toSrv' : Asked(toSrv[i])'
      BY <1>2, <1>6, <2>2, <3>1, SentFacts
    <3>3. ASSUME NEW i \in DOMAIN toSrv', NEW j \in DOMAIN toSrv',
                 i < j, toSrv'[i].id # 0, toSrv'[j].id # 0
          PROVE  toSrv'[i].id < toSrv'[j].id
      <4>1. i \in DOMAIN toSrv
        BY <2>2, <3>3, SentFacts
      <4>2. CASE j \in DOMAIN toSrv
        BY <2>2, <3>3, <4>1, <4>2, SentFacts DEF Messages
      <4>3. CASE j = Len(toSrv) + 1
        <5>1. toSrv'[j] = r /\ toSrv'[i] = toSrv[i]
          BY <2>2, <4>1, <4>3, SentFacts
        <5> QED
          BY <3>3, <4>1, <5>1
      <4> QED
        BY <2>2, <4>2, <4>3, SentFacts
    <3> QED
      BY <2>2, <3>2, <3>3, SentFacts
  <2> QED
    BY <2>1, <2>2
<1> QED
  BY <1>4, <1>5, <1>7 DEF Messages, Requests, Results, Absent

LEMMA IdGiven ==
  ASSUME Messages, UNCHANGED <<toSrv, toCli>>, nextId \in Nat, nextId' = nextId + 1,
         \A p \in Parsers : HasResult(p)' => HasResult(p) /\ pkg'[p] = pkg[p]
  PROVE  Messages'
<1>1. \A x : x.id \in Nat /\ Asked(x) => Asked(x)'
  BY DEF Asked
<1>2. \A x \in Requests \cup Results : x.id \in Nat
  BY DEF Requests, Results
<1>3. \A x : x.id \in Nat /\ Answered(x) => Answered(x)'
  BY <1>1 DEF Answered
<1>4. /\ \A i \in DOMAIN toSrv : toSrv[i] \in Requests
      /\ \A i \in DOMAIN toCli : toCli[i] \in Results
  BY DEF Messages
<1>5. \A i \in DOMAIN toSrv' : Asked(toSrv[i])'
  BY <1>1, <1>2, <1>4 DEF Messages
<1>6. \A i \in DOMAIN toCli' : Answered(toCli[i])'
  BY <1>2, <1>3, <1>4 DEF Messages
<1>7. \A p \in Parsers : HasResult(p)' => pkg'[p] \in Results /\ Answered(pkg[p])'
  BY <1>2, <1>3 DEF Messages
<1> QED
  BY <1>5, <1>6, <1>7 DEF Messages, Requests, Results, Absent

\* A request for a block, by the one that had the turn or began it.
LEMMA AskBlock ==
  ASSUME IInv, NEW f, NEW pos \in Nat, toSrv' = Sent("DownLoad", f, 0, pos),
         UNCHANGED <<serverVars, link, toCli, clientcon, nextId, waitId, fWaitMethodId, late,
                     reasons, crashed, fUpdownFiles>>,
         link # "new", DownLoads(toSrv) = {}, DownLoads(toCli) = {}, Turn' = {}, fbusystate' = 1,
         pc' \in [Threads -> OffTurn], pc'[Ui] \in {"idle", "queue"},
         \A p \in Parsers : pc'[p] # "queue",
         \A p \in Parsers : HasResult(p)' => pc'[p] = pc[p] /\ HasResult(p) /\ pkg'[p] = pkg[p],
         pkg' \in [Parsers -> Results \cup {NoPkg}],
         pc'[Ui] # "idle" => file' \in Files,
         clientcon = "live" => /\ f \in Files /\ curRemoteFile' = f /\ curfilePosition' = pos
                               /\ curOpFile' # "closed" /\ (curOpFile' = "nil" => pos = 0),
         Sound /\ clientcon = "live" => Reads(f) /\ OnlyDownLoads
  PROVE  /\ TablesInv' /\ OneTurn' /\ Messages' /\ Threading' /\ Ends' /\ Ids' /\ Names'
         /\ Positions' /\ LockAsked' /\ LockGiven' /\ LockKept' /\ Served'
<1> DEFINE r == Message("DownLoad", f, 0, pos)
           n == Len(toSrv) + 1
<1> USE DEF IInv, ClientInv, Basic, Turns
<1>1. toSrv' = toSrv \/ (clientcon = "live" /\ link = "up" /\ toSrv' = Append(toSrv, r))
  BY DEF Sent
<1>2. clientcon = "live" => r \in Requests
  BY DEF Message, Requests, Methods
<1>3. r.m = "DownLoad" /\ r.f = f /\ r.id = 0 /\ r.pos = pos
  BY DEF Message
<1> HIDE DEF r
<1>4. ASSUME clientcon = "live", link = "up", toSrv' = Append(toSrv, r)
      PROVE  /\ DownLoads(toSrv)' = {n} /\ toSrv'[n] = r
             /\ \A i \in DOMAIN toSrv' : i = n \/ (i \in DOMAIN toSrv /\ toSrv'[i] = toSrv[i])
  BY <1>2, <1>3, <1>4, SentFacts
<1>5. ASSUME toSrv' = toSrv PROVE DownLoads(toSrv)' = {}
  BY <1>5 DEF DownLoads
<1>6. DownLoads(toCli)' = {} /\ UNCHANGED <<phase, fReadingFile>>
  BY DEF DownLoads, serverVars
<1>7. Downloading' = {} /\ \A p \in Parsers : pc'[p] \notin ChainStates
  BY DEF Downloading, Turn, InTurn, ChainStates, OffTurn
<1>8. TablesInv'
  BY NextTables
<1>9. OneTurn'
  BY <1>1, <1>4, <1>5, <1>6 DEF OneTurn, Lone, Locking
<1>10. Messages'
  <2>1. nextId \in Nat /\ 0 < nextId
    BY DEF Threading
  <2>2. CASE toSrv' = toSrv
    BY <2>2, MessagesStay DEF Quiet, net
  <2>3. CASE clientcon = "live" /\ toSrv' = Append(toSrv, r)
    BY <1>2, <1>3, <2>1, <2>3, AskedMessages
  <2> QED
    BY <1>1, <2>2, <2>3
<1>11. Threading'
  <2>1. \A p \in Parsers : pc'[p] \in {"expected", "stored", "deliver"} => pkg'[p].m # "DownLoad"
    BY DEF Threading, HasResult
  <2> QED
    BY <2>1 DEF Threading, ChainStates, OffTurn, Locking, Results, Absent
<1>12. Ends'
  BY <1>6 DEF Ends
<1>13. Names'
  BY <1>1, <1>4, <1>5, <1>6 DEF Names
<1>14. Positions'
  BY <1>1, <1>3, <1>4, <1>5, <1>6, <1>7 DEF Positions, ChainStates
<1>15. LockAsked' /\ LockGiven'
  BY DEF LockAsked, LockGiven, OffTurn
<1>16. LockKept'
  <2>1. (Sound <=> Sound') /\ (Reads(f) <=> Reads(f)')
    BY <1>6 DEF Sound, Reads
  <2>2. CASE clientcon = "live" /\ link = "up" /\ toSrv' = Append(toSrv, r)
    <3>1. Sound => OnlyDownLoads'
      BY <1>3, <1>4, <2>2 DEF OnlyDownLoads
    <3> QED
      BY <1>3, <1>4, <1>6, <1>7, <2>1, <2>2, <3>1 DEF LockKept, Reads
  <2>3. CASE toSrv' = toSrv
    BY <1>5, <1>6, <1>7, <2>3 DEF LockKept
  <2> QED
    BY <1>1, <2>2, <2>3
<1>17. Served'
  <2>1. ASSUME link' = "up" PROVE DownLoads(toSrv)' # {}
    <3>1. clientcon = "live" /\ link = "up"
      BY <2>1 DEF Ends
    <3>2. toSrv' = Append(toSrv, r)
      BY <3>1 DEF Sent, r
    <3> QED
      BY <1>4, <3>1, <3>2
  <2> QED
    BY <2>1 DEF Served
<1>18. Ids'
  <2>1. \A t \in Threads : pc'[t] \notin Asking /\ ~AtSend(t)'
    BY DEF Asking, AtSend, OffTurn
  <2>2. ASSUME ~late PROVE Named'
    BY <1>1, <1>3, <1>4, <2>2 DEF Ids, Named
  <2> QED
    BY <2>1, <2>2 DEF Ids
<1> QED
  BY <1>8, <1>9, <1>10, <1>11, <1>12, <1>13, <1>14, <1>15, <1>16, <1>17, <1>18

LEMMA StartDownLoadIInv ==
  ASSUME IInv, StartDownLoad
  PROVE  IInv'
<1> USE DEF IInv, ClientInv, Basic, Turns
<1>1. /\ toSrv' = Sent("DownLoad", file, 0, 0)
      /\ UNCHANGED <<serverVars, link, toCli, clientcon, nextId, waitId, fWaitMethodId, late, mixed,
                     reasons, crashed, fUpdownFiles>>
      /\ UNCHANGED <<pkg, curResultPkg, curfilePosition, curOpFile, mutex>>
      /\ pc[Ui] = "locked" /\ curResultPkg = "ok"
      /\ fbusystate' = 1 /\ curRemoteFile' = file /\ file' = NoFile
      /\ Ui \in Threads
      /\ pc' = [pc EXCEPT ![Ui] = "idle"]
      /\ \A t \in Threads : pc'[t] = IF t = Ui THEN "idle" ELSE pc[t]
  BY DEF StartDownLoad, ExecuteMethod, Step, Goto, rest, waits, history, Threading, Threads
<1>2. /\ fbusystate = 0 /\ DownLoads(toSrv) = {} /\ DownLoads(toCli) = {}
      /\ \A q \in Parsers : ~InTurn(q)
  BY <1>1, UiLocks DEF Locking
<1>3. Turn' = {}
  BY <1>1, <1>2, ParsersAreThreads DEF Turn, InTurn
<1>4. \A t \in Threads : pc'[t] \in OffTurn
  BY <1>1, <1>2 DEF InTurn, Threading, Threads, OffTurn, ChainStates, Locking
<1>5. pc' \in [Threads -> OffTurn]
  BY <1>1, <1>4 DEF Threading
<1>6. link # "new"
  BY <1>1 DEF Ends
<1>7. \A p \in Parsers : pc'[p] # "queue"
  BY <1>1, ParsersAreThreads DEF Threading
<1>8. \A p \in Parsers : HasResult(p)' => pc'[p] = pc[p] /\ HasResult(p) /\ pkg'[p] = pkg[p]
  BY <1>1, ParsersAreThreads DEF HasResult
<1>9. pkg' \in [Parsers -> Results \cup {NoPkg}]
  BY <1>1 DEF Threading
<1>10. file \in Files
  BY <1>1 DEF Names
<1>11. clientcon = "live" => curOpFile = "nil" /\ curfilePosition = 0
  BY <1>2 DEF Positions, InTurn, ChainStates
<1>12. Sound /\ clientcon = "live" => Reads(file) /\ OnlyDownLoads
  BY <1>1 DEF LockGiven, Target, OnlyDownLoads
<1>13. Scalars'
  BY <1>1, <1>10 DEF Scalars
<1> QED
  BY <1>1, <1>2, <1>3, <1>5, <1>6, <1>7, <1>8, <1>9, <1>10, <1>11, <1>12, <1>13, AskBlock

LEMMA NextDownLoadIInv ==
  ASSUME IInv, NEW p \in Parsers, NextDownLoad(p)
  PROVE  IInv'
<1> USE DEF IInv, ClientInv, Basic, Turns
<1>1. /\ toSrv' = Sent("DownLoad", curRemoteFile, 0, 0)
      /\ UNCHANGED <<serverVars, link, toCli, clientcon, nextId, waitId, fWaitMethodId, late, mixed,
                     reasons, crashed, fUpdownFiles>>
      /\ UNCHANGED <<pkg, curResultPkg, curRemoteFile, curfilePosition, curOpFile, file,
                     fbusystate>>
      /\ pc[p] = "locked" /\ curResultPkg = "ok" /\ mutex' = "free"
      /\ \E l \in {"idle", "recheck"} :
           /\ pc' = [pc EXCEPT ![p] = l]
           /\ \A t \in Threads : pc'[t] = IF t = p THEN l ELSE pc[t]
  BY ParsersAreThreads
     DEF NextDownLoad, Fetch, AfterNext, ExecuteMethod, Step, Goto, rest, waits, history, queue, current,
     Threading
<1>2. /\ InTurn(p) /\ fbusystate = 1 /\ pc[Ui] \notin Locking
      /\ DownLoads(toSrv) = {} /\ DownLoads(toCli) = {}
      /\ \A q \in Parsers : InTurn(q) => q = p
  <2>1. InTurn(p)
    BY <1>1 DEF InTurn, ChainStates
  <2> QED
    BY <2>1, HasTurn DEF Scalars
<1>3. Turn' = {}
  BY <1>1, <1>2, ParsersAreThreads DEF Turn, InTurn, ChainStates
<1>4. \A t \in Threads : pc'[t] \in OffTurn
  BY <1>1, <1>2 DEF InTurn, Threading, Threads, OffTurn, ChainStates, Locking
<1>5. pc' \in [Threads -> OffTurn] /\ pc'[Ui] \in {"idle", "queue"}
  BY <1>1, <1>2, <1>4, ParsersAssumption DEF Threading, Threads, Locking
<1>6. link # "new"
  BY <1>1, ParsersAreThreads DEF Ends
<1>7. \A q \in Parsers : pc'[q] # "queue"
  BY <1>1, ParsersAreThreads DEF Threading
<1>8. \A q \in Parsers : HasResult(q)' => pc'[q] = pc[q] /\ HasResult(q) /\ pkg'[q] = pkg[q]
  BY <1>1, ParsersAreThreads DEF HasResult
<1>9. pkg' \in [Parsers -> Results \cup {NoPkg}] /\ (pc'[Ui] # "idle" => file' \in Files)
  BY <1>1, ParsersAssumption DEF Threading, Names, Threads
<1>10. clientcon = "live" => curRemoteFile \in Files
  BY <1>1, <1>2 DEF Names, Turn
<1>11. clientcon = "live" => curOpFile = "nil" /\ curfilePosition = 0
  BY <1>1, <1>2 DEF Positions, InTurn, ChainStates
<1>12. Sound /\ clientcon = "live" => Reads(curRemoteFile) /\ OnlyDownLoads
  BY <1>1, ParsersAreThreads DEF LockGiven, Target, OnlyDownLoads
<1>13. Scalars'
  BY <1>1 DEF Scalars
<1> QED
  BY <1>1, <1>2, <1>3, <1>5, <1>6, <1>7, <1>8, <1>9, <1>10, <1>11, <1>12, <1>13, AskBlock

LEMMA WriteBlockIInv ==
  ASSUME IInv, NEW p \in Parsers, WriteBlock(p)
  PROVE  IInv'
<1> USE DEF IInv, ClientInv, Basic, Turns
<1>1. /\ toSrv' = Sent("DownLoad", curRemoteFile, 0, Written)
      /\ UNCHANGED <<serverVars, link, toCli, clientcon, nextId, waitId, fWaitMethodId, late, mixed,
                     reasons, crashed, fUpdownFiles>>
      /\ UNCHANGED <<curResultPkg, curRemoteFile, file, fbusystate, mutex>>
      /\ pc[p] = "got" /\ pkg[p].m = "DownLoad" /\ pkg[p].err = "ok"
      /\ curOpFile' = IF curOpFile = "nil" THEN "open" ELSE curOpFile
      /\ curfilePosition' = Written
      /\ pc' = [pc EXCEPT ![p] = "idle"]
      /\ \A t \in Threads : pc'[t] = IF t = p THEN "idle" ELSE pc[t]
      /\ pkg' = [pkg EXCEPT ![p] = NoPkg]
      /\ \A q \in Parsers : pkg'[q] = IF q = p THEN NoPkg ELSE pkg[q]
  BY ParsersAreThreads
     DEF WriteBlock, NextBlock, ExecuteMethod, Step, Goto, rest, waits, history, queue, current, Threading
<1>2. /\ InTurn(p) /\ fbusystate = 1 /\ pc[Ui] \notin Locking
      /\ DownLoads(toSrv) = {} /\ DownLoads(toCli) = {}
      /\ \A q \in Parsers : InTurn(q) => q = p
  <2>1. InTurn(p)
    BY <1>1 DEF InTurn
  <2> QED
    BY <2>1, HasTurn DEF Scalars
<1>3. Turn' = {}
  BY <1>1, <1>2, ParsersAreThreads DEF Turn, InTurn, ChainStates
<1>4. \A t \in Threads : pc'[t] \in OffTurn
  BY <1>1, <1>2 DEF InTurn, Threading, Threads, OffTurn, ChainStates, Locking
<1>5. pc' \in [Threads -> OffTurn] /\ pc'[Ui] \in {"idle", "queue"}
  BY <1>1, <1>2, <1>4, ParsersAssumption DEF Threading, Threads, Locking
<1>6. link # "new"
  BY <1>1, ParsersAreThreads DEF Ends
<1>7. \A q \in Parsers : pc'[q] # "queue"
  BY <1>1, ParsersAreThreads DEF Threading
<1>8. \A q \in Parsers : HasResult(q)' => pc'[q] = pc[q] /\ HasResult(q) /\ pkg'[q] = pkg[q]
  BY <1>1, ParsersAreThreads DEF HasResult
<1>9. pkg' \in [Parsers -> Results \cup {NoPkg}] /\ (pc'[Ui] # "idle" => file' \in Files)
  BY <1>1, ParsersAssumption DEF Threading, Names, Threads
<1>10. clientcon = "live" => curRemoteFile \in Files
  BY <1>1, <1>2 DEF Names, Turn
<1>11. p \in Downloading
  BY <1>1 DEF Downloading
<1>12. Written \in Nat
  BY DEF Written, Scalars
<1>13. clientcon = "live" => curOpFile' # "closed" /\ curOpFile' # "nil"
  BY <1>1 DEF Positions
<1>14. Sound /\ clientcon = "live" => Reads(curRemoteFile) /\ OnlyDownLoads
  BY <1>11 DEF LockKept
<1>15. Scalars'
  BY <1>1, <1>12 DEF Scalars
<1> QED
  BY <1>1, <1>2, <1>3, <1>5, <1>6, <1>7, <1>8, <1>9, <1>10, <1>12, <1>13, <1>14, <1>15, AskBlock

\* A thread that gets an id to wait for: the one that has the turn, or the user
\* interface when nobody has it.
LEMMA BeginWait ==
  ASSUME IInv, NEW t \in Threads, ExecuteWait(t),
         UNCHANGED <<serverVars, clientcon, late, reasons, crashed>>,
         link # "new", DownLoads(toSrv) = {}, DownLoads(toCli) = {},
         t = Ui => fbusystate' = 0 /\ pc'[t] = "lockSend", t # Ui => fbusystate' = 1,
         pc' \in [Threads -> OffTurn \cup {"lockSend", "unlockSend"}], AtSend(t)',
         \A x \in Threads \ {t} : pc'[x] \in OffTurn,
         pc'[Ui] \in {"idle", "queue", "lockSend"},
         \A p \in Parsers : pc'[p] # "queue",
         Downloading' = {},
         \A p \in Parsers : HasResult(p)' => pc'[p] = pc[p] /\ HasResult(p) /\ pkg'[p] = pkg[p],
         pkg' \in [Parsers -> Results \cup {NoPkg}],
         pc'[Ui] # "idle" => file' \in Files,
         clientcon = "live" => /\ Target(t)' \in Files /\ curOpFile' = "nil"
                               /\ (pc'[t] = "lockSend" => curfilePosition' = 0),
         fUpdownFiles' # {} => fbusystate' = 1 \/ reasons' # {}
  PROVE  /\ TablesInv' /\ OneTurn' /\ Messages' /\ Threading' /\ Ends' /\ Ids' /\ Names'
         /\ Positions' /\ LockAsked' /\ LockGiven' /\ LockKept' /\ Served'
<1> USE DEF IInv, ClientInv, Basic, Turns
<1>1. /\ nextId' = nextId + 1 /\ fWaitMethodId' = nextId
      /\ waitId' = [waitId EXCEPT ![t] = nextId] /\ UNCHANGED <<link, toSrv, toCli>>
  BY DEF ExecuteWait, net
<1>2. nextId \in Nat \ {0} /\ nextId' \in Nat /\ nextId' - 1 = nextId
  BY <1>1 DEF Threading
<1>3. DownLoads(toSrv)' = {} /\ DownLoads(toCli)' = {} /\ UNCHANGED <<phase, fReadingFile>>
  BY <1>1 DEF DownLoads, serverVars
<1>4. \A p \in Parsers : InTurn(p)' => p = t
  BY ParsersAreThreads DEF InTurn, ChainStates, OffTurn, Downloading
<1>5. t # Ui => t \in Parsers /\ InTurn(t)'
  BY DEF InTurn, ChainStates, Threads, AtSend
<1>6. TablesInv'
  BY NextTables
<1>7. OneTurn'
  <2>1. Lone(Turn)' /\ (fbusystate' = 0 => Turn' = {})
    BY <1>4, ParsersAreThreads DEF Lone, Turn
  <2>2. pc'[Ui] \in Locking => fbusystate' = 0
    BY DEF Threads, Locking, OffTurn
  <2> QED
    BY <1>3, <2>1, <2>2 DEF OneTurn, Lone
<1>8. Messages'
  BY <1>1, <1>2, IdGiven
<1>9. Threading'
  <2>1. waitId' \in [Threads -> 0 .. nextId']
    <3>1. nextId \in 0 .. nextId' /\ 0 .. nextId \subseteq 0 .. nextId'
      BY <1>1, <1>2
    <3> QED
      BY <1>1, <3>1 DEF Threading
  <2>2. pc' \in [Threads -> OffTurn \cup ChainStates] /\ pc'[Ui] \in {"idle", "queue"} \cup Locking
    BY DEF ChainStates, Locking
  <2>3. \A p \in Parsers : pc'[p] \in {"expected", "stored", "deliver"} => pkg'[p].m # "DownLoad"
    BY DEF Threading, HasResult
  <2> QED
    BY <1>1, <1>2, <2>1, <2>2, <2>3 DEF Threading, Results, Absent
<1>10. Ends'
  BY <1>1, <1>3 DEF Ends
<1>11. Ids'
  <2>1. waitId'[t] = nextId' - 1 /\ nextId' # 1
    BY <1>1, <1>2 DEF Threading
  <2>2. \A x \in Threads : pc'[x] \in Asking \/ AtSend(x)' => x = t
    BY DEF Asking, AtSend, OffTurn
  <2>3. NotSent'
    <3>1. \A i \in DOMAIN toSrv : toSrv[i] \in Requests /\ toSrv[i].id < nextId
      BY DEF Messages, Asked
    <3>2. \A i \in DOMAIN toCli : toCli[i] \in Results /\ toCli[i].id < nextId
      BY DEF Messages, Answered, Asked
    <3>3. \A q \in Parsers : HasResult(q) => pkg[q] \in Results /\ pkg[q].id < nextId
      BY DEF Messages, Answered, Asked
    <3>4. \A x \in Requests \cup Results : x.id \in Nat /\ (x.id < nextId => x.id # nextId)
      BY <1>2 DEF Requests, Results
    <3> QED
      BY <1>1, <1>2, <3>1, <3>2, <3>3, <3>4 DEF NotSent
  <2>4. ~late => Named'
    BY <1>1 DEF Ids, Named
  <2> QED
    BY <1>1, <1>2, <2>1, <2>2, <2>3, <2>4 DEF Ids
<1>12. Names'
  <2>1. \A p \in Turn' : p = t /\ t # Ui
    BY <1>4, ParsersAreThreads DEF Turn
  <2> QED
    BY <1>3, <2>1 DEF Names, Target
<1>13. Positions'
  <2>1. pc'[t] = "unlockSend" => t \in Parsers
    BY DEF Threads
  <2>2. clientcon = "live" => curfilePosition' = 0 \/ pc'[t] = "unlockSend"
    BY DEF AtSend
  <2> QED
    BY <1>3, <2>1, <2>2 DEF Positions
<1>14. LockAsked' /\ LockGiven'
  BY DEF LockAsked, LockGiven, AtSend, OffTurn
<1>15. LockKept'
  BY <1>3 DEF LockKept
<1>16. Served'
  BY <1>5 DEF Served, Turn
<1> QED
  BY <1>6, <1>7, <1>8, <1>9, <1>10, <1>11, <1>12, <1>13, <1>14, <1>15, <1>16

\* A thread that sends its request is the only one with an id to wait for; no
\* message has that id yet.
LEMMA SendRequestIInv ==
  ASSUME IInv, NEW t \in Threads, NEW m, NEW from, NEW to, SendRequest(t, m, from, to),
         \/ m = "LockFile" /\ from = "lockSend" /\ to = "lockWait"
         \/ m = "UnLockFile" /\ from = "unlockSend" /\ to = "unlockWait"
  PROVE  IInv'
<1> USE DEF IInv, ClientInv, Basic, Turns
<1> DEFINE r == Message(m, Target(t), fWaitMethodId, 0)
           n == Len(toSrv) + 1
<1>1. /\ toSrv' = toSrv \/ (clientcon = "live" /\ link = "up" /\ toSrv' = Append(toSrv, r))
      /\ UNCHANGED <<serverVars, link, toCli, clientcon, nextId, late, mixed, reasons, crashed,
                     file, pkg, waitId, fWaitMethodId, curResultPkg, fbusystate, fUpdownFiles,
                     curRemoteFile, curfilePosition, curOpFile, mutex>>
      /\ pc[t] = from /\ AtSend(t)
      /\ pc' = [pc EXCEPT ![t] = to]
      /\ \A x \in Threads : pc'[x] = IF x = t THEN to ELSE pc[x]
  BY DEF SendRequest, Sent, Step, Goto, rest, waits, queue, current, history, Threading, AtSend
<1>2. /\ DownLoads(toSrv) = {} /\ DownLoads(toCli) = {}
      /\ \A x \in Threads \ {t} : pc[x] \in OffTurn
      /\ \A q \in Parsers : InTurn(q) => q = t
  <2>1. CASE t = Ui
    <3>1. pc[Ui] \in Locking
      BY <1>1, <2>1 DEF Threading, AtSend, Locking
    <3> QED
      BY <2>1, <3>1, UiLocks DEF InTurn, Threading, Threads, ChainStates, OffTurn
  <2>2. CASE t # Ui
    <3>1. t \in Parsers /\ InTurn(t)
      BY <1>1, <2>2 DEF Threads, InTurn, ChainStates, AtSend
    <3> QED
      BY <2>2, <3>1, HasTurn DEF InTurn, Threading, Threads, ChainStates, OffTurn, Locking
  <2> QED
    BY <2>1, <2>2
<1>3. nextId \in Nat /\ nextId # 1 /\ nextId # 0 /\ NotSent /\ fWaitMethodId \in {0, nextId - 1}
  BY <1>1 DEF Threading, Ids, AtSend, Asking
<1>4. clientcon = "live" => Target(t) \in Files
  <2>1. CASE t = Ui
    BY <1>1, <2>1 DEF Target, Names, AtSend
  <2>2. CASE t # Ui
    <3>1. t \in Turn
      BY <1>1, <2>2 DEF Threads, Turn, InTurn, ChainStates, AtSend
    <3> QED
      BY <1>1, <2>2, <3>1 DEF Target, Names, AtSend
  <2> QED
    BY <2>1, <2>2
<1>5. clientcon = "live" => r \in Requests
  BY <1>3, <1>4 DEF Message, Requests, Methods
<1>6. r.m = m /\ r.f = Target(t) /\ r.id = fWaitMethodId
  BY DEF Message
<1> HIDE DEF r
<1>7. ASSUME clientcon = "live", toSrv' = Append(toSrv, r)
      PROVE  /\ DownLoads(toSrv)' = {} /\ toSrv'[n] = r
             /\ \A i \in DOMAIN toSrv' : i = n \/ (i \in DOMAIN toSrv /\ toSrv'[i] = toSrv[i])
  <2>1. DownLoads(toSrv)' = DownLoads(toSrv) \cup {}
    BY <1>5, <1>6, <1>7, SentFacts
  <2> QED
    BY <1>2, <1>5, <1>7, <2>1, SentFacts
<1>8. /\ DownLoads(toSrv)' = {} /\ DownLoads(toCli)' = {} /\ UNCHANGED <<phase, fReadingFile>>
      /\ Downloading' = {} /\ Turn' = Turn
  <2>1. DownLoads(toSrv)' = {} /\ DownLoads(toCli)' = {}
    BY <1>1, <1>2, <1>7 DEF DownLoads
  <2>2. \A q \in Parsers : InTurn(q)' <=> InTurn(q)
    BY <1>1, ParsersAreThreads DEF InTurn, ChainStates
  <2>3. Downloading' = {}
    <3>1. \A q \in Parsers : q # t /\ pc[q] = "got" => pkg[q].m # "DownLoad"
      BY <1>2 DEF InTurn
    <3> QED
      BY <1>1, <3>1, ParsersAreThreads DEF Downloading
  <2> QED
    BY <1>1, <2>1, <2>2, <2>3 DEF Turn, serverVars
<1>9. \A p \in Parsers : HasResult(p)' => HasResult(p) /\ pkg'[p] = pkg[p]
  BY <1>1, ParsersAreThreads DEF HasResult
<1>10. TablesInv'
  BY <1>1, NextTables
<1>11. OneTurn'
  <2>1. pc'[Ui] \in Locking => pc[Ui] \in Locking
    BY <1>1, ParsersAssumption DEF Threads, Locking
  <2> QED
    BY <1>1, <1>8, <2>1 DEF OneTurn, Lone
<1>12. Messages'
  <2>1. CASE toSrv' = toSrv
    BY <1>1, <1>9, <2>1, MessagesStay DEF Quiet, net
  <2>2. CASE clientcon = "live" /\ toSrv' = Append(toSrv, r)
    <3>1. r.id < nextId /\ r.m # "DownLoad"
      BY <1>3, <1>6
    <3>2. ASSUME r.id # 0, NEW i \in DOMAIN toSrv PROVE toSrv[i].id < r.id
      <4>1. toSrv[i] \in Requests /\ toSrv[i].id < nextId /\ toSrv[i].id # nextId - 1
        BY <1>3 DEF Messages, Asked, NotSent
      <4>2. toSrv[i].id \in Nat
        BY <4>1 DEF Requests
      <4> QED
        BY <1>3, <1>6, <3>2, <4>1, <4>2
    <3> QED
      BY <1>1, <1>3, <1>5, <1>9, <2>2, <3>1, <3>2, AskedMessages
  <2> QED
    BY <1>1, <2>1, <2>2
<1>13. Threading'
  <2>1. to \in ChainStates /\ (t = Ui => to \in Locking) /\ to # "queue"
    BY <1>1 DEF ChainStates, Locking, Threading
  <2>2. pc' \in [Threads -> OffTurn \cup ChainStates]
    BY <1>1, <2>1 DEF Threading
  <2>3. pc'[Ui] \in {"idle", "queue"} \cup Locking /\ \A p \in Parsers : pc'[p] # "queue"
    BY <1>1, <2>1, ParsersAreThreads, ParsersAssumption DEF Threading, Threads
  <2> QED
    BY <1>1, <2>2, <2>3 DEF Threading, Results, Absent
<1>14. Scalars'
  BY <1>1 DEF Scalars
<1>15. Ends'
  BY <1>1, <1>8 DEF Ends, AtSend
<1>16. Ids'
  <2>1. \A x \in Threads : pc'[x] \in Asking => pc[x] \in Asking
    BY <1>1 DEF Asking
  <2>2. \A x \in Threads : ~AtSend(x)'
    BY <1>1, <1>2 DEF AtSend, OffTurn
  <2>3. ASSUME ~late PROVE Named'
    <3>1. clientcon = "live" => r.id # 0
      BY <1>1, <1>3, <1>6, <2>3 DEF Ids
    <3> QED
      BY <1>1, <1>7, <1>9, <2>3, <3>1 DEF Ids, Named
  <2> QED
    BY <1>1, <2>1, <2>2, <2>3 DEF Ids
<1>17. Names'
  <2>1. \A q \in Parsers : pc'[q] \in {"next", "ranging"} <=> pc[q] \in {"next", "ranging"}
    BY <1>1, ParsersAreThreads
  <2>2. pc'[Ui] # "idle" => pc[Ui] # "idle"
    BY <1>1 DEF Threads
  <2> QED
    BY <1>1, <1>8, <2>1, <2>2 DEF Names, Turn
<1>18. Positions'
  <2>1. \A q \in Parsers : /\ pc[q] \in {"unlockSend", "unlockWait", "unlocked"} =>
                              pc'[q] \in {"unlockSend", "unlockWait", "unlocked"}
                           /\ pc'[q] \in ChainStates => pc[q] \in ChainStates
    BY <1>1, ParsersAreThreads DEF ChainStates
  <2> QED
    BY <1>1, <1>8, <2>1 DEF Positions
<1>19. LockAsked'
  <2> SUFFICES ASSUME Sound', clientcon' = "live", NEW x \in Threads, pc'[x] = "lockWait"
               PROVE  /\ \A i \in DOMAIN toSrv' :
                           toSrv'[i].id = nextId' - 1 =>
                             toSrv'[i].m = "LockFile" /\ toSrv'[i].f = Target(x)'
                      /\ \A i \in DOMAIN toCli' : AnswerCounts(x, toCli[i])'
                      /\ \A q \in Parsers : HasResult(q)' => AnswerCounts(x, pkg[q])'
                      /\ \A q \in Parsers : Stored(q)' =>
                           (curResultPkg' = "ok" => Reads(Target(x))')
    BY DEF LockAsked
  <2>1. x = t /\ m = "LockFile" /\ Target(x)' = Target(t)
    BY <1>1, <1>2 DEF OffTurn, Target
  <2>2. \A i \in DOMAIN toSrv' :
          toSrv'[i].id = nextId' - 1 => toSrv'[i].m = "LockFile" /\ toSrv'[i].f = Target(x)'
    BY <1>1, <1>3, <1>6, <1>7, <2>1 DEF NotSent
  <2>3. \A i \in DOMAIN toCli' : AnswerCounts(x, toCli[i])'
    BY <1>1, <1>3 DEF AnswerCounts, NotSent
  <2>4. \A q \in Parsers : HasResult(q)' => AnswerCounts(x, pkg[q])' /\ ~Stored(q)'
    BY <1>1, <1>3, <1>9 DEF AnswerCounts, NotSent, Stored
  <2> QED
    BY <2>2, <2>3, <2>4 DEF HasResult, Stored
<1>20. LockGiven'
  BY <1>1, <1>2 DEF LockGiven, OffTurn
<1>21. LockKept'
  BY <1>8 DEF LockKept
<1>22. Served'
  BY <1>1, <1>2, <1>8 DEF Served
<1> QED
  BY <1>10, <1>11, <1>12, <1>13, <1>14, <1>15, <1>16, <1>17, <1>18, <1>19, <1>20, <1>21, <1>22

LEMMA QueueDownLoadIInv ==
  ASSUME IInv, NEW f \in Files, fbusystate = 1, DownLoadFile(f)
  PROVE  IInv'
<1> USE DEF IInv, ClientInv, Basic, Turns
<1>1. /\ Quiet
      /\ pc[Ui] = "idle" /\ Ui \in Threads /\ link # "new"
      /\ UNCHANGED <<late, mixed, reasons, crashed, pkg, waitId, fWaitMethodId, curResultPkg, fbusystate,
                     fUpdownFiles, curRemoteFile, curfilePosition, curOpFile, mutex>>
      /\ file' = f
      /\ pc' = [pc EXCEPT ![Ui] = "queue"]
      /\ \A t \in Threads : pc'[t] = IF t = Ui THEN "queue" ELSE pc[t]
  BY ParsersAreThreads DEF DownLoadFile, Threads, Step, Goto, Quiet, net, rest, waits, queue,
     current, history, Threading
<1>2. OneTurn'
  BY <1>1, ParsersAreThreads DEF OneTurn, Lone, Turn, InTurn, DownLoads, ChainStates, Locking, Quiet,
     net
<1>3. Messages'
  BY <1>1, ParsersAreThreads, MessagesStay DEF HasResult
<1>4. Threading'
  BY <1>1, ParsersAreThreads DEF Threading, Quiet, ChainStates, OffTurn, Locking
<1>5. Scalars'
  BY <1>1, ParsersAreThreads DEF Scalars, Quiet, net
<1>6. Ends'
  BY <1>1, ParsersAreThreads DEF Ends, Quiet, net, serverVars
<1>7. Names'
  BY <1>1, ParsersAreThreads DEF Names, Quiet, net, Turn, InTurn, DownLoads, ChainStates
<1>8. Positions'
  BY <1>1, ParsersAreThreads DEF Positions, Quiet, net, DownLoads, Downloading, ChainStates
<1>9. LockAsked'
  BY <1>1, ParsersAreThreads, LockAskedStays DEF HasResult, Target, Stored
<1>10. LockGiven'
  BY <1>1, ParsersAreThreads, LockGivenStays DEF Target
<1>11. LockKept'
  BY <1>1, ParsersAreThreads, LockKeptStays DEF Downloading
<1>12. Served'
  BY <1>1, ParsersAreThreads DEF Served, Quiet, net, Turn, InTurn, ChainStates, DownLoads
<1>13. TablesInv'
  BY <1>1, NextTables DEF Quiet
<1>14. Ids'
  BY <1>1, ParsersAreThreads, IdsStay DEF HasResult, Asking, AtSend
<1> QED
  BY <1>2, <1>3, <1>4, <1>5, <1>6, <1>7, <1>8, <1>9, <1>10, <1>11, <1>12, <1>13, <1>14

LEMMA LockDownLoadIInv ==
  ASSUME IInv, NEW f \in Files, fbusystate = 0, DownLoadFile(f)
  PROVE  IInv'
<1> USE DEF IInv, ClientInv, Basic, Turns
<1>1. /\ ExecuteWait(Ui)
      /\ UNCHANGED <<serverVars, clientcon, late, mixed, reasons, crashed, pkg, curResultPkg, fbusystate,
                     fUpdownFiles, curRemoteFile, curfilePosition, curOpFile, mutex>>
      /\ pc[Ui] = "idle" /\ link # "new" /\ file' = f
      /\ Ui \in Threads
      /\ pc' = [pc EXCEPT ![Ui] = "lockSend"]
      /\ \A t \in Threads : pc'[t] = IF t = Ui THEN "lockSend" ELSE pc[t]
  BY DEF DownLoadFile, Step, Goto, queue, current, Threading, Threads
<1>2. /\ DownLoads(toSrv) = {} /\ DownLoads(toCli) = {}
      /\ \A q \in Parsers : ~InTurn(q)
  BY DEF OneTurn, Turn
<1>3. \A t \in Threads \ {Ui} : pc'[t] \in OffTurn
  BY <1>1, <1>2 DEF InTurn, Threading, Threads, OffTurn, ChainStates, Locking
<1>4. pc' \in [Threads -> OffTurn \cup {"lockSend", "unlockSend"}]
  BY <1>1, <1>3 DEF Threading
<1>5. \A p \in Parsers : pc'[p] = pc[p]
  BY <1>1, ParsersAreThreads
<1>6. Downloading' = {}
  BY <1>1, <1>2, <1>5 DEF Downloading, InTurn
<1>7. \A p \in Parsers : /\ pc'[p] # "queue"
                         /\ HasResult(p)' => pc'[p] = pc[p] /\ HasResult(p) /\ pkg'[p] = pkg[p]
  BY <1>1, <1>5 DEF Threading, HasResult
<1>8. pkg' \in [Parsers -> Results \cup {NoPkg}] /\ (fUpdownFiles' # {} => reasons' # {})
  BY <1>1 DEF Threading, Served
<1>9. clientcon = "live" => curOpFile = "nil" /\ curfilePosition = 0
  BY <1>2 DEF Positions, InTurn, ChainStates
<1>10. clientcon = "live" => /\ Target(Ui)' \in Files /\ curOpFile' = "nil"
                             /\ curfilePosition' = 0
  BY <1>1, <1>9 DEF Target
<1>11. pc'[Ui] = "lockSend" /\ AtSend(Ui)' /\ fbusystate' = 0
  BY <1>1 DEF AtSend
<1>12. Scalars'
  BY <1>1 DEF Scalars, ExecuteWait, net
<1>13. /\ TablesInv' /\ OneTurn' /\ Messages' /\ Threading' /\ Ends' /\ Ids' /\ Names'
       /\ Positions' /\ LockAsked' /\ LockGiven' /\ LockKept' /\ Served'
  BY <1>1, <1>2, <1>3, <1>4, <1>6, <1>7, <1>8, <1>10, <1>11, BeginWait
<1> QED
  BY <1>12, <1>13

LEMMA TakeFileIInv ==
  ASSUME IInv, NEW p \in Parsers, NEW f \in Files, TakeFile(p, f)
  PROVE  IInv'
<1> USE DEF IInv, ClientInv, Basic, Turns
<1>1. /\ ExecuteWait(p)
      /\ UNCHANGED <<serverVars, clientcon, late, mixed, reasons, crashed, pkg, curResultPkg, fbusystate,
                     file, curfilePosition, curOpFile, mutex>>
      /\ pc[p] = "ranging" /\ curRemoteFile' = f
      /\ fUpdownFiles' = fUpdownFiles \ {f}
      /\ pc' = [pc EXCEPT ![p] = "lockSend"]
      /\ \A t \in Threads : pc'[t] = IF t = p THEN "lockSend" ELSE pc[t]
  BY ParsersAreThreads DEF TakeFile, Step, Goto, rest, history, Threading
<1>2. /\ InTurn(p) /\ fbusystate = 1 /\ pc[Ui] \notin Locking
      /\ DownLoads(toSrv) = {} /\ DownLoads(toCli) = {}
      /\ \A q \in Parsers : InTurn(q) => q = p
  <2>1. InTurn(p)
    BY <1>1 DEF InTurn, ChainStates
  <2> QED
    BY <2>1, HasTurn DEF Scalars
<1>3. \A t \in Threads \ {p} : pc'[t] \in OffTurn
  BY <1>1, <1>2 DEF InTurn, Threading, Threads, OffTurn, ChainStates, Locking
<1>4. /\ pc' \in [Threads -> OffTurn \cup {"lockSend", "unlockSend"}]
      /\ pc'[Ui] \in {"idle", "queue", "lockSend"}
  BY <1>1, <1>2, <1>3, ParsersAssumption DEF Threading, Threads, Locking
<1>5. Downloading' = {}
  BY <1>1, <1>2, ParsersAreThreads DEF Downloading, InTurn
<1>6. \A q \in Parsers : /\ pc'[q] # "queue"
                         /\ HasResult(q)' => pc'[q] = pc[q] /\ HasResult(q) /\ pkg'[q] = pkg[q]
  BY <1>1, ParsersAreThreads DEF Threading, HasResult
<1>7. pkg' \in [Parsers -> Results \cup {NoPkg}] /\ (pc'[Ui] # "idle" => file' \in Files)
  BY <1>1, ParsersAssumption DEF Threading, Names, Threads
<1>8. clientcon = "live" => curOpFile = "nil" /\ curfilePosition = 0
  BY <1>1, <1>2 DEF Positions, InTurn, ChainStates
<1>9. clientcon = "live" => /\ Target(p)' \in Files /\ curOpFile' = "nil"
                            /\ curfilePosition' = 0
  BY <1>1, <1>8, ParsersAreThreads DEF Target
<1>10. /\ AtSend(p)' /\ p \in Threads /\ p # Ui /\ fbusystate' = 1 /\ link # "new"
  BY <1>1, <1>2, ParsersAreThreads DEF Ends, AtSend
<1>11. Scalars'
  BY <1>1 DEF Scalars, ExecuteWait, net
<1>12. /\ TablesInv' /\ OneTurn' /\ Messages' /\ Threading' /\ Ends' /\ Ids' /\ Names'
       /\ Positions' /\ LockAsked' /\ LockGiven' /\ LockKept' /\ Served'
  BY <1>1, <1>2, <1>3, <1>4, <1>5, <1>6, <1>7, <1>9, <1>10, BeginWait
<1> QED
  BY <1>11, <1>12

LEMMA LastBlockIInv ==
  ASSUME IInv, NEW p \in Parsers, LastBlock(p)
  PROVE  IInv'
<1> USE DEF IInv, ClientInv, Basic, Turns
<1>1. /\ ExecuteWait(p)
      /\ UNCHANGED <<serverVars, clientcon, late, mixed, reasons, crashed, curResultPkg, fbusystate,
                     fUpdownFiles, file, curRemoteFile, mutex>>
      /\ pc[p] = "got" /\ pkg[p].m = "DownLoad" /\ curOpFile' = "nil"
      /\ curfilePosition' = curfilePosition \/ (pkg[p].err = "ok" /\ curfilePosition' = Written)
      /\ pc' = [pc EXCEPT ![p] = "unlockSend"]
      /\ \A t \in Threads : pc'[t] = IF t = p THEN "unlockSend" ELSE pc[t]
      /\ pkg' = [pkg EXCEPT ![p] = NoPkg]
      /\ \A q \in Parsers : pkg'[q] = IF q = p THEN NoPkg ELSE pkg[q]
  BY ParsersAreThreads DEF LastBlock, Finish, Step, Goto, rest, history, queue, Threading
<1>2. /\ InTurn(p) /\ fbusystate = 1 /\ pc[Ui] \notin Locking
      /\ DownLoads(toSrv) = {} /\ DownLoads(toCli) = {}
      /\ \A q \in Parsers : InTurn(q) => q = p
  <2>1. InTurn(p)
    BY <1>1 DEF InTurn
  <2> QED
    BY <2>1, HasTurn DEF Scalars
<1>3. \A t \in Threads \ {p} : pc'[t] \in OffTurn
  BY <1>1, <1>2 DEF InTurn, Threading, Threads, OffTurn, ChainStates, Locking
<1>4. /\ pc' \in [Threads -> OffTurn \cup {"lockSend", "unlockSend"}]
      /\ pc'[Ui] \in {"idle", "queue", "lockSend"}
  BY <1>1, <1>2, <1>3, ParsersAssumption DEF Threading, Threads, Locking
<1>5. Downloading' = {}
  BY <1>1, <1>2, ParsersAreThreads DEF Downloading, InTurn
<1>6. \A q \in Parsers : /\ pc'[q] # "queue"
                         /\ HasResult(q)' => pc'[q] = pc[q] /\ HasResult(q) /\ pkg'[q] = pkg[q]
  BY <1>1, ParsersAreThreads DEF Threading, HasResult
<1>7. pkg' \in [Parsers -> Results \cup {NoPkg}] /\ (pc'[Ui] # "idle" => file' \in Files)
  BY <1>1, ParsersAssumption DEF Threading, Names, Threads
<1>8. curfilePosition' \in Nat
  BY <1>1 DEF Scalars, Written
<1>9. clientcon = "live" => Target(p)' \in Files /\ curOpFile' = "nil"
  BY <1>1, <1>2, ParsersAreThreads DEF Target, Names, Turn
<1>10. /\ AtSend(p)' /\ pc'[p] # "lockSend" /\ p \in Threads /\ p # Ui /\ fbusystate' = 1
       /\ link # "new"
  BY <1>1, <1>2, ParsersAreThreads DEF Ends, AtSend
<1>11. Scalars'
  BY <1>1, <1>8 DEF Scalars, ExecuteWait, net
<1>12. /\ TablesInv' /\ OneTurn' /\ Messages' /\ Threading' /\ Ends' /\ Ids' /\ Names'
       /\ Positions' /\ LockAsked' /\ LockGiven' /\ LockKept' /\ Served'
  BY <1>1, <1>2, <1>3, <1>4, <1>5, <1>6, <1>7, <1>9, <1>10, BeginWait
<1> QED
  BY <1>11, <1>12

LEMMA NoFileOpenIInv ==
  ASSUME IInv, NEW p \in Parsers, NoFileOpen(p)
  PROVE  IInv'
<1> USE DEF IInv, ClientInv, Basic, Turns
<1>1. /\ Quiet
      /\ pc[p] = "recheck"
      /\ UNCHANGED <<late, mixed, reasons, crashed, file, waitId, fWaitMethodId, curResultPkg,
                     fbusystate, fUpdownFiles, curRemoteFile, curfilePosition, curOpFile, mutex>>
      /\ pc' = [pc EXCEPT ![p] = "idle"]
      /\ \A t \in Threads : pc'[t] = IF t = p THEN "idle" ELSE pc[t]
      /\ pkg' = [pkg EXCEPT ![p] = NoPkg]
      /\ \A q \in Parsers : pkg'[q] = IF q = p THEN NoPkg ELSE pkg[q]
  BY ParsersAreThreads DEF NoFileOpen, Step, Goto, Quiet, net, rest, waits, queue, current,
     history, Threading
<1>2. OneTurn'
  BY <1>1, ParsersAreThreads DEF OneTurn, Lone, Turn, InTurn, DownLoads, ChainStates, Locking, Quiet,
     net
<1>3. Messages'
  BY <1>1, ParsersAreThreads, MessagesStay DEF HasResult
<1>4. Threading'
  BY <1>1, ParsersAreThreads DEF Threading, Quiet, ChainStates, OffTurn, Locking
<1>5. Scalars'
  BY <1>1, ParsersAreThreads DEF Scalars, Quiet, net
<1>6. Ends'
  BY <1>1, ParsersAreThreads DEF Ends, Quiet, net, serverVars
<1>7. Names'
  BY <1>1, ParsersAreThreads DEF Names, Quiet, net, Turn, InTurn, DownLoads, ChainStates
<1>8. Positions'
  BY <1>1, ParsersAreThreads DEF Positions, Quiet, net, DownLoads, Downloading, ChainStates
<1>9. LockAsked'
  BY <1>1, ParsersAreThreads, LockAskedStays DEF HasResult, Target, Stored
<1>10. LockGiven'
  BY <1>1, ParsersAreThreads, LockGivenStays DEF Target
<1>11. LockKept'
  BY <1>1, ParsersAreThreads, LockKeptStays DEF Downloading
<1>12. Served'
  BY <1>1, ParsersAreThreads DEF Served, Quiet, net, Turn, InTurn, ChainStates, DownLoads
<1>13. TablesInv'
  BY <1>1, NextTables DEF Quiet
<1>14. Ids'
  BY <1>1, ParsersAreThreads, IdsStay DEF HasResult, Asking, AtSend
<1> QED
  BY <1>2, <1>3, <1>4, <1>5, <1>6, <1>7, <1>8, <1>9, <1>10, <1>11, <1>12, <1>13, <1>14

\* A parser that writes an old block into the next file: after that only types
\* and the messages are accounted for.
LEMMA OldBlockBasic ==
  ASSUME IInv, NEW p \in Parsers, OldBlock(p)
  PROVE  TablesInv' /\ Basic' /\ mixed'
<1> USE DEF IInv, ClientInv, Basic, Turns
<1>1. /\ UNCHANGED <<serverVars, link, toCli, clientcon, late, reasons, crashed, file, curResultPkg,
                     fbusystate, fUpdownFiles, curRemoteFile, mutex>>
      /\ pc[p] = "recheck" /\ curOpFile # "nil" /\ mixed' = TRUE
      /\ \E l \in {"idle", "unlockSend"} :
           /\ pc' = [pc EXCEPT ![p] = l]
           /\ \A t \in Threads : pc'[t] = IF t = p THEN l ELSE pc[t]
      /\ pkg' = [pkg EXCEPT ![p] = NoPkg]
      /\ curfilePosition' \in {curfilePosition, Written}
      /\ curOpFile' \in {"nil", "open", curOpFile}
      /\ \/ ExecuteMethod(curRemoteFile, Written)
         \/ ExecuteWait(p) /\ UNCHANGED toSrv
  BY ParsersAreThreads
     DEF OldBlock, NextBlock, Finish, ExecuteMethod, ExecuteWait, Step, Goto, net, queue, Threading
<1>2. Written \in Nat
  BY DEF Written, Scalars
<1>3. \A q \in Parsers : HasResult(q)' => pc'[q] = pc[q] /\ HasResult(q) /\ pkg'[q] = pkg[q]
  BY <1>1, ParsersAreThreads DEF HasResult, Threading
<1>4. TablesInv'
  BY <1>1, NextTables
<1>5. nextId \in Nat \ {0} /\ 0 < nextId
  BY DEF Threading
<1>6. Messages'
  <2>1. CASE ExecuteMethod(curRemoteFile, Written)
    <3> DEFINE r == Message("DownLoad", curRemoteFile, 0, Written)
    <3>1. UNCHANGED nextId
      BY <2>1 DEF ExecuteMethod, waits
    <3>2. CASE toSrv' = toSrv
      BY <1>1, <1>3, <3>1, <3>2, MessagesStay DEF Quiet, net
    <3>3. CASE clientcon = "live" /\ toSrv' = Append(toSrv, r)
      <4>1. r \in Requests /\ r.id = 0
        BY <1>1, <1>2, <3>3 DEF Names, Message, Requests, Methods
      <4> HIDE DEF r
      <4> QED
        BY <1>1, <1>3, <1>5, <3>1, <3>3, <4>1, AskedMessages
    <3> QED
      BY <2>1, <3>2, <3>3 DEF ExecuteMethod, Sent
  <2>2. CASE ExecuteWait(p) /\ UNCHANGED toSrv
    BY <1>1, <1>3, <1>5, <2>2, IdGiven DEF ExecuteWait
  <2> QED
    BY <1>1, <2>1, <2>2
<1>7. Threading'
  <2>1. pc' \in [Threads -> OffTurn \cup ChainStates]
    BY <1>1 DEF Threading, OffTurn, ChainStates
  <2>2. pc'[Ui] \in {"idle", "queue"} \cup Locking /\ \A q \in Parsers : pc'[q] # "queue"
    BY <1>1, ParsersAreThreads, ParsersAssumption DEF Threading, Threads
  <2>5. \A q \in Parsers : pc'[q] \in {"expected", "stored", "deliver"} => pkg'[q].m # "DownLoad"
    BY <1>3 DEF Threading, HasResult
  <2>3. pkg' \in [Parsers -> Results \cup {NoPkg}]
    BY <1>1 DEF Threading
  <2>4. /\ nextId' \in Nat \ {0} /\ waitId' \in [Threads -> 0 .. nextId']
        /\ fWaitMethodId' \in {0, nextId' - 1}
    <3>1. CASE ExecuteMethod(curRemoteFile, Written)
      BY <3>1 DEF ExecuteMethod, waits, Threading
    <3>2. CASE ExecuteWait(p) /\ UNCHANGED toSrv
      <4>1. nextId' = nextId + 1 /\ fWaitMethodId' = nextId
            /\ waitId' = [waitId EXCEPT ![p] = nextId]
        BY <3>2 DEF ExecuteWait
      <4>2. nextId \in 0 .. nextId' /\ 0 .. nextId \subseteq 0 .. nextId'
        BY <1>5, <4>1
      <4> QED
        <5>1. waitId' \in [Threads -> 0 .. nextId']
          BY <1>5, <4>1, <4>2 DEF Threading
        <5>2. nextId' \in Nat \ {0} /\ fWaitMethodId' \in {0, nextId' - 1}
          BY <1>5, <4>1
        <5> QED
          BY <5>1, <5>2
    <3> QED
      BY <1>1, <3>1, <3>2
  <2> QED
    BY <2>1, <2>2, <2>3, <2>4, <2>5 DEF Threading, Results, Absent
<1>8. Scalars'
  BY <1>1, <1>2 DEF Scalars
<1>9. Ends'
  <2>1. link # "new"
    BY <1>1, ParsersAreThreads DEF Ends
  <2> QED
    BY <1>1, <2>1 DEF Ends, serverVars
<1> QED
  BY <1>1, <1>4, <1>6, <1>7, <1>8, <1>9

-----------------------------------------------------------------------------
(* Steps of the connection and of the server. *)
LEMMA MessagesKept ==
  ASSUME Messages, UNCHANGED nextId, NEW k \in {0, 1},
         toSrv' \in Seq(Requests), toCli' \in Seq(Results),
         \A i \in DOMAIN toSrv' : i \in Nat /\ i + k \in DOMAIN toSrv /\ toSrv'[i] = toSrv[i + k],
         \A i \in DOMAIN toCli' : Answered(toCli'[i]),
         \A p \in Parsers : HasResult(p)' => pkg'[p] \in Results /\ Answered(pkg'[p])
  PROVE  Messages'
<1>1. \A r : Asked(r)' <=> Asked(r)
  BY DEF Asked
<1>2. \A a : Answered(a)' <=> Answered(a)
  BY <1>1 DEF Answered
<1>3. \A i \in DOMAIN toSrv' : Asked(toSrv[i])'
  BY <1>1 DEF Messages
<1>4. ASSUME NEW i \in DOMAIN toSrv', NEW j \in DOMAIN toSrv',
             i < j, toSrv'[i].id # 0, toSrv'[j].id # 0
      PROVE  toSrv'[i].id < toSrv'[j].id
  <2>1. i + k < j + k
    BY <1>4
  <2> QED
    BY <1>4, <2>1 DEF Messages
<1>5. /\ \A i \in DOMAIN toCli' : Answered(toCli[i])'
      /\ \A p \in Parsers : HasResult(p)' => pkg'[p] \in Results /\ Answered(pkg[p])'
  BY <1>2
<1> QED
  BY <1>3, <1>4, <1>5 DEF Messages, Requests, Results, Absent

LEMMA SeqIndices ==
  ASSUME NEW S, NEW s \in Seq(S)
  PROVE  \A i \in DOMAIN s : i \in Nat /\ i + 0 = i /\ s[i] \in S
  OBVIOUS

LEMMA ReceiveIInv ==
  ASSUME IInv, NEW p \in Parsers, Receive(p)
  PROVE  IInv'
<1> USE DEF IInv, ClientInv, Basic, Turns
<1>1. /\ UNCHANGED <<serverVars, link, toSrv, clientcon, nextId, waitId, fWaitMethodId, late, mixed,
                     reasons, crashed, curResultPkg, fbusystate, fUpdownFiles, file, curRemoteFile,
                     curfilePosition, curOpFile, mutex>>
      /\ pc[p] = "idle" /\ toCli # <<>> /\ toCli' = Tail(toCli)
      /\ pc' = [pc EXCEPT ![p] = "got"]
      /\ \A t \in Threads : pc'[t] = IF t = p THEN "got" ELSE pc[t]
      /\ pkg' = [pkg EXCEPT ![p] = Head(toCli)]
      /\ \A q \in Parsers : pkg'[q] = IF q = p THEN Head(toCli) ELSE pkg[q]
  BY ParsersAreThreads
     DEF Receive, Step, Goto, rest, waits, history, queue, current, Threading
<1>2. /\ toCli' \in Seq(Results) /\ Head(toCli) \in Results /\ 1 \in DOMAIN toCli
      /\ Head(toCli) = toCli[1] /\ Answered(Head(toCli))
      /\ \A i \in DOMAIN toCli' : i \in Nat \ {0} /\ i + 1 \in DOMAIN toCli /\ toCli'[i] = toCli[i + 1]
  BY <1>1, Taken DEF Messages
<1>3. UNCHANGED <<phase, fReadingFile>> /\ DownLoads(toSrv)' = DownLoads(toSrv)
  BY <1>1 DEF serverVars, DownLoads
<1>4. DownLoads(toCli)' # {} => DownLoads(toCli) # {}
  BY <1>2 DEF DownLoads
<1>5. Head(toCli).m = "DownLoad" =>
        DownLoads(toCli) # {} /\ DownLoads(toCli)' = {} /\ DownLoads(toSrv) = {} /\ Turn = {}
  <2> SUFFICES ASSUME Head(toCli).m = "DownLoad"
               PROVE  DownLoads(toCli) # {} /\ DownLoads(toCli)' = {}
                      /\ DownLoads(toSrv) = {} /\ Turn = {}
    OBVIOUS
  <2>1. 1 \in DownLoads(toCli)
    BY <1>2 DEF DownLoads
  <2>2. \A i \in DownLoads(toCli) : i = 1
    BY <2>1 DEF OneTurn, Lone
  <2>3. DownLoads(toCli)' = {}
    <3>1. ASSUME NEW i \in DownLoads(toCli)' PROVE FALSE
      <4>1. i \in Nat \ {0} /\ i + 1 \in DownLoads(toCli)
        BY <1>2, <3>1 DEF DownLoads
      <4> QED
        BY <2>2, <4>1
    <3> QED
      BY <3>1
  <2> QED
    BY <2>1, <2>3 DEF OneTurn
<1>6. /\ \A q \in Parsers \ {p} : InTurn(q)' <=> InTurn(q)
      /\ InTurn(p)' <=> Head(toCli).m = "DownLoad"
      /\ ~InTurn(p)
      /\ \A q \in Parsers : q \in Downloading' => q \in Downloading \/ (q = p /\ InTurn(p)')
  BY <1>1, ParsersAreThreads DEF InTurn, ChainStates, Downloading
<1>7. TablesInv'
  BY <1>1, NextTables
<1>8. OneTurn'
  <2>1. pc'[Ui] = pc[Ui]
    BY <1>1, ParsersAssumption DEF Threads
  <2>2. ASSUME NEW i \in DownLoads(toCli)', NEW j \in DownLoads(toCli)' PROVE i = j
    <3>1. /\ i \in Nat /\ j \in Nat /\ i + 1 \in DownLoads(toCli) /\ j + 1 \in DownLoads(toCli)
      BY <1>2, <2>2 DEF DownLoads
    <3>2. i + 1 = j + 1
      BY <3>1 DEF OneTurn, Lone
    <3> QED
      BY <3>1, <3>2
  <2>3. CASE Head(toCli).m = "DownLoad"
    <3>1. \A q \in Parsers : InTurn(q)' => q = p
      BY <1>5, <1>6, <2>3 DEF Turn
    <3> QED
      BY <1>1, <1>3, <1>5, <2>1, <2>3, <3>1 DEF OneTurn, Lone, Turn
  <2>4. CASE Head(toCli).m # "DownLoad"
    <3>1. Turn' = Turn
      BY <1>6, <2>4 DEF Turn
    <3> QED
      BY <1>1, <1>3, <1>4, <2>1, <2>2, <3>1 DEF OneTurn, Lone
  <2> QED
    BY <2>3, <2>4
<1>9. Messages'
  <2>1. /\ toSrv' \in Seq(Requests)
        /\ \A i \in DOMAIN toSrv' : i \in Nat /\ i + 0 \in DOMAIN toSrv /\ toSrv'[i] = toSrv[i + 0]
    BY <1>1, SeqIndices DEF Messages
  <2>2. \A i \in DOMAIN toCli' : Answered(toCli'[i])
    BY <1>2 DEF Messages
  <2>3. \A q \in Parsers : HasResult(q)' => pkg'[q] \in Results /\ Answered(pkg'[q])
    BY <1>1, <1>2, ParsersAreThreads DEF Messages, HasResult
  <2> QED
    BY <1>1, <1>2, <2>1, <2>2, <2>3, MessagesKept
<1>10. Threading'
  BY <1>1, <1>2, ParsersAreThreads DEF Threading, ChainStates, OffTurn, Locking, Results, Absent
<1>11. Scalars'
  BY <1>1 DEF Scalars
<1>12. Ends'
  BY <1>1, <1>2, <1>3, ParsersAreThreads DEF Ends
<1>13. Names'
  <2>1. pc'[Ui] = pc[Ui]
    BY <1>1, ParsersAssumption DEF Threads
  <2>2. \A q \in Turn' : pc'[q] \notin {"next", "ranging"} =>
          (q \in Turn /\ pc[q] \notin {"next", "ranging"}) \/ DownLoads(toCli) # {}
    BY <1>1, <1>5, <1>6, ParsersAreThreads DEF Turn
  <2> QED
    BY <1>1, <1>3, <1>4, <2>1, <2>2 DEF Names
<1>14. Positions'
  <2>1. \A i \in DownLoads(toCli)' : i + 1 \in DownLoads(toCli) /\ toCli'[i] = toCli[i + 1]
    BY <1>2 DEF DownLoads
  <2>2. \A q \in Downloading' : (q \in Downloading /\ pkg'[q] = pkg[q])
                                \/ (1 \in DownLoads(toCli) /\ pkg'[q] = toCli[1])
    BY <1>1, <1>2, ParsersAreThreads DEF Downloading, DownLoads
  <2>3. \A q \in Parsers : pc'[q] = pc[q] \/ (q = p /\ pc'[q] = "got")
    BY <1>1, ParsersAreThreads
  <2>4. \A q \in Parsers : pc[q] \in {"unlockSend", "unlockWait", "unlocked"} => pc'[q] = pc[q]
    BY <1>1, ParsersAreThreads
  <2>5. clientcon = "live" =>
          /\ \A i \in DownLoads(toSrv)' : toSrv'[i].pos = curfilePosition
          /\ \A i \in DownLoads(toCli)' : toCli'[i].pos = curfilePosition
          /\ \A q \in Downloading' : pkg'[q].pos = curfilePosition
    BY <1>1, <1>3, <2>1, <2>2 DEF Positions
  <2>6. clientcon = "live" =>
          /\ curOpFile = "nil" =>
               curfilePosition = 0 \/ \E q \in Parsers : pc'[q] \in {"unlockSend", "unlockWait", "unlocked"}
          /\ \A q \in Parsers : pc'[q] \in ChainStates => curOpFile = "nil"
    BY <2>3, <2>4 DEF Positions, ChainStates
  <2> QED
    BY <1>1, <2>5, <2>6 DEF Positions
<1>15. LockAsked'
  <2> SUFFICES ASSUME Sound', clientcon' = "live", NEW t \in Threads, pc'[t] = "lockWait"
               PROVE  /\ \A i \in DOMAIN toSrv' :
                           toSrv'[i].id = nextId' - 1 =>
                             toSrv'[i].m = "LockFile" /\ toSrv'[i].f = Target(t)'
                      /\ \A i \in DOMAIN toCli' : AnswerCounts(t, toCli[i])'
                      /\ \A q \in Parsers : HasResult(q)' => AnswerCounts(t, pkg[q])'
                      /\ \A q \in Parsers : Stored(q)' =>
                           (curResultPkg' = "ok" => Reads(Target(t))')
    BY DEF LockAsked
  <2>1. Sound /\ clientcon = "live" /\ pc[t] = "lockWait" /\ Target(t)' = Target(t)
    BY <1>1, <1>3 DEF Sound, Target
  <2>2. \A a : AnswerCounts(t, a)' <=> AnswerCounts(t, a)
    BY <1>1, <1>3, <2>1 DEF AnswerCounts, Reads
  <2>3. \A i \in DOMAIN toCli' : AnswerCounts(t, toCli[i])'
    BY <1>2, <2>1, <2>2 DEF LockAsked
  <2>4. \A q \in Parsers : HasResult(q)' => AnswerCounts(t, pkg[q])'
    BY <1>1, <1>2, <2>1, <2>2, ParsersAreThreads DEF LockAsked, HasResult
  <2>5. \A q \in Parsers : Stored(q)' => Stored(q)
    BY <1>1, ParsersAreThreads DEF Stored
  <2> QED
    BY <1>1, <1>3, <2>1, <2>3, <2>4, <2>5 DEF LockAsked, Reads
<1>16. LockGiven'
  <2>1. \A t \in Threads : pc'[t] = "locked" => pc[t] = "locked" /\ Target(t)' = Target(t)
    BY <1>1 DEF Target
  <2> QED
    BY <1>1, <1>3, <2>1 DEF LockGiven, Sound, Reads
<1>17. LockKept'
  <2>1. DownLoads(toCli)' # {} \/ Downloading' # {} => DownLoads(toCli) # {} \/ Downloading # {}
    BY <1>4, <1>5, <1>6 DEF Downloading
  <2> QED
    BY <1>1, <1>3, <2>1 DEF LockKept, Sound, Reads, OnlyDownLoads
<1>18. Served'
  <2>1. DownLoads(toCli) # {} => DownLoads(toCli)' # {} \/ Turn' # {}
    <3>1. CASE Head(toCli).m = "DownLoad"
      BY <1>6, <3>1 DEF Turn
    <3>2. CASE Head(toCli).m # "DownLoad"
      <4> SUFFICES ASSUME NEW i \in DownLoads(toCli) PROVE DownLoads(toCli)' # {}
        OBVIOUS
      <4>1. toCli \in Seq(Results) /\ i \in DOMAIN toCli /\ toCli[i].m = "DownLoad" /\ i # 1
        BY <1>2, <3>2 DEF Messages, DownLoads
      <4>2. i - 1 \in DOMAIN Tail(toCli) /\ Tail(toCli)[i - 1] = toCli[i]
        BY <1>1, <4>1
      <4> QED
        BY <1>1, <4>1, <4>2 DEF DownLoads
    <3> QED
      BY <3>1, <3>2
  <2>2. Turn # {} => Turn' # {}
    BY <1>6 DEF Turn
  <2> QED
    BY <1>1, <1>3, <2>1, <2>2 DEF Served
<1>19. Ids'
  <2>1. \A t \in Threads : (pc'[t] \in Asking => pc[t] \in Asking) /\ (AtSend(t)' => AtSend(t))
    BY <1>1 DEF Asking, AtSend
  <2>2. NotSent => NotSent'
    BY <1>1, <1>2, ParsersAreThreads DEF NotSent, HasResult
  <2>3. Named => Named'
    BY <1>1, <1>2, ParsersAreThreads DEF Named, HasResult
  <2> QED
    BY <1>1, <2>1, <2>2, <2>3 DEF Ids
<1> QED
  BY <1>19, <1>7, <1>8, <1>9, <1>10, <1>11, <1>12, <1>13, <1>14, <1>15, <1>16, <1>17, <1>18

LEMMA ConnectIInv ==
  ASSUME TransferInv, Connect
  PROVE  TransferInv'
<1> USE DEF TransferInv, Basic, Turns
<1>1. /\ link = "new" /\ link' = "up" /\ Accept(Me)
      /\ UNCHANGED <<toSrv, toCli, clientcon, nextId, waitId, fWaitMethodId, late, mixed, reasons,
                     crashed, curResultPkg, fbusystate, fUpdownFiles, file, curRemoteFile,
                     curfilePosition, curOpFile, mutex, pc, pkg>>
  BY DEF Connect, clientVars, waits, queue, current, rest, history
<1>2. phase' = [phase EXCEPT ![Me] = "live"]
  BY <1>1 DEF Accept
<1>3. phase'[Me] = "live"
  BY <1>2, MeAssumption DEF TablesInv, TypeOK
<1>4. /\ toSrv' = <<>> /\ toCli' = <<>> /\ fbusystate' = 0 /\ clientcon' = "live"
      /\ \A t \in Threads : pc'[t] = "idle"
  BY <1>1 DEF Ends
<1>5. DownLoads(toSrv)' = {} /\ DownLoads(toCli)' = {}
  BY <1>4 DEF DownLoads
<1>6. Turn' = {} /\ Downloading' = {}
  BY <1>4, ParsersAreThreads DEF Turn, InTurn, ChainStates, Downloading
<1>7. TablesInv'
  BY <1>1, MeAssumption, AcceptTables
<1>9. Messages'
  BY <1>4, ParsersAreThreads DEF Messages, HasResult
<1>10. Threading'
  BY <1>1 DEF Threading, Results, Absent
<1>11. Scalars'
  BY <1>1 DEF Scalars
<1>12. Ends'
  BY <1>1, <1>3, <1>4 DEF Ends
<1> SUFFICES ASSUME ~mixed' PROVE Turns'
  BY <1>7, <1>9, <1>10, <1>11, <1>12
<1>turns. ~mixed /\ Turns
  BY <1>1
<1> USE <1>turns DEF Turns
<1>8. OneTurn'
  BY <1>4, <1>5, <1>6 DEF OneTurn, Lone, Threads, Locking
<1>13. Names'
  BY <1>1, <1>4, <1>5, <1>6 DEF Names, Threads
<1>14. Positions'
  BY <1>1, <1>4, <1>5, <1>6, ParsersAreThreads DEF Positions, ChainStates
<1>15. LockAsked' /\ LockGiven' /\ LockKept'
  BY <1>4, <1>5, <1>6 DEF LockAsked, LockGiven, LockKept
<1>16. Served'
  BY <1>1, <1>4 DEF Served
<1>17. Ids'
  BY <1>4, ParsersAreThreads DEF Ids, Asking, AtSend, Named, HasResult
<1> QED
  BY <1>8, <1>13, <1>14, <1>15, <1>16, <1>17

\* A step of the server's that changes neither the phase of the client's
\* object nor what that object reads.
LEMMA ServerMoves ==
  ASSUME TransferInv, TablesInv', UNCHANGED <<net, clientVars>>, phase'[Me] = phase[Me],
         \A f \in Files : Reads(f)' <=> Reads(f)
  PROVE  TransferInv'
<1> USE DEF TransferInv, Basic, Turns
<1>1. UNCHANGED <<link, toSrv, toCli, clientcon, nextId, waitId, fWaitMethodId, late, mixed, reasons,
                  crashed, curResultPkg, fbusystate, fUpdownFiles, file, curRemoteFile,
                  curfilePosition, curOpFile, mutex, pc, pkg>>
  BY DEF clientVars, net, waits, queue, current, rest, history
<1>2. /\ DownLoads(toSrv)' = DownLoads(toSrv) /\ DownLoads(toCli)' = DownLoads(toCli)
      /\ Downloading' = Downloading /\ Turn' = Turn
      /\ (Sound <=> Sound')
  BY <1>1 DEF DownLoads, Downloading, Turn, InTurn, Sound
<1>4. Messages'
  BY <1>1 DEF Messages, HasResult, Answered, Asked, Requests, Results, Absent
<1>5. Threading' /\ Scalars' /\ Ends'
  BY <1>1 DEF Threading, Scalars, Ends, Results, Absent
<1> SUFFICES ASSUME ~mixed' PROVE Turns'
  BY <1>4, <1>5
<1>turns. ~mixed /\ Turns
  BY <1>1
<1> USE <1>turns DEF Turns
<1>3. OneTurn'
  BY <1>1, <1>2 DEF OneTurn, Lone
<1>ids. Ids'
  BY <1>1 DEF Ids, AtSend, NotSent, Named, HasResult
<1>6. Names' /\ Positions' /\ Served'
  BY <1>1, <1>2 DEF Names, Positions, Served
<1>7. LockAsked'
  <2> SUFFICES ASSUME Sound', clientcon' = "live", NEW t \in Threads, pc'[t] = "lockWait"
               PROVE  /\ \A i \in DOMAIN toSrv' :
                           toSrv'[i].id = nextId' - 1 =>
                             toSrv'[i].m = "LockFile" /\ toSrv'[i].f = Target(t)'
                      /\ \A i \in DOMAIN toCli' : AnswerCounts(t, toCli[i])'
                      /\ \A q \in Parsers : HasResult(q)' => AnswerCounts(t, pkg[q])'
                      /\ \A q \in Parsers : Stored(q)' =>
                           (curResultPkg' = "ok" => Reads(Target(t))')
    BY DEF LockAsked
  <2>1. Target(t) \in Files
    BY <1>1 DEF Names, Target, Turn, InTurn, ChainStates, Threads
  <2>2. \A a : AnswerCounts(t, a)' <=> AnswerCounts(t, a)
    BY <1>1, <2>1 DEF AnswerCounts, Target
  <2>3. /\ \A i \in DOMAIN toSrv :
             toSrv[i].id = nextId - 1 => toSrv[i].m = "LockFile" /\ toSrv[i].f = Target(t)
        /\ \A i \in DOMAIN toCli : AnswerCounts(t, toCli[i])
        /\ \A q \in Parsers : HasResult(q) => AnswerCounts(t, pkg[q])
        /\ \A q \in Parsers : Stored(q) => (curResultPkg = "ok" => Reads(Target(t)))
    BY <1>1, <1>2 DEF LockAsked
  <2>4. /\ Target(t)' = Target(t) /\ (Reads(Target(t))' <=> Reads(Target(t)))
        /\ \A q \in Parsers : (Stored(q)' <=> Stored(q)) /\ (HasResult(q)' <=> HasResult(q))
    BY <1>1, <2>1 DEF Target, HasResult, Stored
  <2> QED
    BY <1>1, <2>2, <2>3, <2>4
<1>8. LockGiven'
  <2>1. \A t \in Threads : clientcon = "live" /\ pc[t] = "locked" => Target(t) \in Files
    BY DEF Names, Target, Turn, InTurn, ChainStates, Threads
  <2> QED
    BY <1>1, <1>2, <2>1 DEF LockGiven, Target
<1>9. LockKept'
  <2>1. \A i \in DownLoads(toSrv) : toSrv[i].f \in Files
    <3>1. \A i \in DownLoads(toSrv) : toSrv[i] \in Requests
      BY DEF Messages, DownLoads
    <3> QED
      BY <3>1 DEF Requests
  <2>2. clientcon = "live" /\ (DownLoads(toCli) # {} \/ Downloading # {}) => curRemoteFile \in Files
    BY DEF Names, Downloading, Turn, InTurn
  <2> QED
    BY <1>1, <1>2, <2>1, <2>2 DEF LockKept, OnlyDownLoads
<1> QED
  BY <1>3, <1>6, <1>7, <1>8, <1>9, <1>ids

\* A step after which the server's object is not live any more.
LEMMA ServerEnds ==
  ASSUME TransferInv, TablesInv', UNCHANGED <<clientVars, toCli>>, link # "new",
         link' \in {"broken", "over"}, phase'[Me] # "live", toSrv' = toSrv \/ toSrv' = <<>>
  PROVE  TransferInv'
<1> USE DEF TransferInv, Basic, Turns
<1>1. UNCHANGED <<toCli, clientcon, nextId, waitId, fWaitMethodId, late, mixed, reasons,
                  crashed, curResultPkg, fbusystate, fUpdownFiles, file, curRemoteFile,
                  curfilePosition, curOpFile, mutex, pc, pkg>>
  BY DEF clientVars, waits, queue, current, rest, history
<1>2. /\ DownLoads(toCli)' = DownLoads(toCli)
      /\ Downloading' = Downloading /\ Turn' = Turn /\ ~Sound'
  BY <1>1 DEF DownLoads, Downloading, Turn, InTurn, Sound
<1>3. /\ DownLoads(toSrv)' \subseteq DownLoads(toSrv)
      /\ \A i \in DOMAIN toSrv' : i \in DOMAIN toSrv /\ toSrv'[i] = toSrv[i]
  BY DEF DownLoads
<1>5. Messages'
  <2>1. toSrv' \in Seq(Requests)
    <3>1. <<>> \in Seq(Requests) /\ toSrv \in Seq(Requests)
      BY DEF Messages
    <3> QED
      BY <3>1
  <2>2. \A i \in DOMAIN toSrv' : i \in Nat /\ i + 0 \in DOMAIN toSrv /\ toSrv'[i] = toSrv[i + 0]
    BY <1>3, SeqIndices DEF Messages
  <2>3. \A p \in Parsers : HasResult(p)' => pkg'[p] \in Results /\ Answered(pkg'[p])
    BY <1>1 DEF Messages, HasResult
  <2> QED
    BY <1>1, <2>1, <2>2, <2>3, MessagesKept DEF Messages
<1>6. Threading' /\ Scalars'
  BY <1>1 DEF Threading, Scalars, Results, Absent
<1>7. Ends'
  BY <1>1 DEF Ends
<1> SUFFICES ASSUME ~mixed' PROVE Turns'
  BY <1>5, <1>6, <1>7
<1>turns. ~mixed /\ Turns
  BY <1>1
<1> USE <1>turns DEF Turns
<1>4. OneTurn'
  BY <1>1, <1>2, <1>3 DEF OneTurn, Lone
<1>ids. Ids'
  BY <1>1, <1>3 DEF Ids, AtSend, NotSent, Named, HasResult
<1>8. Names' /\ Positions'
  <2>1. Names'
    BY <1>1, <1>2, <1>3 DEF Names
  <2>2. \A i \in DownLoads(toSrv)' : i \in DownLoads(toSrv) /\ toSrv'[i] = toSrv[i]
    BY <1>3 DEF DownLoads
  <2>3. \A i \in DownLoads(toCli)' : i \in DownLoads(toCli) /\ toCli'[i] = toCli[i]
    BY <1>1, <1>2
  <2>4. Positions'
    BY <1>1, <1>2, <2>2, <2>3 DEF Positions
  <2> QED
    BY <2>1, <2>4
<1>9. LockAsked' /\ LockGiven' /\ LockKept'
  BY <1>2 DEF LockAsked, LockGiven, LockKept
<1>10. Served'
  BY <1>1 DEF Served
<1> QED
  BY <1>4, <1>8, <1>9, <1>10, <1>ids

LEMMA ServerDropsIInv ==
  ASSUME TransferInv, ServerDrops
  PROVE  TransferInv'
<1>1. DisConnect(Me) /\ link' = "broken" /\ UNCHANGED <<toSrv, toCli, clientVars>> /\ link # "new"
  BY DEF ServerDrops, Mine
<1>2. phase'[Me] = "down"
  BY <1>1, MeAssumption DEF DisConnect, TransferInv, TablesInv, TypeOK
<1>3. TablesInv'
  BY <1>1, MeAssumption, DisConnectTables DEF TransferInv
<1> QED
  BY <1>1, <1>2, <1>3, ServerEnds

LEMMA ServerPoolsIInv ==
  ASSUME TransferInv, ServerPools
  PROVE  TransferInv'
<1>1. Release(Me) /\ link' = "over" /\ toSrv' = <<>> /\ UNCHANGED <<toCli,
                                                                    clientVars>> /\ link # "new"
  BY DEF ServerPools, Mine
<1>2. phase'[Me] = "pooled"
  BY <1>1, MeAssumption DEF Release, TransferInv, TablesInv, TypeOK
<1>3. TablesInv'
  BY <1>1, MeAssumption, ReleaseTables DEF TransferInv
<1> QED
  BY <1>1, <1>2, <1>3, ServerEnds

LEMMA PeerIInv ==
  ASSUME TransferInv, Peer
  PROVE  TransferInv'
<1>1. UNCHANGED <<net, clientVars>>
  BY DEF Peer
<1>2. PICK c \in Cons \ {Me} :
        \/ Accept(c) \/ DisConnect(c) \/ Release(c)
        \/ \E f \in Files : \/ \E ReadLock \in BOOLEAN :
                                 LockFile(c, f, ReadLock) \/ UnlockFile(c, f, ReadLock)
                            \/ \E position \in 0 .. MaxBlocks : UpLoad(c, f, position)
  BY MeAssumption DEF Peer
<1> USE DEF TransferInv
<1>3. CASE Accept(c)
  <2>1. phase'[Me] = phase[Me] /\ UNCHANGED fReadingFile
    BY <1>3, MeAssumption DEF Accept, tables, TablesInv, TypeOK
  <2> QED
    BY <1>1, <1>3, <2>1, AcceptTables, ServerMoves DEF Reads
<1>4. CASE DisConnect(c)
  <2>1. phase'[Me] = phase[Me] /\ \A f \in Files : Reads(f)' <=> Reads(f)
    BY <1>4, MeAssumption DEF DisConnect, TablesInv, TypeOK, Reads
  <2> QED
    BY <1>1, <1>4, <2>1, DisConnectTables, ServerMoves
<1>5. CASE Release(c)
  <2>1. phase'[Me] = phase[Me] /\ UNCHANGED fReadingFile
    BY <1>5, MeAssumption DEF Release, tables, TablesInv, TypeOK
  <2> QED
    BY <1>1, <1>5, <2>1, ReleaseTables, ServerMoves DEF Reads
<1>6. ASSUME NEW f \in Files, NEW ReadLock \in BOOLEAN, LockFile(c, f, ReadLock) PROVE TransferInv'
  <2>1. phase'[Me] = phase[Me] /\ \A g \in Files : Reads(g)' <=> Reads(g)
    BY <1>6, MeAssumption DEF LockFile, tables, TablesInv, TypeOK, Reads
  <2> QED
    BY <1>1, <1>6, <2>1, LockFileTables, ServerMoves
<1>7. ASSUME NEW f \in Files, NEW ReadLock \in BOOLEAN, UnlockFile(c, f, ReadLock) PROVE TransferInv'
  <2>1. phase'[Me] = phase[Me] /\ \A g \in Files : Reads(g)' <=> Reads(g)
    BY <1>7, MeAssumption DEF UnlockFile, tables, TablesInv, TypeOK, Reads
  <2> QED
    BY <1>1, <1>7, <2>1, UnlockFileTables, ServerMoves
<1>8. ASSUME NEW f \in Files, NEW position \in 0 .. MaxBlocks, UpLoad(c, f, position) PROVE TransferInv'
  <2>1. phase'[Me] = phase[Me] /\ UNCHANGED fReadingFile
    BY <1>8 DEF UpLoad, tables
  <2> QED
    BY <1>1, <1>8, <2>1, UpLoadTables, ServerMoves DEF Reads
<1> QED
  BY <1>2, <1>3, <1>4, <1>5, <1>6, <1>7, <1>8

\* A step of the client's connection: nothing is claimed of locks any more.
LEMMA ClientEnds ==
  ASSUME TransferInv, UNCHANGED <<serverVars, toSrv, pc, file, pkg, waitId, nextId, fbusystate, mutex,
                           late, mixed, crashed>>,
         link # "new", link' # "new", link' # "up", clientcon' # "live", "dropped" \in reasons',
         toCli' = toCli \/ toCli' = <<>>,
         fWaitMethodId' = fWaitMethodId \/ fWaitMethodId' = 0,
         Scalars'
  PROVE  TransferInv'
<1> USE DEF TransferInv, Basic, Turns
<1>1. TablesInv'
  BY NextTables
<1>2. /\ DownLoads(toSrv)' = DownLoads(toSrv) /\ Downloading' = Downloading /\ Turn' = Turn
      /\ DownLoads(toCli)' \subseteq DownLoads(toCli)
      /\ \A i \in DOMAIN toCli' : i \in DOMAIN toCli /\ toCli'[i] = toCli[i]
      /\ UNCHANGED <<phase, fReadingFile>>
  BY DEF DownLoads, Downloading, Turn, InTurn, serverVars
<1>4. Messages'
  <2>1. toCli' \in Seq(Results) /\ \A i \in DOMAIN toCli' : Answered(toCli'[i])
    <3>1. <<>> \in Seq(Results) /\ toCli \in Seq(Results)
      BY DEF Messages
    <3> QED
      BY <1>2, <3>1 DEF Messages
  <2>2. \A i \in DOMAIN toSrv' : i \in Nat /\ i + 0 \in DOMAIN toSrv /\ toSrv'[i] = toSrv[i + 0]
    BY SeqIndices DEF Messages
  <2>3. \A p \in Parsers : HasResult(p)' => pkg'[p] \in Results /\ Answered(pkg'[p])
    BY DEF Messages, HasResult
  <2> QED
    BY <2>1, <2>2, <2>3, MessagesKept DEF Messages
<1>5. Threading'
  BY DEF Threading, Results, Absent
<1>6. Ends'
  BY <1>2 DEF Ends
<1> SUFFICES ASSUME ~mixed' PROVE Turns'
  BY <1>1, <1>4, <1>5, <1>6
<1>turns. ~mixed /\ Turns
  OBVIOUS
<1> USE <1>turns DEF Turns
<1>3. OneTurn'
  BY <1>2 DEF OneTurn, Lone
<1>ids. Ids'
  BY <1>2 DEF Ids, AtSend, NotSent, Named, HasResult
<1>names. Names'
  BY <1>2 DEF Names
<1>7. Positions'
  BY <1>2 DEF Positions
<1>8. LockAsked' /\ LockGiven'
  BY DEF LockAsked, LockGiven
<1>9. LockKept'
  BY <1>2 DEF LockKept, Sound, Reads, OnlyDownLoads
<1>10. Served'
  BY <1>2 DEF Served
<1> QED
  BY <1>3, <1>7, <1>8, <1>9, <1>10, <1>ids, <1>names

LEMMA ClientDropsIInv ==
  ASSUME TransferInv, ClientDrops
  PROVE  TransferInv'
<1>1. Scalars
  BY DEF TransferInv, Basic
<1>3. Scalars'
  BY <1>1 DEF ClientDrops, Scalars
<1>4. /\ link # "new" /\ link' # "new" /\ link' # "up" /\ clientcon' # "live"
      /\ "dropped" \in reasons'
  BY <1>1 DEF ClientDrops, Scalars
<1> QED
  BY <1>3, <1>4, ClientEnds DEF ClientDrops

LEMMA ClientGoneIInv ==
  ASSUME TransferInv, ClientGone
  PROVE  TransferInv'
<1>1. Scalars /\ Ends
  BY DEF TransferInv, Basic
<1>2. UNCHANGED <<link, toSrv, pc, file, pkg, waitId, fWaitMethodId, nextId, curResultPkg,
                  fbusystate, fUpdownFiles, curRemoteFile, curfilePosition, curOpFile, mutex, late, mixed, reasons,
                  crashed, serverVars>>
      /\ clientcon = "down" /\ clientcon' = "gone" /\ toCli' = <<>>
  BY DEF ClientGone, waits, queue, current, history
<1>3. Scalars'
  BY <1>1, <1>2 DEF Scalars
<1>4. link # "new" /\ link # "up" /\ "dropped" \in reasons
  BY <1>1, <1>2 DEF Ends
<1> QED
  BY <1>2, <1>3, <1>4, ClientEnds

\* The server answers the request r: what Me reads stays read unless r gives
\* the lock back, and a lock that is granted is held.
LEMMA Handled ==
  ASSUME TransferInv, TablesInv', Mine, toSrv # <<>>, UNCHANGED clientVars, UNCHANGED phase,
         NEW err \in {"ok", "busy", "missing", "end"}, NEW total \in Absent .. MaxBlocks,
         Answer(err, total),
         NEW r, r = Head(toSrv),
         r.m = "DownLoad" => (err = "ok" => r.pos < total), r.m # "DownLoad" => err # "end",
         r.m # "UnLockFile" => \A f \in Files : Reads(f) => Reads(f)',
         r.m = "LockFile" /\ err = "ok" => Reads(r.f)'
  PROVE  TransferInv'
<1> USE DEF TransferInv, Basic, Turns
<1> DEFINE a == [m |-> r.m, id |-> r.id, err |-> err, pos |-> r.pos, total |-> total]
           n == Len(toCli) + 1
<1>1. UNCHANGED <<link, clientcon, nextId, waitId, fWaitMethodId, late, mixed, reasons,
                  crashed, curResultPkg, fbusystate, fUpdownFiles, file, curRemoteFile,
                  curfilePosition, curOpFile, mutex, pc, pkg>>
  BY DEF clientVars, waits, queue, current, rest, history, Answer
<1>2. /\ toSrv' = Tail(toSrv)
      /\ toCli' = IF phase[Me] = "live" /\ link = "up" THEN Append(toCli, a) ELSE toCli
  BY DEF Answer
<1>3. /\ toSrv' \in Seq(Requests) /\ r \in Requests /\ 1 \in DOMAIN toSrv
      /\ r = toSrv[1] /\ Asked(r)
      /\ \A i \in DOMAIN toSrv' : i \in Nat \ {0} /\ i + 1 \in DOMAIN toSrv /\ toSrv'[i] = toSrv[i + 1]
  BY <1>2, Taken DEF Messages
<1>4. /\ a \in Results /\ Answered(a)
      /\ a.m = r.m /\ a.id = r.id /\ a.pos = r.pos /\ a.err = err
  BY <1>3 DEF Requests, Results, Asked, Answered
<1> HIDE DEF a
<1>5. toCli \in Seq(Results)
  BY DEF Messages
<1>6. /\ toCli' \in Seq(Results)
      /\ \A i \in DOMAIN toCli' :
           (i \in DOMAIN toCli /\ toCli'[i] = toCli[i]) \/ (i = n /\ toCli'[i] = a)
      /\ \A i \in DOMAIN toCli : i \in DOMAIN toCli' /\ toCli'[i] = toCli[i]
      /\ phase[Me] = "live" /\ link = "up" => n \in DOMAIN toCli' /\ toCli'[n] = a
  <2>1. CASE toCli' = toCli /\ ~(phase[Me] = "live" /\ link = "up")
    BY <1>5, <2>1
  <2>2. CASE toCli' = Append(toCli, a)
    <3>1. n \in DOMAIN toCli' /\ \A i \in DOMAIN toCli' : i \in DOMAIN toCli \/ i = n
      BY <1>4, <1>5, <2>2, Appended
    <3> QED
      BY <1>4, <1>5, <2>2, <3>1, Appended
  <2> QED
    BY <1>2, <2>1, <2>2
<1> HIDE DEF n
<1>7. /\ Downloading' = Downloading /\ Turn' = Turn /\ (Sound <=> Sound')
  BY <1>1 DEF Downloading, Turn, InTurn, Sound
<1>13. Messages'
  <2>1. \A i \in DOMAIN toCli' : Answered(toCli'[i])
    BY <1>4, <1>6 DEF Messages
  <2>2. \A p \in Parsers : HasResult(p)' => pkg'[p] \in Results /\ Answered(pkg'[p])
    BY <1>1 DEF Messages, HasResult
  <2>3. \A i \in DOMAIN toSrv' : i \in Nat /\ i + 1 \in DOMAIN toSrv /\ toSrv'[i] = toSrv[i + 1]
    BY <1>3
  <2>4. 1 \in {0, 1}
    OBVIOUS
  <2> QED
    BY <1>1, <1>3, <1>6, <2>1, <2>2, <2>3, <2>4, MessagesKept
<1>14. Threading' /\ Scalars'
  BY <1>1 DEF Threading, Scalars, Results, Absent
<1>15. Ends'
  BY <1>1 DEF Ends, Mine
<1> SUFFICES ASSUME ~mixed' PROVE Turns'
  BY <1>13, <1>14, <1>15
<1>turns. ~mixed /\ Turns
  BY <1>1
<1> USE <1>turns DEF Turns
<1>8. r.m = "DownLoad" =>
        /\ 1 \in DownLoads(toSrv) /\ DownLoads(toSrv)' = {} /\ DownLoads(toCli) = {} /\ Turn = {}
        /\ fbusystate # 0
  <2> SUFFICES ASSUME r.m = "DownLoad"
               PROVE  /\ 1 \in DownLoads(toSrv) /\ DownLoads(toSrv)' = {} /\ DownLoads(toCli) = {}
                      /\ Turn = {} /\ fbusystate # 0
    OBVIOUS
  <2>1. 1 \in DownLoads(toSrv)
    BY <1>3 DEF DownLoads
  <2>2. \A i \in DownLoads(toSrv) : i = 1
    BY <2>1 DEF OneTurn, Lone
  <2>3. ASSUME NEW i \in DownLoads(toSrv)' PROVE FALSE
    <3>1. i \in Nat \ {0} /\ i + 1 \in DownLoads(toSrv)
      BY <1>3, <2>3 DEF DownLoads
    <3> QED
      BY <2>2, <3>1
  <2> QED
    BY <2>1, <2>3 DEF OneTurn
<1>9. \A i \in DownLoads(toSrv)' : i \in Nat /\ i + 1 \in DownLoads(toSrv) /\ toSrv'[i] = toSrv[i + 1]
  BY <1>3 DEF DownLoads
<1>10. \A i \in DownLoads(toCli)' :
         (i \in DownLoads(toCli) /\ toCli'[i] = toCli[i]) \/ (i = n /\ toCli'[i] = a /\ r.m = "DownLoad")
  BY <1>4, <1>6 DEF DownLoads
<1>11. DownLoads(toCli) \subseteq DownLoads(toCli)'
  BY <1>6 DEF DownLoads
<1>12. OneTurn'
  <2>1. ASSUME NEW i \in DownLoads(toSrv)', NEW j \in DownLoads(toSrv)' PROVE i = j
    <3>1. i \in Nat /\ j \in Nat /\ i + 1 \in DownLoads(toSrv) /\ j + 1 \in DownLoads(toSrv)
      BY <1>9, <2>1
    <3>2. i + 1 = j + 1
      BY <3>1 DEF OneTurn, Lone
    <3> QED
      BY <3>1, <3>2
  <2>2. DownLoads(toSrv)' # {} => DownLoads(toSrv) # {} /\ r.m # "DownLoad"
    BY <1>8, <1>9
  <2>3. Lone(DownLoads(toCli)')
    BY <1>8, <1>10 DEF OneTurn, Lone
  <2>4. r.m # "DownLoad" => DownLoads(toCli)' = DownLoads(toCli)
    BY <1>10, <1>11
  <2> QED
    BY <1>1, <1>7, <1>8, <2>1, <2>2, <2>3, <2>4 DEF OneTurn, Lone
<1>16. Names'
  <2>1. DownLoads(toSrv)' # {} \/ DownLoads(toCli)' # {} =>
          DownLoads(toSrv) # {} \/ DownLoads(toCli) # {}
    BY <1>8, <1>9, <1>10
  <2> QED
    BY <1>1, <1>7, <2>1 DEF Names
<1>17. Positions'
  <2>2. clientcon = "live" => \A i \in DownLoads(toSrv)' : toSrv'[i].pos = curfilePosition
    BY <1>9 DEF Positions
  <2>3. clientcon = "live" => \A i \in DownLoads(toCli)' : toCli'[i].pos = curfilePosition
    BY <1>3, <1>4, <1>8, <1>10 DEF Positions
  <2> QED
    BY <1>1, <1>7, <2>2, <2>3 DEF Positions
<1>18. LockAsked'
  <2> SUFFICES ASSUME Sound', clientcon' = "live", NEW t \in Threads, pc'[t] = "lockWait"
               PROVE  /\ \A i \in DOMAIN toSrv' :
                           toSrv'[i].id = nextId' - 1 =>
                             toSrv'[i].m = "LockFile" /\ toSrv'[i].f = Target(t)'
                      /\ \A i \in DOMAIN toCli' : AnswerCounts(t, toCli[i])'
                      /\ \A q \in Parsers : HasResult(q)' => AnswerCounts(t, pkg[q])'
                      /\ \A q \in Parsers : Stored(q)' =>
                           (curResultPkg' = "ok" => Reads(Target(t))')
    BY DEF LockAsked
  <2>1. Sound /\ clientcon = "live" /\ pc[t] = "lockWait" /\ Target(t)' = Target(t)
    BY <1>1, <1>7 DEF Target
  <2>2. \A i \in DOMAIN toSrv :
          toSrv[i].id = nextId - 1 => toSrv[i].m = "LockFile" /\ toSrv[i].f = Target(t)
    BY <2>1 DEF LockAsked
  <2>3. /\ \A i \in DOMAIN toCli : toCli[i].id # nextId - 1
        /\ \A q \in Parsers : HasResult(q) => pkg[q].id # nextId - 1
    BY <2>1 DEF LockAsked, AnswerCounts
  <2>4. DownLoads(toSrv) = {}
    BY <2>1, UiLocks, HasTurn DEF InTurn, ChainStates, Threads, Locking
  <2>5. r.id = nextId - 1 => toSrv' = <<>> /\ (err = "ok" => Reads(Target(t))')
    <3> SUFFICES ASSUME r.id = nextId - 1 PROVE toSrv' = <<>> /\ (err = "ok" => Reads(Target(t))')
      OBVIOUS
    <3>1. r.m = "LockFile" /\ r.f = Target(t)
      BY <1>3, <2>2
    <3>2. ASSUME NEW i \in DOMAIN toSrv' PROVE FALSE
      <4>1. i \in Nat \ {0} /\ i + 1 \in DOMAIN toSrv /\ 1 < i + 1
        BY <1>3, <3>2
      <4>2. toSrv[i + 1] \in Requests /\ Asked(toSrv[i + 1])
        BY <4>1 DEF Messages
      <4>3. toSrv[i + 1].id # 0
        BY <2>1, <2>4, <4>1 DEF DownLoads, Ids, Named, Sound
      <4>4. r.id # 0
        BY <1>3, <2>1, <3>1 DEF Ids, Named, Sound
      <4>5. r.id < toSrv[i + 1].id /\ toSrv[i + 1].id < nextId
        BY <1>3, <4>1, <4>2, <4>3, <4>4 DEF Messages, Asked
      <4>6. r.id \in Nat /\ toSrv[i + 1].id \in Nat /\ nextId \in Nat
        BY <1>3, <4>2 DEF Requests, Threading
      <4> QED
        BY <4>5, <4>6
    <3>3. toSrv' = <<>>
      BY <1>3, <3>2
    <3> QED
      BY <2>1, <3>1, <3>3 DEF Reads
  <2>6. \A i \in DOMAIN toSrv' :
          toSrv'[i].id = nextId' - 1 => toSrv'[i].m = "LockFile" /\ toSrv'[i].f = Target(t)'
    BY <1>1, <1>3, <2>1, <2>2
  <2>7. \A i \in DOMAIN toCli' : AnswerCounts(t, toCli[i])'
    BY <1>1, <1>4, <1>6, <2>3, <2>5 DEF AnswerCounts
  <2>8. \A q \in Parsers : HasResult(q)' => AnswerCounts(t, pkg[q])' /\ pkg'[q].id # nextId' - 1
    BY <1>1, <2>3 DEF AnswerCounts, HasResult
  <2> QED
    BY <2>6, <2>7, <2>8 DEF HasResult, Stored
<1>19. LockGiven'
  BY <1>1, <1>7 DEF LockGiven
<1>20. LockKept'
  <2> SUFFICES ASSUME Sound
               PROVE  /\ \A i \in DownLoads(toSrv)' :
                           /\ Reads(toSrv[i].f)' /\ OnlyDownLoads'
                           /\ clientcon' = "live" => toSrv'[i].f = curRemoteFile'
                      /\ clientcon' = "live" /\ (DownLoads(toCli)' # {} \/ Downloading' # {}) =>
                           Reads(curRemoteFile)' /\ OnlyDownLoads'
    BY <1>7 DEF LockKept
  <2>1. OnlyDownLoads => OnlyDownLoads' /\ r.m = "DownLoad"
    BY <1>3 DEF OnlyDownLoads
  <2>2. \A i \in DOMAIN toSrv : toSrv[i] \in Requests /\ toSrv[i].f \in Files
    <3>1. \A i \in DOMAIN toSrv : toSrv[i] \in Requests
      BY DEF Messages
    <3> QED
      BY <3>1 DEF Requests
  <2>3. ASSUME NEW i \in DownLoads(toSrv)'
        PROVE  /\ Reads(toSrv[i].f)' /\ OnlyDownLoads'
               /\ clientcon' = "live" => toSrv'[i].f = curRemoteFile'
    <3>1. i + 1 \in DownLoads(toSrv) /\ toSrv'[i] = toSrv[i + 1]
      BY <1>9, <2>3
    <3>2. /\ Reads(toSrv[i + 1].f) /\ OnlyDownLoads
          /\ clientcon = "live" => toSrv[i + 1].f = curRemoteFile
      BY <3>1 DEF LockKept
    <3>3. toSrv[i + 1].f \in Files
      BY <2>2, <3>1 DEF DownLoads
    <3>4. \A f \in Files : Reads(f) => Reads(f)'
      BY <2>1, <3>2
    <3>5. Reads(toSrv[i].f)'
      BY <3>1, <3>2, <3>3, <3>4 DEF Reads
    <3> QED
      BY <1>1, <2>1, <3>1, <3>2, <3>5
  <2>4. ASSUME clientcon = "live", DownLoads(toCli)' # {} \/ Downloading' # {}
        PROVE  Reads(curRemoteFile)' /\ OnlyDownLoads'
    <3>1. Reads(curRemoteFile) /\ OnlyDownLoads
      <4>1. CASE r.m = "DownLoad"
        BY <1>3, <1>8, <2>4, <4>1 DEF LockKept
      <4>2. CASE r.m # "DownLoad"
        BY <1>7, <1>10, <2>4, <4>2 DEF LockKept
      <4> QED
        BY <4>1, <4>2
    <3>2. curRemoteFile \in Files
      <4>1. CASE r.m = "DownLoad"
        BY <1>8, <2>4, <4>1 DEF Names
      <4>2. CASE r.m # "DownLoad"
        BY <1>7, <1>10, <2>4, <4>2 DEF Names, Downloading, Turn, InTurn
      <4> QED
        BY <4>1, <4>2
    <3>3. \A f \in Files : Reads(f) => Reads(f)'
      BY <2>1, <3>1
    <3> QED
      BY <1>1, <2>1, <3>1, <3>2, <3>3 DEF Reads
  <2> QED
    BY <1>1, <2>3, <2>4
<1>21. Served'
  <2>1. link = "up" => phase[Me] = "live"
    BY DEF Ends
  <2>2. link = "up" /\ r.m = "DownLoad" => DownLoads(toCli)' # {}
    BY <1>4, <1>6, <2>1 DEF DownLoads
  <2>3. DownLoads(toSrv) # {} /\ r.m # "DownLoad" => DownLoads(toSrv)' # {}
    <3> SUFFICES ASSUME NEW i \in DownLoads(toSrv), r.m # "DownLoad" PROVE DownLoads(toSrv)' # {}
      OBVIOUS
    <3>1. toSrv \in Seq(Requests) /\ i \in DOMAIN toSrv /\ toSrv[i].m = "DownLoad" /\ i # 1
      BY <1>3 DEF Messages, DownLoads
    <3>2. i - 1 \in DOMAIN Tail(toSrv) /\ Tail(toSrv)[i - 1] = toSrv[i]
      BY <3>1
    <3> QED
      BY <1>2, <3>1, <3>2 DEF DownLoads
  <2> QED
    BY <1>1, <1>7, <1>11, <2>2, <2>3 DEF Served
<1>22. Ids'
  <2>1. NotSent => NotSent'
    BY <1>1, <1>3, <1>4, <1>6 DEF NotSent, HasResult
  <2>2. Named => Named'
    BY <1>1, <1>3, <1>4, <1>6 DEF Named, HasResult
  <2> QED
    BY <1>1, <2>1, <2>2 DEF Ids, AtSend
<1> QED
  BY <1>12, <1>16, <1>17, <1>18, <1>19, <1>20, <1>21, <1>22

LEMMA HandleIInv ==
  ASSUME TransferInv, Handle
  PROVE  TransferInv'
<1> USE DEF TransferInv, Basic, Turns
<1>6. PICK r : r = Head(toSrv)
  OBVIOUS
<1>1. Mine /\ toSrv # <<>> /\ UNCHANGED clientVars
  BY DEF Handle
<1>2. r \in Requests
  BY <1>1, <1>6, Taken DEF Messages
<1>3. r.f \in Files /\ r.pos \in Nat
  BY <1>2 DEF Requests
<1>4. 0 \in Absent .. MaxBlocks /\ size[r.f] \in Absent .. MaxBlocks
  BY <1>3, BlocksAssumption DEF Absent, TablesInv, TypeOK
<1>5. \/ r.m = "LockFile" /\ LockFile(Me, r.f, TRUE) /\ Answer(LockResult(Me, r.f, TRUE), 0)
      \/ r.m = "UnLockFile" /\ UnlockFile(Me, r.f, TRUE) /\ Answer("ok", 0)
      \/ /\ r.m = "DownLoad" /\ Answer(DownLoadError(r.f, r.pos), size[r.f])
         /\ UNCHANGED serverVars
  BY <1>6 DEF Handle
<1>7. CASE r.m = "LockFile" /\ LockFile(Me, r.f, TRUE) /\ Answer(LockResult(Me, r.f, TRUE), 0)
  <2>1. TablesInv'
    BY <1>3, <1>7, MeAssumption, LockFileTables
  <2>2. UNCHANGED phase /\ \A f \in Files : Reads(f) => Reads(f)'
    BY <1>7, <1>3 DEF LockFile, tables, Reads, TablesInv, TypeOK
  <2>3. LockResult(Me, r.f, TRUE) \in {"ok", "busy", "missing"}
    BY DEF LockResult, LockError
  <2>4. ASSUME LockResult(Me, r.f, TRUE) = "ok" PROVE Reads(r.f)'
    <3>1. CASE Relock(Me, r.f, TRUE)
      BY <1>3, <2>2, <3>1 DEF Relock, Reads
    <3>2. CASE ~Relock(Me, r.f, TRUE)
      <4>1. LockError(r.f, TRUE) = "ok"
        BY <2>4, <3>2 DEF LockResult
      <4>2. fReadingFile' = [fReadingFile EXCEPT ![r.f] = @ \cup {Me}]
        BY <1>7, <3>2, <4>1 DEF LockFile
      <4> QED
        BY <1>3, <4>2 DEF Reads, TablesInv, TypeOK
    <3> QED
      BY <3>1, <3>2
  <2>5. LockResult(Me, r.f, TRUE) \in {"ok", "busy", "missing", "end"}
        /\ LockResult(Me, r.f, TRUE) # "end"
    BY <2>3
  <2> HIDE DEF TransferInv, Basic
  <2> QED
    BY <1>1, <1>4, <1>6, <1>7, <2>1, <2>2, <2>4, <2>5, Handled
<1>8. CASE r.m = "UnLockFile" /\ UnlockFile(Me, r.f, TRUE) /\ Answer("ok", 0)
  <2>1. TablesInv'
    BY <1>3, <1>8, MeAssumption, UnlockFileTables
  <2>2. UNCHANGED phase
    BY <1>8 DEF UnlockFile
  <2>3. "ok" \in {"ok", "busy", "missing", "end"}
    OBVIOUS
  <2> HIDE DEF TransferInv, Basic
  <2> QED
    BY <1>1, <1>4, <1>6, <1>8, <2>1, <2>2, <2>3, Handled
<1>9. CASE r.m = "DownLoad" /\ Answer(DownLoadError(r.f, r.pos), size[r.f]) /\ UNCHANGED serverVars
  <2>1. TablesInv'
    BY <1>9, NextTables
  <2>2. UNCHANGED phase /\ \A f \in Files : Reads(f) => Reads(f)'
    BY <1>9 DEF serverVars, Reads
  <2>3. DownLoadError(r.f, r.pos) \in {"ok", "busy", "missing", "end"}
    BY DEF DownLoadError
  <2>4. DownLoadError(r.f, r.pos) = "ok" => r.pos < size[r.f]
    BY <1>3, <1>4, BlocksAssumption DEF DownLoadError, Absent
  <2> HIDE DEF TransferInv, Basic
  <2> QED
    BY <1>1, <1>4, <1>6, <1>9, <2>1, <2>2, <2>3, <2>4, Handled
<1> QED
  BY <1>5, <1>7, <1>8, <1>9

LEMMA ClientStep ==
  ASSUME TransferInv, UiStep \/ (\E t \in Threads : Waiting(t)) \/ (\E p \in Parsers : Parser(p))
  PROVE  TransferInv'
<1>0. IInv' => TransferInv'
  BY DEF IInv, ClientInv, TransferInv
<1>1. CASE UiStep
  <2>1. ~mixed
    BY <1>1 DEF UiStep, DownLoadFile, QueueFile, StartDownLoad, Refused, Step
  <2>2. IInv
    BY <2>1 DEF IInv, ClientInv, TransferInv
  <2>3. ASSUME NEW f \in Files, DownLoadFile(f) PROVE IInv'
    <3>1. fbusystate = 1 \/ fbusystate = 0
      BY <2>3 DEF DownLoadFile
    <3> QED
      BY <2>2, <2>3, <3>1, QueueDownLoadIInv, LockDownLoadIInv
  <2> QED
    BY <1>0, <1>1, <2>2, <2>3, QueueFileIInv, StartDownLoadIInv, RefusedIInv DEF UiStep
<1>2. ASSUME NEW t \in Threads, Waiting(t) PROVE TransferInv'
  <2>1. ~mixed
    BY <1>2 DEF Waiting, SendLock, SendUnlock, SendRequest, NilResult, TimeOut, WakeUp, Step
  <2>2. IInv
    BY <2>1 DEF IInv, ClientInv, TransferInv
  <2>3. CASE SendLock(t) \/ SendUnlock(t)
    BY <1>0, <2>2, <2>3, SendRequestIInv DEF SendLock, SendUnlock
  <2> QED
    BY <1>0, <1>2, <2>2, <2>3, NilResultIInv, TimeOutIInv, WakeUpIInv DEF Waiting
<1>3. ASSUME NEW p \in Parsers, Parser(p) PROVE TransferInv'
  <2>1. ~mixed
    BY <1>3 DEF Parser, Receive, Expected, SetResult, ClearId, CreateFails, WriteBlock, LastBlock,
       OldBlock, NoFileOpen, Unlocked, Unlock, DoNextFile, NoMoreFiles, NextDownLoad, NextRefused,
       TakeFile, Step
  <2>2. IInv
    BY <2>1 DEF IInv, ClientInv, TransferInv
  <2>3. CASE OldBlock(p)
    BY <2>2, <2>3, OldBlockBasic DEF TransferInv
  <2>4. CASE Receive(p) \/ Expected(p) \/ SetResult(p) \/ ClearId(p) \/ NoFileOpen(p)
    BY <1>0, <2>2, <2>4, ReceiveIInv, ExpectedIInv, SetResultIInv, ClearIdIInv, NoFileOpenIInv
  <2>5. CASE CreateFails(p) \/ WriteBlock(p) \/ LastBlock(p) \/ Unlocked(p)
    BY <1>0, <2>2, <2>5, CreateFailsIInv, WriteBlockIInv, LastBlockIInv, UnlockedIInv
  <2>6. CASE DoNextFile(p) \/ NoMoreFiles(p) \/ NextDownLoad(p) \/ NextRefused(p)
             \/ \E f \in Files : TakeFile(p, f)
    BY <1>0, <2>2, <2>6, DoNextFileIInv, NoMoreFilesIInv, NextDownLoadIInv, NextRefusedIInv,
       TakeFileIInv
  <2> QED
    BY <1>3, <2>3, <2>4, <2>5, <2>6 DEF Parser
<1> QED
  BY <1>1, <1>2, <1>3

LEMMA NextInv == TransferInv /\ [TransferNext]_vars => TransferInv'
<1> SUFFICES ASSUME TransferInv, [TransferNext]_vars
             PROVE  TransferInv'
  OBVIOUS
<1>1. CASE UNCHANGED vars
  <2>1. /\ UNCHANGED serverVars /\ UNCHANGED <<net, clientVars>>
        /\ UNCHANGED phase /\ \A f \in Files : Reads(f)' <=> Reads(f)
    BY <1>1 DEF vars, serverVars, Reads
  <2>2. TablesInv'
    BY <2>1, NextTables DEF TransferInv
  <2> QED
    BY <2>1, <2>2, ServerMoves
<1>2. CASE TransferNext
  BY <1>2, ClientStep, ConnectIInv, HandleIInv, ServerDropsIInv, ServerPoolsIInv, ClientDropsIInv,
     ClientGoneIInv, PeerIInv DEF TransferNext
<1> QED
  BY <1>1, <1>2

LEMMA TransferInvHolds == TransferSpec => []TransferInv
<1>1. TransferInit => TransferInv
  BY InitIInv DEF IInv, ClientInv, TransferInv
<1> QED
  BY <1>1, NextInv, PTL DEF TransferSpec

-----------------------------------------------------------------------------
\* Every variable of the client, of the connection and of the server keeps its type.
THEOREM TypeCorrect == TransferSpec => []TransferTypeOK
<1>1. TransferInv => TransferTypeOK
  <2> SUFFICES ASSUME TransferInv PROVE TransferTypeOK
    OBVIOUS
  <2>1. fWaitMethodId \in 0 .. nextId
    BY DEF TransferInv, Basic, Threading
  <2> QED
    BY <2>1 DEF TransferInv, Basic, TablesInv, Messages, Threading, Scalars, TransferTypeOK,
       Requests, Results, Methods, ChainStates, OffTurn, Locking
<1> QED
  BY <1>1, TransferInvHolds, PTL

\* While FileClient asks for blocks the server keeps it as a reader of the file, unless
\* a parser went on with a result after its ExecuteWait had timed out, or an old block
\* went into the next file.
THEOREM LockHeld == TransferSpec => []DownLoadHoldsLock
<1>1. TransferInv => DownLoadHoldsLock
  BY DEF TransferInv, Turns, LockKept, Sound, Reads, DownLoadHoldsLock
<1> QED
  BY <1>1, TransferInvHolds, PTL

LEMMA AtMostOne ==
  ASSUME NEW S, Lone(S)
  PROVE  IF S = {} THEN Cardinality(S) = 0 ELSE Cardinality(S) = 1
<1>1. CASE S = {}
  BY <1>1, FS_EmptySet
<1>2. CASE S # {}
  <2>1. PICK x \in S : TRUE
    BY <1>2
  <2>2. S = {x}
    BY <2>1 DEF Lone
  <2> QED
    BY <1>2, <2>2, FS_Singleton
<1> QED
  BY <1>1, <1>2

LEMMA InFlightCounts ==
  ASSUME OneTurn
  PROVE  /\ InFlight <= 1
         /\ InFlight = 1 <=> DownLoads(toSrv) # {} \/ DownLoads(toCli) # {} \/ Downloading # {}
<1>1. Downloading \subseteq Turn
  BY DEF Downloading, Turn, InTurn
<1>2. Lone(DownLoads(toSrv)) /\ Lone(DownLoads(toCli)) /\ Lone(Downloading)
  BY <1>1 DEF OneTurn, Lone
<1>3. /\ DownLoads(toSrv) = {} \/ (DownLoads(toCli) = {} /\ Downloading = {})
      /\ DownLoads(toCli) = {} \/ Downloading = {}
  BY <1>1 DEF OneTurn
<1> QED
  BY <1>2, <1>3, AtMostOne DEF InFlight

\* DownLoadFile, parserRecvPkg and doNextFile never have two downloads under way,
\* and a block that comes is the next one of the local file, unless os.Create failed and
\* the block in hand was written into the next file.
THEOREM InOrder == TransferSpec => []BlocksInOrder
<1>1. TransferInv => BlocksInOrder
  BY InFlightCounts DEF TransferInv, Turns, Positions, BlocksInOrder
<1> QED
  BY <1>1, TransferInvHolds, PTL

\* Files wait only for a busy client, and a busy client has its download
\* somewhere, except for the reasons that the history names.
THEOREM QueueServed == TransferSpec => []QueueIsServed
<1>1. TransferInv => QueueIsServed
  <2> SUFFICES ASSUME TransferInv PROVE QueueIsServed
    OBVIOUS
  <2>1. Turn # {} => Downloading # {} \/ \E p \in Parsers : pc[p] \in ChainStates
    BY DEF Turn, InTurn, Downloading
  <2>2. ~mixed => OneTurn /\ Served
    BY DEF TransferInv, Turns
  <2> QED
    BY <2>1, <2>2, InFlightCounts DEF TransferInv, Served, QueueIsServed, ChainStates
<1> QED
  BY <1>1, TransferInvHolds, PTL

=============================================================================
