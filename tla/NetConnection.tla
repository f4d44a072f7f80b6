----------------------------- MODULE NetConnection -----------------------------
(***************************************************************************)
(* One pooled DxNetConnection of a DxTcpServer through several uses:       *)
(* ServerBase/dxnetconnection.go with the parts of dxNetSrv.go that touch  *)
(* a connection (accept loop, HandleDisConnectEvent, Done).                *)
(*                                                                         *)
(* Every goroutine is a thread with a program counter.  A use of the       *)
(* object posts three of them (reader, receiver, sender); PostFunc starts  *)
(* a goroutine after an arbitrary delay, so those of an old use may start  *)
(* in the next one.  Closers run the closure that PostClose posts, callers *)
(* are goroutines of the application that kept a pointer to the object.    *)
(* A panic in any goroutine ends the process: no step follows it.          *)
(***************************************************************************)
EXTENDS Integers, FiniteSets

CONSTANTS Closer,     \* slots for the closures posted by PostClose
          Caller,     \* application goroutines that hold the connection
          CloseFrom,  \* who calls Close(): a subset of {"caller", "handler"}
          WriteFrom,  \* who sends: a subset of {"caller", "handler"}
          QueueCap,   \* capacity of recvDataQueue (5 in the code)
          SendLimit,  \* LimitSendPkgCount: 0 sends from the calling goroutine
          HeartCheck, \* TimeOutSeconds = 0: idle connections are dropped
          Protocol,   \* the coder is an IProtocol: conCustomRead reads
          MaxUse,     \* bound: uses of the object
          MaxStats    \* bound: pending accounting closures that are followed

Use == 1 .. MaxUse
Role == {"reader", "receiver", "sender"}
Goroutine == Use \X Role
Thread == Goroutine \cup Closer \cup Caller

ASSUME ConstantsAssumption ==
  /\ CloseFrom \subseteq {"caller", "handler"}
  /\ WriteFrom \subseteq {"caller", "handler"}
  /\ QueueCap \in Nat \ {0} /\ SendLimit \in Nat
  /\ HeartCheck \in BOOLEAN /\ Protocol \in BOOLEAN
  /\ MaxUse \in Nat \ {0} /\ MaxStats \in Nat

ASSUME ThreadsAreDistinct ==
  /\ Goroutine \cap Closer = {}
  /\ Goroutine \cap Caller = {}
  /\ Closer \cap Caller = {}

VARIABLES
  unActive,     \* con.unActive: 1 once somebody is closing or has closed
  delayClosing, \* con.isDelayClosing: 1 while a closer is (said to be) posted
  sock,         \* con.con: "none" (nil), "open" or "closed"
  cancel,       \* con.selfcancelchan: "nil", "open" or "closed"
  host,         \* con.conHost # nil
  queues,       \* which of recvDataQueue ("recv") and sendDataQueue ("send") are made
  recvLen,      \* packages in recvDataQueue
  sendLen,      \* objects in sendDataQueue
  waitg,        \* con.waitg: the goroutines that did Add and not yet Done
  stats,        \* posted addDataSize2Host closures that have not run
  pooled,       \* how often the object lies in netpool
  use,          \* uses begun so far
  listed,       \* the keys under which the object is in srv.clients
  overtaken,    \* history: a teardown signed off before Run had entered the object
  srvWait,      \* units of srv.waitg held for this object
  srvDone,      \* srv.srvCloseChan is closed
  acc,          \* where the accept loop is
  pc,           \* where each thread is
  panic         \* "no", or the reason the process died

flags    == <<unActive, delayClosing>>
fields   == <<sock, cancel, host, queues>>
lengths  == <<recvLen, sendLen>>
server   == <<listed, overtaken, srvWait, srvDone, acc>>
identity == <<pooled, use>>
allButPc == <<flags, fields, lengths, waitg, stats, identity, server, panic>>
vars == <<flags, fields, lengths, waitg, stats, identity, server, pc, panic>>

PC == {"off", "posted", "reading", "putting", "stuck", "loop", "handling", "called",
       "offering", "sending", "writing", "check", "asked", "arm", "leave", "cas",
       "load", "storeFirst", "storeLate", "stop", "notify", "wait", "asleep",
       "clear", "release"}

Teardown == {"stop", "notify", "wait", "asleep", "clear", "release"}
Reasons == {"no", "nil", "send", "close", "waitgroup"}

\* How far Run is with a connection it has accepted.
Stages == {"idle", "accepted", "taken", "armed", "made", "named", "entered", "ready",
           "serve"}

TypeOK ==
  /\ unActive \in 0 .. 1 /\ delayClosing \in 0 .. 1
  /\ sock \in {"none", "open", "closed"}
  /\ cancel \in {"nil", "open", "closed"}
  /\ host \in BOOLEAN /\ queues \subseteq {"recv", "send"}
  /\ recvLen \in 0 .. QueueCap /\ sendLen \in 0 .. SendLimit
  /\ waitg \subseteq Goroutine
  /\ stats \in 0 .. MaxStats
  /\ pooled \in Nat /\ use \in 0 .. MaxUse
  /\ listed \subseteq {"own", "zero"} /\ overtaken \in BOOLEAN
  /\ srvWait \in Int /\ srvDone \in BOOLEAN /\ acc \in Stages
  /\ pc \in [Thread -> PC]
  /\ panic \in Reasons

Init ==
  /\ unActive = 0 /\ delayClosing = 0
  /\ sock = "none" /\ cancel = "nil" /\ host = FALSE /\ queues = {}
  /\ recvLen = 0 /\ sendLen = 0
  /\ waitg = {} /\ stats = 0
  /\ pooled = 0 /\ use = 0
  /\ listed = {} /\ overtaken = FALSE
  /\ srvWait = 0 /\ srvDone = FALSE /\ acc = "idle"
  /\ pc = [t \in Thread |-> "off"]
  /\ panic = "no"

--------------------------------------------------------------------------------
(* Helpers *)

Goto(t, from, to) == pc[t] = from /\ pc' = [pc EXCEPT ![t] = to]

\* The process dies at this step and nothing else changes.
Panic(reason) ==
  /\ panic' = reason
  /\ UNCHANGED <<flags, fields, lengths, waitg, stats, identity, server, pc>>

InRole(t, role) == t \in Goroutine /\ t[2] = role
InLoop(t) == InRole(t, "receiver") \/ InRole(t, "sender")

\* Where a thread continues after a write, a PostClose or a Close: a reader
\* returns, a counted receiver or sender goes back to its loop, and whoever is
\* not counted in waitg has nothing more to do.
After(t) == IF t \notin waitg THEN "off"
            ELSE IF InRole(t, "reader") THEN "leave" ELSE "loop"

\* PostFunc(addDataSize2Host): closures beyond the bound are not followed.
PostStats == stats' = IF stats < MaxStats THEN stats + 1 ELSE stats

\* con.ConHandle, the key in srv.clients: it is set and cleared with conHost.
Key == IF host THEN "own" ELSE "zero"

\* con.UnActive()
IsUnActive == sock = "none" \/ unActive = 1
--------------------------------------------------------------------------------
(* Faulty variants of the steps below: each run replaces one step by its      *)
(* variant to see that its property notices.                                  *)

\* The queue of received packages has no bound.
PutUnbounded(t) ==
  /\ Goto(t, "putting", "reading")
  /\ recvLen' = recvLen + 1
  /\ UNCHANGED <<flags, fields, sendLen, waitg, stats, identity, server, panic>>

\* Receiver and sender end without PostClose.
LeaveQuietly(t) ==
  /\ Goto(t, "leave", "off")
  /\ waitg' = waitg \ {t}
  /\ UNCHANGED <<flags, fields, lengths, stats, identity, server, panic>>

\* PostClose sets its flag and posts nothing.
ArmWithoutCloser(t) ==
  /\ Goto(t, "arm", After(t))
  /\ delayClosing' = 1
  /\ UNCHANGED <<unActive, fields, lengths, waitg, stats, identity, server, panic>>

\* The closure stores 1 where it should compare and swap.
ClaimUnguarded(t) ==
  /\ Goto(t, "cas", "stop")
  /\ unActive' = 1
  /\ UNCHANGED <<delayClosing, fields, lengths, waitg, stats, identity, server, panic>>

\* Close() goes on when the connection was closed, and returns when it was not.
StoreSwapped(t) ==
  /\ \/ Goto(t, "storeLate", "stop")
     \/ Goto(t, "storeFirst", After(t))
  /\ unActive' = 1
  /\ UNCHANGED <<delayClosing, fields, lengths, waitg, stats, identity, server, panic>>

\* realClose does not close the cancel channel.
StopWithoutCancel(t) ==
  /\ Goto(t, "stop", "notify")
  /\ unActive' = 1 /\ delayClosing' = 0
  /\ sock' = "closed"
  /\ UNCHANGED <<cancel, host, queues, lengths, waitg, stats, identity, server, panic>>

\* HandleDisConnectEvent drops the client and forgets the wait group.
NotifyWithoutDone(t) ==
  /\ host
  /\ Goto(t, "notify", "wait")
  /\ listed' = listed \ {Key}
  /\ UNCHANGED <<flags, fields, lengths, waitg, stats, identity, overtaken, srvWait,
                 srvDone, acc, panic>>

\* realClose does not wait for the goroutines.
WaitSkipped(t) ==
  /\ Goto(t, "wait", "clear")
  /\ UNCHANGED allButPc
--------------------------------------------------------------------------------
(* The accept loop, DxTcpServer.Run: a closer that was posted in the last use  *)
(* may run between any two of its accesses to the object.                      *)

\* Run goes from one stage to the next.
Stage(from, to) == acc = from /\ acc' = to

\* Accept returns a connection: Run goes on with it although Close() may begin.
Accept ==
  /\ Stage("idle", "accepted")
  /\ ~srvDone /\ use < MaxUse
  /\ UNCHANGED <<flags, fields, lengths, waitg, stats, identity, listed, overtaken,
                 srvWait, srvDone, pc, panic>>

\* The server counts it, and the pool gives this object, which gets its con.
Adopt ==
  /\ Stage("accepted", "taken")
  /\ use < MaxUse /\ (use = 0 \/ pooled > 0)
  /\ srvWait' = srvWait + 1
  /\ use' = use + 1
  /\ pooled' = IF use = 0 THEN pooled ELSE pooled - 1
  /\ sock' = "open"
  /\ UNCHANGED <<flags, cancel, host, queues, lengths, waitg, stats, listed, overtaken,
                 srvDone, pc, panic>>

\* unActive is set to 0; isDelayClosing keeps the value it had.
Activate ==
  /\ Stage("taken", "armed")
  /\ unActive' = 0
  /\ UNCHANGED <<delayClosing, fields, lengths, waitg, stats, identity, listed,
                 overtaken, srvWait, srvDone, pc, panic>>

MakeCancel ==
  /\ Stage("armed", "made")
  /\ cancel' = "open"
  /\ UNCHANGED <<flags, sock, host, queues, lengths, waitg, stats, identity, listed,
                 overtaken, srvWait, srvDone, pc, panic>>

\* ConHandle and conHost: a closer that comes in between meets the nil host.
SetHost ==
  /\ Stage("made", "named")
  /\ host' = TRUE
  /\ UNCHANGED <<flags, sock, cancel, queues, lengths, waitg, stats, identity, listed,
                 overtaken, srvWait, srvDone, pc, panic>>

\* srv.clients[dxcon.ConHandle] = dxcon, under the lock.
Insert ==
  /\ Stage("named", "entered")
  /\ listed' = listed \cup {Key}
  /\ UNCHANGED <<flags, fields, lengths, waitg, stats, identity, overtaken, srvWait,
                 srvDone, pc, panic>>

\* init() makes a queue and posts the goroutine that serves it.  Whoever puts
\* into a queue that an overtaken use left behind stays there.
InitReceiver ==
  /\ Stage("entered", IF SendLimit > 0 THEN "ready" ELSE "serve")
  /\ queues' = queues \cup {"recv"} /\ recvLen' = 0
  /\ pc' = [t \in Thread |-> IF t = <<use, "receiver">> THEN "posted"
                             ELSE IF pc[t] = "putting" THEN "stuck" ELSE pc[t]]
  /\ UNCHANGED <<flags, sock, cancel, host, sendLen, waitg, stats, identity, listed,
                 overtaken, srvWait, srvDone, panic>>

InitSender ==
  /\ Stage("ready", "serve")
  /\ queues' = queues \cup {"send"} /\ sendLen' = 0
  /\ pc' = [pc EXCEPT ![<<use, "sender">>] = "posted"]
  /\ UNCHANGED <<flags, sock, cancel, host, recvLen, waitg, stats, identity, listed,
                 overtaken, srvWait, srvDone, panic>>

\* OnClientConnect has returned: run() is posted.
Serve ==
  /\ Stage("serve", "idle")
  /\ pc' = [pc EXCEPT ![<<use, "reader">>] = "posted"]
  /\ UNCHANGED <<flags, fields, lengths, waitg, stats, identity, listed, overtaken,
                 srvWait, srvDone, panic>>

Register == Activate \/ MakeCancel \/ SetHost \/ Insert \/ InitReceiver \/ InitSender
            \/ Serve

\* DxTcpServer.Close() closes srvCloseChan (and waits for srv.waitg).
SrvClose ==
  /\ ~srvDone
  /\ srvDone' = TRUE
  /\ UNCHANGED <<flags, fields, lengths, waitg, stats, identity, listed, overtaken,
                 srvWait, acc, pc, panic>>
--------------------------------------------------------------------------------
(* Goroutines start and leave *)

\* run() and checkHeartorSendData() dereference conHost and do waitg.Add(1).
\* If the counter has just come down to zero under a sleeping Wait, the
\* WaitGroup may notice the reuse and panic in the waiter.
\* A protocol reader keeps the socket it started with: on a closed one its
\* first read fails, whatever becomes of con.con later.
Begin(t) ==
  /\ t \in Goroutine /\ pc[t] = "posted"
  /\ \/ /\ ~host
        /\ Panic("nil")
     \/ /\ host /\ waitg = {}
        /\ \E c \in Thread : pc[c] = "asleep"
        /\ Panic("waitgroup")
     \/ /\ host
        /\ waitg' = waitg \cup {t}
        /\ pc' = [pc EXCEPT ![t] =
                    IF ~InRole(t, "reader") THEN "loop"
                    ELSE IF Protocol /\ sock = "closed" THEN "check"
                    ELSE "reading"]
        /\ UNCHANGED <<flags, fields, lengths, stats, identity, server, panic>>

\* waitg.Done(): the reader's is deferred to its end, receiver and sender call
\* PostClose(0) after it.
Leave(t) ==
  /\ Goto(t, "leave", IF InRole(t, "reader") THEN "off" ELSE "check")
  /\ waitg' = waitg \ {t}
  /\ UNCHANGED <<flags, fields, lengths, stats, identity, server, panic>>
--------------------------------------------------------------------------------
(* The reader: conRead, or conCustomRead for a protocol *)

\* A complete package arrives and is decoded; its size is posted to the host.  A
\* reader of an old use may find no recvDataQueue yet: to put into nil never ends.
ReadPackage(t) ==
  /\ Goto(t, "reading", IF "recv" \in queues THEN "putting" ELSE "stuck")
  /\ sock = "open"
  /\ PostStats
  /\ UNCHANGED <<flags, fields, lengths, waitg, identity, server, panic>>

\* recvDataQueue <- pkg blocks while the queue is full.
Put(t) ==
  /\ Goto(t, "putting", "reading")
  /\ recvLen < QueueCap
  /\ recvLen' = recvLen + 1
  /\ UNCHANGED <<flags, fields, sendLen, waitg, stats, identity, server, panic>>

\* The peer closes or fails, a deadline passes, a package cannot be decoded,
\* BeforeRead or AfterRead refuses: PostClose.
ReadFail(t) ==
  /\ Goto(t, "reading", "check")
  /\ sock = "open"
  /\ UNCHANGED allButPc

\* ParserProtocol reports an error: conCustomRead returns without PostClose.
ParseFail(t) ==
  /\ Goto(t, "reading", "leave")
  /\ Protocol /\ sock = "open"
  /\ UNCHANGED allButPc

\* Reading from a closed socket fails; conRead panics on con.con = nil.
ReadClosed(t) ==
  \/ /\ Goto(t, "reading", "check")
     /\ sock = "closed" \/ (Protocol /\ sock = "none")
     /\ UNCHANGED allButPc
  \/ /\ pc[t] = "reading"
     /\ ~Protocol /\ sock = "none"
     /\ Panic("nil")
--------------------------------------------------------------------------------
(* The select loops of checkHeartorSendData *)

Take(t) ==
  \/ /\ Goto(t, "loop", "handling")
     /\ InRole(t, "receiver") /\ "recv" \in queues /\ recvLen > 0
     /\ recvLen' = recvLen - 1
     /\ UNCHANGED <<flags, fields, sendLen, waitg, stats, identity, server, panic>>
  \/ /\ Goto(t, "loop", "sending")
     /\ InRole(t, "sender") /\ "send" \in queues /\ sendLen > 0
     /\ sendLen' = sendLen - 1
     /\ UNCHANGED <<flags, fields, recvLen, waitg, stats, identity, server, panic>>

\* selfcancelchan or the host's Done() is closed.
Stop(t) ==
  /\ Goto(t, "loop", "leave")
  /\ InLoop(t) /\ (cancel = "closed" \/ srvDone)
  /\ UNCHANGED allButPc

\* The two-second tick finds the connection idle for 110 seconds.
HeartFail(t) ==
  /\ Goto(t, "loop", "leave")
  /\ InRole(t, "receiver") /\ HeartCheck /\ host
  /\ UNCHANGED allButPc

\* The tick asks the host whether to check the heart: nil after a teardown.
HeartPanic(t) ==
  /\ pc[t] = "loop" /\ InRole(t, "receiver")
  /\ HeartCheck /\ ~host
  /\ Panic("nil")
--------------------------------------------------------------------------------
(* What the application does with the connection: OnRecvData runs in the       *)
(* receiver, callers run by themselves.  Each does one operation at a time.    *)

\* OnClientConnect gives the application the object, and it may keep it.
Known == use > 1 \/ (use = 1 /\ acc \in {"serve", "idle", "accepted"})

MayWrite(t) == \/ t \in Caller /\ pc[t] = "off" /\ Known /\ "caller" \in WriteFrom
               \/ pc[t] = "handling" /\ "handler" \in WriteFrom

HandlerReturns(t) ==
  /\ Goto(t, "handling", After(t))
  /\ UNCHANGED allButPc

\* WriteObject refuses when conHost is nil ...
WriteObject(t) ==
  /\ MayWrite(t) /\ host
  /\ pc' = [pc EXCEPT ![t] = "called"]
  /\ UNCHANGED allButPc

\* ... and then reads conHost again, to send itself or to wait on Done().
EnterWrite(t) ==
  /\ pc[t] = "called"
  /\ \/ /\ ~host
        /\ Panic("nil")
     \/ /\ host
        /\ pc' = [pc EXCEPT ![t] = IF SendLimit = 0 THEN "sending" ELSE "offering"]
        /\ UNCHANGED allButPc

\* sendDataQueue <- obj
Offer(t) ==
  /\ Goto(t, "offering", After(t))
  /\ "send" \in queues /\ sendLen < SendLimit
  /\ sendLen' = sendLen + 1
  /\ UNCHANGED <<flags, fields, recvLen, waitg, stats, identity, server, panic>>

\* 500 ms without room in the queue, or the host is done: PostClose.
OfferGiveUp(t) ==
  /\ Goto(t, "offering", "check")
  /\ UNCHANGED allButPc

\* SendData asks UnActive() first.
SendData(t) ==
  /\ Goto(t, "sending", IF IsUnActive THEN After(t) ELSE "writing")
  /\ UNCHANGED allButPc

\* writeBytes: the peer takes the bytes, and their number is posted to the host.
WriteOk(t) ==
  /\ Goto(t, "writing", After(t))
  /\ sock = "open"
  /\ PostStats
  /\ UNCHANGED <<flags, fields, lengths, waitg, identity, server, panic>>

\* writeBytes: the peer is gone.
WriteFail(t) ==
  /\ Goto(t, "writing", "check")
  /\ sock = "open"
  /\ UNCHANGED allButPc

\* writeBytes on a socket that was closed, or on con.con = nil.
WriteClosed(t) ==
  \/ /\ Goto(t, "writing", "check")
     /\ sock = "closed"
     /\ UNCHANGED allButPc
  \/ /\ sock = "none" /\ pc[t] = "writing"
     /\ Panic("nil")

\* addDataSize2Host dereferences conHost whenever its goroutine gets to run.
Account ==
  /\ stats > 0
  /\ \/ /\ ~host
        /\ Panic("nil")
     \/ /\ host
        /\ stats' = stats - 1
        /\ UNCHANGED <<flags, fields, lengths, waitg, identity, server, pc, panic>>
--------------------------------------------------------------------------------
(* PostClose, its closure, Close and realClose *)

\* PostClose loads unActive ...
CheckUnActive(t) ==
  /\ Goto(t, "check", IF unActive = 1 THEN After(t) ELSE "asked")
  /\ UNCHANGED allButPc

\* ... and then isDelayClosing.
CheckDelayClosing(t) ==
  /\ Goto(t, "asked", IF delayClosing = 1 THEN After(t) ELSE "arm")
  /\ UNCHANGED allButPc

\* PostClose: the winner of the compare-and-swap posts the closer.
ArmClosing(t) ==
  /\ pc[t] = "arm"
  /\ \/ /\ delayClosing = 1
        /\ pc' = [pc EXCEPT ![t] = After(t)]
        /\ UNCHANGED delayClosing
     \/ /\ delayClosing = 0
        /\ delayClosing' = 1
        /\ \E c \in Closer :
             /\ pc[c] = "off"
             /\ pc' = [pc EXCEPT ![t] = After(t), ![c] = "cas"]
  /\ UNCHANGED <<unActive, fields, lengths, waitg, stats, identity, server, panic>>

\* The closure: only the one that turns unActive from 0 to 1 closes.
Claim(t) ==
  /\ Goto(t, "cas", IF unActive = 0 THEN "stop" ELSE "off")
  /\ unActive' = 1
  /\ UNCHANGED <<delayClosing, fields, lengths, waitg, stats, identity, server, panic>>

\* Close() is called by a caller or by the handler of a package.
CallClose(t) ==
  /\ \/ t \in Caller /\ pc[t] = "off" /\ Known /\ "caller" \in CloseFrom
     \/ pc[t] = "handling" /\ "handler" \in CloseFrom
  /\ pc' = [pc EXCEPT ![t] = "load"]
  /\ UNCHANGED allButPc

\* UnActiveSet(true) loads the old value ...
LoadUnActive(t) ==
  /\ Goto(t, "load", IF unActive = 0 THEN "storeFirst" ELSE "storeLate")
  /\ UNCHANGED allButPc

\* ... and stores 1; Close() goes on if the value it loaded was 0.
StoreUnActive(t) ==
  /\ \/ Goto(t, "storeFirst", "stop")
     \/ Goto(t, "storeLate", After(t))
  /\ unActive' = 1
  /\ UNCHANGED <<delayClosing, fields, lengths, waitg, stats, identity, server, panic>>

\* realClose: the flags, con.con.Close() and close(selfcancelchan).
StopConnection(t) ==
  /\ pc[t] = "stop"
  /\ \/ /\ sock = "none"
        /\ Panic("nil")
     \/ /\ sock # "none" /\ cancel = "closed"
        /\ Panic("close")
     \/ /\ sock # "none" /\ cancel # "closed"
        /\ pc' = [pc EXCEPT ![t] = "notify"]
        /\ unActive' = 1 /\ delayClosing' = 0
        /\ sock' = "closed"
        /\ cancel' = IF cancel = "nil" THEN "nil" ELSE "closed"
        /\ UNCHANGED <<host, queues, lengths, waitg, stats, identity, server, panic>>

\* realClose: HandleDisConnectEvent drops the client and does srv.waitg.Done().
Notify(t) ==
  /\ pc[t] = "notify"
  /\ \/ /\ ~host
        /\ Panic("nil")
     \/ /\ host /\ srvWait <= 0
        /\ Panic("waitgroup")
     \/ /\ host /\ srvWait > 0
        /\ pc' = [pc EXCEPT ![t] = "wait"]
        /\ listed' = listed \ {Key}
        /\ overtaken' = (overtaken \/ acc = "named")
        /\ srvWait' = srvWait - 1
        /\ UNCHANGED <<flags, fields, lengths, waitg, stats, identity, srvDone,
                       acc, panic>>

\* realClose: waitg.Wait() returns at once or goes to sleep.
Wait(t) ==
  /\ Goto(t, "wait", IF waitg = {} THEN "clear" ELSE "asleep")
  /\ UNCHANGED allButPc

WakeUp(t) ==
  /\ Goto(t, "asleep", "clear")
  /\ waitg = {}
  /\ UNCHANGED allButPc

\* Whoever offers to a queue, or waits to put into one, when it is closed.
Sends(s) == \/ pc[s] = "putting" /\ "recv" \in queues
            \/ pc[s] = "offering" /\ "send" \in queues

\* realClose: the queues are closed and the fields reset.  A sender panics.
Clear(t) ==
  /\ pc[t] = "clear"
  /\ \/ /\ \E s \in Thread : Sends(s)
        /\ Panic("send")
     \/ /\ \A s \in Thread : ~Sends(s)
        /\ pc' = [pc EXCEPT ![t] = "release"]
        /\ cancel' = "nil" /\ sock' = "none"
        /\ host' = FALSE /\ queues' = {}
        /\ recvLen' = 0 /\ sendLen' = 0
        /\ UNCHANGED <<flags, waitg, stats, identity, server, panic>>

\* realClose: netpool.Put(con).
Release(t) ==
  /\ Goto(t, "release", After(t))
  /\ pooled' = pooled + 1
  /\ UNCHANGED <<flags, fields, lengths, waitg, stats, use, server, panic>>
--------------------------------------------------------------------------------
\* Steps a goroutine takes by itself.
Internal(t) ==
  /\ pc[t] # "off"
  /\ \/ Begin(t) \/ Leave(t) \/ Put(t) \/ ReadClosed(t)
     \/ Take(t) \/ Stop(t) \/ HeartPanic(t)
     \/ EnterWrite(t) \/ Offer(t) \/ OfferGiveUp(t) \/ SendData(t) \/ WriteClosed(t)
     \/ CheckUnActive(t) \/ CheckDelayClosing(t) \/ ArmClosing(t) \/ Claim(t)
     \/ LoadUnActive(t) \/ StoreUnActive(t) \/ StopConnection(t) \/ Notify(t)
     \/ Wait(t) \/ WakeUp(t) \/ Clear(t) \/ Release(t)

\* Steps the handler decides on: it is assumed to return in the end.
Handler(t) == HandlerReturns(t) \/ WriteObject(t) \/ CallClose(t)

\* Steps that wait for the peer, the clock or the application.
External(t) ==
  \/ ReadPackage(t) \/ ReadFail(t) \/ ParseFail(t) \/ HeartFail(t)
  \/ WriteOk(t) \/ WriteFail(t)

Step(t) == Internal(t) \/ Handler(t) \/ External(t)

Next == panic = "no" /\ (Accept \/ Adopt \/ Register \/ SrvClose \/ Account
                         \/ \E t \in Thread : Step(t))

Spec == Init /\ [][Next]_vars

\* Every goroutine gets its turn, the accept loop and posted closures included,
\* and a handler comes to an end.  A select that finds the cancel channel
\* ready again and again takes that case some time, as it chooses at random.
\* Nothing is assumed of the peer, of the heart check and of callers.
Alive(A) == panic = "no" /\ A

Fairness ==
  /\ WF_vars(Alive(Register)) /\ WF_vars(Alive(Account))
  /\ \A t \in Thread : WF_vars(Alive(Internal(t)))
  /\ \A u \in Use : WF_vars(Alive(pc[<<u, "receiver">>] = "handling"
                               /\ Handler(<<u, "receiver">>)))
  /\ \A t \in Use \X {"receiver", "sender"} : SF_vars(Alive(Stop(t)))

FairSpec == Spec /\ Fairness
--------------------------------------------------------------------------------
(* What must hold *)

\* A connection is torn down by one thread at a time, and never through a
\* second close of its cancel channel (realClose, guarded by unActive).
OneTeardown ==
  /\ \A s, t \in Thread : pc[s] \in Teardown /\ pc[t] \in Teardown => s = t
  /\ panic # "close"

\* No reader is waiting to put a package into recvDataQueue when realClose
\* closes it: waitg covers every reader that can still have one.
ReaderSparedByClear ==
  \A s, t \in Thread : ~(pc[s] = "putting" /\ pc[t] = "clear")

\* srv.waitg holds one unit for a connection that Run has taken and nobody signed
\* off, and none for an object in the pool; a counted connection is in srv.clients
\* once Run has entered it, and the map has no other entry, unless a closer of an
\* old use signed off before Run entered the object: that entry is of no connection.
ServerCountsClients ==
  /\ srvWait \in 0 .. 1
  /\ pooled > 0 => srvWait = 0 /\ pooled = 1
  /\ srvWait = 1 /\ acc \notin {"taken", "armed", "made", "named"} => "own" \in listed
  /\ listed # {} /\ ~overtaken => srvWait = 1

\* During the first use of the object isDelayClosing = 1 means what PostClose
\* takes it for: somebody is on the way to close an open connection.
RequestedCloseIsPending ==
  delayClosing = 1 /\ unActive = 0 => \E c \in Closer : pc[c] = "cas"

\* The object serves its connections as ConnSession says.
Phase == IF use = 0 \/ pooled > 0 \/ acc = "taken" THEN "free"
         ELSE IF unActive = 0 THEN "live"
         ELSE IF srvWait > 0 THEN "closing" ELSE "gone"

Session == INSTANCE ConnSession
             WITH phase <- Phase, opened <- IF acc = "taken" THEN use - 1 ELSE use,
                  signedOff <- use - srvWait

ImplementsSession == Session!SessionSpec

Died == panic # "no"

\* Liveness, first use.  Whoever calls PostClose gets the connection closed.
CloseRequestIsServed ==
  (\E t \in Goroutine : pc[t] = "check") ~> unActive = 1 \/ Died

\* The reader waits for room in recvDataQueue and nobody takes from it any more:
\* the receiver left first, and waitg.Wait() waits for the reader.
ReaderIsWedged ==
  /\ recvLen = QueueCap
  /\ \E t \in Goroutine : pc[t] = "putting"
  /\ \A t \in Goroutine : InRole(t, "receiver") => pc[t] \in {"off", "check", "asked", "arm"}

\* A teardown that has begun puts the object back into the pool, unless the
\* reader is wedged.
TeardownCompletes ==
  (\E t \in Thread : pc[t] = "stop") ~> pooled > 0 \/ ReaderIsWedged \/ Died

\* What the README says of an idle connection: when the heart check fails (or
\* the receiver leaves for another reason) the connection is closed.
IdleConnectionIsClosed ==
  (\E u \in Use : pc[<<u, "receiver">>] = "leave") ~> unActive = 1 \/ Died

\* Close() called by the application, from outside or in a handler: the socket
\* does not stay open, whoever wins the race against the closers.
CloseTakesEffect ==
  (\E t \in Thread : pc[t] = "load") ~> sock # "open" \/ Died

\* A handler that calls Close() gets through it, and the object is released.
HandlerMayClose ==
  (\E u \in Use : pc[<<u, "receiver">>] = "load") ~> pooled > 0 \/ Died

\* DxTcpServer.Close() returns, if sending goes through a queue: its wait group is
\* released, by a connection whose registration was under way as well.
ServerCloseDrains == srvDone ~> srvWait = 0 \/ Died
================================================================================
