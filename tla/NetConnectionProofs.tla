-------------------------- MODULE NetConnectionProofs --------------------------
(***************************************************************************)
(* Theorems about NetConnection.  Type correctness holds without any       *)
(* condition; the others assume that the application leaves closing to the *)
(* library (CloseFrom = {}), because two unsynchronised Close() calls do   *)
(* break them.  RequestedCloseIsPending again needs no condition.          *)
(***************************************************************************)
EXTENDS NetConnection, TLAPS

AppClosing == {"load", "storeFirst", "storeLate"}

\* Run has taken the object and has not set its conHost yet, or not entered it.
Unhosted == {"taken", "armed", "made"}
Registering == Unhosted \cup {"named"}

\* Before the first use nothing has happened to the object, and nobody has it
\* while Run takes it for the first time.
FreshInv ==
  /\ use = 0 => /\ pooled = 0 /\ srvWait = 0 /\ unActive = 0 /\ acc \in {"idle", "accepted"}
                /\ host = FALSE /\ cancel = "nil"
                /\ \A t \in Thread : pc[t] = "off"
  /\ use = 1 /\ acc = "taken" => \A t \in Thread : pc[t] = "off"

\* In the pool the object is closed, signed off and cleared.
PoolInv ==
  pooled > 0 => /\ pooled = 1 /\ unActive = 1 /\ srvWait = 0
                /\ host = FALSE /\ cancel = "nil" /\ acc \notin Unhosted

\* A closer of an old use may claim the object before Run has set its host: it
\* cannot get beyond "notify".  A counted connection has its host from then on.
EarlyInv ==
  /\ acc \in Unhosted => use > 0 /\ pooled = 0 /\ srvWait = 1 /\ host = FALSE
  /\ acc = "taken" => cancel = "nil" /\ (use > 1 => unActive = 1)
  /\ srvWait = 1 /\ acc \notin Unhosted => host = TRUE

LiveInv == use > 0 /\ unActive = 0 => srvWait = 1 /\ cancel # "closed"

TeardownInv ==
  \A t \in Thread :
    /\ pc[t] \in Teardown => unActive = 1 /\ use > 0 /\ pooled = 0 /\ acc # "taken"
    /\ pc[t] \in {"stop", "notify"} => srvWait = 1
    /\ pc[t] \in {"wait", "asleep", "clear", "release"} => srvWait = 0 /\ acc \notin Unhosted
    /\ pc[t] = "stop" => cancel # "closed"
    /\ pc[t] \in {"notify", "wait", "asleep", "clear"} => sock = "closed"
    /\ pc[t] = "release" => host = FALSE /\ cancel = "nil"

\* The map has the counted connection once it is entered, and another entry only
\* if a teardown overtook Run.
ServerInv ==
  /\ srvWait \in 0 .. 1
  /\ srvWait = 1 /\ acc \notin Registering => "own" \in listed
  /\ ~overtaken => /\ listed \subseteq {"own"}
                   /\ listed # {} \/ acc = "named" => srvWait = 1

ReaderInv == \A t \in Thread : pc[t] \in {"reading", "putting"} => t \in waitg

NoAppClose == \A t \in Thread : pc[t] \notin AppClosing

SafeInv == /\ FreshInv /\ PoolInv /\ EarlyInv /\ LiveInv /\ TeardownInv
           /\ ServerInv /\ ReaderInv /\ NoAppClose
           /\ OneTeardown /\ ReaderSparedByClear

\* The inductive invariant.
IInv == TypeOK /\ SafeInv
--------------------------------------------------------------------------------
(* Type correctness *)

\* Where a thread goes on after a write, a PostClose or a Close.
LEMMA AfterRange ==
  ASSUME NEW t
  PROVE  After(t) \in {"off", "leave", "loop"}
BY DEF After

\* A thread that moves to a known place keeps pc well typed.
LEMMA GotoType ==
  ASSUME TypeOK, NEW t \in Thread, NEW from, NEW to \in PC, Goto(t, from, to)
  PROVE  pc' \in [Thread -> PC]
BY DEF TypeOK, Goto

\* The initial state has the types.
LEMMA InitType == Init => TypeOK
<1> SUFFICES ASSUME Init PROVE TypeOK
  OBVIOUS
<1>1. /\ host \in BOOLEAN /\ queues \subseteq {"recv", "send"} /\ listed \subseteq {"own", "zero"}
      /\ overtaken \in BOOLEAN /\ srvDone \in BOOLEAN /\ acc \in Stages
  BY DEF Init, Stages
<1>2. pc \in [Thread -> PC]
  BY DEF Init, PC
<1>3. /\ stats \in 0 .. MaxStats /\ use \in 0 .. MaxUse
      /\ recvLen \in 0 .. QueueCap /\ sendLen \in 0 .. SendLimit
  BY ConstantsAssumption DEF Init
<1> QED
  BY <1>1, <1>2, <1>3 DEF Init, TypeOK, Reasons

\* The end of the process keeps the types.
LEMMA PanicType ==
  ASSUME TypeOK, NEW reason \in Reasons, Panic(reason)
  PROVE  TypeOK'
BY DEF TypeOK, Panic, flags, fields, lengths, server, identity

\* A thread that moves on keeps the types.
LEMMA MoveType ==
  ASSUME TypeOK, UNCHANGED allButPc, pc' \in [Thread -> PC]
  PROVE  TypeOK'
BY DEF TypeOK, allButPc, flags, fields, lengths, server, identity

\* Every step leaves every variable within its type.
LEMMA StepType == TypeOK /\ [Next]_vars => TypeOK'
<1> SUFFICES ASSUME TypeOK, [Next]_vars PROVE TypeOK'
  OBVIOUS
<1> USE DEF allButPc, flags, fields, lengths, server, identity
<1>1. CASE UNCHANGED vars
  BY <1>1 DEF TypeOK, vars
<1>2. CASE Accept \/ Adopt
  <2>1. CASE Accept
    <3>1. /\ acc' = "accepted"
          /\ UNCHANGED <<flags, fields, lengths, waitg, stats, identity, listed, overtaken,
                         srvWait, srvDone, pc, panic>>
      BY <2>1 DEF Accept, Stage
    <3> QED BY <3>1 DEF TypeOK, Stages
  <2>2. CASE Adopt
    <3>1. use < MaxUse
      BY <2>2 DEF Adopt
    <3>2. /\ acc' = "taken" /\ sock' = "open" /\ srvWait' = srvWait + 1 /\ use' = use + 1
          /\ pooled' \in {pooled, pooled - 1} /\ (pooled' # pooled => pooled > 0)
          /\ UNCHANGED <<flags, cancel, host, queues, lengths, waitg, stats, listed, overtaken,
                         srvDone, pc, panic>>
      BY <2>2 DEF Adopt, Stage
    <3>3. pooled' \in Nat /\ use' \in 0 .. MaxUse /\ srvWait' \in Int
      BY <3>1, <3>2, ConstantsAssumption DEF TypeOK
    <3> QED BY <3>2, <3>3 DEF TypeOK, Stages
  <2> QED BY <1>2, <2>1, <2>2
<1>3. CASE Activate \/ MakeCancel \/ SetHost \/ Insert
  <2>1. /\ acc' \in Stages /\ unActive' \in {unActive, 0} /\ host' \in {host, TRUE}
        /\ cancel' \in {cancel, "open"}
    BY <1>3 DEF Activate, MakeCancel, SetHost, Insert, Stage, Stages, flags, fields
  <2>2. listed' \subseteq {"own", "zero"}
    BY <1>3 DEF Activate, MakeCancel, SetHost, Insert, Key, TypeOK
  <2>3. UNCHANGED <<delayClosing, sock, queues, lengths, waitg, stats, identity, overtaken,
                    srvWait, srvDone, pc, panic>>
    BY <1>3 DEF Activate, MakeCancel, SetHost, Insert
  <2>4. unActive \in 0 .. 1 /\ host \in BOOLEAN /\ cancel \in {"nil", "open", "closed"}
    BY DEF TypeOK
  <2>5. unActive' \in 0 .. 1
    BY <2>1, <2>4, SMT
  <2>6. host' \in BOOLEAN /\ cancel' \in {"nil", "open", "closed"}
    BY <2>1, <2>4, Zenon
  <2> QED BY <2>1, <2>2, <2>3, <2>5, <2>6 DEF TypeOK
<1>4. CASE InitReceiver \/ InitSender \/ Serve
  <2>1. pc' \in [Thread -> PC]
    BY <1>4 DEF InitReceiver, InitSender, Serve, TypeOK, PC
  <2>2. queues' \subseteq {"recv", "send"}
    BY <1>4 DEF InitReceiver, InitSender, Serve, TypeOK
  <2>3. recvLen' \in {recvLen, 0} /\ sendLen' \in {sendLen, 0} /\ acc' \in Stages
    BY <1>4 DEF InitReceiver, InitSender, Serve, Stage, Stages
  <2>4. UNCHANGED <<flags, sock, cancel, host, waitg, stats, identity, listed, overtaken,
                    srvWait, srvDone, panic>>
    BY <1>4 DEF InitReceiver, InitSender, Serve
  <2> QED BY <2>1, <2>2, <2>3, <2>4, ConstantsAssumption DEF TypeOK
<1>5. CASE SrvClose
  BY <1>5 DEF SrvClose, TypeOK
<1>6. CASE Account
  <2>1. CASE Panic("nil")
    BY <2>1, PanicType DEF Reasons
  <2>2. CASE ~Panic("nil")
    <3>1. stats' \in 0 .. MaxStats
      BY <1>6, <2>2, ConstantsAssumption DEF Account, TypeOK
    <3>2. UNCHANGED <<flags, fields, lengths, waitg, identity, server, pc, panic>>
      BY <1>6, <2>2 DEF Account
    <3> QED BY <3>1, <3>2 DEF TypeOK
  <2> QED BY <2>1, <2>2
<1>7. ASSUME NEW t \in Thread, Internal(t) PROVE TypeOK'
  <2>0. After(t) \in PC
    BY AfterRange DEF PC
  <2>1. CASE Begin(t)
    <3>1. CASE ~host /\ Panic("nil")
      BY <3>1, PanicType DEF Reasons
    <3>2. CASE Panic("waitgroup")
      BY <3>2, PanicType DEF Reasons
    <3>3. CASE ~(~host /\ Panic("nil")) /\ ~Panic("waitgroup")
      BY <2>1, <3>3 DEF Begin, TypeOK, PC
    <3> QED BY <3>1, <3>2, <3>3
  <2>2. CASE Leave(t)
    BY <2>2 DEF Leave, Goto, TypeOK, PC
  <2>3. CASE Put(t)
    BY <2>3, ConstantsAssumption DEF Put, Goto, TypeOK, PC
  <2>4. CASE ReadClosed(t)
    BY <2>4, PanicType, MoveType, GotoType DEF ReadClosed, Reasons, PC
  <2>5. CASE Take(t)
    <3>1. pc' \in [Thread -> PC]
      BY <2>5 DEF Take, Goto, TypeOK, PC
    <3>2. recvLen' \in 0 .. QueueCap /\ sendLen' \in 0 .. SendLimit
      BY <2>5, ConstantsAssumption DEF Take, TypeOK
    <3>3. UNCHANGED <<flags, fields, waitg, stats, identity, server, panic>>
      BY <2>5 DEF Take
    <3> QED BY <3>1, <3>2, <3>3 DEF TypeOK
  <2>6. CASE Stop(t) \/ HeartPanic(t)
    BY <2>6, PanicType, MoveType, GotoType DEF Stop, HeartPanic, Reasons, PC
  <2>7. CASE EnterWrite(t)
    BY <2>7, PanicType DEF EnterWrite, TypeOK, Reasons, PC
  <2>8. CASE Offer(t)
    BY <2>0, <2>8, ConstantsAssumption DEF Offer, Goto, TypeOK
  <2>9. CASE OfferGiveUp(t) \/ SendData(t) \/ CheckUnActive(t) \/ CheckDelayClosing(t)
                \/ LoadUnActive(t) \/ Wait(t) \/ WakeUp(t)
    <3>1. \E from, to \in PC : Goto(t, from, to)
      BY <2>0, <2>9 DEF OfferGiveUp, SendData, CheckUnActive, CheckDelayClosing,
                        LoadUnActive, Wait, WakeUp, PC
    <3>2. UNCHANGED allButPc
      BY <2>9 DEF OfferGiveUp, SendData, CheckUnActive, CheckDelayClosing, LoadUnActive,
                  Wait, WakeUp
    <3> QED BY <3>1, <3>2, GotoType, MoveType
  <2>10. CASE WriteClosed(t)
    BY <2>10, PanicType, MoveType, GotoType DEF WriteClosed, Reasons, PC
  <2>11. CASE ArmClosing(t)
    <3>1. pc' \in [Thread -> PC]
      BY <2>0, <2>11 DEF ArmClosing, TypeOK, PC
    <3> QED BY <2>11, <3>1 DEF ArmClosing, TypeOK
  <2>12. CASE Claim(t)
    BY <2>12 DEF Claim, Goto, TypeOK, PC
  <2>13. CASE StoreUnActive(t)
    BY <2>0, <2>13 DEF StoreUnActive, Goto, TypeOK, PC
  <2>14. CASE StopConnection(t)
    <3>1. CASE Panic("nil") \/ Panic("close")
      BY <3>1, PanicType DEF Reasons
    <3>2. CASE ~(Panic("nil") \/ Panic("close"))
      <4>1. pc' \in [Thread -> PC]
        BY <2>14, <3>2 DEF StopConnection, TypeOK, PC
      <4>2. /\ unActive' = 1 /\ delayClosing' = 0 /\ sock' = "closed"
            /\ cancel' \in {"nil", "closed"}
            /\ UNCHANGED <<host, queues, lengths, waitg, stats, identity, server, panic>>
        BY <2>14, <3>2 DEF StopConnection
      <4> QED BY <4>1, <4>2 DEF TypeOK
    <3> QED BY <3>1, <3>2
  <2>15. CASE Notify(t)
    <3>1. CASE Panic("nil") \/ Panic("waitgroup")
      BY <3>1, PanicType DEF Reasons
    <3>2. CASE ~(Panic("nil") \/ Panic("waitgroup"))
      <4>1. pc' \in [Thread -> PC]
        BY <2>15, <3>2 DEF Notify, TypeOK, PC
      <4>2. /\ listed' \subseteq listed /\ overtaken' \in BOOLEAN /\ srvWait' = srvWait - 1
            /\ UNCHANGED <<flags, fields, lengths, waitg, stats, identity, srvDone,
                           acc, panic>>
        BY <2>15, <3>2 DEF Notify, TypeOK
      <4> QED BY <4>1, <4>2 DEF TypeOK
    <3> QED BY <3>1, <3>2
  <2>16. CASE Clear(t)
    <3>1. CASE Panic("send")
      BY <3>1, PanicType DEF Reasons
    <3>2. CASE ~Panic("send")
      <4>1. pc' \in [Thread -> PC]
        BY <2>16, <3>2 DEF Clear, TypeOK, PC
      <4>2. /\ cancel' = "nil" /\ sock' = "none"
            /\ host' \in BOOLEAN /\ queues' = {}
            /\ recvLen' = 0 /\ sendLen' = 0
            /\ UNCHANGED <<flags, waitg, stats, identity, server, panic>>
        BY <2>16, <3>2 DEF Clear
      <4> QED BY <4>1, <4>2, ConstantsAssumption DEF TypeOK
    <3> QED BY <3>1, <3>2
  <2>17. CASE Release(t)
    BY <2>0, <2>17 DEF Release, Goto, TypeOK
  <2> QED
    BY <1>7, <2>1, <2>2, <2>3, <2>4, <2>5, <2>6, <2>7, <2>8, <2>9, <2>10, <2>11,
       <2>12, <2>13, <2>14, <2>15, <2>16, <2>17 DEF Internal
<1>8. ASSUME NEW t \in Thread, Handler(t) PROVE TypeOK'
  <2>1. pc' \in [Thread -> PC]
    BY <1>8, AfterRange DEF Handler, HandlerReturns, WriteObject, CallClose, Goto,
                            TypeOK, PC
  <2> QED
    BY <1>8, <2>1, MoveType DEF Handler, HandlerReturns, WriteObject, CallClose
<1>10. CASE Register
  BY <1>3, <1>4, <1>10 DEF Register
<1>9. ASSUME NEW t \in Thread, External(t) PROVE TypeOK'
  <2>1. After(t) \in PC
    BY AfterRange DEF PC
  <2>2. CASE ReadPackage(t) \/ WriteOk(t)
    <3>1. pc' \in [Thread -> PC]
      BY <2>1, <2>2 DEF ReadPackage, WriteOk, Goto, TypeOK, PC
    <3>2. stats' \in 0 .. MaxStats
      BY <2>2, ConstantsAssumption DEF ReadPackage, WriteOk, PostStats, TypeOK
    <3>3. UNCHANGED <<flags, fields, lengths, waitg, identity, server, panic>>
      BY <2>2 DEF ReadPackage, WriteOk
    <3> QED BY <3>1, <3>2, <3>3 DEF TypeOK
  <2>3. CASE ReadFail(t) \/ ParseFail(t) \/ HeartFail(t) \/ WriteFail(t)
    BY <2>3, MoveType, GotoType DEF ReadFail, ParseFail, HeartFail, WriteFail, PC
  <2> QED
    BY <1>9, <2>2, <2>3 DEF External
<1> QED
  BY <1>1, <1>2, <1>5, <1>6, <1>7, <1>8, <1>9, <1>10 DEF Next, Step

\* Every variable keeps its type, whatever the application does: no flag, queue
\* length, counter of posted closures or program counter leaves its range.
THEOREM TypeCorrect == Spec => []TypeOK
BY InitType, StepType, PTL DEF Spec
--------------------------------------------------------------------------------
(* The inductive invariant *)

USE DEF Unhosted, Registering

\* Places that put no obligation on the rest of the state.
Harmless == PC \ (Teardown \cup AppClosing \cup {"reading", "putting"})

coreVars == <<unActive, sock, cancel, host, waitg, pooled, use, listed, overtaken, srvWait,
              acc, panic>>

\* A pooled object and no threads.
LEMMA InitInv == Init => IInv
<1> SUFFICES ASSUME Init PROVE IInv
  OBVIOUS
<1>1. TypeOK
  BY InitType
<1>2. \A t \in Thread : pc[t] = "off"
  BY DEF Init
<1>3. /\ unActive = 0 /\ sock = "none" /\ cancel = "nil" /\ host = FALSE
      /\ pooled = 0 /\ use = 0 /\ srvWait = 0 /\ acc = "idle" /\ panic = "no"
      /\ listed = {} /\ overtaken = FALSE
  BY DEF Init
<1> QED
  BY <1>1, <1>2, <1>3 DEF IInv, SafeInv, FreshInv, PoolInv, EarlyInv, LiveInv,
     TeardownInv, ServerInv, ReaderInv, NoAppClose, OneTeardown,
     ReaderSparedByClear, Teardown, AppClosing

\* A panic changes nothing the invariant speaks of but its reason.
LEMMA PanicInv ==
  ASSUME IInv, NEW reason, reason # "close", Panic(reason)
  PROVE  SafeInv'
BY DEF IInv, SafeInv, FreshInv, PoolInv, EarlyInv, LiveInv, TeardownInv, ServerInv,
   ReaderInv, NoAppClose, OneTeardown, ReaderSparedByClear, Panic, flags, fields,
   lengths, server, identity

\* A thread that goes to a harmless place preserves the invariant.
LEMMA MoveInv ==
  ASSUME IInv, NEW t \in Thread, pc[t] # "off" \/ Known, NEW to \in PC,
         to \in Harmless \/ (to = "reading" /\ t \in waitg),
         pc' = [pc EXCEPT ![t] = to], UNCHANGED coreVars
  PROVE  SafeInv'
<1>1. \A s \in Thread : pc'[s] = IF s = t THEN to ELSE pc[s]
  BY DEF IInv, TypeOK
<1>2. to \notin Teardown /\ to \notin AppClosing /\ to # "putting"
  BY DEF Harmless, Teardown, AppClosing
<1>0. use > 0 /\ ~(use = 1 /\ acc = "taken")
  BY ConstantsAssumption DEF Known, IInv, TypeOK, SafeInv, FreshInv
<1>3. FreshInv' /\ PoolInv' /\ EarlyInv' /\ LiveInv' /\ ServerInv'
  BY <1>0 DEF IInv, SafeInv, FreshInv, PoolInv, EarlyInv, LiveInv, ServerInv, coreVars
<1>4. TeardownInv' /\ NoAppClose' /\ OneTeardown'
  BY <1>1, <1>2 DEF IInv, SafeInv, TeardownInv, NoAppClose, OneTeardown, coreVars,
                    Teardown
<1>5. ReaderInv' /\ ReaderSparedByClear'
  BY <1>1, <1>2 DEF IInv, SafeInv, ReaderInv, ReaderSparedByClear, coreVars,
                    Teardown, Harmless
<1> QED
  BY <1>3, <1>4, <1>5 DEF SafeInv

\* A thread that is somewhere has been started by a use of the object.
LEMMA SomewhereInUse ==
  ASSUME IInv, NEW t \in Thread, pc[t] # "off"
  PROVE  use > 0 /\ ~(use = 1 /\ acc = "taken")
BY ConstantsAssumption DEF IInv, TypeOK, SafeInv, FreshInv

\* Accept concerns no object yet.
LEMMA AcceptInv == ASSUME IInv, Accept PROVE SafeInv'
<1>1. /\ acc = "idle" /\ acc' = "accepted"
      /\ UNCHANGED <<unActive, sock, cancel, host, waitg, pooled, use, listed, overtaken,
                     srvWait, pc, panic>>
  BY DEF Accept, Stage, flags, fields, identity
<1>2. FreshInv' /\ PoolInv' /\ EarlyInv' /\ LiveInv' /\ ServerInv'
  BY <1>1 DEF IInv, SafeInv, FreshInv, PoolInv, EarlyInv, LiveInv, ServerInv
<1>3. TeardownInv' /\ OneTeardown' /\ ReaderSparedByClear'
  BY <1>1 DEF IInv, SafeInv, TeardownInv, OneTeardown, ReaderSparedByClear
<1>4. ReaderInv' /\ NoAppClose'
  BY <1>1 DEF IInv, SafeInv, ReaderInv, NoAppClose
<1> QED
  BY <1>2, <1>3, <1>4 DEF SafeInv

\* Run takes the object from the pool, where nobody is tearing it down.
LEMMA AdoptInv == ASSUME IInv, Adopt PROVE SafeInv'
<1>1. /\ acc = "accepted" /\ acc' = "taken" /\ use' = use + 1 /\ sock' = "open"
      /\ srvWait' = srvWait + 1 /\ (use = 0 \/ pooled > 0)
      /\ pooled' = IF use = 0 THEN pooled ELSE pooled - 1
      /\ UNCHANGED <<unActive, cancel, host, waitg, listed, overtaken, pc, panic>>
  BY DEF Adopt, Stage, flags
<1>2. /\ pooled \in Nat /\ use \in Nat /\ srvWait = 0 /\ host = FALSE /\ cancel = "nil"
      /\ (use > 0 => unActive = 1) /\ (use = 0 => \A t \in Thread : pc[t] = "off")
      /\ pooled' = 0 /\ use' > 0 /\ srvWait' = 1 /\ (use' = 1 => use = 0)
  BY <1>1, ConstantsAssumption DEF IInv, TypeOK, SafeInv, FreshInv, PoolInv
<1>3. \A t \in Thread : pc[t] \notin Teardown
  BY <1>1, <1>2 DEF IInv, SafeInv, TeardownInv, FreshInv, Teardown
<1>4. FreshInv' /\ PoolInv' /\ EarlyInv' /\ LiveInv'
  BY <1>1, <1>2 DEF FreshInv, PoolInv, EarlyInv, LiveInv
<1>5. ServerInv'
  BY <1>1, <1>2 DEF IInv, SafeInv, ServerInv
<1>6. TeardownInv' /\ OneTeardown' /\ ReaderSparedByClear'
  BY <1>1, <1>3 DEF IInv, SafeInv, TeardownInv, OneTeardown, ReaderSparedByClear,
                    Teardown
<1>7. ReaderInv' /\ NoAppClose'
  BY <1>1 DEF IInv, SafeInv, ReaderInv, NoAppClose
<1> QED
  BY <1>4, <1>5, <1>6, <1>7 DEF SafeInv

\* The steps of Run that set one field each.
LEMMA FieldInv ==
  ASSUME IInv, Activate \/ MakeCancel \/ SetHost
  PROVE  SafeInv'
<1> USE DEF flags, fields, identity, server
<1>1. /\ acc \in Unhosted /\ acc' \in {"armed", "made", "named"}
      /\ (acc # "taken" => acc' \in {"made", "named"})
      /\ (acc' \in Unhosted => host' = host) /\ (acc' = "named" => host' = TRUE)
      /\ (acc = "taken" => unActive' = 0 /\ cancel' = cancel)
      /\ (acc # "taken" => unActive' = unActive /\ cancel' \in {cancel, "open"})
      /\ UNCHANGED <<sock, waitg, pooled, use, listed, overtaken, srvWait, pc, panic>>
  BY DEF Activate, MakeCancel, SetHost, Stage
<1>2. /\ use > 0 /\ use # 0 /\ pooled = 0 /\ srvWait = 1 /\ host = FALSE
      /\ (acc = "taken" => cancel = "nil")
  BY <1>1, ConstantsAssumption DEF IInv, TypeOK, SafeInv, EarlyInv
<1>3. FreshInv' /\ PoolInv' /\ EarlyInv' /\ LiveInv' /\ ServerInv'
  BY <1>1, <1>2 DEF IInv, SafeInv, FreshInv, PoolInv, EarlyInv, LiveInv, ServerInv
<1>4. TeardownInv' /\ OneTeardown' /\ ReaderSparedByClear'
  BY <1>1, <1>2 DEF IInv, SafeInv, TeardownInv, OneTeardown, ReaderSparedByClear, Teardown
<1>5. ReaderInv' /\ NoAppClose'
  BY <1>1 DEF IInv, SafeInv, ReaderInv, NoAppClose
<1> QED
  BY <1>3, <1>4, <1>5 DEF SafeInv

\* Run enters the object, under the key of the connection if that is counted.
LEMMA InsertInv == ASSUME IInv, Insert PROVE SafeInv'
<1>1. /\ acc = "named" /\ acc' = "entered" /\ listed' = listed \cup {Key}
      /\ UNCHANGED <<unActive, sock, cancel, host, waitg, pooled, use, overtaken, srvWait,
                     pc, panic>>
  BY DEF Insert, Stage, flags, fields, identity
<1>2. srvWait = 1 => Key = "own"
  BY <1>1 DEF IInv, SafeInv, EarlyInv, Key
<1>3. FreshInv' /\ PoolInv' /\ EarlyInv' /\ LiveInv'
  BY <1>1 DEF IInv, SafeInv, FreshInv, PoolInv, EarlyInv, LiveInv
<1>4. ServerInv'
  BY <1>1, <1>2 DEF IInv, SafeInv, ServerInv
<1>5. TeardownInv' /\ OneTeardown' /\ ReaderSparedByClear'
  BY <1>1 DEF IInv, SafeInv, TeardownInv, OneTeardown, ReaderSparedByClear
<1>6. ReaderInv' /\ NoAppClose'
  BY <1>1 DEF IInv, SafeInv, ReaderInv, NoAppClose
<1> QED
  BY <1>3, <1>4, <1>5, <1>6 DEF SafeInv

\* init() posts the goroutines that serve the queues.
LEMMA InitQueueInv ==
  ASSUME IInv, InitReceiver \/ InitSender
  PROVE  SafeInv'
<1>1. /\ acc \in {"entered", "ready"} /\ acc' \in {"ready", "serve"}
      /\ \A t \in Thread : pc'[t] \in {pc[t], "posted", "stuck"}
      /\ UNCHANGED <<unActive, sock, cancel, host, waitg, pooled, use, listed, overtaken,
                     srvWait, panic>>
  BY DEF InitReceiver, InitSender, Stage, IInv, TypeOK, flags, identity
<1>2. use # 0 /\ ~(use = 1 /\ acc = "taken")
  BY <1>1 DEF IInv, SafeInv, FreshInv
<1>3. FreshInv' /\ PoolInv' /\ EarlyInv' /\ LiveInv' /\ ServerInv'
  BY <1>1, <1>2 DEF IInv, SafeInv, FreshInv, PoolInv, EarlyInv, LiveInv, ServerInv
<1>4. TeardownInv' /\ OneTeardown' /\ ReaderSparedByClear'
  BY <1>1 DEF IInv, SafeInv, TeardownInv, OneTeardown, ReaderSparedByClear, Teardown
<1>5. ReaderInv' /\ NoAppClose'
  BY <1>1 DEF IInv, SafeInv, ReaderInv, NoAppClose, AppClosing
<1> QED
  BY <1>3, <1>4, <1>5 DEF SafeInv

\* Run has handed the connection over.
LEMMA ServeInv == ASSUME IInv, Serve PROVE SafeInv'
<1>1. /\ acc = "serve" /\ acc' = "idle"
      /\ \A t \in Thread : pc'[t] = pc[t] \/ pc'[t] = "posted"
      /\ UNCHANGED <<unActive, sock, cancel, host, waitg, pooled, use, listed, overtaken,
                     srvWait, panic>>
  BY DEF Serve, Stage, flags, fields, identity, IInv, TypeOK
<1>2. use # 0 /\ ~(use = 1 /\ acc = "taken")
  BY <1>1 DEF IInv, SafeInv, FreshInv
<1>3. FreshInv' /\ PoolInv' /\ EarlyInv' /\ LiveInv' /\ ServerInv'
  BY <1>1, <1>2 DEF IInv, SafeInv, FreshInv, PoolInv, EarlyInv, LiveInv, ServerInv
<1>4. TeardownInv' /\ OneTeardown' /\ ReaderSparedByClear'
  BY <1>1 DEF IInv, SafeInv, TeardownInv, OneTeardown, ReaderSparedByClear, Teardown
<1>5. ReaderInv' /\ NoAppClose'
  BY <1>1 DEF IInv, SafeInv, ReaderInv, NoAppClose, AppClosing
<1> QED
  BY <1>3, <1>4, <1>5 DEF SafeInv

\* A goroutine of the connection counts itself in.
LEMMA BeginInv == ASSUME IInv, NEW t \in Thread, Begin(t) PROVE SafeInv'
<1>1. CASE Panic("nil") \/ Panic("waitgroup")
  BY <1>1, PanicInv
<1>2. CASE ~(Panic("nil") \/ Panic("waitgroup"))
  <2>1. /\ pc[t] = "posted" /\ waitg' = waitg \cup {t}
        /\ pc'[t] \in {"loop", "check", "reading"}
        /\ \A s \in Thread : s # t => pc'[s] = pc[s]
        /\ UNCHANGED <<unActive, sock, cancel, host, pooled, use, listed, overtaken,
                       srvWait, acc, panic>>
    BY <1>2 DEF Begin, IInv, TypeOK, flags, fields, identity, server
  <2>2. use # 0 /\ ~(use = 1 /\ acc = "taken")
    BY <2>1 DEF IInv, SafeInv, FreshInv
  <2>3. FreshInv' /\ PoolInv' /\ EarlyInv' /\ LiveInv' /\ ServerInv'
    BY <2>1, <2>2 DEF IInv, SafeInv, FreshInv, PoolInv, EarlyInv, LiveInv, ServerInv
  <2>4. TeardownInv' /\ OneTeardown' /\ ReaderSparedByClear'
    BY <2>1 DEF IInv, SafeInv, TeardownInv, OneTeardown, ReaderSparedByClear, Teardown
  <2>5. ReaderInv' /\ NoAppClose'
    BY <2>1 DEF IInv, SafeInv, ReaderInv, NoAppClose, AppClosing
  <2> QED
    BY <2>3, <2>4, <2>5 DEF SafeInv
<1> QED BY <1>1, <1>2

\* A goroutine of the connection ends.
LEMMA LeaveInv == ASSUME IInv, NEW t \in Thread, Leave(t) PROVE SafeInv'
<1>1. /\ pc[t] = "leave" /\ waitg' = waitg \ {t} /\ pc'[t] \in {"off", "check"}
      /\ \A s \in Thread : s # t => pc'[s] = pc[s]
      /\ UNCHANGED <<unActive, sock, cancel, host, pooled, use, listed, overtaken, srvWait,
                     acc, panic>>
  BY DEF Leave, Goto, IInv, TypeOK, flags, fields, identity, server
<1>2. use # 0 /\ ~(use = 1 /\ acc = "taken")
  BY <1>1 DEF IInv, SafeInv, FreshInv
<1>3. FreshInv' /\ PoolInv' /\ EarlyInv' /\ LiveInv' /\ ServerInv'
  BY <1>1, <1>2 DEF IInv, SafeInv, FreshInv, PoolInv, EarlyInv, LiveInv, ServerInv
<1>4. TeardownInv' /\ OneTeardown' /\ ReaderSparedByClear'
  BY <1>1 DEF IInv, SafeInv, TeardownInv, OneTeardown, ReaderSparedByClear, Teardown
<1>5. ReaderInv' /\ NoAppClose'
  BY <1>1 DEF IInv, SafeInv, ReaderInv, NoAppClose, AppClosing
<1> QED
  BY <1>3, <1>4, <1>5 DEF SafeInv

\* A reader gets a package only from an open socket, and none is open once the
\* teardown is past its first step.
LEMMA ReadPackageInv ==
  ASSUME IInv, NEW t \in Thread, ReadPackage(t), "recv" \in queues
  PROVE  SafeInv'
<1>1. /\ pc[t] = "reading" /\ sock = "open" /\ pc'[t] = "putting"
      /\ \A s \in Thread : s # t => pc'[s] = pc[s]
      /\ UNCHANGED coreVars
  BY DEF ReadPackage, Goto, IInv, TypeOK, flags, fields, identity, server, coreVars
<1>2. use # 0 /\ ~(use = 1 /\ acc = "taken") /\ t \in waitg
  BY <1>1 DEF IInv, SafeInv, FreshInv, ReaderInv
<1>3. FreshInv' /\ PoolInv' /\ EarlyInv' /\ LiveInv' /\ ServerInv'
  BY <1>1, <1>2 DEF IInv, SafeInv, FreshInv, PoolInv, EarlyInv, LiveInv, ServerInv,
                    coreVars
<1>4. TeardownInv' /\ OneTeardown'
  BY <1>1 DEF IInv, SafeInv, TeardownInv, OneTeardown, Teardown, coreVars
<1>5. \A s \in Thread : pc'[s] # "clear"
  BY <1>1 DEF IInv, SafeInv, TeardownInv
<1>6. ReaderInv' /\ NoAppClose' /\ ReaderSparedByClear'
  BY <1>1, <1>2, <1>5 DEF IInv, SafeInv, ReaderInv, NoAppClose, AppClosing,
                          ReaderSparedByClear, coreVars
<1> QED
  BY <1>3, <1>4, <1>6 DEF SafeInv

\* PostClose posts a closer.
LEMMA ArmClosingInv == ASSUME IInv, NEW t \in Thread, ArmClosing(t) PROVE SafeInv'
<1>1. /\ pc[t] = "arm" /\ UNCHANGED coreVars
      /\ \A s \in Thread : pc'[s] = pc[s] \/ pc'[s] \in {"off", "leave", "loop", "cas"}
  BY AfterRange DEF ArmClosing, IInv, TypeOK, fields, identity, server, coreVars
<1>2. use # 0 /\ ~(use = 1 /\ acc = "taken")
  BY <1>1 DEF IInv, SafeInv, FreshInv
<1>3. FreshInv' /\ PoolInv' /\ EarlyInv' /\ LiveInv' /\ ServerInv'
  BY <1>1, <1>2 DEF IInv, SafeInv, FreshInv, PoolInv, EarlyInv, LiveInv, ServerInv,
                    coreVars
<1>4. TeardownInv' /\ OneTeardown' /\ ReaderSparedByClear'
  BY <1>1 DEF IInv, SafeInv, TeardownInv, OneTeardown, ReaderSparedByClear, Teardown,
              coreVars
<1>5. ReaderInv' /\ NoAppClose'
  BY <1>1 DEF IInv, SafeInv, ReaderInv, NoAppClose, AppClosing, coreVars
<1> QED
  BY <1>3, <1>4, <1>5 DEF SafeInv

\* Whoever turns unActive to 1 finds nobody else in the teardown.
LEMMA ClaimInv == ASSUME IInv, NEW t \in Thread, Claim(t) PROVE SafeInv'
<1>1. /\ pc[t] = "cas" /\ pc'[t] = (IF unActive = 0 THEN "stop" ELSE "off")
      /\ \A s \in Thread : s # t => pc'[s] = pc[s]
      /\ unActive' = 1
      /\ UNCHANGED <<sock, cancel, host, waitg, pooled, use, listed, overtaken,
                     srvWait, acc, panic>>
  BY DEF Claim, Goto, IInv, TypeOK, fields, identity, server
<1>2. use # 0 /\ use > 0 /\ ~(use = 1 /\ acc = "taken") /\ unActive \in 0 .. 1 /\ pooled \in Nat
  BY <1>1, ConstantsAssumption DEF IInv, TypeOK, SafeInv, FreshInv
<1>3. CASE unActive = 0
  <2>1. /\ srvWait = 1 /\ cancel # "closed" /\ pooled = 0 /\ acc # "taken"
        /\ \A s \in Thread : pc[s] \notin Teardown
    BY <1>2, <1>3 DEF IInv, TypeOK, SafeInv, LiveInv, PoolInv, EarlyInv, TeardownInv
  <2>2. FreshInv' /\ PoolInv' /\ EarlyInv' /\ LiveInv' /\ ServerInv'
    BY <1>1, <1>2, <2>1 DEF IInv, SafeInv, FreshInv, PoolInv, EarlyInv, LiveInv,
                            ServerInv
  <2>3. TeardownInv' /\ OneTeardown' /\ ReaderSparedByClear'
    BY <1>1, <1>2, <1>3, <2>1 DEF IInv, SafeInv, TeardownInv, OneTeardown,
                                  ReaderSparedByClear, Teardown
  <2>4. ReaderInv' /\ NoAppClose'
    BY <1>1 DEF IInv, SafeInv, ReaderInv, NoAppClose, AppClosing
  <2> QED
    BY <2>2, <2>3, <2>4 DEF SafeInv
<1>4. CASE unActive = 1
  <2>1. FreshInv' /\ PoolInv' /\ EarlyInv' /\ LiveInv' /\ ServerInv'
    BY <1>1, <1>2, <1>4 DEF IInv, SafeInv, FreshInv, PoolInv, EarlyInv, LiveInv,
                            ServerInv
  <2>2. TeardownInv' /\ OneTeardown' /\ ReaderSparedByClear'
    BY <1>1, <1>2, <1>4 DEF IInv, SafeInv, TeardownInv, OneTeardown,
                            ReaderSparedByClear, Teardown
  <2>3. ReaderInv' /\ NoAppClose'
    BY <1>1, <1>4 DEF IInv, SafeInv, ReaderInv, NoAppClose, AppClosing
  <2> QED
    BY <2>1, <2>2, <2>3 DEF SafeInv
<1> QED
  BY <1>2, <1>3, <1>4
\* The steps of realClose.  In each of them t is the only thread in Teardown.

\* The first one does not meet a closed cancel channel.
LEMMA StopConnectionInv == ASSUME IInv, NEW t \in Thread, StopConnection(t) PROVE SafeInv'
<1>0. cancel # "closed"
  BY DEF StopConnection, IInv, SafeInv, TeardownInv
<1>1. CASE Panic("nil")
  BY <1>1, PanicInv
<1>2. CASE ~(Panic("nil"))
  <2>1. /\ pc[t] = "stop" /\ pc'[t] = "notify" /\ unActive' = 1 /\ sock' = "closed"
        /\ cancel' = (IF cancel = "nil" THEN "nil" ELSE "closed")
        /\ \A s \in Thread : s # t => pc'[s] = pc[s]
        /\ UNCHANGED <<host, waitg, pooled, use, listed, overtaken, srvWait, acc, panic>>
    BY <1>0, <1>2 DEF StopConnection, IInv, TypeOK, flags, fields, identity, server
  <2>2. /\ use # 0 /\ pooled = 0 /\ unActive = 1 /\ ~(use = 1 /\ acc = "taken")
        /\ \A s \in Thread : s # t => pc[s] \notin Teardown
    BY <2>1 DEF IInv, SafeInv, FreshInv, TeardownInv, OneTeardown, Teardown
  <2>3. FreshInv' /\ PoolInv' /\ EarlyInv' /\ LiveInv' /\ ServerInv'
    BY <2>1, <2>2 DEF IInv, SafeInv, FreshInv, PoolInv, EarlyInv, LiveInv,
                      ServerInv, TeardownInv
  <2>4. TeardownInv' /\ OneTeardown'
    BY <2>1, <2>2 DEF IInv, SafeInv, TeardownInv, OneTeardown, Teardown
  <2>5. ReaderInv' /\ NoAppClose' /\ ReaderSparedByClear'
    BY <2>1, <2>2 DEF IInv, SafeInv, ReaderInv, NoAppClose, AppClosing,
                      ReaderSparedByClear, Teardown
  <2> QED
    BY <2>3, <2>4, <2>5 DEF SafeInv
<1> QED BY <1>1, <1>2

\* The teardown signs off at the server.
LEMMA NotifyInv == ASSUME IInv, NEW t \in Thread, Notify(t) PROVE SafeInv'
<1>1. CASE Panic("nil") \/ Panic("waitgroup")
  BY <1>1, PanicInv
<1>2. CASE ~(Panic("nil") \/ Panic("waitgroup"))
  <2>1. /\ pc[t] = "notify" /\ pc'[t] = "wait" /\ listed' = listed \ {"own"}
        /\ overtaken' = (overtaken \/ acc = "named")
        /\ srvWait' = srvWait - 1 /\ srvWait > 0 /\ host = TRUE
        /\ \A s \in Thread : s # t => pc'[s] = pc[s]
        /\ UNCHANGED <<unActive, sock, cancel, host, waitg, pooled, use, acc, panic>>
    BY <1>2 DEF Notify, Key, IInv, TypeOK, flags, fields, identity, server
  <2>2. /\ use # 0 /\ pooled = 0 /\ unActive = 1 /\ ~(use = 1 /\ acc = "taken")
        /\ \A s \in Thread : s # t => pc[s] \notin Teardown
    BY <2>1 DEF IInv, SafeInv, FreshInv, TeardownInv, OneTeardown, Teardown
  <2>6. acc \notin Unhosted
    BY <2>1 DEF IInv, SafeInv, EarlyInv
  <2>3. FreshInv' /\ PoolInv' /\ EarlyInv' /\ LiveInv' /\ ServerInv'
    <3>1. FreshInv' /\ PoolInv' /\ LiveInv'
      BY <2>1, <2>2 DEF IInv, SafeInv, FreshInv, PoolInv, LiveInv
    <3>2. srvWait = 1 /\ srvWait' = 0
      BY <2>1 DEF IInv, SafeInv, TeardownInv
    <3>3. EarlyInv'
      BY <2>1, <2>6, <3>2 DEF IInv, SafeInv, EarlyInv
    <3>4. ASSUME ~overtaken' PROVE listed' = {} /\ acc # "named"
      BY <2>1, <3>4 DEF IInv, SafeInv, ServerInv
    <3>5. ServerInv'
      BY <2>1, <3>2, <3>4 DEF ServerInv
    <3> QED BY <3>1, <3>3, <3>5
  <2>4. TeardownInv' /\ OneTeardown'
    BY <2>1, <2>2, <2>6 DEF IInv, SafeInv, TeardownInv, OneTeardown, Teardown
  <2>5. ReaderInv' /\ NoAppClose' /\ ReaderSparedByClear'
    BY <2>1, <2>2 DEF IInv, SafeInv, ReaderInv, NoAppClose, AppClosing,
                      ReaderSparedByClear, Teardown
  <2> QED
    BY <2>3, <2>4, <2>5 DEF SafeInv
<1> QED BY <1>1, <1>2

\* Once Wait() has returned, no reader is left that could put a package.
LEMMA WaitInv == ASSUME IInv, NEW t \in Thread, Wait(t) \/ WakeUp(t) PROVE SafeInv'
<1>1. /\ pc[t] \in {"wait", "asleep"} /\ pc'[t] \in {"asleep", "clear"}
      /\ (pc'[t] = "clear" => waitg = {})
      /\ \A s \in Thread : s # t => pc'[s] = pc[s]
      /\ UNCHANGED <<unActive, sock, cancel, host, waitg, pooled, use, listed, overtaken,
                     srvWait, acc, panic>>
  BY DEF allButPc, Wait, WakeUp, Goto, IInv, TypeOK, flags, fields, identity, server
<1>2. /\ use # 0 /\ pooled = 0 /\ unActive = 1 /\ ~(use = 1 /\ acc = "taken")
      /\ \A s \in Thread : s # t => pc[s] \notin Teardown
  BY <1>1 DEF IInv, SafeInv, FreshInv, TeardownInv, OneTeardown, Teardown
<1>3. FreshInv' /\ PoolInv' /\ EarlyInv' /\ LiveInv' /\ ServerInv'
  BY <1>1, <1>2 DEF IInv, SafeInv, FreshInv, PoolInv, EarlyInv, LiveInv,
                    ServerInv, TeardownInv
<1>4. TeardownInv' /\ OneTeardown'
  BY <1>1, <1>2 DEF IInv, SafeInv, TeardownInv, OneTeardown, Teardown
<1>5. ReaderInv' /\ NoAppClose' /\ ReaderSparedByClear'
  BY <1>1, <1>2 DEF IInv, SafeInv, ReaderInv, NoAppClose, AppClosing,
                    ReaderSparedByClear, Teardown
<1> QED
  BY <1>3, <1>4, <1>5 DEF SafeInv

\* The teardown clears the object.
LEMMA ClearInv == ASSUME IInv, NEW t \in Thread, Clear(t) PROVE SafeInv'
<1>1. CASE Panic("send")
  BY <1>1, PanicInv
<1>2. CASE ~(Panic("send"))
  <2>1. /\ pc[t] = "clear" /\ pc'[t] = "release" /\ cancel' = "nil" /\ sock' = "none"
        /\ host' = FALSE
        /\ \A s \in Thread : s # t => pc'[s] = pc[s]
        /\ UNCHANGED <<unActive, waitg, pooled, use, listed, overtaken, srvWait, acc, panic>>
    BY <1>2 DEF Clear, IInv, TypeOK, flags, fields, identity, server
  <2>2. /\ use # 0 /\ pooled = 0 /\ unActive = 1 /\ ~(use = 1 /\ acc = "taken")
        /\ \A s \in Thread : s # t => pc[s] \notin Teardown
    BY <2>1 DEF IInv, SafeInv, FreshInv, TeardownInv, OneTeardown, Teardown
  <2>3. FreshInv' /\ PoolInv' /\ EarlyInv' /\ LiveInv' /\ ServerInv'
    BY <2>1, <2>2 DEF IInv, SafeInv, FreshInv, PoolInv, EarlyInv, LiveInv,
                      ServerInv, TeardownInv
  <2>4. TeardownInv' /\ OneTeardown'
    BY <2>1, <2>2 DEF IInv, SafeInv, TeardownInv, OneTeardown, Teardown
  <2>5. ReaderInv' /\ NoAppClose' /\ ReaderSparedByClear'
    BY <2>1, <2>2 DEF IInv, SafeInv, ReaderInv, NoAppClose, AppClosing,
                      ReaderSparedByClear, Teardown
  <2> QED
    BY <2>3, <2>4, <2>5 DEF SafeInv
<1> QED BY <1>1, <1>2

\* The object goes back to the pool.
LEMMA ReleaseInv == ASSUME IInv, NEW t \in Thread, Release(t) PROVE SafeInv'
<1>1. /\ pc[t] = "release" /\ pc'[t] \in {"off", "leave", "loop"}
      /\ pooled' = pooled + 1
      /\ \A s \in Thread : s # t => pc'[s] = pc[s]
      /\ UNCHANGED <<unActive, sock, cancel, host, waitg, use, listed, overtaken, srvWait,
                     acc, panic>>
  BY AfterRange DEF Release, Goto, IInv, TypeOK, flags, fields, identity, server
<1>2. /\ use # 0 /\ pooled = 0 /\ unActive = 1 /\ ~(use = 1 /\ acc = "taken")
      /\ \A s \in Thread : s # t => pc[s] \notin Teardown
  BY <1>1 DEF IInv, SafeInv, FreshInv, TeardownInv, OneTeardown, Teardown
<1>3. FreshInv' /\ PoolInv' /\ EarlyInv' /\ LiveInv' /\ ServerInv'
  BY <1>1, <1>2 DEF IInv, SafeInv, FreshInv, PoolInv, EarlyInv, LiveInv,
                    ServerInv, TeardownInv
<1>4. TeardownInv' /\ OneTeardown'
  BY <1>1, <1>2 DEF IInv, SafeInv, TeardownInv, OneTeardown, Teardown
<1>5. ReaderInv' /\ NoAppClose' /\ ReaderSparedByClear'
  BY <1>1, <1>2 DEF IInv, SafeInv, ReaderInv, NoAppClose, AppClosing,
                    ReaderSparedByClear, Teardown
<1> QED
  BY <1>3, <1>4, <1>5 DEF SafeInv

\* Steps that move one thread and touch none of what the invariant is about.
LEMMA PcOnly ==
  ASSUME UNCHANGED allButPc
  PROVE  UNCHANGED coreVars
BY DEF allButPc, coreVars, flags, fields, identity, server

\* A step that changes nothing.
LEMMA StutterInv ==
  ASSUME IInv, TypeOK', UNCHANGED <<coreVars, pc>>
  PROVE  IInv'
BY DEF IInv, SafeInv, FreshInv, PoolInv, EarlyInv, LiveInv, TeardownInv, ServerInv,
   ReaderInv, NoAppClose, OneTeardown, ReaderSparedByClear, coreVars

\* Every step preserves the invariant, one action after another.
LEMMA StepInv ==
  ASSUME CloseFrom = {}, IInv, [Next]_vars
  PROVE  IInv'
<1>0. TypeOK'
  BY StepType DEF IInv
<1>1. CASE UNCHANGED vars
  BY <1>0, <1>1, StutterInv DEF vars, coreVars, flags, fields, identity, server
<1>2. CASE Accept \/ Adopt \/ Register
  BY <1>0, <1>2, AcceptInv, AdoptInv, FieldInv, InsertInv, InitQueueInv, ServeInv
     DEF Register, IInv
<1>3. CASE SrvClose
  BY <1>0, <1>3, StutterInv DEF SrvClose, coreVars, flags, fields, identity
<1>4. CASE Account
  <2>1. CASE Panic("nil")
    BY <1>0, <2>1, PanicInv DEF IInv
  <2>2. CASE ~Panic("nil")
    <3>1. UNCHANGED <<coreVars, pc>>
      BY <1>4, <2>2 DEF Account, coreVars, flags, fields, identity, server
    <3> QED BY <1>0, <3>1, StutterInv
  <2> QED BY <2>1, <2>2
<1>5. ASSUME NEW t \in Thread, Internal(t) PROVE SafeInv'
  <2>0. After(t) \in Harmless
    BY AfterRange DEF Harmless, PC, Teardown, AppClosing
  <2>1. CASE Begin(t) \/ Leave(t)
    BY <2>1, BeginInv, LeaveInv
  <2>2. CASE Put(t)
    <3>1. /\ pc[t] = "putting" /\ pc' = [pc EXCEPT ![t] = "reading"]
          /\ UNCHANGED coreVars
      BY <2>2 DEF Put, Goto, coreVars, flags, fields, identity, server
    <3>2. t \in waitg
      BY <3>1 DEF IInv, SafeInv, ReaderInv
    <3> QED BY <3>1, <3>2, MoveInv DEF PC
  <2>3. CASE ReadClosed(t) \/ Stop(t) \/ HeartPanic(t) \/ WriteClosed(t)
    <3>1. CASE Panic("nil")
      BY <3>1, PanicInv
    <3>2. CASE ~Panic("nil")
      <4>1. \E to \in {"check", "leave"} : pc[t] # "off" /\ pc' = [pc EXCEPT ![t] = to]
        BY <2>3, <3>2 DEF ReadClosed, Stop, HeartPanic, WriteClosed, Goto
      <4>2. UNCHANGED coreVars
        BY <2>3, <3>2, PcOnly DEF ReadClosed, Stop, HeartPanic, WriteClosed
      <4> QED
        BY <4>1, <4>2, MoveInv DEF Harmless, PC, Teardown, AppClosing
    <3> QED BY <3>1, <3>2
  <2>4. CASE Take(t) \/ Offer(t)
    <3>1. \E to \in Harmless : pc[t] # "off" /\ pc' = [pc EXCEPT ![t] = to]
      BY <2>0, <2>4 DEF Take, Offer, Goto, Harmless, PC, Teardown, AppClosing
    <3>2. UNCHANGED coreVars
      BY <2>4 DEF Take, Offer, coreVars, flags, fields, identity, server
    <3> QED BY <3>1, <3>2, MoveInv DEF Harmless
  <2>5. CASE EnterWrite(t)
    <3>1. CASE Panic("nil")
      BY <3>1, PanicInv
    <3>2. CASE ~Panic("nil")
      <4>1. \E to \in Harmless : pc[t] # "off" /\ pc' = [pc EXCEPT ![t] = to]
        BY <2>5, <3>2 DEF EnterWrite, Harmless, PC, Teardown, AppClosing
      <4>2. UNCHANGED coreVars
        BY <2>5, <3>2, PcOnly DEF EnterWrite
      <4> QED BY <4>1, <4>2, MoveInv DEF Harmless
    <3> QED BY <3>1, <3>2
  <2>6. CASE OfferGiveUp(t) \/ SendData(t) \/ CheckUnActive(t) \/ CheckDelayClosing(t)
    <3>1. \E to \in Harmless : pc[t] # "off" /\ pc' = [pc EXCEPT ![t] = to]
      BY <2>0, <2>6 DEF OfferGiveUp, SendData, CheckUnActive, CheckDelayClosing, Goto,
                        Harmless, PC, Teardown, AppClosing
    <3>2. UNCHANGED coreVars
      BY <2>6, PcOnly DEF OfferGiveUp, SendData, CheckUnActive, CheckDelayClosing
    <3> QED BY <3>1, <3>2, MoveInv DEF Harmless
  <2>7. CASE ArmClosing(t) \/ Claim(t)
    BY <2>7, ArmClosingInv, ClaimInv
  <2>8. ~LoadUnActive(t) /\ ~StoreUnActive(t)
    BY DEF LoadUnActive, StoreUnActive, Goto, IInv, SafeInv, NoAppClose, AppClosing
  <2>9. CASE StopConnection(t) \/ Notify(t) \/ Wait(t) \/ WakeUp(t) \/ Clear(t)
                \/ Release(t)
    BY <2>9, StopConnectionInv, NotifyInv, WaitInv, ClearInv, ReleaseInv
  <2> QED
    BY <1>5, <2>1, <2>2, <2>3, <2>4, <2>5, <2>6, <2>7, <2>8, <2>9 DEF Internal
<1>6. ASSUME NEW t \in Thread, Handler(t) PROVE SafeInv'
  <2>1. UNCHANGED coreVars
    BY <1>6, PcOnly DEF Handler, HandlerReturns, WriteObject, CallClose
  <2>2. ~CallClose(t)
    BY DEF CallClose
  <2>3. \E to \in Harmless : pc' = [pc EXCEPT ![t] = to]
    BY <1>6, <2>2, AfterRange DEF Handler, HandlerReturns, WriteObject, Goto, Harmless,
                                  PC, Teardown, AppClosing
  <2>4. Known \/ pc[t] # "off"
    BY <1>6, <2>2 DEF Handler, HandlerReturns, WriteObject, MayWrite, Goto
  <2> QED BY <2>1, <2>3, <2>4, MoveInv DEF Harmless
<1>7. ASSUME NEW t \in Thread, External(t) PROVE SafeInv'
  <2>1. CASE ReadPackage(t)
    <3>1. CASE "recv" \in queues
      BY <2>1, <3>1, ReadPackageInv
    <3>2. CASE "recv" \notin queues
      <4>1. pc[t] # "off" /\ pc' = [pc EXCEPT ![t] = "stuck"] /\ UNCHANGED coreVars
        BY <2>1, <3>2 DEF ReadPackage, Goto, coreVars, fields, flags, identity, server
      <4> QED BY <4>1, MoveInv DEF Harmless, PC, Teardown, AppClosing
    <3> QED BY <3>1, <3>2
  <2>2. CASE ReadFail(t) \/ ParseFail(t) \/ HeartFail(t) \/ WriteFail(t)
    <3>1. \E to \in {"check", "leave"} : pc[t] # "off" /\ pc' = [pc EXCEPT ![t] = to]
      BY <2>2 DEF ReadFail, ParseFail, HeartFail, WriteFail, Goto
    <3>2. UNCHANGED coreVars
      BY <2>2, PcOnly DEF ReadFail, ParseFail, HeartFail, WriteFail
    <3> QED
      BY <3>1, <3>2, MoveInv DEF Harmless, PC, Teardown, AppClosing
  <2>3. CASE WriteOk(t)
    <3>1. \E to \in Harmless : pc[t] # "off" /\ pc' = [pc EXCEPT ![t] = to]
      BY <2>3, AfterRange DEF WriteOk, Goto, Harmless, PC, Teardown, AppClosing
    <3>2. UNCHANGED coreVars
      BY <2>3 DEF WriteOk, coreVars, flags, fields, identity, server
    <3> QED BY <3>1, <3>2, MoveInv DEF Harmless
  <2> QED BY <1>7, <2>1, <2>2, <2>3 DEF External
<1> QED
  BY <1>0, <1>1, <1>2, <1>3, <1>4, <1>5, <1>6, <1>7 DEF Next, Step, IInv
--------------------------------------------------------------------------------
(* The theorems *)

\* Without Close() calls of the application, IInv is an invariant of every run.
THEOREM Inductive == ASSUME CloseFrom = {} PROVE Spec => []IInv
BY InitInv, StepInv, PTL DEF Spec

\* With every closing left to the library a connection is torn down once: the
\* compare-and-swap on unActive lets one closer into realClose, and no closed
\* channel is closed again, however many closers of however many uses race.
THEOREM OneTeardownHolds == ASSUME CloseFrom = {} PROVE Spec => []OneTeardown
<1>1. IInv => OneTeardown
  BY DEF IInv, SafeInv
<1> QED
  BY Inductive, <1>1, PTL

\* realClose closes recvDataQueue only when no reader can put into it: waitg
\* covers the readers it has to, late starters find a closed socket.
THEOREM ReaderSpared == ASSUME CloseFrom = {} PROVE Spec => []ReaderSparedByClear
<1>1. IInv => ReaderSparedByClear
  BY DEF IInv, SafeInv
<1> QED
  BY Inductive, <1>1, PTL

\* The server's wait group holds one unit for a connection that Run has taken and
\* nobody signed off, and none for an object in the pool, so that DxTcpServer.Close()
\* waits for no ghost; an entry of srv.clients that is not counted comes only from a
\* closer of an old use that signed off before Run entered the connection.
THEOREM ServerCounts == ASSUME CloseFrom = {} PROVE Spec => []ServerCountsClients
<1>1. IInv => ServerCountsClients
  BY DEF IInv, SafeInv, ServerInv, PoolInv, ServerCountsClients
<1> QED
  BY Inductive, <1>1, PTL

\* The pooled object starts as ConnSession does.
LEMMA InitSession == Init => Session!SessionInit
BY DEF Init, Session!SessionInit, Phase

\* Each step is a step of ConnSession or leaves its variables alone.
LEMMA StepSession ==
  ASSUME IInv, [Next]_vars, CloseFrom = {}
  PROVE  [Session!SessionNext]_(Session!sessionVars)
<1> USE DEF flags, fields, identity, server
<1> DEFINE mapped == <<unActive, pooled, use, srvWait, acc = "taken">>
<1>0. unActive \in 0 .. 1 /\ pooled \in Nat /\ use \in Nat /\ srvWait \in Int
  BY ConstantsAssumption DEF IInv, TypeOK
<1>1. ASSUME UNCHANGED mapped PROVE UNCHANGED Session!sessionVars
  BY <1>1 DEF Session!sessionVars, Phase
<1>2. CASE Adopt
  <2>1. /\ use' = use + 1 /\ srvWait' = srvWait + 1 /\ (use = 0 \/ pooled > 0)
        /\ acc # "taken" /\ acc' = "taken"
    BY <1>2 DEF Adopt, Stage
  <2> QED
    BY <1>0, <2>1 DEF Session!sessionVars, Phase
<1>9. CASE Activate
  <2>1. /\ acc = "taken" /\ acc' # "taken" /\ unActive' = 0
        /\ UNCHANGED <<pooled, use, srvWait>>
    BY <1>9 DEF Activate, Stage
  <2>2. use > 0 /\ pooled = 0
    BY <2>1 DEF IInv, SafeInv, EarlyInv
  <2> QED
    BY <1>0, <2>1, <2>2 DEF Session!SessionNext, Session!Open, Phase
<1>3. ASSUME NEW t \in Thread, Claim(t) PROVE [Session!SessionNext]_(Session!sessionVars)
  <2>1. /\ unActive' = 1 /\ UNCHANGED <<pooled, use, srvWait, acc>>
        /\ use > 0 /\ ~(use = 1 /\ acc = "taken")
    BY <1>3, SomewhereInUse DEF Claim, Goto
  <2>2. CASE unActive = 1
    BY <1>1, <2>1, <2>2
  <2>3. CASE unActive = 0
    <3>1. pooled = 0 /\ srvWait = 1 /\ acc # "taken"
      BY <1>0, <2>1, <2>3 DEF IInv, SafeInv, PoolInv, LiveInv, EarlyInv
    <3> QED
      BY <2>1, <2>3, <3>1 DEF Session!SessionNext, Session!BeginClose, Phase
  <2> QED BY <1>0, <2>2, <2>3
<1>4. ASSUME NEW t \in Thread, Notify(t) PROVE [Session!SessionNext]_(Session!sessionVars)
  <2>1. use > 0 /\ pooled = 0 /\ unActive = 1 /\ srvWait = 1 /\ acc # "taken"
    BY <1>4 DEF Notify, IInv, SafeInv, TeardownInv, Teardown
  <2>2. CASE UNCHANGED mapped
    BY <1>1, <2>2
  <2>3. CASE srvWait' = 0 /\ UNCHANGED <<unActive, pooled, use, acc>>
    BY <1>0, <2>1, <2>3 DEF Session!SessionNext, Session!SignOff, Phase
  <2> QED BY <1>4, <2>1, <2>2, <2>3 DEF Notify, Panic
<1>5. ASSUME NEW t \in Thread, Release(t) PROVE [Session!SessionNext]_(Session!sessionVars)
  <2>1. use > 0 /\ pooled = 0 /\ unActive = 1 /\ srvWait = 0 /\ acc # "taken"
    BY <1>5 DEF Release, Goto, IInv, SafeInv, TeardownInv, Teardown
  <2>2. pooled' = 1 /\ UNCHANGED <<unActive, use, srvWait, acc>>
    BY <1>5, <2>1 DEF Release
  <2> QED BY <1>0, <2>1, <2>2 DEF Session!SessionNext, Session!Release, Phase
<1>6. ASSUME NEW t \in Thread, StopConnection(t) PROVE UNCHANGED mapped
  <2>1. unActive = 1
    BY <1>6 DEF StopConnection, IInv, SafeInv, TeardownInv, Teardown
  <2> QED BY <1>6, <2>1 DEF StopConnection, Panic
<1>7. ASSUME NEW t \in Thread, Step(t), ~Claim(t), ~Notify(t), ~Release(t)
      PROVE  UNCHANGED mapped
  <2> USE DEF allButPc
  <2>1. CASE External(t)
    BY <2>1 DEF External, ReadPackage, ReadFail, ParseFail, HeartFail, WriteOk, WriteFail
  <2>2. CASE Handler(t)
    BY <2>2 DEF Handler, HandlerReturns, WriteObject, CallClose
  <2>3. ~LoadUnActive(t) /\ ~StoreUnActive(t)
    BY DEF LoadUnActive, StoreUnActive, Goto, IInv, SafeInv, NoAppClose, AppClosing
  <2>4. CASE Internal(t)
    BY <1>6, <1>7, <2>3, <2>4 DEF Internal, Begin, Leave, Put, ReadClosed, Take, Stop,
       HeartPanic, EnterWrite, Offer, OfferGiveUp, SendData, WriteClosed, CheckUnActive,
       CheckDelayClosing, ArmClosing, Wait, WakeUp, Clear, Panic
  <2> QED BY <1>7, <2>1, <2>2, <2>4 DEF Step
<1>8. CASE \/ Accept \/ MakeCancel \/ SetHost \/ Insert \/ InitReceiver \/ InitSender
           \/ Serve \/ SrvClose \/ Account \/ UNCHANGED vars
  <2>1. UNCHANGED mapped
    BY <1>8 DEF Accept, MakeCancel, SetHost, Insert, InitReceiver, InitSender, Serve, Stage,
                SrvClose, Account, Panic, vars
  <2> QED BY <1>1, <2>1
<1> QED
  BY <1>1, <1>2, <1>3, <1>4, <1>5, <1>7, <1>8, <1>9 DEF Next, Register

\* The pooled object serves its connections one after another: each is opened,
\* closed, signed off at the server and released exactly once, in this order.
THEOREM Refinement == ASSUME CloseFrom = {} PROVE Spec => ImplementsSession
BY Inductive, InitSession, StepSession, PTL DEF Spec, ImplementsSession, Session!SessionSpec
--------------------------------------------------------------------------------
(* Requests to close, whoever calls Close(). *)

\* Before Run has made the object live for the first time nobody has asked, and
\* nobody can.
Unused == use = 0 \/ (use = 1 /\ acc = "taken")
Unasked == /\ use = 0 => acc \in {"idle", "accepted"}
           /\ Unused => delayClosing = 0 /\ \A t \in Thread : pc[t] = "off"

\* In the first use isDelayClosing is not left over from another one.
PendingInv == TypeOK /\ Unasked /\ (use <= 1 => RequestedCloseIsPending)

LEMMA InitPending == Init => PendingInv
BY InitType DEF Init, PendingInv, Unasked, Unused, RequestedCloseIsPending

\* A step that leaves both flags alone and moves no closer that has yet to swap.
LEMMA KeptPending ==
  ASSUME ~Unused, ~Unused', use' = use, use <= 1 => RequestedCloseIsPending,
         UNCHANGED <<unActive, delayClosing>>,
         \A c \in Closer : pc[c] = "cas" => pc'[c] = "cas"
  PROVE  Unasked' /\ (use' <= 1 => RequestedCloseIsPending')
BY DEF Unasked, Unused, RequestedCloseIsPending

\* A step after which the connection is closing, or nobody asks.
LEMMA AnsweredPending ==
  ASSUME ~Unused, ~Unused', unActive' = 1
  PROVE  Unasked' /\ (use' <= 1 => RequestedCloseIsPending')
BY DEF Unasked, Unused, RequestedCloseIsPending

\* A thread that runs belongs to a use.
LEMMA RunsInUse ==
  ASSUME TypeOK, Unasked, NEW t \in Thread, Step(t)
  PROVE  ~Unused
<1>1. pc[t] # "off" \/ Known
  BY DEF Step, Internal, Handler, HandlerReturns, WriteObject, MayWrite, CallClose, External,
         ReadPackage, ReadFail, ParseFail, HeartFail, WriteOk, WriteFail, Goto
<1>2. use \in Nat
  BY ConstantsAssumption DEF TypeOK
<1> QED BY <1>1, <1>2 DEF Unasked, Unused, Known

\* What a step of a thread does to the flags and to the closers that have yet to swap.
LEMMA StepFlags ==
  ASSUME TypeOK, NEW t \in Thread, Step(t)
  PROVE  /\ use' = use /\ acc' = acc
         /\ \/ unActive' = 1
            \/ delayClosing' = 1 /\ \E c \in Closer : pc'[c] = "cas"
            \/ /\ UNCHANGED <<unActive, delayClosing>>
               /\ \A c \in Closer : pc[c] = "cas" => pc'[c] = "cas"
<1> USE DEF flags, fields, identity, server, allButPc, Goto
<1>1. CASE External(t) \/ Handler(t)
  <2>1. /\ UNCHANGED <<unActive, delayClosing, use, acc>>
        /\ pc[t] # "cas" /\ \E to : pc' = [pc EXCEPT ![t] = to]
    BY <1>1 DEF External, ReadPackage, ReadFail, ParseFail, HeartFail, WriteOk, WriteFail,
                Handler, HandlerReturns, WriteObject, MayWrite, CallClose
  <2> QED BY <2>1 DEF TypeOK
<1>2. CASE Claim(t) \/ StoreUnActive(t)
  BY <1>2 DEF Claim, StoreUnActive
<1>3. CASE ArmClosing(t)
  <2>1. /\ UNCHANGED <<use, acc, unActive>> /\ pc[t] = "arm"
    BY <1>3 DEF ArmClosing
  <2>2. CASE delayClosing = 1 /\ pc' = [pc EXCEPT ![t] = After(t)] /\ UNCHANGED delayClosing
    BY <2>1, <2>2 DEF TypeOK
  <2>3. ASSUME NEW c \in Closer, pc[c] = "off", delayClosing' = 1,
               pc' = [pc EXCEPT ![t] = After(t), ![c] = "cas"]
        PROVE  delayClosing' = 1 /\ pc'[c] = "cas"
    BY <2>3 DEF TypeOK, Thread
  <2> QED BY <1>3, <2>1, <2>2, <2>3 DEF ArmClosing
<1>4. CASE Internal(t) /\ ~Claim(t) /\ ~StoreUnActive(t) /\ ~ArmClosing(t)
  <2>1. CASE \E reason : Panic(reason)
    BY <2>1 DEF Panic
  <2>2. CASE StopConnection(t)
    BY <2>1, <2>2 DEF StopConnection
  <2>3. CASE ~StopConnection(t) /\ ~\E reason : Panic(reason)
    <3>1. UNCHANGED <<unActive, delayClosing, use, acc>>
      BY <1>4, <2>3 DEF Internal, Begin, Leave, Put, ReadClosed, Take, Stop, HeartPanic,
         EnterWrite, Offer, OfferGiveUp, SendData, WriteClosed, CheckUnActive, CheckDelayClosing,
         LoadUnActive, Notify, Wait, WakeUp, Clear, Release
    <3>2. pc[t] # "cas" /\ \E to : pc' = [pc EXCEPT ![t] = to]
      BY <1>4, <2>3 DEF Internal, Begin, Leave, Put, ReadClosed, Take, Stop, HeartPanic,
         EnterWrite, Offer, OfferGiveUp, SendData, WriteClosed, CheckUnActive, CheckDelayClosing,
         LoadUnActive, Notify, Wait, WakeUp, Clear, Release
    <3> QED BY <3>1, <3>2 DEF TypeOK
  <2> QED BY <2>1, <2>2, <2>3
<1> QED BY <1>1, <1>2, <1>3, <1>4 DEF Step

\* Run is in the first use when it prepares a connection, or later.
LEMMA RunPending ==
  ASSUME PendingInv, Accept \/ Adopt \/ Register \/ SrvClose \/ Account
  PROVE  Unasked' /\ (use' <= 1 => RequestedCloseIsPending')
<1> USE DEF PendingInv, flags, fields, identity, server
<1>0. use \in Nat
  BY ConstantsAssumption DEF TypeOK
<1>1. CASE Adopt
  <2>1. use' = use + 1 /\ UNCHANGED <<delayClosing, pc>>
    BY <1>1 DEF Adopt
  <2> QED BY <1>0, <2>1 DEF Unasked, Unused, RequestedCloseIsPending
<1>2. CASE InitReceiver \/ InitSender \/ Serve
  <2>1. /\ acc \in {"entered", "ready", "serve"} /\ acc' # "taken"
        /\ UNCHANGED <<unActive, delayClosing, use>>
    BY <1>2 DEF InitReceiver, InitSender, Serve, Stage
  <2>2. ~Unused /\ ~Unused' /\ use \in Use
    BY <1>0, <2>1, ConstantsAssumption DEF Unasked, Unused, TypeOK, Use
  <2>3. \A c \in Closer : c \in Thread /\ \A role \in Role : c # <<use, role>>
    BY <2>2, ThreadsAreDistinct DEF Goroutine, Thread
  <2>4. \A c \in Closer : pc[c] = "cas" => pc'[c] = "cas"
    BY <1>2, <2>3 DEF InitReceiver, InitSender, Serve, TypeOK, Role
  <2> QED BY <2>1, <2>2, <2>4, KeptPending
<1>3. CASE Accept \/ SrvClose \/ Account
  <2>1. /\ UNCHANGED <<unActive, delayClosing, use, pc>>
        /\ acc' = acc \/ (acc = "idle" /\ acc' = "accepted")
    BY <1>3 DEF Accept, Stage, SrvClose, Account, Panic
  <2> QED BY <2>1 DEF Unasked, Unused, RequestedCloseIsPending
<1>4. CASE Activate
  <2>1. acc = "taken" /\ acc' = "armed" /\ UNCHANGED <<delayClosing, use, pc>>
    BY <1>4 DEF Activate, Stage
  <2>2. use > 0 /\ (use <= 1 => delayClosing = 0)
    BY <1>0, <2>1 DEF Unasked, Unused
  <2> QED BY <2>1, <2>2 DEF Unasked, Unused, RequestedCloseIsPending
<1>5. CASE MakeCancel \/ SetHost \/ Insert
  <2>1. /\ acc \in {"armed", "made", "named"} /\ acc' # "taken"
        /\ UNCHANGED <<unActive, delayClosing, use, pc>>
    BY <1>5 DEF MakeCancel, SetHost, Insert, Stage
  <2>2. ~Unused /\ ~Unused'
    BY <2>1 DEF Unasked, Unused
  <2> QED BY <2>1, <2>2, KeptPending
<1> QED BY <1>1, <1>2, <1>3, <1>4, <1>5 DEF Register

LEMMA StepPending == PendingInv /\ [Next]_vars => PendingInv'
<1> SUFFICES ASSUME PendingInv, [Next]_vars PROVE PendingInv'
  OBVIOUS
<1>0. TypeOK'
  BY StepType DEF PendingInv
<1>1. CASE UNCHANGED vars
  BY <1>0, <1>1 DEF PendingInv, Unasked, Unused, RequestedCloseIsPending, vars, flags,
                    identity, server
<1>2. ASSUME NEW t \in Thread, Step(t) PROVE Unasked' /\ (use' <= 1 => RequestedCloseIsPending')
  <2>1. ~Unused /\ use' = use /\ ~Unused'
    BY <1>2, RunsInUse, StepFlags DEF PendingInv, Unused
  <2>2. CASE unActive' = 1
    BY <2>1, <2>2, AnsweredPending
  <2>3. CASE delayClosing' = 1 /\ \E c \in Closer : pc'[c] = "cas"
    BY <2>1, <2>3 DEF Unasked, Unused, RequestedCloseIsPending
  <2>4. CASE /\ UNCHANGED <<unActive, delayClosing>>
             /\ \A c \in Closer : pc[c] = "cas" => pc'[c] = "cas"
    BY <2>1, <2>4, KeptPending DEF PendingInv
  <2> QED BY <1>2, <2>2, <2>3, <2>4, StepFlags DEF PendingInv
<1> QED BY <1>0, <1>1, <1>2, RunPending DEF Next, PendingInv

\* In the first use of a connection isDelayClosing means what PostClose takes it for,
\* whoever else calls Close(): a closer is on its way to an open connection.  (In a
\* later use it may be left over: run Net_IdleReuse.)
THEOREM RequestsArePending == Spec => [](use <= 1 => RequestedCloseIsPending)
<1>1. PendingInv => (use <= 1 => RequestedCloseIsPending)
  BY DEF PendingInv
<1> QED BY <1>1, InitPending, StepPending, PTL DEF Spec
================================================================================
