--------------------------- MODULE RpcReconnectProofs ---------------------------
(***************************************************************************)
(* For any number of reconnectors: at most one whose channel nobody has    *)
(* closed is at work, and reconnectChan holds its channel; those that were *)
(* started without a channel come from a Close() that ran before that.     *)
(***************************************************************************)
EXTENDS RpcReconnect, TLAPS

Typed ==
  /\ chan \in Nat /\ started \in Nat
  /\ pc \in [Reconnector -> {"none", "wait", "drop", "dial", "reset", "slow", "gone"}]

\* DoReconnect has seen that there is no channel, and nobody makes another one
\* before it does: Close() clears the field only when it holds a channel.
MakesIntoNil == event = "make" => chan = 0

\* The channel that is made is in the field until a Close() has closed it.
PostsItsOwn ==
  event = "post" => started # 0 /\ (chan = started \/ (chan = 0 /\ started \in closed))

\* Between close(reconnectChan) and the assignment of nil the closed channel is
\* still there, so that DoReconnect keeps away.
ClearsAClosedOne == user = "clear" => chan # 0 /\ chan \in closed

IInv == Typed /\ MakesIntoNil /\ PostsItsOwn /\ ClearsAClosedOne /\ OneWantedReconnector

\* At first there is no channel and no reconnector.
LEMMA InitInv == Init => IInv
BY ReconnectorAssumption
   DEF Init, IInv, Typed, MakesIntoNil, PostsItsOwn, ClearsAClosedOne, OneWantedReconnector, Alive

\* A step that leaves the channels and the disconnect event alone and starts no
\* reconnector keeps the invariant.
LEMMA LoopStep ==
  ASSUME IInv, UNCHANGED <<chan, started, closed, deaf>>,
         event' \notin {"make", "post"} \/ event' = event, user' # "clear" \/ user' = user,
         pc' \in [Reconnector -> {"none", "wait", "drop", "dial", "reset", "slow", "gone"}],
         \A r \in Reconnector : Alive(r)' => Alive(r)
  PROVE  IInv'
BY DEF IInv, Typed, MakesIntoNil, PostsItsOwn, ClearsAClosedOne, OneWantedReconnector

\* A channel is made only where there is none.
LEMMA MakeStep == ASSUME IInv, MakeChannel PROVE IInv'
<1>1. chan = 0 /\ user # "clear"
  BY DEF IInv, MakesIntoNil, ClearsAClosedOne, MakeChannel
<1>2. Typed' /\ MakesIntoNil' /\ PostsItsOwn' /\ ClearsAClosedOne'
  BY <1>1 DEF MakeChannel, loops, IInv, Typed, MakesIntoNil, PostsItsOwn, ClearsAClosedOne
<1>3. OneWantedReconnector'
  <2>1. \A r \in Reconnector : r # 0
    BY ReconnectorAssumption DEF Reconnector
  <2> QED BY <1>1, <2>1 DEF MakeChannel, loops, IInv, OneWantedReconnector, Alive
<1> QED BY <1>2, <1>3 DEF IInv

\* A reconnector that starts has the channel in the field, or its channel is closed.
LEMMA StartStep == ASSUME IInv, StartReconnector PROVE IInv'
<1>1. started # 0 /\ (chan = started \/ (chan = 0 /\ started \in closed))
  BY DEF IInv, PostsItsOwn, StartReconnector
<1>2. Typed'
  BY DEF IInv, Typed, StartReconnector
<1>3. MakesIntoNil' /\ PostsItsOwn' /\ ClearsAClosedOne'
  BY DEF StartReconnector, IInv, MakesIntoNil, PostsItsOwn, ClearsAClosedOne
<1>4. \A r \in Reconnector : Alive(r)' /\ r \notin closed' => chan' = r
  <2> SUFFICES ASSUME NEW r \in Reconnector, Alive(r)', r \notin closed' PROVE chan' = r
    OBVIOUS
  <2>1. CASE r = started
    BY <1>1, <2>1 DEF StartReconnector
  <2>2. CASE r # started
    BY <2>2 DEF StartReconnector, Alive, IInv, Typed, OneWantedReconnector
  <2> QED BY <2>1, <2>2
<1>5. deaf' \subseteq closed'
  <2>1. chan = 0 => started \in closed
    BY <1>1
  <2> QED BY <2>1 DEF StartReconnector, IInv, OneWantedReconnector
<1> QED BY <1>2, <1>3, <1>4, <1>5 DEF IInv, OneWantedReconnector

\* Close() takes a channel out of the field only after it has closed it.
LEMMA CloseStep == ASSUME IInv, CloseChannel \/ ClearChannel PROVE IInv'
<1>1. CASE CloseChannel
  BY <1>1 DEF CloseChannel, loops, IInv, Typed, MakesIntoNil, PostsItsOwn, ClearsAClosedOne,
              OneWantedReconnector, Alive
<1>2. CASE ClearChannel
  BY <1>2 DEF ClearChannel, loops, IInv, Typed, MakesIntoNil, PostsItsOwn, ClearsAClosedOne,
              OneWantedReconnector, Alive
<1> QED BY <1>1, <1>2

\* Every step of the client keeps the invariant.
LEMMA StepInv == IInv /\ [Next]_vars => IInv'
<1> SUFFICES ASSUME IInv, [Next]_vars PROVE IInv'
  OBVIOUS
<1> USE DEF Alive, client, loops
<1>1. CASE ServerToggles \/ Drop
  BY <1>1, LoopStep DEF ServerToggles, Drop, IInv, Typed
<1>2. CASE Event
  <2>1. CASE ReadSelfClose \/ TornDown
    BY <2>1, LoopStep DEF ReadSelfClose, TornDown, IInv, Typed
  <2>2. CASE CheckChannel
    BY <2>2 DEF CheckChannel, IInv, Typed, MakesIntoNil, PostsItsOwn, ClearsAClosedOne,
                OneWantedReconnector
  <2> QED BY <1>2, <2>1, <2>2, MakeStep, StartStep DEF Event
<1>3. CASE User
  <2>1. CASE Connect \/ Opening \/ Close
    BY <2>1, LoopStep DEF Connect, Opening, Open, Reopen, Connected, Close, IInv, Typed
  <2>2. CASE NoChannel \/ CloseConnection
    BY <2>2, LoopStep DEF NoChannel, CloseConnection, IInv, Typed
  <2> QED BY <1>3, <2>1, <2>2, CloseStep DEF User, Closing
<1>4. ASSUME NEW r \in Reconnector, Loop(r) \/ Cancelled(r) PROVE IInv'
  <2>1. CASE Attempt(r) \/ Dropped(r) \/ DialOk(r)
    BY <2>1, LoopStep DEF Attempt, Dropped, DialOk, IInv, Typed
  <2>2. CASE ResetSelfClose(r) \/ DialFails(r) \/ NextRound(r) \/ Cancelled(r)
    BY <2>2, LoopStep DEF ResetSelfClose, DialFails, NextRound, Cancelled, IInv, Typed
  <2> QED BY <1>4, <2>1, <2>2 DEF Loop
<1>5. CASE UNCHANGED vars
  BY <1>5, LoopStep DEF vars, IInv, Typed
<1> QED BY <1>1, <1>2, <1>3, <1>4, <1>5 DEF Next

\* Of the reconnect goroutines whose channel nobody has closed at most one is ever at
\* work, and Close() can stop it; one without a channel starts only after a Close() has
\* closed the channel that DoReconnect had made for it: DoReconnect's accesses to
\* reconnectChan against those of RpcClient.Close, all without a lock.
THEOREM OneWanted == Spec => []OneWantedReconnector
<1>1. IInv => OneWantedReconnector
  BY DEF IInv
<1> QED BY <1>1, InitInv, StepInv, PTL DEF Spec
================================================================================
