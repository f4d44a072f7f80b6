------------------------------ MODULE RpcReconnect ------------------------------
(***************************************************************************)
(* How an RpcClient keeps its connection (RPC/rpc_client.go over           *)
(* ServerBase/DxNetClient.go): the application calls Connect and Close,    *)
(* the connection drops, the disconnect event starts a goroutine that      *)
(* dials until it succeeds or until its channel is closed.                 *)
(*                                                                         *)
(* isSelfClose and reconnectChan are read and written by three goroutines  *)
(* without a lock: every access is a step of its own.  A teardown that has *)
(* begun is over before anybody dials again (the first attempt comes three *)
(* seconds after it); what happens if it is not belongs to NetConnection.  *)
(***************************************************************************)
EXTENDS Naturals, FiniteSets

CONSTANT MaxReconnector \* bound: reconnect goroutines that are ever started

ASSUME ReconnectorAssumption == MaxReconnector \in Nat \ {0}

Reconnector == 1 .. MaxReconnector
QuickTries == 6 \* attempts at growing intervals before those every ReconRqv minutes

VARIABLES
  conn,       \* the client's connection: "down", "up" or "closing" (realClose)
  event,      \* where the disconnect event of that realClose is
  selfClose,  \* client.isSelfClose
  chan,       \* client.reconnectChan: 0 for nil, or whose channel it is
  closed,     \* reconnectors whose channel has been closed
  deaf,       \* reconnectors that were given a nil channel
  started,    \* reconnectors started so far
  pc,         \* where each reconnector is
  frefcount,  \* its counter of attempts
  user,       \* where the application is in Connect or Close
  serverUp    \* a dial succeeds

vars == <<conn, event, selfClose, chan, closed, deaf, started, pc, frefcount, user, serverUp>>
client == <<conn, event, selfClose, chan, closed, deaf, started>>
loops == <<pc, frefcount>>

TypeOK ==
  /\ conn \in {"down", "up", "closing"}
  /\ event \in {"none", "flag", "check", "make", "post", "done"}
  /\ selfClose \in BOOLEAN
  /\ chan \in 0 .. MaxReconnector
  /\ closed \subseteq Reconnector /\ deaf \subseteq Reconnector
  /\ started \in 0 .. MaxReconnector
  /\ pc \in [Reconnector -> {"none", "wait", "drop", "dial", "reset", "slow", "gone"}]
  /\ frefcount \in [Reconnector -> 1 .. QuickTries + 1]
  /\ user \in {"idle", "open", "drop", "dial", "close", "clear", "down"}
  /\ serverUp \in BOOLEAN

Init ==
  /\ conn = "down" /\ event = "none"
  /\ selfClose = FALSE /\ chan = 0 /\ closed = {} /\ deaf = {} /\ started = 0
  /\ pc = [r \in Reconnector |-> "none"]
  /\ frefcount = [r \in Reconnector |-> 1]
  /\ user = "idle" /\ serverUp \in BOOLEAN
--------------------------------------------------------------------------------
(* Faulty variants of steps, see the runs *)

\* DoReconnect does not look whether a reconnector is there.
CheckChannelAlways ==
  /\ event = "check"
  /\ event' = "make"
  /\ UNCHANGED <<conn, selfClose, chan, closed, deaf, started, loops, user, serverUp>>

\* Close() forgets the channel without closing it.
CloseChannelForgotten ==
  /\ user = "close" /\ chan # 0
  /\ user' = "clear"
  /\ UNCHANGED <<client, loops, serverUp>>

\* reConnect gives up after its quick attempts.
DialFailsForGood(r) ==
  /\ pc[r] = "dial" /\ ~serverUp
  /\ frefcount' = [frefcount EXCEPT ![r] = @ + 1]
  /\ pc' = [pc EXCEPT ![r] = IF frefcount[r] + 1 > QuickTries THEN "gone" ELSE "wait"]
  /\ UNCHANGED <<client, user, serverUp>>
--------------------------------------------------------------------------------
(* The network *)

ServerToggles ==
  /\ serverUp' = ~serverUp
  /\ UNCHANGED <<client, loops, user>>

\* The connection fails: a closer runs realClose.
Drop ==
  /\ conn = "up"
  /\ conn' = "closing" /\ event' = "flag"
  /\ UNCHANGED <<selfClose, chan, closed, deaf, started, loops, user, serverUp>>
--------------------------------------------------------------------------------
(* The disconnect event, called by realClose *)

\* disconnect: nothing to do after a Close().
ReadSelfClose ==
  /\ event = "flag"
  /\ event' = IF selfClose THEN "done" ELSE "check"
  /\ UNCHANGED <<conn, selfClose, chan, closed, deaf, started, loops, user, serverUp>>

\* DoReconnect: only if there is no reconnect channel.
CheckChannel ==
  /\ event = "check"
  /\ event' = IF chan = 0 THEN "make" ELSE "done"
  /\ UNCHANGED <<conn, selfClose, chan, closed, deaf, started, loops, user, serverUp>>

\* DoReconnect: the channel is made ...
MakeChannel ==
  /\ event = "make"
  /\ event' = "post"
  /\ started' = started + 1
  /\ chan' = started + 1
  /\ UNCHANGED <<conn, selfClose, closed, deaf, loops, user, serverUp>>

\* ... and the goroutine posted with what the field holds now: nil, if Close() has
\* taken the channel away again.
StartReconnector ==
  /\ event = "post"
  /\ event' = "done"
  /\ deaf' = deaf \cup IF chan = 0 THEN {started} ELSE {}
  /\ pc' = [pc EXCEPT ![started] = "wait"]
  /\ UNCHANGED <<conn, selfClose, chan, closed, started, frefcount, user, serverUp>>

\* realClose is over.
TornDown ==
  /\ event = "done"
  /\ event' = "none" /\ conn' = "down"
  /\ UNCHANGED <<selfClose, chan, closed, deaf, started, loops, user, serverUp>>
--------------------------------------------------------------------------------
(* The goroutine reConnect *)

\* The timer fires: DxTcpClient.Connect closes an active connection first.
Attempt(r) ==
  /\ pc[r] = "wait" /\ conn # "closing"
  /\ \/ /\ conn = "up"
        /\ conn' = "closing" /\ event' = "flag"
        /\ pc' = [pc EXCEPT ![r] = "drop"]
     \/ /\ conn = "down"
        /\ pc' = [pc EXCEPT ![r] = "dial"]
        /\ UNCHANGED <<conn, event>>
  /\ UNCHANGED <<selfClose, chan, closed, deaf, started, frefcount, user, serverUp>>

Dropped(r) ==
  /\ pc[r] = "drop" /\ conn # "closing"
  /\ pc' = [pc EXCEPT ![r] = "dial"]
  /\ UNCHANGED <<client, frefcount, user, serverUp>>

\* Connected.  If somebody else has connected meanwhile, the new connection takes
\* the place of that one.
DialOk(r) ==
  /\ pc[r] = "dial" /\ serverUp /\ conn # "closing"
  /\ conn' = "up"
  /\ pc' = [pc EXCEPT ![r] = "reset"]
  /\ UNCHANGED <<event, selfClose, chan, closed, deaf, started, frefcount, user, serverUp>>

\* The goroutine ends.  reconnectChan keeps its channel.
ResetSelfClose(r) ==
  /\ pc[r] = "reset"
  /\ selfClose' = FALSE
  /\ pc' = [pc EXCEPT ![r] = "gone"]
  /\ UNCHANGED <<conn, event, chan, closed, deaf, started, frefcount, user, serverUp>>

DialFails(r) ==
  /\ pc[r] = "dial" /\ ~serverUp
  /\ frefcount' = [frefcount EXCEPT ![r] = @ + 1]
  /\ pc' = [pc EXCEPT ![r] = IF frefcount[r] + 1 > QuickTries THEN "slow" ELSE "wait"]
  /\ UNCHANGED <<client, user, serverUp>>

\* ReconRqv minutes later another round begins.
NextRound(r) ==
  /\ pc[r] = "slow"
  /\ frefcount' = [frefcount EXCEPT ![r] = 1]
  /\ pc' = [pc EXCEPT ![r] = "wait"]
  /\ UNCHANGED <<client, user, serverUp>>

\* The channel is closed; the select may prefer a timer that has fired as well.  A
\* nil channel is never ready.
Cancelled(r) ==
  /\ pc[r] \in {"wait", "slow"} /\ r \in closed \ deaf
  /\ pc' = [pc EXCEPT ![r] = "gone"]
  /\ UNCHANGED <<client, frefcount, user, serverUp>>
--------------------------------------------------------------------------------
(* The application: RpcClient.Connect and RpcClient.Close, one call at a time *)

\* An active client has nothing to do.
Connect ==
  /\ user = "idle" /\ conn = "down"
  /\ user' = "open"
  /\ selfClose' = FALSE
  /\ UNCHANGED <<conn, event, chan, closed, deaf, started, loops, serverUp>>

\* DxTcpClient.Connect closes a connection that has come up meanwhile.
Open ==
  /\ user = "open" /\ conn # "closing"
  /\ IF conn = "up"
     THEN conn' = "closing" /\ event' = "flag" /\ user' = "drop"
     ELSE user' = "dial" /\ UNCHANGED <<conn, event>>
  /\ UNCHANGED <<selfClose, chan, closed, deaf, started, loops, serverUp>>

Reopen ==
  /\ user = "drop" /\ conn # "closing"
  /\ user' = "dial"
  /\ UNCHANGED <<client, loops, serverUp>>

\* Connect returns; a success takes the place of a connection that came meanwhile.
Connected ==
  /\ user = "dial" /\ conn # "closing"
  /\ user' = "idle"
  /\ conn' = IF serverUp THEN "up" ELSE conn
  /\ UNCHANGED <<event, selfClose, chan, closed, deaf, started, loops, serverUp>>

\* Only a Close() makes room for another reconnector: the bound is on its calls.
Close ==
  /\ user = "idle" /\ Cardinality(closed) + 1 < MaxReconnector
  /\ user' = "close"
  /\ selfClose' = TRUE
  /\ UNCHANGED <<conn, event, chan, closed, deaf, started, loops, serverUp>>

\* With a reconnect channel Close() closes that and leaves the connection.
CloseChannel ==
  /\ user = "close" /\ chan # 0
  /\ closed' = closed \cup {chan}
  /\ user' = "clear"
  /\ UNCHANGED <<conn, event, selfClose, chan, deaf, started, loops, serverUp>>

ClearChannel ==
  /\ user = "clear"
  /\ chan' = 0 /\ user' = "idle"
  /\ UNCHANGED <<conn, event, selfClose, closed, deaf, started, loops, serverUp>>

NoChannel ==
  /\ user = "close" /\ chan = 0
  /\ user' = "down"
  /\ UNCHANGED <<client, loops, serverUp>>

\* Without one DxTcpClient.Close() closes the connection if it is active.
CloseConnection ==
  /\ user = "down"
  /\ user' = "idle"
  /\ IF conn = "up" THEN conn' = "closing" /\ event' = "flag"
                    ELSE UNCHANGED <<conn, event>>
  /\ UNCHANGED <<selfClose, chan, closed, deaf, started, loops, serverUp>>
--------------------------------------------------------------------------------
Event == ReadSelfClose \/ CheckChannel \/ MakeChannel \/ StartReconnector \/ TornDown

Loop(r) == Attempt(r) \/ Dropped(r) \/ DialOk(r) \/ ResetSelfClose(r)
           \/ DialFails(r) \/ NextRound(r)

Opening == Open \/ Reopen \/ Connected
Closing == CloseChannel \/ ClearChannel \/ NoChannel \/ CloseConnection
User == Connect \/ Opening \/ Close \/ Closing

Next == \/ ServerToggles \/ Drop \/ Event \/ User
        \/ \E r \in Reconnector : Loop(r) \/ Cancelled(r)

Spec == Init /\ [][Next]_vars

\* Goroutines run and timers fire; a closed channel is chosen in the end by a
\* select that keeps finding it ready; a call that has begun is carried through.
Fairness == /\ WF_vars(Event)
            /\ SF_vars(Opening) /\ WF_vars(Closing)
            /\ \A r \in Reconnector : SF_vars(Loop(r)) /\ SF_vars(Cancelled(r))

FairSpec == Spec /\ Fairness
--------------------------------------------------------------------------------
(* What must hold *)

Alive(r) == pc[r] \notin {"none", "gone"}

\* However Close, Connect and the disconnect event race for reconnectChan, a
\* goroutine that is still dialing and whose channel nobody has closed is the one
\* that reconnectChan can stop.  The others are on their way out, but for those that
\* got no channel; such a one only starts after a Close() has closed its channel.
OneWantedReconnector ==
  /\ \A r \in Reconnector : Alive(r) /\ r \notin closed => chan = r
  /\ deaf \subseteq closed

\* A reconnector that lost its place in reconnectChan comes to its end, unless it was
\* started without a channel.
ReplacedReconnectorEnds ==
  \A r \in Reconnector : (r <= started /\ chan # r) ~> pc[r] = "gone" \/ r \in deaf

\* A drop that starts a reconnector is repaired once the server stays reachable,
\* unless the application closes the client.
StartedReconnectorConnects ==
  <>[]serverUp =>
    \A r \in Reconnector : pc[r] = "wait" ~> conn = "up" \/ r \in closed

================================================================================
