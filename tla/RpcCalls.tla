-------------------------------- MODULE RpcCalls --------------------------------
(***************************************************************************)
(* Calls of an RpcHandler (RPC/rpc_handler.go, RPC/rpc_common.go):         *)
(* ExecuteWait and Execute on one side, serverPkg on both.                 *)
(*                                                                         *)
(* A call takes a package from pkgpool, is entered under its id in         *)
(* fRpcWaitReturnMethods, and is finished by its result or by a timeout,   *)
(* whichever comes first; then the package goes back to the pool.  The     *)
(* receiver of a connection keeps the pointer to a package it has loaded   *)
(* from the map while the caller may give that package away.               *)
(*                                                                         *)
(* Objects are sent from the calling goroutine (LimitSendPkgCount = 0).    *)
(***************************************************************************)
EXTENDS Integers

CONSTANTS Con,       \* connections, each with its receiver goroutine
          Caller,    \* goroutines that call ExecuteWait or Execute
          InHandler, \* those that do it inside a handler, on a receiver
          MaxPkg,    \* bound: package objects ever allocated
          MaxCall    \* bound: calls

Pkg == 1 .. MaxPkg
Call == 1 .. MaxCall

ASSUME CallsAssumption ==
  MaxCall \in Nat /\ MaxPkg \in Nat /\ InHandler \subseteq Caller

VARIABLES
  calls,     \* calls begun so far: SnowFlakeID
  pc,        \* where each caller is
  call,      \* its call, 0 if none
  pkg,       \* its local variable method, 0 for nil
  mine,      \* its local variable waitchan, 0 for nil
  via,       \* the connection of each call
  outcome,   \* what became of a call: "none" yet, "timeout", "failed" or "result"
  got,       \* the call whose result it was given
  made,      \* package objects allocated so far
  pool,      \* pkgpool
  waitchan,  \* fWaitchan of a package: 0 for nil, or the call that made it
  handler,   \* fresultHandler of a package: the call it is for, 0 for nil
  closed,    \* wait channels that have been closed
  waiting,   \* fRpcWaitReturnMethods
  requests,  \* calls on their way to the peer
  replies,   \* results on their way back
  rpc,       \* where each receiver is in serverPkg
  reply,     \* the call whose result it holds
  res,       \* the package that is decoded in
  run,       \* its local variable runMethod
  dest       \* the channel it sends the result to

callers == <<calls, pc, call, pkg, mine, via, outcome, got>>
packages == <<made, pool, waitchan, handler, closed>>
peer == <<requests, replies>>
receivers == <<rpc, reply, res, run, dest>>
vars == <<callers, packages, waiting, peer, receivers>>

TypeOK ==
  /\ calls \in 0 .. MaxCall
  /\ pc \in [Caller -> {"idle", "chan", "handle", "store", "write", "start", "wait",
                        "delete", "reset", "put"}]
  /\ call \in [Caller -> 0 .. MaxCall]
  /\ pkg \in [Caller -> 0 .. MaxPkg] /\ mine \in [Caller -> 0 .. MaxCall]
  /\ via \in [Call -> Con]
  /\ outcome \in [Call -> {"none", "timeout", "failed", "result"}]
  /\ got \in [Call -> 0 .. MaxCall]
  /\ made \in 0 .. MaxPkg /\ pool \subseteq Pkg
  /\ waitchan \in [Pkg -> 0 .. MaxCall] /\ handler \in [Pkg -> 0 .. MaxCall]
  /\ closed \subseteq Call
  /\ waiting \in [Call -> 0 .. MaxPkg]
  /\ requests \subseteq Call /\ replies \subseteq Call
  /\ rpc \in [Con -> {"idle", "load", "look", "channel", "handler", "send", "stuck",
                      "forget", "free"}]
  /\ reply \in [Con -> 0 .. MaxCall] /\ dest \in [Con -> 0 .. MaxCall]
  /\ res \in [Con -> 0 .. MaxPkg] /\ run \in [Con -> 0 .. MaxPkg]

Init ==
  /\ calls = 0
  /\ pc = [c \in Caller |-> "idle"] /\ call = [c \in Caller |-> 0]
  /\ pkg = [c \in Caller |-> 0] /\ mine = [c \in Caller |-> 0]
  /\ via \in [Call -> Con] /\ outcome = [i \in Call |-> "none"]
  /\ got = [i \in Call |-> 0]
  /\ made = 0 /\ pool = {}
  /\ waitchan = [p \in Pkg |-> 0] /\ handler = [p \in Pkg |-> 0] /\ closed = {}
  /\ waiting = [i \in Call |-> 0]
  /\ requests = {} /\ replies = {}
  /\ rpc = [r \in Con |-> "idle"]
  /\ reply = [r \in Con |-> 0] /\ dest = [r \in Con |-> 0]
  /\ res = [r \in Con |-> 0] /\ run = [r \in Con |-> 0]
--------------------------------------------------------------------------------
At(c, from, to) == pc[c] = from /\ pc' = [pc EXCEPT ![c] = to]
Step(r, from, to) == rpc[r] = from /\ rpc' = [rpc EXCEPT ![r] = to]

\* pkgpool.Get: any package that lies there, or a new one.
Get(p) ==
  \/ p \in pool /\ pool' = pool \ {p} /\ UNCHANGED made
  \/ made < MaxPkg /\ p = made + 1 /\ made' = p /\ UNCHANGED pool

\* serverPkg returns: its local variables are gone.
Leave(r) == /\ reply' = [reply EXCEPT ![r] = 0] /\ res' = [res EXCEPT ![r] = 0]
            /\ run' = [run EXCEPT ![r] = 0] /\ dest' = [dest EXCEPT ![r] = 0]

\* A faulty ReSet, see the runs: it leaves the channel open.
ReSetWithoutClose(p) ==
  /\ handler' = [handler EXCEPT ![p] = 0]
  /\ waitchan' = [waitchan EXCEPT ![p] = 0]
  /\ UNCHANGED closed

\* RpcPkg.ReSet: whoever waits on the channel is let go.
ReSet(p) ==
  /\ handler' = [handler EXCEPT ![p] = 0]
  /\ closed' = closed \cup ({waitchan[p]} \ {0})
  /\ waitchan' = [waitchan EXCEPT ![p] = 0]

\* A handler that makes a call keeps its receiver.
Handling(r) == \E c \in InHandler : pc[c] # "idle" /\ via[call[c]] = r
--------------------------------------------------------------------------------
(* Faulty variants of steps, see the runs *)

\* The timeout leaves the call in the map.
DeleteForgotten(c) ==
  /\ At(c, "delete", "reset")
  /\ UNCHANGED <<calls, call, pkg, mine, via, outcome, got, packages, waiting, peer, receivers>>

\* The package goes back to the pool before it is reset.
TimeOutFrees(c) ==
  /\ At(c, "wait", "delete")
  /\ outcome' = [outcome EXCEPT ![call[c]] = "timeout"]
  /\ pool' = pool \cup {pkg[c]}
  /\ UNCHANGED <<calls, call, pkg, mine, via, got, made, waitchan, handler, closed, waiting,
                 peer, receivers>>

\* The wait has no timer.
TimeOutNever(c) == FALSE /\ UNCHANGED vars

\* The call made last is looked up, not the one that the result is for.
LoadLatest(r) ==
  /\ Step(r, "load", IF waiting[calls] = 0 THEN "free" ELSE "look")
  /\ run' = [run EXCEPT ![r] = waiting[calls]]
  /\ UNCHANGED <<callers, packages, waiting, peer, reply, res, dest>>

\* Results are received while a handler of the connection runs.
TakeWhileHandling(r) ==
  /\ Step(r, "idle", "load")
  /\ \E i \in replies, p \in Pkg :
       /\ via[i] = r /\ Get(p)
       /\ replies' = replies \ {i}
       /\ reply' = [reply EXCEPT ![r] = i] /\ res' = [res EXCEPT ![r] = p]
  /\ UNCHANGED <<callers, waitchan, handler, closed, waiting, requests, run, dest>>
--------------------------------------------------------------------------------
(* ExecuteWait and Execute *)

\* GetMethod, for ExecuteWait ("chan") or for Execute with a result handler.
GetMethod(c) ==
  /\ calls < MaxCall
  /\ c \in InHandler => rpc[via[calls + 1]] = "idle" /\ ~Handling(via[calls + 1])
  /\ \E next \in {"chan", "handle"} : At(c, "idle", next)
  /\ \E p \in Pkg : Get(p) /\ pkg' = [pkg EXCEPT ![c] = p]
  /\ calls' = calls + 1
  /\ call' = [call EXCEPT ![c] = calls + 1]
  /\ UNCHANGED <<mine, via, outcome, got, waitchan, handler, closed, waiting, peer, receivers>>

WaitChan(c) ==
  /\ At(c, "chan", "store")
  /\ waitchan' = [waitchan EXCEPT ![pkg[c]] = IF @ = 0 THEN call[c] ELSE @]
  /\ mine' = [mine EXCEPT ![c] = waitchan'[pkg[c]]]
  /\ UNCHANGED <<calls, call, pkg, via, outcome, got, made, pool, handler, closed, waiting,
                 peer, receivers>>

Store(c) ==
  /\ At(c, "store", "write")
  /\ waiting' = [waiting EXCEPT ![call[c]] = pkg[c]]
  /\ UNCHANGED <<calls, call, pkg, mine, via, outcome, got, packages, peer, receivers>>

\* WriteObject.  The request of ExecuteWait is freed if it cannot be sent, its entry
\* in the map stays.
WriteObject(c) ==
  /\ \/ /\ At(c, "write", "wait")
        /\ requests' = requests \cup {call[c]}
        /\ UNCHANGED outcome
     \/ /\ At(c, "write", "reset")
        /\ outcome' = [outcome EXCEPT ![call[c]] = "failed"]
        /\ UNCHANGED requests
  /\ UNCHANGED <<calls, call, pkg, mine, via, got, packages, waiting, replies, receivers>>

\* Execute: the result handler and the map; the package stays with the map.
Handle(c) ==
  /\ At(c, "handle", "start")
  /\ handler' = [handler EXCEPT ![pkg[c]] = call[c]]
  /\ waiting' = [waiting EXCEPT ![call[c]] = pkg[c]]
  /\ UNCHANGED <<calls, call, pkg, mine, via, outcome, got, made, pool, waitchan, closed, peer,
                 receivers>>

StartCall(c) ==
  /\ At(c, "start", "idle")
  /\ \/ requests' = requests \cup {call[c]} /\ UNCHANGED outcome
     \/ outcome' = [outcome EXCEPT ![call[c]] = "failed"] /\ UNCHANGED requests
  /\ call' = [call EXCEPT ![c] = 0] /\ pkg' = [pkg EXCEPT ![c] = 0]
  /\ UNCHANGED <<calls, mine, via, got, packages, waiting, replies, receivers>>

\* The select of ExecuteWait: the timer, or a result (Deliver below).  That nobody
\* else closes the channel is what WaitersChannelIsOpen says.
TimeOut(c) ==
  /\ At(c, "wait", "delete")
  /\ outcome' = [outcome EXCEPT ![call[c]] = "timeout"]
  /\ UNCHANGED <<calls, call, pkg, mine, via, got, packages, waiting, peer, receivers>>

Delete(c) ==
  /\ At(c, "delete", "reset")
  /\ waiting' = [waiting EXCEPT ![call[c]] = 0]
  /\ UNCHANGED <<calls, call, pkg, mine, via, outcome, got, packages, peer, receivers>>

\* FreeMethod
Reset(c) ==
  /\ At(c, "reset", "put")
  /\ ReSet(pkg[c])
  /\ UNCHANGED <<calls, call, pkg, mine, via, outcome, got, made, pool, waiting, peer, receivers>>

Put(c) ==
  /\ At(c, "put", "idle")
  /\ pool' = pool \cup {pkg[c]}
  /\ call' = [call EXCEPT ![c] = 0] /\ pkg' = [pkg EXCEPT ![c] = 0]
  /\ mine' = [mine EXCEPT ![c] = 0]
  /\ UNCHANGED <<calls, via, outcome, got, made, waitchan, handler, closed, waiting, peer,
                 receivers>>
--------------------------------------------------------------------------------
(* The peer: serverPkg for a request *)

\* The handler returns a result, now or later.
Answer(i) ==
  /\ i \in requests
  /\ requests' = requests \ {i} /\ replies' = replies \cup {i}
  /\ UNCHANGED <<callers, packages, waiting, receivers>>

\* No such method, SetReturnResult(false), or the connection is gone; or the handler
\* panics: the error is put into the package, which nobody sends.
Ignore(i) ==
  /\ i \in requests
  /\ requests' = requests \ {i}
  /\ UNCHANGED <<callers, packages, waiting, replies, receivers>>
--------------------------------------------------------------------------------
(* serverPkg for a result, on the receiver of its connection *)

\* The result has been decoded into a package of the pool.
Take(r) ==
  /\ ~Handling(r)
  /\ Step(r, "idle", "load")
  /\ \E i \in replies, p \in Pkg :
       /\ via[i] = r /\ Get(p)
       /\ replies' = replies \ {i}
       /\ reply' = [reply EXCEPT ![r] = i] /\ res' = [res EXCEPT ![r] = p]
  /\ UNCHANGED <<callers, waitchan, handler, closed, waiting, requests, run, dest>>

\* A result that nobody waits for is left to the HandleResponse handlers.
Load(r) ==
  /\ Step(r, "load", IF waiting[reply[r]] = 0 THEN "free" ELSE "look")
  /\ run' = [run EXCEPT ![r] = waiting[reply[r]]]
  /\ UNCHANGED <<callers, packages, waiting, peer, reply, res, dest>>

\* CloseWaitChan: has the package a channel now?
Look(r) ==
  /\ Step(r, "look", IF waitchan[run[r]] # 0 THEN "channel" ELSE "handler")
  /\ UNCHANGED <<callers, packages, waiting, peer, reply, res, run, dest>>

\* The send reads the channel again.  If ReSet has set it to nil in between, the send
\* never returns, and neither does the receiver.
Channel(r) ==
  /\ Step(r, "channel", IF waitchan[run[r]] # 0 THEN "send" ELSE "stuck")
  /\ dest' = [dest EXCEPT ![r] = waitchan[run[r]]]
  /\ UNCHANGED <<callers, packages, waiting, peer, reply, res, run>>

\* The result handler of the package is called, if it has one by now.
Respond(r) ==
  /\ Step(r, "handler", "forget")
  /\ IF handler[run[r]] # 0
     THEN /\ outcome' = [outcome EXCEPT ![handler[run[r]]] = "result"]
          /\ got' = [got EXCEPT ![handler[run[r]]] = reply[r]]
     ELSE UNCHANGED <<outcome, got>>
  /\ UNCHANGED <<calls, pc, call, pkg, mine, via, packages, waiting, peer, reply, res, run,
                 dest>>

\* The result is handed over to the caller that waits on the channel.
Deliver(r, c) ==
  /\ pc[c] = "wait" /\ mine[c] = dest[r] /\ dest[r] \notin closed
  /\ Step(r, "send", "forget")
  /\ At(c, "wait", "reset")
  /\ outcome' = [outcome EXCEPT ![call[c]] = "result"]
  /\ got' = [got EXCEPT ![call[c]] = reply[r]]
  /\ UNCHANGED <<calls, call, pkg, mine, via, packages, waiting, peer, reply, res, run, dest>>

\* The channel is closed: the send panics and serverPkg recovers.  Nobody frees the
\* package of the result.
SendPanics(r) ==
  /\ dest[r] \in closed
  /\ Step(r, "send", "idle") /\ Leave(r)
  /\ UNCHANGED <<callers, packages, waiting, peer>>

Forget(r) ==
  /\ Step(r, "forget", "free")
  /\ waiting' = [waiting EXCEPT ![reply[r]] = 0]
  /\ UNCHANGED <<callers, packages, peer, reply, res, run, dest>>

\* FreeMethod of the result
Free(r) ==
  /\ Step(r, "free", "idle")
  /\ ReSet(res[r]) /\ Leave(r)
  /\ pool' = pool \cup {res[r]}
  /\ UNCHANGED <<callers, made, waiting, peer>>
--------------------------------------------------------------------------------
Running(c) == WaitChan(c) \/ Store(c) \/ Handle(c) \/ TimeOut(c) \/ Delete(c) \/ Reset(c)
              \/ Put(c)

\* con.Write has no deadline: it lasts as long as the peer does not read.
Writing(c) == WriteObject(c) \/ StartCall(c)

Calling(c) == Running(c) \/ Writing(c)

Peer == \E i \in requests : Answer(i) \/ Ignore(i)

Receiving(r) == Load(r) \/ Look(r) \/ Channel(r) \/ Respond(r) \/ SendPanics(r)
                \/ Forget(r) \/ Free(r) \/ \E c \in Caller : Deliver(r, c)

Next == \/ \E c \in Caller : GetMethod(c) \/ Calling(c)
        \/ Peer
        \/ \E r \in Con : Take(r) \/ Receiving(r)

Spec == Init /\ [][Next]_vars

\* Goroutines run and timers fire; nothing is asked of the peer or the network, which
\* may block a write for good.
Fairness == /\ \A c \in Caller : WF_vars(Running(c))
            /\ \A r \in Con : WF_vars(Receiving(r))

FairSpec == Spec /\ Fairness
--------------------------------------------------------------------------------
(* What must hold *)

\* A call gets its own result.  The one exception the code leaves open: a receiver
\* that has looked up a call just before that call timed out hands the late result
\* to whoever has the package by then, whose own result is then a late one as well.
WrongResultIsALateOne ==
  \A i, j \in Call : got[i] = j /\ i # j => outcome[j] = "timeout" \/ got[j] \notin {0, j}

\* However the frees of callers and receivers interleave, a package that lies in the
\* pool belongs to nobody, and no two calls in progress share one.
PackagesAreExclusive ==
  /\ \A c \in Caller : pc[c] # "idle" => pkg[c] \notin pool
  /\ \A c, d \in Caller : c # d /\ pc[c] # "idle" /\ pc[d] # "idle" => pkg[c] # pkg[d]

\* The channel a caller waits on is open, and it is the one a receiver would find: a
\* caller is never woken up without a result.
WaitersChannelIsOpen ==
  \A c \in Caller : pc[c] = "wait" => mine[c] \notin closed /\ waitchan[pkg[c]] = mine[c]

\* fRpcWaitReturnMethods does not collect calls that are over: an entry belongs to a
\* call in progress, to a receiver that is about to delete it, to a result handler
\* that still may be called, to a request that could not be sent, or to a call that
\* was given the late result of another one.
EntriesAreInUse ==
  \A i \in Call : waiting[i] # 0 =>
    \/ \E c \in Caller : call[c] = i
    \/ \E r \in Con : reply[r] = i /\ rpc[r] = "forget"
    \/ handler[waiting[i]] = i
    \/ outcome[i] = "failed"
    \/ got[i] \notin {0, i}

\* A call made inside a handler keeps the receiver that would have to read its result:
\* it can only time out.
HandlerCallGetsNoResult ==
  \A c \in InHandler : pc[c] \in {"reset", "put"} => got[call[c]] # call[c]

\* A receiver that finds the channel of a package set to nil just before its send never
\* returns.  Only a result that came too late can do that: its call had timed out, or
\* was given the late result of another one.
OnlyLateOnesBlock ==
  \A r \in Con : rpc[r] = "stuck" =>
    outcome[reply[r]] = "timeout" \/ got[reply[r]] \notin {0, reply[r]}

\* A receiver that has got hold of a channel is not held up for good by a caller that
\* is gone or waits: it gets on, unless the caller who has the channel by now is in
\* con.Write, which may last.
ReceiverGetsOn ==
  \A r \in Con : rpc[r] = "send" ~>
    rpc[r] # "send" \/ \E c \in Caller : pc[c] = "write" /\ mine[c] = dest[r]

\* Once its request is written a call comes back, whatever the peer and the network do.
CallReturns == \A c \in Caller : pc[c] = "wait" ~> pc[c] = "idle"

================================================================================
