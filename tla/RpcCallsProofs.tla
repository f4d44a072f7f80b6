----------------------------- MODULE RpcCallsProofs -----------------------------
(***************************************************************************)
(* For any connections, callers, packages and calls: who owns a package,   *)
(* that a caller waits on an open channel, and that a call made inside a   *)
(* handler is never given its own result (IInv); and beside that what      *)
(* becomes of calls: the entries of the map, and who is given the result   *)
(* of another call (Fates).                                                *)
(***************************************************************************)
EXTENDS RpcCalls, TLAPS

Active(c) == pc[c] # "idle"
Receives(r) == rpc[r] # "idle"

\* A receiver has the package of its call in hand, its channel or its handler in view.
Looks(r) == rpc[r] \in {"look", "channel", "handler"}

\* The ids in use are ids of calls that were begun.
Ids ==
  /\ requests \subseteq 1 .. calls /\ replies \subseteq 1 .. calls
  /\ closed \subseteq 1 .. calls
  /\ \A c \in Caller : Active(c) => call[c] \in 1 .. calls
  /\ \A r \in Con : reply[r] \in 0 .. calls
  /\ \A p \in Pkg : handler[p] \in 0 .. calls /\ waitchan[p] \in 0 .. calls
  /\ \A i \in Call : i > calls => got[i] = 0
  /\ \A r \in Con : Looks(r) => run[r] \in Pkg

\* Calls in progress differ.
CallsDiffer ==
  \A c, d \in Caller : c # d /\ Active(c) /\ Active(d) => call[c] # call[d]

\* A package that was made is in the pool, in the hands of one caller or in those
\* of one receiver, and never in two places.
Owners ==
  /\ pool \subseteq 1 .. made
  /\ \A c \in Caller : Active(c) => pkg[c] \in 1 .. made /\ pkg[c] \notin pool
  /\ \A r \in Con : Receives(r) => res[r] \in 1 .. made /\ res[r] \notin pool
  /\ \A c, d \in Caller : c # d /\ Active(c) /\ Active(d) => pkg[c] # pkg[d]
  /\ \A r, s \in Con : r # s /\ Receives(r) /\ Receives(s) => res[r] # res[s]
  /\ \A c \in Caller, r \in Con : Active(c) /\ Receives(r) => pkg[c] # res[r]

\* From WaitChan to ReSet a caller's package has the channel of its call, which is
\* open; no other package has a channel.
Holds(c) == pc[c] \in {"store", "write", "wait", "delete", "reset"}
Channels ==
  /\ \A c \in Caller : pc[c] = "chan" => call[c] \notin closed
  /\ \A c \in Caller :
       Holds(c) => /\ mine[c] = call[c] /\ waitchan[pkg[c]] = call[c]
                   /\ call[c] \notin closed
  /\ \A p \in Pkg : waitchan[p] # 0 => \E c \in Caller : Holds(c) /\ pkg[c] = p

\* A receiver holds results of its own connection only, and none while a handler
\* of that connection makes a call.
Handlers ==
  /\ \A r \in Con : Receives(r) => reply[r] \in Call /\ via[reply[r]] = r
  /\ \A c \in InHandler :
       Active(c) => rpc[via[call[c]]] = "idle" /\ got[call[c]] # call[c]

IInv == TypeOK /\ Ids /\ CallsDiffer /\ Owners /\ Channels /\ Handlers

USE CallsAssumption

\* At first there are no calls and no packages.
LEMMA InitInv == Init => IInv
<1> SUFFICES ASSUME Init PROVE IInv
  OBVIOUS
<1>1. TypeOK
  BY DEF Init, TypeOK, Pkg, Call
<1>2. Ids /\ CallsDiffer /\ Owners
  BY DEF Init, Ids, CallsDiffer, Owners, Active, Receives, Looks, Call, Pkg
<1>3. Channels /\ Handlers
  BY DEF Init, Channels, Handlers, Holds, Active, Receives
<1> QED BY <1>1, <1>2, <1>3 DEF IInv

\* TypeOK in the groups of variables that a step changes together.
CallerTypes ==
  /\ calls \in 0 .. MaxCall
  /\ pc \in [Caller -> {"idle", "chan", "handle", "store", "write", "start", "wait",
                        "delete", "reset", "put"}]
  /\ call \in [Caller -> 0 .. MaxCall]
  /\ pkg \in [Caller -> 0 .. MaxPkg] /\ mine \in [Caller -> 0 .. MaxCall]
CallTypes ==
  /\ via \in [Call -> Con]
  /\ outcome \in [Call -> {"none", "timeout", "failed", "result"}]
  /\ got \in [Call -> 0 .. MaxCall]
  /\ waiting \in [Call -> 0 .. MaxPkg]
  /\ requests \subseteq Call /\ replies \subseteq Call
PackageTypes ==
  /\ made \in 0 .. MaxPkg /\ pool \subseteq Pkg
  /\ waitchan \in [Pkg -> 0 .. MaxCall] /\ handler \in [Pkg -> 0 .. MaxCall]
  /\ closed \subseteq Call
ReceiverTypes ==
  /\ rpc \in [Con -> {"idle", "load", "look", "channel", "handler", "send", "stuck",
                      "forget", "free"}]
  /\ reply \in [Con -> 0 .. MaxCall] /\ dest \in [Con -> 0 .. MaxCall]
  /\ res \in [Con -> 0 .. MaxPkg] /\ run \in [Con -> 0 .. MaxPkg]

\* What a step uses as an index is one.
InUse ==
  /\ \A c \in Caller : pc[c] # "idle" => call[c] \in Call /\ pkg[c] \in Pkg
  /\ \A r \in Con : rpc[r] # "idle" => res[r] \in Pkg /\ reply[r] \in Call
  /\ \A r \in Con : Looks(r) => run[r] \in Pkg

LEMMA IndicesInUse == TypeOK /\ Ids /\ Owners /\ Handlers => InUse
BY DEF TypeOK, Ids, Owners, Handlers, Active, Receives, Looks, InUse, Pkg, Call

LEMMA Types == TypeOK <=> CallerTypes /\ CallTypes /\ PackageTypes /\ ReceiverTypes
BY DEF TypeOK, CallerTypes, CallTypes, PackageTypes, ReceiverTypes

LEMMA GetTypes ==
  ASSUME PackageTypes, NEW p, Get(p)
  PROVE  p \in Pkg /\ made' \in 0 .. MaxPkg /\ pool' \subseteq Pkg
<1> USE DEF PackageTypes, Pkg
<1>1. CASE p \in pool /\ pool' = pool \ {p} /\ UNCHANGED made
  BY <1>1
<1>2. CASE made < MaxPkg /\ p = made + 1 /\ made' = p /\ UNCHANGED pool
  BY <1>2
<1> QED BY <1>1, <1>2 DEF Get

LEMMA ReSetTypes ==
  ASSUME PackageTypes, NEW p \in Pkg, ReSet(p)
  PROVE  /\ waitchan' \in [Pkg -> 0 .. MaxCall] /\ handler' \in [Pkg -> 0 .. MaxCall]
         /\ closed' \subseteq Call
<1>1. waitchan[p] \in 0 .. MaxCall /\ 0 \in 0 .. MaxCall
  BY DEF PackageTypes
<1>2. {waitchan[p]} \ {0} \subseteq Call
  BY <1>1 DEF Call
<1>3. closed' \subseteq Call
  BY <1>2 DEF PackageTypes, ReSet
<1> QED BY <1>1, <1>3 DEF PackageTypes, ReSet

LEMMA CallingCallerTypes ==
  ASSUME CallerTypes, PackageTypes, InUse, NEW c \in Caller, GetMethod(c) \/ Calling(c)
  PROVE  CallerTypes'
<1> USE DEF CallerTypes, At
<1>1. CASE GetMethod(c)
  <2>1. PICK p : Get(p) /\ pkg' = [pkg EXCEPT ![c] = p] BY <1>1 DEF GetMethod
  <2>2. p \in 0 .. MaxPkg BY <2>1, GetTypes DEF Pkg
  <2> QED BY <1>1, <2>1, <2>2 DEF GetMethod
<1>2. CASE WaitChan(c)
  <2>1. call[c] \in 0 .. MaxCall /\ pkg[c] \in Pkg BY <1>2 DEF WaitChan, InUse
  <2>2. waitchan'[pkg[c]] \in 0 .. MaxCall BY <1>2, <2>1 DEF WaitChan, PackageTypes
  <2> QED BY <1>2, <2>2 DEF WaitChan
<1>3. CASE Store(c) BY <1>3 DEF Store
<1>4. CASE WriteObject(c) BY <1>4 DEF WriteObject
<1>5. CASE Handle(c) BY <1>5 DEF Handle
<1>6. CASE StartCall(c) BY <1>6 DEF StartCall
<1>7. CASE TimeOut(c) BY <1>7 DEF TimeOut
<1>8. CASE Delete(c) BY <1>8 DEF Delete
<1>9. CASE Reset(c) BY <1>9 DEF Reset
<1>10. CASE Put(c) BY <1>10 DEF Put
<1> QED
  BY <1>1, <1>2, <1>3, <1>4, <1>5, <1>6, <1>7, <1>8, <1>9, <1>10 DEF Calling, Running, Writing

LEMMA CallingCallTypes ==
  ASSUME CallerTypes, CallTypes, InUse, NEW c \in Caller, GetMethod(c) \/ Calling(c)
  PROVE  CallTypes'
<1>0. 0 \in 0 .. MaxPkg /\ (pc[c] # "idle" => call[c] \in Call /\ pkg[c] \in 0 .. MaxPkg)
  BY DEF InUse, Pkg
<1> USE DEF CallTypes, At, peer
<1>1. CASE GetMethod(c) BY <1>1 DEF GetMethod
<1>2. CASE WaitChan(c) BY <1>2 DEF WaitChan
<1>3. CASE Store(c) BY <1>0, <1>3 DEF Store
<1>4. CASE WriteObject(c) BY <1>0, <1>4 DEF WriteObject
<1>5. CASE Handle(c) BY <1>0, <1>5 DEF Handle
<1>6. CASE StartCall(c) BY <1>0, <1>6 DEF StartCall
<1>7. CASE TimeOut(c) BY <1>7 DEF TimeOut
<1>8. CASE Delete(c) BY <1>0, <1>8 DEF Delete
<1>9. CASE Reset(c) BY <1>9 DEF Reset
<1>10. CASE Put(c) BY <1>10 DEF Put
<1> QED
  BY <1>1, <1>2, <1>3, <1>4, <1>5, <1>6, <1>7, <1>8, <1>9, <1>10 DEF Calling, Running, Writing

LEMMA CallingPackageTypes ==
  ASSUME CallerTypes, PackageTypes, InUse, NEW c \in Caller, GetMethod(c) \/ Calling(c)
  PROVE  PackageTypes'
<1>0. pc[c] # "idle" => call[c] \in 0 .. MaxCall /\ pkg[c] \in Pkg
  BY DEF InUse, Call
<1> USE DEF PackageTypes, At, packages
<1>1. CASE GetMethod(c) BY <1>1, GetTypes DEF GetMethod
<1>2. CASE WaitChan(c) BY <1>0, <1>2 DEF WaitChan
<1>3. CASE Store(c) BY <1>3 DEF Store
<1>4. CASE WriteObject(c) BY <1>4 DEF WriteObject
<1>5. CASE Handle(c) BY <1>0, <1>5 DEF Handle
<1>6. CASE StartCall(c) BY <1>6 DEF StartCall
<1>7. CASE TimeOut(c) BY <1>7 DEF TimeOut
<1>8. CASE Delete(c) BY <1>8 DEF Delete
<1>9. CASE Reset(c) BY <1>0, <1>9, ReSetTypes DEF Reset
<1>10. CASE Put(c) BY <1>0, <1>10 DEF Put
<1> QED
  BY <1>1, <1>2, <1>3, <1>4, <1>5, <1>6, <1>7, <1>8, <1>9, <1>10 DEF Calling, Running, Writing

LEMMA CallingReceiverTypes ==
  ASSUME ReceiverTypes, NEW c \in Caller, GetMethod(c) \/ Calling(c)
  PROVE  ReceiverTypes'
<1>1. UNCHANGED receivers
  BY DEF GetMethod, Calling, Running, Writing, WaitChan, Store, WriteObject, Handle,
         StartCall, TimeOut, Delete,
         Reset, Put, receivers
<1> QED BY <1>1 DEF ReceiverTypes, receivers

LEMMA ReceivingCallerTypes ==
  ASSUME CallerTypes, NEW r \in Con, Take(r) \/ Receiving(r)
  PROVE  CallerTypes'
<1>1. \/ UNCHANGED <<calls, pc, call, pkg, mine>>
      \/ UNCHANGED <<calls, call, pkg, mine>> /\ \E c \in Caller : At(c, "wait", "reset")
  BY DEF Receiving, Take, Load, Look, Channel, Respond, SendPanics, Forget, Free, Deliver,
         callers
<1> QED BY <1>1 DEF CallerTypes, At

LEMMA ReceivingCallTypes ==
  ASSUME CallTypes, ReceiverTypes, PackageTypes, InUse,
         NEW r \in Con, Take(r) \/ Receiving(r)
  PROVE  CallTypes'
<1>0. reply[r] \in 0 .. MaxCall /\ 0 \in 0 .. MaxPkg
  BY DEF ReceiverTypes
<1> USE DEF CallTypes, callers, peer
<1>1. CASE Take(r)
  <2>1. replies' \subseteq replies BY <1>1 DEF Take
  <2> QED BY <1>1, <2>1 DEF Take
<1>2. CASE Load(r) BY <1>2 DEF Load
<1>3. CASE Respond(r)
  <2>1. outcome' \in [Call -> {"none", "timeout", "failed", "result"}] BY <1>3 DEF Respond
  <2>2. got' \in [Call -> 0 .. MaxCall] BY <1>0, <1>3 DEF Respond
  <2> QED BY <1>3, <2>1, <2>2 DEF Respond
<1>8. CASE Look(r) \/ Channel(r) BY <1>8 DEF Look, Channel
<1>4. CASE SendPanics(r) BY <1>4 DEF SendPanics
<1>5. CASE Forget(r) BY <1>0, <1>5 DEF Forget
<1>6. CASE Free(r) BY <1>6 DEF Free
<1>7. ASSUME NEW c \in Caller, Deliver(r, c) PROVE CallTypes' BY <1>0, <1>7 DEF Deliver
<1> QED BY <1>1, <1>2, <1>3, <1>4, <1>5, <1>6, <1>7, <1>8 DEF Receiving

LEMMA ReceivingPackageTypes ==
  ASSUME PackageTypes, InUse, NEW r \in Con, Take(r) \/ Receiving(r)
  PROVE  PackageTypes'
<1>0. rpc[r] # "idle" => res[r] \in Pkg
  BY DEF InUse
<1> USE DEF PackageTypes, packages
<1>1. CASE Take(r)
  <2>1. PICK p \in Pkg : Get(p) BY <1>1 DEF Take
  <2>2. made' \in 0 .. MaxPkg /\ pool' \subseteq Pkg BY <2>1, GetTypes
  <2> QED BY <1>1, <2>2 DEF Take
<1>2. CASE Load(r) BY <1>2 DEF Load
<1>3. CASE Look(r) \/ Channel(r) \/ Respond(r) BY <1>3 DEF Look, Channel, Respond
<1>4. CASE SendPanics(r) BY <1>4 DEF SendPanics
<1>5. CASE Forget(r) BY <1>5 DEF Forget
<1>6. CASE Free(r)
  <2>1. res[r] \in Pkg BY <1>0, <1>6 DEF Free, Step
  <2> QED BY <1>6, <2>1, ReSetTypes DEF Free
<1>7. ASSUME NEW c \in Caller, Deliver(r, c) PROVE PackageTypes' BY <1>7 DEF Deliver
<1> QED BY <1>1, <1>2, <1>3, <1>4, <1>5, <1>6, <1>7 DEF Receiving

LEMMA ReceivingReceiverTypes ==
  ASSUME CallTypes, ReceiverTypes, PackageTypes, InUse,
         NEW r \in Con, Take(r) \/ Receiving(r)
  PROVE  ReceiverTypes'
<1> USE DEF ReceiverTypes, Step, Leave
<1>1. CASE Take(r)
  <2>1. PICK i \in replies, p \in Pkg : /\ reply' = [reply EXCEPT ![r] = i]
                                        /\ res' = [res EXCEPT ![r] = p]
    BY <1>1 DEF Take
  <2>2. i \in 0 .. MaxCall /\ p \in 0 .. MaxPkg BY DEF CallTypes, Call, Pkg
  <2> QED BY <1>1, <2>1, <2>2 DEF Take
<1>2. CASE Load(r)
  <2>1. waiting[reply[r]] \in 0 .. MaxPkg BY <1>2 DEF Load, InUse, CallTypes
  <2> QED BY <1>2, <2>1 DEF Load
<1>3. CASE Channel(r)
  <2>1. waitchan[run[r]] \in 0 .. MaxCall BY <1>3 DEF Channel, InUse, Looks, PackageTypes
  <2> QED BY <1>3, <2>1 DEF Channel
<1>8. CASE Look(r) \/ Respond(r) BY <1>8 DEF Look, Respond
<1>4. CASE SendPanics(r)
  <2>1. 0 \in 0 .. MaxCall /\ 0 \in 0 .. MaxPkg OBVIOUS
  <2> QED BY <1>4, <2>1 DEF SendPanics
<1>5. CASE Forget(r) BY <1>5 DEF Forget
<1>6. CASE Free(r) BY <1>6 DEF Free
<1>7. ASSUME NEW c \in Caller, Deliver(r, c) PROVE ReceiverTypes' BY <1>7 DEF Deliver
<1> QED BY <1>1, <1>2, <1>3, <1>4, <1>5, <1>6, <1>7, <1>8 DEF Receiving

-----------------------------------------------------------------------------
(* Callers: a step of one leaves the others alone, and begins, carries on or ends
   a call *)

LEMMA OthersStay ==
  ASSUME CallerTypes, NEW c \in Caller, GetMethod(c) \/ Calling(c), NEW d \in Caller, d # c
  PROVE  pc'[d] = pc[d] /\ call'[d] = call[d] /\ pkg'[d] = pkg[d] /\ mine'[d] = mine[d]
<1> USE DEF CallerTypes, At
<1>1. CASE GetMethod(c) BY <1>1 DEF GetMethod
<1>2. CASE WaitChan(c) BY <1>2 DEF WaitChan
<1>3. CASE Store(c) BY <1>3 DEF Store
<1>4. CASE WriteObject(c) BY <1>4 DEF WriteObject
<1>5. CASE Handle(c) BY <1>5 DEF Handle
<1>6. CASE StartCall(c) BY <1>6 DEF StartCall
<1>7. CASE TimeOut(c) BY <1>7 DEF TimeOut
<1>8. CASE Delete(c) BY <1>8 DEF Delete
<1>9. CASE Reset(c) BY <1>9 DEF Reset
<1>10. CASE Put(c) BY <1>10 DEF Put
<1> QED
  BY <1>1, <1>2, <1>3, <1>4, <1>5, <1>6, <1>7, <1>8, <1>9, <1>10 DEF Calling, Running, Writing

CarriesOn(c) == pc'[c] # "idle" /\ UNCHANGED <<call, pkg, pool>>
Ends(c) == pc'[c] = "idle" /\ pool' \subseteq pool \cup {pkg[c]}

LEMMA CarriesOnOrEnds ==
  ASSUME CallerTypes, NEW c \in Caller, Calling(c)
  PROVE  /\ pc[c] # "idle" /\ UNCHANGED <<calls, made, via, got, receivers>>
         /\ CarriesOn(c) \/ Ends(c)
<1> USE DEF CallerTypes, At, packages, CarriesOn, Ends
<1>2. CASE WaitChan(c) BY <1>2 DEF WaitChan
<1>3. CASE Store(c) BY <1>3 DEF Store
<1>4. CASE WriteObject(c) BY <1>4 DEF WriteObject
<1>5. CASE Handle(c) BY <1>5 DEF Handle
<1>6. CASE StartCall(c) BY <1>6 DEF StartCall
<1>7. CASE TimeOut(c) BY <1>7 DEF TimeOut
<1>8. CASE Delete(c) BY <1>8 DEF Delete
<1>9. CASE Reset(c) BY <1>9 DEF Reset
<1>10. CASE Put(c) BY <1>10 DEF Put
<1> QED
  BY <1>2, <1>3, <1>4, <1>5, <1>6, <1>7, <1>8, <1>9, <1>10 DEF Calling, Running, Writing

-----------------------------------------------------------------------------
(* Ids *)

LEMMA ReSetIds ==
  ASSUME CallerTypes, PackageTypes, Ids, NEW p \in Pkg, ReSet(p)
  PROVE  /\ closed' \subseteq 1 .. calls
         /\ \A q \in Pkg : handler'[q] \in 0 .. calls /\ waitchan'[q] \in 0 .. calls
<1>1. calls \in Nat /\ 0 \in 0 .. calls
  BY DEF CallerTypes
<1>2. {waitchan[p]} \ {0} \subseteq 1 .. calls
  BY <1>1 DEF Ids
<1>3. closed' \subseteq 1 .. calls
  BY <1>2 DEF Ids, ReSet
<1>4. \A q \in Pkg : /\ handler'[q] = IF q = p THEN 0 ELSE handler[q]
                     /\ waitchan'[q] = IF q = p THEN 0 ELSE waitchan[q]
  BY DEF ReSet, PackageTypes
<1> QED BY <1>1, <1>3, <1>4 DEF Ids

LEMMA CallingIds ==
  ASSUME TypeOK, Ids, InUse, NEW c \in Caller, GetMethod(c) \/ Calling(c)
  PROVE  Ids'
<1>0. /\ calls \in Nat /\ \A d \in Caller : pc[d] # "idle" => call[d] \in 1 .. calls
      /\ CallerTypes /\ PackageTypes
  BY Types DEF TypeOK, Ids, Active
<1>1. /\ requests' \subseteq 1 .. calls' /\ replies' \subseteq 1 .. calls'
      /\ closed' \subseteq 1 .. calls'
      /\ \A p \in Pkg : handler'[p] \in 0 .. calls' /\ waitchan'[p] \in 0 .. calls'
  <2> USE DEF Ids, At, peer, packages
  <2>1. CASE GetMethod(c) BY <1>0, <2>1 DEF GetMethod
  <2>2. CASE WaitChan(c) BY <1>0, <2>2 DEF WaitChan, PackageTypes
  <2>3. CASE Store(c) BY <2>3 DEF Store
  <2>4. CASE WriteObject(c) BY <1>0, <2>4 DEF WriteObject
  <2>5. CASE Handle(c) BY <1>0, <2>5 DEF Handle, PackageTypes
  <2>6. CASE StartCall(c) BY <1>0, <2>6 DEF StartCall
  <2>7. CASE TimeOut(c) BY <2>7 DEF TimeOut
  <2>8. CASE Delete(c) BY <2>8 DEF Delete
  <2>9. CASE Reset(c)
    <3>1. pkg[c] \in Pkg BY <2>9 DEF Reset, InUse
    <3> QED BY <1>0, <2>9, <3>1, ReSetIds DEF Reset
  <2>10. CASE Put(c) BY <2>10 DEF Put
  <2> QED
    BY <2>1, <2>2, <2>3, <2>4, <2>5, <2>6, <2>7, <2>8, <2>9, <2>10 DEF Calling, Running,
                                                                       Writing
<1>2. ASSUME NEW d \in Caller, Active(d)' PROVE call'[d] \in 1 .. calls'
  <2>1. CASE d # c
    BY <1>0, <1>2, <2>1, OthersStay, CarriesOnOrEnds DEF Active, GetMethod
  <2>2. CASE d = c /\ GetMethod(c)
    BY <1>0, <2>2 DEF GetMethod, CallerTypes
  <2>3. CASE d = c /\ Calling(c)
    BY <1>0, <1>2, <2>3, CarriesOnOrEnds DEF Active, CarriesOn, Ends
  <2> QED BY <2>1, <2>2, <2>3
<1>3. /\ \A r \in Con : reply'[r] \in 0 .. calls' /\ (Looks(r)' => run'[r] \in Pkg)
      /\ \A i \in Call : i > calls' => got'[i] = 0
  <2>1. UNCHANGED <<receivers, got>> /\ calls' \in {calls, calls + 1}
    BY <1>0, CarriesOnOrEnds DEF GetMethod
  <2> QED BY <1>0, <2>1 DEF receivers, Ids, Looks, Call
<1> QED BY <1>1, <1>2, <1>3 DEF Ids

LEMMA ReceivingIds ==
  ASSUME TypeOK, Ids, InUse, NEW r \in Con, Take(r) \/ Receiving(r)
  PROVE  Ids'
<1>0. CallerTypes /\ CallTypes /\ PackageTypes /\ ReceiverTypes
  BY Types
<1>1. UNCHANGED <<calls, call, requests>> /\ replies' \subseteq replies
  BY DEF Receiving, Take, Load, Look, Channel, Respond, SendPanics, Forget, Free, Deliver,
         callers, peer
<1>2. \A d \in Caller : Active(d)' => Active(d)
  <2>1. \/ UNCHANGED pc
        \/ \E d \in Caller : At(d, "wait", "reset")
    BY DEF Receiving, Take, Load, Look, Channel, Respond, SendPanics, Forget, Free, Deliver,
           callers
  <2> QED BY <1>0, <2>1 DEF Active, At, CallerTypes
<1>3. /\ closed' \subseteq 1 .. calls
      /\ \A p \in Pkg : handler'[p] \in 0 .. calls /\ waitchan'[p] \in 0 .. calls
  <2>1. CASE UNCHANGED <<waitchan, handler, closed>> BY <2>1 DEF Ids
  <2>2. CASE ReSet(res[r]) /\ res[r] \in Pkg
    BY <1>0, <2>2, ReSetIds
  <2> QED
    BY <2>1, <2>2 DEF Receiving, Take, Load, Look, Channel, Respond, SendPanics, Forget,
                      Free, Deliver, packages,
                      Step, InUse
<1>4. \A s \in Con : reply'[s] \in 0 .. calls /\ (Looks(s)' => run'[s] \in Pkg)
  <2> USE <1>0 DEF Ids, Looks, Step, ReceiverTypes, CallerTypes, CallTypes
  <2>1. CASE Take(r)
    <3>1. PICK i \in replies : reply' = [reply EXCEPT ![r] = i] BY <2>1 DEF Take
    <3> QED BY <2>1, <3>1 DEF Take
  <2>2. CASE Load(r)
    <3>1. waiting[reply[r]] \in 0 .. MaxPkg BY <2>2 DEF Load, InUse
    <3> QED BY <2>2, <3>1 DEF Load, Pkg
  <2>3. CASE Look(r) \/ Channel(r) \/ Respond(r) BY <2>3 DEF Look, Channel, Respond
  <2>4. CASE SendPanics(r) \/ Free(r) BY <2>4 DEF SendPanics, Free, Leave
  <2>5. CASE Forget(r) BY <2>5 DEF Forget
  <2>6. CASE \E c \in Caller : Deliver(r, c) BY <2>6 DEF Deliver
  <2> QED BY <2>1, <2>2, <2>3, <2>4, <2>5, <2>6 DEF Receiving
<1>5. \A i \in Call : i > calls => got'[i] = 0
  <2> USE <1>0 DEF Ids, CallTypes
  <2>1. CASE Respond(r)
    <3>1. handler[run[r]] \in 0 .. calls BY <2>1 DEF Respond, Step, Looks, InUse
    <3>2. CASE UNCHANGED got BY <2>1, <3>2 DEF Respond
    <3>3. CASE got' = [got EXCEPT ![handler[run[r]]] = reply[r]]
      <4>1. \A i \in Call : i > calls => i # handler[run[r]]
        BY <1>0, <3>1 DEF Call, CallerTypes
      <4> QED BY <2>1, <3>3, <4>1 DEF Respond
    <3> QED BY <2>1, <3>2, <3>3 DEF Respond
  <2>2. CASE \E c \in Caller : Deliver(r, c)
    <3>1. PICK c \in Caller : Deliver(r, c) BY <2>2
    <3>2. call[c] \in 1 .. calls BY <3>1 DEF Deliver, Active
    <3> QED BY <3>1, <3>2 DEF Deliver, Call, CallerTypes
  <2>3. CASE UNCHANGED got BY <2>3
  <2> QED BY <2>1, <2>2, <2>3 DEF Receiving, Take, Load, Look, Channel, SendPanics, Forget,
                                  Free,
                                   callers
<1> QED BY <1>1, <1>2, <1>3, <1>4, <1>5 DEF Ids

-----------------------------------------------------------------------------
(* CallsDiffer and Owners *)

LEMMA CallingDiffer ==
  ASSUME TypeOK, Ids, CallsDiffer, NEW c \in Caller, GetMethod(c) \/ Calling(c)
  PROVE  CallsDiffer'
<1>0. /\ calls \in Nat /\ \A d \in Caller : Active(d) => call[d] \in 1 .. calls
      /\ CallerTypes
  BY Types DEF TypeOK, Ids
<1>1. SUFFICES ASSUME NEW d \in Caller, d # c, Active(c)', Active(d)'
               PROVE  call'[c] # call'[d]
  <2>1. ASSUME NEW d \in Caller, NEW e \in Caller, d # e, d # c, e # c, Active(d)', Active(e)'
        PROVE  call'[d] # call'[e]
    <3>1. Active(d) /\ Active(e) /\ call'[d] = call[d] /\ call'[e] = call[e]
      BY <1>0, <2>1, OthersStay DEF Active
    <3> QED BY <2>1, <3>1 DEF CallsDiffer
  <2> QED BY <1>1, <2>1 DEF CallsDiffer
<1>2. Active(d) /\ call'[d] = call[d]
  BY <1>0, <1>1, OthersStay DEF Active
<1>3. CASE GetMethod(c)
  BY <1>0, <1>1, <1>2, <1>3 DEF GetMethod, CallerTypes
<1>4. CASE Calling(c)
  <2>1. Active(c) /\ call'[c] = call[c]
    BY <1>0, <1>1, <1>4, CarriesOnOrEnds DEF CarriesOn, Ends, Active
  <2> QED BY <1>1, <1>2, <2>1 DEF CallsDiffer
<1> QED BY <1>3, <1>4

\* A package that Get returns belonged to nobody.
LEMMA GetOwners ==
  ASSUME PackageTypes, Owners, NEW p, Get(p)
  PROVE  /\ p \in 1 .. made' /\ p \notin pool' /\ pool' \subseteq pool
         /\ 1 .. made \subseteq 1 .. made'
         /\ \A c \in Caller : Active(c) => pkg[c] # p
         /\ \A r \in Con : Receives(r) => res[r] # p
<1>0. made \in Nat /\ pool \subseteq 1 .. made
  BY DEF PackageTypes, Owners
<1>1. CASE p \in pool /\ pool' = pool \ {p} /\ UNCHANGED made
  BY <1>0, <1>1 DEF Owners
<1>2. CASE made < MaxPkg /\ p = made + 1 /\ made' = p /\ UNCHANGED pool
  <2>1. p \notin 1 .. made /\ p \in 1 .. made' /\ 1 .. made \subseteq 1 .. made'
    BY <1>0, <1>2
  <2> QED BY <1>0, <1>2, <2>1 DEF Owners
<1> QED BY <1>1, <1>2 DEF Get

LEMMA CallingOwners ==
  ASSUME TypeOK, Owners, NEW c \in Caller, GetMethod(c) \/ Calling(c)
  PROVE  Owners'
<1>0. CallerTypes /\ PackageTypes
  BY Types
<1>1. \A d \in Caller : d # c => (Active(d)' <=> Active(d)) /\ pkg'[d] = pkg[d]
  BY <1>0, OthersStay DEF Active
<1>2. \A r \in Con : (Receives(r)' <=> Receives(r)) /\ res'[r] = res[r]
  BY <1>0, CarriesOnOrEnds DEF GetMethod, receivers, Receives
<1>3. CASE GetMethod(c)
  <2>1. PICK p : Get(p) /\ pkg' = [pkg EXCEPT ![c] = p]
    BY <1>3 DEF GetMethod
  <2>2. pkg'[c] = p
    BY <1>0, <2>1 DEF CallerTypes
  <2>3. /\ p \in 1 .. made' /\ p \notin pool' /\ pool' \subseteq pool
        /\ 1 .. made \subseteq 1 .. made'
        /\ \A d \in Caller : Active(d) => pkg[d] # p
        /\ \A s \in Con : Receives(s) => res[s] # p
    BY <1>0, <2>1, GetOwners
  <2>4. pool' \subseteq 1 .. made'
    BY <2>3 DEF Owners
  <2> QED BY <1>1, <1>2, <2>2, <2>3, <2>4 DEF Owners
<1>4. CASE Calling(c) /\ CarriesOn(c)
  <2>1. Active(c) /\ UNCHANGED <<pkg, pool, made>>
    BY <1>0, <1>4, CarriesOnOrEnds DEF CarriesOn, Active
  <2> QED BY <1>1, <1>2, <2>1 DEF Owners
<1>5. CASE Calling(c) /\ Ends(c)
  <2>1. Active(c) /\ ~Active(c)' /\ pool' \subseteq pool \cup {pkg[c]} /\ UNCHANGED made
    BY <1>0, <1>5, CarriesOnOrEnds DEF Ends, Active
  <2> QED BY <1>1, <1>2, <2>1 DEF Owners
<1> QED BY <1>0, <1>3, <1>4, <1>5, CarriesOnOrEnds

LEMMA ReceivingOwners ==
  ASSUME TypeOK, Owners, NEW r \in Con, Take(r) \/ Receiving(r)
  PROVE  Owners'
<1>0. CallerTypes /\ PackageTypes /\ ReceiverTypes
  BY Types
<1>1. \A c \in Caller : (Active(c)' <=> Active(c)) /\ pkg'[c] = pkg[c]
  <2>1. UNCHANGED pkg /\ (UNCHANGED pc \/ \E c \in Caller : At(c, "wait", "reset"))
    BY DEF Receiving, Take, Load, Look, Channel, Respond, SendPanics, Forget, Free, Deliver,
           callers
  <2> QED BY <1>0, <2>1 DEF Active, At, CallerTypes
<1>2. \A s \in Con : s # r => (Receives(s)' <=> Receives(s)) /\ res'[s] = res[s]
  BY <1>0 DEF Receiving, Take, Load, Look, Channel, Respond, SendPanics, Forget, Free,
              Deliver, Leave, Step,
              Receives, ReceiverTypes
<1>3. CASE Take(r)
  <2>1. PICK p \in Pkg : Get(p) /\ res' = [res EXCEPT ![r] = p]
    BY <1>3 DEF Take
  <2>2. res'[r] = p
    BY <1>0, <2>1 DEF ReceiverTypes
  <2>3. /\ p \in 1 .. made' /\ p \notin pool' /\ pool' \subseteq pool
        /\ 1 .. made \subseteq 1 .. made'
        /\ \A d \in Caller : Active(d) => pkg[d] # p
        /\ \A s \in Con : Receives(s) => res[s] # p
    BY <1>0, <2>1, GetOwners
  <2>4. pool' \subseteq 1 .. made'
    BY <2>3 DEF Owners
  <2> QED BY <1>1, <1>2, <2>2, <2>3, <2>4 DEF Owners
<1>4. CASE Load(r) \/ Look(r) \/ Channel(r) \/ Respond(r) \/ Forget(r) \/ \E c \in Caller : Deliver(r, c)
  <2>1. Receives(r) /\ UNCHANGED <<res, pool, made>>
    BY <1>4 DEF Load, Look, Channel, Respond, Forget, Deliver, Step, Receives, packages
  <2> QED BY <1>1, <1>2, <2>1 DEF Owners
<1>5. CASE SendPanics(r) \/ Free(r)
  <2>1. /\ Receives(r) /\ ~Receives(r)' /\ UNCHANGED made
        /\ pool' \subseteq pool \cup {res[r]}
    BY <1>0, <1>5 DEF SendPanics, Free, Step, Receives, packages, ReceiverTypes
  <2> QED BY <1>1, <1>2, <2>1 DEF Owners
<1> QED BY <1>3, <1>4, <1>5 DEF Receiving

-----------------------------------------------------------------------------
(* Channels *)

\* A step that only moves callers within, or out of, their time without a channel, or
\* within their time with one.
LEMMA ChannelsKept ==
  ASSUME Channels, UNCHANGED <<waitchan, closed>>,
         \A c \in Caller : Holds(c)' <=> Holds(c),
         \A c \in Caller : Holds(c) => /\ mine'[c] = mine[c] /\ call'[c] = call[c]
                                       /\ pkg'[c] = pkg[c],
         \A c \in Caller : pc'[c] = "chan" => call'[c] \notin closed
  PROVE  Channels'
BY DEF Channels

LEMMA CallingChannels ==
  ASSUME TypeOK, Ids, CallsDiffer, Owners, Channels, InUse,
         NEW c \in Caller, GetMethod(c) \/ Calling(c)
  PROVE  Channels'
<1>0. CallerTypes /\ PackageTypes /\ calls \in Nat
  BY Types DEF TypeOK
<1>1. \A d \in Caller : d # c => /\ pc'[d] = pc[d] /\ call'[d] = call[d]
                                 /\ pkg'[d] = pkg[d] /\ mine'[d] = mine[d]
                                 /\ Holds(d)' <=> Holds(d)
  BY <1>0, OthersStay DEF Holds
<1>2. CASE GetMethod(c)
  <2>1. ~Holds(c) /\ ~Holds(c)' /\ call'[c] = calls + 1 /\ UNCHANGED <<waitchan, closed>>
    BY <1>0, <1>2 DEF GetMethod, At, Holds, CallerTypes
  <2>2. calls + 1 \notin closed
    BY <1>0 DEF Ids
  <2>3. \A d \in Caller : pc'[d] = "chan" => call'[d] \notin closed
    BY <1>1, <2>1, <2>2 DEF Channels
  <2> QED BY <1>1, <2>1, <2>3, ChannelsKept
<1>3. CASE WaitChan(c)
  <2>0. /\ pc[c] = "chan" /\ pc'[c] = "store" /\ ~Holds(c) /\ Holds(c)' /\ pkg[c] \in Pkg
        /\ UNCHANGED <<call, pkg, closed>> /\ call[c] \in Call
    BY <1>0, <1>3 DEF WaitChan, At, Holds, CallerTypes, InUse
  <2>1. waitchan[pkg[c]] = 0
    BY <2>0 DEF Channels, Owners, Active, Holds
  <2>2. \A p \in Pkg : waitchan'[p] = IF p = pkg[c] THEN call[c] ELSE waitchan[p]
    BY <1>0, <1>3, <2>0, <2>1 DEF WaitChan, PackageTypes
  <2>3. mine'[c] = call[c]
    BY <1>0, <1>3, <2>0, <2>2 DEF WaitChan, CallerTypes
  <2>4. \A d \in Caller : d # c /\ Holds(d) => pkg[d] # pkg[c] /\ pkg[d] \in Pkg
    BY <2>0 DEF Owners, Active, Holds, InUse
  <2>5. \A d \in Caller : pc'[d] = "chan" => call'[d] \notin closed'
    BY <1>1, <2>0 DEF Channels
  <2>6. \A d \in Caller : Holds(d)' => /\ mine'[d] = call'[d] /\ call'[d] \notin closed'
                                       /\ waitchan'[pkg'[d]] = call'[d]
    BY <1>1, <2>0, <2>2, <2>3, <2>4 DEF Channels
  <2>7. \A p \in Pkg : waitchan'[p] # 0 => \E d \in Caller : Holds(d)' /\ pkg'[d] = p
    BY <1>1, <2>0, <2>2 DEF Channels
  <2> QED BY <2>5, <2>6, <2>7 DEF Channels
<1>4. CASE Reset(c)
  <2>0. /\ Holds(c) /\ pc'[c] = "put" /\ ~Holds(c)' /\ pkg[c] \in Pkg /\ Active(c)
        /\ UNCHANGED <<call, pkg>>
    BY <1>0, <1>4 DEF Reset, At, Holds, CallerTypes, InUse, Active
  <2>1. waitchan[pkg[c]] = call[c]
    BY <2>0 DEF Channels
  <2>2. /\ \A p \in Pkg : waitchan'[p] = IF p = pkg[c] THEN 0 ELSE waitchan[p]
        /\ closed' \subseteq closed \cup {call[c]}
    BY <1>0, <1>4, <2>0, <2>1 DEF Reset, ReSet, PackageTypes
  <2>3. \A d \in Caller : d # c /\ (Holds(d) \/ pc[d] = "chan") =>
          pkg[d] # pkg[c] /\ pkg[d] \in Pkg /\ call[d] # call[c]
    BY <2>0 DEF Owners, Active, Holds, InUse, CallsDiffer
  <2>5. \A d \in Caller : pc'[d] = "chan" => call'[d] \notin closed'
    BY <1>1, <2>0, <2>2, <2>3 DEF Channels
  <2>6. \A d \in Caller : Holds(d)' => /\ mine'[d] = call'[d] /\ call'[d] \notin closed'
                                       /\ waitchan'[pkg'[d]] = call'[d]
    BY <1>1, <2>0, <2>2, <2>3 DEF Channels
  <2>7. \A p \in Pkg : waitchan'[p] # 0 => \E d \in Caller : Holds(d)' /\ pkg'[d] = p
    BY <1>1, <2>0, <2>2 DEF Channels
  <2> QED BY <2>5, <2>6, <2>7 DEF Channels
<1>5. CASE Store(c) \/ WriteObject(c) \/ TimeOut(c) \/ Delete(c)
  <2>1. /\ Holds(c) /\ Holds(c)' /\ pc'[c] # "chan"
        /\ UNCHANGED <<call, pkg, mine, waitchan, closed>>
    BY <1>0, <1>5 DEF Store, WriteObject, TimeOut, Delete, At, Holds, CallerTypes, packages
  <2>2. \A d \in Caller : pc'[d] = "chan" => call'[d] \notin closed
    BY <1>1, <2>1 DEF Channels
  <2> QED BY <1>1, <2>1, <2>2, ChannelsKept
<1>6. CASE Handle(c) \/ StartCall(c) \/ Put(c)
  <2>1. /\ ~Holds(c) /\ ~Holds(c)' /\ pc'[c] # "chan" /\ UNCHANGED <<waitchan, closed>>
    BY <1>0, <1>6 DEF Handle, StartCall, Put, At, Holds, CallerTypes, packages
  <2>2. \A d \in Caller : pc'[d] = "chan" => call'[d] \notin closed
    BY <1>1, <2>1 DEF Channels
  <2> QED BY <1>1, <2>1, <2>2, ChannelsKept
<1> QED BY <1>2, <1>3, <1>4, <1>5, <1>6 DEF Calling, Running, Writing

LEMMA ReceivingChannels ==
  ASSUME TypeOK, Owners, Channels, InUse, NEW r \in Con, Take(r) \/ Receiving(r)
  PROVE  Channels'
<1>0. CallerTypes /\ PackageTypes
  BY Types
<1>1. /\ UNCHANGED <<call, pkg, mine>>
      /\ \A c \in Caller : (Holds(c)' <=> Holds(c)) /\ (pc'[c] = "chan" <=> pc[c] = "chan")
  <2>1. /\ UNCHANGED <<call, pkg, mine>>
        /\ UNCHANGED pc \/ \E c \in Caller : At(c, "wait", "reset")
    BY DEF Receiving, Take, Load, Look, Channel, Respond, SendPanics, Forget, Free, Deliver,
           callers
  <2> QED BY <1>0, <2>1 DEF Holds, At, CallerTypes
<1>2. UNCHANGED <<waitchan, closed>>
  <2>1. CASE Free(r)
    <3>1. res[r] \in Pkg /\ Receives(r)
      BY <2>1 DEF Free, Step, InUse, Receives
    <3>2. waitchan[res[r]] = 0
      BY <3>1 DEF Channels, Owners, Holds, Active
    <3> QED BY <1>0, <2>1, <3>1, <3>2 DEF Free, ReSet, PackageTypes
  <2> QED BY <2>1 DEF Receiving, Take, Load, Look, Channel, Respond, SendPanics, Forget,
                      Deliver, packages
<1> QED BY <1>1, <1>2, ChannelsKept DEF Channels

-----------------------------------------------------------------------------
(* Handlers *)

LEMMA CallingHandlers ==
  ASSUME TypeOK, Ids, Handlers, InUse, NEW c \in Caller, GetMethod(c) \/ Calling(c)
  PROVE  Handlers'
<1>0. CallerTypes /\ calls \in Nat
  BY Types DEF TypeOK
<1>1. UNCHANGED <<receivers, got, via>>
  BY <1>0, CarriesOnOrEnds DEF GetMethod
<1>2. ASSUME NEW d \in InHandler, Active(d)'
      PROVE  rpc[via[call'[d]]] = "idle" /\ got[call'[d]] # call'[d]
  <2>1. CASE Active(d) /\ call'[d] = call[d]
    BY <2>1 DEF Handlers
  <2>2. CASE d = c /\ GetMethod(c)
    <3>1. call'[c] = calls + 1 /\ calls < MaxCall /\ rpc[via[calls + 1]] = "idle"
      BY <1>0, <2>2 DEF GetMethod, CallerTypes
    <3>2. got[calls + 1] = 0
      BY <1>0, <3>1 DEF Ids, Call
    <3> QED BY <1>0, <2>2, <3>1, <3>2
  <2> QED
    BY <1>0, <1>2, <2>1, <2>2, OthersStay, CarriesOnOrEnds
       DEF Active, CarriesOn, Ends, CallsAssumption
<1> QED BY <1>1, <1>2 DEF Handlers, receivers, Receives

LEMMA ReceivingHandlers ==
  ASSUME TypeOK, Ids, Handlers, InUse, NEW r \in Con, Take(r) \/ Receiving(r)
  PROVE  Handlers'
<1>0. CallerTypes /\ CallTypes /\ ReceiverTypes
  BY Types
<1>1. /\ UNCHANGED <<call, via>> /\ \A c \in Caller : Active(c)' <=> Active(c)
  <2>1. /\ UNCHANGED <<call, via>>
        /\ UNCHANGED pc \/ \E c \in Caller : At(c, "wait", "reset")
    BY DEF Receiving, Take, Load, Look, Channel, Respond, SendPanics, Forget, Free, Deliver,
           callers
  <2> QED BY <1>0, <2>1 DEF Active, At, CallerTypes
<1>2. /\ \A s \in Con : s # r => rpc'[s] = rpc[s] /\ reply'[s] = reply[s]
  BY <1>0 DEF Receiving, Take, Load, Look, Channel, Respond, SendPanics, Forget, Free,
              Deliver, Leave, Step,
              ReceiverTypes
<1>3. Receives(r)' => reply'[r] \in Call /\ via[reply'[r]] = r
  <2>1. CASE Take(r)
    BY <1>0, <2>1 DEF Take, CallTypes, ReceiverTypes
  <2>2. CASE Load(r) \/ Look(r) \/ Channel(r) \/ Respond(r) \/ Forget(r) \/ \E c \in Caller : Deliver(r, c)
    BY <2>2 DEF Load, Look, Channel, Respond, Forget, Deliver, Step, Receives, Handlers
  <2>3. CASE SendPanics(r) \/ Free(r)
    BY <1>0, <2>3 DEF SendPanics, Free, Step, Receives, ReceiverTypes
  <2> QED BY <2>1, <2>2, <2>3 DEF Receiving
\* While a handler of the connection makes a call, its receiver stands still.
<1>4. \A c \in InHandler : Active(c) => via[call[c]] # r
  <2>1. Receives(r) \/ ~Handling(r)
    BY DEF Receiving, Take, Load, Look, Channel, Respond, SendPanics, Forget, Free, Deliver,
           Step, Receives
  <2> QED BY <2>1 DEF Handlers, Handling, Active, Receives
<1>5. \A i \in Call : got'[i] # got[i] => got'[i] = reply[r] /\ via[reply[r]] = r
  <2>1. \/ UNCHANGED got
        \/ Receives(r) /\ \E i : got' = [got EXCEPT ![i] = reply[r]]
    BY DEF Receiving, Take, Load, Look, Channel, Respond, SendPanics, Forget, Free, Deliver,
           Step, Receives,
           callers
  <2> QED BY <1>0, <2>1 DEF CallTypes, Handlers
<1>6. ASSUME NEW c \in InHandler, Active(c)
      PROVE  rpc'[via[call[c]]] = "idle" /\ got'[call[c]] # call[c]
  <2>1. call[c] \in Call /\ via[call[c]] \in Con \ {r}
    BY <1>0, <1>4, <1>6 DEF InUse, Active, CallTypes, CallsAssumption
  <2> QED BY <1>2, <1>5, <1>6, <2>1 DEF Handlers
<1>7. \A s \in Con : Receives(s)' => reply'[s] \in Call /\ via[reply'[s]] = s
  BY <1>2, <1>3 DEF Handlers, Receives
<1> QED BY <1>1, <1>6, <1>7 DEF Handlers

-----------------------------------------------------------------------------
(* The invariant and what follows from it *)

LEMMA CallerStep ==
  ASSUME IInv, NEW c \in Caller, GetMethod(c) \/ Calling(c)
  PROVE  IInv'
<1>1. TypeOK /\ InUse /\ CallerTypes /\ CallTypes /\ PackageTypes /\ ReceiverTypes
  BY IndicesInUse, Types DEF IInv
<1>2. TypeOK'
  <2>1. CallerTypes' /\ CallTypes' BY <1>1, CallingCallerTypes, CallingCallTypes
  <2>2. PackageTypes' /\ ReceiverTypes' BY <1>1, CallingPackageTypes, CallingReceiverTypes
  <2> QED
    BY <2>1, <2>2 DEF TypeOK, CallerTypes, CallTypes, PackageTypes, ReceiverTypes
<1>3. Ids' BY <1>1, CallingIds DEF IInv
<1>4. CallsDiffer' BY <1>1, CallingDiffer DEF IInv
<1>5. Owners' BY <1>1, CallingOwners DEF IInv
<1>6. Channels' BY <1>1, CallingChannels DEF IInv
<1>7. Handlers' BY <1>1, CallingHandlers DEF IInv
<1> QED BY <1>2, <1>3, <1>4, <1>5, <1>6, <1>7 DEF IInv

LEMMA ReceiverStep ==
  ASSUME IInv, NEW r \in Con, Take(r) \/ Receiving(r)
  PROVE  IInv'
<1>1. TypeOK /\ InUse /\ CallerTypes /\ CallTypes /\ PackageTypes /\ ReceiverTypes
  BY IndicesInUse, Types DEF IInv
<1>2. TypeOK'
  <2>1. CallerTypes' /\ CallTypes' BY <1>1, ReceivingCallerTypes, ReceivingCallTypes
  <2>2. PackageTypes' /\ ReceiverTypes'
    BY <1>1, ReceivingPackageTypes, ReceivingReceiverTypes
  <2> QED
    BY <2>1, <2>2 DEF TypeOK, CallerTypes, CallTypes, PackageTypes, ReceiverTypes
<1>3. Ids' BY <1>1, ReceivingIds DEF IInv
<1>4. CallsDiffer'
  <2>1. UNCHANGED call /\ (UNCHANGED pc \/ \E c \in Caller : At(c, "wait", "reset"))
    BY DEF Receiving, Take, Load, Look, Channel, Respond, SendPanics, Forget, Free, Deliver,
           callers
  <2>2. \A c \in Caller : Active(c)' <=> Active(c)
    BY <1>1, <2>1 DEF Active, At, CallerTypes
  <2> QED BY <2>1, <2>2 DEF IInv, CallsDiffer
<1>5. Owners' BY <1>1, ReceivingOwners DEF IInv
<1>6. Channels' BY <1>1, ReceivingChannels DEF IInv
<1>7. Handlers' BY <1>1, ReceivingHandlers DEF IInv
<1> QED BY <1>2, <1>3, <1>4, <1>5, <1>6, <1>7 DEF IInv

LEMMA PeerStep == ASSUME IInv, Peer PROVE IInv'
<1>1. UNCHANGED <<callers, packages, waiting, receivers>>
  BY DEF Peer, Answer, Ignore
<1>2. /\ requests' \cup replies' \subseteq requests \cup replies
  BY DEF Peer, Answer, Ignore
<1>3. TypeOK'
  BY <1>1, <1>2 DEF IInv, TypeOK, callers, packages, receivers
<1>4. Ids'
  BY <1>1, <1>2 DEF IInv, Ids, Looks, Active, callers, packages, receivers
<1>5. CallsDiffer' /\ Owners'
  BY <1>1 DEF IInv, CallsDiffer, Owners, Active, Receives, callers, packages, receivers
<1>6. Channels' /\ Handlers'
  BY <1>1 DEF IInv, Channels, Handlers, Holds, Active, Receives, callers, packages, receivers
<1> QED BY <1>3, <1>4, <1>5, <1>6 DEF IInv

LEMMA StepInv == IInv /\ [Next]_vars => IInv'
<1> SUFFICES ASSUME IInv, [Next]_vars PROVE IInv'
  OBVIOUS
<1>1. CASE UNCHANGED vars
  <2> USE <1>1 DEF IInv, vars, callers, packages, peer, receivers
  <2>1. TypeOK' BY DEF TypeOK
  <2>2. Ids' BY DEF Ids, Looks, Active
  <2>3. CallsDiffer' /\ Owners' BY DEF CallsDiffer, Owners, Active, Receives
  <2>4. Channels' /\ Handlers' BY DEF Channels, Handlers, Holds, Active, Receives
  <2> QED BY <2>1, <2>2, <2>3, <2>4
<1>2. CASE Next
  BY <1>2, CallerStep, ReceiverStep, PeerStep DEF Next
<1> QED BY <1>1, <1>2

\* Every reachable state of calls and receivers satisfies the invariant.
THEOREM IInvHolds == Spec => []IInv
BY InitInv, StepInv, PTL DEF Spec

\* For any callers and receivers: a package in the pool belongs to nobody, and no two
\* calls in progress share one, however FreeMethod is reached.
THEOREM PackagesHaveOneOwner == Spec => []PackagesAreExclusive
<1>1. IInv => PackagesAreExclusive
  BY DEF IInv, Owners, Active, PackagesAreExclusive
<1> QED BY <1>1, IInvHolds, PTL

\* For any callers and receivers: the channel that ExecuteWait waits on is open, and
\* it is the fWaitchan of its package.
THEOREM WaitersChannel == Spec => []WaitersChannelIsOpen
<1>1. IInv => WaitersChannelIsOpen
  BY DEF IInv, Channels, Holds, WaitersChannelIsOpen
<1> QED BY <1>1, IInvHolds, PTL

\* For any handlers: a call made inside a handler is never given its own result.
THEOREM HandlerCallTimesOut == Spec => []HandlerCallGetsNoResult
<1>1. IInv => HandlerCallGetsNoResult
  BY DEF IInv, Handlers, Active, HandlerCallGetsNoResult
<1> QED BY <1>1, IInvHolds, PTL

-----------------------------------------------------------------------------
(* What becomes of calls: the map of waiting calls, and whose result is given *)

\* A call that was not begun has no entry and has not failed.
Unbegun == \A i \in Call : i > calls => outcome[i] # "failed" /\ waiting[i] = 0

\* A package with a result handler belongs to the map for good: it is not in the pool,
\* no receiver decodes in it, and only the Execute that gave it the handler has it.
HandlersKept ==
  /\ \A p \in Pkg : handler[p] # 0 =>
       /\ p <= made /\ p \notin pool
       /\ \A r \in Con : Receives(r) => res[r] # p
       /\ \A c \in Caller : Active(c) /\ pkg[c] = p => pc[c] = "start"
  /\ \A c \in Caller : pc[c] = "start" => handler[pkg[c]] = call[c]
  /\ \A c \in Caller, p \in Pkg : Active(c) /\ handler[p] = call[c] => pc[c] = "start"

\* The entry of a call in progress is its package.
Mapped ==
  \A c \in Caller : Active(c) =>
    /\ waiting[call[c]] \in {0, pkg[c]}
    /\ pc[c] \in {"chan", "handle", "store"} => waiting[call[c]] = 0

\* An entry whose call is over has a result handler, or is of an ExecuteWait that
\* failed, was given another result, or whose receiver is about to delete it.
Unhandled(i) == \A p \in Pkg : handler[p] # i
Settled(i) ==
  \/ handler[waiting[i]] = i
  \/ /\ Unhandled(i)
     /\ \/ outcome[i] = "failed" \/ got[i] \notin {0, i}
        \/ \E r \in Con : rpc[r] = "forget" /\ reply[r] = i
Entries ==
  \A i \in Call : waiting[i] # 0 =>
    \/ \E c \in Caller : Active(c) /\ pc[c] \notin {"reset", "put"} /\ call[c] = i
    \/ Settled(i)

\* A receiver may still give its result to a call.
Offers(r) == Looks(r) \/ rpc[r] \in {"load", "send"}

\* A call has one result, which is given to it at most once, and none if it was not
\* sent.
InFlight(i) == \/ i \in requests \/ i \in replies
               \/ \E r \in Con : Offers(r) /\ reply[r] = i
Unsent(c) == pc[c] \in {"chan", "handle", "store", "write", "start"}
Flights ==
  /\ requests \cap replies = {}
  /\ \A r \in Con : Receives(r) => reply[r] \notin requests \cup replies
  /\ \A i \in Call : InFlight(i) => got[i] # i /\ outcome[i] # "failed"
  /\ \A c \in Caller : Unsent(c) =>
       /\ outcome[call[c]] # "failed" /\ got[call[c]] # call[c]
       /\ call[c] \notin requests \cup replies
       /\ \A r \in Con : Receives(r) => reply[r] # call[c]

\* Call j, an ExecuteWait, has timed out or was given another result: its own comes
\* late.
Late(j) ==
  /\ j \in 1 .. calls /\ Unhandled(j)
  /\ \A c \in Caller : Active(c) /\ call[c] = j => pc[c] \in {"delete", "reset", "put"}
  /\ outcome[j] = "timeout" \/ got[j] \notin {0, j}

\* A receiver that has looked up the call of its result has found the package that
\* the call still has, or it is late.
HeldBy(j, p) == Late(j) \/ \E c \in Caller : Holds(c) /\ call[c] = j /\ pkg[c] = p
Found(j, p) == HeldBy(j, p) \/ handler[p] = j

LateOnes ==
  /\ \A i \in Call : got[i] \notin {0, i} => Late(got[i])
  /\ \A c \in Caller : pc[c] = "delete" => outcome[call[c]] = "timeout"
  /\ \A c \in Caller : pc[c] = "reset" =>
       outcome[call[c]] \in {"timeout", "failed"} \/ got[call[c]] # 0
  /\ \A r \in Con : Looks(r) => Found(reply[r], run[r])
  /\ \A r \in Con : rpc[r] = "channel" => HeldBy(reply[r], run[r])
  /\ \A r \in Con : rpc[r] = "send" => dest[r] = reply[r] \/ Late(reply[r])
  /\ \A r \in Con : rpc[r] = "stuck" => Late(reply[r])

Fates == Unbegun /\ HandlersKept /\ Mapped /\ Entries /\ Flights /\ LateOnes

LEMMA InitFates == Init => Fates
<1> SUFFICES ASSUME Init PROVE Fates
  OBVIOUS
<1> USE DEF Init
<1>1. Unbegun /\ HandlersKept /\ Mapped
  BY DEF Unbegun, HandlersKept, Mapped, Active, Receives
<1>2. Entries /\ Flights /\ LateOnes
  BY DEF Entries, Flights, LateOnes, Active, Receives, Unsent, InFlight, Offers, Looks
<1> QED BY <1>1, <1>2 DEF Fates

\* What is used of the first invariant in every proof below.
LEMMA Basics ==
  ASSUME IInv
  PROVE  /\ TypeOK /\ CallerTypes /\ CallTypes /\ PackageTypes /\ ReceiverTypes /\ InUse
         /\ calls \in Nat /\ made \in Nat
         /\ \A c \in Caller : Active(c) => call[c] \in 1 .. calls /\ pkg[c] \in 1 .. made
BY IndicesInUse, Types DEF IInv, TypeOK, Ids, Owners

LEMMA CallingUnbegun ==
  ASSUME IInv, Unbegun, NEW c \in Caller, GetMethod(c) \/ Calling(c)
  PROVE  Unbegun'
<1>0. /\ CallerTypes /\ CallTypes /\ calls \in Nat
      /\ pc[c] # "idle" => call[c] \in 1 .. calls /\ call[c] \in Call
  BY Basics DEF InUse, Active
<1>1. ASSUME NEW i \in Call, i > calls'
      PROVE  i > calls /\ outcome'[i] = outcome[i] /\ waiting'[i] = waiting[i]
  <2> USE <1>0, <1>1 DEF CallTypes, CallerTypes, At, peer, packages
  <2>1. CASE GetMethod(c)
    <3>1. calls' = calls + 1 /\ UNCHANGED <<outcome, waiting>> BY <2>1 DEF GetMethod
    <3> HIDE DEF CallTypes, CallerTypes, At, peer, packages
    <3> QED BY <3>1 DEF Call
  <2>2. CASE WaitChan(c) BY <2>2 DEF WaitChan
  <2>3. CASE Store(c) BY <2>3 DEF Store
  <2>4. CASE WriteObject(c) BY <2>4 DEF WriteObject
  <2>5. CASE Handle(c) BY <2>5 DEF Handle
  <2>6. CASE StartCall(c) BY <2>6 DEF StartCall
  <2>7. CASE TimeOut(c) BY <2>7 DEF TimeOut
  <2>8. CASE Delete(c) BY <2>8 DEF Delete
  <2>9. CASE Reset(c) BY <2>9 DEF Reset
  <2>10. CASE Put(c) BY <2>10 DEF Put
  <2> QED
    BY <2>1, <2>2, <2>3, <2>4, <2>5, <2>6, <2>7, <2>8, <2>9, <2>10 DEF Calling, Running,
                                                                       Writing
<1> QED BY <1>1 DEF Unbegun

\* What a receiver may do to the callers, to their calls and to the map.
LEMMA ReceivingFrame ==
  ASSUME IInv, NEW r \in Con, Take(r) \/ Receiving(r)
  PROVE  /\ UNCHANGED <<calls, call, pkg, mine, via, requests>>
         /\ \A s \in Con : s # r => /\ rpc'[s] = rpc[s] /\ reply'[s] = reply[s]
                                    /\ res'[s] = res[s] /\ run'[s] = run[s]
                                    /\ dest'[s] = dest[s]
         /\ \A c \in Caller :
              pc'[c] = pc[c] \/ (pc[c] = "wait" /\ pc'[c] = "reset" /\ Deliver(r, c))
         /\ \A i \in Call : waiting'[i] = waiting[i] \/ (waiting'[i] = 0 /\ reply[r] = i)
<1>0. CallerTypes /\ CallTypes /\ ReceiverTypes
  BY Basics
<1> USE <1>0 DEF CallerTypes, CallTypes, ReceiverTypes, callers, packages, peer, At, Step,
                 Leave
<1>1. CASE Take(r) BY <1>1 DEF Take
<1>2. CASE Load(r) BY <1>2 DEF Load
<1>3. CASE Look(r) \/ Channel(r) \/ Respond(r) BY <1>3 DEF Look, Channel, Respond
<1>4. CASE SendPanics(r) BY <1>4 DEF SendPanics
<1>5. CASE Forget(r) BY <1>5 DEF Forget
<1>6. CASE Free(r) BY <1>6 DEF Free
<1>7. ASSUME NEW c \in Caller, Deliver(r, c)
      PROVE  /\ UNCHANGED <<calls, call, pkg, mine, via, requests, waiting, reply, res, run, dest>>
             /\ \A s \in Con : s # r => rpc'[s] = rpc[s]
             /\ \A d \in Caller : d # c => pc'[d] = pc[d]
             /\ pc[c] = "wait" /\ pc'[c] = "reset"
  BY <1>7 DEF Deliver
<1>8. CASE \E c \in Caller : Deliver(r, c)
  BY <1>7, <1>8
<1> QED BY <1>1, <1>2, <1>3, <1>4, <1>5, <1>6, <1>8 DEF Receiving

LEMMA ReceivingUnbegun ==
  ASSUME IInv, Unbegun, NEW r \in Con, Take(r) \/ Receiving(r)
  PROVE  Unbegun'
<1>0. /\ CallTypes /\ calls \in Nat /\ UNCHANGED calls
      /\ \A i \in Call : waiting'[i] # 0 => waiting[i] # 0
  BY Basics, ReceivingFrame
<1>1. \A i \in Call : outcome'[i] = "failed" => outcome[i] = "failed"
  BY <1>0 DEF CallTypes, Receiving, Take, Load, Look, Channel, Respond, SendPanics, Forget,
              Free, Deliver, callers
<1> QED BY <1>0, <1>1 DEF Unbegun

-----------------------------------------------------------------------------
(* HandlersKept and Mapped *)

\* A package that Get returns has no handler.
LEMMA GetUnhandled ==
  ASSUME IInv, HandlersKept, NEW p, Get(p)
  PROVE  /\ p \in Pkg /\ handler[p] = 0 /\ made' >= made /\ made' \in Nat
         /\ pool' \subseteq pool
<1>0. PackageTypes /\ Owners /\ made \in Nat
  BY Basics DEF IInv
<1>1. p \in Pkg /\ p \notin pool' /\ pool' \subseteq pool
  BY <1>0, GetTypes, GetOwners
<1>2. CASE p \in pool /\ UNCHANGED made
  BY <1>0, <1>1, <1>2 DEF HandlersKept
<1>3. CASE p = made + 1 /\ made' = p
  <2>1. ~(p <= made) /\ made' >= made /\ made' \in Nat
    BY <1>0, <1>3
  <2> QED BY <1>1, <2>1 DEF HandlersKept
<1> QED BY <1>1, <1>2, <1>3 DEF Get

LEMMA CallingHandlersKept ==
  ASSUME IInv, HandlersKept, NEW c \in Caller, GetMethod(c) \/ Calling(c)
  PROVE  HandlersKept'
<1>0. /\ CallerTypes /\ PackageTypes /\ calls \in Nat /\ made \in Nat
      /\ \A d \in Caller : Active(d) => call[d] \in 1 .. calls /\ pkg[d] \in Pkg
      /\ Owners /\ CallsDiffer
  BY Basics DEF IInv, InUse, Active
<1>1. \A d \in Caller : d # c => /\ pc'[d] = pc[d] /\ call'[d] = call[d]
                                 /\ pkg'[d] = pkg[d]
                                 /\ Active(d)' <=> Active(d)
  BY <1>0, OthersStay DEF Active
<1>2. UNCHANGED <<rpc, res>> /\ \A r \in Con : Receives(r)' <=> Receives(r)
  BY <1>0, CarriesOnOrEnds DEF GetMethod, receivers, Receives
<1>3. CASE GetMethod(c)
  <2>1. PICK p : Get(p) /\ pkg' = [pkg EXCEPT ![c] = p]
    BY <1>3 DEF GetMethod
  <2>2. /\ pkg'[c] = p /\ call'[c] = calls + 1 /\ pc'[c] \in {"chan", "handle"}
        /\ UNCHANGED handler
    BY <1>0, <1>3, <2>1 DEF GetMethod, CallerTypes, At
  <2>3. handler[p] = 0 /\ made' >= made /\ made' \in Nat /\ pool' \subseteq pool
    BY <2>1, GetUnhandled
  <2>4. \A q \in Pkg : handler[q] # calls + 1 /\ (q <= made => q <= made')
    BY <1>0, <2>3 DEF IInv, Ids, Pkg
  <2> QED BY <1>1, <1>2, <2>2, <2>3, <2>4 DEF HandlersKept
<1>4. CASE Handle(c)
  <2>1. /\ pc[c] = "handle" /\ Active(c) /\ pc'[c] = "start"
        /\ UNCHANGED <<call, pkg, made, pool>>
        /\ \A p \in Pkg : handler'[p] = IF p = pkg[c] THEN call[c] ELSE handler[p]
    BY <1>0, <1>4 DEF Handle, At, CallerTypes, PackageTypes, Active
  <2>2. /\ pkg[c] \in Pkg /\ pkg[c] <= made /\ pkg[c] \notin pool
        /\ \A d \in Caller : d # c /\ Active(d) => pkg[d] # pkg[c] /\ call[d] # call[c]
        /\ \A r \in Con : Receives(r) => res[r] # pkg[c]
    BY <1>0, <2>1 DEF Owners, CallsDiffer
  <2>3. \A d \in Caller : d # c /\ pc[d] = "start" => Active(d) /\ pkg[d] \in Pkg
    BY <1>0 DEF Active
  <2> QED BY <1>1, <1>2, <2>1, <2>2, <2>3 DEF HandlersKept
<1>5. CASE Reset(c)
  <2>1. /\ pc[c] = "reset" /\ Active(c) /\ pc'[c] = "put"
        /\ UNCHANGED <<call, pkg, made, pool>>
        /\ \A p \in Pkg : handler'[p] = IF p = pkg[c] THEN 0 ELSE handler[p]
    BY <1>0, <1>5 DEF Reset, ReSet, At, CallerTypes, PackageTypes, Active
  <2>2. \A d \in Caller : d # c /\ Active(d) => pkg[d] # pkg[c]
    BY <1>0, <2>1 DEF Owners
  <2>3. \A d \in Caller : d # c /\ pc[d] = "start" => Active(d) /\ pkg[d] \in Pkg
    BY <1>0 DEF Active
  <2>4. \A p \in Pkg : handler'[p] # 0 => handler'[p] = handler[p]
    BY <2>1
  <2>5. \A d \in Caller, p \in Pkg :
          Active(d) /\ handler'[p] = call[d] => handler[p] = call[d]
    BY <1>0, <2>1
  <2> QED BY <1>1, <1>2, <2>1, <2>2, <2>3, <2>4, <2>5 DEF HandlersKept
<1>6. CASE StartCall(c) \/ Put(c)
  <2>1. /\ pc[c] \in {"start", "put"} /\ Active(c) /\ pc'[c] = "idle" /\ ~Active(c)'
        /\ UNCHANGED <<handler, made>> /\ (pc[c] = "start" => UNCHANGED pool)
        /\ pool' \subseteq pool \cup {pkg[c]}
    BY <1>0, <1>6 DEF StartCall, Put, At, CallerTypes, packages, Active
  <2>2. \A p \in Pkg : handler[p] # 0 => p \notin pool'
    BY <1>0, <2>1 DEF HandlersKept
  <2> QED BY <1>1, <1>2, <2>1, <2>2 DEF HandlersKept
<1>7. CASE WaitChan(c) \/ Store(c) \/ WriteObject(c) \/ TimeOut(c) \/ Delete(c)
  <2>1. /\ pc[c] # "start" /\ Active(c) /\ pc'[c] # "start" /\ Active(c)'
        /\ UNCHANGED <<call, pkg, handler, made, pool>>
    BY <1>0, <1>7 DEF WaitChan, Store, WriteObject, TimeOut, Delete, At, CallerTypes,
                      packages,
                      Active
  <2> QED BY <1>1, <1>2, <2>1 DEF HandlersKept
<1> QED BY <1>3, <1>4, <1>5, <1>6, <1>7 DEF Calling, Running, Writing

\* The package that a receiver frees has no handler.
LEMMA ReceivingHandler ==
  ASSUME IInv, HandlersKept, NEW r \in Con, Take(r) \/ Receiving(r)
  PROVE  UNCHANGED handler
<1>1. CASE Free(r)
  <2>1. res[r] \in Pkg /\ Receives(r) /\ handler' = [handler EXCEPT ![res[r]] = 0]
    BY <1>1, Basics DEF Free, Step, InUse, Receives, ReSet
  <2>2. handler[res[r]] = 0
    BY <2>1 DEF HandlersKept
  <2> QED BY <2>1, <2>2, Basics DEF PackageTypes
<1> QED BY <1>1 DEF Receiving, Take, Load, Look, Channel, Respond, SendPanics, Forget,
                    Deliver, packages

LEMMA ReceivingHandlersKept ==
  ASSUME IInv, HandlersKept, NEW r \in Con, Take(r) \/ Receiving(r)
  PROVE  HandlersKept'
<1>0. /\ CallerTypes /\ PackageTypes /\ ReceiverTypes /\ made \in Nat
      /\ \A d \in Caller : Active(d) => pkg[d] \in Pkg
  BY Basics DEF InUse, Active
<1>1. /\ UNCHANGED <<call, pkg>>
      /\ \A d \in Caller : (Active(d)' <=> Active(d)) /\ (pc'[d] = "start" <=> pc[d] = "start")
      /\ \A s \in Con : s # r => (Receives(s)' <=> Receives(s)) /\ res'[s] = res[s]
  BY ReceivingFrame DEF Active, Receives
<1>2. UNCHANGED handler
  BY ReceivingHandler
<1>3. CASE Take(r)
  <2>1. PICK p \in Pkg : Get(p) /\ res' = [res EXCEPT ![r] = p]
    BY <1>3 DEF Take
  <2>2. /\ res'[r] = p /\ handler[p] = 0 /\ made' >= made /\ made' \in Nat
        /\ pool' \subseteq pool
    BY <1>0, <2>1, GetUnhandled DEF ReceiverTypes
  <2>3. \A q \in Pkg : q <= made => q <= made'
    BY <1>0, <2>2 DEF Pkg
  <2> QED BY <1>1, <1>2, <2>2, <2>3 DEF HandlersKept
<1>4. CASE Load(r) \/ Look(r) \/ Channel(r) \/ Respond(r) \/ Forget(r) \/ \E c \in Caller : Deliver(r, c)
  <2>1. Receives(r) /\ UNCHANGED <<res, pool, made>>
    BY <1>4 DEF Load, Look, Channel, Respond, Forget, Deliver, Step, Receives, packages
  <2> QED BY <1>1, <1>2, <2>1 DEF HandlersKept
<1>5. CASE SendPanics(r) \/ Free(r)
  <2>1. /\ Receives(r) /\ ~Receives(r)' /\ UNCHANGED made
        /\ pool' \subseteq pool \cup {res[r]}
    BY <1>0, <1>5 DEF SendPanics, Free, Step, Receives, packages, ReceiverTypes
  <2> QED BY <1>1, <1>2, <2>1 DEF HandlersKept
<1> QED BY <1>3, <1>4, <1>5 DEF Receiving

LEMMA CallingMapped ==
  ASSUME IInv, Unbegun, Mapped, NEW c \in Caller, GetMethod(c) \/ Calling(c)
  PROVE  Mapped'
<1>0. /\ CallerTypes /\ CallTypes /\ calls \in Nat /\ CallsDiffer
      /\ \A d \in Caller : Active(d) => call[d] \in Call
  BY Basics DEF IInv, InUse, Active
<1>1. \A d \in Caller : d # c => /\ pc'[d] = pc[d] /\ call'[d] = call[d]
                                 /\ pkg'[d] = pkg[d]
                                 /\ Active(d)' <=> Active(d)
  BY <1>0, OthersStay DEF Active
<1>2. CASE GetMethod(c)
  <2>1. calls < MaxCall /\ call'[c] = calls + 1 /\ UNCHANGED waiting
    BY <1>0, <1>2 DEF GetMethod, CallerTypes
  <2>2. waiting[calls + 1] = 0
    BY <1>0, <2>1 DEF Unbegun, Call
  <2> QED BY <1>1, <2>1, <2>2 DEF Mapped
<1>3. CASE Store(c) \/ Handle(c) \/ Delete(c)
  <2>1. /\ Active(c) /\ pc'[c] \notin {"chan", "handle", "store"} /\ UNCHANGED <<call, pkg>>
        /\ waiting'[call[c]] \in {0, pkg[c]}
        /\ \A i \in Call : i # call[c] => waiting'[i] = waiting[i]
    BY <1>0, <1>3 DEF Store, Handle, Delete, At, CallerTypes, CallTypes, Active
  <2>2. \A d \in Caller : d # c /\ Active(d) => call[d] # call[c]
    BY <1>0, <2>1 DEF CallsDiffer
  <2> QED BY <1>0, <1>1, <2>1, <2>2 DEF Mapped
<1>4. CASE WaitChan(c) \/ WriteObject(c) \/ TimeOut(c) \/ Reset(c)
  <2>1. /\ Active(c) /\ UNCHANGED <<call, pkg, waiting>>
        /\ pc'[c] \in {"chan", "handle", "store"} => pc[c] \in {"chan", "handle", "store"}
    BY <1>0, <1>4 DEF WaitChan, WriteObject, TimeOut, Reset, At, CallerTypes, Active
  <2> QED BY <1>1, <2>1 DEF Mapped
<1>5. CASE StartCall(c) \/ Put(c)
  <2>1. ~Active(c)' /\ UNCHANGED waiting
    BY <1>0, <1>5 DEF StartCall, Put, At, CallerTypes, Active
  <2> QED BY <1>1, <2>1 DEF Mapped
<1> QED BY <1>2, <1>3, <1>4, <1>5 DEF Calling, Running, Writing

LEMMA ReceivingMapped ==
  ASSUME IInv, Mapped, NEW r \in Con, Take(r) \/ Receiving(r)
  PROVE  Mapped'
<1>1. \A d \in Caller : Active(d) => call[d] \in Call
  BY Basics DEF InUse, Active
<1>2. \A d \in Caller : /\ Active(d)' => Active(d)
                        /\ pc'[d] \in {"chan", "handle", "store"} => pc'[d] = pc[d]
  BY ReceivingFrame DEF Active
<1> QED BY <1>1, <1>2, ReceivingFrame DEF Mapped

-----------------------------------------------------------------------------
(* Entries *)

\* A caller changes the fate and the entry of its own call only.
LEMMA CallingFrame ==
  ASSUME IInv, HandlersKept, NEW c \in Caller, GetMethod(c) \/ Calling(c)
  PROVE  /\ UNCHANGED <<got, receivers, via, replies>>
         /\ \A i \in Call : ~(Active(c) /\ call[c] = i) =>
              /\ waiting'[i] = waiting[i] /\ outcome'[i] = outcome[i]
              /\ i \in requests' <=> i \in requests
              /\ \A p \in Pkg : handler'[p] = i <=> handler[p] = i
<1>0. /\ CallerTypes /\ CallTypes /\ PackageTypes
      /\ \A d \in Caller : Active(d) => call[d] \in Call /\ pkg[d] \in Pkg
  BY Basics DEF InUse, Active
<1>1. UNCHANGED <<got, receivers, via>>
  BY <1>0, CarriesOnOrEnds DEF GetMethod
<1>2. CASE Handle(c) \/ Reset(c)
  <2>1. /\ Active(c) /\ pc[c] # "start" /\ UNCHANGED <<outcome, requests, replies>>
        /\ \A i \in Call : i # call[c] => waiting'[i] = waiting[i]
        /\ \A p \in Pkg : handler'[p] = IF p = pkg[c] THEN handler'[p] ELSE handler[p]
        /\ handler'[pkg[c]] \in {0, call[c]}
    BY <1>0, <1>2 DEF Handle, Reset, ReSet, At, Active, CallTypes, PackageTypes, peer
  <2>2. handler[pkg[c]] = 0
    BY <1>0, <2>1 DEF HandlersKept
  <2>3. 0 \notin Call
    BY DEF Call
  <2> QED BY <1>0, <1>1, <2>1, <2>2, <2>3
<1>3. CASE GetMethod(c) \/ WaitChan(c) \/ Put(c)
  BY <1>1, <1>3 DEF GetMethod, WaitChan, Put, peer
<1>4. CASE Store(c) \/ Delete(c)
  <2>1. /\ Active(c) /\ UNCHANGED <<outcome, requests, replies, handler>>
        /\ \A i \in Call : i # call[c] => waiting'[i] = waiting[i]
    BY <1>0, <1>4 DEF Store, Delete, At, Active, CallTypes, peer, packages
  <2> QED BY <1>1, <2>1
<1>5. CASE WriteObject(c) \/ StartCall(c) \/ TimeOut(c)
  <2>1. /\ Active(c) /\ UNCHANGED <<waiting, replies, handler>>
        /\ requests' \in {requests, requests \cup {call[c]}}
        /\ \A i \in Call : i # call[c] => outcome'[i] = outcome[i]
    BY <1>0, <1>5 DEF WriteObject, StartCall, TimeOut, At, Active, CallTypes, peer, packages
  <2> QED BY <1>1, <2>1
<1> QED BY <1>2, <1>3, <1>4, <1>5 DEF Calling, Running, Writing

LEMMA SettledStays ==
  ASSUME NEW i \in Call, waiting[i] \in Pkg, Settled(i), waiting'[i] = waiting[i],
         outcome[i] = "failed" => outcome'[i] = "failed", got'[i] = got[i],
         \A p \in Pkg : handler'[p] = i <=> handler[p] = i,
         \A r \in Con : rpc[r] = "forget" /\ reply[r] = i => rpc'[r] = "forget" /\ reply'[r] = i
  PROVE  Settled(i)'
BY DEF Settled, Unhandled

LEMMA CallingEntries ==
  ASSUME IInv, HandlersKept, Mapped, Entries, NEW c \in Caller, GetMethod(c) \/ Calling(c)
  PROVE  Entries'
<1>0. /\ CallerTypes /\ CallTypes /\ PackageTypes /\ CallsDiffer
      /\ \A d \in Caller : Active(d) => call[d] \in Call /\ pkg[d] \in Pkg
  BY Basics DEF IInv, InUse, Active
<1>1. \A d \in Caller : d # c => pc'[d] = pc[d] /\ call'[d] = call[d]
  BY <1>0, OthersStay
<1>2. UNCHANGED <<got, rpc, reply>>
  BY CallingFrame DEF receivers
<1> SUFFICES ASSUME NEW i \in Call, waiting'[i] # 0
             PROVE  \/ \E d \in Caller : /\ Active(d)' /\ pc'[d] \notin {"reset", "put"}
                                         /\ call'[d] = i
                    \/ Settled(i)'
  BY DEF Entries
<1>3. CASE ~(Active(c) /\ call[c] = i)
  <2>1. waiting[i] # 0 /\ waiting[i] \in Pkg /\ waiting'[i] = waiting[i]
    BY <1>0, <1>3, CallingFrame DEF CallTypes, Pkg
  <2>2. ASSUME NEW d \in Caller, Active(d), pc[d] \notin {"reset", "put"}, call[d] = i
        PROVE  Active(d)' /\ pc'[d] \notin {"reset", "put"} /\ call'[d] = i
    BY <1>1, <1>3, <2>2 DEF Active
  <2>3. Settled(i) => Settled(i)'
    BY <1>2, <1>3, <2>1, SettledStays, CallingFrame
  <2> QED BY <2>1, <2>2, <2>3 DEF Entries
<1>4. CASE Active(c) /\ call[c] = i
  <2>0. c \in Caller /\ ~GetMethod(c)
    BY <1>4 DEF GetMethod, At, Active
  <2>1. CASE WaitChan(c) \/ Store(c) \/ Handle(c) \/ TimeOut(c)
    <3>1. Active(c)' /\ pc'[c] \notin {"reset", "put"} /\ call'[c] = i
      BY <1>0, <1>4, <2>1 DEF WaitChan, Store, Handle, TimeOut, At, Active, CallerTypes
    <3> QED BY <3>1
  <2>2. CASE WriteObject(c)
    <3>1. CASE pc'[c] = "wait"
      BY <1>4, <2>2, <3>1 DEF WriteObject, Active
    <3>2. CASE pc'[c] # "wait"
      <4>1. /\ pc[c] = "write" /\ outcome'[i] = "failed" /\ UNCHANGED handler
        BY <1>0, <1>4, <2>2, <3>2 DEF WriteObject, At, CallerTypes, CallTypes, packages
      <4>2. Unhandled(i)
        BY <1>4, <4>1 DEF HandlersKept, Unhandled
      <4> QED BY <4>1, <4>2 DEF Settled, Unhandled
    <3> QED BY <3>1, <3>2
  <2>3. CASE StartCall(c)
    <3>1. pc[c] = "start" /\ UNCHANGED <<handler, waiting>>
      BY <2>3 DEF StartCall, At, packages
    <3>2. waiting[i] = pkg[c] /\ handler[pkg[c]] = i
      BY <1>4, <3>1 DEF Mapped, HandlersKept
    <3> QED BY <3>1, <3>2 DEF Settled
  <2>4. CASE Delete(c)
    BY <1>0, <1>4, <2>4 DEF Delete, CallTypes
  <2>5. CASE Reset(c) \/ Put(c)
    <3>1. /\ pc[c] \in {"reset", "put"} /\ UNCHANGED <<waiting, outcome>>
          /\ \A p \in Pkg : p # pkg[c] => handler'[p] = handler[p]
          /\ handler'[pkg[c]] \in {0, handler[pkg[c]]}
      BY <1>0, <2>5 DEF Reset, Put, ReSet, At, PackageTypes
    <3>2. handler[pkg[c]] = 0
      BY <1>0, <1>4, <3>1 DEF HandlersKept
    <3>3. \A p \in Pkg : handler'[p] = i <=> handler[p] = i
      BY <3>1, <3>2
    <3>4. \A d \in Caller : Active(d) /\ pc[d] \notin {"reset", "put"} => call[d] # i
      BY <1>4, <3>1, <1>0 DEF CallsDiffer
    <3>5. waiting[i] \in Pkg /\ Settled(i)
      BY <1>0, <3>1, <3>4 DEF Entries, CallTypes, Pkg
    <3> QED BY <1>2, <3>1, <3>3, <3>5, SettledStays
  <2> QED BY <2>0, <2>1, <2>2, <2>3, <2>4, <2>5 DEF Calling, Running, Writing
<1> QED BY <1>3, <1>4

\* A receiver changes the fate of a call by calling its result handler or by handing
\* the result to its caller.
LEMMA ReceivingFates ==
  ASSUME IInv, NEW r \in Con, Take(r) \/ Receiving(r), NEW i \in Call
  PROVE  \/ got'[i] = got[i] /\ outcome'[i] = outcome[i]
         \/ /\ Respond(r) /\ handler[run[r]] = i /\ run[r] \in Pkg
            /\ got'[i] = reply[r] /\ outcome'[i] = "result" /\ rpc'[r] = "forget"
            /\ Receives(r)
         \/ \E c \in Caller :
              /\ Deliver(r, c) /\ call[c] = i /\ pc[c] = "wait"
              /\ got'[i] = reply[r] /\ outcome'[i] = "result" /\ rpc'[r] = "forget"
              /\ reply'[r] = reply[r] /\ Receives(r)
<1>0. CallerTypes /\ CallTypes /\ ReceiverTypes /\ InUse
  BY Basics
<1>1. CASE Respond(r)
  <2>1. rpc[r] = "handler" /\ Receives(r) /\ run[r] \in Pkg /\ rpc'[r] = "forget"
    BY <1>0, <1>1 DEF Respond, Step, InUse, Looks, Receives, ReceiverTypes
  <2>2. CASE UNCHANGED <<outcome, got>> BY <2>2
  <2>3. CASE /\ outcome' = [outcome EXCEPT ![handler[run[r]]] = "result"]
             /\ got' = [got EXCEPT ![handler[run[r]]] = reply[r]]
    BY <1>0, <1>1, <2>1, <2>3 DEF CallTypes
  <2> QED BY <1>1, <2>2, <2>3 DEF Respond
<1>2. CASE \E c \in Caller : Deliver(r, c)
  <2>1. PICK c \in Caller : Deliver(r, c) BY <1>2
  <2>2. /\ rpc'[r] = "forget" /\ reply'[r] = reply[r] /\ Receives(r) /\ pc[c] = "wait"
        /\ outcome' = [outcome EXCEPT ![call[c]] = "result"]
        /\ got' = [got EXCEPT ![call[c]] = reply[r]]
    BY <1>0, <2>1 DEF Deliver, Step, Receives, ReceiverTypes
  <2> QED BY <1>0, <2>1, <2>2 DEF CallTypes
<1>3. CASE UNCHANGED <<outcome, got>>
  BY <1>3
<1> QED
  BY <1>1, <1>2, <1>3 DEF Receiving, Take, Load, Look, Channel, SendPanics, Forget, Free,
                          callers

LEMMA ReceivingEntries ==
  ASSUME IInv, HandlersKept, Entries, NEW r \in Con, Take(r) \/ Receiving(r)
  PROVE  Entries'
<1>0. CallTypes /\ UNCHANGED handler /\ \A c \in Caller : Active(c) => call[c] \in Call
  BY Basics, ReceivingHandler DEF InUse, Active
<1> SUFFICES ASSUME NEW i \in Call, waiting'[i] # 0
             PROVE  \/ \E d \in Caller : /\ Active(d)' /\ pc'[d] \notin {"reset", "put"}
                                         /\ call'[d] = i
                    \/ Settled(i)'
  BY DEF Entries
<1>1. waiting'[i] = waiting[i] /\ waiting[i] \in Pkg
  BY <1>0, ReceivingFrame DEF CallTypes, Pkg
<1>2. ASSUME NEW c \in Caller, Deliver(r, c), call[c] = i
      PROVE  Settled(i)'
  <2>1. /\ pc[c] = "wait" /\ Active(c) /\ rpc'[r] = "forget" /\ reply'[r] = reply[r]
        /\ got'[i] = reply[r] /\ reply[r] \in Call
    BY <1>0, <1>2, Basics DEF Deliver, Step, Active, InUse, CallTypes, ReceiverTypes
  <2>2. Unhandled(i)
    BY <1>2, <2>1 DEF HandlersKept, Unhandled
  <2>3. 0 \notin Call
    BY DEF Call
  <2> QED BY <1>0, <2>1, <2>2, <2>3 DEF Settled, Unhandled
<1>3. ASSUME NEW d \in Caller, Active(d), pc[d] \notin {"reset", "put"}, call[d] = i
      PROVE  (Active(d)' /\ pc'[d] \notin {"reset", "put"} /\ call'[d] = i) \/ Settled(i)'
  BY <1>2, <1>3, ReceivingFrame DEF Active
<1>4. ASSUME \A c \in Caller : ~(Deliver(r, c) /\ call[c] = i), Settled(i)
      PROVE  Settled(i)'
  <2>1. \A s \in Con : rpc[s] = "forget" /\ reply[s] = i => rpc'[s] = "forget" /\ reply'[s] = i
    <3>1. rpc[r] = "forget" => Forget(r)
      BY DEF Receiving, Take, Load, Look, Channel, Respond, SendPanics, Free, Deliver, Step
    <3>2. Forget(r) => waiting'[reply[r]] = 0 \/ reply[r] # i
      BY <1>0 DEF Forget, CallTypes
    <3> QED BY <3>1, <3>2, ReceivingFrame
  <2>2. CASE handler[waiting[i]] = i
    BY <1>0, <1>1, <2>2 DEF Settled
  <2>3. CASE Unhandled(i)
    <3>1. got'[i] = got[i] /\ outcome'[i] = outcome[i]
      BY <1>4, <2>3, ReceivingFates DEF Unhandled
    <3> QED BY <1>0, <1>1, <1>4, <2>1, <3>1, SettledStays
  <2> QED BY <1>4, <2>2, <2>3 DEF Settled
<1> QED BY <1>1, <1>2, <1>3, <1>4 DEF Entries

-----------------------------------------------------------------------------
(* Flights *)

LEMMA CallingFlights ==
  ASSUME IInv, Unbegun, HandlersKept, Flights, NEW c \in Caller, GetMethod(c) \/ Calling(c)
  PROVE  Flights'
<1>0. /\ CallerTypes /\ CallTypes /\ CallsDiffer /\ Ids /\ calls \in Nat
      /\ \A d \in Caller : Active(d) => call[d] \in Call
  BY Basics DEF IInv, InUse, Active
<1>1. \A d \in Caller : d # c => pc'[d] = pc[d] /\ call'[d] = call[d]
  BY <1>0, OthersStay
<1>2. UNCHANGED <<got, rpc, reply, replies>> /\ requests' \subseteq Call
  BY <1>0, CallingFrame, CallingCallTypes, Basics DEF receivers, CallTypes
<1>3. \A d \in Caller : d # c /\ Unsent(d) /\ Active(c) => call[d] # call[c]
  BY <1>0 DEF CallsDiffer, Unsent, Active
<1>4. \A d \in Caller : d # c => (Unsent(d)' <=> Unsent(d)) /\ (Unsent(d) => Active(d))
  BY <1>1 DEF Unsent, Active
\* A caller that has not sent its request does it, fails, or goes on not having sent it.
<1>5. CASE GetMethod(c)
  <2>1. /\ UNCHANGED <<requests, outcome>> /\ call'[c] = calls + 1 /\ calls + 1 \in Call
        /\ ~Active(c)
    BY <1>0, <1>5 DEF GetMethod, CallerTypes, Call, Active, At, peer
  <2>2. /\ outcome[calls + 1] # "failed" /\ got[calls + 1] # calls + 1
        /\ calls + 1 \notin requests \cup replies /\ \A r \in Con : reply[r] # calls + 1
    BY <1>0, <2>1 DEF Unbegun, Ids
  <2>3. \A i \in Call : InFlight(i)' => InFlight(i)
    BY <1>2, <2>1 DEF InFlight, Offers, Looks
  <2> QED BY <1>1, <1>2, <1>4, <2>1, <2>2, <2>3 DEF Flights, Receives
<1>6. CASE WaitChan(c) \/ Store(c) \/ Handle(c)
  <2>1. Unsent(c) /\ UNCHANGED <<requests, outcome, call>>
    BY <1>6 DEF WaitChan, Store, Handle, At, Unsent, peer
  <2>2. \A i \in Call : InFlight(i)' => InFlight(i)
    BY <1>2, <2>1 DEF InFlight, Offers, Looks
  <2> QED BY <1>1, <1>2, <1>4, <2>1, <2>2 DEF Flights, Receives
<1>7. CASE WriteObject(c) \/ StartCall(c)
  <2>1. /\ Unsent(c) /\ Active(c) /\ ~Unsent(c)' /\ call[c] \in Call
        /\ \/ requests' = requests \cup {call[c]} /\ UNCHANGED outcome
           \/ UNCHANGED requests /\ \A i \in Call : i # call[c] => outcome'[i] = outcome[i]
    BY <1>0, <1>7 DEF WriteObject, StartCall, At, Unsent, Active, CallerTypes, CallTypes
  <2>2. ~InFlight(call[c])
    BY <2>1 DEF Flights, InFlight, Offers, Looks, Receives
  <2>3. \A i \in Call : InFlight(i)' => /\ outcome'[i] = outcome[i]
                                        /\ InFlight(i) \/ i = call[c]
    BY <1>2, <2>1, <2>2 DEF InFlight, Offers, Looks
  <2>4. \A i \in Call : InFlight(i)' => got'[i] # i /\ outcome'[i] # "failed"
    BY <1>2, <2>1, <2>3 DEF Flights
  <2>5. requests' \cap replies' = {}
    BY <1>2, <2>1 DEF Flights
  <2>6. \A r \in Con : Receives(r)' => reply'[r] \notin requests' \cup replies'
    BY <1>2, <2>1 DEF Flights, Receives
  <2>7. \A d \in Caller : Unsent(d)' =>
          /\ outcome'[call'[d]] # "failed" /\ got'[call'[d]] # call'[d]
          /\ call'[d] \notin requests' \cup replies'
          /\ \A r \in Con : Receives(r)' => reply'[r] # call'[d]
    <3>1. ASSUME NEW d \in Caller, Unsent(d)'
          PROVE  /\ Unsent(d) /\ call'[d] = call[d] /\ call[d] # call[c]
                 /\ call[d] \in Call
      BY <1>0, <1>1, <1>3, <1>4, <2>1, <3>1
    <3> QED BY <1>2, <2>1, <3>1 DEF Flights, Receives
  <2> QED BY <2>4, <2>5, <2>6, <2>7 DEF Flights
<1>8. CASE TimeOut(c) \/ Delete(c) \/ Reset(c) \/ Put(c)
  <2>1. /\ Active(c) /\ ~Unsent(c)' /\ UNCHANGED requests
        /\ \A i \in Call : outcome'[i] = "failed" => outcome[i] = "failed"
    BY <1>0, <1>8 DEF TimeOut, Delete, Reset, Put, At, Unsent, Active, CallerTypes, CallTypes,
                      peer
  <2>2. \A i \in Call : InFlight(i)' => InFlight(i)
    BY <1>2, <2>1 DEF InFlight, Offers, Looks
  <2> QED BY <1>0, <1>1, <1>2, <1>4, <2>1, <2>2 DEF Flights, Receives
<1> QED BY <1>5, <1>6, <1>7, <1>8 DEF Calling, Running, Writing

LEMMA ReceivingFlights ==
  ASSUME IInv, Flights, NEW r \in Con, Take(r) \/ Receiving(r)
  PROVE  Flights'
<1>0. /\ CallTypes /\ ReceiverTypes /\ Handlers
      /\ \A d \in Caller : Active(d) => call[d] \in Call
  BY Basics DEF IInv, InUse, Active
<1>1. UNCHANGED <<call, requests>> /\ replies' \subseteq replies
  BY DEF Receiving, Take, Load, Look, Channel, Respond, SendPanics, Forget, Free, Deliver,
         callers, peer
<1>2. \A d \in Caller : Unsent(d)' => Unsent(d) /\ Active(d)
  BY ReceivingFrame DEF Unsent, Active
<1>3. \A s \in Con : s # r => /\ rpc'[s] = rpc[s] /\ reply'[s] = reply[s]
                              /\ Receives(s)' <=> Receives(s)
  BY ReceivingFrame DEF Receives
<1>4. \/ /\ Take(r) /\ reply'[r] \in replies \ replies'
         /\ replies' \cup {reply'[r]} \subseteq replies
      \/ Receives(r) /\ (Receives(r)' => reply'[r] = reply[r]) /\ UNCHANGED replies
  <2>1. CASE Take(r)
    <3>1. PICK i \in replies : replies' = replies \ {i} /\ reply' = [reply EXCEPT ![r] = i]
      BY <2>1 DEF Take
    <3> QED BY <1>0, <2>1, <3>1 DEF ReceiverTypes
  <2>2. CASE Receiving(r)
    BY <1>0, <2>2 DEF Receiving, Load, Look, Channel, Respond, SendPanics, Forget, Free,
                      Deliver, Step, Receives,
                      ReceiverTypes, peer
  <2> QED BY <2>1, <2>2
<1>5. Offers(r)' => Take(r) \/ (Offers(r) /\ Receives(r)')
  BY <1>0 DEF Receiving, Load, Look, Channel, Respond, SendPanics, Forget, Free, Deliver,
              Step, Receives,
              ReceiverTypes, Offers, Looks
<1>6. \A i \in Call : InFlight(i)' => InFlight(i)
  BY <1>1, <1>3, <1>4, <1>5 DEF InFlight, Offers, Looks, Take, Step
\* Where the result of a call is, it is nowhere else.
<1>7. ASSUME NEW i \in Call, Receives(r), reply[r] = i, rpc'[r] = "forget"
      PROVE  ~InFlight(i)'
  <2>1. i \notin requests' /\ i \notin replies'
    BY <1>1, <1>7 DEF Flights
  <2>2. \A s \in Con : s # r /\ Receives(s) => reply[s] # i
    BY <1>7, <1>0 DEF Handlers
  <2> QED BY <1>3, <1>7, <2>1, <2>2 DEF InFlight, Offers, Looks, Receives
<1>8. ASSUME NEW i \in Call, InFlight(i)'
      PROVE  got'[i] # i /\ outcome'[i] # "failed"
  <2>1. got[i] # i /\ outcome[i] # "failed"
    BY <1>6, <1>8 DEF Flights
  <2> QED BY <1>7, <1>8, <2>1, ReceivingFates
<1>9. \A s \in Con : Receives(s)' => reply'[s] \notin requests' \cup replies'
  BY <1>1, <1>3, <1>4 DEF Flights
<1>10. ASSUME NEW d \in Caller, Unsent(d)'
       PROVE  /\ outcome'[call[d]] # "failed" /\ got'[call[d]] # call[d]
              /\ call[d] \notin requests' \cup replies'
              /\ \A s \in Con : Receives(s)' => reply'[s] # call[d]
  <2>1. /\ Unsent(d) /\ call[d] \in Call
        /\ outcome[call[d]] # "failed" /\ got[call[d]] # call[d]
        /\ call[d] \notin requests \cup replies
        /\ \A s \in Con : Receives(s) => reply[s] # call[d]
    BY <1>0, <1>2, <1>10 DEF Flights
  <2>2. outcome'[call[d]] # "failed" /\ got'[call[d]] # call[d]
    BY <2>1, ReceivingFates
  <2> QED BY <1>1, <1>3, <1>4, <2>1, <2>2
<1>11. requests' \cap replies' = {}
  BY <1>1 DEF Flights
<1> QED BY <1>1, <1>8, <1>9, <1>10, <1>11 DEF Flights

-----------------------------------------------------------------------------
(* LateOnes *)

LEMMA CallingLate ==
  ASSUME IInv, HandlersKept, NEW c \in Caller, GetMethod(c) \/ Calling(c), NEW j, Late(j)
  PROVE  Late(j)'
<1>0. /\ CallerTypes /\ CallTypes /\ PackageTypes /\ calls \in Nat /\ calls <= MaxCall
      /\ j \in Call
      /\ Active(c) => pkg[c] \in Pkg
  BY Basics DEF CallerTypes, Late, Call, InUse, Active
<1>1. \A d \in Caller : d # c => pc'[d] = pc[d] /\ call'[d] = call[d] /\ (Active(d)' <=> Active(d))
  BY <1>0, OthersStay DEF Active
<1>2. got'[j] = got[j]
  BY CallingFrame
<1>3. CASE GetMethod(c)
  <2>1. calls' = calls + 1 /\ call'[c] = calls + 1 /\ ~Active(c)
    BY <1>0, <1>3 DEF GetMethod, CallerTypes, Active, At
  <2>2. j \in 1 .. calls' /\ call'[c] # j
    BY <1>0, <2>1 DEF Late
  <2> QED BY <1>0, <1>1, <1>2, <2>1, <2>2, CallingFrame DEF Late, Unhandled
<1>4. CASE Calling(c) /\ call[c] # j
  <2>1. UNCHANGED calls /\ (Active(c)' => call'[c] # j)
    BY <1>0, <1>4, CarriesOnOrEnds DEF CarriesOn, Ends, Active
  <2> QED BY <1>0, <1>1, <1>2, <1>4, <2>1, CallingFrame DEF Late, Unhandled
<1>5. CASE Calling(c) /\ call[c] = j
  <2>1. Active(c) /\ pc[c] \in {"delete", "reset", "put"}
    BY <1>0, <1>5, CarriesOnOrEnds DEF Late, Active
  <2>2. Delete(c) \/ Reset(c) \/ Put(c)
    BY <1>5, <2>1 DEF Calling, Running, Writing, WaitChan, Store, WriteObject, Handle,
                      StartCall, TimeOut, At
  <2>3. /\ UNCHANGED <<calls, outcome>> /\ pc'[c] \in {"reset", "put", "idle"}
        /\ \A p \in Pkg : handler'[p] \in {0, handler[p]}
    BY <1>0, <2>1, <2>2 DEF Delete, Reset, Put, ReSet, At, CallerTypes, PackageTypes, packages
  <2>4. Unhandled(j)'
    <3>1. j # 0 BY <1>0 DEF Call
    <3> QED BY <2>3, <3>1 DEF Late, Unhandled
  <2> QED BY <1>1, <1>2, <2>1, <2>3, <2>4 DEF Late, Active
<1> QED BY <1>3, <1>4, <1>5

LEMMA ReceivingLate ==
  ASSUME IInv, HandlersKept, NEW r \in Con, Take(r) \/ Receiving(r), NEW j, Late(j)
  PROVE  Late(j)'
<1>0. j \in Call
  BY Basics DEF CallerTypes, Late, Call
<1>1. UNCHANGED <<handler, call, calls>>
  BY ReceivingHandler, ReceivingFrame
<1>2. \A c \in Caller : Active(c)' /\ call[c] = j => pc'[c] \in {"delete", "reset", "put"}
  BY ReceivingFrame DEF Late, Active
<1>3. got'[j] = got[j] /\ outcome'[j] = outcome[j]
  BY <1>0, ReceivingFates DEF Late, Unhandled, Active
<1> QED BY <1>1, <1>2, <1>3 DEF Late, Unhandled

\* A caller that is done with a call whose result is still on its way leaves it late.
LEMMA ResetIsLate ==
  ASSUME IInv, HandlersKept, Flights, LateOnes,
         NEW c \in Caller, pc[c] \in {"delete", "reset"}, InFlight(call[c])
  PROVE  Late(call[c])
<1>1. Active(c) /\ call[c] \in Call /\ call[c] \in 1 .. calls
  BY Basics DEF Active, InUse
<1>2. \A d \in Caller : Active(d) /\ call[d] = call[c] => d = c
  BY <1>1 DEF IInv, CallsDiffer
<1>3. Unhandled(call[c])
  BY <1>1 DEF HandlersKept, Unhandled
<1>4. outcome[call[c]] = "timeout" \/ got[call[c]] \notin {0, call[c]}
  BY <1>1 DEF LateOnes, Flights
<1> QED BY <1>1, <1>2, <1>3, <1>4 DEF Late

LEMMA CallingHeld ==
  ASSUME IInv, HandlersKept, Flights, LateOnes, NEW c \in Caller, GetMethod(c) \/ Calling(c),
         NEW j \in Call, NEW p \in Pkg, InFlight(j), HeldBy(j, p)
  PROVE  HeldBy(j, p)'
<1>1. CASE Late(j)
  BY <1>1, CallingLate DEF HeldBy
<1>2. ASSUME NEW d \in Caller, Holds(d), call[d] = j, pkg[d] = p
      PROVE  HeldBy(j, p)'
  <2>1. CASE d # c
    BY <1>2, <2>1, OthersStay, Basics DEF HeldBy, Holds
  <2>2. CASE d = c /\ Reset(c)
    BY <1>2, <2>2, ResetIsLate, CallingLate DEF HeldBy, Reset, At
  <2>3. CASE d = c /\ ~Reset(c)
    <3>1. Store(c) \/ WriteObject(c) \/ TimeOut(c) \/ Delete(c)
      BY <1>2, <2>3 DEF Holds, Calling, Running, Writing, GetMethod, WaitChan, Handle,
                        StartCall, Put, At
    <3>2. Holds(c)' /\ UNCHANGED <<call, pkg>>
      BY <3>1, Basics DEF Store, WriteObject, TimeOut, Delete, At, Holds, CallerTypes
    <3> QED BY <1>2, <2>3, <3>2 DEF HeldBy
  <2> QED BY <2>1, <2>2, <2>3
<1> QED BY <1>1, <1>2 DEF HeldBy

LEMMA CallingFound ==
  ASSUME IInv, HandlersKept, Flights, LateOnes, NEW c \in Caller, GetMethod(c) \/ Calling(c),
         NEW j \in Call, NEW p \in Pkg, InFlight(j), Found(j, p)
  PROVE  Found(j, p)'
<1>1. CASE HeldBy(j, p)
  BY <1>1, CallingHeld DEF Found
<1>2. CASE handler[p] = j
  <2>1. CASE Active(c) /\ call[c] = j
    <3>1. pc[c] = "start"
      BY <1>2, <2>1 DEF HandlersKept
    <3>2. UNCHANGED handler
      BY <3>1 DEF Calling, Running, Writing, GetMethod, WaitChan, Store, WriteObject, Handle,
                  StartCall, TimeOut, Delete, Reset, Put, At, packages
    <3> QED BY <1>2, <3>2 DEF Found
  <2>2. CASE ~(Active(c) /\ call[c] = j)
    BY <1>2, <2>2, CallingFrame DEF Found
  <2> QED BY <2>1, <2>2
<1> QED BY <1>1, <1>2 DEF Found

LEMMA ReceivingFound ==
  ASSUME IInv, HandlersKept, NEW r \in Con, Take(r) \/ Receiving(r),
         NEW j \in Call, NEW p \in Pkg
  PROVE  (HeldBy(j, p) => HeldBy(j, p)') /\ (Found(j, p) => Found(j, p)')
<1>1. UNCHANGED <<handler, call, pkg>> /\ \A c \in Caller : Holds(c) => Holds(c)'
  BY ReceivingHandler, ReceivingFrame DEF Holds
<1>2. HeldBy(j, p) => HeldBy(j, p)'
  BY <1>1, ReceivingLate DEF HeldBy
<1> QED BY <1>1, <1>2 DEF Found

LEMMA CallingLateOnes ==
  ASSUME IInv, HandlersKept, Flights, LateOnes, NEW c \in Caller, GetMethod(c) \/ Calling(c)
  PROVE  LateOnes'
<1>0. /\ CallerTypes /\ CallTypes /\ CallsDiffer /\ Ids /\ Handlers
      /\ \A d \in Caller : Active(d) => call[d] \in Call
  BY Basics DEF IInv, InUse, Active
<1>1. \A d \in Caller : d # c => pc'[d] = pc[d] /\ call'[d] = call[d]
  BY <1>0, OthersStay
<1>2. UNCHANGED <<got, rpc, reply, run, dest>>
  BY CallingFrame DEF receivers
<1>3. ASSUME NEW i \in Call, got'[i] \notin {0, i} PROVE Late(got[i])'
  <2>1. PICK j : j = got'[i] /\ Late(j) BY <1>2, <1>3 DEF LateOnes
  <2>2. Late(j)' BY <2>1, CallingLate
  <2> QED BY <2>1, <2>2 DEF Late, Unhandled, Active
<1>4. ASSUME NEW d \in Caller, d # c, Active(d)
      PROVE  outcome'[call[d]] = outcome[call[d]]
  <2>1. call[d] \in Call /\ ~(Active(c) /\ call[c] = call[d])
    BY <1>0, <1>4 DEF CallsDiffer
  <2> QED BY <2>1, CallingFrame
<1>5. ASSUME NEW d \in Caller, pc'[d] = "delete" PROVE outcome'[call'[d]] = "timeout"
  <2>1. CASE d # c
    BY <1>1, <1>4, <1>5, <2>1 DEF Active, LateOnes
  <2>2. CASE d = c
    <3>1. TimeOut(c)
      BY <1>0, <1>5, <2>2 DEF Calling, Running, Writing, GetMethod, WaitChan, Store,
                              WriteObject, Handle,
                              StartCall, Delete, Reset, Put, At, CallerTypes
    <3>2. Active(c) BY <3>1 DEF TimeOut, At, Active
    <3> QED BY <1>0, <2>2, <3>1, <3>2 DEF TimeOut, CallTypes
  <2> QED BY <2>1, <2>2
<1>6. ASSUME NEW d \in Caller, pc'[d] = "reset"
      PROVE  outcome'[call'[d]] \in {"timeout", "failed"} \/ got'[call'[d]] # 0
  <2>1. CASE d # c
    BY <1>1, <1>2, <1>4, <1>6, <2>1 DEF Active, LateOnes
  <2>2. CASE d = c
    <3>1. WriteObject(c) \/ Delete(c)
      BY <1>0, <1>6, <2>2 DEF Calling, Running, Writing, GetMethod, WaitChan, Store, TimeOut,
                              Handle,
                              StartCall, Reset, Put, At, CallerTypes
    <3>2. CASE WriteObject(c)
      <4>1. Active(c) /\ UNCHANGED call /\ outcome' = [outcome EXCEPT ![call[c]] = "failed"]
        BY <1>0, <1>6, <2>2, <3>2 DEF WriteObject, At, Active, CallerTypes
      <4> QED BY <1>0, <2>2, <4>1 DEF CallTypes
    <3>3. CASE Delete(c)
      BY <2>2, <3>3 DEF Delete, At, LateOnes
    <3> QED BY <3>1, <3>2, <3>3
  <2> QED BY <2>1, <2>2
<1>7. ASSUME NEW r \in Con, Looks(r)'
      PROVE  Found(reply[r], run[r])' /\ (rpc'[r] = "channel" => HeldBy(reply[r], run[r])')
  <2>1. PICK j \in Call, p \in Pkg : /\ j = reply[r] /\ p = run[r] /\ InFlight(j)
                                     /\ Found(j, p)
                                     /\ rpc[r] = "channel" => HeldBy(j, p)
    BY <1>0, <1>2, <1>7 DEF Handlers, Receives, Ids, InFlight, Offers, Looks, LateOnes
  <2>2. Found(j, p)' /\ (rpc[r] = "channel" => HeldBy(j, p)')
    BY <2>1, CallingFound, CallingHeld
  <2> QED BY <1>2, <2>1, <2>2 DEF Found, HeldBy, Late, Unhandled, Active, Holds
<1>8. ASSUME NEW r \in Con, Late(reply[r]) PROVE Late(reply[r])'
  <2>1. PICK j : j = reply[r] /\ Late(j) BY <1>8
  <2>2. Late(j)' BY <2>1, CallingLate
  <2> QED BY <1>2, <2>1, <2>2 DEF Late, Unhandled, Active
<1>9. /\ \A r \in Con : rpc'[r] = "send" => dest'[r] = reply'[r] \/ Late(reply[r])'
      /\ \A r \in Con : rpc'[r] = "stuck" => Late(reply[r])'
  BY <1>2, <1>8 DEF LateOnes
<1>10. /\ \A r \in Con : Looks(r)' => Found(reply[r], run[r])'
       /\ \A r \in Con : rpc'[r] = "channel" => HeldBy(reply[r], run[r])'
  BY <1>7 DEF Looks
<1> QED BY <1>3, <1>5, <1>6, <1>9, <1>10 DEF LateOnes

\* The entry of a call leads to the package that the call still has, or the call is
\* late: its package may be somebody else's by now.
LEMMA LoadFinds ==
  ASSUME IInv, HandlersKept, Mapped, Entries, Flights, NEW r \in Con, rpc[r] = "load",
         waiting[reply[r]] # 0
  PROVE  Found(reply[r], waiting[reply[r]])
<1> DEFINE j == reply[r]
<1>0. /\ j \in Call /\ j \in 1 .. calls /\ Receives(r) /\ Handlers
      /\ InFlight(j) /\ got[j] # j /\ outcome[j] # "failed" /\ CallerTypes
  BY Basics DEF IInv, Handlers, Receives, Ids, InFlight, Offers, Flights, Call
<1>1. ASSUME NEW c \in Caller, Active(c), pc[c] \notin {"reset", "put"}, call[c] = j
      PROVE  Found(j, waiting[j])
  <2>1. waiting[j] = pkg[c] /\ pc[c] \notin {"chan", "handle", "store"}
    BY <1>1 DEF Mapped
  <2>2. pc[c] = "start" \/ Holds(c)
    BY <1>0, <1>1, <2>1 DEF Active, Holds, CallerTypes
  <2> QED BY <1>1, <2>1, <2>2 DEF Found, HeldBy, HandlersKept
<1>2. ASSUME \A c \in Caller : Active(c) /\ call[c] = j => pc[c] \in {"reset", "put"}
      PROVE  Found(j, waiting[j])
  <2>1. Settled(j)
    BY <1>0, <1>2 DEF Entries
  <2>2. ~(\E s \in Con : rpc[s] = "forget" /\ reply[s] = j)
    BY <1>0 DEF Handlers, Receives
  <2> QED BY <1>0, <1>2, <2>1, <2>2 DEF Settled, Found, HeldBy, Late
<1> HIDE DEF j
<1>3. Found(j, waiting[j])
  BY <1>1, <1>2
<1> QED BY <1>3 DEF j

\* The channel or the handler that a receiver finds in the package is its own call's,
\* or its own call is late.  If it has found a channel, the package has no handler.
LEMMA LookFinds ==
  ASSUME IInv, HandlersKept, NEW j \in Call, NEW p \in Pkg, Found(j, p)
  PROVE  /\ waitchan[p] # 0 => HeldBy(j, p)
         /\ HeldBy(j, p) => Late(j) \/ waitchan[p] = j
         /\ handler[p] # 0 => Late(j) \/ handler[p] = j
<1>0. 0 # j
  BY DEF Call
<1>1. CASE handler[p] = j
  <2>1. \A c \in Caller : ~(Holds(c) /\ pkg[c] = p)
    BY <1>0, <1>1 DEF HandlersKept, Holds, Active
  <2> QED BY <1>1, <2>1 DEF IInv, Channels, HeldBy
<1>2. ASSUME NEW c \in Caller, Holds(c), call[c] = j, pkg[c] = p
      PROVE  waitchan[p] = j /\ handler[p] = 0 /\ HeldBy(j, p)
  BY <1>2 DEF IInv, Channels, HandlersKept, Holds, Active, HeldBy
<1>3. CASE Late(j)
  BY <1>3 DEF HeldBy
<1> QED BY <1>1, <1>2, <1>3 DEF Found, HeldBy

LEMMA ReceivingLateOnes ==
  ASSUME IInv, HandlersKept, Mapped, Entries, Flights, LateOnes,
         NEW r \in Con, Take(r) \/ Receiving(r)
  PROVE  LateOnes'
<1>0. /\ CallTypes /\ ReceiverTypes /\ PackageTypes /\ Ids /\ Handlers /\ Channels
      /\ CallsDiffer /\ InUse
      /\ \A d \in Caller : Active(d) => call[d] \in Call
  BY Basics DEF IInv, InUse, Active
<1>1. UNCHANGED <<handler, call>>
  BY ReceivingHandler, ReceivingFrame
\* A result that a receiver hands over to another call is a late one.
<1>2. ASSUME NEW i \in Call, got'[i] \notin {0, i}, got'[i] # got[i] PROVE Late(got'[i])
  <2>1. CASE Respond(r) /\ handler[run[r]] = i /\ got'[i] = reply[r]
    <3>1. rpc[r] = "handler" /\ run[r] \in Pkg /\ reply[r] \in Call /\ i # 0
      BY <1>0, <2>1 DEF Respond, Step, Looks, InUse, Call
    <3>2. Found(reply[r], run[r])
      BY <3>1 DEF LateOnes, Looks
    <3> QED BY <1>2, <2>1, <3>1, <3>2, LookFinds
  <2>2. ASSUME NEW c \in Caller, Deliver(r, c), call[c] = i, got'[i] = reply[r]
        PROVE  Late(got'[i])
    <3>1. mine[c] = i /\ dest[r] = mine[c] /\ rpc[r] = "send"
      BY <1>0, <2>2 DEF Deliver, Step, Channels, Holds
    <3> QED BY <1>2, <2>2, <3>1 DEF LateOnes
  <2> QED BY <1>2, <2>1, <2>2, ReceivingFates
<1>3. ASSUME NEW i \in Call, got'[i] \notin {0, i} PROVE Late(got[i])'
  <2>1. Late(got'[i])
    BY <1>2, <1>3 DEF LateOnes
  <2>2. PICK j : j = got'[i] /\ Late(j)
    BY <2>1
  <2>3. Late(j)'
    BY <2>2, ReceivingLate
  <2> QED BY <2>2, <2>3 DEF Late, Unhandled, Active
<1>4. ASSUME NEW d \in Caller, pc'[d] = "delete" PROVE outcome'[call[d]] = "timeout"
  <2>1. pc[d] = "delete" /\ Active(d) /\ call[d] \in Call /\ outcome[call[d]] = "timeout"
    BY <1>0, <1>4, ReceivingFrame DEF Active, LateOnes
  <2>2. \A c \in Caller : pc[c] = "wait" => call[c] # call[d]
    BY <1>0, <2>1 DEF CallsDiffer, Active
  <2>3. Unhandled(call[d])
    BY <2>1 DEF HandlersKept, Unhandled
  <2> QED BY <2>1, <2>2, <2>3, ReceivingFates DEF Unhandled
<1>5. ASSUME NEW d \in Caller, pc'[d] = "reset"
      PROVE  outcome'[call[d]] \in {"timeout", "failed"} \/ got'[call[d]] # 0
  <2>1. CASE pc[d] = "reset"
    <3>1. /\ Active(d) /\ call[d] \in Call
          /\ outcome[call[d]] \in {"timeout", "failed"} \/ got[call[d]] # 0
      BY <1>0, <2>1 DEF Active, LateOnes
    <3>2. \A c \in Caller : pc[c] = "wait" => call[c] # call[d]
      BY <1>0, <2>1, <3>1 DEF CallsDiffer, Active
    <3>3. Unhandled(call[d])
      BY <2>1, <3>1 DEF HandlersKept, Unhandled
    <3> QED BY <3>1, <3>2, <3>3, ReceivingFates DEF Unhandled
  <2>2. CASE Deliver(r, d)
    <3>1. call[d] \in Call /\ reply[r] # 0 /\ got' = [got EXCEPT ![call[d]] = reply[r]]
      BY <1>0, <2>2 DEF Deliver, Step, Active, InUse, Call
    <3> QED BY <1>0, <3>1 DEF CallTypes
  <2> QED BY <1>5, <2>1, <2>2, ReceivingFrame
<1>6. ASSUME NEW s \in Con, Looks(s)'
      PROVE  /\ reply'[s] \in Call /\ run'[s] \in Pkg /\ Found(reply'[s], run'[s])
             /\ rpc'[s] = "channel" => HeldBy(reply'[s], run'[s])
  <2>1. CASE s # r
    <3>1. rpc'[s] = rpc[s] /\ reply'[s] = reply[s] /\ run'[s] = run[s] /\ Looks(s)
      BY <1>6, <2>1, ReceivingFrame DEF Looks
    <3>2. reply[s] \in Call /\ run[s] \in Pkg
      BY <1>0, <3>1 DEF Looks, InUse
    <3> QED BY <3>1, <3>2 DEF LateOnes
  <2>2. CASE s = r /\ Load(r)
    <3>1. /\ rpc[r] = "load" /\ waiting[reply[r]] # 0 /\ UNCHANGED reply
          /\ run'[r] = waiting[reply[r]] /\ rpc'[r] = "look"
      BY <1>0, <1>6, <2>2 DEF Load, Step, Looks, ReceiverTypes
    <3>2. reply[r] \in Call /\ waiting[reply[r]] \in Pkg
      BY <1>0, <3>1 DEF InUse, CallTypes, Pkg
    <3> QED BY <2>2, <3>1, <3>2, LoadFinds
  <2>3. CASE s = r /\ Look(r)
    <3>1. /\ rpc[r] = "look" /\ UNCHANGED <<reply, run>>
          /\ rpc'[r] = "channel" => waitchan[run[r]] # 0
      BY <1>0, <2>3 DEF Look, Step, ReceiverTypes
    <3>2. reply[r] \in Call /\ run[r] \in Pkg /\ Found(reply[r], run[r])
      BY <1>0, <3>1 DEF Looks, InUse, LateOnes
    <3> QED BY <2>3, <3>1, <3>2, LookFinds
  <2> QED
    BY <1>0, <1>6, <2>1, <2>2, <2>3
       DEF Receiving, Take, Channel, Respond, SendPanics, Forget, Free, Deliver, Step,
           ReceiverTypes, Looks
<1>7. ASSUME NEW s \in Con
      PROVE  /\ rpc'[s] = "send" => dest'[s] = reply'[s] \/ Late(reply'[s])
             /\ rpc'[s] = "stuck" => Late(reply'[s])
  <2>1. CASE s # r
    BY <2>1, ReceivingFrame DEF LateOnes
  <2>2. CASE s = r /\ Channel(r)
    <3>1. /\ rpc[r] = "channel" /\ UNCHANGED reply /\ dest'[r] = waitchan[run[r]]
          /\ rpc'[r] = "stuck" => waitchan[run[r]] = 0
      BY <1>0, <2>2 DEF Channel, Step, ReceiverTypes
    <3>2. /\ reply[r] \in Call /\ run[r] \in Pkg
          /\ Found(reply[r], run[r]) /\ HeldBy(reply[r], run[r])
      BY <1>0, <3>1 DEF Looks, InUse, LateOnes
    <3>3. reply[r] # 0
      BY <3>2 DEF Call
    <3> QED BY <2>2, <3>1, <3>2, <3>3, LookFinds
  <2> QED
    BY <1>0, <2>1, <2>2
       DEF Receiving, Take, Load, Look, Respond, SendPanics, Forget, Free, Deliver, Step,
           ReceiverTypes
<1>8. ASSUME NEW s \in Con
      PROVE  /\ Looks(s)' => Found(reply[s], run[s])'
             /\ rpc'[s] = "channel" => HeldBy(reply[s], run[s])'
  <2>1. SUFFICES ASSUME Looks(s)'
                 PROVE  /\ Found(reply[s], run[s])'
                        /\ rpc'[s] = "channel" => HeldBy(reply[s], run[s])'
    BY DEF Looks
  <2>2. PICK j \in Call, p \in Pkg : /\ j = reply'[s] /\ p = run'[s] /\ Found(j, p)
                                     /\ rpc'[s] = "channel" => HeldBy(j, p)
    BY <1>6, <2>1
  <2>3. Found(j, p)' /\ (rpc'[s] = "channel" => HeldBy(j, p)')
    BY <2>2, ReceivingFound
  <2> QED BY <2>2, <2>3 DEF Found, HeldBy, Late, Unhandled, Active, Holds
<1>9. ASSUME NEW s \in Con, Late(reply'[s]) PROVE Late(reply[s])'
  <2>1. PICK j : j = reply'[s] /\ Late(j) BY <1>9
  <2>2. Late(j)' BY <2>1, ReceivingLate
  <2> QED BY <2>1, <2>2 DEF Late, Unhandled, Active
<1> QED BY <1>1, <1>3, <1>4, <1>5, <1>7, <1>8, <1>9 DEF LateOnes

-----------------------------------------------------------------------------
(* The second invariant and what follows from it *)

LEMMA PeerFates == ASSUME IInv, Fates, Peer PROVE Fates'
<1>1. UNCHANGED <<callers, packages, waiting, receivers>>
  BY DEF Peer, Answer, Ignore
<1>2. PICK i \in requests : /\ requests' = requests \ {i}
                            /\ replies' = replies \cup {i} \/ UNCHANGED replies
  BY DEF Peer, Answer, Ignore
<1> USE <1>1 DEF callers, packages, receivers, Active, Receives, Unhandled
<1>3. Unbegun' /\ HandlersKept' /\ Mapped'
  BY DEF Fates, Unbegun, HandlersKept, Mapped
<1>4. Entries'
  BY DEF Fates, Entries, Settled
<1>5. LateOnes'
  BY DEF Fates, LateOnes, Late, Found, HeldBy, Looks, Holds
<1>6. \A k : InFlight(k)' => InFlight(k)
  BY <1>2 DEF InFlight, Offers, Looks
<1>7. Flights'
  BY <1>2, <1>6 DEF Fates, Flights, Unsent
<1> QED BY <1>3, <1>4, <1>5, <1>7 DEF Fates

LEMMA StepFates == IInv /\ Fates /\ [Next]_vars => Fates'
<1> SUFFICES ASSUME IInv, Fates, [Next]_vars PROVE Fates'
  OBVIOUS
<1>1. CASE UNCHANGED vars
  <2> USE <1>1 DEF Fates, vars, callers, packages, peer, receivers, Active, Receives,
                   Unhandled
  <2>1. Unbegun' /\ HandlersKept' /\ Mapped' BY DEF Unbegun, HandlersKept, Mapped
  <2>2. Entries' BY DEF Entries, Settled
  <2>3. Flights' BY DEF Flights, InFlight, Offers, Looks, Unsent
  <2>4. LateOnes' BY DEF LateOnes, Late, Found, HeldBy, Looks, Holds
  <2> QED BY <2>1, <2>2, <2>3, <2>4
<1>2. ASSUME NEW c \in Caller, GetMethod(c) \/ Calling(c) PROVE Fates'
  BY <1>2, CallingUnbegun, CallingHandlersKept, CallingMapped, CallingEntries, CallingFlights,
     CallingLateOnes DEF Fates
<1>3. ASSUME NEW r \in Con, Take(r) \/ Receiving(r) PROVE Fates'
  BY <1>3, ReceivingUnbegun, ReceivingHandlersKept, ReceivingMapped, ReceivingEntries,
     ReceivingFlights, ReceivingLateOnes DEF Fates
<1> QED BY <1>1, <1>2, <1>3, PeerFates DEF Next

THEOREM FatesHold == Spec => []Fates
BY InitFates, StepFates, IInvHolds, PTL DEF Spec

\* For any callers and receivers: a call gets its own result, or that of a call which
\* had timed out or been given another one, whose package ExecuteWait had freed.
THEOREM OnlyLateResultsStray == Spec => []WrongResultIsALateOne
<1>1. IInv /\ Fates => WrongResultIsALateOne
  <2>1. IInv => 0 \notin Call BY DEF Call
  <2> QED BY <2>1 DEF Fates, LateOnes, Late, WrongResultIsALateOne
<1> QED BY <1>1, IInvHolds, FatesHold, PTL

\* For any callers and receivers: an entry of fRpcWaitReturnMethods is of a call in
\* progress, or one of the kinds that the code leaves there is.
THEOREM NoStaleEntries == Spec => []EntriesAreInUse
<1>1. IInv /\ Fates => EntriesAreInUse
  BY DEF Fates, Entries, Settled, EntriesAreInUse
<1> QED BY <1>1, IInvHolds, FatesHold, PTL

\* For any callers and receivers: the receiver that a nil channel blocks for good had a
\* late result.
THEOREM OnlyLateBlock == Spec => []OnlyLateOnesBlock
<1>1. Fates => OnlyLateOnesBlock
  BY DEF Fates, LateOnes, Late, OnlyLateOnesBlock
<1> QED BY <1>1, FatesHold, PTL

=============================================================================
