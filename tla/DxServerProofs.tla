----------------------------- MODULE DxServerProofs -----------------------------
(***************************************************************************)
(* The wait group of a DxTcpServer counts its connections, and its map     *)
(* holds no others unless a teardown has overtaken Run, for any number of  *)
(* connections and calls of Open.  A connection is counted from Add of Run *)
(* to the Done of its disconnect event; the invariant says where it is     *)
(* while Run registers it.                                                 *)
(***************************************************************************)
EXTENDS DxServer, FiniteSetTheorems, TLAPS

RunPlaces == {"none", "posted", "loop", "accept", "add", "make", "insert", "serve", "ended"}
ConPlaces == {"none", "accepted", "counted", "posted", "live", "closing", "signing"}

Typed ==
  /\ run \in [Runs -> RunPlaces]
  /\ con \in [Conns -> ConPlaces]
  /\ dxcon \in [Runs -> Conns \cup {NoCon}]
  /\ overtaken \in BOOLEAN

\* Between Accept and run a connection is in the hands of a Run, which alone has it
\* until it is counted.
Holding(r) == run[r] \in {"add", "make", "insert", "serve"}
InHand ==
  /\ \A r \in Runs : Holding(r) => dxcon[r] \in Conns
  /\ \A r \in Runs : run[r] = "add" => con[dxcon[r]] = "accepted"
  /\ \A r, s \in Runs : run[r] = "add" /\ run[s] = "add" /\ r # s => dxcon[r] # dxcon[s]

\* A connection that is on, and has not left the map.
On(c) == c \in Conns /\ con[c] \in {"counted", "posted", "live", "closing"}

\* What Run is about to enter and what the map holds is on, if no teardown came first.
Entered ==
  overtaken \/ /\ \A r \in Runs : run[r] \in {"make", "insert"} => On(dxcon[r])
               /\ \A c \in clients : On(c)

Count == waitg = Cardinality({c \in Conns : Counted(c)})

\* The goroutine of the next Run has not been posted.
Unused ==
  /\ opens \in Nat
  /\ \A r \in Runs : r > opens \/ (r = opens /\ app = "listened") => run[r] = "none"

IInv == Typed /\ Unused /\ InHand /\ Entered /\ Count

CountedOnes == {c \in Conns : Counted(c)}

\* At first there is no connection.
LEMMA InitInv == Init => IInv
<1> SUFFICES ASSUME Init PROVE IInv
  OBVIOUS
<1>1. CountedOnes = {}
  BY DEF Init, CountedOnes, Counted
<1>2. Count
  BY <1>1, FS_EmptySet DEF Init, Count, CountedOnes
<1>3. Typed /\ Unused /\ InHand /\ Entered
  BY DEF Init, Typed, RunPlaces, ConPlaces, Unused, InHand, Holding, Entered
<1> QED BY <1>2, <1>3 DEF IInv

\* The count follows when nobody is counted in or out.
LEMMA SameCount ==
  ASSUME Count, UNCHANGED waitg, \A c \in Conns : Counted(c)' <=> Counted(c)
  PROVE  Count'
<1>1. CountedOnes' = CountedOnes
  BY DEF CountedOnes
<1> QED BY <1>1 DEF Count, CountedOnes

LEMMA CountedIsFinite == IsFiniteSet(CountedOnes) /\ Cardinality(CountedOnes) \in Nat
<1>1. CountedOnes \in SUBSET Conns
  BY DEF CountedOnes
<1>2. IsFiniteSet(CountedOnes)
  BY <1>1, ConnsAssumption, FS_Subset
<1> QED BY <1>2, FS_CardinalityType

\* A connection is counted in, or out.
LEMMA CountIn ==
  ASSUME Count, NEW d \in Conns, ~Counted(d), waitg' = waitg + 1,
         \A c \in Conns : Counted(c)' <=> Counted(c) \/ c = d
  PROVE  Count'
<1>1. CountedOnes' = CountedOnes \cup {d} /\ d \notin CountedOnes
  BY DEF CountedOnes
<1>2. Cardinality(CountedOnes') = Cardinality(CountedOnes) + 1
  BY <1>1, CountedIsFinite, FS_AddElement
<1> QED BY <1>2 DEF Count, CountedOnes

LEMMA CountOut ==
  ASSUME Count, NEW d \in Conns, Counted(d), waitg' = waitg - 1,
         \A c \in Conns : Counted(c)' <=> Counted(c) /\ c # d
  PROVE  Count'
<1>1. CountedOnes' = CountedOnes \ {d} /\ d \in CountedOnes
  BY DEF CountedOnes
<1>2. Cardinality(CountedOnes') = Cardinality(CountedOnes) - 1
  BY <1>1, CountedIsFinite, FS_RemoveElement
<1> QED BY <1>2 DEF Count, CountedOnes

-----------------------------------------------------------------------------
(* Open and Close move no connection; ClearClients empties the map. *)

LEMMA PostRunInv == ASSUME IInv, PostRun PROVE IInv'
<1>1. run[opens] = "none" \/ opens \notin Runs
  BY DEF PostRun, At, IInv, Unused
<1>2. /\ UNCHANGED <<con, dxcon, waitg, clients, opens, overtaken>> /\ app' = "idle"
      /\ \A r \in Runs : run'[r] = IF r = opens THEN "posted" ELSE run[r]
      /\ Typed'
  BY DEF PostRun, AppTo, RunTo, listed, conVars, ends, IInv, Typed, RunPlaces
<1>3. Unused'
  BY <1>2 DEF IInv, Unused
<1>4. InHand' /\ Entered'
  BY <1>1, <1>2 DEF IInv, InHand, Holding, Entered, On
<1>5. Count'
  BY <1>2, SameCount DEF Counted, IInv
<1> QED BY <1>2, <1>3, <1>4, <1>5 DEF IInv

\* Every other step of the application, and a step that does not touch the connections.
LEMMA StillInv ==
  ASSUME IInv, UNCHANGED <<con, dxcon, waitg, run, overtaken>>, clients' \subseteq clients,
         \/ opens' = opens /\ (app' = "listened" => app = "listened")
         \/ opens' = opens + 1
  PROVE  IInv'
<1>1. Unused'
  <2>1. opens' \in Nat /\ \A r \in Runs : r \in Nat
    BY OpensAssumption DEF IInv, Unused, Runs
  <2>2. \A r \in Runs : r > opens' => r > opens
    BY <2>1 DEF IInv, Unused
  <2>3. \A r \in Runs :
          r = opens' /\ app' = "listened" => r > opens \/ (r = opens /\ app = "listened")
    BY <2>1 DEF IInv, Unused
  <2> QED BY <2>1, <2>2, <2>3 DEF IInv, Unused
<1>2. Typed' /\ InHand' /\ Entered'
  BY DEF IInv, Typed, InHand, Holding, Entered, On
<1>3. Count'
  BY SameCount DEF IInv, Counted
<1> QED BY <1>1, <1>2, <1>3 DEF IInv

LEMMA AppStepInv ==
  ASSUME IInv,
         Listen \/ BeginClose \/ CloseStep \/ AskPage \/ ListClients \/ \E l \in Runs : Collect(l)
  PROVE  IInv'
<1> USE DEF Listen, BeginClose, CloseStep, CheckListener, CloseListener, CloseChan, StartWait,
            WakeUp, ClearClients, AppStep, AskPage, ListClients, Collect, Panics
<1>1. UNCHANGED <<con, dxcon, waitg, run, overtaken>> /\ clients' \subseteq clients
  BY DEF listed, runVars, conVars, ends
<1>2. \/ opens' = opens /\ (app' = "listened" => app = "listened")
      \/ opens' = opens + 1
  BY DEF AppTo, appVars
<1> QED BY <1>1, <1>2, StillInv

-----------------------------------------------------------------------------
(* Run *)

\* A Run goes on and the connections do not.
LEMMA RunMoves ==
  ASSUME IInv, NEW r \in Runs, NEW l \in RunPlaces \ {"none", "add"}, RunTo(r, l),
         run[r] # "none", UNCHANGED <<con, dxcon, waitg, opens, app, overtaken>>,
         l \in {"make", "insert"} => run[r] \in {"make", "insert"},
         l = "serve" => Holding(r),
         \A c \in clients' : c \in clients \/ overtaken \/ On(c)
  PROVE  IInv'
<1>1. /\ \A s \in Runs : run'[s] = IF s = r THEN l ELSE run[s]
      /\ Typed'
  BY DEF RunTo, IInv, Typed
<1>2. Unused'
  BY <1>1 DEF IInv, Unused
<1>3. InHand'
  BY <1>1 DEF IInv, InHand, Holding
<1>4. Entered'
  BY <1>1 DEF IInv, Entered, On
<1>5. Count'
  BY SameCount DEF IInv, Counted
<1> QED BY <1>1, <1>2, <1>3, <1>4, <1>5 DEF IInv

LEMMA AcceptInv == ASSUME IInv, NEW r \in Runs, NEW c \in Conns, Accept(r, c) PROVE IInv'
<1>1. /\ run[r] = "accept" /\ con[c] = "none"
      /\ UNCHANGED <<waitg, clients, opens, app, overtaken>>
      /\ \A s \in Runs : run'[s] = IF s = r THEN "add" ELSE run[s]
      /\ \A s \in Runs : dxcon'[s] = IF s = r THEN c ELSE dxcon[s]
      /\ \A d \in Conns : con'[d] = IF d = c THEN "accepted" ELSE con[d]
      /\ Typed'
  BY DEF Accept, RunAt, RunTo, ConAt, ConTo, appVars, listed, ends, IInv, Typed, RunPlaces,
         ConPlaces
<1>2. Unused'
  BY <1>1 DEF IInv, Unused
<1>3. InHand'
  BY <1>1 DEF IInv, InHand, Holding
<1>4. Entered'
  BY <1>1 DEF IInv, Entered, On
<1>5. Count'
  BY <1>1, SameCount DEF Counted, IInv
<1> QED BY <1>1, <1>2, <1>3, <1>4, <1>5 DEF IInv

LEMMA AddInv == ASSUME IInv, NEW r \in Runs, Add(r) PROVE IInv'
<1>1. /\ run[r] = "add" /\ dxcon[r] \in Conns /\ con[dxcon[r]] = "accepted"
      /\ waitg' = waitg + 1 /\ UNCHANGED <<dxcon, opens, app, clients, overtaken>>
      /\ \A s \in Runs : run'[s] = IF s = r THEN "make" ELSE run[s]
      /\ \A d \in Conns : con'[d] = IF d = dxcon[r] THEN "counted" ELSE con[d]
      /\ Typed'
  BY DEF Add, RunAt, RunTo, ConTo, appVars, listed, ends, IInv, Typed, RunPlaces, ConPlaces,
         InHand, Holding
<1>2. Unused'
  BY <1>1 DEF IInv, Unused
<1>3. InHand'
  BY <1>1 DEF IInv, InHand, Holding
<1>4. Entered'
  BY <1>1 DEF IInv, Entered, On
<1>5. Count'
  BY <1>1, CountIn DEF Counted, IInv
<1> QED BY <1>1, <1>2, <1>3, <1>4, <1>5 DEF IInv

LEMMA ListingInv == ASSUME IInv, NEW r \in Runs, MakeMap(r) \/ Insert(r) PROVE IInv'
<1>1. CASE Panics("nil map")
  <2>1. UNCHANGED <<con, dxcon, waitg, run, clients, opens, app, overtaken>>
    BY <1>1 DEF Panics, appVars, listed, runVars, conVars
  <2> QED BY <2>1, StillInv
<1>2. CASE MakeMap(r)
  <2>1. /\ run[r] = "make" /\ RunTo(r, "insert")
        /\ UNCHANGED <<con, dxcon, waitg, clients, opens, app, overtaken>>
    BY <1>2 DEF MakeMap, RunAt, appVars, conVars, ends
  <2> QED BY <2>1, RunMoves DEF RunPlaces
<1>3. CASE Insert(r) /\ ~Panics("nil map")
  <2>1. /\ run[r] = "insert" /\ RunTo(r, "serve") /\ Holding(r)
        /\ UNCHANGED <<con, dxcon, waitg, opens, app, overtaken>>
        /\ \E h \in Handle(dxcon[r]) : clients' = clients \cup {h}
    BY <1>3 DEF Insert, RunAt, Holding, appVars, conVars, ends
  <2>2. overtaken \/ On(dxcon[r])
    BY <2>1 DEF IInv, Entered
  <2>3. On(dxcon[r]) => Handle(dxcon[r]) = {dxcon[r]}
    BY DEF On, Handle
  <2>4. \A c \in clients' : c \in clients \/ overtaken \/ On(c)
    BY <2>1, <2>2, <2>3
  <2> QED BY <2>1, <2>4, RunMoves DEF RunPlaces
<1> QED BY <1>1, <1>2, <1>3

LEMMA ServeInv == ASSUME IInv, NEW r \in Runs, Serve(r) PROVE IInv'
<1>1. /\ run[r] = "serve" /\ dxcon[r] \in Conns
      /\ UNCHANGED <<waitg, clients, opens, app, overtaken>>
      /\ \A s \in Runs : run'[s] = IF s = r THEN "loop" ELSE run[s]
      /\ \A s \in Runs : dxcon'[s] = IF s = r THEN NoCon ELSE dxcon[s]
      /\ \A d \in Conns : \/ con'[d] = con[d]
                          \/ con[d] = "counted" /\ con'[d] = "posted"
      /\ Typed'
  BY DEF Serve, RunAt, RunTo, ConTo, appVars, listed, ends, IInv, Typed, RunPlaces, ConPlaces,
         InHand, Holding
<1>2. Unused'
  BY <1>1 DEF IInv, Unused
<1>3. InHand'
  BY <1>1 DEF IInv, InHand, Holding
<1>4. Entered'
  BY <1>1 DEF IInv, Entered, On
<1>5. Count'
  BY <1>1, SameCount DEF Counted, IInv
<1> QED BY <1>1, <1>2, <1>3, <1>4, <1>5 DEF IInv

LEMMA RunStepInv == ASSUME IInv, NEW r \in Runs, RunStep(r) PROVE IInv'
<1>1. CASE MakeChan(r) \/ AcceptFails(r)
  <2>1. /\ run[r] \in {"posted", "accept"} /\ \E l \in {"loop", "ended"} : RunTo(r, l)
        /\ UNCHANGED <<con, dxcon, waitg, clients, opens, app, overtaken>>
    BY <1>1 DEF MakeChan, AcceptFails, RunAt, appVars, listed, conVars, ends
  <2> QED BY <2>1, RunMoves DEF RunPlaces
<1>2. CASE CallAccept(r)
  <2>1. UNCHANGED <<con, dxcon, waitg, clients, opens, app, overtaken>> /\ run[r] = "loop"
    BY <1>2 DEF CallAccept, RunAt, Panics, appVars, listed, runVars, conVars, ends
  <2>2. CASE RunTo(r, "accept")
    BY <2>1, <2>2, RunMoves DEF RunPlaces
  <2>3. CASE Panics("nil listener")
    BY <2>1, <2>3, StillInv DEF Panics, runVars
  <2> QED BY <1>2, <2>2, <2>3 DEF CallAccept
<1> QED BY <1>1, <1>2, AddInv, ListingInv, ServeInv DEF RunStep

-----------------------------------------------------------------------------
(* Connections *)

\* A connection goes from one counted stage to the next.
LEMMA MoveInv ==
  ASSUME IInv, NEW c \in Conns, NEW l \in {"live", "closing"}, ConTo(c, l), On(c),
         UNCHANGED <<run, dxcon, waitg, clients, opens, app, overtaken>>
  PROVE  IInv'
<1>1. (\A d \in Conns : con'[d] = IF d = c THEN l ELSE con[d]) /\ Typed'
  BY DEF ConTo, IInv, Typed, ConPlaces
<1>2. Unused' /\ InHand'
  BY <1>1 DEF IInv, Unused, InHand, Holding, On
<1>3. Entered'
  BY <1>1 DEF IInv, Entered, On
<1>4. Count'
  BY <1>1, SameCount DEF IInv, Counted, On
<1> QED BY <1>1, <1>2, <1>3, <1>4 DEF IInv

\* Who leaves the map before Run has entered it has overtaken Run.
LEMMA UnlistInv == ASSUME IInv, NEW c \in Conns, Unlist(c) PROVE IInv'
<1>1. /\ con[c] = "closing" /\ clients' = clients \ {c}
      /\ overtaken' = (overtaken \/ \E r \in Runs : run[r] \in {"make", "insert"}
                                                    /\ dxcon[r] = c)
      /\ UNCHANGED <<run, dxcon, waitg, opens, app>>
      /\ \A d \in Conns : con'[d] = IF d = c THEN "signing" ELSE con[d]
      /\ Typed'
  BY DEF Unlist, ConAt, ConTo, appVars, runVars, IInv, Typed, ConPlaces
<1>2. Unused' /\ InHand'
  BY <1>1 DEF IInv, Unused, InHand, Holding
<1>3. Entered'
  BY <1>1 DEF IInv, Entered, On
<1>4. Count'
  BY <1>1, SameCount DEF IInv, Counted
<1> QED BY <1>1, <1>2, <1>3, <1>4 DEF IInv

LEMMA SignOffInv == ASSUME IInv, NEW c \in Conns, SignOff(c) PROVE IInv'
<1>1. /\ con[c] = "signing" /\ waitg' = waitg - 1
      /\ UNCHANGED <<run, dxcon, clients, opens, overtaken>>
      /\ (app' = "listened" => app = "listened")
      /\ \A d \in Conns : con'[d] = IF d = c THEN "none" ELSE con[d]
      /\ Typed'
  BY DEF SignOff, ConAt, ConTo, listed, runVars, ends, IInv, Typed, ConPlaces
<1>2. Unused' /\ InHand'
  BY <1>1 DEF IInv, Unused, InHand, Holding
<1>3. Entered'
  BY <1>1 DEF IInv, Entered, On
<1>4. Count'
  BY <1>1, CountOut DEF IInv, Counted
<1> QED BY <1>1, <1>2, <1>3, <1>4 DEF IInv

LEMMA ConStepInv ==
  ASSUME IInv, NEW c \in Conns, ConStep(c) \/ Cut(c) \/ End(c)
  PROVE  IInv'
<1>1. CASE Start(c)
  BY <1>1, MoveInv DEF Start, ConAt, On, appVars, listed, runVars, ends
<1>2. CASE Leave(c) \/ Cut(c) \/ End(c)
  BY <1>2, MoveInv DEF Leave, Cut, End, ConMove, ConAt, On, appVars, listed, runVars, ends
<1> QED BY <1>1, <1>2, UnlistInv, SignOffInv DEF ConStep

-----------------------------------------------------------------------------
LEMMA StepInv == IInv /\ [Next]_vars => IInv'
<1> SUFFICES ASSUME IInv, [Next]_vars PROVE IInv'
  OBVIOUS
<1>1. CASE UNCHANGED vars
  BY <1>1, StillInv DEF vars, appVars, listed, runVars, conVars, ends
<1>2. CASE Next
  BY <1>2, PostRunInv, AppStepInv, RunStepInv, AcceptInv, ConStepInv DEF Next
<1> QED BY <1>1, <1>2

\* For any connections and any number of Opens: the wait group that Close waits for
\* counts the connections that Run has counted and nobody signed off, and the map lists
\* no other, unless a teardown has overtaken Run.
THEOREM CountHolds == Spec => []ListedAreCounted
<1>1. IInv => ListedAreCounted
  BY DEF IInv, Entered, On, Count, Counted, ListedAreCounted
<1> QED BY <1>1, InitInv, StepInv, PTL DEF Spec

-----------------------------------------------------------------------------
(* The listener that is open *)

\* The field has the one open listener that was not lost.
OnlyListener == listening \subseteq Runs /\ listening \subseteq {listener} \cup lost

\* Past CloseListener, until the next Open, the server is deaf.
Deaf ==
  \/ app \in {"channel", "wait", "waiting", "woken", "clear"}
  \/ app = "idle" /\ isActivetag = 0

DeafInv == OnlyListener /\ (Deaf => listening \subseteq lost)

LEMMA InitDeaf == Init => DeafInv
BY DEF Init, DeafInv, OnlyListener, Deaf

\* Open and Close
LEMMA AppDeaf ==
  ASSUME DeafInv, opens \in Nat, Listen \/ PostRun \/ BeginClose \/ CloseStep
  PROVE  DeafInv'
<1> USE DEF DeafInv, Deaf, At, AppTo
<1>1. CASE Listen
  <2>1. opens + 1 \in Runs
    BY <1>1, OpensAssumption DEF Listen, Runs
  <2> QED BY <1>1, <2>1 DEF Listen, ends, OnlyListener
<1>2. CASE PostRun \/ BeginClose
  BY <1>2 DEF PostRun, BeginClose, fields, ends, OnlyListener
<1>3. CASE CheckListener
  <2>1. listener = 0 => listening \subseteq lost
    BY OpensAssumption DEF OnlyListener, Runs
  <2> QED BY <1>3, <2>1 DEF CheckListener, AppStep, fields, ends, OnlyListener
<1>4. CASE CloseListener
  <2>1. CASE Panics("nil listener")
    BY <2>1 DEF Panics, appVars, fields, OnlyListener
  <2>2. CASE listening' = listening \ {listener} /\ UNCHANGED <<listener, lost>>
    BY <2>2 DEF OnlyListener
  <2> QED BY <1>4, <2>1, <2>2 DEF CloseListener, ends
<1>5. CASE CloseChan \/ StartWait \/ WakeUp \/ ClearClients
  <2>1. UNCHANGED <<listener, listening, lost>> /\ Deaf
    BY <1>5 DEF CloseChan, StartWait, WakeUp, ClearClients, AppStep, Panics, fields, ends
  <2> QED BY <2>1 DEF OnlyListener
<1> QED BY <1>1, <1>2, <1>3, <1>4, <1>5 DEF CloseStep

\* A Run that ends clears the field; if an open listener was there, it is lost.
LEMMA AcceptFailsDeaf == ASSUME DeafInv, NEW r \in Runs, AcceptFails(r) PROVE DeafInv'
<1>1. /\ UNCHANGED <<app, isActivetag, listening>> /\ listener' = 0
      /\ lost' = lost \cup (listening \cap {listener})
  BY DEF AcceptFails, appVars
<1>2. listening \subseteq lost'
  BY <1>1 DEF DeafInv, OnlyListener
<1> QED BY <1>1, <1>2 DEF DeafInv, OnlyListener, Deaf

\* The collector closes listeners.
LEMMA CollectDeaf == ASSUME DeafInv, NEW l \in Runs, Collect(l) PROVE DeafInv'
BY DEF DeafInv, OnlyListener, Deaf, Collect, appVars, ends

\* Nothing else touches the listener.
LEMMA OtherDeaf ==
  ASSUME DeafInv, UNCHANGED <<isActivetag, listener, listening, lost>>,
         app' = app \/ (app = "waiting" /\ app' = "woken")
  PROVE  DeafInv'
BY DEF DeafInv, OnlyListener, Deaf

LEMMA RunDeaf ==
  ASSUME DeafInv, NEW r \in Runs, RunStep(r) \/ \E c \in Conns : Accept(r, c)
  PROVE  DeafInv'
<1>1. CASE AcceptFails(r)
  BY <1>1, AcceptFailsDeaf
<1>2. CASE ~AcceptFails(r)
  <2>1. UNCHANGED <<app, isActivetag, listener, listening, lost>>
    BY <1>2 DEF RunStep, MakeChan, CallAccept, Accept, Add, MakeMap, Insert, Serve, Panics,
                appVars, fields, ends
  <2> QED BY <2>1, OtherDeaf
<1> QED BY <1>1, <1>2

LEMMA StepDeaf == IInv /\ DeafInv /\ [Next]_vars => DeafInv'
<1> SUFFICES ASSUME IInv, DeafInv, [Next]_vars PROVE DeafInv'
  OBVIOUS
<1>1. CASE UNCHANGED vars \/ AskPage \/ ListClients
  <2>1. UNCHANGED <<app, isActivetag, listener, listening, lost>>
    BY <1>1 DEF vars, AskPage, ListClients, appVars, fields, ends
  <2> QED BY <2>1, OtherDeaf
<1>2. ASSUME NEW c \in Conns, ConStep(c) \/ Cut(c) \/ End(c) PROVE DeafInv'
  <2>1. /\ UNCHANGED <<isActivetag, listener, listening, lost>>
        /\ app' = app \/ (app = "waiting" /\ app' = "woken")
    BY <1>2 DEF ConStep, Cut, End, Start, Leave, Unlist, SignOff, ConMove, appVars, fields,
                ends
  <2> QED BY <2>1, OtherDeaf
<1>3. CASE Listen \/ PostRun \/ BeginClose \/ CloseStep
  BY <1>3, AppDeaf DEF IInv, Unused
<1> QED BY <1>1, <1>2, <1>3, RunDeaf, CollectDeaf DEF Next

\* For any connections and any number of Opens: when Close has returned, a listener that
\* is still open is one that the field held when a Run cleared it.
THEOREM ClosedServerIsDeaf == Spec => []ClosedIsDeaf
<1>1. DeafInv => ClosedIsDeaf
  BY DEF DeafInv, Deaf, ClosedIsDeaf
<1> QED BY <1>1, InitInv, StepInv, InitDeaf, StepDeaf, PTL DEF Spec

=============================================================================
