------------------------------- MODULE DxServer -------------------------------
(***************************************************************************)
(* The life of a DxTcpServer (dxNetSrv.go): Open, the goroutines of Run,   *)
(* Close, a second Open, and what the connections do to the fields that    *)
(* these share without a lock: listener, srvCloseChan, clients and waitg.  *)
(* Beside them the page of the file server's demo that lists the clients.  *)
(* A connection is followed from Accept to its sign-off only; what happens *)
(* in between is module NetConnection.  Any object of the pool is taken    *)
(* for one that was used before: a closer of its last use may still run.   *)
(***************************************************************************)
EXTENDS Integers, FiniteSets

CONSTANTS
  Conns,    \* objects for connections that may be in use at one time
  MaxOpens  \* bound: successful calls of Open

ASSUME OpensAssumption == MaxOpens \in Nat
ASSUME ConnsAssumption == IsFiniteSet(Conns)

VARIABLES
  app,          \* where the application's thread is
  opens,        \* successful calls of Open; numbers the listeners, the runs, the channels
  isActivetag,
  listener,     \* the field of the server, 0 for nil
  listening,    \* the listeners that are open
  srvCloseChan, \* the field of the server, 0 for nil
  closed,       \* the close channels that are closed
  madeMap,      \* clients is not nil
  clients,      \* the handles in it; NoCon is the handle of an object that was released
  waitg,        \* the counter of the server's wait group
  run,          \* per goroutine of Run: where it is
  socket,       \* the listener it accepts on
  dxcon,        \* the connection it has accepted
  con,          \* per connection: "none", "accepted", "counted", "posted", "live", "closing",
                \* "signing"
  done,         \* the close channel that its goroutines wait for
  page,         \* the page of the demo: "idle", "reading", "dead"
  panic,        \* why the process died, or "none"
  lost,         \* history: listeners that were open when a Run set the field to nil
  overtaken     \* history: a connection signed off before Run had entered it

Runs == 1 .. MaxOpens
NoCon == "nocon"

appVars == <<app, opens, isActivetag>>
fields == <<listener, listening, srvCloseChan, closed>>
listed == <<madeMap, clients>>
runVars == <<run, socket, dxcon>>
conVars == <<con, done>>
ends == <<page, panic, lost, overtaken>>
vars == <<appVars, fields, listed, waitg, runVars, conVars, ends>>

Init ==
  /\ app = "idle" /\ opens = 0 /\ isActivetag = 0
  /\ listener = 0 /\ listening = {} /\ srvCloseChan = 0 /\ closed = {}
  /\ madeMap = FALSE /\ clients = {} /\ waitg = 0
  /\ run = [r \in Runs |-> "none"]
  /\ socket = [r \in Runs |-> 0]
  /\ dxcon = [r \in Runs |-> NoCon]
  /\ con = [c \in Conns |-> "none"]
  /\ done = [c \in Conns |-> 0]
  /\ page = "idle" /\ panic = "none" /\ lost = {} /\ overtaken = FALSE

Alive == panic = "none"
LockFree == page = "idle"

At(l) == Alive /\ app = l
AppTo(l) == app' = l
RunAt(r, l) == Alive /\ run[r] = l
RunTo(r, l) == run' = [run EXCEPT ![r] = l]
ConAt(c, l) == Alive /\ con[c] = l
ConTo(c, l) == con' = [con EXCEPT ![c] = l]

AppStep(from, to) ==
  /\ At(from) /\ AppTo(to)
  /\ UNCHANGED <<opens, isActivetag, fields, listed, waitg, runVars, conVars, ends>>

ConMove(c, from, to) ==
  /\ ConAt(c, from) /\ ConTo(c, to)
  /\ UNCHANGED <<appVars, fields, listed, waitg, runVars, done, ends>>

Panics(why) ==
  /\ panic' = why
  /\ UNCHANGED <<appVars, fields, listed, waitg, runVars, conVars, page, lost,
                 overtaken>>

-----------------------------------------------------------------------------
(* Open: net.Listen fails while another listener has the address. *)
Listen ==
  /\ At("idle") /\ isActivetag = 0
  /\ opens < MaxOpens /\ listening = {}
  /\ opens' = opens + 1
  /\ listener' = opens'
  /\ listening' = {opens'}
  /\ AppTo("listened")
  /\ UNCHANGED <<isActivetag, srvCloseChan, closed, listed, waitg, runVars, conVars, ends>>

PostRun ==
  /\ At("listened")
  /\ isActivetag' = 1
  /\ RunTo(opens, "posted")
  /\ AppTo("idle")
  /\ UNCHANGED <<opens, fields, listed, waitg, socket, dxcon, conVars, ends>>

(* Close *)
BeginClose ==
  /\ At("idle") /\ isActivetag = 1
  /\ isActivetag' = 0
  /\ AppTo("listener")
  /\ UNCHANGED <<opens, fields, listed, waitg, runVars, conVars, ends>>

\* Mutant: the listener is left open.
CheckListenerSkips == AppStep("listener", "channel")

CheckListener == AppStep("listener", IF listener = 0 THEN "channel" ELSE "close")

CloseListener ==
  /\ At("close")
  /\ \/ /\ listener = 0
        /\ Panics("nil listener")
     \/ /\ listener # 0
        /\ listening' = listening \ {listener}
        /\ AppTo("channel")
        /\ UNCHANGED <<opens, isActivetag, listener, srvCloseChan, closed, listed, waitg, runVars,
                       conVars, ends>>

\* Mutant: the channel is not closed.
CloseChanForgotten == AppStep("channel", "wait")

CloseChan ==
  /\ At("channel")
  /\ \/ /\ srvCloseChan = 0 \/ srvCloseChan \in closed
        /\ Panics("no channel")
     \/ /\ srvCloseChan # 0 /\ srvCloseChan \notin closed
        /\ closed' = closed \cup {srvCloseChan}
        /\ AppTo("wait")
        /\ UNCHANGED <<opens, isActivetag, listener, listening, srvCloseChan, listed, waitg,
                       runVars, conVars, ends>>

StartWait == AppStep("wait", IF waitg = 0 THEN "clear" ELSE "waiting")

\* A wait group whose counter has risen again before its waiter runs panics.
WakeUp ==
  \/ At("woken") /\ waitg # 0 /\ Panics("wait group reused")
  \/ waitg = 0 /\ AppStep("woken", "clear")

ClearClients ==
  /\ At("clear")
  /\ madeMap' = FALSE /\ clients' = {}
  /\ AppTo("idle")
  /\ UNCHANGED <<opens, isActivetag, fields, waitg, runVars, conVars, ends>>

-----------------------------------------------------------------------------
(* The goroutine of Run makes the channel that Close closes, and reads the *)
(* field listener anew for every Accept.                                   *)
MakeChan(r) ==
  /\ RunAt(r, "posted")
  /\ srvCloseChan' = r
  /\ RunTo(r, "loop")
  /\ UNCHANGED <<appVars, listener, listening, closed, listed, waitg, socket, dxcon, conVars, ends>>

CallAccept(r) ==
  /\ RunAt(r, "loop")
  /\ \/ listener = 0 /\ Panics("nil listener")
     \/ /\ listener # 0
        /\ socket' = [socket EXCEPT ![r] = listener]
        /\ RunTo(r, "accept")
        /\ UNCHANGED <<appVars, fields, listed, waitg, dxcon, conVars, ends>>

Accept(r, c) ==
  /\ RunAt(r, "accept") /\ socket[r] \in listening
  /\ ConAt(c, "none")
  /\ dxcon' = [dxcon EXCEPT ![r] = c]
  /\ socket' = [socket EXCEPT ![r] = 0]
  /\ ConTo(c, "accepted")
  /\ RunTo(r, "add")
  /\ UNCHANGED <<appVars, fields, listed, waitg, done, ends>>

\* Any error of Accept ends the goroutine, and the listener it was called on stays
\* as it is: open, if the error was another one than that it is closed.
AcceptFails(r) ==
  /\ RunAt(r, "accept")
  /\ listener' = 0
  /\ lost' = lost \cup (listening \cap {listener})
  /\ socket' = [socket EXCEPT ![r] = 0]
  /\ RunTo(r, "ended")
  /\ UNCHANGED <<appVars, listening, srvCloseChan, closed, listed, waitg, dxcon, conVars,
                 page, panic, overtaken>>

\* The collector closes a listener that nobody refers to any more.
Collect(l) ==
  /\ Alive /\ l \in listening /\ l # listener
  /\ \A r \in Runs : socket[r] # l
  /\ listening' = listening \ {l}
  /\ UNCHANGED <<appVars, listener, srvCloseChan, closed, listed, waitg, runVars, conVars, ends>>

Add(r) ==
  /\ RunAt(r, "add")
  /\ waitg' = waitg + 1
  /\ ConTo(dxcon[r], "counted")
  /\ RunTo(r, "make")
  /\ UNCHANGED <<appVars, fields, listed, socket, dxcon, done, ends>>

\* The test for nil and the making of the map are not under the lock.
MakeMap(r) ==
  /\ RunAt(r, "make")
  /\ madeMap' = TRUE
  /\ RunTo(r, "insert")
  /\ UNCHANGED <<appVars, fields, clients, waitg, socket, dxcon, conVars, ends>>

\* What ConHandle of the object is when Run enters it: a teardown that is through
\* has set it to 0.
Handle(c) == {c} \cup IF con[c] = "none" THEN {NoCon} ELSE {}

Insert(r) ==
  /\ RunAt(r, "insert") /\ LockFree
  /\ \/ ~madeMap /\ Panics("nil map")
     \/ /\ madeMap
        /\ \E h \in Handle(dxcon[r]) : clients' = clients \cup {h}
        /\ RunTo(r, "serve")
        /\ UNCHANGED <<appVars, fields, madeMap, waitg, socket, dxcon, conVars, ends>>

\* What the goroutines posted for a connection that is over do to the object, or to
\* the next connection that has it, is module NetConnection.
Serve(r) ==
  /\ RunAt(r, "serve")
  /\ ConTo(dxcon[r], IF con[dxcon[r]] = "counted" THEN "posted" ELSE con[dxcon[r]])
  /\ dxcon' = [dxcon EXCEPT ![r] = NoCon]
  /\ RunTo(r, "loop")
  /\ UNCHANGED <<appVars, fields, listed, waitg, socket, done, ends>>

-----------------------------------------------------------------------------
\* Mutant: the goroutines do not wait for the channel of the server.
StartAlone(c) == ConMove(c, "posted", "live")

(* A connection takes the channel of Done() when its goroutines start. *)
Start(c) ==
  /\ ConAt(c, "posted")
  /\ done' = [done EXCEPT ![c] = srvCloseChan]
  /\ ConTo(c, "live")
  /\ UNCHANGED <<appVars, fields, listed, waitg, runVars, ends>>

\* A closer that was posted in the last use of the object ends the connection that
\* Run is registering, or has just posted.
Cut(c) == ConMove(c, "counted", "closing") \/ ConMove(c, "posted", "closing")

Leave(c) == done[c] \in closed /\ ConMove(c, "live", "closing")

\* The peer, the heart check or a Close() of the connection ends it.
End(c) == ConMove(c, "live", "closing")

\* Mutant: the handle stays in the map.
UnlistForgets(c) == LockFree /\ ConMove(c, "closing", "signing")

\* HandleDisConnectEvent: under the lock, then Done of the wait group.
Unlist(c) ==
  /\ ConAt(c, "closing") /\ LockFree
  /\ clients' = clients \ {c}
  /\ overtaken' = (overtaken \/ \E r \in Runs : run[r] \in {"make", "insert"} /\ dxcon[r] = c)
  /\ ConTo(c, "signing")
  /\ UNCHANGED <<appVars, fields, madeMap, waitg, runVars, done, page, panic, lost>>

SignOff(c) ==
  /\ ConAt(c, "signing")
  /\ waitg' = waitg - 1
  /\ app' = IF app = "waiting" /\ waitg' = 0 THEN "woken" ELSE app
  /\ ConTo(c, "none")
  /\ done' = [done EXCEPT ![c] = 0]
  /\ UNCHANGED <<opens, isActivetag, fields, listed, runVars, ends>>

-----------------------------------------------------------------------------
(* srvInfoHandler of the demo holds the server's lock while it goes through   *)
(* the clients.  It takes their LastValidTime for a time.Time, which it never *)
(* is; net/http recovers the panic, and the lock stays taken.                 *)
AskPage ==
  /\ Alive /\ page = "idle"
  /\ page' = "reading"
  /\ UNCHANGED <<appVars, fields, listed, waitg, runVars, conVars, panic, lost, overtaken>>

ListClients ==
  /\ Alive /\ page = "reading"
  /\ page' = IF clients = {} THEN "idle" ELSE "dead"
  /\ UNCHANGED <<appVars, fields, listed, waitg, runVars, conVars, panic, lost, overtaken>>

-----------------------------------------------------------------------------
CloseStep == CheckListener \/ CloseListener \/ CloseChan \/ StartWait \/ WakeUp \/ ClearClients
RunStep(r) == MakeChan(r) \/ CallAccept(r) \/ AcceptFails(r) \/ Add(r) \/ MakeMap(r)
              \/ Insert(r) \/ Serve(r)
ConStep(c) == Start(c) \/ Leave(c) \/ Unlist(c) \/ SignOff(c)

Next ==
  \/ Listen \/ PostRun \/ BeginClose \/ CloseStep
  \/ \E r \in Runs : RunStep(r) \/ \E c \in Conns : Accept(r, c)
  \/ \E l \in Runs : Collect(l)
  \/ \E c \in Conns : ConStep(c) \/ Cut(c) \/ End(c)
  \/ AskPage \/ ListClients

Spec == Init /\ [][Next]_vars

\* An Accept on an open listener may wait for good, on a closed one it returns.
RunGoesOn(r) == (run[r] = "accept" => socket[r] \notin listening) /\ RunStep(r)

\* Goroutines that can run do, and a sync.Mutex is given to who waits for it
\* long enough; nobody has to connect, close or ask for the page.
LiveSpec ==
  /\ Spec
  /\ WF_vars(CloseStep)
  /\ \A r \in Runs : WF_vars(RunGoesOn(r)) /\ SF_vars(Insert(r))
  /\ \A c \in Conns : WF_vars(ConStep(c)) /\ SF_vars(Unlist(c))
  /\ WF_vars(ListClients)

-----------------------------------------------------------------------------
Counted(c) == con[c] \in {"counted", "posted", "live", "closing", "signing"}

TypeOK ==
  /\ app \in {"idle", "listened", "listener", "close", "channel", "wait", "waiting", "woken",
              "clear"}
  /\ opens \in 0 .. MaxOpens /\ isActivetag \in {0, 1}
  /\ listener \in 0 .. MaxOpens /\ listening \in SUBSET Runs
  /\ srvCloseChan \in 0 .. MaxOpens /\ closed \in SUBSET Runs
  /\ madeMap \in BOOLEAN /\ clients \in SUBSET (Conns \cup {NoCon})
  /\ waitg \in Nat
  /\ run \in [Runs -> {"none", "posted", "loop", "accept", "add", "make", "insert", "serve",
                       "ended"}]
  /\ socket \in [Runs -> 0 .. MaxOpens]
  /\ dxcon \in [Runs -> Conns \cup {NoCon}]
  /\ con \in [Conns -> {"none", "accepted", "counted", "posted", "live", "closing", "signing"}]
  /\ done \in [Conns -> 0 .. MaxOpens]
  /\ page \in {"idle", "reading", "dead"}
  /\ panic \in {"none", "nil listener", "no channel", "wait group reused", "nil map"}
  /\ lost \in SUBSET Runs /\ overtaken \in BOOLEAN

\* Whatever Run, Close, the disconnect events and closers of old uses do to clients
\* and waitg at once, the wait group counts the connections that Run has counted and
\* nobody signed off; and every handle in the map is one of them, unless a connection
\* signed off while Run had not entered it yet: Run enters it after that.
ListedAreCounted ==
  /\ waitg = Cardinality({c \in Conns : Counted(c)})
  /\ overtaken \/ \A c \in clients : c \in Conns /\ Counted(c)

\* When Close has returned, a listener that is still open is one that the field held
\* when a Run set it to nil after an error of its own Accept.
ClosedIsDeaf == Alive /\ app = "idle" /\ isActivetag = 0 => listening \subseteq lost

\* Close returns, unless the process dies or the page holds the lock for good.
CloseReturns ==
  app = "listener" ~> app = "idle" \/ ~Alive \/ page = "dead"

\* A client that is let in while the server closes leaves by itself.
LateClientLeaves ==
  \A c \in Conns :
    con[c] # "none" /\ isActivetag = 0 ~>
      con[c] = "none" \/ isActivetag = 1 \/ ~Alive \/ page = "dead"

=============================================================================
