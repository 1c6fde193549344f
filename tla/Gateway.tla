------------------------------- MODULE Gateway -------------------------------
(***************************************************************************)
(* Gateway processes (gateway.py) that follow one another, or meet, at one  *)
(* socket path, and hand over one ControlMaster (transport.py) through a    *)
(* control socket and an owner file.                                        *)
(*                                                                         *)
(* A gateway has its main coroutine (serve), request handlers, and at most  *)
(* one job on the connection at a time, a client's or the maintenance       *)
(* task's: the one that holds the repair lock.  What decides about repairs  *)
(* is in the module Supervisor; here a job may replace whatever master does *)
(* not answer or is sick.  Masters are processes of their own.              *)
(*                                                                         *)
(* A definition that nothing uses and that stands right before one with the *)
(* same parameters is a mutant: that definition with a plausible bug in it, *)
(* which one of the properties must notice.                                 *)
(***************************************************************************)
EXTENDS Naturals, FiniteSets

CONSTANTS
    Gateways,       \* processes; one that has ended may be started again
    Masters,        \* process ids of masters, used again after their death
    None,
    Overlapping     \* may a gateway start before another one has ended?

ASSUME IdsAssumption ==
    IsFiniteSet(Gateways) /\ IsFiniteSet(Masters) /\ None \notin Gateways \cup Masters
ASSUME OverlappingAssumption == Overlapping \in BOOLEAN

VARIABLES
    \* The gateways
    pc,             \* the main coroutine
    stop,           \* the last request to stop: no, keep (the master), or end
    maint,          \* the maintenance task: none, running, dead
    job,            \* what is being done to the connection
    known,          \* the generation is not 0: it has adopted or started a master
    child,          \* transport._master
    accepted,       \* a connection whose handler has not begun
    running,        \* a handler at work on a request
    \* Files
    socket,         \* the gateway whose listener the socket path leads to
    control,        \* the master whose socket is at the control path
    owner,          \* the master recorded in the owner file
    \* The masters
    alive, bound,   \* bound: authenticated, and listening on a control socket
    sick,           \* opens no sessions, and may ignore commands
    \* History
    lost,           \* masters that escaped every record, see MastersAccounted
    survivor,       \* the master that the next gateway is to adopt
    cleaned         \* the last gateway that ended went through close

files == <<socket, control, owner>>
masters == <<alive, bound, sick, lost>>
requests == <<accepted, running>>
process == <<pc, stop, maint>>
transport == <<job, known, child>>
vars == <<process, transport, requests, files, masters, survivor, cleaned>>

Idle == [step |-> "idle", by |-> "none", next |-> "return"]

Init ==
    /\ pc = [g \in Gateways |-> "off"] /\ stop = [g \in Gateways |-> "no"]
    /\ maint = [g \in Gateways |-> "none"]
    /\ job = [g \in Gateways |-> Idle] /\ known = [g \in Gateways |-> FALSE]
    /\ child = [g \in Gateways |-> None]
    /\ accepted = [g \in Gateways |-> FALSE] /\ running = [g \in Gateways |-> FALSE]
    /\ socket = None /\ control = None /\ owner = None
    /\ alive = {} /\ bound = {} /\ sick = {}
    /\ lost = {} /\ survivor = None /\ cleaned = FALSE

-----------------------------------------------------------------------------
(* Starting: _prepare_socket and start_unix_server, which takes the path    *)
(* whatever is there.                                                       *)

Move(g, place) == pc' = [pc EXCEPT ![g] = place]

Start(g) ==
    /\ pc[g] = "off"
    /\ Move(g, "knocking")
    /\ cleaned' = FALSE
    /\ UNCHANGED <<stop, maint, transport, requests, files, masters, survivor>>

KnockInVain(g) ==
    /\ pc[g] = "knocking"
    /\ Move(g, IF socket = None THEN "binding" ELSE "clearing")
    /\ UNCHANGED <<stop, maint, transport, requests, files, masters, survivor, cleaned>>

Knock(g) ==
    /\ pc[g] = "knocking"
    /\ Move(g, CASE socket = None -> "binding"
                 [] socket # None /\ pc[socket] = "serving" -> "off"
                 [] OTHER -> "clearing")
    /\ UNCHANGED <<stop, maint, transport, requests, files, masters, survivor, cleaned>>

ClearPath(g) ==
    /\ pc[g] = "clearing"
    /\ socket' = None
    /\ Move(g, "binding")
    /\ UNCHANGED <<stop, maint, transport, requests, control, owner, masters, survivor, cleaned>>

Bind(g) ==
    /\ pc[g] = "binding"
    /\ socket' = g
    /\ Move(g, "serving")
    /\ maint' = [maint EXCEPT ![g] = "running"]
    /\ UNCHANGED <<stop, transport, requests, control, owner, masters, survivor, cleaned>>

-----------------------------------------------------------------------------
(* Requests.                                                                *)

Accept(g) ==
    /\ pc[g] = "serving" /\ ~accepted[g] /\ ~running[g]
    /\ accepted' = [accepted EXCEPT ![g] = TRUE]
    /\ UNCHANGED <<process, transport, running, files, masters, survivor, cleaned>>

(* A handler that begins after the shutdown did, closes its connection.     *)
BeginRequest(g) ==
    /\ accepted[g]
    /\ accepted' = [accepted EXCEPT ![g] = FALSE]
    /\ running' = [running EXCEPT ![g] = @ \/ pc[g] = "serving"]
    /\ UNCHANGED <<process, transport, files, masters, survivor, cleaned>>

(* Answered, cancelled by its client's leaving, or by the shutdown: a job   *)
(* that the request has begun has come to its end.                          *)
EndRequest(g) ==
    /\ running[g] /\ job[g].by # "client"
    /\ running' = [running EXCEPT ![g] = FALSE]
    /\ UNCHANGED <<process, transport, accepted, files, masters, survivor, cleaned>>

-----------------------------------------------------------------------------
(* The end of a gateway.                                                    *)

Healthy == control \in bound \ sick

(* The master that a gateway leaves behind connected.                       *)
Survivor(g) ==
    survivor' = IF known[g] /\ Healthy /\ job[g] = Idle THEN control ELSE survivor

(* SIGTERM keeps the master; SIGINT and the request "shutdown" do not.      *)
(* One that comes before serve has begun is seen when it has, and later     *)
(* ones than Gathered change nothing.                                       *)
RequestStop(g, how) ==
    /\ pc[g] \in {"serving", "gathering"}
    /\ stop' = [stop EXCEPT ![g] = how]
    /\ UNCHANGED <<pc, maint, transport, requests, files, masters, survivor, cleaned>>

(* An exception that is not a PazuzuError: the overflow of _bounded_backoff, *)
(* an OSError before start_master's first try, or a bug.                    *)
MaintenanceDies(g) ==
    /\ maint[g] = "running" /\ job[g].by # "maintenance"
    /\ pc[g] \in {"serving", "gathering"}
    /\ maint' = [maint EXCEPT ![g] = "dead"]
    /\ UNCHANGED <<pc, stop, transport, requests, files, masters, survivor, cleaned>>

(* _closing is set, the listener closed, and every request cancelled.       *)
BeginClose(g) ==
    /\ pc[g] = "serving" /\ (stop[g] # "no" \/ maint[g] = "dead")
    /\ Move(g, "gathering")
    /\ UNCHANGED <<stop, maint, transport, requests, files, masters, survivor, cleaned>>

Gathered(g) ==
    /\ pc[g] = "gathering" /\ ~running[g]
    /\ Move(g, IF stop[g] = "keep" THEN "detaching" ELSE "closing")
    /\ IF stop[g] = "end" THEN survivor' = None ELSE Survivor(g)
    /\ UNCHANGED <<stop, maint, transport, requests, files, masters, cleaned>>

Exit(g) ==
    /\ Move(g, "off")
    /\ maint' = [maint EXCEPT ![g] = "none"]
    /\ job' = [job EXCEPT ![g] = Idle] /\ known' = [known EXCEPT ![g] = FALSE]
    /\ child' = [child EXCEPT ![g] = None]
    /\ accepted' = [accepted EXCEPT ![g] = FALSE]
    /\ running' = [running EXCEPT ![g] = FALSE]
    /\ stop' = [stop EXCEPT ![g] = "no"]

SwallowFailure(g) ==
    /\ pc[g] \in {"detaching", "closing"} /\ job[g] = Idle /\ maint[g] # "none"
    /\ maint' = [maint EXCEPT ![g] = "none"]
    /\ Move(g, IF pc[g] = "detaching" THEN "detached" ELSE pc[g])
    /\ UNCHANGED <<stop, transport, requests, files, masters, survivor, cleaned>>

(* _stop_maintenance waits for the task it has cancelled.  If the task had  *)
(* died before, its exception is raised again here, and ends close and      *)
(* serve: the master lives on, and the socket path stays.                   *)
HaltMaintenance(g) ==
    /\ pc[g] \in {"detaching", "closing"} /\ job[g] = Idle
    /\ \/ /\ maint[g] = "running"
          /\ maint' = [maint EXCEPT ![g] = "none"]
          /\ Move(g, IF pc[g] = "detaching" THEN "detached" ELSE pc[g])
          /\ UNCHANGED <<stop, transport, requests, cleaned>>
       \/ maint[g] = "dead" /\ Exit(g) /\ cleaned' = FALSE
    /\ UNCHANGED <<files, masters, survivor>>

CloseMaster(g) ==
    /\ pc[g] = "closing" /\ maint[g] = "none" /\ job[g] = Idle
    /\ job' = [job EXCEPT ![g] = [step |-> "exit", by |-> "close", next |-> "return"]]
    /\ UNCHANGED <<process, known, child, requests, files, masters, survivor, cleaned>>

(* The last line of serve.                                                  *)
Unlink(g) ==
    /\ pc[g] \in {"detached", "closed"}
    /\ socket' = None
    /\ cleaned' = (pc[g] = "closed")
    /\ Exit(g)
    /\ UNCHANGED <<control, owner, masters, survivor>>

-----------------------------------------------------------------------------
(* Jobs on the connection.                                                  *)

Answers == control \in bound

Step(g, step) == job' = [job EXCEPT ![g] = [@ EXCEPT !.step = step]]

(* The end of a job; close goes on to remove the socket.                    *)
Return(g) ==
    /\ job' = [job EXCEPT ![g] = Idle]
    /\ IF job[g].by = "close" THEN Move(g, "closed") ELSE UNCHANGED pc

(* _connect: a forced reconnect replaces the master; a gateway that has had *)
(* none yet tries to adopt one; and otherwise the supervisor has taken the  *)
(* master for gone or sick, or left an earlier replacement half-way.        *)
Connect(g, who) ==
    /\ job[g] = Idle
    /\ IF who = "client" THEN running[g] /\ pc[g] = "serving"
                         ELSE maint[g] = "running" /\ pc[g] \in {"serving", "gathering"}
    /\ \E forced \in BOOLEAN, step \in {"adopting", "exit"} :
          /\ forced => who = "client" /\ step = "exit"
          /\ ~forced => step = IF known[g] \/ ~Answers THEN "exit" ELSE "adopting"
          /\ job' = [job EXCEPT ![g] = [step |-> step, by |-> who, next |-> "start"]]
          /\ survivor' = IF forced THEN None ELSE survivor
    /\ UNCHANGED <<process, known, child, requests, files, masters, cleaned>>

(* adopt_existing, after its control_check.                                 *)
Adopt(g) ==
    /\ job[g].step = "adopting"
    /\ IF Healthy THEN Return(g) ELSE Step(g, "exit") /\ UNCHANGED pc
    /\ known' = [known EXCEPT ![g] = Healthy]
    /\ survivor' = IF Healthy THEN None ELSE survivor
    /\ UNCHANGED <<stop, maint, child, requests, files, masters, cleaned>>

(* Masters M end, by a command or a signal.  A socket that is left behind   *)
(* answers as little as none.  A master given the time removes the socket   *)
(* at its control path, even if that is another's by now.                   *)
End(M) ==
    /\ alive' = alive \ M /\ bound' = bound \ M /\ sick' = sick \ M /\ lost' = lost \ M
    /\ control' \in CASE M \cap bound = {} -> {control}
                      [] control \in M -> {None}
                      [] OTHER -> {control, None}

Others == <<requests, survivor, cleaned, stop, maint>>

(* stop_master, first the command "exit", which a sick master may ignore.   *)
ExitCommand(g) ==
    /\ job[g].step = "exit"
    /\ \/ End({control} \cap bound)
       \/ control \in sick /\ End({})
    /\ Step(g, "owned")
    /\ UNCHANGED <<Others, pc, known, child, socket, owner>>

StopOwned(g) ==
    /\ job[g].step = "owned"
    /\ End({child[g]} \cap alive)
    /\ child' = [child EXCEPT ![g] = None]
    /\ Step(g, "recorded")
    /\ UNCHANGED <<Others, pc, known, socket, owner>>

(* _release_master_state.                                                   *)
Release == control' = None /\ owner' = None

ForgetRecorded(g) ==
    /\ job[g].step = "recorded"
    /\ Release
    /\ IF job[g].next = "start" THEN Step(g, "spawning") /\ UNCHANGED pc ELSE Return(g)
    /\ UNCHANGED <<Others, known, child, socket, masters>>

EndProcessOnly(g) ==
    /\ job[g].step = "recorded"
    /\ alive' = alive \ {owner}
    /\ Release
    /\ IF job[g].next = "start" THEN Step(g, "spawning") /\ UNCHANGED pc ELSE Return(g)
    /\ UNCHANGED <<Others, known, child, socket, bound, sick, lost>>

(* The recorded master is killed, unless ps takes more than a second: then  *)
(* the code takes it for another process.                                   *)
StopRecorded(g) ==
    /\ job[g].step = "recorded"
    /\ LET recorded == {owner} \cap alive
       IN  \/ /\ alive' = alive \ recorded /\ bound' = bound \ recorded
              /\ sick' = sick \ recorded /\ lost' = lost \ recorded
           \/ /\ recorded # {} /\ lost' = lost \cup recorded
              /\ UNCHANGED <<alive, bound, sick>>
    /\ Release
    /\ IF job[g].next = "start" THEN Step(g, "spawning") /\ UNCHANGED pc ELSE Return(g)
    /\ UNCHANGED <<Others, known, child, socket>>

(* start_master: it clears the path, where a stray master may come up       *)
(* before the thread has spawned the new one, and writes the owner file,    *)
(* which may fail.                                                          *)
Spawn(g) ==
    /\ job[g].step = "spawning"
    /\ \E m \in Masters \ alive :
          /\ alive' = alive \cup {m}
          /\ child' = [child EXCEPT ![g] = m]
          /\ \/ owner' = m /\ Step(g, "waiting") /\ UNCHANGED lost
             \/ lost' = lost \cup {m} /\ Step(g, "cleaning") /\ UNCHANGED owner
    /\ control' \in {None, control}
    /\ UNCHANGED <<Others, pc, known, socket, bound, sick>>

(* A failed start ends in stop_master; then comes the next attempt, or the  *)
(* last failure is recorded.                                                *)
Retry(g) ==
    \E next \in {"start", "return"} :
        job' = [job EXCEPT ![g] = [step |-> "exit", by |-> @.by, next |-> next]]

SpawnFails(g) ==
    /\ job[g].step = "spawning"
    /\ Release /\ Retry(g)
    /\ UNCHANGED <<Others, pc, known, child, socket, masters>>

(* _wait_until_ready asks whoever listens at the control path.              *)
Ready(g) ==
    /\ job[g].step = "waiting" /\ Healthy
    /\ known' = [known EXCEPT ![g] = TRUE]
    /\ Return(g)
    /\ UNCHANGED <<stop, maint, child, requests, files, masters, survivor, cleaned>>

(* No authentication, or no session.                                        *)
StartFails(g) ==
    /\ job[g].step = "waiting"
    /\ Step(g, "cleaning")
    /\ UNCHANGED <<Others, pc, known, child, files, masters>>

CleanUp(g) ==
    /\ job[g].step = "cleaning"
    /\ alive' = alive \ {child[g]} /\ bound' = bound \ {child[g]}
    /\ sick' = sick \ {child[g]} /\ lost' = lost \ {child[g]}
    /\ child' = [child EXCEPT ![g] = None]
    /\ Release
    /\ IF job[g].next = "raise" THEN Return(g) ELSE Retry(g) /\ UNCHANGED pc
    /\ UNCHANGED <<Others, known, socket>>

Job(g) ==
    \/ Adopt(g) \/ ExitCommand(g) \/ StopOwned(g) \/ StopRecorded(g)
    \/ Spawn(g) \/ SpawnFails(g) \/ Ready(g) \/ StartFails(g) \/ CleanUp(g)

(* Cancellation strikes at an await.  Whether or not the command or signal  *)
(* of this step has had its effect, the steps after it are not taken; only  *)
(* a start that waits for its master cleans up.  A thread that spawns a     *)
(* master is not stopped: nobody hears of the process.                      *)
Struck(g) ==
    CASE job[g].step = "exit" -> {control} \cap bound
      [] job[g].step \in {"owned", "cleaning"} -> {child[g]} \cap alive
      [] job[g].step = "recorded" -> {owner} \cap alive
      [] OTHER -> {}

Abandon(g) ==
    \/ \E M \in {{}, Struck(g)} : End(M)
    \/ /\ job[g].step = "spawning"
       /\ \E m \in Masters \ alive : alive' = alive \cup {m} /\ lost' = lost \cup {m}
       /\ UNCHANGED <<bound, sick, control>>

BreakOff(g) ==
    /\ IF job[g].step = "waiting"
       THEN /\ job' = [job EXCEPT ![g] = [step |-> "cleaning", by |-> @.by, next |-> "raise"]]
            /\ UNCHANGED <<child, masters, control>>
       ELSE /\ Abandon(g)
            /\ job' = [job EXCEPT ![g] = Idle]
            /\ child' = IF job[g].step \in {"owned", "cleaning"}
                        THEN [child EXCEPT ![g] = None] ELSE child
    /\ UNCHANGED <<Others, pc, known, socket, owner>>

CancelClients(g) == job[g].by = "client" /\ BreakOff(g)

(* A client may leave at any time; maintenance is cancelled by the shutdown. *)
Cancel(g) ==
    /\ \/ job[g].by = "client"
       \/ job[g].by = "maintenance" /\ pc[g] \in {"detaching", "closing"}
    /\ BreakOff(g)

-----------------------------------------------------------------------------
(* The world.                                                               *)

Kill(g) ==
    /\ pc[g] # "off"
    /\ Abandon(g)
    /\ Survivor(g)
    /\ Exit(g) /\ cleaned' = FALSE
    /\ UNCHANGED <<socket, owner>>

(* An authenticated master listens at the control path, if that is free.    *)
MasterComesUp(m) ==
    /\ m \in alive \ bound /\ control \notin bound
    /\ bound' = bound \cup {m} /\ control' = m
    /\ UNCHANGED <<process, transport, requests, socket, owner, alive, sick, lost,
                   survivor, cleaned>>

MasterDies(m) ==
    /\ m \in alive
    /\ End({m})
    /\ survivor' = IF survivor = m \/ control' # control THEN None ELSE survivor
    /\ UNCHANGED <<process, transport, requests, socket, owner, cleaned>>

MasterSickens(m) ==
    /\ m \in bound \ sick /\ m = control
    /\ sick' = sick \cup {m}
    /\ survivor' = IF survivor = m THEN None ELSE survivor
    /\ UNCHANGED <<process, transport, requests, files, alive, bound, lost, cleaned>>

-----------------------------------------------------------------------------
Main(g) ==
    \/ Knock(g) \/ ClearPath(g) \/ Bind(g)
    \/ BeginClose(g) \/ Gathered(g) \/ HaltMaintenance(g) \/ CloseMaster(g) \/ Unlink(g)

GatewayNext(g) ==
    \/ Start(g) \/ Main(g)
    \/ Accept(g) \/ BeginRequest(g) \/ EndRequest(g)
    \/ \E how \in {"keep", "end"} : RequestStop(g, how)
    \/ MaintenanceDies(g)
    \/ \E who \in {"client", "maintenance"} : Connect(g, who)
    \/ Job(g) \/ Cancel(g) \/ Kill(g)

(* Nobody starts two gateways at the same time; a second one may be tried   *)
(* while one serves.  A service manager waits for the end of the one before *)
(* it starts the next; a user who restarts a gateway may not.               *)
In(places) == {g \in Gateways : pc[g] \in places}
Starting == In({"knocking", "clearing", "binding"})
Ending == In({"gathering", "detaching", "closing", "detached", "closed"})
Apart ==
    /\ Cardinality(Starting) <= 1 /\ Cardinality(Ending) <= 1
    /\ Overlapping \/ Starting = {} \/ Ending = {}

Next ==
    \/ (\E g \in Gateways : GatewayNext(g)) /\ Apart'
    \/ \E m \in Masters : MasterComesUp(m) \/ MasterDies(m) \/ MasterSickens(m)

Spec == Init /\ [][Next]_vars

(* The event loop runs what can go on, control commands and waits have      *)
(* deadlines, and the shutdown cancels what it waits for.  Nothing is       *)
(* assumed of clients, masters, signals, or whoever starts gateways, and    *)
(* not that a cancelled request ends: its clean-up waits without a deadline *)
(* for the readers of its output (process.py:51-52, 91).                    *)
Fairness ==
    \A g \in Gateways :
        /\ WF_vars(Main(g))
        /\ WF_vars(Job(g))
        /\ WF_vars(pc[g] \in {"gathering", "detaching", "closing"} /\ Cancel(g))

FairSpec == Spec /\ Fairness

-----------------------------------------------------------------------------
(***************************************************************************)
(* Properties                                                              *)
(***************************************************************************)

Places == {"off", "knocking", "clearing", "binding", "serving", "gathering",
           "detaching", "closing", "detached", "closed"}
Jobs == [step : {"idle", "adopting", "exit", "owned", "recorded", "spawning", "waiting",
                 "cleaning"},
         by : {"none", "client", "maintenance", "close"},
         next : {"start", "return", "raise"}]

(* Every variable holds a value of its type.                                *)
TypeOK ==
    /\ pc \in [Gateways -> Places]
    /\ stop \in [Gateways -> {"no", "keep", "end"}]
    /\ maint \in [Gateways -> {"none", "running", "dead"}]
    /\ job \in [Gateways -> Jobs]
    /\ known \in [Gateways -> BOOLEAN] /\ child \in [Gateways -> Masters \cup {None}]
    /\ accepted \in [Gateways -> BOOLEAN] /\ running \in [Gateways -> BOOLEAN]
    /\ socket \in Gateways \cup {None}
    /\ control \in Masters \cup {None} /\ owner \in Masters \cup {None}
    /\ alive \in SUBSET Masters /\ bound \in SUBSET alive /\ sick \in SUBSET bound
    /\ lost \in SUBSET Masters /\ survivor \in Masters \cup {None}
    /\ cleaned \in BOOLEAN

(* Whatever a second gateway tries, and whatever a killed one left behind,  *)
(* the path leads to the gateway that serves (gateway.py:176-192).          *)
EndpointOwned == \A g \in Gateways : pc[g] = "serving" => socket = g

(* "A connection accepted just before close() may start its handler after   *)
(* the cancellations" (gateway.py:160-161): it never runs a request then.   *)
NoLateRequest ==
    \A g \in Gateways :
        pc[g] \in {"detaching", "closing", "detached", "closed"} => ~running[g]

(* "A restarted gateway adopts its still-healthy private ControlMaster      *)
(* instead of reconnecting" (README.md:172-173), also when its maintenance  *)
(* failed (README.md:271-273): the master that a gateway leaves connected,  *)
(* unless it is told to end it, stays alive and reachable until another     *)
(* gateway has adopted it, it fails by itself, or somebody wants it gone.   *)
SurvivorKept == survivor # None => survivor \in bound /\ control = survivor

(* Through crashes, failed starts and cancellations at any await, a living  *)
(* master is recorded in the owner file or held by a gateway, so that the   *)
(* next one can stop it (transport.py:251-264): but for one that a thread   *)
(* spawned for a job that was cancelled or killed meanwhile, or whose       *)
(* record could not be written, or not be verified in time.                 *)
MastersAccounted == alive \ lost \subseteq {owner} \cup {child[g] : g \in Gateways}

(* A gateway that was told to end, and has, leaves nothing behind           *)
(* (supervisor.py:148-154): no master it could know of, no record, no path. *)
StoppedClean ==
    cleaned /\ (\A g \in Gateways : pc[g] = "off")
        => alive \subseteq lost /\ owner = None /\ socket = None

(* All that the shutdown waits for is a request, cancelled long ago, that   *)
(* does no more with the connection.                                        *)
HeldUp(g) == pc[g] = "gathering" /\ running[g] /\ job[g].by # "client"

(* A request to stop ends the gateway, whatever it is doing to connect, to  *)
(* repair or to stop a master: "stopping must not wait for long transfers"  *)
(* (gateway.py:164).  Only a request that never ends can keep it, while     *)
(* gather waits for it (gateway.py:170): once that one has ended too,       *)
(* nothing is in the way any more.                                          *)
StopEnds == \A g \in Gateways : stop[g] # "no" ~> pc[g] = "off" \/ HeldUp(g)

(* "The LaunchAgents keep the local endpoints alive" (README.md:171): the   *)
(* only gateway there is, while it serves, can be reached.                  *)
EndpointKept ==
    \A g \in Gateways :
        pc[g] = "serving" /\ (\A h \in Gateways \ {g} : pc[h] = "off") => socket = g

=============================================================================
