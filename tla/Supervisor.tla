----------------------------- MODULE Supervisor -----------------------------
(***************************************************************************)
(* OpenSshSupervisor (supervisor.py): concurrent requests and the           *)
(* maintenance task share one ControlMaster, notice that it failed, and     *)
(* repair it under one lock.                                                *)
(*                                                                         *)
(* A task is a coroutine of the gateway's event loop.  An action is what a  *)
(* task does between two awaits that other tasks can observe.  The master,  *)
(* the network and the remote host are external: they fail at most          *)
(* MaxFaults times, at any moment.                                          *)
(*                                                                         *)
(* A definition that nothing uses and that stands right before one with the *)
(* same parameters is a mutant: that definition with a plausible bug in it, *)
(* which one of the properties must notice.                                 *)
(***************************************************************************)
EXTENDS Integers, Sequences, FiniteSets, SequencesExt

CONSTANTS
    Clients,            \* requests, one each
    Maintainer,         \* the task that runs _maintain
    Kinds,              \* what each client may ask for
    Slots,              \* operations the session budget admits at once
    ConnectionAttempts, \* settings.connection_attempts
    ProbeFailures,      \* settings.probe_failures
    MaxFaults           \* bound on what goes wrong outside the gateway

Operations == {"unsafe", "replayable", "transfer"}
Reconnects == {"reconnect", "force"}
Outcomes == {"ok", "slow", "failed"}
Requests == Operations \cup Reconnects \cup {"shell", "status"}

ASSUME TasksAssumption == IsFiniteSet(Clients) /\ Maintainer \notin Clients
ASSUME KindsAssumption == Kinds \in [Clients -> SUBSET Requests]
ASSUME NumbersAssumption ==
    /\ Slots \in Nat \ {0} /\ MaxFaults \in Nat
    /\ ConnectionAttempts \in Nat \ {0} /\ ProbeFailures \in Nat \ {0}

Tasks == Clients \cup {Maintainer}

VARIABLES
    \* The gateway
    task,           \* what each coroutine is doing, and its locals
    answer,         \* what each client was told
    lockq,          \* _repair_lock: the tasks in FIFO order, the holder first
    wake,           \* _wake
    state, generation, epoch,
    backoff,        \* whether _next_attempt lies in the future
    attempt,        \* master starts that failed in the repair under way
    failedProbes,   \* _probe_failures
    flights,        \* running probes: the epoch they are for, and (history)
                    \* the serial number of the master they were started on
    \* The world
    link,           \* the master: up, busy, broken (it answers, but its
                    \* sessions are dead) or down
    fate,           \* what became of each client's latest session
    faults,
    serial,         \* history: the masters that have come up
    blame           \* history: failed probes in a row of the one that is up

clientVars == <<task, answer, wake>>
connVars == <<state, generation, backoff, attempt>>
probeVars == <<failedProbes, flights, blame>>
vars == <<clientVars, lockq, epoch, connVars, probeVars, link, fate, faults, serial>>

(* A coroutine: the request it serves, the await it is suspended at, the    *)
(* call it wants the repair lock for, the generation it works with, the     *)
(* locals of _check (and the serial number of the master it probed), how    *)
(* often its command may have begun, and whether that is the replay.        *)
Fresh(kind, pc) ==
    [kind |-> kind, pc |-> pc, call |-> "none", gen |-> 0,
     epoch |-> 0, outcome |-> "none", seen |-> 0, runs |-> 0, replayed |-> FALSE]

(* The next turn of _maintain's loop, up to its first await.                *)
Maintain(s) ==
    Fresh("maintain", IF s = "authentication_required" THEN "parked" ELSE "asleep")

Init ==
    /\ task = [t \in Tasks |-> IF t = Maintainer THEN Maintain("offline")
                               ELSE Fresh("none", "idle")]
    /\ answer = [c \in Clients |-> "none"]
    /\ lockq = <<>> /\ wake = FALSE
    /\ state = "offline" /\ generation = 0 /\ epoch = 0
    /\ backoff = FALSE /\ attempt = 0
    /\ failedProbes = 0 /\ flights = {} /\ blame = 0
    /\ link \in {"up", "down"}      \* a master may have survived its gateway
    /\ serial = IF link = "up" THEN 1 ELSE 0
    /\ fate = [c \in Clients |-> "none"]
    /\ faults = 0

-----------------------------------------------------------------------------
At(t, pc) == task[t].pc = pc
Goto(t, pc) == task' = [task EXCEPT ![t].pc = pc] /\ UNCHANGED <<answer, wake>>

(* The repair lock is an asyncio.Lock: first come, first served.            *)
Holds(t) == At(t, "lock") /\ Head(lockq) = t
Release == lockq' = Tail(lockq)
WantLock(t, call) ==
    /\ lockq' = Append(lockq, t)
    /\ task' = [task EXCEPT ![t].pc = "lock", ![t].call = call]
    /\ UNCHANGED <<answer, wake>>

(* control_check: the master's socket answers, whatever its sessions do.    *)
Answers == link # "down"

(* A master ends with every session on it.                                  *)
Severed == [c \in Clients |-> IF fate[c] = "running" THEN "lost" ELSE fate[c]]

(* A client's task ends with its session; reconnect sets _wake however it   *)
(* ends.                                                                    *)
Finish(c, a) ==
    /\ task' = [task EXCEPT ![c] = Fresh("none", "done")]
    /\ answer' = [answer EXCEPT ![c] = a]
    /\ wake' = (wake \/ task[c].kind \in Reconnects)
CloseSessions(f) ==
    fate' = [c \in Clients |-> IF task'[c].pc = "done" THEN "none" ELSE f[c]]

(* The task is through, in a step that leaves the connection in state s.    *)
Return(t, a, s) ==
    IF t = Maintainer
    THEN task' = [task EXCEPT ![t] = Maintain(s)] /\ UNCHANGED <<answer, wake>>
    ELSE Finish(t, a)

(* _connect returns, or raises, in a step that leaves the connection in     *)
(* state s with generation g.                                               *)
ConnectReturns(t, s, g) ==
    IF task[t].kind \in {"maintain", "force"}
    THEN Return(t, "done", s)
    ELSE /\ task' = [task EXCEPT ![t].call = "none", ![t].gen = g,
                        ![t].pc = IF task[t].kind \in Operations THEN "launch" ELSE "check"]
         /\ UNCHANGED <<answer, wake>>

ConnectRaises(t, s) == Return(t, "unavailable", s)

(* What the caller of _check does when it returns v, or raises.             *)
LostIsUnavailable(t, v) ==
    CASE task[t].kind = "unsafe"     -> IF v = "healthy" THEN "result" ELSE "unavailable"
      [] task[t].kind = "replayable" -> IF v = "healthy" THEN "result" ELSE "replay"
      [] OTHER                       -> "done"
AfterCheck(t, v) ==
    CASE task[t].kind = "unsafe"     -> IF v = "healthy" THEN "result" ELSE "uncertain"
      [] task[t].kind = "replayable" -> IF v = "healthy" THEN "result"
                                        ELSE IF task[t].replayed THEN "unavailable"
                                        ELSE IF v = "raised" THEN "uncertain" ELSE "replay"
      [] task[t].kind = "transfer"   -> IF v = "raised" THEN "uncertain" ELSE "result"
      [] task[t].kind = "shell"      -> IF v = "raised" THEN "unavailable" ELSE "attached"
      [] task[t].kind = "reconnect"  -> IF v = "raised" THEN "unavailable" ELSE "done"
      [] OTHER                       -> "done"

ReplayWithoutEnd(t, v, s) ==
    IF AfterCheck(t, v) = "replay"
    THEN /\ task' = [task EXCEPT ![t] =
                        [Fresh("replayable", "queued") EXCEPT !.runs = task[t].runs]]
         /\ UNCHANGED <<answer, wake>>
    ELSE Return(t, AfterCheck(t, v), s)
CheckEnds(t, v, s) ==
    IF AfterCheck(t, v) = "replay"
    THEN /\ task' = [task EXCEPT ![t] = [Fresh("replayable", "queued")
                        EXCEPT !.runs = task[t].runs, !.replayed = TRUE]]
         /\ UNCHANGED <<answer, wake>>
    ELSE Return(t, AfterCheck(t, v), s)

KeepProbeCount ==
    /\ state' = "connected" /\ generation' = generation + 1
    /\ backoff' = FALSE /\ attempt' = 0
    /\ UNCHANGED failedProbes
RecordConnected ==
    /\ state' = "connected" /\ generation' = generation + 1
    /\ backoff' = FALSE /\ attempt' = 0
    /\ failedProbes' = 0

RecordFailure(s) ==
    /\ state' = s
    /\ backoff' = TRUE /\ attempt' = 0
    /\ UNCHANGED generation

-----------------------------------------------------------------------------
(* Requests arrive, wait for a slot, and open a session.                    *)

Arrive(c, k) ==
    /\ At(c, "idle")
    /\ \/ /\ k \in Operations \cup {"shell", "reconnect"}
          /\ task' = [task EXCEPT ![c] =
                         Fresh(k, IF k \in Operations THEN "queued" ELSE "ensure")]
          /\ UNCHANGED <<answer, lockq>>
       \/ /\ k = "force"
          /\ task' = [task EXCEPT ![c] = [Fresh(k, "lock") EXCEPT !.call = "force"]]
          /\ lockq' = Append(lockq, c)
          /\ UNCHANGED answer
       \/ /\ k = "status" /\ state = "connected"
          /\ task' = [task EXCEPT ![c] = [Fresh(k, "check") EXCEPT !.gen = generation]]
          /\ UNCHANGED <<answer, lockq>>
    /\ backoff' = (backoff /\ k \notin Reconnects)
    /\ UNCHANGED <<wake, epoch, state, generation, attempt, probeVars,
                   link, fate, faults, serial>>

HoldsSlot(c) ==
    /\ task[c].kind \in Operations
    /\ task[c].pc \in {"ensure", "launch", "session"} \/ task[c].call = "connect"

Admit(c) ==
    /\ At(c, "queued")
    /\ Cardinality({d \in Clients : HoldsSlot(d)}) < Slots
    /\ Goto(c, "ensure")
    /\ UNCHANGED <<lockq, epoch, connVars, probeVars, link, fate, faults, serial>>

(* _ensure_connected: a connected master that answers is used as it is.     *)
Ensure(t) ==
    /\ At(t, "ensure")
    /\ \/ /\ state = "connected" /\ Answers
          /\ ConnectReturns(t, state, generation)
          /\ UNCHANGED lockq
       \/ /\ ~(state = "connected" /\ Answers)
          /\ WantLock(t, "connect")
    /\ UNCHANGED <<epoch, connVars, probeVars, link, fate, faults, serial>>

(* The mux client opens a channel on whatever master answers now.  The      *)
(* server may refuse it, and without a master ssh fails by itself.          *)
Launch(c) ==
    /\ At(c, "launch")
    /\ \/ /\ link \in {"up", "busy"}
          /\ fate' = [fate EXCEPT ![c] = "running"]
          /\ task' = [task EXCEPT ![c].pc = "session", ![c].runs = @ + 1]
       \/ /\ link # "up"
          /\ fate' = [fate EXCEPT ![c] = "refused"]
          /\ task' = [task EXCEPT ![c].pc = "session"]
    /\ UNCHANGED <<answer, wake, lockq, epoch, connVars, probeVars, link, faults, serial>>

(* The ssh client itself cannot be started.                                 *)
LaunchFails(c) ==
    /\ At(c, "launch") /\ faults < MaxFaults
    /\ faults' = faults + 1
    /\ Finish(c, "unavailable") /\ CloseSessions(fate)
    /\ UNCHANGED <<lockq, epoch, connVars, probeVars, link, serial>>

(* The remote command ends, with an exit code of its own.                   *)
CommandExits(c) ==
    /\ fate[c] = "running" /\ link \in {"up", "busy"}
    /\ fate' = [fate EXCEPT ![c] = "exited"]
    /\ UNCHANGED <<clientVars, lockq, epoch, connVars, probeVars, link, faults, serial>>

(* The slot is released and the result looked at.  255 is the exit code of  *)
(* ssh when a session is lost or refused; a command may end with it too.    *)
Report(c) ==
    /\ At(c, "session")
    /\ \/ /\ fate[c] = "exited"
          /\ Finish(c, "result") /\ CloseSessions(fate)
       \/ /\ fate[c] \in {"exited", "lost", "refused"}
          /\ Goto(c, "check") /\ UNCHANGED fate
    /\ UNCHANGED <<lockq, epoch, connVars, probeVars, link, faults, serial>>

(* The deadline covers the wait for a slot and the session; it is looked at *)
(* once more before the session opens.  The step is the end of a session's  *)
(* clean-up, which comes some time after its deadline, or never.            *)
Timeout(c) ==
    /\ task[c].pc \in {"queued", "launch", "session"}
    /\ Finish(c, "timeout") /\ CloseSessions(fate)
    /\ UNCHANGED <<lockq, epoch, connVars, probeVars, link, faults, serial>>

-----------------------------------------------------------------------------
(* _connect, from the moment the repair lock is held.                       *)

Connecting(t, call) == Holds(t) /\ task[t].call = call

AlreadyConnected(t) ==
    /\ Connecting(t, "connect")
    /\ state = "connected" /\ Answers
    /\ ConnectReturns(t, state, generation)
    /\ Release
    /\ UNCHANGED <<epoch, connVars, probeVars, link, fate, faults, serial>>

(* An attempt that failed a moment ago is not repeated, save by reconnect.  *)
BacksOff(t) == backoff /\ task[t].kind # "reconnect"

RefuseToConnect(t) ==
    /\ Connecting(t, "connect") /\ BacksOff(t)
    /\ ~(state = "connected" /\ Answers)
    /\ ConnectRaises(t, state) /\ CloseSessions(fate)
    /\ Release
    /\ UNCHANGED <<epoch, connVars, probeVars, link, faults, serial>>

(* Before the first generation, a master that a former gateway left behind  *)
(* is adopted if it opens a session.                                        *)
TryToAdopt(t) ==
    /\ Connecting(t, "connect") /\ ~BacksOff(t)
    /\ generation = 0
    /\ epoch' = epoch + 1
    /\ Goto(t, "adopting")
    /\ UNCHANGED <<lockq, connVars, probeVars, link, fate, faults, serial>>

Adopt(t) ==
    /\ At(t, "adopting") /\ link = "up"
    /\ RecordConnected
    /\ ConnectReturns(t, "connected", generation + 1)
    /\ Release
    /\ UNCHANGED <<epoch, flights, blame, link, fate, faults, serial>>

(* _replace_master: from here the old master is given up.                   *)
BeginReplacement(t) ==
    /\ epoch' = epoch + 1
    /\ state' = "reconnecting"
    /\ Goto(t, "stopping")
    /\ UNCHANGED <<lockq, generation, backoff, attempt, probeVars, link, fate, faults, serial>>

Reconnect(t) ==
    /\ \/ Connecting(t, "force")
       \/ /\ Connecting(t, "connect") /\ ~BacksOff(t)
          /\ generation # 0 /\ ~(state = "connected" /\ Answers)
       \/ At(t, "adopting") /\ link # "up"
    /\ BeginReplacement(t)

Stop(t) ==
    /\ At(t, "stopping")
    /\ Goto(t, "starting")
    /\ link' = "down" /\ fate' = Severed
    /\ UNCHANGED <<lockq, epoch, connVars, probeVars, faults, serial>>

(* The new master has authenticated and its socket answers, but nobody has  *)
(* opened a session on it yet.                                              *)
ComeUp(t) ==
    /\ At(t, "starting")
    /\ Goto(t, "settling")
    /\ link' = "up" /\ serial' = serial + 1 /\ blame' = 0
    /\ UNCHANGED <<lockq, epoch, connVars, failedProbes, flights, fate, faults>>

Settle(t) ==
    /\ At(t, "settling") /\ link = "up"
    /\ RecordConnected
    /\ IF task[t].call = "check"
       THEN CheckEnds(t, "replaced", "connected")
       ELSE ConnectReturns(t, "connected", generation + 1)
    /\ CloseSessions(fate)
    /\ Release
    /\ UNCHANGED <<epoch, flights, blame, link, faults, serial>>

OneAttemptTooMany(failed) == failed + 1 <= ConnectionAttempts
AttemptsLeft(failed) == failed + 1 < ConnectionAttempts

(* start_master raises, and the master is stopped again.  Only a failure to *)
(* authenticate forbids the attempts that are left.                         *)
AttemptFails(t, reason) ==
    /\ link' = "down"
    /\ \/ /\ reason = "offline" /\ AttemptsLeft(attempt)
          /\ attempt' = attempt + 1
          /\ Goto(t, "starting") /\ fate' = Severed
          /\ UNCHANGED <<lockq, state, generation, backoff>>
       \/ /\ reason = "authentication_required" \/ ~AttemptsLeft(attempt)
          /\ RecordFailure(reason)
          /\ IF task[t].call = "check"
             THEN CheckEnds(t, "raised", reason)
             ELSE ConnectRaises(t, reason)
          /\ CloseSessions(Severed)
          /\ Release
    /\ UNCHANGED <<epoch, probeVars, serial>>

(* The master does not start, or its first probe finds the reserved slot    *)
(* taken.                                                                   *)
StartFails(t, reason) ==
    /\ task[t].pc \in {"starting", "settling"} /\ faults < MaxFaults
    /\ faults' = faults + 1
    /\ AttemptFails(t, reason)

SettlingFails(t) ==
    /\ At(t, "settling") /\ link # "up"
    /\ AttemptFails(t, "offline")
    /\ UNCHANGED faults

-----------------------------------------------------------------------------
(* _check, up to the probe.                                                 *)

(* Another task has replaced the master since this one used it.             *)
SeeReplaced(t) ==
    /\ At(t, "check")
    /\ task[t].gen # generation /\ state = "connected"
    /\ CheckEnds(t, "replaced", state) /\ CloseSessions(fate)
    /\ UNCHANGED <<lockq, epoch, connVars, probeVars, link, faults, serial>>

(* A connected master is probed; concurrent checks share one probe.         *)
Probe(t) ==
    /\ At(t, "check")
    /\ task[t].gen = generation /\ state = "connected"
    /\ flights' = IF \E f \in flights : f.epoch = epoch THEN flights
                  ELSE flights \cup {[epoch |-> epoch, on |-> serial]}
    /\ task' = [task EXCEPT ![t].pc = "probing", ![t].epoch = epoch, ![t].seen = serial]
    /\ UNCHANGED <<answer, wake, lockq, epoch, connVars, failedProbes, blame,
                   link, fate, faults, serial>>

SkipProbe(t) ==
    /\ At(t, "check") /\ state # "connected"
    /\ task' = [task EXCEPT ![t].pc = "lock", ![t].call = "check",
                            ![t].epoch = epoch, ![t].outcome = "failed"]
    /\ lockq' = Append(lockq, t)
    /\ UNCHANGED <<answer, wake, epoch, connVars, probeVars, link, fate, faults, serial>>

(* What a probe may find.  "slow" stands for slow and busy, which the       *)
(* supervisor treats alike.  A probe that has outlived its master may find  *)
(* anything.                                                                *)
Findings(f) ==
    IF f.on # serial THEN Outcomes
    ELSE CASE link = "up"     -> {"ok"}
           [] link = "busy"   -> {"ok", "slow"}
           [] link = "broken" -> {"slow", "failed"}
           [] link = "down"   -> {"failed"}

(* The reserved slot is still taken by a probe of an earlier master.        *)
CrowdedOut(f) == flights # {f} /\ faults < MaxFaults

(* _run_probe.  Everyone who awaits this probe is told of the outcome.      *)
ProbeEnds(f, outcome) ==
    /\ \/ outcome \in Findings(f) /\ UNCHANGED faults
       \/ outcome = "slow" /\ CrowdedOut(f) /\ faults' = faults + 1
    /\ flights' = flights \ {f}
    /\ failedProbes' = IF f.epoch # epoch THEN failedProbes
                       ELSE IF outcome = "ok" THEN 0 ELSE failedProbes + 1
    /\ blame' = IF f.on # serial THEN blame ELSE IF outcome = "ok" THEN 0 ELSE blame + 1
    /\ task' = [t \in Tasks |->
                  IF At(t, "probing") /\ task[t].epoch = f.epoch
                  THEN [task[t] EXCEPT !.pc = "probed", !.outcome = outcome]
                  ELSE task[t]]
    /\ UNCHANGED <<answer, wake, lockq, epoch, connVars, link, fate, serial>>

(* A success counts only if no repair has begun since.                      *)
TrustAnySuccess(t) == task[t].outcome = "ok"
Trusted(t) == task[t].outcome = "ok" /\ task[t].epoch = epoch

SeeHealthy(t) ==
    /\ At(t, "probed") /\ Trusted(t)
    /\ CheckEnds(t, "healthy", state) /\ CloseSessions(fate)
    /\ UNCHANGED <<lockq, epoch, connVars, probeVars, link, faults, serial>>

AskForRepair(t) ==
    /\ At(t, "probed") /\ ~Trusted(t)
    /\ WantLock(t, "check")
    /\ UNCHANGED <<epoch, connVars, probeVars, link, fate, faults, serial>>

-----------------------------------------------------------------------------
(* _check, from the moment the repair lock is held.                         *)

Deciding(t) == Holds(t) /\ task[t].call = "check"
IgnoreRepairs(t) == FALSE
RepairBegun(t) == task[t].epoch # epoch
ImpatientByOne(t) ==
    /\ task[t].outcome = "slow"
    /\ failedProbes + 1 < ProbeFailures
    /\ Answers
Tolerable(t) ==
    /\ task[t].outcome = "slow"
    /\ failedProbes < ProbeFailures
    /\ Answers

AcceptFailedRepair(t) ==
    /\ Deciding(t) /\ RepairBegun(t)
    /\ CheckEnds(t, "replaced", state)
    /\ CloseSessions(fate) /\ Release
    /\ UNCHANGED <<epoch, connVars, probeVars, link, faults, serial>>

AcceptWithoutRelease(t) ==
    /\ Deciding(t) /\ RepairBegun(t)
    /\ CheckEnds(t, IF state = "connected" THEN "replaced" ELSE "raised", state)
    /\ CloseSessions(fate)
    /\ UNCHANGED <<lockq, epoch, connVars, probeVars, link, faults, serial>>

(* Another task has repaired the master, or tried to.                       *)
AcceptRepair(t) ==
    /\ Deciding(t) /\ RepairBegun(t)
    /\ CheckEnds(t, IF state = "connected" THEN "replaced" ELSE "raised", state)
    /\ CloseSessions(fate) /\ Release
    /\ UNCHANGED <<epoch, connVars, probeVars, link, faults, serial>>

Tolerate(t) ==
    /\ Deciding(t) /\ ~RepairBegun(t) /\ Tolerable(t)
    /\ CheckEnds(t, "degraded", state)
    /\ CloseSessions(fate) /\ Release
    /\ UNCHANGED <<epoch, connVars, probeVars, link, faults, serial>>

LeaveToBackoff(t) ==
    /\ Deciding(t) /\ ~RepairBegun(t) /\ ~Tolerable(t)
    /\ state # "connected" /\ backoff
    /\ CheckEnds(t, "raised", state)
    /\ CloseSessions(fate) /\ Release
    /\ UNCHANGED <<epoch, connVars, probeVars, link, faults, serial>>

RepairAtOnce(t) ==
    /\ Deciding(t) /\ ~RepairBegun(t) /\ ~Tolerable(t)
    /\ BeginReplacement(t)

Repair(t) ==
    /\ Deciding(t) /\ ~RepairBegun(t) /\ ~Tolerable(t)
    /\ state = "connected" \/ ~backoff
    /\ BeginReplacement(t)

-----------------------------------------------------------------------------
(* _maintain.                                                               *)

(* A wait that _wake ends: the loop starts over with the state of now.      *)
WakeUp ==
    /\ task[Maintainer].pc \in {"parked", "asleep"} /\ wake
    /\ wake' = FALSE
    /\ task' = [task EXCEPT ![Maintainer] = Maintain(state)]
    /\ UNCHANGED <<answer, lockq, epoch, connVars, probeVars, link, fate, faults, serial>>

TimerOnlyProbes ==
    /\ At(Maintainer, "asleep") /\ ~wake
    /\ state = "connected"
    /\ task' = [task EXCEPT ![Maintainer].pc = "check", ![Maintainer].gen = generation]
    /\ UNCHANGED <<answer, wake, lockq, epoch, connVars, probeVars, link, fate, faults, serial>>

(* The delay it planned with is over.                                       *)
TimerFires ==
    /\ At(Maintainer, "asleep") /\ ~wake
    /\ \/ /\ state = "connected"
          /\ task' = [task EXCEPT ![Maintainer].pc = "check", ![Maintainer].gen = generation]
          /\ UNCHANGED <<answer, wake, lockq>>
       \/ /\ state # "connected"
          /\ WantLock(Maintainer, "connect")
    /\ UNCHANGED <<epoch, connVars, probeVars, link, fate, faults, serial>>

-----------------------------------------------------------------------------
(* A client goes away, and the gateway cancels its task at whatever await   *)
(* it is.  start_master stops the master it was starting; nothing else is   *)
(* undone.                                                                  *)
Cancel(c) ==
    /\ task[c].pc \notin {"idle", "done"}
    /\ Finish(c, "cancelled")
    /\ \/ \E i \in DOMAIN lockq : lockq[i] = c /\ lockq' = RemoveAt(lockq, i)
       \/ (\A i \in DOMAIN lockq : lockq[i] # c) /\ UNCHANGED lockq
    /\ attempt' = IF task[c].pc \in {"starting", "settling"} THEN 0 ELSE attempt
    /\ IF At(c, "settling")
       THEN link' = "down" /\ CloseSessions(Severed)
       ELSE CloseSessions(fate) /\ UNCHANGED link
    /\ UNCHANGED <<epoch, state, generation, backoff, probeVars, faults, serial>>

-----------------------------------------------------------------------------
(* The world.                                                               *)

(* No backoff is so short that it ends while a task that may run has not.   *)
BackoffEnds ==
    /\ backoff
    /\ \A t \in Tasks : ~Holds(t) /\ task[t].pc \notin {"check", "probed"}
    /\ backoff' = FALSE
    /\ UNCHANGED <<clientVars, lockq, epoch, state, generation, attempt, probeVars,
                   link, fate, faults, serial>>

(* The master dies, or its keepalives find that the network is gone.        *)
MasterDies ==
    /\ link # "down"
    /\ \/ link = "broken" /\ UNCHANGED faults
       \/ link # "broken" /\ faults < MaxFaults /\ faults' = faults + 1
    /\ link' = "down" /\ fate' = Severed
    /\ UNCHANGED <<clientVars, lockq, epoch, connVars, probeVars, serial>>

Degrade(l) ==
    /\ link = "up" /\ faults < MaxFaults
    /\ link' = l /\ faults' = faults + 1
    /\ UNCHANGED <<clientVars, lockq, epoch, connVars, probeVars, fate, serial>>

HostCalms ==
    /\ link = "busy" /\ link' = "up"
    /\ UNCHANGED <<clientVars, lockq, epoch, connVars, probeVars, fate, faults, serial>>

-----------------------------------------------------------------------------
Reasons == {"offline", "authentication_required"}

(* What a task does by itself once it may run.                              *)
Advance(t) ==
    \/ Ensure(t)
    \/ AlreadyConnected(t) \/ RefuseToConnect(t) \/ TryToAdopt(t) \/ Adopt(t) \/ Reconnect(t)
    \/ Stop(t) \/ ComeUp(t) \/ Settle(t) \/ SettlingFails(t)
    \/ SeeReplaced(t) \/ Probe(t) \/ SkipProbe(t) \/ SeeHealthy(t) \/ AskForRepair(t)
    \/ AcceptRepair(t) \/ Tolerate(t) \/ LeaveToBackoff(t) \/ Repair(t)

Next ==
    \/ \E c \in Clients :
          \/ \E k \in Kinds[c] : Arrive(c, k)
          \/ Admit(c) \/ Launch(c) \/ LaunchFails(c) \/ CommandExits(c) \/ Report(c)
          \/ Timeout(c) \/ Cancel(c)
    \/ \E t \in Tasks : Advance(t) \/ \E r \in Reasons : StartFails(t, r)
    \/ \E f \in flights, o \in Outcomes : ProbeEnds(f, o)
    \/ WakeUp \/ TimerFires
    \/ BackoffEnds \/ MasterDies \/ HostCalms
    \/ \E l \in {"busy", "broken"} : Degrade(l)

Spec == Init /\ [][Next]_vars

(* The probe that t waits for ends.                                         *)
ProbeAnswers(t) ==
    /\ At(t, "probing")
    /\ \E f \in flights, o \in Outcomes : f.epoch = task[t].epoch /\ ProbeEnds(f, o)

(* The event loop runs every task that can go on, every probe and every     *)
(* wait for a slot has a deadline, timers fire, and time passes however     *)
(* often they do.  Nothing is assumed of the remote host, of commands, of   *)
(* clients, or of a session once it runs: what follows its end or its       *)
(* deadline waits without one for the readers of its output                 *)
(* (process.py:51-52, 91), and until then it keeps its slot.                *)
GiveUpSlot(c) == At(c, "queued") /\ Timeout(c)
Proceed(c) == Admit(c) \/ GiveUpSlot(c) \/ Launch(c) \/ ProbeAnswers(c) \/ Advance(c)
KeepMaintaining ==
    WakeUp \/ TimerFires \/ ProbeAnswers(Maintainer) \/ Advance(Maintainer)

Fairness ==
    /\ \A c \in Clients : WF_vars(Proceed(c))
    /\ WF_vars(KeepMaintaining)
    /\ SF_vars(BackoffEnds)

FairSpec == Spec /\ Fairness

-----------------------------------------------------------------------------
(***************************************************************************)
(* Properties                                                              *)
(***************************************************************************)

Links == {"up", "busy", "broken", "down"}
States == {"offline", "reconnecting", "connected", "authentication_required"}
RepairSteps == {"adopting", "stopping", "starting", "settling"}
ClientSteps == {"idle", "queued", "ensure", "launch", "session", "check", "probing",
                "probed", "lock", "done"} \cup RepairSteps
MaintenanceSteps == {"asleep", "parked", "check", "probing", "probed", "lock"} \cup RepairSteps

Contract ==
    INSTANCE ExecutionContract WITH
        kind <- [c \in Clients |-> task[c].kind],
        runs <- [c \in Clients |-> task[c].runs]

(* Every variable holds a value of its type.                                *)
TypeOK ==
    /\ task \in [Tasks ->
          [kind : Requests \cup {"none", "maintain"}, pc : ClientSteps \cup MaintenanceSteps,
           call : {"none", "connect", "force", "check"}, gen : Nat, epoch : Nat,
           outcome : Outcomes \cup {"none"}, seen : Nat, runs : Nat, replayed : BOOLEAN]]
    /\ answer \in [Clients -> Contract!Answers \cup {"none"}]
    /\ lockq \in Seq(Tasks) /\ wake \in BOOLEAN
    /\ state \in States /\ generation \in Nat /\ epoch \in Nat
    /\ backoff \in BOOLEAN /\ attempt \in 0..(ConnectionAttempts - 1)
    /\ failedProbes \in Nat /\ flights \subseteq [epoch : Nat, on : Nat]
    /\ link \in Links /\ faults \in 0..MaxFaults
    /\ fate \in [Clients -> {"none", "refused", "running", "exited", "lost"}]
    /\ serial \in Nat /\ blame \in Nat

(* The execution contract is kept (supervisor.py:163-191, 409-418, 490-496). *)
ContractKept == Contract!Spec

(* A client that is given an attachment, or told that its reconnect is      *)
(* done, is told so in a step that leaves the connection established, also  *)
(* when another task's repair succeeded or failed under its check           *)
(* (supervisor.py:193-215, 450-453).                                        *)
GoodNewsIsTrue ==
    [][\A c \in Clients :
          /\ answer[c] = "none"
          /\ \/ answer'[c] = "attached"
             \/ answer'[c] = "done" /\ task[c].kind \in Reconnects
          => state' = "connected"]_vars

(* The verdict "healthy" is about the master that is up, not about one that *)
(* was replaced while its probe was on its way (supervisor.py:445-448).     *)
HealthyIsCurrent ==
    [][\A t \in Tasks :
          /\ At(t, "probed") /\ task'[t].pc \notin {"probed", "lock"}
          /\ t \in Clients => answer'[t] # "cancelled"
          => task[t].seen = serial /\ state = "connected"]_vars

GivesUp(t) == task[t].pc = "lock" /\ task'[t].pc = "stopping"

(* While connected, the count of failed probes is that of the master in     *)
(* use: probes of its predecessors neither blame nor clear it               *)
(* (supervisor.py:479-487, 498-506).                                        *)
ProbeCountExact == state = "connected" => failedProbes = blame

(* A master that answers, and whose sessions are merely slow, is given up   *)
(* only after that many failed probes of it in a row                        *)
(* (supervisor.py:426-434, 454-459).                                        *)
SlowMasterKept ==
    [][\A t \in Tasks :
          GivesUp(t) /\ task[t].call = "check" /\ task[t].outcome = "slow" /\ Answers
          => blame >= ProbeFailures]_vars

(* A check that probed one master never gives up the next one: what it saw  *)
(* was repaired while it waited for the lock (supervisor.py:450-453).       *)
SuccessorSpared ==
    [][\A t \in Tasks :
          GivesUp(t) /\ task[t].call = "check" /\ task[t].seen # 0
          => task[t].seen = serial]_vars

(* After a failed repair nobody tries again before the backoff ends, except *)
(* the user: neither the callers that saw the same failure nor the ones     *)
(* that come to it later (supervisor.py:377-378, 438-440, 460-461).         *)
BackoffRespected ==
    [][\A t \in Tasks :
          /\ task[t].pc = "lock" /\ task'[t].pc \in {"adopting", "stopping"}
          /\ state # "connected" /\ backoff
          => task[t].kind \in Reconnects]_vars

(* In the end every request is answered or stays in its own session,        *)
(* whoever is cancelled, times out, fails or never ends while it waits for  *)
(* the slots, the lock or a shared probe (supervisor.py:79-96, 100-107,     *)
(* 441-463); a session that ends leads to its answer, or to that of one     *)
(* replay.                                                                  *)
EveryRequestAnswered ==
    <>[](\A c \in Clients : task[c].pc \in {"idle", "session", "done"})

(* Once nothing fails any more, maintenance alone brings the connection     *)
(* back for good, unless it waits for a reauthorisation                     *)
(* (supervisor.py:318-343).                                                 *)
ConnectionRecovers ==
    \/ <>[](state = "connected" /\ link \in {"up", "busy"})
    \/ []<>At(Maintainer, "parked")

-----------------------------------------------------------------------------
(***************************************************************************)
(* What the documentation says, and the code does not do                    *)
(***************************************************************************)

(* "When several callers see the same failure, the first repairs and the    *)
(* rest accept its result" (supervisor.py:438-439): a check gives up a      *)
(* connected master only if it saw that master fail.                        *)
FirstRepairAccepted ==
    [][\A t \in Tasks :
          GivesUp(t) /\ task[t].call = "check" /\ state = "connected"
          => task[t].seen = serial]_vars

=============================================================================
