----------------------- MODULE SupervisorContractProofs -----------------------
(***************************************************************************)
(* The connection supervisor keeps the execution contract: under the        *)
(* refinement mapping of Supervisor (a client's kind and runs are those of  *)
(* its coroutine) every step is a step of ExecutionContract, or a stutter.  *)
(***************************************************************************)
EXTENDS SupervisorProofs

-----------------------------------------------------------------------------
(* What is known of a client: whether its command may have begun, and       *)
(* whether the master that the session was lost with can still answer.      *)

(* The command has not begun, or not begun again.                           *)
Before(c) == task[c].pc \in {"queued", "ensure", "launch"} \/ task[c].call = "connect"
Replays(c) == IF task[c].kind = "replayable" /\ task[c].replayed THEN 1 ELSE 0

KindOK(c) ==
    /\ task[c].kind # "maintain"
    /\ task[c].kind = "none" <=> task[c].pc \in {"idle", "done"}
    /\ task[c].pc # "done" => answer[c] = "none"
    /\ fate[c] = "running" => task[c].pc = "session"
    /\ task[c].kind \notin Operations =>
          task[c].runs = 0 /\ fate[c] = "none" /\ task[c].pc \notin {"queued", "launch", "session"}
    /\ task[c].kind \in Operations =>
          IF Before(c) THEN task[c].runs <= Replays(c)
          ELSE task[c].runs <= 1 + Replays(c) /\ fate[c] # "none"

(* A session is lost with its master.  While the generation is still that   *)
(* of the session, that master is the one in use, and it is down; so no     *)
(* probe of the same epoch succeeds.                                        *)
LossOK(c) ==
    /\ task[c].gen <= generation
    /\ /\ task[c].pc \in {"session", "check"} /\ fate[c] = "lost"
       /\ state = "connected" /\ task[c].gen = generation
       => link = "down"
    /\ task[c].pc = "probing" /\ task[c].epoch = epoch /\ fate[c] = "lost" => link = "down"
    /\ task[c].pc = "probed" /\ task[c].epoch = epoch /\ task[c].outcome = "ok"
       => fate[c] # "lost"

ClientInv == \A c \in Clients : KindOK(c) /\ LossOK(c)

(* How the connection may change in one step.                               *)
World ==
    /\ generation' \in {generation, generation + 1}
    /\ epoch' \in {epoch, epoch + 1}
    /\ state' = "connected" =>
          generation' = generation + 1 \/ (state = "connected" /\ generation' = generation)
    /\ link' # "down" => link # "down" \/ state # "connected"

(* A session stays what it is, or is lost with the master.                  *)
FateStep(c) ==
    fate'[c] = fate[c] \/ (fate[c] = "running" /\ fate'[c] = "lost" /\ link' = "down")

LEMMA WorldSteps ==
    ASSUME Inv, [Next]_vars
    PROVE  World
<1>1. CASE Quiet
  BY <1>1 DEF Quiet, World
<1>2. ASSUME NEW t \in Tasks, Loud(t) PROVE World
  <2>1. CASE TryToAdopt(t) \/ Reconnect(t) \/ Repair(t)
    <3>1. TryToAdopt(t) => state # "connected"
      BY DEF TryToAdopt, Inv, EpochInv, RepairInv
    <3> QED BY <2>1, <3>1 DEF TryToAdopt, Reconnect, Repair, BeginReplacement, World, connVars
  <2>2. CASE ComeUp(t)
    <3>1. state = "reconnecting"
      BY <2>2 DEF ComeUp, At, Inv, EpochInv, RepairInv
    <3> QED BY <2>2, <3>1 DEF ComeUp, World, connVars
  <2>3. CASE Adopt(t) \/ Settle(t)
    BY <2>3 DEF Adopt, Settle, RecordConnected, World
  <2>4. CASE \E r \in Reasons : GivesIn(t, r)
    BY <2>4 DEF GivesIn, RecordFailure, World, Reasons
  <2>5. CASE Probe(t)
    BY <2>5 DEF Probe, World, connVars
  <2> QED BY <1>2, <2>1, <2>2, <2>3, <2>4, <2>5 DEF Loud
<1>3. ASSUME NEW f \in flights, NEW o \in Outcomes, ProbeEnds(f, o) PROVE World
  BY <1>3 DEF ProbeEnds, World, connVars
<1> QED BY <1>1, <1>2, <1>3, StepCases

(* A client that has no part in the step.                                   *)
LEMMA Bystander ==
    ASSUME Inv, ClientInv, World, NEW c \in Clients, task'[c] = task[c],
           answer'[c] = answer[c], FateStep(c)
    PROVE  KindOK(c)' /\ LossOK(c)'
<1>0. KindOK(c) /\ LossOK(c) /\ c \in Tasks
  BY DEF ClientInv, Tasks
<1>1. KindOK(c)'
  BY <1>0 DEF KindOK, FateStep, Before, Replays, Operations
<1>2. /\ generation \in Nat /\ epoch \in Nat /\ task[c].gen \in Nat /\ task[c].epoch \in Nat
  BY <1>0 DEF Inv, Base, TaskType, ConnType, Task
<1>3. task'[c].gen <= generation'
  BY <1>0, <1>2 DEF LossOK, World
<1>4. ASSUME task[c].pc \in {"session", "check"}, fate'[c] = "lost", state' = "connected",
             task[c].gen = generation'
      PROVE  link' = "down"
  <2>1. generation' = generation /\ state = "connected"
    BY <1>0, <1>2, <1>4 DEF LossOK, World
  <2> QED BY <1>0, <1>4, <2>1 DEF LossOK, World, FateStep
<1>5. ASSUME task[c].pc \in {"probing", "probed"}, task[c].epoch = epoch'
      PROVE  epoch' = epoch /\ state = "connected"
  <2>1. task[c].seen # 0
    BY <1>0, <1>5 DEF Inv, Base, Coherent
  <2>2. task[c].epoch <= epoch /\ (state # "connected" => task[c].epoch < epoch)
    BY <1>0, <2>1 DEF Inv, EpochInv, Timely
  <2> QED BY <1>2, <1>5, <2>2 DEF World
<1>6. task[c].pc = "probing" /\ task[c].epoch = epoch' /\ fate'[c] = "lost" => link' = "down"
  BY <1>0, <1>5 DEF LossOK, World, FateStep
<1>7. task[c].pc = "probed" /\ task[c].epoch = epoch' /\ task[c].outcome = "ok"
         => fate'[c] # "lost"
  BY <1>0, <1>5 DEF LossOK, KindOK, FateStep
<1> QED BY <1>1, <1>3, <1>4, <1>6, <1>7 DEF LossOK

-----------------------------------------------------------------------------
(* Two kinds of steps, and what they are to the contract.                   *)

(* One coroutine goes on, and nobody is told anything.                      *)
Silent(t) ==
    /\ Only(t) /\ UNCHANGED answer
    /\ \A c \in Clients : FateStep(c)
    /\ t \in Clients => /\ task'[t].kind = task[t].kind /\ task'[t].runs = task[t].runs
                        /\ KindOK(t)' /\ LossOK(t)'

(* A client is told a, and its session closed.                              *)
Told(t, a) ==
    /\ Only(t) /\ t \in Clients /\ a \in Verdicts
    /\ task'[t] = Fresh("none", "done")
    /\ answer' = [answer EXCEPT ![t] = a]
    /\ fate'[t] = "none" /\ \A c \in Clients \ {t} : FateStep(c)
    /\ task[t].kind # "none"
    /\ Contract!Honest(t, a)

Promised == [Contract!Next]_(Contract!vars)

LEMMA NobodyIsTold ==
    ASSUME Inv, TaskType', UNCHANGED answer, \A c \in Clients : FateStep(c),
           \A c \in Clients : task'[c].kind = task[c].kind /\ task'[c].runs = task[c].runs
    PROVE  Promised
<1> DEFINE lost == {c \in Clients : fate'[c] # fate[c]}
<1>1. fate \in [Clients -> Fates] /\ fate' \in [Clients -> Fates]
  BY DEF Inv, Base, TaskType
<1>2. fate' = [c \in Clients |-> IF c \in lost THEN "lost" ELSE fate[c]]
  BY <1>1 DEF FateStep
<1>3. \A c \in lost : fate[c] = "running"
  BY DEF FateStep
<1>4. lost \in SUBSET Clients
  OBVIOUS
<1> HIDE DEF lost
<1>5. /\ [c \in Clients |-> task[c].kind]' = [c \in Clients |-> task[c].kind]
      /\ [c \in Clients |-> task[c].runs]' = [c \in Clients |-> task[c].runs]
  OBVIOUS
<1>6. Contract!Lose(lost)
  BY <1>2, <1>3, <1>5 DEF Contract!Lose
<1> QED BY <1>4, <1>6 DEF Promised, Contract!Next

LEMMA SilentStep ==
    ASSUME Inv, ClientInv, World, TaskType', NEW t \in Tasks, Silent(t)
    PROVE  ClientInv' /\ Promised
<1>1. \A c \in Clients : c = t \/ task'[c] = task[c]
  BY DEF Silent, Only, Tasks
<1>2. ClientInv'
  BY <1>1, Bystander DEF Silent, ClientInv
<1>3. \A c \in Clients : task'[c].kind = task[c].kind /\ task'[c].runs = task[c].runs
  BY <1>1 DEF Silent
<1> QED BY <1>2, <1>3, NobodyIsTold DEF Silent

LEMMA ToldStep ==
    ASSUME Inv, ClientInv, World, TaskType', NEW t \in Tasks, NEW a, Told(t, a)
    PROVE  ClientInv' /\ Promised
<1>0. /\ t \in Clients /\ fate \in [Clients -> Fates] /\ fate' \in [Clients -> Fates]
      /\ answer \in [Clients -> Verdicts \cup {"none"}] /\ answer' = [answer EXCEPT ![t] = a]
      /\ \A c \in Clients : c = t \/ task'[c] = task[c]
      /\ generation \in Nat /\ "done" \in Steps
  BY FreshTask DEF Told, Inv, Base, TaskType, ConnType, Only, Tasks
<1>1. /\ task'[t].kind = "none" /\ task'[t].pc = "done" /\ task'[t].runs = 0 /\ task'[t].gen = 0
      /\ fate'[t] = "none"
  BY <1>0, FreshTask DEF Told
<1>2. KindOK(t)' /\ LossOK(t)'
  <2>1. generation' >= 0
    BY <1>0 DEF World
  <2>2. KindOK(t)'
    BY <1>1 DEF KindOK, Operations
  <2>3. LossOK(t)'
    BY <1>1, <2>1 DEF LossOK
  <2> QED BY <2>2, <2>3
<1>3. ClientInv'
  <2>1. \A c \in Clients \ {t} : answer'[c] = answer[c] /\ FateStep(c)
    BY <1>0 DEF Told
  <2> QED BY <1>0, <1>2, <2>1, Bystander DEF ClientInv
<1>4. Contract!Answer(t, a)
  <2> DEFINE lost == {c \in Clients \ {t} : fate'[c] # fate[c]}
  <2>1. lost \in SUBSET {d \in Clients : fate[d] = "running"}
    BY DEF Told, FateStep
  <2>2. fate' = [d \in Clients |-> IF d = t THEN "none" ELSE IF d \in lost THEN "lost" ELSE fate[d]]
    BY <1>0, <1>1 DEF Told, FateStep
  <2> HIDE DEF lost
  <2>3. /\ [c \in Clients |-> task[c].kind]' = [[c \in Clients |-> task[c].kind] EXCEPT ![t] = "none"]
        /\ [c \in Clients |-> task[c].runs]' = [[c \in Clients |-> task[c].runs] EXCEPT ![t] = 0]
    BY <1>0, <1>1
  <2>4. [c \in Clients |-> task[c].kind][t] # "none" /\ Contract!Honest(t, a)
    BY <1>0 DEF Told
  <2> QED BY <1>0, <2>1, <2>2, <2>3, <2>4 DEF Contract!Answer
<1>5. a \in Contract!Answers
  BY DEF Told, Verdicts, Contract!Answers
<1> QED BY <1>0, <1>3, <1>4, <1>5 DEF Promised, Contract!Next

-----------------------------------------------------------------------------
(* What the calls of a step amount to.                                      *)

(* The sessions of all the others stay or are lost; that of t is closed if  *)
(* its request has ended.                                                   *)
Sessions(t) ==
    /\ \A c \in Clients \ {t} : FateStep(c)
    /\ t \in Clients => IF task'[t].pc = "done" THEN fate'[t] = "none" ELSE FateStep(t)

LEMMA ClosingSessions ==
    ASSUME Inv, ClientInv, NEW t \in Tasks, Only(t),
           CloseSessions(fate) \/ (CloseSessions(Severed) /\ link' = "down")
    PROVE  Sessions(t)
<1>1. ASSUME NEW c \in Clients
      PROVE  /\ task'[c].pc = "done" => fate'[c] = "none"
             /\ task'[c].pc # "done" => FateStep(c)
  BY <1>1 DEF CloseSessions, Severed, FateStep
<1>2. ASSUME NEW c \in Clients \ {t} PROVE FateStep(c)
  <2>1. task'[c] = task[c]
    BY DEF Only, Tasks
  <2>2. task[c].pc = "done" => fate[c] = "none"
    BY DEF ClientInv, KindOK, Operations
  <2> QED BY <1>1, <2>1, <2>2 DEF FateStep
<1> QED BY <1>1, <1>2 DEF Sessions

LEMMA Honesty ==
    ASSUME NEW t \in Clients, NEW a,
           a = "result" /\ task[t].kind # "transfer" => fate[t] \in {"exited", "refused"},
           a = "unavailable" /\ task[t].kind \in {"unsafe", "transfer"} => task[t].runs = 0
    PROVE  Contract!Honest(t, a)
BY DEF Contract!Honest

LEMMA ReturnStep ==
    ASSUME Inv, NEW t \in Tasks, NEW a \in Verdicts, NEW s, Return(t, a, s), Sessions(t),
           t \in Clients => task[t].kind # "none" /\ Contract!Honest(t, a)
    PROVE  Silent(t) \/ Told(t, a)
<1>0. task \in [Tasks -> Task]
  BY DEF Inv, Base, TaskType
<1>1. CASE t = Maintainer
  <2>1. t \notin Clients
    BY <1>1, TasksAssumption
  <2> QED BY <1>0, <1>1, <2>1, ReturnTask DEF Silent, Sessions
<1>2. CASE t \in Clients
  <2>1. /\ Only(t) /\ task'[t] = Fresh("none", "done") /\ answer' = [answer EXCEPT ![t] = a]
    BY <1>0, <1>2, ReturnTask
  <2>2. task'[t].pc = "done"
    BY <2>1, FreshTask
  <2> QED BY <1>2, <2>1, <2>2 DEF Told, Sessions
<1> QED BY <1>1, <1>2 DEF Tasks

(* A coroutine begins to wait, or goes on with a repair.                    *)
Unseen == {"idle", "done", "queued", "launch", "session", "check", "probing", "probed"}

LEMMA ShiftStep ==
    ASSUME Inv, ClientInv, World, NEW t \in Tasks, Only(t), UNCHANGED answer,
           \A c \in Clients : FateStep(c),
           task'[t].kind = task[t].kind, task'[t].runs = task[t].runs,
           task'[t].replayed = task[t].replayed, task'[t].gen = task[t].gen,
           Before(t)' <=> Before(t),
           task[t].pc \notin {"idle", "done", "session"}, task'[t].pc \notin Unseen
    PROVE  Silent(t)
<1> SUFFICES ASSUME t \in Clients PROVE KindOK(t)' /\ LossOK(t)'
  BY DEF Silent
<1>1. KindOK(t) /\ LossOK(t) /\ FateStep(t) /\ generation \in Nat /\ task[t].gen \in Nat
  BY DEF ClientInv, Inv, Base, TaskType, ConnType, Task
<1>2. fate'[t] = fate[t]
  BY <1>1 DEF KindOK, FateStep
<1>3. KindOK(t)'
  BY <1>1, <1>2 DEF KindOK, Replays, Unseen
<1>4. LossOK(t)'
  BY <1>1 DEF LossOK, World, Unseen
<1> QED BY <1>3, <1>4

LEMMA ConnectReturnsStep ==
    ASSUME Inv, ClientInv, World, NEW t \in Tasks, NEW s, ConnectReturns(t, s, generation'),
           Before(t) \/ task[t].call = "force", task[t].pc \in Waiting \cup {"ensure"}, Sessions(t)
    PROVE  \E a : Silent(t) \/ Told(t, a)
<1>0. /\ task \in [Tasks -> Task] /\ generation \in Nat /\ generation' \in Nat
      /\ "done" \in Verdicts /\ Coherent(task[t])
  BY DEF Inv, Base, TaskType, ConnType, World, Verdicts
<1>1. t \in Clients => task[t].kind # "none" /\ task[t].kind # "maintain" /\ task[t].pc # "session"
                       /\ task[t].pc # "done"
  BY Places DEF ClientInv, KindOK
<1>2. CASE Return(t, "done", s)
  <2>1. t \in Clients => Contract!Honest(t, "done")
    BY Honesty
  <2> QED BY <1>0, <1>1, <1>2, <2>1, ReturnStep
<1>3. CASE /\ task[t].kind \notin {"maintain", "force"}
           /\ UNCHANGED <<answer, wake>>
           /\ task'[t].call = "none" /\ task'[t].gen = generation'
           /\ task'[t].pc = IF task[t].kind \in Operations THEN "launch" ELSE "check"
           /\ task'[t].kind = task[t].kind /\ task'[t].epoch = task[t].epoch
           /\ task'[t].outcome = task[t].outcome /\ task'[t].seen = task[t].seen
           /\ task'[t].runs = task[t].runs /\ task'[t].replayed = task[t].replayed
  <2>0. Only(t) /\ task'[t].pc # "done"
    BY <1>0, <1>3, ConnectReturnsTask
  <2>1. \A c \in Clients : FateStep(c)
    BY <2>0 DEF Sessions
  <2>2. ASSUME t \in Clients PROVE KindOK(t)' /\ LossOK(t)'
    <3>1. KindOK(t) /\ Before(t)
      BY <1>0, <1>3, <2>2 DEF ClientInv, Coherent
    <3>2. fate'[t] = fate[t] /\ fate[t] # "running"
      BY <1>1, <2>1, <2>2, <3>1 DEF KindOK, FateStep
    <3>3. Before(t)' <=> task[t].kind \in Operations
      BY <1>3 DEF Before
    <3>4. task[t].kind \notin Operations => fate'[t] = "none"
      BY <3>1, <3>2 DEF KindOK
    <3>5. KindOK(t)'
      BY <1>1, <1>3, <2>2, <3>1, <3>2, <3>3 DEF KindOK, Replays
    <3>6. LossOK(t)'
      BY <1>0, <1>3, <3>2, <3>4 DEF LossOK
    <3> QED BY <3>5, <3>6
  <2> QED BY <1>3, <2>0, <2>1, <2>2 DEF Silent
<1> QED BY <1>0, <1>2, <1>3, ConnectReturnsTask

LEMMA CheckEndsStep ==
    ASSUME Inv, ClientInv, World, NEW t \in Tasks,
           NEW v \in {"healthy", "replaced", "degraded", "raised"}, NEW s, CheckEnds(t, v, s),
           ~Before(t), task[t].pc \notin {"idle", "done", "session"}, Sessions(t),
           v = "healthy" /\ t \in Clients => fate[t] # "lost"
    PROVE  \E a : Silent(t) \/ Told(t, a)
<1>0. /\ task \in [Tasks -> Task] /\ generation' >= 0 /\ fate \in [Clients -> Fates]
  BY DEF Inv, Base, TaskType, ConnType, World
<1>1. CASE AfterCheck(t, v) # "replay" /\ Return(t, AfterCheck(t, v), s)
  <2>1. AfterCheck(t, v) \in Verdicts
    BY <1>1, AfterCheckValues DEF Verdicts
  <2>2. ASSUME t \in Clients PROVE task[t].kind # "none" /\ Contract!Honest(t, AfterCheck(t, v))
    <3>1. KindOK(t)
      BY <2>2 DEF ClientInv
    <3>2. AfterCheck(t, v) = "result" /\ task[t].kind # "transfer" => fate[t] \in {"exited", "refused"}
      <4>1. AfterCheck(t, v) = "result" => task[t].kind \in Operations
        BY DEF AfterCheck, Operations
      <4>2. task[t].kind \in Operations => fate[t] \in {"exited", "refused", "lost"}
        BY <1>0, <2>2, <3>1 DEF KindOK, Fates
      <4> QED BY <2>2, <4>1, <4>2, AfterCheckValues
    <3>3. AfterCheck(t, v) = "unavailable" => task[t].kind \notin {"unsafe", "transfer"}
      BY AfterCheckValues
    <3> QED BY <2>2, <3>1, <3>2, <3>3, Honesty DEF KindOK
  <2> QED BY <1>1, <2>1, <2>2, ReturnStep
<1>2. CASE /\ AfterCheck(t, v) = "replay" /\ UNCHANGED <<answer, wake>>
           /\ task'[t].kind = "replayable" /\ task'[t].pc = "queued"
           /\ task'[t].call = "none" /\ task'[t].gen = 0 /\ task'[t].epoch = 0
           /\ task'[t].outcome = "none" /\ task'[t].seen = 0
           /\ task'[t].runs = task[t].runs /\ task'[t].replayed = TRUE
  <2>0. Only(t) /\ task[t].kind = "replayable" /\ ~task[t].replayed
    BY <1>0, <1>2, CheckEndsTask, AfterCheckValues
  <2>1. \A c \in Clients : FateStep(c)
    BY <1>2, <2>0 DEF Sessions
  <2>2. ASSUME t \in Clients PROVE KindOK(t)' /\ LossOK(t)'
    <3>1. KindOK(t) /\ Replays(t) = 0 /\ Replays(t)' = 1 /\ task[t].runs \in Nat
      BY <1>0, <1>2, <2>0, <2>2 DEF ClientInv, Replays, Task, Tasks
    <3>2. task[t].runs <= 1
      BY <2>0, <3>1 DEF KindOK, Operations
    <3>3. fate'[t] # "running" /\ Before(t)'
      BY <1>2, <2>1, <2>2, <3>1 DEF KindOK, FateStep, Before
    <3>4. KindOK(t)'
      BY <1>2, <2>0, <3>1, <3>2, <3>3 DEF KindOK, Operations
    <3>5. LossOK(t)'
      BY <1>0, <1>2 DEF LossOK
    <3> QED BY <3>4, <3>5
  <2> QED BY <1>2, <2>0, <2>1, <2>2 DEF Silent
<1> QED BY <1>0, <1>1, <1>2, CheckEndsTask

-----------------------------------------------------------------------------
(* The requests of clients.                                                 *)

LEMMA OthersStay ==
    ASSUME Inv, ClientInv, World, NEW c \in Clients, Only(c), KindOK(c)', LossOK(c)',
           \A d \in Clients \ {c} : answer'[d] = answer[d] /\ FateStep(d)
    PROVE  ClientInv'
<1>1. \A d \in Clients : d = c \/ task'[d] = task[d]
  BY DEF Only, Tasks
<1> QED BY <1>1, Bystander DEF ClientInv

LEMMA ArriveContract ==
    ASSUME Inv, ClientInv, World, TaskType', NEW c \in Clients, NEW k \in Kinds[c], Arrive(c, k)
    PROVE  ClientInv' /\ Promised
<1>0. /\ k \in Requests /\ task \in [Tasks -> Task] /\ generation \in Nat /\ c \in Tasks
      /\ task[c].pc = "idle" /\ KindOK(c)
  BY KindsAssumption DEF Inv, Base, TaskType, ConnType, Tasks, Arrive, At, ClientInv
<1>1. /\ task[c].kind = "none" /\ fate[c] = "none" /\ task[c].runs = 0 /\ answer[c] = "none"
  BY <1>0 DEF KindOK, Operations
<1>2. /\ Only(c) /\ UNCHANGED <<answer, fate>> /\ UNCHANGED <<generation, state, link>>
      /\ task'[c].kind = k /\ task'[c].runs = 0 /\ task'[c].replayed = FALSE
      /\ task'[c].gen \in {0, generation} /\ task'[c].outcome = "none"
      /\ task'[c].pc \in {"queued", "ensure", "lock", "check"}
      /\ k \in Operations <=> task'[c].pc = "queued"
  <2>1. {"shell", "reconnect", "force", "status"} \cap Operations = {}
    BY DEF Operations
  <2>2. UNCHANGED <<answer, fate>> /\ UNCHANGED <<generation, state, link>>
    BY DEF Arrive
  <2>3. /\ Only(c) /\ task'[c].kind = k /\ task'[c].runs = 0 /\ task'[c].replayed = FALSE
        /\ task'[c].gen \in {0, generation} /\ task'[c].outcome = "none"
    BY <1>0, ArriveTask
  <2> DEFINE p == task'[c].pc
  <2>4. \/ k \in Operations /\ p = "queued"
        \/ k \in {"shell", "reconnect"} /\ p = "ensure"
        \/ k = "force" /\ p = "lock"
        \/ k = "status" /\ p = "check"
    BY <1>0, ArriveTask
  <2> HIDE DEF p
  <2>5. p \in {"queued", "ensure", "lock", "check"}
    BY <2>4
  <2>6. k \in Operations <=> p = "queued"
    <3>1. k \notin {"shell", "reconnect", "force", "status"} => p = "queued" /\ k \in Operations
      BY <2>4
    <3>2. k \in {"shell", "reconnect", "force", "status"} /\ k \notin Operations => p # "queued"
      BY <2>4
    <3> QED BY <2>1, <3>1, <3>2
  <2> QED BY <2>2, <2>3, <2>5, <2>6 DEF p
<1>3. k # "none" /\ k # "maintain"
  BY <1>0 DEF Requests, Operations, Reconnects
<1>4. KindOK(c)'
  BY <1>1, <1>2, <1>3 DEF KindOK, Before, Replays
<1>5. LossOK(c)'
  BY <1>0, <1>1, <1>2 DEF LossOK
<1>6. ClientInv'
  BY <1>2, <1>4, <1>5, OthersStay DEF FateStep
<1>7. Contract!Ask(c, k)
  <2>1. \A d \in Clients : d = c \/ task'[d] = task[d]
    BY <1>2 DEF Only, Tasks
  <2>2. /\ [d \in Clients |-> task[d].kind]' = [[d \in Clients |-> task[d].kind] EXCEPT ![c] = k]
        /\ [d \in Clients |-> task[d].runs]' = [d \in Clients |-> task[d].runs]
    BY <1>1, <1>2, <2>1
  <2>3. [d \in Clients |-> task[d].kind][c] = "none"
    BY <1>1
  <2> QED BY <1>1, <1>2, <2>2, <2>3 DEF Contract!Ask
<1>8. k \in Contract!Requests
  BY <1>0 DEF Requests, Operations, Reconnects, Contract!Requests
<1> QED BY <1>6, <1>7, <1>8 DEF Promised, Contract!Next

LEMMA LaunchContract ==
    ASSUME Inv, ClientInv, World, TaskType', NEW c \in Clients, Launch(c)
    PROVE  ClientInv' /\ Promised
<1>0. /\ task \in [Tasks -> Task] /\ c \in Tasks /\ task[c].pc = "launch" /\ KindOK(c) /\ LossOK(c)
      /\ fate \in [Clients -> Fates] /\ task[c].runs \in Nat /\ generation \in Nat
      /\ task[c].gen \in Nat
  BY DEF Inv, Base, TaskType, ConnType, Tasks, Launch, At, ClientInv, Task
<1>1. /\ task[c].kind \in Operations /\ fate[c] # "running" /\ task[c].runs <= Replays(c)
      /\ answer[c] = "none" /\ task[c].call = "none" /\ Replays(c) \in {0, 1}
  <2>1. task[c].call = "none"
    BY <1>0, Places DEF Inv, Base, Coherent
  <2> QED BY <1>0, <2>1 DEF KindOK, Before, Replays
<1>2. /\ Only(c) /\ UNCHANGED answer
      /\ task'[c].pc = "session" /\ task'[c].kind = task[c].kind /\ task'[c].call = "none"
      /\ task'[c].gen = task[c].gen /\ task'[c].replayed = task[c].replayed
      /\ \/ /\ fate' = [fate EXCEPT ![c] = "running"] /\ task'[c].runs = task[c].runs + 1
         \/ fate' = [fate EXCEPT ![c] = "refused"] /\ task'[c].runs = task[c].runs
  BY <1>0, <1>1, LaunchTask
<1>3. /\ fate'[c] \in {"running", "refused"} /\ \A d \in Clients \ {c} : fate'[d] = fate[d]
      /\ task'[c].runs <= 1 + Replays(c)
  BY <1>0, <1>1, <1>2
<1>4. KindOK(c)'
  <2>1. ~Before(c)' /\ Replays(c)' = Replays(c)
    BY <1>2 DEF Before, Replays
  <2> QED BY <1>0, <1>1, <1>2, <1>3, <2>1 DEF KindOK, Operations
<1>5. LossOK(c)'
  <2>1. task'[c].gen <= generation'
    BY <1>0, <1>2 DEF LossOK, World
  <2> QED BY <1>2, <1>3, <2>1 DEF LossOK
<1>6. ClientInv'
  BY <1>2, <1>3, <1>4, <1>5, OthersStay DEF FateStep
<1>7. \A d \in Clients : d = c \/ task'[d] = task[d]
  BY <1>2 DEF Only, Tasks
<1>8. [d \in Clients |-> task[d].kind]' = [d \in Clients |-> task[d].kind]
  BY <1>2, <1>7
<1>9. CASE fate' = [fate EXCEPT ![c] = "running"] /\ task'[c].runs = task[c].runs + 1
  <2>1. task[c].runs < Contract!Allowed(task[c].kind)
    BY <1>0, <1>1 DEF Contract!Allowed, Replays, Operations
  <2>2. [d \in Clients |-> task[d].runs]' = [[d \in Clients |-> task[d].runs] EXCEPT ![c] = @ + 1]
    BY <1>7, <1>9
  <2>3. [d \in Clients |-> task[d].runs][c] < Contract!Allowed([d \in Clients |-> task[d].kind][c])
    BY <2>1
  <2>4. Contract!Begin(c)
    BY <1>1, <1>2, <1>8, <1>9, <2>2, <2>3 DEF Contract!Begin
  <2> QED BY <1>6, <2>4 DEF Promised, Contract!Next
<1>10. CASE fate' = [fate EXCEPT ![c] = "refused"] /\ task'[c].runs = task[c].runs
  <2>1. [d \in Clients |-> task[d].runs]' = [d \in Clients |-> task[d].runs]
    BY <1>7, <1>10
  <2>2. [d \in Clients |-> task[d].kind][c] # "none"
    BY <1>1 DEF Operations
  <2>3. Contract!Refuse(c)
    BY <1>1, <1>2, <1>8, <1>10, <2>1, <2>2 DEF Contract!Refuse
  <2> QED BY <1>6, <2>3 DEF Promised, Contract!Next
<1> QED BY <1>2, <1>9, <1>10

LEMMA CommandExitsContract ==
    ASSUME Inv, ClientInv, World, TaskType', NEW c \in Clients, CommandExits(c)
    PROVE  ClientInv' /\ Promised
<1>0. /\ task' = task /\ UNCHANGED answer /\ fate[c] = "running"
      /\ fate' = [fate EXCEPT ![c] = "exited"] /\ fate \in [Clients -> Fates]
      /\ KindOK(c) /\ LossOK(c) /\ generation \in Nat /\ task[c].gen \in Nat
  BY DEF CommandExits, clientVars, Inv, Base, TaskType, ConnType, ClientInv, Task, Tasks
<1>1. fate'[c] = "exited" /\ \A d \in Clients \ {c} : fate'[d] = fate[d]
  BY <1>0
<1>2. KindOK(c)'
  BY <1>0, <1>1 DEF KindOK, Before, Replays, Operations
<1>3. LossOK(c)'
  BY <1>0, <1>1 DEF LossOK, World
<1>4. ClientInv'
  BY <1>0, <1>1, <1>2, <1>3, OthersStay DEF FateStep, Only
<1>5. /\ [d \in Clients |-> task[d].kind]' = [d \in Clients |-> task[d].kind]
      /\ [d \in Clients |-> task[d].runs]' = [d \in Clients |-> task[d].runs]
  BY <1>0
<1>6. Contract!Exit(c)
  BY <1>0, <1>5 DEF Contract!Exit
<1> QED BY <1>4, <1>6 DEF Promised, Contract!Next

(* An answer that does not come from a check.                               *)
LEMMA FinishContract ==
    ASSUME Inv, ClientInv, World, TaskType', NEW c \in Clients, NEW a \in Verdicts, Finish(c, a),
           CloseSessions(fate) \/ (CloseSessions(Severed) /\ link' = "down"),
           task[c].pc \notin {"idle", "done"},
           a = "result" => fate[c] = "exited",
           a = "unavailable" => task[c].pc = "launch"
    PROVE  ClientInv' /\ Promised
<1>0. /\ task \in [Tasks -> Task] /\ c \in Tasks /\ c # Maintainer /\ KindOK(c) /\ task[c].runs \in Nat
  BY TasksAssumption DEF Inv, Base, TaskType, Tasks, ClientInv, Task
<1>1. Return(c, a, state)
  BY <1>0 DEF Return
<1>2. Sessions(c)
  BY <1>0, FinishTask, ClosingSessions
<1>3. task[c].kind # "none"
  BY <1>0 DEF KindOK
<1>4. task[c].pc = "launch" /\ task[c].kind \in {"unsafe", "transfer"} => task[c].runs = 0
  BY <1>0 DEF KindOK, Operations, Before, Replays
<1>5. Contract!Honest(c, a)
  BY <1>4, Honesty
<1>6. Silent(c) \/ Told(c, a)
  BY <1>0, <1>1, <1>2, <1>3, <1>5, ReturnStep
<1> QED BY <1>0, <1>6, SilentStep, ToldStep

LEMMA ClientsContract ==
    ASSUME Inv, ClientInv, World, TaskType', NEW c \in Clients,
           \/ \E k \in Kinds[c] : Arrive(c, k)
           \/ Admit(c) \/ Launch(c) \/ LaunchFails(c) \/ CommandExits(c) \/ Report(c)
           \/ Timeout(c) \/ Cancel(c)
    PROVE  ClientInv' /\ Promised
<1>0. /\ task \in [Tasks -> Task] /\ c \in Tasks /\ KindOK(c) /\ LossOK(c) /\ generation \in Nat
      /\ task[c].gen \in Nat
  BY DEF Inv, Base, TaskType, ConnType, Tasks, ClientInv, Task
<1>1. CASE Admit(c)
  <2>1. task[c].pc = "queued" /\ Goto(c, "ensure") /\ UNCHANGED fate
    BY <1>1 DEF Admit, At
  <2>0. "ensure" \in Steps
    BY DEF Steps, ClientSteps
  <2>2. /\ Only(c) /\ UNCHANGED answer /\ task'[c].pc = "ensure"
        /\ task'[c].kind = task[c].kind /\ task'[c].runs = task[c].runs
        /\ task'[c].replayed = task[c].replayed /\ task'[c].gen = task[c].gen
    BY <1>0, <2>0, <2>1, GotoTask
  <2>3. Before(c) /\ Before(c)'
    BY <2>1, <2>2 DEF Before
  <2> QED BY <1>0, <2>1, <2>2, <2>3, ShiftStep, SilentStep DEF FateStep, Unseen
<1>2. CASE LaunchFails(c)
  BY <1>2, FinishContract DEF LaunchFails, At, Verdicts
<1>3. CASE Report(c)
  <2>1. CASE fate[c] = "exited" /\ Finish(c, "result") /\ CloseSessions(fate)
    BY <1>3, <2>1, FinishContract DEF Report, At, Verdicts
  <2>2. CASE fate[c] \in {"exited", "lost", "refused"} /\ Goto(c, "check") /\ UNCHANGED fate
    <3>0. "check" \in Steps /\ task[c].pc = "session"
      BY <1>3 DEF Steps, ClientSteps, Report, At
    <3>1. /\ Only(c) /\ UNCHANGED answer /\ task'[c].pc = "check" /\ task[c].pc = "session"
          /\ task'[c].kind = task[c].kind /\ task'[c].runs = task[c].runs
          /\ task'[c].replayed = task[c].replayed /\ task'[c].gen = task[c].gen
          /\ task'[c].call = task[c].call
      BY <1>0, <2>2, <3>0, GotoTask
    <3>2. Before(c)' <=> Before(c)
      BY <3>1 DEF Before
    <3>3. KindOK(c)'
      BY <1>0, <2>2, <3>1, <3>2 DEF KindOK, Replays
    <3>4. UNCHANGED <<state, generation, link>>
      BY <1>3 DEF Report, connVars
    <3>5. LossOK(c)'
      BY <1>0, <2>2, <3>1, <3>4 DEF LossOK
    <3> QED BY <1>0, <2>2, <3>1, <3>3, <3>5, SilentStep DEF Silent, FateStep
  <2> QED BY <1>3, <2>1, <2>2 DEF Report
<1>4. CASE Timeout(c)
  BY <1>4, FinishContract DEF Timeout, Verdicts
<1>5. CASE Cancel(c)
  <2>1. CloseSessions(fate) \/ (CloseSessions(Severed) /\ link' = "down")
    BY <1>5 DEF Cancel
  <2> QED BY <1>5, <2>1, FinishContract DEF Cancel, Verdicts
<1> QED BY <1>1, <1>2, <1>3, <1>4, <1>5, ArriveContract, LaunchContract, CommandExitsContract

-----------------------------------------------------------------------------
(* What every task does by itself.                                          *)

LEMMA NoSessionCloses ==
    ASSUME Inv, ClientInv, NEW t \in Tasks, NEW s, NEW g \in Nat, ConnectReturns(t, s, g),
           task[t].call # "force", UNCHANGED fate
    PROVE  Sessions(t)
<1>1. task \in [Tasks -> Task] /\ Coherent(task[t])
  BY DEF Inv, Base, TaskType
<1>2. t \in Clients => task[t].kind \notin {"maintain", "force"}
  BY <1>1 DEF ClientInv, KindOK, Coherent
<1>3. t \in Clients => task'[t].pc # "done"
  BY <1>1, <1>2, ConnectReturnsTask
<1> QED BY <1>3 DEF Sessions, FateStep

LEMMA GotoShift ==
    ASSUME Inv, ClientInv, World, NEW t \in Tasks, NEW p \in RepairSteps, Goto(t, p),
           task[t].pc \in Waiting, \A c \in Clients : FateStep(c)
    PROVE  Silent(t)
<1>1. task \in [Tasks -> Task] /\ p \in Steps
  BY DEF Inv, Base, TaskType, Steps, ClientSteps
<1>2. /\ Only(t) /\ UNCHANGED answer /\ task'[t].pc = p
      /\ task'[t].kind = task[t].kind /\ task'[t].runs = task[t].runs
      /\ task'[t].replayed = task[t].replayed /\ task'[t].gen = task[t].gen
      /\ task'[t].call = task[t].call
  BY <1>1, GotoTask
<1>3. /\ task[t].pc \notin {"queued", "ensure", "launch", "idle", "done", "session"}
      /\ task'[t].pc \notin {"queued", "ensure", "launch"} /\ task'[t].pc \notin Unseen
  BY <1>2, Places DEF Unseen
<1>4. Before(t)' <=> Before(t)
  BY <1>2, <1>3 DEF Before
<1> QED BY <1>2, <1>3, <1>4, ShiftStep

LEMMA LockShift ==
    ASSUME Inv, ClientInv, World, NEW t \in Tasks, NEW call \in {"connect", "check"},
           \/ WantLock(t, call) /\ (IF call = "connect" THEN task[t].pc \in {"ensure", "asleep"}
                                    ELSE task[t].pc = "probed")
           \/ SkipProbe(t) /\ call = "check",
           UNCHANGED fate, t \in Clients => task[t].pc # "asleep"
    PROVE  Silent(t)
<1>1. task \in [Tasks -> Task] /\ epoch \in Nat /\ Coherent(task[t])
  BY DEF Inv, Base, TaskType, ConnType
<1>2. /\ Only(t) /\ UNCHANGED answer /\ task'[t].pc = "lock" /\ task'[t].call = call
      /\ task'[t].kind = task[t].kind /\ task'[t].runs = task[t].runs
      /\ task'[t].replayed = task[t].replayed /\ task'[t].gen = task[t].gen
      /\ IF call = "connect" THEN task[t].pc \in {"ensure", "asleep"}
         ELSE task[t].pc \in {"probed", "check"}
  <2>1. CASE WantLock(t, call) /\ (IF call = "connect" THEN task[t].pc \in {"ensure", "asleep"}
                                   ELSE task[t].pc = "probed")
    BY <1>1, <2>1, WantLockTask
  <2>2. CASE SkipProbe(t) /\ call = "check"
    <3>1. UNCHANGED answer /\ task[t].pc = "check"
      BY <2>2 DEF SkipProbe, At
    <3> QED BY <1>1, <2>2, <3>1, SkipProbeTask
  <2> QED BY <2>1, <2>2
<1>3. \A c \in Clients : FateStep(c)
  BY DEF FateStep
<1>4. task[t].call = "none"
  BY <1>1, <1>2, Places DEF Coherent
<1>5. CASE t \in Clients
  <2>1. Before(t)' <=> Before(t)
    BY <1>2, <1>4, <1>5 DEF Before
  <2> QED BY <1>2, <1>3, <2>1, ShiftStep DEF Unseen
<1>6. CASE t \notin Clients
  BY <1>2, <1>3, <1>6 DEF Silent
<1> QED BY <1>5, <1>6

LEMMA ProbeShift ==
    ASSUME Inv, ClientInv, World, NEW t \in Tasks, Probe(t)
    PROVE  Silent(t)
<1>1. /\ task \in [Tasks -> Task] /\ epoch \in Nat /\ serial \in Nat /\ Coherent(task[t])
      /\ task[t].pc = "check" /\ task[t].gen = generation /\ state = "connected"
      /\ UNCHANGED <<answer, fate, generation, link, state>>
  BY DEF Inv, Base, TaskType, ConnType, Probe, At, connVars
<1>2. /\ Only(t) /\ task'[t].pc = "probing" /\ task'[t].call = task[t].call
      /\ task'[t].kind = task[t].kind /\ task'[t].runs = task[t].runs
      /\ task'[t].replayed = task[t].replayed /\ task'[t].gen = task[t].gen
  BY <1>1, ProbeTask
<1>3. \A c \in Clients : FateStep(c)
  BY <1>1 DEF FateStep
<1>4. ASSUME t \in Clients PROVE KindOK(t)' /\ LossOK(t)'
  <2>1. Before(t)' <=> Before(t)
    BY <1>1, <1>2 DEF Before
  <2>2. KindOK(t)'
    BY <1>1, <1>2, <1>4, <2>1 DEF ClientInv, KindOK, Replays
  <2>3. LossOK(t)'
    BY <1>1, <1>2, <1>4 DEF ClientInv, LossOK
  <2> QED BY <2>2, <2>3
<1> QED BY <1>1, <1>2, <1>3, <1>4 DEF Silent

(* A check that the lock was wanted for, and one before that.               *)
LEMMA ClosingCheck ==
    ASSUME Inv, ClientInv, World, NEW t \in Tasks,
           NEW v \in {"healthy", "replaced", "degraded", "raised"}, NEW s, CheckEnds(t, v, s),
           task[t].call = "check" \/ task[t].pc \in {"check", "probed"},
           CloseSessions(fate) \/ (CloseSessions(Severed) /\ link' = "down"),
           v = "healthy" /\ t \in Clients => fate[t] # "lost"
    PROVE  \E a : Silent(t) \/ Told(t, a)
<1>1. task \in [Tasks -> Task] /\ Coherent(task[t])
  BY DEF Inv, Base, TaskType
<1>2. ~Before(t) /\ task[t].pc \notin {"idle", "done", "session"}
  BY <1>1, Places DEF Coherent, Before
<1>3. Sessions(t)
  BY <1>1, CheckEndsTask, ClosingSessions
<1> QED BY <1>2, <1>3, CheckEndsStep

LEMMA TasksContract ==
    ASSUME Inv, ClientInv, World, NEW t \in Tasks,
           Advance(t) \/ \E r \in Reasons : StartFails(t, r)
    PROVE  \E a : Silent(t) \/ Told(t, a)
<1>0. /\ task \in [Tasks -> Task] /\ Coherent(task[t]) /\ generation \in Nat
      /\ generation' \in Nat /\ fate \in [Clients -> Fates]
  BY DEF Inv, Base, TaskType, ConnType, World
<1>1. /\ UNCHANGED fate => \A c \in Clients : FateStep(c)
      /\ fate' = Severed /\ link' = "down" => \A c \in Clients : FateStep(c)
  BY <1>0 DEF FateStep, Severed
<1>2. CASE Ensure(t)
  <2>1. task[t].pc = "ensure" /\ task[t].call = "none" /\ UNCHANGED <<fate, generation>>
    BY <1>0, <1>2, Places DEF Ensure, At, connVars, Coherent
  <2>2. CASE ConnectReturns(t, state, generation)
    BY <1>0, <2>1, <2>2, NoSessionCloses, ConnectReturnsStep DEF Before
  <2>3. CASE WantLock(t, "connect")
    BY <2>1, <2>3, LockShift
  <2> QED BY <1>2, <2>2, <2>3 DEF Ensure
<1>3. CASE AlreadyConnected(t) \/ Adopt(t)
  <2>1. /\ task[t].pc \in Waiting /\ task[t].call = "connect" /\ UNCHANGED fate
        /\ \E s : ConnectReturns(t, s, generation')
    <3>1. CASE AlreadyConnected(t)
      BY <3>1, Places DEF AlreadyConnected, Connecting, Holds, At, connVars
    <3>2. CASE Adopt(t)
      BY <1>0, <3>2, Places DEF Adopt, At, RecordConnected, Coherent
    <3> QED BY <1>3, <3>1, <3>2
  <2> QED BY <1>0, <2>1, NoSessionCloses, ConnectReturnsStep DEF Before
<1>4. ASSUME NEW s, Return(t, "unavailable", s), task[t].call # "check", task[t].pc \in Waiting,
             CloseSessions(fate) \/ (CloseSessions(Severed) /\ link' = "down")
      PROVE  \E a : Silent(t) \/ Told(t, a)
  <2>1. Sessions(t)
    BY <1>0, <1>4, ReturnTask, ClosingSessions
  <2>2. ASSUME t \in Clients PROVE task[t].kind # "none" /\ Contract!Honest(t, "unavailable")
    <3>1. KindOK(t) /\ task[t].runs \in Nat
      BY <1>0, <2>2 DEF ClientInv, Task
    <3>2. task[t].call = "connect" \/ task[t].kind = "force"
      BY <1>0, <1>4 DEF Coherent, Task
    <3>3. task[t].kind \in {"unsafe", "transfer"} => task[t].runs = 0
      BY <3>1, <3>2 DEF KindOK, Operations, Before, Replays
    <3> QED BY <1>4, <2>2, <3>1, <3>3, Honesty, Places DEF KindOK
  <2> QED BY <1>4, <2>1, <2>2, ReturnStep DEF Verdicts
<1>5. CASE RefuseToConnect(t)
  BY <1>4, <1>5, Places DEF RefuseToConnect, Connecting, Holds, At, ConnectRaises
<1>6. CASE TryToAdopt(t) \/ Reconnect(t) \/ Repair(t) \/ ComeUp(t)
  <2>1. /\ task[t].pc \in Waiting /\ UNCHANGED fate
        /\ \E p \in RepairSteps : Goto(t, p)
    BY <1>6, Places DEF TryToAdopt, Reconnect, Repair, BeginReplacement, ComeUp, Connecting,
                        Deciding, Holds, At
  <2> QED BY <1>1, <2>1, GotoShift
<1>7. CASE Stop(t) \/ Repeats(t)
  <2>1. /\ task[t].pc \in Waiting /\ Goto(t, "starting") /\ "starting" \in RepairSteps
        /\ fate' = Severed /\ link' = "down"
    BY <1>7, Places DEF Stop, Repeats, At
  <2> QED BY <1>1, <2>1, GotoShift
<1>8. CASE Settle(t)
  <2>1. /\ task[t].pc = "settling" /\ generation' = generation + 1 /\ CloseSessions(fate)
        /\ IF task[t].call = "check" THEN CheckEnds(t, "replaced", "connected")
           ELSE ConnectReturns(t, "connected", generation')
    BY <1>8 DEF Settle, At, RecordConnected
  <2>2. CASE task[t].call = "check"
    BY <2>1, <2>2, ClosingCheck
  <2>3. CASE task[t].call # "check"
    <3>1. Before(t) \/ task[t].call = "force"
      BY <1>0, <2>1, <2>3, Places DEF Coherent, Before, Task
    <3>2. Sessions(t)
      BY <1>0, <2>1, <2>3, ConnectReturnsTask, ClosingSessions
    <3> QED BY <2>1, <2>3, <3>1, <3>2, ConnectReturnsStep, Places
  <2> QED BY <2>2, <2>3
<1>9. CASE \E r \in Reasons : GivesIn(t, r)
  <2>1. PICK r \in Reasons : GivesIn(t, r)
    BY <1>9
  <2>2. /\ task[t].pc \in Waiting /\ CloseSessions(Severed) /\ link' = "down"
        /\ IF task[t].call = "check" THEN CheckEnds(t, "raised", r) ELSE Return(t, "unavailable", r)
    BY <2>1, Places DEF GivesIn, ConnectRaises
  <2> QED BY <1>4, <2>2, ClosingCheck
<1>10. CASE SettlingFails(t) \/ \E r \in Reasons : StartFails(t, r)
  BY <1>7, <1>9, <1>10, FailureCases DEF Inv, Base
<1>11. CASE SeeReplaced(t)
  BY <1>11, ClosingCheck DEF SeeReplaced, At
<1>12. CASE SeeHealthy(t)
  <2>1. t \in Clients => fate[t] # "lost"
    BY <1>12 DEF SeeHealthy, Trusted, At, ClientInv, LossOK
  <2> QED BY <1>12, <2>1, ClosingCheck DEF SeeHealthy, At
<1>13. CASE AcceptRepair(t) \/ Tolerate(t) \/ LeaveToBackoff(t)
  <2>1. PICK v \in {"replaced", "degraded", "raised"} : CheckEnds(t, v, state)
    BY <1>13 DEF AcceptRepair, Tolerate, LeaveToBackoff
  <2> QED BY <1>13, <2>1, ClosingCheck DEF AcceptRepair, Tolerate, LeaveToBackoff, Deciding
<1>14. CASE Probe(t)
  BY <1>14, ProbeShift
<1>15. CASE SkipProbe(t)
  BY <1>15, LockShift DEF SkipProbe, At
<1>16. CASE AskForRepair(t)
  BY <1>16, LockShift DEF AskForRepair, At
<1> QED BY <1>2, <1>3, <1>5, <1>6, <1>7, <1>8, <1>9, <1>10, <1>11, <1>12, <1>13, <1>14, <1>15, <1>16
        DEF Advance

-----------------------------------------------------------------------------
(* Probes, maintenance's waits and the world.                               *)

LEMMA ProbeEndsContract ==
    ASSUME Inv, ClientInv, World, TaskType', NEW f \in flights, NEW o \in Outcomes, ProbeEnds(f, o)
    PROVE  ClientInv' /\ Promised
<1>0. /\ task \in [Tasks -> Task] /\ f.epoch \in Nat /\ f.on \in Nat
      /\ UNCHANGED <<answer, fate, epoch, generation, state, link, serial>>
  BY DEF ProbeEnds, connVars, Inv, Base, TaskType, ConnType
<1>1. \A c \in Clients : FateStep(c)
  BY <1>0 DEF FateStep
<1>2. ASSUME NEW c \in Clients, Hears(c, f) PROVE KindOK(c)' /\ LossOK(c)'
  <2>1. /\ task[c].pc = "probing" /\ task[c].epoch = f.epoch /\ c \in Tasks
        /\ task'[c].pc = "probed" /\ task'[c].outcome = o
        /\ task'[c].kind = task[c].kind /\ task'[c].call = task[c].call
        /\ task'[c].gen = task[c].gen /\ task'[c].epoch = task[c].epoch
        /\ task'[c].runs = task[c].runs /\ task'[c].replayed = task[c].replayed
    BY <1>0, <1>2, ProbeEndsTask DEF Hears, At, Tasks
  <2>2. KindOK(c)'
    <3>1. Before(c)' <=> Before(c)
      BY <2>1 DEF Before
    <3> QED BY <1>0, <2>1, <3>1 DEF ClientInv, KindOK, Replays
  <2>3. ASSUME task[c].epoch = epoch, o = "ok" PROVE fate[c] # "lost"
    <3>1. state = "connected"
      <4>1. task[c].seen # 0 /\ epoch \in Nat
        BY <2>1 DEF Inv, Base, Coherent, ConnType
      <4> QED BY <2>1, <2>3, <4>1 DEF Inv, EpochInv, Timely
    <3>2. f.on = serial
      BY <2>1, <2>3, <3>1 DEF Inv, EpochInv, FlightInv
    <3>3. link # "down"
      BY <2>3, <3>2 DEF ProbeEnds, Findings
    <3> QED BY <2>1, <2>3, <3>3 DEF ClientInv, LossOK
  <2>4. LossOK(c)'
    BY <1>0, <2>1, <2>3 DEF ClientInv, LossOK
  <2> QED BY <2>2, <2>4
<1>3. ASSUME NEW c \in Clients, ~Hears(c, f) PROVE KindOK(c)' /\ LossOK(c)'
  <2>1. task'[c] = task[c] /\ answer'[c] = answer[c]
    BY <1>0, <1>3, ProbeEndsTask DEF Tasks
  <2> QED BY <1>1, <2>1, Bystander
<1>4. \A c \in Clients : task'[c].kind = task[c].kind /\ task'[c].runs = task[c].runs
  BY <1>0, ProbeEndsTask DEF Tasks
<1> QED BY <1>0, <1>1, <1>2, <1>3, <1>4, NobodyIsTold DEF ClientInv

LEMMA WorldContract ==
    ASSUME Inv, ClientInv, World, TaskType',
           \/ WakeUp \/ TimerFires \/ BackoffEnds \/ MasterDies \/ HostCalms
           \/ (\E l \in {"busy", "broken"} : Degrade(l)) \/ UNCHANGED vars
    PROVE  ClientInv' /\ Promised
<1>1. Only(Maintainer) /\ Maintainer \notin Clients /\ Maintainer \in Tasks
  BY WorldQuiet, TasksAssumption DEF Inv, Tasks
<1>2. UNCHANGED answer
  BY DEF WakeUp, TimerFires, WantLock, BackoffEnds, MasterDies, HostCalms, Degrade, vars, clientVars
<1>3. UNCHANGED fate \/ (fate' = Severed /\ link' = "down")
  BY DEF WakeUp, TimerFires, BackoffEnds, MasterDies, HostCalms, Degrade, vars
<1>4. \A c \in Clients : FateStep(c)
  BY <1>3 DEF FateStep, Severed
<1>5. Silent(Maintainer)
  BY <1>1, <1>2, <1>4 DEF Silent
<1> QED BY <1>1, <1>5, SilentStep

-----------------------------------------------------------------------------
LEMMA ContractInit == Init => ClientInv /\ Contract!Init
<1> SUFFICES ASSUME Init PROVE ClientInv /\ Contract!Init
  OBVIOUS
<1>1. \A c \in Clients : task[c] = Fresh("none", "idle")
  BY TasksAssumption DEF Init, Tasks
<1>2. \A c \in Clients : /\ task[c].kind = "none" /\ task[c].pc = "idle" /\ task[c].runs = 0
                         /\ task[c].gen = 0 /\ answer[c] = "none" /\ fate[c] = "none"
  BY <1>1, FreshTask DEF Init
<1>3. generation = 0
  BY DEF Init
<1>4. ClientInv
  BY <1>2, <1>3 DEF ClientInv, KindOK, LossOK, Operations
<1>5. Contract!Init
  BY <1>2 DEF Init, Contract!Init
<1> QED BY <1>4, <1>5

LEMMA ContractStep ==
    Inv /\ ClientInv /\ [Next]_vars => ClientInv' /\ Promised
<1> SUFFICES ASSUME Inv, ClientInv, [Next]_vars PROVE ClientInv' /\ Promised
  OBVIOUS
<1>1. World /\ TaskType'
  BY WorldSteps, StepTaskType DEF Inv, Base
<1>2. ASSUME NEW c \in Clients,
             \/ \E k \in Kinds[c] : Arrive(c, k)
             \/ Admit(c) \/ Launch(c) \/ LaunchFails(c) \/ CommandExits(c) \/ Report(c)
             \/ Timeout(c) \/ Cancel(c)
      PROVE  ClientInv' /\ Promised
  BY <1>1, <1>2, ClientsContract
<1>3. ASSUME NEW t \in Tasks, Advance(t) \/ \E r \in Reasons : StartFails(t, r)
      PROVE  ClientInv' /\ Promised
  BY <1>1, <1>3, TasksContract, SilentStep, ToldStep
<1>4. ASSUME NEW f \in flights, NEW o \in Outcomes, ProbeEnds(f, o) PROVE ClientInv' /\ Promised
  BY <1>1, <1>4, ProbeEndsContract
<1>5. CASE \/ WakeUp \/ TimerFires \/ BackoffEnds \/ MasterDies \/ HostCalms
           \/ (\E l \in {"busy", "broken"} : Degrade(l)) \/ UNCHANGED vars
  BY <1>1, <1>5, WorldContract
<1> QED BY <1>2, <1>3, <1>4, <1>5 DEF Next

LEMMA AlwaysClientInv == Spec => []ClientInv
<1>1. Init => ClientInv
  BY ContractInit
<1>2. Inv /\ ClientInv /\ [Next]_vars => ClientInv'
  BY ContractStep
<1> QED BY <1>1, <1>2, AlwaysInv, PTL DEF Spec

(* The supervisor implements the execution contract: a command begins at    *)
(* most once unless its caller declared it idempotent, at most twice then,  *)
(* and no answer claims more than is known of what it did, whatever fails,  *)
(* is cancelled, replaced or repeated around it.                            *)
THEOREM SupervisorKeepsContract == Spec => ContractKept
<1>1. Init => Contract!Init
  BY ContractInit
<1>2. Inv /\ ClientInv /\ [Next]_vars => [Contract!Next]_(Contract!vars)
  BY ContractStep DEF Promised
<1> QED BY <1>1, <1>2, AlwaysInv, AlwaysClientInv, PTL DEF Spec, ContractKept, Contract!Spec

=============================================================================
