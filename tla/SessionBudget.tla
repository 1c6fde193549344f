---------------------------- MODULE SessionBudget ----------------------------
(***************************************************************************)
(* The session budget of one ControlMaster (lease.py), and the queue that  *)
(* admits the gateway's operations to it (_SessionSlots of supervisor.py). *)
(*                                                                         *)
(* A session is allowed while an flock is held on one of the files of the  *)
(* lease directory.  Three kinds of actors compete for the files: the      *)
(* operations of the running gateway, which share one event loop, bridge   *)
(* processes, and the gateway's health probes.  Nobody arbitrates: each    *)
(* actor scans the files of its own pool, one non-blocking flock at a      *)
(* time, and the pools overlap because they are computed from max_sessions *)
(* by arithmetic alone.                                                    *)
(*                                                                         *)
(* A definition that nothing uses and that stands right before one with the *)
(* same parameters is a mutant: that definition with a plausible bug in it, *)
(* which one of the properties must notice.                                 *)
(***************************************************************************)
EXTENDS Integers, Sequences, FiniteSets, SequencesExt

CONSTANTS
    Ops,        \* operations that clients may ask of the gateway
    Bridges,    \* bridge processes
    Probers,    \* health probes the gateway may run
    Limits,     \* the values of max_sessions gateways and bridges are run with
    MaxStarts   \* bound: how many times a gateway is started

ASSUME LimitsAssumption == Limits \subseteq Nat /\ \A m \in Limits : m >= 2
ASSUME StartsAssumption == MaxStarts \in Nat
ASSUME ActorsAssumption ==
    /\ IsFiniteSet(Ops) /\ IsFiniteSet(Bridges)
    /\ Ops \cap Bridges = {}
    /\ Probers \cap (Ops \cup Bridges) = {}

Actors == Ops \cup Bridges \cup Probers

VARIABLES
    budget,     \* max_sessions of the running gateway; 0 while none runs
    published,  \* contents of the max-sessions file; 0 before any gateway
    view,       \* the max_sessions each bridge read when it started
    pc,         \* "idle", "waiting" (polling or queued) or "holding"
    scan,       \* the index of its pool an actor tries next
    lease,      \* the file each actor has locked
    queue,      \* the waiters of _SessionSlots._head, the lock's holder first
    waiting,    \* _SessionSlots.waiting
    active,     \* _SessionSlots.active
    ahead,      \* history: who waited when an operation arrived, and still does
    starts      \* gateways started so far

poolVars == <<pc, scan, lease>>
slotVars == <<queue, waiting, active, ahead>>
gatewayVars == <<budget, published, starts>>
vars == <<gatewayVars, view, poolVars, slotVars>>

NoFile == <<"none", 0>>

(* The pools.  operations() and bridges() give prefixes of the same list of *)
(* files; probes() has a file of its own, which does not depend on the      *)
(* budget.                                                                  *)
BridgesTakeAll(m) == m - 1
BridgePoolSize(m) == m - 2

OneSlotTooMany(p) ==
    CASE p \in Ops     -> budget
      [] p \in Bridges -> BridgePoolSize(view[p])
      [] OTHER         -> 1

PoolSize(p) ==
    CASE p \in Ops     -> budget - 1
      [] p \in Bridges -> BridgePoolSize(view[p])
      [] OTHER         -> 1

ProbeSharesPool(p, i) == <<"slot", i>>
File(p, i) == IF p \in Probers THEN <<"probe", i>> ELSE <<"slot", i>>

Candidate(p) == File(p, scan[p])
Locked(f) == \E p \in Actors : lease[p] = f

(* asyncio runs one gateway task at a time, and a scan has no await in it:  *)
(* while an operation is in the middle of one, no other gateway task moves. *)
LoopIsFree == \A o \in Ops : scan[o] = 0

Init ==
    /\ budget = 0 /\ published = 0 /\ starts = 0
    /\ view = [b \in Bridges |-> 0]
    /\ pc = [p \in Actors |-> "idle"]
    /\ scan = [p \in Actors |-> 0]
    /\ lease = [p \in Actors |-> NoFile]
    /\ queue = <<>> /\ waiting = 0 /\ active = 0
    /\ ahead = [o \in Ops |-> {}]

-----------------------------------------------------------------------------
(* One step of SessionLeasePool._try_acquire: the flock of the next file is *)
(* refused, and the scan moves on.  After the last file the actor sleeps    *)
(* for 50 ms and starts again from the first one.                           *)

Polls(p) ==
    /\ pc[p] = "waiting"
    /\ p \in Ops => Head(queue) = p
    /\ p \in Probers => LoopIsFree

TriesFirstFileOnly(p) ==
    /\ Polls(p)
    /\ Locked(Candidate(p))
    /\ UNCHANGED vars

FileBusy(p) ==
    /\ Polls(p)
    /\ Locked(Candidate(p))
    /\ scan' = [scan EXCEPT ![p] = IF scan[p] + 1 < PoolSize(p) THEN scan[p] + 1 ELSE 0]
    /\ UNCHANGED <<gatewayVars, view, pc, lease, slotVars>>

(* The flock is granted: the actor holds the file until it releases it.     *)
TakeFile(p) ==
    /\ Polls(p)
    /\ ~Locked(Candidate(p))
    /\ lease' = [lease EXCEPT ![p] = Candidate(p)]
    /\ pc' = [pc EXCEPT ![p] = "holding"]
    /\ scan' = [scan EXCEPT ![p] = 0]

(* Leave the pool, closing the handle if one is held.                       *)
Leave(p) ==
    /\ pc' = [pc EXCEPT ![p] = "idle"]
    /\ lease' = [lease EXCEPT ![p] = NoFile]
    /\ scan' = [scan EXCEPT ![p] = 0]

-----------------------------------------------------------------------------
(* Gateway operations: _SessionSlots.hold.                                  *)

OpArrive(o) ==
    /\ budget # 0 /\ LoopIsFree
    /\ pc[o] = "idle"
    /\ pc' = [pc EXCEPT ![o] = "waiting"]
    /\ queue' = Append(queue, o)
    /\ waiting' = waiting + 1
    /\ ahead' = [ahead EXCEPT ![o] = {q \in Ops : pc[q] = "waiting"}]
    /\ UNCHANGED <<gatewayVars, view, scan, lease, active>>

(* Nobody is behind o any more, and o is behind nobody.                     *)
WaitsNoMore(o) == ahead' = [q \in Ops |-> IF q = o THEN {} ELSE ahead[q] \ {o}]

OpAcquire(o) ==
    /\ TakeFile(o)
    /\ queue' = Tail(queue)
    /\ waiting' = waiting - 1
    /\ active' = active + 1
    /\ WaitsNoMore(o)
    /\ UNCHANGED <<gatewayVars, view>>

GiveUpLastPlace(o) == queue' = Front(queue)
GiveUpPlace(o) ==
    \E i \in DOMAIN queue : queue[i] = o /\ queue' = RemoveAt(queue, i)

OpTimeoutCountsTwice(o) ==
    /\ LoopIsFree
    /\ pc[o] = "waiting"
    /\ Leave(o)
    /\ GiveUpPlace(o)
    /\ waiting' = waiting - 2
    /\ WaitsNoMore(o)
    /\ UNCHANGED <<gatewayVars, view, active>>

(* The deadline passes, or the client goes away, at any place in the queue. *)
OpTimeout(o) ==
    /\ LoopIsFree
    /\ pc[o] = "waiting"
    /\ Leave(o)
    /\ GiveUpPlace(o)
    /\ waiting' = waiting - 1
    /\ WaitsNoMore(o)
    /\ UNCHANGED <<gatewayVars, view, active>>

OpFinish(o) ==
    /\ LoopIsFree
    /\ pc[o] = "holding"
    /\ Leave(o)
    /\ active' = active - 1
    /\ UNCHANGED <<gatewayVars, view, queue, waiting, ahead>>

-----------------------------------------------------------------------------
(* Health probes: OpenSshTransport.probe.  A wait that lasts probe_timeout  *)
(* ends in the outcome "slow".                                              *)

ProbeStart(r) ==
    /\ budget # 0 /\ LoopIsFree
    /\ pc[r] = "idle"
    /\ pc' = [pc EXCEPT ![r] = "waiting"]
    /\ UNCHANGED <<gatewayVars, view, scan, lease, slotVars>>

ProbeAcquire(r) ==
    /\ TakeFile(r)
    /\ UNCHANGED <<gatewayVars, view, slotVars>>

(* The probe session ends, or the wait for the probe file times out.        *)
ProbeEnd(r) ==
    /\ LoopIsFree
    /\ pc[r] # "idle"
    /\ Leave(r)
    /\ UNCHANGED <<gatewayVars, view, slotVars>>

-----------------------------------------------------------------------------
(* Bridges: run_bridge reads the published budget once, takes a lease for   *)
(* its lifetime, and may be stopped or killed at any time.                  *)

BridgeStart(b, default) ==
    LET m == IF published # 0 THEN published ELSE default IN
    /\ pc[b] = "idle"
    /\ m >= 3
    /\ view' = [view EXCEPT ![b] = m]
    /\ pc' = [pc EXCEPT ![b] = "waiting"]
    /\ UNCHANGED <<gatewayVars, scan, lease, slotVars>>

BridgeAcquire(b) ==
    /\ TakeFile(b)
    /\ UNCHANGED <<gatewayVars, view, slotVars>>

BridgeExit(b) ==
    /\ pc[b] # "idle"
    /\ Leave(b)
    /\ UNCHANGED <<gatewayVars, view, slotVars>>

-----------------------------------------------------------------------------
(* The gateway process.  Whether it stops or is killed, the kernel drops    *)
(* every lock it held; bridges keep theirs, and the published file stays.   *)

GatewayStart(m) ==
    /\ budget = 0 /\ starts < MaxStarts
    /\ budget' = m
    /\ published' = m
    /\ starts' = starts + 1
    /\ UNCHANGED <<view, poolVars, slotVars>>

GatewayExit ==
    /\ budget # 0
    /\ budget' = 0
    /\ pc' = [p \in Actors |-> IF p \in Bridges THEN pc[p] ELSE "idle"]
    /\ scan' = [p \in Actors |-> IF p \in Bridges THEN scan[p] ELSE 0]
    /\ lease' = [p \in Actors |-> IF p \in Bridges THEN lease[p] ELSE NoFile]
    /\ queue' = <<>> /\ waiting' = 0 /\ active' = 0
    /\ ahead' = [o \in Ops |-> {}]
    /\ UNCHANGED <<published, starts, view>>

-----------------------------------------------------------------------------
Next ==
    \/ \E o \in Ops : OpArrive(o) \/ OpAcquire(o) \/ OpTimeout(o) \/ OpFinish(o)
    \/ \E r \in Probers : ProbeStart(r) \/ ProbeAcquire(r) \/ ProbeEnd(r)
    \/ \E b \in Bridges :
          \/ \E m \in Limits : BridgeStart(b, m)
          \/ BridgeAcquire(b) \/ BridgeExit(b)
    \/ \E p \in Actors : FileBusy(p)
    \/ \E m \in Limits : GatewayStart(m)
    \/ GatewayExit

Spec == Init /\ [][Next]_vars

(* The operation at the head keeps trying files, whatever it finds of each. *)
(* Nothing else is assumed: not of bridges or clients, not of the deadlines *)
(* of the queue, and not that an operation ends.  Its deadline does not     *)
(* promise that, because the wait for the readers of its output that        *)
(* follows has none (process.py:51-52, 91).                                 *)
Fairness == \A o \in Ops : WF_vars(OpAcquire(o) \/ FileBusy(o))

FairSpec == Spec /\ Fairness

-----------------------------------------------------------------------------
(***************************************************************************)
(* Properties                                                              *)
(***************************************************************************)

(* Every variable holds a value of its type.                                *)
TypeOK ==
    /\ budget \in Limits \cup {0} /\ published \in Limits \cup {0}
    /\ starts \in 0..MaxStarts
    /\ view \in [Bridges -> Limits \cup {0}]
    /\ pc \in [Actors -> {"idle", "waiting", "holding"}]
    /\ scan \in [Actors -> Nat]
    /\ lease \in [Actors -> {NoFile} \cup ({"slot", "probe"} \X Nat)]
    /\ queue \in Seq(Ops)
    /\ waiting \in Nat /\ active \in Nat
    /\ ahead \in [Ops -> SUBSET Ops]

(* No two actors hold the same file, whichever process they live in and     *)
(* whichever budget they computed their pool from (lease.py:81-92).         *)
LeaseExclusive ==
    \A p, q \in Actors : p # q /\ lease[p] # NoFile => lease[p] # lease[q]

SessionHolders == {p \in Ops \cup Bridges : pc[p] = "holding"}
InForce == {budget} \cup {view[b] : b \in {c \in Bridges : pc[c] = "holding"}}

(* Operations and bridges together never hold more sessions than the        *)
(* largest budget in force allows beside the probe's (lease.py:107-118),    *)
(* across restarts of the gateway with another max_sessions while bridges   *)
(* live on.                                                                 *)
SessionsWithinBudget ==
    \A m \in Limits :
        (\A k \in InForce : k <= m) => Cardinality(SessionHolders) < m

(* "Bridges may not take the last of them, so long-lived bridges can never  *)
(* starve gateway operations" (lease.py:115-117, 155-160): while no bridge  *)
(* counts on a larger budget than the gateway's.  A gateway restarted with  *)
(* a smaller max_sessions under a living bridge has no such promise.        *)
BridgesLeaveRoom ==
    budget # 0 /\ (\A k \in InForce : k <= budget) =>
        \E i \in 0..(budget - 2) : \A b \in Bridges : lease[b] # <<"slot", i>>

(* The counters that status reports, and that the timeout message quotes,   *)
(* agree with who waits and who holds, through timeouts, cancellations and  *)
(* restarts (supervisor.py:84-96).                                          *)
CountersExact ==
    /\ waiting = Cardinality({o \in Ops : pc[o] = "waiting"})
    /\ active = Cardinality({o \in Ops : pc[o] = "holding"})

(* A probe that finds its file locked was crowded out by another probe,     *)
(* never by ordinary work filling the budget (lease.py:112-115).            *)
ProbesWaitForProbesOnly ==
    \A r \in Probers : pc[r] = "waiting" /\ Locked(Candidate(r)) =>
        \E s \in Probers : lease[s] = Candidate(r)

(* Operations start in the order they arrived (supervisor.py:62-68): when   *)
(* one is admitted, nobody who was waiting before it came still waits,      *)
(* whoever left the queue in between, at whatever place.                    *)
ArrivalOrder ==
    [][\A o \in Ops : pc[o] = "waiting" /\ pc'[o] = "holding" => ahead[o] = {}]_vars

(* No operation keeps for ever the one slot that bridges cannot take.       *)
LastSlotComesBack == []<>(\A o \in Ops : lease[o] # <<"slot", budget - 2>>)

(* One slot that comes back is enough: an operation that waits is admitted, *)
(* leaves or loses its gateway, even if no deadline ever expires, no bridge *)
(* ever ends, and every other slot is lost to an operation whose process    *)
(* group cannot be cleaned up, as long as the bridges share the gateway's   *)
(* view of the budget (supervisor.py:77-96, lease.py:115-117).              *)
OperationAdmitted ==
    LastSlotComesBack =>
        \A o \in Ops :
            pc[o] = "waiting" ~> pc[o] # "waiting" \/ \E k \in InForce : k > budget

=============================================================================
