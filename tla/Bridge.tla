-------------------------------- MODULE Bridge --------------------------------
(***************************************************************************)
(* A bridge (run_bridge of transport.py) keeps a local listener and a       *)
(* remote service alive over a ControlMaster that is replaced under it.     *)
(*                                                                         *)
(* One process at a time: a bridge that ended or was killed may be started  *)
(* again.  Its main thread runs the steps below one after the other; the    *)
(* signal handler runs between any two of them.  The remote half is the     *)
(* shell wrapper of bridge_session_argv, which outlives its bridge until it *)
(* sees the end of its standard input.                                      *)
(*                                                                         *)
(* A definition that nothing uses and that stands right before one with the *)
(* same parameters is a mutant: that definition with a plausible bug in it, *)
(* which one of the properties must notice.                                 *)
(***************************************************************************)
EXTENDS Naturals

CONSTANTS
    Sessions,   \* the service channels that exist on the remote host at once
    NoSession,
    MaxDelay,   \* the cap of the retry delay (30 seconds in the code)
    MaxFaults   \* bound on what goes wrong outside the bridge

ASSUME SessionsAssumption == NoSession \notin Sessions
ASSUME NumbersAssumption == MaxDelay \in Nat \ {0} /\ MaxFaults \in Nat

VARIABLES
    \* The bridge's process
    pc, lease, registered, child, delay,
    stop,       \* a SIGTERM or SIGINT has been handled
    \* The ControlMaster
    master,     \* "up" or "down"
    forward,    \* it listens on the bridge's local port
    \* The service channels
    remote,     \* the wrapper: none, locking, serving, or over
    cut,        \* its standard input has ended, or will be found to
    lost,       \* the child's channel went down with its master
    \* Bounds and history
    faults,
    mishap      \* a control command timed out and no later one has made up for it

locals == <<lease, registered, child, delay>>
masterVars == <<master, forward>>
channels == <<remote, cut, lost>>
bounds == <<faults, mishap>>
vars == <<pc, locals, stop, masterVars, channels, bounds>>

Init ==
    /\ pc = "off" /\ stop = FALSE
    /\ lease = FALSE /\ registered = FALSE /\ child = NoSession /\ delay = 1
    /\ master \in {"up", "down"} /\ forward = FALSE
    /\ remote = [s \in Sessions |-> "none"] /\ cut = [s \in Sessions |-> FALSE]
    /\ lost = FALSE
    /\ faults = 0 /\ mishap = FALSE

-----------------------------------------------------------------------------
(* ssh -O cancel and -O forward.  They fail without a master; and one that  *)
(* takes ten seconds is killed, whether or not the master has obeyed it.    *)

ControlTimesOut(effect) ==
    /\ faults < MaxFaults /\ faults' = faults + 1
    /\ mishap' = TRUE
    /\ forward' \in {forward, effect}

CancelForward ==
    \/ /\ forward' = FALSE /\ mishap' = FALSE
       /\ UNCHANGED <<master, faults>>
    \/ /\ master = "up" /\ ControlTimesOut(FALSE)
       /\ UNCHANGED master

Fault == faults < MaxFaults /\ faults' = faults + 1 /\ UNCHANGED mishap

(* The end of a child's standard input, which ssh passes on to the remote   *)
(* side of the channel: it is the lease of the remote service.              *)
NoPipe(s) == cut
StdinEnds(s) == [r \in Sessions |-> cut[r] \/ r = s]

-----------------------------------------------------------------------------
(* The main thread.                                                         *)

Start ==
    /\ pc = "off"
    /\ pc' = "leasing"
    /\ stop' = FALSE /\ delay' = 1
    /\ UNCHANGED <<lease, registered, child, masterVars, channels, bounds>>

GetLease ==
    /\ pc = "leasing"
    /\ lease' = TRUE
    /\ pc' = "cleaning"
    /\ UNCHANGED <<registered, child, delay, stop, masterVars, channels, bounds>>

(* No lease within a second: the stop event is looked at.                   *)
StopLeasing ==
    /\ pc = "leasing" /\ stop
    /\ pc' = "off"
    /\ UNCHANGED <<locals, stop, masterVars, channels, bounds>>

(* "A SIGKILL may have prevented a previous instance from cleaning up."     *)
CleanUp ==
    /\ pc = "cleaning"
    /\ CancelForward
    /\ pc' = "looping"
    /\ UNCHANGED <<locals, stop, channels>>

IgnoreStop ==
    /\ pc = "looping"
    /\ pc' = "forwarding"
    /\ UNCHANGED <<locals, stop, masterVars, channels, bounds>>

LookAtStop ==
    /\ pc = "looping"
    /\ pc' = IF stop THEN "leaving" ELSE "forwarding"
    /\ UNCHANGED <<locals, stop, masterVars, channels, bounds>>

Register ==
    /\ pc = "forwarding" /\ master = "up"
    /\ forward' = TRUE /\ registered' = TRUE
    /\ pc' = "spawning"
    /\ UNCHANGED <<lease, child, delay, stop, master, channels, bounds>>

(* There is no master, the port is taken, or the command times out.         *)
FailToRegister ==
    /\ pc = "forwarding"
    /\ \/ master = "down" /\ UNCHANGED <<forward, bounds>>
       \/ Fault /\ UNCHANGED forward
       \/ master = "up" /\ ControlTimesOut(TRUE)
    /\ pc' = "retrying"
    /\ UNCHANGED <<locals, stop, master, channels>>

(* Popen starts ssh, which ends at once if there is no master or the server *)
(* refuses the session.                                                     *)
Spawn ==
    /\ pc = "spawning"
    /\ pc' = "spawned"
    /\ \/ /\ (master = "down" /\ UNCHANGED bounds) \/ Fault
          /\ lost' = TRUE
          /\ UNCHANGED <<child, remote, cut>>
       \/ /\ master = "up"
          /\ \E s \in Sessions :
                /\ remote[s] = "none"
                /\ child' = s
                /\ remote' = [remote EXCEPT ![s] = "locking"]
                /\ cut' = [cut EXCEPT ![s] = FALSE]
          /\ UNCHANGED <<lost, bounds>>
    /\ UNCHANGED <<lease, registered, delay, stop, masterVars>>

(* Popen raises: the forward is cancelled, and the bridge ends in error.    *)
FailToSpawn ==
    /\ pc = "spawning" /\ Fault
    /\ pc' = "unwinding"
    /\ UNCHANGED <<locals, stop, masterVars, channels>>

(* The handler knows the child once Popen has returned and the variable is  *)
(* assigned.                                                                *)
Wait ==
    /\ pc = "spawned"
    /\ pc' = "serving"
    /\ UNCHANGED <<locals, stop, masterVars, channels, bounds>>

ChildEnded == lost \/ (child # NoSession /\ remote[child] = "over")

WaitReturns ==
    /\ pc = "serving" /\ ChildEnded
    /\ pc' = "cancelling"
    /\ child' = NoSession /\ lost' = FALSE
    /\ remote' = [s \in Sessions |-> IF remote[s] = "over" THEN "none" ELSE remote[s]]
    /\ UNCHANGED <<lease, registered, delay, stop, masterVars, cut, bounds>>

KeepListener ==
    /\ pc \in {"cancelling", "unwinding"}
    /\ registered' = FALSE
    /\ pc' = IF pc = "cancelling" THEN "deciding" ELSE "leaving"
    /\ UNCHANGED <<lease, child, delay, stop, masterVars, channels, bounds>>

Cancel ==
    /\ pc \in {"cancelling", "unwinding"}
    /\ CancelForward
    /\ registered' = FALSE
    /\ pc' = IF pc = "cancelling" THEN "deciding" ELSE "leaving"
    /\ UNCHANGED <<lease, child, delay, stop, channels>>

(* A service that ran for a minute resets the delay.                        *)
Decide ==
    /\ pc = "deciding"
    /\ \/ stop /\ pc' = "leaving" /\ UNCHANGED delay
       \/ ~stop /\ pc' = "retrying" /\ delay' \in {delay, 1}
    /\ UNCHANGED <<lease, registered, child, stop, masterVars, channels, bounds>>

Twice(d) == 2 * d
Backoff(d) == IF 2 * d < MaxDelay THEN 2 * d ELSE MaxDelay

GiveUp ==
    /\ pc = "retrying"
    /\ pc' = "leaving"
    /\ UNCHANGED <<locals, stop, masterVars, channels, bounds>>

(* The wait ends with the delay, or at once when the stop event is set.     *)
Retry ==
    /\ pc = "retrying"
    /\ \/ stop /\ pc' = "leaving" /\ UNCHANGED delay
       \/ ~stop /\ pc' = "looping" /\ delay' = Backoff(delay)
    /\ UNCHANGED <<lease, registered, child, stop, masterVars, channels, bounds>>

Leave ==
    /\ pc = "leaving"
    /\ lease' = FALSE
    /\ pc' = "off"
    /\ UNCHANGED <<registered, child, delay, stop, masterVars, channels, bounds>>

MainThread ==
    \/ GetLease \/ StopLeasing \/ CleanUp \/ LookAtStop
    \/ Register \/ FailToRegister \/ Spawn \/ FailToSpawn \/ Wait \/ WaitReturns
    \/ Cancel \/ Decide \/ Retry \/ Leave

-----------------------------------------------------------------------------
(* Signals.                                                                 *)

RelaySignal ==
    /\ pc # "off"
    /\ stop' = TRUE
    /\ cut' = IF pc = "serving" THEN StdinEnds(child) ELSE cut
    /\ UNCHANGED <<pc, locals, masterVars, remote, lost, bounds>>

(* SIGKILL: the kernel drops the lock and the pipe, and nobody cancels the  *)
(* forward.                                                                 *)
Kill ==
    /\ pc # "off" /\ Fault
    /\ pc' = "off" /\ stop' = FALSE
    /\ lease' = FALSE /\ registered' = FALSE /\ child' = NoSession /\ lost' = FALSE
    /\ cut' = StdinEnds(child)
    /\ remote' = [s \in Sessions |-> IF remote[s] = "over" THEN "none" ELSE remote[s]]
    /\ UNCHANGED <<delay, masterVars>>

-----------------------------------------------------------------------------
(* The master and the remote host.                                          *)

MasterDies ==
    /\ master = "up" /\ Fault
    /\ master' = "down" /\ forward' = FALSE
    /\ lost' = (lost \/ pc \in {"spawned", "serving"})
    /\ cut' = [s \in Sessions |-> cut[s] \/ remote[s] \in {"locking", "serving"}]
    /\ UNCHANGED <<pc, locals, stop, remote>>

MasterReturns ==
    /\ master = "down" /\ master' = "up"
    /\ UNCHANGED <<pc, locals, stop, forward, channels, bounds>>

(* The wrapper waits for the lock of its port, and starts the service.      *)
TakeLock(s) ==
    /\ remote[s] = "locking"
    /\ \A r \in Sessions : remote[r] # "serving"
    /\ remote' = [remote EXCEPT ![s] = "serving"]
    /\ UNCHANGED <<pc, locals, stop, masterVars, cut, lost, bounds>>

(* The service ends; nobody is told if its channel is gone.                 *)
ServiceEnds(s) ==
    /\ remote[s] = "serving"
    /\ remote' = [remote EXCEPT ![s] = IF s = child THEN "over" ELSE "none"]
    /\ UNCHANGED <<pc, locals, stop, masterVars, cut, lost, bounds>>

(* The wrapper's guard reads the end of its input, and terminates it.       *)
Guard(s) == cut[s] /\ ServiceEnds(s)

Next ==
    \/ Start \/ MainThread \/ RelaySignal \/ Kill
    \/ MasterDies \/ MasterReturns
    \/ \E s \in Sessions : TakeLock(s) \/ ServiceEnds(s)

Spec == Init /\ [][Next]_vars

(* The main thread goes on whenever it can, the remote shell takes a lock   *)
(* that is free, and a service that is terminated ends.  Nothing is assumed *)
(* of the master, of services that run, or of whoever starts bridges.       *)
Fairness ==
    /\ WF_vars(MainThread)
    /\ \A s \in Sessions : WF_vars(TakeLock(s)) /\ WF_vars(Guard(s))

FairSpec == Spec /\ Fairness

-----------------------------------------------------------------------------
(***************************************************************************)
(* Properties                                                              *)
(***************************************************************************)

Steps == {"off", "leasing", "cleaning", "looping", "forwarding", "spawning", "spawned",
          "serving", "cancelling", "unwinding", "deciding", "retrying", "leaving"}

(* Every variable holds a value of its type.                                *)
TypeOK ==
    /\ pc \in Steps /\ stop \in BOOLEAN
    /\ lease \in BOOLEAN /\ registered \in BOOLEAN
    /\ child \in Sessions \cup {NoSession} /\ delay \in 1..MaxDelay
    /\ master \in {"up", "down"} /\ forward \in BOOLEAN
    /\ remote \in [Sessions -> {"none", "locking", "serving", "over"}]
    /\ cut \in [Sessions -> BOOLEAN] /\ lost \in BOOLEAN
    /\ faults \in 0..MaxFaults /\ mishap \in BOOLEAN

Cleaned == pc \notin {"off", "leasing", "cleaning"}

(* "The listener is removed whenever the remote command exits"              *)
(* (README.md:426-427): once a bridge has cleaned up after its predecessor, *)
(* a listener is one that it has registered and will cancel, unless a       *)
(* control command timed out.                                               *)
ListenerAccounted == forward /\ Cleaned => registered \/ mishap

(* "A private stdin lease also stops the remote process when the bridge or  *)
(* SSH transport disappears" (README.md:427-428).                           *)
OrphansEnd ==
    \A s \in Sessions : remote[s] = "serving" /\ s # child ~> remote[s] # "serving"

Serving == child # NoSession /\ remote[child] = "serving" /\ ~lost

(* A bridge that is left alone, with a master that stays, gets its service  *)
(* running again, whatever happened before: services that exit, hard        *)
(* disconnects, orphans that hold the remote lock (README.md:428-437).      *)
ServiceRestored ==
    \A n \in 0..MaxFaults :
        /\ lease /\ ~stop /\ pc \notin {"unwinding", "leaving"}
        /\ master = "up" /\ faults = n
        ~> Serving \/ stop \/ faults # n

(* A stop that is requested while the bridge waits, or while its child is   *)
(* known, ends it (transport.py:618-621, 579-582).                          *)
StopHeard ==
    /\ stop /\ pc \in {"leasing", "cleaning", "looping", "deciding", "retrying"} ~> pc = "off"
    /\ \A s \in Sessions :
          stop /\ pc = "serving" /\ child = s /\ cut[s] ~> pc = "off"

=============================================================================
