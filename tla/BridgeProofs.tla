----------------------------- MODULE BridgeProofs -----------------------------
(***************************************************************************)
(* Proofs about the bridge, for any number of service channels and faults:  *)
(* type correctness; a listener is accounted for; and the safety half of    *)
(* OrphansEnd, which TLC checks: whichever way a bridge leaves a remote      *)
(* wrapper behind, the wrapper's standard input has ended.                  *)
(***************************************************************************)
EXTENDS Bridge, TLAPS

(* What the numbers are.                                                    *)
LEMMA Bounds == MaxDelay \in Nat /\ MaxDelay >= 1 /\ MaxFaults \in Nat
BY NumbersAssumption

(* The numbers keep their bounds: the delay doubles up to its cap.          *)
Numbers == delay \in 1..MaxDelay /\ faults \in 0..MaxFaults

LEMMA NextNumbers ==
    ASSUME Numbers, [Next]_vars PROVE Numbers'
<1> USE Bounds DEF Numbers, locals, bounds
<1>1. CASE Start \/ GetLease \/ StopLeasing \/ LookAtStop
  BY <1>1 DEF Start, GetLease, StopLeasing, LookAtStop
<1>0. ASSUME UNCHANGED faults \/ (faults < MaxFaults /\ faults' = faults + 1),
             UNCHANGED delay
      PROVE  Numbers'
  BY <1>0
<1>2. CASE CleanUp \/ Cancel
  BY <1>0, <1>2, Zenon DEF CleanUp, Cancel, CancelForward, ControlTimesOut
<1>3. CASE Register \/ FailToRegister
  BY <1>0, <1>3, Zenon DEF Register, FailToRegister, ControlTimesOut, Fault
<1>4. CASE Spawn \/ FailToSpawn \/ Wait \/ WaitReturns
  BY <1>4 DEF Spawn, FailToSpawn, Wait, WaitReturns, Fault
<1>5. CASE Decide \/ Retry \/ Leave
  BY <1>5 DEF Decide, Retry, Leave, Backoff
<1>6. CASE RelaySignal \/ Kill \/ MasterDies \/ MasterReturns
  BY <1>6 DEF RelaySignal, Kill, MasterDies, MasterReturns, Fault
<1>7. CASE \E s \in Sessions : TakeLock(s) \/ ServiceEnds(s)
  BY <1>7 DEF TakeLock, ServiceEnds
<1>8. CASE UNCHANGED vars
  BY <1>8 DEF vars
<1> QED BY <1>1, <1>2, <1>3, <1>4, <1>5, <1>6, <1>7, <1>8 DEF Next, MainThread

(* A bridge begins with nothing, whatever the master's state.               *)
LEMMA InitTypeOK == Init => TypeOK
<1> SUFFICES ASSUME Init PROVE TypeOK
  OBVIOUS
<1>1. Numbers
  BY Bounds DEF Init, Numbers
<1> QED BY <1>1 DEF Init, TypeOK, Steps, Numbers

(* What ssh -O cancel leaves, in time or not.                               *)
LEMMA CancelFacts ==
    ASSUME TypeOK, CancelForward
    PROVE  /\ UNCHANGED master
           /\ forward' \in BOOLEAN /\ mishap' \in BOOLEAN
           /\ forward' => mishap'
BY DEF TypeOK, CancelForward, ControlTimesOut

(* The steps of the main thread keep the types.                             *)
LEMMA MainThreadType == ASSUME TypeOK, Numbers', MainThread \/ Start PROVE TypeOK'
<1> USE DEF Numbers, TypeOK, Steps, locals, masterVars, channels, bounds
<1>1. CASE Start
  BY <1>1 DEF Start
<1>2. CASE GetLease \/ StopLeasing \/ LookAtStop
  BY <1>2 DEF GetLease, StopLeasing, LookAtStop
<1>3. CASE CleanUp
  BY <1>3, CancelFacts DEF CleanUp
<1>4. CASE Register
  BY <1>4 DEF Register
<1>5. CASE FailToRegister
  BY <1>5 DEF FailToRegister, ControlTimesOut, Fault
<1>6. CASE Spawn
  BY <1>6 DEF Spawn, Fault
<1>7. CASE FailToSpawn
  BY <1>7 DEF FailToSpawn, Fault
<1>8. CASE Wait
  BY <1>8 DEF Wait
<1>9. CASE WaitReturns
  BY <1>9 DEF WaitReturns
<1>10. CASE Cancel
  BY <1>10, CancelFacts DEF Cancel
<1>11. CASE Decide \/ Retry \/ Leave
  BY <1>11 DEF Decide, Retry, Leave
<1> QED
  BY <1>1, <1>2, <1>3, <1>4, <1>5, <1>6, <1>7, <1>8, <1>9, <1>10, <1>11 DEF MainThread

(* So do signals, the master and the remote host.                           *)
LEMMA NextType == ASSUME TypeOK, [Next]_vars PROVE TypeOK'
<1>0. Numbers'
  BY NextNumbers DEF TypeOK, Numbers
<1> USE <1>0 DEF Numbers, TypeOK, locals, masterVars, channels, bounds
<1>1. CASE Start \/ MainThread
  BY <1>1, MainThreadType
<1>2. CASE RelaySignal
  BY <1>2 DEF RelaySignal, StdinEnds
<1>3. CASE Kill
  BY <1>3 DEF Kill, StdinEnds, Fault, Steps
<1>4. CASE MasterDies
  BY <1>4 DEF MasterDies, Fault
<1>5. CASE MasterReturns
  BY <1>5 DEF MasterReturns
<1>6. ASSUME NEW s \in Sessions, TakeLock(s) \/ ServiceEnds(s) PROVE TypeOK'
  BY <1>6 DEF TakeLock, ServiceEnds
<1>7. CASE UNCHANGED vars
  BY <1>7 DEF vars
<1> QED BY <1>1, <1>2, <1>3, <1>4, <1>5, <1>6, <1>7 DEF Next

(* Every variable of the bridge, its master and its channels keeps its type. *)
THEOREM BridgeTypeCorrect == Spec => []TypeOK
BY InitTypeOK, NextType, PTL DEF Spec

-----------------------------------------------------------------------------
(* A bridge cleans up before it loops, cancels before it decides or leaves, *)
(* and one that is killed leaves the listener to its successor's cleaning.  *)
LEMMA NextListener ==
    ASSUME TypeOK, ListenerAccounted, [Next]_vars PROVE ListenerAccounted'
<1> USE DEF TypeOK, ListenerAccounted, Cleaned, locals, masterVars, channels, bounds
<1>1. CASE Start \/ GetLease \/ StopLeasing \/ LookAtStop
  BY <1>1 DEF Start, GetLease, StopLeasing, LookAtStop
<1>2. CASE CleanUp \/ Cancel
  BY <1>2, CancelFacts DEF CleanUp, Cancel
<1>3. CASE Register \/ FailToRegister
  BY <1>3 DEF Register, FailToRegister, ControlTimesOut, Fault
<1>4. CASE Spawn \/ FailToSpawn \/ Wait \/ WaitReturns
  BY <1>4 DEF Spawn, FailToSpawn, Wait, WaitReturns, Fault
<1>5. CASE Decide \/ Retry \/ Leave
  BY <1>5 DEF Decide, Retry, Leave
<1>6. CASE RelaySignal \/ Kill \/ MasterDies \/ MasterReturns
  BY <1>6 DEF RelaySignal, Kill, MasterDies, MasterReturns, Fault
<1>7. ASSUME NEW s \in Sessions, TakeLock(s) \/ ServiceEnds(s)
      PROVE  ListenerAccounted'
  <2>1. UNCHANGED <<pc, locals, masterVars, bounds>>
    BY <1>7 DEF TakeLock, ServiceEnds
  <2> QED BY <2>1
<1>8. CASE UNCHANGED vars
  BY <1>8 DEF vars
<1> QED BY <1>1, <1>2, <1>3, <1>4, <1>5, <1>6, <1>7, <1>8 DEF Next, MainThread

(* "The listener is removed whenever the remote command exits"              *)
(* (README.md:426-427): a bridge that has cleaned up after its predecessor  *)
(* knows of every listener there is, but for control commands that timed    *)
(* out.                                                                     *)
THEOREM ListenersKnown == Spec => []ListenerAccounted
<1>1. Init => ListenerAccounted
  BY DEF Init, ListenerAccounted
<1> QED BY <1>1, BridgeTypeCorrect, NextListener, PTL DEF Spec

-----------------------------------------------------------------------------
(* The child's variable is set while its process is waited for, or is about *)
(* to be, and then its wrapper is there.  A child whose channel is gone has *)
(* lost its input with it, and the mark of a lost channel does not outlive  *)
(* the wait.                                                                *)
ChildInv ==
    /\ child # NoSession => pc \in {"spawned", "serving"} /\ remote[child] # "none"
    /\ lost => pc \in {"spawned", "serving"}
    /\ child # NoSession /\ lost => cut[child] \/ remote[child] = "over"

(* A wrapper that no bridge holds the input of has seen, or will find, its  *)
(* end; and only the child of a bridge is there to be waited for.           *)
OrphanCut ==
    /\ \A s \in Sessions : remote[s] \in {"locking", "serving"} /\ s # child => cut[s]
    /\ \A s \in Sessions : remote[s] = "over" => s = child

LeaseInv == ChildInv /\ OrphanCut

(* The steps of the main thread that touch a channel.                       *)
LEMMA ChannelSteps ==
    ASSUME TypeOK, LeaseInv, Spawn \/ WaitReturns \/ Kill PROVE LeaseInv'
<1> USE SessionsAssumption
        DEF TypeOK, LeaseInv, ChildInv, OrphanCut, locals, masterVars, channels, bounds
<1>1. CASE Spawn
  <2>1. child = NoSession /\ ~lost
    BY <1>1 DEF Spawn
  <2>2. CASE UNCHANGED <<child, remote, cut>>
    BY <1>1, <2>1, <2>2 DEF Spawn
  <2>3. ASSUME NEW s \in Sessions, remote[s] = "none", child' = s,
               remote' = [remote EXCEPT ![s] = "locking"],
               cut' = [cut EXCEPT ![s] = FALSE], UNCHANGED lost
        PROVE  LeaseInv'
    BY <1>1, <2>1, <2>3 DEF Spawn
  <2> QED BY <1>1, <2>2, <2>3 DEF Spawn
<1>2. CASE WaitReturns
  BY <1>2 DEF WaitReturns, ChildEnded
<1>3. CASE Kill
  BY <1>3 DEF Kill, StdinEnds
<1> QED BY <1>1, <1>2, <1>3

(* Every step keeps the leases of the channels.                             *)
LEMMA NextLeaseInv ==
    ASSUME TypeOK, LeaseInv, [Next]_vars PROVE LeaseInv'
<1> USE SessionsAssumption
        DEF TypeOK, LeaseInv, ChildInv, OrphanCut, locals, masterVars, channels, bounds
<1>1. CASE Spawn \/ WaitReturns \/ Kill
  BY <1>1, ChannelSteps
<1>0. ASSUME UNCHANGED <<child, channels>>,
             pc \in {"spawned", "serving"} => pc' \in {"spawned", "serving"}
      PROVE  LeaseInv'
  BY <1>0
<1>2. CASE Start \/ GetLease \/ StopLeasing \/ LookAtStop
  BY <1>0, <1>2 DEF Start, GetLease, StopLeasing, LookAtStop
<1>3. CASE CleanUp \/ Cancel
  BY <1>0, <1>3 DEF CleanUp, Cancel
<1>4. CASE Register \/ FailToRegister
  BY <1>0, <1>4 DEF Register, FailToRegister
<1>5. CASE FailToSpawn \/ Wait
  BY <1>0, <1>5 DEF FailToSpawn, Wait
<1>6. CASE Decide \/ Retry \/ Leave
  BY <1>0, <1>6 DEF Decide, Retry, Leave
<1>7. CASE RelaySignal
  BY <1>7 DEF RelaySignal, StdinEnds
<1>8. CASE MasterDies
  <2>1. ASSUME child # NoSession, lost' PROVE cut'[child] \/ remote[child] = "over"
    <3>1. CASE lost
      BY <1>8, <2>1, <3>1 DEF MasterDies
    <3>2. CASE remote[child] \in {"locking", "serving"}
      BY <1>8, <2>1, <3>2 DEF MasterDies
    <3> QED BY <2>1, <3>1, <3>2
  <2> QED BY <1>8, <2>1 DEF MasterDies
<1>9. CASE MasterReturns
  BY <1>9 DEF MasterReturns
<1>10. ASSUME NEW s \in Sessions, TakeLock(s) \/ ServiceEnds(s) PROVE LeaseInv'
  BY <1>10 DEF TakeLock, ServiceEnds
<1>11. CASE UNCHANGED vars
  BY <1>11 DEF vars
<1> QED
  BY <1>1, <1>2, <1>3, <1>4, <1>5, <1>6, <1>7, <1>8, <1>9, <1>10, <1>11
     DEF Next, MainThread

(* "A private stdin lease also stops the remote process when the bridge or  *)
(* SSH transport disappears" (README.md:427-428): in every state, whatever  *)
(* was killed, a remote wrapper that is not the bridge's child has no input *)
(* left, which is what its guard (transport.py:663-691) acts on.            *)
THEOREM OrphansAreCut == Spec => []OrphanCut
<1>1. Init => LeaseInv
  BY SessionsAssumption DEF Init, LeaseInv, ChildInv, OrphanCut
<1>2. LeaseInv => OrphanCut
  BY DEF LeaseInv
<1> QED BY <1>1, <1>2, BridgeTypeCorrect, NextLeaseInv, PTL DEF Spec

=============================================================================
