---------------------------- MODULE RequestProofs ----------------------------
(***************************************************************************)
(* What holds of requests, their slots and their process groups for any     *)
(* number of requests, slots and chunks: type correctness, SessionsCovered, *)
(* OutputExact.                                                             *)
(***************************************************************************)
EXTENDS Request, FiniteSetTheorems, TLAPS

InCleanup == {"stopping", "killing", "draining"}
WithGroup == InCleanup \cup {"running"}
Leaving == {"dropping", "gathering", "over"}

(* A handler that has not dispatched has no task, and only a handler that   *)
(* leaves cancels one.                                                      *)
HandlerInv(r) ==
    /\ client[r] = "away" => handler[r] = "none"
    /\ handler[r] \in {"none", "reading"} => task[r] = "none"
    /\ cancelling[r] \/ outcome[r] = "cancelled" => handler[r] \in Leaving
    /\ handler[r] = "waiting" /\ task[r] = "ended" => outcome[r] \in {"result", "error"}
    /\ task[r] \in InCleanup => outcome[r] \in {"error", "cancelled"}

(* A group is alive only while the task has it and holds the lease, unless  *)
(* it was abandoned.                                                        *)
GroupInv(r) ==
    /\ task[r] \in WithGroup \cup {"connecting"} => lease[r]
    /\ Alive(r) => r \in abandoned \/ (lease[r] /\ task[r] \in WithGroup)

(* What the reader keeps of what it has taken.                              *)
StreamInv(r) ==
    /\ kept[r] = IF taken[r] < Limit THEN taken[r] ELSE Limit
    /\ truncated[r] <=> taken[r] > Limit
    /\ taken[r] <= written[r]

(* A result exists only once the group has ended and the pipe is empty.     *)
ResultInv(r) ==
    /\ outcome[r] = "result" => task[r] = "ended"
    /\ outcome[r] = "result" \/ task[r] = "checking" => Eof(r)
    /\ answer[r] = "result" => outcome[r] = "result"

RequestInv(r) == HandlerInv(r) /\ GroupInv(r) /\ StreamInv(r) /\ ResultInv(r)

IInv == TypeOK /\ \A r \in Requests : RequestInv(r)

USE NumbersAssumption DEF InCleanup, WithGroup, Leaving

(* Nothing is asked of the gateway yet.                                     *)
LEMMA InitIInv == Init => IInv
<1> SUFFICES ASSUME Init PROVE IInv
  OBVIOUS
<1>1. TypeOK
  BY DEF Init, TypeOK
<1>2. ASSUME NEW r \in Requests PROVE RequestInv(r)
  <2>1. HandlerInv(r) /\ GroupInv(r) /\ ResultInv(r)
    BY <1>2 DEF Init, HandlerInv, GroupInv, ResultInv, Alive, Eof
  <2>2. StreamInv(r)
    BY <1>2 DEF Init, StreamInv
  <2> QED BY <2>1, <2>2 DEF RequestInv
<1> QED BY <1>1, <1>2 DEF IInv

(* The group's own steps, and the reader's.                                 *)
LEMMA SessionIInv ==
    ASSUME IInv, NEW r \in Requests, Session(r) \/ Reap(r) \/ Reading(r) PROVE IInv'
<1> USE DEF IInv, TypeOK, RequestInv, HandlerInv, GroupInv, StreamInv, ResultInv, Alive, Eof,
            others, outside, work, group, output
<1>1. CASE Fork(r)
  BY <1>1 DEF Fork
<1>2. CASE Write(r)
  BY <1>2 DEF Write
<1>3. CASE LeaderEnds(r)
  BY <1>3 DEF LeaderEnds, Leave
<1>4. CASE HelperEnds(r)
  BY <1>4 DEF HelperEnds, Leave
<1>5. CASE Reap(r)
  BY <1>5 DEF Reap
<1>6. CASE Reading(r)
  <2>1. PICK n \in 1..MaxOutput : Read(r, n)
    BY <1>6 DEF Reading
  <2>2. n \in Nat /\ n <= written[r] - taken[r]
    BY <2>1 DEF Read
  <2>3. TypeOK'
    <3>1. taken' \in [Requests -> Nat] /\ kept' \in [Requests -> Nat]
      BY <2>1, <2>2 DEF Read
    <3>2. truncated' \in [Requests -> BOOLEAN]
      <4>1. More(r, n) \in BOOLEAN
        BY DEF More
      <4> QED BY <2>1, <4>1 DEF Read
    <3> QED BY <2>1, <3>1, <3>2 DEF Read
  <2>4. ASSUME NEW q \in Requests PROVE RequestInv(q)'
    <3>1. CASE q = r
      <4>1. truncated'[r] <=> truncated[r] \/ n > Limit - kept[r]
        BY <2>1 DEF Read, More
      <4>2. taken'[r] = taken[r] + n /\ written'[r] = written[r]
        BY <2>1 DEF Read
      <4>3. kept'[r] = IF kept[r] + n < Limit THEN kept[r] + n ELSE Limit
        BY <2>1 DEF Read
      <4>4. StreamInv(r)'
        BY <4>1, <4>2, <4>3, <2>2
      <4>5. (HandlerInv(r) /\ GroupInv(r) /\ ResultInv(r))'
        BY <2>1, <2>2 DEF Read
      <4> QED BY <3>1, <4>4, <4>5
    <3>2. CASE q # r
      BY <2>1, <3>2 DEF Read
    <3> QED BY <3>1, <3>2
  <2> QED BY <2>3, <2>4
<1> QED BY <1>1, <1>2, <1>3, <1>4, <1>5, <1>6 DEF Session

(* Slot, connection, launch and the ordinary end of a session.              *)
LEMMA TaskIInv ==
    ASSUME IInv, NEW r \in Requests, Admission(r) \/ Running(r) PROVE IInv'
<1> USE DEF IInv, TypeOK, RequestInv, HandlerInv, GroupInv, StreamInv, ResultInv, Alive, Eof,
            others, outside, work, group, output, Steady, At, GoOn, End
<1>1. CASE Refuse(r)
  BY <1>1 DEF Refuse
<1>2. CASE Admit(r)
  BY <1>2 DEF Admit
<1>3. CASE ConnectFails(r)
  BY <1>3 DEF ConnectFails
<1>4. CASE Launch(r)
  <2>1. TypeOK'
    BY <1>4 DEF Launch
  <2>2. ASSUME NEW q \in Requests PROVE RequestInv(q)'
    <3>1. CASE q = r
      <4>1. kept'[r] = 0 /\ taken'[r] = 0 /\ written'[r] = 0 /\ ~truncated'[r]
        BY <1>4 DEF Launch
      <4>2. StreamInv(r)'
        BY <4>1
      <4>3. (HandlerInv(r) /\ GroupInv(r) /\ ResultInv(r))'
        BY <1>4 DEF Launch
      <4> QED BY <3>1, <4>2, <4>3
    <3>2. CASE q # r
      BY <1>4, <3>2 DEF Launch
    <3> QED BY <3>1, <3>2
  <2> QED BY <2>1, <2>2
<1>5. CASE Finish(r)
  <2>1. TypeOK'
    <3>1. UNCHANGED <<Steady, group, output, abandoned>>
      BY <1>5 DEF Finish
    <3>2. CASE End(r, "result")
      BY <3>1, <3>2
    <3>3. CASE /\ task' = [task EXCEPT ![r] = "checking"]
               /\ lease' = [lease EXCEPT ![r] = FALSE]
               /\ UNCHANGED <<outcome, replayed>>
      BY <3>1, <3>3
    <3> QED BY <1>5, <3>2, <3>3 DEF Finish
  <2>2. ASSUME NEW q \in Requests PROVE RequestInv(q)'
    <3>1. CASE q = r
      BY <1>5, <3>1 DEF Finish
    <3>2. CASE q # r
      BY <1>5, <3>2 DEF Finish
    <3> QED BY <3>1, <3>2
  <2> QED BY <2>1, <2>2
<1>6. CASE CheckEnds(r)
  <2>1. TypeOK'
    <3>1. UNCHANGED <<Steady, group, output, abandoned>>
      BY <1>6 DEF CheckEnds
    <3>2. ASSUME NEW how \in {"result", "error"}, End(r, how) PROVE TypeOK'
      BY <3>1, <3>2
    <3>3. CASE /\ task' = [task EXCEPT ![r] = "queued"]
               /\ replayed' = [replayed EXCEPT ![r] = TRUE]
               /\ UNCHANGED <<outcome, lease>>
      BY <3>1, <3>3
    <3> QED BY <1>6, <3>2, <3>3 DEF CheckEnds
  <2>2. ASSUME NEW q \in Requests PROVE RequestInv(q)'
    <3>1. CASE q = r
      BY <1>6, <3>1 DEF CheckEnds
    <3>2. CASE q # r
      BY <1>6, <3>2 DEF CheckEnds
    <3> QED BY <3>1, <3>2
  <2> QED BY <2>1, <2>2
<1> QED BY <1>1, <1>2, <1>3, <1>4, <1>5, <1>6 DEF Admission, Running

(* The clean-up, begun by the deadline or a cancellation.                   *)
LEMMA CleanupIInv ==
    ASSUME IInv, NEW r \in Requests, Deadline(r) \/ Cleanup(r) \/ Deliver(r) PROVE IInv'
<1> USE DEF IInv, TypeOK, RequestInv, HandlerInv, GroupInv, StreamInv, ResultInv, Alive, Eof,
            others, outside, work, group, output, Steady, At, GoOn, End, Leave
<1>1. CASE Deadline(r)
  BY <1>1 DEF Deadline, BeginStop
<1>2. CASE StopWaited(r)
  BY <1>2 DEF StopWaited
<1>3. CASE Escalate(r)
  BY <1>3 DEF Escalate
<1>4. CASE Killed(r)
  BY <1>4 DEF Killed
<1>5. CASE Drained(r)
  BY <1>5 DEF Drained
<1>6. CASE Deliver(r)
  <2>1. TypeOK'
    <3>1. /\ cancelling' = [cancelling EXCEPT ![r] = FALSE]
          /\ UNCHANGED <<others, outside, output>>
      BY <1>6 DEF Deliver
    <3>2. CASE task[r] = "ended"
      BY <1>6, <3>1, <3>2 DEF Deliver
    <3>3. CASE task[r] = "running"
      <4>1. BeginStop(r, "cancelled") /\ UNCHANGED abandoned
        BY <1>6, <3>3 DEF Deliver
      <4> QED BY <3>1, <4>1 DEF BeginStop
    <3>4. CASE task[r] \notin {"ended", "running"}
      <4>1. /\ End(r, "cancelled") /\ UNCHANGED group
            /\ abandoned' = abandoned \cup {q \in {r} : Alive(q)}
        BY <1>6, <3>4 DEF Deliver
      <4> QED BY <3>1, <4>1
    <3> QED BY <3>2, <3>3, <3>4
  <2>2. ASSUME NEW q \in Requests PROVE RequestInv(q)'
    <3>1. CASE q = r
      BY <1>6, <3>1 DEF Deliver, BeginStop
    <3>2. CASE q # r
      BY <1>6, <3>2 DEF Deliver, BeginStop
    <3> QED BY <3>1, <3>2
  <2> QED BY <2>1, <2>2
<1> QED BY <1>1, <1>2, <1>3, <1>4, <1>5, <1>6 DEF Cleanup

(* The client and the handler.                                              *)
LEMMA HandlerIInv ==
    ASSUME IInv, NEW r \in Requests, Connect(r) \/ ClientLeaves(r) \/ Handling(r)
    PROVE IInv'
<1> USE DEF IInv, TypeOK, RequestInv, HandlerInv, GroupInv, StreamInv, ResultInv, Alive, Eof,
            others, outside, work, group, output, Await, Tell
<1>1. CASE Connect(r)
  BY <1>1 DEF Connect
<1>2. CASE ClientLeaves(r)
  BY <1>2 DEF ClientLeaves
<1>3. CASE Dispatch(r)
  <2>1. CASE Await(r, "waiting") /\ GoOn(r, "queued") /\ UNCHANGED answer
    BY <1>3, <2>1 DEF Dispatch, GoOn
  <2>2. CASE Tell(r, "error") /\ UNCHANGED work
    BY <1>3, <2>2 DEF Dispatch
  <2> QED BY <1>3, <2>1, <2>2 DEF Dispatch
<1>4. CASE Respond(r)
  BY <1>4 DEF Respond
<1>5. CASE NoticeLeft(r)
  BY <1>5 DEF NoticeLeft
<1>6. CASE CloseConnection(r)
  BY <1>6 DEF CloseConnection
<1> QED BY <1>1, <1>2, <1>3, <1>4, <1>5, <1>6 DEF Handling

(* The end of the gateway, and steps that change nothing.                   *)
LEMMA GatewayIInv ==
    ASSUME IInv, Shutdown \/ Gathered \/ Kill \/ UNCHANGED vars PROVE IInv'
<1> USE DEF IInv, TypeOK, RequestInv, HandlerInv, GroupInv, StreamInv, ResultInv, Alive, Eof,
            others, outside, work, group, output
<1>1. CASE Shutdown
  BY <1>1 DEF Shutdown, PassedOn
<1>2. CASE Gathered
  BY <1>2 DEF Gathered
<1>3. CASE Kill
  BY <1>3 DEF Kill
<1>4. CASE UNCHANGED vars
  BY <1>4 DEF vars
<1> QED BY <1>1, <1>2, <1>3, <1>4

(* So the invariant holds in every reachable state.                         *)
LEMMA RequestInvariant == Spec => []IInv
<1>1. IInv /\ [Next]_vars => IInv'
  BY SessionIInv, TaskIInv, CleanupIInv, HandlerIInv, GatewayIInv DEF Next, Step
<1> QED BY InitIInv, <1>1, PTL DEF Spec

(* Every variable keeps its type.                                           *)
THEOREM RequestTypeCorrect == Spec => []TypeOK
<1>1. IInv => TypeOK
  BY DEF IInv
<1> QED BY <1>1, RequestInvariant, PTL

(* A session is open only under its lease, whatever ends its request and in *)
(* whatever order, except one that a second cancellation or a kill of the   *)
(* gateway has abandoned (process.py:84-92, supervisor.py:92-96).           *)
THEOREM SessionsAlwaysCovered == Spec => []SessionsCovered
<1>1. IInv => SessionsCovered
  BY DEF IInv, RequestInv, GroupInv, SessionsCovered
<1> QED BY <1>1, RequestInvariant, PTL

(* A result that reaches a client is the whole output up to the limit, and  *)
(* its flag tells if there was more, however the chunks fell                *)
(* (process.py:21-34, 85-88).                                               *)
THEOREM ResultsAreExact == Spec => []OutputExact
<1>1. IInv => OutputExact
  BY DEF IInv, TypeOK, RequestInv, StreamInv, ResultInv, Eof, OutputExact
<1> QED BY <1>1, RequestInvariant, PTL

Leases == {r \in Requests : lease[r]}
LeasesInv == IsFiniteSet(Leases) /\ Cardinality(Leases) <= MaxSessions

(* Only an admission, which asks for a free slot, adds a lease.             *)
LEMMA LeasesStep ==
    ASSUME IInv, [Next]_vars
    PROVE  \/ Leases' \subseteq Leases
           \/ \E r \in Requests :
                 Cardinality(Leases) < MaxSessions /\ Leases' = Leases \cup {r}
<1> USE DEF IInv, TypeOK, Leases
<1>1. ASSUME NEW r \in Requests, Step(r), ~Admit(r) PROVE Leases' \subseteq Leases
  <2> USE DEF work, GoOn, End
  <2>1. CASE Session(r) \/ Reap(r) \/ Reading(r)
    BY <2>1 DEF Session, Fork, Write, LeaderEnds, HelperEnds, Reap, Reading, Read
  <2>2. CASE Admission(r)
    BY <1>1, <2>2 DEF Admission, Refuse, ConnectFails, Launch
  <2>3. CASE Running(r)
    BY <2>3 DEF Running, Finish, CheckEnds
  <2>4. CASE Deadline(r) \/ Cleanup(r)
    <3>1. lease' = lease \/ lease' = [lease EXCEPT ![r] = FALSE]
      BY <2>4 DEF Deadline, BeginStop, Cleanup, StopWaited, Escalate, Killed, Drained
    <3> QED BY <3>1
  <2>5. CASE Deliver(r)
    <3>1. lease' = lease \/ lease' = [lease EXCEPT ![r] = FALSE]
      BY <2>5 DEF Deliver, BeginStop
    <3> QED BY <3>1
  <2>6. CASE Connect(r) \/ ClientLeaves(r) \/ Handling(r)
    BY <2>6 DEF Connect, ClientLeaves, Handling, Dispatch, Respond, NoticeLeft, CloseConnection
  <2> QED BY <1>1, <2>1, <2>2, <2>3, <2>4, <2>5, <2>6 DEF Step
<1>2. ASSUME NEW r \in Requests, Admit(r)
      PROVE  Cardinality(Leases) < MaxSessions /\ Leases' = Leases \cup {r}
  BY <1>2 DEF Admit
<1>3. CASE Shutdown \/ Gathered \/ Kill \/ UNCHANGED vars
  BY <1>3 DEF Shutdown, Gathered, Kill, vars, work
<1> QED BY <1>1, <1>2, <1>3 DEF Next

(* The sessions that are open under the gateway's eyes are never more than  *)
(* the budget admits (supervisor.py:62-68, 92-96).                          *)
THEOREM SessionsWithinSlots ==
    Spec => [](Cardinality({r \in Requests : Alive(r)} \ abandoned) <= MaxSessions)
<1>1. Init => LeasesInv
  <2> SUFFICES ASSUME Init PROVE LeasesInv
    OBVIOUS
  <2>1. Leases = {}
    BY DEF Init, Leases
  <2> QED BY <2>1, FS_EmptySet, NumbersAssumption DEF LeasesInv
<1>2. IInv /\ LeasesInv /\ [Next]_vars => LeasesInv'
  <2> SUFFICES ASSUME IInv, LeasesInv, [Next]_vars PROVE LeasesInv'
    OBVIOUS
  <2> USE DEF LeasesInv
  <2>0. Cardinality(Leases) \in Nat
    BY FS_CardinalityType
  <2>1. CASE Leases' \subseteq Leases
    <3>1. IsFiniteSet(Leases') /\ Cardinality(Leases') <= Cardinality(Leases)
      BY <2>1, FS_Subset
    <3>2. Cardinality(Leases') \in Nat
      BY <3>1, FS_CardinalityType
    <3> QED BY <2>0, <3>1, <3>2, NumbersAssumption
  <2>2. ASSUME NEW r \in Requests, Cardinality(Leases) < MaxSessions,
               Leases' = Leases \cup {r}
        PROVE  LeasesInv'
    <3>1. /\ IsFiniteSet(Leases')
          /\ Cardinality(Leases') = Cardinality(Leases)
             \/ Cardinality(Leases') = Cardinality(Leases) + 1
      BY <2>2, FS_AddElement
    <3> QED BY <2>0, <2>2, <3>1, NumbersAssumption
  <2> QED BY <2>1, <2>2, LeasesStep
<1>3. IInv /\ LeasesInv => Cardinality({r \in Requests : Alive(r)} \ abandoned) <= MaxSessions
  <2> SUFFICES ASSUME IInv, LeasesInv
               PROVE  Cardinality({r \in Requests : Alive(r)} \ abandoned) <= MaxSessions
    OBVIOUS
  <2> DEFINE Open == {r \in Requests : Alive(r)} \ abandoned
  <2>1. Open \subseteq Leases
    BY DEF IInv, RequestInv, GroupInv, Leases
  <2>2. IsFiniteSet(Open) /\ Cardinality(Open) <= Cardinality(Leases)
    BY <2>1, FS_Subset DEF LeasesInv
  <2>3. Cardinality(Open) \in Nat /\ Cardinality(Leases) \in Nat
    BY <2>2, FS_CardinalityType DEF LeasesInv
  <2>4. Cardinality(Leases) <= MaxSessions
    BY DEF LeasesInv
  <2> QED BY <2>2, <2>3, <2>4, NumbersAssumption
<1> QED BY <1>1, <1>2, <1>3, RequestInvariant, PTL DEF Spec

=============================================================================
