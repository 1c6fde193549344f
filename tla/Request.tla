------------------------------- MODULE Request -------------------------------
(***************************************************************************)
(* One request from the gateway's handler (_handle_client of gateway.py)    *)
(* through its task, which holds a session slot, down to the process group  *)
(* that run_process (process.py) starts, reads and cleans up.               *)
(*                                                                         *)
(* A group has a leader, ssh, scp or rsync, and at most one helper, the ssh *)
(* of scp and rsync.  Its members inherit the pipes and hold them for life. *)
(* The client may go away, the deadline may pass, and the gateway may stop  *)
(* or be killed, in any order and at any await.                             *)
(*                                                                         *)
(* A definition that nothing uses and that stands right before one with the *)
(* same parameters is a mutant: that definition with a plausible bug in it, *)
(* which one of the properties must notice.                                 *)
(***************************************************************************)
EXTENDS Naturals, FiniteSets

CONSTANTS
    Requests,
    MaxSessions,    \* the operations that the budget admits
    Limit,          \* output_limit, in chunks
    MaxOutput       \* bound: what a group may write, in chunks

ASSUME RequestsAssumption == IsFiniteSet(Requests)
ASSUME NumbersAssumption ==
    MaxSessions \in Nat \ {0} /\ Limit \in Nat /\ MaxOutput \in Nat

VARIABLES
    gateway,        \* serving, closing, closed, killed
    client,         \* away, connected, left
    handler,        \* what _handle_client waits for
    answer,         \* what the client was sent
    task,           \* what the request's task waits for
    outcome,        \* how the task has ended, or will when it has cleaned up
    cancelling,     \* cancel() was called, and CancelledError comes next
    replayed,
    lease,
    leader, helper, \* reaped: the event loop has seen the leader's end
    written, taken, \* by the group, and by the reader out of the pipe
    kept, truncated,
    pipesFirst,     \* wait() returns after the pipes are closed, as it does in
                    \* some releases of Python, not at the leader's end
    abandoned       \* history: left alive by a clean-up that was cut short

work == <<task, outcome, replayed, lease>>
group == <<leader, helper>>
output == <<written, taken, kept, truncated>>
others == <<gateway, pipesFirst>>
outside == <<client, handler, answer>>
vars == <<gateway, outside, work, cancelling, group, output, pipesFirst, abandoned>>

Init ==
    /\ gateway = "serving" /\ pipesFirst \in BOOLEAN /\ abandoned = {}
    /\ client = [r \in Requests |-> "away"] /\ handler = [r \in Requests |-> "none"]
    /\ answer = [r \in Requests |-> "none"]
    /\ task = [r \in Requests |-> "none"] /\ outcome = [r \in Requests |-> "none"]
    /\ cancelling = [r \in Requests |-> FALSE] /\ replayed = [r \in Requests |-> FALSE]
    /\ lease = [r \in Requests |-> FALSE]
    /\ leader = [r \in Requests |-> "none"] /\ helper = [r \in Requests |-> "none"]
    /\ written = [r \in Requests |-> 0] /\ taken = [r \in Requests |-> 0]
    /\ kept = [r \in Requests |-> 0] /\ truncated = [r \in Requests |-> FALSE]

-----------------------------------------------------------------------------
(* The process group.                                                       *)

Alive(r) == leader[r] = "alive" \/ helper[r] = "alive"

EofOfLeader(r) == leader[r] # "alive" /\ taken[r] = written[r]

(* The reader has come to the end of the pipe.                              *)
Eof(r) == ~Alive(r) /\ taken[r] = written[r]

Fork(r) ==
    /\ leader[r] = "alive" /\ helper[r] = "none"
    /\ helper' = [helper EXCEPT ![r] = "alive"]
    /\ UNCHANGED <<others, outside, work, cancelling, leader, output, abandoned>>

Write(r) ==
    /\ Alive(r) /\ written[r] < MaxOutput
    /\ written' = [written EXCEPT ![r] = @ + 1]
    /\ UNCHANGED <<others, outside, work, cancelling, group, taken, kept, truncated, abandoned>>

(* Members leave on their own account, or by a signal.                      *)
Leave(r, L, H) ==
    /\ leader' = [leader EXCEPT ![r] = IF @ = "alive" /\ L THEN "exited" ELSE @]
    /\ helper' = [helper EXCEPT ![r] = IF @ = "alive" /\ H THEN "ended" ELSE @]

LeaderEnds(r) ==
    /\ leader[r] = "alive" /\ Leave(r, TRUE, FALSE)
    /\ UNCHANGED <<others, outside, work, cancelling, output, abandoned>>

HelperEnds(r) ==
    /\ helper[r] = "alive" /\ Leave(r, FALSE, TRUE)
    /\ UNCHANGED <<others, outside, work, cancelling, output, abandoned>>

(* returncode is set.                                                       *)
Reap(r) ==
    /\ leader[r] = "exited"
    /\ leader' = [leader EXCEPT ![r] = "reaped"]
    /\ UNCHANGED <<others, outside, work, cancelling, helper, output, abandoned>>

MoreOrEnough(r, n) == truncated[r] \/ n >= Limit - kept[r]

(* The flag, after a chunk of n.                                            *)
More(r, n) == truncated[r] \/ n > Limit - kept[r]

(* One chunk, read by _read_bounded until the end of the task.              *)
Read(r, n) ==
    /\ task[r] \in {"running", "stopping", "killing", "draining"}
    /\ n \in 1..(written[r] - taken[r])
    /\ taken' = [taken EXCEPT ![r] = @ + n]
    /\ kept' = [kept EXCEPT ![r] = IF @ + n < Limit THEN @ + n ELSE Limit]
    /\ truncated' = [truncated EXCEPT ![r] = More(r, n)]
    /\ UNCHANGED <<others, outside, work, cancelling, group, written, abandoned>>

-----------------------------------------------------------------------------
(* The task: a slot, a connection, the session, and after a lost channel    *)
(* the check, and for a retry-safe command one replay.                      *)

At(r, place) == task[r] = place /\ ~cancelling[r]
GoOn(r, place) == task' = [task EXCEPT ![r] = place] /\ UNCHANGED <<outcome, replayed, lease>>

(* Every way out of _operation releases the lease.                          *)
End(r, how) ==
    /\ task' = [task EXCEPT ![r] = "ended"]
    /\ outcome' = [outcome EXCEPT ![r] = how]
    /\ lease' = [lease EXCEPT ![r] = FALSE]
    /\ UNCHANGED replayed

Steady == <<others, outside, cancelling>>

(* Invalid parameters, or no slot in time.                                  *)
Refuse(r) ==
    /\ At(r, "queued") /\ End(r, "error")
    /\ UNCHANGED <<Steady, group, output, abandoned>>

Admit(r) ==
    /\ At(r, "queued") /\ Cardinality({q \in Requests : lease[q]}) < MaxSessions
    /\ task' = [task EXCEPT ![r] = "connecting"]
    /\ lease' = [lease EXCEPT ![r] = TRUE]
    /\ UNCHANGED <<Steady, outcome, replayed, group, output, abandoned>>

(* No connection, no time left, or no process.                              *)
ConnectFails(r) ==
    /\ At(r, "connecting") /\ End(r, "error")
    /\ UNCHANGED <<Steady, group, output, abandoned>>

Launch(r) ==
    /\ At(r, "connecting") /\ GoOn(r, "running")
    /\ leader' = [leader EXCEPT ![r] = "alive"] /\ helper' = [helper EXCEPT ![r] = "none"]
    /\ written' = [written EXCEPT ![r] = 0] /\ taken' = [taken EXCEPT ![r] = 0]
    /\ kept' = [kept EXCEPT ![r] = 0] /\ truncated' = [truncated EXCEPT ![r] = FALSE]
    /\ UNCHANGED <<Steady, abandoned>>

(* The leader's code and both pipes' contents are there; exit code 255 says *)
(* that the channel was lost, and gives the slot back before the check.     *)
Finish(r) ==
    /\ At(r, "running") /\ leader[r] = "reaped" /\ Eof(r)
    /\ \/ End(r, "result")
       \/ /\ task' = [task EXCEPT ![r] = "checking"]
          /\ lease' = [lease EXCEPT ![r] = FALSE]
          /\ UNCHANGED <<outcome, replayed>>
    /\ UNCHANGED <<Steady, group, output, abandoned>>

CheckEnds(r) ==
    /\ At(r, "checking")
    /\ \/ \E how \in {"result", "error"} : End(r, how)
       \/ /\ ~replayed[r]
          /\ task' = [task EXCEPT ![r] = "queued"]
          /\ replayed' = [replayed EXCEPT ![r] = TRUE]
          /\ UNCHANGED <<outcome, lease>>
    /\ UNCHANGED <<Steady, group, output, abandoned>>

-----------------------------------------------------------------------------
(* The clean-up of run_process, after the deadline or a cancellation.       *)

(* stop_process: SIGTERM to the group, unless the leader has been reaped.   *)
(* Those who take their time to end, or ignore it, stay.                    *)
BeginStop(r, how) ==
    /\ outcome' = [outcome EXCEPT ![r] = how]
    /\ UNCHANGED <<replayed, lease>>
    /\ IF leader[r] = "reaped"
       THEN task' = [task EXCEPT ![r] = "draining"] /\ UNCHANGED group
       ELSE /\ task' = [task EXCEPT ![r] = "stopping"]
            /\ \E L, H \in BOOLEAN : Leave(r, L, H)

Deadline(r) ==
    /\ At(r, "running") /\ BeginStop(r, "error")
    /\ UNCHANGED <<Steady, output, abandoned>>

StopWaited(r) ==
    /\ At(r, "stopping") /\ leader[r] = "reaped" /\ (pipesFirst => Eof(r))
    /\ GoOn(r, "draining")
    /\ UNCHANGED <<Steady, group, output, abandoned>>

WaitOn(r) ==
    /\ At(r, "stopping") /\ ~(leader[r] = "reaped" /\ (pipesFirst => Eof(r)))
    /\ GoOn(r, "killing")
    /\ UNCHANGED <<Steady, group, output, abandoned>>

(* After two seconds SIGKILL.                                               *)
Escalate(r) ==
    /\ At(r, "stopping") /\ ~(leader[r] = "reaped" /\ (pipesFirst => Eof(r)))
    /\ GoOn(r, "killing")
    /\ Leave(r, TRUE, TRUE)
    /\ UNCHANGED <<Steady, output, abandoned>>

Killed(r) ==
    /\ At(r, "killing") /\ leader[r] = "reaped"
    /\ GoOn(r, "draining")
    /\ UNCHANGED <<Steady, group, output, abandoned>>

(* The readers are waited for without a deadline.                           *)
Drained(r) ==
    /\ At(r, "draining") /\ Eof(r)
    /\ End(r, outcome[r])
    /\ UNCHANGED <<Steady, group, output, abandoned>>

(* CancelledError is raised where the task waits.  In the clean-up nobody   *)
(* catches it: the task ends without SIGKILL and without its readers.       *)
Deliver(r) ==
    /\ cancelling[r]
    /\ cancelling' = [cancelling EXCEPT ![r] = FALSE]
    /\ CASE task[r] = "ended" -> UNCHANGED <<work, group, abandoned>>
         [] task[r] = "running" -> BeginStop(r, "cancelled") /\ UNCHANGED abandoned
         [] OTHER -> /\ End(r, "cancelled")
                     /\ abandoned' = abandoned \cup {q \in {r} : Alive(q)}
                     /\ UNCHANGED group
    /\ UNCHANGED <<others, outside, output>>

-----------------------------------------------------------------------------
(* The handler.                                                             *)

Await(r, place) == handler' = [handler EXCEPT ![r] = place]

Connect(r) ==
    /\ client[r] = "away" /\ gateway = "serving"
    /\ client' = [client EXCEPT ![r] = "connected"] /\ Await(r, "reading")
    /\ UNCHANGED <<others, answer, work, cancelling, group, output, abandoned>>

(* The client's own deadline, an interruption, or its end.                  *)
ClientLeaves(r) ==
    /\ client[r] = "connected" /\ handler[r] # "over"
    /\ client' = [client EXCEPT ![r] = "left"]
    /\ UNCHANGED <<others, handler, answer, work, cancelling, group, output, abandoned>>

Tell(r, what) ==
    /\ answer' = [answer EXCEPT ![r] = IF client[r] = "connected" THEN what ELSE @]
    /\ Await(r, "over")

(* A line that cannot be decoded, as half of one, is refused.               *)
Dispatch(r) ==
    /\ handler[r] = "reading"
    /\ \/ Await(r, "waiting") /\ GoOn(r, "queued") /\ UNCHANGED answer
       \/ Tell(r, "error") /\ UNCHANGED work
    /\ UNCHANGED <<others, client, cancelling, group, output, abandoned>>

Respond(r) ==
    /\ handler[r] = "waiting" /\ task[r] = "ended"
    /\ Tell(r, outcome[r])
    /\ UNCHANGED <<others, client, work, cancelling, group, output, abandoned>>

(* The client's end of the connection is read, and the task cancelled.      *)
NoticeLeft(r) ==
    /\ handler[r] = "waiting" /\ client[r] = "left"
    /\ Await(r, "dropping")
    /\ cancelling' = [cancelling EXCEPT ![r] = task[r] # "ended"]
    /\ UNCHANGED <<others, client, answer, work, group, output, abandoned>>

AnswerAnyway(r) ==
    /\ handler[r] \in {"dropping", "gathering"} /\ task[r] = "ended"
    /\ Tell(r, outcome[r])
    /\ UNCHANGED <<others, client, work, cancelling, group, output, abandoned>>

(* Nobody is answered any more.                                             *)
CloseConnection(r) ==
    /\ handler[r] \in {"dropping", "gathering"} /\ task[r] = "ended"
    /\ Await(r, "over")
    /\ UNCHANGED <<others, client, answer, work, cancelling, group, output, abandoned>>

DroppedOnly(r) == handler[r] = "dropping" /\ task[r] # "ended"

(* A handler that waits cancels its task when it is cancelled, and one that *)
(* drops its task hands the cancellation on to it.                          *)
PassedOn(r) == handler[r] \in {"waiting", "dropping"} /\ task[r] # "ended"

(* Every handler is cancelled.                                              *)
Shutdown ==
    /\ gateway = "serving" /\ gateway' = "closing"
    /\ handler' = [r \in Requests |-> CASE handler[r] = "waiting" -> "gathering"
                                        [] handler[r] = "reading" -> "over"
                                        [] OTHER -> handler[r]]
    /\ cancelling' = [r \in Requests |-> PassedOn(r)]
    /\ UNCHANGED <<client, answer, work, group, output, pipesFirst, abandoned>>

Gathered ==
    /\ gateway = "closing" /\ \A r \in Requests : handler[r] \in {"none", "over"}
    /\ gateway' = "closed"
    /\ UNCHANGED <<outside, work, cancelling, group, output, pipesFirst, abandoned>>

(* SIGKILL: leases go with the process, sessions do not.                    *)
Kill ==
    /\ gateway \in {"serving", "closing"} /\ gateway' = "killed"
    /\ handler' = [r \in Requests |-> IF handler[r] = "none" THEN "none" ELSE "over"]
    /\ task' = [r \in Requests |-> IF task[r] = "none" THEN "none" ELSE "ended"]
    /\ lease' = [r \in Requests |-> FALSE]
    /\ cancelling' = [r \in Requests |-> FALSE]
    /\ abandoned' = abandoned \cup {r \in Requests : Alive(r)}
    /\ UNCHANGED <<client, answer, outcome, replayed, group, output, pipesFirst>>

-----------------------------------------------------------------------------
Session(r) == Fork(r) \/ Write(r) \/ LeaderEnds(r) \/ HelperEnds(r)
Admission(r) == Refuse(r) \/ Admit(r) \/ ConnectFails(r) \/ Launch(r)
Running(r) == Finish(r) \/ CheckEnds(r)
Cleanup(r) == StopWaited(r) \/ Escalate(r) \/ Killed(r) \/ Drained(r)
Handling(r) == Dispatch(r) \/ Respond(r) \/ NoticeLeft(r) \/ CloseConnection(r)
Reading(r) == \E n \in 1..MaxOutput : Read(r, n)

Step(r) ==
    \/ Session(r) \/ Reap(r) \/ Reading(r)
    \/ Admission(r) \/ Running(r) \/ Deadline(r) \/ Cleanup(r) \/ Deliver(r)
    \/ Connect(r) \/ ClientLeaves(r) \/ Handling(r)

Next == (\E r \in Requests : Step(r)) \/ Shutdown \/ Gathered \/ Kill

Spec == Init /\ [][Next]_vars

(* The event loop runs, deadlines of the queue, the connection and the      *)
(* check pass, and the kernel reports ends.  Nothing is assumed of members  *)
(* of a group, the clients, or the deadline of a session.                   *)
Fairness ==
    /\ \A r \in Requests :
          /\ WF_vars(Reap(r)) /\ WF_vars(Reading(r)) /\ WF_vars(Admission(r))
          /\ WF_vars(Running(r)) /\ WF_vars(Cleanup(r)) /\ WF_vars(Deliver(r))
          /\ WF_vars(Handling(r))
    /\ WF_vars(Gathered)

FairSpec == Spec /\ Fairness

-----------------------------------------------------------------------------
(***************************************************************************)
(* Properties                                                              *)
(***************************************************************************)

(* Every variable holds a value of its type.                                *)
TypeOK ==
    /\ gateway \in {"serving", "closing", "closed", "killed"}
    /\ client \in [Requests -> {"away", "connected", "left"}]
    /\ handler \in [Requests ->
           {"none", "reading", "waiting", "dropping", "gathering", "over"}]
    /\ answer \in [Requests -> {"none", "result", "error"}]
    /\ task \in [Requests -> {"none", "queued", "connecting", "running", "stopping",
                              "killing", "draining", "checking", "ended"}]
    /\ outcome \in [Requests -> {"none", "result", "error", "cancelled"}]
    /\ cancelling \in [Requests -> BOOLEAN] /\ replayed \in [Requests -> BOOLEAN]
    /\ lease \in [Requests -> BOOLEAN]
    /\ leader \in [Requests -> {"none", "alive", "exited", "reaped"}]
    /\ helper \in [Requests -> {"none", "alive", "ended"}]
    /\ written \in [Requests -> Nat] /\ taken \in [Requests -> Nat]
    /\ kept \in [Requests -> Nat] /\ truncated \in [Requests -> BOOLEAN]
    /\ pipesFirst \in BOOLEAN /\ abandoned \in SUBSET Requests

(* A session is open only under a lease, so that the budget is kept         *)
(* (supervisor.py:92-96): the slot is given back when every member of the   *)
(* group has ended, whatever ended the request, unless a clean-up was       *)
(* cancelled or the gateway killed in the middle of it.                     *)
SessionsCovered ==
    \A r \in Requests : Alive(r) => lease[r] \/ r \in abandoned

(* A client that is sent a result has the session's whole output, up to the *)
(* limit, and is told exactly if there was more (process.py:21-34), however *)
(* the chunks fell, and whoever of the group wrote last.                    *)
OutputExact ==
    \A r \in Requests : answer[r] = "result" =>
        /\ kept[r] = IF written[r] < Limit THEN written[r] ELSE Limit
        /\ truncated[r] = (written[r] > Limit)

(* A helper that outlives its leader: nothing more is done about it.        *)
Stranded(r) == task[r] = "draining" /\ helper[r] = "alive"

(* A request whose client has gone, or whose deadline has passed, comes to  *)
(* its end even if its session ignores SIGTERM (process.py:48-60), unless a *)
(* helper outlives the leader and is waited for.                            *)
InterruptedEnds ==
    \A r \in Requests :
        /\ handler[r] \in {"reading", "waiting"} /\ client[r] = "left"
              ~> handler[r] = "over" \/ Stranded(r)
        /\ task[r] = "stopping" ~> task[r] = "ended" \/ Stranded(r)

(* "Stopping must not wait for long transfers" (gateway.py:165-167): the    *)
(* shutdown ends without the sessions' own end or deadline.                 *)
StopEnds ==
    gateway = "closing" ~> gateway # "closing" \/ \E r \in Requests : Stranded(r)

(* "The gateway ... terminates the whole process group on cancellation or   *)
(* timeout" (README.md:221-222), and cancelling a request "terminates its   *)
(* process group" (gateway.py:166-167).  Not so if the cancellation, a      *)
(* second one or one after the deadline, strikes in the two seconds that    *)
(* the group is given to end (process.py:56).                               *)
CancelledGroupEnds ==
    gateway # "killed" =>
        \A r \in Requests : task[r] = "ended" /\ outcome[r] = "cancelled" => ~Alive(r)

=============================================================================
