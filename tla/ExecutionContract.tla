-------------------------- MODULE ExecutionContract --------------------------
(***************************************************************************)
(* What the supervisor promises about running commands, with no word on    *)
(* how connections are kept: the conservative execution contract.  A        *)
(* command may begin on the remote host a bounded number of times, and the  *)
(* answer never claims more than is known of what it did there.             *)
(***************************************************************************)
EXTENDS Naturals

CONSTANT Clients

VARIABLES
    kind,   \* what a client waits for an answer to, or "none"
    runs,   \* how many times its command may have begun on the remote host
    fate,   \* its latest session: none, refused, running, exited or lost
    answer  \* what the client was told, "none" before that

vars == <<kind, runs, fate, answer>>

Requests == {"unsafe", "replayable", "transfer", "shell", "reconnect", "force", "status"}
Answers == {"result", "uncertain", "unavailable", "timeout", "attached", "done", "cancelled"}

(* Only a command that its caller declared idempotent may run a second time. *)
Allowed(k) == CASE k \in {"unsafe", "transfer"} -> 1
                [] k = "replayable"             -> 2
                [] OTHER                        -> 0

Init ==
    /\ kind = [c \in Clients |-> "none"]
    /\ runs = [c \in Clients |-> 0]
    /\ fate = [c \in Clients |-> "none"]
    /\ answer = [c \in Clients |-> "none"]

Ask(c, k) ==
    /\ kind[c] = "none" /\ answer[c] = "none"
    /\ kind' = [kind EXCEPT ![c] = k]
    /\ UNCHANGED <<runs, fate, answer>>

(* A session opens: never for a client that has its answer, and never       *)
(* beside an earlier run of the same command.                               *)
Begin(c) ==
    /\ fate[c] # "running"
    /\ runs[c] < Allowed(kind[c])
    /\ runs' = [runs EXCEPT ![c] = @ + 1]
    /\ fate' = [fate EXCEPT ![c] = "running"]
    /\ UNCHANGED <<kind, answer>>

Refuse(c) ==
    /\ kind[c] # "none" /\ fate[c] # "running"
    /\ fate' = [fate EXCEPT ![c] = "refused"]
    /\ UNCHANGED <<kind, runs, answer>>

Exit(c) ==
    /\ fate[c] = "running"
    /\ fate' = [fate EXCEPT ![c] = "exited"]
    /\ UNCHANGED <<kind, runs, answer>>

(* A master goes down with every session on it.                             *)
Lose(lost) ==
    /\ \A c \in lost : fate[c] = "running"
    /\ fate' = [c \in Clients |-> IF c \in lost THEN "lost" ELSE fate[c]]
    /\ UNCHANGED <<kind, runs, answer>>

(* "result" is a claim that the command ended, so its session was not lost; *)
(* "unavailable" is a claim that an unsafe command never began.             *)
Honest(c, a) ==
    /\ a = "result" /\ kind[c] # "transfer" => fate[c] \in {"exited", "refused"}
    /\ a = "unavailable" /\ kind[c] \in {"unsafe", "transfer"} => runs[c] = 0

(* An answer ends the request, and kills what still runs for it.  A client  *)
(* that goes away may take a half-made master down with it, and with the    *)
(* master the sessions of others.                                           *)
Answer(c, a) ==
    /\ kind[c] # "none"
    /\ Honest(c, a)
    /\ answer' = [answer EXCEPT ![c] = a]
    /\ kind' = [kind EXCEPT ![c] = "none"]
    /\ runs' = [runs EXCEPT ![c] = 0]
    /\ \E lost \in SUBSET {d \in Clients : fate[d] = "running"} :
          fate' = [d \in Clients |-> IF d = c THEN "none"
                                    ELSE IF d \in lost THEN "lost" ELSE fate[d]]

Next ==
    \/ \E c \in Clients :
          \/ \E k \in Requests : Ask(c, k)
          \/ Begin(c) \/ Refuse(c) \/ Exit(c)
          \/ \E a \in Answers : Answer(c, a)
    \/ \E lost \in SUBSET Clients : Lose(lost)

Spec == Init /\ [][Next]_vars

=============================================================================
