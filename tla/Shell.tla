-------------------------------- MODULE Shell --------------------------------
(***************************************************************************)
(* An interactive shell (run_shell of shell.py): attach to a remote tmux    *)
(* session through the gateway's master, and attach again whenever the      *)
(* connection is lost, until the session ends or the user stops it.         *)
(*                                                                         *)
(* The gateway is what its answers show: it can be reached or not, and its  *)
(* connection is in one of four states, which change at any moment.  A      *)
(* call that takes long (an attachment, a reconnect) fails only if there    *)
(* was trouble while it was under way.                                      *)
(*                                                                         *)
(* A definition that nothing uses and that stands right before one with the *)
(* same parameters is a mutant: that definition with a plausible bug in it, *)
(* which one of the properties must notice.                                 *)
(***************************************************************************)

VARIABLES
    \* The shell
    pc,
    health,         \* the state in the latest answer of the gateway
    told,           \* reporter.last_state: what the user was told last
    exit,           \* why the shell ended
    stop,           \* the cancellation event
    \* The ssh on the terminal
    ssh,            \* none, running, or how it ended: with 255 (lost) or not
    \* The gateway
    reachable, connection,
    trouble,        \* since the call under way began, or before
    \* History
    fresh           \* health was learned after the latest loss

shell == <<pc, health, told, exit, fresh>>
gateway == <<reachable, connection>>
vars == <<shell, stop, ssh, gateway, trouble>>

States == {"connected", "reconnecting", "offline", "authentication_required"}

(* The awaits that run under _call_or_stop.                                 *)
Calls == {"status", "rechecking", "sleeping", "attaching", "reconnecting"}

Init ==
    /\ pc = "status" /\ health = "none" /\ told = "none" /\ exit = "none"
    /\ stop = FALSE /\ ssh = "none" /\ fresh = FALSE
    /\ reachable \in BOOLEAN /\ connection \in States
    /\ trouble = FALSE

-----------------------------------------------------------------------------
End(reason) ==
    /\ pc' = "ended" /\ exit' = reason
    /\ UNCHANGED <<health, told, fresh>>

(* Neither a call nor ssh is begun once the event is set: they look at it   *)
(* first.                                                                   *)
Begin(place) ==
    IF stop THEN pc' = "ended" /\ exit' = "stopped" ELSE pc' = place /\ UNCHANGED exit

(* A long call begins.                                                      *)
Call(place) ==
    /\ Begin(place)
    /\ trouble' = ~(reachable /\ connection = "connected")

(* The gateway's answer is weighed later, when it may be out of date.       *)
Learn ==
    /\ reachable
    /\ health' = connection /\ fresh' = TRUE
    /\ pc' = "weighing"
    /\ UNCHANGED <<told, exit>>

(* status, before an attachment and while waiting.                          *)
Status ==
    /\ pc = "status"
    /\ Learn \/ (~reachable /\ End("unreachable"))
    /\ UNCHANGED <<stop, ssh, gateway, trouble>>

(* status after an attachment was refused: if all is well by then, the      *)
(* refusal is taken for final.                                              *)
Recheck ==
    /\ pc = "rechecking"
    /\ \/ connection # "connected" /\ Learn
       \/ reachable /\ connection = "connected" /\ End("refused")
       \/ ~reachable /\ End("unreachable")
    /\ UNCHANGED <<stop, ssh, gateway, trouble>>

KeepQuiet ==
    /\ pc = "weighing"
    /\ \/ health = "connected" /\ Call("attaching") /\ UNCHANGED told
       \/ health # "connected" /\ Begin("sleeping") /\ told' = health /\ UNCHANGED trouble
    /\ UNCHANGED <<health, fresh, stop, ssh, gateway>>

(* Every change of state is told, but for a first one that is good.         *)
Weigh ==
    /\ pc = "weighing"
    /\ \/ /\ health = "connected"
          /\ told' = IF told = "none" THEN told ELSE health
          /\ Call("attaching")
       \/ /\ health # "connected"
          /\ told' = health
          /\ Begin("sleeping") /\ UNCHANGED trouble
    /\ UNCHANGED <<health, fresh, stop, ssh, gateway>>

SleepOn ==
    /\ pc = "sleeping"
    /\ pc' = "weighing"
    /\ UNCHANGED <<health, told, exit, fresh, stop, ssh, gateway, trouble>>

Sleep ==
    /\ pc = "sleeping"
    /\ Begin("status")
    /\ UNCHANGED <<health, told, fresh, stop, ssh, gateway, trouble>>

(* The descriptor has come.                                                 *)
Attach ==
    /\ pc = "attaching" /\ reachable /\ connection = "connected"
    /\ Begin("spawning")
    /\ UNCHANGED <<health, told, fresh, stop, ssh, gateway, trouble>>

AttachFails ==
    /\ pc = "attaching" /\ trouble
    /\ Begin("rechecking")
    /\ UNCHANGED <<health, told, fresh, stop, ssh, gateway, trouble>>

-----------------------------------------------------------------------------
(* run_attached_ssh.  Nothing interrupts the spawn itself.                  *)

Spawn ==
    /\ pc = "spawning"
    /\ pc' = "attached" /\ ssh' = "running"
    /\ UNCHANGED <<health, told, exit, fresh, stop, gateway, trouble>>

(* An OSError, which ends the shell whatever the connection is like.        *)
SpawnFails ==
    /\ pc = "spawning"
    /\ End("unlaunched")
    /\ UNCHANGED <<stop, ssh, gateway, trouble>>

EndSilently ==
    /\ pc = "attached" /\ ssh = "code" /\ ~stop
    /\ pc' = "ended"
    /\ UNCHANGED <<health, told, exit, fresh, stop, ssh, gateway, trouble>>

(* ssh has ended with a code of the session, or of tmux.                    *)
SessionEnds ==
    /\ pc = "attached" /\ ssh = "code" /\ ~stop
    /\ End("code")
    /\ UNCHANGED <<stop, ssh, gateway, trouble>>

(* ssh has ended with 255: one reconnect is asked for.                      *)
Lose ==
    /\ pc = "attached" /\ ssh = "lost" /\ ~stop
    /\ told' = "lost" /\ fresh' = FALSE /\ ssh' = "none"
    /\ Call("reconnecting")
    /\ UNCHANGED <<health, stop, gateway>>

(* A stop while ssh runs terminates it; one that comes with its end counts  *)
(* for more than its code.                                                  *)
TerminateSsh ==
    /\ pc = "attached" /\ stop
    /\ IF ssh = "running" THEN pc' = "terminating" /\ UNCHANGED <<health, told, exit, fresh>>
       ELSE End("stopped")
    /\ UNCHANGED <<stop, ssh, gateway, trouble>>

WaitForSsh ==
    /\ pc = "terminating" /\ ssh # "running"
    /\ End("stopped")
    /\ UNCHANGED <<stop, ssh, gateway, trouble>>

(* It has ended, or two seconds later it is killed.                         *)
KillSsh ==
    /\ pc = "terminating"
    /\ ssh' = IF ssh = "running" THEN "none" ELSE ssh
    /\ End("stopped")
    /\ UNCHANGED <<stop, gateway, trouble>>

-----------------------------------------------------------------------------
(* reconnect answers with the health after it, which need not be good.      *)
Reconnected ==
    /\ pc = "reconnecting"
    /\ Learn
    /\ UNCHANGED <<stop, ssh, gateway, trouble>>

ReconnectFails ==
    /\ pc = "reconnecting" /\ trouble
    /\ Begin("status")
    /\ UNCHANGED <<health, told, fresh, stop, ssh, gateway, trouble>>

(* _call_or_stop drops the call it waits for, unless its end comes first.   *)
DropCall ==
    /\ stop /\ pc \in Calls
    /\ End("stopped")
    /\ UNCHANGED <<stop, ssh, gateway, trouble>>

(* SIGTERM sets the event, whatever the shell is doing.                     *)
RequestStop ==
    /\ pc # "ended"
    /\ stop' = TRUE
    /\ UNCHANGED <<shell, ssh, gateway, trouble>>

(* SIGINT cancels the shell, unless an ssh has the terminal or is to get it. *)
Interrupt ==
    /\ pc \in Calls \cup {"weighing"}
    /\ End("stopped")
    /\ UNCHANGED <<stop, ssh, gateway, trouble>>

-----------------------------------------------------------------------------
(* ssh ends by itself, or obeys a SIGTERM; it need do neither.              *)
SshEnds ==
    /\ ssh = "running" /\ ssh' \in {"code", "lost"}
    /\ UNCHANGED <<shell, stop, gateway, trouble>>

(* The gateway.                                                             *)
GatewayChanges ==
    /\ reachable' \in BOOLEAN /\ connection' \in States
    /\ gateway' # gateway
    /\ trouble' = TRUE
    /\ UNCHANGED <<shell, stop, ssh>>

Answered == Status \/ Recheck \/ Attach \/ AttachFails \/ Reconnected \/ ReconnectFails
Attached == Spawn \/ SessionEnds \/ Lose \/ TerminateSsh \/ KillSsh
Steps == Answered \/ Weigh \/ Sleep \/ Attached \/ DropCall

Next ==
    \/ Steps \/ SpawnFails
    \/ RequestStop \/ Interrupt
    \/ SshEnds \/ GatewayChanges

Spec == Init /\ [][Next]_vars

(* The event loop runs, ssh is spawned or not, and the gateway answers, with *)
(* success or failure, in the time of the call's deadline.  Nothing is      *)
(* assumed of ssh, not even that SIGTERM ends it, of the user, or of the    *)
(* state of the gateway.                                                    *)
Fairness == WF_vars(Steps)

FairSpec == Spec /\ Fairness

-----------------------------------------------------------------------------
(***************************************************************************)
(* Properties                                                              *)
(***************************************************************************)

(* Every variable holds a value of its type.                                *)
TypeOK ==
    /\ pc \in Calls \cup {"weighing", "spawning", "attached", "terminating", "ended"}
    /\ health \in States \cup {"none"} /\ told \in States \cup {"none", "lost"}
    /\ exit \in {"none", "code", "stopped", "unreachable", "refused", "unlaunched"}
    /\ (pc = "ended") = (exit # "none")
    /\ stop \in BOOLEAN /\ fresh \in BOOLEAN
    /\ ssh \in {"none", "running", "code", "lost"}
    /\ reachable \in BOOLEAN /\ connection \in States /\ trouble \in BOOLEAN

(* What was learned before a loss decides nothing after it: the health of   *)
(* the reconnect, or of a status asked since, does (shell.py:314, 323-325).*)
FreshHealth == pc = "weighing" => fresh

(* A user at a terminal that works again has been told so, after any bad    *)
(* news ("one useful line ..., followed by another when the state changes", *)
(* docs/pazuzu-shell-design.md:213-216).                                    *)
GoodNewsTold == pc = "attached" => told \in {"none", "connected"}

(* "The waiting shell reattaches automatically" (README.md:253): once the   *)
(* gateway can be reached and is connected, and stays so, a shell that has  *)
(* not ended gets its session back.  It ends instead only if it is stopped, *)
(* if ssh cannot be started, or if the news from before was bad: the        *)
(* gateway was gone, or it refused the attachment just before the           *)
(* connection came back.                                                    *)
Good == reachable /\ connection = "connected"

Reattaches ==
    /\ pc # "ended" /\ Good ~> pc = "attached" \/ exit # "none" \/ ~Good
    /\ pc \in {"status", "sleeping"} /\ Good
          ~> pc = "attached" \/ exit \in {"stopped", "unlaunched"} \/ ~Good

(* A stop that is requested ends the shell, and its ssh with it, whatever   *)
(* the shell waits for, whether a call, a spawn or an ssh that ends in the  *)
(* same instant is the first to be heard of, and even if ssh does not obey  *)
(* (docs/pazuzu-shell-design.md:368, shell.py:136-146).                     *)
StopEnds == stop ~> pc = "ended" /\ ssh # "running"

=============================================================================
