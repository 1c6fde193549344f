------------------------------ MODULE ShellProofs ------------------------------
(***************************************************************************)
(* What the shell decides on and what its user has been told, for every     *)
(* behaviour of the gateway: type correctness, FreshHealth, GoodNewsTold.   *)
(***************************************************************************)
EXTENDS Shell, TLAPS

(* The bad news of a loss, or of a state that was waited out, is taken back *)
(* before the attachment is asked for, and nothing is told until ssh has    *)
(* the terminal.                                                            *)
ToldBeforeAttaching == pc \in {"attaching", "spawning"} => told \in {"none", "connected"}

ShellInv == TypeOK /\ FreshHealth /\ GoodNewsTold /\ ToldBeforeAttaching

(* A shell begins with nothing known and nothing told.                      *)
LEMMA InitShellInv == Init => ShellInv
BY DEF Init, ShellInv, TypeOK, FreshHealth, GoodNewsTold, ToldBeforeAttaching, States, Calls

(* The answers of the gateway, and the failures of calls to it.             *)
LEMMA AnsweredShellInv ==
    ASSUME ShellInv, Answered PROVE ShellInv'
<1> USE DEF ShellInv, TypeOK, FreshHealth, GoodNewsTold, ToldBeforeAttaching, States, Calls, Begin, gateway
<1>1. CASE Status
  BY <1>1 DEF Status, Learn, End
<1>2. CASE Recheck
  BY <1>2 DEF Recheck, Learn, End
<1>3. CASE Attach
  BY <1>3 DEF Attach
<1>4. CASE AttachFails
  BY <1>4 DEF AttachFails
<1>5. CASE Reconnected
  BY <1>5 DEF Reconnected, Learn
<1>6. CASE ReconnectFails
  BY <1>6 DEF ReconnectFails
<1> QED BY <1>1, <1>2, <1>3, <1>4, <1>5, <1>6 DEF Answered

(* The ssh on the terminal: its spawn, its end, and the end it is given.    *)
LEMMA AttachedShellInv ==
    ASSUME ShellInv, Attached PROVE ShellInv'
<1> USE DEF ShellInv, TypeOK, FreshHealth, GoodNewsTold, ToldBeforeAttaching, States, Calls, gateway
<1>1. CASE Spawn
  BY <1>1 DEF Spawn
<1>2. CASE SessionEnds
  BY <1>2 DEF SessionEnds, End
<1>3. CASE Lose
  BY <1>3 DEF Lose, Call, Begin
<1>4. CASE TerminateSsh
  BY <1>4 DEF TerminateSsh, End
<1>5. CASE KillSsh
  BY <1>5 DEF KillSsh, End
<1> QED BY <1>1, <1>2, <1>3, <1>4, <1>5 DEF Attached

(* Every step keeps the invariant.                                          *)
LEMMA NextShellInv ==
    ASSUME ShellInv, [Next]_vars PROVE ShellInv'
<1> USE DEF ShellInv, TypeOK, FreshHealth, GoodNewsTold, ToldBeforeAttaching, States, Calls
<1>1. CASE Answered
  BY <1>1, AnsweredShellInv
<1>2. CASE Weigh
  BY <1>2 DEF Weigh, Call, Begin, gateway
<1>3. CASE Sleep
  BY <1>3 DEF Sleep, Begin, gateway
<1>4. CASE Attached
  BY <1>4, AttachedShellInv
<1>5. CASE SpawnFails
  BY <1>5 DEF SpawnFails, End, gateway
<1>6. CASE DropCall
  BY <1>6 DEF DropCall, End, gateway
<1>7. CASE RequestStop
  BY <1>7 DEF RequestStop, shell, gateway
<1>8. CASE Interrupt
  BY <1>8 DEF Interrupt, End, gateway
<1>9. CASE SshEnds
  BY <1>9 DEF SshEnds, shell, gateway
<1>10. CASE GatewayChanges
  BY <1>10 DEF GatewayChanges, shell
<1>11. CASE UNCHANGED vars
  BY <1>11 DEF vars, shell, gateway
<1> QED
  BY <1>1, <1>2, <1>3, <1>4, <1>5, <1>6, <1>7, <1>8, <1>9, <1>10, <1>11 DEF Next, Steps

(* So it holds in every reachable state.                                    *)
LEMMA ShellInvariant == Spec => []ShellInv
BY InitShellInv, NextShellInv, PTL DEF Spec

(* Every variable of the shell keeps its type.                              *)
THEOREM ShellTypeCorrect == Spec => []TypeOK
<1>1. ShellInv => TypeOK
  BY DEF ShellInv
<1> QED BY <1>1, ShellInvariant, PTL

(* Nothing that was learned before a loss decides after it, in whichever    *)
(* order losses, answers and failures come (shell.py:314, 323-325).         *)
THEOREM DecidesOnFreshHealth == Spec => []FreshHealth
<1>1. ShellInv => FreshHealth
  BY DEF ShellInv
<1> QED BY <1>1, ShellInvariant, PTL

(* A user who is attached after bad news has been told that the connection  *)
(* is restored (shell.py:269-270, 44-49).                                   *)
THEOREM UserIsTold == Spec => []GoodNewsTold
<1>1. ShellInv => GoodNewsTold
  BY DEF ShellInv
<1> QED BY <1>1, ShellInvariant, PTL

=============================================================================
