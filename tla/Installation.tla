----------------------------- MODULE Installation -----------------------------
(***************************************************************************)
(* The commands that install and remove LaunchAgents (launchd.py): a script *)
(* that writes and removes files and asks launchd, which takes its time, to *)
(* unload and load them, and that may fail or be interrupted at every step. *)
(* A gateway that is unloaded leaves its master to the one that follows it, *)
(* which asks whoever answers at the control path.                          *)
(*                                                                         *)
(* All bridges are alike and independent; one stands for them.              *)
(*                                                                         *)
(* A definition that nothing uses and that stands right before one with the *)
(* same parameters is a mutant: that definition with a plausible bug in it, *)
(* which one of the properties must notice.                                 *)
(***************************************************************************)

CONSTANTS Hosts, None

ASSUME NoneAssumption == None \notin Hosts /\ "any" \notin Hosts /\ None # "any"

Labels == {"gateway", "mcp", "bridge"}

VARIABLES
    file,           \* what the agent's file says: a host, or "any" without one
    loaded, args,   \* launchd's view of the agent: no, yes or leaving
    master,         \* the host that the master at the control path leads to
    connected,      \* the gateway has adopted or started that master
    op, label, at,  \* the script: its command, agent and step
    host, withMcp,  \* its arguments
    done,           \* the command that ended last without an error
    \* History
    torn,           \* agents whose last change was not completed
    missed          \* an uninstallation had to leave the master

launchd == <<loaded, args>>
gateway == <<master, connected>>
script == <<op, label, at, host, withMcp, done>>
vars == <<file, launchd, gateway, script, torn, missed>>

Init ==
    /\ file = [l \in Labels |-> None]
    /\ loaded = [l \in Labels |-> "no"] /\ args = [l \in Labels |-> None]
    /\ master = None /\ connected = FALSE
    /\ op = "none" /\ label = "none" /\ at = "none" /\ host = None /\ withMcp = FALSE
    /\ done = "none" /\ torn = {} /\ missed = FALSE

-----------------------------------------------------------------------------
(* Commands begin.                                                          *)

Begin(command, first, h) ==
    /\ op = "none"
    /\ op' = command /\ label' = first /\ host' = h /\ done' = "none"
    /\ at' = IF command = "install" THEN "write" ELSE "bootout"
    /\ UNCHANGED <<file, launchd, gateway, torn, missed>>

Install(h, mcp) == Begin("install", "gateway", h) /\ withMcp' = mcp

(* A bridge takes the host from the gateway's file.                         *)
InstallBridge ==
    /\ file["gateway"] # None
    /\ Begin("install", "bridge", file["gateway"]) /\ withMcp' = FALSE

RemoveBridge == Begin("remove", "bridge", None) /\ withMcp' = FALSE

ReadHostLater ==
    /\ Begin("uninstall", IF file["bridge"] # None THEN "bridge" ELSE "mcp", None)
    /\ withMcp' = FALSE

HostOfAnyAgent ==
    /\ Begin("uninstall", IF file["bridge"] # None THEN "bridge" ELSE "mcp",
             IF file["mcp"] # None THEN file["mcp"] ELSE file["gateway"])
    /\ withMcp' = FALSE

(* The bridges that have a file, the MCP adapter, and the gateway last,     *)
(* whose file names the host that its master will be asked by.              *)
Uninstall ==
    /\ Begin("uninstall", IF file["bridge"] # None THEN "bridge" ELSE "mcp", file["gateway"])
    /\ withMcp' = FALSE

-----------------------------------------------------------------------------
(* One agent, step by step.                                                 *)

Go(step) == at' = step /\ UNCHANGED <<op, label, host, withMcp, done>>

EndScript(how) ==
    /\ op' = "none" /\ label' = "none" /\ at' = "none" /\ host' = None /\ withMcp' = FALSE
    /\ done' = how

(* The agent after this one, if there is one.                               *)
Following ==
    CASE op = "install" /\ label = "gateway" /\ withMcp -> "mcp"
      [] op = "uninstall" /\ label = "bridge" -> "mcp"
      [] op = "uninstall" /\ label = "mcp" -> "gateway"
      [] OTHER -> "none"

Advance ==
    IF Following # "none"
    THEN /\ label' = Following
         /\ at' = IF op = "install" THEN "write" ELSE "bootout"
         /\ UNCHANGED <<op, host, withMcp, done>>
    ELSE IF op = "uninstall" THEN Go("master") ELSE EndScript(op)

(* The file is replaced by a rename.                                        *)
WriteFile ==
    /\ at = "write"
    /\ file' = [file EXCEPT ![label] = IF label = "mcp" THEN "any" ELSE host]
    /\ torn' = torn \cup {label}
    /\ Go("bootout")
    /\ UNCHANGED <<launchd, gateway, missed>>

Bootout ==
    /\ at = "bootout"
    /\ loaded' = [loaded EXCEPT ![label] = IF @ = "yes" THEN "leaving" ELSE @]
    /\ torn' = torn \cup {label}
    /\ Go("wait")
    /\ UNCHANGED <<file, args, gateway, missed>>

AfterWait == Go(IF op = "install" THEN "bootstrap" ELSE "unlink")

WaitInVain ==
    /\ at = "wait" /\ AfterWait
    /\ UNCHANGED <<file, launchd, gateway, torn, missed>>

(* _wait_until_unloaded, which raises an error after five seconds.          *)
WaitUntilUnloaded ==
    /\ at = "wait"
    /\ IF loaded[label] = "no" THEN AfterWait ELSE EndScript("none")
    /\ UNCHANGED <<file, launchd, gateway, torn, missed>>

(* A label that is loaded already counts as a success.                      *)
Bootstrap ==
    /\ at = "bootstrap"
    /\ loaded' = [loaded EXCEPT ![label] = IF @ = "no" THEN "yes" ELSE @]
    /\ args' = [args EXCEPT ![label] = IF loaded[label] = "no" THEN file[label] ELSE @]
    /\ torn' = torn \ {label}
    /\ Advance
    /\ UNCHANGED <<file, gateway, missed>>

Unlink ==
    /\ at = "unlink"
    /\ file' = [file EXCEPT ![label] = None]
    /\ torn' = torn \ {label}
    /\ Advance
    /\ UNCHANGED <<launchd, gateway, missed>>

(* The master is told to exit, which a sick one may not hear in time.       *)
StopDetachedMaster ==
    /\ at = "master"
    /\ master' \in IF host = None THEN {master} ELSE {None, master}
    /\ missed' = (master' # None /\ (missed \/ host # None))
    /\ EndScript("uninstall")
    /\ UNCHANGED <<file, launchd, connected, torn>>

(* Five failures of launchctl, a missing executable, or Control-C.          *)
Fail ==
    /\ op # "none" /\ EndScript("none")
    /\ missed' = (missed \/ (at = "master" /\ host # None /\ master # None))
    /\ UNCHANGED <<file, launchd, gateway, torn>>

-----------------------------------------------------------------------------
(* launchd, the gateway and the master.                                     *)

(* An agent ends after SIGTERM; the gateway detaches from its master.       *)
Unloaded(l) ==
    /\ loaded[l] = "leaving"
    /\ loaded' = [loaded EXCEPT ![l] = "no"]
    /\ connected' = (connected /\ l # "gateway")
    /\ UNCHANGED <<file, args, master, script, torn, missed>>

(* A new login session loads what the files say; masters may outlive the    *)
(* old session, or have ended with the computer.                            *)
Login ==
    /\ loaded' = [l \in Labels |-> IF file[l] = None THEN "no" ELSE "yes"]
    /\ args' = [l \in Labels |-> file[l]]
    /\ master' \in {None, master} /\ connected' = FALSE
    /\ missed' = (master' # None
                  /\ (missed \/ (at = "master" /\ host # None)))
    /\ torn' = {} /\ EndScript("none")
    /\ UNCHANGED file

(* adopt_existing, or a master of its own when there is none to be had, or  *)
(* the one that answers fails its probe.                                    *)
ConnectGateway ==
    /\ loaded["gateway"] = "yes" /\ ~connected
    /\ connected' = TRUE
    /\ \/ master' = master /\ master # None
       \/ master' = args["gateway"]
    /\ missed' = (missed /\ master' = master)
    /\ UNCHANGED <<file, launchd, script, torn>>

(* The gateway crashes and is started again, or its master ends.            *)
Disconnect ==
    /\ connected /\ connected' = FALSE
    /\ master' \in {None, master}
    /\ missed' = (missed /\ master' # None)
    /\ UNCHANGED <<file, launchd, script, torn>>

-----------------------------------------------------------------------------
Commands ==
    \/ \E h \in Hosts, mcp \in BOOLEAN : Install(h, mcp)
    \/ InstallBridge \/ RemoveBridge \/ Uninstall

Steps ==
    \/ WriteFile \/ Bootout \/ WaitUntilUnloaded \/ Bootstrap \/ Unlink
    \/ StopDetachedMaster \/ Fail

World == (\E l \in Labels : Unloaded(l)) \/ Login \/ ConnectGateway \/ Disconnect

Next == Commands \/ Steps \/ World

Spec == Init /\ [][Next]_vars

-----------------------------------------------------------------------------
(***************************************************************************)
(* Properties                                                              *)
(***************************************************************************)

(* Every variable holds a value of its type.                                *)
TypeOK ==
    /\ file \in [Labels -> Hosts \cup {None, "any"}]
    /\ loaded \in [Labels -> {"no", "yes", "leaving"}]
    /\ args \in [Labels -> Hosts \cup {None, "any"}]
    /\ master \in Hosts \cup {None} /\ connected \in BOOLEAN
    /\ op \in {"none", "install", "remove", "uninstall"}
    /\ label \in Labels \cup {"none"}
    /\ at \in {"none", "write", "bootout", "wait", "bootstrap", "unlink", "master"}
    /\ host \in Hosts \cup {None} /\ withMcp \in BOOLEAN
    /\ done \in {"none", "install", "remove", "uninstall"}
    /\ torn \in SUBSET Labels /\ missed \in BOOLEAN

(* No agent is ever loaded without a file, by which alone a later command   *)
(* finds it (launchd.py:246-248, 299-311); and one whose last change was    *)
(* completed, whatever came before it, runs exactly if it has a file, with  *)
(* the arguments of that file (launchd.py:122-127).                         *)
AgentsAccounted ==
    \A l \in Labels :
        /\ loaded[l] # "no" => file[l] # None
        /\ l \notin torn =>
              IF file[l] = None THEN loaded[l] = "no"
                                ELSE loaded[l] = "yes" /\ args[l] = file[l]

(* "Unload and remove Pazuzu's LaunchAgents, leaving no daemon running"     *)
(* (launchd.py:299-312): after an uninstallation that reported no error     *)
(* there is no file, no agent and no master, unless the master did not      *)
(* answer, or an earlier uninstallation was cut short at its last step.     *)
UninstallClean ==
    done = "uninstall" =>
        /\ \A l \in Labels : file[l] = None /\ loaded[l] = "no"
        /\ master = None \/ missed

=============================================================================
