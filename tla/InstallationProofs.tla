-------------------------- MODULE InstallationProofs --------------------------
(***************************************************************************)
(* Installation keeps agents, files and the master accounted for, whatever  *)
(* commands are given and wherever they are cut short.                      *)
(***************************************************************************)
EXTENDS Installation, TLAPS

(* The host that a file, an agent or a command names is a host.             *)
HostsOK ==
    /\ \A l \in {"gateway", "bridge"} : file[l] \in Hosts \cup {None}
    /\ loaded["gateway"] # "no" => args["gateway"] \in Hosts
    /\ op = "install" => host \in Hosts

(* Where the script is, and what the agent at hand is like there.           *)
ScriptOK ==
    /\ op = "none" => at = "none"
    /\ op = "install" => at \in {"write", "bootout", "wait", "bootstrap"}
    /\ op = "remove" => at \in {"bootout", "wait", "unlink"} /\ label = "bridge"
    /\ op = "uninstall" => at \in {"bootout", "wait", "unlink", "master"}
    /\ op # "none" => label \in Labels
    /\ at \in {"wait", "bootstrap", "unlink"} => label \in torn
    /\ op = "install" /\ at # "write" => file[label] # None /\ label \in torn
    /\ at \in {"bootstrap", "unlink"} => loaded[label] = "no"

(* The agents that an uninstallation has passed.                            *)
PassedOK ==
    /\ op = "uninstall" =>
          /\ label # "bridge" => file["bridge"] = None
          /\ label = "gateway" => file["mcp"] = None
          /\ at = "master" => label = "gateway" /\ file["gateway"] = None
          /\ host = None => file["gateway"] = None
    /\ done = "uninstall" => op = "none" /\ \A l \in Labels : file[l] = None

(* Without the gateway's file there is no master, unless one was missed or  *)
(* is about to be told to exit.                                             *)
MasterOK ==
    file["gateway"] = None =>
        master = None \/ missed \/ (at = "master" /\ host # None)

IInv == TypeOK /\ HostsOK /\ ScriptOK /\ AgentsAccounted /\ PassedOK /\ MasterOK

-----------------------------------------------------------------------------
LEMMA InitIInv == Init => IInv
BY NoneAssumption
   DEF Init, IInv, TypeOK, HostsOK, ScriptOK, AgentsAccounted, PassedOK, MasterOK, Labels

(* A command that begins has its first agent and step.                      *)
LEMMA BeginIInv ==
    ASSUME IInv, Commands
    PROVE  IInv'
<1>1. ASSUME NEW h \in Hosts, NEW mcp \in BOOLEAN, Install(h, mcp)
      PROVE  IInv'
  BY <1>1, NoneAssumption
     DEF Install, Begin, launchd, gateway, IInv, TypeOK, HostsOK, ScriptOK, AgentsAccounted,
         PassedOK, MasterOK, Labels
<1>2. ASSUME InstallBridge
      PROVE  IInv'
  BY <1>2, NoneAssumption
     DEF InstallBridge, Begin, launchd, gateway, IInv, TypeOK, HostsOK, ScriptOK,
         AgentsAccounted, PassedOK, MasterOK, Labels
<1>3. ASSUME RemoveBridge
      PROVE  IInv'
  BY <1>3, NoneAssumption
     DEF RemoveBridge, Begin, launchd, gateway, IInv, TypeOK, HostsOK, ScriptOK,
         AgentsAccounted, PassedOK, MasterOK, Labels
<1>4. ASSUME Uninstall
      PROVE  IInv'
  BY <1>4, NoneAssumption
     DEF Uninstall, Begin, launchd, gateway, IInv, TypeOK, HostsOK, ScriptOK,
         AgentsAccounted, PassedOK, MasterOK, Labels
<1> QED BY <1>1, <1>2, <1>3, <1>4 DEF Commands

LEMMA StepIInv ==
    ASSUME IInv, Steps
    PROVE  IInv'
<1>1. ASSUME WriteFile
      PROVE  IInv'
  BY <1>1, NoneAssumption
     DEF WriteFile, Go, launchd, gateway, IInv, TypeOK, HostsOK, ScriptOK, AgentsAccounted,
         PassedOK, MasterOK, Labels
<1>2. ASSUME Bootout
      PROVE  IInv'
  BY <1>2, NoneAssumption
     DEF Bootout, Go, gateway, IInv, TypeOK, HostsOK, ScriptOK, AgentsAccounted,
         PassedOK, MasterOK, Labels
<1>3. ASSUME WaitUntilUnloaded
      PROVE  IInv'
  <2>1. TypeOK'
    BY <1>3, NoneAssumption
       DEF WaitUntilUnloaded, AfterWait, Go, EndScript, launchd, gateway,
           IInv, TypeOK, HostsOK, ScriptOK, AgentsAccounted, PassedOK, MasterOK, Labels
  <2>2. HostsOK'
    BY <1>3, NoneAssumption
       DEF WaitUntilUnloaded, AfterWait, Go, EndScript, launchd, gateway,
           IInv, TypeOK, HostsOK, ScriptOK, AgentsAccounted, PassedOK, MasterOK, Labels
  <2>3. ScriptOK'
    BY <1>3, NoneAssumption
       DEF WaitUntilUnloaded, AfterWait, Go, EndScript, launchd, gateway,
           IInv, TypeOK, HostsOK, ScriptOK, AgentsAccounted, PassedOK, MasterOK, Labels
  <2>4. AgentsAccounted'
    BY <1>3, NoneAssumption
       DEF WaitUntilUnloaded, AfterWait, Go, EndScript, launchd, gateway,
           IInv, TypeOK, HostsOK, ScriptOK, AgentsAccounted, PassedOK, MasterOK, Labels
  <2>5. PassedOK'
    BY <1>3, NoneAssumption
       DEF WaitUntilUnloaded, AfterWait, Go, EndScript, launchd, gateway,
           IInv, TypeOK, HostsOK, ScriptOK, AgentsAccounted, PassedOK, MasterOK, Labels
  <2>6. MasterOK'
    BY <1>3, NoneAssumption
       DEF WaitUntilUnloaded, AfterWait, Go, EndScript, launchd, gateway,
           IInv, TypeOK, HostsOK, ScriptOK, AgentsAccounted, PassedOK, MasterOK, Labels
  <2> QED BY <2>1, <2>2, <2>3, <2>4, <2>5, <2>6 DEF IInv
<1>4. ASSUME Bootstrap
      PROVE  IInv'
  BY <1>4, NoneAssumption
     DEF Bootstrap, Advance, Following, Go, EndScript, gateway, IInv, TypeOK, HostsOK,
         ScriptOK, AgentsAccounted, PassedOK, MasterOK, Labels
<1>5. ASSUME Unlink
      PROVE  IInv'
  <2>1. TypeOK'
    BY <1>5, NoneAssumption
       DEF Unlink, Advance, Following, Go, EndScript, launchd, gateway,
           IInv, TypeOK, HostsOK, ScriptOK, AgentsAccounted, PassedOK, MasterOK, Labels
  <2>2. HostsOK'
    BY <1>5, NoneAssumption
       DEF Unlink, Advance, Following, Go, EndScript, launchd, gateway,
           IInv, TypeOK, HostsOK, ScriptOK, AgentsAccounted, PassedOK, MasterOK, Labels
  <2>3. ScriptOK'
    BY <1>5, NoneAssumption
       DEF Unlink, Advance, Following, Go, EndScript, launchd, gateway,
           IInv, TypeOK, HostsOK, ScriptOK, AgentsAccounted, PassedOK, MasterOK, Labels
  <2>4. AgentsAccounted'
    BY <1>5, NoneAssumption
       DEF Unlink, Advance, Following, Go, EndScript, launchd, gateway,
           IInv, TypeOK, HostsOK, ScriptOK, AgentsAccounted, PassedOK, MasterOK, Labels
  <2>5. PassedOK'
    BY <1>5, NoneAssumption
       DEF Unlink, Advance, Following, Go, EndScript, launchd, gateway,
           IInv, TypeOK, HostsOK, ScriptOK, AgentsAccounted, PassedOK, MasterOK, Labels
  <2>6. MasterOK'
    BY <1>5, NoneAssumption
       DEF Unlink, Advance, Following, Go, EndScript, launchd, gateway,
           IInv, TypeOK, HostsOK, ScriptOK, AgentsAccounted, PassedOK, MasterOK, Labels
  <2> QED BY <2>1, <2>2, <2>3, <2>4, <2>5, <2>6 DEF IInv
<1>6. ASSUME StopDetachedMaster
      PROVE  IInv'
  BY <1>6, NoneAssumption
     DEF StopDetachedMaster, EndScript, launchd, IInv, TypeOK, HostsOK, ScriptOK,
         AgentsAccounted, PassedOK, MasterOK, Labels
<1>7. ASSUME Fail
      PROVE  IInv'
  BY <1>7, NoneAssumption
     DEF Fail, EndScript, launchd, gateway, IInv, TypeOK, HostsOK, ScriptOK, AgentsAccounted,
         PassedOK, MasterOK, Labels
<1> QED BY <1>1, <1>2, <1>3, <1>4, <1>5, <1>6, <1>7 DEF Steps

LEMMA WorldIInv ==
    ASSUME IInv, World
    PROVE  IInv'
<1>1. ASSUME NEW k \in Labels, Unloaded(k)
      PROVE  IInv'
  BY <1>1, NoneAssumption
     DEF Unloaded, script, IInv, TypeOK, HostsOK, ScriptOK, AgentsAccounted, PassedOK,
         MasterOK, Labels
<1>2. ASSUME Login
      PROVE  IInv'
  BY <1>2, NoneAssumption
     DEF Login, EndScript, IInv, TypeOK, HostsOK, ScriptOK, AgentsAccounted, PassedOK,
         MasterOK, Labels
<1>3. ASSUME ConnectGateway
      PROVE  IInv'
  BY <1>3, NoneAssumption
     DEF ConnectGateway, launchd, script, IInv, TypeOK, HostsOK, ScriptOK, AgentsAccounted,
         PassedOK, MasterOK, Labels
<1>4. ASSUME Disconnect
      PROVE  IInv'
  <2>1. TypeOK'
    BY <1>4, NoneAssumption
       DEF Disconnect, launchd, script,
           IInv, TypeOK, HostsOK, ScriptOK, AgentsAccounted, PassedOK, MasterOK, Labels
  <2>2. HostsOK'
    BY <1>4, NoneAssumption
       DEF Disconnect, launchd, script,
           IInv, TypeOK, HostsOK, ScriptOK, AgentsAccounted, PassedOK, MasterOK, Labels
  <2>3. ScriptOK'
    BY <1>4, NoneAssumption
       DEF Disconnect, launchd, script,
           IInv, TypeOK, HostsOK, ScriptOK, AgentsAccounted, PassedOK, MasterOK, Labels
  <2>4. AgentsAccounted'
    BY <1>4, NoneAssumption
       DEF Disconnect, launchd, script,
           IInv, TypeOK, HostsOK, ScriptOK, AgentsAccounted, PassedOK, MasterOK, Labels
  <2>5. PassedOK'
    BY <1>4, NoneAssumption
       DEF Disconnect, launchd, script,
           IInv, TypeOK, HostsOK, ScriptOK, AgentsAccounted, PassedOK, MasterOK, Labels
  <2>6. MasterOK'
    BY <1>4, NoneAssumption
       DEF Disconnect, launchd, script,
           IInv, TypeOK, HostsOK, ScriptOK, AgentsAccounted, PassedOK, MasterOK, Labels
  <2> QED BY <2>1, <2>2, <2>3, <2>4, <2>5, <2>6 DEF IInv
<1> QED BY <1>1, <1>2, <1>3, <1>4 DEF World

LEMMA StutterIInv ==
    ASSUME IInv, UNCHANGED vars
    PROVE  IInv'
BY DEF vars, launchd, gateway, script, IInv, TypeOK, HostsOK, ScriptOK, AgentsAccounted,
       PassedOK, MasterOK

THEOREM IInvHolds == Spec => []IInv
<1>1. IInv /\ [Next]_vars => IInv'
  BY BeginIInv, StepIInv, WorldIInv, StutterIInv DEF Next
<1> QED BY InitIInv, <1>1, PTL DEF Spec

(* Every variable of files, agents and the script keeps its type, for any   *)
(* set of hosts.                                                            *)
THEOREM InstallationTypeCorrect == Spec => []TypeOK
BY IInvHolds, PTL DEF IInv

(* No agent is loaded without a file, and one whose last change was         *)
(* completed runs with the arguments of its file (launchd.py:122-127),      *)
(* wherever the commands before it were cut short.                          *)
THEOREM AgentsAlwaysAccounted == Spec => []AgentsAccounted
BY IInvHolds, PTL DEF IInv

(* An uninstallation that reports no error leaves nothing                   *)
(* (launchd.py:299-312), for any history of commands and failures.          *)
THEOREM UninstallLeavesNothing == Spec => []UninstallClean
<1>1. IInv => UninstallClean
  BY DEF IInv, AgentsAccounted, PassedOK, MasterOK, ScriptOK, UninstallClean, Labels
<1> QED BY <1>1, IInvHolds, PTL
=============================================================================
