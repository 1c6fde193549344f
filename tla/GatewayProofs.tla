----------------------------- MODULE GatewayProofs -----------------------------
(***************************************************************************)
(* Proofs about the gateway processes of the module Gateway, for any finite *)
(* sets of processes and masters: every variable keeps its type, no request *)
(* outlives the shutdown, the gateway that serves owns the path, and what   *)
(* gateways that follow one another do to the masters.                      *)
(***************************************************************************)
EXTENDS Gateway, FiniteSetTheorems, TLAPS

(* What a job may become.                                                   *)
LEMMA JobFacts ==
    /\ Idle \in Jobs
    /\ \A j \in Jobs :
          /\ \A step \in {"exit", "owned", "recorded", "spawning", "waiting", "cleaning"} :
                [j EXCEPT !.step = step] \in Jobs
          /\ [step |-> "cleaning", by |-> j.by, next |-> "raise"] \in Jobs
BY DEF Jobs, Idle

(* The initial values have their types.                                     *)
LEMMA InitTypeOK == Init => TypeOK
<1> SUFFICES ASSUME Init PROVE TypeOK
  OBVIOUS
<1>1. job \in [Gateways -> Jobs] /\ pc \in [Gateways -> Places]
  BY JobFacts DEF Init, Places
<1> QED BY <1>1 DEF Init, TypeOK

(* The end of masters keeps the types of what it touches.                   *)
LEMMA EndType ==
    ASSUME TypeOK, NEW M, End(M)
    PROVE  /\ control' \in Masters \cup {None} /\ alive' \in SUBSET Masters
           /\ bound' \in SUBSET alive' /\ sick' \in SUBSET bound' /\ lost' \in SUBSET Masters
BY DEF TypeOK, End

(* So does a cancellation or a kill, with a thread that spawns meanwhile.   *)
LEMMA AbandonType ==
    ASSUME TypeOK, NEW g \in Gateways, Abandon(g)
    PROVE  /\ control' \in Masters \cup {None} /\ alive' \in SUBSET Masters
           /\ bound' \in SUBSET alive' /\ sick' \in SUBSET bound' /\ lost' \in SUBSET Masters
<1>1. CASE \E M \in {{}, Struck(g)} : End(M)
  BY <1>1, EndType
<1>2. CASE \E m \in Masters \ alive :
             /\ alive' = alive \cup {m} /\ lost' = lost \cup {m}
             /\ UNCHANGED <<bound, sick, control>>
  BY <1>2 DEF TypeOK
<1> QED BY <1>1, <1>2 DEF Abandon

(* The main coroutine's steps.                                              *)
LEMMA MainType ==
    ASSUME TypeOK, NEW g \in Gateways, Start(g) \/ Main(g) PROVE TypeOK'
<1> USE JobFacts DEF TypeOK, Places, Move, files, masters, requests, process, transport
<1>1. CASE Start(g)
  BY <1>1 DEF Start
<1>2. CASE Knock(g)
  BY <1>2 DEF Knock
<1>3. CASE ClearPath(g)
  BY <1>3 DEF ClearPath
<1>4. CASE Bind(g)
  BY <1>4 DEF Bind
<1>5. CASE BeginClose(g)
  BY <1>5 DEF BeginClose
<1>6. CASE Gathered(g)
  BY <1>6 DEF Gathered, Survivor, Healthy
<1>7. CASE HaltMaintenance(g)
  BY <1>7 DEF HaltMaintenance, Exit
<1>8. CASE CloseMaster(g)
  BY <1>8 DEF CloseMaster, Jobs
<1>9. CASE Unlink(g)
  BY <1>9 DEF Unlink, Exit
<1> QED BY <1>1, <1>2, <1>3, <1>4, <1>5, <1>6, <1>7, <1>8, <1>9 DEF Main

(* Requests, signals, the end of maintenance, and the beginning of a job.   *)
LEMMA RequestType ==
    ASSUME TypeOK, NEW g \in Gateways,
           \/ Accept(g) \/ BeginRequest(g) \/ EndRequest(g) \/ MaintenanceDies(g)
           \/ \E how \in {"keep", "end"} : RequestStop(g, how)
           \/ \E who \in {"client", "maintenance"} : Connect(g, who)
    PROVE  TypeOK'
<1> USE DEF TypeOK, files, masters, requests, process, transport
<1>1. CASE Accept(g)
  BY <1>1 DEF Accept
<1>2. CASE BeginRequest(g)
  BY <1>2 DEF BeginRequest
<1>3. CASE EndRequest(g)
  BY <1>3 DEF EndRequest
<1>4. CASE MaintenanceDies(g)
  BY <1>4 DEF MaintenanceDies
<1>5. CASE \E how \in {"keep", "end"} : RequestStop(g, how)
  BY <1>5 DEF RequestStop
<1>6. CASE \E who \in {"client", "maintenance"} : Connect(g, who)
  BY <1>6 DEF Connect, Jobs
<1> QED BY <1>1, <1>2, <1>3, <1>4, <1>5, <1>6

(* A job goes on, is tried again, or returns.                               *)
LEMMA StepTypes ==
    ASSUME TypeOK, NEW g \in Gateways
    PROVE  /\ \A step \in {"exit", "owned", "recorded", "spawning", "waiting", "cleaning"} :
                 Step(g, step) => job' \in [Gateways -> Jobs]
           /\ Retry(g) => job' \in [Gateways -> Jobs]
           /\ Return(g) => job' \in [Gateways -> Jobs] /\ pc' \in [Gateways -> Places]
<1>1. job \in [Gateways -> Jobs] /\ pc \in [Gateways -> Places] /\ "closed" \in Places
  BY DEF TypeOK, Places
<1>2. ASSUME NEW step \in {"exit", "owned", "recorded", "spawning", "waiting", "cleaning"},
             Step(g, step)
      PROVE  job' \in [Gateways -> Jobs]
  BY <1>1, <1>2, JobFacts DEF Step
<1>3. ASSUME Retry(g) PROVE job' \in [Gateways -> Jobs]
  <2>1. PICK next \in {"start", "return"} :
          job' = [job EXCEPT ![g] = [step |-> "exit", by |-> job[g].by, next |-> next]]
    BY <1>3 DEF Retry
  <2>2. [step |-> "exit", by |-> job[g].by, next |-> next] \in Jobs
    BY <1>1 DEF Jobs
  <2> QED BY <1>1, <2>1, <2>2
<1>4. ASSUME Return(g)
      PROVE  job' \in [Gateways -> Jobs] /\ pc' \in [Gateways -> Places]
  BY <1>1, <1>4, JobFacts DEF Return, Move
<1> QED BY <1>2, <1>3, <1>4

(* The steps of a job.                                                      *)
LEMMA JobType ==
    ASSUME TypeOK, NEW g \in Gateways, Job(g) PROVE TypeOK'
<1> USE StepTypes DEF TypeOK, Others, Release, masters, requests
<1>1. CASE Adopt(g)
  BY <1>1 DEF Adopt, Healthy, files
<1>2. CASE ExitCommand(g)
  BY <1>2, EndType DEF ExitCommand
<1>3. CASE StopOwned(g)
  BY <1>3, EndType DEF StopOwned
<1>4. CASE StopRecorded(g)
  <2>1. job' \in [Gateways -> Jobs] /\ pc' \in [Gateways -> Places]
    BY <1>4 DEF StopRecorded
  <2>2. /\ alive' \in SUBSET Masters /\ bound' \in SUBSET alive'
        /\ sick' \in SUBSET bound' /\ lost' \in SUBSET Masters
    BY <1>4 DEF StopRecorded
  <2> QED BY <1>4, <2>1, <2>2 DEF StopRecorded
<1>5. CASE Spawn(g)
  BY <1>5 DEF Spawn
<1>6. CASE SpawnFails(g)
  BY <1>6 DEF SpawnFails
<1>7. CASE Ready(g)
  BY <1>7 DEF Ready, files
<1>8. CASE StartFails(g)
  BY <1>8 DEF StartFails, files
<1>9. CASE CleanUp(g)
  <2>1. job' \in [Gateways -> Jobs] /\ pc' \in [Gateways -> Places]
    BY <1>9 DEF CleanUp
  <2> QED BY <1>9, <2>1 DEF CleanUp
<1> QED BY <1>1, <1>2, <1>3, <1>4, <1>5, <1>6, <1>7, <1>8, <1>9 DEF Job

(* Cancellations and kills.                                                 *)
LEMMA EndingType ==
    ASSUME TypeOK, NEW g \in Gateways, Cancel(g) \/ Kill(g) PROVE TypeOK'
<1> USE JobFacts DEF TypeOK, Others, files, masters, requests, process, transport
<1>1. CASE Cancel(g)
  <2>1. CASE job[g].step = "waiting"
    <3>1. job' = [job EXCEPT ![g] = [step |-> "cleaning", by |-> job[g].by,
                                     next |-> "raise"]]
      BY <1>1, <2>1 DEF Cancel, BreakOff
    <3>2. job' \in [Gateways -> Jobs]
      BY <3>1
    <3> QED BY <1>1, <2>1, <3>2 DEF Cancel, BreakOff
  <2>2. CASE job[g].step # "waiting"
    BY <1>1, <2>2, AbandonType DEF Cancel, BreakOff
  <2> QED BY <2>1, <2>2
<1>2. CASE Kill(g)
  BY <1>2, AbandonType DEF Places, Kill, Survivor, Healthy, Exit, Move
<1> QED BY <1>1, <1>2

(* What masters do by themselves.                                           *)
LEMMA WorldType ==
    ASSUME TypeOK, NEW m \in Masters, MasterComesUp(m) \/ MasterDies(m) \/ MasterSickens(m)
    PROVE  TypeOK'
<1> USE DEF TypeOK, files, masters, requests, process, transport
<1>1. CASE MasterComesUp(m)
  BY <1>1 DEF MasterComesUp
<1>2. CASE MasterDies(m)
  BY <1>2, EndType DEF MasterDies
<1>3. CASE MasterSickens(m)
  BY <1>3 DEF MasterSickens
<1> QED BY <1>1, <1>2, <1>3

(* Every step keeps the types.                                              *)
LEMMA NextType ==
    ASSUME TypeOK, [Next]_vars PROVE TypeOK'
<1>1. CASE UNCHANGED vars
  BY <1>1 DEF TypeOK, vars, files, masters, requests, process, transport
<1>2. CASE \E g \in Gateways : GatewayNext(g)
  BY <1>2, MainType, RequestType, JobType, EndingType DEF GatewayNext
<1>3. CASE \E m \in Masters : MasterComesUp(m) \/ MasterDies(m) \/ MasterSickens(m)
  BY <1>3, WorldType
<1> QED BY <1>1, <1>2, <1>3 DEF Next

(* Every variable of gateways, files and masters keeps its type.            *)
THEOREM GatewayTypeCorrect == Spec => []TypeOK
BY InitTypeOK, NextType, PTL DEF Spec

-----------------------------------------------------------------------------
(* The job that close does on the connection: it alone moves the main       *)
(* coroutine on when it returns.                                            *)
OnlyCloseCloses == \A g \in Gateways : job[g].by = "close" => pc[g] = "closing"

(* A job leaves the path and the requests alone, and moves the main         *)
(* coroutine at most from closing to closed.                                *)
LEMMA JobMoves ==
    ASSUME TypeOK, OnlyCloseCloses, NEW g \in Gateways, Job(g) \/ Cancel(g)
    PROVE  /\ UNCHANGED <<socket, running>>
           /\ \/ UNCHANGED pc
              \/ pc[g] = "closing" /\ pc' = [pc EXCEPT ![g] = "closed"]
           /\ OnlyCloseCloses'
<1> USE DEF OnlyCloseCloses, Others, requests
<1>0. /\ pc \in [Gateways -> Places] /\ job \in [Gateways -> Jobs]
      /\ job[g].by = "close" => pc[g] = "closing"
  BY DEF TypeOK
<1>1. ASSUME Return(g)
      PROVE  /\ \/ UNCHANGED pc
                \/ pc[g] = "closing" /\ pc' = [pc EXCEPT ![g] = "closed"]
             /\ OnlyCloseCloses'
  BY <1>0, <1>1 DEF Return, Move, Idle
<1>2. ASSUME NEW step, Step(g, step), UNCHANGED pc PROVE OnlyCloseCloses'
  BY <1>0, <1>2 DEF Step, Jobs
<1>3. ASSUME Retry(g), UNCHANGED pc PROVE OnlyCloseCloses'
  BY <1>0, <1>3 DEF Retry
<1>4. CASE Adopt(g)
  BY <1>1, <1>2, <1>4 DEF Adopt, files
<1>5. CASE ExitCommand(g)
  BY <1>2, <1>5 DEF ExitCommand
<1>6. CASE StopOwned(g)
  BY <1>2, <1>6 DEF StopOwned
<1>7. CASE StopRecorded(g)
  BY <1>1, <1>2, <1>7 DEF StopRecorded
<1>8. CASE Spawn(g)
  BY <1>2, <1>8 DEF Spawn
<1>9. CASE SpawnFails(g)
  BY <1>3, <1>9 DEF SpawnFails
<1>10. CASE Ready(g)
  BY <1>1, <1>10 DEF Ready, files
<1>11. CASE StartFails(g)
  BY <1>2, <1>11 DEF StartFails, files
<1>12. CASE CleanUp(g)
  BY <1>1, <1>3, <1>12 DEF CleanUp
<1>13. CASE Cancel(g)
  BY <1>0, <1>13 DEF Cancel, BreakOff, Idle
<1> QED BY <1>4, <1>5, <1>6, <1>7, <1>8, <1>9, <1>10, <1>11, <1>12, <1>13 DEF Job

RequestInv == OnlyCloseCloses /\ NoLateRequest

(* A process that is off has no request and no job.                         *)
LEMMA InitRequestInv == Init => RequestInv
BY DEF Init, RequestInv, OnlyCloseCloses, NoLateRequest, Idle

(* Requests are cancelled and waited for before the coroutine moves on, and *)
(* a handler that begins later finds the server closing.                    *)
LEMMA NextRequestInv ==
    ASSUME TypeOK, RequestInv, [Next]_vars PROVE RequestInv'
<1> USE DEF RequestInv, NoLateRequest
<1>1. CASE UNCHANGED vars
  BY <1>1 DEF OnlyCloseCloses, vars, process, transport, requests
<1>2. CASE \E m \in Masters : MasterComesUp(m) \/ MasterDies(m) \/ MasterSickens(m)
  BY <1>2 DEF MasterComesUp, MasterDies, MasterSickens, OnlyCloseCloses, process,
              transport, requests
<1>3. ASSUME NEW g \in Gateways, GatewayNext(g) PROVE RequestInv'
  <2> USE DEF TypeOK, Places, Jobs, Move, process, transport, requests
  <2>1. CASE Job(g) \/ Cancel(g)
    BY <2>1, JobMoves
  <2>2. CASE Start(g) \/ Knock(g) \/ ClearPath(g) \/ Bind(g)
    BY <2>2 DEF Start, Knock, ClearPath, Bind, OnlyCloseCloses
  <2>3. CASE BeginClose(g) \/ Gathered(g)
    BY <2>3 DEF BeginClose, Gathered, OnlyCloseCloses
  <2>4. CASE HaltMaintenance(g) \/ CloseMaster(g) \/ Unlink(g)
    <3>1. ASSUME Exit(g) PROVE RequestInv'
      BY <3>1 DEF Exit, Idle, OnlyCloseCloses
    <3>2. CASE HaltMaintenance(g)
      BY <3>1, <3>2 DEF HaltMaintenance, Idle, OnlyCloseCloses
    <3>3. CASE CloseMaster(g)
      BY <3>3 DEF CloseMaster, OnlyCloseCloses
    <3>4. CASE Unlink(g)
      BY <3>1, <3>4 DEF Unlink
    <3> QED BY <2>4, <3>2, <3>3, <3>4
  <2>5. CASE Accept(g) \/ BeginRequest(g) \/ EndRequest(g)
    BY <2>5 DEF Accept, BeginRequest, EndRequest, OnlyCloseCloses
  <2>6. CASE MaintenanceDies(g) \/ \E how \in {"keep", "end"} : RequestStop(g, how)
    BY <2>6 DEF MaintenanceDies, RequestStop, OnlyCloseCloses
  <2>7. CASE \E who \in {"client", "maintenance"} : Connect(g, who)
    BY <2>7 DEF Connect, OnlyCloseCloses
  <2>8. CASE Kill(g)
    BY <2>8 DEF Kill, Exit, Idle, OnlyCloseCloses
  <2> QED
    BY <1>3, <2>1, <2>2, <2>3, <2>4, <2>5, <2>6, <2>7, <2>8 DEF GatewayNext, Main
<1> QED BY <1>1, <1>2, <1>3 DEF Next

(* No request runs once the shutdown has gathered the handlers, whenever a  *)
(* connection was accepted (gateway.py:160-170).                            *)
THEOREM RequestsEndFirst == Spec => []NoLateRequest
<1>1. RequestInv => NoLateRequest
  BY DEF RequestInv
<1> QED BY <1>1, GatewayTypeCorrect, InitRequestInv, NextRequestInv, PTL DEF Spec

-----------------------------------------------------------------------------
(* Two members of a set that has at most one are the same.                  *)
LEMMA AtMostOne ==
    ASSUME NEW S, IsFiniteSet(S), Cardinality(S) <= 1, NEW x \in S, NEW y \in S
    PROVE  x = y
<1> SUFFICES ASSUME x # y PROVE FALSE
  OBVIOUS
<1>1. IsFiniteSet({x}) /\ Cardinality({x}) = 1
  BY FS_Singleton
<1>2. Cardinality({x} \cup {y}) = 2
  BY <1>1, FS_AddElement
<1>3. Cardinality({x} \cup {y}) <= Cardinality(S)
  BY FS_Subset
<1>4. Cardinality(S) \in Nat
  BY FS_CardinalityType
<1> QED BY <1>2, <1>3, <1>4

(* Nobody serves while another clears the path or ends.                     *)
PathInv ==
    /\ Apart
    /\ EndpointOwned
    /\ \A g, h \in Gateways :
          pc[h] \in {"clearing", "binding"} \/ h \in Ending => pc[g] # "serving"

(* At first nobody starts, serves or ends.                                  *)
LEMMA InitPathInv == Init => PathInv
<1> SUFFICES ASSUME Init PROVE PathInv
  OBVIOUS
<1>1. Starting = {} /\ Ending = {}
  BY DEF Init, Starting, Ending, In
<1> QED BY <1>1, FS_EmptySet DEF Init, PathInv, EndpointOwned, Apart

(* What a step does to the main coroutine and to the path, for those steps  *)
(* that matter to who owns it.                                              *)
LEMMA QuietSteps ==
    ASSUME TypeOK, OnlyCloseCloses, NEW g \in Gateways, GatewayNext(g),
           ~Knock(g), ~ClearPath(g), ~Bind(g), ~Unlink(g)
    PROVE  /\ UNCHANGED socket
           /\ \/ UNCHANGED pc
              \/ pc[g] = "off" /\ pc' = [pc EXCEPT ![g] = "knocking"]
              \/ \E place \in {"gathering", "detaching", "closing", "detached", "closed"} :
                    /\ g \in Ending \/ pc[g] = "serving"
                    /\ pc' = [pc EXCEPT ![g] = place]
              \/ pc' = [pc EXCEPT ![g] = "off"]
<1> USE DEF Move, Ending, In, files, process, transport, requests
<1>1. CASE Job(g) \/ Cancel(g)
  BY <1>1, JobMoves
<1>2. CASE Start(g)
  BY <1>2 DEF Start
<1>3. CASE BeginClose(g) \/ Gathered(g)
  BY <1>3 DEF BeginClose, Gathered
<1>4. CASE HaltMaintenance(g)
  BY <1>4 DEF HaltMaintenance, Exit, TypeOK
<1>5. CASE CloseMaster(g)
  BY <1>5 DEF CloseMaster
<1>6. CASE Accept(g) \/ BeginRequest(g) \/ EndRequest(g)
  BY <1>6 DEF Accept, BeginRequest, EndRequest
<1>7. CASE MaintenanceDies(g) \/ \E how \in {"keep", "end"} : RequestStop(g, how)
  BY <1>7 DEF MaintenanceDies, RequestStop
<1>8. CASE \E who \in {"client", "maintenance"} : Connect(g, who)
  BY <1>8 DEF Connect
<1>9. CASE Kill(g)
  BY <1>9 DEF Kill, Exit
<1> QED
  BY <1>1, <1>2, <1>3, <1>4, <1>5, <1>6, <1>7, <1>8, <1>9 DEF GatewayNext, Main

(* Where gateways do not overlap, every step keeps the owner of the path.   *)
LEMMA NextPathInv ==
    ASSUME ~Overlapping, TypeOK, OnlyCloseCloses, PathInv, [Next]_vars
    PROVE  PathInv'
<1> USE DEF EndpointOwned
<1>1. ASSUME UNCHANGED <<pc, socket>> PROVE PathInv'
  BY <1>1 DEF PathInv, Apart, Starting, Ending, In
<1>2. CASE UNCHANGED vars
  BY <1>1, <1>2 DEF vars, process, files
<1>3. CASE \E m \in Masters : MasterComesUp(m) \/ MasterDies(m) \/ MasterSickens(m)
  BY <1>1, <1>3 DEF MasterComesUp, MasterDies, MasterSickens, process, files
<1>4. ASSUME NEW g \in Gateways, GatewayNext(g), Apart' PROVE PathInv'
  <2> USE DEF Move, Ending, In
  <2>1. pc \in [Gateways -> Places] /\ socket \in Gateways \cup {None} /\ None \notin Gateways
    BY IdsAssumption DEF TypeOK
  <2>2. /\ \A h \in Gateways : pc[h] = "serving" => socket = h
        /\ \A h, k \in Gateways :
              pc[h] \in {"clearing", "binding"} \/ h \in Ending => pc[k] # "serving"
    BY DEF PathInv
  <2>3. CASE Knock(g)
    <3>1. UNCHANGED socket /\ \E place \in {"binding", "off", "clearing"} :
             /\ pc' = [pc EXCEPT ![g] = place]
             /\ place # "off" => \A h \in Gateways : pc[h] # "serving"
      BY <2>1, <2>2, <2>3 DEF Knock, files
    <3> QED BY <1>4, <2>1, <2>2, <3>1 DEF PathInv
  <2>4. CASE ClearPath(g)
    BY <1>4, <2>1, <2>2, <2>4 DEF ClearPath, PathInv
  <2>5. CASE Bind(g)
    <3>1. IsFiniteSet(Starting) /\ Cardinality(Starting) <= 1 /\ g \in Starting
      BY <2>5, IdsAssumption, FS_Subset DEF Bind, PathInv, Apart, Starting
    <3>2. \A h \in Gateways : pc[h] \in {"clearing", "binding"} => h = g
      BY <3>1, AtMostOne DEF Starting
    <3>3. Ending = {}
      BY <3>1 DEF PathInv, Apart
    <3> QED BY <1>4, <2>1, <2>2, <2>5, <3>2, <3>3 DEF Bind, PathInv
  <2>6. CASE Unlink(g)
    BY <1>4, <2>1, <2>2, <2>6 DEF Unlink, Exit, PathInv
  <2>7. CASE ~Knock(g) /\ ~ClearPath(g) /\ ~Bind(g) /\ ~Unlink(g)
    BY <1>4, <2>1, <2>2, <2>7, QuietSteps DEF PathInv
  <2> QED BY <2>3, <2>4, <2>5, <2>6, <2>7
<1> QED BY <1>2, <1>3, <1>4 DEF Next

(* Where a gateway starts only after the one before it has ended, the path  *)
(* leads to the gateway that serves (gateway.py:176-192).                   *)
THEOREM EndpointOwnedApart == ~Overlapping /\ Spec => []EndpointOwned
<1> SUFFICES ASSUME ~Overlapping PROVE Spec => []EndpointOwned
  OBVIOUS
<1>1. PathInv => EndpointOwned
  BY DEF PathInv
<1>2. TypeOK /\ RequestInv /\ PathInv /\ [Next]_vars => PathInv'
  BY NextPathInv DEF RequestInv
<1> QED
  BY <1>1, <1>2, GatewayTypeCorrect, InitRequestInv, NextRequestInv, InitPathInv, PTL
     DEF Spec

-----------------------------------------------------------------------------
(* What gateways that follow one another do to the masters: no master       *)
(* escapes the records, a gateway that was told to end leaves nothing, and  *)
(* the master of a gateway that went away waits for the next one. These     *)
(* proofs are for gateways that do not overlap, where at most one is at     *)
(* work on the connection; see EndpointOwnedApart for the reason.           *)

(* Who serves or ends is at work, and nobody else is.                       *)
AtWork == {"serving", "gathering", "detaching", "closing", "detached", "closed"}

LEMMA OneAtWork ==
    ASSUME PathInv, NEW g \in Gateways, NEW h \in Gateways,
           pc[g] \in AtWork, pc[h] \in AtWork
    PROVE  g = h
<1> USE DEF PathInv
<1>1. CASE pc[g] = "serving" \/ pc[h] = "serving"
  BY <1>1 DEF EndpointOwned, Ending, In, AtWork
<1>2. CASE pc[g] # "serving" /\ pc[h] # "serving"
  <2>1. g \in Ending /\ h \in Ending
    BY <1>2 DEF Ending, In, AtWork
  <2>2. IsFiniteSet(Ending) /\ Cardinality(Ending) <= 1
    BY IdsAssumption, FS_Subset DEF Apart, Ending, In
  <2> QED BY <2>1, <2>2, AtMostOne
<1> QED BY <1>1, <1>2

(* A job, a child and an adopted master belong to a gateway at work; and    *)
(* close does its job, a plain stop_master, last.                           *)
WorkerInv ==
    \A g \in Gateways :
        /\ child[g] # None \/ known[g] => pc[g] \in AtWork
        /\ job[g] = Idle \/ (job[g].step # "idle" /\ pc[g] \in AtWork \ {"detached", "closed"})
        /\ job[g].by = "close" =>
              /\ job[g].step \in {"exit", "owned", "recorded"} /\ job[g].next = "return"
              /\ pc[g] = "closing" /\ maint[g] = "none"

(* How a job goes on, for the gateway that has it and for the others.       *)
LEMMA JobGoesOn ==
    ASSUME TypeOK, NEW g \in Gateways
    PROVE  /\ \A step \in {"exit", "owned", "recorded", "spawning", "waiting", "cleaning"} :
                 Step(g, step) =>
                    /\ job'[g].step = step
                    /\ job'[g].by = job[g].by /\ job'[g].next = job[g].next
                    /\ \A h \in Gateways \ {g} : job'[h] = job[h]
           /\ Retry(g) =>
                 /\ job'[g].step = "exit" /\ job'[g].by = job[g].by
                 /\ \A h \in Gateways \ {g} : job'[h] = job[h]
           /\ Return(g) =>
                 /\ job'[g] = Idle
                 /\ pc'[g] = IF job[g].by = "close" THEN "closed" ELSE pc[g]
                 /\ \A h \in Gateways \ {g} : job'[h] = job[h] /\ pc'[h] = pc[h]
<1>1. job \in [Gateways -> Jobs] /\ pc \in [Gateways -> Places]
  BY DEF TypeOK
<1>2. ASSUME NEW step \in {"exit", "owned", "recorded", "spawning", "waiting", "cleaning"},
             Step(g, step)
      PROVE  /\ job'[g].step = step
             /\ job'[g].by = job[g].by /\ job'[g].next = job[g].next
             /\ \A h \in Gateways \ {g} : job'[h] = job[h]
  BY <1>1, <1>2 DEF Step, Jobs
<1>3. ASSUME Retry(g)
      PROVE  /\ job'[g].step = "exit" /\ job'[g].by = job[g].by
             /\ \A h \in Gateways \ {g} : job'[h] = job[h]
  BY <1>1, <1>3 DEF Retry
<1>4. ASSUME Return(g)
      PROVE  /\ job'[g] = Idle
             /\ pc'[g] = IF job[g].by = "close" THEN "closed" ELSE pc[g]
             /\ \A h \in Gateways \ {g} : job'[h] = job[h] /\ pc'[h] = pc[h]
  BY <1>1, <1>4 DEF Return, Move
<1> QED BY <1>2, <1>3, <1>4

(* At first nobody is at work.                                              *)
LEMMA InitWorkerInv == Init => WorkerInv
BY DEF Init, WorkerInv, Idle

(* The steps of a job keep to the gateway that has it.                      *)
LEMMA JobWorkerInv ==
    ASSUME TypeOK, WorkerInv, NEW g \in Gateways, Job(g) PROVE WorkerInv'
<1> USE JobGoesOn DEF WorkerInv, Others, AtWork
<1>0. /\ child \in [Gateways -> Masters \cup {None}] /\ known \in [Gateways -> BOOLEAN]
      /\ job[g] = Idle \/ (job[g].step # "idle" /\ pc[g] \in AtWork \ {"detached", "closed"})
      /\ Idle.step = "idle" /\ Idle.by = "none"
  BY DEF TypeOK, Idle
<1>1. CASE Adopt(g)
  BY <1>0, <1>1 DEF Adopt, files
<1>2. CASE ExitCommand(g)
  BY <1>0, <1>2 DEF ExitCommand
<1>3. CASE StopOwned(g)
  BY <1>0, <1>3 DEF StopOwned
<1>4. CASE StopRecorded(g)
  BY <1>0, <1>4 DEF StopRecorded
<1>5. CASE Spawn(g)
  BY <1>0, <1>5 DEF Spawn
<1>6. CASE SpawnFails(g)
  BY <1>0, <1>6 DEF SpawnFails
<1>7. CASE Ready(g)
  BY <1>0, <1>7 DEF Ready, files
<1>8. CASE StartFails(g)
  BY <1>0, <1>8 DEF StartFails, files
<1>9. CASE CleanUp(g)
  BY <1>0, <1>9 DEF CleanUp
<1> QED BY <1>1, <1>2, <1>3, <1>4, <1>5, <1>6, <1>7, <1>8, <1>9 DEF Job

(* A cancelled job is over, or cleans up.                                   *)
LEMMA CancelEffect ==
    ASSUME TypeOK, NEW g \in Gateways, Cancel(g)
    PROVE  /\ \A h \in Gateways \ {g} : job'[h] = job[h] /\ child'[h] = child[h]
           /\ UNCHANGED <<pc, known, socket, owner, survivor, cleaned, stop, maint>>
           /\ job[g].by \in {"client", "maintenance"}
           /\ \/ /\ job[g].step = "waiting" /\ job'[g].step = "cleaning"
                 /\ job'[g].by = job[g].by
                 /\ UNCHANGED <<child, alive, bound, sick, lost, control>>
              \/ /\ job[g].step # "waiting" /\ job'[g] = Idle /\ Abandon(g)
                 /\ child'[g] \in {child[g], None}
                 /\ job[g].step \in {"owned", "cleaning"} => child'[g] = None
<1> USE DEF TypeOK, Cancel, BreakOff, Others, masters
<1>1. CASE job[g].step = "waiting"
  BY <1>1
<1>2. CASE job[g].step # "waiting"
  BY <1>2
<1> QED BY <1>1, <1>2

(* The end of a process leaves nothing in it.                               *)
LEMMA ExitEffect ==
    ASSUME TypeOK, NEW g \in Gateways, Exit(g)
    PROVE  /\ pc' = [pc EXCEPT ![g] = "off"] /\ pc'[g] = "off" /\ job'[g] = Idle
           /\ child'[g] = None /\ ~known'[g] /\ maint'[g] = "none" /\ stop'[g] = "no"
           /\ \A h \in Gateways \ {g} :
                 /\ pc'[h] = pc[h] /\ job'[h] = job[h] /\ child'[h] = child[h]
                 /\ known'[h] = known[h] /\ maint'[h] = maint[h] /\ stop'[h] = stop[h]
BY DEF TypeOK, Exit, Move

(* Everything but the work on the connection.                               *)
Quiet(g) ==
    \/ Start(g) \/ Knock(g) \/ ClearPath(g) \/ Bind(g) \/ BeginClose(g)
    \/ Accept(g) \/ BeginRequest(g) \/ EndRequest(g) \/ MaintenanceDies(g)
    \/ \E how \in {"keep", "end"} : RequestStop(g, how)

(* What the main coroutine does meanwhile.                                  *)
LEMMA QuietEffect ==
    ASSUME TypeOK, NEW g \in Gateways, Quiet(g)
    PROVE  /\ UNCHANGED <<job, known, child, control, owner, alive, bound, sick, lost,
                          survivor>>
           /\ \A h \in Gateways \ {g} :
                 pc'[h] = pc[h] /\ maint'[h] = maint[h] /\ stop'[h] = stop[h]
           /\ pc'[g] \in {"detaching", "closing", "detached", "closed"} => pc'[g] = pc[g]
           /\ pc[g] \in {"detaching", "closing", "detached", "closed"} =>
                 pc'[g] = pc[g] /\ maint'[g] = maint[g] /\ stop'[g] = stop[g]
           /\ \/ pc'[g] = pc[g]
              \/ pc[g] \notin AtWork
              \/ pc[g] = "serving" /\ pc'[g] = "gathering"
<1> USE DEF TypeOK, Move, AtWork, process, transport, requests, files, masters
<1>1. CASE Start(g)
  BY <1>1 DEF Start
<1>2. CASE Knock(g)
  BY <1>2 DEF Knock
<1>3. CASE ClearPath(g)
  BY <1>3 DEF ClearPath
<1>4. CASE Bind(g)
  BY <1>4 DEF Bind
<1>5. CASE BeginClose(g)
  BY <1>5 DEF BeginClose
<1>6. CASE Accept(g) \/ BeginRequest(g) \/ EndRequest(g)
  BY <1>6 DEF Accept, BeginRequest, EndRequest
<1>7. CASE MaintenanceDies(g)
  BY <1>7 DEF MaintenanceDies
<1>8. CASE \E how \in {"keep", "end"} : RequestStop(g, how)
  BY <1>8 DEF RequestStop
<1> QED BY <1>1, <1>2, <1>3, <1>4, <1>5, <1>6, <1>7, <1>8 DEF Quiet

(* Every step keeps work where it belongs.                                  *)
LEMMA NextWorkerInv ==
    ASSUME TypeOK, WorkerInv, [Next]_vars PROVE WorkerInv'
<1> USE DEF WorkerInv, AtWork
<1>1. CASE UNCHANGED vars
  BY <1>1 DEF vars, process, transport
<1>2. CASE \E m \in Masters : MasterComesUp(m) \/ MasterDies(m) \/ MasterSickens(m)
  BY <1>2 DEF MasterComesUp, MasterDies, MasterSickens, process, transport
<1>3. ASSUME NEW g \in Gateways, GatewayNext(g) PROVE WorkerInv'
  <2> USE DEF TypeOK, Move, process, transport, requests
  <2>0. Idle.step = "idle" /\ Idle.by = "none"
    BY DEF Idle
  <2>1. CASE Job(g)
    BY <2>1, JobWorkerInv
  <2>2. CASE Cancel(g)
    BY <2>0, <2>2, CancelEffect
  <2>3. CASE Quiet(g)
    BY <2>3, QuietEffect
  <2>4. CASE Gathered(g)
    BY <2>4 DEF Gathered
  <2>5. CASE HaltMaintenance(g)
    <3>1. CASE Exit(g)
      BY <2>0, <2>5, <3>1, ExitEffect
    <3>2. CASE ~Exit(g)
      BY <2>0, <2>5, <3>2 DEF HaltMaintenance
    <3> QED BY <3>1, <3>2
  <2>6. CASE CloseMaster(g)
    BY <2>0, <2>6 DEF CloseMaster
  <2>7. CASE Unlink(g) \/ Kill(g)
    BY <2>0, <2>7, ExitEffect DEF Unlink, Kill
  <2>8. CASE \E who \in {"client", "maintenance"} : Connect(g, who)
    BY <2>0, <2>8 DEF Connect
  <2> QED
    BY <1>3, <2>1, <2>2, <2>3, <2>4, <2>5, <2>6, <2>7, <2>8 DEF GatewayNext, Main, Quiet
<1> QED BY <1>1, <1>2, <1>3 DEF Next

(* Where gateways do not overlap, the others rest while one is at work.     *)
LEMMA OthersRest ==
    ASSUME TypeOK, PathInv, WorkerInv, NEW g \in Gateways, pc[g] \in AtWork
    PROVE  \A h \in Gateways \ {g} :
              pc[h] \notin AtWork /\ job[h] = Idle /\ child[h] = None /\ ~known[h]
BY OneAtWork DEF WorkerInv

-----------------------------------------------------------------------------
(* A job that stops the recorded master has let go of its own before, one   *)
(* that starts a master finds no record, and records the one it starts.     *)
Recorded(g) ==
    /\ job[g].step \in {"recorded", "spawning"} => child[g] = None
    /\ job[g].step = "spawning" => owner = None
    /\ job[g].step = "waiting" => owner = child[g]
    /\ job[g].step = "cleaning" => owner \in {child[g], None}

(* Then a living master is the recorded one, or one of those that a thread, *)
(* a full disk or a slow ps let escape.                                     *)
RecordInv == alive \ lost \subseteq {owner} /\ \A g \in Gateways : Recorded(g)

(* A gateway without a job records nothing.                                 *)
LEMMA IdleRecorded ==
    \A g \in Gateways : job[g] = Idle => Recorded(g)
BY DEF Recorded, Idle

(* At first there is no master.                                             *)
LEMMA InitRecordInv == Init => RecordInv
BY DEF Init, RecordInv, Recorded, Idle

(* Masters that end are no longer alive.                                    *)
LEMMA EndedMasters ==
    ASSUME NEW M, End(M)
    PROVE  /\ alive' = alive \ M
           /\ alive' \ lost' \subseteq alive \ lost
BY DEF End

(* A master that a cancelled or killed thread spawns is one that escapes.   *)
LEMMA AbandonedMasters ==
    ASSUME NEW g \in Gateways, Abandon(g)
    PROVE  alive' \ lost' \subseteq alive \ lost
<1>1. CASE \E M \in {{}, Struck(g)} : End(M)
  BY <1>1, EndedMasters
<1>2. CASE ~(\E M \in {{}, Struck(g)} : End(M))
  BY <1>2 DEF Abandon
<1> QED BY <1>1, <1>2

(* The steps of the job at work.                                            *)
LEMMA JobRecord ==
    ASSUME TypeOK, WorkerInv, RecordInv, NEW g \in Gateways, Job(g)
    PROVE  alive' \ lost' \subseteq {owner'} /\ Recorded(g)'
<1> USE DEF Recorded
<1>0. /\ alive \ lost \subseteq {owner} /\ Recorded(g)
      /\ Idle.step = "idle"
      /\ child \in [Gateways -> Masters \cup {None}]
  BY DEF TypeOK, RecordInv, Idle
<1>1. ASSUME Return(g) PROVE Recorded(g)'
  BY <1>0, <1>1, JobGoesOn
<1>2. ASSUME NEW step \in {"exit", "owned"}, Step(g, step) PROVE Recorded(g)'
  BY <1>0, <1>2, JobGoesOn
<1>3. ASSUME Retry(g) PROVE Recorded(g)'
  BY <1>0, <1>3, JobGoesOn
<1>4. CASE Adopt(g)
  BY <1>0, <1>1, <1>2, <1>4 DEF Adopt, files, masters
<1>5. CASE ExitCommand(g)
  BY <1>0, <1>2, <1>5, EndedMasters DEF ExitCommand
<1>6. CASE StopOwned(g)
  <2>1. job'[g].step = "recorded" /\ child'[g] = None
    BY <1>0, <1>6, JobGoesOn DEF StopOwned
  <2> QED BY <1>0, <1>6, <2>1, EndedMasters DEF StopOwned
<1>7. CASE StopRecorded(g)
  <2>1. alive' \ lost' = {}
    BY <1>0, <1>7 DEF StopRecorded
  <2>2. CASE job[g].next = "start"
    <3>1. job'[g].step = "spawning" /\ owner' = None /\ UNCHANGED child
      BY <1>7, <2>2, JobGoesOn DEF StopRecorded, Release
    <3> QED BY <1>0, <1>7, <2>1, <3>1 DEF StopRecorded
  <2>3. CASE job[g].next # "start"
    BY <1>1, <1>7, <2>1, <2>3 DEF StopRecorded
  <2> QED BY <2>2, <2>3
<1>8. CASE Spawn(g)
  <2>1. owner = None /\ alive \ lost \subseteq {None} /\ None \notin Masters
    BY <1>0, <1>8, IdsAssumption DEF Spawn
  <2>2. PICK m \in Masters \ alive :
          /\ alive' = alive \cup {m}
          /\ child' = [child EXCEPT ![g] = m]
          /\ \/ owner' = m /\ Step(g, "waiting") /\ UNCHANGED lost
             \/ lost' = lost \cup {m} /\ Step(g, "cleaning") /\ UNCHANGED owner
    BY <1>8 DEF Spawn
  <2>3. alive \subseteq Masters
    BY DEF TypeOK
  <2>4. child'[g] = m
    BY <1>0, <2>2
  <2>5. CASE owner' = m /\ Step(g, "waiting") /\ UNCHANGED lost
    <3>1. job'[g].step = "waiting"
      BY <2>5, JobGoesOn
    <3> QED BY <2>1, <2>2, <2>3, <2>4, <2>5, <3>1
  <2>6. CASE lost' = lost \cup {m} /\ Step(g, "cleaning") /\ UNCHANGED owner
    <3>1. job'[g].step = "cleaning"
      BY <2>6, JobGoesOn
    <3> QED BY <2>1, <2>2, <2>3, <2>4, <2>6, <3>1
  <2> QED BY <2>2, <2>5, <2>6
<1>9. CASE SpawnFails(g)
  BY <1>0, <1>3, <1>9 DEF SpawnFails, Release, masters
<1>10. CASE Ready(g)
  BY <1>0, <1>1, <1>10 DEF Ready, files, masters
<1>11. CASE StartFails(g)
  <2>1. job'[g].step = "cleaning"
    BY <1>11, JobGoesOn DEF StartFails
  <2> QED BY <1>0, <1>11, <2>1 DEF StartFails, files, masters
<1>12. CASE CleanUp(g)
  <2>1. alive' \ lost' = {}
    <3>1. alive' = alive \ {child[g]} /\ lost' = lost \ {child[g]}
      BY <1>12 DEF CleanUp
    <3>2. alive \subseteq Masters /\ None \notin Masters
      BY IdsAssumption DEF TypeOK
    <3> QED BY <1>0, <1>12, <3>1, <3>2 DEF CleanUp
  <2> QED BY <1>1, <1>3, <1>12, <2>1 DEF CleanUp
<1> QED
  BY <1>4, <1>5, <1>6, <1>7, <1>8, <1>9, <1>10, <1>11, <1>12 DEF Job

(* Every step keeps the records.                                            *)
LEMMA NextRecordInv ==
    ASSUME TypeOK, PathInv, WorkerInv, RecordInv, [Next]_vars PROVE RecordInv'
<1>0. ASSUME UNCHANGED <<job, child, owner>>, alive' \ lost' \subseteq alive \ lost
      PROVE  RecordInv'
  BY <1>0 DEF RecordInv, Recorded
<1>1. CASE UNCHANGED vars
  BY <1>0, <1>1 DEF vars, transport, files, masters
<1>2. ASSUME NEW m \in Masters, MasterComesUp(m) \/ MasterDies(m) \/ MasterSickens(m)
      PROVE  RecordInv'
  BY <1>0, <1>2, EndedMasters DEF MasterComesUp, MasterDies, MasterSickens, transport, files
<1>3. ASSUME NEW g \in Gateways, GatewayNext(g) PROVE RecordInv'
  <2> USE DEF process, transport, requests, files, masters
  <2>0. ASSUME alive' \ lost' \subseteq {owner'}, Recorded(g)',
               \A h \in Gateways \ {g} : job'[h] = job[h] /\ child'[h] = child[h],
               UNCHANGED owner \/ pc[g] \in AtWork
        PROVE  RecordInv'
    <3>1. \A h \in Gateways \ {g} : Recorded(h)'
      <4>1. CASE UNCHANGED owner
        BY <2>0, <4>1 DEF RecordInv, Recorded
      <4>2. CASE pc[g] \in AtWork
        BY <2>0, <4>2, OthersRest DEF Recorded, Idle
      <4> QED BY <2>0, <4>1, <4>2
    <3> QED BY <2>0, <3>1 DEF RecordInv
  <2>1. CASE Job(g)
    <3>1. pc[g] \in AtWork
      BY <2>1 DEF WorkerInv, Job, Adopt, ExitCommand, StopOwned, StopRecorded, Spawn,
                  SpawnFails, Ready, StartFails, CleanUp, Idle
    <3>2. \A h \in Gateways \ {g} : job'[h] = job[h] /\ child'[h] = child[h]
      BY <2>1, JobGoesOn
         DEF TypeOK, Job, Adopt, ExitCommand, StopOwned, StopRecorded, Spawn, SpawnFails,
             Ready, StartFails, CleanUp
    <3> QED BY <2>0, <2>1, <3>1, <3>2, JobRecord
  <2>2. CASE Cancel(g)
    <3>1. CASE job[g].step = "waiting"
      BY <2>0, <2>2, <3>1, CancelEffect DEF RecordInv, Recorded
    <3>2. CASE job[g].step # "waiting"
      BY <2>0, <2>2, <3>2, CancelEffect, AbandonedMasters DEF RecordInv, Recorded, Idle
    <3> QED BY <3>1, <3>2
  <2>3. CASE Quiet(g)
    BY <1>0, <2>3, QuietEffect
  <2>4. CASE Gathered(g)
    BY <1>0, <2>4 DEF Gathered
  <2>5. CASE HaltMaintenance(g)
    <3>1. CASE Exit(g)
      BY <2>0, <2>5, <3>1, ExitEffect DEF HaltMaintenance, RecordInv, Recorded, Idle
    <3>2. CASE ~Exit(g)
      BY <1>0, <2>5, <3>2 DEF HaltMaintenance
    <3> QED BY <3>1, <3>2
  <2>6. CASE CloseMaster(g)
    BY <2>6 DEF CloseMaster, RecordInv, Recorded, TypeOK
  <2>7. CASE Unlink(g)
    BY <2>0, <2>7, ExitEffect DEF Unlink, RecordInv, Recorded, Idle
  <2>8. CASE Kill(g)
    BY <2>0, <2>8, ExitEffect, AbandonedMasters DEF Kill, RecordInv, Recorded, Idle
  <2>9. CASE \E who \in {"client", "maintenance"} : Connect(g, who)
    BY <2>9 DEF Connect, RecordInv, Recorded, TypeOK
  <2> QED
    BY <1>3, <2>1, <2>2, <2>3, <2>4, <2>5, <2>6, <2>7, <2>8, <2>9
       DEF GatewayNext, Main, Quiet
<1> QED BY <1>1, <1>2, <1>3 DEF Next

(* Where a gateway starts only after the one before it has ended, these are *)
(* invariants together.                                                     *)
LEMMA RecordsKept == ~Overlapping /\ Spec => [](TypeOK /\ PathInv /\ WorkerInv /\ RecordInv)
<1> SUFFICES ASSUME ~Overlapping
             PROVE  Spec => [](TypeOK /\ PathInv /\ WorkerInv /\ RecordInv)
  OBVIOUS
<1>1. TypeOK /\ RequestInv /\ PathInv /\ [Next]_vars => PathInv'
  BY NextPathInv DEF RequestInv
<1> QED
  BY <1>1, GatewayTypeCorrect, InitRequestInv, NextRequestInv, InitPathInv, InitWorkerInv,
     NextWorkerInv, InitRecordInv, NextRecordInv, PTL DEF Spec

(* The next gateway can stop what this one leaves (transport.py:251-264):   *)
(* through crashes, failed starts and cancellations at any await, a living  *)
(* master is in the owner file or a gateway's, unless one of the three ways *)
(* the code loses it has been taken.                                        *)
THEOREM MastersStayAccounted == ~Overlapping /\ Spec => []MastersAccounted
<1> SUFFICES ASSUME ~Overlapping PROVE Spec => []MastersAccounted
  OBVIOUS
<1>1. RecordInv => MastersAccounted
  BY DEF RecordInv, MastersAccounted
<1> QED BY <1>1, RecordsKept, PTL

-----------------------------------------------------------------------------
(* When close is over, no master is left that it could have known of; and   *)
(* after the process has gone, nothing changes that until one is started.   *)
CleanInv ==
    /\ \A g \in Gateways : pc[g] = "closed" => alive \subseteq lost /\ owner = None
    /\ cleaned => /\ \A g \in Gateways : pc[g] = "off"
                  /\ alive \subseteq lost /\ owner = None /\ socket = None

(* The job of close, when it returns, has stopped the recorded master.      *)
LEMMA JobClean ==
    ASSUME TypeOK, WorkerInv, RecordInv, NEW g \in Gateways, Job(g)
    PROVE  /\ UNCHANGED cleaned
           /\ pc[g] \in AtWork \ {"detached", "closed"}
           /\ \A h \in Gateways \ {g} : pc'[h] = pc[h]
           /\ pc'[g] = "closed" => alive' \subseteq lost' /\ owner' = None
<1>0. /\ pc[g] \in AtWork \ {"detached", "closed"}
      /\ UNCHANGED cleaned
  BY DEF WorkerInv, Others, Job, Adopt, ExitCommand, StopOwned, StopRecorded, Spawn,
         SpawnFails, Ready, StartFails, CleanUp, Idle
<1>1. CASE StopRecorded(g)
  BY <1>0, <1>1, JobGoesOn DEF RecordInv, StopRecorded, Release, Others
<1>2. CASE ~StopRecorded(g)
  <2>1. job[g].by # "close" \/ UNCHANGED pc
    BY <1>2 DEF WorkerInv, Job, Adopt, ExitCommand, StopOwned, Spawn, SpawnFails, Ready,
                StartFails, CleanUp
  <2>2. UNCHANGED pc \/ Return(g)
    BY <1>2 DEF Job, Adopt, ExitCommand, StopOwned, Spawn, SpawnFails, Ready, StartFails,
                CleanUp, Others
  <2> QED BY <1>0, <2>1, <2>2, JobGoesOn
<1> QED BY <1>1, <1>2

(* Every step keeps what has been cleaned up.                               *)
LEMMA NextCleanInv ==
    ASSUME ~Overlapping, TypeOK, PathInv, WorkerInv, RecordInv, CleanInv, [Next]_vars
    PROVE  CleanInv'
<1> USE DEF CleanInv
<1>0. ASSUME UNCHANGED <<pc, owner, socket, cleaned>>, alive' \ lost' \subseteq alive \ lost
      PROVE  CleanInv'
  BY <1>0
<1>1. CASE UNCHANGED vars
  BY <1>0, <1>1 DEF vars, process, files, masters
<1>2. ASSUME NEW m \in Masters, MasterComesUp(m) \/ MasterDies(m) \/ MasterSickens(m)
      PROVE  CleanInv'
  BY <1>0, <1>2, EndedMasters DEF MasterComesUp, MasterDies, MasterSickens, process, files
<1>3. ASSUME NEW g \in Gateways, GatewayNext(g) PROVE CleanInv'
  <2> USE DEF process, transport, requests, files, masters
  <2>0. ASSUME UNCHANGED owner, alive' \ lost' \subseteq alive \ lost, ~cleaned',
               pc'[g] = "closed" => pc[g] = "closed",
               \A h \in Gateways \ {g} : pc'[h] = pc[h]
        PROVE  CleanInv'
    BY <2>0
  <2>1. CASE Job(g)
    <3>1. ~cleaned'
      BY <2>1, JobClean DEF AtWork
    <3>2. \A h \in Gateways \ {g} : pc'[h] # "closed"
      BY <2>1, JobClean, OthersRest DEF AtWork
    <3> QED BY <2>1, <3>1, <3>2, JobClean
  <2>2. CASE Cancel(g)
    <3>1. pc[g] # "off"
      BY <2>2, CancelEffect DEF WorkerInv, Idle, AtWork
    <3> QED BY <2>0, <2>2, <3>1, CancelEffect, AbandonedMasters
  <2>3. CASE Quiet(g)
    <3>1. UNCHANGED <<pc, socket, cleaned>> \/ ~cleaned'
      BY <2>3 DEF Quiet, Start, Knock, ClearPath, Bind, BeginClose, Accept, BeginRequest,
                  EndRequest, MaintenanceDies, RequestStop
    <3> QED BY <1>0, <2>0, <2>3, <3>1, QuietEffect
  <2>4. CASE Gathered(g)
    BY <2>0, <2>4 DEF Gathered, Move, TypeOK
  <2>5. CASE HaltMaintenance(g)
    BY <2>0, <2>5, ExitEffect DEF HaltMaintenance, Move, TypeOK
  <2>6. CASE CloseMaster(g)
    BY <1>0, <2>6 DEF CloseMaster
  <2>7. CASE Unlink(g)
    <3>1. g \in Ending /\ pc[g] \in AtWork
      BY <2>7 DEF Unlink, Ending, In, AtWork
    <3>2. Starting = {}
      BY <3>1 DEF PathInv, Apart
    <3>3. \A h \in Gateways \ {g} : pc[h] = "off"
      BY <3>1, <3>2, OthersRest DEF Starting, In, AtWork, TypeOK, Places
    <3>4. /\ \A h \in Gateways : pc'[h] = "off"
          /\ UNCHANGED <<owner, alive, lost>> /\ socket' = None
      BY <2>7, <3>3, ExitEffect DEF Unlink
    <3>5. cleaned' => pc[g] = "closed"
      BY <2>7 DEF Unlink
    <3> QED BY <3>4, <3>5
  <2>8. CASE Kill(g)
    BY <2>0, <2>8, ExitEffect, AbandonedMasters DEF Kill
  <2>9. CASE \E who \in {"client", "maintenance"} : Connect(g, who)
    BY <1>0, <2>9 DEF Connect
  <2> QED
    BY <1>3, <2>1, <2>2, <2>3, <2>4, <2>5, <2>6, <2>7, <2>8, <2>9
       DEF GatewayNext, Main, Quiet
<1> QED BY <1>1, <1>2, <1>3 DEF Next

(* A gateway that was told to end, and has, leaves nothing behind           *)
(* (supervisor.py:148-154): no master it could know of, no record, no path. *)
THEOREM StopsClean == ~Overlapping /\ Spec => []StoppedClean
<1> SUFFICES ASSUME ~Overlapping PROVE Spec => []StoppedClean
  OBVIOUS
<1>1. Init => CleanInv
  BY DEF Init, CleanInv
<1>2. CleanInv => StoppedClean
  BY DEF CleanInv, StoppedClean
<1> QED BY <1>1, <1>2, RecordsKept, NextCleanInv, PTL DEF Spec

-----------------------------------------------------------------------------
(* A shutdown has been asked for, or the maintenance task has failed.       *)
GatheringInv ==
    \A g \in Gateways : pc[g] = "gathering" => stop[g] # "no" \/ maint[g] = "dead"

(* While a master waits for the next gateway, nobody is about to stop it: a *)
(* gateway at work knows of no master, or leaves it, and it only looks      *)
(* whether there is one to adopt.                                           *)
Spares(g) ==
    /\ job[g].step \in {"idle", "adopting"}
    /\ pc[g] = "closing" => maint[g] = "dead"
    /\ known[g] => pc[g] \in {"detaching", "closing", "detached"}

SurvivorInv ==
    survivor # None =>
        /\ survivor \in bound \ sick /\ control = survivor
        /\ \A g \in Gateways : Spares(g)

(* The main coroutine begins to gather for one of the two reasons, and a    *)
(* reason does not go away.                                                 *)
LEMMA NextGatheringInv ==
    ASSUME TypeOK, PathInv, WorkerInv, GatheringInv, [Next]_vars PROVE GatheringInv'
<1> USE DEF GatheringInv
<1>0. ASSUME UNCHANGED process PROVE GatheringInv'
  BY <1>0 DEF process
<1>1. CASE UNCHANGED vars
  BY <1>0, <1>1 DEF vars
<1>2. CASE \E m \in Masters : MasterComesUp(m) \/ MasterDies(m) \/ MasterSickens(m)
  BY <1>0, <1>2 DEF MasterComesUp, MasterDies, MasterSickens
<1>3. ASSUME NEW g \in Gateways, GatewayNext(g) PROVE GatheringInv'
  <2> USE DEF TypeOK, Move, process, transport, requests
  <2>1. CASE Job(g)
    <3>1. UNCHANGED <<stop, maint>>
      BY <2>1 DEF Job, Others, Adopt, ExitCommand, StopOwned, StopRecorded, Spawn,
                  SpawnFails, Ready, StartFails, CleanUp
    <3>2. UNCHANGED pc \/ (Return(g) /\ job[g].by = "close")
      BY <2>1 DEF Return, Job, Others, Adopt, ExitCommand, StopOwned, StopRecorded, Spawn,
                  SpawnFails, Ready, StartFails, CleanUp
    <3> QED BY <3>1, <3>2, JobGoesOn
  <2>2. CASE Cancel(g)
    BY <2>2, CancelEffect
  <2>3. CASE Start(g) \/ Knock(g) \/ ClearPath(g) \/ Bind(g)
    BY <2>3 DEF Start, Knock, ClearPath, Bind
  <2>4. CASE BeginClose(g) \/ Gathered(g)
    BY <2>4 DEF BeginClose, Gathered
  <2>5. CASE Accept(g) \/ BeginRequest(g) \/ EndRequest(g)
    BY <2>5 DEF Accept, BeginRequest, EndRequest
  <2>6. CASE MaintenanceDies(g) \/ \E how \in {"keep", "end"} : RequestStop(g, how)
    BY <2>6 DEF MaintenanceDies, RequestStop
  <2>7. CASE HaltMaintenance(g)
    BY <2>7, ExitEffect DEF HaltMaintenance
  <2>8. CASE CloseMaster(g) \/ \E who \in {"client", "maintenance"} : Connect(g, who)
    BY <2>8 DEF CloseMaster, Connect
  <2>9. CASE Unlink(g) \/ Kill(g)
    BY <2>9, ExitEffect DEF Unlink, Kill
  <2> QED
    BY <1>3, <2>1, <2>2, <2>3, <2>4, <2>5, <2>6, <2>7, <2>8, <2>9 DEF GatewayNext, Main
<1> QED BY <1>1, <1>2, <1>3 DEF Next

(* A job that is broken off while it looks for a master, or before it has   *)
(* begun, does nothing to any.                                              *)
LEMMA HarmlessAbandon ==
    ASSUME NEW g \in Gateways, Abandon(g), job[g].step \in {"idle", "adopting"}
    PROVE  UNCHANGED <<bound, sick, control>>
<1>1. Struck(g) = {}
  BY DEF Struck
<1>2. End({})
  BY <1>1 DEF Abandon
<1> QED BY <1>2 DEF End

(* A gateway that leaves a healthy master behind leaves it to the next one. *)
LEMMA LeavesSurvivor ==
    ASSUME TypeOK, PathInv, WorkerInv, SurvivorInv, NEW g \in Gateways, Survivor(g),
           survivor' # None, pc[g] # "off"
    PROVE  /\ survivor' \in bound \ sick /\ control = survivor'
           /\ job[g].step \in {"idle", "adopting"}
           /\ \A h \in Gateways \ {g} : Spares(h)
           /\ survivor # None => Spares(g)
<1>1. CASE known[g] /\ Healthy /\ job[g] = Idle
  <2>1. survivor' = control /\ survivor' \in bound \ sick
    BY <1>1 DEF Survivor, Healthy
  <2>2. \A h \in Gateways \ {g} : Spares(h)
    BY <1>1, OthersRest DEF WorkerInv, Spares, Idle, AtWork
  <2>3. survivor # None => Spares(g)
    BY DEF SurvivorInv
  <2> QED BY <1>1, <2>1, <2>2, <2>3 DEF Idle
<1>2. CASE ~(known[g] /\ Healthy /\ job[g] = Idle)
  BY <1>2 DEF Survivor, SurvivorInv, Spares
<1> QED BY <1>1, <1>2

(* Every step spares the master that waits, or makes it nobody's.           *)
LEMMA NextSurvivorInv ==
    ASSUME TypeOK, PathInv, WorkerInv, GatheringInv, SurvivorInv, [Next]_vars
    PROVE  SurvivorInv'
<1> SUFFICES ASSUME survivor' # None
             PROVE  /\ survivor' \in bound' \ sick' /\ control' = survivor'
                    /\ \A g \in Gateways : Spares(g)'
  BY DEF SurvivorInv
<1>0. survivor # None => /\ survivor \in bound \ sick /\ control = survivor
                         /\ \A g \in Gateways : Spares(g)
  BY DEF SurvivorInv
<1>1. CASE UNCHANGED vars
  BY <1>0, <1>1 DEF vars, process, transport, files, masters, Spares
<1>2. ASSUME NEW m \in Masters, MasterComesUp(m) \/ MasterDies(m) \/ MasterSickens(m)
      PROVE  /\ survivor' \in bound' \ sick' /\ control' = survivor'
             /\ \A g \in Gateways : Spares(g)'
  <2>1. UNCHANGED <<process, transport>>
    BY <1>2 DEF MasterComesUp, MasterDies, MasterSickens
  <2>2. survivor' = survivor
    BY <1>2 DEF MasterComesUp, MasterDies, MasterSickens
  <2>3. CASE MasterComesUp(m)
    BY <1>0, <2>2, <2>3 DEF MasterComesUp
  <2>4. CASE MasterDies(m)
    BY <1>0, <2>1, <2>2, <2>4 DEF MasterDies, End, Spares, process, transport
  <2>5. CASE MasterSickens(m)
    BY <1>0, <2>1, <2>2, <2>5 DEF MasterSickens, files, Spares, process, transport
  <2> QED BY <1>2, <2>3, <2>4, <2>5
<1>3. ASSUME NEW g \in Gateways, GatewayNext(g)
      PROVE  /\ survivor' \in bound' \ sick' /\ control' = survivor'
             /\ \A h \in Gateways : Spares(h)'
  <2> USE DEF TypeOK, Move, process, transport, requests, files, masters
  <2>0. ASSUME survivor' \in bound' \ sick', control' = survivor', Spares(g)',
               \A h \in Gateways \ {g} : Spares(h),
               \A h \in Gateways \ {g} : /\ pc'[h] = pc[h] /\ job'[h] = job[h]
                                         /\ maint'[h] = maint[h] /\ known'[h] = known[h]
        PROVE  /\ survivor' \in bound' \ sick' /\ control' = survivor'
               /\ \A h \in Gateways : Spares(h)'
    BY <2>0 DEF Spares
  <2>1. CASE Job(g)
    <3>1. (Healthy /\ job[g].step \in {"idle", "adopting"}) \/ survivor = None
      BY <1>0 DEF Healthy, Spares
    <3> QED
      BY <2>1, <3>1 DEF Job, Others, Adopt, ExitCommand, StopOwned, StopRecorded, Spawn,
                       SpawnFails, Ready, StartFails, CleanUp
  <2>2. CASE Cancel(g)
    <3>1. survivor' = survivor /\ job[g].step \in {"idle", "adopting"} /\ Spares(g)
      BY <1>0, <2>2, CancelEffect DEF Spares
    <3>2. job'[g] = Idle /\ UNCHANGED <<bound, sick, control>>
      BY <2>2, <3>1, CancelEffect, HarmlessAbandon
    <3>3. Spares(g)'
      BY <2>2, <3>1, <3>2, CancelEffect DEF Spares, Idle
    <3> QED BY <1>0, <2>0, <2>2, <3>1, <3>2, <3>3, CancelEffect
  <2>3. CASE Quiet(g)
    BY <1>0, <2>0, <2>3, QuietEffect DEF Spares
  <2>4. CASE Gathered(g)
    <3>1. Survivor(g) /\ stop[g] # "end"
      BY <2>4 DEF Gathered
    <3>2. /\ pc'[g] \in {"detaching", "closing"}
          /\ pc'[g] = "closing" => maint'[g] = "dead"
      BY <2>4, <3>1 DEF Gathered, GatheringInv
    <3>3. Spares(g)'
      BY <2>4, <3>1, <3>2, LeavesSurvivor DEF Gathered, Spares
    <3> QED BY <2>0, <2>4, <3>1, <3>3, LeavesSurvivor DEF Gathered
  <2>5. CASE HaltMaintenance(g)
    <3>1. CASE Exit(g)
      <4>1. Spares(g)'
        BY <3>1, ExitEffect DEF Spares, Idle
      <4> QED BY <1>0, <2>0, <2>5, <3>1, <4>1, ExitEffect DEF HaltMaintenance
    <3>2. CASE ~Exit(g)
      BY <1>0, <2>0, <2>5, <3>2 DEF HaltMaintenance, Spares
    <3> QED BY <3>1, <3>2
  <2>6. CASE CloseMaster(g)
    BY <1>0, <2>6 DEF CloseMaster, Spares
  <2>7. CASE Unlink(g)
    <3>1. Spares(g)'
      BY <2>7, ExitEffect DEF Unlink, Spares, Idle
    <3> QED BY <1>0, <2>0, <2>7, <3>1, ExitEffect DEF Unlink
  <2>8. CASE Kill(g)
    <3>1. /\ survivor' \in bound \ sick /\ control = survivor'
          /\ job[g].step \in {"idle", "adopting"}
          /\ \A h \in Gateways \ {g} : Spares(h)
      BY <2>8, LeavesSurvivor DEF Kill
    <3>2. UNCHANGED <<bound, sick, control>>
      BY <2>8, <3>1, HarmlessAbandon DEF Kill
    <3>3. Spares(g)'
      BY <2>8, ExitEffect DEF Kill, Spares, Idle
    <3> QED BY <2>0, <2>8, <3>1, <3>2, <3>3, ExitEffect DEF Kill
  <2>9. ASSUME NEW who \in {"client", "maintenance"}, Connect(g, who)
        PROVE  /\ survivor' \in bound' \ sick' /\ control' = survivor'
               /\ \A h \in Gateways : Spares(h)'
    <3>1. pc[g] \in {"serving", "gathering"} /\ survivor' = survivor
      BY <2>9 DEF Connect
    <3>2. ~known[g] /\ Answers
      BY <1>0, <3>1 DEF Spares, Answers
    <3>3. job'[g].step = "adopting"
      BY <2>9, <3>2 DEF Connect
    <3>4. Spares(g)'
      BY <2>9, <3>1, <3>2, <3>3 DEF Connect, Spares
    <3> QED BY <1>0, <2>0, <2>9, <3>1, <3>4 DEF Connect
  <2> QED
    BY <1>3, <2>1, <2>2, <2>3, <2>4, <2>5, <2>6, <2>7, <2>8, <2>9
       DEF GatewayNext, Main, Quiet
<1> QED BY <1>1, <1>2, <1>3 DEF Next

(* "A restarted gateway adopts its still-healthy private ControlMaster      *)
(* instead of reconnecting" (README.md:172-173): the master that a gateway  *)
(* leaves connected stays alive and reachable until another gateway has     *)
(* adopted it, it fails by itself, or somebody wants it gone.               *)
THEOREM SurvivorStays == ~Overlapping /\ Spec => []SurvivorKept
<1> SUFFICES ASSUME ~Overlapping PROVE Spec => []SurvivorKept
  OBVIOUS
<1>1. Init => GatheringInv /\ SurvivorInv
  BY DEF Init, GatheringInv, SurvivorInv
<1>2. SurvivorInv => SurvivorKept
  BY DEF SurvivorInv, SurvivorKept
<1> QED
  BY <1>1, <1>2, RecordsKept, NextGatheringInv, NextSurvivorInv, PTL DEF Spec

=============================================================================
