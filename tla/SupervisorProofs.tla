--------------------------- MODULE SupervisorProofs ---------------------------
(***************************************************************************)
(* Proofs about the connection supervisor, for any requests, budgets and    *)
(* faults.                                                                  *)
(*                                                                         *)
(* The invariant Inv has two parts, which keep each other up.  Base is about *)
(* the coroutines and the repair lock: types, who stands in the queue and   *)
(* who repairs (LockInv), and what a coroutine's fields mean at each of its *)
(* awaits (Coherent).  EpochInv is about what was learned of a master and   *)
(* when: epochs count what the code compares, the history serial counts the *)
(* masters there really were, and FlightInv and Timely say that the one     *)
(* stands for the other as long as it is compared.                          *)
(*                                                                         *)
(* First come lemmas on queues, then what each helper of Supervisor does to *)
(* one coroutine, then each step against Base and against EpochInv, and the *)
(* theorems last.                                                           *)
(***************************************************************************)
EXTENDS Supervisor, SequenceTheorems, TLAPS

-----------------------------------------------------------------------------
(* Queues in which everyone stands once.                                    *)

Once(q) == \A i, j \in DOMAIN q : q[i] = q[j] => i = j
StandsIn(x, q) == \E i \in DOMAIN q : q[i] = x

(* A task that joins at the end.                                            *)
LEMMA Joining ==
    ASSUME NEW S, NEW q \in Seq(S), Once(q), NEW x \in S, ~StandsIn(x, q)
    PROVE  /\ Append(q, x) \in Seq(S) /\ Once(Append(q, x))
           /\ \A y : StandsIn(y, Append(q, x)) <=> y = x \/ StandsIn(y, q)
           /\ q # <<>> => Append(q, x)[1] = q[1]
<1> DEFINE r == Append(q, x)
<1>1. /\ r \in Seq(S) /\ Len(r) = Len(q) + 1 /\ r[Len(q) + 1] = x
      /\ \A i \in 1..Len(q) : r[i] = q[i]
  BY AppendProperties
<1>2. Len(q) \in Nat /\ DOMAIN q = 1..Len(q) /\ DOMAIN r = 1..(Len(q) + 1)
  BY <1>1, LenProperties
<1> HIDE DEF r
<1>3. Once(r)
  <2> SUFFICES ASSUME NEW i \in DOMAIN r, NEW j \in DOMAIN r, r[i] = r[j] PROVE i = j
    BY DEF Once
  <2>1. \A n \in DOMAIN r : \/ n \in DOMAIN q /\ r[n] = q[n]
                            \/ n = Len(q) + 1 /\ r[n] = x
    BY <1>1, <1>2
  <2>2. \A n \in DOMAIN q : q[n] # x
    BY DEF StandsIn
  <2> QED BY <2>1, <2>2 DEF Once
<1>4. \A y : StandsIn(y, r) <=> y = x \/ StandsIn(y, q)
  <2>1. ASSUME NEW y, StandsIn(y, r) PROVE y = x \/ StandsIn(y, q)
    BY <1>1, <1>2, <2>1 DEF StandsIn
  <2>2. ASSUME NEW y, y = x \/ StandsIn(y, q) PROVE StandsIn(y, r)
    <3>1. Len(q) + 1 \in DOMAIN r /\ DOMAIN q \subseteq DOMAIN r
      BY <1>2
    <3> QED BY <1>1, <1>2, <2>2, <3>1 DEF StandsIn
  <2> QED BY <2>1, <2>2
<1>5. q # <<>> => r[1] = q[1]
  BY <1>1, <1>2, EmptySeq
<1> QED BY <1>1, <1>3, <1>4, <1>5 DEF r

(* The one at the place k leaves, and those behind move up.                 *)
LEMMA Leaving ==
    ASSUME NEW S, NEW q \in Seq(S), Once(q), NEW k \in DOMAIN q
    PROVE  /\ RemoveAt(q, k) \in Seq(S) /\ Once(RemoveAt(q, k))
           /\ \A y : StandsIn(y, RemoveAt(q, k)) <=> y # q[k] /\ StandsIn(y, q)
           /\ k # 1 => RemoveAt(q, k)[1] = q[1]
<1> DEFINE left == SubSeq(q, 1, k - 1)
           right == SubSeq(q, k + 1, Len(q))
           r == RemoveAt(q, k)
<1>1. Len(q) \in Nat /\ DOMAIN q = 1..Len(q) /\ k \in 1..Len(q)
  BY LenProperties
<1>2. left \in Seq(S) /\ Len(left) = k - 1 /\ \A i \in 1..(k - 1) : left[i] = q[i]
  BY <1>1, SubSeqProperties
<1>3. /\ right \in Seq(S) /\ Len(right) = Len(q) - k
      /\ \A i \in 1..(Len(q) - k) : right[i] = q[k + i]
  <2>1. \A i \in (k + 1)..Len(q) : q[i] \in S
    BY <1>1, ElementOfSeq
  <2>2. /\ right \in Seq(S)
        /\ Len(right) = IF k + 1 <= Len(q) THEN Len(q) - (k + 1) + 1 ELSE 0
        /\ \A i \in 1..(Len(q) - (k + 1) + 1) : right[i] = q[(k + 1) + i - 1]
    BY <1>1, <2>1, SubSeqProperties
  <2> QED BY <1>1, <2>2
<1>4. r = left \o right
  BY DEF RemoveAt
<1> HIDE DEF left, right, r
<1>5. /\ r \in Seq(S) /\ Len(r) = Len(q) - 1
      /\ \A i \in 1..(Len(q) - 1) : r[i] = IF i < k THEN q[i] ELSE q[i + 1]
  <2>1. /\ r \in Seq(S) /\ Len(r) = Len(left) + Len(right)
        /\ \A i \in 1..(Len(left) + Len(right)) :
              r[i] = IF i <= Len(left) THEN left[i] ELSE right[i - Len(left)]
    BY <1>2, <1>3, <1>4, ConcatProperties
  <2>2. ASSUME NEW i \in 1..(Len(q) - 1) PROVE r[i] = IF i < k THEN q[i] ELSE q[i + 1]
    <3>1. CASE i < k
      BY <1>1, <1>2, <1>3, <2>1, <3>1
    <3>2. CASE i >= k
      <4>1. i - (k - 1) \in 1..(Len(q) - k) /\ k + (i - (k - 1)) = i + 1
        BY <1>1, <3>2
      <4>2. r[i] = right[i - (k - 1)]
        BY <1>1, <1>2, <1>3, <2>1, <3>2
      <4> QED BY <1>3, <3>2, <4>1, <4>2
    <3> QED BY <1>1, <3>1, <3>2
  <2> QED BY <1>1, <1>2, <1>3, <2>1, <2>2
<1>6. DOMAIN r = 1..(Len(q) - 1)
  BY <1>5, LenProperties
<1>7. Once(r)
  <2> SUFFICES ASSUME NEW i \in DOMAIN r, NEW j \in DOMAIN r, r[i] = r[j] PROVE i = j
    BY DEF Once
  <2> DEFINE place(n) == IF n < k THEN n ELSE n + 1
  <2>1. /\ place(i) \in DOMAIN q /\ r[i] = q[place(i)]
        /\ place(j) \in DOMAIN q /\ r[j] = q[place(j)]
    BY <1>1, <1>5, <1>6
  <2> HIDE DEF place
  <2>2. place(i) = place(j)
    BY <2>1 DEF Once
  <2>3. i \in Int /\ j \in Int /\ k \in Int
    BY <1>1, <1>6
  <2> HIDE DEF r
  <2> QED BY <2>2, <2>3 DEF place
<1>8. \A y : StandsIn(y, r) <=> y # q[k] /\ StandsIn(y, q)
  <2>1. ASSUME NEW y, StandsIn(y, r) PROVE y # q[k] /\ StandsIn(y, q)
    <3>1. PICK i \in DOMAIN r : r[i] = y
      BY <2>1 DEF StandsIn
    <3>2. PICK n \in DOMAIN q : n # k /\ q[n] = y
      BY <1>1, <1>5, <1>6, <3>1
    <3> QED BY <3>2 DEF StandsIn, Once
  <2>2. ASSUME NEW y, y # q[k], StandsIn(y, q) PROVE StandsIn(y, r)
    <3>1. PICK i \in 1..Len(q) : q[i] = y /\ i # k
      BY <1>1, <2>2 DEF StandsIn
    <3>2. CASE i < k
      BY <1>1, <1>5, <1>6, <3>1, <3>2 DEF StandsIn
    <3>3. CASE i > k
      <4>1. i - 1 \in 1..(Len(q) - 1) /\ r[i - 1] = q[i]
        BY <1>1, <1>5, <3>1, <3>3
      <4> QED BY <1>6, <3>1, <4>1 DEF StandsIn
    <3> QED BY <1>1, <3>1, <3>2, <3>3
  <2> QED BY <2>1, <2>2
<1>9. k # 1 => r[1] = q[1]
  BY <1>1, <1>5
<1> QED BY <1>5, <1>7, <1>8, <1>9 DEF r

(* The first one goes.                                                      *)
LEMMA Going ==
    ASSUME NEW S, NEW q \in Seq(S), Once(q), q # <<>>
    PROVE  /\ Head(q) = q[1] /\ Tail(q) \in Seq(S) /\ Once(Tail(q))
           /\ \A y : StandsIn(y, Tail(q)) <=> y # q[1] /\ StandsIn(y, q)
<1> DEFINE r == Tail(q)
<1>1. Len(q) \in Nat /\ DOMAIN q = 1..Len(q) /\ Len(q) >= 1
  BY LenProperties, EmptySeq
<1>2. /\ Head(q) = q[1] /\ r \in Seq(S) /\ Len(r) = Len(q) - 1
      /\ \A i \in 1..Len(r) : r[i] = q[i + 1]
  BY HeadTailProperties
<1> HIDE DEF r
<1>3. DOMAIN r = 1..(Len(q) - 1)
  BY <1>2, LenProperties
<1>4. Once(r)
  <2> SUFFICES ASSUME NEW i \in DOMAIN r, NEW j \in DOMAIN r, r[i] = r[j] PROVE i = j
    BY DEF Once
  <2>1. /\ i + 1 \in DOMAIN q /\ j + 1 \in DOMAIN q
        /\ r[i] = q[i + 1] /\ r[j] = q[j + 1]
    BY <1>1, <1>2, <1>3
  <2>2. i + 1 = j + 1
    BY <2>1 DEF Once
  <2> QED BY <1>1, <1>3, <2>2
<1>5. \A y : StandsIn(y, r) <=> y # q[1] /\ StandsIn(y, q)
  <2>1. ASSUME NEW y, StandsIn(y, r) PROVE y # q[1] /\ StandsIn(y, q)
    BY <1>1, <1>2, <1>3, <2>1 DEF StandsIn, Once
  <2>2. ASSUME NEW y, y # q[1], StandsIn(y, q) PROVE StandsIn(y, r)
    <3>1. PICK i \in 1..Len(q) : q[i] = y /\ i # 1
      BY <1>1, <2>2 DEF StandsIn
    <3>2. i - 1 \in 1..(Len(q) - 1) /\ r[i - 1] = q[i]
      BY <1>1, <1>2, <3>1
    <3> QED BY <1>3, <3>1, <3>2 DEF StandsIn
  <2> QED BY <2>1, <2>2
<1> QED BY <1>2, <1>4, <1>5 DEF r

-----------------------------------------------------------------------------
(* Coroutines.                                                              *)

Steps == ClientSteps \cup MaintenanceSteps
Task == [kind : Requests \cup {"none", "maintain"}, pc : Steps,
         call : {"none", "connect", "force", "check"}, gen : Nat, epoch : Nat,
         outcome : Outcomes \cup {"none"}, seen : Nat, runs : Nat, replayed : BOOLEAN]

(* A step of t leaves every other coroutine where it is.                    *)
Only(t) == \A u \in Tasks \ {t} : task'[u] = task[u]

(* What a coroutine may be when it begins, or when the loop starts over.    *)
LEMMA FreshTask ==
    /\ \A k \in Requests \cup {"none", "maintain"}, p \in Steps :
          /\ Fresh(k, p) \in Task /\ Fresh(k, p).kind = k /\ Fresh(k, p).pc = p
          /\ Fresh(k, p).call = "none" /\ Fresh(k, p).gen = 0 /\ Fresh(k, p).epoch = 0
          /\ Fresh(k, p).outcome = "none" /\ Fresh(k, p).seen = 0 /\ Fresh(k, p).runs = 0
          /\ Fresh(k, p).replayed = FALSE
    /\ \A s : Maintain(s) = Fresh("maintain", "parked") \/ Maintain(s) = Fresh("maintain", "asleep")
    /\ {"parked", "asleep", "done", "queued", "ensure", "idle", "lock", "check"} \subseteq Steps
<1>1. /\ \A s : Maintain(s) = Fresh("maintain", "parked") \/ Maintain(s) = Fresh("maintain", "asleep")
      /\ {"parked", "asleep", "done", "queued", "ensure", "idle", "lock", "check"} \subseteq Steps
  BY DEF Maintain, Steps, ClientSteps, MaintenanceSteps
<1>2. ASSUME NEW k \in Requests \cup {"none", "maintain"}, NEW p \in Steps
      PROVE  /\ Fresh(k, p) \in Task /\ Fresh(k, p).kind = k /\ Fresh(k, p).pc = p
             /\ Fresh(k, p).call = "none" /\ Fresh(k, p).gen = 0 /\ Fresh(k, p).epoch = 0
             /\ Fresh(k, p).outcome = "none" /\ Fresh(k, p).seen = 0 /\ Fresh(k, p).runs = 0
             /\ Fresh(k, p).replayed = FALSE
  BY DEF Fresh, Task
<1> QED BY <1>1, <1>2

LEMMA MaintainTask ==
    ASSUME NEW s
    PROVE  /\ Maintain(s) \in Task /\ Maintain(s).kind = "maintain" /\ Maintain(s).call = "none"
           /\ Maintain(s).pc \in {"asleep", "parked"} /\ Maintain(s).outcome = "none"
           /\ Maintain(s).seen = 0 /\ Maintain(s).runs = 0
<1>1. PICK p \in {"asleep", "parked"} : Maintain(s) = Fresh("maintain", p)
  BY FreshTask
<1>2. p \in Steps
  BY <1>1, FreshTask
<1> QED BY <1>1, <1>2, FreshTask

(* Steps that write a few fields of one coroutine.                          *)
LEMMA GotoTask ==
    ASSUME task \in [Tasks -> Task], NEW t \in Tasks, NEW p \in Steps, Goto(t, p)
    PROVE  /\ task' \in [Tasks -> Task] /\ Only(t) /\ UNCHANGED <<answer, wake>>
           /\ task'[t] = [task[t] EXCEPT !.pc = p] /\ task'[t].pc = p
           /\ task'[t].kind = task[t].kind /\ task'[t].call = task[t].call
           /\ task'[t].gen = task[t].gen /\ task'[t].epoch = task[t].epoch
           /\ task'[t].outcome = task[t].outcome /\ task'[t].seen = task[t].seen
           /\ task'[t].runs = task[t].runs /\ task'[t].replayed = task[t].replayed
BY DEF Goto, Only, Task

LEMMA WantLockTask ==
    ASSUME task \in [Tasks -> Task], NEW t \in Tasks, NEW call \in {"connect", "check"},
           WantLock(t, call)
    PROVE  /\ task' \in [Tasks -> Task] /\ Only(t) /\ UNCHANGED <<answer, wake>>
           /\ task'[t].pc = "lock" /\ task'[t].call = call
           /\ task'[t].kind = task[t].kind
           /\ task'[t].gen = task[t].gen /\ task'[t].epoch = task[t].epoch
           /\ task'[t].outcome = task[t].outcome /\ task'[t].seen = task[t].seen
           /\ task'[t].runs = task[t].runs /\ task'[t].replayed = task[t].replayed
           /\ lockq' = Append(lockq, t)
<1> DEFINE mid == [task EXCEPT ![t].pc = "lock"]
<1>1. mid[t] = [task[t] EXCEPT !.pc = "lock"] /\ mid[t] \in Task
  BY FreshTask DEF Task
<1>2. mid \in [Tasks -> Task] /\ \A u \in Tasks \ {t} : mid[u] = task[u]
  BY <1>1
<1>3. task' = [mid EXCEPT ![t].call = call]
  BY DEF WantLock
<1>4. /\ mid[t].pc = "lock" /\ mid[t].kind = task[t].kind
      /\ mid[t].gen = task[t].gen /\ mid[t].epoch = task[t].epoch
      /\ mid[t].outcome = task[t].outcome /\ mid[t].seen = task[t].seen
      /\ mid[t].runs = task[t].runs /\ mid[t].replayed = task[t].replayed
  BY <1>1 DEF Task
<1> HIDE DEF mid
<1>5. task'[t] = [mid[t] EXCEPT !.call = call] /\ mid[t] \in Task
  BY <1>2, <1>3
<1>6. task'[t] \in Task
  BY <1>5 DEF Task
<1>7. task' \in [Tasks -> Task] /\ \A u \in Tasks \ {t} : task'[u] = mid[u]
  BY <1>2, <1>3, <1>6
<1>8. /\ task'[t].call = call /\ task'[t].pc = mid[t].pc /\ task'[t].kind = mid[t].kind
      /\ task'[t].gen = mid[t].gen /\ task'[t].epoch = mid[t].epoch
      /\ task'[t].outcome = mid[t].outcome /\ task'[t].seen = mid[t].seen
      /\ task'[t].runs = mid[t].runs /\ task'[t].replayed = mid[t].replayed
  BY <1>5 DEF Task
<1> QED BY <1>2, <1>4, <1>7, <1>8 DEF WantLock, Only

LEMMA FinishTask ==
    ASSUME task \in [Tasks -> Task], NEW c \in Clients, NEW a, Finish(c, a)
    PROVE  /\ task' \in [Tasks -> Task] /\ Only(c) /\ task'[c] = Fresh("none", "done")
           /\ answer' = [answer EXCEPT ![c] = a]
           /\ wake' \in BOOLEAN
<1>1. wake' \in BOOLEAN
  BY Zenon DEF Finish
<1> QED BY <1>1, FreshTask DEF Finish, Only, Tasks

LEMMA ReturnTask ==
    ASSUME task \in [Tasks -> Task], NEW t \in Tasks, NEW a, NEW s, Return(t, a, s)
    PROVE  /\ task' \in [Tasks -> Task] /\ Only(t)
           /\ t = Maintainer => task'[t] = Maintain(s) /\ UNCHANGED <<answer, wake>>
           /\ t \in Clients => /\ task'[t] = Fresh("none", "done")
                               /\ answer' = [answer EXCEPT ![t] = a]
                               /\ wake' \in BOOLEAN
<1>1. CASE t = Maintainer
  BY <1>1, FreshTask, TasksAssumption DEF Return, Only
<1>2. CASE t # Maintainer
  BY <1>2, FinishTask DEF Return, Tasks
<1> QED BY <1>1, <1>2

LEMMA ConnectReturnsTask ==
    ASSUME task \in [Tasks -> Task], NEW t \in Tasks, NEW s, NEW g \in Nat,
           ConnectReturns(t, s, g)
    PROVE  /\ task' \in [Tasks -> Task] /\ Only(t)
           /\ \/ task[t].kind \in {"maintain", "force"} /\ Return(t, "done", s)
              \/ /\ task[t].kind \notin {"maintain", "force"}
                 /\ UNCHANGED <<answer, wake>>
                 /\ task'[t].call = "none" /\ task'[t].gen = g
                 /\ task'[t].pc = IF task[t].kind \in Operations THEN "launch" ELSE "check"
                 /\ task'[t].kind = task[t].kind /\ task'[t].epoch = task[t].epoch
                 /\ task'[t].outcome = task[t].outcome /\ task'[t].seen = task[t].seen
                 /\ task'[t].runs = task[t].runs /\ task'[t].replayed = task[t].replayed
<1>1. CASE task[t].kind \in {"maintain", "force"}
  BY <1>1, ReturnTask DEF ConnectReturns
<1>2. CASE task[t].kind \notin {"maintain", "force"}
  <2> DEFINE next == IF task[t].kind \in Operations THEN "launch" ELSE "check"
             called == [task EXCEPT ![t].call = "none"]
             dated == [called EXCEPT ![t].gen = g]
  <2>0. next \in Steps
    BY DEF Steps, ClientSteps
  <2> HIDE DEF next
  <2>1. called[t] = [task[t] EXCEPT !.call = "none"] /\ called[t] \in Task
    BY DEF Task
  <2>2. called \in [Tasks -> Task] /\ \A u \in Tasks \ {t} : called[u] = task[u]
    BY <2>1
  <2>3. /\ called[t].call = "none" /\ called[t].kind = task[t].kind
        /\ called[t].epoch = task[t].epoch
        /\ called[t].outcome = task[t].outcome /\ called[t].seen = task[t].seen
        /\ called[t].runs = task[t].runs /\ called[t].replayed = task[t].replayed
    BY <2>1 DEF Task
  <2> HIDE DEF called
  <2>4. dated[t] = [called[t] EXCEPT !.gen = g] /\ dated[t] \in Task
    BY <2>2 DEF Task
  <2>5. dated \in [Tasks -> Task] /\ \A u \in Tasks \ {t} : dated[u] = task[u]
    BY <2>2, <2>4
  <2>6. /\ dated[t].gen = g /\ dated[t].call = "none" /\ dated[t].kind = task[t].kind
        /\ dated[t].epoch = task[t].epoch
        /\ dated[t].outcome = task[t].outcome /\ dated[t].seen = task[t].seen
        /\ dated[t].runs = task[t].runs /\ dated[t].replayed = task[t].replayed
    BY <2>2, <2>3, <2>4 DEF Task
  <2>7. task' = [dated EXCEPT ![t].pc = next] /\ UNCHANGED <<answer, wake>>
    BY <1>2 DEF ConnectReturns, next, called
  <2> HIDE DEF dated
  <2>8. task'[t] = [dated[t] EXCEPT !.pc = next] /\ task'[t] \in Task
    BY <2>0, <2>5, <2>7 DEF Task
  <2>9. task' \in [Tasks -> Task] /\ Only(t)
    BY <2>5, <2>7, <2>8 DEF Only
  <2> QED BY <1>2, <2>5, <2>6, <2>7, <2>8, <2>9 DEF Task, next
<1> QED BY <1>1, <1>2

(* A check begins to wait for a probe, or for the lock without one.         *)
LEMMA ProbeTask ==
    ASSUME task \in [Tasks -> Task], NEW t \in Tasks, epoch \in Nat, serial \in Nat, Probe(t)
    PROVE  /\ task' \in [Tasks -> Task] /\ Only(t)
           /\ task'[t].pc = "probing" /\ task'[t].epoch = epoch /\ task'[t].seen = serial
           /\ task'[t].kind = task[t].kind /\ task'[t].call = task[t].call
           /\ task'[t].gen = task[t].gen /\ task'[t].outcome = task[t].outcome
           /\ task'[t].runs = task[t].runs /\ task'[t].replayed = task[t].replayed
<1> DEFINE r == [task[t] EXCEPT !.pc = "probing", !.epoch = epoch, !.seen = serial]
<1>1. task' = [task EXCEPT ![t] = r]
  BY DEF Probe
<1>2. /\ r.pc = "probing" /\ r.epoch = epoch /\ r.seen = serial
      /\ r.kind = task[t].kind /\ r.call = task[t].call
      /\ r.gen = task[t].gen /\ r.outcome = task[t].outcome
      /\ r.runs = task[t].runs /\ r.replayed = task[t].replayed
  BY DEF Task
<1>3. r \in Task
  <2>1. "probing" \in Steps
    BY DEF Steps, ClientSteps
  <2> QED BY <2>1 DEF Task
<1> HIDE DEF r
<1> QED BY <1>1, <1>2, <1>3 DEF Only

LEMMA SkipProbeTask ==
    ASSUME task \in [Tasks -> Task], NEW t \in Tasks, epoch \in Nat, SkipProbe(t)
    PROVE  /\ task' \in [Tasks -> Task] /\ Only(t)
           /\ task'[t].pc = "lock" /\ task'[t].call = "check"
           /\ task'[t].epoch = epoch /\ task'[t].outcome = "failed"
           /\ task'[t].kind = task[t].kind /\ task'[t].gen = task[t].gen
           /\ task'[t].seen = task[t].seen
           /\ task'[t].runs = task[t].runs /\ task'[t].replayed = task[t].replayed
<1> DEFINE r == [task[t] EXCEPT !.pc = "lock", !.call = "check", !.epoch = epoch,
                                !.outcome = "failed"]
<1>1. task' = [task EXCEPT ![t] = r]
  BY DEF SkipProbe
<1>2. /\ r.pc = "lock" /\ r.call = "check" /\ r.epoch = epoch /\ r.outcome = "failed"
      /\ r.kind = task[t].kind /\ r.gen = task[t].gen /\ r.seen = task[t].seen
      /\ r.runs = task[t].runs /\ r.replayed = task[t].replayed
  BY DEF Task
<1>3. r \in Task
  <2>1. "lock" \in Steps /\ "failed" \in Outcomes \cup {"none"}
    BY DEF Steps, ClientSteps, Outcomes
  <2> QED BY <2>1 DEF Task
<1> HIDE DEF r
<1> QED BY <1>1, <1>2, <1>3 DEF Only

(* A probe ends for all who wait for it.                                    *)
Hears(t, f) == At(t, "probing") /\ task[t].epoch = f.epoch

LEMMA ProbeEndsTask ==
    ASSUME task \in [Tasks -> Task], NEW f, NEW outcome \in Outcomes, ProbeEnds(f, outcome)
    PROVE  /\ task' \in [Tasks -> Task]
           /\ \A t \in Tasks : ~Hears(t, f) => task'[t] = task[t]
           /\ \A t \in Tasks : Hears(t, f) =>
                 /\ task'[t].pc = "probed" /\ task'[t].outcome = outcome
                 /\ task'[t].kind = task[t].kind /\ task'[t].call = task[t].call
                 /\ task'[t].gen = task[t].gen /\ task'[t].epoch = task[t].epoch
                 /\ task'[t].seen = task[t].seen
                 /\ task'[t].runs = task[t].runs /\ task'[t].replayed = task[t].replayed
<1> DEFINE r(t) == [task[t] EXCEPT !.pc = "probed", !.outcome = outcome]
<1>1. task' = [t \in Tasks |-> IF Hears(t, f) THEN r(t) ELSE task[t]]
  BY DEF ProbeEnds, Hears
<1>2. ASSUME NEW t \in Tasks
      PROVE  /\ r(t) \in Task /\ r(t).pc = "probed" /\ r(t).outcome = outcome
             /\ r(t).kind = task[t].kind /\ r(t).call = task[t].call
             /\ r(t).gen = task[t].gen /\ r(t).epoch = task[t].epoch
             /\ r(t).seen = task[t].seen
             /\ r(t).runs = task[t].runs /\ r(t).replayed = task[t].replayed
  <2>1. "probed" \in Steps /\ task[t] \in Task
    BY DEF Steps, ClientSteps
  <2>2. r(t) \in Task
    BY <2>1 DEF Task
  <2> QED BY <2>1, <2>2 DEF Task
<1> HIDE DEF r
<1> QED BY <1>1, <1>2

(* What a check may tell its caller.                                        *)
LEMMA AfterCheckValues ==
    ASSUME NEW t \in Tasks, NEW v \in {"healthy", "replaced", "degraded", "raised"}
    PROVE  /\ AfterCheck(t, v) \in {"result", "uncertain", "unavailable", "attached", "done",
                                    "replay"}
           /\ AfterCheck(t, v) = "replay" =>
                 task[t].kind = "replayable" /\ ~task[t].replayed /\ v \in {"replaced", "degraded"}
           /\ AfterCheck(t, v) = "result" /\ task[t].kind # "transfer" => v = "healthy"
           /\ AfterCheck(t, v) = "unavailable" =>
                 task[t].kind \in {"replayable", "shell", "reconnect"}
           /\ AfterCheck(t, v) \in {"attached", "done"} /\ task[t].kind \in {"shell", "reconnect"}
                 => v # "raised"
BY DEF AfterCheck

LEMMA CheckEndsTask ==
    ASSUME task \in [Tasks -> Task], NEW t \in Tasks, NEW v, NEW s, CheckEnds(t, v, s)
    PROVE  /\ task' \in [Tasks -> Task] /\ Only(t)
           /\ \/ AfterCheck(t, v) # "replay" /\ Return(t, AfterCheck(t, v), s)
              \/ /\ AfterCheck(t, v) = "replay" /\ UNCHANGED <<answer, wake>>
                 /\ task'[t].kind = "replayable" /\ task'[t].pc = "queued"
                 /\ task'[t].call = "none" /\ task'[t].gen = 0 /\ task'[t].epoch = 0
                 /\ task'[t].outcome = "none" /\ task'[t].seen = 0
                 /\ task'[t].runs = task[t].runs /\ task'[t].replayed = TRUE
<1>1. CASE AfterCheck(t, v) # "replay"
  BY <1>1, ReturnTask DEF CheckEnds
<1>2. CASE AfterCheck(t, v) = "replay"
  <2> DEFINE r == Fresh("replayable", "queued")
             again == [r EXCEPT !.runs = task[t].runs, !.replayed = TRUE]
  <2>1. task' = [task EXCEPT ![t] = again] /\ UNCHANGED <<answer, wake>>
    BY <1>2 DEF CheckEnds
  <2>2. /\ r \in Task /\ r.kind = "replayable" /\ r.pc = "queued" /\ r.call = "none"
        /\ r.gen = 0 /\ r.epoch = 0 /\ r.outcome = "none" /\ r.seen = 0
    BY FreshTask DEF Requests, Operations
  <2> HIDE DEF r
  <2>3. /\ again \in Task /\ again.kind = "replayable" /\ again.pc = "queued"
        /\ again.call = "none" /\ again.gen = 0 /\ again.epoch = 0
        /\ again.outcome = "none" /\ again.seen = 0
        /\ again.runs = task[t].runs /\ again.replayed = TRUE
    BY <2>2 DEF Task
  <2> HIDE DEF again
  <2> QED BY <1>2, <2>1, <2>3 DEF Only
<1> QED BY <1>1, <1>2

-----------------------------------------------------------------------------
(* Types: of the coroutines and their sessions, and of the connection.      *)

Fates == {"none", "refused", "running", "exited", "lost"}
Verdicts == {"result", "uncertain", "unavailable", "timeout", "attached", "done", "cancelled"}

TaskType ==
    /\ task \in [Tasks -> Task]
    /\ answer \in [Clients -> Verdicts \cup {"none"}]
    /\ fate \in [Clients -> Fates]
    /\ wake \in BOOLEAN

(* Losing and closing sessions.                                             *)
LEMMA SessionTypes ==
    ASSUME fate \in [Clients -> Fates]
    PROVE  /\ Severed \in [Clients -> Fates]
           /\ \A f \in [Clients -> Fates] : CloseSessions(f) => fate' \in [Clients -> Fates]
BY DEF Severed, CloseSessions, Fates

(* Answers have their type.                                                 *)
LEMMA AnswerTypes ==
    ASSUME TaskType, NEW t \in Tasks, NEW s
    PROVE  /\ \A a \in Verdicts : Return(t, a, s) =>
                 /\ task' \in [Tasks -> Task] /\ wake' \in BOOLEAN
                 /\ answer' \in [Clients -> Verdicts \cup {"none"}]
           /\ \A v \in {"healthy", "replaced", "degraded", "raised"} : CheckEnds(t, v, s) =>
                 /\ task' \in [Tasks -> Task] /\ wake' \in BOOLEAN
                 /\ answer' \in [Clients -> Verdicts \cup {"none"}]
           /\ \A g \in Nat : ConnectReturns(t, s, g) =>
                 /\ task' \in [Tasks -> Task] /\ wake' \in BOOLEAN
                 /\ answer' \in [Clients -> Verdicts \cup {"none"}]
<1> USE DEF TaskType
<1>1. ASSUME NEW a \in Verdicts, Return(t, a, s)
      PROVE  /\ task' \in [Tasks -> Task] /\ wake' \in BOOLEAN
             /\ answer' \in [Clients -> Verdicts \cup {"none"}]
  <2>1. t \in Clients \/ t = Maintainer
    BY DEF Tasks
  <2> QED BY <1>1, <2>1, ReturnTask
<1>2. ASSUME NEW v \in {"healthy", "replaced", "degraded", "raised"}, CheckEnds(t, v, s)
      PROVE  /\ task' \in [Tasks -> Task] /\ wake' \in BOOLEAN
             /\ answer' \in [Clients -> Verdicts \cup {"none"}]
  <2>1. AfterCheck(t, v) # "replay" => AfterCheck(t, v) \in Verdicts
    BY <1>2, AfterCheckValues DEF Verdicts
  <2>2. CASE AfterCheck(t, v) # "replay" /\ Return(t, AfterCheck(t, v), s)
    BY <1>1, <2>1, <2>2
  <2>3. CASE AfterCheck(t, v) = "replay" /\ UNCHANGED <<answer, wake>>
    BY <1>2, <2>3, CheckEndsTask
  <2> QED BY <1>2, <2>2, <2>3, CheckEndsTask
<1>3. ASSUME NEW g \in Nat, ConnectReturns(t, s, g)
      PROVE  /\ task' \in [Tasks -> Task] /\ wake' \in BOOLEAN
             /\ answer' \in [Clients -> Verdicts \cup {"none"}]
  BY <1>1, <1>3, ConnectReturnsTask DEF Verdicts
<1> QED BY <1>1, <1>2, <1>3

(* The requests of clients.                                                 *)
LEMMA ClientTaskType ==
    ASSUME TaskType, generation \in Nat, NEW c \in Clients,
           \/ \E k \in Kinds[c] : Arrive(c, k)
           \/ Admit(c) \/ Launch(c) \/ LaunchFails(c) \/ CommandExits(c) \/ Report(c)
           \/ Timeout(c) \/ Cancel(c)
    PROVE  TaskType'
<1> USE DEF TaskType
<1>0. c \in Tasks
  BY DEF Tasks
<1>1. ASSUME NEW a \in Verdicts, Finish(c, a)
      PROVE  /\ task' \in [Tasks -> Task] /\ wake' \in BOOLEAN
             /\ answer' \in [Clients -> Verdicts \cup {"none"}]
  BY <1>1, FinishTask
<1>2. ASSUME NEW k \in Kinds[c], Arrive(c, k) PROVE TaskType'
  <2>0. k \in Requests
    BY KindsAssumption
  <2>1. /\ Fresh(k, IF k \in Operations THEN "queued" ELSE "ensure") \in Task
        /\ [Fresh(k, "lock") EXCEPT !.call = "force"] \in Task
        /\ [Fresh(k, "check") EXCEPT !.gen = generation] \in Task
    <3>1. /\ Fresh(k, "queued") \in Task /\ Fresh(k, "ensure") \in Task
          /\ Fresh(k, "lock") \in Task /\ Fresh(k, "check") \in Task
      BY <2>0, FreshTask
    <3> QED BY <3>1 DEF Task
  <2>2. task' \in [Tasks -> Task]
    BY <1>0, <1>2, <2>1 DEF Arrive
  <2>3. UNCHANGED <<answer, wake, fate>>
    BY <1>2 DEF Arrive
  <2> QED BY <2>2, <2>3
<1>3. CASE Admit(c)
  BY <1>0, <1>3, GotoTask, FreshTask DEF Admit
<1>4. CASE Launch(c)
  <2>1. fate' \in [Clients -> Fates] /\ UNCHANGED <<answer, wake>>
    BY <1>4 DEF Launch, Fates
  <2>2. task' \in [Tasks -> Task]
    <3>1. "session" \in Steps
      BY DEF Steps, ClientSteps
    <3>2. [task[c] EXCEPT !.pc = "session"] \in Task
      BY <1>0, <3>1 DEF Task
    <3>3. CASE task' = [task EXCEPT ![c].pc = "session"]
      BY <1>0, <3>2, <3>3
    <3>4. CASE task' = [task EXCEPT ![c].pc = "session", ![c].runs = @ + 1]
      <4> DEFINE mid == [task EXCEPT ![c].pc = "session"]
      <4>1. mid \in [Tasks -> Task]
        BY <1>0, <3>2
      <4>2. task' = [mid EXCEPT ![c].runs = mid[c].runs + 1]
        BY <3>4
      <4> HIDE DEF mid
      <4>3. mid[c].runs + 1 \in Nat
        BY <1>0, <4>1 DEF Task
      <4>4. [mid[c] EXCEPT !.runs = mid[c].runs + 1] \in Task
        BY <1>0, <4>1, <4>3 DEF Task
      <4> QED BY <1>0, <4>1, <4>2, <4>4
    <3> QED BY <1>4, <3>3, <3>4 DEF Launch
  <2> QED BY <2>1, <2>2
<1>5. CASE LaunchFails(c)
  BY <1>1, <1>5, SessionTypes DEF LaunchFails, Verdicts
<1>6. CASE CommandExits(c)
  BY <1>6 DEF CommandExits, clientVars, Fates
<1>7. CASE Report(c)
  <2>1. CASE Finish(c, "result") /\ CloseSessions(fate)
    BY <1>1, <2>1, SessionTypes DEF Verdicts
  <2>2. CASE Goto(c, "check") /\ UNCHANGED fate
    BY <1>0, <2>2, GotoTask, FreshTask
  <2> QED BY <1>7, <2>1, <2>2 DEF Report
<1>8. CASE Timeout(c)
  BY <1>1, <1>8, SessionTypes DEF Timeout, Verdicts
<1>9. CASE Cancel(c)
  BY <1>1, <1>9, SessionTypes DEF Cancel, Verdicts
<1> QED BY <1>2, <1>3, <1>4, <1>5, <1>6, <1>7, <1>8, <1>9

(* The types of the connection.                                             *)
ConnType ==
    /\ state \in States /\ generation \in Nat /\ epoch \in Nat
    /\ backoff \in BOOLEAN /\ attempt \in 0..(ConnectionAttempts - 1)
    /\ failedProbes \in Nat /\ flights \subseteq [epoch : Nat, on : Nat]
    /\ link \in Links /\ faults \in 0..MaxFaults
    /\ serial \in Nat /\ blame \in Nat

(* What a task does by itself.                                              *)
LEMMA AdvanceTaskType ==
    ASSUME TaskType, ConnType, NEW t \in Tasks,
           Advance(t) \/ \E r \in Reasons : StartFails(t, r)
    PROVE  TaskType'
<1> DEFINE Told == /\ task' \in [Tasks -> Task] /\ wake' \in BOOLEAN
                   /\ answer' \in [Clients -> Verdicts \cup {"none"}]
<1>0. /\ fate \in [Clients -> Fates] /\ task \in [Tasks -> Task]
      /\ wake \in BOOLEAN /\ answer \in [Clients -> Verdicts \cup {"none"}]
      /\ generation \in Nat /\ generation + 1 \in Nat /\ epoch \in Nat /\ serial \in Nat
  BY DEF TaskType, ConnType
<1>1. \A s, v : v \in {"healthy", "replaced", "degraded", "raised"} /\ CheckEnds(t, v, s) => Told
  BY AnswerTypes
<1>2. \A s, a : a \in Verdicts /\ Return(t, a, s) => Told
  BY AnswerTypes
<1>3. \A s, g : g \in Nat /\ ConnectReturns(t, s, g) => Told
  BY AnswerTypes
<1>4. \A p \in Steps : Goto(t, p) => Told
  BY <1>0, GotoTask
<1>5. \A call \in {"connect", "check"} : WantLock(t, call) => Told
  BY <1>0, WantLockTask
<1>6. \A s : ConnectRaises(t, s) => Told
  BY <1>2 DEF ConnectRaises, Verdicts
<1>7. /\ UNCHANGED fate => fate' \in [Clients -> Fates]
      /\ CloseSessions(fate) => fate' \in [Clients -> Fates]
      /\ CloseSessions(Severed) => fate' \in [Clients -> Fates]
      /\ fate' = Severed => fate' \in [Clients -> Fates]
  BY <1>0, SessionTypes
<1>8. {"adopting", "stopping", "starting", "settling", "probing", "lock"} \subseteq Steps
  BY DEF Steps, ClientSteps, RepairSteps
<1>9. Told /\ fate' \in [Clients -> Fates] => TaskType'
  BY DEF TaskType
<1> HIDE DEF Told
<1>10. CASE Ensure(t)
  BY <1>3, <1>5, <1>7, <1>9, <1>10, <1>0 DEF Ensure
<1>11. CASE AlreadyConnected(t)
  BY <1>3, <1>7, <1>9, <1>11, <1>0 DEF AlreadyConnected
<1>12. CASE RefuseToConnect(t)
  BY <1>6, <1>7, <1>9, <1>12 DEF RefuseToConnect
<1>13. CASE TryToAdopt(t)
  BY <1>4, <1>7, <1>8, <1>9, <1>13 DEF TryToAdopt
<1>14. CASE Adopt(t)
  BY <1>3, <1>7, <1>9, <1>14, <1>0 DEF Adopt
<1>15. CASE Reconnect(t) \/ Repair(t)
  BY <1>4, <1>7, <1>8, <1>9, <1>15 DEF Reconnect, Repair, BeginReplacement
<1>16. CASE Stop(t)
  BY <1>4, <1>7, <1>8, <1>9, <1>16 DEF Stop
<1>17. CASE ComeUp(t)
  BY <1>4, <1>7, <1>8, <1>9, <1>17 DEF ComeUp
<1>18. CASE Settle(t)
  BY <1>0, <1>1, <1>3, <1>7, <1>9, <1>18 DEF Settle
<1>19. CASE SettlingFails(t) \/ \E r \in Reasons : StartFails(t, r)
  <2>1. PICK reason : AttemptFails(t, reason)
    BY <1>19 DEF SettlingFails, StartFails
  <2> QED BY <1>1, <1>4, <1>6, <1>7, <1>8, <1>9, <2>1 DEF AttemptFails
<1>20. CASE SeeReplaced(t)
  BY <1>1, <1>7, <1>9, <1>20 DEF SeeReplaced
<1>21. CASE Probe(t)
  BY <1>0, <1>7, <1>8, <1>9, <1>21, ProbeTask DEF Probe, Told
<1>22. CASE SkipProbe(t)
  BY <1>0, <1>7, <1>8, <1>9, <1>22, SkipProbeTask DEF SkipProbe, Told
<1>23. CASE SeeHealthy(t)
  BY <1>1, <1>7, <1>9, <1>23 DEF SeeHealthy
<1>24. CASE AskForRepair(t)
  BY <1>5, <1>7, <1>9, <1>24 DEF AskForRepair
<1>25. CASE AcceptRepair(t)
  BY <1>1, <1>7, <1>9, <1>25 DEF AcceptRepair
<1>26. CASE Tolerate(t)
  BY <1>1, <1>7, <1>9, <1>26 DEF Tolerate
<1>27. CASE LeaveToBackoff(t)
  BY <1>1, <1>7, <1>9, <1>27 DEF LeaveToBackoff
<1> QED BY <1>10, <1>11, <1>12, <1>13, <1>14, <1>15, <1>16, <1>17, <1>18, <1>19, <1>20, <1>21,
           <1>22, <1>23, <1>24, <1>25, <1>26, <1>27 DEF Advance

(* The maintenance task finds the connection established.                   *)
LEMMA TimerTask ==
    ASSUME task \in [Tasks -> Task], generation \in Nat, TimerFires, state = "connected"
    PROVE  /\ task' \in [Tasks -> Task] /\ Only(Maintainer) /\ UNCHANGED <<answer, wake, lockq>>
           /\ task'[Maintainer].pc = "check" /\ task'[Maintainer].gen = generation
           /\ task'[Maintainer].kind = task[Maintainer].kind
           /\ task'[Maintainer].call = task[Maintainer].call
           /\ task'[Maintainer].epoch = task[Maintainer].epoch
           /\ task'[Maintainer].outcome = task[Maintainer].outcome
           /\ task'[Maintainer].seen = task[Maintainer].seen
<1> DEFINE r == [task[Maintainer] EXCEPT !.pc = "check", !.gen = generation]
<1>0. Maintainer \in Tasks
  BY DEF Tasks
<1>1. task' = [task EXCEPT ![Maintainer] = r] /\ UNCHANGED <<answer, wake, lockq>>
  BY DEF TimerFires
<1>2. /\ r.pc = "check" /\ r.gen = generation
      /\ r.kind = task[Maintainer].kind /\ r.call = task[Maintainer].call
      /\ r.epoch = task[Maintainer].epoch /\ r.outcome = task[Maintainer].outcome
      /\ r.seen = task[Maintainer].seen
  BY <1>0 DEF Task
<1>3. r \in Task
  <2>1. "check" \in Steps
    BY FreshTask
  <2> QED BY <1>0, <2>1 DEF Task
<1> HIDE DEF r
<1> QED BY <1>0, <1>1, <1>2, <1>3 DEF Only

LEMMA StepTaskType ==
    ASSUME TaskType, ConnType, [Next]_vars
    PROVE  TaskType'
<1> USE DEF TaskType
<1>0. Maintainer \in Tasks
  BY DEF Tasks
<1>1. ASSUME NEW c \in Clients,
             \/ \E k \in Kinds[c] : Arrive(c, k)
             \/ Admit(c) \/ Launch(c) \/ LaunchFails(c) \/ CommandExits(c) \/ Report(c)
             \/ Timeout(c) \/ Cancel(c)
      PROVE  TaskType'
  BY <1>1, ClientTaskType DEF ConnType
<1>2. ASSUME NEW t \in Tasks, Advance(t) \/ \E r \in Reasons : StartFails(t, r)
      PROVE  TaskType'
  BY <1>2, AdvanceTaskType
<1>3. ASSUME NEW f \in flights, NEW o \in Outcomes, ProbeEnds(f, o) PROVE TaskType'
  <2>1. task' \in [Tasks -> Task]
    BY <1>3, ProbeEndsTask
  <2>2. UNCHANGED <<answer, wake, fate>>
    BY <1>3 DEF ProbeEnds
  <2> QED BY <2>1, <2>2
<1>4. CASE WakeUp
  <2>1. wake' = FALSE /\ UNCHANGED <<answer, fate>>
    BY <1>4 DEF WakeUp
  <2>2. Maintain(state) \in Task
    BY MaintainTask
  <2>3. task' \in [Tasks -> Task]
    BY <1>0, <1>4, <2>2 DEF WakeUp
  <2> QED BY <2>1, <2>3
<1>5. CASE TimerFires
  <2>1. CASE state = "connected"
    BY <1>5, <2>1, TimerTask DEF TimerFires, ConnType
  <2>2. CASE state # "connected"
    BY <1>0, <1>5, <2>2, WantLockTask DEF TimerFires
  <2> QED BY <2>1, <2>2
<1>6. CASE MasterDies
  BY <1>6, SessionTypes DEF MasterDies, clientVars
<1>7. CASE BackoffEnds \/ HostCalms \/ (\E l \in {"busy", "broken"} : Degrade(l))
  BY <1>7 DEF BackoffEnds, HostCalms, Degrade, clientVars
<1>8. CASE UNCHANGED vars
  BY <1>8 DEF vars, clientVars
<1> QED BY <1>1, <1>2, <1>3, <1>4, <1>5, <1>6, <1>7, <1>8 DEF Next

-----------------------------------------------------------------------------
(* What holds of one coroutine by itself: it names the call it wants the    *)
(* lock for as long as it waits or repairs; a forced reconnect never does   *)
(* anything else; and only a check has seen a master.                       *)
Waiting == {"lock"} \cup RepairSteps
Coherent(r) ==
    /\ r.call # "none" <=> r.pc \in Waiting
    /\ r.call = "force" <=> r.kind = "force"
    /\ r.pc = "adopting" => r.call = "connect"
    /\ r.pc \in {"probing", "probed"} \/ r.outcome \in {"ok", "slow"} => r.seen # 0
    /\ r.seen # 0 => r.pc \in {"probing", "probed"} \/ r.call = "check"

(* A step of one coroutine that sees no master.                             *)
Moves(t) ==
    /\ Only(t)
    /\ Coherent(task'[t])
    /\ \/ task'[t].seen = 0
       \/ task'[t].seen = task[t].seen /\ task'[t].epoch = task[t].epoch

Resting == {"done", "asleep", "parked"}

LEMMA ReturnMoves ==
    ASSUME task \in [Tasks -> Task], NEW t \in Tasks, NEW a, NEW s, Return(t, a, s)
    PROVE  Moves(t) /\ task'[t].pc \in Resting
<1>1. Resting \cap (Waiting \cup {"probing", "probed", "adopting"}) = {}
  BY DEF Resting, Waiting, RepairSteps
<1>2. /\ Only(t) /\ task'[t].pc \in Resting /\ task'[t].call = "none"
      /\ task'[t].outcome = "none" /\ task'[t].seen = 0 /\ task'[t].kind \in {"none", "maintain"}
  <2>1. CASE t = Maintainer
    BY <2>1, ReturnTask, MaintainTask DEF Resting
  <2>2. CASE t \in Clients
    <3>1. Only(t) /\ task'[t] = Fresh("none", "done")
      BY <2>2, ReturnTask
    <3>2. "done" \in Resting
      BY DEF Resting
    <3> QED BY <3>1, <3>2, FreshTask
  <2> QED BY <2>1, <2>2 DEF Tasks
<1> QED BY <1>1, <1>2 DEF Moves, Coherent

LEMMA CheckEndsMoves ==
    ASSUME task \in [Tasks -> Task], NEW t \in Tasks, NEW v, NEW s, CheckEnds(t, v, s)
    PROVE  Moves(t) /\ task'[t].pc \in Resting \cup {"queued"}
<1>1. CASE Return(t, AfterCheck(t, v), s)
  BY <1>1, ReturnMoves
<1>2. CASE /\ task'[t].kind = "replayable" /\ task'[t].pc = "queued"
           /\ task'[t].call = "none" /\ task'[t].seen = 0 /\ task'[t].outcome = "none"
  <2>1. Only(t) /\ "queued" \notin Waiting
    BY CheckEndsTask DEF Waiting, RepairSteps
  <2> QED BY <1>2, <2>1 DEF Moves, Coherent
<1> QED BY <1>1, <1>2, CheckEndsTask

LEMMA ConnectReturnsMoves ==
    ASSUME task \in [Tasks -> Task], NEW t \in Tasks, NEW s, NEW g \in Nat,
           ConnectReturns(t, s, g), Coherent(task[t]), task[t].call # "check",
           task[t].pc \notin {"probing", "probed"}
    PROVE  Moves(t) /\ task'[t].pc \in Resting \cup {"launch", "check"}
<1>1. CASE Return(t, "done", s)
  BY <1>1, ReturnMoves
<1>2. CASE /\ task[t].kind \notin {"maintain", "force"}
           /\ task'[t].call = "none"
           /\ task'[t].pc = IF task[t].kind \in Operations THEN "launch" ELSE "check"
           /\ task'[t].kind = task[t].kind
           /\ task'[t].outcome = task[t].outcome /\ task'[t].seen = task[t].seen
  <2>1. Only(t) /\ {"launch", "check"} \cap Waiting = {}
    BY ConnectReturnsTask DEF Waiting, RepairSteps
  <2>2. task[t].seen = 0 /\ task[t].outcome \notin {"ok", "slow"}
    BY DEF Coherent
  <2> QED BY <1>2, <2>1, <2>2 DEF Moves, Coherent
<1> QED BY <1>1, <1>2, ConnectReturnsTask

LEMMA GotoMoves ==
    ASSUME task \in [Tasks -> Task], NEW t \in Tasks, NEW p \in Steps, Goto(t, p),
           Coherent(task[t]), task[t].pc \notin {"probing", "probed"},
           p \notin {"probing", "probed"}, p \in Waiting <=> task[t].pc \in Waiting,
           p = "adopting" => task[t].call = "connect"
    PROVE  Moves(t) /\ task'[t].pc = p
BY GotoTask DEF Moves, Coherent

LEMMA WantLockMoves ==
    ASSUME task \in [Tasks -> Task], NEW t \in Tasks, NEW call \in {"connect", "check"},
           WantLock(t, call), Coherent(task[t]), task[t].pc \notin Waiting,
           call = "connect" => task[t].pc # "probing" /\ task[t].pc # "probed"
    PROVE  Moves(t) /\ task'[t].pc = "lock" /\ lockq' = Append(lockq, t)
<1>1. "lock" \in Waiting
  BY DEF Waiting
<1> QED BY <1>1, WantLockTask DEF Moves, Coherent

(* A request arrives, and a session opens or is refused.                    *)
LEMMA ArriveTask ==
    ASSUME task \in [Tasks -> Task], generation \in Nat, NEW c \in Clients, NEW k \in Requests,
           Arrive(c, k)
    PROVE  /\ Only(c) /\ UNCHANGED <<answer, wake>>
           /\ task'[c].kind = k /\ task'[c].epoch = 0 /\ task'[c].outcome = "none"
           /\ task'[c].seen = 0 /\ task'[c].runs = 0 /\ task'[c].replayed = FALSE
           /\ \/ /\ k \in Operations /\ task'[c].pc = "queued" /\ UNCHANGED lockq
                 /\ task'[c].call = "none" /\ task'[c].gen = 0
              \/ /\ k \in {"shell", "reconnect"} /\ task'[c].pc = "ensure" /\ UNCHANGED lockq
                 /\ task'[c].call = "none" /\ task'[c].gen = 0
              \/ /\ k = "force" /\ task'[c].pc = "lock" /\ lockq' = Append(lockq, c)
                 /\ task'[c].call = "force" /\ task'[c].gen = 0
              \/ /\ k = "status" /\ task'[c].pc = "check" /\ UNCHANGED lockq
                 /\ task'[c].call = "none" /\ task'[c].gen = generation
                 /\ state = "connected"
<1>0. c \in Tasks
  BY DEF Tasks
<1>1. \A p \in {"queued", "ensure", "lock", "check"} :
         /\ Fresh(k, p) \in Task /\ Fresh(k, p).kind = k /\ Fresh(k, p).pc = p
         /\ Fresh(k, p).call = "none" /\ Fresh(k, p).gen = 0 /\ Fresh(k, p).epoch = 0
         /\ Fresh(k, p).outcome = "none" /\ Fresh(k, p).seen = 0 /\ Fresh(k, p).runs = 0
         /\ Fresh(k, p).replayed = FALSE
  BY FreshTask
<1>2. CASE /\ k \in Operations \cup {"shell", "reconnect"} /\ UNCHANGED lockq
           /\ task' = [task EXCEPT ![c] = Fresh(k, IF k \in Operations THEN "queued" ELSE "ensure")]
  <2>1. CASE k \in Operations
    BY <1>0, <1>1, <1>2, <2>1, Zenon DEF Only, Arrive
  <2>2. CASE k \in {"shell", "reconnect"}
    <3>1. k \notin Operations
      BY <2>2 DEF Operations
    <3> QED BY <1>0, <1>1, <1>2, <2>2, <3>1, Zenon DEF Only, Arrive
  <2> QED BY <1>2, <2>1, <2>2
<1>3. CASE /\ k = "force" /\ lockq' = Append(lockq, c)
           /\ task' = [task EXCEPT ![c] = [Fresh(k, "lock") EXCEPT !.call = "force"]]
  <2> DEFINE r == Fresh(k, "lock")
             q == [r EXCEPT !.call = "force"]
  <2>1. q = [Fresh(k, "lock") EXCEPT !.call = "force"]
    OBVIOUS
  <2>2. /\ r \in Task /\ r.kind = k /\ r.pc = "lock" /\ r.gen = 0 /\ r.epoch = 0
        /\ r.outcome = "none" /\ r.seen = 0 /\ r.runs = 0 /\ r.replayed = FALSE
    BY <1>1
  <2> HIDE DEF r
  <2>3. /\ q.kind = k /\ q.pc = "lock" /\ q.gen = 0 /\ q.epoch = 0 /\ q.call = "force"
        /\ q.outcome = "none" /\ q.seen = 0 /\ q.runs = 0 /\ q.replayed = FALSE
    BY <2>2 DEF Task
  <2>4. task' = [task EXCEPT ![c] = q]
    BY <1>3, <2>1
  <2> HIDE DEF q
  <2> QED BY <1>0, <1>3, <2>3, <2>4, Zenon DEF Only, Arrive
<1>4. CASE /\ k = "status" /\ state = "connected" /\ UNCHANGED lockq
           /\ task' = [task EXCEPT ![c] = [Fresh(k, "check") EXCEPT !.gen = generation]]
  <2> DEFINE r == Fresh(k, "check")
             q == [r EXCEPT !.gen = generation]
  <2>1. q = [Fresh(k, "check") EXCEPT !.gen = generation]
    OBVIOUS
  <2>2. /\ r \in Task /\ r.kind = k /\ r.pc = "check" /\ r.call = "none" /\ r.epoch = 0
        /\ r.outcome = "none" /\ r.seen = 0 /\ r.runs = 0 /\ r.replayed = FALSE
    BY <1>1
  <2> HIDE DEF r
  <2>3. /\ q.kind = k /\ q.pc = "check" /\ q.gen = generation /\ q.epoch = 0 /\ q.call = "none"
        /\ q.outcome = "none" /\ q.seen = 0 /\ q.runs = 0 /\ q.replayed = FALSE
    BY <2>2 DEF Task
  <2>4. task' = [task EXCEPT ![c] = q]
    BY <1>4, <2>1
  <2> HIDE DEF q
  <2> QED BY <1>0, <1>4, <2>3, <2>4, Zenon DEF Only, Arrive
<1>5. UNCHANGED <<answer, wake>>
  BY DEF Arrive
<1> QED BY <1>2, <1>3, <1>4 DEF Arrive

LEMMA LaunchTask ==
    ASSUME task \in [Tasks -> Task], NEW c \in Clients, Launch(c)
    PROVE  /\ Only(c) /\ UNCHANGED <<answer, wake, lockq>>
           /\ task'[c].pc = "session" /\ task'[c].kind = task[c].kind
           /\ task'[c].call = task[c].call /\ task'[c].gen = task[c].gen
           /\ task'[c].epoch = task[c].epoch /\ task'[c].outcome = task[c].outcome
           /\ task'[c].seen = task[c].seen /\ task'[c].replayed = task[c].replayed
           /\ \/ /\ link \in {"up", "busy"} /\ fate' = [fate EXCEPT ![c] = "running"]
                 /\ task'[c].runs = task[c].runs + 1
              \/ /\ link # "up" /\ fate' = [fate EXCEPT ![c] = "refused"]
                 /\ task'[c].runs = task[c].runs
<1>0. c \in Tasks /\ UNCHANGED <<answer, wake, lockq>>
  BY DEF Tasks, Launch
<1>1. CASE /\ link # "up" /\ fate' = [fate EXCEPT ![c] = "refused"]
           /\ task' = [task EXCEPT ![c].pc = "session"]
  BY <1>0, <1>1 DEF Only, Task
<1>2. CASE /\ link \in {"up", "busy"} /\ fate' = [fate EXCEPT ![c] = "running"]
           /\ task' = [task EXCEPT ![c].pc = "session", ![c].runs = @ + 1]
  <2> DEFINE r == [task[c] EXCEPT !.pc = "session", !.runs = @ + 1]
  <2>1. task' = [task EXCEPT ![c] = r]
    BY <1>2
  <2>2. /\ r.pc = "session" /\ r.kind = task[c].kind /\ r.call = task[c].call
        /\ r.gen = task[c].gen /\ r.epoch = task[c].epoch /\ r.outcome = task[c].outcome
        /\ r.seen = task[c].seen /\ r.replayed = task[c].replayed /\ r.runs = task[c].runs + 1
    BY <1>0 DEF Task
  <2> HIDE DEF r
  <2> QED BY <1>0, <1>2, <2>1, <2>2 DEF Only
<1> QED BY <1>1, <1>2 DEF Launch

-----------------------------------------------------------------------------
(* The repair lock: who waits or repairs stands in the queue, once, and who *)
(* repairs stands first.                                                    *)
LockInv ==
    /\ lockq \in Seq(Tasks) /\ Once(lockq)
    /\ \A t \in Tasks : task[t].pc \in Waiting <=> StandsIn(t, lockq)
    /\ \A t \in Tasks : task[t].pc \in RepairSteps => lockq[1] = t

First(t) == lockq # <<>> /\ lockq[1] = t

LEMMA FirstInLine ==
    ASSUME LockInv, NEW t \in Tasks, Holds(t) \/ task[t].pc \in RepairSteps
    PROVE  First(t) /\ \A u \in Tasks \ {t} : task[u].pc \notin RepairSteps
<1>1. task[t].pc \in Waiting
  BY DEF Holds, At, Waiting
<1>2. lockq # <<>>
  BY <1>1, LenProperties, EmptySeq DEF LockInv, StandsIn
<1>3. lockq[1] = t
  BY <1>2, Going DEF LockInv, Holds
<1> QED BY <1>2, <1>3 DEF First, LockInv

LEMMA QueueKept ==
    ASSUME LockInv, UNCHANGED lockq,
           \A t \in Tasks : /\ task'[t].pc \in Waiting <=> task[t].pc \in Waiting
                            /\ task'[t].pc \in RepairSteps =>
                                  task[t].pc \in RepairSteps \/ First(t)
    PROVE  LockInv'
BY DEF LockInv, First

LEMMA QueueJoined ==
    ASSUME LockInv, NEW t \in Tasks, Only(t), task[t].pc \notin Waiting, task'[t].pc = "lock",
           lockq' = Append(lockq, t)
    PROVE  LockInv'
<1>1. "lock" \in Waiting /\ "lock" \notin RepairSteps /\ RepairSteps \subseteq Waiting
  BY DEF Waiting, RepairSteps
<1>2. /\ lockq' \in Seq(Tasks) /\ Once(lockq')
      /\ \A y : StandsIn(y, lockq') <=> y = t \/ StandsIn(y, lockq)
      /\ lockq # <<>> => lockq'[1] = lockq[1]
  BY Joining DEF LockInv
<1>3. \A u \in Tasks : u = t \/ task'[u] = task[u]
  BY DEF Only
<1>4. \A u \in Tasks : task'[u].pc \in Waiting <=> StandsIn(u, lockq')
  BY <1>1, <1>2, <1>3 DEF LockInv
<1>5. ASSUME NEW u \in Tasks, task'[u].pc \in RepairSteps PROVE lockq'[1] = u
  <2>1. task[u].pc \in RepairSteps
    BY <1>1, <1>3, <1>5
  <2> QED BY <1>2, <2>1, FirstInLine DEF First
<1> QED BY <1>2, <1>4, <1>5 DEF LockInv

LEMMA QueueReleased ==
    ASSUME LockInv, NEW t \in Tasks, Only(t), First(t), task'[t].pc \notin Waiting, Release
    PROVE  LockInv'
<1>1. RepairSteps \subseteq Waiting
  BY DEF Waiting
<1>2. /\ lockq' \in Seq(Tasks) /\ Once(lockq')
      /\ \A y : StandsIn(y, lockq') <=> y # t /\ StandsIn(y, lockq)
  BY Going DEF LockInv, Release, First
<1>3. \A u \in Tasks : u = t \/ task'[u] = task[u]
  BY DEF Only
<1>4. \A u \in Tasks : task'[u].pc \in Waiting <=> StandsIn(u, lockq')
  BY <1>2, <1>3 DEF LockInv
<1>5. \A u \in Tasks : task'[u].pc \notin RepairSteps
  BY <1>1, <1>3 DEF LockInv, First
<1> QED BY <1>2, <1>4, <1>5 DEF LockInv

LEMMA QueueLeft ==
    ASSUME LockInv, NEW c \in Clients, Only(c), task'[c].pc \notin Waiting, Cancel(c)
    PROVE  LockInv'
<1>1. RepairSteps \subseteq Waiting /\ c \in Tasks
  BY DEF Waiting, Tasks
<1>2. \A u \in Tasks : u = c \/ task'[u] = task[u]
  BY DEF Only
<1>3. CASE (\A i \in DOMAIN lockq : lockq[i] # c) /\ UNCHANGED lockq
  <2>1. ~StandsIn(c, lockq)
    BY <1>3 DEF StandsIn
  <2>2. task[c].pc \notin Waiting
    BY <1>1, <2>1 DEF LockInv
  <2> QED BY <1>1, <1>2, <1>3, <2>2, QueueKept
<1>4. ASSUME NEW i \in DOMAIN lockq, lockq[i] = c, lockq' = RemoveAt(lockq, i) PROVE LockInv'
  <2>1. /\ lockq' \in Seq(Tasks) /\ Once(lockq')
        /\ \A y : StandsIn(y, lockq') <=> y # c /\ StandsIn(y, lockq)
        /\ i # 1 => lockq'[1] = lockq[1]
    BY <1>4, Leaving DEF LockInv
  <2>2. \A u \in Tasks : task'[u].pc \in Waiting <=> StandsIn(u, lockq')
    BY <1>2, <2>1 DEF LockInv
  <2>3. ASSUME NEW u \in Tasks, task'[u].pc \in RepairSteps PROVE lockq'[1] = u
    <3>1. u # c /\ task[u].pc \in RepairSteps
      BY <1>1, <1>2, <2>3
    <3>2. i # 1
      BY <1>4, <3>1 DEF LockInv
    <3> QED BY <2>1, <3>1, <3>2 DEF LockInv
  <2> QED BY <2>1, <2>2, <2>3 DEF LockInv
<1> QED BY <1>3, <1>4 DEF Cancel

-----------------------------------------------------------------------------
(* The steps that leave the connection as it is, but for a master that      *)
(* goes down, and of which no coroutine learns of a master or begins a      *)
(* repair.                                                                  *)
Base ==
    /\ TaskType /\ ConnType /\ LockInv
    /\ \A t \in Tasks : Coherent(task[t])

Quiet ==
    /\ UNCHANGED <<state, generation, epoch, probeVars, serial>>
    /\ link' # "down" => link # "down"
    /\ \A u \in Tasks :
          /\ Coherent(task'[u])
          /\ \/ task'[u].seen = 0
             \/ task'[u].seen = task[u].seen /\ task'[u].epoch = task[u].epoch
          /\ task'[u].pc \in RepairSteps =>
                \/ task'[u].pc = task[u].pc
                \/ task'[u].pc = "starting" /\ task[u].pc \in {"stopping", "starting", "settling"}

Still == UNCHANGED <<epoch, connVars, probeVars, link, faults, serial>>

LEMMA StillTypes ==
    ASSUME ConnType, Still
    PROVE  ConnType' /\ UNCHANGED <<state, generation, epoch, probeVars, serial, link>>
BY DEF ConnType, Still, connVars, probeVars

LEMMA MovesQuietly ==
    ASSUME Base, NEW t \in Tasks, Moves(t),
           UNCHANGED <<state, generation, epoch, probeVars, serial>>,
           link' # "down" => link # "down",
           task'[t].pc \in RepairSteps =>
              \/ task'[t].pc = task[t].pc
              \/ task'[t].pc = "starting" /\ task[t].pc \in {"stopping", "starting", "settling"}
    PROVE  Quiet /\ Only(t)
<1>1. \A u \in Tasks : u = t \/ task'[u] = task[u]
  BY DEF Moves, Only
<1> QED BY <1>1 DEF Moves, Quiet, Base

(* A coroutine that leaves the connection alone, and the queue.             *)
LEMMA MovesStill ==
    ASSUME Base, NEW t \in Tasks, Moves(t), Still, UNCHANGED lockq,
           task'[t].pc \notin RepairSteps,
           task'[t].pc \in Waiting <=> task[t].pc \in Waiting
    PROVE  Quiet /\ LockInv' /\ ConnType' /\ Only(t)
<1>1. \A u \in Tasks : u = t \/ task'[u] = task[u]
  BY DEF Moves, Only
<1>2. LockInv'
  BY <1>1, QueueKept DEF Base
<1> QED BY <1>2, StillTypes, MovesQuietly DEF Base

(* A coroutine that joins the queue, or releases the lock.                  *)
LEMMA MovesInLine ==
    ASSUME Base, NEW t \in Tasks, Moves(t), Still,
           \/ task[t].pc \notin Waiting /\ task'[t].pc = "lock" /\ lockq' = Append(lockq, t)
           \/ Holds(t) /\ task'[t].pc \notin Waiting /\ Release
    PROVE  Quiet /\ LockInv' /\ ConnType' /\ Only(t)
<1>1. Only(t) /\ task'[t].pc \notin RepairSteps
  BY DEF Moves, Waiting, RepairSteps
<1>2. LockInv'
  <2>1. CASE task[t].pc \notin Waiting /\ task'[t].pc = "lock" /\ lockq' = Append(lockq, t)
    BY <1>1, <2>1, QueueJoined DEF Base
  <2>2. CASE Holds(t) /\ task'[t].pc \notin Waiting /\ Release
    BY <1>1, <2>2, QueueReleased, FirstInLine DEF Base
  <2> QED BY <2>1, <2>2
<1> QED BY <1>1, <1>2, StillTypes, MovesQuietly DEF Base

LEMMA Places ==
    /\ {"idle", "queued", "ensure", "launch", "session", "check", "probing", "probed", "done",
        "asleep", "parked"} \cap Waiting = {}
    /\ "lock" \in Waiting /\ "lock" \notin RepairSteps /\ RepairSteps \subseteq Waiting
    /\ Waiting = {"lock", "adopting", "stopping", "starting", "settling"}
    /\ RepairSteps = {"adopting", "stopping", "starting", "settling"}
BY DEF Waiting, RepairSteps

(* What the tasks of clients do.                                            *)
LEMMA ClientsQuiet ==
    ASSUME Base, NEW c \in Clients,
           \/ \E k \in Kinds[c] : Arrive(c, k)
           \/ Admit(c) \/ Launch(c) \/ LaunchFails(c) \/ CommandExits(c) \/ Report(c)
           \/ Timeout(c) \/ Cancel(c)
    PROVE  Quiet /\ LockInv' /\ ConnType' /\ Only(c)
<1>0. /\ c \in Tasks /\ c # Maintainer /\ task \in [Tasks -> Task] /\ generation \in Nat
      /\ \A t \in Tasks : Coherent(task[t])
  BY TasksAssumption DEF Tasks, Base, TaskType, ConnType
<1>1. \A a : Finish(c, a) => Moves(c) /\ task'[c].pc \in Resting
  BY <1>0, ReturnMoves DEF Return
<1>2. Resting \cap Waiting = {} /\ RepairSteps \subseteq Waiting
  BY Places DEF Resting
<1>3. ASSUME NEW k \in Kinds[c], Arrive(c, k) PROVE Quiet /\ LockInv' /\ ConnType' /\ Only(c)
  <2>0. k \in Requests /\ task[c].pc = "idle"
    BY <1>3, KindsAssumption DEF Arrive, At
  <2>1. /\ Moves(c) /\ task'[c].pc \in {"queued", "ensure", "lock", "check"}
        /\ \/ task'[c].pc # "lock" /\ UNCHANGED lockq
           \/ task'[c].pc = "lock" /\ lockq' = Append(lockq, c)
    <3>1. k \in {"shell", "reconnect", "status"} \cup Operations => k # "force"
      BY DEF Operations
    <3>2. /\ Only(c) /\ task'[c].kind = k /\ task'[c].outcome = "none" /\ task'[c].seen = 0
          /\ \/ /\ task'[c].pc \in {"queued", "ensure", "check"} /\ UNCHANGED lockq
                /\ task'[c].call = "none" /\ k # "force"
             \/ /\ task'[c].pc = "lock" /\ lockq' = Append(lockq, c)
                /\ task'[c].call = "force" /\ k = "force"
      BY <1>0, <1>3, <2>0, <3>1, ArriveTask
    <3> QED BY <3>2, Places DEF Moves, Coherent
  <2>2. LockInv'
    <3>1. CASE task'[c].pc # "lock" /\ UNCHANGED lockq
      <4>1. \A u \in Tasks : u = c \/ task'[u] = task[u]
        BY <2>1 DEF Moves, Only
      <4> QED BY <2>0, <2>1, <3>1, <4>1, QueueKept, Places DEF Base
    <3>2. CASE task'[c].pc = "lock" /\ lockq' = Append(lockq, c)
      BY <1>0, <2>0, <2>1, <3>2, QueueJoined, Places DEF Base, Moves
    <3> QED BY <2>1, <3>1, <3>2
  <2>3. /\ UNCHANGED <<state, generation, epoch, probeVars, serial, link, attempt, faults>>
        /\ backoff' = (backoff /\ k \notin Reconnects)
    BY <1>3 DEF Arrive
  <2>4. ConnType'
    <3>1. backoff' \in BOOLEAN
      BY <2>3, Zenon
    <3> QED BY <2>3, <3>1 DEF Base, ConnType, probeVars
  <2> QED BY <1>0, <2>1, <2>2, <2>3, <2>4, MovesQuietly, Places
<1>4. CASE Admit(c)
  <2>1. task[c].pc = "queued" /\ Goto(c, "ensure") /\ Still /\ UNCHANGED lockq
    BY <1>4 DEF Admit, At, Still
  <2>2. Moves(c) /\ task'[c].pc = "ensure"
    BY <1>0, <2>1, GotoMoves, FreshTask, Places
  <2> QED BY <1>0, <2>1, <2>2, MovesStill, Places
<1>5. CASE Launch(c)
  <2>1. task[c].pc = "launch" /\ Still /\ UNCHANGED lockq
    BY <1>5 DEF Launch, At, Still
  <2>2. Moves(c) /\ task'[c].pc = "session"
    BY <1>0, <1>5, <2>1, LaunchTask, Places DEF Moves, Coherent
  <2> QED BY <1>0, <2>1, <2>2, MovesStill, Places
<1>6. CASE LaunchFails(c)
  <2>1. /\ task[c].pc = "launch" /\ Finish(c, "unavailable") /\ UNCHANGED lockq
        /\ UNCHANGED <<state, generation, epoch, backoff, attempt, probeVars, link, serial>>
        /\ faults' = faults + 1 /\ faults < MaxFaults
    BY <1>6 DEF LaunchFails, At, connVars
  <2>2. ConnType'
    BY <2>1, NumbersAssumption DEF Base, ConnType, probeVars
  <2>3. \A u \in Tasks : u = c \/ task'[u] = task[u]
    BY <1>1, <2>1 DEF Moves, Only
  <2>4. task[c].pc \notin Waiting /\ task'[c].pc \notin Waiting
    BY <1>1, <1>2, <2>1, Places
  <2>5. LockInv'
    BY <1>2, <2>1, <2>3, <2>4, QueueKept DEF Base
  <2> QED BY <1>0, <1>1, <1>2, <2>1, <2>2, <2>4, <2>5, MovesQuietly
<1>7. CASE CommandExits(c)
  <2>1. task' = task /\ UNCHANGED lockq /\ Still
    BY <1>7 DEF CommandExits, clientVars, Still
  <2>2. Moves(c)
    BY <1>0, <2>1 DEF Moves, Only
  <2>3. Quiet /\ ConnType' /\ Only(c)
    BY <1>0, <2>1, <2>2, StillTypes, MovesQuietly DEF Base
  <2> QED BY <2>1, <2>3, QueueKept DEF Base
<1>8. CASE Report(c)
  <2>1. task[c].pc = "session" /\ Still /\ UNCHANGED lockq
    BY <1>8 DEF Report, At, Still
  <2>2. CASE Finish(c, "result")
    BY <1>0, <1>1, <1>2, <2>1, <2>2, MovesStill, Places
  <2>3. CASE Goto(c, "check")
    <3>1. Moves(c) /\ task'[c].pc = "check"
      BY <1>0, <2>1, <2>3, GotoMoves, FreshTask, Places
    <3> QED BY <1>0, <2>1, <3>1, MovesStill, Places
  <2> QED BY <1>8, <2>2, <2>3 DEF Report
<1>9. CASE Timeout(c)
  <2>1. task[c].pc \in {"queued", "launch", "session"} /\ Still /\ UNCHANGED lockq
        /\ Finish(c, "timeout")
    BY <1>9 DEF Timeout, Still
  <2> QED BY <1>0, <1>1, <1>2, <2>1, MovesStill, Places
<1>10. CASE Cancel(c)
  <2>1. Moves(c) /\ task'[c].pc \in Resting
    BY <1>1, <1>10 DEF Cancel
  <2>2. LockInv'
    BY <1>2, <1>10, <2>1, QueueLeft DEF Base, Moves
  <2>3. /\ UNCHANGED <<state, generation, epoch, backoff, probeVars, faults, serial>>
        /\ link' \in {"down", link} /\ attempt' \in {0, attempt}
    BY <1>10 DEF Cancel
  <2>4. ConnType'
    BY <2>3, NumbersAssumption DEF Base, ConnType, probeVars, Links
  <2> QED BY <1>0, <1>2, <2>1, <2>2, <2>3, <2>4, MovesQuietly
<1> QED BY <1>3, <1>4, <1>5, <1>6, <1>7, <1>8, <1>9, <1>10

(* A failed start is either repeated at once or ends the repair.            *)
Repeats(t) ==
    /\ task[t].pc \in {"starting", "settling"} /\ Goto(t, "starting")
    /\ link' = "down" /\ fate' = Severed
    /\ AttemptsLeft(attempt) /\ attempt' = attempt + 1
    /\ UNCHANGED <<lockq, epoch, state, generation, backoff, probeVars, serial>>
    /\ faults' \in 0..MaxFaults
GivesIn(t, reason) ==
    /\ task[t].pc \in {"starting", "settling"}
    /\ IF task[t].call = "check"
       THEN CheckEnds(t, "raised", reason)
       ELSE ConnectRaises(t, reason)
    /\ link' = "down" /\ CloseSessions(Severed)
    /\ RecordFailure(reason) /\ Release
    /\ UNCHANGED <<epoch, probeVars, serial>>
    /\ faults' \in 0..MaxFaults

LEMMA FailureCases ==
    ASSUME ConnType, NEW t \in Tasks, SettlingFails(t) \/ \E r \in Reasons : StartFails(t, r)
    PROVE  Repeats(t) \/ \E r \in Reasons : GivesIn(t, r)
<1>1. PICK reason \in Reasons : AttemptFails(t, reason)
  BY DEF SettlingFails, StartFails, Reasons
<1>2. /\ task[t].pc \in {"starting", "settling"}
      /\ faults' = faults \/ (faults' = faults + 1 /\ faults < MaxFaults)
  BY DEF SettlingFails, StartFails, At
<1>3. faults' \in 0..MaxFaults
  BY <1>2, NumbersAssumption DEF ConnType
<1> QED BY <1>1, <1>2, <1>3 DEF AttemptFails, Repeats, GivesIn

(* What every task does by itself.                                          *)
LEMMA TasksQuiet ==
    ASSUME Base, NEW t \in Tasks,
           \/ Ensure(t) \/ AlreadyConnected(t) \/ RefuseToConnect(t) \/ Stop(t)
           \/ SeeReplaced(t) \/ SkipProbe(t) \/ SeeHealthy(t) \/ AskForRepair(t)
           \/ AcceptRepair(t) \/ Tolerate(t) \/ LeaveToBackoff(t) \/ Repeats(t)
    PROVE  Quiet /\ LockInv' /\ ConnType' /\ Only(t)
<1>0. task \in [Tasks -> Task] /\ generation \in Nat /\ epoch \in Nat /\ Coherent(task[t])
  BY DEF Base, TaskType, ConnType
<1>1. /\ Resting \cap Waiting = {} /\ RepairSteps \subseteq Waiting
      /\ (Resting \cup {"launch", "check", "queued"}) \cap Waiting = {}
      /\ (Resting \cup {"launch", "check", "queued"}) \cap RepairSteps = {}
  BY Places DEF Resting
<1>2. \A v, s : CheckEnds(t, v, s) => Moves(t) /\ task'[t].pc \in Resting \cup {"queued"}
  BY <1>0, CheckEndsMoves
<1>3. CASE Ensure(t)
  <2>1. task[t].pc = "ensure" /\ Still
    BY <1>3 DEF Ensure, At, Still
  <2>2. CASE ConnectReturns(t, state, generation) /\ UNCHANGED lockq
    <3>1. task[t].call = "none"
      BY <1>0, <2>1, Places DEF Coherent
    <3>2. Moves(t) /\ task'[t].pc \in Resting \cup {"launch", "check"}
      BY <1>0, <2>1, <2>2, <3>1, ConnectReturnsMoves
    <3>3. task'[t].pc \notin Waiting /\ task[t].pc \notin Waiting
      BY <1>1, <2>1, <3>2, Places
    <3> QED BY <1>1, <2>1, <2>2, <3>2, <3>3, MovesStill
  <2>3. CASE WantLock(t, "connect")
    BY <1>0, <2>1, <2>3, WantLockMoves, MovesInLine, Places
  <2> QED BY <1>3, <2>2, <2>3 DEF Ensure
<1>4. CASE AlreadyConnected(t)
  <2>1. /\ Holds(t) /\ task[t].pc = "lock" /\ task[t].call = "connect" /\ Still /\ Release
        /\ ConnectReturns(t, state, generation)
    BY <1>4 DEF AlreadyConnected, Connecting, Holds, At, Still
  <2>2. Moves(t) /\ task'[t].pc \in Resting \cup {"launch", "check"}
    BY <1>0, <2>1, ConnectReturnsMoves
  <2> QED BY <1>1, <2>1, <2>2, MovesInLine
<1>5. CASE RefuseToConnect(t)
  <2>1. Holds(t) /\ Still /\ Release /\ Return(t, "unavailable", state)
    BY <1>5 DEF RefuseToConnect, Connecting, ConnectRaises, Still
  <2> QED BY <1>0, <1>1, <2>1, ReturnMoves, MovesInLine
<1>6. CASE Stop(t)
  <2>1. /\ task[t].pc = "stopping" /\ Goto(t, "starting") /\ UNCHANGED lockq /\ link' = "down"
        /\ UNCHANGED <<epoch, state, generation, backoff, attempt, probeVars, faults, serial>>
    BY <1>6 DEF Stop, At, connVars
  <2>2. Moves(t) /\ task'[t].pc = "starting"
    <3>1. "starting" \in Steps
      BY DEF Steps, ClientSteps, RepairSteps
    <3> QED BY <1>0, <2>1, <3>1, GotoMoves, Places
  <2>3. ConnType'
    BY <2>1 DEF Base, ConnType, probeVars, Links
  <2>4. \A u \in Tasks : u = t \/ task'[u] = task[u]
    BY <2>2 DEF Moves, Only
  <2>5. LockInv'
    BY <2>1, <2>2, <2>4, QueueKept, Places DEF Base
  <2> QED BY <2>1, <2>2, <2>3, <2>5, MovesQuietly
<1>7. CASE SeeReplaced(t)
  <2>1. task[t].pc = "check" /\ Still /\ UNCHANGED lockq /\ CheckEnds(t, "replaced", state)
    BY <1>7 DEF SeeReplaced, At, Still
  <2>2. task'[t].pc \notin Waiting /\ task[t].pc \notin Waiting
    BY <1>1, <1>2, <2>1, Places
  <2> QED BY <1>1, <1>2, <2>1, <2>2, MovesStill
<1>8. CASE SkipProbe(t)
  <2>1. task[t].pc = "check" /\ Still /\ lockq' = Append(lockq, t)
    BY <1>8 DEF SkipProbe, At, Still
  <2>2. /\ Only(t) /\ task'[t].pc = "lock" /\ task'[t].call = "check"
        /\ task'[t].outcome = "failed" /\ task'[t].kind = task[t].kind
        /\ task'[t].seen = task[t].seen
    BY <1>0, <1>8, SkipProbeTask
  <2>3. task[t].seen = 0 /\ task[t].kind # "force"
    BY <1>0, <2>1, Places DEF Coherent
  <2>4. Moves(t)
    BY <2>2, <2>3, Places DEF Moves, Coherent
  <2> QED BY <2>1, <2>2, <2>4, MovesInLine, Places
<1>9. CASE SeeHealthy(t)
  <2>1. task[t].pc = "probed" /\ Still /\ UNCHANGED lockq /\ CheckEnds(t, "healthy", state)
    BY <1>9 DEF SeeHealthy, At, Still
  <2>2. task'[t].pc \notin Waiting /\ task[t].pc \notin Waiting
    BY <1>1, <1>2, <2>1, Places
  <2> QED BY <1>1, <1>2, <2>1, <2>2, MovesStill
<1>10. CASE AskForRepair(t)
  <2>1. task[t].pc = "probed" /\ Still /\ WantLock(t, "check")
    BY <1>10 DEF AskForRepair, At, Still
  <2> QED BY <1>0, <2>1, WantLockMoves, MovesInLine, Places
<1>11. CASE AcceptRepair(t) \/ Tolerate(t) \/ LeaveToBackoff(t)
  <2>1. Holds(t) /\ Still /\ Release /\ \E v : CheckEnds(t, v, state)
    BY <1>11 DEF AcceptRepair, Tolerate, LeaveToBackoff, Deciding, Still
  <2> QED BY <1>1, <1>2, <2>1, MovesInLine
<1>12. CASE Repeats(t)
  <2>1. Moves(t) /\ task'[t].pc = "starting"
    <3>1. "starting" \in Steps
      BY DEF Steps, ClientSteps, RepairSteps
    <3> QED BY <1>0, <1>12, <3>1, GotoMoves, Places DEF Repeats
  <2>2. ConnType'
    BY <1>12, NumbersAssumption DEF Repeats, AttemptsLeft, Base, ConnType, probeVars, Links
  <2>3. \A u \in Tasks : u = t \/ task'[u] = task[u]
    BY <2>1 DEF Moves, Only
  <2>4. LockInv'
    BY <1>12, <2>1, <2>3, QueueKept, Places DEF Base, Repeats
  <2> QED BY <1>12, <2>1, <2>2, <2>4, MovesQuietly DEF Repeats
<1> QED BY <1>3, <1>4, <1>5, <1>6, <1>7, <1>8, <1>9, <1>10, <1>11, <1>12

(* Maintenance's waits, and the world.                                      *)
LEMMA WorldQuiet ==
    ASSUME Base,
           \/ WakeUp \/ TimerFires \/ BackoffEnds \/ MasterDies \/ HostCalms
           \/ (\E l \in {"busy", "broken"} : Degrade(l)) \/ UNCHANGED vars
    PROVE  Quiet /\ LockInv' /\ ConnType' /\ Only(Maintainer)
<1>0. /\ task \in [Tasks -> Task] /\ generation \in Nat /\ Maintainer \in Tasks
      /\ \A t \in Tasks : Coherent(task[t])
  BY DEF Base, TaskType, ConnType, Tasks
<1>1. CASE WakeUp
  <2>1. /\ task[Maintainer].pc \in {"parked", "asleep"} /\ Still /\ UNCHANGED lockq
        /\ task' = [task EXCEPT ![Maintainer] = Maintain(state)]
    BY <1>1 DEF WakeUp, Still
  <2>2. Only(Maintainer) /\ task'[Maintainer] = Maintain(state)
    BY <1>0, <2>1 DEF Only
  <2>3. Moves(Maintainer) /\ task'[Maintainer].pc \in {"parked", "asleep"}
    BY <2>2, MaintainTask, Places DEF Moves, Coherent
  <2> QED BY <1>0, <2>1, <2>3, MovesStill, Places
<1>2. CASE TimerFires
  <2>1. task[Maintainer].pc = "asleep" /\ Still
    BY <1>2 DEF TimerFires, At, Still
  <2>2. CASE state = "connected"
    <3>1. /\ Only(Maintainer) /\ UNCHANGED lockq /\ task'[Maintainer].pc = "check"
          /\ task'[Maintainer].kind = task[Maintainer].kind
          /\ task'[Maintainer].call = task[Maintainer].call
          /\ task'[Maintainer].outcome = task[Maintainer].outcome
          /\ task'[Maintainer].seen = task[Maintainer].seen
      BY <1>0, <1>2, <2>2, TimerTask
    <3>2. Moves(Maintainer)
      BY <1>0, <2>1, <3>1, Places DEF Moves, Coherent
    <3> QED BY <1>0, <2>1, <3>1, <3>2, MovesStill, Places
  <2>3. CASE state # "connected"
    <3>1. WantLock(Maintainer, "connect")
      BY <1>2, <2>3 DEF TimerFires
    <3> QED BY <1>0, <2>1, <3>1, WantLockMoves, MovesInLine, Places
  <2> QED BY <2>2, <2>3
<1>3. CASE BackoffEnds \/ MasterDies \/ HostCalms \/ (\E l \in {"busy", "broken"} : Degrade(l))
           \/ UNCHANGED vars
  <2>1. /\ task' = task /\ UNCHANGED <<lockq, epoch, state, generation, attempt, probeVars, serial>>
        /\ link' # "down" => link # "down"
    BY <1>3 DEF BackoffEnds, MasterDies, HostCalms, Degrade, vars, clientVars, connVars
  <2>2. Quiet /\ Only(Maintainer)
    BY <1>0, <2>1 DEF Quiet, Only
  <2>3. ConnType'
    <3>1. faults' = faults \/ (faults' = faults + 1 /\ faults < MaxFaults)
      BY <1>3 DEF BackoffEnds, MasterDies, HostCalms, Degrade, vars
    <3>2. faults' \in 0..MaxFaults
      BY <3>1, NumbersAssumption DEF Base, ConnType
    <3>3. backoff' = FALSE \/ backoff' = backoff
      BY <1>3 DEF BackoffEnds, MasterDies, HostCalms, Degrade, vars, connVars
    <3>4. backoff' \in BOOLEAN
      BY <3>3 DEF Base, ConnType
    <3>5. link' \in Links
      BY <1>3 DEF BackoffEnds, MasterDies, HostCalms, Degrade, vars, Links, Base, ConnType
    <3> QED BY <2>1, <3>2, <3>4, <3>5 DEF Base, ConnType, probeVars
  <2> QED BY <2>1, <2>2, <2>3, QueueKept DEF Base
<1> QED BY <1>1, <1>2, <1>3

-----------------------------------------------------------------------------
(* What epochs, serial numbers and generations mean.                        *)

(* A repair goes on only while the connection is given up; a new master has *)
(* no probe yet; before the first generation nothing was ever probed.       *)
RepairInv ==
    /\ \A t \in Tasks :
          /\ task[t].pc \in {"stopping", "starting", "settling"} => state = "reconnecting"
          /\ task[t].pc = "adopting" => generation = 0
          /\ task[t].pc = "settling" => /\ blame = 0 /\ serial > 0
                                        /\ \A f \in flights : f.on < serial
    /\ generation = 0 => state # "connected" /\ flights = {} /\ blame = 0
    /\ link # "down" \/ state = "connected" => serial > 0

(* A probe of the present epoch is a probe of the master in use.            *)
FlightInv ==
    \A f \in flights :
        /\ f.on <= serial /\ f.epoch <= epoch
        /\ state # "connected" => f.epoch < epoch
        /\ state = "connected" => (f.epoch = epoch <=> f.on = serial)

(* So is what a check saw, which is out of date once the master is given up.*)
Timely(r) ==
    r.seen # 0 => /\ r.epoch <= epoch
                  /\ state # "connected" => r.epoch < epoch
                  /\ r.epoch = epoch => r.seen = serial

EpochInv ==
    /\ RepairInv /\ FlightInv
    /\ \A t \in Tasks : Timely(task[t])
    /\ ProbeCountExact

Inv == Base /\ EpochInv

LEMMA QuietKeeps ==
    ASSUME Inv, Quiet
    PROVE  EpochInv'
<1>1. /\ UNCHANGED <<state, generation, epoch, failedProbes, flights, blame, serial>>
      /\ link' # "down" => link # "down"
  BY DEF Quiet, probeVars
<1>2. RepairInv'
  <2>1. ASSUME NEW t \in Tasks
        PROVE  /\ task'[t].pc \in {"stopping", "starting", "settling"} => state' = "reconnecting"
               /\ task'[t].pc = "adopting" => generation' = 0
               /\ task'[t].pc = "settling" => /\ blame' = 0 /\ serial' > 0
                                              /\ \A f \in flights' : f.on < serial'
    <3>1. task'[t].pc \in RepairSteps =>
             \/ task'[t].pc = task[t].pc
             \/ task'[t].pc = "starting" /\ task[t].pc \in {"stopping", "starting", "settling"}
      BY DEF Quiet
    <3> QED BY <1>1, <3>1, Places DEF Inv, EpochInv, RepairInv
  <2> QED BY <1>1, <2>1 DEF Inv, EpochInv, RepairInv
<1>3. FlightInv'
  BY <1>1 DEF Inv, EpochInv, FlightInv
<1>4. \A t \in Tasks : Timely(task[t])'
  BY <1>1 DEF Inv, EpochInv, Timely, Quiet
<1>5. ProbeCountExact'
  BY <1>1 DEF Inv, EpochInv, ProbeCountExact
<1> QED BY <1>2, <1>3, <1>4, <1>5 DEF EpochInv

(* The one that holds the lock, and what the others may be.                 *)
LEMMA Alone ==
    ASSUME Base, NEW t \in Tasks, Holds(t) \/ task[t].pc \in RepairSteps, Only(t)
    PROVE  /\ First(t)
           /\ \A u \in Tasks : u = t \/ (task'[u] = task[u] /\ task'[u].pc \notin RepairSteps)
BY FirstInLine DEF Base, Only

(* An adoption begins.                                                      *)
LEMMA TryToAdoptKeeps ==
    ASSUME Inv, NEW t \in Tasks, TryToAdopt(t), TaskType'
    PROVE  Inv'
<1>1. /\ Holds(t) /\ task[t].pc = "lock" /\ task[t].call = "connect" /\ generation = 0
      /\ epoch' = epoch + 1 /\ Goto(t, "adopting") /\ UNCHANGED lockq
      /\ UNCHANGED <<state, generation, backoff, attempt, failedProbes, flights, blame, link,
                     faults, serial>>
  BY DEF TryToAdopt, Connecting, Holds, At, connVars, probeVars
<1>2. task \in [Tasks -> Task] /\ Coherent(task[t]) /\ "adopting" \in Steps
  BY DEF Inv, Base, TaskType, Steps, ClientSteps, RepairSteps
<1>3. Moves(t) /\ task'[t].pc = "adopting"
  BY <1>1, <1>2, GotoMoves, Places
<1>4. /\ First(t)
      /\ \A u \in Tasks : u = t \/ (task'[u] = task[u] /\ task'[u].pc \notin RepairSteps)
  BY <1>1, <1>3, Alone DEF Inv, Moves
<1>5. ConnType'
  BY <1>1 DEF Inv, Base, ConnType
<1>6. LockInv'
  BY <1>1, <1>3, <1>4, QueueKept, Places DEF Inv, Base
<1>7. \A u \in Tasks : Coherent(task[u])'
  BY <1>3, <1>4 DEF Inv, Base, Moves, Coherent
<1>8. RepairInv'
  BY <1>1, <1>3, <1>4, Places DEF Inv, EpochInv, RepairInv
<1>9. FlightInv'
  BY <1>1 DEF Inv, EpochInv, RepairInv, FlightInv
<1>10. \A u \in Tasks : Timely(task[u])'
  <2>1. \A u \in Tasks : task'[u].seen # 0 =>
                            task'[u].seen = task[u].seen /\ task'[u].epoch = task[u].epoch
    BY <1>3, <1>4 DEF Moves
  <2>2. \A u \in Tasks : task'[u].seen # 0 => task'[u].epoch <= epoch /\ task'[u].epoch \in Nat
    BY <1>2, <2>1 DEF Inv, EpochInv, Timely, Task
  <2>3. epoch \in Nat /\ epoch' = epoch + 1
    BY <1>1 DEF Inv, Base, ConnType
  <2>4. \A u \in Tasks : task'[u].seen # 0 => task'[u].epoch < epoch' /\ task'[u].epoch <= epoch'
                                              /\ task'[u].epoch # epoch'
    BY <2>2, <2>3
  <2> QED BY <2>4 DEF Timely
<1>11. ProbeCountExact'
  BY <1>1 DEF Inv, EpochInv, RepairInv, ProbeCountExact
<1> QED BY <1>5, <1>6, <1>7, <1>8, <1>9, <1>10, <1>11 DEF Inv, Base, EpochInv

(* A master is given up.                                                    *)
LEMMA ReplacementKeeps ==
    ASSUME Inv, NEW t \in Tasks, Reconnect(t) \/ Repair(t), TaskType'
    PROVE  Inv'
<1>1. /\ epoch' = epoch + 1 /\ state' = "reconnecting" /\ Goto(t, "stopping") /\ UNCHANGED lockq
      /\ UNCHANGED <<generation, backoff, attempt, failedProbes, flights, blame, link,
                     faults, serial>>
  BY DEF Reconnect, Repair, BeginReplacement, probeVars
<1>2. task \in [Tasks -> Task] /\ Coherent(task[t]) /\ "stopping" \in Steps
  BY DEF Inv, Base, TaskType, Steps, ClientSteps, RepairSteps
<1>3. (Holds(t) /\ task[t].pc = "lock") \/ task[t].pc = "adopting"
  BY DEF Reconnect, Repair, Connecting, Deciding, Holds, At
<1>4. Moves(t) /\ task'[t].pc = "stopping"
  BY <1>1, <1>2, <1>3, GotoMoves, Places
<1>5. /\ First(t)
      /\ \A u \in Tasks : u = t \/ (task'[u] = task[u] /\ task'[u].pc \notin RepairSteps)
  BY <1>3, <1>4, Alone, Places DEF Inv, Moves
<1>6. ConnType'
  BY <1>1 DEF Inv, Base, ConnType, States
<1>7. LockInv'
  BY <1>1, <1>3, <1>4, <1>5, QueueKept, Places DEF Inv, Base
<1>8. \A u \in Tasks : Coherent(task[u])'
  BY <1>4, <1>5 DEF Inv, Base, Moves, Coherent
<1>9. RepairInv'
  BY <1>1, <1>4, <1>5, Places DEF Inv, EpochInv, RepairInv
<1>10. FlightInv'
  <2>1. \A f \in flights : f.on <= serial /\ f.epoch <= epoch /\ f.epoch \in Nat
    BY DEF Inv, Base, ConnType, EpochInv, FlightInv
  <2>2. epoch \in Nat
    BY DEF Inv, Base, ConnType
  <2> QED BY <1>1, <2>1, <2>2 DEF FlightInv
<1>11. \A u \in Tasks : Timely(task[u])'
  <2>1. \A u \in Tasks : task'[u].seen # 0 =>
                            task'[u].seen = task[u].seen /\ task'[u].epoch = task[u].epoch
    BY <1>4, <1>5 DEF Moves
  <2>2. \A u \in Tasks : task'[u].seen # 0 => task'[u].epoch <= epoch /\ task'[u].epoch \in Nat
    BY <1>2, <2>1 DEF Inv, EpochInv, Timely, Task
  <2>3. epoch \in Nat /\ epoch' = epoch + 1
    BY <1>1 DEF Inv, Base, ConnType
  <2>4. \A u \in Tasks : task'[u].seen # 0 => task'[u].epoch < epoch' /\ task'[u].epoch <= epoch'
                                              /\ task'[u].epoch # epoch'
    BY <2>2, <2>3
  <2> QED BY <2>4 DEF Timely
<1>12. ProbeCountExact'
  BY <1>1 DEF ProbeCountExact
<1> QED BY <1>6, <1>7, <1>8, <1>9, <1>10, <1>11, <1>12 DEF Inv, Base, EpochInv

(* A new master answers.                                                    *)
LEMMA ComeUpKeeps ==
    ASSUME Inv, NEW t \in Tasks, ComeUp(t), TaskType'
    PROVE  Inv'
<1>1. /\ task[t].pc = "starting" /\ Goto(t, "settling") /\ UNCHANGED lockq
      /\ link' = "up" /\ serial' = serial + 1 /\ blame' = 0
      /\ UNCHANGED <<epoch, state, generation, backoff, attempt, failedProbes, flights, faults>>
  BY DEF ComeUp, At, connVars
<1>2. /\ task \in [Tasks -> Task] /\ Coherent(task[t]) /\ "settling" \in Steps
      /\ state = "reconnecting" /\ serial \in Nat
  BY <1>1 DEF Inv, Base, TaskType, ConnType, Steps, ClientSteps, RepairSteps, EpochInv, RepairInv
<1>3. Moves(t) /\ task'[t].pc = "settling"
  BY <1>1, <1>2, GotoMoves, Places
<1>4. /\ First(t)
      /\ \A u \in Tasks : u = t \/ (task'[u] = task[u] /\ task'[u].pc \notin RepairSteps)
  BY <1>1, <1>3, Alone, Places DEF Inv, Moves
<1>5. ConnType'
  BY <1>1 DEF Inv, Base, ConnType, Links
<1>6. LockInv'
  BY <1>1, <1>3, <1>4, QueueKept, Places DEF Inv, Base
<1>7. \A u \in Tasks : Coherent(task[u])'
  BY <1>3, <1>4 DEF Inv, Base, Moves, Coherent
<1>8. \A f \in flights : f.on <= serial /\ f.on \in Nat /\ f.epoch < epoch /\ f.epoch <= epoch
  BY <1>2 DEF Inv, Base, ConnType, EpochInv, FlightInv
<1>9. RepairInv'
  <2>1. \A f \in flights' : f.on < serial'
    BY <1>1, <1>2, <1>8
  <2>2. serial' > 0 /\ state' = "reconnecting"
    BY <1>1, <1>2
  <2> QED BY <1>1, <1>3, <1>4, <2>1, <2>2, Places DEF Inv, EpochInv, RepairInv
<1>10. FlightInv'
  BY <1>1, <1>2, <1>8 DEF FlightInv
<1>11. \A u \in Tasks : Timely(task[u])'
  <2>1. \A u \in Tasks : task'[u].seen # 0 =>
                            task'[u].seen = task[u].seen /\ task'[u].epoch = task[u].epoch
    BY <1>3, <1>4 DEF Moves
  <2>2. \A u \in Tasks : task'[u].seen # 0 => task'[u].epoch < epoch /\ task'[u].epoch \in Nat
    BY <1>2, <2>1 DEF Inv, EpochInv, Timely, Task
  <2>3. epoch \in Nat /\ epoch' = epoch
    BY <1>1 DEF Inv, Base, ConnType
  <2> QED BY <2>2, <2>3 DEF Timely
<1>12. ProbeCountExact'
  BY <1>1, <1>2 DEF ProbeCountExact
<1> QED BY <1>5, <1>6, <1>7, <1>9, <1>10, <1>11, <1>12 DEF Inv, Base, EpochInv

(* The repair is over, one way or the other: the lock is released, and what *)
(* was seen or asked before it stays out of date.                           *)
LEMMA RepairEndKeeps ==
    ASSUME Inv, NEW t \in Tasks, task[t].pc \in RepairSteps, Moves(t), task'[t].pc \notin Waiting,
           Release, state # "connected", UNCHANGED <<epoch, flights, blame, serial>>,
           TaskType', ConnType',
           link' # "down" => link # "down",
           \/ state' # "connected" /\ UNCHANGED <<generation, failedProbes>>
           \/ /\ state' = "connected" /\ generation' = generation + 1 /\ failedProbes' = 0
              /\ link # "down" /\ blame = 0 /\ \A f \in flights : f.on < serial
    PROVE  Inv'
<1>1. /\ First(t)
      /\ \A u \in Tasks : u = t \/ (task'[u] = task[u] /\ task'[u].pc \notin RepairSteps)
  BY Alone DEF Inv, Moves
<1>2. LockInv'
  BY <1>1, QueueReleased DEF Inv, Base, Moves
<1>3. \A u \in Tasks : Coherent(task[u])'
  BY <1>1 DEF Inv, Base, Moves, Coherent
<1>4. \A u \in Tasks : task'[u].pc \notin RepairSteps
  BY <1>1, Places
<1>5. RepairInv'
  <2>1. generation \in Nat /\ serial \in Nat
    BY DEF Inv, Base, ConnType
  <2>2. generation' = 0 => state' # "connected" /\ generation = 0
    BY <2>1
  <2>3. link' # "down" \/ state' = "connected" => serial > 0
    BY DEF Inv, EpochInv, RepairInv
  <2> QED BY <1>4, <2>2, <2>3, Places DEF Inv, EpochInv, RepairInv
<1>6. FlightInv'
  <2>1. \A f \in flights : /\ f.on <= serial /\ f.epoch < epoch /\ f.epoch <= epoch
                           /\ f.epoch \in Nat /\ f.on \in Nat
    BY DEF Inv, Base, ConnType, EpochInv, FlightInv
  <2>2. epoch \in Nat /\ serial \in Nat
    BY DEF Inv, Base, ConnType
  <2> QED BY <2>1, <2>2 DEF FlightInv
<1>7. \A u \in Tasks : Timely(task[u])'
  <2>1. \A u \in Tasks : task'[u].seen # 0 =>
                            task'[u].seen = task[u].seen /\ task'[u].epoch = task[u].epoch
    BY <1>1 DEF Moves
  <2>2. \A u \in Tasks : task'[u].seen # 0 => task'[u].epoch < epoch /\ task'[u].epoch \in Nat
    BY <2>1 DEF Inv, Base, TaskType, EpochInv, Timely, Task
  <2>3. epoch \in Nat /\ epoch' = epoch
    BY DEF Inv, Base, ConnType
  <2> QED BY <2>2, <2>3 DEF Timely
<1>8. ProbeCountExact'
  BY DEF ProbeCountExact
<1> QED BY <1>2, <1>3, <1>5, <1>6, <1>7, <1>8 DEF Inv, Base, EpochInv

LEMMA EndMoves ==
    ASSUME Base, NEW t \in Tasks, task[t].pc \in RepairSteps,
           \/ \E v, s : CheckEnds(t, v, s)
           \/ \E a, s : Return(t, a, s)
           \/ task[t].call # "check" /\ \E s : ConnectReturns(t, s, generation + 1)
    PROVE  Moves(t) /\ task'[t].pc \notin Waiting
<1>1. /\ (Resting \cup {"launch", "check", "queued"}) \cap Waiting = {}
      /\ task \in [Tasks -> Task] /\ Coherent(task[t]) /\ generation + 1 \in Nat
  BY Places DEF Resting, Base, TaskType, ConnType
<1>2. CASE \E v, s : CheckEnds(t, v, s)
  BY <1>1, <1>2, CheckEndsMoves
<1>3. CASE \E a, s : Return(t, a, s)
  BY <1>1, <1>3, ReturnMoves
<1>4. CASE task[t].call # "check" /\ \E s : ConnectReturns(t, s, generation + 1)
  BY <1>1, <1>4, ConnectReturnsMoves, Places
<1> QED BY <1>2, <1>3, <1>4

LEMMA AdoptKeeps ==
    ASSUME Inv, NEW t \in Tasks, Adopt(t), TaskType'
    PROVE  Inv'
<1>1. /\ task[t].pc = "adopting" /\ link = "up" /\ Release
      /\ ConnectReturns(t, "connected", generation + 1)
      /\ state' = "connected" /\ generation' = generation + 1 /\ failedProbes' = 0
      /\ backoff' = FALSE /\ attempt' = 0 /\ UNCHANGED <<epoch, flights, blame, link, faults, serial>>
  BY DEF Adopt, At, RecordConnected
<1>2. /\ task[t].call = "connect" /\ state # "connected" /\ blame = 0
      /\ \A f \in flights : f.on < serial
  BY <1>1 DEF Inv, Base, Coherent, EpochInv, RepairInv
<1>3. Moves(t) /\ task'[t].pc \notin Waiting
  BY <1>1, <1>2, EndMoves, Places DEF Inv
<1>4. ConnType'
  <2>1. generation' \in Nat /\ attempt' \in 0..(ConnectionAttempts - 1) /\ failedProbes' \in Nat
    BY <1>1, NumbersAssumption DEF Inv, Base, ConnType
  <2>2. backoff' \in BOOLEAN /\ state' \in States
    BY <1>1 DEF States
  <2> QED BY <1>1, <2>1, <2>2 DEF Inv, Base, ConnType
<1>5. /\ task[t].pc \in RepairSteps /\ state # "connected" /\ link # "down"
      /\ UNCHANGED <<epoch, flights, blame, serial, link>>
  BY <1>1, <1>2, Places
<1> QED BY <1>1, <1>2, <1>3, <1>4, <1>5, RepairEndKeeps

LEMMA SettleKeeps ==
    ASSUME Inv, NEW t \in Tasks, Settle(t), TaskType'
    PROVE  Inv'
<1>1. /\ task[t].pc = "settling" /\ link = "up" /\ Release
      /\ \/ CheckEnds(t, "replaced", "connected")
         \/ task[t].call # "check" /\ ConnectReturns(t, "connected", generation + 1)
      /\ state' = "connected" /\ generation' = generation + 1 /\ failedProbes' = 0
      /\ backoff' = FALSE /\ attempt' = 0 /\ UNCHANGED <<epoch, flights, blame, link, faults, serial>>
  BY DEF Settle, At, RecordConnected
<1>2. /\ state = "reconnecting" /\ blame = 0 /\ \A f \in flights : f.on < serial
  BY <1>1 DEF Inv, EpochInv, RepairInv
<1>3. Moves(t) /\ task'[t].pc \notin Waiting
  BY <1>1, EndMoves, Places DEF Inv
<1>4. ConnType'
  <2>1. generation' \in Nat /\ attempt' \in 0..(ConnectionAttempts - 1) /\ failedProbes' \in Nat
    BY <1>1, NumbersAssumption DEF Inv, Base, ConnType
  <2>2. backoff' \in BOOLEAN /\ state' \in States
    BY <1>1 DEF States
  <2> QED BY <1>1, <2>1, <2>2 DEF Inv, Base, ConnType
<1>5. /\ task[t].pc \in RepairSteps /\ state # "connected" /\ link # "down"
      /\ UNCHANGED <<epoch, flights, blame, serial, link>>
  BY <1>1, <1>2, Places
<1> QED BY <1>1, <1>2, <1>3, <1>4, <1>5, RepairEndKeeps

LEMMA GivesInKeeps ==
    ASSUME Inv, NEW t \in Tasks, NEW r \in Reasons, GivesIn(t, r), TaskType'
    PROVE  Inv'
<1>1. /\ task[t].pc \in {"starting", "settling"} /\ link' = "down" /\ Release
      /\ CheckEnds(t, "raised", r) \/ Return(t, "unavailable", r)
      /\ state' = r /\ backoff' = TRUE /\ attempt' = 0
      /\ UNCHANGED <<generation, epoch, failedProbes, flights, blame, serial>>
      /\ faults' \in 0..MaxFaults
  BY DEF GivesIn, RecordFailure, ConnectRaises, probeVars
<1>2. state = "reconnecting" /\ r # "connected"
  BY <1>1 DEF Inv, EpochInv, RepairInv, Reasons
<1>3. Moves(t) /\ task'[t].pc \notin Waiting
  BY <1>1, EndMoves, Places DEF Inv
<1>4. ConnType'
  BY <1>1, NumbersAssumption DEF Inv, Base, ConnType, States, Links, Reasons
<1> QED BY <1>1, <1>2, <1>3, <1>4, RepairEndKeeps, Places

(* A check begins to wait for a probe of the master in use.                 *)
LEMMA ProbeKeeps ==
    ASSUME Inv, NEW t \in Tasks, Probe(t), TaskType'
    PROVE  Inv'
<1> DEFINE new == [epoch |-> epoch, on |-> serial]
<1>1. /\ task[t].pc = "check" /\ state = "connected" /\ UNCHANGED lockq
      /\ flights' = IF \E f \in flights : f.epoch = epoch THEN flights ELSE flights \cup {new}
      /\ UNCHANGED <<epoch, state, generation, backoff, attempt, failedProbes, blame, link,
                     faults, serial>>
  BY DEF Probe, At, connVars
<1>2. /\ epoch \in Nat /\ serial \in Nat /\ task \in [Tasks -> Task] /\ Coherent(task[t])
  BY DEF Inv, Base, TaskType, ConnType
<1>3. /\ Only(t) /\ task'[t].pc = "probing" /\ task'[t].epoch = epoch /\ task'[t].seen = serial
      /\ task'[t].kind = task[t].kind /\ task'[t].call = task[t].call
      /\ task'[t].outcome = task[t].outcome
  BY <1>2, ProbeTask
<1>4. \A u \in Tasks : u = t \/ task'[u] = task[u]
  BY <1>3 DEF Only
<1>5. serial > 0 /\ generation # 0
  BY <1>1 DEF Inv, EpochInv, RepairInv
<1>6. \A u \in Tasks : Coherent(task[u])'
  <2>1. Coherent(task'[t])
    BY <1>1, <1>2, <1>3, <1>5, Places DEF Coherent
  <2>2. \A u \in Tasks : Coherent(task'[u])
    BY <1>4, <2>1 DEF Inv, Base
  <2> QED BY <2>2 DEF Coherent
<1>7. LockInv'
  BY <1>1, <1>3, <1>4, QueueKept, Places DEF Inv, Base
<1>8. flights' \subseteq flights \cup {new} /\ new \in [epoch : Nat, on : Nat]
      /\ new.epoch = epoch /\ new.on = serial
  BY <1>1, <1>2
<1> HIDE DEF new
<1>9. ConnType'
  BY <1>1, <1>8 DEF Inv, Base, ConnType
<1>10. RepairInv'
  <2>1. \A u \in Tasks : task'[u].pc \notin {"stopping", "starting", "settling"}
    BY <1>1, <1>3, <1>4 DEF Inv, EpochInv, RepairInv
  <2>2. \A u \in Tasks : task'[u].pc # "adopting"
    BY <1>3, <1>4, <1>5 DEF Inv, EpochInv, RepairInv
  <2> QED BY <1>1, <1>5, <2>1, <2>2 DEF RepairInv
<1>11. FlightInv'
  BY <1>1, <1>2, <1>8 DEF Inv, EpochInv, FlightInv
<1>12. \A u \in Tasks : Timely(task[u])'
  <2>1. Timely(task[t])'
    BY <1>1, <1>2, <1>3 DEF Timely
  <2> QED BY <1>1, <1>4, <2>1 DEF Inv, EpochInv, Timely
<1>13. ProbeCountExact'
  BY <1>1 DEF Inv, EpochInv, ProbeCountExact
<1> QED BY <1>6, <1>7, <1>9, <1>10, <1>11, <1>12, <1>13 DEF Inv, Base, EpochInv

(* A probe ends, and counts for the master it was sent to only.             *)
LEMMA ProbeEndsKeeps ==
    ASSUME Inv, NEW f \in flights, NEW o \in Outcomes, ProbeEnds(f, o), TaskType'
    PROVE  Inv'
<1>1. /\ flights' = flights \ {f}
      /\ failedProbes' = IF f.epoch # epoch THEN failedProbes
                         ELSE IF o = "ok" THEN 0 ELSE failedProbes + 1
      /\ blame' = IF f.on # serial THEN blame ELSE IF o = "ok" THEN 0 ELSE blame + 1
      /\ faults' = faults \/ (faults' = faults + 1 /\ faults < MaxFaults)
      /\ UNCHANGED <<lockq, epoch, state, generation, backoff, attempt, link, serial>>
  BY DEF ProbeEnds, CrowdedOut, connVars
<1>2. /\ failedProbes \in Nat /\ blame \in Nat /\ faults \in 0..MaxFaults /\ MaxFaults \in Nat
      /\ task \in [Tasks -> Task]
  BY NumbersAssumption DEF Inv, Base, ConnType, TaskType
<1>3. /\ \A t \in Tasks : ~Hears(t, f) => task'[t] = task[t]
      /\ \A t \in Tasks : Hears(t, f) =>
            /\ task'[t].pc = "probed" /\ task'[t].outcome = o
            /\ task'[t].kind = task[t].kind /\ task'[t].call = task[t].call
            /\ task'[t].epoch = task[t].epoch /\ task'[t].seen = task[t].seen
            /\ task[t].pc = "probing"
  BY <1>2, ProbeEndsTask DEF Hears, At
<1>4. ConnType'
  <2>1. failedProbes' \in Nat /\ blame' \in Nat /\ faults' \in 0..MaxFaults
    BY <1>1, <1>2
  <2> QED BY <1>1, <2>1 DEF Inv, Base, ConnType
<1>5. \A u \in Tasks : Coherent(task[u])'
  <2>1. ASSUME NEW u \in Tasks, Hears(u, f) PROVE Coherent(task'[u])
    BY <1>3, <2>1, Places DEF Inv, Base, Coherent
  <2>2. \A u \in Tasks : Coherent(task'[u])
    BY <1>3, <2>1 DEF Inv, Base
  <2> QED BY <2>2 DEF Coherent
<1>6. LockInv'
  BY <1>1, <1>3, QueueKept, Places DEF Inv, Base
<1>7. RepairInv'
  <2>1. \A u \in Tasks : task'[u].pc \in RepairSteps => task'[u].pc = task[u].pc
    BY <1>3, Places
  <2>2. \A u \in Tasks : task[u].pc = "settling" => blame' = 0
    BY <1>1 DEF Inv, Base, ConnType, EpochInv, RepairInv
  <2> QED BY <1>1, <2>1, <2>2, Places DEF Inv, EpochInv, RepairInv
<1>8. FlightInv'
  BY <1>1 DEF Inv, EpochInv, FlightInv
<1>9. \A u \in Tasks : Timely(task[u])'
  <2>1. \A u \in Tasks : task'[u].seen = task[u].seen /\ task'[u].epoch = task[u].epoch
    BY <1>3
  <2> QED BY <1>1, <2>1 DEF Inv, EpochInv, Timely
<1>10. ProbeCountExact'
  <2>1. state = "connected" => (f.epoch = epoch <=> f.on = serial)
    BY DEF Inv, EpochInv, FlightInv
  <2> QED BY <1>1, <2>1 DEF Inv, EpochInv, ProbeCountExact
<1> QED BY <1>4, <1>5, <1>6, <1>7, <1>8, <1>9, <1>10 DEF Inv, Base, EpochInv

-----------------------------------------------------------------------------
(* The invariant holds at the start, and every step keeps it.               *)

LEMMA InvInit == Init => Inv
<1> SUFFICES ASSUME Init PROVE Inv
  OBVIOUS
<1>0. /\ "idle" \in Steps /\ "none" \notin {"ok", "slow"}
  BY FreshTask
<1>1. ASSUME NEW t \in Tasks
      PROVE  /\ task[t] \in Task /\ task[t].call = "none" /\ task[t].kind \in {"none", "maintain"}
             /\ task[t].pc \in {"idle", "asleep", "parked"} /\ task[t].outcome = "none"
             /\ task[t].seen = 0
  <2>1. CASE t = Maintainer
    BY <2>1, MaintainTask DEF Init
  <2>2. CASE t # Maintainer
    <3>1. task[t] = Fresh("none", "idle")
      BY <2>2 DEF Init
    <3> QED BY <1>0, <3>1, FreshTask
  <2> QED BY <2>1, <2>2
<1>2. TaskType
  <2>1. task \in [Tasks -> Task]
    BY <1>1 DEF Init
  <2> QED BY <2>1 DEF Init, TaskType, Fates
<1>3. ConnType
  <2>1. /\ generation = 0 /\ epoch = 0 /\ attempt = 0 /\ failedProbes = 0 /\ blame = 0 /\ faults = 0
        /\ flights = {} /\ serial \in {0, 1} /\ state = "offline" /\ backoff = FALSE
        /\ link \in {"up", "down"}
    BY DEF Init
  <2>2. /\ generation \in Nat /\ epoch \in Nat /\ attempt \in 0..(ConnectionAttempts - 1)
        /\ failedProbes \in Nat /\ blame \in Nat /\ faults \in 0..MaxFaults /\ serial \in Nat
    BY <2>1, NumbersAssumption
  <2>3. state \in States /\ link \in Links /\ flights \subseteq [epoch : Nat, on : Nat]
    BY <2>1 DEF States, Links
  <2> QED BY <2>1, <2>2, <2>3 DEF ConnType
<1>4. LockInv
  <2>1. lockq = <<>> /\ lockq \in Seq(Tasks)
    BY DEF Init
  <2>2. DOMAIN lockq = {}
    BY <2>1
  <2> QED BY <1>1, <2>1, <2>2, Places DEF LockInv, Once, StandsIn
<1>5. \A t \in Tasks : Coherent(task[t])
  BY <1>0, <1>1, Places DEF Coherent
<1>6. RepairInv
  <2>1. state # "connected" /\ flights = {} /\ blame = 0 /\ (link # "down" => serial > 0)
    BY DEF Init
  <2>2. \A t \in Tasks : task[t].pc \notin RepairSteps
    BY <1>1, Places
  <2> QED BY <2>1, <2>2, Places DEF RepairInv
<1>7. FlightInv /\ ProbeCountExact /\ \A t \in Tasks : Timely(task[t])
  BY <1>1 DEF Init, FlightInv, ProbeCountExact, Timely
<1> QED BY <1>2, <1>3, <1>4, <1>5, <1>6, <1>7 DEF Inv, Base, EpochInv

(* The other steps.                                                         *)
Loud(t) ==
    \/ TryToAdopt(t) \/ Reconnect(t) \/ Repair(t) \/ ComeUp(t)
    \/ Adopt(t) \/ Settle(t) \/ (\E r \in Reasons : GivesIn(t, r))
    \/ Probe(t)

LEMMA StepCases ==
    ASSUME Inv, [Next]_vars
    PROVE  \/ Quiet /\ LockInv' /\ ConnType'
           \/ \E t \in Tasks : Loud(t)
           \/ \E f \in flights, o \in Outcomes : ProbeEnds(f, o)
<1>1. ASSUME NEW c \in Clients,
             \/ \E k \in Kinds[c] : Arrive(c, k)
             \/ Admit(c) \/ Launch(c) \/ LaunchFails(c) \/ CommandExits(c) \/ Report(c)
             \/ Timeout(c) \/ Cancel(c)
      PROVE  Quiet /\ LockInv' /\ ConnType'
  BY <1>1, ClientsQuiet DEF Inv
<1>2. ASSUME NEW t \in Tasks, Advance(t) \/ \E r \in Reasons : StartFails(t, r)
      PROVE  Loud(t) \/ (Quiet /\ LockInv' /\ ConnType')
  <2>1. CASE \/ Ensure(t) \/ AlreadyConnected(t) \/ RefuseToConnect(t) \/ Stop(t)
             \/ SeeReplaced(t) \/ SkipProbe(t) \/ SeeHealthy(t) \/ AskForRepair(t)
             \/ AcceptRepair(t) \/ Tolerate(t) \/ LeaveToBackoff(t) \/ Repeats(t)
    BY <2>1, TasksQuiet DEF Inv
  <2>2. CASE SettlingFails(t) \/ \E r \in Reasons : StartFails(t, r)
    BY <2>1, <2>2, FailureCases DEF Inv, Base, Loud
  <2> QED BY <1>2, <2>1, <2>2 DEF Advance, Loud
<1>3. CASE \/ WakeUp \/ TimerFires \/ BackoffEnds \/ MasterDies \/ HostCalms
           \/ (\E l \in {"busy", "broken"} : Degrade(l)) \/ UNCHANGED vars
  BY <1>3, WorldQuiet DEF Inv
<1> QED BY <1>1, <1>2, <1>3 DEF Next

LEMMA InvStep == Inv /\ [Next]_vars => Inv'
<1> SUFFICES ASSUME Inv, [Next]_vars PROVE Inv'
  OBVIOUS
<1>1. TaskType'
  BY StepTaskType DEF Inv, Base
<1>2. CASE Quiet /\ LockInv' /\ ConnType'
  <2>1. \A u \in Tasks : Coherent(task[u])'
    BY <1>2 DEF Quiet, Coherent
  <2> QED BY <1>1, <1>2, <2>1, QuietKeeps DEF Inv, Base
<1>3. ASSUME NEW t \in Tasks, Loud(t) PROVE Inv'
  <2>1. CASE TryToAdopt(t) \/ Reconnect(t) \/ Repair(t)
    BY <1>1, <2>1, TryToAdoptKeeps, ReplacementKeeps
  <2>2. CASE ComeUp(t) \/ Probe(t)
    BY <1>1, <2>2, ComeUpKeeps, ProbeKeeps
  <2>3. CASE Adopt(t) \/ Settle(t) \/ \E r \in Reasons : GivesIn(t, r)
    BY <1>1, <2>3, AdoptKeeps, SettleKeeps, GivesInKeeps
  <2> QED BY <1>3, <2>1, <2>2, <2>3 DEF Loud
<1>4. ASSUME NEW f \in flights, NEW o \in Outcomes, ProbeEnds(f, o) PROVE Inv'
  BY <1>1, <1>4, ProbeEndsKeeps
<1> QED BY <1>2, <1>3, <1>4, StepCases

LEMMA AlwaysInv == Spec => []Inv
BY InvInit, InvStep, PTL DEF Spec

(* Every variable of the supervisor keeps its type: in particular no repair *)
(* makes more attempts than the settings allow.                             *)
THEOREM SupervisorTypeCorrect == Spec => []TypeOK
<1>1. Inv => TypeOK
  <2> SUFFICES ASSUME Inv PROVE TypeOK
    OBVIOUS
  <2>1. Contract!Answers = Verdicts
    BY DEF Contract!Answers, Verdicts
  <2>2. /\ task \in [Tasks -> Task] /\ answer \in [Clients -> Verdicts \cup {"none"}]
        /\ fate \in [Clients -> Fates] /\ wake \in BOOLEAN /\ lockq \in Seq(Tasks)
    BY DEF Inv, Base, TaskType, LockInv
  <2>3. ConnType
    BY DEF Inv, Base
  <2> QED BY <2>1, <2>2, <2>3 DEF TypeOK, ConnType, Task, Steps, Fates
<1> QED BY <1>1, AlwaysInv, PTL

(* While connected, the count of failed probes is that of the master in     *)
(* use.  The count follows epochs and the history serial numbers: a probe   *)
(* belongs to the present epoch exactly if it was sent to the present       *)
(* master.                                                                  *)
THEOREM CountIsOfTheMasterInUse == Spec => []ProbeCountExact
<1>1. Inv => ProbeCountExact
  BY DEF Inv, EpochInv
<1> QED BY <1>1, AlwaysInv, PTL

(* Of all the tasks that saw failures, wait, are cancelled or reconnect, at *)
(* most one is starting or stopping a master at any moment: the first of    *)
(* those that wait for the repair lock.                                     *)
THEOREM OneRepairAtATime ==
    Spec => [](\A t, u \in Tasks : Holds(t) \/ task[t].pc \in RepairSteps =>
                                      (task[u].pc \in RepairSteps => u = t))
<1>1. Inv => \A t, u \in Tasks : Holds(t) \/ task[t].pc \in RepairSteps =>
                                    (task[u].pc \in RepairSteps => u = t)
  BY FirstInLine DEF Inv, Base
<1> QED BY <1>1, AlwaysInv, PTL

-----------------------------------------------------------------------------
(* Who gives a master up, and on what grounds.                              *)

LEMMA LoudMoves ==
    ASSUME Inv, NEW t \in Tasks, Loud(t)
    PROVE  /\ Only(t)
           /\ \/ TryToAdopt(t) /\ task'[t].pc = "adopting"
              \/ (Reconnect(t) \/ Repair(t)) /\ task'[t].pc = "stopping"
              \/ ComeUp(t) /\ task'[t].pc = "settling"
              \/ Probe(t) /\ task'[t].pc = "probing"
              \/ /\ Adopt(t) \/ Settle(t) \/ \E r \in Reasons : GivesIn(t, r)
                 /\ task'[t].pc \notin Waiting
<1>0. /\ task \in [Tasks -> Task] /\ epoch \in Nat /\ serial \in Nat /\ Base
      /\ {"adopting", "stopping", "settling"} \subseteq Steps
  BY DEF Inv, Base, TaskType, ConnType, Steps, ClientSteps, RepairSteps
<1>1. \A p \in Steps : Goto(t, p) => Only(t) /\ task'[t].pc = p
  BY <1>0, GotoTask
<1>2. CASE TryToAdopt(t) \/ Reconnect(t) \/ Repair(t) \/ ComeUp(t)
  BY <1>0, <1>1, <1>2 DEF TryToAdopt, Reconnect, Repair, BeginReplacement, ComeUp
<1>3. CASE Probe(t)
  BY <1>0, <1>3, ProbeTask
<1>4. CASE Adopt(t) \/ Settle(t) \/ \E r \in Reasons : GivesIn(t, r)
  <2>1. task[t].pc \in RepairSteps
    BY <1>4, Places DEF Adopt, Settle, GivesIn, At
  <2>2. \/ \E v, s : CheckEnds(t, v, s)
        \/ \E a, s : Return(t, a, s)
        \/ task[t].call # "check" /\ \E s : ConnectReturns(t, s, generation + 1)
    <3>1. Adopt(t) => task[t].call = "connect"
      BY <1>0 DEF Adopt, At, Base, Coherent
    <3> QED BY <1>4, <3>1 DEF Adopt, Settle, GivesIn, ConnectRaises
  <2> QED BY <1>0, <1>4, <2>1, <2>2, EndMoves DEF Moves
<1> QED BY <1>2, <1>3, <1>4 DEF Loud

LEMMA WhoRepairs ==
    ASSUME Inv, [Next]_vars, NEW t \in Tasks, task[t].pc = "lock",
           task'[t].pc \in {"adopting", "stopping"}
    PROVE  \/ TryToAdopt(t) /\ task'[t].pc = "adopting"
           \/ (Reconnect(t) \/ Repair(t)) /\ task'[t].pc = "stopping"
<1>1. task'[t].pc \in RepairSteps /\ task'[t].pc # "starting" /\ task'[t].pc # task[t].pc
      /\ task'[t] # task[t]
  BY Places
<1>2. ~Quiet
  BY <1>1 DEF Quiet
<1>3. ASSUME NEW u \in Tasks, Loud(u)
      PROVE  \/ TryToAdopt(t) /\ task'[t].pc = "adopting"
             \/ (Reconnect(t) \/ Repair(t)) /\ task'[t].pc = "stopping"
  <2>1. u = t
    BY <1>1, <1>3, LoudMoves DEF Only
  <2> QED BY <1>3, <2>1, LoudMoves, Places
<1>4. ASSUME NEW f \in flights, NEW o \in Outcomes, ProbeEnds(f, o) PROVE FALSE
  <2>1. ~Hears(t, f)
    BY DEF Hears, At
  <2> QED BY <1>1, <1>4, <2>1, ProbeEndsTask DEF Inv, Base, TaskType
<1> QED BY <1>2, <1>3, <1>4, StepCases

(* The grounds of a check that gives a master up: no repair has begun since *)
(* it looked, and what it saw cannot be borne.                              *)
LEMMA GroundsOfACheck ==
    ASSUME Inv, [Next]_vars, NEW t \in Tasks, GivesUp(t), task[t].call = "check"
    PROVE  /\ task[t].epoch = epoch /\ ~Tolerable(t)
           /\ state = "connected" \/ ~backoff
<1>1. Reconnect(t) \/ Repair(t)
  BY WhoRepairs DEF GivesUp
<1>2. ~Reconnect(t)
  BY DEF Reconnect, Connecting, GivesUp, At
<1> QED BY <1>1, <1>2 DEF Repair, RepairBegun

(* A check that probed one master never gives up the next one.              *)
THEOREM ChecksSpareSuccessors == Spec => SuccessorSpared
<1>1. Inv /\ [Next]_vars => [\A t \in Tasks :
          GivesUp(t) /\ task[t].call = "check" /\ task[t].seen # 0 => task[t].seen = serial]_vars
  BY GroundsOfACheck DEF Inv, EpochInv, Timely
<1> QED BY <1>1, AlwaysInv, PTL DEF Spec, SuccessorSpared

(* A master that answers slowly is given up only after that many failed     *)
(* probes of it in a row.                                                   *)
THEOREM SlowMastersAreKept == Spec => SlowMasterKept
<1>1. ASSUME Inv, [Next]_vars, NEW t \in Tasks, GivesUp(t), task[t].call = "check",
             task[t].outcome = "slow", Answers
      PROVE  blame >= ProbeFailures
  <2>1. task[t].epoch = epoch /\ ~(failedProbes < ProbeFailures)
    BY <1>1, GroundsOfACheck DEF Tolerable
  <2>2. task[t].seen # 0
    BY <1>1 DEF Inv, Base, Coherent
  <2>3. epoch \in Nat /\ failedProbes \in Nat /\ ProbeFailures \in Nat
    BY <1>1, NumbersAssumption DEF Inv, Base, ConnType
  <2>4. state = "connected"
    BY <1>1, <2>1, <2>2, <2>3 DEF Inv, EpochInv, Timely
  <2>5. failedProbes = blame
    BY <1>1, <2>4 DEF Inv, EpochInv, ProbeCountExact
  <2> QED BY <2>1, <2>3, <2>5
<1>2. Inv /\ [Next]_vars => [\A t \in Tasks :
          GivesUp(t) /\ task[t].call = "check" /\ task[t].outcome = "slow" /\ Answers
          => blame >= ProbeFailures]_vars
  BY <1>1
<1> QED BY <1>2, AlwaysInv, PTL DEF Spec, SlowMasterKept

(* After a failed repair only the user tries again before the backoff ends. *)
THEOREM BackoffIsRespected == Spec => BackoffRespected
<1>1. ASSUME Inv, [Next]_vars, NEW t \in Tasks, task[t].pc = "lock",
             task'[t].pc \in {"adopting", "stopping"}, state # "connected", backoff
      PROVE  task[t].kind \in Reconnects
  <2>1. CASE TryToAdopt(t)
    BY <1>1, <2>1 DEF TryToAdopt, BacksOff, Reconnects
  <2>2. CASE Reconnect(t)
    <3>1. Connecting(t, "force") => task[t].kind = "force"
      BY <1>1 DEF Inv, Base, Coherent, Connecting
    <3> QED BY <1>1, <2>2, <3>1 DEF Reconnect, BacksOff, Reconnects, At
  <2>3. ~Repair(t)
    BY <1>1 DEF Repair
  <2> QED BY <1>1, <2>1, <2>2, <2>3, WhoRepairs
<1>2. Inv /\ [Next]_vars => [\A t \in Tasks :
          /\ task[t].pc = "lock" /\ task'[t].pc \in {"adopting", "stopping"}
          /\ state # "connected" /\ backoff
          => task[t].kind \in Reconnects]_vars
  BY <1>1
<1> QED BY <1>2, AlwaysInv, PTL DEF Spec, BackoffRespected

-----------------------------------------------------------------------------
(* What a check is told, and what clients are told.                         *)

LEMMA TasksOnly ==
    ASSUME Inv, NEW t \in Tasks, Advance(t) \/ \E r \in Reasons : StartFails(t, r)
    PROVE  Only(t)
<1>1. CASE \/ Ensure(t) \/ AlreadyConnected(t) \/ RefuseToConnect(t) \/ Stop(t)
           \/ SeeReplaced(t) \/ SkipProbe(t) \/ SeeHealthy(t) \/ AskForRepair(t)
           \/ AcceptRepair(t) \/ Tolerate(t) \/ LeaveToBackoff(t) \/ Repeats(t)
  BY <1>1, TasksQuiet DEF Inv
<1>2. CASE Loud(t)
  BY <1>2, LoudMoves
<1>3. CASE SettlingFails(t) \/ \E r \in Reasons : StartFails(t, r)
  BY <1>1, <1>2, <1>3, FailureCases DEF Inv, Base, Loud
<1> QED BY <1>1, <1>2, <1>3 DEF Advance, Loud

LEMMA AfterTheProbe ==
    ASSUME Inv, [Next]_vars, NEW t \in Tasks, task[t].pc = "probed",
           task'[t].pc \notin {"probed", "lock"}
    PROVE  SeeHealthy(t) \/ (t \in Clients /\ Cancel(t))
<1>0. task'[t] # task[t] /\ task \in [Tasks -> Task]
  BY DEF Inv, Base, TaskType
<1>1. ASSUME NEW c \in Clients,
             \/ \E k \in Kinds[c] : Arrive(c, k)
             \/ Admit(c) \/ Launch(c) \/ LaunchFails(c) \/ CommandExits(c) \/ Report(c)
             \/ Timeout(c) \/ Cancel(c)
      PROVE  t \in Clients /\ Cancel(t)
  <2>1. t = c
    BY <1>0, <1>1, ClientsQuiet DEF Inv, Only
  <2>2. ~CommandExits(c)
    BY <1>0 DEF CommandExits, clientVars
  <2> QED BY <1>1, <2>1, <2>2 DEF Arrive, Admit, Launch, LaunchFails, Report, Timeout, At
<1>2. ASSUME NEW u \in Tasks, Advance(u) \/ \E r \in Reasons : StartFails(u, r)
      PROVE  SeeHealthy(t)
  <2>1. u = t
    BY <1>0, <1>2, TasksOnly DEF Only
  <2>2. task[t].pc \notin {"lock", "check", "ensure"} \cup RepairSteps
    BY Places
  <2>3. ~AskForRepair(t)
    BY <1>0, WantLockTask DEF AskForRepair
  <2>4. /\ ~Ensure(t) /\ ~Adopt(t) /\ ~Stop(t) /\ ~ComeUp(t) /\ ~Settle(t) /\ ~SettlingFails(t)
        /\ ~SeeReplaced(t) /\ ~Probe(t) /\ ~SkipProbe(t) /\ ~\E r \in Reasons : StartFails(t, r)
    BY <2>2 DEF Ensure, Adopt, Stop, ComeUp, Settle, SettlingFails, SeeReplaced, Probe, SkipProbe,
                StartFails, At, RepairSteps
  <2>5. /\ ~AlreadyConnected(t) /\ ~RefuseToConnect(t) /\ ~TryToAdopt(t) /\ ~Reconnect(t)
        /\ ~AcceptRepair(t) /\ ~Tolerate(t) /\ ~LeaveToBackoff(t) /\ ~Repair(t)
    BY <2>2 DEF AlreadyConnected, RefuseToConnect, TryToAdopt, Reconnect, AcceptRepair, Tolerate,
                LeaveToBackoff, Repair, Connecting, Deciding, Holds, At, RepairSteps
  <2> QED BY <1>2, <2>1, <2>3, <2>4, <2>5 DEF Advance
<1>3. ASSUME NEW f \in flights, NEW o \in Outcomes, ProbeEnds(f, o) PROVE FALSE
  <2>1. ~Hears(t, f)
    BY DEF Hears, At
  <2> QED BY <1>0, <1>3, <2>1, ProbeEndsTask
<1>4. CASE WakeUp \/ TimerFires
  <2>1. t = Maintainer
    BY <1>0, <1>4, WorldQuiet DEF Inv, Only
  <2> QED BY <1>4, <2>1 DEF WakeUp, TimerFires, At
<1>5. ~(BackoffEnds \/ MasterDies \/ HostCalms \/ (\E l \in {"busy", "broken"} : Degrade(l))
           \/ UNCHANGED vars)
  BY <1>0 DEF BackoffEnds, MasterDies, HostCalms, Degrade, vars, clientVars
<1> QED BY <1>1, <1>2, <1>3, <1>4, <1>5 DEF Next

(* A probe of the present epoch was sent to the master in use, and the      *)
(* connection is established.                                               *)
LEMMA SeenIsCurrent ==
    ASSUME Inv, NEW t \in Tasks, task[t].outcome \in {"ok", "slow"} \/ task[t].pc = "probed",
           task[t].epoch = epoch
    PROVE  state = "connected" /\ task[t].seen = serial
<1>1. task[t].seen # 0 /\ epoch \in Nat
  BY DEF Inv, Base, Coherent, ConnType
<1> QED BY <1>1 DEF Inv, EpochInv, Timely

(* The verdict "healthy" is about the master that is up.                    *)
THEOREM HealthyIsNews == Spec => HealthyIsCurrent
<1>1. ASSUME Inv, [Next]_vars, NEW t \in Tasks, task[t].pc = "probed",
             task'[t].pc \notin {"probed", "lock"}, t \in Clients => answer'[t] # "cancelled"
      PROVE  task[t].seen = serial /\ state = "connected"
  <2>1. CASE SeeHealthy(t)
    BY <1>1, <2>1, SeenIsCurrent DEF SeeHealthy, Trusted
  <2>2. CASE t \in Clients /\ Cancel(t)
    <3>1. answer' = [answer EXCEPT ![t] = "cancelled"] /\ answer \in [Clients -> Verdicts \cup {"none"}]
      BY <1>1, <2>2 DEF Cancel, Finish, Inv, Base, TaskType
    <3> QED BY <1>1, <2>2, <3>1
  <2> QED BY <1>1, <2>1, <2>2, AfterTheProbe
<1>2. Inv /\ [Next]_vars => [\A t \in Tasks :
          /\ At(t, "probed") /\ task'[t].pc \notin {"probed", "lock"}
          /\ t \in Clients => answer'[t] # "cancelled"
          => task[t].seen = serial /\ state = "connected"]_vars
  BY <1>1 DEF At
<1> QED BY <1>2, AlwaysInv, PTL DEF Spec, HealthyIsCurrent

(* What the calls that end tell a client.                                   *)
LEMMA ReturnTells ==
    ASSUME TaskType, NEW t \in Tasks, NEW c \in Clients, answer'[c] # answer[c]
    PROVE  /\ \A a, s : Return(t, a, s) => c = t /\ answer'[c] = a
           /\ \A s, g : g \in Nat /\ ConnectReturns(t, s, g) => c = t /\ answer'[c] = "done"
           /\ \A v, s : CheckEnds(t, v, s) => c = t /\ answer'[c] = AfterCheck(t, v)
<1>0. task \in [Tasks -> Task] /\ answer \in [Clients -> Verdicts \cup {"none"}]
  BY DEF TaskType
<1>1. ASSUME NEW a, NEW s, Return(t, a, s) PROVE c = t /\ answer'[c] = a
  <2>1. t \in Clients /\ answer' = [answer EXCEPT ![t] = a]
    BY <1>0, <1>1, ReturnTask DEF Tasks
  <2> QED BY <1>0, <2>1
<1>2. ASSUME NEW s, NEW g \in Nat, ConnectReturns(t, s, g) PROVE c = t /\ answer'[c] = "done"
  BY <1>0, <1>1, <1>2, ConnectReturnsTask
<1>3. ASSUME NEW v, NEW s, CheckEnds(t, v, s) PROVE c = t /\ answer'[c] = AfterCheck(t, v)
  BY <1>0, <1>1, <1>3, CheckEndsTask
<1> QED BY <1>1, <1>2, <1>3

(* Who is given an attachment, or told that the reconnect is done, is told  *)
(* so in a step that leaves the connection established.                     *)
THEOREM NewsIsTrue == Spec => GoodNewsIsTrue
<1> DEFINE Good(c) == answer'[c] = "attached" \/ (answer'[c] = "done" /\ task[c].kind \in Reconnects)
<1>1. ASSUME Inv, [Next]_vars, NEW c \in Clients, answer[c] = "none", Good(c)
      PROVE  state' = "connected"
  <2>0. /\ TaskType /\ task \in [Tasks -> Task] /\ generation \in Nat /\ generation + 1 \in Nat
        /\ answer \in [Clients -> Verdicts \cup {"none"}]
        /\ answer'[c] # answer[c] /\ c \in Tasks /\ c # Maintainer
        /\ answer'[c] \in {"attached", "done"} /\ Coherent(task[c])
    BY <1>1, TasksAssumption DEF Inv, Base, TaskType, ConnType, Tasks
  <2>1. ASSUME NEW d \in Clients, NEW a, Finish(d, a) PROVE c = d /\ answer'[c] = a
    BY <2>0, <2>1 DEF Finish
  <2>2. ASSUME NEW d \in Clients,
               \/ \E k \in Kinds[d] : Arrive(d, k)
               \/ Admit(d) \/ Launch(d) \/ LaunchFails(d) \/ CommandExits(d) \/ Report(d)
               \/ Timeout(d) \/ Cancel(d)
        PROVE  FALSE
    <3>1. UNCHANGED answer \/ \E a \in {"unavailable", "result", "timeout", "cancelled"} : Finish(d, a)
      BY <2>2 DEF Arrive, Admit, Launch, LaunchFails, CommandExits, Report, Timeout, Cancel, Goto,
                  clientVars
    <3> QED BY <2>0, <2>1, <3>1
  <2>3. ASSUME NEW t \in Tasks, NEW v \in {"healthy", "replaced", "degraded", "raised"}, NEW s,
               CheckEnds(t, v, s)
        PROVE  c = t /\ (v = "raised" => task[c].kind = "force")
    <3>1. c = t /\ AfterCheck(t, v) = answer'[c]
      BY <1>1, <2>0, <2>3, ReturnTells
    <3> QED BY <1>1, <2>0, <3>1 DEF AfterCheck, Reconnects
  <2>4. ASSUME NEW t \in Tasks, Advance(t) \/ \E r \in Reasons : StartFails(t, r)
        PROVE  state' = "connected"
    <3>1. CASE Ensure(t) \/ AlreadyConnected(t)
      BY <2>0, <3>1 DEF Ensure, AlreadyConnected, WantLock, connVars
    <3>2. CASE RefuseToConnect(t)
      <4>1. answer'[c] = "unavailable"
        BY <2>0, <3>2, ReturnTells DEF RefuseToConnect, ConnectRaises
      <4> QED BY <2>0, <4>1
    <3>3. CASE TryToAdopt(t) \/ Reconnect(t) \/ Repair(t) \/ Stop(t) \/ ComeUp(t) \/ AskForRepair(t)
               \/ Probe(t) \/ SkipProbe(t)
      BY <2>0, <3>3 DEF TryToAdopt, Reconnect, Repair, BeginReplacement, Stop, ComeUp, AskForRepair,
                        Probe, SkipProbe, Goto, WantLock
    <3>4. CASE Adopt(t) \/ Settle(t)
      BY <3>4 DEF Adopt, Settle, RecordConnected
    <3>5. CASE SettlingFails(t) \/ \E r \in Reasons : StartFails(t, r)
      <4>1. PICK r \in Reasons : Repeats(t) \/ GivesIn(t, r)
        BY <1>1, <3>5, FailureCases DEF Inv, Base, Reasons
      <4>2. GivesIn(t, r)
        BY <2>0, <4>1 DEF Repeats, Goto
      <4>3. task[t].call = "check" /\ CheckEnds(t, "raised", r)
        <5>1. ~Return(t, "unavailable", r)
          BY <2>0, ReturnTells
        <5> QED BY <4>2, <5>1 DEF GivesIn, ConnectRaises
      <4> QED BY <2>0, <2>3, <4>3 DEF Coherent
    <3>6. CASE SeeReplaced(t)
      BY <3>6 DEF SeeReplaced, connVars
    <3>7. CASE SeeHealthy(t)
      BY <1>1, <3>7, SeenIsCurrent DEF SeeHealthy, Trusted, connVars
    <3>8. CASE AcceptRepair(t)
      <4>1. /\ task[t].call = "check" /\ UNCHANGED state
            /\ CheckEnds(t, IF state = "connected" THEN "replaced" ELSE "raised", state)
        BY <3>8 DEF AcceptRepair, Deciding, connVars
      <4> QED BY <2>0, <2>3, <4>1 DEF Coherent
    <3>9. CASE Tolerate(t)
      BY <1>1, <3>9, SeenIsCurrent DEF Tolerate, Tolerable, RepairBegun, connVars
    <3>10. CASE LeaveToBackoff(t)
      <4>1. task[t].call = "check" /\ CheckEnds(t, "raised", state)
        BY <3>10 DEF LeaveToBackoff, Deciding
      <4> QED BY <2>0, <2>3, <4>1 DEF Coherent
    <3> QED BY <2>4, <3>1, <3>2, <3>3, <3>4, <3>5, <3>6, <3>7, <3>8, <3>9, <3>10 DEF Advance
  <2>5. ~(\E f \in flights, o \in Outcomes : ProbeEnds(f, o))
    BY <2>0 DEF ProbeEnds
  <2>6. ~(WakeUp \/ TimerFires \/ BackoffEnds \/ MasterDies \/ HostCalms
            \/ (\E l \in {"busy", "broken"} : Degrade(l)) \/ UNCHANGED vars)
    BY <2>0 DEF WakeUp, TimerFires, WantLock, BackoffEnds, MasterDies, HostCalms, Degrade, vars,
                clientVars
  <2> QED BY <1>1, <2>2, <2>4, <2>5, <2>6 DEF Next
<1>2. Inv /\ [Next]_vars => [\A c \in Clients :
          /\ answer[c] = "none"
          /\ \/ answer'[c] = "attached"
             \/ answer'[c] = "done" /\ task[c].kind \in Reconnects
          => state' = "connected"]_vars
  BY <1>1
<1> QED BY <1>2, AlwaysInv, PTL DEF Spec, GoodNewsIsTrue

=============================================================================
