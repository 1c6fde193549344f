------------------------- MODULE SessionBudgetProofs -------------------------
(***************************************************************************)
(* What SessionBudget promises, for every number of operations, bridges    *)
(* and probes and every set of budgets.                                    *)
(*                                                                         *)
(* The inductive invariant IInv joins the type invariant to four facts.    *)
(* LeaseInv: who holds a file is who is "holding", the file belongs to its *)
(* pool, and no other actor holds it.  QueueInv: the queue lists the       *)
(* waiting operations, each once.  AheadInv: whoever came before a waiting *)
(* operation and still waits stands in front of it.  CountersExact: the    *)
(* two counters.  None is inductive alone: a decrement stays in Nat because*)
(* the counter counts an operation that really waits, and that is what the *)
(* queue says of it; and an arrival goes behind everyone who waits because *)
(* everyone who waits is in the queue.                                     *)
(***************************************************************************)
EXTENDS SessionBudget, FiniteSetTheorems, SequenceTheorems, TLAPS

LeaseInv ==
    /\ LeaseExclusive
    /\ \A p \in Actors :
          /\ pc[p] = "holding" <=> lease[p] # NoFile
          /\ pc[p] = "holding" => \E i \in 0..(PoolSize(p) - 1) : lease[p] = File(p, i)
          /\ pc[p] = "idle" => scan[p] = 0
          /\ pc[p] # "idle" => PoolSize(p) \in Nat \ {0} /\ scan[p] \in 0..(PoolSize(p) - 1)
    /\ \A p \in Ops \cup Probers : pc[p] # "idle" => budget # 0
    /\ \A b \in Bridges : pc[b] # "idle" => view[b] >= 3

QueueInv ==
    /\ \A i \in 1..Len(queue) : pc[queue[i]] = "waiting"
    /\ \A i, j \in 1..Len(queue) : queue[i] = queue[j] => i = j
    /\ \A o \in Ops : pc[o] = "waiting" => \E i \in 1..Len(queue) : queue[i] = o

AheadInv ==
    \A i \in 1..Len(queue) : \A q \in ahead[queue[i]] :
        \E j \in 1..Len(queue) : j < i /\ queue[j] = q

IInv == TypeOK /\ LeaseInv /\ QueueInv /\ AheadInv /\ CountersExact

-----------------------------------------------------------------------------
(* The kinds of actors do not overlap, and no file is NoFile.               *)
LEMMA ActorFacts ==
    /\ Ops \cap Bridges = {} /\ Probers \cap Ops = {} /\ Probers \cap Bridges = {}
    /\ \A p \in Actors, i \in Nat :
          /\ File(p, i) \in {"slot", "probe"} \X Nat
          /\ File(p, i) # NoFile
BY ActorsAssumption DEF Actors, File, NoFile

(* The empty system satisfies the invariant.                                *)
LEMMA InitIInv == Init => IInv
<1>. SUFFICES ASSUME Init PROVE IInv
  OBVIOUS
<1>1. TypeOK
  BY StartsAssumption, EmptySeq DEF Init, TypeOK, NoFile
<1>2. LeaseInv
  BY ActorFacts DEF Init, LeaseInv, LeaseExclusive, Actors
<1>3. QueueInv /\ AheadInv
  BY DEF Init, QueueInv, AheadInv, Actors
<1>4. CountersExact
  <2>1. {o \in Ops : pc[o] = "waiting"} = {} /\ {o \in Ops : pc[o] = "holding"} = {}
    BY DEF Init, Actors
  <2>. QED
    BY <2>1, FS_EmptySet DEF Init, CountersExact
<1>. QED
  BY <1>1, <1>2, <1>3, <1>4 DEF IInv

Holders(v) == Cardinality({o \in Ops : pc[o] = v})

(* The two counts change by one when one operation moves between the two    *)
(* sets, whatever the other operations do not do.                           *)
LEMMA CountMoves ==
    ASSUME NEW o \in Ops, NEW v, \A q \in Ops \ {o} : pc'[q] = pc[q]
    PROVE  /\ Holders(v) \in Nat
           /\ (pc[o] = v <=> pc'[o] = v) => Holders(v)' = Holders(v)
           /\ pc[o] # v /\ pc'[o] = v => Holders(v)' = Holders(v) + 1
           /\ pc[o] = v /\ pc'[o] # v => Holders(v) # 0 /\ Holders(v)' = Holders(v) - 1
<1>. DEFINE F == {q \in Ops : pc[q] = v}
            G == {q \in Ops : pc'[q] = v}
<1>. Holders(v) = Cardinality(F) /\ Holders(v)' = Cardinality(G)
  BY DEF Holders
<1>1. IsFiniteSet(F) /\ Cardinality(F) \in Nat
  BY ActorsAssumption, FS_Subset, FS_CardinalityType
<1>2. CASE pc[o] = v <=> pc'[o] = v
  <2>1. F = G
    BY <1>2
  <2>. QED
    BY <1>1, <1>2, <2>1
<1>3. CASE pc[o] # v /\ pc'[o] = v
  <2>1. G = F \cup {o} /\ o \notin F
    BY <1>3
  <2>2. Cardinality(G) = Cardinality(F) + 1
    BY <1>1, <2>1, FS_AddElement
  <2>. QED
    BY <1>1, <1>3, <2>2
<1>4. CASE pc[o] = v /\ pc'[o] # v
  <2>1. G = F \ {o} /\ o \in F
    BY <1>4
  <2>2. Cardinality(G) = Cardinality(F) - 1
    BY <1>1, <2>1, FS_RemoveElement
  <2>3. Cardinality(F) # 0
    BY <1>1, <2>1, FS_EmptySet
  <2>. QED
    BY <1>1, <1>4, <2>2, <2>3
<1>. QED
  BY <1>2, <1>3, <1>4

-----------------------------------------------------------------------------
(* The lease invariant, for the steps that move one actor.                  *)

LEMMA TakeFileLease ==
    ASSUME TypeOK, LeaseInv, NEW p \in Actors, TakeFile(p), budget' = budget, view' = view
    PROVE  LeaseInv'
<1>1. /\ pc[p] = "waiting" /\ scan[p] \in 0..(PoolSize(p) - 1) /\ PoolSize(p) \in Nat \ {0}
      /\ ~Locked(File(p, scan[p]))
      /\ lease' = [lease EXCEPT ![p] = File(p, scan[p])]
      /\ pc' = [pc EXCEPT ![p] = "holding"]
      /\ scan' = [scan EXCEPT ![p] = 0]
  BY DEF TakeFile, Polls, Candidate, LeaseInv
<1>2. \A q \in Actors : PoolSize(q)' = PoolSize(q)
  BY DEF PoolSize
<1>3. File(p, scan[p]) # NoFile
  BY <1>1, ActorFacts DEF TypeOK
<1>4. LeaseExclusive'
  BY <1>1 DEF LeaseInv, LeaseExclusive, TypeOK, Locked
<1>5. ASSUME NEW q \in Actors
      PROVE  /\ pc'[q] = "holding" <=> lease'[q] # NoFile
             /\ pc'[q] = "holding" => \E i \in 0..(PoolSize(q) - 1) : lease'[q] = File(q, i)
             /\ pc'[q] = "idle" => scan'[q] = 0
             /\ pc'[q] # "idle" => PoolSize(q) \in Nat \ {0} /\ scan'[q] \in 0..(PoolSize(q) - 1)
  <2>1. CASE q = p
    BY <1>1, <1>3, <2>1 DEF TypeOK
  <2>2. CASE q # p
    BY <1>1, <2>2 DEF TypeOK, LeaseInv
  <2>. QED
    BY <2>1, <2>2
<1>6. /\ \A q \in Ops \cup Probers : pc'[q] # "idle" => budget # 0
      /\ \A b \in Bridges : pc'[b] # "idle" => view[b] >= 3
  BY <1>1 DEF LeaseInv, TypeOK, Actors
<1>. QED
  BY <1>2, <1>4, <1>5, <1>6 DEF LeaseInv, File, NoFile

LEMMA LeaveLease ==
    ASSUME TypeOK, LeaseInv, NEW p \in Actors, Leave(p), budget' = budget, view' = view
    PROVE  LeaseInv'
<1>1. \A q \in Actors : PoolSize(q)' = PoolSize(q)
  BY DEF PoolSize
<1>2. LeaseExclusive'
  BY DEF Leave, LeaseInv, LeaseExclusive, TypeOK
<1>3. ASSUME NEW q \in Actors
      PROVE  /\ pc'[q] = "holding" <=> lease'[q] # NoFile
             /\ pc'[q] = "holding" => \E i \in 0..(PoolSize(q) - 1) : lease'[q] = File(q, i)
             /\ pc'[q] = "idle" => scan'[q] = 0
             /\ pc'[q] # "idle" => PoolSize(q) \in Nat \ {0} /\ scan'[q] \in 0..(PoolSize(q) - 1)
  BY DEF Leave, TypeOK, LeaseInv
<1>4. /\ \A q \in Ops \cup Probers : pc'[q] # "idle" => budget # 0
      /\ \A b \in Bridges : pc'[b] # "idle" => view[b] >= 3
  BY DEF Leave, LeaseInv, TypeOK, Actors
<1>. QED
  BY <1>1, <1>2, <1>3, <1>4 DEF LeaseInv, File, NoFile

(* An idle actor that starts waiting tries the first file of a pool that    *)
(* has at least one.                                                        *)
LEMMA ArriveLease ==
    ASSUME TypeOK, LeaseInv, NEW p \in Actors,
           pc[p] = "idle", pc' = [pc EXCEPT ![p] = "waiting"], scan' = scan, lease' = lease,
           budget' = budget,
           \A q \in Bridges : q # p => view'[q] = view[q],
           p \in Bridges => view'[p] \in Nat /\ view'[p] >= 3,
           p \notin Bridges => budget # 0
    PROVE  LeaseInv'
<1>1. \A q \in Actors : q # p => PoolSize(q)' = PoolSize(q)
  BY ActorFacts DEF PoolSize, BridgePoolSize, Actors
<1>2. PoolSize(p)' \in Nat \ {0}
  BY ActorFacts, LimitsAssumption DEF PoolSize, BridgePoolSize, Actors, TypeOK
<1>3. LeaseExclusive'
  BY DEF LeaseInv, LeaseExclusive
<1>4. ASSUME NEW q \in Actors
      PROVE  /\ pc'[q] = "holding" <=> lease'[q] # NoFile
             /\ pc'[q] = "holding" => \E i \in 0..(PoolSize(q)' - 1) : lease'[q] = File(q, i)
             /\ pc'[q] = "idle" => scan'[q] = 0
             /\ pc'[q] # "idle" => PoolSize(q)' \in Nat \ {0} /\ scan'[q] \in 0..(PoolSize(q)' - 1)
  <2>1. CASE q = p
    BY <1>2, <2>1 DEF TypeOK, LeaseInv
  <2>2. CASE q # p
    BY <1>1, <2>2 DEF TypeOK, LeaseInv
  <2>. QED
    BY <2>1, <2>2
<1>5. \A q \in Ops \cup Probers : pc'[q] # "idle" => budget # 0
  BY ActorFacts DEF LeaseInv, TypeOK, Actors
<1>6. \A b \in Bridges : pc'[b] # "idle" => view'[b] >= 3
  BY DEF LeaseInv, TypeOK, Actors
<1>. QED
  BY <1>3, <1>4, <1>5, <1>6 DEF LeaseInv, File, NoFile

(* A refused flock moves the scan on inside the pool.                       *)
LEMMA FileBusyLease ==
    ASSUME TypeOK, LeaseInv, NEW p \in Actors, FileBusy(p)
    PROVE  LeaseInv'
<1>1. /\ pc[p] = "waiting" /\ scan[p] \in 0..(PoolSize(p) - 1) /\ PoolSize(p) \in Nat \ {0}
      /\ UNCHANGED <<budget, view, pc, lease>>
      /\ scan' = [scan EXCEPT ![p] = IF scan[p] + 1 < PoolSize(p) THEN scan[p] + 1 ELSE 0]
  BY DEF FileBusy, Polls, LeaseInv, gatewayVars
<1>2. \A q \in Actors : PoolSize(q)' = PoolSize(q)
  BY <1>1 DEF PoolSize
<1>3. ASSUME NEW q \in Actors
      PROVE  /\ pc'[q] = "idle" => scan'[q] = 0
             /\ pc'[q] # "idle" => PoolSize(q) \in Nat \ {0} /\ scan'[q] \in 0..(PoolSize(q) - 1)
  <2>1. CASE q = p
    BY <1>1, <2>1 DEF TypeOK
  <2>2. CASE q # p
    BY <1>1, <2>2 DEF TypeOK, LeaseInv
  <2>. QED
    BY <2>1, <2>2
<1>. QED
  BY <1>1, <1>2, <1>3 DEF LeaseInv, LeaseExclusive, File, NoFile

(* A new gateway finds no task of an old one; an old one leaves no lock.    *)
LEMMA GatewayLease ==
    ASSUME TypeOK, LeaseInv, GatewayExit \/ \E m \in Limits : GatewayStart(m)
    PROVE  LeaseInv'
<1>1. /\ view' = view
      /\ \A p \in Ops \cup Probers : pc'[p] = "idle" /\ lease'[p] = NoFile /\ scan'[p] = 0
      /\ \A b \in Bridges : pc'[b] = pc[b] /\ lease'[b] = lease[b] /\ scan'[b] = scan[b]
  <2>1. CASE GatewayExit
    BY <2>1, ActorFacts DEF GatewayExit, Actors
  <2>2. CASE \E m \in Limits : GatewayStart(m)
    <3>1. budget = 0 /\ UNCHANGED <<view, pc, scan, lease>>
      BY <2>2 DEF GatewayStart, poolVars
    <3>2. \A p \in Ops \cup Probers : pc[p] = "idle" /\ lease[p] = NoFile /\ scan[p] = 0
      BY <3>1 DEF LeaseInv, Actors
    <3>. QED
      BY <3>1, <3>2
  <2>. QED
    BY <2>1, <2>2
<1>2. \A b \in Bridges : PoolSize(b)' = PoolSize(b)
  BY <1>1, ActorFacts DEF PoolSize
<1>3. LeaseExclusive'
  BY <1>1 DEF LeaseInv, LeaseExclusive, Actors
<1>4. ASSUME NEW q \in Actors
      PROVE  /\ pc'[q] = "holding" <=> lease'[q] # NoFile
             /\ pc'[q] = "holding" => \E i \in 0..(PoolSize(q)' - 1) : lease'[q] = File(q, i)
             /\ pc'[q] = "idle" => scan'[q] = 0
             /\ pc'[q] # "idle" => PoolSize(q)' \in Nat \ {0} /\ scan'[q] \in 0..(PoolSize(q)' - 1)
  BY <1>1, <1>2 DEF LeaseInv, Actors
<1>. QED
  BY <1>1, <1>3, <1>4 DEF LeaseInv, File, NoFile

-----------------------------------------------------------------------------
(* The queue invariant and the counters, for the steps of one operation.    *)

LEMMA ArriveQueue ==
    ASSUME TypeOK, QueueInv, CountersExact, NEW o \in Ops, OpArrive(o)
    PROVE  queue' \in Seq(Ops) /\ QueueInv' /\ CountersExact' /\ waiting' \in Nat /\ active' \in Nat
<1>1. /\ pc[o] = "idle" /\ pc' = [pc EXCEPT ![o] = "waiting"] /\ queue' = Append(queue, o)
      /\ waiting' = waiting + 1 /\ active' = active
  BY DEF OpArrive
<1>2. /\ queue' \in Seq(Ops) /\ Len(queue') = Len(queue) + 1 /\ Len(queue) \in Nat
      /\ \A i \in 1..Len(queue) : queue'[i] = queue[i] /\ queue[i] \in Ops
      /\ queue'[Len(queue) + 1] = o
  BY <1>1, AppendProperties, ElementOfSeq, LenProperties DEF TypeOK
<1>3. \A i \in 1..Len(queue) : queue[i] # o
  BY <1>1 DEF QueueInv
<1>4. QueueInv'
  <2>1. \A i \in 1..Len(queue') : pc'[queue'[i]] = "waiting"
    BY <1>1, <1>2 DEF QueueInv, TypeOK, Actors
  <2>2. \A i, j \in 1..Len(queue') : queue'[i] = queue'[j] => i = j
    BY <1>2, <1>3 DEF QueueInv
  <2>3. ASSUME NEW q \in Ops, pc'[q] = "waiting"
        PROVE  \E i \in 1..Len(queue') : queue'[i] = q
    <3>1. CASE q = o
      BY <1>2, <3>1
    <3>2. CASE q # o
      BY <1>1, <1>2, <2>3, <3>2 DEF QueueInv, TypeOK
    <3>. QED
      BY <3>1, <3>2
  <2>. QED
    BY <2>1, <2>2, <2>3 DEF QueueInv
<1>5. (\A q \in Ops \ {o} : pc[q] = pc'[q]) /\ pc'[o] = "waiting"
  BY <1>1 DEF TypeOK, Actors
<1>6. Holders("waiting")' = Holders("waiting") + 1 /\ Holders("holding")' = Holders("holding")
  BY <1>1, <1>5, CountMoves
<1>7. CountersExact'
  BY <1>1, <1>6 DEF CountersExact, Holders
<1>. QED
  BY <1>1, <1>2, <1>4, <1>7 DEF TypeOK

LEMMA AcquireQueue ==
    ASSUME TypeOK, QueueInv, CountersExact, NEW o \in Ops, OpAcquire(o)
    PROVE  queue' \in Seq(Ops) /\ QueueInv' /\ CountersExact' /\ waiting' \in Nat /\ active' \in Nat
<1>1. /\ pc[o] = "waiting" /\ Head(queue) = o /\ pc' = [pc EXCEPT ![o] = "holding"]
      /\ queue' = Tail(queue) /\ waiting' = waiting - 1 /\ active' = active + 1
  BY DEF OpAcquire, TakeFile, Polls
<1>2. queue # <<>> /\ queue[1] = o
  BY <1>1 DEF QueueInv, TypeOK
<1>3. /\ queue' \in Seq(Ops) /\ Len(queue') = Len(queue) - 1 /\ Len(queue) \in Nat \ {0}
      /\ \A i \in 1..Len(queue') : queue'[i] = queue[i + 1] /\ queue'[i] \in Ops
  BY <1>1, <1>2, HeadTailProperties, ElementOfSeq, LenProperties, EmptySeq DEF TypeOK
<1>4. QueueInv'
  <2>1. \A i \in 1..Len(queue') : pc'[queue'[i]] = "waiting"
    BY <1>1, <1>2, <1>3 DEF QueueInv, TypeOK, Actors
  <2>2. \A i, j \in 1..Len(queue') : queue'[i] = queue'[j] => i = j
    BY <1>3 DEF QueueInv
  <2>3. ASSUME NEW q \in Ops, pc'[q] = "waiting"
        PROVE  \E i \in 1..Len(queue') : queue'[i] = q
    <3>1. q # o /\ pc[q] = "waiting"
      BY <1>1, <2>3 DEF TypeOK, Actors
    <3>2. PICK i \in 1..Len(queue) : queue[i] = q
      BY <3>1 DEF QueueInv
    <3>3. i # 1 /\ i - 1 \in 1..Len(queue') /\ queue'[i - 1] = q
      BY <1>2, <1>3, <3>1, <3>2
    <3>. QED
      BY <3>3
  <2>. QED
    BY <2>1, <2>2, <2>3 DEF QueueInv
<1>5. (\A q \in Ops \ {o} : pc[q] = pc'[q]) /\ pc'[o] = "holding"
  BY <1>1 DEF TypeOK, Actors
<1>6. /\ Holders("waiting") # 0 /\ Holders("waiting")' = Holders("waiting") - 1
      /\ Holders("holding")' = Holders("holding") + 1
  BY <1>1, <1>5, CountMoves
<1>7. CountersExact' /\ waiting # 0
  BY <1>1, <1>6 DEF CountersExact, Holders
<1>. QED
  BY <1>1, <1>3, <1>4, <1>7 DEF TypeOK

(* Giving up a place closes the gap it leaves.                               *)
LEMMA PlaceGivenUp ==
    ASSUME TypeOK, NEW o \in Ops, GiveUpPlace(o)
    PROVE  \E k \in 1..Len(queue) :
              /\ queue[k] = o
              /\ queue' \in Seq(Ops) /\ Len(queue) \in Nat /\ Len(queue') = Len(queue) - 1
              /\ \A i \in 1..Len(queue') : queue'[i] = IF i < k THEN queue[i] ELSE queue[i + 1]
<1>. PICK k \in DOMAIN queue : queue[k] = o /\ queue' = RemoveAt(queue, k)
  BY DEF GiveUpPlace
<1>2. Len(queue) \in Nat /\ k \in 1..Len(queue) /\ \A i \in 1..Len(queue) : queue[i] \in Ops
  BY LenProperties, ElementOfSeq DEF TypeOK
<1>. DEFINE left == SubSeq(queue, 1, k - 1)
            right == SubSeq(queue, k + 1, Len(queue))
<1>3. left \in Seq(Ops) /\ Len(left) = k - 1 /\ \A i \in 1..(k - 1) : left[i] = queue[i]
  BY <1>2, SubSeqProperties
<1>4. /\ right \in Seq(Ops) /\ Len(right) = Len(queue) - k
      /\ \A i \in 1..(Len(queue) - k) : right[i] = queue[k + i]
  <2>1. \A i \in (k + 1)..Len(queue) : queue[i] \in Ops
    BY <1>2
  <2>2. /\ right \in Seq(Ops)
        /\ Len(right) = IF k + 1 <= Len(queue) THEN Len(queue) - (k + 1) + 1 ELSE 0
        /\ \A i \in 1..(Len(queue) - (k + 1) + 1) : right[i] = queue[(k + 1) + i - 1]
    BY <1>2, <2>1, SubSeqProperties
  <2>. QED
    BY <1>2, <2>2
<1>. HIDE DEF left, right
<1>5. /\ queue' \in Seq(Ops) /\ Len(queue') = Len(queue) - 1
      /\ \A i \in 1..Len(queue') : queue'[i] = IF i < k THEN queue[i] ELSE queue[i + 1]
  <2>1. queue' = left \o right
    BY DEF RemoveAt, left, right
  <2>2. /\ left \o right \in Seq(Ops) /\ Len(left \o right) = Len(left) + Len(right)
        /\ \A i \in 1..(Len(left) + Len(right)) :
              (left \o right)[i] = IF i <= Len(left) THEN left[i] ELSE right[i - Len(left)]
    BY <1>3, <1>4, ConcatProperties
  <2>3. Len(queue') = Len(queue) - 1
    BY <1>2, <1>3, <1>4, <2>1, <2>2
  <2>4. ASSUME NEW i \in 1..Len(queue')
        PROVE  queue'[i] = IF i < k THEN queue[i] ELSE queue[i + 1]
    <3>1. CASE i < k
      BY <1>2, <1>3, <1>4, <2>1, <2>2, <2>3, <3>1
    <3>2. CASE i >= k
      <4>1. i - (k - 1) \in 1..(Len(queue) - k) /\ k + (i - (k - 1)) = i + 1
        BY <1>2, <2>3, <3>2
      <4>2. queue'[i] = right[i - (k - 1)]
        BY <1>2, <1>3, <1>4, <2>1, <2>2, <2>3, <3>2
      <4>3. right[i - (k - 1)] = queue[k + (i - (k - 1))]
        BY <1>4, <4>1
      <4>. QED
        BY <1>2, <2>3, <3>2, <4>1, <4>2, <4>3
    <3>. QED
      BY <1>2, <2>3, <3>1, <3>2
  <2>. QED
    BY <2>1, <2>2, <2>3, <2>4
<1>. QED
  BY <1>2, <1>5

LEMMA TimeoutQueue ==
    ASSUME TypeOK, QueueInv, CountersExact, NEW o \in Ops, OpTimeout(o)
    PROVE  queue' \in Seq(Ops) /\ QueueInv' /\ CountersExact' /\ waiting' \in Nat /\ active' \in Nat
<1>1. /\ pc[o] = "waiting" /\ pc' = [pc EXCEPT ![o] = "idle"]
      /\ waiting' = waiting - 1 /\ active' = active
  BY DEF OpTimeout, Leave
<1>. PICK k \in 1..Len(queue) :
        /\ queue[k] = o
        /\ queue' \in Seq(Ops) /\ Len(queue) \in Nat /\ Len(queue') = Len(queue) - 1
        /\ \A i \in 1..Len(queue') : queue'[i] = IF i < k THEN queue[i] ELSE queue[i + 1]
  BY PlaceGivenUp DEF OpTimeout
<1>2. \A i \in 1..Len(queue) : queue[i] \in Ops
  BY ElementOfSeq DEF TypeOK
<1>5. /\ queue' \in Seq(Ops) /\ Len(queue') = Len(queue) - 1
      /\ \A i \in 1..Len(queue') : queue'[i] = IF i < k THEN queue[i] ELSE queue[i + 1]
  OBVIOUS
<1>6. QueueInv'
  <2>1. \A i \in 1..Len(queue) : i # k => queue[i] # o
    BY <1>2 DEF QueueInv
  <2>2. \A i \in 1..Len(queue') : pc'[queue'[i]] = "waiting"
    <3>1. \A i \in 1..Len(queue) : i # k => pc'[queue[i]] = "waiting"
      BY <1>1, <1>2, <2>1 DEF QueueInv, TypeOK, Actors
    <3>. QED
      BY <1>2, <1>5, <3>1
  <2>3. \A i, j \in 1..Len(queue') : queue'[i] = queue'[j] => i = j
    BY <1>2, <1>5 DEF QueueInv
  <2>4. ASSUME NEW q \in Ops, pc'[q] = "waiting"
        PROVE  \E i \in 1..Len(queue') : queue'[i] = q
    <3>1. q # o /\ pc[q] = "waiting"
      BY <1>1, <2>4 DEF TypeOK, Actors
    <3>2. PICK i \in 1..Len(queue) : queue[i] = q
      BY <3>1 DEF QueueInv
    <3>3. i # k
      BY <3>1, <3>2
    <3>4. CASE i < k
      BY <1>2, <1>5, <3>2, <3>4
    <3>5. CASE i > k
      <4>1. i - 1 \in 1..Len(queue') /\ queue'[i - 1] = q
        BY <1>2, <1>5, <3>2, <3>5
      <4>. QED
        BY <4>1
    <3>. QED
      BY <1>2, <3>3, <3>4, <3>5
  <2>. QED
    BY <2>2, <2>3, <2>4 DEF QueueInv
<1>7. (\A q \in Ops \ {o} : pc[q] = pc'[q]) /\ pc'[o] = "idle"
  BY <1>1 DEF TypeOK, Actors
<1>8. /\ Holders("waiting") # 0 /\ Holders("waiting")' = Holders("waiting") - 1
      /\ Holders("holding")' = Holders("holding")
  BY <1>1, <1>7, CountMoves
<1>9. CountersExact' /\ waiting # 0
  BY <1>1, <1>8 DEF CountersExact, Holders
<1>. QED
  BY <1>1, <1>5, <1>6, <1>9 DEF TypeOK

LEMMA FinishQueue ==
    ASSUME TypeOK, QueueInv, CountersExact, NEW o \in Ops, OpFinish(o)
    PROVE  queue' \in Seq(Ops) /\ QueueInv' /\ CountersExact' /\ waiting' \in Nat /\ active' \in Nat
<1>1. /\ pc[o] = "holding" /\ pc' = [pc EXCEPT ![o] = "idle"]
      /\ UNCHANGED <<queue, waiting>> /\ active' = active - 1
  BY DEF OpFinish, Leave
<1>2. (\A q \in Ops \ {o} : pc[q] = pc'[q]) /\ pc'[o] = "idle"
  BY <1>1 DEF TypeOK, Actors
<1>3. QueueInv'
  BY <1>1 DEF QueueInv, TypeOK
<1>4. /\ Holders("holding") # 0 /\ Holders("holding")' = Holders("holding") - 1
      /\ Holders("waiting")' = Holders("waiting")
  BY <1>1, <1>2, CountMoves
<1>5. CountersExact' /\ active # 0
  BY <1>1, <1>4 DEF CountersExact, Holders
<1>. QED
  BY <1>1, <1>3, <1>5 DEF TypeOK

(* A step that moves no operation leaves the queue and the counters alone.  *)
LEMMA OthersQueue ==
    ASSUME TypeOK, QueueInv, CountersExact, UNCHANGED slotVars, \A o \in Ops : pc'[o] = pc[o]
    PROVE  queue' \in Seq(Ops) /\ QueueInv' /\ CountersExact' /\ waiting' \in Nat /\ active' \in Nat
<1>1. UNCHANGED <<queue, waiting, active>>
  BY DEF slotVars
<1>2. \A i \in 1..Len(queue) : queue[i] \in Ops
  BY ElementOfSeq DEF TypeOK
<1>3. QueueInv'
  BY <1>1, <1>2 DEF QueueInv
<1>4. \A v : {o \in Ops : pc'[o] = v} = {o \in Ops : pc[o] = v}
  OBVIOUS
<1>5. CountersExact'
  BY <1>1, <1>4 DEF CountersExact
<1>. QED
  BY <1>1, <1>3, <1>5 DEF TypeOK

LEMMA GatewayExitQueue ==
    ASSUME GatewayExit
    PROVE  queue' \in Seq(Ops) /\ QueueInv' /\ CountersExact' /\ waiting' \in Nat /\ active' \in Nat
<1>1. /\ queue' = <<>> /\ waiting' = 0 /\ active' = 0
      /\ \A o \in Ops : pc'[o] = "idle"
  BY ActorFacts DEF GatewayExit, Actors
<1>2. {o \in Ops : pc'[o] = "waiting"} = {} /\ {o \in Ops : pc'[o] = "holding"} = {}
  BY <1>1
<1>3. CountersExact'
  BY <1>1, <1>2, FS_EmptySet DEF CountersExact
<1>4. QueueInv'
  BY <1>1 DEF QueueInv
<1>. QED
  BY <1>1, <1>3, <1>4, EmptySeq

-----------------------------------------------------------------------------
(* Who came earlier stands in front, for the steps that change the queue.   *)

LEMMA ArriveAhead ==
    ASSUME TypeOK, QueueInv, AheadInv, NEW o \in Ops, OpArrive(o)
    PROVE  AheadInv' /\ ahead' \in [Ops -> SUBSET Ops]
<1>1. /\ pc[o] = "idle" /\ queue' = Append(queue, o)
      /\ ahead' = [ahead EXCEPT ![o] = {q \in Ops : pc[q] = "waiting"}]
  BY DEF OpArrive
<1>2. /\ Len(queue') = Len(queue) + 1 /\ Len(queue) \in Nat
      /\ \A i \in 1..Len(queue) : queue'[i] = queue[i] /\ queue[i] \in Ops
      /\ queue'[Len(queue) + 1] = o
  BY <1>1, AppendProperties, ElementOfSeq, LenProperties DEF TypeOK
<1>3. ASSUME NEW i \in 1..Len(queue'), NEW q \in ahead'[queue'[i]]
      PROVE  \E j \in 1..Len(queue') : j < i /\ queue'[j] = q
  <2>1. CASE i = Len(queue) + 1
    <3>1. q \in Ops /\ pc[q] = "waiting"
      BY <1>1, <1>2, <1>3, <2>1 DEF TypeOK
    <3>2. PICK j \in 1..Len(queue) : queue[j] = q
      BY <3>1 DEF QueueInv
    <3>. QED
      BY <1>2, <2>1, <3>2
  <2>2. CASE i \in 1..Len(queue)
    <3>1. queue[i] # o
      BY <1>1, <2>2 DEF QueueInv
    <3>2. q \in ahead[queue[i]]
      BY <1>1, <1>2, <1>3, <2>2, <3>1 DEF TypeOK
    <3>3. PICK j \in 1..Len(queue) : j < i /\ queue[j] = q
      BY <2>2, <3>2 DEF AheadInv
    <3>. QED
      BY <1>2, <3>3
  <2>. QED
    BY <1>2, <2>1, <2>2
<1>. QED
  BY <1>1, <1>3 DEF AheadInv, TypeOK

LEMMA AcquireAhead ==
    ASSUME TypeOK, QueueInv, AheadInv, NEW o \in Ops, OpAcquire(o)
    PROVE  AheadInv' /\ ahead' \in [Ops -> SUBSET Ops]
<1>1. /\ pc[o] = "waiting" /\ Head(queue) = o /\ queue' = Tail(queue)
      /\ ahead' = [q \in Ops |-> IF q = o THEN {} ELSE ahead[q] \ {o}]
  BY DEF OpAcquire, TakeFile, Polls, WaitsNoMore
<1>2. queue # <<>> /\ queue[1] = o
  BY <1>1 DEF QueueInv, TypeOK
<1>3. /\ Len(queue') = Len(queue) - 1 /\ Len(queue) \in Nat \ {0}
      /\ \A i \in 1..Len(queue') : queue'[i] = queue[i + 1] /\ queue'[i] \in Ops
  BY <1>1, <1>2, HeadTailProperties, ElementOfSeq, LenProperties, EmptySeq DEF TypeOK
<1>4. ASSUME NEW i \in 1..Len(queue'), NEW q \in ahead'[queue'[i]]
      PROVE  \E j \in 1..Len(queue') : j < i /\ queue'[j] = q
  <2>1. i + 1 \in 1..Len(queue) /\ q \in ahead[queue[i + 1]] /\ q # o
    BY <1>1, <1>3, <1>4
  <2>2. PICK j \in 1..Len(queue) : j < i + 1 /\ queue[j] = q
    BY <2>1 DEF AheadInv
  <2>3. j # 1 /\ j - 1 \in 1..Len(queue') /\ j - 1 < i /\ queue'[j - 1] = q
    BY <1>2, <1>3, <2>1, <2>2
  <2>. QED
    BY <2>3
<1>. QED
  BY <1>1, <1>4 DEF AheadInv, TypeOK

LEMMA TimeoutAhead ==
    ASSUME TypeOK, QueueInv, AheadInv, NEW o \in Ops, OpTimeout(o)
    PROVE  AheadInv' /\ ahead' \in [Ops -> SUBSET Ops]
<1>1. ahead' = [q \in Ops |-> IF q = o THEN {} ELSE ahead[q] \ {o}]
  BY DEF OpTimeout, WaitsNoMore
<1>. PICK k \in 1..Len(queue) :
        /\ queue[k] = o
        /\ queue' \in Seq(Ops) /\ Len(queue) \in Nat /\ Len(queue') = Len(queue) - 1
        /\ \A i \in 1..Len(queue') : queue'[i] = IF i < k THEN queue[i] ELSE queue[i + 1]
  BY PlaceGivenUp DEF OpTimeout
<1>2. ASSUME NEW i \in 1..Len(queue'), NEW q \in ahead'[queue'[i]]
      PROVE  \E j \in 1..Len(queue') : j < i /\ queue'[j] = q
  <2>. DEFINE old == IF i < k THEN i ELSE i + 1
  <2>1. old \in 1..Len(queue) /\ queue'[i] = queue[old]
    OBVIOUS
  <2>2. queue'[i] \in Ops
    BY <2>1, ElementOfSeq DEF TypeOK
  <2>3. q \in ahead[queue[old]] /\ q # o
    BY <1>1, <1>2, <2>1, <2>2
  <2>4. PICK j \in 1..Len(queue) : j < old /\ queue[j] = q
    BY <2>1, <2>3 DEF AheadInv
  <2>5. j # k
    BY <2>3, <2>4
  <2>6. CASE j < k
    BY <2>4, <2>6
  <2>7. CASE j > k
    <3>1. j - 1 \in 1..Len(queue') /\ j - 1 < i /\ queue'[j - 1] = q
      BY <2>4, <2>7
    <3>. QED
      BY <3>1
  <2>. QED
    BY <2>5, <2>6, <2>7
<1>. QED
  BY <1>1, <1>2 DEF AheadInv, TypeOK

(* Every other step leaves the queue as it is, or empties it.               *)
LEMMA OthersAhead ==
    ASSUME TypeOK, AheadInv, UNCHANGED <<queue, ahead>> \/ GatewayExit
    PROVE  AheadInv' /\ ahead' \in [Ops -> SUBSET Ops]
<1>1. CASE UNCHANGED <<queue, ahead>>
  BY <1>1 DEF AheadInv, TypeOK
<1>2. CASE GatewayExit
  BY <1>2 DEF GatewayExit, AheadInv
<1>. QED
  BY <1>1, <1>2

-----------------------------------------------------------------------------
(* The types of the variables the queue lemmas do not speak of.             *)

PlainTypes ==
    /\ budget \in Limits \cup {0} /\ published \in Limits \cup {0}
    /\ starts \in 0..MaxStarts
    /\ view \in [Bridges -> Limits \cup {0}]
    /\ pc \in [Actors -> {"idle", "waiting", "holding"}]
    /\ scan \in [Actors -> Nat]
    /\ lease \in [Actors -> {NoFile} \cup ({"slot", "probe"} \X Nat)]

LEMMA ActorTypes ==
    ASSUME TypeOK, NEW p \in Actors, UNCHANGED gatewayVars,
           view' \in [Bridges -> Limits \cup {0}],
           \/ TakeFile(p)
           \/ Leave(p)
           \/ pc' = [pc EXCEPT ![p] = "waiting"] /\ UNCHANGED <<scan, lease>>
    PROVE  PlainTypes'
<1>. USE DEF PlainTypes, TypeOK, gatewayVars
<1>1. CASE TakeFile(p)
  BY <1>1, ActorFacts DEF TakeFile, Candidate
<1>2. CASE Leave(p)
  BY <1>2 DEF Leave
<1>3. CASE pc' = [pc EXCEPT ![p] = "waiting"] /\ UNCHANGED <<scan, lease>>
  BY <1>3
<1>. QED
  BY <1>1, <1>2, <1>3

LEMMA FileBusyTypes ==
    ASSUME TypeOK, NEW p \in Actors, FileBusy(p)
    PROVE  PlainTypes'
BY DEF FileBusy, PlainTypes, TypeOK, gatewayVars

LEMMA GatewayTypes ==
    ASSUME TypeOK, GatewayExit \/ \E m \in Limits : GatewayStart(m)
    PROVE  PlainTypes'
<1>1. CASE GatewayExit
  BY <1>1 DEF GatewayExit, PlainTypes, TypeOK
<1>2. CASE \E m \in Limits : GatewayStart(m)
  BY <1>2, StartsAssumption DEF GatewayStart, PlainTypes, TypeOK, poolVars
<1>. QED
  BY <1>1, <1>2

(* Every step of the system keeps the invariant.                            *)
LEMMA NextIInv == IInv /\ [Next]_vars => IInv'
<1>. SUFFICES ASSUME TypeOK, LeaseInv, QueueInv, AheadInv, CountersExact, [Next]_vars
              PROVE  PlainTypes' /\ LeaseInv' /\ QueueInv' /\ AheadInv' /\ CountersExact'
                     /\ queue' \in Seq(Ops) /\ waiting' \in Nat /\ active' \in Nat
                     /\ ahead' \in [Ops -> SUBSET Ops]
  BY DEF IInv, TypeOK, PlainTypes
<1>. view \in [Bridges -> Limits \cup {0}]
  BY DEF TypeOK
<1>1. ASSUME NEW o \in Ops, OpArrive(o)
      PROVE  PlainTypes' /\ LeaseInv'
  BY <1>1, ActorTypes, ArriveLease, ActorFacts DEF OpArrive, gatewayVars, Actors
<1>2. ASSUME NEW o \in Ops, OpAcquire(o)
      PROVE  PlainTypes' /\ LeaseInv'
  BY <1>2, ActorTypes, TakeFileLease DEF OpAcquire, gatewayVars, Actors
<1>3. ASSUME NEW o \in Ops, OpTimeout(o) \/ OpFinish(o)
      PROVE  PlainTypes' /\ LeaseInv'
  BY <1>3, ActorTypes, LeaveLease DEF OpTimeout, OpFinish, gatewayVars, Actors
<1>4. ASSUME NEW r \in Probers, ProbeStart(r)
      PROVE  PlainTypes' /\ LeaseInv' /\ UNCHANGED slotVars /\ \A o \in Ops : pc'[o] = pc[o]
  <2>1. r \in Actors /\ r \notin Bridges /\ r \notin Ops
    BY ActorFacts DEF Actors
  <2>2. PlainTypes' /\ LeaseInv'
    BY <1>4, <2>1, ActorTypes, ArriveLease DEF ProbeStart, gatewayVars
  <2>. QED
    BY <1>4, <2>1, <2>2 DEF ProbeStart, TypeOK, Actors
<1>5. ASSUME NEW r \in Probers, ProbeAcquire(r) \/ ProbeEnd(r)
      PROVE  PlainTypes' /\ LeaseInv' /\ UNCHANGED slotVars /\ \A o \in Ops : pc'[o] = pc[o]
  <2>1. r \in Actors /\ r \notin Ops
    BY ActorFacts DEF Actors
  <2>2. PlainTypes' /\ LeaseInv'
    BY <1>5, <2>1, ActorTypes, TakeFileLease, LeaveLease DEF ProbeAcquire, ProbeEnd, gatewayVars
  <2>. QED
    BY <1>5, <2>1, <2>2 DEF ProbeAcquire, ProbeEnd, TakeFile, Leave, TypeOK, Actors
<1>6. ASSUME NEW b \in Bridges, NEW m \in Limits, BridgeStart(b, m)
      PROVE  PlainTypes' /\ LeaseInv' /\ UNCHANGED slotVars /\ \A o \in Ops : pc'[o] = pc[o]
  <2>1. b \in Actors /\ b \notin Ops
    BY ActorFacts DEF Actors
  <2>2. PICK k \in Limits : k >= 3 /\ view' = [view EXCEPT ![b] = k]
    BY <1>6 DEF BridgeStart, TypeOK
  <2>3. view' \in [Bridges -> Limits \cup {0}] /\ k \in Nat
    BY <2>2, LimitsAssumption
  <2>4. PlainTypes' /\ LeaseInv'
    BY <1>6, <2>1, <2>2, <2>3, ActorTypes, ArriveLease DEF BridgeStart, gatewayVars
  <2>. QED
    BY <1>6, <2>1, <2>4 DEF BridgeStart, TypeOK, Actors
<1>7. ASSUME NEW b \in Bridges, BridgeAcquire(b) \/ BridgeExit(b)
      PROVE  PlainTypes' /\ LeaseInv' /\ UNCHANGED slotVars /\ \A o \in Ops : pc'[o] = pc[o]
  <2>1. b \in Actors /\ b \notin Ops
    BY ActorFacts DEF Actors
  <2>2. PlainTypes' /\ LeaseInv'
    BY <1>7, <2>1, ActorTypes, TakeFileLease, LeaveLease DEF BridgeAcquire, BridgeExit, gatewayVars
  <2>. QED
    BY <1>7, <2>1, <2>2 DEF BridgeAcquire, BridgeExit, TakeFile, Leave, TypeOK, Actors
<1>8. ASSUME NEW p \in Actors, FileBusy(p)
      PROVE  PlainTypes' /\ LeaseInv' /\ UNCHANGED slotVars /\ \A o \in Ops : pc'[o] = pc[o]
  <2>1. PlainTypes' /\ LeaseInv'
    BY <1>8, FileBusyTypes, FileBusyLease
  <2>. QED
    BY <1>8, <2>1 DEF FileBusy
<1>9. ASSUME NEW m \in Limits, GatewayStart(m)
      PROVE  PlainTypes' /\ LeaseInv' /\ UNCHANGED slotVars /\ \A o \in Ops : pc'[o] = pc[o]
  <2>1. PlainTypes' /\ LeaseInv'
    BY <1>9, GatewayTypes, GatewayLease
  <2>. QED
    BY <1>9, <2>1 DEF GatewayStart, poolVars
<1>10. CASE GatewayExit
  BY <1>10, GatewayTypes, GatewayLease, GatewayExitQueue, OthersAhead
<1>11. CASE UNCHANGED vars
  <2>1. PlainTypes' /\ UNCHANGED slotVars /\ \A o \in Ops : pc'[o] = pc[o]
    BY <1>11 DEF vars, poolVars, slotVars, gatewayVars, PlainTypes, TypeOK
  <2>2. LeaseInv'
    BY <1>11 DEF vars, poolVars, gatewayVars, LeaseInv, LeaseExclusive, PoolSize, File, NoFile
  <2>3. AheadInv' /\ ahead' \in [Ops -> SUBSET Ops]
    BY <1>11, OthersAhead DEF vars, slotVars
  <2>. QED
    BY <2>1, <2>2, <2>3, OthersQueue
<1>12. ASSUME NEW o \in Ops, OpArrive(o) \/ OpAcquire(o) \/ OpTimeout(o) \/ OpFinish(o)
       PROVE  QueueInv' /\ CountersExact'
              /\ queue' \in Seq(Ops) /\ waiting' \in Nat /\ active' \in Nat
  BY <1>12, ArriveQueue, AcquireQueue, TimeoutQueue, FinishQueue
<1>13. ASSUME NEW o \in Ops, OpArrive(o) \/ OpAcquire(o) \/ OpTimeout(o) \/ OpFinish(o)
       PROVE  AheadInv' /\ ahead' \in [Ops -> SUBSET Ops]
  BY <1>13, ArriveAhead, AcquireAhead, TimeoutAhead, OthersAhead DEF OpFinish
<1>14. UNCHANGED slotVars => AheadInv' /\ ahead' \in [Ops -> SUBSET Ops]
  BY OthersAhead DEF slotVars
<1>. QED
  BY <1>1, <1>2, <1>3, <1>4, <1>5, <1>6, <1>7, <1>8, <1>9, <1>10, <1>11, <1>12, <1>13, <1>14,
     OthersQueue, OthersAhead
     DEF Next

(* The invariant, in every state of every behaviour.                        *)
THEOREM Invariant == Spec => []IInv
<1>. QED
  BY InitIInv, NextIInv, PTL DEF Spec

(* The variables keep their types, the decremented counters included.       *)
THEOREM TypeCorrect == Spec => []TypeOK
<1>1. IInv => TypeOK
  BY DEF IInv
<1>. QED
  BY <1>1, Invariant, PTL

(* No two actors ever hold the same lease file.                             *)
THEOREM Exclusion == Spec => []LeaseExclusive
<1>1. IInv => LeaseExclusive
  BY DEF IInv, LeaseInv
<1>. QED
  BY <1>1, Invariant, PTL

(* The counters of status are the numbers of waiting and running operations.*)
THEOREM CountersCorrect == Spec => []CountersExact
<1>1. IInv => CountersExact
  BY DEF IInv
<1>. QED
  BY <1>1, Invariant, PTL

-----------------------------------------------------------------------------
(* The budget: the lease files number the sessions.                         *)

LEMMA ForceFacts ==
    ASSUME TypeOK
    PROVE  /\ budget \in Nat /\ budget \in InForce
           /\ \A b \in Bridges :
                 view[b] \in Nat /\ (pc[b] = "holding" => view[b] \in InForce)
<1>1. \A m \in Limits \cup {0} : m \in Nat
  BY LimitsAssumption
<1>2. budget \in Nat /\ \A b \in Bridges : view[b] \in Nat
  BY <1>1 DEF TypeOK
<1>. QED
  BY <1>2 DEF InForce

(* A set that fits one to one into a finite set is no larger than it.       *)
LEMMA InjectionBound ==
    ASSUME NEW S, NEW T, NEW f \in Injection(S, T), IsFiniteSet(T)
    PROVE  IsFiniteSet(S) /\ Cardinality(S) <= Cardinality(T)
BY FS_Injection

(* Whoever holds a session on behalf of a budget of at most m holds one of  *)
(* the files 0..m-2 of the slot prefix, so there are fewer than m of them.  *)
THEOREM WithinBudget == Spec => []SessionsWithinBudget
<1>1. IInv => SessionsWithinBudget
  <2>. SUFFICES ASSUME IInv, NEW m \in Limits, \A k \in InForce : k <= m
                PROVE  Cardinality(SessionHolders) < m
    BY DEF SessionsWithinBudget
  <2>. DEFINE number == [p \in SessionHolders |-> lease[p][2]]
  <2>1. m \in Nat /\ m >= 2
    BY LimitsAssumption
  <2>2. ASSUME NEW p \in SessionHolders
        PROVE  p \in Actors /\ lease[p] # NoFile
               /\ \E i \in 0..(m - 2) : lease[p] = <<"slot", i>>
    <3>1. p \in Actors /\ p \notin Probers /\ pc[p] = "holding"
      BY ActorFacts DEF SessionHolders, Actors
    <3>2. PICK i \in 0..(PoolSize(p) - 1) : lease[p] = <<"slot", i>>
      BY <3>1 DEF IInv, LeaseInv, File
    <3>3. PoolSize(p) \in Nat /\ PoolSize(p) <= m - 1
      <4>1. CASE p \in Ops
        <5>1. budget \in InForce /\ budget \in Nat
          BY ForceFacts DEF IInv
        <5>2. PoolSize(p) = budget - 1
          BY <4>1, ActorsAssumption DEF PoolSize
        <5>3. PoolSize(p) \in Nat
          BY <3>1 DEF IInv, LeaseInv
        <5>4. budget <= m
          BY <5>1, Zenon
        <5>. QED
          BY <2>1, <5>1, <5>2, <5>3, <5>4
      <4>2. CASE p \in Bridges
        <5>1. view[p] \in InForce /\ view[p] \in Nat /\ p \notin Ops
          BY <3>1, <4>2, ForceFacts, ActorFacts DEF IInv
        <5>2. PoolSize(p) = view[p] - 2
          BY <4>2, <5>1 DEF PoolSize, BridgePoolSize
        <5>3. PoolSize(p) \in Nat
          BY <3>1 DEF IInv, LeaseInv
        <5>4. view[p] <= m
          BY <5>1
        <5>. QED
          BY <2>1, <5>1, <5>2, <5>3, <5>4
      <4>. QED
        BY <4>1, <4>2 DEF SessionHolders
    <3>. QED
      BY <2>1, <3>1, <3>2, <3>3 DEF IInv, LeaseInv
  <2>3. number \in [SessionHolders -> 0..(m - 2)]
    <3>1. ASSUME NEW p \in SessionHolders
          PROVE  lease[p][2] \in 0..(m - 2)
      <4>1. PICK i \in 0..(m - 2) : lease[p] = <<"slot", i>>
        BY <2>2
      <4>. QED
        BY <4>1
    <3>. QED
      BY <3>1
  <2>4. ASSUME NEW p \in SessionHolders, NEW q \in SessionHolders, number[p] = number[q]
        PROVE  p = q
    <3>1. PICK i \in 0..(m - 2) : lease[p] = <<"slot", i>>
      BY <2>2
    <3>2. PICK j \in 0..(m - 2) : lease[q] = <<"slot", j>>
      BY <2>2
    <3>3. lease[p] = lease[q]
      BY <2>4, <3>1, <3>2
    <3>4. p \in Actors /\ q \in Actors /\ lease[p] # NoFile
      BY <2>2
    <3>. QED
      BY <3>3, <3>4 DEF IInv, LeaseInv, LeaseExclusive
  <2>. HIDE DEF number
  <2>5. number \in Injection(SessionHolders, 0..(m - 2))
    <3>1. DOMAIN number = SessionHolders
      BY <2>3
    <3>2. \A p, q \in DOMAIN number : number[p] = number[q] => p = q
      BY <2>4, <3>1, Zenon
    <3>. QED
      BY <2>3, <3>2, Zenon DEF Injection, IsInjective
  <2>6. IsFiniteSet(0..(m - 2)) /\ Cardinality(0..(m - 2)) = m - 1
    BY <2>1, FS_Interval
  <2>7. /\ IsFiniteSet(SessionHolders)
        /\ Cardinality(SessionHolders) <= Cardinality(0..(m - 2))
    BY <2>5, <2>6, InjectionBound
  <2>. QED
    BY <2>1, <2>6, <2>7, FS_CardinalityType
<1>. QED
  BY <1>1, Invariant, PTL

(* With bridges that count on no more than the gateway has, the last        *)
(* operation slot is nobody's but the gateway's.                            *)
THEOREM RoomForGateway == Spec => []BridgesLeaveRoom
<1>1. IInv => BridgesLeaveRoom
  <2>. SUFFICES ASSUME IInv, budget # 0, \A k \in InForce : k <= budget
                PROVE  \A b \in Bridges : lease[b] # <<"slot", budget - 2>>
    <3>1. IInv /\ budget # 0 => budget - 2 \in 0..(budget - 2)
      BY LimitsAssumption DEF IInv, TypeOK
    <3>. QED
      BY <3>1 DEF BridgesLeaveRoom
  <2>. SUFFICES ASSUME NEW b \in Bridges, lease[b] = <<"slot", budget - 2>>
                PROVE  FALSE
    OBVIOUS
  <2>1. lease[b] = <<"slot", budget - 2>>
    OBVIOUS
  <2>2. b \in Actors /\ b \notin Ops /\ b \notin Probers /\ pc[b] = "holding"
    BY <2>1, ActorFacts DEF Actors, IInv, LeaseInv, NoFile
  <2>3. view[b] \in Nat /\ view[b] <= budget /\ budget \in Nat
    <3>1. view[b] \in InForce /\ view[b] \in Nat /\ budget \in Nat
      BY <2>2, ForceFacts DEF IInv
    <3>. QED
      BY <3>1, Zenon
  <2>4. PICK i \in 0..(view[b] - 3) : lease[b] = <<"slot", i>>
    <3>1. PoolSize(b) = view[b] - 2
      BY <2>2 DEF PoolSize, BridgePoolSize
    <3>2. PICK i \in 0..(PoolSize(b) - 1) : lease[b] = File(b, i)
      BY <2>2 DEF IInv, LeaseInv
    <3>3. File(b, i) = <<"slot", i>>
      BY <2>2 DEF File
    <3>. QED
      BY <2>3, <3>1, <3>2, <3>3
  <2>5. i = budget - 2
    BY <2>1, <2>4
  <2>. QED
    BY <2>3, <2>4, <2>5
<1>. QED
  BY <1>1, Invariant, PTL

(* A probe waits for nobody but a probe.                                    *)
THEOREM ProbesNotCrowdedOut == Spec => []ProbesWaitForProbesOnly
<1>1. IInv => ProbesWaitForProbesOnly
  <2>. SUFFICES ASSUME IInv, NEW r \in Probers, NEW p \in Actors, lease[p] = Candidate(r)
                PROVE  p \in Probers
    BY DEF ProbesWaitForProbesOnly, Locked
  <2>1. r \in Actors /\ scan[r] \in Nat
    BY DEF Actors, IInv, TypeOK
  <2>2. lease[p] # NoFile /\ lease[p] = <<"probe", scan[r]>>
    BY <2>1 DEF Candidate, File, NoFile
  <2>3. PICK i \in 0..(PoolSize(p) - 1) : lease[p] = File(p, i)
    BY <2>2 DEF IInv, LeaseInv
  <2>. QED
    BY <2>2, <2>3 DEF File
<1>. QED
  BY <1>1, Invariant, PTL

(* When an operation is admitted, nobody who was waiting before it came     *)
(* still waits: the head of the queue has nobody in front of it, and who    *)
(* came earlier and waits would be in front.                                *)
THEOREM AdmittedInOrder == Spec => ArrivalOrder
<1>1. IInv /\ [Next]_vars =>
        [\A o \in Ops : pc[o] = "waiting" /\ pc'[o] = "holding" => ahead[o] = {}]_vars
  <2>. SUFFICES ASSUME IInv, [Next]_vars, NEW o \in Ops, pc[o] = "waiting", pc'[o] = "holding"
                PROVE  ahead[o] = {}
    OBVIOUS
  <2>. TypeOK
    BY DEF IInv
  <2>1. PICK p \in Actors : TakeFile(p) /\ pc'[o] = "holding"
    BY ActorFacts
       DEF Next, vars, poolVars, Actors, TypeOK, OpArrive, OpAcquire, OpTimeout, OpFinish, Leave,
           ProbeStart, ProbeAcquire, ProbeEnd, BridgeStart, BridgeAcquire, BridgeExit, FileBusy,
           GatewayStart, GatewayExit
  <2>2. p = o
    BY <2>1 DEF TakeFile, TypeOK
  <2>3. Head(queue) = o
    BY <2>1, <2>2 DEF TakeFile, Polls
  <2>4. PICK k \in 1..Len(queue) : queue[k] = o
    BY DEF IInv, QueueInv
  <2>5. 1 \in 1..Len(queue) /\ queue[1] = o
    BY <2>3, <2>4, LenProperties DEF TypeOK
  <2>6. \A q \in ahead[o] : \E j \in 1..Len(queue) : j < 1
    BY <2>5 DEF IInv, AheadInv
  <2>. QED
    BY <2>6
<1>. QED
  BY <1>1, Invariant, PTL DEF Spec, ArrivalOrder

=============================================================================
