------------------------- MODULE ThreadIndexProofs -------------------------
(***************************************************************************)
(* Proofs about ThreadIndex, for every number of neighbours and of rounds. *)
(*                                                                         *)
(* The argument counts the threads of the current round that are past the  *)
(* increment (Counted).  As long as no timer has reset the counter under   *)
(* working threads, the counter is their number minus one; so what a       *)
(* thread reads is below NumNeighbors, and a thread that reads v was       *)
(* preceded by exactly v + 1 increments: no more than v + 1 threads of the *)
(* round can have read v or less.                                          *)
(***************************************************************************)
EXTENDS ThreadIndex, TLAPS, FiniteSetTheorems

USE NumNeighborsAssumption, MaxRoundsAssumption, LimitsAssumption, SendingAssumption

\* Threads of the current round that have incremented the counter.
Counted == {t \in RoundThreads : pc[t] \in {"read", "log", "done"}}

\* The threads that the loop of pthread_create has not reached do not exist.
NotStarted ==
  \A t \in Threads :
    (t[1] > round \/ (t[1] = round /\ t[2] >= spawned)) => pc[t] = "none"

\* Those that it has reached do.
Started ==
  \A t \in RoundThreads : t[2] < spawned => pc[t] # "none"

\* A timer is started when all the threads of its round are.
TimerLast == timer => spawned = NumNeighbors

\* The thread inside the increment holds the mutex.
MutexHeld == \A t \in Threads : pc[t] = "inc" => mutex = t

\* What holds until a timer resets the counter under working threads.
Counting ==
  /\ \A t \in Threads : t[1] < round => pc[t] = "done"
  /\ \A t \in Threads : pc[t] = "inc" => reg[t] = thread_index
  /\ thread_index = Cardinality(Counted) - 1
  /\ \A t \in RoundThreads : pc[t] \in {"log", "done"} => tid[t] \in 0 .. thread_index
  /\ LowPortsNotCrowded

IInv ==
  /\ TypeOK
  /\ NotStarted
  /\ Started
  /\ MutexHeld
  /\ TimerLast
  /\ ~overlapped => Counting
  /\ AbortOnlyOnOverlap
-----------------------------------------------------------------------------
(* Facts about the sets of threads.                                        *)

\* The threads of a round are as many as the ports.
LEMMA RoundSize ==
  ASSUME TypeOK
  PROVE  /\ RoundThreads = {round} \X Ports
         /\ IsFiniteSet(RoundThreads)
         /\ Cardinality(RoundThreads) = NumNeighbors
<1>1. RoundThreads = {round} \X Ports
  BY DEF RoundThreads, Threads, TypeOK
<1>2. IsFiniteSet(Ports) /\ Cardinality(Ports) = NumNeighbors
  BY FS_Interval DEF Ports
<1>3. IsFiniteSet({round}) /\ Cardinality({round}) = 1
  BY FS_Singleton
<1>4. /\ IsFiniteSet({round} \X Ports)
      /\ Cardinality({round} \X Ports) = 1 * NumNeighbors
  BY <1>2, <1>3, FS_Product
<1>5. QED
  BY <1>1, <1>4

\* A thread is of the current round, of an earlier or of a later one.
LEMMA ThreadParts ==
  ASSUME TypeOK, NEW t \in Threads
  PROVE  /\ t[1] \in Nat /\ t[2] \in Ports
         /\ (t[1] < round \/ t[1] = round \/ t[1] > round)
         /\ t[1] < round + 1 => (t[1] < round \/ t[1] = round)
<1>1. t[1] \in 1 .. MaxRounds /\ t[2] \in Ports
  BY DEF Threads
<1>2. round \in 1 .. MaxRounds
  BY DEF TypeOK
<1>3. QED
  BY <1>1, <1>2

\* Every set of threads of a round is finite and no larger than the ports.
LEMMA RoundSubset ==
  ASSUME TypeOK, NEW S \in SUBSET RoundThreads
  PROVE  /\ IsFiniteSet(S)
         /\ Cardinality(S) \in Nat
         /\ Cardinality(S) <= NumNeighbors
BY RoundSize, FS_Subset, FS_CardinalityType

-----------------------------------------------------------------------------
(* The inductive invariant.                                                *)

LEMMA InitInvariant == Init => IInv
<1> SUFFICES ASSUME Init PROVE IInv
  OBVIOUS
<1>1. TypeOK
  <2>1. 0 \in Index /\ -1 \in Index
    BY DEF Index
  <2>2. 1 \in 1 .. MaxRounds /\ 0 \in 0 .. NumNeighbors
    OBVIOUS
  <2>3. created \in 0 .. limit
    BY DEF Init
  <2>4. QED
    BY <2>1, <2>2, <2>3 DEF Init, TypeOK
<1>2. NotStarted /\ Started /\ MutexHeld /\ TimerLast /\ AbortOnlyOnOverlap
  BY DEF Init, TimerLast, NotStarted, Started, MutexHeld, AbortOnlyOnOverlap, RoundThreads,
         Threads, Ports
<1>3. Counted = {}
  BY DEF Init, Counted, RoundThreads, Threads
<1>4. \A v \in Ports : Readers(v) = {}
  BY DEF Init, Readers, RoundThreads, Threads
<1>5. Cardinality({}) = 0
  BY FS_EmptySet
<1>6. LowPortsNotCrowded
  BY <1>4, <1>5 DEF LowPortsNotCrowded, Ports
<1>7. Counting
  BY <1>3, <1>5, <1>6 DEF Init, Counting, Threads, RoundThreads
<1>8. QED
  BY <1>1, <1>2, <1>7 DEF IInv

LEMMA TypeStep == TypeOK /\ [Next]_vars => TypeOK'
<1> SUFFICES ASSUME TypeOK, [Next]_vars PROVE TypeOK'
  OBVIOUS
<1> USE DEF TypeOK, Index
<1>1. CASE Spawn
  BY <1>1 DEF Spawn, Threads, Ports
<1>2. CASE SpawnFails
  BY <1>2 DEF SpawnFails, starting
<1>3. CASE TimerFires
  <2>1. timer' \in BOOLEAN /\ overlapped' \in BOOLEAN
    BY <1>3 DEF TimerFires
  <2>2. round' \in 1 .. MaxRounds /\ spawned' \in 0 .. NumNeighbors /\ thread_index' \in Index
    BY <1>3 DEF TimerFires
  <2>3. QED
    BY <1>3, <2>1, <2>2 DEF TimerFires
<1>4. ASSUME NEW t \in Threads, LoadIndex(t) PROVE TypeOK'
  BY <1>4 DEF LoadIndex, starting
<1>5. ASSUME NEW t \in Threads, StoreIndex(t) PROVE TypeOK'
  BY <1>5 DEF StoreIndex, starting
<1>6. ASSUME NEW t \in Threads, ReadIndex(t) PROVE TypeOK'
  BY <1>6 DEF ReadIndex, starting
<1>7. ASSUME NEW t \in Threads, UsePort(t) PROVE TypeOK'
  BY <1>7 DEF UsePort, starting
<1>8. ASSUME NEW t \in Threads, OutOfRange(t) PROVE TypeOK'
  BY <1>8 DEF OutOfRange, starting
<1>9. CASE StartTimer
  BY <1>9 DEF StartTimer
<1>10. CASE StartTimerFails
  BY <1>10 DEF StartTimerFails, starting
<1>11. CASE OtherThread
  BY <1>11 DEF OtherThread
<1>12. CASE UNCHANGED vars
  BY <1>12 DEF vars, starting
<1>13. QED
  BY <1>1, <1>2, <1>3, <1>4, <1>5, <1>6, <1>7, <1>8, <1>9, <1>10, <1>11, <1>12
     DEF Next, ThreadStep

\* Where the threads are: what holds whether or not a timer came too early.
LEMMA PlacesStep ==
  TypeOK /\ NotStarted /\ Started /\ MutexHeld /\ TimerLast /\ [Next]_vars
    => (NotStarted /\ Started /\ MutexHeld /\ TimerLast)'
<1> SUFFICES ASSUME TypeOK, NotStarted, Started, MutexHeld, TimerLast, [Next]_vars
             PROVE  (NotStarted /\ Started /\ MutexHeld /\ TimerLast)'
  OBVIOUS
<1> USE DEF TypeOK, NotStarted, Started, MutexHeld, TimerLast, RoundThreads, Threads, Ports
<1>1. CASE Spawn
  BY <1>1 DEF Spawn
<1>2. CASE SpawnFails
  BY <1>2 DEF SpawnFails, starting
<1>3. CASE TimerFires
  BY <1>3 DEF TimerFires
<1>4. ASSUME NEW t \in Threads, LoadIndex(t)
      PROVE  (NotStarted /\ Started /\ MutexHeld /\ TimerLast)'
  BY <1>4 DEF LoadIndex, starting, Free
<1>5. ASSUME NEW t \in Threads, StoreIndex(t)
      PROVE  (NotStarted /\ Started /\ MutexHeld /\ TimerLast)'
  BY <1>5 DEF StoreIndex, starting
<1>6. ASSUME NEW t \in Threads, ReadIndex(t)
      PROVE  (NotStarted /\ Started /\ MutexHeld /\ TimerLast)'
  BY <1>6 DEF ReadIndex, starting
<1>7. ASSUME NEW t \in Threads, UsePort(t)
      PROVE  (NotStarted /\ Started /\ MutexHeld /\ TimerLast)'
  BY <1>7 DEF UsePort, starting
<1>8. ASSUME NEW t \in Threads, OutOfRange(t)
      PROVE  (NotStarted /\ Started /\ MutexHeld /\ TimerLast)'
  BY <1>8 DEF OutOfRange, starting
<1>9. CASE StartTimer
  BY <1>9 DEF StartTimer
<1>10. CASE StartTimerFails
  BY <1>10 DEF StartTimerFails, starting
<1>11. CASE OtherThread
  BY <1>11 DEF OtherThread
<1>12. CASE UNCHANGED vars
  BY <1>12 DEF vars, starting
<1>13. QED
  BY <1>1, <1>2, <1>3, <1>4, <1>5, <1>6, <1>7, <1>8, <1>9, <1>10, <1>11, <1>12
     DEF Next, ThreadStep
-----------------------------------------------------------------------------
(* What the counter counts.                                                *)

\* The threads that have read some index are among those counted.
LEMMA ReadersCounted ==
  ASSUME NEW v PROVE Readers(v) \subseteq Counted
BY DEF Readers, Counted

LEMMA CountedInRound == Counted \subseteq RoundThreads
BY DEF Counted

\* A step that leaves the sets of threads, and what they read, as they are.
LEMMA CountingStutter ==
  ASSUME TypeOK, Counting, ~overlapped,
         UNCHANGED <<thread_index, round>>,
         \A t \in Threads : t[1] < round => pc'[t] = "done",
         \A t \in Threads : pc'[t] = "inc" => reg'[t] = thread_index,
         Counted' = Counted,
         \A t \in RoundThreads :
           pc'[t] \in {"log", "done"} <=> pc[t] \in {"log", "done"},
         UNCHANGED tid
  PROVE  Counting'
<1>1. RoundThreads' = RoundThreads /\ Threads' = Threads
  BY DEF RoundThreads, Threads
<1>2. \A v \in Ports : Readers(v)' = Readers(v)
  BY <1>1 DEF Readers
<1>3. LowPortsNotCrowded'
  BY <1>2, <1>1 DEF LowPortsNotCrowded, Counting
<1>4. QED
  BY <1>1, <1>3 DEF Counting

LEMMA CountingStep ==
  IInv /\ [Next]_vars => (~overlapped' => Counting')
<1> SUFFICES ASSUME IInv, [Next]_vars, ~overlapped'
             PROVE  Counting'
  OBVIOUS
<1>1. TypeOK /\ NotStarted /\ Started /\ MutexHeld /\ TimerLast
  BY DEF IInv
<1>2. TypeOK'
  BY <1>1, TypeStep
<1>3. ~overlapped /\ Counting
  BY DEF IInv, Next, ThreadStep, vars, Spawn, SpawnFails, StartTimer, StartTimerFails,
         OtherThread, TimerFires, LoadIndex, StoreIndex, ReadIndex, UsePort, OutOfRange, TypeOK
<1>4. CASE Spawn
  <2>1. <<round, spawned>> \in Threads /\ pc[<<round, spawned>>] = "none"
    BY <1>1, <1>4 DEF Spawn, Threads, Ports, TypeOK, NotStarted
  <2>2. Counted' = Counted
    BY <1>1, <1>4, <2>1 DEF Spawn, Counted, RoundThreads, TypeOK
  <2>3. \A t \in Threads : t # <<round, spawned>> => pc'[t] = pc[t]
    BY <1>1, <1>4 DEF Spawn, TypeOK
  <2>4. pc'[<<round, spawned>>] = "start"
    BY <1>1, <1>4, <2>1 DEF Spawn, TypeOK
  <2>5. <<round, spawned>>[1] = round
    OBVIOUS
  <2>6. /\ \A t \in Threads : t[1] < round => pc'[t] = "done"
        /\ \A t \in Threads : pc'[t] = "inc" => reg'[t] = thread_index
        /\ \A t \in RoundThreads :
             pc'[t] \in {"log", "done"} <=> pc[t] \in {"log", "done"}
    BY <1>1, <1>3, <1>4, <2>1, <2>3, <2>4, <2>5
       DEF Spawn, Counting, RoundThreads, TypeOK
  <2>7. UNCHANGED <<thread_index, round, tid>>
    BY <1>4 DEF Spawn
  <2>8. QED
    BY <1>1, <1>3, <2>2, <2>6, <2>7, CountingStutter
<1>5. CASE SpawnFails
  <2>1. Counted' = Counted
    BY <1>5 DEF SpawnFails, starting, Counted, RoundThreads
  <2>2. QED
    BY <1>1, <1>3, <1>5, <2>1, CountingStutter DEF SpawnFails, starting, Counting
<1>6. CASE TimerFires
  <2>1. \A t \in Threads : t[1] > round => pc[t] = "none"
    BY <1>1 DEF NotStarted
  <2>2. \A t \in Threads : t[1] = round => pc[t] = "done"
    <3> SUFFICES ASSUME NEW t \in Threads, t[1] = round PROVE pc[t] = "done"
      OBVIOUS
    <3>1. t[2] < spawned
      BY <1>1, <1>6, ThreadParts DEF TimerFires, TimerLast, Ports
    <3>2. pc[t] # "none"
      BY <1>1, <3>1 DEF Started, RoundThreads
    <3>3. ~AtWork(t)
      BY <1>6 DEF TimerFires
    <3>4. QED
      BY <1>1, <3>2, <3>3 DEF AtWork, TypeOK
  <2>3. round' = round + 1 /\ pc' = pc /\ thread_index' = -1
    BY <1>6 DEF TimerFires
  <2>4. \A t \in Threads : t[1] < round' => pc'[t] = "done"
    BY <1>1, <1>3, <2>2, <2>3, ThreadParts DEF Counting
  <2>5. \A t \in RoundThreads' : pc'[t] = "none"
    BY <1>1, <2>1, <2>3 DEF RoundThreads, TypeOK
  <2>6. Counted' = {} /\ \A v \in Ports : Readers(v)' = {}
    BY <2>5 DEF Counted, Readers
  <2>7. Cardinality({}) = 0
    BY FS_EmptySet
  <2>8. \A t \in Threads : pc'[t] # "inc"
    BY <1>1, <2>3, <2>4, <2>5, <2>1 DEF Threads, RoundThreads, TypeOK
  <2>9. LowPortsNotCrowded'
    BY <2>6, <2>7 DEF LowPortsNotCrowded, Ports
  <2>10. QED
    BY <2>3, <2>4, <2>5, <2>6, <2>7, <2>8, <2>9 DEF Counting
<1>7. ASSUME NEW t \in Threads, LoadIndex(t) PROVE Counting'
  <2>1. Counted' = Counted
    BY <1>1, <1>7 DEF LoadIndex, starting, Counted, RoundThreads, TypeOK
  <2>2. QED
    BY <1>1, <1>3, <1>7, <2>1, CountingStutter
       DEF LoadIndex, starting, Counting, MutexHeld, RoundThreads, TypeOK, Free, Threads
<1>8. ASSUME NEW t \in Threads, StoreIndex(t) PROVE Counting'
  <2>1. t \in RoundThreads
    BY <1>1, <1>3, <1>8, ThreadParts DEF StoreIndex, starting, Counting, NotStarted, RoundThreads
  <2>2. Counted' = Counted \cup {t} /\ t \notin Counted
    BY <1>1, <1>8, <2>1 DEF StoreIndex, starting, Counted, RoundThreads, TypeOK
  <2>3. IsFiniteSet(Counted)
    BY <1>1, CountedInRound, RoundSubset
  <2>4. Cardinality(Counted') = Cardinality(Counted) + 1
    BY <2>2, <2>3, FS_AddElement
  <2>5. Cardinality(Counted) \in Nat
    BY <2>3, FS_CardinalityType
  <2>6. thread_index' = thread_index + 1
    BY <1>3, <1>8 DEF StoreIndex, starting, Counting
  <2>7. \A u \in Threads : pc'[u] # "inc"
    BY <1>1, <1>8 DEF StoreIndex, starting, MutexHeld, TypeOK
  <2>8. \A v \in Ports : Readers(v)' = Readers(v)
    BY <1>1, <1>8 DEF StoreIndex, starting, Readers, RoundThreads, TypeOK
  <2>9. LowPortsNotCrowded'
    BY <1>3, <2>8 DEF LowPortsNotCrowded, Counting
  <2>10. \A u \in RoundThreads : pc'[u] \in {"log", "done"} => tid'[u] \in 0 .. thread_index'
    <3>1. \A u \in RoundThreads : pc'[u] \in {"log", "done"} => pc[u] \in {"log", "done"}
      BY <1>1, <1>8 DEF StoreIndex, starting, RoundThreads, TypeOK
    <3>2. tid' = tid /\ thread_index \in Int
      BY <1>1, <1>8 DEF StoreIndex, starting, TypeOK, Index
    <3>3. QED
      BY <1>3, <2>6, <3>1, <3>2 DEF Counting
  <2>11. \A u \in Threads : u[1] < round' => pc'[u] = "done"
    BY <1>1, <1>3, <1>8 DEF StoreIndex, starting, Counting, TypeOK
  <2>12. RoundThreads' = RoundThreads
    BY <1>8 DEF StoreIndex, starting, RoundThreads
  <2>13. QED
    BY <1>3, <2>4, <2>5, <2>6, <2>7, <2>9, <2>10, <2>11, <2>12 DEF Counting
<1>9. ASSUME NEW t \in Threads, ReadIndex(t) PROVE Counting'
  <2>1. t \in RoundThreads
    BY <1>1, <1>3, <1>9, ThreadParts DEF ReadIndex, starting, Counting, NotStarted, RoundThreads
  <2>2. RoundThreads' = RoundThreads /\ thread_index' = thread_index
    BY <1>9 DEF ReadIndex, starting, RoundThreads
  <2>3. Counted' = Counted /\ t \in Counted
    BY <1>1, <1>9, <2>1 DEF ReadIndex, starting, Counted, RoundThreads, TypeOK
  <2>4. IsFiniteSet(Counted) /\ Cardinality(Counted) \in Nat
    BY <1>1, CountedInRound, RoundSubset
  <2>5. thread_index \in Nat /\ thread_index = Cardinality(Counted) - 1
    <3>1. Cardinality(Counted) # 0
      BY <2>3, <2>4, FS_EmptySet
    <3>2. QED
      BY <1>3, <2>4, <3>1 DEF Counting
  <2>6. \A u \in RoundThreads : pc'[u] \in {"log", "done"} => tid'[u] \in 0 .. thread_index
    BY <1>1, <1>3, <1>9, <2>5 DEF ReadIndex, starting, Counting, RoundThreads, TypeOK
  <2>7. ASSUME NEW v \in Ports PROVE Cardinality(Readers(v)') <= v + 1
    <3>1. CASE v >= thread_index
      <4>1. Readers(v)' \subseteq Counted
        BY <2>3, ReadersCounted DEF Readers, Counted
      <4>2. Cardinality(Readers(v)') \in Nat /\ Cardinality(Readers(v)') <= Cardinality(Counted)
        BY <2>4, <4>1, FS_Subset, FS_CardinalityType
      <4>3. QED
        BY <2>4, <2>5, <3>1, <4>2 DEF Ports
    <3>2. CASE v < thread_index
      <4>1. Readers(v)' = Readers(v)
        BY <1>1, <1>9, <2>1, <2>5, <3>2 DEF ReadIndex, starting, Readers, RoundThreads, TypeOK, Ports
      <4>2. QED
        BY <1>3, <4>1 DEF Counting, LowPortsNotCrowded
    <3>3. QED
      BY <2>5, <3>1, <3>2 DEF Ports
  <2>8. LowPortsNotCrowded'
    BY <2>7 DEF LowPortsNotCrowded
  <2>9. /\ \A u \in Threads : u[1] < round' => pc'[u] = "done"
        /\ \A u \in Threads : pc'[u] = "inc" => reg'[u] = thread_index'
    BY <1>1, <1>3, <1>9, <2>1 DEF ReadIndex, starting, Counting, RoundThreads, TypeOK
  <2>10. QED
    BY <1>3, <2>2, <2>3, <2>6, <2>8, <2>9 DEF Counting
<1>10. ASSUME NEW t \in Threads, UsePort(t) PROVE Counting'
  <2>1. Counted' = Counted
    BY <1>1, <1>10 DEF UsePort, starting, Counted, RoundThreads, TypeOK
  <2>2. QED
    BY <1>1, <1>3, <1>10, <2>1, CountingStutter DEF UsePort, starting, Counting, RoundThreads, TypeOK
<1>11. ASSUME NEW t \in Threads, OutOfRange(t) PROVE Counting'
  <2>1. Counted' = Counted
    BY <1>11 DEF OutOfRange, starting, Counted, RoundThreads
  <2>2. QED
    BY <1>1, <1>3, <1>11, <2>1, CountingStutter DEF OutOfRange, starting, Counting
<1>12. CASE StartTimer
  <2>1. Counted' = Counted
    BY <1>12 DEF StartTimer, Counted, RoundThreads
  <2>2. QED
    BY <1>1, <1>3, <1>12, <2>1, CountingStutter DEF StartTimer, Counting
<1>13. CASE StartTimerFails
  <2>1. Counted' = Counted
    BY <1>13 DEF StartTimerFails, starting, Counted, RoundThreads
  <2>2. QED
    BY <1>1, <1>3, <1>13, <2>1, CountingStutter DEF StartTimerFails, starting, Counting
<1>14. CASE OtherThread
  <2>1. Counted' = Counted
    BY <1>14 DEF OtherThread, Counted, RoundThreads
  <2>2. QED
    BY <1>1, <1>3, <1>14, <2>1, CountingStutter DEF OtherThread, Counting
<1>15. CASE UNCHANGED vars
  <2>1. Counted' = Counted
    BY <1>15 DEF vars, starting, Counted, RoundThreads
  <2>2. QED
    BY <1>1, <1>3, <1>15, <2>1, CountingStutter DEF vars, starting, Counting
<1>16. QED
  BY <1>4, <1>5, <1>6, <1>7, <1>8, <1>9, <1>10, <1>11, <1>12, <1>13, <1>14, <1>15
     DEF Next, ThreadStep

\* A thread that reaches its port without overlap has a port to reach.
LEMMA IndexInRange ==
  ASSUME IInv, ~overlapped, NEW t \in Threads, pc[t] = "log"
  PROVE  LogIndices(t) \subseteq Ports
<1>1. TypeOK /\ NotStarted /\ Counting
  BY DEF IInv
<1>2. t \in RoundThreads
  BY <1>1, ThreadParts DEF Counting, NotStarted, RoundThreads
<1>3. Cardinality(Counted) \in Nat /\ Cardinality(Counted) <= NumNeighbors
  BY <1>1, CountedInRound, RoundSubset
<1>4. tid[t] \in 0 .. thread_index
  BY <1>1, <1>2 DEF Counting
<1>5. thread_index \in Int /\ thread_index <= NumNeighbors - 1
  BY <1>1, <1>3 DEF Counting
<1>6. thread_index \in Ports /\ tid[t] \in Ports
  BY <1>4, <1>5 DEF Ports
<1>7. QED
  BY <1>6 DEF LogIndices

LEMMA InvariantStep == IInv /\ [Next]_vars => IInv'
<1> SUFFICES ASSUME IInv, [Next]_vars PROVE IInv'
  OBVIOUS
<1>1. TypeOK' /\ (NotStarted /\ Started /\ MutexHeld /\ TimerLast)'
  BY TypeStep, PlacesStep DEF IInv
<1>2. ~overlapped' => Counting'
  BY CountingStep
<1>3. AbortOnlyOnOverlap'
  <2>1. ASSUME NEW t \in Threads, OutOfRange(t) PROVE overlapped
    BY <2>1, IndexInRange DEF OutOfRange
  <2>2. QED
    BY <2>1 DEF IInv, AbortOnlyOnOverlap, Next, ThreadStep, vars, Spawn, SpawnFails,
         StartTimer, StartTimerFails, OtherThread, TimerFires, LoadIndex, StoreIndex,
         ReadIndex, UsePort, OutOfRange
<1>4. QED
  BY <1>1, <1>2, <1>3 DEF IInv

-----------------------------------------------------------------------------
(* The theorems.                                                           *)

THEOREM Invariance == Spec => []IInv
<1>1. QED
  BY InitInvariant, InvariantStep, PTL DEF Spec

\* The counter, the mutex and the threads only take the values TypeOK names.
THEOREM TypeCorrect == Spec => []TypeOK
<1>1. IInv => TypeOK
  BY DEF IInv
<1>2. QED
  BY <1>1, Invariance, PTL

\* For every number of ports and of rounds: nbr_tbl.at() (router.cpp:372, 540,
\* 566) throws only when a timer reset the counter (628, 641) under threads that
\* were still on their way to their ports.
THEOREM NoAbortWithoutOverlap == Spec => []AbortOnlyOnOverlap
<1>1. IInv => AbortOnlyOnOverlap
  BY DEF IInv
<1>2. QED
  BY <1>1, Invariance, PTL

\* For every number of ports: at most v + 1 threads of a round take an index in
\* 0 .. v (router.cpp:360-371).
THEOREM LowPorts == Spec => []LowPortsNotCrowded
<1>1. IInv => LowPortsNotCrowded
  BY DEF IInv, Counting, LowPortsNotCrowded
<1>2. QED
  BY <1>1, Invariance, PTL

\* For every number of ports: when the threads of a round all have an index, one
\* of them has the last port (router.cpp:360-371).
THEOREM LastPort == Spec => []LastPortServed
<1>1. IInv => LastPortServed
  <2> SUFFICES ASSUME IInv, ~overlapped, \A t \in RoundThreads : pc[t] = "done"
               PROVE  \E t \in RoundThreads : tid[t] = NumNeighbors - 1
    BY DEF LastPortServed
  <2>1. TypeOK /\ Counting
    BY DEF IInv
  <2>2. Counted = RoundThreads
    BY DEF Counted
  <2>3. thread_index = NumNeighbors - 1
    BY <2>1, <2>2, RoundSize DEF Counting
  <2>4. \A t \in RoundThreads : tid[t] \in 0 .. NumNeighbors - 1
    BY <2>1, <2>3 DEF Counting
  <2>5. CASE NumNeighbors = 1
    <3>1. <<round, 0>> \in RoundThreads
      BY <2>1, <2>5 DEF RoundThreads, Threads, Ports, TypeOK
    <3>2. QED
      BY <2>4, <2>5, <3>1
  <2>6. CASE NumNeighbors > 1
    <3> DEFINE v == NumNeighbors - 2
    <3>1. v \in Ports
      BY <2>6 DEF Ports
    <3>2. Cardinality(Readers(v)) <= NumNeighbors - 1
      BY <2>1, <3>1 DEF Counting, LowPortsNotCrowded
    <3>3. Readers(v) # RoundThreads
      BY <2>1, <3>2, RoundSize
    <3>4. PICK t \in RoundThreads : t \notin Readers(v)
      BY <3>3 DEF Readers
    <3>5. ~(tid[t] <= v)
      BY <3>4 DEF Readers
    <3>6. QED
      BY <2>4, <2>6, <3>4, <3>5
  <2>7. QED
    BY <2>5, <2>6
<1>2. QED
  BY <1>1, Invariance, PTL
=============================================================================
