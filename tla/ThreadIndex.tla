----------------------------- MODULE ThreadIndex -----------------------------
(***************************************************************************)
(* How a thread of the router learns which port it serves.                 *)
(*                                                                         *)
(* router.cpp starts one thread per neighbour and gives none of them its   *)
(* index: every thread increments a global counter under one mutex         *)
(* (bst_listen_on_port, bst_tx_disc_message_on_port,                       *)
(* bst_tx_ls_packet_on_port), then reads that counter again, through a     *)
(* pointer, under ANOTHER mutex, and takes what it reads as its index.     *)
(* The three counters lop_, tdmop_ and tlpop_thread_index follow the same  *)
(* protocol.  The listeners are started once (MaxRounds = 1).  The threads *)
(* that send Hello and link-state packets are started again each time a    *)
(* timer fires (disc_tx_timer_action, ls_tx_timer_action), which first     *)
(* resets the counter to -1 without taking any mutex.                      *)
(*                                                                         *)
(* A timer is itself a thread, that sleeps, starts the threads of the next *)
(* round and then the next timer.  No thread is joined or detached, so     *)
(* that each one that was created, ended or not, counts against what the   *)
(* system lets the process have.                                           *)
(***************************************************************************)
EXTENDS Integers, FiniteSets

CONSTANTS
  NumNeighbors,  \* num_neighbors: ports of this router, threads of a round
  MaxRounds,     \* bound on the rounds of threads that are started
  Limits,        \* how many threads the system may let a process create
  Sending        \* TRUE for the threads that send, FALSE for the listeners

ASSUME NumNeighborsAssumption == NumNeighbors \in Nat \ {0}
ASSUME MaxRoundsAssumption == MaxRounds \in Nat \ {0}
ASSUME LimitsAssumption == Limits \subseteq Nat
ASSUME SendingAssumption == Sending \in BOOLEAN

Ports == 0 .. NumNeighbors - 1

\* The thread <<r, i>> is the one that the i-th pthread_create of round r starts.
Threads == (1 .. MaxRounds) \X Ports

Free == <<0, 0>>   \* the value of mutex when no thread holds it

VARIABLES
  thread_index,  \* the global counter
  mutex,         \* holder of the mutex around the increment
  pc,            \* where each thread is
  reg,           \* the value a thread loaded in order to increment it
  tid,           \* tlocal_tid: the index a thread has taken
  round,         \* the round being started or last started
  spawned,       \* loop variable i of the pthread_create loop of that round
  timer,         \* the thread of the next timer is asleep
  created,       \* threads created by the process so far
  limit,         \* threads that the system lets it create
  proc,          \* the process: running, exited (exit(-1)), aborted (an index out
                 \* of range) or uncaught (the throw of startTimer)
  overlapped     \* history: a timer reset the counter while threads were at work

starting == <<round, spawned, timer, created, limit>>
vars == <<thread_index, mutex, pc, reg, tid, starting, proc, overlapped>>

\* A thread between its pthread_create and the point where it uses its port.
AtWork(t) == pc[t] \in {"start", "inc", "read", "log"}

\* The values that the counter, and what is read of it, can have.
Index == Nat \cup {-1}

TypeOK ==
  /\ thread_index \in Index
  /\ mutex \in Threads \cup {Free}
  /\ pc \in [Threads -> {"none", "start", "inc", "read", "log", "done"}]
  /\ reg \in [Threads -> Index]
  /\ tid \in [Threads -> Index]
  /\ round \in 1 .. MaxRounds
  /\ spawned \in 0 .. NumNeighbors
  /\ timer \in BOOLEAN
  /\ limit \in Limits
  /\ created \in 0 .. limit
  /\ proc \in {"running", "exited", "aborted", "uncaught"}
  /\ overlapped \in BOOLEAN

Init ==
  /\ thread_index = -1
  /\ mutex = Free
  /\ pc = [t \in Threads |-> "none"]
  /\ reg = [t \in Threads |-> 0]
  /\ tid = [t \in Threads |-> 0]
  /\ round = 1
  /\ spawned = 0
  /\ timer = FALSE
  /\ created = 0
  /\ limit \in Limits
  /\ proc = "running"
  /\ overlapped = FALSE

-----------------------------------------------------------------------------
(* The thread that starts a round: main for the first, a timer's after it. *)

Spawn_OneMore ==
  /\ proc = "running"
  /\ spawned <= NumNeighbors
  /\ created < limit
  /\ pc' = [pc EXCEPT ![<<round, spawned>>] = "start"]
  /\ spawned' = spawned + 1
  /\ created' = created + 1
  /\ UNCHANGED <<thread_index, mutex, reg, tid, round, timer, limit, proc, overlapped>>

\* pthread_create succeeds for the next port of the round.
Spawn ==
  /\ proc = "running"
  /\ spawned < NumNeighbors
  /\ created < limit
  /\ pc' = [pc EXCEPT ![<<round, spawned>>] = "start"]
  /\ spawned' = spawned + 1
  /\ created' = created + 1
  /\ UNCHANGED <<thread_index, mutex, reg, tid, round, timer, limit, proc, overlapped>>

\* pthread_create returns an error: the whole process exits.
SpawnFails ==
  /\ proc = "running"
  /\ spawned < NumNeighbors
  /\ created = limit
  /\ proc' = "exited"
  /\ UNCHANGED <<thread_index, mutex, pc, reg, tid, starting, overlapped>>

\* startTimer, once all the threads of the round are created.
StartTimer ==
  /\ proc = "running"
  /\ Sending /\ spawned = NumNeighbors /\ ~timer
  /\ created < limit
  /\ timer' = TRUE
  /\ created' = created + 1
  /\ UNCHANGED <<thread_index, mutex, pc, reg, tid, round, spawned, limit, proc, overlapped>>

StartTimerFails_Ignored ==
  /\ proc = "running"
  /\ Sending /\ spawned = NumNeighbors /\ ~timer
  /\ created = limit
  /\ UNCHANGED vars

\* startTimer throws, out of the constructor or out of the timer's own thread:
\* nothing catches it.
StartTimerFails ==
  /\ proc = "running"
  /\ Sending /\ spawned = NumNeighbors /\ ~timer
  /\ created = limit
  /\ proc' = "uncaught"
  /\ UNCHANGED <<thread_index, mutex, pc, reg, tid, starting, overlapped>>

\* The same process creates listeners, and the threads of its other timer.
OtherThread ==
  /\ proc = "running"
  /\ created < limit
  /\ created' = created + 1
  /\ UNCHANGED <<thread_index, mutex, pc, reg, tid, round, spawned, timer, limit, proc, overlapped>>

TimerFires_KeepsIndex ==
  /\ proc = "running"
  /\ timer
  /\ round < MaxRounds
  /\ timer' = FALSE
  /\ round' = round + 1
  /\ spawned' = 0
  /\ overlapped' = (overlapped \/ \E t \in Threads : AtWork(t))
  /\ UNCHANGED <<thread_index, mutex, pc, reg, tid, created, limit, proc>>

\* The timer started at the end of the previous round expires.  Nothing waits
\* for the threads of that round, and the reset takes no mutex.
TimerFires ==
  /\ proc = "running"
  /\ timer
  /\ round < MaxRounds
  /\ timer' = FALSE
  /\ thread_index' = -1
  /\ round' = round + 1
  /\ spawned' = 0
  /\ overlapped' = (overlapped \/ \E t \in Threads : AtWork(t))
  /\ UNCHANGED <<mutex, pc, reg, tid, created, limit, proc>>

-----------------------------------------------------------------------------
(* A started thread.  ++thread_index is a load and a store in the build:   *)
(* the mutex keeps other increments out of the gap, not the timer's reset. *)

LoadIndex_NoMutex(t) ==
  /\ proc = "running"
  /\ pc[t] = "start"
  /\ reg' = [reg EXCEPT ![t] = thread_index]
  /\ pc' = [pc EXCEPT ![t] = "inc"]
  /\ UNCHANGED <<thread_index, mutex, tid, starting, proc, overlapped>>

LoadIndex(t) ==
  /\ proc = "running"
  /\ pc[t] = "start"
  /\ mutex = Free
  /\ mutex' = t
  /\ reg' = [reg EXCEPT ![t] = thread_index]
  /\ pc' = [pc EXCEPT ![t] = "inc"]
  /\ UNCHANGED <<thread_index, tid, starting, proc, overlapped>>

StoreIndex_KeepsMutex(t) ==
  /\ proc = "running"
  /\ pc[t] = "inc"
  /\ thread_index' = reg[t] + 1
  /\ pc' = [pc EXCEPT ![t] = "read"]
  /\ UNCHANGED <<mutex, reg, tid, starting, proc, overlapped>>

StoreIndex(t) ==
  /\ proc = "running"
  /\ pc[t] = "inc"
  /\ thread_index' = reg[t] + 1
  /\ mutex' = Free
  /\ pc' = [pc EXCEPT ![t] = "read"]
  /\ UNCHANGED <<reg, tid, starting, proc, overlapped>>

\* tlocal_tid = *tid.  The second mutex only excludes other reads of one word,
\* so taking it, reading and releasing it is one step.
ReadIndex(t) ==
  /\ proc = "running"
  /\ pc[t] = "read"
  /\ tid' = [tid EXCEPT ![t] = thread_index]
  /\ pc' = [pc EXCEPT ![t] = "log"]
  /\ UNCHANGED <<thread_index, mutex, reg, starting, proc, overlapped>>

\* The indices that nbr_tbl.at() is called with for the thread's log line.
LogIndices(t) == IF Sending THEN {tid[t], thread_index} ELSE {tid[t]}

\* nbr_tbl.at(tlocal_tid): the thread goes on to its port (it listens on it,
\* or sends over it and ends) ...
UsePort(t) ==
  /\ proc = "running"
  /\ pc[t] = "log"
  /\ LogIndices(t) \subseteq Ports
  /\ pc' = [pc EXCEPT ![t] = "done"]
  /\ UNCHANGED <<thread_index, mutex, reg, tid, starting, proc, overlapped>>

\* ... or at() throws std::out_of_range, which no handler of the thread catches.
OutOfRange(t) ==
  /\ proc = "running"
  /\ pc[t] = "log"
  /\ ~(LogIndices(t) \subseteq Ports)
  /\ proc' = "aborted"
  /\ UNCHANGED <<thread_index, mutex, pc, reg, tid, starting, overlapped>>

ThreadStep(t) ==
  LoadIndex(t) \/ StoreIndex(t) \/ ReadIndex(t) \/ UsePort(t) \/ OutOfRange(t)

Next ==
  \/ Spawn \/ SpawnFails
  \/ StartTimer \/ StartTimerFails \/ TimerFires
  \/ OtherThread
  \/ \E t \in Threads : ThreadStep(t)

Spec == Init /\ [][Next]_vars

\* The kernel schedules every thread of the process, and the timer does expire.
\* Nothing is assumed of how the threads interleave.
FairSpec ==
  /\ Spec
  /\ WF_vars(Spawn \/ SpawnFails)
  /\ WF_vars(StartTimer \/ StartTimerFails)
  /\ WF_vars(TimerFires)
  /\ \A t \in Threads : SF_vars(LoadIndex(t)) /\ WF_vars(ThreadStep(t))

-----------------------------------------------------------------------------
(* Properties.                                                             *)

RoundThreads == {t \in Threads : t[1] = round}

\* Threads of the current round that have taken an index no greater than v.
Readers(v) == {t \in RoundThreads : pc[t] \in {"log", "done"} /\ tid[t] <= v}

\* nbr_tbl.at() never throws (the process never aborts) unless a timer fired
\* while threads of an earlier round had not yet come to use their port
\* (router.cpp:540, 566, 372 against the resets at 628 and 641).
AbortOnlyOnOverlap == proc = "aborted" => overlapped

\* However the increments and the reads interleave, at most v + 1 threads of a
\* round take an index in 0 .. v: the race piles threads up on later ports only.
LowPortsNotCrowded ==
  ~overlapped => \A v \in Ports : Cardinality(Readers(v)) <= v + 1

\* Once all the threads of a round have taken an index, the LAST port has one:
\* the port that the race can never leave without a thread.
LastPortServed ==
  (~overlapped /\ \A t \in RoundThreads : pc[t] = "done")
    => \E t \in RoundThreads : tid[t] = NumNeighbors - 1

\* Each port of a finished round has a thread: what the sources say of the
\* threads, and what the two-mutex protocol does not give.
EveryPortServed ==
  (~overlapped /\ \A t \in RoundThreads : pc[t] = "done")
    => \A p \in Ports : \E t \in RoundThreads : tid[t] = p

\* A started thread gets past the mutexes to its port, unless the process ends.
ThreadsGetThere ==
  \A t \in Threads : (pc[t] = "start") ~> (pc[t] = "done" \/ proc # "running")

\* Every loss of a Hello or of a link-state packet is made up for by a later round,
\* and by nothing else.  So the rounds never just stop: each is followed by the next,
\* whatever its threads do and however many the process has left, or else the whole
\* process ends (router.cpp:627-651, common.cpp:549-557).
RoundsGoOn ==
  \A k \in 1 .. MaxRounds - 1 :
    (Sending /\ round = k) ~> (round = k + 1 \/ proc # "running")
=============================================================================
