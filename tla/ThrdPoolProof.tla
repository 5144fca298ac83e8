---------------------------- MODULE ThrdPoolProof ----------------------------
(***************************************************************************)
(* Proofs about the thread pool, for any number of threads and tasks and   *)
(* for any programs of the callers that keep to what the end of module     *)
(* ThrdPool asks of them.                                                  *)
(*                                                                         *)
(* The count is right because a thread enters and leaves it with the mutex *)
(* held; the thread that destroys the pool goes on only when the count is  *)
(* zero, so no worker is left in the pool.  The joins form a chain: the    *)
(* exited workers are the least set that contains tid and, with each       *)
(* worker, the one it joins.  A worker ends after the one it joins, so     *)
(* when tid has ended, all have.                                           *)
(***************************************************************************)
EXTENDS ThrdPool, FiniteSetTheorems, SequenceTheorems, TLAPS

-----------------------------------------------------------------------------
(* The inductive invariants.                                               *)

Pcs == InCall \cup {"none", "loop", "get", "exit", "join", "dead"}

\* The types, before anything is known about the sign of nthreads.
BaseTypes ==
    /\ getq \in Seq(Tasks \cup {EXIT}) /\ putq \in Seq(Tasks \cup {EXIT})
    /\ nonblock \in BOOLEAN /\ stop \in BOOLEAN /\ bad \in BOOLEAN
    /\ nthreads \in Int /\ created \in Nat
    /\ tid \in Workers \cup {NULL}
    /\ mutex \in Threads \cup {NULL}
    /\ pc \in [Threads -> Pcs]
    /\ prog \in [Threads -> Seq(Calls)]
    /\ program \in [Tasks -> Seq(Calls)]
    /\ joinee \in [Workers -> Workers \cup {NULL}]
    /\ joined \in [Workers -> Nat]
    /\ detached \in SUBSET Workers
    /\ accepted \in SUBSET Tasks
    /\ ran \in SUBSET Tasks /\ pending \in SUBSET Tasks
    /\ freed \in SUBSET {"queue", "pool"}

\* A thread inside a call has that call in its program.
InsideCall == \A t \in Threads : pc[t] \in InCall \ {"call"} => prog[t] # <<>>

\* The mutex is kept between two actions by a thread in increase only.
MutexHeld == \A t \in Threads : pc[t] = "inc" <=> mutex = t

Base == BaseTypes /\ InsideCall /\ MutexHeld

\* ThreadAccounting, with the thread being created told by the mutex: it stays
\* in the pool until it is counted.
Counted ==
    /\ nthreads = created + Cardinality(Present) - (IF mutex = NULL THEN 0 ELSE 1)
    /\ mutex # NULL => Present # {}

\* The thread that destroys the pool, and what it finds.
Closing(t) == pc[t] \in {"term_wait", "term_wake", "term_join", "drain"}

OneCloser ==
    /\ \A t, u \in Threads : Closing(t) /\ Closing(u) => t = u
    /\ (\E t \in Threads : Closing(t)) <=> stop /\ "queue" \notin freed
    /\ stop => mutex = NULL
    /\ "queue" \in freed => stop
    /\ "pool" \in freed => "queue" \in freed
    /\ \A v, w \in detached : v = w
    /\ \A w \in detached :
          /\ stop
          /\ Closing(w) \/ ("queue" \in freed /\ pc[w] \in {"call", "dead"})
          /\ pc[w] = "call" => "pool" \notin freed
    /\ \A w \in Workers : Closing(w) => w \in detached
    /\ (\E t \in Threads : pc[t] \in {"term_join", "drain"}) \/ "queue" \in freed =>
          nthreads = 0

\* The workers that were left to be joined, and whether the last one was.
Exited == {w \in Workers : pc[w] \in {"join", "dead"}} \ detached
LastJoined == "queue" \in freed \/ \E t \in Threads : pc[t] = "drain"

JoinChain ==
    /\ tid = NULL => Exited = {}
    /\ tid # NULL => tid \in Exited
    /\ \A v \in Exited : joinee[v] # NULL => joinee[v] \in Exited \ {tid}
    /\ \A v, w \in Exited : joinee[v] # NULL /\ joinee[v] = joinee[w] => v = w
    /\ \A w \in Exited : w # tid => \E v \in Exited : joinee[v] = w
    /\ \A w \in Workers :
          /\ joined[w] \in {0, 1}
          /\ joined[w] = 1 <=> \/ \E v \in Exited : pc[v] = "dead" /\ joinee[v] = w
                               \/ w = tid /\ LastJoined
    /\ \A v \in Exited : pc[v] = "dead" /\ joinee[v] # NULL => pc[joinee[v]] = "dead"
    /\ tid # NULL /\ LastJoined => pc[tid] = "dead"
    /\ \A S \in SUBSET Workers :
          /\ tid \in S
          /\ \A v \in S \cap Exited : joinee[v] # NULL => joinee[v] \in S
          => Exited \subseteq S

Shutdown == Counted /\ OneCloser /\ JoinChain

PoolInv == Base /\ Shutdown

-----------------------------------------------------------------------------
(* What needs no hypothesis.                                               *)

LEMMA PoolBasics ==
    /\ Apps \subseteq Threads /\ Workers \subseteq Threads
    /\ NULL \notin Threads /\ NULL \notin Workers
    /\ EXIT \notin Tasks
  BY PoolAssumption DEF Threads

LEMMA CallReturns ==
    ASSUME Base, NEW t \in Threads, prog[t] # <<>>, Returns(t)
    PROVE  /\ pc' \in [Threads -> Pcs]
           /\ prog' \in [Threads -> Seq(Calls)]
           /\ \A u \in Threads : pc'[u] = IF u = t THEN "call" ELSE pc[u]
           /\ \A u \in Threads : u # t => prog'[u] = prog[u]
  BY HeadTailProperties DEF Returns, Base, BaseTypes, Pcs, InCall

\* The lists of the queue after a get.
LEMMA TakeTypes ==
    ASSUME Base, ~QueueEmpty, TakeFront
    PROVE  /\ getq' \in Seq(Tasks \cup {EXIT}) /\ putq' \in Seq(Tasks \cup {EXIT})
           /\ nonblock' = nonblock
           /\ Front \in Tasks \cup {EXIT}
<1> DEFINE E == Tasks \cup {EXIT}
<1>1. getq \in Seq(E) /\ putq \in Seq(E) /\ <<>> \in Seq(E)
  BY DEF Base, BaseTypes
<1> HIDE DEF E
<1>2. \A q \in Seq(E) : q # <<>> => Head(q) \in E /\ Tail(q) \in Seq(E)
  BY HeadTailProperties
<1>3. CASE getq # <<>>
  BY <1>1, <1>2, <1>3 DEF TakeFront, Front, E
<1>4. CASE getq = <<>>
  <2>1. putq # <<>>
    BY <1>4 DEF QueueEmpty
  <2> QED BY <1>1, <1>2, <1>4, <2>1 DEF TakeFront, Front, E
<1> QED BY <1>3, <1>4

LEMMA UsesType == ASSUME NEW S, Uses(S) PROVE bad' \in BOOLEAN
  BY DEF Uses

\* In the initial state nobody is inside a call and the mutex is free.
LEMMA BaseInit == Init => Base
<1> SUFFICES ASSUME Init PROVE Base
  OBVIOUS
<1>1. PICK p \in Programs :
          /\ created = p.nthreads
          /\ prog = [t \in Threads |-> IF t \in Apps THEN p.calls[t] ELSE <<>>]
          /\ program = [m \in Tasks |-> p.calls[m]]
  BY DEF Init
<1>2. /\ created \in Nat /\ prog \in [Threads -> Seq(Calls)]
      /\ program \in [Tasks -> Seq(Calls)]
  BY <1>1, PoolAssumption, EmptySeq
<1>3. \A t \in Threads : pc[t] \in {"call", "none"}
  BY DEF Init
<1>4. pc \in [Threads -> Pcs]
  BY DEF Init, Pcs, InCall
<1>5. getq \in Seq(Tasks \cup {EXIT}) /\ putq \in Seq(Tasks \cup {EXIT})
  BY DEF Init
<1>6. /\ nonblock \in BOOLEAN /\ stop \in BOOLEAN /\ bad \in BOOLEAN
      /\ nthreads \in Int /\ tid \in Workers \cup {NULL}
      /\ mutex \in Threads \cup {NULL}
  <2>1. nonblock = FALSE /\ stop = FALSE /\ bad = FALSE
    BY DEF Init
  <2>2. nthreads = created /\ tid = NULL /\ mutex = NULL
    BY DEF Init
  <2>3. nthreads \in Int
    BY <1>2, <2>2
  <2> QED BY <2>1, <2>2, <2>3
<1>7. joinee \in [Workers -> Workers \cup {NULL}] /\ joined \in [Workers -> Nat]
  BY DEF Init
<1>8. /\ detached \in SUBSET Workers /\ accepted \in SUBSET Tasks
      /\ ran \in SUBSET Tasks /\ pending \in SUBSET Tasks
      /\ freed \in SUBSET {"queue", "pool"}
  BY DEF Init
<1>9. BaseTypes
  BY <1>2, <1>4, <1>5, <1>6, <1>7, <1>8 DEF BaseTypes
<1>10. mutex = NULL
  BY DEF Init
<1> QED BY <1>3, <1>9, <1>10, PoolBasics DEF Base, InsideCall, MutexHeld, InCall

-----------------------------------------------------------------------------
(* Base is preserved by every step.                                        *)

\* What a step leaves alone when only calls and the queue are concerned.
Kept == UNCHANGED <<nthreads, tid, stop, mutex, created, program, joinee, joined,
                    detached, freed>>

LEMMA BaseSchedule ==
    ASSUME Base, NEW t \in Threads, NEW m \in Tasks, thrdpool_schedule(t, m)
    PROVE  Base'
<1>1. Kept /\ UNCHANGED <<getq, nonblock, ran, pending>>
  BY DEF thrdpool_schedule, Kept, pool, ends, queue
<1>2. prog[t] # <<>> /\ pc[t] \in {"call", "put_wake"}
  BY DEF thrdpool_schedule, Calling, Base, InsideCall, InCall
<1>3. bad' \in BOOLEAN
  BY UsesType DEF thrdpool_schedule
<1>4. CASE PutWaits /\ pc' = [pc EXCEPT ![t] = "put_wait"]
           /\ UNCHANGED <<queue, prog, accepted>>
  BY <1>1, <1>2, <1>3, <1>4, PoolBasics
  DEF Kept, Base, BaseTypes, InsideCall, MutexHeld, Pcs, InCall, queue
<1>5. CASE putq' = Append(putq, m) /\ accepted' = accepted \cup {m} /\ Returns(t)
  <2>1. putq' \in Seq(Tasks \cup {EXIT})
    BY <1>5, AppendProperties DEF Base, BaseTypes
  <2>2. accepted' \in SUBSET Tasks
    BY <1>5 DEF Base, BaseTypes
  <2> QED BY <1>1, <1>2, <1>3, <1>5, <2>1, <2>2, CallReturns, PoolBasics
          DEF Kept, Base, BaseTypes, InsideCall, MutexHeld, InCall
<1> QED BY <1>4, <1>5 DEF thrdpool_schedule

LEMMA BaseDecrease ==
    ASSUME Base, NEW t \in Threads, thrdpool_decrease(t)
    PROVE  Base'
<1>1. Kept /\ UNCHANGED <<nonblock, accepted, ran, pending>>
  BY DEF thrdpool_decrease, Kept, pool, ends, queue, tasks
<1>2. prog[t] # <<>> /\ pc[t] \in {"call", "ph_wake"}
  BY DEF thrdpool_decrease, Calling, Base, InsideCall, InCall
<1>3. bad' \in BOOLEAN
  BY UsesType DEF thrdpool_decrease
<1>4. CASE pc' = [pc EXCEPT ![t] = "ph_wait"] /\ UNCHANGED <<queue, prog>>
  BY <1>1, <1>2, <1>3, <1>4, PoolBasics
  DEF Kept, Base, BaseTypes, InsideCall, MutexHeld, Pcs, InCall, queue
<1>5. CASE \/ getq' = <<EXIT>> \o getq /\ Returns(t) /\ UNCHANGED putq
           \/ putq' = <<EXIT>> \o putq /\ Returns(t) /\ UNCHANGED getq
  <2>1. \A q \in Seq(Tasks \cup {EXIT}) : <<EXIT>> \o q \in Seq(Tasks \cup {EXIT})
    BY ConcatProperties
  <2>2. getq' \in Seq(Tasks \cup {EXIT}) /\ putq' \in Seq(Tasks \cup {EXIT})
    BY <1>5, <2>1 DEF Base, BaseTypes
  <2> QED BY <1>1, <1>2, <1>3, <1>5, <2>2, CallReturns, PoolBasics
          DEF Kept, Base, BaseTypes, InsideCall, MutexHeld, InCall
<1> QED BY <1>4, <1>5 DEF thrdpool_decrease

LEMMA BaseIncrease ==
    ASSUME Base, NEW t \in Threads, thrdpool_increase(t)
    PROVE  Base'
<1>1. UNCHANGED <<queue, nthreads, tid, stop, ends, tasks, freed>>
  BY DEF thrdpool_increase
<1>2. prog[t] # <<>> /\ pc[t] = "call" /\ mutex = NULL
  BY DEF thrdpool_increase, Calling
<1>3. bad' \in BOOLEAN
  BY UsesType DEF thrdpool_increase
<1>4. ASSUME NEW w \in Workers, pc[w] = "none",
             pc' = [pc EXCEPT ![t] = "inc", ![w] = "loop"],
             mutex' = t, UNCHANGED prog
      PROVE  Base'
  <2>1. w # t /\ w \in Threads
    BY <1>2, <1>4, PoolBasics
  <2>2. /\ pc' \in [Threads -> Pcs]
        /\ \A u \in Threads : pc'[u] = IF u = t THEN "inc" ELSE IF u = w THEN "loop" ELSE pc[u]
    BY <1>4, <2>1 DEF Base, BaseTypes, Pcs, InCall
  <2>3. BaseTypes'
    BY <1>1, <1>3, <1>4, <2>2 DEF Base, BaseTypes, queue, ends, tasks
  <2>4. InsideCall'
    BY <1>2, <1>4, <2>2 DEF Base, InsideCall, InCall
  <2>5. MutexHeld'
    BY <1>2, <1>4, <2>1, <2>2, PoolBasics DEF Base, MutexHeld
  <2> QED BY <2>3, <2>4, <2>5 DEF Base
<1>5. CASE Returns(t) /\ UNCHANGED mutex
  <2>1. /\ pc' \in [Threads -> Pcs] /\ prog' \in [Threads -> Seq(Calls)]
        /\ \A u \in Threads : pc'[u] = IF u = t THEN "call" ELSE pc[u]
        /\ \A u \in Threads : u # t => prog'[u] = prog[u]
    BY <1>2, <1>5, CallReturns
  <2>2. BaseTypes'
    BY <1>1, <1>3, <1>5, <2>1 DEF Base, BaseTypes, queue, ends, tasks
  <2> QED BY <1>2, <1>5, <2>1, <2>2, PoolBasics DEF Base, InsideCall, MutexHeld, InCall
<1> QED BY <1>4, <1>5 DEF thrdpool_increase

LEMMA BaseIncreaseCount ==
    ASSUME Base, NEW t \in Threads, thrdpool_increase_count(t)
    PROVE  Base'
<1>1. UNCHANGED <<queue, tid, stop, ends, tasks, freed>> /\ nthreads' = nthreads + 1
      /\ mutex' = NULL /\ Returns(t)
  BY DEF thrdpool_increase_count
<1>2. prog[t] # <<>> /\ pc[t] = "inc" /\ mutex = t
  BY DEF thrdpool_increase_count, Base, InsideCall, MutexHeld, InCall
<1>3. bad' \in BOOLEAN
  BY UsesType DEF thrdpool_increase_count
<1>4. /\ pc' \in [Threads -> Pcs] /\ prog' \in [Threads -> Seq(Calls)]
      /\ \A u \in Threads : pc'[u] = IF u = t THEN "call" ELSE pc[u]
      /\ \A u \in Threads : u # t => prog'[u] = prog[u]
  BY <1>1, <1>2, CallReturns
<1>5. BaseTypes'
  BY <1>1, <1>3, <1>4 DEF Base, BaseTypes, queue, ends, tasks
<1> QED BY <1>1, <1>2, <1>4, <1>5, PoolBasics DEF Base, InsideCall, MutexHeld, InCall

LEMMA BaseExit ==
    ASSUME Base, NEW t \in Threads, thrdpool_exit(t)
    PROVE  Base'
<1>1. UNCHANGED <<queue, pool, ends, tasks, freed, bad>>
  BY DEF thrdpool_exit
<1>2. prog[t] # <<>> /\ pc[t] = "call"
  BY DEF thrdpool_exit, Calling
<1>3. CASE pc' = [pc EXCEPT ![t] = "exit"] /\ prog' = [prog EXCEPT ![t] = <<>>]
  <2>1. prog' \in [Threads -> Seq(Calls)]
    BY <1>3, EmptySeq DEF Base, BaseTypes
  <2>2. BaseTypes'
    BY <1>1, <1>3, <2>1 DEF Base, BaseTypes, Pcs, queue, pool, ends, tasks
  <2> QED BY <1>1, <1>2, <1>3, <2>2, PoolBasics
          DEF Base, BaseTypes, InsideCall, MutexHeld, InCall, pool
<1>4. CASE Returns(t)
  BY <1>1, <1>2, <1>4, CallReturns, PoolBasics
  DEF Base, BaseTypes, InsideCall, MutexHeld, InCall, queue, pool, ends, tasks
<1> QED BY <1>3, <1>4 DEF thrdpool_exit

\* The state of the threads that msgqueue_set_nonblock wakes.
LEMMA WakeFacts ==
    ASSUME Base, NEW t \in Threads, NEW l \in Pcs, pc' = [WakePutters(pc) EXCEPT ![t] = l]
    PROVE  /\ pc' \in [Threads -> Pcs]
           /\ pc'[t] = l
           /\ \A u \in Threads \ {t} :
                 \/ pc'[u] = pc[u] /\ pc[u] \notin {"put_wait", "ph_wait"}
                 \/ pc[u] = "put_wait" /\ pc'[u] = "put_wake"
                 \/ pc[u] = "ph_wait" /\ pc'[u] = "ph_wake"
<1>1. \A u \in Threads :
          \/ WakePutters(pc)[u] = pc[u] /\ pc[u] \notin {"put_wait", "ph_wait"}
          \/ pc[u] = "put_wait" /\ WakePutters(pc)[u] = "put_wake"
          \/ pc[u] = "ph_wait" /\ WakePutters(pc)[u] = "ph_wake"
  BY DEF WakePutters
<1>2. WakePutters(pc) \in [Threads -> Pcs]
  BY DEF WakePutters, Base, BaseTypes, Pcs, InCall
<1> QED BY <1>1, <1>2

LEMMA AfterTerminateType ==
    ASSUME NEW t, NEW n \in Int
    PROVE  /\ AfterTerminate(t, n) \in {"term_wait", "term_join"}
           /\ AfterTerminate(t, n) = "term_join" <=> n <= 0
           /\ AfterTerminate(t, n) \in Pcs
  BY DEF AfterTerminate, Pcs, InCall

LEMMA BaseTerminate ==
    ASSUME Base, NEW t \in Threads, thrdpool_terminate(t)
    PROVE  Base'
<1>1. /\ UNCHANGED <<getq, putq, tid, mutex, prog, joinee, joined, tasks, freed>>
      /\ nonblock' = TRUE /\ stop' = TRUE
      /\ pc[t] = "call" /\ prog[t] # <<>> /\ mutex = NULL
  BY DEF thrdpool_terminate, Calling
<1>2. bad' \in BOOLEAN
  BY UsesType DEF thrdpool_terminate
<1>3. nthreads' \in Int /\ detached' \in SUBSET Workers
  BY DEF thrdpool_terminate, Base, BaseTypes, InPool
<1>4. AfterTerminate(t, nthreads') \in {"term_wait", "term_join"}
      /\ AfterTerminate(t, nthreads') \in Pcs
  BY <1>3, AfterTerminateType
<1>5. pc' = [WakePutters(pc) EXCEPT ![t] = AfterTerminate(t, nthreads')]
  BY DEF thrdpool_terminate
<1>6. /\ pc' \in [Threads -> Pcs]
      /\ pc'[t] \in {"term_wait", "term_join"}
      /\ \A u \in Threads \ {t} :
            \/ pc'[u] = pc[u] /\ pc[u] \notin {"put_wait", "ph_wait"}
            \/ pc[u] = "put_wait" /\ pc'[u] = "put_wake"
            \/ pc[u] = "ph_wait" /\ pc'[u] = "ph_wake"
  <2> DEFINE l == AfterTerminate(t, nthreads')
  <2> HIDE DEF l
  <2> QED BY <1>4, <1>5, WakeFacts DEF l
<1>7. BaseTypes'
  BY <1>1, <1>2, <1>3, <1>6 DEF Base, BaseTypes, tasks
<1>8. InsideCall'
  BY <1>1, <1>6 DEF Base, InsideCall, InCall
<1>9. MutexHeld'
  BY <1>1, <1>6, PoolBasics DEF Base, MutexHeld
<1> QED BY <1>7, <1>8, <1>9 DEF Base

\* A step that moves t only, with the mutex untouched by it.
LEMMA BaseMove ==
    ASSUME Base, BaseTypes', UNCHANGED <<mutex, prog>>, NEW t \in Threads, NEW l,
           pc' = [pc EXCEPT ![t] = l], pc[t] # "inc", l # "inc",
           l \in InCall \ {"call"} => prog[t] # <<>>
    PROVE  Base'
<1>1. \A u \in Threads : pc'[u] = IF u = t THEN l ELSE pc[u]
  BY DEF Base, BaseTypes
<1> QED BY <1>1 DEF Base, InsideCall, MutexHeld

LEMMA BaseTerminateWoken ==
    ASSUME Base, NEW t \in Threads, thrdpool_terminate_woken(t)
    PROVE  Base'
<1>1. /\ UNCHANGED <<queue, pool, prog, ends, tasks, freed>>
      /\ pc' = [pc EXCEPT ![t] = AfterTerminate(t, nthreads)]
      /\ pc[t] = "term_wake" /\ prog[t] # <<>>
  BY DEF thrdpool_terminate_woken, Base, InsideCall, InCall
<1>2. AfterTerminate(t, nthreads) \in {"term_wait", "term_join"}
      /\ AfterTerminate(t, nthreads) \in Pcs
  BY AfterTerminateType DEF Base, BaseTypes
<1>3. bad' \in BOOLEAN
  BY UsesType DEF thrdpool_terminate_woken
<1>4. pc' \in [Threads -> Pcs]
  BY <1>1, <1>2 DEF Base, BaseTypes
<1>5. BaseTypes'
  BY <1>1, <1>3, <1>4 DEF Base, BaseTypes, queue, pool, ends, tasks
<1> QED BY <1>1, <1>2, <1>5, BaseMove DEF pool

\* pthread_join counted on one more thread.
LEMMA JoinedType ==
    ASSUME joined \in [Workers -> Nat], NEW w \in Workers \cup {NULL},
           (w # NULL /\ joined' = [joined EXCEPT ![w] = @ + 1]) \/ joined' = joined
    PROVE  joined' \in [Workers -> Nat]
<1>1. CASE w # NULL /\ joined' = [joined EXCEPT ![w] = @ + 1]
  <2>1. w \in Workers /\ joined[w] + 1 \in Nat
    BY <1>1
  <2> QED BY <1>1, <2>1
<1> QED BY <1>1

LEMMA BaseTerminateJoin ==
    ASSUME Base, NEW t \in Threads, thrdpool_terminate_join(t)
    PROVE  Base'
<1>1. /\ UNCHANGED <<queue, pool, prog, joinee, detached, tasks, freed>>
      /\ pc' = [pc EXCEPT ![t] = "drain"]
      /\ pc[t] = "term_join" /\ prog[t] # <<>>
  BY DEF thrdpool_terminate_join, Base, InsideCall, InCall
<1>2. joined' \in [Workers -> Nat]
  BY JoinedType DEF thrdpool_terminate_join, Base, BaseTypes
<1>3. bad' \in BOOLEAN
  BY UsesType DEF thrdpool_terminate_join
<1>4. pc' \in [Threads -> Pcs]
  BY <1>1 DEF Base, BaseTypes, Pcs, InCall
<1>5. BaseTypes'
  BY <1>1, <1>2, <1>3, <1>4 DEF Base, BaseTypes, queue, pool, tasks
<1> QED BY <1>1, <1>5, BaseMove DEF pool

LEMMA BaseDestroyPending ==
    ASSUME Base, NEW t \in Threads, thrdpool_destroy_pending(t)
    PROVE  Base'
<1>1. UNCHANGED <<pool, pc, prog, created, program, accepted, ran, ends, freed>>
  BY DEF thrdpool_destroy_pending
<1>2. /\ getq' \in Seq(Tasks \cup {EXIT}) /\ putq' \in Seq(Tasks \cup {EXIT})
      /\ nonblock' = nonblock /\ Front \in Tasks \cup {EXIT}
  BY TakeTypes DEF thrdpool_destroy_pending
<1>3. pending' \in SUBSET Tasks
  BY <1>2 DEF thrdpool_destroy_pending, Base, BaseTypes
<1>4. bad' \in BOOLEAN
  BY UsesType DEF thrdpool_destroy_pending
<1>5. BaseTypes'
  BY <1>1, <1>2, <1>3, <1>4 DEF Base, BaseTypes, pool, ends
<1> QED BY <1>1, <1>5 DEF Base, InsideCall, MutexHeld, pool

LEMMA BaseDestroy ==
    ASSUME Base, NEW t \in Threads, thrdpool_destroy(t)
    PROVE  Base'
<1>1. /\ UNCHANGED <<queue, pool, ends, tasks>> /\ Returns(t)
      /\ pc[t] = "drain" /\ prog[t] # <<>>
  BY DEF thrdpool_destroy, Base, InsideCall, InCall
<1>2. freed' \in SUBSET {"queue", "pool"}
  BY DEF thrdpool_destroy, Base, BaseTypes
<1>3. bad' \in BOOLEAN
  BY UsesType DEF thrdpool_destroy
<1>4. /\ pc' \in [Threads -> Pcs] /\ prog' \in [Threads -> Seq(Calls)]
      /\ \A u \in Threads : pc'[u] = IF u = t THEN "call" ELSE pc[u]
      /\ \A u \in Threads : u # t => prog'[u] = prog[u]
  BY <1>1, CallReturns
<1>5. BaseTypes'
  BY <1>1, <1>2, <1>3, <1>4 DEF Base, BaseTypes, queue, pool, ends, tasks
<1> QED BY <1>1, <1>4, <1>5, PoolBasics DEF Base, InsideCall, MutexHeld, InCall, pool

LEMMA BaseRoutine ==
    ASSUME Base, NEW w \in Workers, thrdpool_routine(w)
    PROVE  Base'
<1>1. /\ UNCHANGED <<queue, pool, prog, ends, tasks, freed>>
      /\ pc' = [pc EXCEPT ![w] = IF stop THEN "exit" ELSE "get"]
      /\ pc[w] = "loop" /\ w \in Threads
  BY PoolBasics DEF thrdpool_routine
<1>2. PICK l \in {"exit", "get"} : pc' = [pc EXCEPT ![w] = l]
  BY <1>1
<1>3. bad' \in BOOLEAN
  BY UsesType DEF thrdpool_routine
<1>4. pc' \in [Threads -> Pcs]
  BY <1>1, <1>2 DEF Base, BaseTypes, Pcs
<1>5. BaseTypes'
  BY <1>1, <1>3, <1>4 DEF Base, BaseTypes, queue, pool, ends, tasks
<1> QED BY <1>1, <1>2, <1>5, BaseMove DEF pool, InCall

LEMMA BaseRoutineGet ==
    ASSUME Base, NEW w \in Workers, thrdpool_routine_get(w)
    PROVE  Base'
<1>1. /\ UNCHANGED <<pool, created, program, accepted, pending, ends, freed>>
      /\ pc[w] = "get" /\ w \in Threads
  BY PoolBasics DEF thrdpool_routine_get
<1>2. bad' \in BOOLEAN
  BY UsesType DEF thrdpool_routine_get
<1>3. /\ getq' \in Seq(Tasks \cup {EXIT}) /\ putq' \in Seq(Tasks \cup {EXIT})
      /\ nonblock' \in BOOLEAN
  <2>1. CASE UNCHANGED queue
    BY <2>1 DEF queue, Base, BaseTypes
  <2>2. CASE ~QueueEmpty /\ TakeFront
    BY <2>2, TakeTypes DEF Base, BaseTypes
  <2> QED BY <2>1, <2>2 DEF thrdpool_routine_get
<1>4. CASE pc' = [pc EXCEPT ![w] = "exit"] /\ UNCHANGED <<prog, ran>>
  <2>1. pc' \in [Threads -> Pcs]
    BY <1>1, <1>4 DEF Base, BaseTypes, Pcs
  <2>2. BaseTypes'
    BY <1>1, <1>2, <1>3, <1>4, <2>1 DEF Base, BaseTypes, pool, ends
  <2> QED BY <1>1, <1>4, <2>2, BaseMove DEF pool, InCall
<1>5. CASE ~QueueEmpty /\ TakeFront /\ Front # EXIT /\ pc' = [pc EXCEPT ![w] = "call"]
           /\ prog' = [prog EXCEPT ![w] = program[Front]] /\ ran' = ran \cup {Front}
  <2>1. Front \in Tasks
    BY <1>5, TakeTypes
  <2>2. pc' \in [Threads -> Pcs] /\ prog' \in [Threads -> Seq(Calls)]
    BY <1>1, <1>5, <2>1 DEF Base, BaseTypes, Pcs, InCall
  <2>3. ran' \in SUBSET Tasks
    BY <1>5, <2>1 DEF Base, BaseTypes
  <2>4. BaseTypes'
    BY <1>1, <1>2, <1>3, <2>2, <2>3 DEF Base, BaseTypes, pool, ends
  <2>5. \A u \in Threads : /\ pc'[u] = IF u = w THEN "call" ELSE pc[u]
                           /\ u # w => prog'[u] = prog[u]
    BY <1>5 DEF Base, BaseTypes
  <2> QED BY <1>1, <2>4, <2>5 DEF Base, InsideCall, MutexHeld, InCall, pool
<1> QED BY <1>4, <1>5 DEF thrdpool_routine_get

LEMMA BaseRoutineReturn ==
    ASSUME Base, NEW w \in Workers, thrdpool_routine_return(w)
    PROVE  Base'
<1>1. /\ UNCHANGED <<queue, pool, prog, ends, tasks>>
      /\ pc[w] = "call" /\ w \in Threads
  BY PoolBasics DEF thrdpool_routine_return
<1>2. PICK l \in {"dead", "loop"} : pc' = [pc EXCEPT ![w] = l]
  BY DEF thrdpool_routine_return
<1>3. bad' \in BOOLEAN /\ freed' \in SUBSET {"queue", "pool"}
  BY UsesType DEF thrdpool_routine_return, Base, BaseTypes
<1>4. pc' \in [Threads -> Pcs]
  BY <1>1, <1>2 DEF Base, BaseTypes, Pcs
<1>5. BaseTypes'
  BY <1>1, <1>3, <1>4 DEF Base, BaseTypes, queue, pool, ends, tasks
<1> QED BY <1>1, <1>2, <1>5, BaseMove DEF pool, InCall

\* The notification turns the wait of terminate into a wake-up.
LEMMA NotifyFacts ==
    ASSUME Base, NEW w \in Threads, pc' = NotifyTerminate([pc EXCEPT ![w] = "join"])
    PROVE  /\ pc' \in [Threads -> Pcs]
           /\ pc'[w] = "join"
           /\ \A u \in Threads \ {w} :
                 \/ pc'[u] = pc[u]
                 \/ pc[u] = "term_wait" /\ pc'[u] = "term_wake"
<1> DEFINE f == [pc EXCEPT ![w] = "join"]
<1>1. /\ f \in [Threads -> Pcs] /\ f[w] = "join"
      /\ \A u \in Threads \ {w} : f[u] = pc[u]
  BY DEF Base, BaseTypes, Pcs
<1> HIDE DEF f
<1>2. pc' = NotifyTerminate(f)
  BY DEF f
<1>3. CASE nthreads - 1 = 0 /\ stop
  <2>1. pc' = [t \in Threads |-> IF f[t] = "term_wait" THEN "term_wake" ELSE f[t]]
    BY <1>2, <1>3 DEF NotifyTerminate
  <2> QED BY <1>1, <2>1 DEF Pcs, InCall
<1>4. CASE ~(nthreads - 1 = 0 /\ stop)
  BY <1>1, <1>2, <1>4 DEF NotifyTerminate
<1> QED BY <1>3, <1>4

LEMMA BaseExitRoutine ==
    ASSUME Base, NEW w \in Workers, thrdpool_exit_routine(w)
    PROVE  Base'
<1>1. /\ UNCHANGED <<queue, stop, mutex, prog, joined, detached, tasks, freed>>
      /\ pc[w] = "exit" /\ w \in Threads /\ tid' = w /\ mutex = NULL
  BY PoolBasics DEF thrdpool_exit_routine
<1>2. bad' \in BOOLEAN
  BY UsesType DEF thrdpool_exit_routine
<1>3. /\ pc' \in [Threads -> Pcs] /\ pc'[w] = "join"
      /\ \A u \in Threads \ {w} :
            \/ pc'[u] = pc[u]
            \/ pc[u] = "term_wait" /\ pc'[u] = "term_wake"
  BY <1>1, NotifyFacts DEF thrdpool_exit_routine
<1>4. joinee' \in [Workers -> Workers \cup {NULL}] /\ nthreads' \in Int
  BY DEF thrdpool_exit_routine, Base, BaseTypes
<1>5. BaseTypes'
  BY <1>1, <1>2, <1>3, <1>4 DEF Base, BaseTypes, queue, tasks
<1> QED BY <1>1, <1>3, <1>5 DEF Base, InsideCall, MutexHeld, InCall

LEMMA BaseExitJoin ==
    ASSUME Base, NEW w \in Workers, thrdpool_exit_join(w)
    PROVE  Base'
<1>1. /\ UNCHANGED <<queue, pool, prog, joinee, detached, tasks, freed, bad>>
      /\ pc' = [pc EXCEPT ![w] = "dead"] /\ pc[w] = "join" /\ w \in Threads
  BY PoolBasics DEF thrdpool_exit_join
<1>2. joined' \in [Workers -> Nat]
  <2>1. joinee[w] \in Workers \cup {NULL} /\ joined \in [Workers -> Nat]
    BY DEF Base, BaseTypes
  <2> QED BY <2>1, JoinedType DEF thrdpool_exit_join
<1>3. pc' \in [Threads -> Pcs]
  BY <1>1 DEF Base, BaseTypes, Pcs
<1>4. BaseTypes'
  BY <1>1, <1>2, <1>3 DEF Base, BaseTypes, queue, pool, tasks
<1> QED BY <1>1, <1>4, BaseMove DEF pool, InCall

LEMMA BaseStutter == ASSUME Base, UNCHANGED state PROVE Base'
  BY DEF state, Base, BaseTypes, InsideCall, MutexHeld

\* What a step does: one thread moves, or nothing that the invariants see.
LEMMA NextSteps ==
    ASSUME [Next]_vars
    PROVE  \/ \E t \in Threads : Step(t)
           \/ \E w \in Workers : WorkerStep(w)
           \/ UNCHANGED state
  BY DEF Next, Defined, thrdpool_decrease_contended, vars

\* Base is preserved whatever the callers do.
LEMMA BaseNext == Base /\ [Next]_vars => Base'
<1> SUFFICES ASSUME Base, [Next]_vars PROVE Base'
  OBVIOUS
<1>1. ASSUME NEW t \in Threads, Step(t) PROVE Base'
  BY <1>1, BaseSchedule, BaseDecrease, BaseIncrease, BaseIncreaseCount, BaseExit,
     BaseTerminate, BaseTerminateWoken, BaseTerminateJoin, BaseDestroyPending,
     BaseDestroy DEF Step
<1>2. ASSUME NEW w \in Workers, WorkerStep(w) PROVE Base'
  BY <1>2, BaseRoutine, BaseRoutineGet, BaseRoutineReturn, BaseExitRoutine,
     BaseExitJoin DEF WorkerStep
<1> QED BY <1>1, <1>2, BaseStutter, NextSteps

-----------------------------------------------------------------------------
(* The count, the thread that destroys the pool and the chain of joins,    *)
(* when the callers keep to WorkerContract.                                *)

\* Where a thread is when its moves concern neither the count nor the shutdown.
Plain == {"call", "put_wait", "put_wake", "ph_wait", "ph_wake", "loop", "get", "exit"}

LEMMA PresentFinite == IsFiniteSet(Present) /\ Cardinality(Present) \in Nat
  BY PoolAssumption, FS_Subset, FS_CardinalityType DEF Present

\* The chain of joins sees only its own fields and the workers in it.
LEMMA JoinFrame ==
    ASSUME JoinChain, UNCHANGED <<tid, joinee, joined>>, Exited' = Exited,
           LastJoined' <=> LastJoined, \A v \in Exited : pc'[v] = pc[v]
    PROVE  JoinChain'
<1>1. tid # NULL => tid \in Exited /\ pc'[tid] = pc[tid]
  BY DEF JoinChain
<1>2. \A v \in Exited : joinee[v] # NULL => joinee[v] \in Exited /\ pc'[joinee[v]] = pc[joinee[v]]
  BY DEF JoinChain
<1> HIDE DEF Exited, LastJoined
<1> QED BY <1>1, <1>2 DEF JoinChain

\* A step of threads that stay in their calls or in the loop of a worker.
LEMMA CallStep ==
    ASSUME Base, Shutdown,
           UNCHANGED <<nthreads, tid, stop, mutex, created, joinee, joined, detached, freed>>,
           \A u \in Threads : \/ pc'[u] = pc[u]
                              \/ pc[u] \in Plain /\ pc'[u] \in Plain /\ u \notin detached
    PROVE  Shutdown'
<1>1. \A w \in Workers : w \in Threads
  BY PoolBasics
<1>2. Present' = Present
  BY <1>1 DEF Present, Plain
<1>3. Exited' = Exited /\ \A v \in Exited : pc'[v] = pc[v]
  BY <1>1 DEF Exited, Plain
<1>4. LastJoined' <=> LastJoined
  BY DEF LastJoined, Plain
<1>5. Counted'
  BY <1>2 DEF Shutdown, Counted
<1>6. \A u \in Threads : Closing(u)' <=> Closing(u)
  BY DEF Closing, Plain
<1>7. \A u \in Threads : pc'[u] \in {"term_join", "drain"} <=> pc[u] \in {"term_join", "drain"}
  BY DEF Plain
<1>8. \A u \in detached : pc'[u] = pc[u]
  BY <1>1 DEF Base, BaseTypes
<1>9. OneCloser'
  BY <1>1, <1>6, <1>7, <1>8 DEF Shutdown, OneCloser, Base, BaseTypes
<1>10. JoinChain'
  BY <1>3, <1>4, JoinFrame DEF Shutdown
<1> QED BY <1>5, <1>9, <1>10 DEF Shutdown

\* A detached worker makes no call: it has come back from destroy.
LEMMA DetachedIdle ==
    ASSUME Base, Shutdown, DestroyIsLast, NEW w \in detached
    PROVE  /\ pc[w] \in {"term_wait", "term_wake", "term_join", "drain", "call", "dead"}
           /\ pc[w] = "call" => prog[w] = <<>> /\ "queue" \in freed
           /\ w \in Workers
  BY DEF Base, BaseTypes, Shutdown, OneCloser, Closing, DestroyIsLast

LEMMA ShutSchedule ==
    ASSUME Base, Shutdown, DestroyIsLast, NEW t \in Threads, NEW m \in Tasks,
           thrdpool_schedule(t, m)
    PROVE  Shutdown'
<1>1. UNCHANGED <<nthreads, tid, stop, mutex, created, joinee, joined, detached, freed>>
  BY DEF thrdpool_schedule, pool, ends
<1>2. pc[t] \in {"call", "put_wake"} /\ prog[t] # <<>>
  BY DEF thrdpool_schedule, Calling, Base, InsideCall, InCall
<1>3. t \notin detached
  BY <1>2, DetachedIdle
<1>4. \A u \in Threads : pc'[u] = pc[u] \/ (u = t /\ pc'[u] \in {"call", "put_wait"})
  BY DEF thrdpool_schedule, Returns, Base, BaseTypes
<1> QED BY <1>1, <1>2, <1>3, <1>4, CallStep DEF Plain

LEMMA ShutDecrease ==
    ASSUME Base, Shutdown, DestroyIsLast, NEW t \in Threads, thrdpool_decrease(t)
    PROVE  Shutdown'
<1>1. UNCHANGED <<nthreads, tid, stop, mutex, created, joinee, joined, detached, freed>>
  BY DEF thrdpool_decrease, pool, ends, tasks
<1>2. pc[t] \in {"call", "ph_wake"} /\ prog[t] # <<>>
  BY DEF thrdpool_decrease, Calling, Base, InsideCall, InCall
<1>3. t \notin detached
  BY <1>2, DetachedIdle
<1>4. \A u \in Threads : pc'[u] = pc[u] \/ (u = t /\ pc'[u] \in {"call", "ph_wait"})
  BY DEF thrdpool_decrease, Returns, Base, BaseTypes
<1> QED BY <1>1, <1>2, <1>3, <1>4, CallStep DEF Plain

LEMMA ShutExit ==
    ASSUME Base, Shutdown, DestroyIsLast, NEW t \in Threads, thrdpool_exit(t)
    PROVE  Shutdown'
<1>1. UNCHANGED <<nthreads, tid, stop, mutex, created, joinee, joined, detached, freed>>
  BY DEF thrdpool_exit, pool, ends, tasks
<1>2. pc[t] = "call" /\ prog[t] # <<>>
  BY DEF thrdpool_exit, Calling
<1>3. t \notin detached
  BY <1>2, DetachedIdle
<1>4. \A u \in Threads : pc'[u] = pc[u] \/ (u = t /\ pc'[u] \in {"call", "exit"})
  BY DEF thrdpool_exit, Returns, Base, BaseTypes
<1> QED BY <1>1, <1>2, <1>3, <1>4, CallStep DEF Plain

LEMMA ShutRoutine ==
    ASSUME Base, Shutdown, DestroyIsLast, NEW w \in Workers,
           thrdpool_routine(w) \/ thrdpool_routine_get(w)
    PROVE  Shutdown'
<1>1. UNCHANGED <<nthreads, tid, stop, mutex, created, joinee, joined, detached, freed>>
  BY DEF thrdpool_routine, thrdpool_routine_get, pool, ends, tasks
<1>2. pc[w] \in {"loop", "get"}
  BY DEF thrdpool_routine, thrdpool_routine_get
<1>3. w \notin detached
  BY <1>2, DetachedIdle
<1>4. \A u \in Threads : pc'[u] = pc[u] \/ (u = w /\ pc'[u] \in {"call", "exit", "get"})
  <2>1. PICK l \in {"call", "exit", "get"} : pc' = [pc EXCEPT ![w] = l]
    BY DEF thrdpool_routine, thrdpool_routine_get
  <2> QED BY <2>1 DEF Base, BaseTypes
<1> QED BY <1>1, <1>2, <1>3, <1>4, CallStep DEF Plain

LEMMA ShutPending ==
    ASSUME Base, Shutdown, NEW t \in Threads, thrdpool_destroy_pending(t)
    PROVE  Shutdown'
<1>1. UNCHANGED <<nthreads, tid, stop, mutex, created, joinee, joined, detached, freed, pc>>
  BY DEF thrdpool_destroy_pending, pool, ends
<1> QED BY <1>1, CallStep

LEMMA ShutStutter == ASSUME Base, Shutdown, UNCHANGED state PROVE Shutdown'
<1>1. UNCHANGED <<nthreads, tid, stop, mutex, created, joinee, joined, detached, freed, pc>>
  BY DEF state
<1> QED BY <1>1, CallStep

\* Before the pool stops nobody closes it and nobody is detached.
LEMMA Running ==
    ASSUME Base, Shutdown, ~stop
    PROVE  /\ detached = {} /\ freed = {}
           /\ \A u \in Threads : ~Closing(u)
<1>1. detached = {} /\ "queue" \notin freed /\ "pool" \notin freed
  BY DEF Shutdown, OneCloser
<1> QED BY <1>1 DEF Shutdown, OneCloser, Base, BaseTypes

\* pthread_create succeeded: the new thread is present and not yet counted.
LEMMA ShutCreate ==
    ASSUME Base, Shutdown, NoCallAfterStop, NEW t \in Threads, Calling(t, "increase"),
           mutex = NULL, NEW w \in Workers, pc[w] = "none", w # t,
           \A u \in Threads : pc'[u] = IF u = t THEN "inc" ELSE IF u = w THEN "loop" ELSE pc[u],
           mutex' = t,
           UNCHANGED <<nthreads, tid, stop, created, joinee, joined, detached, freed>>
    PROVE  Shutdown'
<1>1. pc[t] = "call" /\ ~stop
  BY DEF Calling, NoCallAfterStop, Base, BaseTypes
<1>2. /\ w # t /\ w \in Threads /\ pc'[w] = "loop" /\ pc'[t] = "inc"
      /\ \A u \in Threads \ {t, w} : pc'[u] = pc[u]
  BY PoolBasics
<1>3. \A u \in Threads : pc'[u] = pc[u] \/ pc'[u] \in {"inc", "loop"}
  BY <1>2
<1>4. /\ detached = {} /\ freed = {}
      /\ \A u \in Threads : ~Closing(u)
  BY <1>1, Running
<1>5. \A v \in Workers : v \in Threads
  BY PoolBasics
<1>6. Present' = Present \cup {w} /\ w \notin Present
  BY <1>1, <1>2, <1>4, <1>5 DEF Present
<1>7. Cardinality(Present') = Cardinality(Present) + 1
  BY <1>6, PresentFinite, FS_AddElement
<1>8. Counted'
  <2>1. nthreads = created + Cardinality(Present) /\ created \in Nat
    BY PresentFinite DEF Shutdown, Counted, Base, BaseTypes
  <2>2. mutex' # NULL /\ Present' # {}
    BY <1>6, PoolBasics
  <2> QED BY <1>7, <2>1, <2>2, PresentFinite DEF Counted
<1>9. \A u \in Threads : ~Closing(u)'
  BY <1>3, <1>4 DEF Closing
<1>10. \A u \in Threads : pc'[u] \notin {"term_join", "drain"}
  BY <1>9 DEF Closing
<1>11. OneCloser'
  BY <1>1, <1>4, <1>5, <1>9, <1>10 DEF OneCloser
<1>12. Exited' = Exited /\ \A v \in Exited : pc'[v] = pc[v]
  BY <1>1, <1>2, <1>4, <1>5 DEF Exited
<1>13. LastJoined' <=> LastJoined
  BY <1>3, <1>4, <1>10 DEF LastJoined, Closing
<1>14. JoinChain'
  BY <1>12, <1>13, JoinFrame DEF Shutdown
<1> QED BY <1>8, <1>11, <1>14 DEF Shutdown

LEMMA ShutIncrease ==
    ASSUME Base, Shutdown, DestroyIsLast, NoCallAfterStop, NEW t \in Threads,
           thrdpool_increase(t)
    PROVE  Shutdown'
<1>1. /\ UNCHANGED <<nthreads, tid, stop, created, joinee, joined, detached, freed>>
      /\ Calling(t, "increase") /\ mutex = NULL
  BY DEF thrdpool_increase, ends, tasks
<1>2. ASSUME NEW w \in Workers, pc[w] = "none",
             pc' = [pc EXCEPT ![t] = "inc", ![w] = "loop"], mutex' = t
      PROVE  Shutdown'
  <2>1. w # t /\ w \in Threads /\ pc \in [Threads -> Pcs]
    BY <1>1, <1>2, PoolBasics DEF Calling, Base, BaseTypes
  <2>2. \A u \in Threads : pc'[u] = IF u = t THEN "inc" ELSE IF u = w THEN "loop" ELSE pc[u]
    BY <1>2, <2>1
  <2> QED BY <1>1, <1>2, <2>1, <2>2, ShutCreate
<1>3. CASE Returns(t) /\ UNCHANGED mutex
  <2>1. pc[t] = "call" /\ prog[t] # <<>>
    BY <1>1 DEF Calling
  <2>2. t \notin detached
    BY <2>1, DetachedIdle
  <2>3. \A u \in Threads : pc'[u] = pc[u] \/ (u = t /\ pc'[u] = "call")
    BY <1>3 DEF Returns, Base, BaseTypes
  <2> QED BY <1>1, <1>3, <2>1, <2>2, <2>3, CallStep DEF Plain
<1> QED BY <1>2, <1>3 DEF thrdpool_increase

LEMMA ShutIncreaseCount ==
    ASSUME Base, Shutdown, NEW t \in Threads, thrdpool_increase_count(t)
    PROVE  Shutdown'
<1>1. /\ UNCHANGED <<tid, stop, created, joinee, joined, detached, freed>>
      /\ nthreads' = nthreads + 1 /\ mutex' = NULL /\ pc[t] = "inc" /\ Returns(t)
  BY DEF thrdpool_increase_count, ends, tasks
<1>2. mutex = t /\ t # NULL
  BY <1>1, PoolBasics DEF Base, MutexHeld
<1>3. ~stop
  BY <1>2 DEF Shutdown, OneCloser, Base, BaseTypes
<1>4. \A u \in Threads : pc'[u] = IF u = t THEN "call" ELSE pc[u]
  BY <1>1 DEF Returns, Base, BaseTypes
<1>5. /\ detached = {} /\ freed = {}
      /\ \A u \in Threads : ~Closing(u)
  BY <1>3, Running
<1>6. \A v \in Workers : v \in Threads
  BY PoolBasics
<1>7. Present' = Present
  BY <1>1, <1>4, <1>5, <1>6 DEF Present
<1>8. Counted'
  <2>1. nthreads = created + Cardinality(Present) - 1 /\ created \in Nat
    BY <1>2 DEF Shutdown, Counted, Base, BaseTypes
  <2> QED BY <1>1, <1>7, <2>1, PresentFinite DEF Counted
<1>9. \A u \in Threads : ~Closing(u)'
  BY <1>4, <1>5 DEF Closing
<1>10. \A u \in Threads : pc'[u] \notin {"term_join", "drain"}
  BY <1>9 DEF Closing
<1>11. OneCloser'
  BY <1>1, <1>3, <1>5, <1>6, <1>9, <1>10 DEF OneCloser
<1>12. Exited' = Exited /\ \A v \in Exited : pc'[v] = pc[v]
  BY <1>1, <1>4, <1>5, <1>6 DEF Exited
<1>13. LastJoined' <=> LastJoined
  BY <1>1, <1>4, <1>5, <1>10 DEF LastJoined, Closing
<1>14. JoinChain'
  BY <1>1, <1>12, <1>13, JoinFrame DEF Shutdown
<1> QED BY <1>8, <1>11, <1>14 DEF Shutdown

\* A free mutex leaves nobody uncounted.
LEMMA CountFree ==
    ASSUME Base, Counted, mutex = NULL
    PROVE  /\ nthreads = created + Cardinality(Present)
           /\ nthreads \in Nat /\ created \in Nat
           /\ nthreads = 0 => created = 0 /\ Present = {}
<1>1. nthreads = created + Cardinality(Present) /\ created \in Nat
  BY PresentFinite DEF Counted, Base, BaseTypes
<1>2. nthreads = 0 => created = 0 /\ Cardinality(Present) = 0
  BY <1>1, PresentFinite
<1> QED BY <1>1, <1>2, PresentFinite, FS_EmptySet

\* destroy begins: its caller leaves the pool when it is a worker, and waits
\* unless nobody is counted any more.
LEMMA ShutTerminate ==
    ASSUME Base, Base', Shutdown, NoCallAfterStop, NEW t \in Threads, thrdpool_terminate(t)
    PROVE  Shutdown'
<1>1. /\ UNCHANGED <<tid, mutex, created, joinee, joined, freed>>
      /\ stop' = TRUE /\ pc[t] = "call" /\ mutex = NULL
      /\ nthreads' = (IF t \in Workers THEN nthreads - 1 ELSE nthreads)
      /\ detached' = (IF t \in Workers THEN detached \cup {t} ELSE detached)
  BY DEF thrdpool_terminate, Calling, tasks, InPool
<1>2. ~stop
  BY DEF NoCallAfterStop, thrdpool_terminate
<1>3. /\ detached = {} /\ freed = {}
      /\ \A u \in Threads : ~Closing(u)
  BY <1>2, Running
<1>4. nthreads' \in Int
  BY DEF Base, BaseTypes
<1> DEFINE l == AfterTerminate(t, nthreads')
<1>5. l \in {"term_wait", "term_join"} /\ (l = "term_join" <=> nthreads' <= 0) /\ l \in Pcs
  BY <1>4, AfterTerminateType
<1>6. pc' = [WakePutters(pc) EXCEPT ![t] = l]
  BY DEF thrdpool_terminate
<1> HIDE DEF l
<1>7. /\ pc'[t] = l
      /\ \A u \in Threads \ {t} :
            \/ pc'[u] = pc[u] /\ pc[u] \notin {"put_wait", "ph_wait"}
            \/ pc[u] = "put_wait" /\ pc'[u] = "put_wake"
            \/ pc[u] = "ph_wait" /\ pc'[u] = "ph_wake"
  BY <1>5, <1>6, WakeFacts
<1>8. \A v \in Workers : v \in Threads
  BY PoolBasics
<1>9. Present' = Present \ {t}
  <2>1. \A v \in Workers : v # t => (v \in Present' <=> v \in Present)
    BY <1>1, <1>3, <1>7, <1>8 DEF Present
  <2>2. t \in Workers => t \notin Present'
    BY <1>1 DEF Present
  <2> QED BY <2>1, <2>2 DEF Present
<1>10. t \in Workers => t \in Present
  BY <1>1, <1>3 DEF Present
<1>11. nthreads = created + Cardinality(Present) /\ created \in Nat
  BY <1>1, CountFree DEF Shutdown
<1>12. nthreads' = created + Cardinality(Present')
  <2>1. CASE t \in Workers
    <3>1. Cardinality(Present') = Cardinality(Present) - 1
      BY <1>9, <1>10, <2>1, PresentFinite, FS_RemoveElement
    <3> QED BY <1>1, <1>11, <2>1, <3>1, PresentFinite
  <2>2. CASE t \notin Workers
    <3>1. Present' = Present
      BY <1>9, <2>2 DEF Present
    <3> QED BY <1>1, <1>11, <2>2, <3>1
  <2> QED BY <2>1, <2>2
<1>13. Cardinality(Present') \in Nat
  BY <1>9, PresentFinite, FS_Subset, FS_CardinalityType
<1>14. Counted'
  BY <1>1, <1>11, <1>12, <1>13 DEF Counted
<1>15. \A u \in Threads : Closing(u)' <=> u = t
  BY <1>3, <1>5, <1>7 DEF Closing
<1>16. l = "term_join" => nthreads' = 0
  BY <1>4, <1>5, <1>11, <1>12, <1>13
<1>17. \A u \in Threads : pc'[u] \in {"term_join", "drain"} => u = t /\ l = "term_join"
  BY <1>5, <1>7, <1>15 DEF Closing
<1>18. OneCloser'
  <2>1. \A w \in detached' : w = t
    BY <1>1, <1>3
  <2>2. freed' = {} /\ mutex' = NULL /\ stop'
    BY <1>1, <1>3
  <2>3. \A w \in Workers : w = t => w \in detached'
    BY <1>1
  <2>4. (\E u \in Threads : pc'[u] \in {"term_join", "drain"}) => nthreads' = 0
    BY <1>16, <1>17
  <2> QED BY <1>8, <1>15, <2>1, <2>2, <2>3, <2>4 DEF OneCloser
<1>19. Exited' = Exited
  <2>1. \A v \in Workers : v # t => (v \in Exited' <=> v \in Exited)
    BY <1>1, <1>3, <1>7, <1>8 DEF Exited
  <2>2. t \notin Exited' /\ t \notin Exited
    BY <1>1, <1>5, <1>7 DEF Exited
  <2> QED BY <2>1, <2>2 DEF Exited
<1>20. \A v \in Exited : pc'[v] = pc[v]
  BY <1>1, <1>7, <1>8 DEF Exited
<1>21. ~LastJoined /\ ~LastJoined'
  BY <1>1, <1>3, <1>5, <1>7 DEF LastJoined, Closing
<1>22. JoinChain'
  BY <1>1, <1>19, <1>20, <1>21, JoinFrame DEF Shutdown
<1> QED BY <1>14, <1>18, <1>22 DEF Shutdown

\* The thread that closes the pool: nobody else does, and the queue is there.
LEMMA Closer ==
    ASSUME Base, Shutdown, NEW t \in Threads, Closing(t)
    PROVE  /\ stop /\ mutex = NULL /\ freed = {}
           /\ \A u \in Threads : Closing(u) => u = t
           /\ \A w \in detached : w = t
           /\ t \in Workers => t \in detached
           /\ pc[t] \in {"term_join", "drain"} => nthreads = 0
<1>1. stop /\ mutex = NULL /\ "queue" \notin freed /\ "pool" \notin freed
  BY DEF Shutdown, OneCloser
<1>2. freed = {}
  BY <1>1 DEF Base, BaseTypes
<1>3. \A w \in detached : w \in Threads /\ Closing(w)
  BY <1>1, PoolBasics DEF Shutdown, OneCloser, Base, BaseTypes
<1> QED BY <1>1, <1>2, <1>3 DEF Shutdown, OneCloser

LEMMA ShutTerminateWoken ==
    ASSUME Base, Shutdown, NEW t \in Threads, thrdpool_terminate_woken(t)
    PROVE  Shutdown'
<1>1. /\ UNCHANGED <<nthreads, tid, stop, mutex, created, joinee, joined, detached, freed>>
      /\ pc[t] = "term_wake"
      /\ pc' = [pc EXCEPT ![t] = AfterTerminate(t, nthreads)]
  BY DEF thrdpool_terminate_woken, pool, ends, tasks
<1> DEFINE l == AfterTerminate(t, nthreads)
<1>2. l \in {"term_wait", "term_join"} /\ (l = "term_join" <=> nthreads <= 0)
  BY AfterTerminateType DEF Base, BaseTypes
<1>3. pc'[t] = l /\ \A u \in Threads \ {t} : pc'[u] = pc[u]
  BY <1>1 DEF Base, BaseTypes
<1> HIDE DEF l
<1>4. /\ stop /\ mutex = NULL /\ freed = {}
      /\ \A u \in Threads : Closing(u) => u = t
      /\ \A w \in detached : w = t
      /\ t \in Workers => t \in detached
  BY <1>1, Closer DEF Closing
<1>5. nthreads \in Nat
  BY <1>4, CountFree DEF Shutdown
<1>6. \A v \in Workers : v \in Threads
  BY PoolBasics
<1>7. Present' = Present /\ Exited' = Exited /\ \A v \in Exited : pc'[v] = pc[v]
  BY <1>1, <1>2, <1>3, <1>6 DEF Present, Exited
<1>8. Counted'
  BY <1>1, <1>7 DEF Shutdown, Counted
<1>9. \A u \in Threads : Closing(u)' <=> u = t
  BY <1>1, <1>2, <1>3, <1>4 DEF Closing
<1>10. (\E u \in Threads : pc'[u] \in {"term_join", "drain"}) => nthreads = 0
  BY <1>2, <1>3, <1>5, <1>9 DEF Closing
<1>11. OneCloser'
  BY <1>1, <1>4, <1>6, <1>9, <1>10 DEF OneCloser
<1>12. ~LastJoined /\ ~LastJoined'
  BY <1>1, <1>2, <1>3, <1>4 DEF LastJoined, Closing
<1>13. JoinChain'
  BY <1>1, <1>7, <1>12, JoinFrame DEF Shutdown
<1> QED BY <1>8, <1>11, <1>13 DEF Shutdown

\* The last worker that exited is joined; it is joined here for the first time.
LEMMA ShutTerminateJoin ==
    ASSUME Base, Shutdown, NEW t \in Threads, thrdpool_terminate_join(t)
    PROVE  Shutdown'
<1>1. /\ UNCHANGED <<nthreads, tid, stop, mutex, created, joinee, detached, freed>>
      /\ pc[t] = "term_join" /\ pc' = [pc EXCEPT ![t] = "drain"]
  BY DEF thrdpool_terminate_join, pool, tasks
<1>2. pc'[t] = "drain" /\ \A u \in Threads \ {t} : pc'[u] = pc[u]
  BY <1>1 DEF Base, BaseTypes
<1>3. /\ stop /\ mutex = NULL /\ freed = {}
      /\ \A u \in Threads : Closing(u) => u = t
      /\ \A w \in detached : w = t
      /\ t \in Workers => t \in detached
      /\ nthreads = 0
  BY <1>1, Closer DEF Closing
<1>4. \A v \in Workers : v \in Threads
  BY PoolBasics
<1>5. Present' = Present /\ Exited' = Exited /\ \A v \in Exited : pc'[v] = pc[v]
  BY <1>1, <1>2, <1>4 DEF Present, Exited
<1>6. Counted'
  BY <1>1, <1>5 DEF Shutdown, Counted
<1>7. \A u \in Threads : Closing(u)' <=> u = t
  BY <1>1, <1>2, <1>3 DEF Closing
<1>8. OneCloser'
  BY <1>1, <1>3, <1>4, <1>7 DEF OneCloser
<1>9. ~LastJoined /\ LastJoined'
  BY <1>1, <1>2, <1>3 DEF LastJoined, Closing
<1>10. JoinChain'
  <2>1. /\ tid = NULL => Exited = {}
        /\ tid # NULL => tid \in Exited /\ tid \in Workers /\ pc[tid] = "dead" /\ pc'[tid] = "dead"
    BY <1>5 DEF Shutdown, JoinChain, thrdpool_terminate_join, Exited
  <2>2. \A v \in Exited : joinee[v] # NULL => joinee[v] \in Exited \ {tid}
    BY DEF Shutdown, JoinChain
  <2>3. \A w \in Workers :
           /\ joined[w] \in {0, 1}
           /\ joined[w] = 1 <=> \E v \in Exited : pc[v] = "dead" /\ joinee[v] = w
    BY <1>9 DEF Shutdown, JoinChain
  <2>4. tid # NULL => joined[tid] = 0
    BY <2>1, <2>2, <2>3
  <2>5. \A w \in Workers : joined'[w] = IF w = tid THEN 1 ELSE joined[w]
    <3>1. CASE tid = NULL
      BY <3>1, PoolBasics DEF thrdpool_terminate_join
    <3>2. CASE tid # NULL
      <4>1. joined' = [joined EXCEPT ![tid] = @ + 1]
        BY <3>2 DEF thrdpool_terminate_join
      <4> QED BY <3>2, <2>1, <2>4, <4>1 DEF Base, BaseTypes
    <3> QED BY <3>1, <3>2
  <2>6. \A w \in Workers :
           /\ joined'[w] \in {0, 1}
           /\ joined'[w] = 1 <=> \/ \E v \in Exited : pc'[v] = "dead" /\ joinee[v] = w
                                 \/ w = tid
    BY <1>5, <2>3, <2>5
  <2>7. \A v \in Exited : pc'[v] = "dead" /\ joinee[v] # NULL => pc'[joinee[v]] = "dead"
    BY <1>5, <2>2 DEF Shutdown, JoinChain
  <2> HIDE DEF Exited, LastJoined
  <2> QED BY <1>1, <1>5, <1>9, <2>1, <2>6, <2>7 DEF Shutdown, JoinChain
<1> QED BY <1>6, <1>8, <1>10 DEF Shutdown

\* destroy returns: the queue is freed, and the pool too unless a worker made
\* the call, which frees it when its task has returned.
LEMMA ShutDestroy ==
    ASSUME Base, Shutdown, NEW t \in Threads, thrdpool_destroy(t)
    PROVE  Shutdown'
<1>1. /\ UNCHANGED <<nthreads, tid, stop, mutex, created, joinee, joined, detached>>
      /\ pc[t] = "drain" /\ pc' = [pc EXCEPT ![t] = "call"]
      /\ freed' = freed \cup (IF t \in Workers THEN {"queue"} ELSE {"queue", "pool"})
  BY DEF thrdpool_destroy, pool, tasks, ends, Returns, InPool
<1>2. pc'[t] = "call" /\ \A u \in Threads \ {t} : pc'[u] = pc[u]
  BY <1>1 DEF Base, BaseTypes
<1>3. /\ stop /\ mutex = NULL /\ freed = {}
      /\ \A u \in Threads : Closing(u) => u = t
      /\ \A w \in detached : w = t
      /\ t \in Workers => t \in detached
      /\ nthreads = 0
  BY <1>1, Closer DEF Closing
<1>4. (\A v \in Workers : v \in Threads) /\ (\A v \in detached : v \in Workers)
  BY PoolBasics DEF Base, BaseTypes
<1>5. Present' = Present /\ Exited' = Exited /\ \A v \in Exited : pc'[v] = pc[v]
  <2>1. \A v \in Workers : /\ v \in Present' <=> v \in Present
                           /\ v \in Exited' <=> v \in Exited
    BY <1>1, <1>2, <1>4 DEF Present, Exited
  <2> QED BY <1>1, <1>2, <1>4, <2>1 DEF Present, Exited
<1>6. Counted'
  BY <1>1, <1>5 DEF Shutdown, Counted
<1>7. \A u \in Threads : ~Closing(u)'
  BY <1>1, <1>2, <1>3 DEF Closing
<1>8. "queue" \in freed' /\ ("pool" \in freed' => t \notin Workers)
  BY <1>1, <1>3
<1>9. OneCloser'
  <2>1. \A w \in detached : pc'[w] = "call" /\ "pool" \notin freed'
    BY <1>2, <1>3, <1>4, <1>8
  <2> QED BY <1>1, <1>3, <1>4, <1>7, <1>8, <2>1 DEF OneCloser
<1>10. LastJoined /\ LastJoined'
  BY <1>1, <1>8 DEF LastJoined
<1>11. JoinChain'
  BY <1>1, <1>5, <1>10, JoinFrame DEF Shutdown
<1> QED BY <1>6, <1>9, <1>11 DEF Shutdown

\* A task has returned: only the worker that destroyed the pool finds that
\* nobody is counted.
LEMMA ShutRoutineReturn ==
    ASSUME Base, Shutdown, DestroyIsLast, CountedBeforeReturn, NEW w \in Workers,
           thrdpool_routine_return(w)
    PROVE  Shutdown'
<1>1. /\ UNCHANGED <<nthreads, tid, stop, mutex, created, joinee, joined, detached>>
      /\ pc[w] = "call" /\ prog[w] = <<>> /\ w \in Threads
  BY PoolBasics DEF thrdpool_routine_return, pool, ends, tasks
<1>2. CASE w \notin detached
  <2>1. nthreads # 0
    BY <1>1, <1>2 DEF CountedBeforeReturn
  <2>2. UNCHANGED freed /\ pc' = [pc EXCEPT ![w] = "loop"]
    BY <2>1 DEF thrdpool_routine_return
  <2>3. \A u \in Threads : pc'[u] = pc[u] \/ (u = w /\ pc'[u] = "loop")
    BY <2>2 DEF Base, BaseTypes
  <2> QED BY <1>1, <1>2, <2>2, <2>3, CallStep DEF Plain
<1>3. CASE w \in detached
  <2>1. "queue" \in freed
    BY <1>1, <1>3, DetachedIdle
  <2>2. nthreads = 0 /\ stop /\ \A u \in Threads : ~Closing(u)
    BY <2>1 DEF Shutdown, OneCloser
  <2>3. freed' = freed \cup {"pool"} /\ pc' = [pc EXCEPT ![w] = "dead"]
    BY <2>2 DEF thrdpool_routine_return
  <2>4. pc'[w] = "dead" /\ \A u \in Threads \ {w} : pc'[u] = pc[u]
    BY <1>1, <2>3 DEF Base, BaseTypes
  <2>5. (\A v \in Workers : v \in Threads) /\ (\A v \in detached : v \in Workers)
    BY PoolBasics DEF Base, BaseTypes
  <2>6. \A v \in Workers : /\ v \in Present' <=> v \in Present
                           /\ v \in Exited' <=> v \in Exited
    BY <1>1, <1>3, <2>4, <2>5 DEF Present, Exited
  <2>7. Present' = Present /\ Exited' = Exited
    BY <2>6 DEF Present, Exited
  <2>8. \A v \in Exited : pc'[v] = pc[v]
    BY <1>3, <2>4, <2>5 DEF Exited
  <2>9. Counted'
    BY <1>1, <2>7 DEF Shutdown, Counted
  <2>10. \A u \in Threads : ~Closing(u)'
    BY <2>2, <2>4 DEF Closing
  <2>11. "queue" \in freed'
    BY <2>1, <2>3
  <2>12. \A v \in detached : v = w
    BY <1>3 DEF Shutdown, OneCloser
  <2>13. mutex = NULL
    BY <2>2 DEF Shutdown, OneCloser
  <2>14. OneCloser'
    BY <1>1, <2>2, <2>4, <2>5, <2>10, <2>11, <2>12, <2>13 DEF OneCloser
  <2>15. LastJoined /\ LastJoined'
    BY <2>1, <2>11 DEF LastJoined
  <2>16. JoinChain'
    BY <1>1, <2>7, <2>8, <2>15, JoinFrame DEF Shutdown
  <2> QED BY <2>9, <2>14, <2>16 DEF Shutdown
<1> QED BY <1>2, <1>3

\* A worker exits: it takes itself off the count and becomes the new end of
\* the chain.  It was counted, so nobody has gone past terminate.
LEMMA ShutExitRoutine ==
    ASSUME Base, Shutdown, DestroyIsLast, NEW w \in Workers, thrdpool_exit_routine(w)
    PROVE  Shutdown'
<1>1. /\ UNCHANGED <<stop, mutex, created, joined, detached, freed>>
      /\ pc[w] = "exit" /\ mutex = NULL /\ tid' = w /\ nthreads' = nthreads - 1
      /\ joinee' = [joinee EXCEPT ![w] = tid] /\ w \in Threads
      /\ pc' = NotifyTerminate([pc EXCEPT ![w] = "join"])
  BY PoolBasics DEF thrdpool_exit_routine, tasks
<1>2. w \notin detached
  BY <1>1, DetachedIdle
<1>3. /\ pc'[w] = "join"
      /\ \A u \in Threads \ {w} :
            \/ pc'[u] = pc[u]
            \/ pc[u] = "term_wait" /\ pc'[u] = "term_wake"
  BY <1>1, NotifyFacts
<1>4. (\A v \in Workers : v \in Threads) /\ (\A v \in detached : v \in Workers)
  BY PoolBasics DEF Base, BaseTypes
<1>5. /\ w \in Present /\ w \notin Exited
      /\ Present' = Present \ {w} /\ Exited' = Exited \cup {w}
  <2>1. w \in Present /\ w \notin Present' /\ w \in Exited' /\ w \notin Exited
    BY <1>1, <1>2, <1>3 DEF Present, Exited
  <2>2. \A v \in Workers : v # w => /\ v \in Present' <=> v \in Present
                                    /\ v \in Exited' <=> v \in Exited
    BY <1>1, <1>3, <1>4 DEF Present, Exited
  <2> QED BY <2>1, <2>2 DEF Present, Exited
<1>6. nthreads = created + Cardinality(Present) /\ nthreads \in Nat /\ created \in Nat
      /\ nthreads # 0
  BY <1>1, <1>5, CountFree DEF Shutdown
<1>7. Counted'
  <2>1. Cardinality(Present') = Cardinality(Present) - 1
    BY <1>5, PresentFinite, FS_RemoveElement
  <2> QED BY <1>1, <1>6, <2>1, PresentFinite DEF Counted
<1>8. "queue" \notin freed /\ \A u \in Threads : pc[u] \notin {"term_join", "drain"}
  BY <1>6 DEF Shutdown, OneCloser
<1>9. \A u \in Threads : /\ Closing(u)' <=> Closing(u)
                         /\ pc'[u] \notin {"term_join", "drain"}
  BY <1>1, <1>3, <1>8 DEF Closing
<1>10. \A v \in detached : Closing(v)
  BY <1>8 DEF Shutdown, OneCloser
<1>11. OneCloser'
  <2>1. \A v \in detached : Closing(v)' /\ pc'[v] # "call"
    BY <1>4, <1>9, <1>10 DEF Closing
  <2> QED BY <1>1, <1>4, <1>8, <1>9, <2>1 DEF Shutdown, OneCloser
<1>12. ~LastJoined /\ ~LastJoined'
  BY <1>1, <1>8, <1>9 DEF LastJoined
<1>13. JoinChain'
  <2>1. joinee'[w] = tid /\ \A v \in Exited : joinee'[v] = joinee[v] /\ pc'[v] = pc[v] /\ v # w
    BY <1>1, <1>3, <1>4, <1>5 DEF Base, BaseTypes, Exited
  <2>2. w # NULL
    BY PoolBasics
  <2>3. /\ tid = NULL => Exited = {}
        /\ tid # NULL => tid \in Exited
        /\ \A v \in Exited : joinee[v] # NULL => joinee[v] \in Exited \ {tid}
    BY DEF Shutdown, JoinChain
  <2>4. \A v \in Exited' : joinee'[v] # NULL => joinee'[v] \in Exited' \ {w}
    BY <1>5, <2>1, <2>3
  <2>5. \A v, x \in Exited' : joinee'[v] # NULL /\ joinee'[v] = joinee'[x] => v = x
    <3>1. \A v, x \in Exited : joinee[v] # NULL /\ joinee[v] = joinee[x] => v = x
      BY DEF Shutdown, JoinChain
    <3> QED BY <1>5, <2>1, <2>3, <3>1
  <2>6. \A x \in Exited' : x # w => \E v \in Exited' : joinee'[v] = x
    <3>1. \A x \in Exited : x # tid => \E v \in Exited : joinee[v] = x
      BY DEF Shutdown, JoinChain
    <3> QED BY <1>5, <2>1, <3>1
  <2>7. \A x \in Workers :
           /\ joined[x] \in {0, 1}
           /\ joined[x] = 1 <=> \E v \in Exited' : pc'[v] = "dead" /\ joinee'[v] = x
    <3>1. \A x \in Workers :
             /\ joined[x] \in {0, 1}
             /\ joined[x] = 1 <=> \E v \in Exited : pc[v] = "dead" /\ joinee[v] = x
      BY <1>12 DEF Shutdown, JoinChain
    <3> QED BY <1>3, <1>5, <2>1, <3>1
  <2>8. \A v \in Exited' : pc'[v] = "dead" /\ joinee'[v] # NULL => pc'[joinee'[v]] = "dead"
    <3>1. \A v \in Exited : pc[v] = "dead" /\ joinee[v] # NULL => pc[joinee[v]] = "dead"
      BY DEF Shutdown, JoinChain
    <3> QED BY <1>3, <1>5, <2>1, <2>3, <3>1
  <2>9. ASSUME NEW S \in SUBSET Workers, w \in S,
               \A v \in S \cap Exited' : joinee'[v] # NULL => joinee'[v] \in S
        PROVE  Exited' \subseteq S
    <3>1. CASE tid = NULL
      BY <1>5, <2>3, <2>9, <3>1
    <3>2. CASE tid # NULL
      <4>1. tid \in S
        BY <1>5, <2>1, <2>9, <3>2
      <4>2. \A v \in S \cap Exited : joinee[v] # NULL => joinee[v] \in S
        BY <1>5, <2>1, <2>9
      <4>3. Exited \subseteq S
        BY <4>1, <4>2 DEF Shutdown, JoinChain
      <4> QED BY <1>5, <2>9, <4>3
    <3> QED BY <3>1, <3>2
  <2>10. w \in Exited'
    BY <1>5
  <2> HIDE DEF Exited, LastJoined
  <2> QED BY <1>1, <1>12, <2>2, <2>4, <2>5, <2>6, <2>7, <2>8, <2>9, <2>10 DEF JoinChain
<1> QED BY <1>7, <1>11, <1>13 DEF Shutdown

\* An exited worker joins the one before it, which nobody else joins, and ends.
LEMMA ShutExitJoin ==
    ASSUME Base, Shutdown, DestroyIsLast, NEW w \in Workers, thrdpool_exit_join(w)
    PROVE  Shutdown'
<1>1. /\ UNCHANGED <<nthreads, tid, stop, mutex, created, joinee, detached, freed>>
      /\ pc[w] = "join" /\ pc' = [pc EXCEPT ![w] = "dead"] /\ w \in Threads
  BY PoolBasics DEF thrdpool_exit_join, pool, tasks
<1>2. pc'[w] = "dead" /\ \A u \in Threads \ {w} : pc'[u] = pc[u]
  BY <1>1 DEF Base, BaseTypes
<1>3. w \notin detached
  BY <1>1, DetachedIdle
<1>4. (\A v \in Workers : v \in Threads) /\ (\A v \in detached : v \in Workers)
  BY PoolBasics DEF Base, BaseTypes
<1>5. Present' = Present /\ Exited' = Exited /\ w \in Exited
  <2>1. \A v \in Workers : /\ v \in Present' <=> v \in Present
                           /\ v \in Exited' <=> v \in Exited
    BY <1>1, <1>2, <1>4 DEF Present, Exited
  <2> QED BY <1>1, <1>3, <2>1 DEF Present, Exited
<1>6. Counted'
  BY <1>1, <1>5 DEF Shutdown, Counted
<1>7. \A u \in Threads : /\ Closing(u)' <=> Closing(u)
                         /\ pc'[u] \in {"term_join", "drain"} <=> pc[u] \in {"term_join", "drain"}
  BY <1>1, <1>2 DEF Closing
<1>8. \A v \in detached : pc'[v] = pc[v]
  BY <1>2, <1>3, <1>4
<1>9. OneCloser'
  BY <1>1, <1>4, <1>7, <1>8 DEF Shutdown, OneCloser
<1>10. LastJoined' <=> LastJoined
  BY <1>1, <1>2 DEF LastJoined
<1>11. JoinChain'
  <2>1. \A v \in Exited : v \in Threads /\ (pc'[v] = IF v = w THEN "dead" ELSE pc[v])
    BY <1>2, <1>4 DEF Exited
  <2>2. /\ \A v \in Exited : joinee[v] # NULL => joinee[v] \in Exited \ {tid}
        /\ \A v, x \in Exited : joinee[v] # NULL /\ joinee[v] = joinee[x] => v = x
        /\ tid # NULL => tid \in Exited
    BY DEF Shutdown, JoinChain
  <2>3. \A x \in Workers :
           /\ joined[x] \in {0, 1}
           /\ joined[x] = 1 <=> \/ \E v \in Exited : pc[v] = "dead" /\ joinee[v] = x
                                \/ x = tid /\ LastJoined
    BY DEF Shutdown, JoinChain
  <2>4. joinee[w] # NULL => /\ joinee[w] \in Workers /\ joinee[w] \in Exited
                            /\ joinee[w] # tid /\ pc[joinee[w]] = "dead"
    BY <1>5, <2>2 DEF thrdpool_exit_join, Exited
  <2>5. joinee[w] # NULL => joined[joinee[w]] = 0
    BY <1>1, <1>5, <2>2, <2>3, <2>4
  <2>6. \A x \in Workers : joined'[x] = IF x = joinee[w] THEN 1 ELSE joined[x]
    <3>1. CASE joinee[w] = NULL
      BY <3>1, PoolBasics DEF thrdpool_exit_join
    <3>2. CASE joinee[w] # NULL
      <4>1. joined' = [joined EXCEPT ![joinee[w]] = @ + 1]
        BY <3>2 DEF thrdpool_exit_join
      <4> QED BY <3>2, <2>4, <2>5, <4>1 DEF Base, BaseTypes
    <3> QED BY <3>1, <3>2
  <2>7. \A x \in Workers :
           /\ joined'[x] \in {0, 1}
           /\ joined'[x] = 1 <=> \/ \E v \in Exited : pc'[v] = "dead" /\ joinee[v] = x
                                 \/ x = tid /\ LastJoined
    BY <1>5, <2>1, <2>3, <2>6
  <2>8. \A v \in Exited : pc'[v] = "dead" /\ joinee[v] # NULL => pc'[joinee[v]] = "dead"
    <3>1. \A v \in Exited : pc[v] = "dead" /\ joinee[v] # NULL => pc[joinee[v]] = "dead"
      BY DEF Shutdown, JoinChain
    <3> QED BY <2>1, <2>2, <2>4, <3>1
  <2>9. tid # NULL /\ LastJoined => pc'[tid] = "dead"
    <3>1. tid # NULL /\ LastJoined => pc[tid] = "dead"
      BY DEF Shutdown, JoinChain
    <3> QED BY <2>1, <2>2, <3>1
  <2> HIDE DEF Exited, LastJoined
  <2> QED BY <1>1, <1>5, <1>10, <2>7, <2>8, <2>9 DEF Shutdown, JoinChain
<1> QED BY <1>6, <1>9, <1>11 DEF Shutdown

LEMMA ShutInit == Init => Shutdown
<1> SUFFICES ASSUME Init PROVE Shutdown
  OBVIOUS
<1>1. /\ \A t \in Threads : pc[t] \in {"call", "none"}
      /\ \A w \in Workers : pc[w] = "none" /\ joined[w] = 0
  BY PoolAssumption, PoolBasics DEF Init
<1>2. /\ tid = NULL /\ mutex = NULL /\ stop = FALSE /\ detached = {} /\ freed = {}
      /\ nthreads = created
  BY DEF Init
<1>3. Present = {} /\ Exited = {} /\ ~LastJoined
  BY <1>1, <1>2 DEF Present, Exited, LastJoined
<1>4. Counted
  <2>1. created \in Nat /\ Cardinality({}) = 0
    BY BaseInit, FS_EmptySet DEF Base, BaseTypes
  <2> QED BY <1>2, <1>3, <2>1 DEF Counted
<1>5. OneCloser
  BY <1>1, <1>2, PoolBasics DEF OneCloser, Closing
<1>6. JoinChain
  <2> HIDE DEF Exited, LastJoined
  <2> QED BY <1>1, <1>2, <1>3, PoolBasics DEF JoinChain
<1> QED BY <1>4, <1>5, <1>6 DEF Shutdown

LEMMA ShutNext == Base /\ Shutdown /\ WorkerContract /\ [Next]_vars => Shutdown'
<1> SUFFICES ASSUME Base, Shutdown, WorkerContract, [Next]_vars PROVE Shutdown'
  OBVIOUS
<1>1. Base' /\ NoCallAfterStop /\ DestroyIsLast /\ CountedBeforeReturn
  BY BaseNext DEF WorkerContract
<1>2. ASSUME NEW t \in Threads, Step(t) PROVE Shutdown'
  BY <1>1, <1>2, ShutSchedule, ShutDecrease, ShutIncrease, ShutIncreaseCount, ShutExit,
     ShutTerminate, ShutTerminateWoken, ShutTerminateJoin, ShutPending, ShutDestroy
  DEF Step
<1>3. ASSUME NEW w \in Workers, WorkerStep(w) PROVE Shutdown'
  BY <1>1, <1>3, ShutRoutine, ShutRoutineReturn, ShutExitRoutine, ShutExitJoin
  DEF WorkerStep
<1> QED BY <1>2, <1>3, ShutStutter, NextSteps

LEMMA PoolInvariant == Spec /\ []WorkerContract => []PoolInv
<1>1. Init => PoolInv
  BY BaseInit, ShutInit DEF PoolInv
<1>2. PoolInv /\ WorkerContract /\ [Next]_vars => PoolInv'
  BY BaseNext, ShutNext DEF PoolInv
<1> QED BY <1>1, <1>2, PTL DEF Spec

\* The count with the thread that is being created, from the mutex.
LEMMA CountingOne ==
    ASSUME PoolInv
    PROVE  /\ nthreads \in Nat
           /\ ThreadAccounting
<1> DEFINE I == {t \in Threads : pc[t] = "inc"}
<1>1. Base /\ Counted
  BY DEF PoolInv, Shutdown
<1>2. CASE mutex = NULL
  <2>1. I = {}
    BY <1>1, <1>2, PoolBasics DEF Base, MutexHeld
  <2>2. Cardinality(I) = 0
    BY <2>1, FS_EmptySet
  <2>3. nthreads = created + Cardinality(Present) /\ nthreads \in Nat /\ created \in Nat
    BY <1>1, <1>2, CountFree
  <2> HIDE DEF I
  <2>4. nthreads = created + Cardinality(Present) - Cardinality(I)
    BY <2>2, <2>3, PresentFinite
  <2> QED BY <2>3, <2>4 DEF ThreadAccounting, I
<1>3. CASE mutex # NULL
  <2>1. I = {mutex}
    BY <1>1, <1>3 DEF Base, BaseTypes, MutexHeld
  <2>2. Cardinality(I) = 1
    BY <2>1, FS_Singleton
  <2>3. nthreads = created + Cardinality(Present) - 1 /\ created \in Nat /\ Present # {}
    BY <1>1, <1>3 DEF Counted, Base, BaseTypes
  <2>4. Cardinality(Present) # 0
    BY <2>3, PresentFinite, FS_EmptySet
  <2> HIDE DEF I
  <2>5. nthreads \in Nat /\ nthreads = created + Cardinality(Present) - Cardinality(I)
    BY <2>2, <2>3, <2>4, PresentFinite
  <2> QED BY <2>5 DEF ThreadAccounting, I
<1> QED BY <1>2, <1>3

\* For any number of threads and tasks and any programs that keep to the
\* contract, the variables have their types; in particular the count of threads,
\* an unsigned number, is never decremented at zero.
THEOREM PoolTypes == Spec /\ []WorkerContract => []TypeOK
<1>1. PoolInv /\ undefined \in BOOLEAN => TypeOK
  BY CountingOne DEF PoolInv, Base, BaseTypes, TypeOK, Pcs
<1>2. Init => undefined \in BOOLEAN
  BY DEF Init
<1>3. undefined \in BOOLEAN /\ [Next]_vars => (undefined \in BOOLEAN)'
  BY DEF Next, Defined, thrdpool_decrease_contended, vars
<1> QED BY <1>1, <1>2, <1>3, PoolInvariant, PTL DEF Spec

\* nthreads is the argument of thrdpool_create and the threads present, less the
\* one that increase is creating: entering and leaving the pool is counted
\* whatever the order in which workers, tasks and callers go on.
THEOREM AccountingIsRight == Spec /\ []WorkerContract => []ThreadAccounting
<1>1. PoolInv => ThreadAccounting
  BY CountingOne
<1> QED BY <1>1, PoolInvariant, PTL

\* When the queue has been freed no worker is in the pool.
LEMMA NobodyLeft ==
    ASSUME PoolInv, "queue" \in freed
    PROVE  Present = {} /\ created = 0 /\ nthreads = 0 /\ stop /\ mutex = NULL
<1>1. nthreads = 0 /\ stop /\ mutex = NULL
  BY DEF PoolInv, Shutdown, OneCloser
<1> QED BY <1>1, CountFree DEF PoolInv, Shutdown

\* When destroy has freed the queue, every worker that was created has ended
\* and was joined exactly once, except the one that called destroy, which is
\* detached and joined by nobody: the chain of joins leaves nobody out and
\* joins nobody twice.
THEOREM ShutdownIsClean == Spec /\ []WorkerContract => []CleanShutdown
<1>1. ASSUME PoolInv, "queue" \in freed, NEW w \in Workers
      PROVE  \/ pc[w] = "none" /\ joined[w] = 0
             \/ w \in detached /\ joined[w] = 0
             \/ w \notin detached /\ pc[w] = "dead" /\ joined[w] = 1
  <2>1. Present = {} /\ LastJoined
    BY <1>1, NobodyLeft DEF LastJoined
  <2>2. JoinChain
    BY <1>1 DEF PoolInv, Shutdown
  <2>3. pc[w] = "none" \/ w \in detached \/ w \in Exited
    BY <2>1 DEF Present, Exited
  <2>4. w \notin Exited => joined[w] = 0
    <3>1. /\ \A v \in Exited : joinee[v] # NULL => joinee[v] \in Exited
          /\ tid # NULL => tid \in Exited
          /\ joined[w] \in {0, 1}
          /\ joined[w] = 1 => (\E v \in Exited : joinee[v] = w) \/ w = tid
      BY <2>2 DEF JoinChain
    <3>2. w # NULL
      BY PoolBasics
    <3> QED BY <3>1, <3>2
  <2>5. ASSUME w \in Exited PROVE pc[w] = "dead" /\ joined[w] = 1
    <3>1. tid # NULL /\ tid \in Exited /\ pc[tid] = "dead"
      BY <2>1, <2>2, <2>5 DEF JoinChain
    <3> DEFINE S == {v \in Workers : pc[v] = "dead"}
    <3>2. tid \in S /\ S \in SUBSET Workers
      BY <3>1 DEF Exited
    <3>3. \A v \in S \cap Exited : joinee[v] # NULL => joinee[v] \in S
      BY <2>2 DEF JoinChain, Exited
    <3>4. Exited \subseteq S
      <4> HIDE DEF S
      <4> QED BY <2>2, <3>2, <3>3 DEF JoinChain
    <3>5. \A v \in Exited : pc[v] = "dead"
      BY <3>4
    <3>6. joined[w] = 1
      <4>1. w = tid \/ \E v \in Exited : joinee[v] = w
        BY <2>2, <2>5 DEF JoinChain
      <4>2. joined[w] = 1 <=> \/ \E v \in Exited : pc[v] = "dead" /\ joinee[v] = w
                              \/ w = tid /\ LastJoined
        BY <2>2 DEF JoinChain
      <4> QED BY <2>1, <3>5, <4>1, <4>2
    <3> QED BY <2>5, <3>5, <3>6
  <2>6. w \in Exited => w \notin detached
    BY DEF Exited
  <2>7. pc[w] = "none" \/ w \in detached => w \notin Exited
    BY DEF Exited
  <2> QED BY <2>3, <2>4, <2>5, <2>6, <2>7
<1>2. PoolInv => CleanShutdown
  BY <1>1 DEF CleanShutdown
<1> QED BY <1>2, PoolInvariant, PTL

-----------------------------------------------------------------------------
(* The tasks, when each is scheduled once.                                 *)

\* The entries of a list, and that no task is twice in it.
Entries(q) == {q[i] : i \in DOMAIN q}
NoTwice(q) == \A i, j \in DOMAIN q : q[i] = q[j] /\ q[i] # EXIT => i = j

QueueOnce ==
    /\ NoTwice(getq) /\ NoTwice(putq)
    /\ Entries(getq) \cap Entries(putq) \subseteq {EXIT}

TaskInv == Base /\ TaskOnce /\ QueueOnce

LEMMA QueuedEntries == Queued = Entries(getq) \cup Entries(putq)
  BY DEF Queued, Entries

LEMMA EntriesMember ==
    ASSUME NEW q, NEW x
    PROVE  x \in Entries(q) <=> \E i \in DOMAIN q : q[i] = x
  BY DEF Entries

LEMMA EntriesOfEmpty == Entries(<<>>) = {} /\ NoTwice(<<>>)
  BY DEF Entries, NoTwice

\* Appending a task that is not there, and EXIT in front.
LEMMA EntriesOfAppend ==
    ASSUME NEW q \in Seq(Tasks \cup {EXIT}), NEW m \in Tasks
    PROVE  /\ Entries(Append(q, m)) = Entries(q) \cup {m}
           /\ NoTwice(q) /\ m \notin Entries(q) => NoTwice(Append(q, m))
<1> DEFINE r == Append(q, m)
<1>1. /\ Len(q) \in Nat /\ DOMAIN q = 1 .. Len(q) /\ DOMAIN r = 1 .. Len(q) + 1
      /\ r[Len(q) + 1] = m /\ \A i \in 1 .. Len(q) : r[i] = q[i]
  BY AppendProperties, LenProperties
<1> HIDE DEF r
<1>2. Entries(r) = Entries(q) \cup {m}
  <2>1. \A i \in 1 .. Len(q) + 1 : i \in 1 .. Len(q) \/ i = Len(q) + 1
    BY <1>1
  <2>2. \A i \in 1 .. Len(q) : i \in 1 .. Len(q) + 1
    BY <1>1
  <2>3. Len(q) + 1 \in 1 .. Len(q) + 1
    BY <1>1
  <2> QED BY <1>1, <2>1, <2>2, <2>3 DEF Entries
<1>3. ASSUME NoTwice(q), m \notin Entries(q) PROVE NoTwice(r)
  <2>1. \A i \in 1 .. Len(q) + 1 : i \in 1 .. Len(q) \/ i = Len(q) + 1
    BY <1>1
  <2>2. \A i \in 1 .. Len(q) : q[i] # m
    BY <1>1, <1>3 DEF Entries
  <2> QED BY <1>1, <1>3, <2>1, <2>2 DEF NoTwice
<1> QED BY <1>2, <1>3 DEF r

LEMMA EntriesOfExit ==
    ASSUME NEW q \in Seq(Tasks \cup {EXIT})
    PROVE  /\ Entries(<<EXIT>> \o q) = Entries(q) \cup {EXIT}
           /\ NoTwice(q) => NoTwice(<<EXIT>> \o q)
<1> DEFINE r == <<EXIT>> \o q
<1>1. /\ Len(q) \in Nat /\ DOMAIN q = 1 .. Len(q) /\ DOMAIN r = 1 .. Len(q) + 1
      /\ r[1] = EXIT /\ \A i \in 2 .. Len(q) + 1 : r[i] = q[i - 1]
  <2>1. <<EXIT>> \in Seq(Tasks \cup {EXIT}) /\ Len(<<EXIT>>) = 1 /\ <<EXIT>>[1] = EXIT
    OBVIOUS
  <2>2. Len(q) \in Nat /\ DOMAIN q = 1 .. Len(q)
    BY LenProperties
  <2>3. Len(r) = Len(q) + 1 /\ r \in Seq(Tasks \cup {EXIT})
    BY <2>1, <2>2, ConcatProperties
  <2>4. DOMAIN r = 1 .. Len(q) + 1
    BY <2>3, LenProperties
  <2>5. \A i \in 1 .. Len(q) + 1 : r[i] = IF i <= 1 THEN <<EXIT>>[i] ELSE q[i - 1]
    BY <2>1, <2>2, ConcatProperties
  <2> QED BY <2>1, <2>2, <2>4, <2>5
<1> HIDE DEF r
<1>2. \A i \in 1 .. Len(q) + 1 : i = 1 \/ (i \in 2 .. Len(q) + 1 /\ i - 1 \in 1 .. Len(q))
  BY <1>1
<1>3. \A i \in 1 .. Len(q) : i + 1 \in 2 .. Len(q) + 1 /\ i + 1 \in 1 .. Len(q) + 1
                             /\ r[i + 1] = q[i]
  BY <1>1
<1>4. 1 \in 1 .. Len(q) + 1
  BY <1>1
<1>5. Entries(r) = Entries(q) \cup {EXIT}
  <2>1. \A i \in 1 .. Len(q) + 1 : r[i] = EXIT \/ \E j \in 1 .. Len(q) : r[i] = q[j]
    BY <1>1, <1>2
  <2>2. \A j \in 1 .. Len(q) : \E i \in 1 .. Len(q) + 1 : r[i] = q[j]
    BY <1>3
  <2>3. r[1] = EXIT /\ 1 \in 1 .. Len(q) + 1
    BY <1>1, <1>4
  <2>4. ASSUME NEW x PROVE x \in Entries(r) <=> x \in Entries(q) \/ x = EXIT
    <3>1. x \in Entries(r) <=> \E i \in 1 .. Len(q) + 1 : r[i] = x
      BY <1>1, EntriesMember
    <3>2. x \in Entries(q) <=> \E j \in 1 .. Len(q) : q[j] = x
      BY <1>1, EntriesMember
    <3> QED BY <2>1, <2>2, <2>3, <3>1, <3>2
  <2> QED BY <2>4
<1>6. ASSUME NoTwice(q) PROVE NoTwice(r)
  <2> SUFFICES ASSUME NEW i \in 1 .. Len(q) + 1, NEW j \in 1 .. Len(q) + 1,
                      r[i] = r[j], r[i] # EXIT
               PROVE  i = j
    BY <1>1 DEF NoTwice
  <2>1. i - 1 \in 1 .. Len(q) /\ j - 1 \in 1 .. Len(q) /\ r[i] = q[i - 1] /\ r[j] = q[j - 1]
    BY <1>1, <1>2
  <2>2. i - 1 = j - 1
    BY <1>1, <1>6, <2>1 DEF NoTwice
  <2> QED BY <2>2
<1> QED BY <1>5, <1>6 DEF r

\* Taking the first entry; when it is a task it is no longer there.
LEMMA EntriesOfTail ==
    ASSUME NEW q \in Seq(Tasks \cup {EXIT}), q # <<>>, NoTwice(q)
    PROVE  /\ NoTwice(Tail(q))
           /\ Entries(Tail(q)) \subseteq Entries(q)
           /\ Head(q) \in Entries(q)
           /\ Entries(q) = Entries(Tail(q)) \cup {Head(q)}
           /\ Head(q) # EXIT => Head(q) \notin Entries(Tail(q))
<1> DEFINE r == Tail(q)
<1>1. /\ Len(q) \in Nat /\ Len(q) >= 1 /\ DOMAIN q = 1 .. Len(q) /\ DOMAIN r = 1 .. Len(q) - 1
      /\ Head(q) = q[1] /\ \A i \in 1 .. Len(q) - 1 : r[i] = q[i + 1]
  <2>1. Len(q) \in Nat /\ Len(q) >= 1 /\ DOMAIN q = 1 .. Len(q)
    BY LenProperties, EmptySeq
  <2>2. r \in Seq(Tasks \cup {EXIT}) /\ Len(r) = Len(q) - 1
        /\ \A i \in 1 .. Len(r) : r[i] = q[i + 1]
    BY HeadTailProperties
  <2>3. DOMAIN r = 1 .. Len(r)
    BY <2>2, LenProperties
  <2> QED BY <2>1, <2>2, <2>3
<1> HIDE DEF r
<1>2. \A i \in 1 .. Len(q) : i = 1 \/ (i - 1 \in 1 .. Len(q) - 1 /\ r[i - 1] = q[i])
  BY <1>1
<1>3. \A i \in 1 .. Len(q) - 1 : i + 1 \in 1 .. Len(q) /\ r[i] = q[i + 1] /\ i + 1 # 1
  BY <1>1
<1>4. 1 \in 1 .. Len(q)
  BY <1>1
<1>5. Entries(q) = Entries(r) \cup {Head(q)}
  <2>1. \A i \in 1 .. Len(q) : q[i] = Head(q) \/ \E j \in 1 .. Len(q) - 1 : q[i] = r[j]
    BY <1>1, <1>2
  <2>2. \A j \in 1 .. Len(q) - 1 : \E i \in 1 .. Len(q) : q[i] = r[j]
    BY <1>3
  <2>3. \E i \in 1 .. Len(q) : q[i] = Head(q)
    BY <1>1, <1>4
  <2>4. ASSUME NEW x PROVE x \in Entries(q) <=> x \in Entries(r) \/ x = Head(q)
    <3>1. x \in Entries(r) <=> \E j \in 1 .. Len(q) - 1 : r[j] = x
      BY <1>1, EntriesMember, SMTT(30)
    <3>2. x \in Entries(q) <=> \E i \in 1 .. Len(q) : q[i] = x
      BY <1>1, EntriesMember
    <3> QED BY <2>1, <2>2, <2>3, <3>1, <3>2
  <2> QED BY <2>4
<1>6. NoTwice(r)
  <2> SUFFICES ASSUME NEW i \in 1 .. Len(q) - 1, NEW j \in 1 .. Len(q) - 1,
                      r[i] = r[j], r[i] # EXIT
               PROVE  i = j
    BY <1>1 DEF NoTwice
  <2>1. i + 1 = j + 1
    BY <1>1, <1>3 DEF NoTwice
  <2> QED BY <2>1, <1>1
<1>7. Head(q) # EXIT => Head(q) \notin Entries(r)
  BY <1>1, <1>3, <1>4 DEF Entries, NoTwice
<1> QED BY <1>5, <1>6, <1>7 DEF r

\* The queue after a get: what was taken is gone, unless it is an EXIT.
LEMMA TakeOnce ==
    ASSUME Base, QueueOnce, ~QueueEmpty, TakeFront
    PROVE  /\ QueueOnce'
           /\ Queued = Queued' \cup {Front}
           /\ Front # EXIT => Front \notin Queued'
<1>1. getq \in Seq(Tasks \cup {EXIT}) /\ putq \in Seq(Tasks \cup {EXIT})
  BY DEF Base, BaseTypes
<1>2. Queued = Entries(getq) \cup Entries(putq) /\ Queued' = Entries(getq') \cup Entries(putq')
  BY QueuedEntries DEF Queued, Entries
<1>3. CASE getq # <<>>
  <2>1. getq' = Tail(getq) /\ putq' = putq /\ Front = Head(getq)
    BY <1>3 DEF TakeFront, Front
  <2>2. /\ NoTwice(getq') /\ Entries(getq) = Entries(getq') \cup {Front}
        /\ Front # EXIT => Front \notin Entries(getq')
    BY <1>1, <1>3, <2>1, EntriesOfTail DEF QueueOnce
  <2> HIDE DEF Front
  <2> QED BY <1>2, <2>1, <2>2 DEF QueueOnce
<1>4. CASE getq = <<>>
  <2>1. putq # <<>> /\ getq' = Tail(putq) /\ putq' = <<>> /\ Front = Head(putq)
    BY <1>4 DEF TakeFront, Front, QueueEmpty
  <2>2. /\ NoTwice(getq') /\ Entries(putq) = Entries(getq') \cup {Front}
        /\ Front # EXIT => Front \notin Entries(getq')
    BY <1>1, <2>1, EntriesOfTail DEF QueueOnce
  <2>3. Entries(getq) = {} /\ Entries(putq') = {} /\ NoTwice(putq')
    BY <1>4, <2>1, EntriesOfEmpty
  <2> HIDE DEF Front
  <2> QED BY <1>2, <2>2, <2>3 DEF QueueOnce
<1> QED BY <1>3, <1>4

\* A step that leaves the queue and the tasks alone.
LEMMA TaskFrame ==
    ASSUME TaskOnce, QueueOnce, UNCHANGED <<getq, putq, accepted, ran, pending>>
    PROVE  TaskOnce' /\ QueueOnce'
  BY DEF TaskOnce, QueueOnce, Queued, Entries, NoTwice

LEMMA TaskSchedule ==
    ASSUME TaskInv, ScheduledOnce, NEW t \in Threads, NEW m \in Tasks,
           thrdpool_schedule(t, m)
    PROVE  TaskOnce' /\ QueueOnce'
<1>1. UNCHANGED <<getq, ran, pending>> /\ TaskOnce /\ QueueOnce
  BY DEF thrdpool_schedule, queue, TaskInv
<1>2. CASE UNCHANGED <<queue, accepted>>
  BY <1>1, <1>2, TaskFrame DEF queue
<1>3. CASE putq' = Append(putq, m) /\ accepted' = accepted \cup {m}
  <2>1. m \notin accepted /\ m # EXIT
    BY PoolBasics DEF ScheduledOnce, thrdpool_schedule
  <2>2. Queued = Entries(getq) \cup Entries(putq)
    BY QueuedEntries
  <2>3. m \notin Queued /\ m \notin ran /\ m \notin pending
    BY <1>1, <2>1 DEF TaskOnce
  <2>4. putq \in Seq(Tasks \cup {EXIT})
    BY DEF TaskInv, Base, BaseTypes
  <2>5. Entries(putq') = Entries(putq) \cup {m} /\ NoTwice(putq')
    BY <1>1, <1>3, <2>2, <2>3, <2>4, EntriesOfAppend DEF QueueOnce
  <2>6. QueueOnce'
    BY <1>1, <2>2, <2>3, <2>5 DEF QueueOnce
  <2>7. Queued' = Queued \cup {m}
    BY <1>1, <2>2, <2>5 DEF Queued, Entries
  <2>8. TaskOnce'
    <3> HIDE DEF Queued
    <3> QED BY <1>1, <1>3, <2>1, <2>3, <2>7 DEF TaskOnce
  <2> QED BY <2>6, <2>8
<1> QED BY <1>2, <1>3 DEF thrdpool_schedule

LEMMA TaskDecrease ==
    ASSUME TaskInv, NEW t \in Threads, thrdpool_decrease(t)
    PROVE  TaskOnce' /\ QueueOnce'
<1>1. UNCHANGED <<accepted, ran, pending>> /\ TaskOnce /\ QueueOnce
  BY DEF thrdpool_decrease, tasks, TaskInv
<1>2. CASE UNCHANGED queue
  BY <1>1, <1>2, TaskFrame DEF queue
<1>3. CASE \/ getq' = <<EXIT>> \o getq /\ UNCHANGED putq
           \/ putq' = <<EXIT>> \o putq /\ UNCHANGED getq
  <2>1. getq \in Seq(Tasks \cup {EXIT}) /\ putq \in Seq(Tasks \cup {EXIT})
    BY DEF TaskInv, Base, BaseTypes
  <2>2. Queued = Entries(getq) \cup Entries(putq)
    BY QueuedEntries
  <2>3. \/ Entries(getq') = Entries(getq) \cup {EXIT} /\ NoTwice(getq') /\ putq' = putq
        \/ Entries(putq') = Entries(putq) \cup {EXIT} /\ NoTwice(putq') /\ getq' = getq
    BY <1>1, <1>3, <2>1, EntriesOfExit DEF QueueOnce
  <2>4. QueueOnce'
    BY <1>1, <2>3 DEF QueueOnce
  <2>5. Queued' = Queued \cup {EXIT}
    BY <2>2, <2>3 DEF Queued, Entries
  <2>6. EXIT \notin ran /\ EXIT \notin pending
    BY PoolBasics DEF TaskInv, Base, BaseTypes
  <2>7. TaskOnce'
    <3> HIDE DEF Queued
    <3> QED BY <1>1, <2>5, <2>6 DEF TaskOnce
  <2> QED BY <2>4, <2>7
<1> QED BY <1>2, <1>3 DEF thrdpool_decrease

\* A get gives its task to ran or to pending, and drops an EXIT.
LEMMA TaskTaken ==
    ASSUME TaskInv, ~QueueEmpty, TakeFront, accepted' = accepted,
           \/ Front = EXIT /\ UNCHANGED <<ran, pending>>
           \/ Front # EXIT /\ ran' = ran \cup {Front} /\ pending' = pending
           \/ Front # EXIT /\ pending' = pending \cup {Front} /\ ran' = ran
    PROVE  TaskOnce' /\ QueueOnce'
<1>1. /\ QueueOnce' /\ Queued = Queued' \cup {Front}
      /\ Front # EXIT => Front \notin Queued'
  BY TakeOnce DEF TaskInv
<1>2. TaskOnce /\ EXIT \notin ran /\ EXIT \notin pending
  BY PoolBasics DEF TaskInv, Base, BaseTypes
<1>3. Front # EXIT => Front \notin ran /\ Front \notin pending
  BY <1>1, <1>2 DEF TaskOnce
<1> HIDE DEF Queued, Front
<1> QED BY <1>1, <1>2, <1>3 DEF TaskOnce

LEMMA TaskNext == TaskInv /\ ScheduledOnce /\ [Next]_vars => TaskInv'
<1> SUFFICES ASSUME TaskInv, ScheduledOnce, [Next]_vars PROVE TaskOnce' /\ QueueOnce'
  BY BaseNext DEF TaskInv
<1>1. TaskOnce /\ QueueOnce
  BY DEF TaskInv
<1>2. ASSUME NEW t \in Threads, Step(t) PROVE TaskOnce' /\ QueueOnce'
  <2>1. CASE thrdpool_destroy_pending(t)
    <3>1. ~QueueEmpty /\ TakeFront /\ accepted' = accepted /\ ran' = ran
          /\ pending' = (IF Front = EXIT THEN pending ELSE pending \cup {Front})
      BY <2>1 DEF thrdpool_destroy_pending
    <3> QED BY <3>1, TaskTaken
  <2>2. CASE \/ thrdpool_increase(t) \/ thrdpool_increase_count(t) \/ thrdpool_exit(t)
             \/ thrdpool_terminate(t) \/ thrdpool_terminate_woken(t)
             \/ thrdpool_terminate_join(t) \/ thrdpool_destroy(t)
    <3>1. UNCHANGED <<getq, putq, accepted, ran, pending>>
      BY <2>2 DEF thrdpool_increase, thrdpool_increase_count, thrdpool_exit,
           thrdpool_terminate, thrdpool_terminate_woken, thrdpool_terminate_join,
           thrdpool_destroy, queue, tasks
    <3> QED BY <1>1, <3>1, TaskFrame
  <2> QED BY <1>2, <2>1, <2>2, TaskSchedule, TaskDecrease DEF Step
<1>3. ASSUME NEW w \in Workers, WorkerStep(w) PROVE TaskOnce' /\ QueueOnce'
  <2>1. CASE thrdpool_routine_get(w)
    <3>1. accepted' = accepted /\ pending' = pending
      BY <2>1 DEF thrdpool_routine_get
    <3>2. CASE UNCHANGED <<queue, ran>>
      BY <1>1, <3>1, <3>2, TaskFrame DEF queue
    <3>3. CASE /\ ~QueueEmpty /\ TakeFront
               /\ \/ Front = EXIT /\ UNCHANGED ran
                  \/ Front # EXIT /\ ran' = ran \cup {Front}
      BY <3>1, <3>3, TaskTaken
    <3> QED BY <2>1, <3>2, <3>3 DEF thrdpool_routine_get
  <2>2. CASE \/ thrdpool_routine(w) \/ thrdpool_routine_return(w)
             \/ thrdpool_exit_routine(w) \/ thrdpool_exit_join(w)
    <3>1. UNCHANGED <<getq, putq, accepted, ran, pending>>
      BY <2>2 DEF thrdpool_routine, thrdpool_routine_return, thrdpool_exit_routine,
           thrdpool_exit_join, queue, tasks
    <3> QED BY <1>1, <3>1, TaskFrame
  <2> QED BY <1>3, <2>1, <2>2 DEF WorkerStep
<1>4. CASE UNCHANGED state
  BY <1>1, <1>4, TaskFrame DEF state
<1> QED BY <1>2, <1>3, <1>4, NextSteps

\* A task that msgqueue_put took is in the queue, or was run, or was handed back
\* by destroy, and never two of these, whatever the shutdown races with, until
\* a decrease splices its entry into the get list beside another thread, which
\* makes the queue undefined.  It asks only that a task is not scheduled again.
THEOREM TasksRunOnce == Spec /\ []ScheduledOnce => []TaskOnce
<1>1. Init => TaskInv
  <2> SUFFICES ASSUME Init PROVE TaskInv
    OBVIOUS
  <2>1. getq = <<>> /\ putq = <<>> /\ accepted = {} /\ ran = {} /\ pending = {}
    BY DEF Init
  <2>2. Entries(getq) = {} /\ Entries(putq) = {} /\ NoTwice(getq) /\ NoTwice(putq)
    BY <2>1, EntriesOfEmpty
  <2>3. Queued = {}
    BY <2>2, QueuedEntries
  <2> QED BY <2>1, <2>2, <2>3, BaseInit DEF TaskInv, TaskOnce, QueueOnce
<1>2. TaskInv => TaskOnce
  BY DEF TaskInv
<1> QED BY <1>1, <1>2, TaskNext, PTL DEF Spec
=============================================================================
