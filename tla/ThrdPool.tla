------------------------------ MODULE ThrdPool ------------------------------
(***************************************************************************)
(* The thread pool of src/kernel/thrdpool.cc: workers that take tasks from *)
(* a message queue, and a shutdown in which every exiting worker joins the *)
(* one that exited before it.                                              *)
(*                                                                         *)
(* The queue is used here one call at a time; what remains visible of it   *)
(* are its two lists, because msgqueue_put looks at the put list only, and *)
(* its two modes.  The pool creates it with msg_max = 0.  One case is not  *)
(* atomic in the code: msgqueue_put_head splices into the get list without *)
(* the get mutex when another thread has it (module MsgQueue, mq_splice).  *)
(* A decrease that may meet that case may therefore leave the queue        *)
(* undefined, and the behaviour ends there.                                *)
(*                                                                         *)
(* What callers do is given by programs: the calls an application thread   *)
(* makes one after the other, and the calls a task makes when it runs.     *)
(***************************************************************************)
EXTENDS Integers, Sequences, FiniteSets

CONSTANTS
    Apps,         \* threads outside the pool that use it
    Workers,      \* the threads that the pool may create
    Tasks,        \* tasks to schedule; as a call, to schedule the task
    Programs,     \* what may happen: records of the argument nthreads of
                  \* thrdpool_create, and of the calls that each of
                  \* Apps \cup Tasks makes
    EXIT,         \* a queue entry whose routine is __thrdpool_exit_routine
    NULL

Threads == Apps \cup Workers
Calls == Tasks \cup {"increase", "decrease", "exit", "destroy"}

ASSUME PoolAssumption ==
    /\ IsFiniteSet(Workers)
    /\ Apps \cap Workers = {}
    /\ EXIT \notin Tasks
    /\ NULL \notin Threads
    /\ \A p \in Programs : /\ p.nthreads \in Nat
                           /\ p.calls \in [Apps \cup Tasks -> Seq(Calls)]

VARIABLES
    getq, putq, nonblock,   \* the message queue
    nthreads, tid, stop,    \* the fields of thrdpool
    created,                \* the argument of thrdpool_create
    mutex,                  \* its holder between two actions, or NULL
    pc,                     \* where each thread is
    prog,                   \* the calls each thread has still to make
    program,                \* the program of each task
    joinee,                 \* local tid of __thrdpool_exit_routine
    joined,                 \* how often pthread_join was called on a thread
    detached,               \* workers that called pthread_detach
    accepted,               \* tasks that msgqueue_put took
    ran, pending,           \* tasks that were run, tasks given to pending()
    freed,                  \* what was freed: "queue", "pool"
    bad,                    \* freed memory was used
    undefined               \* two threads were in the get list at once

state == <<getq, putq, nonblock, nthreads, tid, stop, created, mutex, pc, prog,
           program, joinee, joined, detached, accepted, ran, pending, freed, bad>>
vars == <<state, undefined>>

queue == <<getq, putq, nonblock>>
pool == <<nthreads, tid, stop, mutex>>
ends == <<joinee, joined, detached>>
tasks == <<created, program, accepted, ran, pending>>

\* The action uses the objects in S.
Uses(S) == bad' = (bad \/ S \cap freed # {})

-----------------------------------------------------------------------------
(* The message queue with msg_max = 0.                                     *)

\* The next message, once there is one.
Front == IF getq # <<>> THEN Head(getq) ELSE Head(putq)

\* Mutant of TakeFront: the put list is not emptied by the exchange.
TakeFrontTwice ==
    /\ IF getq # <<>> THEN getq' = Tail(getq) /\ UNCHANGED putq
                      ELSE getq' = Tail(putq) /\ UNCHANGED putq
    /\ UNCHANGED nonblock

\* msgqueue_get takes it; an empty get list is exchanged with the put list.
TakeFront ==
    /\ IF getq # <<>> THEN getq' = Tail(getq) /\ UNCHANGED putq
                      ELSE getq' = Tail(putq) /\ putq' = <<>>
    /\ UNCHANGED nonblock

QueueEmpty == getq = <<>> /\ putq = <<>>

\* msgqueue_put waits when msg_cnt = msg_max, that is on an EMPTY put list.
PutWaits == putq = <<>> /\ ~nonblock

\* msgqueue_put_head waits on an empty put list in the nonblocking mode.
PutHeadWaits == putq = <<>> /\ nonblock

\* msgqueue_set_nonblock wakes everybody who waits to put.
WakePutters(f) ==
    [t \in Threads |-> CASE f[t] = "put_wait" -> "put_wake"
                         [] f[t] = "ph_wait"  -> "ph_wake"
                         [] OTHER             -> f[t]]

-----------------------------------------------------------------------------
(* Calls.  A thread at "call" makes the next call of its program.          *)

Calling(t, c) == pc[t] = "call" /\ prog[t] # <<>> /\ Head(prog[t]) = c

\* The call returns.
Returns(t) ==
    /\ pc' = [pc EXCEPT ![t] = "call"]
    /\ prog' = [prog EXCEPT ![t] = Tail(@)]

thrdpool_schedule(t, m) ==
    /\ \/ Calling(t, m)
       \/ pc[t] = "put_wake" /\ Head(prog[t]) = m
    /\ \/ /\ PutWaits
          /\ pc' = [pc EXCEPT ![t] = "put_wait"]
          /\ UNCHANGED <<queue, prog, accepted>>
       \/ /\ ~PutWaits
          /\ putq' = Append(putq, m)
          /\ accepted' = accepted \cup {m}
          /\ Returns(t)
          /\ UNCHANGED <<getq, nonblock>>
    /\ Uses({"queue"})
    /\ UNCHANGED <<pool, ends, created, program, ran, pending, freed>>

\* Another thread may be in the get list when t splices into it: a getter
\* between lines 108 and 116 of msgqueue.cc, or a second caller of put_head.
Contended(t) ==
    /\ getq # <<>>
    /\ \E u \in Threads \ {t} : pc[u] \in {"get", "drain"} \/ Calling(u, "decrease")

\* Then try_lock fails, lines 67-68 of msgqueue.cc run without the mutex, and
\* what the other thread has read may be lost, or be taken twice.
thrdpool_decrease_contended(t) ==
    /\ Calling(t, "decrease")
    /\ Contended(t)
    /\ undefined' = TRUE
    /\ UNCHANGED state

\* The entry goes in front of the get list by a thread that has get_mutex (or
\* meets nobody), or in front of the put list under put_mutex.
thrdpool_decrease(t) ==
    /\ Calling(t, "decrease") \/ pc[t] = "ph_wake"
    /\ \/ /\ pc[t] = "call" /\ getq # <<>>
          /\ getq' = <<EXIT>> \o getq
          /\ Returns(t)
          /\ UNCHANGED <<putq, nonblock>>
       \/ /\ pc[t] = "ph_wake" \/ getq = <<>>
          /\ \/ /\ PutHeadWaits
                /\ pc' = [pc EXCEPT ![t] = "ph_wait"]
                /\ UNCHANGED <<queue, prog>>
             \/ /\ ~PutHeadWaits
                /\ putq' = <<EXIT>> \o putq
                /\ Returns(t)
                /\ UNCHANGED <<getq, nonblock>>
    /\ Uses({"queue"})
    /\ UNCHANGED <<pool, ends, tasks, freed>>

\* Lines 167-176 and 184-185: under the mutex a thread is created, which runs
\* at once, or pthread_create fails.
thrdpool_increase(t) ==
    /\ Calling(t, "increase")
    /\ mutex = NULL
    /\ \/ /\ \E w \in Workers :
                /\ pc[w] = "none"
                /\ pc' = [pc EXCEPT ![t] = "inc", ![w] = "loop"]
          /\ mutex' = t
          /\ UNCHANGED prog
       \/ Returns(t) /\ UNCHANGED mutex
    /\ Uses({"pool"})
    /\ UNCHANGED <<queue, nthreads, tid, stop, ends, tasks, freed>>

\* Mutant of thrdpool_increase_count: the new thread is not counted.
IncreaseUncounted(t) ==
    /\ pc[t] = "inc"
    /\ mutex' = NULL
    /\ Returns(t)
    /\ Uses({"pool"})
    /\ UNCHANGED <<queue, nthreads, tid, stop, ends, tasks, freed>>

\* Lines 177-181: it is counted, and the mutex released.
thrdpool_increase_count(t) ==
    /\ pc[t] = "inc"
    /\ nthreads' = nthreads + 1
    /\ mutex' = NULL
    /\ Returns(t)
    /\ Uses({"pool"})
    /\ UNCHANGED <<queue, tid, stop, ends, tasks, freed>>

\* thrdpool_exit does something only for a thread of the pool.
thrdpool_exit(t) ==
    /\ Calling(t, "exit")
    /\ \/ /\ t \in Workers
          /\ pc' = [pc EXCEPT ![t] = "exit"]
          /\ prog' = [prog EXCEPT ![t] = <<>>]
       \/ t \notin Workers /\ Returns(t)
    /\ UNCHANGED <<queue, pool, ends, tasks, freed, bad>>

-----------------------------------------------------------------------------
(* Shutdown *)

\* Lines 79 and 210: parent_thrdpool is set in the threads of the pool.
InPool(t) == t \in Workers

\* Mutant of AfterTerminate: line 83 tests the condition only once.
TerminateOnce(t, n) == "term_join"

\* Line 83, with n threads left.
AfterTerminate(t, n) == IF n > 0 THEN "term_wait" ELSE "term_join"

\* Lines 74-85: the queue becomes nonblocking, the pool stops, and the
\* caller waits until no other thread is counted.
thrdpool_terminate(t) ==
    /\ Calling(t, "destroy")
    /\ mutex = NULL
    /\ nonblock' = TRUE
    /\ stop' = TRUE
    /\ nthreads' = IF InPool(t) THEN nthreads - 1 ELSE nthreads
    /\ detached' = IF InPool(t) THEN detached \cup {t} ELSE detached
    /\ pc' = [WakePutters(pc) EXCEPT ![t] = AfterTerminate(t, nthreads')]
    /\ Uses({"pool", "queue"})
    /\ UNCHANGED <<getq, putq, tid, mutex, prog, joinee, joined, tasks, freed>>

\* Lines 83-85 again, after terminate was notified.
thrdpool_terminate_woken(t) ==
    /\ pc[t] = "term_wake"
    /\ mutex = NULL
    /\ pc' = [pc EXCEPT ![t] = AfterTerminate(t, nthreads)]
    /\ Uses({"pool"})
    /\ UNCHANGED <<queue, pool, prog, ends, tasks, freed>>

\* Lines 87-88, without the mutex.
thrdpool_terminate_join(t) ==
    /\ pc[t] = "term_join"
    /\ \/ tid = NULL /\ UNCHANGED joined
       \/ /\ tid # NULL /\ pc[tid] = "dead"
          /\ joined' = [joined EXCEPT ![tid] = @ + 1]
    /\ pc' = [pc EXCEPT ![t] = "drain"]
    /\ Uses({"pool"})
    /\ UNCHANGED <<queue, pool, prog, joinee, detached, tasks, freed>>

\* Lines 214-223: one entry left in the queue.
thrdpool_destroy_pending(t) ==
    /\ pc[t] = "drain"
    /\ ~QueueEmpty
    /\ pending' = IF Front = EXIT THEN pending ELSE pending \cup {Front}
    /\ TakeFront
    /\ Uses({"queue"})
    /\ UNCHANGED <<pool, pc, prog, created, program, accepted, ran, ends, freed>>

\* Lines 216-226: the queue is empty and freed; a caller outside the pool
\* frees the pool as well.
thrdpool_destroy(t) ==
    /\ pc[t] = "drain"
    /\ QueueEmpty
    /\ freed' = freed \cup (IF InPool(t) THEN {"queue"} ELSE {"queue", "pool"})
    /\ Returns(t)
    /\ Uses({"queue", "pool"})
    /\ UNCHANGED <<queue, pool, ends, tasks>>

-----------------------------------------------------------------------------
(* A worker *)

\* Line 54.
thrdpool_routine(w) ==
    /\ pc[w] = "loop"
    /\ pc' = [pc EXCEPT ![w] = IF stop THEN "exit" ELSE "get"]
    /\ Uses({"pool"})
    /\ UNCHANGED <<queue, pool, prog, ends, tasks, freed>>

\* Lines 55-62: the worker waits for an entry; it runs it, or exits when
\* there is none.
thrdpool_routine_get(w) ==
    /\ pc[w] = "get"
    /\ \/ /\ QueueEmpty /\ nonblock
          /\ pc' = [pc EXCEPT ![w] = "exit"]
          /\ UNCHANGED <<queue, prog, ran>>
       \/ /\ ~QueueEmpty /\ Front = EXIT
          /\ TakeFront
          /\ pc' = [pc EXCEPT ![w] = "exit"]
          /\ UNCHANGED <<prog, ran>>
       \/ /\ ~QueueEmpty /\ Front # EXIT
          /\ TakeFront
          /\ pc' = [pc EXCEPT ![w] = "call"]
          /\ prog' = [prog EXCEPT ![w] = program[Front]]
          /\ ran' = ran \cup {Front}
    /\ Uses({"queue"})
    /\ UNCHANGED <<pool, created, program, accepted, pending, ends, freed>>

\* Lines 63-66: the task has returned.  nthreads is read without the mutex.
thrdpool_routine_return(w) ==
    /\ w \in Workers
    /\ pc[w] = "call" /\ prog[w] = <<>>
    /\ \/ /\ nthreads = 0
          /\ freed' = freed \cup {"pool"}
          /\ pc' = [pc EXCEPT ![w] = "dead"]
       \/ /\ nthreads # 0
          /\ pc' = [pc EXCEPT ![w] = "loop"]
          /\ UNCHANGED freed
    /\ Uses({"pool"})
    /\ UNCHANGED <<queue, pool, prog, ends, tasks>>

\* Mutant of NotifyTerminate: line 36 compares before it decrements.
NotifyTerminateEarly(f) ==
    IF nthreads = 0 /\ stop
    THEN [t \in Threads |-> IF f[t] = "term_wait" THEN "term_wake" ELSE f[t]]
    ELSE f

\* Lines 36-38: the last counted thread notifies the one in terminate.
NotifyTerminate(f) ==
    IF nthreads - 1 = 0 /\ stop
    THEN [t \in Threads |-> IF f[t] = "term_wait" THEN "term_wake" ELSE f[t]]
    ELSE f

\* Mutant of thrdpool_exit_routine: line 34 is missing.
ExitWithoutTid(w) ==
    /\ pc[w] = "exit"
    /\ mutex = NULL
    /\ nthreads' = nthreads - 1
    /\ joinee' = [joinee EXCEPT ![w] = tid]
    /\ pc' = NotifyTerminate([pc EXCEPT ![w] = "join"])
    /\ Uses({"pool"})
    /\ UNCHANGED <<queue, tid, stop, mutex, prog, joined, detached, tasks,
                   freed>>

\* Lines 32-39: the worker leaves its id for the next one to join.
thrdpool_exit_routine(w) ==
    /\ pc[w] = "exit"
    /\ mutex = NULL
    /\ tid' = w
    /\ nthreads' = nthreads - 1
    /\ joinee' = [joinee EXCEPT ![w] = tid]
    /\ pc' = NotifyTerminate([pc EXCEPT ![w] = "join"])
    /\ Uses({"pool"})
    /\ UNCHANGED <<queue, stop, mutex, prog, joined, detached, tasks, freed>>

\* Lines 40-43: it joins the one before it, and exits.
thrdpool_exit_join(w) ==
    /\ pc[w] = "join"
    /\ \/ joinee[w] = NULL /\ UNCHANGED joined
       \/ /\ joinee[w] # NULL /\ pc[joinee[w]] = "dead"
          /\ joined' = [joined EXCEPT ![joinee[w]] = @ + 1]
    /\ pc' = [pc EXCEPT ![w] = "dead"]
    /\ UNCHANGED <<queue, pool, prog, joinee, detached, tasks, freed, bad>>

-----------------------------------------------------------------------------
\* thrdpool_create.  nthreads is set to its argument before the
\* loop of line 100 runs while it is smaller: no thread is created.
Init ==
    /\ \E p \in Programs :
          /\ created = p.nthreads
          /\ prog = [t \in Threads |-> IF t \in Apps THEN p.calls[t] ELSE <<>>]
          /\ program = [m \in Tasks |-> p.calls[m]]
    /\ getq = <<>> /\ putq = <<>> /\ nonblock = FALSE
    /\ nthreads = created
    /\ tid = NULL /\ stop = FALSE /\ mutex = NULL
    /\ pc = [t \in Threads |-> IF t \in Apps THEN "call" ELSE "none"]
    /\ joinee = [w \in Workers |-> NULL]
    /\ joined = [w \in Workers |-> 0]
    /\ detached = {} /\ accepted = {} /\ ran = {} /\ pending = {}
    /\ freed = {}
    /\ bad = FALSE
    /\ undefined = FALSE

Step(t) ==
    \/ \E m \in Tasks : thrdpool_schedule(t, m)
    \/ thrdpool_decrease(t)
    \/ thrdpool_increase(t)
    \/ thrdpool_increase_count(t)
    \/ thrdpool_exit(t)
    \/ thrdpool_terminate(t)
    \/ thrdpool_terminate_woken(t)
    \/ thrdpool_terminate_join(t)
    \/ thrdpool_destroy_pending(t)
    \/ thrdpool_destroy(t)

WorkerStep(w) ==
    \/ thrdpool_routine(w)
    \/ thrdpool_routine_get(w)
    \/ thrdpool_routine_return(w)
    \/ thrdpool_exit_routine(w)
    \/ thrdpool_exit_join(w)

\* Everybody has finished.
AllDone ==
    /\ \A a \in Apps : pc[a] = "call" /\ prog[a] = <<>>
    /\ \A w \in Workers : pc[w] \in {"none", "dead"}

\* A step of the program while it is defined.
Defined(A) == ~undefined /\ A /\ UNCHANGED undefined

Next ==
    \/ \E t \in Threads : Defined(Step(t))
    \/ \E w \in Workers : Defined(WorkerStep(w))
    \/ \E t \in Threads : ~undefined /\ thrdpool_decrease_contended(t)
    \/ AllDone /\ UNCHANGED vars

Spec == Init /\ [][Next]_vars

\* Every thread is scheduled: tasks return, and the application goes on.
Fairness ==
    /\ \A t \in Threads : WF_vars(Defined(Step(t)))
    /\ \A w \in Workers : WF_vars(Defined(WorkerStep(w)))

FairSpec == Spec /\ Fairness

-----------------------------------------------------------------------------
(* Properties *)

InCall == {"call", "put_wait", "put_wake", "ph_wait", "ph_wake", "inc",
           "term_wait", "term_wake", "term_join", "drain"}

\* Types; in particular nthreads, a size_t, is never decremented at zero.
TypeOK ==
    /\ getq \in Seq(Tasks \cup {EXIT}) /\ putq \in Seq(Tasks \cup {EXIT})
    /\ nonblock \in BOOLEAN /\ stop \in BOOLEAN
    /\ bad \in BOOLEAN /\ undefined \in BOOLEAN
    /\ nthreads \in Nat /\ created \in Nat
    /\ tid \in Workers \cup {NULL}
    /\ mutex \in Threads \cup {NULL}
    /\ pc \in [Threads -> InCall \cup {"none", "loop", "get", "exit", "join",
                                       "dead"}]
    /\ prog \in [Threads -> Seq(Calls)]
    /\ program \in [Tasks -> Seq(Calls)]
    /\ joinee \in [Workers -> Workers \cup {NULL}]
    /\ joined \in [Workers -> Nat]
    /\ detached \in SUBSET Workers
    /\ accepted \in SUBSET Tasks
    /\ ran \in SUBSET Tasks /\ pending \in SUBSET Tasks
    /\ freed \in SUBSET {"queue", "pool"}

\* The threads that are in the pool: created, and not past the decrement of
\* their exit or, for the one that destroys the pool, of its terminate.
Present ==
    {w \in Workers : pc[w] \notin {"none", "join", "dead"}} \ detached

\* nthreads counts what shutdown waits for: the argument of create and the
\* threads present, but not the one being created right now.  (The argument is
\* counted though line 100 creates no thread for it: see LastWorkerEndsWait.)
ThreadAccounting ==
    nthreads = created + Cardinality(Present)
                 - Cardinality({t \in Threads : pc[t] = "inc"})

\* No call and no worker uses the queue or the pool after it was freed.
NoUseAfterFree == ~bad

\* destroy returns with no thread of the pool left behind: every worker has
\* ended and was joined exactly once, except that nobody may join a worker
\* that detached itself because it is the one that called destroy.
CleanShutdown ==
    "queue" \in freed =>
        \A w \in Workers :
            \/ pc[w] = "none" /\ joined[w] = 0
            \/ w \in detached /\ joined[w] = 0
            \/ w \notin detached /\ pc[w] = "dead" /\ joined[w] = 1

\* The tasks waiting in the queue.
Queued == {getq[i] : i \in DOMAIN getq} \cup {putq[i] : i \in DOMAIN putq}

\* A task that was accepted is waiting, or was run, or was handed back by
\* destroy, and never two of these, as long as no splice of a decrease met
\* another thread in the get list.
TaskOnce ==
    /\ accepted = ran \cup pending \cup (Queued \ {EXIT})
    /\ ran \cap pending = {}
    /\ (ran \cup pending) \cap Queued = {}

\* The comment of line 35: the thread that brings nthreads to zero is the
\* last one.  So once the pool stops and no thread is present or being
\* created, nobody is left waiting for terminate.
LastWorkerEndsWait ==
    stop /\ Present = {} /\ (\A t \in Threads : pc[t] # "inc")
        => \A t \in Threads : pc[t] # "term_wait"

\* The comment of line 76: nobody stays blocked in the queue and misses the
\* termination.  A destroy that was called returns, if the pool was created
\* with no thread and no task calls decrease meanwhile (ShrinkPrograms): the
\* chain of joins has no cycle and every worker gets to its exit.  A pool
\* created with threads counts some that do not exist.
DestroyReturns == created = 0 /\ stop ~> "queue" \in freed

-----------------------------------------------------------------------------
(* What the callers have to keep to; the code does not check it.           *)

\* Once a destroy has begun, nobody calls increase or destroy.
NoCallAfterStop ==
    stop => \A t \in Threads : ~Calling(t, "increase") /\ ~Calling(t, "destroy")

\* A task that destroys its pool makes no other call after that.
DestroyIsLast == \A w \in detached : pc[w] = "call" => prog[w] = <<>>

\* A new thread is counted by line 178 before its first task returns to line 63,
\* which takes a count of zero for a destroyed pool.
CountedBeforeReturn ==
    \A w \in Workers \ detached : pc[w] = "call" /\ prog[w] = <<>> => nthreads # 0

WorkerContract == NoCallAfterStop /\ DestroyIsLast /\ CountedBeforeReturn

\* When destroy returns, no thread outside the pool is about to schedule or to
\* decrease, or was woken inside such a call.
NoUserAfterDestroy ==
    "queue" \in freed =>
        \A a \in Apps : /\ pc[a] \notin {"put_wake", "ph_wake"}
                        /\ \A c \in Tasks \cup {"decrease"} : ~Calling(a, c)

\* A task is not scheduled again.
ScheduledOnce ==
    \A t \in Threads, m \in Tasks :
        Calling(t, m) \/ (pc[t] = "put_wake" /\ Head(prog[t]) = m) => m \notin accepted
=============================================================================
