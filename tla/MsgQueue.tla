------------------------------ MODULE MsgQueue ------------------------------
(***************************************************************************)
(* The message queue of src/kernel/msgqueue.cc: two linked lists, a get    *)
(* list guarded by get_mutex and a put list guarded by put_mutex, which a  *)
(* getter exchanges when the get list runs dry.                            *)
(*                                                                         *)
(* A list is the sequence of messages reachable from its head cell.  A     *)
(* read of *get_head is therefore a read of the whole chain behind it:     *)
(* link fields inside the get list are never written again.  put_tail is   *)
(* the number of the put-list node whose link field it addresses, 0 for    *)
(* the head cell itself.                                                   *)
(*                                                                         *)
(* One action is one statement, or one stretch of statements under         *)
(* put_mutex.  The std::mutex of the build is a plain pthread mutex:       *)
(* try_lock by its owner returns false, unlock by a thread that is not     *)
(* the owner releases it.                                                  *)
(*                                                                         *)
(* A definition marked Mutant is not part of the model: it is a plausible  *)
(* slip in the definition that follows it, kept to show which property     *)
(* would notice.                                                           *)
(***************************************************************************)
EXTENDS Integers, Sequences, FiniteSets

CONSTANTS
    Putters,      \* threads that call msgqueue_put
    PutHeaders,   \* threads that call msgqueue_put_head
    Getters,      \* threads that call msgqueue_get
    Setters,      \* threads that call msgqueue_set_nonblock and set_block
    Msgs,         \* the messages, each put at most once
    MsgMax,       \* maxlen, the argument of msgqueue_create
    SizeMax,      \* the largest size_t
    Spurious,     \* whether a condition variable may wake a thread unasked
    NULL

Threads == Putters \cup PutHeaders \cup Getters \cup Setters

ASSUME ConstAssumption ==
    /\ MsgMax \in Nat
    /\ SizeMax \in Nat
    /\ MsgMax <= SizeMax
    /\ Spurious \in BOOLEAN
    /\ NULL \notin Msgs \cup Threads

VARIABLES
    getq,         \* the chain behind *get_head
    putq,         \* the chain behind *put_head
    put_tail,     \* the node of putq that put_tail addresses, 0 the head cell
    msg_cnt,
    nonblock,
    get_mutex,    \* the thread that locked it last, or NULL
    put_mutex,    \* the same; held between actions only by put_head
    pc,           \* the statement each thread is about to execute
    msg,          \* the message a call in progress is working on
    snap,         \* the chain that line 67 or 112 read, not yet stored
    unsent,       \* messages not given to the queue yet
    delivered     \* messages returned by msgqueue_get, in order

vars == <<getq, putq, put_tail, msg_cnt, nonblock, get_mutex, put_mutex,
          pc, msg, snap, unsent, delivered>>

lists == <<getq, putq, put_tail, msg_cnt>>

-----------------------------------------------------------------------------
(* Condition variables.  The threads waiting on get_cond are those at      *)
(* swap_wait, the ones waiting on put_cond are at put_wait and ph_wait.    *)

\* The call of thread t returns.
Return(t) == [pc EXCEPT ![t] = "idle"]

\* get_cond.notify_one(): the possible control states after it.
NotifyGet(f) ==
    LET W == {t \in Threads : f[t] = "swap_wait"}
    IN  IF W = {} THEN {f} ELSE {[f EXCEPT ![w] = "swap"] : w \in W}

\* put_cond.notify_all().
NotifyPut(f) ==
    [t \in Threads |-> CASE f[t] = "put_wait" -> "put_wake"
                         [] f[t] = "ph_wait"  -> "ph_wake"
                         [] OTHER             -> f[t]]

-----------------------------------------------------------------------------
(* msgqueue_put *)

\* Line 49, the condition under which put waits.
PutBlocks == msg_cnt = MsgMax /\ ~nonblock

\* Mutant of PutLocked: put_tail is not moved on to the new message.
PutKeepsTail(t, m) ==
    /\ put_mutex = NULL
    /\ \/ /\ PutBlocks
          /\ pc' = [pc EXCEPT ![t] = "put_wait"]
          /\ msg' = [msg EXCEPT ![t] = m]
          /\ UNCHANGED lists
       \/ /\ ~PutBlocks
          /\ putq' = Append(SubSeq(putq, 1, put_tail), m)
          /\ msg_cnt' = msg_cnt + 1
          /\ pc' = [pc EXCEPT ![t] = "put_notify"]
          /\ msg' = [msg EXCEPT ![t] = NULL]
          /\ UNCHANGED <<getq, put_tail>>
    /\ UNCHANGED <<nonblock, get_mutex, put_mutex, snap, delivered>>

\* Lines 49-55 for message m, with put_mutex free to take.
PutLocked(t, m) ==
    /\ put_mutex = NULL
    /\ \/ /\ PutBlocks
          /\ pc' = [pc EXCEPT ![t] = "put_wait"]
          /\ msg' = [msg EXCEPT ![t] = m]
          /\ UNCHANGED lists
       \/ /\ ~PutBlocks
          /\ putq' = Append(SubSeq(putq, 1, put_tail), m)
          /\ put_tail' = put_tail + 1
          /\ msg_cnt' = msg_cnt + 1
          /\ pc' = [pc EXCEPT ![t] = "put_notify"]
          /\ msg' = [msg EXCEPT ![t] = NULL]
          /\ UNCHANGED getq
    /\ UNCHANGED <<nonblock, get_mutex, put_mutex, snap, delivered>>

msgqueue_put(t, m) ==
    /\ pc[t] = "idle" /\ t \in Putters
    /\ m \in unsent
    /\ unsent' = unsent \ {m}
    /\ PutLocked(t, m)

\* A caller of put that put_cond woke tests the limit again.
msgqueue_put_woken(t) ==
    /\ pc[t] = "put_wake"
    /\ PutLocked(t, msg[t])
    /\ UNCHANGED unsent

\* Mutant of msgqueue_put_notify: the signal to the getter is forgotten.
PutNoSignal(t) ==
    /\ pc[t] = "put_notify"
    /\ pc' = [pc EXCEPT ![t] = "idle"]
    /\ UNCHANGED <<lists, nonblock, get_mutex, put_mutex, msg, snap, unsent,
                   delivered>>

\* Line 56, after put_mutex was released.
msgqueue_put_notify(t) ==
    /\ pc[t] = "put_notify"
    /\ pc' \in NotifyGet(Return(t))
    /\ UNCHANGED <<lists, nonblock, get_mutex, put_mutex, msg, snap, unsent,
                   delivered>>

-----------------------------------------------------------------------------
(* msgqueue_put_head *)

\* Line 74, the condition under which put_head waits.
PutHeadBlocks == msg_cnt = MsgMax /\ nonblock

\* Lines 77-81: the new first node becomes the tail of an empty put list,
\* and otherwise the tail stays at its node, which is one further back.
TailAfterPutHead ==
    IF putq = <<>> THEN 1 ELSE IF put_tail = 0 THEN 0 ELSE put_tail + 1

\* Lines 74-84: the get list was seen empty, the message goes in front of
\* the put list, and put_mutex is released last.
PutHeadAtPut(t, m) ==
    /\ \/ /\ PutHeadBlocks
          /\ pc' = [pc EXCEPT ![t] = "ph_wait"]
          /\ msg' = [msg EXCEPT ![t] = m]
          /\ UNCHANGED lists
       \/ /\ ~PutHeadBlocks
          /\ putq' = <<m>> \o putq
          /\ put_tail' = TailAfterPutHead
          /\ msg_cnt' = msg_cnt + 1
          /\ pc' \in NotifyGet(Return(t))
          /\ msg' = [msg EXCEPT ![t] = NULL]
          /\ UNCHANGED getq
    /\ put_mutex' = NULL
    /\ UNCHANGED <<nonblock, get_mutex, snap, delivered>>

\* Lines 62-72, the first round of the loop.  try_lock() == 0 is the test
\* that the lock was NOT obtained: on failure the code goes on to splice, on
\* success it tries once more while it holds both mutexes.
msgqueue_put_head(t, m) ==
    /\ pc[t] = "idle" /\ t \in PutHeaders
    /\ m \in unsent
    /\ unsent' = unsent \ {m}
    /\ put_mutex = NULL
    /\ \/ /\ getq = <<>>
          /\ PutHeadAtPut(t, m)
       \/ /\ getq # <<>> /\ get_mutex = NULL
          /\ get_mutex' = t
          /\ put_mutex' = t
          /\ pc' = [pc EXCEPT ![t] = "ph_retry"]
          /\ msg' = [msg EXCEPT ![t] = m]
          /\ UNCHANGED <<lists, nonblock, snap, delivered>>
       \/ /\ getq # <<>> /\ get_mutex # NULL
          /\ pc' = [pc EXCEPT ![t] = "ph_link"]
          /\ msg' = [msg EXCEPT ![t] = m]
          /\ UNCHANGED <<lists, nonblock, get_mutex, put_mutex, snap,
                         delivered>>

\* Mutant of msgqueue_put_head_retry: line 66 releases both mutexes.
RetryReleasesBoth(t) ==
    /\ pc[t] = "ph_retry"
    /\ UNCHANGED unsent
    /\ \/ /\ getq = <<>>
          /\ PutHeadAtPut(t, msg[t])
       \/ /\ getq # <<>>
          /\ put_mutex' = NULL
          /\ get_mutex' = NULL
          /\ pc' = [pc EXCEPT ![t] = "ph_link"]
          /\ UNCHANGED <<lists, nonblock, msg, snap, delivered>>

\* The second round: try_lock fails, since this thread holds get_mutex, and
\* put_mutex is released.  If the get list has become empty meanwhile the
\* loop ends and get_mutex stays locked.
msgqueue_put_head_retry(t) ==
    /\ pc[t] = "ph_retry"
    /\ UNCHANGED unsent
    /\ \/ /\ getq = <<>>
          /\ PutHeadAtPut(t, msg[t])
       \/ /\ getq # <<>>
          /\ put_mutex' = NULL
          /\ pc' = [pc EXCEPT ![t] = "ph_link"]
          /\ UNCHANGED <<lists, nonblock, get_mutex, msg, snap, delivered>>

\* A caller of put_head that put_cond woke, in the loop of lines 74-75.
msgqueue_put_head_woken(t) ==
    /\ pc[t] = "ph_wake"
    /\ put_mutex = NULL
    /\ UNCHANGED unsent
    /\ PutHeadAtPut(t, msg[t])

\* Line 67: *link = *get_head.
msgqueue_put_head_link(t) ==
    /\ pc[t] = "ph_link"
    /\ snap' = [snap EXCEPT ![t] = getq]
    /\ pc' = [pc EXCEPT ![t] = "ph_store"]
    /\ UNCHANGED <<lists, nonblock, get_mutex, put_mutex, msg, unsent,
                   delivered>>

\* Lines 68-70: *get_head = link, and get_mutex is unlocked, whoever has it.
msgqueue_put_head_store(t) ==
    /\ pc[t] = "ph_store"
    /\ getq' = <<msg[t]>> \o snap[t]
    /\ get_mutex' = NULL
    /\ pc' = [pc EXCEPT ![t] = "idle"]
    /\ msg' = [msg EXCEPT ![t] = NULL]
    /\ snap' = [snap EXCEPT ![t] = <<>>]
    /\ UNCHANGED <<putq, put_tail, msg_cnt, nonblock, put_mutex, unsent,
                   delivered>>

-----------------------------------------------------------------------------
(* msgqueue_get *)

\* Mutant of msgqueue_get: get_mutex is not taken.
GetUnlocked(t) ==
    /\ pc[t] = "idle" /\ t \in Getters
    /\ pc' = [pc EXCEPT ![t] = "get_check"]
    /\ UNCHANGED <<lists, nonblock, get_mutex, put_mutex, msg, snap, unsent,
                   delivered>>

\* Line 108.
msgqueue_get(t) ==
    /\ pc[t] = "idle" /\ t \in Getters
    /\ get_mutex = NULL
    /\ get_mutex' = t
    /\ pc' = [pc EXCEPT ![t] = "get_check"]
    /\ UNCHANGED <<lists, nonblock, put_mutex, msg, snap, unsent, delivered>>

\* Line 110, the test of *get_head.
msgqueue_get_check(t) ==
    /\ pc[t] = "get_check"
    /\ pc' = [pc EXCEPT ![t] = IF getq # <<>> THEN "get_read" ELSE "swap"]
    /\ UNCHANGED <<lists, nonblock, get_mutex, put_mutex, msg, snap, unsent,
                   delivered>>

\* Mutant of GetBlocks: the mode is not looked at.
GetBlocksAlways == msg_cnt = 0

\* Line 90, the condition under which get waits.
GetBlocks == msg_cnt = 0 /\ ~nonblock

\* msg_max - 1 in size_t arithmetic.
MsgMaxMinusOne == IF MsgMax = 0 THEN SizeMax ELSE MsgMax - 1

\* Mutant of SwapNotifies: the 1 is not subtracted.
SwapNotifiesLate == msg_cnt > MsgMax

\* Line 95, the condition under which the waiting putters are woken.
SwapNotifies == msg_cnt > MsgMaxMinusOne

\* Mutant of SwapMoved: an empty exchange counts as a success.
SwapMovedAny == msg_cnt >= 0

\* Line 110, whether __msgqueue_swap returned a positive count.
SwapMoved == msg_cnt > 0

\* Lines 99-102.  put_tail addresses the head cell of what was the get list.
Exchange ==
    /\ getq' = putq
    /\ putq' = getq
    /\ put_tail' = 0
    /\ msg_cnt' = 0

\* The control states after an exchange by t.  Another thread inside
\* __msgqueue_swap is left with a stale local get_head (line 87); its own
\* exchange would tie both heads to one cell, and the model stops there.
AfterExchange(t) ==
    [u \in Threads |->
        IF u = t THEN IF SwapMoved THEN "get_read" ELSE "idle"
        ELSE IF pc[u] \in {"swap", "swap_wait"} THEN "undefined" ELSE pc[u]]

\* __msgqueue_swap, and the return of NULL when it moved nothing.  A getter
\* that get_cond woke comes back here and tests again.
msgqueue_swap(t) ==
    /\ pc[t] = "swap"
    /\ put_mutex = NULL
    /\ \/ /\ GetBlocks
          /\ pc' = [pc EXCEPT ![t] = "swap_wait"]
          /\ UNCHANGED <<lists, get_mutex>>
       \/ /\ ~GetBlocks
          /\ Exchange
          /\ pc' = IF SwapNotifies THEN NotifyPut(AfterExchange(t))
                                   ELSE AfterExchange(t)
          /\ get_mutex' = IF SwapMoved THEN get_mutex ELSE NULL
    /\ UNCHANGED <<nonblock, put_mutex, msg, snap, unsent, delivered>>

\* Line 111.  With *get_head NULL the message is a wild pointer, which the
\* next statement dereferences.
msgqueue_get_read(t) ==
    /\ pc[t] = "get_read"
    /\ \/ /\ getq = <<>>
          /\ pc' = [pc EXCEPT ![t] = "undefined"]
          /\ UNCHANGED msg
       \/ /\ getq # <<>>
          /\ msg' = [msg EXCEPT ![t] = Head(getq)]
          /\ pc' = [pc EXCEPT ![t] = "get_next"]
    /\ UNCHANGED <<lists, nonblock, get_mutex, put_mutex, snap, unsent,
                   delivered>>

\* Line 112, the read of **get_head.
msgqueue_get_next(t) ==
    /\ pc[t] = "get_next"
    /\ \/ /\ getq = <<>>
          /\ pc' = [pc EXCEPT ![t] = "undefined"]
          /\ UNCHANGED snap
       \/ /\ getq # <<>>
          /\ snap' = [snap EXCEPT ![t] = Tail(getq)]
          /\ pc' = [pc EXCEPT ![t] = "get_store"]
    /\ UNCHANGED <<lists, nonblock, get_mutex, put_mutex, msg, unsent,
                   delivered>>

\* Line 112, the store to *get_head, and the return of msg, which unlocks.
msgqueue_get_store(t) ==
    /\ pc[t] = "get_store"
    /\ getq' = snap[t]
    /\ delivered' = Append(delivered, msg[t])
    /\ msg' = [msg EXCEPT ![t] = NULL]
    /\ snap' = [snap EXCEPT ![t] = <<>>]
    /\ get_mutex' = NULL
    /\ pc' = [pc EXCEPT ![t] = "idle"]
    /\ UNCHANGED <<putq, put_tail, msg_cnt, nonblock, put_mutex, unsent>>

-----------------------------------------------------------------------------
(* msgqueue_set_nonblock and msgqueue_set_block *)

\* Line 28, before put_mutex is taken.
msgqueue_set_nonblock(t) ==
    /\ pc[t] = "idle" /\ t \in Setters
    /\ nonblock' = TRUE
    /\ pc' = [pc EXCEPT ![t] = "set_notify"]
    /\ UNCHANGED <<lists, get_mutex, put_mutex, msg, snap, unsent, delivered>>

\* Lines 29-31.
msgqueue_set_nonblock_notify(t) ==
    /\ pc[t] = "set_notify"
    /\ put_mutex = NULL
    /\ \E f \in NotifyGet(Return(t)) : pc' = NotifyPut(f)
    /\ UNCHANGED <<lists, nonblock, get_mutex, put_mutex, msg, snap, unsent,
                   delivered>>

msgqueue_set_block(t) ==
    /\ pc[t] = "idle" /\ t \in Setters
    /\ nonblock
    /\ nonblock' = FALSE
    /\ UNCHANGED <<lists, get_mutex, put_mutex, pc, msg, snap, unsent,
                   delivered>>

\* A wait returns although nobody notified, which C++ permits.
SpuriousWakeup(t) ==
    /\ Spurious
    /\ pc[t] \in {"put_wait", "ph_wait", "swap_wait"}
    /\ pc' = [pc EXCEPT ![t] = CASE @ = "put_wait"  -> "put_wake"
                                 [] @ = "ph_wait"   -> "ph_wake"
                                 [] @ = "swap_wait" -> "swap"]
    /\ UNCHANGED <<lists, nonblock, get_mutex, put_mutex, msg, snap, unsent,
                   delivered>>

-----------------------------------------------------------------------------
\* msgqueue_create(maxlen, linkoff).
Init ==
    /\ getq = <<>>
    /\ putq = <<>>
    /\ put_tail = 0
    /\ msg_cnt = 0
    /\ nonblock = FALSE
    /\ get_mutex = NULL
    /\ put_mutex = NULL
    /\ pc = [t \in Threads |-> "idle"]
    /\ msg = [t \in Threads |-> NULL]
    /\ snap = [t \in Threads |-> <<>>]
    /\ unsent = Msgs
    /\ delivered = <<>>

\* The rest of a call that thread t has begun.
Continue(t) ==
    \/ msgqueue_put_woken(t)
    \/ msgqueue_put_notify(t)
    \/ msgqueue_put_head_retry(t)
    \/ msgqueue_put_head_woken(t)
    \/ msgqueue_put_head_link(t)
    \/ msgqueue_put_head_store(t)
    \/ msgqueue_get_check(t)
    \/ msgqueue_swap(t)
    \/ msgqueue_get_read(t)
    \/ msgqueue_get_next(t)
    \/ msgqueue_get_store(t)
    \/ msgqueue_set_nonblock_notify(t)

\* The program is followed until a thread dereferences a wild pointer or
\* works with a stale head cell.
Running == \A t \in Threads : pc[t] # "undefined"

Step(t) ==
    \/ \E m \in Msgs : msgqueue_put(t, m) \/ msgqueue_put_head(t, m)
    \/ msgqueue_get(t)
    \/ msgqueue_set_nonblock(t)
    \/ msgqueue_set_block(t)
    \/ Continue(t)
    \/ SpuriousWakeup(t)

Next == Running /\ \E t \in Threads : Step(t)

Spec == Init /\ [][Next]_vars

\* A thread inside the queue is scheduled, and the threads that consume
\* messages (poller results in Communicator::handler_thread_routine, tasks
\* in __thrdpool_routine) call msgqueue_get again and again.
Fairness ==
    \A t \in Threads : /\ WF_vars(Running /\ Continue(t))
                       /\ WF_vars(Running /\ msgqueue_get(t))

FairSpec == Spec /\ Fairness

-----------------------------------------------------------------------------
(* Properties *)

PutStates == {"put_wait", "put_wake", "put_notify"}
PutHeadStates == {"ph_retry", "ph_wait", "ph_wake", "ph_link", "ph_store"}
GetStates == {"get_check", "swap", "swap_wait", "get_read", "get_next",
              "get_store"}
States == {"idle", "undefined", "set_notify"}
              \cup PutStates \cup PutHeadStates \cup GetStates

\* The states in which a thread works on a message.
Carrying == {"put_wait", "put_wake", "get_next", "get_store"}
                \cup PutHeadStates

\* Types: the count never wraps below zero, the tail stays inside the put
\* list, a thread is only inside the calls it makes, and one that works on
\* a message has one.
TypeOK ==
    /\ getq \in Seq(Msgs)
    /\ putq \in Seq(Msgs)
    /\ put_tail \in 0 .. Len(putq)
    /\ msg_cnt \in Nat
    /\ nonblock \in BOOLEAN
    /\ get_mutex \in Threads \cup {NULL}
    /\ put_mutex \in Threads \cup {NULL}
    /\ pc \in [Threads -> States]
    /\ \A t \in Threads : /\ pc[t] \in PutStates => t \in Putters
                          /\ pc[t] \in PutHeadStates => t \in PutHeaders
                          /\ pc[t] \in GetStates => t \in Getters
                          /\ pc[t] = "set_notify" => t \in Setters
    /\ msg \in [Threads -> Msgs \cup {NULL}]
    /\ \A t \in Threads : pc[t] \in Carrying => msg[t] \in Msgs
    /\ snap \in [Threads -> Seq(Msgs)]
    /\ unsent \in SUBSET Msgs
    /\ delivered \in Seq(Msgs)

\* Code: the try_lock of line 65 sends put_head into the splice exactly when
\* it failed.  No thread that calls put_head competes with a getter or with
\* another caller of put_head: then the lock it finds taken is its own.
NoContention ==
    \A h \in PutHeaders : \A u \in PutHeaders \cup Getters : u = h

Deque == INSTANCE MsgDeque WITH queue <- getq \o putq, out <- delivered

\* The two lists with their mutexes, the exchange and the splice behave like
\* one deque: nothing is lost, duplicated or reordered, and an exchange is
\* not noticed.
ImplementsDeque == Deque!Spec

\* msgqueue_get never takes a message out of an empty list: with more than
\* one getter, and in the nonblocking mode, the test before line 111 still
\* holds when line 111 is executed.
NoWildRead == Running

\* A getter sleeping on get_cond is not forgotten: while a message is in the
\* put list, or the queue is nonblocking, the call that made it so has still
\* to notify.  (notify_one is enough only because a getter waits with
\* get_mutex held, so that at most one waits on get_cond.)
NoLostWakeup ==
    \A g \in Threads : pc[g] = "swap_wait" =>
        \/ GetBlocks
        \/ \E t \in Threads : pc[t] \in {"put_notify", "set_notify"}

\* At most one thread waits on get_cond.
OneWaiter ==
    \A g, h \in Threads : pc[g] = "swap_wait" /\ pc[h] = "swap_wait" => g = h

\* A caller of put sleeping on put_cond is not forgotten: the put list is
\* still full and the queue still blocking, or set_nonblock has yet to
\* notify.  The exchange that empties a full list wakes every caller.
NoLostSpace ==
    \A p \in Threads : pc[p] = "put_wait" =>
        \/ msg_cnt >= MsgMax /\ ~nonblock
        \/ \E t \in Threads : pc[t] = "set_notify"

\* The comment of line 65: put_head takes get_mutex so that no message is
\* taken out while it links its own in front.
SpliceExcludesGet ==
    \A t \in Threads : pc[t] \in {"ph_link", "ph_store"} => get_mutex = t

\* Every message that entered the queue comes out, as long as the getters
\* keep calling: no wakeup is lost and no getter blocks the others forever.
EveryMessageDelivered ==
    \A m \in Msgs : m \in Deque!Elements(getq \o putq)
                        ~> m \in Deque!Elements(delivered)

\* A caller of put that waits for space is woken in the end.
WaitingPutterWoken ==
    \A p \in Putters : pc[p] = "put_wait" ~> pc[p] # "put_wait"

\* msgqueue_set_nonblock is how a consumer is stopped (poller_stop users and
\* __thrdpool_terminate): once the mode stays nonblocking, every call of put
\* and get returns again and again.
NonblockReleasesAll ==
    <>[]nonblock => \A t \in Threads : []<>(pc[t] = "idle")
=============================================================================
