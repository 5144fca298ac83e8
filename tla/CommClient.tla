----------------------------- MODULE CommClient -----------------------------
(***************************************************************************)
(* The requesting side of src/kernel/communicator.cc: sessions that are    *)
(* sent to one target over new connections or over idle ones, while the    *)
(* number of handler threads changes and until deinit stops the pollers.   *)
(*                                                                         *)
(* Threads: one per session, which calls request; the handler threads,     *)
(* which take results from the message queue; the poller threads, which    *)
(* call create_reply and append_message; and Main, which may call deinit.  *)
(* A connection entry is named by its descriptor.                          *)
(*                                                                         *)
(* The second half of communicator.cc calls list_add and list_del, which   *)
(* list.h does not define; here they are those of the Linux kernel, and    *)
(* idle_list is a sequence.  The target's mutex is held over one action    *)
(* only; the mutex of an entry is a variable.  Both are taken in the order *)
(* target, entry, so a thread that waits for the entry's mutex with the    *)
(* target's mutex held can be taken to wait for both.                      *)
(*                                                                         *)
(* Three things below the communicator are undefined and end a behaviour:  *)
(* what poller.cc does with a timeout, with a second node in one of its    *)
(* lists and in poller_stop, a call between its lines 187 and 188, and     *)
(* msgqueue_put_head beside a thread that takes from the queue.  What is   *)
(* said of the communicator is said of the time before.                    *)
(***************************************************************************)
EXTENDS MPoller, FiniteSets

CONSTANTS
    Sessions,     \* the sessions, each requested at most once
    Workers,      \* the handler threads that may exist
    Started,      \* those that init starts
    Main,         \* a thread outside the pool
    MaxResize     \* how often the number of handler threads changes

ASSUME ClientAssumption ==
    /\ MaxResize \in Nat
    /\ IsFiniteSet(Workers) /\ Started \subseteq Workers
    /\ NONE \notin Sessions \cup Workers \cup {Main}

ConnStates == {"CONNECTING", "RECEIVING", "SUCCESS", "IDLE", "CLOSING", "ERROR"}

VARIABLES
    poll,         \* the pollers and the message queue
    at,           \* where each poller thread is: [pc, fd]
    reading,      \* for each descriptor, the session whose message is being read
    entry,        \* the connection entries
    mutex,        \* the owner of each entry's mutex
    idle_list,
    keep,         \* the sessions whose keep_alive_timeout was not 0
    user,         \* the calls of request: [pc, fd]
    worker,       \* the threads that handle results: [pc, res, s, st]
    closer,       \* the thread that called deinit
    resized,
    outcome,      \* the states that handle was called with, by session
    mixed,        \* a session was given the reply to another one
    bad,          \* an entry was used after it was freed
    undefined     \* the behaviour has met what the code leaves undefined

state == <<poll, at, reading, entry, mutex, idle_list, keep, user, worker,
           closer, resized, outcome, mixed, bad>>
vars == <<state, undefined>>

history == <<outcome, mixed>>
closing == <<closer, resized>>
pollers == <<at, reading>>

\* An entry that was not allocated, or was freed.
NoEntry(st) == [state |-> st, ref |-> 0, session |-> NONE]
Live(e) == entry[e].state \in ConnStates

Uses(e) == bad' = (bad \/ ~Live(e))

stop_flag == closer # NONE

\* A handler thread that waits for a result.
Getting == [pc |-> "get", res |-> NONE, s |-> NONE, st |-> "none"]
Off == [Getting EXCEPT !.pc = "off"]

Init ==
    /\ poll = NewGroup
    /\ at = [i \in Pollers |-> [pc |-> "wait", fd |-> NONE]]
    /\ reading = [e \in Fds |-> NONE]
    /\ entry = [e \in Fds |-> NoEntry("NONE")]
    /\ mutex = [e \in Fds |-> NONE]
    /\ idle_list = <<>>
    /\ keep = {}
    /\ user = [s \in Sessions |-> [pc |-> "start", fd |-> NONE]]
    /\ worker = [w \in Workers |-> IF w \in Started THEN Getting ELSE Off]
    /\ closer = NONE
    /\ resized = 0
    /\ outcome = [s \in Sessions |-> <<>>]
    /\ mixed = FALSE
    /\ bad = FALSE
    /\ undefined = FALSE

-----------------------------------------------------------------------------
(* Communicator::request                                                   *)

\* The thread of session s goes to pc, with entry e.
Go(s, pc, e) == user' = [user EXCEPT ![s] = [pc |-> pc, fd |-> e]]

\* request_idle_conn: the first idle connection, with its mutex.  Nobody calls
\* request once deinit was called.
request_idle_conn(s) ==
    /\ (user[s].pc = "start" /\ ~stop_flag) \/ user[s].pc = "again"
    /\ \/ /\ idle_list # <<>>
          /\ LET e == Head(idle_list) IN
             /\ mutex[e] = NONE
             /\ mutex' = [mutex EXCEPT ![e] = s]
             /\ idle_list' = Tail(idle_list)
             /\ Go(s, "popped", e)
             /\ Uses(e)
       \/ /\ idle_list = <<>>
          /\ Go(s, "new", NONE)
          /\ UNCHANGED <<mutex, idle_list, bad>>
    /\ UNCHANGED <<poll, pollers, entry, keep, worker, closing, history>>

\* The timeout of an idle connection is cleared, unless its end was already
\* reported: then the next one is tried.
request_idle_conn_check(s) ==
    LET e == user[s].fd IN
    /\ user[s].pc = "popped"
    /\ Uses(e)
    /\ IF Registered(poll, e)
       THEN /\ entry' = [entry EXCEPT ![e].session = s]
            /\ Go(s, "send", e)
            /\ UNCHANGED mutex
       ELSE /\ entry' = [entry EXCEPT ![e].state = "CLOSING"]
            /\ mutex' = [mutex EXCEPT ![e] = NONE]
            /\ Go(s, "again", NONE)
    /\ UNCHANGED <<poll, pollers, idle_list, keep, worker, closing, history>>

\* message_out, encode and writev: all is written, the socket is full, or one
\* of them fails.
send_message(s) ==
    /\ user[s].pc = "send"
    /\ \E pc \in {"sent", "full", "failed"} : Go(s, pc, user[s].fd)
    /\ Uses(user[s].fd)
    /\ UNCHANGED <<poll, pollers, entry, mutex, idle_list, keep, worker, closing,
                   history>>

\* The end of send_message_sync on an idle connection.
send_message_sync(s) ==
    LET e == user[s].fd IN
    /\ user[s].pc = "sent"
    /\ entry' = [entry EXCEPT ![e].state = "RECEIVING"]
    /\ Go(s, "unlock", e)
    /\ Uses(e)
    /\ UNCHANGED <<poll, pollers, mutex, idle_list, keep, worker, closing, history>>

\* send_message_async on an idle connection: the rest is written by the poller.
\* When the connection's end was reported meanwhile, the session waits for that
\* result; other failures are those of malloc and epoll_ctl.
send_message_async(s) ==
    LET e == user[s].fd IN
    /\ user[s].pc = "full"
    /\ \/ /\ Registered(poll, e)
          /\ poll' = mpoller_mod(poll, e, "write")
          /\ Go(s, "unlock", e)
          /\ UNCHANGED entry
       \/ /\ ~Registered(poll, e)
          /\ entry' = [entry EXCEPT ![e].state = "RECEIVING"]
          /\ Go(s, "unlock", e)
          /\ UNCHANGED poll
       \/ /\ Go(s, "failed", e)
          /\ UNCHANGED <<poll, entry>>
    /\ Uses(e)
    /\ UNCHANGED <<pollers, mutex, idle_list, keep, worker, closing, history>>

\* request_idle_conn after a failure: the result of the deletion, or the one
\* that is already on its way, will tell the session.
request_idle_failed(s) ==
    LET e == user[s].fd IN
    /\ user[s].pc = "failed"
    /\ poll' = mpoller_del(poll, e)
    /\ entry' = [entry EXCEPT ![e].state = "ERROR"]
    /\ Go(s, "unlock", e)
    /\ Uses(e)
    /\ UNCHANGED <<pollers, mutex, idle_list, keep, worker, closing, history>>

request_idle_unlock(s) ==
    LET e == user[s].fd IN
    /\ user[s].pc = "unlock"
    /\ mutex' = [mutex EXCEPT ![e] = NONE]
    /\ Go(s, "accepted", NONE)
    /\ Uses(e)
    /\ UNCHANGED <<poll, pollers, entry, idle_list, keep, worker, closing, history>>

\* The entry of a connection that is being established.
launch_conn(s) == [state |-> "CONNECTING", ref |-> 1, session |-> s]

\* request_new_conn with launch_conn and nonblock_connect; any of their calls
\* may fail, and then nothing is left of the entry.  The kernel gives the lowest
\* descriptor; one that was closed is not used again here.
request_new_conn(s) ==
    /\ user[s].pc = "new"
    /\ \/ \E e \in Fds :
             /\ entry[e].state = "NONE"
             /\ \A f \in Fds : f < e => entry[f].state # "NONE"
             /\ entry' = [entry EXCEPT ![e] = launch_conn(s)]
             /\ poll' = mpoller_add(poll, e, "connect")
             /\ Go(s, "accepted", NONE)
       \/ /\ Go(s, "refused", NONE)
          /\ UNCHANGED <<entry, poll>>
    /\ UNCHANGED <<pollers, mutex, idle_list, keep, worker, closing, history, bad>>

-----------------------------------------------------------------------------
(* The poller threads.                                                     *)

PollerGo(i, pc, e) == at' = [at EXCEPT ![i] = [pc |-> pc, fd |-> e]]

epoll_wait(i) ==
    /\ Waiting(poll, i)
    /\ \E B \in Batches(poll, i) : poll' = EpollWait(poll, i, B)
    /\ UNCHANGED <<pollers, entry, mutex, idle_list, keep, user, worker, closing,
                   history, bad>>

\* A connect or a write ends, well or with an error, or the event was none:
\* nothing more could be written, or the node was removed meanwhile.
poller_handle_write(e, op) ==
    /\ at[Index(e)].pc = "wait"
    /\ Ready(poll, e, op)
    /\ LET y == Done(poll, e, op) IN
       poll' \in {y, Report(y, e, op, "FINISHED"), Report(y, e, op, "ERROR")}
    /\ UNCHANGED <<pollers, entry, mutex, idle_list, keep, user, worker, closing,
                   history, bad>>

poller_handle_pipe(i) ==
    /\ PipeReady(poll, i)
    /\ poll' = ReadPipe(poll, i)
    /\ UNCHANGED <<pollers, entry, mutex, idle_list, keep, user, worker, closing,
                   history, bad>>

\* One round of __poller_handle_read: there is nothing to read (any more), the
\* peer has closed, or data arrives.  A new message is created first;
\* create_reply waits for a thread that is sending on an idle connection.
poller_handle_read(e) ==
    LET i == Index(e)
        y == Done(poll, e, "read")
    IN
    /\ Ready(poll, e, "read")
    /\ at[i] \in {[pc |-> "wait", fd |-> NONE], [pc |-> "data", fd |-> e]}
    /\ \/ /\ poll' \in {y, Report(y, e, "read", "FINISHED"), Report(y, e, "read", "ERROR")}
          /\ PollerGo(i, "wait", NONE)
          /\ UNCHANGED bad
       \/ /\ PollerGo(i, CASE reading[e] # NONE -> "append"
                           [] reading[e] = NONE /\ entry[e].state = "IDLE" -> "lock"
                           [] OTHER -> "create", e)
          /\ Uses(e)
          /\ UNCHANGED poll
    /\ UNCHANGED <<reading, entry, mutex, idle_list, keep, user, worker, closing,
                   history>>

create_reply_lock(i) ==
    LET e == at[i].fd IN
    /\ at[i].pc = "lock"
    /\ mutex[e] = NONE
    /\ PollerGo(i, "create", e)
    /\ Uses(e)
    /\ UNCHANGED <<poll, reading, entry, mutex, idle_list, keep, user, worker,
                   closing, history>>

\* create_reply: a message only for a session that waits for its reply.
create_reply(i) ==
    LET e == at[i].fd IN
    /\ at[i].pc = "create"
    /\ Uses(e)
    /\ \/ /\ entry[e].state = "RECEIVING"
          /\ reading' = [reading EXCEPT ![e] = entry[e].session]
          /\ PollerGo(i, "append", e)
          /\ UNCHANGED poll
       \/ /\ poll' = Report(Done(poll, e, "read"), e, "read", "ERROR")
          /\ PollerGo(i, "wait", NONE)
          /\ UNCHANGED reading
    /\ UNCHANGED <<entry, mutex, idle_list, keep, user, worker, closing, history>>

\* append_message and what __poller_append_message does with its answer: the
\* message needs more data, is malformed, or is complete.  A session that does
\* not want the connection kept has it deleted here.
append_message(i) ==
    LET e == at[i].fd IN
    /\ at[i].pc = "append"
    /\ Uses(e)
    /\ \/ /\ PollerGo(i, "data", e)
          /\ UNCHANGED <<poll, reading, entry, keep>>
       \/ /\ poll' = Report(Done(poll, e, "read"), e, "read", "ERROR")
          /\ reading' = [reading EXCEPT ![e] = NONE]
          /\ PollerGo(i, "wait", NONE)
          /\ UNCHANGED <<entry, keep>>
       \/ \E k \in BOOLEAN :
             LET y == IF k THEN poll ELSE mpoller_del(poll, e) IN
             /\ entry' = [entry EXCEPT ![e].state = "SUCCESS"]
             /\ keep' = IF k THEN keep \cup {reading[e]} ELSE keep
             /\ poll' = Callback(y, Result(e, "read", "SUCCESS", reading[e]))
             /\ reading' = [reading EXCEPT ![e] = NONE]
             /\ PollerGo(i, "data", e)
    /\ UNCHANGED <<mutex, idle_list, user, worker, closing, history>>

-----------------------------------------------------------------------------
(* The handler threads.                                                    *)

Fd(w) == worker[w].res.fd

Work(w, pc) == worker' = [worker EXCEPT ![w].pc = pc]

\* What the result tells the session.
StateOf(st) == IF st \in {"DELETED", "STOPPED"} THEN "STOPPED" ELSE "ERROR"

\* handler_thread_routine takes a result and finds the handler for it, which
\* reads the session of the entry.
handler_thread_routine(w) ==
    /\ worker[w].pc = "get"
    /\ poll.queue # <<>>
    /\ poll' = [poll EXCEPT !.queue = Tail(@)]
    /\ LET r == Head(poll.queue)
           pc == CASE r.op = "exit" -> "off"
                   [] r.op = "read" /\ r.state = "MODIFIED" -> "get"
                   [] r.op = "read" /\ r.state = "SUCCESS" -> "reply"
                   [] r.op = "read" /\ r.state \notin {"SUCCESS", "MODIFIED"} -> "ended"
                   [] r.op = "write" /\ r.state = "FINISHED" -> "written"
                   [] r.op = "connect" /\ r.state = "FINISHED" -> "connected"
                   [] OTHER -> "handle"
       IN /\ worker' =
                [worker EXCEPT ![w] =
                    CASE pc = "off" -> Off
                      [] pc = "get" -> Getting
                      [] pc = "ended" -> [pc |-> pc, res |-> r, s |-> NONE,
                                          st |-> StateOf(r.state)]
                      [] OTHER -> [pc |-> pc, res |-> r, s |-> entry[r.fd].session,
                                   st |-> StateOf(r.state)]]
          /\ IF pc \in {"get", "off"} THEN UNCHANGED bad ELSE Uses(r.fd)
    /\ UNCHANGED <<pollers, entry, mutex, idle_list, keep, user, closing, history>>

\* Mutant of handle_reply_success: the state is not looked at under the mutex.
SuccessUnchecked(w) ==
    LET e == Fd(w) IN
    /\ worker[w].pc = "reply"
    /\ entry' = [entry EXCEPT ![e].ref = @ + 1,
                     ![e].state = IF worker[w].s \in keep THEN "IDLE" ELSE "CLOSING"]
    /\ idle_list' = IF worker[w].s \in keep THEN <<e>> \o idle_list ELSE idle_list
    /\ worker' = [worker EXCEPT ![w].pc = "handle", ![w].st = "SUCCESS"]
    /\ mixed' = (mixed \/ worker[w].s # worker[w].res.msg)
    /\ Uses(e)
    /\ UNCHANGED <<poll, pollers, mutex, keep, user, closing, outcome>>

\* handle_incoming_reply of a message, under the target's mutex: the connection
\* becomes idle, unless its end was handled first.
handle_reply_success(w) ==
    LET e == Fd(w) IN
    /\ worker[w].pc = "reply"
    /\ IF entry[e].state # "SUCCESS" THEN UNCHANGED <<entry, idle_list>>
       ELSE /\ entry' = [entry EXCEPT ![e].ref = @ + 1,
                             ![e].state = IF worker[w].s \in keep THEN "IDLE"
                                          ELSE "CLOSING"]
            /\ idle_list' = IF worker[w].s \in keep THEN <<e>> \o idle_list
                            ELSE idle_list
    /\ worker' = [worker EXCEPT ![w].pc = "handle", ![w].st = "SUCCESS"]
    /\ mixed' = (mixed \/ worker[w].s # worker[w].res.msg)
    /\ Uses(e)
    /\ UNCHANGED <<poll, pollers, mutex, keep, user, closing, outcome>>

\* Mutant of handle_reply_end: a session whose reply is on the way is told as well.
EndTellsAll(w) ==
    LET e == Fd(w)
        st == entry[e].state
    IN
    /\ worker[w].pc = "ended"
    /\ mutex[e] = NONE
    /\ entry' = [entry EXCEPT ![e].state = IF st = "SUCCESS" THEN "CLOSING" ELSE @]
    /\ idle_list' = IF st = "IDLE" THEN RemoveFirst(idle_list, e)
                    ELSE idle_list
    /\ worker' = [worker EXCEPT ![w] =
                      IF st \in {"ERROR", "RECEIVING", "SUCCESS"}
                      THEN [@ EXCEPT !.pc = "handle", !.s = entry[e].session,
                                     !.st = IF st = "ERROR" THEN st ELSE worker[w].st]
                      ELSE [@ EXCEPT !.pc = "unref"]]
    /\ bad' = (bad \/ ~Live(e) \/ (st = "IDLE" /\ e \notin ToSet(idle_list)))
    /\ UNCHANGED <<poll, pollers, mutex, keep, user, closing, outcome, mixed>>

\* handle_incoming_reply of the connection's end, under both mutexes.  A session
\* is told when it waits for its reply, or when its request failed; a message
\* that was not handled yet keeps the entry for its own handler.
handle_reply_end(w) ==
    LET e == Fd(w)
        st == entry[e].state
    IN
    /\ worker[w].pc = "ended"
    /\ mutex[e] = NONE
    /\ entry' = [entry EXCEPT ![e].state = IF st = "SUCCESS" THEN "CLOSING" ELSE @]
    /\ idle_list' = IF st = "IDLE" THEN RemoveFirst(idle_list, e)
                    ELSE idle_list
    /\ worker' = [worker EXCEPT ![w] =
                      CASE st \in {"ERROR", "RECEIVING"} ->
                             [@ EXCEPT !.pc = "handle", !.s = entry[e].session,
                                       !.st = IF st = "ERROR" THEN st ELSE worker[w].st]
                        [] st = "SUCCESS" -> Getting
                        [] OTHER -> [@ EXCEPT !.pc = "unref"]]
    /\ bad' = (bad \/ ~Live(e) \/ (st = "IDLE" /\ e \notin ToSet(idle_list)))
    /\ UNCHANGED <<poll, pollers, mutex, keep, user, closing, outcome, mixed>>

\* handle_connect_result of a connection that is established: the message is
\* sent, all of it or a part.
handle_connected(w) ==
    /\ worker[w].pc = "connected"
    /\ \/ /\ entry' = [entry EXCEPT ![Fd(w)].state = "RECEIVING"]
          /\ Work(w, "read")
       \/ Work(w, "write") /\ UNCHANGED entry
       \/ Work(w, "handle") /\ UNCHANGED entry
    /\ Uses(Fd(w))
    /\ UNCHANGED <<poll, pollers, mutex, idle_list, keep, user, closing, history>>

\* handle_request_result: the rest of the request is written.
handle_written(w) ==
    /\ worker[w].pc = "written"
    /\ entry' = [entry EXCEPT ![Fd(w)].state = "RECEIVING"]
    /\ Work(w, "read")
    /\ Uses(Fd(w))
    /\ UNCHANGED <<poll, pollers, mutex, idle_list, keep, user, closing, history>>

\* The connection is registered for reading the reply, or for writing the rest
\* of the request; this may fail.
handle_add(w) ==
    /\ worker[w].pc \in {"read", "write"}
    /\ \/ /\ poll' = mpoller_add(poll, Fd(w), worker[w].pc)
          /\ Work(w, "added")
       \/ Work(w, "handle") /\ UNCHANGED poll
    /\ UNCHANGED <<pollers, entry, mutex, idle_list, keep, user, closing, history, bad>>

\* A registration that deinit may have come before is undone.
handle_added(w) ==
    /\ worker[w].pc = "added"
    /\ poll' = IF stop_flag THEN mpoller_del(poll, Fd(w)) ELSE poll
    /\ worker' = [worker EXCEPT ![w] = Getting]
    /\ UNCHANGED <<pollers, entry, mutex, idle_list, keep, user, closing, history, bad>>

\* The session is told.
handle(w) ==
    /\ worker[w].pc = "handle"
    /\ outcome' = [outcome EXCEPT ![worker[w].s] = Append(@, worker[w].st)]
    /\ Work(w, "unref")
    /\ UNCHANGED <<poll, pollers, entry, mutex, idle_list, keep, user, closing,
                   mixed, bad>>

\* Mutant of release_conn: the handler of a write result does not wait.
ReleaseAtOnce(w) ==
    LET e == Fd(w)
        n == IF worker[w].res.op = "connect" THEN 0 ELSE entry[e].ref - 1
    IN
    /\ worker[w].pc = "unref"
    /\ closer # w
    /\ entry' = [entry EXCEPT ![e] = IF n = 0 THEN NoEntry("FREED")
                                     ELSE [@ EXCEPT !.ref = n]]
    /\ worker' = [worker EXCEPT ![w] = Getting]
    /\ Uses(e)
    /\ UNCHANGED <<poll, pollers, mutex, idle_list, keep, user, closing, history>>

\* The end of a handler: the entry is freed with its last reference, and one
\* that never got further than the connection at once.  The handler of a write
\* result waits for the thread that is still inside request.  A handler that
\* called deinit waits in poller_stop.
release_conn(w) ==
    LET e == Fd(w)
        n == IF worker[w].res.op = "connect" THEN 0 ELSE entry[e].ref - 1
    IN
    /\ worker[w].pc = "unref"
    /\ closer # w
    /\ worker[w].res.op = "write" => mutex[e] = NONE
    /\ entry' = [entry EXCEPT ![e] = IF n = 0 THEN NoEntry("FREED")
                                     ELSE [@ EXCEPT !.ref = n]]
    /\ worker' = [worker EXCEPT ![w] = Getting]
    /\ Uses(e)
    /\ UNCHANGED <<poll, pollers, mutex, idle_list, keep, user, closing, history>>

-----------------------------------------------------------------------------
(* The number of handler threads.                                          *)

\* A result with the operation -1.
EXIT == Result(NONE, "exit", "none", NONE)

increase_handler_thread(w) ==
    /\ ~stop_flag
    /\ resized < MaxResize
    /\ worker[w].pc = "off"
    /\ worker' = [worker EXCEPT ![w] = Getting]
    /\ resized' = resized + 1
    /\ UNCHANGED <<poll, pollers, entry, mutex, idle_list, keep, user, closer,
                   history, bad>>

\* msgqueue_put_head: the result goes in front of all others.
decrease_handler_thread ==
    /\ ~stop_flag
    /\ resized < MaxResize
    /\ poll' = [poll EXCEPT !.queue = <<EXIT>> \o @]
    /\ resized' = resized + 1
    /\ UNCHANGED <<pollers, entry, mutex, idle_list, keep, user, worker, closer,
                   history, bad>>

-----------------------------------------------------------------------------
(* Communicator::deinit                                                    *)

\* deinit is called by Main or by a session's handle, when no thread is inside
\* request.  It sets stop_flag and stops the pollers.
deinit(w) ==
    /\ ~stop_flag
    /\ \A s \in Sessions : user[s].pc \in {"start", "accepted", "refused"}
    /\ w # Main => worker[w].pc = "unref" /\ worker[w].s # NONE
    /\ closer' = w
    /\ UNCHANGED <<poll, pollers, entry, mutex, idle_list, keep, user, worker, resized,
                   history, bad>>

-----------------------------------------------------------------------------
(* What is undefined.                                                      *)

\* An expiry unlinks nodes of a list in a way that list.h does not allow (552,
\* 590); a list with two nodes is broken (list.h:29); and so is a list that
\* poller_stop walks (1141-1171).  Each may happen when a node is registered, or
\* was when deinit came.
poller_undefined ==
    /\ stop_flag \/ \E e \in Fds : Registered(poll, e)
    /\ undefined' = TRUE
    /\ UNCHANGED state

\* msgqueue_put_head enters the splice without get_mutex when another thread has
\* it, and what that thread takes may be lost or be taken twice.
decrease_contended ==
    /\ ~stop_flag
    /\ resized < MaxResize
    /\ poll.queue # <<>>
    /\ undefined' = TRUE
    /\ UNCHANGED state

-----------------------------------------------------------------------------

Request(s) ==
    \/ request_idle_conn(s) \/ request_idle_conn_check(s)
    \/ send_message(s) \/ send_message_sync(s) \/ send_message_async(s)
    \/ request_idle_failed(s) \/ request_idle_unlock(s)
    \/ request_new_conn(s)

PollerStep(i) ==
    \/ epoll_wait(i) \/ poller_handle_pipe(i)
    \/ create_reply_lock(i) \/ create_reply(i) \/ append_message(i)

PollerEvent(e) ==
    \/ \E op \in {"connect", "write"} : poller_handle_write(e, op)
    \/ poller_handle_read(e)

Handler(w) ==
    \/ handler_thread_routine(w)
    \/ handle_reply_success(w) \/ handle_reply_end(w)
    \/ handle_connected(w) \/ handle_written(w)
    \/ handle_add(w) \/ handle_added(w)
    \/ handle(w) \/ release_conn(w)

Step ==
    \/ \E s \in Sessions : Request(s)
    \/ \E e \in Fds : PollerEvent(e)
    \/ \E i \in Pollers : PollerStep(i)
    \/ \E w \in Workers : Handler(w)
    \/ \E w \in Workers : increase_handler_thread(w)
    \/ decrease_handler_thread
    \/ \E w \in Workers \cup {Main} : deinit(w)

\* The code defines what the step does.
Defined(A) == ~undefined /\ A /\ UNCHANGED undefined

Next ==
    \/ Defined(Step)
    \/ ~undefined /\ poller_undefined
    \/ ~undefined /\ decrease_contended

Spec == Init /\ [][Next]_vars

-----------------------------------------------------------------------------
(* Properties                                                              *)

\* The variables have their types.
TypeOK ==
    /\ \A e \in Fds :
          /\ poll.table[e] \in {"none", "connect", "write", "read"}
          /\ reading[e] \in Sessions \cup {NONE}
          /\ entry[e].state \in ConnStates \cup {"NONE", "FREED"}
          /\ entry[e].ref \in 0 .. Cardinality(Workers) + 1
          /\ entry[e].session \in Sessions \cup {NONE}
          /\ mutex[e] \in Sessions \cup {NONE}
    /\ ToSet(idle_list) \subseteq Fds
    /\ keep \subseteq Sessions
    /\ \A w \in Workers : worker[w].s \in Sessions \cup {NONE}
    /\ closer \in Workers \cup {Main, NONE}
    /\ undefined \in BOOLEAN

\* Nobody uses a connection entry that was freed, or unlinks one that is not in
\* the idle list: not the thread that sends on an idle connection while its end
\* is handled, not the poller thread that handles an event of a node removed
\* meanwhile, not the last of two handlers of one connection.
NoUseAfterFree == ~bad

\* handle is called once at most for a session, never for one whose request was
\* refused, and the session that is told of a reply is the one that was waiting
\* when the reply was read.
HandledOnce ==
    /\ \A s \in Sessions :
          Len(outcome[s]) <= IF user[s].pc = "refused" THEN 0 ELSE 1
    /\ ~mixed

\* The end of an operation in ops on e has not been handled.
OnTheWay(e, ops) ==
    \E r \in ToSet(poll.pipe[Index(e)]) \cup ToSet(poll.queue)
             \cup {worker[w].res : w \in {v \in Workers : worker[v].pc = "ended"}} :
        r.fd = e /\ r.op \in ops /\ r.state \notin {"SUCCESS", "MODIFIED"}

\* A connection in the idle list is there once, counts the list's reference, and
\* is watched: it is registered for reading, or its end is on the way.
IdleIsWatched ==
    /\ \A i, j \in DOMAIN idle_list : idle_list[i] = idle_list[j] => i = j
    /\ \A e \in ToSet(idle_list) :
          /\ entry[e].state = "IDLE" /\ entry[e].ref >= 1
          /\ poll.table[e] = "read" \/ OnTheWay(e, {"read"})

\* The session waits for the reply, its request failed or is still being
\* written: whoever handles the end of the connection tells it.
Waits(e) ==
    \/ entry[e].state \in {"CONNECTING", "RECEIVING", "ERROR"}
    \/ entry[e].state = "IDLE" /\ (poll.table[e] = "write" \/ OnTheWay(e, {"write"}))

\* Connection e keeps session s in mind: its node is registered, or its end will
\* reach a handler.
Minds(e, s) ==
    /\ entry[e].session = s /\ Waits(e)
    /\ Registered(poll, e) \/ OnTheWay(e, {"connect", "write", "read"})

\* A handler has the end of the connection of session s, or its reply.
Attends(w, s) ==
    /\ worker[w].pc \in {"reply", "connected", "written", "read", "write", "handle"}
    /\ worker[w].s = s

\* A session whose request was accepted is not forgotten: until it is told, its
\* reply is in the queue, a handler has it, or its connection will end in a way
\* that tells it.  A node that was removed by mistake, a result that was dropped
\* or a handler that left it to another one would break this.
NobodyForgotten ==
    \A s \in Sessions :
        user[s].pc = "accepted" /\ outcome[s] = <<>> =>
            \/ \E r \in ToSet(poll.queue) : r.state = "SUCCESS" /\ r.msg = s
            \/ \E w \in Workers : Attends(w, s)
            \/ \E e \in Fds : Minds(e, s)
=============================================================================
