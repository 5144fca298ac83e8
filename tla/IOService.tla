------------------------------ MODULE IOService ------------------------------
(***************************************************************************)
(* IOService of src/kernel/ioservice_linux.cc and what communicator.cc     *)
(* does with it: sessions are submitted to the kernel, which counts their  *)
(* completions on event_fd; the poller thread fetches one completion for   *)
(* each count and has a handler thread tell the session; the reference     *)
(* count decides who calls handle_unbound, and that thread first waits for *)
(* the sessions that are still in the kernel.                              *)
(*                                                                         *)
(* session_list is a list of list.h, whose list_add_tail is right only for *)
(* an empty list.  The cells are followed as the code leaves them; crowded *)
(* remembers that a session was submitted while another was in the list.   *)
(*                                                                         *)
(* What the code leaves undefined ends a behaviour: what poller.cc does    *)
(* with two nodes or at poller_stop, a list that leads to the cell of a    *)
(* session that was handled, and handle_stop of a service that io_unbind   *)
(* was faster to give back.  Nobody calls request once the service was     *)
(* unbound.                                                                *)
(***************************************************************************)
EXTENDS MPoller, List

CONSTANTS
    event_fd,
    Sessions,
    Handlers,
    Main,
    HEAD          \* the cell session_list

Workers == Handlers \cup {Main}
Cells == Sessions \cup {HEAD}

ASSUME IOServiceAssumption ==
    /\ Fds = {event_fd} /\ nthreads = 1
    /\ HEAD \notin Sessions /\ Main \notin Handlers
    /\ NONE \notin Sessions \cup Workers

VARIABLES
    poll,         \* the poller and the message queue
    at,           \* the poller thread in __poller_handle_event: [pc, cnt]
    service,      \* ref, open (event_fd >= 0), unbound
    heap,         \* the list cells
    mutex,        \* the thread inside request that holds the service's mutex
    kernel,       \* sessions that the kernel has, and those it completed
    count,        \* the counter of the eventfd
    user,         \* of each session: what request returned
    handled,      \* how often handle was called for each session
    worker,       \* the handler threads, and Main
    bad,          \* the service was used after handle_unbound
    crowded,      \* two sessions were outstanding
    undefined     \* the behaviour has met what the code leaves undefined

state == <<poll, at, service, heap, mutex, kernel, count, user, handled, worker, bad, crowded>>
vars == <<state, undefined>>

Getting == [pc |-> "get", s |-> NONE]
ListEmpty == heap.next[HEAD] = HEAD
UseService == bad' = (bad \/ service.unbound > 0)

\* After io_bind.
Init ==
    /\ poll = mpoller_add(NewGroup, event_fd, "event")
    /\ at = [pc |-> "wait", cnt |-> 0]
    /\ service = [ref |-> 1, open |-> TRUE, unbound |-> 0]
    /\ heap = [next |-> [c \in Cells |-> c], prev |-> [c \in Cells |-> c]]
    /\ mutex = NONE
    /\ kernel = [busy |-> {}, done |-> {}]
    /\ count = 0
    /\ user = [s \in Sessions |-> "none"]
    /\ handled = [s \in Sessions |-> 0]
    /\ worker = [w \in Workers |-> [Getting EXCEPT !.pc = IF w = Main THEN "off" ELSE "get"]]
    /\ bad = FALSE
    /\ crowded = FALSE
    /\ undefined = FALSE

-----------------------------------------------------------------------------
(* IOService::request, and the kernel.                                     *)

\* The session is submitted, or refused: the service is closed, prepare fails,
\* or io_submit does.
request(s) ==
    /\ user[s] = "none"
    /\ service.unbound = 0
    /\ mutex = NONE
    /\ \/ /\ service.open
          /\ kernel' = [kernel EXCEPT !.busy = @ \cup {s}]
          /\ mutex' = s
          /\ user' = [user EXCEPT ![s] = "submitted"]
          /\ crowded' = (crowded \/ ~ListEmpty)
       \/ /\ user' = [user EXCEPT ![s] = "refused"]
          /\ UNCHANGED <<kernel, mutex, crowded>>
    /\ UNCHANGED <<poll, at, service, heap, count, handled, worker, bad>>

\* It is entered in session_list and the mutex is given back.
request_list(s) ==
    /\ user[s] = "submitted" /\ mutex = s
    /\ heap' = list_add_tail(heap, HEAD, s)
    /\ mutex' = NONE
    /\ user' = [user EXCEPT ![s] = "accepted"]
    /\ UseService
    /\ UNCHANGED <<poll, at, service, kernel, count, handled, worker, crowded>>

\* The kernel completes a session.
complete(s) ==
    /\ s \in kernel.busy
    /\ kernel' = [busy |-> kernel.busy \ {s}, done |-> kernel.done \cup {s}]
    /\ count' = count + 1
    /\ UNCHANGED <<poll, at, service, heap, mutex, user, handled, worker, bad, crowded>>

\* io_getevents returns the completion of s.
Fetch(s) ==
    /\ s \in kernel.done
    /\ kernel' = [kernel EXCEPT !.done = @ \ {s}]

-----------------------------------------------------------------------------
(* The poller thread.                                                      *)

epoll_wait ==
    /\ at.pc = "wait" /\ Waiting(poll, 0)
    /\ \E B \in Batches(poll, 0) :
          /\ B # {} => count > 0
          /\ poll' = EpollWait(poll, 0, B)
    /\ UNCHANGED <<at, service, heap, mutex, kernel, count, user, handled, worker, bad, crowded>>

poller_handle_pipe ==
    /\ at.pc = "wait" /\ PipeReady(poll, 0)
    /\ poll' = ReadPipe(poll, 0)
    /\ UNCHANGED <<at, service, heap, mutex, kernel, count, user, handled, worker, bad, crowded>>

\* __poller_handle_event reads the counter; a failing read ends the node.
poller_handle_event ==
    LET y == Done(poll, event_fd, "event") IN
    /\ at.pc = "wait"
    /\ Ready(poll, event_fd, "event")
    /\ \/ /\ at' = [pc |-> "finish", cnt |-> count]
          /\ count' = 0
          /\ UNCHANGED poll
       \/ /\ poll' = Report(y, event_fd, "event", "ERROR")
          /\ UNCHANGED <<at, count>>
    /\ UNCHANGED <<service, heap, mutex, kernel, user, handled, worker, bad, crowded>>

\* Mutant of aio_finish: the result takes no reference.
FinishNoRef ==
    /\ at.pc = "finish" /\ at.cnt > 0
    /\ \E s \in Sessions :
          /\ Fetch(s)
          /\ at' = [at EXCEPT !.cnt = @ - 1]
          /\ poll' = Callback(poll, Result(event_fd, "event", "SUCCESS", s))
    /\ UNCHANGED <<service, count, heap, mutex, user, handled, worker, bad, crowded>>

\* aio_finish waits for a completion and takes a reference for the handler.  When
\* it, or the malloc that follows, fails, the rest of the count is written back
\* and the node ends.
aio_finish ==
    LET y == Done(poll, event_fd, "event") IN
    /\ at.pc = "finish" /\ at.cnt > 0
    /\ \/ \E s \in Sessions, more \in BOOLEAN :
             LET z == Callback(poll, Result(event_fd, "event", "SUCCESS", s)) IN
             /\ Fetch(s)
             /\ service' = [service EXCEPT !.ref = @ + 1]
             /\ UseService
             /\ IF more
                THEN /\ at' = [at EXCEPT !.cnt = @ - 1]
                     /\ poll' = z
                     /\ UNCHANGED count
                ELSE /\ at' = [pc |-> "wait", cnt |-> 0]
                     /\ poll' = Report(Done(z, event_fd, "event"), event_fd, "event", "ERROR")
                     /\ count' = count + at.cnt - 1
       \/ /\ at' = [pc |-> "wait", cnt |-> 0]
          /\ poll' = Report(y, event_fd, "event", "ERROR")
          /\ count' = count + at.cnt - 1
          /\ UseService
          /\ UNCHANGED <<kernel, service>>
    /\ UNCHANGED <<heap, mutex, user, handled, worker, crowded>>

\* The counter was worked off.
event_done ==
    /\ at.pc = "finish" /\ at.cnt = 0
    /\ at' = [pc |-> "wait", cnt |-> 0]
    /\ poll' = Done(poll, event_fd, "event")
    /\ UNCHANGED <<service, heap, mutex, kernel, count, user, handled, worker, bad, crowded>>

-----------------------------------------------------------------------------
(* The handler threads.                                                    *)

Work(w, pc) == worker' = [worker EXCEPT ![w].pc = pc]
Finish(w) == worker' = [worker EXCEPT ![w] = IF w = Main THEN [Getting EXCEPT !.pc = "unbound"]
                                             ELSE Getting]

\* handle_aio_result: a completion, the deletion, or the end of event_fd.
handler_thread_routine(w) ==
    LET r == Head(poll.queue) IN
    /\ worker[w].pc = "get"
    /\ poll.queue # <<>>
    /\ poll' = [poll EXCEPT !.queue = Tail(@)]
    /\ worker' = [worker EXCEPT ![w] =
                      [pc |-> CASE r.state = "SUCCESS" -> "unlist"
                                [] r.state = "DELETED" -> "shutdown"
                                [] OTHER -> "stop",
                       s |-> r.msg]]
    /\ UNCHANGED <<at, service, heap, mutex, kernel, count, user, handled, bad, crowded>>

\* Mutant of handle_aio_unlist: the session stays in session_list.
UnlistForgets(w) ==
    /\ worker[w].pc = "unlist"
    /\ Work(w, "handle")
    /\ UNCHANGED <<poll, at, service, heap, mutex, kernel, count, user, handled, bad, crowded>>

handle_aio_unlist(w) ==
    /\ worker[w].pc = "unlist"
    /\ mutex = NONE
    /\ heap' = list_delete(heap, worker[w].s)
    /\ Work(w, "handle")
    /\ UseService
    /\ UNCHANGED <<poll, at, service, mutex, kernel, count, user, handled, crowded>>

handle_aio_result(w) ==
    /\ worker[w].pc = "handle"
    /\ handled' = [handled EXCEPT ![worker[w].s] = @ + 1]
    /\ Work(w, "decref")
    /\ UNCHANGED <<poll, at, service, heap, mutex, kernel, count, user, bad, crowded>>

\* It is told to a service that is there still.
handle_stop(w) ==
    /\ worker[w].pc = "stop"
    /\ service.unbound = 0
    /\ Finish(w)
    /\ UNCHANGED <<poll, at, service, heap, mutex, kernel, count, user, handled, bad, crowded>>

\* shutdown_io_service: no session is accepted from now on.
shutdown_io_service(w) ==
    /\ worker[w].pc = "shutdown"
    /\ mutex = NONE
    /\ service' = [service EXCEPT !.open = FALSE]
    /\ UseService
    /\ Work(w, "decref")
    /\ UNCHANGED <<poll, at, heap, mutex, kernel, count, user, handled, crowded>>

\* io_unbind, called once.
io_unbind ==
    /\ worker[Main].pc = "off"
    /\ poll' = mpoller_del(poll, event_fd)
    /\ Work(Main, IF Registered(poll, event_fd) THEN "unbound" ELSE "shutdown")
    /\ UNCHANGED <<at, service, heap, mutex, kernel, count, user, handled, bad, crowded>>

decref(w) ==
    /\ worker[w].pc = "decref"
    /\ service' = [service EXCEPT !.ref = @ - 1]
    /\ UseService
    /\ IF service.ref = 1 THEN Work(w, "drain") ELSE Finish(w)
    /\ UNCHANGED <<poll, at, heap, mutex, kernel, count, user, handled, crowded>>

\* The loop of decref: it waits for a completion, in the kernel.
decref_drain(w) ==
    /\ worker[w].pc = "drain"
    /\ ~ListEmpty
    /\ \E s \in Sessions :
          /\ Fetch(s)
          /\ heap' = list_delete(heap, s)
          /\ handled' = [handled EXCEPT ![s] = @ + 1]
    /\ UseService
    /\ UNCHANGED <<poll, at, service, mutex, count, user, worker, crowded>>

\* Mutant of handle_unbound: the sessions in the kernel are not waited for.
UnboundAtOnce(w) ==
    /\ worker[w].pc = "drain"
    /\ service' = [service EXCEPT !.unbound = @ + 1]
    /\ Finish(w)
    /\ UNCHANGED <<poll, at, heap, mutex, kernel, count, user, handled, bad, crowded>>

handle_unbound(w) ==
    /\ worker[w].pc = "drain"
    /\ ListEmpty
    /\ service' = [service EXCEPT !.unbound = @ + 1]
    /\ Finish(w)
    /\ UNCHANGED <<poll, at, heap, mutex, kernel, count, user, handled, bad, crowded>>

-----------------------------------------------------------------------------

(* What is undefined.                                                      *)

\* The list of the poller has a second node, or the poller is stopped.
PollerUndefined == Registered(poll, event_fd)

\* From HEAD, or from a session that is to be unlisted, the list leads to the cell
\* of a session that was handled, and is its owner's again.
ListUndefined ==
    \E c \in Cells, s \in Sessions :
        /\ c # HEAD => user[c] = "accepted" /\ handled[c] = 0
        /\ handled[s] > 0
        /\ heap.next[c] = s \/ heap.prev[c] = s

\* event_fd has failed, and Main has not waited to be told so.
StopUndefined == service.unbound > 0 /\ \E w \in Handlers : worker[w].pc = "stop"

Undefined ==
    /\ PollerUndefined \/ ListUndefined \/ StopUndefined
    /\ undefined' = TRUE
    /\ UNCHANGED state

-----------------------------------------------------------------------------

PollerStep ==
    \/ epoll_wait \/ poller_handle_pipe
    \/ poller_handle_event \/ aio_finish \/ event_done

Handler(w) ==
    \/ handle_aio_unlist(w) \/ handle_aio_result(w) \/ handle_stop(w)
    \/ shutdown_io_service(w)
    \/ decref(w) \/ decref_drain(w) \/ handle_unbound(w)

Step ==
    \/ \E s \in Sessions : request(s)
    \/ \E s \in Sessions : request_list(s)
    \/ \E s \in Sessions : complete(s)
    \/ PollerStep
    \/ \E w \in Handlers : handler_thread_routine(w)
    \/ \E w \in Workers : Handler(w)
    \/ io_unbind

\* The code defines what the step does.
Defined(A) == ~undefined /\ A /\ UNCHANGED undefined

Next == Defined(Step) \/ (~undefined /\ Undefined)

\* The kernel completes what was submitted, and the threads run.
Fairness ==
    /\ \A s \in Sessions : WF_vars(Defined(request_list(s))) /\ WF_vars(Defined(complete(s)))
    /\ WF_vars(Defined(PollerStep))
    /\ \A w \in Handlers : WF_vars(Defined(handler_thread_routine(w)))
    /\ \A w \in Workers : WF_vars(Defined(Handler(w)))

Spec == Init /\ [][Next]_vars /\ Fairness

-----------------------------------------------------------------------------
(* Properties                                                              *)

\* The poller thread and the handlers use the service only before its
\* handle_unbound, which is called once.
NoUseAfterUnbound == ~bad /\ service.unbound <= 1

\* When handle_unbound is called, handle was called for every session that was
\* accepted, whether its completion was counted on event_fd, was on the way to a
\* handler, or was still to come when event_fd failed or was closed.  It is not
\* so when two sessions are outstanding: list_add_tail loses one of them.
AllHandled ==
    service.unbound > 0 => \A s \in Sessions : user[s] = "accepted" => handled[s] = 1

\* handle is called once at most for a session, and never for a refused one,
\* however many are outstanding; and before handle_unbound for all of them, when
\* there was one at a time.
HandledBeforeUnbound ==
    /\ \A s \in Sessions : handled[s] <= IF user[s] = "refused" THEN 0 ELSE 1
    /\ ~crowded => AllHandled

\* A service that was unbound reaches handle_unbound, unless two sessions were
\* outstanding: decref waits for those that the list has.
UnbindEnds == worker[Main].pc # "off" ~> service.unbound = 1 \/ crowded \/ undefined
==============================================================================
