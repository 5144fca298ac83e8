----------------------------- MODULE CommService ----------------------------
(***************************************************************************)
(* The serving side of src/kernel/communicator.cc over a reliable socket:  *)
(* one service, the connections it accepts, the sessions of the requests   *)
(* that arrive on them, and the end of the service by unbind, by an error  *)
(* of the listening socket, or by deinit.                                  *)
(*                                                                         *)
(* Three kinds of objects are counted by reference: an entry by those who  *)
(* handle its results, a target by its entry and its sessions, and the     *)
(* service by its targets and, until it is shut down, by itself.  A        *)
(* connection's entry and target are both named by its descriptor.         *)
(*                                                                         *)
(* Threads: the poller thread, the handler threads, one user for each      *)
(* session, and Main, which unbinds the service.  list_add and list_del    *)
(* are read as in CommClient.                                              *)
(*                                                                         *)
(* What is done under the mutex of the service is part of one action.  The *)
(* mutex of a target is kept over several only by reply.                   *)
(*                                                                         *)
(* Besides what poller.cc leaves undefined, four things do here and end a  *)
(* behaviour: list_add_tail on a list that is not empty (348), with its    *)
(* arguments exchanged (623), a new_session that fails on a connection     *)
(* that was kept alive (1047), and handle_stop of a service that unbind    *)
(* was faster to give back (830).  The properties are of the time before.  *)
(***************************************************************************)
EXTENDS MPoller, FiniteSets

CONSTANTS
    listen_fd,
    Handlers,
    Main,
    MaxSeq        \* requests that arrive on one connection

Conns == Fds \ {listen_fd}
Sessions == Conns \X (1 .. MaxSeq)
Workers == Handlers \cup {Main}

ASSUME ServiceAssumption ==
    /\ listen_fd \in Fds
    /\ MaxSeq \in Nat
    /\ nthreads = 1 /\ IsFiniteSet(Handlers)
    /\ NONE \notin Workers \cup Sessions

VARIABLES
    poll,         \* the poller and the message queue
    at,           \* what the poller thread does with the event at hand
    reading,      \* the connections with a message that is being read
    obj,          \* the objects that are counted, and the lists they are in
    mutex,        \* the owner of each target's mutex
    session,      \* passive, and the states that handle was called with
    user,         \* what the user of each session does
    worker,       \* the handler threads, and Main
    stop_flag,
    stray,        \* connections that a reply left idle, in no list
    undefined     \* the behaviour has met what the code leaves undefined

state == <<poll, at, reading, obj, mutex, session, user, worker, stop_flag, stray>>
vars == <<state, undefined>>

pollers == <<at, reading>>
users == <<mutex, session, user>>
flags == <<stop_flag, stray>>

Getting == [pc |-> "get", res |-> NONE, s |-> NONE, st |-> "none"]

Init ==
    /\ poll = mpoller_add(NewGroup, listen_fd, "listen")
    /\ at = [pc |-> "wait", fd |-> NONE]
    /\ reading = {}
    /\ obj = [entry |-> [c \in Conns |-> [state |-> "NONE", ref |-> 0, seq |-> 0]],
              target |-> [c \in Conns |-> [state |-> "NONE", ref |-> 0, idle |-> FALSE]],
              service |-> [ref |-> 1, listening |-> TRUE, unbound |-> 0],
              alive_list |-> <<>>,
              torn |-> FALSE,
              bad |-> FALSE]
    /\ mutex = [c \in Conns |-> NONE]
    /\ session = [s \in Sessions |-> [passive |-> 0, told |-> <<>>]]
    /\ user = [s \in Sessions |-> "none"]
    /\ worker = [w \in Workers |-> [Getting EXCEPT !.pc = IF w = Main THEN "off" ELSE "get"]]
    /\ stop_flag = FALSE
    /\ stray = {}
    /\ undefined = FALSE

-----------------------------------------------------------------------------
(* The objects.  bad records that one was used after it was freed, or      *)
(* that an entry was taken out of a list that it was not in; torn, that a  *)
(* reply gave back the mutex of a target that was freed meanwhile.         *)

UseEntry(o, c) == [o EXCEPT !.bad = @ \/ o.entry[c].state \in {"NONE", "FREED"}]
UseTarget(o, c) == [o EXCEPT !.bad = @ \/ o.target[c].state # "LIVE"]
UseService(o) == [o EXCEPT !.bad = @ \/ o.service.unbound > 0]

\* CommService::decref; after handle_unbound the service is its owner's.
ServiceDecref(o) ==
    LET n == o.service.ref - 1 IN
    [UseService(o) EXCEPT !.service.ref = n,
                          !.service.unbound = IF n = 0 THEN @ + 1 ELSE @]

\* CommServiceTarget::decref
TargetDecref(o, c) ==
    LET y == [UseTarget(o, c) EXCEPT !.target[c].ref = @ - 1] IN
    IF y.target[c].ref > 0 THEN y
    ELSE ServiceDecref([y EXCEPT !.target[c].state = "FREED"])

\* The end of a handler: the last reference releases the connection.
EntryDecref(o, c) ==
    LET y == [UseEntry(o, c) EXCEPT !.entry[c].ref = @ - 1] IN
    IF y.entry[c].ref > 0 THEN y
    ELSE TargetDecref([y EXCEPT !.entry[c].state = "FREED"], c)

SetState(o, c, st) == [UseEntry(o, c) EXCEPT !.entry[c].state = st]

\* A kept connection leaves alive_list.
AliveDel(o, c) ==
    [UseService(o) EXCEPT !.bad = @ \/ c \notin ToSet(o.alive_list),
                          !.alive_list = RemoveFirst(@, c)]

\* It comes into the list, which has to be empty.
AliveAdd(o, c) ==
    [UseService(SetState(o, c, "KEEPALIVE")) EXCEPT !.alive_list = Append(@, c),
                                                    !.entry[c].ref = @ + 1]

-----------------------------------------------------------------------------
(* The poller thread.                                                      *)

PollerGo(pc, c) == at' = [pc |-> pc, fd |-> c]

epoll_wait ==
    /\ at.pc = "wait" /\ Waiting(poll, 0)
    /\ \E B \in Batches(poll, 0) : poll' = EpollWait(poll, 0, B)
    /\ UNCHANGED <<pollers, obj, users, worker, flags>>

poller_handle_pipe ==
    /\ at.pc = "wait" /\ PipeReady(poll, 0)
    /\ poll' = ReadPipe(poll, 0)
    /\ UNCHANGED <<pollers, obj, users, worker, flags>>

\* The listening socket: a connection is accepted, there is none (any more), or
\* an error ends the loop.
accept ==
    LET y == Done(poll, listen_fd, "listen") IN
    /\ at.pc = "wait"
    /\ Ready(poll, listen_fd, "listen")
    /\ \/ \E c \in Conns :
             /\ obj.target[c].state = "NONE"
             /\ \A d \in Conns : d < c => obj.target[d].state # "NONE"
             /\ obj' = [UseService(obj) EXCEPT !.service.ref = @ + 1,
                           !.target[c] = [state |-> "LIVE", ref |-> 1, idle |-> FALSE]]
             /\ poll' = Callback(poll, Result(listen_fd, "listen", "SUCCESS", c))
       \/ /\ poll' \in {y, Report(y, listen_fd, "listen", "ERROR")}
          /\ UNCHANGED obj
    /\ UNCHANGED <<pollers, users, worker, flags>>

poller_handle_write(c) ==
    /\ at.pc = "wait"
    /\ Ready(poll, c, "write")
    /\ LET y == Done(poll, c, "write") IN
       poll' \in {y, Report(y, c, "write", "FINISHED"), Report(y, c, "write", "ERROR")}
    /\ UNCHANGED <<pollers, obj, users, worker, flags>>

\* The loop that reads a connection ends with result st, unless the node was
\* removed.
ReadEnds(c, st) ==
    /\ poll' = Report(Done(poll, c, "read"), c, "read", st)
    /\ reading' = reading \ {c}
    /\ PollerGo("wait", NONE)

\* One round of that loop: nothing to read, the peer has closed, or data, for
\* which create_request waits for a thread that is sending a reply.
poller_handle_read(c) ==
    /\ Ready(poll, c, "read")
    /\ at \in {[pc |-> "wait", fd |-> NONE], [pc |-> "data", fd |-> c]}
    /\ \/ /\ poll' = Done(poll, c, "read")
          /\ PollerGo("wait", NONE)
          /\ UNCHANGED <<reading, obj>>
       \/ ReadEnds(c, "FINISHED") /\ UNCHANGED obj
       \/ /\ c \in reading \/ obj.entry[c].seq < MaxSeq
          /\ PollerGo(CASE c \in reading -> "append"
                        [] c \notin reading /\ obj.entry[c].state = "IDLE" -> "lock"
                        [] OTHER -> "create", c)
          /\ obj' = UseEntry(obj, c)
          /\ UNCHANGED <<poll, reading>>
    /\ UNCHANGED <<users, worker, flags>>

create_request_lock ==
    /\ at.pc = "lock"
    /\ mutex[at.fd] = NONE
    /\ PollerGo("create", at.fd)
    /\ obj' = UseTarget(obj, at.fd)
    /\ UNCHANGED <<poll, reading, users, worker, flags>>

\* Mutant of create_request: the entry stays in alive_list.
CreateKeepsAlive ==
    LET c == at.fd IN
    /\ at.pc = "create"
    /\ \/ /\ obj.entry[c].state \in {"KEEPALIVE", "CONNECTED"}
          /\ PollerGo("new", c)
          /\ UNCHANGED <<obj, poll, reading>>
       \/ /\ obj.entry[c].state \notin {"KEEPALIVE", "CONNECTED"}
          /\ obj' = UseEntry(obj, c)
          /\ ReadEnds(c, "ERROR")
    /\ UNCHANGED <<users, worker, flags>>

\* create_request, the part under the service's mutex: a request is expected on
\* a new connection and on one that was kept alive.
create_request ==
    LET c == at.fd IN
    /\ at.pc = "create"
    /\ \/ /\ obj.entry[c].state \in {"KEEPALIVE", "CONNECTED"}
          /\ obj' = IF obj.entry[c].state = "KEEPALIVE" THEN AliveDel(obj, c)
                    ELSE UseService(obj)
          /\ PollerGo("new", c)
          /\ UNCHANGED <<poll, reading>>
       \/ /\ obj.entry[c].state \notin {"KEEPALIVE", "CONNECTED"}
          /\ obj' = UseService(UseEntry(obj, c))
          /\ ReadEnds(c, "ERROR")
    /\ UNCHANGED <<users, worker, flags>>

\* Mutant of create_request_session: the session's reference is not counted.
SessionNotCounted ==
    LET c == at.fd
        s == <<c, obj.entry[c].seq + 1>>
    IN
    /\ at.pc = "new"
    /\ obj' = [obj EXCEPT !.entry[c].seq = @ + 1, !.entry[c].state = "RECEIVING"]
    /\ session' = [session EXCEPT ![s].passive = 1]
    /\ reading' = reading \cup {c}
    /\ PollerGo("append", c)
    /\ UNCHANGED <<poll, mutex, user, worker, flags>>

\* The rest of create_request: a session, and a message for it; or new_session
\* fails, of which a new connection just ends.
create_request_session ==
    LET c == at.fd
        s == <<c, obj.entry[c].seq + 1>>
        y == [UseEntry(UseTarget(obj, c), c)
                 EXCEPT !.entry[c].seq = @ + 1, !.entry[c].state = "RECEIVING",
                        !.target[c].ref = @ + 1]
    IN
    /\ at.pc = "new"
    /\ \/ /\ obj' = y
          /\ session' = [session EXCEPT ![s].passive = 1]
          /\ \/ /\ reading' = reading \cup {c}
                /\ PollerGo("append", c)
                /\ UNCHANGED poll
             \/ ReadEnds(c, "ERROR")
       \/ /\ obj.entry[c].state = "CONNECTED"
          /\ ReadEnds(c, "ERROR")
          /\ UNCHANGED <<obj, session>>
    /\ UNCHANGED <<mutex, user, worker, flags>>

\* append_message: more data is needed, the request is malformed, or it is
\* complete and given to the callback.
append_message ==
    LET c == at.fd
        s == <<c, obj.entry[c].seq>>
    IN
    /\ at.pc = "append"
    /\ \/ /\ PollerGo("data", c)
          /\ obj' = UseEntry(obj, c)
          /\ UNCHANGED <<poll, reading>>
       \/ /\ obj' = UseEntry(obj, c)
          /\ ReadEnds(c, "ERROR")
       \/ /\ obj' = SetState(obj, c, "SUCCESS")
          /\ poll' = Callback(poll, Result(c, "read", "SUCCESS", s))
          /\ reading' = reading \ {c}
          /\ PollerGo("data", c)
    /\ UNCHANGED <<users, worker, flags>>

-----------------------------------------------------------------------------
(* The handler threads.                                                    *)

Fd(w) == worker[w].res.fd
Work(w, pc) == worker' = [worker EXCEPT ![w].pc = pc]
Finish(w) == worker' = [worker EXCEPT ![w] = Getting]

StateOf(st) == IF st \in {"DELETED", "STOPPED"} THEN "STOPPED" ELSE "ERROR"

\* handler_thread_routine takes a result and finds the handler for it, which
\* reads the session of the entry.
handler_thread_routine(w) ==
    LET r == Head(poll.queue)
        reads == (r.op = "read" /\ r.state = "SUCCESS") \/ r.op = "write"
        pc == CASE r.op = "listen" /\ r.state = "SUCCESS" -> "accepted"
                [] r.op = "listen" /\ r.state = "DELETED" -> "shutdown"
                [] r.op = "listen" /\ r.state \in {"ERROR", "STOPPED"} -> "stopped"
                [] r.op = "read" /\ r.state = "MODIFIED" -> "get"
                [] r.op = "read" /\ r.state = "SUCCESS" -> "request"
                [] r.op = "read" /\ r.state \notin {"SUCCESS", "MODIFIED"} -> "ended"
                [] r.op = "write" /\ r.state = "FINISHED" -> "replied"
                [] OTHER -> "handle"
    IN
    /\ worker[w].pc = "get"
    /\ poll.queue # <<>>
    /\ poll' = [poll EXCEPT !.queue = Tail(@)]
    /\ worker' = [worker EXCEPT ![w] =
                      IF pc = "get" THEN Getting
                      ELSE [pc |-> pc, res |-> r, st |-> StateOf(r.state),
                            s |-> IF reads THEN <<r.fd, obj.entry[r.fd].seq>> ELSE NONE]]
    /\ obj' = IF reads THEN UseEntry(obj, r.fd) ELSE obj
    /\ UNCHANGED <<pollers, users, flags>>

\* The entry of an accepted connection.
accept_conn == [state |-> "CONNECTED", ref |-> 1, seq |-> 0]

\* Mutant of handle_accepted: after a failure the target keeps its reference.
AcceptLeaks(w) ==
    LET c == worker[w].res.msg IN
    /\ worker[w].pc = "accepted"
    /\ \/ /\ obj' = [UseService(UseTarget(obj, c))
                        EXCEPT !.entry[c] = accept_conn]
          /\ poll' = mpoller_add(poll, c, "read")
          /\ Work(w, "added")
       \/ /\ Finish(w)
          /\ UNCHANGED <<obj, poll>>
    /\ UNCHANGED <<pollers, users, flags>>

\* handle_listen_result of a connection, with accept_conn: it is registered, or
\* something fails and nothing is left of it.
handle_accepted(w) ==
    LET c == worker[w].res.msg IN
    /\ worker[w].pc = "accepted"
    /\ \/ /\ obj' = [UseService(UseTarget(obj, c))
                        EXCEPT !.entry[c] = accept_conn]
          /\ poll' = mpoller_add(poll, c, "read")
          /\ Work(w, "added")
       \/ /\ obj' = TargetDecref(obj, c)
          /\ Finish(w)
          /\ UNCHANGED poll
    /\ UNCHANGED <<pollers, users, flags>>

\* Mutant of handle_added: stop_flag is tested the wrong way.
AddedDeletes(w) ==
    /\ worker[w].pc = "added"
    /\ poll' = IF stop_flag THEN poll ELSE mpoller_del(poll, worker[w].res.msg)
    /\ Finish(w)
    /\ UNCHANGED <<pollers, obj, users, flags>>

\* A registration that deinit may have come before is undone.
handle_added(w) ==
    /\ worker[w].pc = "added"
    /\ poll' = IF stop_flag THEN mpoller_del(poll, worker[w].res.msg) ELSE poll
    /\ Finish(w)
    /\ UNCHANGED <<pollers, obj, users, flags>>

\* handle_listen_result of the socket's end by an error or by deinit.
handle_stop(w) ==
    /\ worker[w].pc = "stopped"
    /\ obj.service.unbound = 0
    /\ obj' = UseService(obj)
    /\ Finish(w)
    /\ UNCHANGED <<poll, pollers, users, flags>>

\* Mutant of handle_request_success: the reference of idle_list is not counted.
SuccessForgetsRef(w) ==
    LET c == Fd(w) IN
    /\ worker[w].pc = "request"
    /\ mutex[c] = NONE
    /\ obj' = IF obj.entry[c].state # "SUCCESS" THEN UseTarget(obj, c)
              ELSE [UseTarget(SetState(obj, c, "IDLE"), c) EXCEPT !.target[c].idle = TRUE]
    /\ session' = [session EXCEPT ![worker[w].s].passive = 2]
    /\ worker' = [worker EXCEPT ![w].pc = "handle", ![w].st = "TOREPLY"]
    /\ UNCHANGED <<poll, pollers, mutex, user, flags>>

\* handle_incoming_request of a message: the session may be replied to as long
\* as the entry is in idle_list.
handle_request_success(w) ==
    LET c == Fd(w) IN
    /\ worker[w].pc = "request"
    /\ mutex[c] = NONE
    /\ obj' = IF obj.entry[c].state # "SUCCESS" THEN UseTarget(obj, c)
              ELSE [UseTarget(SetState(obj, c, "IDLE"), c)
                       EXCEPT !.entry[c].ref = @ + 1, !.target[c].idle = TRUE]
    /\ session' = [session EXCEPT ![worker[w].s].passive = 2]
    /\ worker' = [worker EXCEPT ![w].pc = "handle", ![w].st = "TOREPLY"]
    /\ UNCHANGED <<poll, pollers, mutex, user, flags>>

\* Mutant of handle_request_end: a session whose request is complete is told.
EndTellsAll(w) ==
    LET c == Fd(w)
        st == obj.entry[c].state
    IN
    /\ worker[w].pc = "ended"
    /\ mutex[c] = NONE
    /\ obj' = CASE st = "KEEPALIVE" -> AliveDel(UseTarget(obj, c), c)
                [] st = "IDLE" -> [UseTarget(obj, c) EXCEPT !.target[c].idle = FALSE]
                [] OTHER -> UseEntry(UseTarget(obj, c), c)
    /\ worker' = [worker EXCEPT ![w] =
                      IF st \in {"ERROR", "RECEIVING", "SUCCESS"}
                      THEN [@ EXCEPT !.pc = "handle", !.s = <<c, obj.entry[c].seq>>]
                      ELSE [@ EXCEPT !.pc = "unref"]]
    /\ UNCHANGED <<poll, pollers, users, flags>>

\* handle_incoming_request of the connection's end.  An idle entry that is not in
\* idle_list has stale links, to the list head alone, and list_del has no effect.
handle_request_end(w) ==
    LET c == Fd(w)
        st == obj.entry[c].state
    IN
    /\ worker[w].pc = "ended"
    /\ mutex[c] = NONE
    /\ obj' = CASE st = "KEEPALIVE" -> AliveDel(UseTarget(obj, c), c)
                [] st = "IDLE" -> [UseTarget(obj, c) EXCEPT !.target[c].idle = FALSE]
                [] st = "SUCCESS" -> SetState(UseTarget(obj, c), c, "CLOSING")
                [] OTHER -> UseEntry(UseTarget(obj, c), c)
    /\ worker' = [worker EXCEPT ![w] =
                      CASE st \in {"ERROR", "RECEIVING"} ->
                             [@ EXCEPT !.pc = "handle", !.s = <<c, obj.entry[c].seq>>,
                                       !.st = IF st = "ERROR" THEN "ERROR" ELSE worker[w].st]
                        [] st = "SUCCESS" -> Getting
                        [] OTHER -> [@ EXCEPT !.pc = "unref"]]
    /\ UNCHANGED <<poll, pollers, users, flags>>

\* handle_reply_result of a reply that was written by the poller: the connection
\* is let go or, when the service or the communicator is being closed, registered
\* and deleted again.
handle_reply_result(w) ==
    LET c == Fd(w) IN
    /\ worker[w].pc = "replied"
    /\ \/ UNCHANGED <<obj, poll>>
       \/ /\ stop_flag \/ ~obj.service.listening
          /\ mutex[c] = NONE
          /\ poll' = mpoller_del(mpoller_add(poll, c, "read"), c)
          /\ obj' = UseService([SetState(UseTarget(obj, c), c, "CLOSING")
                                   EXCEPT !.entry[c].ref = @ + 1])
    /\ worker' = [worker EXCEPT ![w].pc = "handle", ![w].st = "SUCCESS"]
    /\ UNCHANGED <<pollers, users, flags>>

\* The session is told; now it is its user's to reply, or to delete it.
handle(w) ==
    /\ worker[w].pc = "handle"
    /\ session' = [session EXCEPT ![worker[w].s].told = Append(@, worker[w].st)]
    /\ user' = IF worker[w].st = "TOREPLY" THEN [user EXCEPT ![worker[w].s] = "toreply"]
               ELSE user
    /\ Work(w, "unref")
    /\ UNCHANGED <<poll, pollers, obj, mutex, flags>>

release_conn(w) ==
    /\ worker[w].pc = "unref"
    /\ obj' = EntryDecref(obj, Fd(w))
    /\ Finish(w)
    /\ UNCHANGED <<poll, pollers, users, flags>>

-----------------------------------------------------------------------------
(* The end of the service.                                                 *)

\* Main unbinds the service once.  When the listening socket has failed, Main
\* itself shuts the service down.
unbind ==
    /\ worker[Main].pc = "off"
    /\ poll' = mpoller_del(poll, listen_fd)
    /\ Work(Main, IF Registered(poll, listen_fd) THEN "unbound" ELSE "shutdown")
    /\ UNCHANGED <<pollers, obj, users, flags>>

\* shutdown_service: no connection is kept alive from now on.
shutdown_service(w) ==
    /\ worker[w].pc = "shutdown"
    /\ obj' = [UseService(obj) EXCEPT !.service.listening = FALSE]
    /\ Work(w, "drain")
    /\ UNCHANGED <<poll, pollers, users, flags>>

\* The kept connections q are closed; rest are those that stay in alive_list.
CloseAlive(o, q, rest) ==
    [o EXCEPT !.alive_list = rest,
              !.bad = @ \/ \E c \in ToSet(q) : o.entry[c].state \in {"NONE", "FREED"},
              !.entry = [c \in Conns |-> IF c \in ToSet(q)
                                         THEN [o.entry[c] EXCEPT !.state = "CLOSING"]
                                         ELSE o.entry[c]]]

\* drain(-1)
drain_all(w) ==
    /\ worker[w].pc = "drain"
    /\ poll' = FoldLeft(mpoller_del, poll, obj.alive_list)
    /\ obj' = UseService(CloseAlive(obj, obj.alive_list, <<>>))
    /\ Work(w, "decref")
    /\ UNCHANGED <<pollers, users, flags>>

service_decref(w) ==
    /\ worker[w].pc = "decref"
    /\ obj' = ServiceDecref(obj)
    /\ worker' = [worker EXCEPT ![w] = IF w = Main THEN [Getting EXCEPT !.pc = "closed"]
                                       ELSE Getting]
    /\ UNCHANGED <<poll, pollers, users, flags>>

\* drain(1), called by the owner of a service that is bound.
drain ==
    /\ obj.alive_list # <<>>
    /\ worker[Main].pc = "off"
    /\ poll' = mpoller_del(poll, Head(obj.alive_list))
    /\ obj' = UseService(CloseAlive(obj, <<Head(obj.alive_list)>>, Tail(obj.alive_list)))
    /\ UNCHANGED <<pollers, users, worker, flags>>

\* deinit: stop_flag is set; poller_stop is not defined.
deinit ==
    /\ ~stop_flag
    /\ stop_flag' = TRUE
    /\ UNCHANGED <<poll, pollers, obj, users, worker, stray>>

-----------------------------------------------------------------------------
(* The users of the sessions.                                              *)

GoUser(s, pc) == user' = [user EXCEPT ![s] = pc]

\* A session is replied to, or shut down, once.
MayReply(s) == user[s] = "toreply" /\ session[s].passive = 2

\* reply_reliable, up to the point where the target's mutex is given back.  The
\* message is sent at once, in part, or not.  A reply that was sent at once when
\* the service no longer listens leaves the connection as it was.
reply(s) ==
    LET c == s[1]
        y == [UseEntry(UseTarget(obj, c), c) EXCEPT !.target[c].idle = FALSE]
        ref == [y EXCEPT !.entry[c].ref = @ + 1]
    IN
    /\ MayReply(s)
    /\ mutex[c] = NONE
    /\ session' = [session EXCEPT ![s].passive = 3]
    /\ IF ~obj.target[c].idle
       THEN /\ GoUser(s, "over")
            /\ obj' = UseTarget(obj, c)
            /\ UNCHANGED <<poll, mutex, stray>>
       ELSE /\ mutex' = [mutex EXCEPT ![c] = s]
            /\ \/ /\ poll' = mpoller_del(poll, c)
                  /\ obj' = SetState(ref, c, "CLOSING")
                  /\ GoUser(s, "sent")
                  /\ UNCHANGED stray
               \/ /\ obj.service.listening => obj.alive_list = <<>>
                  /\ obj' = IF obj.service.listening THEN AliveAdd(y, c) ELSE UseService(ref)
                  /\ stray' = IF obj.service.listening THEN stray ELSE stray \cup {c}
                  /\ GoUser(s, "sent")
                  /\ UNCHANGED poll
               \/ /\ poll' = IF Registered(poll, c) THEN mpoller_mod(poll, c, "write") ELSE poll
                  /\ obj' = IF Registered(poll, c) THEN y ELSE SetState(y, c, "RECEIVING")
                  /\ GoUser(s, "sending")
                  /\ UNCHANGED stray
               \/ /\ poll' = mpoller_del(poll, c)
                  /\ obj' = SetState(y, c, "ERROR")
                  /\ GoUser(s, "sending")
                  /\ UNCHANGED stray
    /\ UNCHANGED <<pollers, worker, stop_flag>>

\* The mutex is given back.  When all was sent, reply itself tells the session.
reply_unlock(s) ==
    /\ user[s] \in {"sent", "sending"}
    /\ mutex' = [mutex EXCEPT ![s[1]] = NONE]
    /\ obj' = IF user[s] = "sent" THEN UseTarget(obj, s[1])
              ELSE [obj EXCEPT !.torn = @ \/ obj.target[s[1]].state # "LIVE"]
    /\ GoUser(s, IF user[s] = "sent" THEN "handle" ELSE "returned")
    /\ UNCHANGED <<poll, pollers, session, worker, flags>>

reply_handle(s) ==
    /\ user[s] = "handle"
    /\ session' = [session EXCEPT ![s].told = Append(@, "SUCCESS")]
    /\ GoUser(s, "unref")
    /\ UNCHANGED <<poll, pollers, obj, mutex, worker, flags>>

reply_unref(s) ==
    /\ user[s] = "unref"
    /\ obj' = EntryDecref(obj, s[1])
    /\ GoUser(s, "returned")
    /\ UNCHANGED <<poll, pollers, mutex, session, worker, flags>>

\* CommServiceTarget::shutdown
TargetShutdown(o, c) ==
    IF o.target[c].idle
    THEN [SetState(UseTarget(o, c), c, "CLOSING") EXCEPT !.target[c].idle = FALSE]
    ELSE UseTarget(o, c)

shutdown(s) ==
    /\ MayReply(s)
    /\ mutex[s[1]] = NONE
    /\ session' = [session EXCEPT ![s].passive = 3]
    /\ poll' = IF obj.target[s[1]].idle THEN mpoller_del(poll, s[1]) ELSE poll
    /\ obj' = TargetShutdown(obj, s[1])
    /\ GoUser(s, "over")
    /\ UNCHANGED <<pollers, mutex, worker, flags>>

Told(s) == \E i \in DOMAIN session[s].told : session[s].told[i] # "TOREPLY"

\* ~CommSession: a session that was told its end, or that is not replied to (any
\* more), is deleted by its user; 4 stands for the deleted session.
delete_session(s) ==
    LET c == s[1] IN
    /\ session[s].passive \in 1 .. 3
    /\ Told(s) \/ user[s] \in {"toreply", "over"}
    /\ session' = [session EXCEPT ![s].passive = 4]
    /\ IF session[s].passive = 2
       THEN /\ mutex[c] = NONE
            /\ poll' = IF obj.target[c].idle THEN mpoller_del(poll, c) ELSE poll
            /\ obj' = TargetDecref(TargetShutdown(obj, c), c)
       ELSE /\ obj' = TargetDecref(obj, c)
            /\ UNCHANGED poll
    /\ user' = [user EXCEPT ![s] = IF @ = "toreply" THEN "over" ELSE @]
    /\ UNCHANGED <<pollers, mutex, worker, flags>>

-----------------------------------------------------------------------------
(* What is undefined.                                                      *)

\* An expiry, a list of two nodes or poller_stop (poller.cc, as in CommClient).
PollerUndefined == stop_flag \/ \E f \in Fds : Registered(poll, f)

\* A reply that was sent at once is to be kept alive beside another connection,
\* or one that the poller has written is to be kept alive.
KeepUndefined ==
    /\ obj.service.listening
    /\ \/ \E s \in Sessions :
             MayReply(s) /\ mutex[s[1]] = NONE /\ obj.target[s[1]].idle /\ obj.alive_list # <<>>
       \/ ~stop_flag /\ \E w \in Handlers : worker[w].pc = "replied" /\ mutex[Fd(w)] = NONE

\* The entry is in no list, but its state says so: the end of the connection will
\* unlink it again.
NewSessionUndefined == at.pc = "new" /\ obj.entry[at.fd].state = "KEEPALIVE"

\* The listening socket has failed, and Main has not waited to be told so.
StopUndefined == obj.service.unbound > 0 /\ \E w \in Handlers : worker[w].pc = "stopped"

Undefined ==
    /\ PollerUndefined \/ KeepUndefined \/ NewSessionUndefined \/ StopUndefined
    /\ undefined' = TRUE
    /\ UNCHANGED state

-----------------------------------------------------------------------------

PollerStep ==
    \/ epoll_wait \/ poller_handle_pipe
    \/ accept
    \/ create_request_lock \/ create_request \/ create_request_session
    \/ append_message
    \/ \E c \in Conns : poller_handle_write(c)

Handler(w) ==
    \/ handler_thread_routine(w)
    \/ handle_accepted(w) \/ handle_added(w) \/ handle_stop(w)
    \/ handle_request_success(w) \/ handle_request_end(w)
    \/ handle_reply_result(w)
    \/ handle(w) \/ release_conn(w)

Shutdown(w) == shutdown_service(w) \/ drain_all(w) \/ service_decref(w)

InReply(s) == reply_unlock(s) \/ reply_handle(s) \/ reply_unref(s)

Step ==
    \/ PollerStep
    \/ \E c \in Conns : poller_handle_read(c)
    \/ \E w \in Handlers : Handler(w)
    \/ \E w \in Workers : Shutdown(w)
    \/ unbind
    \/ drain
    \/ deinit
    \/ \E s \in Sessions : reply(s)
    \/ \E s \in Sessions : shutdown(s)
    \/ \E s \in Sessions : delete_session(s)
    \/ \E s \in Sessions : InReply(s)

\* The code defines what the step does.
Defined(A) == ~undefined /\ A /\ UNCHANGED undefined

Next == Defined(Step) \/ (~undefined /\ Undefined)

Spec == Init /\ [][Next]_vars

-----------------------------------------------------------------------------
(* Properties                                                              *)

\* The variables have their types.
TypeOK ==
    /\ \A c \in Conns :
          /\ obj.entry[c].state \in {"NONE", "CONNECTED", "RECEIVING", "SUCCESS", "IDLE",
                                     "KEEPALIVE", "CLOSING", "ERROR", "FREED"}
          /\ obj.entry[c].ref \in Nat /\ obj.target[c].ref \in Nat
          /\ obj.target[c].state \in {"NONE", "LIVE", "FREED"}
          /\ mutex[c] \in Sessions \cup {NONE}
    /\ reading \subseteq Conns /\ stray \subseteq Conns
    /\ \A s \in Sessions : session[s].passive \in 0 .. 4
    /\ undefined \in BOOLEAN

\* Nobody uses an entry, a target or the service after its last reference was
\* given back, or unlinks an entry from alive_list twice: not a handler whose
\* connection another handler ends, not a reply or a deletion racing the peer's
\* close, not drain racing a new request.  (The mutex of a target under a reply
\* that the poller is writing is apart: torn.)
NoUseAfterFree == ~obj.bad

\* The references that are counted are those that exist: a target has its entry
\* and its undeleted sessions, the service its targets and itself until it is
\* shut down, and handle_unbound is called once, when nothing is left.
Undeleted(c) == {s \in Sessions : s[1] = c /\ session[s].passive \in 1 .. 3}
RefsCount ==
    /\ \A c \in Conns :
          obj.target[c].state = "LIVE" =>
              obj.target[c].ref = Cardinality(Undeleted(c))
                                     + IF obj.entry[c].state = "FREED" THEN 0 ELSE 1
    /\ obj.service.ref - Cardinality({c \in Conns : obj.target[c].state = "LIVE"})
          \in {0, 1}
    /\ obj.service.unbound = IF obj.service.ref = 0 THEN 1 ELSE 0

\* The results about c that have not been handled and that end its reading.
Pending(c) ==
    {r \in ToSet(poll.pipe[0]) \cup ToSet(poll.queue)
             \cup {worker[w].res : w \in {v \in Handlers : worker[v].pc = "ended"}} :
        r.fd = c /\ r.op = "read" /\ r.state \notin {"SUCCESS", "MODIFIED"}}

\* A connection in alive_list is kept alive, and is watched by the poller or its
\* end is on the way; one that is kept alive and watched is in the list, where
\* drain finds it, except while a request on it is being created; and once the
\* service was drained for good, the list is empty.
AliveListRight ==
    /\ \A c \in Conns :
          c \in ToSet(obj.alive_list) =>
              /\ obj.entry[c].state = "KEEPALIVE"
              /\ poll.table[c] = "read" \/ Pending(c) # {}
    /\ \A c \in Conns :
          obj.entry[c].state = "KEEPALIVE" /\ poll.table[c] = "read" =>
              c \in ToSet(obj.alive_list) \/ at = [pc |-> "new", fd |-> c]
    /\ ~obj.service.listening /\ (\A w \in Workers : worker[w].pc # "drain")
          => obj.alive_list = <<>>

\* A session is told once that it is to be replied to, and once how it ended,
\* and never after it was deleted.
SessionToldOnce ==
    /\ \A s \in Sessions :
          LET t == session[s].told IN
          /\ Len(t) <= 2
          /\ Len(t) = 2 => t[1] = "TOREPLY" /\ t[2] # "TOREPLY"
    /\ \A w \in Handlers :
          worker[w].pc \in {"request", "handle"} => session[worker[w].s].passive # 4

\* The comment of handle_reply_result, "DELETED seems not possible": the node of
\* a reply that is being written is deleted only after deinit was called, by the
\* handler that accepted the connection and looks at stop_flag late.
WriteNotDeleted ==
    (\E r \in ToSet(poll.pipe[0]) \cup ToSet(poll.queue) :
        r.op = "write" /\ r.state = "DELETED") => stop_flag

\* Nothing is left to happen to a service that was unbound: every result is
\* handled, no descriptor is registered, every session was deleted.
Quiet ==
    /\ worker[Main].pc \in {"unbound", "closed"}
    /\ \A w \in Handlers : worker[w].pc = "get"
    /\ poll.queue = <<>> /\ poll.pipe[0] = <<>> /\ at.pc = "wait"
    /\ \A f \in Fds : ~Registered(poll, f)
    /\ \A s \in Sessions :
          session[s].passive \in {0, 4} /\ user[s] \in {"none", "over", "returned"}

\* No reference is lost: when all is quiet, handle_unbound was called and every
\* connection was closed.
NothingLeaks ==
    Quiet => /\ obj.service.unbound = 1
             /\ \A c \in Conns : obj.entry[c].state \in {"NONE", "FREED"}
                                 /\ obj.target[c].state \in {"NONE", "FREED"}
=============================================================================
