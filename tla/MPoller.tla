------------------------------ MODULE MPoller -------------------------------
(***************************************************************************)
(* The poller group of src/kernel/mpoller.cc and mpoller.h, as the         *)
(* communicator sees it.  A descriptor belongs to poller fd % nthreads;    *)
(* the pollers share one table of nodes.  What a single poller does with   *)
(* a node is what module Poller describes, reduced to its promise: a node  *)
(* that was added leaves the table once, and is then given to the callback *)
(* once, either at once or, when another thread removed it, after the      *)
(* poller thread has read it from its pipe.                                *)
(*                                                                         *)
(* What poller.cc leaves undefined is the matter of module Poller: a node  *)
(* that expires, a list with two nodes, a call between lines 187 and 188,  *)
(* poller_stop.  Each of them needs a node or a stop; the modules that use *)
(* this one end a behaviour where it may happen, and their properties are  *)
(* those of the time before.                                               *)
(*                                                                         *)
(* The callback is Communicator::callback, which puts the result into the  *)
(* message queue.  A group x is a record                                   *)
(*    table     the operation of the node of each descriptor, or "none"    *)
(*    pipe      for each poller, the removed nodes it has not read yet     *)
(*    batch     the events that its epoll_wait returned, still to be       *)
(*              handled: an event may be of a node removed since then      *)
(*    has_pipe  whether the pipe was among them, which comes last          *)
(*    queue     the message queue of results                               *)
(* and an operator returns the group that a call leaves behind.            *)
(***************************************************************************)
EXTENDS Naturals, Sequences, FiniteSets, SequencesExt

CONSTANTS Fds,        \* file descriptors
          nthreads,   \* number of pollers
          NONE

ASSUME MPollerAssumption ==
    /\ Fds \subseteq Nat /\ IsFiniteSet(Fds)
    /\ nthreads \in Nat \ {0}
    /\ NONE \notin Fds

Pollers == 0 .. nthreads - 1

\* The poller that a descriptor is routed to.
Index(fd) == fd % nthreads

\* A result: the node's descriptor and operation, a state, and the message of
\* a read that succeeded.
Result(fd, op, st, m) == [fd |-> fd, op |-> op, state |-> st, msg |-> m]

NewGroup ==
    [table |-> [f \in Fds |-> "none"], pipe |-> [i \in Pollers |-> <<>>],
     batch |-> [i \in Pollers |-> {}], has_pipe |-> [i \in Pollers |-> FALSE],
     queue |-> <<>>]

Registered(x, fd) == x.table[fd] # "none"

Event(fd, op) == [fd |-> fd, op |-> op]

\* The poller thread is about to call epoll_wait.
Waiting(x, i) == x.batch[i] = {} /\ ~x.has_pipe[i]

\* What epoll_wait may return: some of the registered descriptors, and the pipe
\* when something is in it.
Batches(x, i) ==
    {B \in SUBSET {Event(f, x.table[f]) : f \in {g \in Fds : Index(g) = i /\ Registered(x, g)}} :
        B # {} \/ x.pipe[i] # <<>>}

EpollWait(x, i, B) == [x EXCEPT !.batch[i] = B, !.has_pipe[i] = x.pipe[i] # <<>>]

\* The poller thread has the event at hand, and is done with it.
Ready(x, fd, op) == Event(fd, op) \in x.batch[Index(fd)]
Done(x, fd, op) == [x EXCEPT !.batch[Index(fd)] = @ \ {Event(fd, op)}]

Callback(x, r) == [x EXCEPT !.queue = Append(@, r)]

\* A removed node goes to the poller thread, which runs until poller_stop.
HandOver(x, fd, st) ==
    [x EXCEPT !.pipe[Index(fd)] = Append(@, Result(fd, x.table[fd], st, NONE))]

\* mpoller_add, when it returns 0: the descriptor has no node yet.
mpoller_add(x, fd, op) == [x EXCEPT !.table[fd] = op]

\* Mutant of mpoller_del: the removed node is not handed over.
DelForgets(x, fd) == [x EXCEPT !.table[fd] = "none"]

\* mpoller_del; it returns -1 when the descriptor is not registered.
mpoller_del(x, fd) ==
    IF ~Registered(x, fd) THEN x
    ELSE [HandOver(x, fd, "DELETED") EXCEPT !.table[fd] = "none"]

\* mpoller_mod of a registered descriptor.
mpoller_mod(x, fd, op) ==
    [HandOver(x, fd, "MODIFIED") EXCEPT !.table[fd] = op]

\* The poller thread is done with a node: it removes it and gives it to the
\* callback, unless another thread was first.
Report(x, fd, op, st) ==
    IF x.table[fd] # op THEN x
    ELSE Callback([x EXCEPT !.table[fd] = "none"], Result(fd, op, st, NONE))

\* The poller thread reads its pipe, when all other events are handled.
PipeReady(x, i) == x.batch[i] = {} /\ x.has_pipe[i]
ReadPipe(x, i) ==
    [x EXCEPT !.queue = @ \o x.pipe[i], !.pipe[i] = <<>>, !.has_pipe[i] = FALSE]
=============================================================================
