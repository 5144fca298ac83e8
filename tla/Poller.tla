------------------------------- MODULE Poller -------------------------------
(***************************************************************************)
(* One poller of src/kernel/poller.cc: a thread in epoll_wait, a table of  *)
(* nodes that any thread may change under the poller's mutex, an index of  *)
(* the nodes by timeout, and a pipe through which deleted nodes are handed *)
(* to the poller thread so that it, and nobody else, gives them to the     *)
(* callback.                                                               *)
(*                                                                         *)
(* A node that was given to the callback belongs to its receiver, who uses *)
(* the space behind the result and frees it: the poller must not touch it. *)
(*                                                                         *)
(* timeo_list and no_timeo_list, which struct poller declares as pointers  *)
(* that nothing sets, are taken to address one list cell each.  A failing  *)
(* malloc, epoll_ctl or pthread_create makes a call return -1 and changes  *)
(* nothing; only the failure of malloc in a handler is modelled.           *)
(*                                                                         *)
(* Several nodes may be in a list.  The lists are followed link by link as *)
(* list.h leaves them, which is not a ring: the second node goes in front  *)
(* of the first, and to delete the first empties the list.  Once a link    *)
(* leads to a cell that is not in a list (any more), the program is        *)
(* undefined and the behaviour ends; so it does where the code takes a     *)
(* list head for part of a node, and when a node is removed twice.         *)
(*                                                                         *)
(* A call under the mutex is one action.  The poller thread is followed    *)
(* statement by statement where it does not hold it.                       *)
(***************************************************************************)
EXTENDS Integers, Sequences, FiniteSets, List

CONSTANTS
    Fds,          \* file descriptors
    Nodes,        \* the struct __poller_node objects, each allocated once
    Ops,          \* the operations that callers add for each descriptor
    Timeouts,     \* the timeouts they give it, negative for none; of NULL, those
                  \* of timers
    MaxTime,      \* the clock stops here
    MaxInput,     \* how many items all descriptors together receive
    CanStop,      \* whether poller_stop is called
    TIMEO, NOTIMEO, STACK,  \* the list cells that are not part of a node
    NULL

Operations == {"read", "write", "listen", "connect", "recvfrom", "event"}
Heads == {TIMEO, NOTIMEO, STACK}
Cells == Nodes \cup Heads

ASSUME PollerAssumption ==
    /\ Ops \in [Fds -> SUBSET Operations]
    /\ \A f \in Fds : Timeouts[f] \subseteq Int
    /\ Timeouts[NULL] \subseteq Nat
    /\ MaxTime \in Nat /\ MaxInput \in Nat
    /\ CanStop \in BOOLEAN
    /\ NULL \notin Fds \cup Cells
    /\ Nodes \cap Heads = {}
    /\ TIMEO # NOTIMEO /\ TIMEO # STACK /\ NOTIMEO # STACK
    /\ IsFiniteSet(Nodes)

VARIABLES
    nodes,        \* the node table
    epoll,        \* the node that epoll holds for each descriptor
    node,         \* fields fd, removed, res and operation of each node
    index,        \* the lists, the tree and the timerfd
    pipe,         \* what was written to the pipe and not read yet
    stopped,
    pc,           \* the statement the poller thread is at
    batch,        \* events that epoll_wait returned, still to be handled
    has_pipe,     \* local has_pipe_event
    cur,          \* local node, or pos
    seen,         \* local removed of __poller_remove_node
    time,         \* time_node, the clock when epoll_wait returned
    stopping,     \* where the thread in poller_stop is
    cb,           \* how often each node was given to the callback
    now,          \* the clock; 0 disarms a timerfd, so it starts at 1
    input,        \* items that may still arrive
    bad           \* a node was used after it was given to the callback

table == <<nodes, epoll>>
thread == <<pc, batch, has_pipe, cur, seen, time>>
env == <<now, input>>
vars == <<nodes, epoll, node, index, pipe, stopped, pc, batch, has_pipe, cur,
          seen, time, stopping, cb, now, input, bad>>

-----------------------------------------------------------------------------
(* The index of nodes by timeout.  heap holds the list cells; listed are   *)
(* the nodes that were put in a list last; tree is the red-black tree, in  *)
(* order; dropped are the expired nodes that the local list has lost;      *)
(* touched collects the nodes whose fields an action reads or writes; and  *)
(* broken says that a link was followed to a cell outside the lists.       *)

\* The action leaves the index x behind and uses the nodes in S.
Commit(x, S) ==
    /\ index' = [x EXCEPT !.touched = {}]
    /\ bad' = (bad \/ \E n \in (x.touched \cup S) \cap Nodes : cb[n] > 0)

\* An action that does not change the index and uses the nodes in S.
Touches(S) == bad' = (bad \/ \E n \in S \cap Nodes : cb[n] > 0)
              /\ UNCHANGED index

\* The index without what it says of the nodes in N: their fields belong to
\* the receiver of the callback.
Forget(x, N) ==
    [x EXCEPT !.in_rbtree = @ \ N,
              !.listed = @ \ N,
              !.timeout = [n \in Nodes |-> IF n \in N THEN 0 ELSE @[n]],
              !.heap = [next |-> [c \in Cells |-> IF c \in N THEN c ELSE @.next[c]],
                        prev |-> [c \in Cells |-> IF c \in N THEN c ELSE @.prev[c]]]]

\* A node that was not allocated yet (o is "none"), or was given to the
\* callback (o is "gone").
NoNode(o) == [fd |-> NULL, op |-> o, removed |-> FALSE, res |-> FALSE]

First(s) == IF s = <<>> THEN NULL ELSE Head(s)
Last(s) == IF s = <<>> THEN NULL ELSE s[Len(s)]

\* An operation of a list uses the cells in C: the space of any other cell is
\* in the tree, which shares it with the list, or belongs to somebody else.
Follows(x, C) ==
    [x EXCEPT !.broken = @ \/ ~(C \subseteq x.listed \cup {TIMEO, NOTIMEO}),
              !.touched = @ \cup C]

\* It takes cell c for part of a node, though it is not in a list.
Stray(x, c) == [x EXCEPT !.broken = TRUE, !.touched = @ \cup {c}]

\* list_add_tail(head->prev, &node->list), as every caller writes it.
AddTail(x, head, n) ==
    LET last == x.heap.prev[head]
        y == Follows(x, IF list_empty(x.heap, last) THEN {last}
                        ELSE {last, x.heap.prev[last]})
    IN  [y EXCEPT !.heap = list_add_tail(x.heap, last, n),
                  !.listed = @ \cup {n},
                  !.touched = @ \cup {n}]

ListDelete(x, n) ==
    LET y == Follows(x, {n, x.heap.prev[n], x.heap.next[n]})
    IN  [y EXCEPT !.heap = list_delete(x.heap, n),
                  !.listed = @ \ {n}]

\* Mutant of TreeInsert: lines 163-164 are missing.
TreeInsertKeepsFirst(x, n) ==
    LET k == Cardinality({i \in DOMAIN x.tree :
                              x.timeout[x.tree[i]] <= x.timeout[n]})
    IN  [x EXCEPT !.tree = SubSeq(@, 1, k) \o <<n>>
                               \o SubSeq(@, k + 1, Len(@)),
                  !.tree_first = IF x.tree = <<>> THEN n ELSE @,
                  !.tree_last = IF k = Len(x.tree) THEN n ELSE @,
                  !.in_rbtree = @ \cup {n},
                  !.touched = @ \cup {n, x.tree_last}]

\* __poller_tree_insert: behind every node whose timeout is not greater.
TreeInsert(x, n) ==
    LET k == Cardinality({i \in DOMAIN x.tree :
                              x.timeout[x.tree[i]] <= x.timeout[n]})
    IN  [x EXCEPT !.tree = SubSeq(@, 1, k) \o <<n>>
                               \o SubSeq(@, k + 1, Len(@)),
                  !.tree_first = IF k = 0 THEN n ELSE @,
                  !.tree_last = IF k = Len(x.tree) THEN n ELSE @,
                  !.in_rbtree = @ \cup {n},
                  !.touched = @ \cup {n, x.tree_last}]

\* rb_erase: the other nodes stay in order.
PlaceOf(s, n) == CHOOSE i \in DOMAIN s : s[i] = n
RbErase(s, n) ==
    LET k == PlaceOf(s, n) IN SubSeq(s, 1, k - 1) \o SubSeq(s, k + 1, Len(s))

\* The neighbours of n in the tree, which is what rb_next and rb_prev find.
RbNext(s, n) == IF n = Last(s) THEN NULL ELSE s[PlaceOf(s, n) + 1]
RbPrev(s, n) == IF n = First(s) THEN NULL ELSE s[PlaceOf(s, n) - 1]

\* __poller_tree_erase.
TreeErase(x, n) ==
    [x EXCEPT !.tree = RbErase(@, n),
              !.tree_first = IF @ = n THEN RbNext(x.tree, n) ELSE @,
              !.tree_last = IF @ = n THEN RbPrev(x.tree, n) ELSE @,
              !.in_rbtree = @ \ {n},
              !.touched = @ \cup {n}]

\* Lines 193-196, and the same lines of del, mod, set_timeout and del_timer.
Unlink(x, n) == IF n \in x.in_rbtree THEN TreeErase(x, n) ELSE ListDelete(x, n)

Arm(x, n) == [x EXCEPT !.timer = x.timeout[n]]

\* __poller_insert_node.
InsertNode(x, n) ==
    LET end == x.heap.prev[TIMEO]
        first == x.heap.next[TIMEO]
    IN
    IF list_empty(x.heap, TIMEO)
    THEN LET y == AddTail(x, TIMEO, n) IN
         IF \/ x.tree_first = NULL
            \/ x.timeout[n] < x.timeout[x.tree_first]
         THEN Arm(y, n) ELSE y
    ELSE IF end \notin x.listed THEN Stray(x, end)
    ELSE IF x.timeout[n] >= x.timeout[end]
    THEN AddTail(x, TIMEO, n)
    ELSE LET y == TreeInsert(x, n) IN
         IF y.tree_first # n THEN y
         ELSE IF first \notin x.listed THEN Stray(y, first)
         ELSE IF x.timeout[n] < x.timeout[first] THEN Arm(y, n)
         ELSE y

\* The node is entered with a timeout, or in the list of nodes without one.
Link(x, n, t) ==
    IF t >= 0 THEN InsertNode([x EXCEPT !.timeout[n] = now + t], n)
              ELSE AddTail([x EXCEPT !.timeout[n] = 0], NOTIMEO, n)

\* epoll holds node n for the descriptor from now on, NULL for none.
Watch(f, n) == epoll' = [epoll EXCEPT ![f] = n]


-----------------------------------------------------------------------------
(* Calls of other threads.  The poller thread holds the mutex between two  *)
(* actions only while it takes expired nodes out of the tree.              *)

Unlocked == pc # "expire_tree"

Unused == {n \in Nodes : node[n].op = "none"}

\* __poller_new_node: lines 877-889.  A read carries a message in progress or
\* none, which decides whether it has a result object.
NewNode(f, o, message) ==
    [fd |-> f, op |-> o, removed |-> FALSE,
     res |-> o \in {"listen", "recvfrom", "event"} \/ (o = "read" /\ message)]

poller_add(f, o, message, t) ==
    /\ Unlocked
    /\ Unused # {}
    /\ nodes[f] = NULL
    /\ LET n == CHOOSE u \in Unused : TRUE IN
       /\ node' = [node EXCEPT ![n] = NewNode(f, o, message)]
       /\ nodes' = [nodes EXCEPT ![f] = n]
       /\ Watch(f, n)
       /\ Commit(Link(index, n, t), {})
    /\ UNCHANGED <<pipe, stopped, thread, stopping, cb, env>>

\* Mutant of HandOver: lines 954 and 993 are missing.
HandOverUnmarked(n, x, N) ==
    \/ /\ stopped
       /\ cb' = [cb EXCEPT ![n] = @ + 1]
       /\ node' = [N EXCEPT ![n] = NoNode("gone")]
       /\ Commit(Forget(x, {n}), {n})
       /\ UNCHANGED pipe
    \/ /\ ~stopped
       /\ pipe' = Append(pipe, n)
       /\ node' = N
       /\ Commit(x, {n})
       /\ UNCHANGED cb

\* Node n was taken out of the table: before start and after stop the caller
\* gives it to the callback, otherwise it goes through the pipe.  x is the
\* index and N the fields of the nodes, apart from what happens to n.
HandOver(n, x, N) ==
    \/ /\ stopped
       /\ cb' = [cb EXCEPT ![n] = @ + 1]
       /\ node' = [N EXCEPT ![n] = NoNode("gone")]
       /\ Commit(Forget(x, {n}), {n})
       /\ UNCHANGED pipe
    \/ /\ ~stopped
       /\ pipe' = Append(pipe, n)
       /\ node' = [N EXCEPT ![n].removed = TRUE]
       /\ Commit(x, {n})
       /\ UNCHANGED cb

\* Mutant of poller_del: line 948 is missing.
DelKeepsEpoll(f) ==
    /\ Unlocked
    /\ nodes[f] # NULL
    /\ LET n == nodes[f] IN
       /\ nodes' = [nodes EXCEPT ![f] = NULL]
       /\ HandOver(n, Unlink(index, n), node)
    /\ UNCHANGED <<epoll, stopped, thread, stopping, env>>

poller_del(f) ==
    /\ Unlocked
    /\ nodes[f] # NULL
    /\ LET n == nodes[f] IN
       /\ nodes' = [nodes EXCEPT ![f] = NULL]
       /\ Watch(f, NULL)
       /\ HandOver(n, Unlink(index, n), node)
    /\ UNCHANGED <<stopped, thread, stopping, env>>

poller_mod(f, o, message, t) ==
    /\ Unlocked
    /\ Unused # {}
    /\ nodes[f] # NULL
    /\ LET orig == nodes[f]
           n == CHOOSE u \in Unused : TRUE
           x == Unlink(index, orig)
       IN  /\ nodes' = [nodes EXCEPT ![f] = n]
           /\ Watch(f, n)
           /\ HandOver(orig, Link(x, n, t),
                       [node EXCEPT ![n] = NewNode(f, o, message)])
    /\ UNCHANGED <<stopped, thread, stopping, env>>

poller_set_timeout(f, t) ==
    /\ Unlocked
    /\ nodes[f] # NULL
    /\ Commit(Link(Unlink(index, nodes[f]), nodes[f], t), {})
    /\ UNCHANGED <<table, node, pipe, stopped, thread, stopping, cb, env>>

\* A timer is a node without a descriptor.
poller_add_timer(t) ==
    /\ Unlocked
    /\ Unused # {}
    /\ LET n == CHOOSE u \in Unused : TRUE IN
       /\ node' = [node EXCEPT ![n] = NewNode(NULL, "timer", FALSE)]
       /\ Commit(Link(index, n, t), {})
    /\ UNCHANGED <<table, pipe, stopped, thread, stopping, cb, env>>

poller_del_timer(n) ==
    /\ Unlocked
    /\ node[n].op = "timer" /\ ~node[n].removed
    /\ node' = [node EXCEPT ![n] = NoNode("gone")]
    /\ cb' = [cb EXCEPT ![n] = @ + 1]
    /\ Commit(Forget(Unlink(index, n), {n}), {n})
    /\ UNCHANGED <<table, pipe, stopped, thread, stopping, env>>

poller_start ==
    /\ pc = "off"
    /\ pc' = "timer"
    /\ stopped' = FALSE
    /\ UNCHANGED <<table, node, index, pipe, batch, has_pipe, cur, seen, time,
                   stopping, cb, env, bad>>

\* Line 1123.
poller_stop ==
    /\ CanStop
    /\ pc # "off" /\ stopping = "no"
    /\ stopping' = "join"
    /\ pipe' = Append(pipe, NULL)
    /\ UNCHANGED <<table, node, index, stopped, thread, cb, env, bad>>

\* Lines 1124-1125, without the mutex.
poller_stop_join ==
    /\ stopping = "join" /\ pc = "exited"
    /\ stopping' = "drain"
    /\ stopped' = TRUE
    /\ UNCHANGED <<table, node, index, pipe, thread, cb, env, bad>>

-----------------------------------------------------------------------------
(* The poller thread *)

\* The nodes in the pipe are given to the callback, one after the other.
CallBackPipe ==
    LET N == {pipe[i] : i \in DOMAIN pipe} \ {NULL} IN
    /\ cb' = [n \in Nodes |-> IF n \in N THEN cb[n] + 1 ELSE cb[n]]
    /\ node' = [n \in Nodes |-> IF n \in N THEN NoNode("gone") ELSE node[n]]
    /\ Commit(Forget(index, N), N)
    /\ pipe' = <<>>

\* Mutant of poller_stop_drain: line 1130, which empties the pipe, is missing.
DrainKeepsPipe ==
    /\ stopping = "drain"
    /\ stopping' = "done"
    /\ pc' = "undefined"
    /\ UNCHANGED <<table, node, index, pipe, stopped, batch, has_pipe, cur, seen,
                   time, cb, env, bad>>

\* Lines 1128-1153.  The pipe is emptied.  Then list_add_list chains the cells
\* of the two lists themselves into node_list, and the walk that follows takes
\* the cell of no_timeo_list for part of a node: the program is undefined.
poller_stop_drain ==
    /\ stopping = "drain"
    /\ stopping' = "done"
    /\ CallBackPipe
    /\ pc' = "undefined"
    /\ UNCHANGED <<table, stopped, batch, has_pipe, cur, seen, time, env>>

\* Lines 600-616: the timer is set to the first timeout, or disarmed.
SetTimer(x) ==
    LET first == x.heap.next[TIMEO] IN
    IF first # TIMEO /\ first \notin x.listed THEN Stray(x, first)
    ELSE
    IF /\ ~list_empty(x.heap, TIMEO)
       /\ \/ x.tree_first = NULL
          \/ x.timeout[x.tree_first] >= x.timeout[first]
    THEN Arm(x, first)
    ELSE IF x.tree_first # NULL THEN Arm(x, x.tree_first)
    ELSE [x EXCEPT !.timer = 0]

poller_set_timer ==
    /\ pc = "timer"
    /\ pc' = "wait"
    /\ Commit(SetTimer(index), {index.heap.next[TIMEO], index.tree_first})
    /\ UNCHANGED <<table, node, pipe, stopped, batch, has_pipe, cur, seen,
                   time, stopping, cb, env>>

\* epoll_wait returns some of the registered nodes that are ready, the pipe
\* when something is in it, and the timer when it is due.
poller_wait ==
    /\ pc = "wait"
    /\ \E S \in SUBSET ({epoll[f] : f \in Fds} \ {NULL}) :
          /\ \/ S # {}
             \/ pipe # <<>>
             \/ index.timer # 0 /\ index.timer <= now
          /\ batch' = S
    /\ has_pipe' = (pipe # <<>>)
    /\ time' = now
    /\ pc' = "events"
    /\ UNCHANGED <<table, node, index, pipe, stopped, cur, seen, stopping, cb,
                   env, bad>>

\* Lines 635-643: the next event.
poller_event(n) ==
    /\ pc = "events" /\ n \in batch
    /\ batch' = batch \ {n}
    /\ cur' = n
    /\ pc' = "handle"
    /\ Touches({n})
    /\ UNCHANGED <<table, node, pipe, stopped, has_pipe, seen, time, stopping,
                   cb, env>>

\* Line 668: the pipe waits until every event of the batch was handled.
AfterEvents == pc = "events" /\ batch = {}

\* Lines 668-673.
poller_events_done ==
    /\ AfterEvents
    /\ pc' = IF has_pipe THEN "pipe" ELSE "expire"
    /\ has_pipe' = FALSE
    /\ UNCHANGED <<table, node, index, pipe, stopped, batch, cur, seen, time,
                   stopping, cb, env, bad>>

Handling(o) == pc = "handle" /\ node[cur].op = o

\* The handler returns, or goes on to remove the node, or loops.
Goto(s) ==
    /\ pc' = s
    /\ cur' = IF s = "events" THEN NULL ELSE cur
    /\ Touches({cur})
    /\ UNCHANGED <<table, pipe, stopped, batch, has_pipe, seen, time, stopping,
                   cb, now>>

\* An item arrives on the descriptor; the node's res becomes r.
Arrives(r) ==
    /\ input > 0
    /\ input' = input - 1
    /\ node' = [node EXCEPT ![cur].res = r]

\* Nothing to read for now; end of file or an error; part of a message, a
\* whole one, which is given to the callback in res, or one that is refused.
poller_handle_read ==
    /\ Handling("read")
    /\ \/ Goto("events") /\ UNCHANGED <<node, input>>
       \/ Goto("remove") /\ UNCHANGED <<node, input>>
       \/ \E r \in BOOLEAN : Goto("handle") /\ Arrives(r)
       \/ Goto("remove") /\ Arrives(node[cur].res)

\* Nothing could be written, or partial_written agrees to wait; everything is
\* written, or there was an error.
poller_handle_write ==
    /\ Handling("write")
    /\ Goto("events") \/ Goto("remove")
    /\ UNCHANGED <<node, input>>

\* accept, recvfrom and event produce one result after the other, each in the
\* node's res, which must be there, and a new res is allocated.
Produce ==
    \/ Goto("events") /\ UNCHANGED <<node, input>>
    \/ Goto("remove") /\ UNCHANGED <<node, input>>
    \/ Goto("handle") /\ Arrives(TRUE)
    \/ Goto("remove") /\ Arrives(FALSE)

poller_handle_listen == Handling("listen") /\ Produce
poller_handle_recvfrom == Handling("recvfrom") /\ Produce
poller_handle_event == Handling("event") /\ Produce

poller_handle_connect ==
    /\ Handling("connect")
    /\ Goto("remove")
    /\ UNCHANGED <<node, input>>

\* Line 187, before the mutex is taken.
poller_remove_read ==
    /\ pc = "remove"
    /\ seen' = node[cur].removed
    /\ pc' = "remove_lock"
    /\ Touches({cur})
    /\ UNCHANGED <<table, node, pipe, stopped, batch, has_pipe, cur, time,
                   stopping, cb, env>>

\* Lines 188-200, and what every handler does with the answer: the node is
\* given to the callback unless it was removed before line 187.  When it was
\* removed after that line, it is unlinked and given away a second time.
poller_remove_node ==
    /\ pc = "remove_lock"
    /\ \/ /\ seen
          /\ pc' = "events"
          /\ UNCHANGED <<table, node, index, cb, bad>>
       \/ /\ ~seen /\ node[cur].removed
          /\ pc' = "undefined"
          /\ UNCHANGED <<table, node, index, cb, bad>>
       \/ /\ ~seen /\ ~node[cur].removed
          /\ pc' = "events"
          /\ nodes' = [nodes EXCEPT ![node[cur].fd] = NULL]
          /\ Watch(node[cur].fd, NULL)
          /\ node' = [node EXCEPT ![cur] = NoNode("gone")]
          /\ cb' = [cb EXCEPT ![cur] = @ + 1]
          /\ Commit(Forget(Unlink(index, cur), {cur}), {cur})
    /\ cur' = NULL /\ seen' = FALSE
    /\ UNCHANGED <<pipe, stopped, batch, has_pipe, time, stopping, env>>

\* Lines 517-526 and 669-670: the stop mark ends the thread after the rest of
\* what was read.
poller_handle_pipe ==
    /\ pc = "pipe"
    /\ CallBackPipe
    /\ pc' = IF \E i \in DOMAIN pipe : pipe[i] = NULL THEN "exited" ELSE "expire"
    /\ UNCHANGED <<table, stopped, batch, has_pipe, cur, seen, time, stopping,
                   env>>

\* Lines 535-554.  An expired node of timeo_list is added to the local list
\* while it is still in its own: its next is then the local cell, which the
\* loop takes for part of a node.
poller_handle_timeout ==
    /\ pc = "expire"
    /\ LET first == index.heap.next[TIMEO]
           expired == /\ first # TIMEO
                      /\ first \in index.listed => index.timeout[first] <= time
       IN
       \/ /\ expired
          /\ pc' = "undefined"
          /\ Touches({first})
       \/ /\ ~expired
          /\ pc' = "expire_tree"
          /\ Commit([index EXCEPT !.heap = list_init(@, STACK)], {first})
    /\ UNCHANGED <<table, node, pipe, stopped, batch, has_pipe, cur, seen,
                   time, stopping, cb, env>>

\* Lines 569-574: the first node of the tree goes to the local list.  Its
\* in_rbtree is not reset.  list_add_tail puts the second node in front of the
\* first, and every later one in the place of the one in front.
TakeExpired(x) ==
    LET n == x.tree_first
        last == x.heap.prev[STACK]
        front == x.heap.next[STACK]
    IN  [x EXCEPT !.tree_first = RbNext(x.tree, n),
                  !.tree_last = IF RbNext(x.tree, n) = NULL THEN NULL ELSE @,
                  !.tree = RbErase(@, n),
                  !.heap = list_add_tail(@, last, n),
                  !.dropped = IF front # last THEN @ \cup {front} ELSE @,
                  !.touched = @ \cup {n, last}]

\* Mutant of poller_handle_timeout_tree: line 565 is missing.
ExpireKeepsNode ==
    /\ pc = "expire_tree"
    /\ LET n == index.tree_first IN
       /\ n # NULL /\ index.timeout[n] <= time
       /\ \/ /\ node[n].fd # NULL
             /\ Watch(node[n].fd, NULL)
             /\ UNCHANGED <<nodes, node>>
          \/ /\ node[n].fd = NULL
             /\ node' = [node EXCEPT ![n].removed = TRUE]
             /\ UNCHANGED table
       /\ Commit(TakeExpired(index), {n})
    /\ UNCHANGED <<pipe, stopped, thread, stopping, cb, env>>

\* Lines 556-575, still with the mutex, one node of the tree.
poller_handle_timeout_tree ==
    /\ pc = "expire_tree"
    /\ LET n == index.tree_first IN
       /\ n # NULL /\ index.timeout[n] <= time
       /\ \/ /\ node[n].fd # NULL
             /\ nodes' = [nodes EXCEPT ![node[n].fd] = NULL]
             /\ Watch(node[n].fd, NULL)
             /\ UNCHANGED node
          \/ /\ node[n].fd = NULL
             /\ node' = [node EXCEPT ![n].removed = TRUE]
             /\ UNCHANGED table
       /\ Commit(TakeExpired(index), {n})
    /\ UNCHANGED <<pipe, stopped, thread, stopping, cb, env>>

\* Lines 576-577.
poller_handle_timeout_unlock ==
    /\ pc = "expire_tree"
    /\ index.tree_first # NULL => index.timeout[index.tree_first] > time
    /\ pc' = "deliver"
    /\ cur' = index.heap.next[STACK]
    /\ time' = 0
    /\ UNCHANGED <<table, node, index, pipe, stopped, batch, has_pipe, seen,
                   stopping, cb, env, bad>>

\* Lines 578-590.  next is read after the callback, which may have used the
\* space of the list fields (poller.h, line 58), and has in the communicator:
\* msgqueue_put writes its link there.
poller_handle_timeout_deliver ==
    /\ pc = "deliver"
    /\ \/ /\ cur = STACK
          /\ pc' = "timer" /\ cur' = NULL
          /\ Commit([index EXCEPT !.heap = list_init(@, STACK)], {})
          /\ UNCHANGED <<node, cb>>
       \/ /\ cur # STACK
          /\ node' = [node EXCEPT ![cur] = NoNode("gone")]
          /\ cb' = [cb EXCEPT ![cur] = @ + 1]
          /\ index' = Forget(index, {cur})
          /\ bad' = TRUE
          /\ \/ cur' = index.heap.next[cur] /\ UNCHANGED pc
             \/ pc' = "undefined" /\ UNCHANGED cur
    /\ UNCHANGED <<table, pipe, stopped, batch, has_pipe, seen, time, stopping,
                   env>>

-----------------------------------------------------------------------------
\* __poller_create.
Init ==
    /\ nodes = [f \in Fds |-> NULL]
    /\ epoll = [f \in Fds |-> NULL]
    /\ node = [n \in Nodes |-> NoNode("none")]
    /\ index = [heap |-> [next |-> [c \in Cells |-> c],
                          prev |-> [c \in Cells |-> c]],
                tree |-> <<>>, tree_first |-> NULL, tree_last |-> NULL,
                in_rbtree |-> {}, timeout |-> [n \in Nodes |-> 0],
                timer |-> 0, listed |-> {}, dropped |-> {}, touched |-> {},
                broken |-> FALSE]
    /\ pipe = <<>>
    /\ stopped = TRUE
    /\ pc = "off"
    /\ batch = {} /\ has_pipe = FALSE /\ cur = NULL /\ seen = FALSE /\ time = 0
    /\ stopping = "no"
    /\ cb = [n \in Nodes |-> 0]
    /\ now = 1
    /\ input = MaxInput
    /\ bad = FALSE

Tick ==
    /\ now < MaxTime
    /\ now' = now + 1
    /\ UNCHANGED <<table, node, index, pipe, stopped, thread, stopping, cb,
                   input, bad>>

\* Other threads.
Call ==
    \/ \E f \in Fds : \E o \in Ops[f], t \in Timeouts[f] :
          \E message \in IF o = "read" THEN BOOLEAN ELSE {FALSE} :
             poller_add(f, o, message, t) \/ poller_mod(f, o, message, t)
    \/ \E f \in Fds : poller_del(f)
    \/ \E f \in Fds : \E t \in Timeouts[f] : poller_set_timeout(f, t)
    \/ \E t \in Timeouts[NULL] : poller_add_timer(t)
    \/ \E n \in Nodes : poller_del_timer(n)
    \/ poller_start
    \/ poller_stop

\* The rest of poller_stop.
Stopping == poller_stop_join \/ poller_stop_drain

\* The poller thread.
Thread ==
    \/ poller_set_timer
    \/ poller_wait
    \/ \E n \in Nodes : poller_event(n)
    \/ poller_events_done
    \/ poller_handle_read
    \/ poller_handle_write
    \/ poller_handle_listen
    \/ poller_handle_recvfrom
    \/ poller_handle_event
    \/ poller_handle_connect
    \/ poller_remove_read
    \/ poller_remove_node
    \/ poller_handle_pipe
    \/ poller_handle_timeout
    \/ poller_handle_timeout_tree
    \/ poller_handle_timeout_unlock
    \/ poller_handle_timeout_deliver

\* The program has not become undefined.
Defined == pc # "undefined" /\ ~index.broken

Next == Defined /\ (Call \/ Stopping \/ Thread \/ Tick)

Spec == Init /\ [][Next]_vars

\* The poller thread and the thread in poller_stop are scheduled.
FairSpec == Spec /\ WF_vars(Defined /\ Thread) /\ WF_vars(Defined /\ Stopping)

-----------------------------------------------------------------------------
(* Properties *)

TypeOK ==
    /\ nodes \in [Fds -> Nodes \cup {NULL}]
    /\ epoll \in [Fds -> Nodes \cup {NULL}]
    /\ node \in [Nodes ->
          [fd : Fds \cup {NULL}, op : Operations \cup {"none", "timer", "gone"},
           removed : BOOLEAN, res : BOOLEAN]]
    /\ index.heap.next \in [Cells -> Cells]
    /\ index.heap.prev \in [Cells -> Cells]
    /\ index.tree \in Seq(Nodes)
    /\ index.tree_first \in Nodes \cup {NULL}
    /\ index.tree_last \in Nodes \cup {NULL}
    /\ index.in_rbtree \in SUBSET Nodes
    /\ index.timeout \in [Nodes -> Nat]
    /\ index.timer \in Nat
    /\ index.listed \in SUBSET Nodes
    /\ index.dropped \in SUBSET Nodes
    /\ index.touched = {} /\ index.broken \in BOOLEAN
    /\ pipe \in Seq(Nodes \cup {NULL})
    /\ stopped \in BOOLEAN /\ has_pipe \in BOOLEAN /\ seen \in BOOLEAN
    /\ pc \in {"off", "timer", "wait", "events", "handle", "remove",
               "remove_lock", "pipe", "expire", "expire_tree", "deliver",
               "exited", "undefined"}
    /\ batch \in SUBSET Nodes
    /\ cur \in Cells \cup {NULL}
    /\ time \in Nat /\ now \in Nat /\ input \in Nat
    /\ stopping \in {"no", "join", "drain", "done"}
    /\ cb \in [Nodes -> Nat]
    /\ bad \in BOOLEAN

\* epoll reports exactly the nodes of the table: a descriptor that is in the
\* table is watched with its current node, and any other is not watched.
TableMatchesEpoll == \A f \in Fds : epoll[f] = nodes[f]

\* The poller waits for n: it is in the table, or is a timer that neither
\* expired nor was deleted.
Watched(n) ==
    \/ node[n].fd # NULL /\ nodes[node[n].fd] = n
    \/ node[n].op = "timer" /\ ~node[n].removed

\* The local list of expired nodes, from cell c on: the least set that has c
\* and the next of each of its nodes.
Behind(c) ==
    {d \in Cells : \A S \in SUBSET Cells :
        (c \in S /\ \A e \in S \ Heads : index.heap.next[e] \in S) => d \in S}

Expired ==
    CASE pc = "expire_tree" -> Behind(index.heap.next[STACK]) \ Heads
      [] pc = "deliver"     -> Behind(cur) \ Heads
      [] OTHER              -> {}

\* Nothing is reported twice: a node is watched, or waits in the pipe, or was
\* given to the callback once, and never two of these.  And nothing is lost but
\* what the list of expired nodes drops: until the program is undefined, a node
\* is in one of these places, or among the expired ones about to be reported,
\* or was dropped from these.
Places(n) ==
    cb[n] + (IF Watched(n) THEN 1 ELSE 0)
          + Cardinality({i \in DOMAIN pipe : pipe[i] = n})
OnePlace ==
    \A n \in Nodes \ Unused :
        /\ Places(n) <= 1
        /\ Defined => Places(n) + (IF n \in Expired THEN 1 ELSE 0)
                                + (IF n \in index.dropped THEN 1 ELSE 0) = 1

\* The comment of line 189, "if it is not deleted yet": a node that the thread
\* takes out of the poller has not been taken out by somebody else.
NotRemovedTwice == pc = "remove_lock" /\ ~seen => ~node[cur].removed

\* The list of expired nodes drops none.
NoneDropped == index.dropped = {}

\* The poller never uses a node that was given to the callback (poller.h, line
\* 58: the callback may use its space): not one that is still in the batch of
\* events, not as a neighbour in a list, not twice from the pipe.
NoTouchAfterCallback == ~bad

\* The comments of lines 605 and 615: the least timeout of the list and of the
\* tree goes to the timerfd, so that while the thread waits the timer is set
\* no later than the timeout of any watched node.
TimerNotLate ==
    pc = "wait" => \A n \in Nodes \ Unused :
        Watched(n) /\ index.timeout[n] # 0
            => index.timer # 0 /\ index.timer <= index.timeout[n]

\* Until the program is undefined the tree is in order, its ends are where
\* tree_first and tree_last say, and a watched node is in the tree exactly
\* when in_rbtree is set (comment of line 192), whatever became of the lists.
TreeCoherent ==
    Defined =>
    /\ \A i, j \in DOMAIN index.tree : i < j =>
          index.timeout[index.tree[i]] <= index.timeout[index.tree[j]]
    /\ index.tree_first = First(index.tree)
    /\ index.tree_last = Last(index.tree)
    /\ \A n \in Nodes : Watched(n) =>
          (n \in index.in_rbtree <=> \E i \in DOMAIN index.tree : index.tree[i] = n)

\* What del or mod put in the pipe reaches the callback, also when it is put
\* there while poller_stop ends the thread, unless the program is undefined
\* before it gets there.
DeletedDelivered ==
    \A n \in Nodes : (\E i \in DOMAIN pipe : pipe[i] = n)
        ~> (cb[n] > 0 \/ (~Defined /\ stopping # "done"))
=============================================================================
