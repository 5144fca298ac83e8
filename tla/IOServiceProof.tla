--------------------------- MODULE IOServiceProof ---------------------------
(***************************************************************************)
(* Proofs about the asynchronous I/O service, for any number of sessions   *)
(* and of handler threads.                                                 *)
(*                                                                         *)
(* Two arguments carry them.  ref counts one for the service itself and    *)
(* one for each completion between aio_finish and its decref; the one for  *)
(* the service is given up once, along the only way that the node of       *)
(* event_fd takes from the poller to shutdown_io_service.  And while one   *)
(* session at a time is outstanding, a session that was submitted and is   *)
(* not yet unlisted is THE session of session_list, or the one whose       *)
(* request still holds the mutex.  With two of them outstanding, when      *)
(* list_add_tail breaks the list, nothing is said of it: only that each    *)
(* session is in one place.                                                *)
(***************************************************************************)
EXTENDS IOService, FiniteSetTheorems, SequenceTheorems, TLAPS

-----------------------------------------------------------------------------
(* The inductive invariant.                                                *)

Ends == {"DELETED", "ERROR"}
EventNode == Event(event_fd, "event")

\* What the queue and the pipe hold: completions, and how the node ended.
Results ==
    {r \in [fd : {event_fd}, op : {"event"}, state : Ends \cup {"SUCCESS"},
            msg : Sessions \cup {NONE}] : r.state = "SUCCESS" <=> r.msg # NONE}

Stages == {"off", "get", "unlist", "handle", "stop", "shutdown", "decref",
           "drain", "unbound"}

PollType ==
    /\ poll = [table |-> poll.table, pipe |-> poll.pipe, batch |-> poll.batch,
               has_pipe |-> poll.has_pipe, queue |-> poll.queue]
    /\ poll.table \in [{event_fd} -> {"none", "event"}]
    /\ poll.pipe \in [{0} -> {<<>>, <<Result(event_fd, "event", "DELETED", NONE)>>}]
    /\ poll.batch \in [{0} -> {{}, {EventNode}}]
    /\ poll.has_pipe \in [{0} -> BOOLEAN]
    /\ poll.queue \in Seq(Results)

Heaps == [next : [Cells -> Cells], prev : [Cells -> Cells]]

IOTypes ==
    /\ PollType
    /\ at \in [pc : {"wait", "finish"}, cnt : Nat]
    /\ service \in [ref : Int, open : BOOLEAN, unbound : Nat]
    /\ heap \in Heaps
    /\ mutex \in Sessions \cup {NONE}
    /\ kernel \in [busy : SUBSET Sessions, done : SUBSET Sessions]
    /\ count \in Nat
    /\ user \in [Sessions -> {"none", "submitted", "accepted", "refused"}]
    /\ handled \in [Sessions -> Nat]
    /\ worker \in [Workers -> [pc : Stages, s : Sessions \cup {NONE}]]
    /\ bad \in BOOLEAN
    /\ crowded \in BOOLEAN

\* What a queue of results holds: the completion of s, an end of the node among
\* S; and one completion of each session and one end at most.
CompletionIn(q, s) == \E i \in DOMAIN q : q[i].state = "SUCCESS" /\ q[i].msg = s
EndIn(q, S) == \E i \in DOMAIN q : q[i].state \in S
Short(q) == \A i, j \in DOMAIN q : q[i].msg = q[j].msg => i = j

QueueShort == Short(poll.queue)

\* Where a session that was submitted may be.
InKernel(s) == s \in kernel.busy \/ s \in kernel.done
InQueue(s) == CompletionIn(poll.queue, s)
With(s, pcs) == \E w \in Workers : worker[w].pc \in pcs /\ worker[w].s = s

\* It is not unlisted yet.
Live(s) == InKernel(s) \/ InQueue(s) \/ With(s, {"unlist"})

\* It holds a reference.
Holding == {"unlist", "handle", "decref"}
Holders == {s \in Sessions : InQueue(s) \/ With(s, Holding)}

\* session_list has no entry, or one.
ListShape ==
    \/ heap.next[HEAD] = HEAD /\ heap.prev[HEAD] = HEAD
    \/ \E s \in Sessions :
          /\ heap.next[HEAD] = s /\ heap.prev[HEAD] = s
          /\ heap.next[s] = HEAD /\ heap.prev[s] = HEAD

\* Which sessions are live, as long as there is one at a time.
OneListed ==
    /\ ListShape
    /\ mutex # NONE => ListEmpty
    /\ \A s \in Sessions : Live(s) <=> (mutex = s \/ heap.next[HEAD] = s)

LiveIsListed ==
    /\ mutex # NONE => service.open
    /\ ~crowded => OneListed

\* Where each session is, in one place at a time, and whether it was handled.
OneStage ==
    /\ \A s \in Sessions :
          /\ user[s] = "submitted" <=> mutex = s
          /\ mutex = s => Live(s)
          /\ user[s] \in {"none", "refused"} =>
                handled[s] = 0 /\ ~Live(s) /\ ~With(s, Holding)
          /\ ~(s \in kernel.busy /\ s \in kernel.done)
          /\ InKernel(s) => ~InQueue(s)
          /\ Live(s) => handled[s] = 0 /\ ~With(s, {"handle", "decref"})
          /\ InKernel(s) \/ InQueue(s) => ~With(s, {"unlist"})
          /\ With(s, {"handle"}) => handled[s] = 0
          /\ With(s, {"decref"}) => handled[s] = 1
          /\ user[s] = "accepted" =>
                Live(s) \/ With(s, {"handle"}) \/ handled[s] = 1
    /\ \A v, w \in Workers :
          /\ worker[v].pc \in Holding /\ worker[w].pc \in Holding
          /\ worker[v].s # NONE /\ worker[v].s = worker[w].s
          => v = w
    /\ \A w \in Workers :
          /\ worker[w].pc \in {"unlist", "handle"} => worker[w].s # NONE
          /\ worker[w].pc \in {"off", "stop", "shutdown"} => worker[w].s = NONE

\* Where the node of event_fd and the service's own reference are.
NodeQueued(S) == EndIn(poll.queue, S)
OwnReference(w) == worker[w] = [pc |-> "decref", s |-> NONE]
Ending(w) == worker[w].pc = "shutdown" \/ OwnReference(w)

\* No thread is in shutdown_io_service, or after it with the reference.
NotEnded == \A w \in Workers : ~Ending(w)

\* The poller thread is done with the node.
Quiet ==
    /\ at.pc = "wait" /\ poll.batch[0] = {} /\ poll.pipe[0] = <<>>
    /\ poll.table[event_fd] = "none"

NodeAdded ==
    /\ poll.table[event_fd] = "event"
    /\ poll.pipe[0] = <<>> /\ ~NodeQueued(Ends) /\ NotEnded
    /\ worker[Main].pc = "off" /\ service.open

NodeDeleted ==
    /\ poll.table[event_fd] = "none" /\ ~NodeQueued({"ERROR"})
    /\ worker[Main].pc = "unbound" /\ service.open
    /\ \/ poll.pipe[0] # <<>> /\ ~NodeQueued(Ends) /\ NotEnded
       \/ Quiet /\ NodeQueued({"DELETED"}) /\ NotEnded
       \/ /\ Quiet /\ ~NodeQueued(Ends)
          /\ \E w \in Handlers : /\ worker[w].pc = "shutdown"
                                 /\ \A v \in Workers : Ending(v) => v = w

\* event_fd has failed: whether somebody was told does not matter.
NodeFailed ==
    /\ Quiet /\ ~NodeQueued({"DELETED"})
    /\ service.open
    /\ \/ worker[Main].pc = "off" /\ NotEnded
       \/ /\ worker[Main].pc = "shutdown"
          /\ \A v \in Workers : Ending(v) => v = Main

ServiceClosed ==
    /\ Quiet /\ ~NodeQueued({"DELETED"})
    /\ ~service.open
    /\ worker[Main].pc # "off"
    /\ \A w \in Workers : Ending(w) => OwnReference(w)
    /\ \A v, w \in Workers : Ending(v) /\ Ending(w) => v = w

NodePath ==
    /\ NodeAdded \/ NodeDeleted \/ NodeFailed \/ ServiceClosed
    /\ worker[Main].pc # "get"
    /\ \A w \in Handlers : worker[w].pc \notin {"off", "unbound"}

\* Whether the service still has its own reference.
Own == IF service.open \/ \E w \in Workers : OwnReference(w) THEN 1 ELSE 0

Draining(w) == worker[w].pc = "drain"

RefCounts ==
    /\ IsFiniteSet(Holders)
    /\ service.ref = Own + Cardinality(Holders)
    /\ service.ref = 0 <=> service.unbound = 1 \/ \E w \in Workers : Draining(w)
    /\ \A v, w \in Workers : Draining(v) /\ Draining(w) => v = w
    /\ service.unbound \in {0, 1}
    /\ service.unbound = 1 => (crowded \/ ListEmpty) /\ \A w \in Workers : ~Draining(w)

IOInv ==
    /\ IOTypes /\ QueueShort /\ LiveIsListed /\ OneStage /\ NodePath /\ RefCounts
    /\ ~bad
-----------------------------------------------------------------------------
(* The queue of results.                                                   *)

\* A result that is appended.
LEMMA QueueAppend ==
    ASSUME NEW q \in Seq(Results), NEW r \in Results
    PROVE  /\ Append(q, r) \in Seq(Results)
           /\ Append(q, r) # <<>>
           /\ \A s \in Sessions : CompletionIn(Append(q, r), s)
                  <=> CompletionIn(q, s) \/ (r.state = "SUCCESS" /\ r.msg = s)
           /\ \A S \in SUBSET Ends : EndIn(Append(q, r), S)
                  <=> EndIn(q, S) \/ r.state \in S
           /\ /\ Short(q)
              /\ r.state = "SUCCESS" => ~CompletionIn(q, r.msg)
              /\ r.state # "SUCCESS" => ~EndIn(q, Ends)
              => Short(Append(q, r))
<1> DEFINE p == Append(q, r)
<1>1. /\ p \in Seq(Results) /\ p # <<>> /\ Len(q) \in Nat
      /\ DOMAIN q = 1 .. Len(q) /\ DOMAIN p = 1 .. Len(q) + 1
      /\ \A i \in DOMAIN q : p[i] = q[i] /\ q[i] \in Results
      /\ p[Len(q) + 1] = r
  BY AppendProperties, LenProperties, ElementOfSeq
<1> HIDE DEF p
<1>2. \A i \in DOMAIN p : i \in DOMAIN q \/ i = Len(q) + 1
  BY <1>1
<1>3. Len(q) + 1 \in DOMAIN p /\ \A i \in DOMAIN q : i \in DOMAIN p
  BY <1>1
<1>4. \A s \in Sessions : CompletionIn(p, s)
                  <=> CompletionIn(q, s) \/ (r.state = "SUCCESS" /\ r.msg = s)
  BY <1>1, <1>2, <1>3 DEF CompletionIn
<1>5. \A S \in SUBSET Ends : EndIn(p, S) <=> EndIn(q, S) \/ r.state \in S
  BY <1>1, <1>2, <1>3 DEF EndIn
<1>6. ASSUME Short(q),
             r.state = "SUCCESS" => ~CompletionIn(q, r.msg),
             r.state # "SUCCESS" => ~EndIn(q, Ends)
      PROVE  Short(p)
  <2>1. \A i \in DOMAIN q : q[i].msg # r.msg
    BY <1>1, <1>6 DEF Results, CompletionIn, EndIn
  <2> QED BY <1>1, <1>2, <1>6, <2>1 DEF Short
<1> QED BY <1>1, <1>4, <1>5, <1>6 DEF p

\* The first result is taken.
LEMMA QueueTail ==
    ASSUME NEW q \in Seq(Results), q # <<>>, Short(q)
    PROVE  /\ Head(q) \in Results
           /\ Tail(q) \in Seq(Results)
           /\ Short(Tail(q))
           /\ \A s \in Sessions : CompletionIn(q, s)
                  <=> CompletionIn(Tail(q), s) \/ (Head(q).state = "SUCCESS" /\ Head(q).msg = s)
           /\ \A S \in SUBSET Ends : EndIn(q, S)
                  <=> EndIn(Tail(q), S) \/ Head(q).state \in S
           /\ Head(q).state = "SUCCESS" => ~CompletionIn(Tail(q), Head(q).msg)
           /\ Head(q).state # "SUCCESS" => ~EndIn(Tail(q), Ends)
<1> DEFINE p == Tail(q)
           r == Head(q)
<1>1. /\ p \in Seq(Results) /\ r \in Results /\ Len(q) \in Nat /\ Len(q) > 0
      /\ DOMAIN q = 1 .. Len(q) /\ DOMAIN p = 1 .. Len(q) - 1
      /\ \A i \in DOMAIN p : p[i] = q[i + 1] /\ p[i] \in Results
      /\ r = q[1]
  BY HeadTailProperties, LenProperties, ElementOfSeq, EmptySeq
<1> HIDE DEF p, r
<1>2. /\ 1 \in DOMAIN q
      /\ \A i \in DOMAIN p : i + 1 \in DOMAIN q /\ i + 1 # 1
      /\ \A i \in DOMAIN q : i = 1 \/ (i - 1 \in DOMAIN p /\ (i - 1) + 1 = i)
  BY <1>1
<1>3. \A s \in Sessions : CompletionIn(q, s)
                  <=> CompletionIn(p, s) \/ (r.state = "SUCCESS" /\ r.msg = s)
  BY <1>1, <1>2 DEF CompletionIn
<1>4. \A S \in SUBSET Ends : EndIn(q, S) <=> EndIn(p, S) \/ r.state \in S
  BY <1>1, <1>2 DEF EndIn
<1>5. Short(p)
  <2> SUFFICES ASSUME NEW i \in DOMAIN p, NEW j \in DOMAIN p,
                      p[i].msg = p[j].msg
               PROVE  i = j
    BY DEF Short
  <2>1. q[i + 1].msg = q[j + 1].msg
    BY <1>1
  <2>2. i + 1 = j + 1
    BY <1>2, <2>1 DEF Short
  <2> QED BY <1>1, <2>2
<1>6. \A i \in DOMAIN p : p[i].msg # r.msg
  <2> SUFFICES ASSUME NEW i \in DOMAIN p, p[i].msg = r.msg
               PROVE  FALSE
    OBVIOUS
  <2>1. q[i + 1].msg = q[1].msg
    BY <1>1
  <2>2. i + 1 = 1
    BY <1>2, <2>1 DEF Short
  <2> QED BY <1>2, <2>2
<1>7. r.state # "SUCCESS" => ~EndIn(p, Ends)
  BY <1>1, <1>6 DEF EndIn, Ends, Results
<1>8. r.state = "SUCCESS" => ~CompletionIn(p, r.msg)
  BY <1>6 DEF CompletionIn
<1> QED BY <1>1, <1>3, <1>4, <1>5, <1>7, <1>8 DEF p, r

-----------------------------------------------------------------------------
(* The calls of module MPoller, for the one node there is.                 *)

LEMMA OnePoller == Index(event_fd) = 0 /\ Fds = {event_fd} /\ Pollers = {0}
  BY IOServiceAssumption, MPollerAssumption DEF Index, Pollers

\* The results that the poller makes.
LEMMA PollResults ==
    /\ Result(event_fd, "event", "DELETED", NONE) \in Results
    /\ Result(event_fd, "event", "ERROR", NONE) \in Results
    /\ \A s \in Sessions : Result(event_fd, "event", "SUCCESS", s) \in Results
  BY IOServiceAssumption DEF Results, Result, Ends

\* The pipe holds the deleted node, or nothing.
LEMMA PollConcat ==
    ASSUME PollType
    PROVE  /\ poll.queue \in Seq(Results)
           /\ poll.queue \o poll.pipe[0] \in Seq(Results)
           /\ poll.pipe[0] = <<>> => poll.queue \o poll.pipe[0] = poll.queue
           /\ poll.pipe[0] # <<>> =>
                 poll.queue \o poll.pipe[0]
                     = Append(poll.queue, Result(event_fd, "event", "DELETED", NONE))
<1> DEFINE r == Result(event_fd, "event", "DELETED", NONE)
<1>1. poll.queue \in Seq(Results) /\ r \in Results /\ poll.pipe[0] \in {<<>>, <<r>>}
  BY PollResults DEF PollType
<1> HIDE DEF r
<1>2. poll.queue \o <<>> = poll.queue
  BY <1>1, ConcatEmptySeq
<1>3. Append(poll.queue, r) = poll.queue \o <<r>> /\ Append(poll.queue, r) \in Seq(Results)
  BY <1>1, AppendIsConcat, AppendProperties
<1> QED BY <1>1, <1>2, <1>3 DEF r

\* What a step of the poller does to the fields of the group.
PollFields(table, pipe, batch, queue) ==
    /\ poll'.table[event_fd] = table
    /\ poll'.pipe[0] = pipe
    /\ poll'.batch[0] = batch
    /\ poll'.queue = queue

\* epoll_wait returns an event only of a node that is in the table.
LEMMA EpollWaitFacts ==
    ASSUME PollType, epoll_wait
    PROVE  /\ PollType'
           /\ \E B \in {{}, {EventNode}} :
                 /\ PollFields(poll.table[event_fd], poll.pipe[0], B, poll.queue)
                 /\ B # {} => poll.table[event_fd] = "event"
<1>1. PICK B \in Batches(poll, 0) : poll' = EpollWait(poll, 0, B)
  BY DEF epoll_wait
<1>2. B \in {{}, {EventNode}} /\ (B # {} => poll.table[event_fd] = "event")
  BY OnePoller DEF Batches, PollType, EventNode, Registered
<1> QED
  BY <1>1, <1>2 DEF PollType, EpollWait, PollFields

\* The poller thread reads its pipe.
LEMMA PipeFacts ==
    ASSUME PollType, poller_handle_pipe
    PROVE  /\ PollType'
           /\ PollFields(poll.table[event_fd], <<>>, {},
                         poll.queue \o poll.pipe[0])
<1>1. poll.queue \o poll.pipe[0] \in Seq(Results)
  BY PollConcat
<1> QED
  BY <1>1, OnePoller DEF PollType, PollFields, poller_handle_pipe, ReadPipe, PipeReady

\* The poller thread is done with its event.
LEMMA DoneFacts ==
    ASSUME PollType
    PROVE  LET y == Done(poll, event_fd, "event")
           IN  /\ y = [poll EXCEPT !.batch = [poll.batch EXCEPT ![0] = {}]]
               /\ y.table = poll.table /\ y.queue = poll.queue
  BY OnePoller DEF PollType, Done, EventNode

\* A node that ended is reported, unless it was removed before.
Reported(q) ==
    IF poll.table[event_fd] = "none" THEN q
    ELSE Append(q, Result(event_fd, "event", "ERROR", NONE))

LEMMA ReportFacts ==
    ASSUME PollType, NEW q \in Seq(Results), NEW y,
           y = [poll EXCEPT !.batch = [poll.batch EXCEPT ![0] = {}], !.queue = q],
           poll' = Report(y, event_fd, "event", "ERROR")
    PROVE  /\ PollType'
           /\ PollFields("none", poll.pipe[0], {}, Reported(q))
<1>1. poll' = [poll EXCEPT !.batch = [poll.batch EXCEPT ![0] = {}],
                           !.table = [f \in {event_fd} |-> "none"],
                           !.queue = Reported(q)]
  BY OnePoller DEF PollType, Report, Callback, Reported
<1>2. Reported(q) \in Seq(Results)
  BY PollResults, AppendProperties DEF Reported
<1>3. /\ poll'.batch = [poll.batch EXCEPT ![0] = {}]
      /\ poll'.table = [f \in {event_fd} |-> "none"]
      /\ poll'.queue = Reported(q)
      /\ poll'.pipe = poll.pipe
      /\ poll'.has_pipe = poll.has_pipe
      /\ poll' = [table |-> poll'.table, pipe |-> poll'.pipe, batch |-> poll'.batch,
                  has_pipe |-> poll'.has_pipe,
                  queue |-> poll'.queue]
  BY <1>1 DEF PollType
<1> QED
  BY <1>2, <1>3 DEF PollType, PollFields

\* io_unbind deletes the node: the poller thread will find it in its pipe.
LEMMA DelFacts ==
    ASSUME PollType, poll' = mpoller_del(poll, event_fd),
           poll.table[event_fd] = "event" => poll.pipe[0] = <<>>
    PROVE  /\ PollType'
           /\ PollFields("none",
                         IF poll.table[event_fd] = "none" THEN poll.pipe[0]
                         ELSE <<Result(event_fd, "event", "DELETED", NONE)>>,
                         poll.batch[0], poll.queue)
<1>1. CASE poll.table[event_fd] = "none"
  BY <1>1 DEF mpoller_del, Registered, PollFields, PollType
<1>2. CASE poll.table[event_fd] = "event"
  <2>1. poll' = [poll EXCEPT !.pipe = [poll.pipe EXCEPT ![0] = <<Result(event_fd, "event", "DELETED", NONE)>>],
                             !.table = [poll.table EXCEPT ![event_fd] = "none"]]
    <3>1. Append(poll.pipe[0], Result(event_fd, "event", "DELETED", NONE))
              = <<Result(event_fd, "event", "DELETED", NONE)>>
      <4> DEFINE d == Result(event_fd, "event", "DELETED", NONE)
      <4>1. d \in Results /\ <<>> \in Seq(Results) /\ <<d>> \in Seq(Results)
        BY PollResults
      <4> HIDE DEF d
      <4>2. Append(<<>>, d) = <<>> \o <<d>> /\ <<>> \o <<d>> = <<d>>
        BY <4>1, AppendIsConcat, ConcatEmptySeq
      <4> QED BY <1>2, <4>2 DEF d
    <3> QED BY <1>2, <3>1, OnePoller DEF mpoller_del, Registered, HandOver, PollType
  <2> QED BY <1>2, <2>1 DEF PollType, PollFields
<1> QED BY <1>1, <1>2 DEF PollType

-----------------------------------------------------------------------------
(* Each action keeps the invariant.  First those of users and the kernel.  *)

\* What depends on the queue and the workers only.
LEMMA SameQueueAndWorkers ==
    ASSUME poll'.queue = poll.queue, worker' = worker
    PROVE  /\ QueueShort' = QueueShort
           /\ \A S : NodeQueued(S)' = NodeQueued(S)
           /\ Holders' = Holders
           /\ \A s \in Sessions : InQueue(s)' = InQueue(s)
           /\ \A s, pcs : With(s, pcs)' = With(s, pcs)
           /\ \A w \in Workers : OwnReference(w)' = OwnReference(w)
           /\ \A w \in Workers : Draining(w)' = Draining(w)
           /\ \A w \in Workers : Ending(w)' = Ending(w)
           /\ NotEnded' = NotEnded
  BY DEF QueueShort, NodeQueued, Holders, InQueue, With, OwnReference, Draining, Ending,
         NotEnded

\* A worker at some of several places.
LEMMA WithSplit ==
    \A s \in Sessions :
       /\ With(s, Holding) <=>
             With(s, {"unlist"}) \/ With(s, {"handle"}) \/ With(s, {"decref"})
       /\ With(s, {"handle", "decref"}) <=> With(s, {"handle"}) \/ With(s, {"decref"})
  BY DEF With, Holding

\* While somebody holds a reference, handle_unbound was not called and nobody is
\* about to.
LEMMA Referenced ==
    ASSUME IOInv,
           \/ service.open
           \/ \E w \in Workers : OwnReference(w)
           \/ \E s \in Sessions : s \in Holders
    PROVE  /\ service.ref > 0 /\ service.unbound = 0
           /\ \A w \in Workers : ~Draining(w)
<1>1. Own \in Nat /\ Cardinality(Holders) \in Nat
  BY FS_CardinalityType DEF Own, IOInv, RefCounts
<1>2. Own > 0 \/ Cardinality(Holders) > 0
  <2>1. CASE \E s \in Sessions : s \in Holders
    BY <1>1, <2>1, FS_EmptySet DEF IOInv, RefCounts
  <2> QED BY <2>1 DEF Own
<1> QED BY <1>1, <1>2 DEF IOInv, RefCounts

\* What NodePath says of the queue and of open alone.
LEMMA PathUnchanged ==
    ASSUME NodePath, UNCHANGED <<poll, at, worker>>,
           service'.open = service.open
    PROVE  NodePath'
  BY DEF NodePath, NodeAdded, NodeDeleted, NodeFailed, ServiceClosed, Quiet, NotEnded,
         Ending, OwnReference, NodeQueued

\* The service is used while it may be.
LEMMA Harmless ==
    ASSUME ~bad, service.unbound = 0, UseService
    PROVE  ~bad' /\ bad' \in BOOLEAN
<1>1. ~(service.unbound > 0)
  OBVIOUS
<1>2. bad' = (bad \/ service.unbound > 0)
  BY DEF UseService
<1> QED BY <1>1, <1>2, Zenon

LEMMA RequestKeeps ==
    ASSUME IOInv, NEW s \in Sessions, request(s)
    PROVE  IOInv'
<1> USE DEF IOInv, request
<1>0. PollType'
  BY DEF IOTypes, PollType
<1>1. IOTypes'
  BY <1>0 DEF IOTypes
<1>2. QueueShort'
  BY SameQueueAndWorkers
<1>3. NodePath'
  BY PathUnchanged
<1>4. RefCounts'
  BY SameQueueAndWorkers DEF RefCounts, Own, ListEmpty
<1>5. LiveIsListed' /\ OneStage'
  <2>1. CASE user' = [user EXCEPT ![s] = "refused"] /\ UNCHANGED <<kernel, mutex, crowded>>
    <3>1. \A t \in Sessions : Live(t)' = Live(t)
      BY <2>1, SameQueueAndWorkers DEF Live, InKernel
    <3>2. LiveIsListed'
      BY <2>1, <3>1 DEF LiveIsListed, OneListed, ListShape, ListEmpty
    <3>3. OneStage'
      BY <2>1, <3>1, SameQueueAndWorkers DEF OneStage, InKernel, IOTypes
    <3> QED BY <3>2, <3>3
  <2>2. CASE /\ service.open /\ crowded' = (crowded \/ ~ListEmpty)
             /\ kernel' = [kernel EXCEPT !.busy = @ \cup {s}]
             /\ mutex' = s
             /\ user' = [user EXCEPT ![s] = "submitted"]
    <3>1. \A t \in Sessions : InKernel(t)' <=> InKernel(t) \/ t = s
      BY <2>2 DEF IOTypes, InKernel
    <3>2. \A t \in Sessions : Live(t)' <=> Live(t) \/ t = s
      BY <3>1, SameQueueAndWorkers DEF Live
    <3>3. ~Live(s) /\ mutex = NONE
      BY DEF OneStage
    <3>4. LiveIsListed'
      <4>1. ASSUME ~crowded' PROVE OneListed'
        <5>1. ListEmpty /\ OneListed
          BY <2>2, <4>1 DEF LiveIsListed
        <5>2. \A t \in Sessions : ~Live(t) /\ t # HEAD /\ t # NONE
          BY <3>3, <5>1, IOServiceAssumption DEF OneListed, ListEmpty
        <5> QED BY <2>2, <3>2, <5>1, <5>2 DEF OneListed, ListShape, ListEmpty
      <4> QED BY <2>2, <4>1 DEF LiveIsListed
    <3>5. OneStage'
      <4>1. \A t \in Sessions : user'[t] = IF t = s THEN "submitted" ELSE user[t]
        BY <2>2 DEF IOTypes
      <4>2. ~With(s, {"unlist"}) /\ ~With(s, {"handle"}) /\ ~With(s, {"decref"})
        BY WithSplit DEF OneStage
      <4> QED
        BY <2>2, <3>1, <3>2, <3>3, <4>1, <4>2, SameQueueAndWorkers, WithSplit,
           IOServiceAssumption
        DEF OneStage, Live, InKernel, IOTypes
    <3> QED BY <3>4, <3>5
  <2> QED BY <2>1, <2>2
<1> QED BY <1>1, <1>2, <1>3, <1>4, <1>5

\* The cells stay cells, whatever the list looks like.
LEMMA HeapTypes ==
    ASSUME heap \in Heaps, NEW s \in Sessions
    PROVE  list_add_tail(heap, HEAD, s) \in Heaps /\ list_delete(heap, s) \in Heaps
<1>1. s \in Cells /\ HEAD \in Cells
  BY DEF Cells
<1> QED BY <1>1 DEF Heaps, list_add_tail, list_empty, list_delete

LEMMA RequestListKeeps ==
    ASSUME IOInv, NEW s \in Sessions, request_list(s)
    PROVE  IOInv'
<1> USE DEF IOInv, request_list
<1>1. service.open /\ Live(s) /\ s # NONE /\ s # HEAD
  BY IOServiceAssumption DEF LiveIsListed, OneStage
<1>2. heap' \in Heaps
  BY HeapTypes DEF IOTypes
<1>3. service.unbound = 0 /\ ~bad' /\ bad' \in BOOLEAN
  BY <1>1, Referenced, Harmless
<1>4. IOTypes'
  <2>1. PollType'
    BY DEF IOTypes, PollType
  <2> QED BY <1>2, <1>3, <2>1 DEF IOTypes
<1>5. NodePath'
  BY PathUnchanged
<1>6. QueueShort' /\ RefCounts'
  BY <1>3, SameQueueAndWorkers DEF RefCounts, Own
<1>7. \A t \in Sessions : Live(t)' = Live(t) /\ InKernel(t)' = InKernel(t)
  BY SameQueueAndWorkers DEF Live, InKernel
<1>8. LiveIsListed'
  <2>1. \A t \in Sessions : t # HEAD /\ t # NONE
    BY IOServiceAssumption
  <2>2. ASSUME ~crowded PROVE OneListed'
    <3>1. OneListed /\ heap.next[HEAD] = HEAD /\ heap.prev[HEAD] = HEAD
      BY <1>1, <2>2, IOServiceAssumption DEF LiveIsListed, OneListed, ListShape, ListEmpty
    <3>2. /\ heap'.next[HEAD] = s /\ heap'.prev[HEAD] = s
          /\ heap'.next[s] = HEAD /\ heap'.prev[s] = HEAD
      BY <1>1, <3>1 DEF IOTypes, Heaps, Cells, list_add_tail, list_empty
    <3> QED BY <1>1, <1>7, <2>1, <3>1, <3>2 DEF OneListed, ListShape, ListEmpty
  <2> QED BY <1>1, <2>2 DEF LiveIsListed
<1>9. OneStage'
  <2>1. \A t \in Sessions : user'[t] = IF t = s THEN "accepted" ELSE user[t]
    BY DEF IOTypes
  <2> QED
    BY <1>1, <1>7, <2>1, SameQueueAndWorkers, IOServiceAssumption DEF OneStage, IOTypes
<1> QED BY <1>3, <1>4, <1>5, <1>6, <1>8, <1>9

LEMMA CompleteKeeps ==
    ASSUME IOInv, NEW s \in Sessions, complete(s)
    PROVE  IOInv'
<1> USE DEF IOInv, complete
<1>0. PollType'
  BY DEF IOTypes, PollType
<1>1. IOTypes'
  BY <1>0 DEF IOTypes
<1>2. NodePath'
  BY PathUnchanged
<1>3. QueueShort' /\ RefCounts'
  BY SameQueueAndWorkers DEF RefCounts, Own, ListEmpty
<1>4. \A t \in Sessions : Live(t)' = Live(t) /\ InKernel(t)' = InKernel(t)
  BY SameQueueAndWorkers DEF Live, InKernel
<1>5. LiveIsListed'
  BY <1>4 DEF LiveIsListed, OneListed, ListShape, ListEmpty
<1>6. OneStage'
  BY <1>4, SameQueueAndWorkers DEF OneStage, IOTypes
<1> QED BY <1>1, <1>2, <1>3, <1>5, <1>6

-----------------------------------------------------------------------------
(* The poller thread.                                                      *)

\* A step that leaves the queue and everything else of the service alone.
LEMMA PollerLeaves ==
    ASSUME IOInv, poll'.queue = poll.queue,
           UNCHANGED <<service, heap, mutex, kernel, user, handled, worker, bad, crowded>>
    PROVE  /\ QueueShort' /\ RefCounts' /\ LiveIsListed' /\ OneStage' /\ ~bad'
<1> USE DEF IOInv
<1>1. \A t \in Sessions : Live(t)' = Live(t) /\ InKernel(t)' = InKernel(t)
  BY SameQueueAndWorkers DEF Live, InKernel
<1>2. LiveIsListed'
  BY <1>1 DEF LiveIsListed, OneListed, ListShape, ListEmpty
<1>3. OneStage'
  BY <1>1, SameQueueAndWorkers DEF OneStage, IOTypes
<1> QED BY <1>2, <1>3, SameQueueAndWorkers DEF RefCounts, Own, ListEmpty

LEMMA EpollWaitKeeps ==
    ASSUME IOInv, epoll_wait
    PROVE  IOInv'
<1> USE DEF IOInv, epoll_wait
<1>1. PICK B \in {{}, {EventNode}} :
         /\ PollFields(poll.table[event_fd], poll.pipe[0], B, poll.queue)
         /\ B # {} => poll.table[event_fd] = "event"
  BY EpollWaitFacts DEF IOTypes
<1>2. IOTypes'
  BY EpollWaitFacts DEF IOTypes
<1>3. QueueShort' /\ RefCounts' /\ LiveIsListed' /\ OneStage' /\ ~bad'
  BY <1>1, PollerLeaves DEF PollFields
<1>4. NodePath'
  BY <1>1, SameQueueAndWorkers
  DEF PollFields, NodePath, NodeAdded, NodeDeleted, NodeFailed, ServiceClosed, Quiet
<1> QED BY <1>2, <1>3, <1>4

LEMMA EventDoneKeeps ==
    ASSUME IOInv, event_done
    PROVE  IOInv'
<1> USE DEF IOInv, event_done
<1>1. poll' = [poll EXCEPT !.batch = [poll.batch EXCEPT ![0] = {}]]
  BY DoneFacts DEF IOTypes
<1>2. PollType' /\ PollFields(poll.table[event_fd], poll.pipe[0], {}, poll.queue)
  <2>1. /\ poll'.batch = [poll.batch EXCEPT ![0] = {}]
        /\ poll'.table = poll.table /\ poll'.queue = poll.queue
        /\ poll'.pipe = poll.pipe
        /\ poll'.has_pipe = poll.has_pipe
        /\ poll' = [table |-> poll'.table, pipe |-> poll'.pipe, batch |-> poll'.batch,
                    has_pipe |-> poll'.has_pipe,
                    queue |-> poll'.queue]
    BY <1>1 DEF IOTypes, PollType
  <2> QED BY <2>1 DEF IOTypes, PollType, PollFields
<1>3. IOTypes'
  BY <1>2 DEF IOTypes
<1>4. QueueShort' /\ RefCounts' /\ LiveIsListed' /\ OneStage' /\ ~bad'
  BY <1>2, PollerLeaves DEF PollFields
<1>5. NodePath'
  BY <1>2, SameQueueAndWorkers
  DEF PollFields, NodePath, NodeAdded, NodeDeleted, NodeFailed, ServiceClosed, Quiet
<1> QED BY <1>3, <1>4, <1>5

\* The node is reported: the queue has no other end of it.
LEMMA EndAppended ==
    ASSUME IOInv, NEW r \in Results, r.state \in Ends, ~NodeQueued(Ends),
           poll'.queue = Append(poll.queue, r),
           UNCHANGED <<service, heap, mutex, kernel, user, handled, worker, bad, crowded>>
    PROVE  /\ QueueShort' /\ RefCounts' /\ LiveIsListed' /\ OneStage' /\ ~bad'
           /\ \A S \in SUBSET Ends : NodeQueued(S)' <=> NodeQueued(S) \/ r.state \in S
<1> USE DEF IOInv
<1>1. poll.queue \in Seq(Results) /\ r.state # "SUCCESS"
  BY DEF IOTypes, PollType, Ends
<1>2. /\ QueueShort'
      /\ \A S \in SUBSET Ends : NodeQueued(S)' <=> NodeQueued(S) \/ r.state \in S
      /\ \A s \in Sessions : InQueue(s)' <=> InQueue(s)
  BY <1>1, QueueAppend DEF QueueShort, NodeQueued, InQueue
<1>3. /\ \A s, pcs : With(s, pcs)' = With(s, pcs)
      /\ \A w \in Workers : OwnReference(w)' = OwnReference(w)
      /\ \A w \in Workers : Draining(w)' = Draining(w)
  BY DEF With, OwnReference, Draining
<1>4. \A t \in Sessions : (Live(t)' <=> Live(t)) /\ InKernel(t)' = InKernel(t)
  BY <1>2, <1>3 DEF Live, InKernel
<1>5. Holders' = Holders
  BY <1>2, <1>3 DEF Holders
<1>6. LiveIsListed'
  BY <1>4 DEF LiveIsListed, OneListed, ListShape, ListEmpty
<1>7. OneStage'
  BY <1>2, <1>3, <1>4 DEF OneStage, IOTypes
<1>8. RefCounts'
  BY <1>3, <1>5 DEF RefCounts, Own, ListEmpty
<1> QED BY <1>2, <1>6, <1>7, <1>8

\* The workers, when they do not move.
LEMMA SameWorkers ==
    ASSUME worker' = worker
    PROVE  /\ NotEnded' = NotEnded
           /\ \A w \in Workers : Ending(w)' = Ending(w)
           /\ \A w \in Workers : OwnReference(w)' = OwnReference(w)
  BY DEF NotEnded, Ending, OwnReference

LEMMA EndSets ==
    /\ {"DELETED"} \in SUBSET Ends /\ {"ERROR"} \in SUBSET Ends
    /\ Ends \in SUBSET Ends
    /\ NodeQueued(Ends) <=> NodeQueued({"DELETED"}) \/ NodeQueued({"ERROR"})
  BY DEF Ends, NodeQueued, EndIn

LEMMA PipeKeeps ==
    ASSUME IOInv, poller_handle_pipe
    PROVE  IOInv'
<1> USE DEF IOInv, poller_handle_pipe
<1> DEFINE r == Result(event_fd, "event", "DELETED", NONE)
<1>1. PollFields(poll.table[event_fd], <<>>, {},
                 poll.queue \o poll.pipe[0])
  BY PipeFacts DEF IOTypes
<1>2. IOTypes'
  BY PipeFacts DEF IOTypes
<1>3. CASE poll.pipe[0] = <<>>
  <2>1. poll'.queue = poll.queue
    BY <1>1, <1>3, PollConcat DEF IOTypes, PollFields
  <2>2. QueueShort' /\ RefCounts' /\ LiveIsListed' /\ OneStage' /\ ~bad'
    BY <2>1, PollerLeaves
  <2>3. NodePath'
    BY <1>1, <1>3, <2>1, SameQueueAndWorkers
    DEF PollFields, NodePath, NodeAdded, NodeDeleted, NodeFailed, ServiceClosed, Quiet
  <2> QED BY <1>2, <2>2, <2>3
<1>4. CASE poll.pipe[0] # <<>>
  <2>1. poll'.queue = Append(poll.queue, r)
    BY <1>1, <1>4, PollConcat DEF IOTypes, PollFields
  <2>2. /\ NodeDeleted /\ ~NodeQueued(Ends) /\ NotEnded
    BY <1>4 DEF NodePath, NodeAdded, NodeDeleted, NodeFailed, ServiceClosed, Quiet
  <2>3. r \in Results /\ r.state = "DELETED" /\ r.state \in Ends
    BY PollResults DEF Result, Ends
  <2> HIDE DEF r
  <2>4. /\ QueueShort' /\ RefCounts' /\ LiveIsListed' /\ OneStage' /\ ~bad'
        /\ \A S \in SUBSET Ends : NodeQueued(S)' <=> NodeQueued(S) \/ r.state \in S
    BY <2>1, <2>2, <2>3, EndAppended
  <2>5. NodePath'
    BY <1>1, <2>2, <2>3, <2>4, EndSets, SameWorkers
    DEF PollFields, NodePath, NodeDeleted, Quiet
  <2> QED BY <1>2, <2>4, <2>5
<1> QED BY <1>3, <1>4

\* What the states of the poller thread say about the node.
LEMMA BusyPoller ==
    ASSUME IOInv, at.pc = "finish" \/ poll.batch[0] # {}
    PROVE  /\ service.open /\ NotEnded /\ ~NodeQueued(Ends)
           /\ \/ NodeAdded
              \/ NodeDeleted /\ poll.pipe[0] # <<>>
  BY DEF IOInv, NodePath, NodeAdded, NodeDeleted, NodeFailed, ServiceClosed, Quiet

\* An end that is reported when the node is still in the table.
LEMMA ErrorPath ==
    ASSUME NodePath, NEW r, r.state = "ERROR",
           \/ NodeAdded
           \/ NodeDeleted /\ poll.pipe[0] # <<>>,
           ~NodeQueued(Ends), NotEnded,
           at'.pc = "wait", worker' = worker,
           poll'.table[event_fd] = "none", poll'.pipe[0] = poll.pipe[0],
           poll'.batch[0] = {},
           service'.open = service.open,
           \A S \in SUBSET Ends :
              NodeQueued(S)' <=> NodeQueued(S)
                                 \/ (poll.table[event_fd] = "event" /\ r.state \in S)
    PROVE  NodePath'
<1>1. CASE NodeAdded
  <2>1. ~NodeQueued({"DELETED"})'
    BY <1>1, EndSets DEF NodeAdded, Ends
  <2> QED BY <1>1, <2>1, SameWorkers DEF NodeAdded, NodeFailed, NodePath, Quiet
<1>2. CASE NodeDeleted /\ poll.pipe[0] # <<>>
  <2>1. \A S \in SUBSET Ends : NodeQueued(S)' <=> NodeQueued(S)
    BY <1>2 DEF NodeDeleted
  <2> QED BY <1>2, <2>1, SameWorkers, EndSets DEF NodeDeleted, NodePath
<1> QED BY <1>1, <1>2

LEMMA EventKeeps ==
    ASSUME IOInv, poller_handle_event
    PROVE  IOInv'
<1> USE DEF IOInv, poller_handle_event
<1> DEFINE r == Result(event_fd, "event", "ERROR", NONE)
<1>1. poll.batch[0] # {}
  BY OnePoller DEF Ready
<1>2. CASE /\ at' = [pc |-> "finish", cnt |-> count]
           /\ count' = 0
           /\ UNCHANGED poll
  <2>1. QueueShort' /\ RefCounts' /\ LiveIsListed' /\ OneStage' /\ ~bad'
    BY <1>2, PollerLeaves
  <2>2. PollType'
    BY <1>2 DEF IOTypes, PollType
  <2>3. IOTypes'
    BY <1>2, <2>2 DEF IOTypes
  <2>4. NodePath'
    BY <1>1, <1>2, BusyPoller, SameQueueAndWorkers DEF NodePath, NodeAdded, NodeDeleted
  <2> QED BY <2>1, <2>3, <2>4
<1>3. CASE /\ poll' = Report(Done(poll, event_fd, "event"), event_fd, "event", "ERROR")
           /\ UNCHANGED <<at, count>>
  <2>1. /\ PollType'
        /\ PollFields("none", poll.pipe[0], {}, Reported(poll.queue))
    <3>1. Done(poll, event_fd, "event")
             = [poll EXCEPT !.batch = [poll.batch EXCEPT ![0] = {}], !.queue = poll.queue]
      BY DoneFacts DEF IOTypes, PollType
    <3>2. poll.queue \in Seq(Results)
      BY DEF IOTypes, PollType
    <3> QED BY <1>3, <3>1, <3>2, ReportFacts DEF IOTypes
  <2>2. IOTypes'
    BY <1>3, <2>1 DEF IOTypes
  <2>3. r \in Results /\ r.state = "ERROR" /\ r.state \in Ends
    BY PollResults DEF Result, Ends
  <2>4. /\ QueueShort' /\ RefCounts' /\ LiveIsListed' /\ OneStage' /\ ~bad'
        /\ \A S \in SUBSET Ends :
              NodeQueued(S)' <=> NodeQueued(S)
                                 \/ (poll.table[event_fd] = "event" /\ r.state \in S)
    <3>1. CASE poll.table[event_fd] = "none"
      BY <2>1, <3>1, PollerLeaves, SameQueueAndWorkers DEF Reported, PollFields
    <3>2. CASE poll.table[event_fd] = "event"
      <4>1. poll'.queue = Append(poll.queue, r)
        BY <2>1, <3>2 DEF Reported, PollFields
      <4> HIDE DEF r
      <4> QED BY <1>1, <2>3, <3>2, <4>1, EndAppended, BusyPoller
    <3> QED BY <3>1, <3>2 DEF IOTypes, PollType
  <2> HIDE DEF r
  <2>5. NodePath'
    BY <1>1, <1>3, <2>1, <2>3, <2>4, BusyPoller, ErrorPath DEF PollFields
  <2> QED BY <2>2, <2>4, <2>5
<1> QED BY <1>2, <1>3

\* The completion of s gets into the queue, with a reference.
LEMMA CompletionQueued ==
    ASSUME IOInv, NEW s \in Sessions, Fetch(s),
           service' = [service EXCEPT !.ref = @ + 1], UseService, service.open,
           UNCHANGED <<heap, mutex, user, handled, worker, crowded>>,
           Short(poll'.queue),
           \A t \in Sessions : InQueue(t)' <=> InQueue(t) \/ t = s
    PROVE  QueueShort' /\ RefCounts' /\ LiveIsListed' /\ OneStage' /\ ~bad' /\ bad' \in BOOLEAN
<1> USE DEF IOInv
<1>1. /\ \A t, pcs : With(t, pcs)' = With(t, pcs)
      /\ \A w \in Workers : OwnReference(w)' = OwnReference(w)
      /\ \A w \in Workers : Draining(w)' = Draining(w)
  BY DEF With, OwnReference, Draining
<1>2. \A t \in Sessions : InKernel(t)' <=> InKernel(t) /\ t # s
  BY DEF InKernel, Fetch, IOTypes, OneStage
<1>3. Live(s) /\ InKernel(s)
  BY DEF Fetch, Live, InKernel
<1>4. \A t \in Sessions : Live(t)' <=> Live(t)
  BY <1>1, <1>2, <1>3 DEF Live
<1>5. ~InQueue(s) /\ ~With(s, Holding)
  BY <1>3, WithSplit DEF OneStage
<1>6. Holders' = Holders \cup {s} /\ s \notin Holders
  BY <1>1, <1>5 DEF Holders
<1>7. service.unbound = 0 /\ \A w \in Workers : ~Draining(w)
  BY Referenced
<1>8. RefCounts'
  <2>1. Own' = Own /\ Own \in Nat
    BY <1>1 DEF Own, IOTypes
  <2>2. /\ IsFiniteSet(Holders') /\ Cardinality(Holders') = Cardinality(Holders) + 1
        /\ Cardinality(Holders) \in Nat
    BY <1>6, FS_AddElement, FS_CardinalityType DEF RefCounts
  <2>3. service'.ref = service.ref + 1 /\ service'.unbound = 0 /\ service.ref \in Int
    BY <1>7 DEF IOTypes
  <2>4. service.ref = Own + Cardinality(Holders)
    BY DEF RefCounts
  <2>5. service'.ref = Own' + Cardinality(Holders') /\ service'.ref # 0
    BY <2>1, <2>2, <2>3, <2>4
  <2> QED BY <1>1, <1>7, <2>2, <2>3, <2>5 DEF RefCounts
<1>9. LiveIsListed'
  BY <1>4 DEF LiveIsListed, OneListed, ListShape, ListEmpty, IOTypes
<1>10. OneStage'
  <2>1. \A t \in Sessions : ~(t \in kernel'.busy /\ t \in kernel'.done)
    BY DEF Fetch, OneStage, IOTypes
  <2> QED BY <1>1, <1>2, <1>3, <1>4, <1>5, <2>1, WithSplit DEF OneStage
<1> QED BY <1>7, <1>8, <1>9, <1>10, Harmless DEF QueueShort

LEMMA FinishKeeps ==
    ASSUME IOInv, aio_finish
    PROVE  IOInv'
<1> USE DEF IOInv, aio_finish
<1> DEFINE r == Result(event_fd, "event", "ERROR", NONE)
<1>1. /\ service.open /\ NotEnded /\ ~NodeQueued(Ends)
      /\ \/ NodeAdded
         \/ NodeDeleted /\ poll.pipe[0] # <<>>
  BY BusyPoller
<1>2. r \in Results /\ r.state = "ERROR" /\ r.state \in Ends
  BY PollResults DEF Result, Ends
<1>3. at \in [pc : {"wait", "finish"}, cnt : Nat] /\ at.cnt > 0 /\ count \in Nat
      /\ PollType /\ poll.queue \in Seq(Results)
  BY DEF IOTypes, PollType
<1>4. ASSUME NEW s \in Sessions, NEW more \in BOOLEAN,
             Fetch(s), service' = [service EXCEPT !.ref = @ + 1], UseService,
             LET z == Callback(poll, Result(event_fd, "event", "SUCCESS", s)) IN
             IF more
             THEN /\ at' = [at EXCEPT !.cnt = @ - 1]
                  /\ poll' = z
                  /\ UNCHANGED count
             ELSE /\ at' = [pc |-> "wait", cnt |-> 0]
                  /\ poll' = Report(Done(z, event_fd, "event"), event_fd, "event", "ERROR")
                  /\ count' = count + at.cnt - 1
      PROVE  IOInv'
  <2> DEFINE c == Result(event_fd, "event", "SUCCESS", s)
             q == Append(poll.queue, c)
  <2>1. c \in Results /\ c.state = "SUCCESS" /\ c.msg = s /\ c.state \notin Ends
    BY PollResults DEF Result, Ends
  <2>2. ~InQueue(s)
    BY <1>4 DEF Fetch, InKernel, OneStage
  <2> HIDE DEF c
  <2>3. /\ q \in Seq(Results) /\ Short(q)
        /\ \A t \in Sessions : CompletionIn(q, t) <=> InQueue(t) \/ t = s
        /\ \A S \in SUBSET Ends : EndIn(q, S) <=> NodeQueued(S)
    <3>1. ~CompletionIn(poll.queue, s)
      BY <2>2 DEF InQueue
    <3>2. /\ q \in Seq(Results) /\ Short(q)
          /\ \A t \in Sessions : CompletionIn(q, t) <=> CompletionIn(poll.queue, t) \/ t = s
          /\ \A S \in SUBSET Ends : EndIn(q, S) <=> EndIn(poll.queue, S)
      BY <1>3, <2>1, <3>1, QueueAppend DEF QueueShort
    <3> QED BY <3>2 DEF InQueue, NodeQueued
  <2>4. CASE more
    <3>1. poll' = [poll EXCEPT !.queue = q] /\ at' = [at EXCEPT !.cnt = @ - 1] /\ count' = count
      BY <1>4, <2>4 DEF Callback, c
    <3>2. PollType' /\ PollFields(poll.table[event_fd], poll.pipe[0], poll.batch[0], q)
      <4>1. /\ poll'.batch = poll.batch
            /\ poll'.table = poll.table /\ poll'.queue = q
            /\ poll'.pipe = poll.pipe
            /\ poll'.has_pipe = poll.has_pipe
            /\ poll' = [table |-> poll'.table, pipe |-> poll'.pipe, batch |-> poll'.batch,
                        has_pipe |-> poll'.has_pipe,
                        queue |-> poll'.queue]
        BY <1>3, <3>1 DEF PollType
      <4> QED BY <1>3, <2>3, <4>1 DEF PollType, PollFields
    <3>3. /\ \A t \in Sessions : InQueue(t)' <=> InQueue(t) \/ t = s
          /\ \A S \in SUBSET Ends : NodeQueued(S)' <=> NodeQueued(S)
          /\ Short(poll'.queue)
      BY <2>3, <3>2 DEF PollFields, InQueue, NodeQueued
    <3>4. QueueShort' /\ RefCounts' /\ LiveIsListed' /\ OneStage' /\ ~bad' /\ bad' \in BOOLEAN
      BY <1>1, <1>4, <3>3, CompletionQueued
    <3>5. IOTypes'
      <4>1. count' \in Nat /\ at' \in [pc : {"wait", "finish"}, cnt : Nat]
        BY <1>3, <3>1
      <4> QED BY <1>4, <3>2, <3>4, <4>1 DEF IOTypes, Fetch
    <3>6. service'.open = service.open
      BY <1>4 DEF IOTypes
    <3>7. NodePath'
      BY <1>1, <3>1, <3>2, <3>3, <3>6, SameWorkers, EndSets
      DEF PollFields, NodePath, NodeAdded, NodeDeleted
    <3> QED BY <3>4, <3>5, <3>7
  <2>5. CASE ~more
    <3>1. /\ PollType'
          /\ PollFields("none", poll.pipe[0], {}, Reported(q))
      <4>1. Done(Callback(poll, c), event_fd, "event")
               = [poll EXCEPT !.batch = [poll.batch EXCEPT ![0] = {}], !.queue = q]
        BY <1>3, OnePoller DEF PollType, Done, Callback, EventNode
      <4>2. poll' = Report(Done(Callback(poll, c), event_fd, "event"), event_fd, "event", "ERROR")
        BY <1>4, <2>5 DEF c
      <4> HIDE DEF q
      <4> QED BY <1>3, <2>3, <4>1, <4>2, ReportFacts
    <3>2. /\ \A t \in Sessions : InQueue(t)' <=> InQueue(t) \/ t = s
          /\ \A S \in SUBSET Ends :
                NodeQueued(S)' <=> NodeQueued(S)
                                   \/ (poll.table[event_fd] = "event" /\ r.state \in S)
          /\ Short(poll'.queue)
      <4> HIDE DEF q, r
      <4>1. CASE poll.table[event_fd] = "none"
        BY <2>3, <3>1, <4>1 DEF PollFields, InQueue, NodeQueued, Reported
      <4>2. CASE poll.table[event_fd] = "event"
        <5>1. poll'.queue = Append(q, r)
          BY <3>1, <4>2 DEF PollFields, Reported, r
        <5>2. ~EndIn(q, Ends)
          BY <1>1, <2>3, EndSets
        <5>3. /\ Short(Append(q, r))
              /\ \A t \in Sessions : CompletionIn(Append(q, r), t) <=> CompletionIn(q, t)
              /\ \A S \in SUBSET Ends : EndIn(Append(q, r), S) <=> EndIn(q, S) \/ r.state \in S
          BY <1>2, <2>3, <5>2, QueueAppend
        <5> QED BY <2>3, <4>2, <5>1, <5>3 DEF InQueue, NodeQueued
      <4> QED BY <1>3, <4>1, <4>2 DEF PollType
    <3>3. QueueShort' /\ RefCounts' /\ LiveIsListed' /\ OneStage' /\ ~bad' /\ bad' \in BOOLEAN
      BY <1>1, <1>4, <3>2, CompletionQueued
    <3>4. at' = [pc |-> "wait", cnt |-> 0] /\ count' = count + at.cnt - 1
      BY <1>4, <2>5
    <3>5. IOTypes'
      <4>1. count' \in Nat /\ at' \in [pc : {"wait", "finish"}, cnt : Nat]
        BY <1>3, <3>4
      <4> QED BY <1>4, <3>1, <3>3, <4>1 DEF IOTypes, Fetch
    <3>6. service'.open = service.open
      BY <1>4 DEF IOTypes
    <3> HIDE DEF r
    <3>7. NodePath'
      BY <1>1, <1>2, <3>1, <3>2, <3>4, <3>6, ErrorPath DEF PollFields
    <3> QED BY <3>3, <3>5, <3>7
  <2> QED BY <2>4, <2>5
<1>5. ASSUME at' = [pc |-> "wait", cnt |-> 0],
             poll' = Report(Done(poll, event_fd, "event"), event_fd, "event", "ERROR"),
             count' = count + at.cnt - 1, UseService, UNCHANGED <<kernel, service>>
      PROVE  IOInv'
  <2>1. /\ PollType'
        /\ PollFields("none", poll.pipe[0], {}, Reported(poll.queue))
    <3>1. Done(poll, event_fd, "event")
             = [poll EXCEPT !.batch = [poll.batch EXCEPT ![0] = {}], !.queue = poll.queue]
      BY <1>3, DoneFacts DEF PollType
    <3> QED BY <1>3, <1>5, <3>1, ReportFacts
  <2>2. ~bad' /\ bad' \in BOOLEAN
    BY <1>1, <1>5, Referenced, Harmless
  <2>3. bad' = bad
    BY <2>2 DEF IOTypes
  <2>4. IOTypes'
    <3>1. count' \in Nat /\ at' \in [pc : {"wait", "finish"}, cnt : Nat]
      BY <1>3, <1>5
    <3> QED BY <1>5, <2>1, <2>2, <3>1 DEF IOTypes
  <2>5. /\ QueueShort' /\ RefCounts' /\ LiveIsListed' /\ OneStage' /\ ~bad'
        /\ \A S \in SUBSET Ends :
              NodeQueued(S)' <=> NodeQueued(S)
                                 \/ (poll.table[event_fd] = "event" /\ r.state \in S)
    <3> USE <1>5
    <3>1. CASE poll.table[event_fd] = "none"
      BY <2>1, <2>3, <3>1, PollerLeaves, SameQueueAndWorkers DEF Reported, PollFields
    <3>2. CASE poll.table[event_fd] = "event"
      <4>1. poll'.queue = Append(poll.queue, r)
        BY <2>1, <3>2 DEF Reported, PollFields
      <4> HIDE DEF r
      <4> QED BY <1>1, <1>2, <2>3, <3>2, <4>1, EndAppended
    <3> QED BY <1>3, <3>1, <3>2 DEF PollType
  <2> HIDE DEF r
  <2>6. NodePath'
    BY <1>1, <1>2, <1>5, <2>1, <2>5, ErrorPath DEF PollFields
  <2> QED BY <2>4, <2>5, <2>6
<1> QED BY <1>4, <1>5

-----------------------------------------------------------------------------
(* The handler threads.                                                    *)

\* Only worker w moves, to x.
Moves(w, x) ==
    /\ x \in [pc : Stages, s : Sessions \cup {NONE}]
    /\ \A v \in Workers : worker'[v] = IF v = w THEN x ELSE worker[v]

LEMMA MovesTo ==
    ASSUME IOTypes, NEW w \in Workers, NEW x \in [pc : Stages, s : Sessions \cup {NONE}],
           worker' = [worker EXCEPT ![w] = x]
    PROVE  Moves(w, x) /\ worker' \in [Workers -> [pc : Stages, s : Sessions \cup {NONE}]]
  BY DEF IOTypes, Moves

LEMMA WorkMoves ==
    ASSUME IOTypes, NEW w \in Workers, NEW pc \in Stages, Work(w, pc)
    PROVE  /\ Moves(w, [pc |-> pc, s |-> worker[w].s])
           /\ worker' \in [Workers -> [pc : Stages, s : Sessions \cup {NONE}]]
<1> DEFINE x == [pc |-> pc, s |-> worker[w].s]
<1>0. worker[w] \in [pc : Stages, s : Sessions \cup {NONE}]
  BY DEF IOTypes
<1>1. worker' = [worker EXCEPT ![w] = x] /\ x \in [pc : Stages, s : Sessions \cup {NONE}]
  <2>1. [worker[w] EXCEPT !.pc = pc] = x /\ x \in [pc : Stages, s : Sessions \cup {NONE}]
    BY <1>0
  <2>2. worker' = [worker EXCEPT ![w] = [worker[w] EXCEPT !.pc = pc]]
    BY DEF Work
  <2> QED BY <2>1, <2>2
<1> HIDE DEF x
<1>2. Moves(w, x) /\ worker' \in [Workers -> [pc : Stages, s : Sessions \cup {NONE}]]
  BY <1>1, MovesTo
<1> QED BY <1>2 DEF x

Finished(w) == [pc |-> IF w = Main THEN "unbound" ELSE "get", s |-> NONE]

LEMMA FinishMoves ==
    ASSUME IOTypes, NEW w \in Workers, Finish(w)
    PROVE  /\ Moves(w, Finished(w))
           /\ worker' \in [Workers -> [pc : Stages, s : Sessions \cup {NONE}]]
<1>0. [Getting EXCEPT !.pc = "unbound"] = [pc |-> "unbound", s |-> NONE]
  BY DEF Getting
<1>1. worker' = [worker EXCEPT ![w] = Finished(w)]
  <2>1. CASE w = Main
    BY <1>0, <2>1 DEF Finish, Finished
  <2>2. CASE w # Main
    BY <2>2 DEF Finish, Finished, Getting
  <2> QED BY <2>1, <2>2
<1>2. Finished(w) \in [pc : Stages, s : Sessions \cup {NONE}]
  BY DEF Finished, Stages
<1> QED BY <1>1, <1>2, MovesTo

\* The holder of s moves.
LEMMA HolderMoves ==
    ASSUME IOInv, NEW w \in Workers, NEW s \in Sessions,
           worker[w].pc \in Holding, worker[w].s = s, NEW x, Moves(w, x),
           x.pc \in Holding => x.s = s
    PROVE  /\ \A t \in Sessions, pcs \in SUBSET Holding :
                 With(t, pcs)' <=> (t # s /\ With(t, pcs)) \/ (t = s /\ x.pc \in pcs)
           /\ \A u, v \in Workers :
                 /\ worker'[u].pc \in Holding /\ worker'[v].pc \in Holding
                 /\ worker'[u].s # NONE /\ worker'[u].s = worker'[v].s
                 => u = v
           /\ \A v \in Workers : OwnReference(v)' =>
                 OwnReference(v) \/ (v = w /\ x = [pc |-> "decref", s |-> NONE])
<1>1. s # NONE
  BY IOServiceAssumption
<1>2. \A v \in Workers : worker[v].pc \in Holding /\ worker[v].s = s => v = w
  BY <1>1 DEF IOInv, OneStage
<1>3. ASSUME NEW t \in Sessions, NEW pcs \in SUBSET Holding
      PROVE  With(t, pcs)' <=> (t # s /\ With(t, pcs)) \/ (t = s /\ x.pc \in pcs)
  <2>1. CASE t = s
    BY <1>2, <2>1 DEF With, Moves
  <2>2. CASE t # s
    BY <1>2, <2>2 DEF With, Moves
  <2> QED BY <2>1, <2>2
<1>4. \A u, v \in Workers :
         /\ worker'[u].pc \in Holding /\ worker'[v].pc \in Holding
         /\ worker'[u].s # NONE /\ worker'[u].s = worker'[v].s
         => u = v
  BY <1>1, <1>2 DEF Moves, IOInv, OneStage
<1>5. \A v \in Workers : OwnReference(v)' =>
         OwnReference(v) \/ (v = w /\ x = [pc |-> "decref", s |-> NONE])
  BY DEF Moves, OwnReference
<1> QED BY <1>3, <1>4, <1>5

LEMMA HoldingSets ==
    /\ {"unlist"} \in SUBSET Holding /\ {"handle"} \in SUBSET Holding
    /\ {"decref"} \in SUBSET Holding /\ {"handle", "decref"} \in SUBSET Holding
    /\ Holding \in SUBSET Holding
    /\ Holding \in SUBSET Stages
  BY DEF Holding, Stages

\* A worker moves that has nothing to do with the end of the node, before or
\* after.
LEMMA PathOfOthers ==
    ASSUME NodePath, NEW w \in Workers, NEW x, Moves(w, x),
           ~Ending(w), x.pc # "shutdown",
           x # [pc |-> "decref", s |-> NONE],
           worker[w].pc \notin {"off", "unbound"},
           x.pc \in {"get", "off", "unbound"} => x = Finished(w),
           poll'.table = poll.table, poll'.pipe = poll.pipe, poll'.batch = poll.batch,
           \A S \in SUBSET Ends : NodeQueued(S)' <=> NodeQueued(S),
           at' = at, service'.open = service.open
    PROVE  NodePath'
<1>1. \A v \in Workers : Ending(v)' <=> Ending(v)
  BY DEF Ending, OwnReference, Moves
<1>2. NotEnded' <=> NotEnded
  BY <1>1 DEF NotEnded
<1>3. /\ worker'[Main].pc = "off" <=> worker[Main].pc = "off"
      /\ worker[Main].pc = "unbound" => worker'[Main].pc = "unbound"
      /\ worker[Main].pc = "shutdown" => worker'[Main].pc = "shutdown"
      /\ worker'[Main].pc # "get"
  BY DEF Moves, Finished, NodePath, Ending, Workers
<1>4. \A v \in Handlers : /\ worker'[v].pc \notin {"off", "unbound"}
                          /\ worker[v].pc = "shutdown" => worker'[v].pc = "shutdown"
  BY IOServiceAssumption DEF Moves, Finished, NodePath, Ending, Workers
<1>5. \A v \in Workers : Ending(v) /\ OwnReference(v) => OwnReference(v)'
  BY DEF Ending, OwnReference, Moves
<1>6. CASE NodeAdded
  BY <1>2, <1>3, <1>4, <1>6, EndSets DEF NodePath, NodeAdded
<1>7. CASE NodeDeleted
  BY <1>1, <1>2, <1>3, <1>4, <1>7, EndSets DEF NodePath, NodeDeleted, Quiet
<1>8. CASE NodeFailed
  BY <1>1, <1>2, <1>3, <1>4, <1>8, EndSets DEF NodePath, NodeFailed, Quiet
<1>9. CASE ServiceClosed
  <2>1. \A v \in Workers : Ending(v)' => OwnReference(v)'
    BY <1>1, <1>5, <1>9 DEF ServiceClosed
  <2> QED BY <1>1, <1>3, <1>4, <1>9, <2>1, EndSets DEF NodePath, ServiceClosed, Quiet
<1> QED BY <1>6, <1>7, <1>8, <1>9 DEF NodePath

\* A worker moves that holds no session, before or after.
LEMMA OtherMoves ==
    ASSUME IOInv, NEW w \in Workers, NEW x, Moves(w, x),
           worker[w].pc \notin Holding \/ worker[w].s = NONE,
           x.pc \notin Holding \/ x.s = NONE
    PROVE  /\ \A t \in Sessions, pcs \in SUBSET Holding : With(t, pcs)' <=> With(t, pcs)
           /\ \A u, v \in Workers :
                 /\ worker'[u].pc \in Holding /\ worker'[v].pc \in Holding
                 /\ worker'[u].s # NONE /\ worker'[u].s = worker'[v].s
                 => u = v
<1>1. \A t \in Sessions : t # NONE
  BY IOServiceAssumption
<1>2. \A t \in Sessions, pcs \in SUBSET Holding : With(t, pcs)' <=> With(t, pcs)
  BY <1>1 DEF With, Moves
<1>3. \A u, v \in Workers :
         /\ worker'[u].pc \in Holding /\ worker'[v].pc \in Holding
         /\ worker'[u].s # NONE /\ worker'[u].s = worker'[v].s
         => u = v
  BY DEF Moves, IOInv, OneStage
<1> QED BY <1>2, <1>3

LEMMA RoutineKeeps ==
    ASSUME IOInv, NEW w \in Handlers, handler_thread_routine(w)
    PROVE  IOInv'
<1> USE DEF IOInv, handler_thread_routine
<1> DEFINE r == Head(poll.queue)
           x == [pc |-> CASE r.state = "SUCCESS" -> "unlist"
                          [] r.state = "DELETED" -> "shutdown"
                          [] OTHER -> "stop",
                 s |-> r.msg]
<1>0. w \in Workers /\ w # Main /\ \A t \in Sessions : t # NONE
  BY IOServiceAssumption DEF Workers
<1>1. PollType /\ poll.queue \in Seq(Results) /\ poll.queue # <<>>
  BY DEF IOTypes, PollType
<1>2. /\ r \in Results /\ Tail(poll.queue) \in Seq(Results) /\ Short(Tail(poll.queue))
      /\ \A s \in Sessions : InQueue(s)
             <=> CompletionIn(Tail(poll.queue), s) \/ (r.state = "SUCCESS" /\ r.msg = s)
      /\ \A S \in SUBSET Ends : NodeQueued(S) <=> EndIn(Tail(poll.queue), S) \/ r.state \in S
      /\ r.state = "SUCCESS" => ~CompletionIn(Tail(poll.queue), r.msg)
      /\ r.state # "SUCCESS" => ~EndIn(Tail(poll.queue), Ends)
  BY <1>1, QueueTail DEF QueueShort, InQueue, NodeQueued
<1> HIDE DEF r
<1>3. /\ PollType' /\ poll'.queue = Tail(poll.queue)
      /\ poll'.table = poll.table /\ poll'.pipe = poll.pipe /\ poll'.batch = poll.batch
     
  <2>1. /\ poll'.queue = Tail(poll.queue) /\ poll'.batch = poll.batch
        /\ poll'.table = poll.table
        /\ poll'.pipe = poll.pipe
        /\ poll'.has_pipe = poll.has_pipe
        /\ poll' = [table |-> poll'.table, pipe |-> poll'.pipe, batch |-> poll'.batch,
                    has_pipe |-> poll'.has_pipe,
                    queue |-> poll'.queue]
    BY <1>1 DEF PollType
  <2> QED BY <1>1, <1>2, <2>1 DEF PollType
<1>4. /\ x \in [pc : Stages, s : Sessions \cup {NONE}]
      /\ x.s = r.msg
      /\ r.state = "SUCCESS" => x.pc = "unlist" /\ r.msg \in Sessions
      /\ r.state = "DELETED" => x.pc = "shutdown"
      /\ r.state = "ERROR" => x.pc = "stop"
      /\ r.state # "SUCCESS" => r.msg = NONE
      /\ r.state \in Ends \cup {"SUCCESS"}
  BY <1>2 DEF Results, Stages, Ends
<1>5. worker' = [worker EXCEPT ![w] = x]
  BY DEF r
<1> HIDE DEF x
<1>6. Moves(w, x) /\ IOTypes'
  <2>1. Moves(w, x) /\ worker' \in [Workers -> [pc : Stages, s : Sessions \cup {NONE}]]
    BY <1>0, <1>4, <1>5, MovesTo
  <2> QED BY <1>3, <2>1 DEF IOTypes
<1>7. /\ QueueShort'
      /\ \A t \in Sessions : InQueue(t)' <=> CompletionIn(Tail(poll.queue), t)
      /\ \A S \in SUBSET Ends : NodeQueued(S)' <=> EndIn(Tail(poll.queue), S)
  BY <1>2, <1>3 DEF QueueShort, InQueue, NodeQueued
<1>8. /\ ~Ending(w) /\ worker[w].pc \notin Holding
      /\ \A v \in Workers : Draining(v)' <=> Draining(v)
      /\ \A v \in Workers : OwnReference(v)' <=> OwnReference(v)
      /\ Own' = Own
  <2>1. x.pc \notin {"drain", "decref"}
    BY <1>4 DEF Ends
  <2>2. /\ \A v \in Workers : Draining(v)' <=> Draining(v)
        /\ \A v \in Workers : OwnReference(v)' <=> OwnReference(v)
    BY <1>6, <2>1 DEF Draining, OwnReference, Moves
  <2> QED BY <2>2 DEF Ending, OwnReference, Holding, Own
<1>9. CASE r.state = "SUCCESS"
  <2> DEFINE s == r.msg
  <2>1. s \in Sessions /\ InQueue(s)
    BY <1>2, <1>4, <1>9
  <2>2. \A t \in Sessions : InQueue(t)' <=> InQueue(t) /\ t # s
    BY <1>2, <1>7, <1>9, <2>1
  <2> HIDE DEF s
  <2>3. ~With(s, Holding)
    BY <2>1, WithSplit DEF OneStage, Live
  <2>4. \A t \in Sessions, pcs \in SUBSET Holding :
           With(t, pcs)' <=> With(t, pcs) \/ (t = s /\ "unlist" \in pcs)
    BY <1>0, <1>4, <1>6, <1>8, <1>9 DEF With, Moves, s
  <2>5. \A t \in Sessions : Live(t)' <=> Live(t)
    BY <2>1, <2>2, <2>4, HoldingSets DEF Live, InKernel
  <2>6. Holders' = Holders
    <3>1. \A t \in Sessions : (InQueue(t)' \/ With(t, Holding)') <=> (InQueue(t) \/ With(t, Holding))
      BY <2>1, <2>2, <2>4, HoldingSets DEF Holding
    <3> QED BY <3>1 DEF Holders
  <2>7. RefCounts'
    BY <1>8, <2>6 DEF RefCounts, ListEmpty
  <2>8. LiveIsListed'
    BY <2>5 DEF LiveIsListed, OneListed, ListShape, ListEmpty
  <2>9. OneStage'
    <3>1. \A u, v \in Workers :
             /\ worker'[u].pc \in Holding /\ worker'[v].pc \in Holding
             /\ worker'[u].s # NONE /\ worker'[u].s = worker'[v].s
             => u = v
      <4>1. \A v \in Workers : ~(worker[v].pc \in Holding /\ worker[v].s = s)
        BY <2>3 DEF With
      <4> QED BY <1>4, <1>6, <4>1 DEF Moves, OneStage, s
    <3>2. \A t \in Sessions : InKernel(t)' <=> InKernel(t)
      BY DEF InKernel
    <3>3. \A v \in Workers :
             /\ worker'[v].pc \in {"unlist", "handle"} => worker'[v].s # NONE
             /\ worker'[v].pc \in {"off", "stop", "shutdown"} => worker'[v].s = NONE
      BY <1>0, <1>4, <1>6, <1>9 DEF Moves, OneStage
    <3>4. ~InKernel(s) /\ handled[s] = 0 /\ user[s] \notin {"none", "refused"}
      BY <2>1 DEF OneStage, Live
    <3>5. \A t \in Sessions :
             /\ With(t, {"unlist"})' <=> With(t, {"unlist"}) \/ t = s
             /\ With(t, {"handle"})' <=> With(t, {"handle"})
             /\ With(t, {"decref"})' <=> With(t, {"decref"})
             /\ With(t, {"handle", "decref"})' <=> With(t, {"handle", "decref"})
             /\ With(t, Holding)' <=> With(t, Holding) \/ t = s
      BY <2>4, HoldingSets DEF Holding
    <3> QED BY <2>1, <2>2, <2>3, <2>5, <3>1, <3>2, <3>3, <3>4, <3>5 DEF OneStage
  <2>10. NodePath'
    <3>1. x.pc = "unlist" /\ worker[w].pc = "get"
      BY <1>4, <1>9
    <3>2. \A S \in SUBSET Ends : NodeQueued(S)' <=> NodeQueued(S)
      BY <1>2, <1>7, <1>9 DEF Ends
    <3> QED BY <1>0, <1>3, <1>6, <1>8, <3>1, <3>2, PathOfOthers
  <2> QED BY <1>6, <1>7, <2>7, <2>8, <2>9, <2>10
<1>10. CASE r.state # "SUCCESS"
  <2>1. /\ \A t \in Sessions : InQueue(t)' <=> InQueue(t)
        /\ ~NodeQueued(Ends)' /\ NodeQueued({r.state}) /\ r.state \in Ends
        /\ \A S \in SUBSET Ends : NodeQueued(S) <=> r.state \in S
        /\ \A S \in SUBSET Ends : ~NodeQueued(S)'
    <3>1. r.state \in Ends
      BY <1>4, <1>10 DEF Ends
    <3>2. \A S \in SUBSET Ends : ~EndIn(Tail(poll.queue), S)
      BY <1>2, <1>10 DEF EndIn
    <3> QED BY <1>2, <1>7, <1>10, <3>1, <3>2
  <2>2. x.pc \in {"stop", "shutdown"} /\ x.s = NONE /\ x.pc \notin Holding
    BY <1>4, <1>10 DEF Holding, Ends
  <2>3. /\ \A t \in Sessions, pcs \in SUBSET Holding : With(t, pcs)' <=> With(t, pcs)
        /\ \A u, v \in Workers :
              /\ worker'[u].pc \in Holding /\ worker'[v].pc \in Holding
              /\ worker'[u].s # NONE /\ worker'[u].s = worker'[v].s
              => u = v
    BY <1>0, <1>6, <1>8, <2>2, OtherMoves
  <2>4. \A t \in Sessions : (Live(t)' <=> Live(t)) /\ (InKernel(t)' <=> InKernel(t))
    BY <2>1, <2>3, HoldingSets DEF Live, InKernel
  <2>5. Holders' = Holders
    BY <2>1, <2>3, HoldingSets DEF Holders
  <2>6. RefCounts'
    BY <1>8, <2>5 DEF RefCounts, ListEmpty
  <2>7. LiveIsListed'
    BY <2>4 DEF LiveIsListed, OneListed, ListShape, ListEmpty
  <2>8. OneStage'
    <3>1. \A v \in Workers :
             /\ worker'[v].pc \in {"unlist", "handle"} => worker'[v].s # NONE
             /\ worker'[v].pc \in {"off", "stop", "shutdown"} => worker'[v].s = NONE
      BY <1>6, <2>2 DEF Moves, OneStage
    <3> QED BY <2>1, <2>3, <2>4, <3>1, HoldingSets DEF OneStage
  <2>9. NodePath'
    <3>1. Quiet' <=> Quiet
      BY <1>3 DEF Quiet
    <3>2. worker'[Main] = worker[Main] /\ worker'[w] = x
      BY <1>0, <1>6 DEF Moves, Workers
    <3>3. \A v \in Handlers : worker'[v].pc \notin {"off", "unbound"}
      BY <1>6, <2>2 DEF Moves, NodePath, Workers
    <3>4. \A v \in Workers : v # w => (Ending(v)' <=> Ending(v))
      BY <1>6 DEF Moves, Ending, OwnReference
    <3>5. CASE r.state = "DELETED"
      <4>1. NodeDeleted /\ NotEnded /\ Quiet
        BY <2>1, <3>5, EndSets DEF NodePath, NodeAdded, NodeDeleted, NodeFailed, ServiceClosed
      <4>2. \A v \in Workers : Ending(v)' => v = w
        BY <3>4, <4>1 DEF NotEnded
      <4>3. NodeDeleted'
        BY <1>3, <1>4, <2>1, <3>1, <3>2, <3>5, <4>1, <4>2, EndSets DEF NodeDeleted
      <4> QED BY <3>2, <3>3, <4>3 DEF NodePath
    <3>6. CASE r.state # "DELETED"
      <4>1. r.state = "ERROR" /\ x.pc = "stop"
        BY <1>4, <2>1, <3>6 DEF Ends
      <4>2. \A v \in Workers : Ending(v)' <=> Ending(v)
        BY <1>8, <3>2, <3>4, <4>1 DEF Ending
      <4>3. CASE NodeFailed
        BY <2>1, <3>1, <3>2, <3>3, <4>2, <4>3, EndSets DEF NodePath, NodeFailed, NotEnded
      <4>4. CASE ServiceClosed
        BY <1>8, <2>1, <3>1, <3>2, <3>3, <4>2, <4>4, EndSets DEF NodePath, ServiceClosed
      <4> QED BY <2>1, <4>1, <4>3, <4>4, EndSets DEF NodePath, NodeAdded, NodeDeleted
    <3> QED BY <3>5, <3>6
  <2> QED BY <1>6, <1>7, <2>6, <2>7, <2>8, <2>9
<1> QED BY <1>9, <1>10

\* Nothing of the poller changes.
LEMMA SamePoll ==
    ASSUME poll' = poll
    PROVE  /\ PollType' = PollType /\ QueueShort' = QueueShort
           /\ \A S : NodeQueued(S)' = NodeQueued(S)
           /\ \A t : InQueue(t)' = InQueue(t)
  BY DEF PollType, QueueShort, NodeQueued, InQueue

\* handle_aio_result of a completion: the session is taken out of session_list.
LEMMA UnlistKeeps ==
    ASSUME IOInv, NEW w \in Workers, handle_aio_unlist(w)
    PROVE  IOInv'
<1> USE DEF IOInv, handle_aio_unlist
<1> DEFINE s == worker[w].s
           x == [pc |-> "handle", s |-> s]
<1>1. s \in Sessions /\ s # NONE /\ s # HEAD
  BY IOServiceAssumption DEF OneStage, IOTypes
<1>2. With(s, {"unlist"}) /\ Live(s) /\ s \in Holders
  BY <1>1 DEF With, Live, Holders, Holding
<1>3. heap' \in Heaps
  BY <1>1, HeapTypes DEF IOTypes
<1>5. Moves(w, x) /\ worker' \in [Workers -> [pc : Stages, s : Sessions \cup {NONE}]]
  BY WorkMoves DEF Stages
<1>6. service.unbound = 0 /\ ~bad' /\ bad' \in BOOLEAN
  BY <1>2, <1>1, Referenced, Harmless
<1>7. IOTypes'
  BY <1>3, <1>5, <1>6, SamePoll DEF IOTypes
<1> HIDE DEF s
<1>8. /\ \A t \in Sessions, pcs \in SUBSET Holding :
            With(t, pcs)' <=> (t # s /\ With(t, pcs)) \/ (t = s /\ "handle" \in pcs)
      /\ \A u, v \in Workers :
            /\ worker'[u].pc \in Holding /\ worker'[v].pc \in Holding
            /\ worker'[u].s # NONE /\ worker'[u].s = worker'[v].s
            => u = v
  <2>1. worker[w].pc \in Holding /\ worker[w].s = s /\ x.pc = "handle" /\ x.s = s
    BY DEF Holding, s
  <2> HIDE DEF x
  <2> QED BY <1>1, <1>5, <2>1, HolderMoves
<1>9. \A t \in Sessions :
         /\ With(t, {"unlist"})' <=> With(t, {"unlist"}) /\ t # s
         /\ With(t, {"handle"})' <=> With(t, {"handle"}) \/ t = s
         /\ With(t, {"decref"})' <=> With(t, {"decref"}) /\ t # s
         /\ With(t, Holding)' <=> With(t, Holding) \/ t = s
  BY <1>8, HoldingSets DEF Holding
<1>10. ~InKernel(s) /\ ~InQueue(s) /\ handled[s] = 0 /\ ~With(s, {"handle"}) /\ ~With(s, {"decref"})
       /\ user[s] = "accepted"
  <2>1. user[s] # "submitted"
    BY <1>1 DEF OneStage
  <2>2. user[s] \in {"none", "submitted", "accepted", "refused"}
    BY <1>1 DEF IOTypes
  <2> QED BY <1>1, <1>2, <2>1, <2>2, WithSplit DEF OneStage
<1>11. \A t \in Sessions : Live(t)' <=> Live(t) /\ t # s
  BY <1>9, <1>10, SamePoll DEF Live, InKernel
<1>12. LiveIsListed'
  <2>1. ASSUME ~crowded PROVE OneListed'
    <3>1. /\ heap.next[HEAD] = s /\ heap.prev[HEAD] = s
          /\ heap.next[s] = HEAD /\ heap.prev[s] = HEAD
      BY <1>1, <1>2, <2>1 DEF LiveIsListed, OneListed, ListShape
    <3>2. heap'.next[HEAD] = HEAD /\ heap'.prev[HEAD] = HEAD
      BY <1>1, <3>1 DEF IOTypes, Heaps, Cells, list_delete, s
    <3>3. \A t \in Sessions : Live(t) <=> t = s
      BY <1>1, <2>1, <3>1, IOServiceAssumption DEF LiveIsListed, OneListed
    <3> QED BY <1>11, <3>2, <3>3, IOServiceAssumption DEF OneListed, ListShape, ListEmpty
  <2> QED BY <2>1 DEF LiveIsListed
<1>13. OneStage'
  <2>1. \A v \in Workers :
           /\ worker'[v].pc \in {"unlist", "handle"} => worker'[v].s # NONE
           /\ worker'[v].pc \in {"off", "stop", "shutdown"} => worker'[v].s = NONE
    BY <1>1, <1>5 DEF Moves, OneStage
  <2>2. \A t \in Sessions : InKernel(t)' <=> InKernel(t)
    BY DEF InKernel
  <2>3. \A t \in Sessions : With(t, {"handle", "decref"})' <=> With(t, {"handle"})' \/ With(t, {"decref"})'
    BY DEF With
  <2> QED
    BY <1>8, <1>9, <1>10, <1>11, <2>1, <2>2, <2>3, SamePoll, WithSplit DEF OneStage
<1>14. RefCounts'
  <2>1. Holders' = Holders
    BY <1>2, <1>9, SamePoll DEF Holders
  <2>2. /\ \A v \in Workers : Draining(v)' <=> Draining(v)
        /\ \A v \in Workers : OwnReference(v)' <=> OwnReference(v)
    BY <1>1, <1>5 DEF Moves, Draining, OwnReference
  <2>3. Own' = Own
    BY <2>2 DEF Own
  <2> QED BY <1>6, <2>1, <2>2, <2>3 DEF RefCounts
<1>15. NodePath'
  <2>1. ~Ending(w)
    BY DEF Ending, OwnReference
  <2> QED BY <1>5, <2>1, SamePoll, PathOfOthers
<1> QED BY <1>6, <1>7, <1>12, <1>13, <1>14, <1>15, SamePoll

\* handle() is called for the session.
LEMMA HandleKeeps ==
    ASSUME IOInv, NEW w \in Workers, handle_aio_result(w)
    PROVE  IOInv'
<1> USE DEF IOInv, handle_aio_result
<1> DEFINE s == worker[w].s
           x == [pc |-> "decref", s |-> s]
<1>1. s \in Sessions /\ s # NONE
  BY DEF OneStage, IOTypes
<1>2. With(s, {"handle"}) /\ s \in Holders
  BY <1>1 DEF With, Holders, Holding
<1>3. Moves(w, x) /\ worker' \in [Workers -> [pc : Stages, s : Sessions \cup {NONE}]]
  BY WorkMoves DEF Stages
<1>4. /\ \A t \in Sessions : handled'[t] = IF t = s THEN handled[t] + 1 ELSE handled[t]
      /\ handled' \in [Sessions -> Nat]
  BY <1>1 DEF IOTypes
<1>5. IOTypes'
  BY <1>3, <1>4, SamePoll DEF IOTypes
<1> HIDE DEF s
<1>6. /\ \A t \in Sessions, pcs \in SUBSET Holding :
            With(t, pcs)' <=> (t # s /\ With(t, pcs)) \/ (t = s /\ "decref" \in pcs)
      /\ \A u, v \in Workers :
            /\ worker'[u].pc \in Holding /\ worker'[v].pc \in Holding
            /\ worker'[u].s # NONE /\ worker'[u].s = worker'[v].s
            => u = v
  <2>1. worker[w].pc \in Holding /\ worker[w].s = s /\ x.pc = "decref" /\ x.s = s
    BY DEF Holding, s
  <2> HIDE DEF x
  <2> QED BY <1>1, <1>3, <2>1, HolderMoves
<1>7. \A t \in Sessions :
         /\ With(t, {"unlist"})' <=> With(t, {"unlist"}) /\ t # s
         /\ With(t, {"handle"})' <=> With(t, {"handle"}) /\ t # s
         /\ With(t, {"decref"})' <=> With(t, {"decref"}) \/ t = s
         /\ With(t, {"handle", "decref"})' <=> With(t, {"handle", "decref"}) \/ t = s
         /\ With(t, Holding)' <=> With(t, Holding) \/ t = s
  BY <1>6, HoldingSets DEF Holding
<1>8. ~Live(s) /\ handled[s] = 0 /\ user[s] \notin {"none", "refused"}
  BY <1>1, <1>2, WithSplit DEF OneStage
<1>9. ~With(s, {"unlist"})
  BY <1>8 DEF Live
<1>10. \A t \in Sessions : (Live(t)' <=> Live(t)) /\ (InKernel(t)' <=> InKernel(t))
  BY <1>7, <1>9, SamePoll DEF Live, InKernel
<1>11. LiveIsListed'
  BY <1>10 DEF LiveIsListed, OneListed, ListShape, ListEmpty
<1>12. OneStage'
  <2>1. \A v \in Workers :
           /\ worker'[v].pc \in {"unlist", "handle"} => worker'[v].s # NONE
           /\ worker'[v].pc \in {"off", "stop", "shutdown"} => worker'[v].s = NONE
    BY <1>3 DEF Moves, OneStage
  <2>2. handled'[s] = 1 /\ \A t \in Sessions : t # s => handled'[t] = handled[t]
    BY <1>1, <1>4, <1>8
  <2>3. user' = user /\ kernel' = kernel /\ mutex' = mutex
    OBVIOUS
  <2> QED
    BY <1>6, <1>7, <1>8, <1>10, <2>1, <2>2, <2>3, SamePoll DEF OneStage
<1>13. RefCounts'
  <2>1. Holders' = Holders
    BY <1>2, <1>7, SamePoll DEF Holders
  <2>2. /\ \A v \in Workers : Draining(v)' <=> Draining(v)
        /\ \A v \in Workers : OwnReference(v)' <=> OwnReference(v)
    BY <1>1, <1>3 DEF Moves, Draining, OwnReference, s
  <2>3. Own' = Own
    BY <2>2 DEF Own
  <2> QED BY <2>1, <2>2, <2>3 DEF RefCounts, ListEmpty
<1>14. NodePath'
  <2>1. ~Ending(w)
    BY DEF Ending, OwnReference
  <2> QED BY <1>1, <1>3, <2>1, SamePoll, PathOfOthers
<1> QED BY <1>5, <1>11, <1>12, <1>13, <1>14, SamePoll

\* A worker moves that holds no session and no list or kernel is touched: what is
\* said about sessions stays.
LEMMA SessionsStay ==
    ASSUME IOInv, NEW w \in Workers, NEW x, Moves(w, x),
           worker[w].pc \notin Holding \/ worker[w].s = NONE,
           x.pc \notin Holding \/ x.s = NONE,
           x.pc \in {"off", "stop", "shutdown"} => x.s = NONE,
           x.pc \notin {"unlist", "handle"},
           poll'.queue = poll.queue,
           UNCHANGED <<heap, mutex, kernel, user, handled, crowded>>,
           mutex # NONE => service'.open
    PROVE  QueueShort' /\ LiveIsListed' /\ OneStage' /\ Holders' = Holders
<1> USE DEF IOInv
<1>1. /\ \A t \in Sessions, pcs \in SUBSET Holding : With(t, pcs)' <=> With(t, pcs)
      /\ \A u, v \in Workers :
            /\ worker'[u].pc \in Holding /\ worker'[v].pc \in Holding
            /\ worker'[u].s # NONE /\ worker'[u].s = worker'[v].s
            => u = v
  BY OtherMoves
<1>2. QueueShort' /\ \A t \in Sessions : InQueue(t)' <=> InQueue(t)
  BY DEF QueueShort, InQueue
<1>3. \A t \in Sessions : (Live(t)' <=> Live(t)) /\ (InKernel(t)' <=> InKernel(t))
  BY <1>1, <1>2, HoldingSets DEF Live, InKernel
<1>4. Holders' = Holders
  BY <1>1, <1>2, HoldingSets DEF Holders
<1>5. LiveIsListed'
  BY <1>3 DEF LiveIsListed, OneListed, ListShape, ListEmpty
<1>6. \A v \in Workers :
         /\ worker'[v].pc \in {"unlist", "handle"} => worker'[v].s # NONE
         /\ worker'[v].pc \in {"off", "stop", "shutdown"} => worker'[v].s = NONE
  BY DEF Moves, OneStage
<1>7. OneStage'
  BY <1>1, <1>2, <1>3, <1>6, HoldingSets DEF OneStage
<1> QED BY <1>2, <1>4, <1>5, <1>7

\* handle_stop_result tells the owner that the node failed.
LEMMA HandleStopKeeps ==
    ASSUME IOInv, NEW w \in Workers, handle_stop(w)
    PROVE  IOInv'
<1> USE DEF IOInv, handle_stop
<1>1. ~Ending(w) /\ ~Draining(w)
  BY DEF Ending, OwnReference, Draining
<1>2. Moves(w, Finished(w)) /\ worker' \in [Workers -> [pc : Stages, s : Sessions \cup {NONE}]]
  BY FinishMoves
<1>3. Finished(w).pc \in {"get", "unbound"} /\ Finished(w).s = NONE
  BY DEF Finished
<1>4. IOTypes'
  BY <1>2, SamePoll DEF IOTypes
<1>5. QueueShort' /\ LiveIsListed' /\ OneStage' /\ Holders' = Holders
  <2>1. mutex # NONE => service'.open
    BY DEF LiveIsListed
  <2> QED BY <1>2, <1>3, <2>1, SessionsStay DEF Holding
<1>6. RefCounts'
  <2>1. \A v \in Workers : (Draining(v)' <=> Draining(v)) /\ (OwnReference(v)' <=> OwnReference(v))
    BY <1>1, <1>2, <1>3 DEF Moves, Draining, OwnReference
  <2>2. Own' = Own
    BY <2>1 DEF Own
  <2> QED BY <1>5, <2>1, <2>2 DEF RefCounts, ListEmpty
<1>7. NodePath'
  <2>1. Finished(w) # [pc |-> "decref", s |-> NONE]
    BY <1>3
  <2> QED BY <1>1, <1>2, <1>3, <2>1, SamePoll, PathOfOthers
<1> QED BY <1>4, <1>5, <1>6, <1>7

\* shutdown_io_service, by a handler thread or by io_unbind.
LEMMA ShutdownKeeps ==
    ASSUME IOInv, NEW w \in Workers, shutdown_io_service(w)
    PROVE  IOInv'
<1> USE DEF IOInv, shutdown_io_service
<1> DEFINE x == [pc |-> "decref", s |-> NONE]
<1>1. /\ Quiet /\ ~NodeQueued({"DELETED"}) /\ service.open /\ worker[Main].pc # "off"
      /\ \A v \in Workers : Ending(v) => v = w
  <2>1. Ending(w)
    BY DEF Ending
  <2>2. ~NodeAdded /\ ~ServiceClosed
    BY <2>1 DEF NodeAdded, ServiceClosed, NotEnded, OwnReference
  <2>3. CASE NodeDeleted
    BY <2>1, <2>3, EndSets DEF NodeDeleted, NotEnded
  <2>4. CASE NodeFailed
    BY <2>1, <2>4 DEF NodeFailed, NotEnded
  <2> QED BY <2>2, <2>3, <2>4 DEF NodePath
<1>2. Moves(w, x) /\ worker' \in [Workers -> [pc : Stages, s : Sessions \cup {NONE}]]
  <2>1. worker[w].s = NONE
    BY DEF OneStage
  <2> QED BY <2>1, WorkMoves DEF Stages
<1>3. service.unbound = 0 /\ ~bad' /\ bad' \in BOOLEAN
  BY <1>1, Referenced, Harmless
<1>4. /\ service'.open = FALSE
      /\ service'.ref = service.ref /\ service'.unbound = service.unbound
  BY DEF IOTypes
<1>5. IOTypes'
  BY <1>2, <1>3, SamePoll DEF IOTypes
<1>6. QueueShort' /\ LiveIsListed' /\ OneStage' /\ Holders' = Holders
  BY <1>2, SessionsStay DEF Holding
<1>7. /\ OwnReference(w)' /\ \A v \in Workers : Ending(v)' <=> v = w
      /\ \A v \in Workers : Draining(v)' <=> Draining(v)
      /\ worker'[Main].pc # "off"
  BY <1>1, <1>2 DEF Moves, OwnReference, Ending, Draining, Workers
<1>8. RefCounts'
  <2>1. Own = 1 /\ Own' = 1
    BY <1>1, <1>7 DEF Own
  <2> QED BY <1>4, <1>6, <1>7, <2>1 DEF RefCounts, ListEmpty
<1>9. NodePath'
  <2>1. /\ worker'[Main].pc # "get"
        /\ \A v \in Handlers : worker'[v].pc \notin {"off", "unbound"}
    BY <1>2 DEF Moves, NodePath, Workers
  <2> QED BY <1>1, <1>4, <1>7, <2>1, SamePoll DEF NodePath, ServiceClosed, Quiet
<1> QED BY <1>3, <1>5, <1>6, <1>8, <1>9

LEMMA UnbindKeeps ==
    ASSUME IOInv, io_unbind
    PROVE  IOInv'
<1> USE DEF IOInv, io_unbind
<1> DEFINE pc == IF Registered(poll, event_fd) THEN "unbound" ELSE "shutdown"
           x == [pc |-> pc, s |-> NONE]
<1>0. Main \in Workers /\ worker[Main].s = NONE /\ worker[Main].pc = "off"
  BY DEF OneStage, Workers
<1>1. poll.table[event_fd] = "event" => NodeAdded
  BY DEF NodePath, NodeDeleted, NodeFailed, ServiceClosed, Quiet
<1>2. /\ PollType'
      /\ PollFields("none",
                    IF poll.table[event_fd] = "none" THEN poll.pipe[0]
                    ELSE <<Result(event_fd, "event", "DELETED", NONE)>>,
                    poll.batch[0], poll.queue)
  BY <1>1, DelFacts DEF IOTypes, NodeAdded
<1>3. pc \in Stages /\ pc \in {"unbound", "shutdown"}
      /\ (pc = "unbound" <=> poll.table[event_fd] = "event")
  BY DEF Stages, Registered, IOTypes, PollType
<1> HIDE DEF pc
<1>4. Moves(Main, x) /\ worker' \in [Workers -> [pc : Stages, s : Sessions \cup {NONE}]]
  <2>1. Work(Main, pc)
    BY DEF pc
  <2> QED BY <1>0, <1>3, <2>1, WorkMoves
<1>5. IOTypes'
  BY <1>2, <1>4 DEF IOTypes
<1>6. poll'.queue = poll.queue /\ \A S : NodeQueued(S)' <=> NodeQueued(S)
  BY <1>2 DEF PollFields, NodeQueued
<1>7. QueueShort' /\ LiveIsListed' /\ OneStage' /\ Holders' = Holders
  <2>1. mutex # NONE => service'.open
    BY DEF LiveIsListed
  <2> QED BY <1>0, <1>3, <1>4, <1>6, <2>1, SessionsStay DEF Holding
<1>8. RefCounts'
  <2>1. \A v \in Workers : (Draining(v)' <=> Draining(v)) /\ (OwnReference(v)' <=> OwnReference(v))
    BY <1>0, <1>3, <1>4 DEF Moves, Draining, OwnReference
  <2>2. Own' = Own
    BY <2>1 DEF Own
  <2> QED BY <1>7, <2>1, <2>2 DEF RefCounts, ListEmpty
<1>9. NodePath'
  <2>0. /\ \A v \in Handlers : worker'[v] = worker[v]
        /\ worker'[Main] = x
    BY <1>0, <1>4, IOServiceAssumption DEF Moves, Workers
  <2>1. CASE poll.table[event_fd] = "event"
    <3>1. NodeAdded /\ worker'[Main].pc = "unbound"
      BY <1>1, <1>3, <2>0, <2>1
    <3>2. NotEnded'
      BY <1>4, <3>1 DEF NotEnded, Ending, OwnReference, Moves, NodeAdded
    <3>3. poll'.pipe[0] # <<>>
      BY <1>2, <2>1 DEF PollFields
    <3> QED BY <1>2, <1>6, <2>0, <3>1, <3>2, <3>3, EndSets
            DEF PollFields, NodePath, NodeAdded, NodeDeleted
  <2>2. CASE poll.table[event_fd] = "none"
    <3>1. worker'[Main].pc = "shutdown"
      BY <1>3, <2>0, <2>2 DEF Registered
    <3>2. NodeFailed /\ NotEnded
      BY <1>0, <2>2, <3>1 DEF NodePath, NodeAdded, NodeDeleted, NodeFailed, ServiceClosed
    <3>3. \A v \in Workers : Ending(v)' => v = Main
      BY <1>4, <3>2 DEF NotEnded, Ending, OwnReference, Moves
    <3> QED BY <1>2, <1>6, <2>0, <2>2, <3>1, <3>2, <3>3
            DEF PollFields, NodePath, NodeFailed, Quiet
  <2> QED BY <2>1, <2>2 DEF IOTypes, PollType
<1> QED BY <1>5, <1>7, <1>8, <1>9

\* decref goes on to the loop, or the worker is done with the result.
AfterDecref(w) ==
    IF service.ref = 1 THEN [pc |-> "drain", s |-> worker[w].s] ELSE Finished(w)

LEMMA DecrefMoves ==
    ASSUME IOInv, NEW w \in Workers, decref(w)
    PROVE  /\ Moves(w, AfterDecref(w)) /\ AfterDecref(w).pc \in {"drain", "get", "unbound"}
           /\ AfterDecref(w).pc = "drain" <=> service.ref = 1
           /\ worker' \in [Workers -> [pc : Stages, s : Sessions \cup {NONE}]]
<1> USE DEF IOInv, decref
<1>1. CASE service.ref = 1
  BY <1>1, WorkMoves DEF AfterDecref, Stages
<1>2. CASE service.ref # 1
  BY <1>2, FinishMoves DEF AfterDecref, Finished
<1> QED BY <1>1, <1>2

\* The reference count goes down with the holders, or with the own reference.
LEMMA DecrefCounts ==
    ASSUME IOInv, NEW w \in Workers, decref(w),
           IsFiniteSet(Holders'),
           Own' + Cardinality(Holders') = Own + Cardinality(Holders) - 1,
           service.ref > 0, service.unbound = 0, \A v \in Workers : ~Draining(v)
    PROVE  RefCounts'
<1> USE DEF IOInv, decref
<1>1. /\ service'.ref = service.ref - 1 /\ service'.unbound = 0
      /\ service.ref \in Int
  BY DEF IOTypes
<1>2. service'.ref = Own' + Cardinality(Holders')
  <2>1. service.ref = Own + Cardinality(Holders)
    BY DEF RefCounts
  <2>2. /\ Own \in Int /\ Cardinality(Holders) \in Int
        /\ Own' \in Int /\ Cardinality(Holders') \in Int
    BY FS_CardinalityType DEF Own, RefCounts
  <2> HIDE DEF IOInv, decref
  <2> QED BY <1>1, <2>1, <2>2
<1>3. \A v \in Workers : Draining(v)' <=> v = w /\ service.ref = 1
  BY DecrefMoves DEF Draining, Moves
<1>4. service'.ref = 0 <=> service.ref = 1
  BY <1>1
<1> QED BY <1>1, <1>2, <1>3, <1>4 DEF RefCounts

LEMMA DecrefKeeps ==
    ASSUME IOInv, NEW w \in Workers, decref(w)
    PROVE  IOInv'
<1> USE DEF IOInv, decref
<1> DEFINE s == worker[w].s
           x == AfterDecref(w)
<1>1. /\ Moves(w, x) /\ x.pc \in {"drain", "get", "unbound"}
      /\ x.pc = "drain" <=> service.ref = 1
      /\ worker' \in [Workers -> [pc : Stages, s : Sessions \cup {NONE}]]
  BY DecrefMoves
<1>2. /\ OwnReference(w) <=> s = NONE
      /\ s \in Sessions => s \in Holders
      /\ s \in Sessions \cup {NONE}
  BY DEF IOTypes, OwnReference, Holders, With, Holding
<1>3. /\ service.ref > 0 /\ service.unbound = 0
      /\ \A v \in Workers : ~Draining(v)
      /\ ~bad' /\ bad' \in BOOLEAN
  BY <1>2, Referenced, Harmless
<1>4. /\ service'.open = service.open
  BY DEF IOTypes
<1>5. IOTypes'
  BY <1>1, <1>3, SamePoll DEF IOTypes
<1>6. Own \in Nat /\ IsFiniteSet(Holders) /\ Cardinality(Holders) \in Nat
  BY FS_CardinalityType DEF RefCounts, Own
<1>7. \A v \in Workers : OwnReference(v)' <=> OwnReference(v) /\ v # w
  BY <1>1 DEF Moves, OwnReference
<1> HIDE DEF x, s
<1>8. CASE s = NONE
  <2>1. ServiceClosed /\ \A v \in Workers : Ending(v) => v = w
    <3>1. Ending(w) /\ worker[w].pc = "decref"
      BY <1>2, <1>8 DEF Ending
    <3>2. ~NodeAdded
      BY <3>1 DEF NodeAdded, NotEnded
    <3>3. ~NodeDeleted
      BY <3>1 DEF NodeDeleted, NotEnded
    <3>4. ~NodeFailed
      BY <3>1 DEF NodeFailed, NotEnded
    <3> QED BY <3>1, <3>2, <3>3, <3>4 DEF NodePath, ServiceClosed
  <2>2. QueueShort' /\ LiveIsListed' /\ OneStage' /\ Holders' = Holders
    <3>1. mutex # NONE => service'.open
      BY <1>4 DEF LiveIsListed
    <3>2. worker[w].s = NONE /\ x.pc \notin Holding
      BY <1>1, <1>8 DEF s, Holding
    <3> QED BY <1>1, <3>1, <3>2, SessionsStay
  <2>3. Own = 1 /\ Own' = 0
    <3>1. \A v \in Workers : OwnReference(v) => v = w
      BY <2>1 DEF Ending
    <3> QED BY <1>2, <1>4, <1>7, <1>8, <2>1, <3>1 DEF Own, ServiceClosed
  <2>4. RefCounts'
    BY <1>3, <1>6, <2>2, <2>3, DecrefCounts
  <2>5. NodePath'
    <3>1. \A v \in Workers : ~Ending(v)'
      BY <1>1, <1>7, <2>1 DEF Ending, Moves, ServiceClosed
    <3>2. x = Finished(w) \/ x.pc = "drain"
      BY DEF AfterDecref, x
    <3>3. /\ worker'[Main].pc \notin {"off", "get"}
          /\ \A v \in Handlers : worker'[v].pc \notin {"off", "unbound"}
      BY <1>1, <2>1, <3>2, IOServiceAssumption DEF Moves, Finished, NodePath, ServiceClosed, Workers
    <3> QED BY <1>4, <2>1, <3>1, <3>3, SamePoll DEF NodePath, ServiceClosed, Quiet
  <2> QED BY <1>3, <1>5, <2>2, <2>4, <2>5
<1>9. CASE s \in Sessions
  <2>1. With(s, {"decref"}) /\ worker[w].pc \in Holding /\ s \in Holders
    BY <1>2, <1>9 DEF With, Holding, s
  <2>2. /\ \A t \in Sessions, pcs \in SUBSET Holding : With(t, pcs)' <=> t # s /\ With(t, pcs)
        /\ \A u, v \in Workers :
              /\ worker'[u].pc \in Holding /\ worker'[v].pc \in Holding
              /\ worker'[u].s # NONE /\ worker'[u].s = worker'[v].s
              => u = v
    <3>1. x.pc \notin Holding
      BY <1>1 DEF Holding
    <3>2. worker[w].s = s
      BY DEF s
    <3> QED BY <1>1, <1>9, <2>1, <3>1, <3>2, HolderMoves
  <2>3. handled[s] = 1 /\ ~Live(s)
    BY <1>9, <2>1, WithSplit DEF OneStage
  <2>4. \A t \in Sessions : (Live(t)' <=> Live(t)) /\ (InKernel(t)' <=> InKernel(t))
    BY <2>2, <2>3, SamePoll, HoldingSets DEF Live, InKernel
  <2>5. Holders' = Holders \ {s}
    <3>1. ~InQueue(s)
      BY <2>3 DEF Live
    <3> QED BY <2>2, <3>1, SamePoll, HoldingSets DEF Holders
  <2>6. /\ IsFiniteSet(Holders') /\ Cardinality(Holders') = Cardinality(Holders) - 1
    BY <1>6, <2>1, <2>5, FS_RemoveElement
  <2>7. Own' = Own
    <3>1. ~OwnReference(w)
      BY <1>2, <1>9, IOServiceAssumption
    <3> QED BY <1>4, <1>7, <3>1 DEF Own
  <2>8. RefCounts'
    BY <1>3, <1>6, <2>6, <2>7, DecrefCounts
  <2>9. LiveIsListed'
    BY <1>4, <2>4 DEF LiveIsListed, OneListed, ListShape, ListEmpty
  <2>10. OneStage'
    <3>1. \A v \in Workers :
             /\ worker'[v].pc \in {"unlist", "handle"} => worker'[v].s # NONE
             /\ worker'[v].pc \in {"off", "stop", "shutdown"} => worker'[v].s = NONE
      BY <1>1 DEF Moves, OneStage
    <3> QED BY <2>2, <2>3, <2>4, <3>1, SamePoll, HoldingSets DEF OneStage
  <2>11. NodePath'
    <3>1. ~Ending(w) /\ x # [pc |-> "decref", s |-> NONE]
      BY <1>1, <1>2, <1>9, IOServiceAssumption DEF Ending
    <3>2. x = Finished(w) \/ x.pc = "drain"
      BY DEF AfterDecref, x
    <3> QED BY <1>1, <1>4, <3>1, <3>2, SamePoll, PathOfOthers
  <2> QED BY <1>3, <1>5, <2>8, <2>9, <2>10, <2>11, SamePoll
<1> QED BY <1>2, <1>8, <1>9

\* The service was closed when somebody is in the loop of decref.
LEMMA DrainFacts ==
    ASSUME IOInv, NEW w \in Workers, Draining(w)
    PROVE  /\ service.ref = 0 /\ service.unbound = 0 /\ ~service.open
           /\ mutex = NONE /\ Holders = {}
           /\ \A v \in Workers : Draining(v) => v = w
           /\ \A t \in Sessions : Live(t) => InKernel(t)
           /\ \A t \in Sessions : ~With(t, Holding)
<1>1. Own \in Nat /\ IsFiniteSet(Holders) /\ Cardinality(Holders) \in Nat
  BY FS_CardinalityType DEF IOInv, RefCounts, Own
<1>2. service.ref = 0 /\ service.unbound = 0 /\ \A v \in Workers : Draining(v) => v = w
  BY DEF IOInv, RefCounts
<1>3. Own = 0 /\ Cardinality(Holders) = 0
  BY <1>1, <1>2 DEF IOInv, RefCounts
<1>4. Holders = {}
  BY <1>1, <1>3, FS_EmptySet
<1>5. ~service.open
  BY <1>3 DEF Own
<1>6. mutex = NONE
  BY <1>5 DEF IOInv, LiveIsListed
<1>7. \A t \in Sessions : ~With(t, Holding) /\ ~InQueue(t)
  BY <1>4 DEF Holders
<1>8. \A t \in Sessions : Live(t) => InKernel(t)
  BY <1>7, WithSplit DEF Live
<1> QED BY <1>2, <1>4, <1>5, <1>6, <1>7, <1>8

LEMMA DrainKeeps ==
    ASSUME IOInv, NEW w \in Workers, decref_drain(w)
    PROVE  IOInv'
<1> USE DEF IOInv, decref_drain
<1>1. PICK s \in Sessions : /\ Fetch(s)
                            /\ heap' = list_delete(heap, s)
                            /\ handled' = [handled EXCEPT ![s] = @ + 1]
  OBVIOUS
<1>2. Draining(w)
  BY DEF Draining
<1>3. InKernel(s) /\ Live(s) /\ s # HEAD /\ s # NONE /\ handled[s] = 0
  BY <1>1, IOServiceAssumption DEF Fetch, InKernel, Live, OneStage
<1>5. heap' \in Heaps
  BY <1>1, HeapTypes DEF IOTypes
<1>6. ~bad' /\ bad' \in BOOLEAN
  BY <1>2, DrainFacts, Harmless
<1>7. /\ \A t \in Sessions : handled'[t] = IF t = s THEN 1 ELSE handled[t]
      /\ handled' \in [Sessions -> Nat]
  BY <1>1, <1>3 DEF IOTypes
<1>8. IOTypes'
  BY <1>1, <1>5, <1>6, <1>7, SamePoll DEF IOTypes, Fetch
<1>9. /\ \A t, pcs : With(t, pcs)' = With(t, pcs)
      /\ \A v \in Workers : OwnReference(v)' = OwnReference(v)
      /\ \A v \in Workers : Draining(v)' = Draining(v)
      /\ Holders' = Holders
  BY DEF With, OwnReference, Draining, Holders, InQueue
<1>10. \A t \in Sessions : InKernel(t)' <=> InKernel(t) /\ t # s
  BY <1>1 DEF InKernel, Fetch, IOTypes, OneStage
<1>11. ~InQueue(s) /\ ~With(s, Holding) /\ ~With(s, {"unlist"}) /\ ~With(s, {"handle"})
       /\ ~With(s, {"decref"}) /\ user[s] \notin {"none", "refused"}
  BY <1>2, <1>3, DrainFacts, WithSplit DEF OneStage
<1>12. \A t \in Sessions : Live(t)' <=> Live(t) /\ t # s
  BY <1>9, <1>10, <1>11, SamePoll DEF Live
<1>13. LiveIsListed'
  <2>1. mutex = NONE
    BY <1>2, DrainFacts
  <2>2. ASSUME ~crowded PROVE OneListed'
    <3>1. /\ heap.next[HEAD] = s /\ heap.prev[HEAD] = s
          /\ heap.next[s] = HEAD /\ heap.prev[s] = HEAD
      BY <1>3, <2>1, <2>2 DEF LiveIsListed, OneListed, ListShape
    <3>2. heap'.next[HEAD] = HEAD /\ heap'.prev[HEAD] = HEAD
      BY <1>1, <1>3, <3>1 DEF IOTypes, Heaps, Cells, list_delete
    <3>3. \A t \in Sessions : Live(t) <=> t = s
      BY <1>3, <2>1, <2>2, <3>1, IOServiceAssumption DEF LiveIsListed, OneListed
    <3> QED BY <1>12, <2>1, <3>2, <3>3, IOServiceAssumption DEF OneListed, ListShape, ListEmpty
  <2> QED BY <2>1, <2>2 DEF LiveIsListed
<1>14. OneStage'
  <2>1. \A t \in Sessions : ~(t \in kernel'.busy /\ t \in kernel'.done)
    BY <1>1 DEF Fetch, OneStage, IOTypes
  <2>2. mutex = NONE /\ \A t \in Sessions : t # NONE
    BY <1>2, DrainFacts, IOServiceAssumption
  <2> QED BY <1>3, <1>7, <1>9, <1>10, <1>11, <1>12, <2>1, <2>2, SamePoll, WithSplit DEF OneStage
<1>15. RefCounts'
  <2>1. Own' = Own
    BY <1>9 DEF Own
  <2> QED BY <1>2, <1>9, <2>1, DrainFacts DEF RefCounts
<1>16. NodePath'
  BY PathUnchanged
<1> QED BY <1>6, <1>8, <1>13, <1>14, <1>15, <1>16, SamePoll

LEMMA UnboundKeeps ==
    ASSUME IOInv, NEW w \in Workers, handle_unbound(w)
    PROVE  IOInv'
<1> USE DEF IOInv, handle_unbound
<1>1. Draining(w)
  BY DEF Draining
<1>2. /\ Moves(w, Finished(w))
      /\ worker' \in [Workers -> [pc : Stages, s : Sessions \cup {NONE}]]
  BY FinishMoves
<1>3. /\ service'.open = service.open
      /\ service'.ref = 0 /\ service'.unbound = 1
  BY <1>1, DrainFacts DEF IOTypes
<1>4. IOTypes'
  BY <1>2, SamePoll DEF IOTypes
<1>5. Finished(w).pc \in {"get", "unbound"}
  BY DEF Finished
<1>6. QueueShort' /\ LiveIsListed' /\ OneStage' /\ Holders' = Holders
  BY <1>1, <1>2, <1>5, DrainFacts, SessionsStay DEF Holding
<1>7. RefCounts'
  <2>1. \A v \in Workers : ~Draining(v)' /\ (OwnReference(v)' <=> OwnReference(v))
    BY <1>1, <1>2, <1>5, DrainFacts DEF Moves, Draining, OwnReference
  <2>2. Own' = Own
    BY <1>3, <2>1 DEF Own
  <2> QED BY <1>1, <1>3, <1>6, <2>1, <2>2, DrainFacts DEF RefCounts, ListEmpty
<1>8. NodePath'
  <2>1. ~Ending(w) /\ Finished(w) # [pc |-> "decref", s |-> NONE]
    BY <1>5 DEF Ending, OwnReference
  <2> QED BY <1>2, <1>3, <1>5, <2>1, SamePoll, PathOfOthers
<1> QED BY <1>4, <1>6, <1>7, <1>8, SamePoll

-----------------------------------------------------------------------------
(* The theorems.                                                           *)

LEMMA InvInit == Init => IOInv
<1> SUFFICES ASSUME Init PROVE IOInv
  OBVIOUS
<1>1. /\ poll.table = [f \in {event_fd} |-> "event"]
      /\ poll.pipe = [i \in {0} |-> <<>>] /\ poll.batch = [i \in {0} |-> {}]
      /\ poll.has_pipe = [i \in {0} |-> FALSE]
      /\ poll.queue = <<>>
      /\ poll = [table |-> poll.table, pipe |-> poll.pipe, batch |-> poll.batch,
                 has_pipe |-> poll.has_pipe, queue |-> poll.queue]
  BY OnePoller DEF Init, mpoller_add, NewGroup
<1>2. PollType
  BY <1>1, EmptySeq DEF PollType
<1>3. /\ Main \in Workers
      /\ worker = [w \in Workers |-> [pc |-> IF w = Main THEN "off" ELSE "get", s |-> NONE]]
  BY DEF Init, Getting, Workers
<1>4. \A w \in Workers : /\ worker[w] = [pc |-> IF w = Main THEN "off" ELSE "get", s |-> NONE]
                         /\ worker[w] \in [pc : Stages, s : Sessions \cup {NONE}]
                         /\ worker[w].pc \in {"off", "get"} /\ worker[w].s = NONE
  BY <1>3 DEF Stages
<1>5. IOTypes
  <2>1. worker \in [Workers -> [pc : Stages, s : Sessions \cup {NONE}]]
    BY <1>3, <1>4
  <2>2. heap \in Heaps
    BY DEF Init, Heaps
  <2>3. /\ at \in [pc : {"wait", "finish"}, cnt : Nat]
        /\ service \in [ref : Int, open : BOOLEAN, unbound : Nat]
        /\ kernel \in [busy : SUBSET Sessions, done : SUBSET Sessions]
        /\ user \in [Sessions -> {"none", "submitted", "accepted", "refused"}]
        /\ handled \in [Sessions -> Nat]
    BY DEF Init
  <2> QED BY <1>2, <2>1, <2>2, <2>3 DEF IOTypes, Init
<1>6. /\ QueueShort /\ \A s \in Sessions : ~InQueue(s)
      /\ ~NodeQueued(Ends)
  BY <1>1 DEF QueueShort, Short, InQueue, CompletionIn, NodeQueued, EndIn
<1>7. \A s \in Sessions, pcs \in SUBSET Holding : ~With(s, pcs)
  BY <1>4 DEF With, Holding
<1>8. \A s \in Sessions : ~Live(s) /\ ~InKernel(s)
  BY <1>6, <1>7, HoldingSets DEF Live, InKernel, Init
<1>9. LiveIsListed
  BY <1>8, IOServiceAssumption DEF LiveIsListed, OneListed, ListShape, ListEmpty, Cells, Init
<1>10. OneStage
  BY <1>4, <1>6, <1>7, <1>8, HoldingSets, IOServiceAssumption DEF OneStage, InKernel, Init
<1>11. NodePath
  <2>1. NotEnded
    <3>1. \A w \in Workers : worker[w].pc # "decref" /\ worker[w].pc \notin {"stop", "shutdown"}
      BY <1>4
    <3> QED BY <3>1 DEF NotEnded, Ending, OwnReference
  <2> QED BY <1>1, <1>3, <1>4, <1>6, <2>1, IOServiceAssumption DEF NodePath, NodeAdded, Workers, Init
<1>12. RefCounts
  <2>1. Holders = {}
    BY <1>6, <1>7, HoldingSets DEF Holders
  <2>2. Own = 1
    BY DEF Own, Init
  <2>3. IsFiniteSet(Holders) /\ Cardinality(Holders) = 0
    BY <2>1, FS_EmptySet
  <2>4. \A w \in Workers : ~Draining(w)
    BY <1>4 DEF Draining
  <2> QED BY <2>2, <2>3, <2>4 DEF RefCounts, Init
<1> QED BY <1>5, <1>6, <1>9, <1>10, <1>11, <1>12 DEF IOInv, Init

\* The steps that the code defines; the last one of a behaviour changes nothing.
LEMMA NextSteps ==
    ASSUME [Next]_vars
    PROVE  Step \/ UNCHANGED state
  BY DEF Next, Defined, Undefined, vars

LEMMA InvNext == IOInv /\ [Next]_vars => IOInv'
<1> SUFFICES ASSUME IOInv, [Next]_vars PROVE IOInv'
  OBVIOUS
<1>1. CASE UNCHANGED state
  <2>1. /\ QueueShort' /\ RefCounts' /\ LiveIsListed' /\ OneStage' /\ ~bad'
    BY <1>1, PollerLeaves DEF state
  <2>2. NodePath'
    BY <1>1, PathUnchanged DEF state, IOInv
  <2>3. IOTypes'
    BY <1>1, SamePoll DEF state, IOInv, IOTypes
  <2> QED BY <2>1, <2>2, <2>3 DEF IOInv
<1>2. CASE Step
  <2>1. ASSUME NEW s \in Sessions, request(s) \/ request_list(s) \/ complete(s) PROVE IOInv'
    BY <2>1, RequestKeeps, RequestListKeeps, CompleteKeeps
  <2>2. CASE PollerStep
    BY <2>2, EpollWaitKeeps, PipeKeeps, EventKeeps, FinishKeeps, EventDoneKeeps DEF PollerStep
  <2>3. ASSUME NEW w \in Workers, Handler(w) PROVE IOInv'
    BY <2>3, UnlistKeeps, HandleKeeps, HandleStopKeeps, ShutdownKeeps, DecrefKeeps,
       DrainKeeps, UnboundKeeps DEF Handler
  <2> QED BY <1>2, <2>1, <2>2, <2>3, RoutineKeeps, UnbindKeeps DEF Step
<1> QED BY <1>1, <1>2, NextSteps

LEMMA InvAlways == Spec => []IOInv
  BY InvInit, InvNext, PTL DEF Spec

\* The poller thread and the handlers use the service only before its
\* handle_unbound, which is called once: the thread that brings ref to zero is
\* the last one that has a reference, and the poller has none left to take.
THEOREM UnboundIsLast == Spec => []NoUseAfterUnbound
<1>1. IOInv => NoUseAfterUnbound
  BY DEF IOInv, RefCounts, NoUseAfterUnbound
<1> QED BY <1>1, InvAlways, PTL

\* handle is called at most once for each session and never for a refused one,
\* however many are outstanding; and once before handle_unbound for every session
\* that was accepted, unless two were outstanding, when list_add_tail breaks
\* session_list.
THEOREM EverySessionHandled == Spec => []HandledBeforeUnbound
<1>1. IOInv => HandledBeforeUnbound
  <2> SUFFICES ASSUME IOInv PROVE HandledBeforeUnbound
    OBVIOUS
  <2> USE DEF IOInv
  <2>1. \A s \in Sessions : handled[s] <= IF user[s] = "refused" THEN 0 ELSE 1
    <3> SUFFICES ASSUME NEW s \in Sessions
                 PROVE  handled[s] <= IF user[s] = "refused" THEN 0 ELSE 1
      OBVIOUS
    <3>1. user[s] = "submitted" => Live(s)
      BY DEF OneStage
    <3>2. handled[s] \in {0, 1} /\ (user[s] = "refused" => handled[s] = 0)
      BY <3>1 DEF OneStage, IOTypes
    <3> QED BY <3>2
  <2>2. ASSUME ~crowded, NEW s \in Sessions, service.unbound > 0, user[s] = "accepted"
        PROVE  handled[s] = 1
    <3>1. service.unbound = 1 /\ ListEmpty /\ service.ref = 0
      BY <2>2 DEF RefCounts
    <3>2. ~service.open /\ Holders = {}
      BY <3>1, Referenced DEF Holders
    <3>3. ~Live(s)
      <4>1. mutex = NONE
        BY <3>2 DEF LiveIsListed
      <4> QED BY <2>2, <3>1, <4>1, IOServiceAssumption DEF LiveIsListed, OneListed, ListEmpty
    <3>4. ~With(s, {"handle"})
      BY <3>2, WithSplit DEF Holders
    <3> QED BY <2>2, <3>3, <3>4 DEF OneStage
  <2> QED BY <2>1, <2>2 DEF HandledBeforeUnbound, AllHandled
<1> QED BY <1>1, InvAlways, PTL

\* The reference count is exact: one for the service until it was shut down, and
\* one for each completion that the poller has fetched and no handler has
\* released.
THEOREM RefIsExact == Spec => [](service.ref = Own + Cardinality(Holders))
<1>1. IOInv => service.ref = Own + Cardinality(Holders)
  BY DEF IOInv, RefCounts
<1> QED BY <1>1, InvAlways, PTL
=============================================================================
