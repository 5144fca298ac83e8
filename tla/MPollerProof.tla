---------------------------- MODULE MPollerProof ----------------------------
(***************************************************************************)
(* Lemmas about the operations of a poller group, shared by the proofs     *)
(* about the two sides of the communicator.                                *)
(*                                                                         *)
(* What they follow is one node.  From mpoller_add on, the node of a       *)
(* descriptor is at one place at a time: in the table, in the pipe of its  *)
(* poller, or in the message queue as the result that ends it, until a     *)
(* handler takes it.  Every operation moves the node of one descriptor at  *)
(* most by one place along this way, and leaves the others where they are. *)
(***************************************************************************)
EXTENDS MPoller, FiniteSetTheorems, SequenceTheorems, TLAPS

-----------------------------------------------------------------------------
(* What a sequence holds of a set of results.                              *)

\* No element of q is in S.
None(q, S) == \A i \in DOMAIN q : q[i] \notin S

\* One element of q is in S, and that one is in T.
Only(q, S, T) ==
    \E i \in DOMAIN q : /\ q[i] \in S /\ q[i] \in T
                        /\ \A j \in DOMAIN q : q[j] \in S => j = i

\* What is at a place is in q, when q is that place.
Slot(q, S, T, place, here) == IF place = here THEN Only(q, S, T) ELSE None(q, S)

\* Appending a result.
LEMMA SlotAppend ==
  ASSUME NEW R, NEW q \in Seq(R), NEW r \in R, NEW S, NEW T
  PROVE  /\ Append(q, r) \in Seq(R)
         /\ None(q, S) /\ r \notin S => None(Append(q, r), S)
         /\ None(q, S) /\ r \in S /\ r \in T => Only(Append(q, r), S, T)
         /\ Only(q, S, T) /\ r \notin S => Only(Append(q, r), S, T)
<1> DEFINE a == Append(q, r)
<1>1. /\ a \in Seq(R)
      /\ DOMAIN q = 1 .. Len(q) /\ DOMAIN a = 1 .. Len(q) + 1
      /\ Len(q) \in Nat
      /\ \A i \in 1 .. Len(q) : a[i] = q[i]
      /\ a[Len(q) + 1] = r
  BY AppendProperties, LenProperties
<1> HIDE DEF a
<1>2. None(q, S) /\ r \notin S => None(a, S)
  BY <1>1 DEF None
<1>3. None(q, S) /\ r \in S /\ r \in T => Only(a, S, T)
  BY <1>1 DEF None, Only
<1>4. Only(q, S, T) /\ r \notin S => Only(a, S, T)
  BY <1>1 DEF Only
<1> QED  BY <1>1, <1>2, <1>3, <1>4 DEF a

LEMMA SlotKept ==
  ASSUME NEW R, NEW q \in Seq(R), NEW r \in R, NEW S, NEW T, NEW place, NEW here,
         r \notin S, Slot(q, S, T, place, here)
  PROVE  Slot(Append(q, r), S, T, place, here)
<1>1. /\ None(q, S) /\ r \notin S => None(Append(q, r), S)
      /\ Only(q, S, T) /\ r \notin S => Only(Append(q, r), S, T)
  BY SlotAppend
<1> QED  BY <1>1 DEF Slot

\* Joining two sequences.
LEMMA SlotConcat ==
  ASSUME NEW R, NEW q \in Seq(R), NEW p \in Seq(R), NEW S, NEW T
  PROVE  /\ q \o p \in Seq(R)
         /\ None(q, S) /\ None(p, S) => None(q \o p, S)
         /\ Only(q, S, T) /\ None(p, S) => Only(q \o p, S, T)
         /\ None(q, S) /\ Only(p, S, T) => Only(q \o p, S, T)
<1> DEFINE a == q \o p
<1>1. /\ a \in Seq(R)
      /\ DOMAIN q = 1 .. Len(q) /\ DOMAIN p = 1 .. Len(p)
      /\ DOMAIN a = 1 .. Len(q) + Len(p)
      /\ Len(q) \in Nat /\ Len(p) \in Nat
      /\ \A i \in 1 .. Len(q) + Len(p) : a[i] = IF i <= Len(q) THEN q[i] ELSE p[i - Len(q)]
  BY ConcatProperties, LenProperties
<1> HIDE DEF a
<1>2. /\ \A i \in DOMAIN q : i \in DOMAIN a /\ a[i] = q[i]
      /\ \A i \in DOMAIN p : i + Len(q) \in DOMAIN a /\ a[i + Len(q)] = p[i]
      /\ \A i \in DOMAIN a :
            \/ i \in DOMAIN q /\ a[i] = q[i]
            \/ i - Len(q) \in DOMAIN p /\ a[i] = p[i - Len(q)]
  BY <1>1
<1>3. None(q, S) /\ None(p, S) => None(a, S)
  BY <1>2 DEF None
<1>4. ASSUME Only(q, S, T), None(p, S)
      PROVE  Only(a, S, T)
  BY <1>2, <1>4 DEF Only, None
<1>5. ASSUME None(q, S), Only(p, S, T)
      PROVE  Only(a, S, T)
  <2>1. PICK i \in DOMAIN p : /\ p[i] \in S /\ p[i] \in T
                              /\ \A j \in DOMAIN p : p[j] \in S => j = i
    BY <1>5 DEF Only
  <2>2. /\ i + Len(q) \in DOMAIN a
        /\ a[i + Len(q)] \in S /\ a[i + Len(q)] \in T
    BY <1>2, <2>1
  <2>3. ASSUME NEW j \in DOMAIN a, a[j] \in S
        PROVE  j = i + Len(q)
    <3>1. j - Len(q) \in DOMAIN p /\ p[j - Len(q)] \in S
      BY <1>2, <1>5, <2>3 DEF None
    <3>2. j - Len(q) = i
      BY <2>1, <3>1
    <3> QED  BY <3>2, <1>1
  <2> QED  BY <2>2, <2>3 DEF Only
<1> QED  BY <1>1, <1>3, <1>4, <1>5 DEF a

\* A sequence of one result, or none.
LEMMA SlotShort ==
  ASSUME NEW R, NEW r \in R, NEW S, NEW T
  PROVE  /\ <<>> \in Seq(R) /\ None(<<>>, S)
         /\ <<r>> \in Seq(R)
         /\ r \notin S => None(<<r>>, S)
  BY DEF None

\* Taking the first result.
LEMMA SlotTail ==
  ASSUME NEW R, NEW q \in Seq(R), q # <<>>, NEW S, NEW T
  PROVE  /\ Head(q) \in R /\ Tail(q) \in Seq(R)
         /\ None(q, S) => Head(q) \notin S /\ None(Tail(q), S)
         /\ Only(q, S, T) /\ Head(q) \in S => Head(q) \in T /\ None(Tail(q), S)
         /\ Only(q, S, T) /\ Head(q) \notin S => Only(Tail(q), S, T)
<1> DEFINE a == Tail(q)
<1>1. /\ a \in Seq(R) /\ Head(q) \in R /\ Head(q) = q[1]
      /\ DOMAIN q = 1 .. Len(q) /\ DOMAIN a = 1 .. Len(q) - 1
      /\ Len(q) \in Nat /\ 1 \in DOMAIN q
      /\ \A i \in 1 .. Len(q) - 1 : a[i] = q[i + 1]
  BY HeadTailProperties, LenProperties, EmptySeq
<1> HIDE DEF a
<1>2. /\ \A i \in DOMAIN a : i + 1 \in DOMAIN q /\ a[i] = q[i + 1]
      /\ \A i \in DOMAIN q : i = 1 \/ (i - 1 \in DOMAIN a /\ q[i] = a[i - 1])
  BY <1>1
<1>3. None(q, S) => Head(q) \notin S /\ None(a, S)
  BY <1>1, <1>2 DEF None
<1>4. ASSUME Only(q, S, T), Head(q) \in S
      PROVE  Head(q) \in T /\ None(a, S)
  <2>1. PICK i \in DOMAIN q : /\ q[i] \in S /\ q[i] \in T
                              /\ \A j \in DOMAIN q : q[j] \in S => j = i
    BY <1>4 DEF Only
  <2>2. i = 1
    BY <1>1, <1>4, <2>1
  <2> QED  BY <1>1, <1>2, <2>1, <2>2 DEF None
<1>5. ASSUME Only(q, S, T), Head(q) \notin S
      PROVE  Only(a, S, T)
  <2>1. PICK i \in DOMAIN q : /\ q[i] \in S /\ q[i] \in T
                              /\ \A j \in DOMAIN q : q[j] \in S => j = i
    BY <1>5 DEF Only
  <2>2. i - 1 \in DOMAIN a /\ q[i] = a[i - 1]
    BY <1>1, <1>2, <1>5, <2>1
  <2>3. ASSUME NEW j \in DOMAIN a, a[j] \in S
        PROVE  j = i - 1
    <3>1. j + 1 = i
      BY <1>2, <2>1, <2>3
    <3> QED  BY <3>1, <1>1
  <2> QED  BY <2>1, <2>2, <2>3 DEF Only
<1> QED  BY <1>1, <1>3, <1>4, <1>5 DEF a

-----------------------------------------------------------------------------
(* The group, and the place of a node.  R is the set of all results.       *)

Ops == {"connect", "write", "read", "listen"}

\* The states of the results that end a node.
Ends == {"FINISHED", "ERROR", "DELETED", "STOPPED"}

EndsOf(R, e) == {r \in R : r.fd = e /\ r.state \in Ends}
OpIs(R, op) == {r \in R : r.op = op}
Messages(R) == {r \in R : r.state = "SUCCESS"}

\* What the pipe of poller i may hold, and its events.
Routed(R, i) ==
    {r \in R : r.fd \in Fds /\ Index(r.fd) = i /\ r.state \in {"DELETED", "MODIFIED"}}
Events(i) == {v \in [fd : Fds, op : Ops] : Index(v.fd) = i}

PollerOK(R, x, i) ==
    /\ x.pipe[i] \in Seq(Routed(R, i))
    /\ x.batch[i] \subseteq Events(i)
    /\ \A u, v \in x.batch[i] : u.fd = v.fd => u = v

Group(R) ==
    {x \in [table : [Fds -> Ops \cup {"none"}], pipe : [Pollers -> Seq(R)],
            batch : [Pollers -> SUBSET [fd : Fds, op : Ops]],
            has_pipe : [Pollers -> BOOLEAN], queue : Seq(R)] :
        \A i \in Pollers : PollerOK(R, x, i)}

\* No event of e is at hand.
NoEvent(x, e) == \A v \in x.batch[Index(e)] : v.fd # e

\* The node of e is at loc: "table", "pipe" or "queue", or none of these.
NodeAt(R, x, e, loc, op) ==
    /\ x.table[e] = IF loc = "table" THEN op ELSE "none"
    /\ Slot(x.pipe[Index(e)], EndsOf(R, e), OpIs(R, op), loc, "pipe")
    /\ Slot(x.queue, EndsOf(R, e), OpIs(R, op), loc, "queue")
    /\ loc \notin {"table", "pipe"} => NoEvent(x, e)

LEMMA IndexIsPoller == \A f \in Fds : Index(f) \in Pollers
  BY MPollerAssumption DEF Index, Pollers

\* The fields of a group.
LEMMA GroupFields ==
  ASSUME NEW R, NEW x \in Group(R)
  PROVE  /\ x.table \in [Fds -> Ops \cup {"none"}]
         /\ x.pipe \in [Pollers -> Seq(R)]
         /\ x.batch \in [Pollers -> SUBSET [fd : Fds, op : Ops]]
         /\ x.has_pipe \in [Pollers -> BOOLEAN]
         /\ x.queue \in Seq(R)
         /\ \A i \in Pollers : PollerOK(R, x, i)
         /\ x = [table |-> x.table, pipe |-> x.pipe, batch |-> x.batch,
                 has_pipe |-> x.has_pipe, queue |-> x.queue]
  BY DEF Group

\* A group whose queue alone has changed.
LEMMA QueueChanges ==
  ASSUME NEW R, NEW x \in Group(R), NEW q \in Seq(R)
  PROVE  LET y == [x EXCEPT !.queue = q] IN
         /\ y \in Group(R)
         /\ y.table = x.table /\ y.pipe = x.pipe /\ y.batch = x.batch
         /\ y.has_pipe = x.has_pipe /\ y.queue = q
<1> DEFINE y == [x EXCEPT !.queue = q]
<1>0. x = [table |-> x.table, pipe |-> x.pipe, batch |-> x.batch,
           has_pipe |-> x.has_pipe, queue |-> x.queue]
  BY GroupFields
<1>1. /\ y.table = x.table /\ y.pipe = x.pipe /\ y.batch = x.batch
      /\ y.has_pipe = x.has_pipe /\ y.queue = q
      /\ y = [table |-> x.table, pipe |-> x.pipe, batch |-> x.batch,
              has_pipe |-> x.has_pipe, queue |-> q]
  BY ONLY <1>0
<1> HIDE DEF y
<1>2. \A i \in Pollers : PollerOK(R, y, i)
  BY <1>1, GroupFields DEF PollerOK
<1>3. y \in Group(R)
  BY <1>1, <1>2, GroupFields DEF Group
<1> QED  BY <1>1, <1>3 DEF y

\* A group whose table alone has changed, for one descriptor.
LEMMA TableChanges ==
  ASSUME NEW R, NEW x \in Group(R), NEW e \in Fds, NEW p \in Ops \cup {"none"}
  PROVE  LET y == [x EXCEPT !.table[e] = p] IN
         /\ y \in Group(R)
         /\ y.table = [x.table EXCEPT ![e] = p] /\ y.pipe = x.pipe /\ y.batch = x.batch
         /\ y.has_pipe = x.has_pipe /\ y.queue = x.queue
<1> DEFINE y == [x EXCEPT !.table[e] = p]
<1>0. x = [table |-> x.table, pipe |-> x.pipe, batch |-> x.batch,
           has_pipe |-> x.has_pipe, queue |-> x.queue]
  BY GroupFields
<1>1. /\ y.table = [x.table EXCEPT ![e] = p] /\ y.pipe = x.pipe /\ y.batch = x.batch
      /\ y.has_pipe = x.has_pipe /\ y.queue = x.queue
      /\ y = [table |-> y.table, pipe |-> x.pipe, batch |-> x.batch,
              has_pipe |-> x.has_pipe, queue |-> x.queue]
  BY ONLY <1>0
<1> HIDE DEF y
<1>2. y.table \in [Fds -> Ops \cup {"none"}]
  BY <1>1, GroupFields
<1>3. \A i \in Pollers : PollerOK(R, y, i)
  BY <1>1, GroupFields DEF PollerOK
<1>4. y \in Group(R)
  BY <1>1, <1>2, <1>3, GroupFields DEF Group
<1> QED  BY <1>1, <1>4 DEF y

-----------------------------------------------------------------------------
(* What an operation that leads from x to y leaves alone.                  *)

\* The node of f stays where it is.
Leaves(R, x, y, f) ==
    \A loc, op : NodeAt(R, x, f, loc, op) => NodeAt(R, y, f, loc, op)

\* So do the messages in the queue.
SameMessages(R, x, y) ==
    \A S \in SUBSET Messages(R) : \A T, place :
        Slot(x.queue, S, T, place, "queue") => Slot(y.queue, S, T, place, "queue")

\* The threads of the pollers go on with what they have at hand.
Steady(R, x, y) == y \in Group(R) /\ y.batch = x.batch

\* The events at hand of poller i are B.
HasEvents(R, x, y, i, B) ==
    /\ y \in Group(R) /\ y.table = x.table
    /\ y.queue = x.queue /\ y.pipe = x.pipe /\ y.batch = [x.batch EXCEPT ![i] = B]

\* The pipe of poller i is read.
PipeRead(R, x, y, i) ==
    /\ y \in Group(R) /\ y.table = x.table /\ y.pipe = [x.pipe EXCEPT ![i] = <<>>]
    /\ y.queue = x.queue \o x.pipe[i]

\* A result that is appended and is no message.
LEMMA AppendSameMessages ==
  ASSUME NEW R, NEW x \in Group(R), NEW y \in Group(R), NEW r \in R \ Messages(R),
         y.queue = Append(x.queue, r)
  PROVE  SameMessages(R, x, y)
<1> SUFFICES ASSUME NEW S \in SUBSET Messages(R), NEW T, NEW place,
                    Slot(x.queue, S, T, place, "queue")
             PROVE  Slot(y.queue, S, T, place, "queue")
  BY DEF SameMessages
<1>1. r \notin S
  OBVIOUS
<1>2. x.queue \in Seq(R)
  BY GroupFields
<1>3. Slot(Append(x.queue, r), S, T, place, "queue")
  BY <1>1, <1>2, SlotKept
<1> QED  BY <1>3

\* A result given to the callback.
LEMMA CallbackNode ==
  ASSUME NEW R, NEW x \in Group(R), NEW r \in R,
         NEW y, y = Callback(x, r)
  PROVE  /\ y \in Group(R) /\ Steady(R, x, y)
         /\ y.table = x.table /\ y.pipe = x.pipe /\ y.batch = x.batch
         /\ y.has_pipe = x.has_pipe
         /\ y.queue = Append(x.queue, r)
         /\ r \notin Messages(R) => SameMessages(R, x, y)
         /\ \A f \in Fds : r \notin EndsOf(R, f) => Leaves(R, x, y, f)
<1>1. Append(x.queue, r) \in Seq(R)
  BY SlotAppend, GroupFields
<1>2. /\ y \in Group(R)
      /\ y.table = x.table /\ y.pipe = x.pipe /\ y.batch = x.batch
      /\ y.has_pipe = x.has_pipe
      /\ y.queue = Append(x.queue, r)
  <2> DEFINE a == Append(x.queue, r)
             z == [x EXCEPT !.queue = a]
  <2>1. y = z
    BY DEF Callback
  <2>2. a \in Seq(R)
    BY <1>1
  <2> HIDE DEF a
  <2>3. /\ z \in Group(R)
        /\ z.table = x.table /\ z.pipe = x.pipe /\ z.batch = x.batch
        /\ z.has_pipe = x.has_pipe
        /\ z.queue = a
    BY <2>2, QueueChanges
  <2> HIDE DEF z
  <2> QED  BY <2>1, <2>3 DEF a
<1>3. ASSUME NEW f \in Fds, r \notin EndsOf(R, f), NEW loc, NEW op, NodeAt(R, x, f, loc, op)
      PROVE  NodeAt(R, y, f, loc, op)
  <2>1. Slot(y.queue, EndsOf(R, f), OpIs(R, op), loc, "queue")
    <3>1. Slot(x.queue, EndsOf(R, f), OpIs(R, op), loc, "queue")
      BY <1>3 DEF NodeAt
    <3>2. x.queue \in Seq(R)
      BY GroupFields
    <3> QED  BY <1>2, <1>3, <3>1, <3>2, SlotKept
  <2> QED  BY <1>2, <1>3, <2>1 DEF NodeAt, NoEvent
<1> QED  BY <1>2, <1>3, AppendSameMessages DEF Leaves, Steady

\* A group without nodes.
LEMMA NewGroupIs ==
  ASSUME NEW R, NEW x, x = NewGroup
  PROVE  /\ x \in Group(R) /\ x.queue = <<>>
         /\ \A f \in Fds : NodeAt(R, x, f, "none", "read")
<1>1. /\ x.table = [f \in Fds |-> "none"] /\ x.pipe = [i \in Pollers |-> <<>>]
      /\ x.batch = [i \in Pollers |-> {}] /\ x.has_pipe = [i \in Pollers |-> FALSE]
      /\ x.queue = <<>>
  BY DEF NewGroup
<1>2. \A i \in Pollers : PollerOK(R, x, i)
  <2>1. \A S : <<>> \in Seq(S)
    BY EmptySeq
  <2> QED  BY <1>1, <2>1 DEF PollerOK
<1>3. x \in Group(R)
  <2>1. <<>> \in Seq(R)
    BY EmptySeq
  <2>2. x \in [table : [Fds -> Ops \cup {"none"}], pipe : [Pollers -> Seq(R)],
               batch : [Pollers -> SUBSET [fd : Fds, op : Ops]],
               has_pipe : [Pollers -> BOOLEAN], queue : Seq(R)]
    BY <2>1 DEF NewGroup
  <2> QED  BY <1>2, <2>2 DEF Group
<1>4. \A S : None(<<>>, S)
  BY DEF None
<1>5. ASSUME NEW f \in Fds PROVE NodeAt(R, x, f, "none", "read")
  <2>1. Index(f) \in Pollers
    BY IndexIsPoller
  <2>2. x.table[f] = "none" /\ x.pipe[Index(f)] = <<>> /\ x.batch[Index(f)] = {}
    BY <1>1, <2>1
  <2> QED  BY <1>1, <1>4, <2>2 DEF NodeAt, Slot, NoEvent
<1> QED  BY <1>1, <1>3, <1>5

\* mpoller_add
LEMMA AddNode ==
  ASSUME NEW R, NEW x \in Group(R), NEW e \in Fds, NEW p \in Ops,
         NEW y, y = mpoller_add(x, e, p)
  PROVE  /\ Steady(R, x, y) /\ SameMessages(R, x, y)
         /\ \A loc, op : NodeAt(R, x, e, loc, op) /\ loc \notin {"table", "pipe", "queue"}
               => NodeAt(R, y, e, "table", p)
         /\ \A f \in Fds : f # e => Leaves(R, x, y, f)
<1>1. /\ y \in Group(R)
      /\ y.table = [x.table EXCEPT ![e] = p] /\ y.pipe = x.pipe /\ y.batch = x.batch
      /\ y.has_pipe = x.has_pipe /\ y.queue = x.queue
  BY TableChanges DEF mpoller_add
<1>5. ASSUME NEW loc, NEW op, NodeAt(R, x, e, loc, op), loc \notin {"table", "pipe", "queue"}
      PROVE  NodeAt(R, y, e, "table", p)
  BY <1>1, <1>5, GroupFields DEF NodeAt, Slot
<1>6. ASSUME NEW f \in Fds, f # e, NEW loc, NEW op, NodeAt(R, x, f, loc, op)
      PROVE  NodeAt(R, y, f, loc, op)
  BY <1>1, <1>6, GroupFields DEF NodeAt, NoEvent
<1> QED  BY <1>1, <1>5, <1>6 DEF Leaves, Steady, SameMessages

\* A node that is handed over, and is replaced in the table by p.
LEMMA HandOverNode ==
  ASSUME NEW R, NEW x \in Group(R), NEW e \in Fds, NEW p \in Ops \cup {"none"},
         NEW st \in {"DELETED", "MODIFIED"}, Result(e, x.table[e], st, NONE) \in R
  PROVE  LET y == [HandOver(x, e, st) EXCEPT !.table[e] = p]
             r == Result(e, x.table[e], st, NONE)
             i == Index(e)
         IN
         /\ y \in Group(R) /\ y.batch = x.batch
         /\ y.table = [x.table EXCEPT ![e] = p]
         /\ y.queue = x.queue /\ y.pipe = [x.pipe EXCEPT ![i] = Append(@, r)]
         /\ \A f \in Fds : f # e => Leaves(R, x, y, f)
         /\ SameMessages(R, x, y)
<1> DEFINE z == HandOver(x, e, st)
           y == [z EXCEPT !.table[e] = p]
           r == Result(e, x.table[e], st, NONE)
           i == Index(e)
<1>1. i \in Pollers
  BY IndexIsPoller
<1>2. /\ r \in R /\ r.fd = e /\ r.state = st
      /\ r \in Routed(R, i) /\ r \notin Messages(R)
      /\ \A f \in Fds : f # e => r \notin EndsOf(R, f)
  BY DEF Result, Routed, Messages, EndsOf
<1> HIDE DEF r
<1>4. z = [x EXCEPT !.pipe[i] = Append(@, r)]
  BY DEF HandOver, r
<1> DEFINE q == x.queue
           pp == [x.pipe EXCEPT ![i] = Append(@, r)]
<1> HIDE DEF z
<1>5. z = [table |-> x.table, pipe |-> pp, batch |-> x.batch,
           has_pipe |-> x.has_pipe, queue |-> q]
  <2>1. x = [table |-> x.table, pipe |-> x.pipe, batch |-> x.batch,
             has_pipe |-> x.has_pipe, queue |-> x.queue]
    BY GroupFields
  <2> QED  BY ONLY <1>4, <2>1
<1>6. /\ y = [table |-> y.table, pipe |-> pp, batch |-> x.batch,
              has_pipe |-> x.has_pipe, queue |-> q]
      /\ y.table = [x.table EXCEPT ![e] = p]
      /\ y.pipe = pp /\ y.batch = x.batch /\ y.has_pipe = x.has_pipe
      /\ y.queue = q
  <2> HIDE DEF q, pp
  <2>1. z.table = x.table
    BY <1>5
  <2>2. y = [table |-> [x.table EXCEPT ![e] = p], pipe |-> pp, batch |-> x.batch,
             has_pipe |-> x.has_pipe, queue |-> q]
    BY <1>5, <2>1
  <2> HIDE DEF y
  <2> QED  BY <2>2
<1> HIDE DEF y
<1>7. Append(x.queue, r) \in Seq(R) /\ Append(x.pipe[i], r) \in Seq(Routed(R, i))
  BY <1>1, <1>2, SlotAppend, GroupFields DEF PollerOK
<1>8. Append(x.pipe[i], r) \in Seq(R)
  BY <1>1, <1>2, SlotAppend, GroupFields
<1>9. q \in Seq(R) /\ pp \in [Pollers -> Seq(R)] /\ y.table \in [Fds -> Ops \cup {"none"}]
  BY <1>1, <1>6, <1>7, <1>8, GroupFields
<1>10. ASSUME NEW j \in Pollers
       PROVE  PollerOK(R, y, j)
  <2>1. pp[j] \in Seq(Routed(R, j))
    BY <1>1, <1>7, GroupFields DEF PollerOK
  <2>3. PollerOK(R, x, j)
    BY GroupFields
  <2> QED  BY <2>1, <2>3, <1>6 DEF PollerOK
<1>11. y \in Group(R)
  BY <1>6, <1>9, <1>10, GroupFields DEF Group
<1>12. ASSUME NEW f \in Fds, f # e, NEW loc, NEW op, NodeAt(R, x, f, loc, op)
       PROVE  NodeAt(R, y, f, loc, op)
  <2>0. /\ x.queue \in Seq(R) /\ x.pipe[i] \in Seq(R) /\ Index(f) \in Pollers
        /\ x.pipe \in [Pollers -> Seq(R)] /\ r \notin EndsOf(R, f)
        /\ Slot(x.queue, EndsOf(R, f), OpIs(R, op), loc, "queue")
        /\ Slot(x.pipe[Index(f)], EndsOf(R, f), OpIs(R, op), loc, "pipe")
    BY <1>1, <1>2, <1>12, IndexIsPoller, GroupFields DEF NodeAt
  <2>1. Slot(q, EndsOf(R, f), OpIs(R, op), loc, "queue")
    BY <2>0, <1>2, SlotKept
  <2>2. Slot(pp[Index(f)], EndsOf(R, f), OpIs(R, op), loc, "pipe")
    <3>1. Index(f) = i => Slot(Append(x.pipe[i], r), EndsOf(R, f), OpIs(R, op), loc, "pipe")
      BY <2>0, <1>2, SlotKept
    <3>2. pp[Index(f)] \in {x.pipe[Index(f)], Append(x.pipe[i], r)}
             /\ (Index(f) # i => pp[Index(f)] = x.pipe[Index(f)])
      BY <2>0, <1>1
    <3> QED  BY <3>1, <3>2, <2>0
  <2>3. y.table[f] = x.table[f]
    BY <1>6, <1>12, GroupFields
  <2> QED  BY <1>6, <1>12, <2>1, <2>2, <2>3 DEF NodeAt, NoEvent
<1>13. SameMessages(R, x, y)
  BY <1>6 DEF SameMessages
<1> QED  BY <1>6, <1>11, <1>12, <1>13 DEF y, z, r, Leaves

-----------------------------------------------------------------------------
(* The operations, and the way of the node they are about.                 *)

\* A node that is in none of the three places may be named as one pleases.
LEMMA NodeElsewhere ==
  ASSUME NEW R, NEW x, NEW e, NEW loc, NEW op, NodeAt(R, x, e, loc, op),
         loc \notin {"table", "pipe", "queue"},
         NEW to, to \notin {"table", "pipe", "queue"}, NEW o
  PROVE  NodeAt(R, x, e, to, o)
  BY DEF NodeAt, Slot

\* mpoller_del
LEMMA DelNode ==
  ASSUME NEW R, NEW x \in Group(R), NEW e \in Fds,
         Registered(x, e) => Result(e, x.table[e], "DELETED", NONE) \in R,
         NEW y, y = mpoller_del(x, e)
  PROVE  /\ Steady(R, x, y)
         /\ y.table = [x.table EXCEPT ![e] = "none"]
         /\ ~Registered(x, e) => y = x
         /\ \A f \in Fds : f # e => Leaves(R, x, y, f)
         /\ SameMessages(R, x, y)
         /\ \A op \in Ops : NodeAt(R, x, e, "table", op)
               => NodeAt(R, y, e, "pipe", op)
<1> DEFINE r == Result(e, x.table[e], "DELETED", NONE)
           i == Index(e)
<1>1. CASE ~Registered(x, e)
  <2>1. y = x
    BY <1>1 DEF mpoller_del
  <2>2. x.table = [x.table EXCEPT ![e] = "none"]
    BY <1>1, GroupFields DEF Registered
  <2>3. \A op \in Ops : ~NodeAt(R, x, e, "table", op)
    BY <1>1 DEF Registered, NodeAt, Ops
  <2> QED  BY <1>1, <2>1, <2>2, <2>3 DEF Leaves, SameMessages, Steady
<1>2. CASE Registered(x, e)
  <2>1. y = [HandOver(x, e, "DELETED") EXCEPT !.table[e] = "none"]
    BY <1>2 DEF mpoller_del
  <2>2. /\ y \in Group(R) /\ y.batch = x.batch
        /\ y.table = [x.table EXCEPT ![e] = "none"]
        /\ y.queue = x.queue /\ y.pipe = [x.pipe EXCEPT ![i] = Append(@, r)]
        /\ \A f \in Fds : f # e => Leaves(R, x, y, f)
        /\ SameMessages(R, x, y)
    <3> DEFINE h == [HandOver(x, e, "DELETED") EXCEPT !.table[e] = "none"]
    <3>1. r \in R
      BY <1>2
    <3>2. /\ h \in Group(R) /\ h.batch = x.batch
          /\ h.table = [x.table EXCEPT ![e] = "none"]
          /\ h.queue = x.queue /\ h.pipe = [x.pipe EXCEPT ![i] = Append(@, r)]
          /\ \A f \in Fds : f # e => Leaves(R, x, h, f)
          /\ SameMessages(R, x, h)
      BY <3>1, HandOverNode
    <3>3. y = h
      BY <2>1
    <3> HIDE DEF h, r
    <3> QED  BY <3>2, <3>3
  <2>3. ASSUME NEW op \in Ops, NodeAt(R, x, e, "table", op)
        PROVE  NodeAt(R, y, e, "pipe", op)
    <3>1. /\ x.table[e] = op /\ None(x.pipe[i], EndsOf(R, e)) /\ None(x.queue, EndsOf(R, e))
          /\ y.table[e] = "none"
      BY <2>2, <2>3, GroupFields DEF NodeAt, Slot
    <3>2. r \in R /\ r \in EndsOf(R, e) /\ r \in OpIs(R, op)
      BY <1>2, <3>1 DEF Result, EndsOf, OpIs, Ends
    <3>3. i \in Pollers /\ x.queue \in Seq(R) /\ x.pipe[i] \in Seq(R)
      BY IndexIsPoller, GroupFields
    <3> HIDE DEF r
    <3>4. Only(Append(x.queue, r), EndsOf(R, e), OpIs(R, op))
      BY <3>1, <3>2, <3>3, SlotAppend
    <3>5. Only(Append(x.pipe[i], r), EndsOf(R, e), OpIs(R, op))
      BY <3>1, <3>2, <3>3, SlotAppend
    <3>6. y.pipe[i] = Append(x.pipe[i], r)
      BY <2>2, <3>3, GroupFields
    <3> QED  BY <2>2, <3>1, <3>5, <3>6 DEF NodeAt, Slot, NoEvent
  <2> QED  BY <1>2, <2>2, <2>3 DEF Steady
<1> QED  BY <1>1, <1>2 DEF Steady

\* mpoller_mod of a node that reads to one that writes
LEMMA ModNode ==
  ASSUME NEW R, NEW x \in Group(R), NEW e \in Fds, NEW p \in Ops,
         NEW op \in Ops, NodeAt(R, x, e, "table", op),
         Result(e, op, "MODIFIED", NONE) \in R,
         NEW y, y = mpoller_mod(x, e, p)
  PROVE  /\ Steady(R, x, y)
         /\ y.table = [x.table EXCEPT ![e] = p]
         /\ \A f \in Fds : f # e => Leaves(R, x, y, f)
         /\ SameMessages(R, x, y)
         /\ NodeAt(R, y, e, "table", p)
<1> DEFINE r == Result(e, x.table[e], "MODIFIED", NONE)
           i == Index(e)
<1>1. /\ x.table[e] = op /\ None(x.pipe[i], EndsOf(R, e)) /\ None(x.queue, EndsOf(R, e))
  BY DEF NodeAt, Slot
<1>2. r \in R /\ r \notin EndsOf(R, e)
  BY <1>1 DEF Result, EndsOf, Ends
<1>3. /\ y \in Group(R) /\ y.batch = x.batch
      /\ y.table = [x.table EXCEPT ![e] = p]
      /\ y.queue = x.queue /\ y.pipe = [x.pipe EXCEPT ![i] = Append(@, r)]
      /\ \A f \in Fds : f # e => Leaves(R, x, y, f)
      /\ SameMessages(R, x, y)
  <2> DEFINE h == [HandOver(x, e, "MODIFIED") EXCEPT !.table[e] = p]
  <2>1. r \in R
    BY <1>2
  <2>2. /\ h \in Group(R) /\ h.batch = x.batch
        /\ h.table = [x.table EXCEPT ![e] = p]
        /\ h.queue = x.queue /\ h.pipe = [x.pipe EXCEPT ![i] = Append(@, r)]
        /\ \A f \in Fds : f # e => Leaves(R, x, h, f)
        /\ SameMessages(R, x, h)
    BY <2>1, HandOverNode
  <2>3. y = h
    BY DEF mpoller_mod
  <2> HIDE DEF h, r
  <2> QED  BY <2>2, <2>3
<1> HIDE DEF r
<1>4. i \in Pollers /\ x.queue \in Seq(R) /\ x.pipe[i] \in Seq(R)
  BY IndexIsPoller, GroupFields
<1>5. None(Append(x.queue, r), EndsOf(R, e))
  BY <1>1, <1>2, <1>4, SlotAppend
<1>6. None(Append(x.pipe[i], r), EndsOf(R, e))
  BY <1>1, <1>2, <1>4, SlotAppend
<1>7. y.table[e] = p /\ None(y.queue, EndsOf(R, e)) /\ None(y.pipe[i], EndsOf(R, e))
  BY <1>1, <1>3, <1>4, <1>5, <1>6, GroupFields
<1>8. NodeAt(R, y, e, "table", p)
  BY <1>7 DEF NodeAt, Slot
<1> QED  BY <1>3, <1>8 DEF Steady

\* The poller thread reports the end of a node
LEMMA ReportNode ==
  ASSUME NEW R, NEW x \in Group(R), NEW e \in Fds, NEW op \in Ops, NEW st \in Ends,
         Result(e, op, st, NONE) \in R, NoEvent(x, e),
         NEW y, y = Report(x, e, op, st)
  PROVE  /\ Steady(R, x, y)
         /\ x.table[e] # op => y = x
         /\ \A f \in Fds : f # e => Leaves(R, x, y, f)
         /\ SameMessages(R, x, y)
         /\ NodeAt(R, x, e, "table", op) => NodeAt(R, y, e, "queue", op)
<1> DEFINE r == Result(e, op, st, NONE)
<1>1. CASE x.table[e] # op
  <2>1. y = x
    BY <1>1 DEF Report
  <2>2. ~NodeAt(R, x, e, "table", op)
    BY <1>1 DEF NodeAt
  <2> QED  BY <1>1, <2>1, <2>2 DEF Leaves, SameMessages, Steady
<1>2. CASE x.table[e] = op
  <2> DEFINE z == [x EXCEPT !.table[e] = "none"]
  <2>1. /\ z \in Group(R)
        /\ z.table = [x.table EXCEPT ![e] = "none"] /\ z.pipe = x.pipe /\ z.batch = x.batch
        /\ z.has_pipe = x.has_pipe /\ z.queue = x.queue
    BY TableChanges
  <2>2. y = Callback(z, r)
    BY <1>2 DEF Report
  <2> HIDE DEF z
  <2>6. /\ r \in R /\ r \in EndsOf(R, e) /\ r \in OpIs(R, op) /\ r \notin Messages(R)
        /\ \A f \in Fds : f # e => r \notin EndsOf(R, f)
    BY DEF Result, EndsOf, OpIs, Messages, Ends
  <2> HIDE DEF r
  <2>7. /\ y \in Group(R)
        /\ y.table = z.table /\ y.pipe = z.pipe /\ y.batch = z.batch
        /\ y.has_pipe = z.has_pipe
        /\ y.queue = Append(z.queue, r)
        /\ SameMessages(R, z, y)
        /\ \A f \in Fds : f # e => Leaves(R, z, y, f)
    BY <2>1, <2>2, <2>6, CallbackNode, SMTT(40)
  <2>8. SameMessages(R, x, y)
    BY <2>1, <2>7 DEF SameMessages
  <2>9. ASSUME NEW f \in Fds, f # e
        PROVE  Leaves(R, x, z, f)
    <3>1. z.table[f] = x.table[f]
      BY <2>1, <2>9, GroupFields
    <3> QED  BY <2>1, <3>1 DEF Leaves, NodeAt, NoEvent
  <2>10. ASSUME NEW f \in Fds, f # e
         PROVE  Leaves(R, x, y, f)
    BY <2>7, <2>9, <2>10 DEF Leaves
  <2>11. ASSUME NodeAt(R, x, e, "table", op)
         PROVE  NodeAt(R, y, e, "queue", op)
    <3>1. /\ None(x.pipe[Index(e)], EndsOf(R, e)) /\ None(x.queue, EndsOf(R, e))
          /\ y.table[e] = "none" /\ x.queue \in Seq(R)
      BY <2>1, <2>7, <2>11, GroupFields DEF NodeAt, Slot
    <3>2. Only(y.queue, EndsOf(R, e), OpIs(R, op))
      BY <2>1, <2>6, <2>7, <3>1, SlotAppend
    <3>3. NoEvent(y, e)
      BY <2>1, <2>7 DEF NoEvent
    <3> QED  BY <2>1, <2>7, <3>1, <3>2, <3>3 DEF NodeAt, Slot
  <2> QED  BY <1>2, <2>1, <2>7, <2>8, <2>10, <2>11 DEF Steady
<1> QED  BY <1>1, <1>2 DEF Steady

\* A group whose batches alone have changed, and what is known of the pipes.
WithBatch(x, i, B, h) == [x EXCEPT !.batch[i] = B, !.has_pipe = h]
OneEach(B) == \A u, v \in B : u.fd = v.fd => u = v

LEMMA BatchChanges ==
  ASSUME NEW R, NEW x \in Group(R), NEW i \in Pollers, NEW B \in SUBSET Events(i),
         OneEach(B),
         NEW h \in [Pollers -> BOOLEAN],
         NEW y, y = WithBatch(x, i, B, h)
  PROVE  /\ y \in Group(R)
         /\ y.batch = [x.batch EXCEPT ![i] = B] /\ y.pipe = x.pipe /\ y.table = x.table
         /\ y.has_pipe = h /\ y.queue = x.queue
<1>0. x = [table |-> x.table, pipe |-> x.pipe, batch |-> x.batch,
           has_pipe |-> x.has_pipe, queue |-> x.queue]
  BY GroupFields
<1>1. /\ y.batch = [x.batch EXCEPT ![i] = B] /\ y.pipe = x.pipe /\ y.table = x.table
      /\ y.has_pipe = h /\ y.queue = x.queue
      /\ y = [table |-> x.table, pipe |-> x.pipe, batch |-> y.batch,
              has_pipe |-> h, queue |-> x.queue]
  <2> DEFINE bb == [x.batch EXCEPT ![i] = B]
  <2>1. y = [x EXCEPT !.batch = bb, !.has_pipe = h]
    BY DEF WithBatch
  <2> HIDE DEF bb
  <2>2. y = [table |-> x.table, pipe |-> x.pipe, batch |-> bb,
             has_pipe |-> h, queue |-> x.queue]
    BY ONLY <1>0, <2>1
  <2> QED  BY ONLY <2>2 DEF bb
<1>2. B \in SUBSET [fd : Fds, op : Ops]
  BY DEF Events
<1>3. y.batch \in [Pollers -> SUBSET [fd : Fds, op : Ops]]
  BY <1>1, <1>2, GroupFields
<1>4. ASSUME NEW j \in Pollers
      PROVE  PollerOK(R, y, j)
  <2>1. PollerOK(R, x, j)
    BY GroupFields
  <2>2. CASE j = i
    <3>1. y.batch[j] = B
      BY <1>1, <2>2, GroupFields
    <3> QED  BY <1>1, <2>1, <2>2, <3>1 DEF PollerOK, OneEach
  <2>3. CASE j # i
    <3>1. y.batch[j] = x.batch[j]
      BY <1>1, <2>3, GroupFields
    <3> QED  BY <1>1, <2>1, <3>1 DEF PollerOK
  <2> QED  BY <2>2, <2>3
<1>5. y \in Group(R)
  BY <1>1, <1>3, <1>4, GroupFields DEF Group
<1> QED  BY <1>1, <1>5

\* The poller thread is done with an event
LEMMA DoneNode ==
  ASSUME NEW R, NEW x \in Group(R), NEW e \in Fds, NEW op \in Ops,
         NEW y, y = Done(x, e, op)
  PROVE  /\ HasEvents(R, x, y, Index(e), x.batch[Index(e)] \ {Event(e, op)})
         /\ \A f \in Fds : Leaves(R, x, y, f)
         /\ Ready(x, e, op) => NoEvent(y, e)
<1> DEFINE i == Index(e)
           B == x.batch[i] \ {Event(e, op)}
<1>1. i \in Pollers
  BY IndexIsPoller
<1>2. PollerOK(R, x, i) /\ x.has_pipe \in [Pollers -> BOOLEAN]
  BY <1>1, GroupFields
<1>3. y = WithBatch(x, i, B, x.has_pipe)
  <2>0. x = [table |-> x.table, pipe |-> x.pipe, batch |-> x.batch,
             has_pipe |-> x.has_pipe, queue |-> x.queue]
    BY GroupFields
  <2> QED  BY <1>1, <1>2, <2>0 DEF Done, WithBatch
<1>4. B \in SUBSET Events(i) /\ OneEach(B)
  BY <1>1, <1>2 DEF PollerOK, OneEach
<1> HIDE DEF B
<1>6. /\ y \in Group(R)
      /\ y.batch = [x.batch EXCEPT ![i] = B] /\ y.pipe = x.pipe /\ y.table = x.table
      /\ y.queue = x.queue
  <2> QED  BY <1>1, <1>2, <1>3, <1>4, BatchChanges
<1>7. \A f \in Fds : y.batch[Index(f)] \subseteq x.batch[Index(f)]
  BY <1>1, <1>6, IndexIsPoller, GroupFields DEF B
<1>8. \A f \in Fds : Leaves(R, x, y, f)
  BY <1>6, <1>7 DEF Leaves, NodeAt, NoEvent
<1>9. ASSUME Ready(x, e, op), NEW v \in y.batch[i], v.fd = e
      PROVE  FALSE
  <2>1. v \in x.batch[i] /\ v # Event(e, op)
    BY <1>1, <1>6, <1>9, GroupFields DEF B
  <2>2. Event(e, op) \in x.batch[i] /\ Event(e, op).fd = v.fd
    BY <1>9 DEF Ready, Event
  <2> QED  BY <1>2, <2>1, <2>2 DEF PollerOK
<1> QED  BY <1>6, <1>8, <1>9 DEF B, NoEvent, HasEvents

\* epoll_wait returns
LEMMA EpollNode ==
  ASSUME NEW R, NEW x \in Group(R), NEW i \in Pollers, Waiting(x, i),
         NEW B \in Batches(x, i),
         NEW y, y = EpollWait(x, i, B)
  PROVE  /\ HasEvents(R, x, y, i, B)
         /\ \A f \in Fds : Leaves(R, x, y, f)
<1> DEFINE h == [x.has_pipe EXCEPT ![i] = x.pipe[i] # <<>>]
<1>1. B \in SUBSET {Event(f, x.table[f]) : f \in {g \in Fds : Index(g) = i /\ Registered(x, g)}}
  BY DEF Batches
<1>2. \A v \in B : /\ v.fd \in Fds /\ Index(v.fd) = i /\ Registered(x, v.fd)
                   /\ v = Event(v.fd, x.table[v.fd])
  BY <1>1 DEF Event
<1>3. \A v \in B : v \in [fd : Fds, op : Ops]
  BY <1>2, GroupFields DEF Event, Registered
<1>4. B \in SUBSET Events(i) /\ OneEach(B)
  BY <1>2, <1>3 DEF Events, OneEach
<1>5. /\ y \in Group(R)
      /\ y.batch = [x.batch EXCEPT ![i] = B] /\ y.pipe = x.pipe /\ y.table = x.table
      /\ y.queue = x.queue
  <2>1. h \in [Pollers -> BOOLEAN]
    BY GroupFields DEF Waiting
  <2>2. y = WithBatch(x, i, B, h)
    BY DEF EpollWait, WithBatch
  <2> HIDE DEF h
  <2> QED  BY <1>4, <2>1, <2>2, BatchChanges
<1>6. ASSUME NEW f \in Fds, NEW loc, NEW op, NodeAt(R, x, f, loc, op)
      PROVE  NodeAt(R, y, f, loc, op)
  <2>1. ASSUME loc \notin {"table", "pipe"}, NEW v \in y.batch[Index(f)], v.fd = f
        PROVE  FALSE
    <3>1. ~Registered(x, f)
      BY <1>6, <2>1 DEF NodeAt, Registered
    <3>2. v \in x.batch[Index(f)]
      BY <1>2, <1>5, <2>1, <3>1, IndexIsPoller, GroupFields
    <3> QED  BY <1>6, <2>1, <3>2 DEF NodeAt, NoEvent
  <2> QED  BY <1>5, <1>6, <2>1 DEF NodeAt, NoEvent
<1> QED  BY <1>5, <1>6 DEF Leaves, HasEvents

\* Where the node of e is when poller i has moved those at the places from to the
\* queue.
Moved(e, i, loc, from) == IF Index(e) = i /\ loc \in from THEN "queue" ELSE loc
MovesNodes(R, x, y, i, from) ==
    \A f \in Fds : \A loc, op : NodeAt(R, x, f, loc, op) /\ op \in Ops
        => NodeAt(R, y, f, Moved(f, i, loc, from), op)

\* The pipe of a poller holds no end of a descriptor of another one.
LEMMA PipeOfOther ==
  ASSUME NEW R, NEW x \in Group(R), NEW i \in Pollers, NEW f
  PROVE  /\ x.pipe[i] \in Seq(R)
         /\ Index(f) # i => None(x.pipe[i], EndsOf(R, f))
         /\ \A S \in SUBSET Messages(R) : None(x.pipe[i], S)
<1>1. x.pipe[i] \in Seq(Routed(R, i)) /\ x.pipe[i] \in Seq(R)
  BY GroupFields DEF PollerOK
<1>2. \A k \in DOMAIN x.pipe[i] : x.pipe[i][k] \in Routed(R, i)
  BY <1>1
<1>3. \A k \in DOMAIN x.pipe[i] :
         /\ Index(f) # i => x.pipe[i][k] \notin EndsOf(R, f)
         /\ x.pipe[i][k] \notin Messages(R)
  BY <1>2 DEF Routed, EndsOf, Messages
<1> QED  BY <1>1, <1>3 DEF None

\* The poller thread reads its pipe
LEMMA ReadPipeNode ==
  ASSUME NEW R, NEW x \in Group(R), NEW i \in Pollers, x.batch[i] = {},
         NEW y, y = ReadPipe(x, i)
  PROVE  /\ Steady(R, x, y)
         /\ PipeRead(R, x, y, i)
         /\ SameMessages(R, x, y)
         /\ MovesNodes(R, x, y, i, {"pipe"})
<1> DEFINE q == x.queue \o x.pipe[i]
           pp == [x.pipe EXCEPT ![i] = <<>>]
           h == [x.has_pipe EXCEPT ![i] = FALSE]
<1>0. x = [table |-> x.table, pipe |-> x.pipe, batch |-> x.batch,
           has_pipe |-> x.has_pipe, queue |-> x.queue]
  BY GroupFields
<1>1. y = [x EXCEPT !.queue = q, !.pipe = pp, !.has_pipe = h]
  BY ONLY <1>0, y = ReadPipe(x, i) DEF ReadPipe
<1>2. x.queue \in Seq(R) /\ x.pipe[i] \in Seq(R) /\ <<>> \in Seq(Routed(R, i)) /\ <<>> \in Seq(R)
  BY GroupFields, PipeOfOther
<1>3. q \in Seq(R)
  BY <1>2, SlotConcat
<1>4. pp \in [Pollers -> Seq(R)] /\ h \in [Pollers -> BOOLEAN]
  BY <1>2, GroupFields
<1>5. /\ pp[i] = <<>> /\ \A j \in Pollers : j # i => pp[j] = x.pipe[j]
  BY GroupFields
<1> HIDE DEF q, pp, h
<1>6. y = [table |-> x.table, pipe |-> pp, batch |-> x.batch,
           has_pipe |-> h, queue |-> q]
  BY ONLY <1>0, <1>1
<1>7. /\ y.table = x.table /\ y.pipe = pp /\ y.batch = x.batch
      /\ y.has_pipe = h /\ y.queue = q
  BY ONLY <1>6
<1>8. ASSUME NEW j \in Pollers
      PROVE  PollerOK(R, y, j)
  <2>1. PollerOK(R, x, j)
    BY GroupFields
  <2>2. y.pipe[j] \in {x.pipe[j], <<>>} /\ y.pipe[j] \in Seq(Routed(R, j))
    BY <1>2, <1>5, <1>7, <2>1 DEF PollerOK
  <2> QED  BY <1>7, <2>1, <2>2 DEF PollerOK
<1>9. y \in Group(R)
  BY <1>3, <1>4, <1>6, <1>7, <1>8, GroupFields DEF Group
<1>10. SameMessages(R, x, y)
  <2> SUFFICES ASSUME NEW S \in SUBSET Messages(R), NEW T, NEW place,
                      Slot(x.queue, S, T, place, "queue")
               PROVE  Slot(q, S, T, place, "queue")
    BY <1>7 DEF SameMessages
  <2>1. None(x.pipe[i], S)
    BY PipeOfOther
  <2>2. /\ None(x.queue, S) /\ None(x.pipe[i], S) => None(q, S)
        /\ Only(x.queue, S, T) /\ None(x.pipe[i], S) => Only(q, S, T)
    BY <1>2, SlotConcat DEF q
  <2> QED  BY <2>1, <2>2 DEF Slot
<1>11. ASSUME NEW f \in Fds, NEW loc, NEW op, NodeAt(R, x, f, loc, op)
       PROVE  NodeAt(R, y, f, Moved(f, i, loc, {"pipe"}), op)
  <2> DEFINE S == EndsOf(R, f)
             T == OpIs(R, op)
             j == Index(f)
  <2>1. /\ x.table[f] = IF loc = "table" THEN op ELSE "none"
        /\ Slot(x.pipe[j], S, T, loc, "pipe")
        /\ Slot(x.queue, S, T, loc, "queue")
        /\ loc \notin {"table", "pipe"} => NoEvent(x, f)
    BY <1>11 DEF NodeAt
  <2>2. /\ None(x.queue, S) /\ None(x.pipe[i], S) => None(q, S)
        /\ Only(x.queue, S, T) /\ None(x.pipe[i], S) => Only(q, S, T)
        /\ None(x.queue, S) /\ Only(x.pipe[i], S, T) => Only(q, S, T)
    BY <1>2, SlotConcat DEF q
  <2>3. j \in Pollers /\ None(<<>>, S) /\ (j # i => None(x.pipe[i], S))
    BY IndexIsPoller, PipeOfOther DEF None
  <2> HIDE DEF S, T
  <2>4. NoEvent(x, f) => NoEvent(y, f)
    BY <1>7 DEF NoEvent
  <2>5. CASE j # i
    <3>1. Slot(q, S, T, loc, "queue") /\ Slot(pp[j], S, T, loc, "pipe")
      BY <1>5, <2>1, <2>2, <2>3, <2>5 DEF Slot
    <3>2. Moved(f, i, loc, {"pipe"}) = loc
      BY <2>5 DEF Moved
    <3> QED  BY <1>7, <2>1, <2>4, <3>1, <3>2 DEF NodeAt, S, T
  <2>6. CASE j = i /\ loc = "pipe"
    <3>1. Only(q, S, T) /\ None(pp[j], S)
      BY <1>5, <2>1, <2>2, <2>3, <2>6 DEF Slot
    <3>2. Moved(f, i, loc, {"pipe"}) = "queue"
      BY <2>6 DEF Moved
    <3>3. NoEvent(y, f) /\ y.table[f] = "none"
      BY <1>7, <2>1, <2>6 DEF NoEvent
    <3> QED  BY <1>7, <3>1, <3>2, <3>3 DEF NodeAt, S, T, Slot
  <2>7. CASE j = i /\ loc # "pipe"
    <3>1. Slot(q, S, T, loc, "queue") /\ Slot(pp[j], S, T, loc, "pipe")
      BY <1>5, <2>1, <2>2, <2>3, <2>7 DEF Slot
    <3>2. Moved(f, i, loc, {"pipe"}) = loc
      BY <2>7 DEF Moved
    <3> QED  BY <1>7, <2>1, <2>4, <3>1, <3>2 DEF NodeAt, S, T
  <2> QED  BY <2>5, <2>6, <2>7
<1> QED  BY <1>7, <1>9, <1>10, <1>11 DEF q, pp, h, MovesNodes, PipeRead, Steady

\* A thread takes the first result
Rest(x) == [x EXCEPT !.queue = Tail(@)]

LEMMA TakeNode ==
  ASSUME NEW R, NEW x \in Group(R), x.queue # <<>>,
         NEW r, r = Head(x.queue), NEW y, y = Rest(x)
  PROVE  /\ Steady(R, x, y)
         /\ y.table = x.table /\ y.queue = Tail(x.queue)
         /\ r \in R
         /\ \A f \in Fds : r \notin EndsOf(R, f) => Leaves(R, x, y, f)
         /\ \A f \in Fds : \A loc, op : NodeAt(R, x, f, loc, op) /\ r \in EndsOf(R, f) =>
               /\ loc = "queue" /\ r.op = op
               /\ \A to : to \notin {"table", "pipe", "queue"} => NodeAt(R, y, f, to, op)
         /\ \A S, T, place : Slot(x.queue, S, T, place, "queue") =>
               /\ r \notin S => Slot(y.queue, S, T, place, "queue")
               /\ r \in S => /\ place = "queue" /\ r \in T
                             /\ None(y.queue, S)
<1> DEFINE q == Tail(x.queue)
<1>1. x.queue \in Seq(R)
  BY GroupFields
<1>2. r \in R /\ q \in Seq(R)
  BY <1>1, SlotTail
<1>3. y = [x EXCEPT !.queue = q]
  BY DEF Rest
<1>4. \A S, T : /\ None(x.queue, S) => r \notin S /\ None(q, S)
                /\ Only(x.queue, S, T) /\ r \in S => r \in T /\ None(q, S)
                /\ Only(x.queue, S, T) /\ r \notin S => Only(q, S, T)
  BY <1>1, SlotTail
<1> HIDE DEF q
<1>5. /\ y \in Group(R) /\ y.batch = x.batch
      /\ y.table = x.table /\ y.queue = q /\ y.pipe = x.pipe
  BY <1>2, <1>3, QueueChanges
<1>6. ASSUME NEW S, NEW T, NEW place, Slot(x.queue, S, T, place, "queue")
      PROVE  /\ r \notin S => Slot(q, S, T, place, "queue")
             /\ r \in S => place = "queue" /\ r \in T /\ None(q, S)
  BY <1>4, <1>6 DEF Slot
<1>7. ASSUME NEW f \in Fds, r \notin EndsOf(R, f), NEW loc, NEW op, NodeAt(R, x, f, loc, op)
      PROVE  NodeAt(R, y, f, loc, op)
  BY <1>5, <1>6, <1>7 DEF NodeAt, NoEvent
<1>8. ASSUME NEW f \in Fds, NEW loc, NEW op, NodeAt(R, x, f, loc, op), r \in EndsOf(R, f)
      PROVE  /\ loc = "queue" /\ r.op = op
             /\ \A to : to \notin {"table", "pipe", "queue"} => NodeAt(R, y, f, to, op)
  <2>1. loc = "queue" /\ r \in OpIs(R, op) /\ None(q, EndsOf(R, f))
    BY <1>6, <1>8 DEF NodeAt
  <2>2. r.op = op
    BY <2>1 DEF OpIs
  <2>3. /\ x.table[f] = "none" /\ None(x.pipe[Index(f)], EndsOf(R, f)) /\ NoEvent(y, f)
    BY <1>5, <1>8, <2>1 DEF NodeAt, Slot, NoEvent
  <2> QED  BY <1>5, <2>1, <2>2, <2>3 DEF NodeAt, Slot
<1> QED  BY <1>2, <1>5, <1>6, <1>7, <1>8 DEF q, Leaves, Steady

\* The result taken is what was in its place.
\* The first result r is taken from x, which leaves y.
FirstTaken(x, r, y) == x.queue # <<>> /\ r = Head(x.queue) /\ y = Rest(x)
WasQueued(loc, op, r) == loc = "queue" /\ r.op = op
WasMessage(place, T, r) == place = "queue" /\ r \in T
Away(to) == to \notin {"table", "pipe", "queue"}

LEMMA TakenSlot ==
  ASSUME NEW R, NEW x \in Group(R), NEW r, NEW y, FirstTaken(x, r, y),
         NEW S, NEW T, NEW place, Slot(x.queue, S, T, place, "queue"), r \in S
  PROVE  WasMessage(place, T, r) /\ None(y.queue, S)
<1>1. x.queue \in Seq(R) /\ x.queue # <<>> /\ r = Head(x.queue)
  BY GroupFields DEF FirstTaken
<1>2. y.queue = Tail(x.queue)
  BY TakeNode DEF FirstTaken
<1>3. /\ None(x.queue, S) => r \notin S
      /\ Only(x.queue, S, T) /\ r \in S => r \in T /\ None(Tail(x.queue), S)
  BY <1>1, SlotTail
<1> QED  BY <1>2, <1>3 DEF Slot, WasMessage

LEMMA TakenNode ==
  ASSUME NEW R, NEW x \in Group(R), NEW r, NEW y, FirstTaken(x, r, y), NEW f \in Fds,
         NEW loc, NEW op, NodeAt(R, x, f, loc, op), r \in EndsOf(R, f),
         NEW to, Away(to)
  PROVE  WasQueued(loc, op, r) /\ NodeAt(R, y, f, to, op)
  BY TakeNode DEF FirstTaken, WasQueued, Away

\* A result that ends no node and is no message is put before the others
LEMMA PrependNode ==
  ASSUME NEW R, NEW x \in Group(R), NEW r \in R, r \notin Messages(R),
         \A f \in Fds : r \notin EndsOf(R, f),
         NEW y, y = [x EXCEPT !.queue = <<r>> \o @]
  PROVE  /\ Steady(R, x, y)
         /\ \A f \in Fds : Leaves(R, x, y, f)
         /\ SameMessages(R, x, y)
<1> DEFINE o == <<r>>
           q == o \o x.queue
<1>1. x.queue \in Seq(R) /\ o \in Seq(R) /\ (\A S : r \notin S => None(o, S))
  BY GroupFields, SlotShort
<1> HIDE DEF o
<1>2. q \in Seq(R)
  BY <1>1, SlotConcat
<1>3. \A S, T : /\ None(o, S) /\ None(x.queue, S) => None(q, S)
                /\ None(o, S) /\ Only(x.queue, S, T) => Only(q, S, T)
  BY <1>1, SlotConcat
<1>4. y = [x EXCEPT !.queue = q]
  BY DEF o
<1> HIDE DEF q
<1>5. /\ y \in Group(R) /\ y.batch = x.batch
      /\ y.table = x.table /\ y.queue = q /\ y.pipe = x.pipe
  <2> DEFINE z == [x EXCEPT !.queue = q]
  <2>1. /\ z \in Group(R) /\ z.batch = x.batch
        /\ z.table = x.table /\ z.queue = q /\ z.pipe = x.pipe
    BY <1>2, QueueChanges
  <2>2. y = z
    BY <1>4
  <2> HIDE DEF z
  <2> QED  BY <2>1, <2>2
<1>6. ASSUME NEW S, NEW T, NEW place, Slot(x.queue, S, T, place, "queue"), r \notin S
      PROVE  Slot(q, S, T, place, "queue")
  BY <1>1, <1>3, <1>6 DEF Slot
<1>7. \A f \in Fds : Leaves(R, x, y, f)
  BY <1>5, <1>6 DEF Leaves, NodeAt, NoEvent
<1>8. SameMessages(R, x, y)
  BY <1>5, <1>6 DEF SameMessages
<1> QED  BY <1>5, <1>7, <1>8 DEF q, o, Steady

-----------------------------------------------------------------------------
(* Counting, lists of one element, and mpoller_del of each in a list.       *)

\* k is one more than n.
OneMore(k, n) == n \in Nat /\ k = n + 1

\* A set that gains or loses an element.
LEMMA CountMore ==
  ASSUME NEW S, NEW T, IsFiniteSet(S), NEW a, a \notin S, T = S \cup {a}
  PROVE  OneMore(Cardinality(T), Cardinality(S)) /\ IsFiniteSet(T)
<1>1. Cardinality(S) \in Nat
  BY FS_CardinalityType
<1>2. IsFiniteSet(T) /\ Cardinality(T) = Cardinality(S) + 1
  BY FS_AddElement
<1> QED  BY <1>1, <1>2 DEF OneMore

LEMMA CountLess ==
  ASSUME NEW S, NEW T, IsFiniteSet(S), NEW a \in S, T = S \ {a}
  PROVE  OneMore(Cardinality(S), Cardinality(T)) /\ IsFiniteSet(T)
<1>1. IsFiniteSet(T) /\ a \notin T /\ S = T \cup {a}
  BY FS_Subset
<1> QED  BY <1>1, CountMore

LEMMA ListSets ==
  /\ ToSet(<<>>) = {} /\ Len(<<>>) = 0
  /\ \A c : ToSet(<<c>>) = {c} /\ Len(<<c>>) = 1
<1>1. ToSet(<<>>) = {} /\ Len(<<>>) = 0
  BY DEF ToSet
<1>2. ASSUME NEW c PROVE ToSet(<<c>>) = {c} /\ Len(<<c>>) = 1
  <2>1. DOMAIN <<c>> = {1} /\ <<c>>[1] = c /\ Len(<<c>>) = 1
    OBVIOUS
  <2>2. \A x : x \in ToSet(<<c>>) <=> x = c
    BY <2>1 DEF ToSet
  <2> QED  BY <2>1, <2>2
<1> QED  BY <1>1, <1>2

\* mpoller_del of each element of a list of one, or none.
IsIter(it, x, q) ==
    it = [S \in SUBSET DOMAIN q |-> IF S = {} THEN x
                                    ELSE mpoller_del(it[S \ {Max(S)}], q[Max(S)])]

LEMMA FoldNone ==
  ASSUME NEW x, NEW q, q = <<>> PROVE FoldLeft(mpoller_del, x, q) = x
<1>1. DOMAIN q = {}
  OBVIOUS
<1> DEFINE f == [S \in SUBSET {} |-> x]
<1>2. IsIter(f, x, q)
  <2>1. \A S \in SUBSET {} : S = {}
    OBVIOUS
  <2> QED  BY <1>1, <2>1 DEF IsIter
<1>3. FoldLeft(mpoller_del, x, q) = (CHOOSE it : IsIter(it, x, q))[DOMAIN q]
  BY DEF FoldLeft, MapThenFoldSet, IsIter
<1>4. PICK it : IsIter(it, x, q) /\ FoldLeft(mpoller_del, x, q) = it[{}]
  <2> HIDE DEF f
  <2>1. IsIter(CHOOSE it : IsIter(it, x, q), x, q)
    BY <1>2
  <2> QED  BY <1>1, <1>3, <2>1
<1>5. it[{}] = x
  BY <1>1, <1>4 DEF IsIter
<1> QED  BY <1>4, <1>5

LEMMA FoldOne ==
  ASSUME NEW x, NEW c PROVE FoldLeft(mpoller_del, x, <<c>>) = mpoller_del(x, c)
<1>1. DOMAIN <<c>> = {1} /\ <<c>>[1] = c
  OBVIOUS
<1>2. Max({1}) = 1
  BY DEF Max
<1> DEFINE f == [S \in SUBSET {1} |-> IF S = {} THEN x ELSE mpoller_del(x, c)]
<1>3. IsIter(f, x, <<c>>)
  <2>1. \A S \in SUBSET {1} : S = {} \/ S = {1}
    OBVIOUS
  <2>2. f = [S \in SUBSET {1} |-> IF S = {} THEN x
                                  ELSE mpoller_del(f[S \ {Max(S)}], <<c>>[Max(S)])]
    <3>1. ASSUME NEW S \in SUBSET {1}, S # {}
          PROVE  mpoller_del(f[S \ {Max(S)}], <<c>>[Max(S)]) = mpoller_del(x, c)
      <4>0. S = {1}
        BY <2>1, <3>1
      <4>1. Max(S) = 1 /\ S \ {1} = {}
        BY <1>2, <4>0
      <4>2. f[{}] = x
        OBVIOUS
      <4> QED  BY <1>1, <4>0, <4>1, <4>2
    <3> QED  BY <3>1
  <2> QED  BY <1>1, <2>2 DEF IsIter
<1>4. FoldLeft(mpoller_del, x, <<c>>) = (CHOOSE it : IsIter(it, x, <<c>>))[DOMAIN <<c>>]
  BY DEF FoldLeft, MapThenFoldSet, IsIter
<1>5. PICK it : IsIter(it, x, <<c>>) /\ FoldLeft(mpoller_del, x, <<c>>) = it[{1}]
  <2> HIDE DEF f
  <2>1. IsIter(CHOOSE it : IsIter(it, x, <<c>>), x, <<c>>)
    BY <1>3
  <2> QED  BY <1>1, <1>4, <2>1
<1>6. it[{1}] = mpoller_del(it[{1} \ {Max({1})}], <<c>>[Max({1})])
  BY <1>1, <1>5 DEF IsIter
<1>7. it[{}] = x
  BY <1>1, <1>5 DEF IsIter
<1>8. {1} \ {Max({1})} = {} /\ <<c>>[Max({1})] = c
  BY <1>1, <1>2
<1> QED  BY <1>5, <1>6, <1>7, <1>8

=============================================================================
