-------------------------- MODULE CommClientProof ---------------------------
(***************************************************************************)
(* Proofs about the requesting side of the communicator, for any number of *)
(* sessions, connections, pollers and handler threads.                     *)
(*                                                                         *)
(* Three tokens are followed.  The node of a connection is at one place at *)
(* a time: in the poller's table, in a pipe, in the message queue, or with *)
(* the one handler that took the result that ended it.  The message that   *)
(* was read on a connection is in the queue or with one handler.  And each *)
(* session that was accepted is owed one answer: by the connection it      *)
(* waits on, or by the handler that has its reply, until it is told.  What *)
(* an entry may look like follows from where its two tokens are, who has   *)
(* its mutex and how many handlers still hold a reference for a message.   *)
(***************************************************************************)
EXTENDS CommClient, MPollerProof

-----------------------------------------------------------------------------
(* The types.                                                              *)

Results ==
    {r \in [fd : Fds \cup {NONE}, op : Ops \cup {"exit"},
            state : Ends \cup {"SUCCESS", "MODIFIED", "none"}, msg : Sessions \cup {NONE}] :
        \/ r = EXIT
        \/ r.fd \in Fds /\ r.op \in {"connect", "write", "read"} /\ r.state \in Ends
        \/ r.fd \in Fds /\ r.op = "read" /\ r.state = "MODIFIED"
        \/ r.fd \in Fds /\ r.op = "read" /\ r.state = "SUCCESS" /\ r.msg \in Sessions}

MsgsOf(e) == {r \in Results : r.fd = e /\ r.state = "SUCCESS"}
MsgIs(t) == {r \in Results : r.msg = t}

\* The handlers that have a result which ended a node.
Chain == {"connected", "written", "ended", "read", "write", "handle", "unref"}

Told == {"SUCCESS", "ERROR", "STOPPED", "none"}

\* What a thread that handles a result has at hand.
WorkerSet ==
    {v \in [pc : {"get", "off", "reply", "added"} \cup Chain, res : Results \cup {NONE},
            s : Sessions \cup {NONE}, st : Told] :
        /\ v.pc \notin {"get", "off"} =>
              v.res \in Results /\ v.res.fd \in Fds /\ v.res.state # "MODIFIED"
        /\ v.pc \in {"connected", "written", "ended", "read", "write", "added"} =>
              v.res.state # "SUCCESS"
        /\ v.pc = "reply" => v.res.state = "SUCCESS"}

EntrySet == [state : ConnStates \cup {"NONE", "FREED"}, ref : Nat,
             session : Sessions \cup {NONE}]

\* The calls of request that have a connection's mutex, before and after the
\* request is sent or has failed; and the calls of a session that is owed an
\* answer.
Sending == {"popped", "send", "sent", "full", "failed"}
Locking == Sending \cup {"unlock"}
Taken == {"send", "sent", "full", "failed", "unlock", "accepted"}

UserSet == [pc : {"start", "again", "new", "accepted", "refused"} \cup Locking,
            fd : Fds \cup {NONE}]

Distinct(q) == \A i, j \in DOMAIN q : q[i] = q[j] => i = j

PollerPcs == {"wait", "data", "lock", "create", "append"}

Types ==
    /\ poll \in Group(Results)
    /\ at \in [Pollers -> [pc : PollerPcs, fd : Fds \cup {NONE}]]
    /\ reading \in [Fds -> Sessions \cup {NONE}]
    /\ entry \in [Fds -> EntrySet]
    /\ mutex \in [Fds -> Sessions \cup {NONE}]
    /\ idle_list \in Seq(Fds)
    /\ Distinct(idle_list)
    /\ user \in [Sessions -> UserSet]
    /\ worker \in [Workers -> WorkerSet]
    /\ closer \in Workers \cup {Main, NONE}
    /\ outcome \in [Sessions -> Seq(Told)]

-----------------------------------------------------------------------------
(* The tokens of a connection.  A place record l names where the node is   *)
(* (loc, with the handler w that has it and its operation op) and where    *)
(* the message is (msg, with the handler mw that has it and the session t  *)
(* that it is for).                                                        *)

Places == {"none", "table", "pipe", "queue"} \cup Chain
PlaceSet == [loc : Places, w : Workers \cup {NONE}, op : Ops,
             msg : {"none", "queue", "reply"}, mw : Workers \cup {NONE},
             t : Sessions \cup {NONE}]

\* The thread v handles a result about e: the end of its node, its message, or
\* its message once that has been looked at.
About(v, e) == v.pc \notin {"get", "off"} /\ v.res.fd = e
HasEnd(v, e) == About(v, e) /\ v.pc \in Chain /\ v.res.state # "SUCCESS"
HasMsg(v, e) == About(v, e) /\ v.pc = "reply"
HasRef(v, e) == About(v, e) /\ v.pc \in {"handle", "unref"} /\ v.res.state = "SUCCESS"

EndWith(W, l, e) ==
    /\ l.loc \in Chain => /\ l.w \in Workers /\ HasEnd(W[l.w], e)
                          /\ W[l.w].pc = l.loc /\ W[l.w].res.op = l.op
    /\ \A w \in Workers : HasEnd(W[w], e) => l.loc \in Chain /\ w = l.w

MsgWith(W, l, e) ==
    /\ l.msg = "reply" => /\ l.mw \in Workers /\ HasMsg(W[l.mw], e)
                          /\ W[l.mw].res.msg = l.t /\ W[l.mw].s = l.t
    /\ \A w \in Workers : HasMsg(W[w], e) => l.msg = "reply" /\ w = l.mw

RefHolders(W, e) == {w \in Workers : HasRef(W[w], e)}

\* The handlers that will tell, or may still tell, the session of the entry.
Speaking == {"connected", "written", "read", "write", "handle"}
Speaks(W, l, en) == l.loc \in Speaking => W[l.w].s = en.session

-----------------------------------------------------------------------------
(* What an entry en may be, by the places of its tokens, the number n of   *)
(* its other references, the owner m of its mutex and what that does (u),  *)
(* the message rd that is being read, and whether it is in idle_list.      *)

Polled == {"table", "pipe", "queue"}
Watched == Polled \cup {"ended"}

Counted(l, n, en) ==
    /\ n \in Nat
    /\ en.state \in {"NONE", "FREED"} <=> l.loc = "none" /\ l.msg = "none" /\ n = 0
    /\ en.ref = n + IF l.loc = "none" /\ l.msg = "none" THEN 0 ELSE 1
    /\ l.loc # "none" \/ l.msg # "none" => en.session \in Sessions

\* A message not handled yet: of a connection that is up, or that has ended.
MessageFits(l, en) ==
    /\ l.msg # "none" =>
          /\ en.session = l.t
          /\ \/ en.state = "SUCCESS" /\ l.op = "read" /\ l.loc \in Watched
             \/ en.state = "CLOSING" /\ l.loc = "none"
    /\ en.state = "SUCCESS" => l.msg # "none" \/ l.loc = "none"

\* The three operations of a node.
NodeFits(l, n, en, m, u, rd) ==
    /\ l.loc # "none" => l.op \in {"connect", "write", "read"}
    /\ l.loc = "read" => en.state = "RECEIVING"
    /\ l.loc # "none" /\ l.op = "connect" =>
          /\ l.loc \in Polled \cup {"connected", "read", "write", "handle", "unref"}
          /\ \/ en.state = "CONNECTING"
             \/ en.state = "RECEIVING" /\ l.loc \in {"read", "handle", "unref"}
          /\ n = 0 /\ m = NONE /\ rd = NONE
    /\ l.loc # "none" /\ l.op = "write" =>
          /\ l.loc \in Polled \cup {"written", "read", "handle", "unref"}
          /\ \/ en.state \in {"CONNECTING", "IDLE"}
             \/ en.state = "RECEIVING" /\ l.loc \in {"read", "handle", "unref"}
          /\ rd = NONE /\ u \notin Sending
    /\ l.loc # "none" /\ l.op = "read" =>
          /\ l.loc \in Watched \cup {"handle", "unref"}
          /\ en.state \in {"RECEIVING", "SUCCESS", "IDLE", "CLOSING", "ERROR"}
          /\ l.loc = "handle" => en.state \in {"RECEIVING", "ERROR"}
          /\ l.loc \in {"handle", "unref"} => m = NONE

\* An idle connection is in idle_list, or a thread has taken it from there.
IdleFits(l, en, m, u, idle) ==
    /\ idle => en.state = "IDLE" /\ l.op = "read" /\ l.loc \in Watched /\ u \notin Sending
    /\ m # NONE <=> u # "none"
    /\ u # "none" => u \in Locking /\ l.loc # "none"
    /\ u \in Sending => en.state = "IDLE" /\ l.op = "read" /\ l.loc \in Watched
    /\ u \in Sending \ {"popped"} => en.session = m
    /\ en.state = "IDLE" /\ l.op = "read" /\ l.loc \in Watched => idle \/ u \in Sending

ReadingFits(l, en, rd) ==
    /\ rd # NONE => l.loc = "none" \/ (l.op = "read" /\ en.state = "RECEIVING" /\ en.session = rd)
    /\ en.state = "NONE" => rd = NONE

Fits(l, n, en, m, u, rd, idle) ==
    /\ Counted(l, n, en)
    /\ MessageFits(l, en)
    /\ NodeFits(l, n, en, m, u, rd)
    /\ IdleFits(l, en, m, u, idle)
    /\ ReadingFits(l, en, rd)

\* The session of the entry is owed an answer by the connection.
Owes(l, en, u) ==
    \/ en.state \in {"CONNECTING", "RECEIVING", "ERROR"} /\ l.loc \notin {"none", "unref"}
    \/ l.msg # "none"
    \/ en.state = "IDLE" /\ u \in Sending \ {"popped"}
    \/ en.state = "IDLE" /\ l.op = "write" /\ l.loc \notin {"none", "unref"}

-----------------------------------------------------------------------------
(* The inductive invariant.                                                *)

\* What the thread does that has the mutex of e.
Sender(e) == IF mutex[e] = NONE THEN "none" ELSE user[mutex[e]].pc

Idle(e) == e \in ToSet(idle_list)

Conn(l, e) ==
    /\ NodeAt(Results, poll, e, l.loc, l.op)
    /\ Slot(poll.queue, MsgsOf(e), MsgIs(l.t), l.msg, "queue")
    /\ EndWith(worker, l, e)
    /\ MsgWith(worker, l, e)
    /\ Speaks(worker, l, entry[e])
    /\ Fits(l, Cardinality(RefHolders(worker, e)), entry[e], mutex[e], Sender(e),
            reading[e], Idle(e))

\* Who owes session s its answer: nobody yet, connection e or handler w; or it
\* has been told.
DebtSet == [by : {"none", "conn", "worker", "told"}, e : Fds \cup {NONE},
            w : Workers \cup {NONE}]

OwedBy(g, e) == Owes(g[e], entry[e], Sender(e))
Answers(v) == v.pc = "handle" /\ v.res.state = "SUCCESS"

Sess(g, d, s) ==
    /\ d.by # "none" <=> user[s].pc \in Taken
    /\ d.by = "told" => Len(outcome[s]) = 1
    /\ d.by # "told" => outcome[s] = <<>>
    /\ d.by = "conn" => d.e \in Fds /\ OwedBy(g, d.e) /\ entry[d.e].session = s
    /\ d.by = "worker" => d.w \in Workers /\ Answers(worker[d.w]) /\ worker[d.w].s = s
    /\ \A e \in Fds : OwedBy(g, e) /\ entry[e].session = s => d.by = "conn" /\ d.e = e
    /\ \A w \in Workers : Answers(worker[w]) /\ worker[w].s = s => d.by = "worker" /\ d.w = w

\* A mutex is with the thread that has it.
Mutexes ==
    /\ \A e \in Fds : mutex[e] # NONE => user[mutex[e]].pc \in Locking /\ user[mutex[e]].fd = e
    /\ \A s \in Sessions : user[s].pc \in Locking => user[s].fd \in Fds /\ mutex[user[s].fd] = s

\* A poller thread that reads a connection has its event at hand.
PollersAt ==
    \A i \in Pollers :
        /\ at[i].pc # "wait" => /\ at[i].fd \in Fds /\ Index(at[i].fd) = i
                                /\ Event(at[i].fd, "read") \in poll.batch[i]
        /\ at[i].pc = "append" => reading[at[i].fd] # NONE

\* deinit comes when no thread is inside request.
Stages ==
    closer # NONE => \A s \in Sessions : user[s].pc \in {"start", "accepted", "refused"}

Inv(g, d) ==
    /\ Types /\ Stages /\ Mutexes /\ PollersAt
    /\ bad = FALSE /\ mixed = FALSE
    /\ g \in [Fds -> PlaceSet] /\ d \in [Sessions -> DebtSet]
    /\ \A e \in Fds : Conn(g[e], e)
    /\ \A s \in Sessions : Sess(g, d[s], s)

IInv == \E g \in [Fds -> PlaceSet], d \in [Sessions -> DebtSet] : Inv(g, d)

-----------------------------------------------------------------------------
(* What a step leaves alone.                                               *)

LEMMA Constants ==
  /\ NONE \notin Fds /\ NONE \notin Sessions /\ NONE \notin Workers
  /\ Main # NONE /\ IsFiniteSet(Workers)
  BY ClientAssumption, MPollerAssumption

\* No thread takes up or leaves a result about f.
SameWork(W, V, f) ==
    \A w \in Workers : V[w] = W[w] \/ (~About(W[w], f) /\ ~About(V[w], f))

LEMMA SameWorkHas ==
  ASSUME NEW W, NEW V, NEW f, SameWork(W, V, f), NEW l, NEW en
  PROVE  /\ EndWith(W, l, f) => EndWith(V, l, f)
         /\ MsgWith(W, l, f) => MsgWith(V, l, f)
         /\ RefHolders(V, f) = RefHolders(W, f)
         /\ EndWith(W, l, f) /\ Speaks(W, l, en) => Speaks(V, l, en)
<1>1. \A w \in Workers : /\ HasEnd(V[w], f) <=> HasEnd(W[w], f)
                         /\ HasMsg(V[w], f) <=> HasMsg(W[w], f)
                         /\ HasRef(V[w], f) <=> HasRef(W[w], f)
                         /\ HasEnd(W[w], f) \/ HasMsg(W[w], f) => V[w] = W[w]
  BY DEF SameWork, HasEnd, HasMsg, HasRef
<1>2. EndWith(W, l, f) => EndWith(V, l, f)
  BY <1>1 DEF EndWith
<1>3. MsgWith(W, l, f) => MsgWith(V, l, f)
  BY <1>1 DEF MsgWith
<1>4. RefHolders(V, f) = RefHolders(W, f)
  BY <1>1 DEF RefHolders
<1>5. EndWith(W, l, f) /\ Speaks(W, l, en) => Speaks(V, l, en)
  BY <1>1 DEF EndWith, Speaks, Speaking, Chain
<1> QED  BY <1>2, <1>3, <1>4, <1>5

\* A connection that a step is not about.
Apart(f) ==
    /\ Leaves(Results, poll, poll', f)
    /\ \A t, msg : Slot(poll.queue, MsgsOf(f), MsgIs(t), msg, "queue")
                      => Slot(poll'.queue, MsgsOf(f), MsgIs(t), msg, "queue")
    /\ SameWork(worker, worker', f)
    /\ entry'[f] = entry[f] /\ mutex'[f] = mutex[f] /\ reading'[f] = reading[f]
    /\ Sender(f)' = Sender(f)
    /\ Idle(f)' <=> Idle(f)

LEMMA ConnApart ==
  ASSUME NEW f \in Fds, NEW l, Conn(l, f), Apart(f)
  PROVE  Conn(l, f)'
<1>1. NodeAt(Results, poll', f, l.loc, l.op)
  BY DEF Conn, Apart, Leaves
<1>2. Slot(poll'.queue, MsgsOf(f), MsgIs(l.t), l.msg, "queue")
  BY DEF Conn, Apart
<1>3. /\ EndWith(worker', l, f) /\ MsgWith(worker', l, f)
      /\ Speaks(worker', l, entry'[f])
      /\ RefHolders(worker', f) = RefHolders(worker, f)
  <2>1. /\ SameWork(worker, worker', f) /\ entry'[f] = entry[f]
        /\ EndWith(worker, l, f) /\ MsgWith(worker, l, f)
        /\ Speaks(worker, l, entry[f])
    BY DEF Conn, Apart
  <2> QED  BY <2>1, SameWorkHas
<1>4. Fits(l, Cardinality(RefHolders(worker', f)), entry'[f], mutex'[f], Sender(f)',
           reading'[f], Idle(f)')
  <2>1. Idle(f)' = Idle(f)
    BY DEF Apart, Idle
  <2> QED  BY <1>3, <2>1 DEF Conn, Apart
<1> QED  BY <1>1, <1>2, <1>3, <1>4 DEF Conn

\* Connection e owes session s its answer; handler w has it.
OwesTo(g, e, s) == OwedBy(g, e) /\ entry[e].session = s
AnswersTo(w, s) == Answers(worker[w]) /\ worker[w].s = s

\* Session s is owed its answer by whom it was before.
SameFor(g, k, s) ==
    /\ user'[s].pc \in Taken <=> user[s].pc \in Taken
    /\ outcome'[s] = outcome[s]
    /\ \A e \in Fds : OwesTo(k, e, s)' <=> OwesTo(g, e, s)
    /\ \A w \in Workers : AnswersTo(w, s)' <=> AnswersTo(w, s)

LEMMA SessKept ==
  ASSUME NEW g, NEW k, NEW d, NEW s \in Sessions, Sess(g, d, s), SameFor(g, k, s)
  PROVE  Sess(k, d, s)'
<1>1. d.by # "none" <=> user'[s].pc \in Taken
  BY DEF Sess, SameFor
<1>2. (d.by = "told" => Len(outcome'[s]) = 1) /\ (d.by # "told" => outcome'[s] = <<>>)
  BY DEF Sess, SameFor
<1>3. d.by = "conn" => d.e \in Fds /\ OwedBy(k, d.e)' /\ entry'[d.e].session = s
  BY DEF Sess, SameFor, OwesTo
<1>4. d.by = "worker" => d.w \in Workers /\ Answers(worker'[d.w]) /\ worker'[d.w].s = s
  BY DEF Sess, SameFor, AnswersTo
<1>5. \A e \in Fds : OwedBy(k, e)' /\ entry'[e].session = s => d.by = "conn" /\ d.e = e
  BY DEF Sess, SameFor, OwesTo
<1>6. \A w \in Workers : Answers(worker'[w]) /\ worker'[w].s = s => d.by = "worker" /\ d.w = w
  BY DEF Sess, SameFor, AnswersTo
<1> QED  BY <1>1, <1>2, <1>3, <1>4, <1>5, <1>6 DEF Sess

\* The parts of the invariant that are not about a connection or a session.
Rest1 == Types /\ Stages /\ Mutexes /\ PollersAt /\ bad = FALSE /\ mixed = FALSE

LEMMA InvParts ==
  ASSUME NEW g, NEW d, Inv(g, d)
  PROVE  /\ Rest1
         /\ g \in [Fds -> PlaceSet] /\ d \in [Sessions -> DebtSet]
         /\ \A f \in Fds : g[f] \in PlaceSet /\ Conn(g[f], f)
         /\ \A s \in Sessions : Sess(g, d[s], s)
  BY DEF Inv, Rest1

\* The step changes the place record of e alone, from g to k.
Others(e) == \A f \in Fds : f # e => Apart(f)
NewPlace(g, k, e, l) == k = [g EXCEPT ![e] = l]

LEMMA ConnStep ==
  ASSUME NEW g, NEW d, Inv(g, d), NEW e \in Fds, NEW l \in PlaceSet, Conn(l, e)', Others(e),
         NEW k, NewPlace(g, k, e, l)
  PROVE  /\ k \in [Fds -> PlaceSet] /\ k[e] = l
         /\ \A f \in Fds : Conn(k[f], f)'
         /\ \A f \in Fds : f # e => /\ OwedBy(k, f)' <=> OwedBy(g, f)
                                    /\ entry'[f] = entry[f]
<1>1. k \in [Fds -> PlaceSet] /\ k[e] = l /\ \A f \in Fds : f # e => k[f] = g[f]
  BY InvParts DEF NewPlace
<1>2. ASSUME NEW f \in Fds, f # e
      PROVE  Conn(k[f], f)'
  <2>1. Conn(g[f], f)'
    BY <1>2, ConnApart, InvParts DEF Others
  <2> QED  BY <1>1, <1>2, <2>1
<1>3. ASSUME NEW f \in Fds, f # e
      PROVE  (OwedBy(k, f)' <=> OwedBy(g, f)) /\ entry'[f] = entry[f]
  <2>1. entry'[f] = entry[f] /\ Sender(f)' = Sender(f) /\ k[f] = g[f]
    BY <1>1, <1>3 DEF Apart, Others
  <2> QED  BY <2>1 DEF OwedBy
<1> QED  BY <1>1, <1>2, <1>3

\* No handler takes up or gives an answer; no session is accepted or told.
SameAnswers ==
    \A w \in Workers : /\ Answers(worker'[w]) <=> Answers(worker[w])
                       /\ Answers(worker[w]) => worker'[w].s = worker[w].s
SameTaken ==
    /\ \A s \in Sessions : user'[s].pc \in Taken <=> user[s].pc \in Taken
    /\ outcome' = outcome

\* The places are k, and the debts of all sessions but t are what they were.
LEMMA StepDebt ==
  ASSUME NEW g, NEW d, Inv(g, d), NEW k \in [Fds -> PlaceSet],
         \A f \in Fds : Conn(k[f], f)',
         NEW t, NEW c \in DebtSet, t \in Sessions => Sess(k, c, t)',
         \A s \in Sessions : s # t => SameFor(g, k, s),
         Rest1'
  PROVE  IInv'
<1>0. PICK h : h = [d EXCEPT ![t] = c]
  OBVIOUS
<1>1. /\ h \in [Sessions -> DebtSet] /\ (t \in Sessions => h[t] = c)
      /\ \A s \in Sessions : s # t => h[s] = d[s]
  BY <1>0, InvParts
<1>2. \A s \in Sessions : Sess(k, h[s], s)'
  <2> SUFFICES ASSUME NEW s \in Sessions PROVE Sess(k, h[s], s)'
    OBVIOUS
  <2>1. CASE s = t
    BY <1>1, <2>1
  <2>2. CASE s # t
    <3>1. Sess(g, d[s], s) /\ SameFor(g, k, s)
      BY <2>2, InvParts
    <3>2. Sess(k, d[s], s)'
      BY <3>1, SessKept
    <3> QED  BY <1>1, <2>2, <3>2
  <2> QED  BY <2>1, <2>2
<1>3. Inv(k, h)'
  BY <1>1, <1>2 DEF Inv, Rest1
<1> QED  BY <1>1, <1>3 DEF IInv

\* All debts are what they were.
LEMMA StepSame ==
  ASSUME NEW g, NEW d, Inv(g, d), NEW k \in [Fds -> PlaceSet],
         \A f \in Fds : Conn(k[f], f)',
         \A f \in Fds : /\ OwedBy(k, f)' <=> OwedBy(g, f)
                        /\ OwedBy(g, f) => entry'[f].session = entry[f].session,
         SameAnswers, SameTaken, Rest1'
  PROVE  IInv'
<1>1. \A s \in Sessions : SameFor(g, k, s)
  BY DEF SameFor, OwesTo, AnswersTo, SameAnswers, SameTaken
<1>2. \A s \in Sessions : Sess(k, d[s], s)'
  BY <1>1, InvParts, SessKept
<1>3. Inv(k, d)'
  BY <1>2, InvParts DEF Inv, Rest1
<1> QED  BY <1>3, InvParts DEF IInv

\* The step is about connection e, and the debts are what they were.
LEMMA StepAt ==
  ASSUME NEW g, NEW d, Inv(g, d), NEW e \in Fds, NEW l \in PlaceSet, Conn(l, e)', Others(e),
         Owes(l, entry'[e], Sender(e)') <=> OwedBy(g, e),
         OwedBy(g, e) => entry'[e].session = entry[e].session,
         SameAnswers, SameTaken, Rest1'
  PROVE  IInv'
<1>0. PICK k : NewPlace(g, k, e, l)
  BY DEF NewPlace
<1>2. /\ k \in [Fds -> PlaceSet] /\ k[e] = l
      /\ \A f \in Fds : Conn(k[f], f)'
      /\ \A f \in Fds : f # e => (OwedBy(k, f)' <=> OwedBy(g, f)) /\ entry'[f] = entry[f]
  BY <1>0, ConnStep
<1>3. OwedBy(k, e)' <=> OwedBy(g, e)
  BY <1>2 DEF OwedBy
<1>4. \A f \in Fds : /\ OwedBy(k, f)' <=> OwedBy(g, f)
                     /\ OwedBy(g, f) => entry'[f].session = entry[f].session
  BY <1>2, <1>3
<1> QED  BY <1>2, <1>4, StepSame

\* The step is about no connection.
LEMMA StepApart ==
  ASSUME NEW g, NEW d, Inv(g, d), \A f \in Fds : Apart(f),
         SameAnswers, SameTaken, Rest1'
  PROVE  IInv'
<1>1. \A f \in Fds : Conn(g[f], f)'
  BY InvParts, ConnApart
<1>2. \A f \in Fds : /\ OwedBy(g, f)' <=> OwedBy(g, f)
                     /\ OwedBy(g, f) => entry'[f].session = entry[f].session
  <2>1. \A f \in Fds : entry'[f] = entry[f] /\ Sender(f)' = Sender(f)
    BY DEF Apart
  <2> QED  BY <2>1 DEF OwedBy
<1>3. g \in [Fds -> PlaceSet]
  BY InvParts
<1> QED  BY <1>1, <1>2, <1>3, StepSame

\* A session that was owed nothing, and told nothing, is owed its answer by e.
LEMMA NewDebt ==
  ASSUME NEW g, NEW d, Inv(g, d), NEW e \in Fds, NEW l \in PlaceSet, Conn(l, e)', Others(e),
         NEW k, NewPlace(g, k, e, l), NEW s \in Sessions,
         OwedBy(k, e)', ~OwedBy(g, e), entry'[e].session = s,
         user[s].pc \notin Taken, user'[s].pc \in Taken,
         \A r \in Sessions : r # s => user'[r] = user[r],
         outcome' = outcome, SameAnswers, Rest1'
  PROVE  IInv'
<1>1. /\ k \in [Fds -> PlaceSet] /\ \A f \in Fds : Conn(k[f], f)'
      /\ \A f \in Fds : f # e => (OwedBy(k, f)' <=> OwedBy(g, f)) /\ entry'[f] = entry[f]
  BY ConnStep
<1>2. ASSUME NEW r \in Sessions, r # s
      PROVE  SameFor(g, k, r)
  <2>1. \A f \in Fds : OwesTo(k, f, r)' <=> OwesTo(g, f, r)
    BY <1>1, <1>2 DEF OwesTo
  <2>2. \A w \in Workers : AnswersTo(w, r)' <=> AnswersTo(w, r)
    BY DEF AnswersTo, SameAnswers
  <2> QED  BY <1>2, <2>1, <2>2 DEF SameFor
<1>3. PICK c : c = [by |-> "conn", e |-> e, w |-> NONE]
  OBVIOUS
<1>4. c \in DebtSet /\ c.by = "conn" /\ c.e = e
  BY <1>3 DEF DebtSet
<1>5. Sess(k, c, s)'
  <2>1. Sess(g, d[s], s) /\ d[s].by = "none"
    BY InvParts DEF Sess
  <2>2. outcome'[s] = <<>>
    BY <2>1 DEF Sess
  <2>3. \A f \in Fds : OwedBy(k, f)' /\ entry'[f].session = s => f = e
    BY <1>1, <2>1 DEF Sess
  <2>4. \A w \in Workers : ~(Answers(worker'[w]) /\ worker'[w].s = s)
    BY <2>1 DEF Sess, SameAnswers
  <2> QED  BY <1>4, <2>2, <2>3, <2>4 DEF Sess
<1> QED  BY <1>1, <1>2, <1>4, <1>5, StepDebt

-----------------------------------------------------------------------------
(* idle_list: taking the first connection, putting one before the others,  *)
(* and removing one.                                                       *)

LEMMA IdleHead ==
  ASSUME NEW q \in Seq(Fds), Distinct(q), q # <<>>, NEW p, p = Tail(q)
  PROVE  /\ Head(q) \in Fds /\ Head(q) \in ToSet(q) /\ p \in Seq(Fds) /\ Distinct(p)
         /\ \A f : f \in ToSet(p) <=> f \in ToSet(q) /\ f # Head(q)
<1>1. /\ p \in Seq(Fds) /\ Head(q) \in Fds /\ Head(q) = q[1]
      /\ DOMAIN q = 1 .. Len(q) /\ DOMAIN p = 1 .. Len(q) - 1
      /\ Len(q) \in Nat /\ 1 \in DOMAIN q
      /\ \A i \in 1 .. Len(q) - 1 : p[i] = q[i + 1]
  BY HeadTailProperties, LenProperties, EmptySeq
<1>2. /\ \A i \in DOMAIN p : i + 1 \in DOMAIN q /\ p[i] = q[i + 1] /\ i + 1 # 1
      /\ \A i \in DOMAIN q : i = 1 \/ (i - 1 \in DOMAIN p /\ q[i] = p[i - 1])
  BY <1>1
<1>3. Distinct(p)
  <2> SUFFICES ASSUME NEW i \in DOMAIN p, NEW j \in DOMAIN p, p[i] = p[j] PROVE i = j
    BY DEF Distinct
  <2>1. i + 1 = j + 1
    BY <1>2 DEF Distinct
  <2> QED  BY <2>1, <1>1
<1>4. \A f : f \in ToSet(p) <=> f \in ToSet(q) /\ f # Head(q)
  <2>1. \A f : f \in ToSet(p) => f \in ToSet(q) /\ f # Head(q)
    BY <1>1, <1>2 DEF ToSet, Distinct
  <2>2. ASSUME NEW f, f \in ToSet(q), f # Head(q) PROVE f \in ToSet(p)
    <3>1. PICK i \in DOMAIN q : q[i] = f
      BY <2>2 DEF ToSet
    <3>2. i - 1 \in DOMAIN p /\ p[i - 1] = f
      BY <1>1, <1>2, <2>2, <3>1
    <3> QED  BY <3>2 DEF ToSet
  <2> QED  BY <2>1, <2>2
<1>5. Head(q) \in ToSet(q)
  BY <1>1 DEF ToSet
<1> QED  BY <1>1, <1>3, <1>4, <1>5

LEMMA IdlePush ==
  ASSUME NEW q \in Seq(Fds), Distinct(q), NEW e \in Fds, e \notin ToSet(q),
         NEW p, p = <<e>> \o q
  PROVE  /\ p \in Seq(Fds) /\ Distinct(p)
         /\ \A f : f \in ToSet(p) <=> f \in ToSet(q) \/ f = e
<1>1. /\ p \in Seq(Fds) /\ DOMAIN q = 1 .. Len(q) /\ DOMAIN p = 1 .. Len(q) + 1
      /\ Len(q) \in Nat /\ p[1] = e
      /\ \A i \in 1 .. Len(q) : p[i + 1] = q[i]
  BY ConcatProperties, LenProperties
<1>2. /\ \A i \in DOMAIN p : i = 1 \/ (i - 1 \in DOMAIN q /\ p[i] = q[i - 1])
      /\ \A i \in DOMAIN q : i + 1 \in DOMAIN p /\ p[i + 1] = q[i]
      /\ 1 \in DOMAIN p
  BY <1>1
<1>3. Distinct(p)
  <2> SUFFICES ASSUME NEW i \in DOMAIN p, NEW j \in DOMAIN p, p[i] = p[j] PROVE i = j
    BY DEF Distinct
  <2>1. \A k \in DOMAIN q : q[k] # e
    BY DEF ToSet
  <2>2. CASE i = 1 \/ j = 1
    BY <1>1, <1>2, <2>1, <2>2
  <2>3. CASE i # 1 /\ j # 1
    <3>1. i - 1 = j - 1
      BY <1>2, <2>3 DEF Distinct
    <3> QED  BY <3>1, <1>1
  <2> QED  BY <2>2, <2>3
<1>4. \A f : f \in ToSet(p) => f \in ToSet(q) \/ f = e
  BY <1>1, <1>2 DEF ToSet
<1>5. ASSUME NEW f, f \in ToSet(q) PROVE f \in ToSet(p)
  <2>1. PICK i \in DOMAIN q : q[i] = f
    BY <1>5 DEF ToSet
  <2>2. i + 1 \in DOMAIN p /\ p[i + 1] = f
    BY <1>2, <2>1
  <2> QED  BY <2>2 DEF ToSet
<1>6. e \in ToSet(p)
  BY <1>1, <1>2 DEF ToSet
<1> QED  BY <1>1, <1>3, <1>4, <1>5, <1>6

LEMMA IdleRemove ==
  ASSUME NEW q \in Seq(Fds), Distinct(q), NEW e \in Fds, e \in ToSet(q),
         NEW p, p = RemoveFirst(q, e)
  PROVE  /\ p \in Seq(Fds) /\ Distinct(p)
         /\ \A f : f \in ToSet(p) <=> f \in ToSet(q) /\ f # e
<1>0. DOMAIN q = 1 .. Len(q) /\ Len(q) \in Nat
  BY LenProperties
<1>1. PICK i \in 1 .. Len(q) : q[i] = e
  BY <1>0 DEF ToSet
<1>2. {j \in 1 .. Len(q) : q[j] = e} = {i}
  BY <1>0, <1>1 DEF Distinct
<1>3. SelectInSeq(q, LAMBDA v : v = e) = i
  <2>1. Min({i}) = i
    BY <1>0, <1>1 DEF Min
  <2> QED  BY <1>2, <2>1 DEF SelectInSeq
<1>a. PICK a : a = SubSeq(q, 1, i - 1)
  OBVIOUS
<1>b. PICK b : b = SubSeq(q, i + 1, Len(q))
  OBVIOUS
<1>4. p = a \o b
  BY <1>1, <1>3, <1>a, <1>b DEF RemoveFirst, RemoveAt
<1>5. /\ a \in Seq(Fds) /\ Len(a) = i - 1
      /\ \A j \in 1 .. i - 1 : a[j] = q[j]
  BY <1>0, <1>1, <1>a, SubSeqProperties
<1>6. /\ b \in Seq(Fds) /\ Len(b) = Len(q) - i
      /\ \A j \in 1 .. Len(q) - i : b[j] = q[i + j]
  <2>1. i + 1 \in Int /\ Len(q) \in Int /\ \A j \in i + 1 .. Len(q) : q[j] \in Fds
    BY <1>0, <1>1
  <2>2. /\ b \in Seq(Fds) /\ Len(b) = IF i + 1 <= Len(q) THEN Len(q) - (i + 1) + 1 ELSE 0
        /\ \A j \in 1 .. Len(q) - (i + 1) + 1 : b[j] = q[i + 1 + j - 1]
    BY <1>b, <2>1, SubSeqProperties
  <2>3. \A j \in 1 .. Len(q) - i : j \in 1 .. Len(q) - (i + 1) + 1 /\ i + 1 + j - 1 = i + j
    BY <1>0, <1>1
  <2>4. Len(b) = Len(q) - i
    <3>1. \A n \in Nat : \A k \in 1 .. n :
             (k + 1 <= n => n - (k + 1) + 1 = n - k) /\ (~(k + 1 <= n) => 0 = n - k)
      OBVIOUS
    <3> QED  BY <2>2, <3>1, <1>0, <1>1
  <2> QED  BY ONLY <2>2, <2>3, <2>4
<1>7. /\ p \in Seq(Fds) /\ DOMAIN p = 1 .. Len(q) - 1
      /\ \A j \in 1 .. Len(q) - 1 : p[j] = IF j < i THEN q[j] ELSE q[j + 1]
  <2>0. a \in Seq(Fds) /\ b \in Seq(Fds)
    BY <1>5, <1>6
  <2>1. /\ p \in Seq(Fds) /\ Len(p) = Len(a) + Len(b)
        /\ \A j \in 1 .. Len(a) + Len(b) : p[j] = IF j <= Len(a) THEN a[j] ELSE b[j - Len(a)]
    BY ONLY <1>4, <2>0, ConcatProperties
  <2>2. DOMAIN p = 1 .. Len(q) - 1
    BY <2>1, <1>0, <1>1, <1>5, <1>6, LenProperties
  <2>3. ASSUME NEW j \in 1 .. Len(q) - 1
        PROVE  p[j] = IF j < i THEN q[j] ELSE q[j + 1]
    <3>0. j \in 1 .. Len(a) + Len(b) /\ Len(a) = i - 1 /\ (j <= Len(a) <=> j < i)
      BY <1>0, <1>1, <1>5, <1>6
    <3>1. CASE j < i
      <4>1. j \in 1 .. i - 1
        BY <3>1, <1>0, <1>1
      <4> QED  BY <3>0, <3>1, <4>1, <2>1, <1>5
    <3>2. CASE ~(j < i)
      <4>1. j - (i - 1) \in 1 .. Len(q) - i /\ i + (j - (i - 1)) = j + 1
        BY <3>2, <1>0, <1>1
      <4>2. b[j - (i - 1)] = q[j + 1]
        BY <4>1, <1>6
      <4> QED  BY <3>0, <3>2, <4>2, <2>1
    <3> QED  BY <3>1, <3>2
  <2> QED  BY <2>1, <2>2, <2>3
<1>8. /\ \A j \in DOMAIN p : \E k \in DOMAIN q : k = (IF j < i THEN j ELSE j + 1) /\ p[j] = q[k]
      /\ \A k \in DOMAIN q : k # i => \E j \in DOMAIN p : k = (IF j < i THEN j ELSE j + 1) /\ p[j] = q[k]
  <2>1. ASSUME NEW j \in DOMAIN p
        PROVE  \E k \in DOMAIN q : k = (IF j < i THEN j ELSE j + 1) /\ p[j] = q[k]
    BY <1>0, <1>1, <1>7
  <2>2. ASSUME NEW k \in DOMAIN q, k # i
        PROVE  \E j \in DOMAIN p : k = (IF j < i THEN j ELSE j + 1) /\ p[j] = q[k]
    <3>1. CASE k < i
      <4>1. k \in DOMAIN p /\ p[k] = q[k]
        BY <3>1, <1>0, <1>1, <1>7
      <4> QED  BY <3>1, <4>1
    <3>2. CASE k > i
      <4>1. k - 1 \in DOMAIN p /\ ~(k - 1 < i) /\ k = k - 1 + 1 /\ p[k - 1] = q[k]
        BY <3>2, <1>0, <1>1, <1>7
      <4> QED  BY <4>1
    <3> QED  BY <3>1, <3>2, <2>2, <1>0, <1>1
  <2> QED  BY <2>1, <2>2
<1>9. Distinct(p)
  <2> SUFFICES ASSUME NEW j \in DOMAIN p, NEW k \in DOMAIN p, p[j] = p[k] PROVE j = k
    BY DEF Distinct
  <2>1. (IF j < i THEN j ELSE j + 1) = (IF k < i THEN k ELSE k + 1)
    BY <1>8 DEF Distinct
  <2> QED  BY <2>1, <1>0, <1>1, <1>7
<1>10. \A f : f \in ToSet(p) => f \in ToSet(q) /\ f # e
  <2> SUFFICES ASSUME NEW j \in DOMAIN p PROVE p[j] \in ToSet(q) /\ p[j] # e
    BY DEF ToSet
  <2>1. PICK k \in DOMAIN q : k = (IF j < i THEN j ELSE j + 1) /\ p[j] = q[k]
    BY <1>8
  <2>2. k # i
    BY <2>1, <1>0, <1>1, <1>7
  <2> QED  BY <2>1, <2>2, <1>0, <1>1 DEF ToSet, Distinct
<1>11. \A f : f \in ToSet(q) /\ f # e => f \in ToSet(p)
  BY <1>1, <1>8 DEF ToSet
<1> QED  BY <1>7, <1>9, <1>10, <1>11

-----------------------------------------------------------------------------
(* The steps of request: what they have in common.                         *)

\* Session s goes on with u.
RequestFrame(s, u) ==
    /\ closer = NONE /\ user' = [user EXCEPT ![s] = u]
    /\ UNCHANGED <<at, reading, worker, closer, outcome, mixed>>
    /\ Steady(Results, poll, poll') /\ SameMessages(Results, poll, poll')

LEMMA MsgsAreMessages == \A e : MsgsOf(e) \in SUBSET Messages(Results)
  BY DEF MsgsOf, Messages

\* A thread inside request is there before deinit.
LEMMA RequestUp ==
  ASSUME Stages, NEW s \in Sessions, user[s].pc \notin {"start", "accepted", "refused"}
  PROVE  closer = NONE
  BY DEF Stages

LEMMA RequestRest ==
  ASSUME Rest1, NEW s \in Sessions, NEW u \in UserSet, RequestFrame(s, u),
         entry' \in [Fds -> EntrySet], mutex' \in [Fds -> Sessions \cup {NONE}],
         idle_list' \in Seq(Fds), Distinct(idle_list'), bad' = FALSE, Mutexes'
  PROVE  Rest1'
<1>1. Types'
  BY DEF Rest1, Types, RequestFrame, Steady
<1>2. Stages'
  BY DEF Rest1, Stages, RequestFrame
<1>3. PollersAt'
  BY DEF Rest1, PollersAt, RequestFrame, Steady
<1> QED  BY <1>1, <1>2, <1>3 DEF Rest1, RequestFrame, Steady

GoesTo(s, u) == user' = [user EXCEPT ![s] = u]
MutexSet(e, m) == mutex' = [mutex EXCEPT ![e] = m]

\* The thread keeps the mutex of e,
LEMMA KeepsMutex ==
  ASSUME Rest1, NEW s \in Sessions, NEW u \in UserSet, NEW e,
         user[s].pc \in Locking, user[s].fd = e, u.pc \in Locking, u.fd = e,
         GoesTo(s, u), mutex' = mutex
  PROVE  /\ Mutexes' /\ e \in Fds /\ mutex[e] = s /\ s # NONE
         /\ Sender(e) = user[s].pc /\ Sender(e)' = u.pc
         /\ mutex' \in [Fds -> Sessions \cup {NONE}]
         /\ \A f \in Fds : f # e => Sender(f)' = Sender(f)
<1>1. /\ user \in [Sessions -> UserSet] /\ mutex \in [Fds -> Sessions \cup {NONE}] /\ Mutexes
      /\ user' = [user EXCEPT ![s] = u]
  BY DEF Rest1, Types, GoesTo
<1>2. e \in Fds /\ mutex[e] = s /\ s # NONE
  BY <1>1, Constants DEF Mutexes
<1>3. \A f \in Fds : f # e => mutex[f] # s
  BY <1>1, <1>2 DEF Mutexes
<1> QED  BY <1>1, <1>2, <1>3 DEF Mutexes, Sender

\* takes it,
LEMMA TakesMutex ==
  ASSUME Rest1, NEW s \in Sessions, NEW u \in UserSet, NEW e \in Fds,
         user[s].pc \notin Locking, u.pc \in Locking, u.fd = e, mutex[e] = NONE,
         GoesTo(s, u), MutexSet(e, s)
  PROVE  /\ Mutexes' /\ mutex'[e] = s /\ s # NONE
         /\ Sender(e) = "none" /\ Sender(e)' = u.pc
         /\ mutex' \in [Fds -> Sessions \cup {NONE}]
         /\ \A f \in Fds : f # e => Sender(f)' = Sender(f) /\ mutex'[f] = mutex[f]
<1>1. /\ user \in [Sessions -> UserSet] /\ mutex \in [Fds -> Sessions \cup {NONE}] /\ Mutexes
      /\ user' = [user EXCEPT ![s] = u] /\ mutex' = [mutex EXCEPT ![e] = s]
  BY DEF Rest1, Types, GoesTo, MutexSet
<1>2. s # NONE
  BY Constants
<1>3. \A f \in Fds : mutex[f] # s
  BY <1>1, <1>2 DEF Mutexes
<1>4. \A f \in Fds : mutex'[f] = IF f = e THEN s ELSE mutex[f]
  BY <1>1
<1>5. \A r \in Sessions : user'[r] = IF r = s THEN u ELSE user[r]
  BY <1>1
<1>6. \A f \in Fds : mutex'[f] # NONE =>
         mutex'[f] \in Sessions /\ user'[mutex'[f]].pc \in Locking /\ user'[mutex'[f]].fd = f
  BY <1>1, <1>3, <1>4, <1>5 DEF Mutexes
<1>7. \A r \in Sessions : user'[r].pc \in Locking =>
         user'[r].fd \in Fds /\ mutex'[user'[r].fd] = r
  BY <1>1, <1>2, <1>4, <1>5, Constants DEF Mutexes
<1>8. Mutexes'
  BY <1>6, <1>7 DEF Mutexes
<1> QED  BY <1>1, <1>2, <1>3, <1>4, <1>5, <1>8 DEF Sender

\* leaves it,
LEMMA LeavesMutex ==
  ASSUME Rest1, NEW s \in Sessions, NEW u \in UserSet, NEW e,
         user[s].pc \in Locking, user[s].fd = e, u.pc \notin Locking,
         GoesTo(s, u), MutexSet(e, NONE)
  PROVE  /\ Mutexes' /\ e \in Fds /\ mutex[e] = s /\ mutex'[e] = NONE /\ s # NONE
         /\ Sender(e) = user[s].pc /\ Sender(e)' = "none"
         /\ mutex' \in [Fds -> Sessions \cup {NONE}]
         /\ \A f \in Fds : f # e => Sender(f)' = Sender(f) /\ mutex'[f] = mutex[f]
<1>1. /\ user \in [Sessions -> UserSet] /\ mutex \in [Fds -> Sessions \cup {NONE}] /\ Mutexes
      /\ user' = [user EXCEPT ![s] = u] /\ mutex' = [mutex EXCEPT ![e] = NONE]
  BY DEF Rest1, Types, GoesTo, MutexSet
<1>2. e \in Fds /\ mutex[e] = s /\ s # NONE
  BY <1>1, Constants DEF Mutexes
<1>3. \A f \in Fds : f # e => mutex[f] # s
  BY <1>1, <1>2 DEF Mutexes
<1> QED  BY <1>1, <1>2, <1>3 DEF Mutexes, Sender

\* or has none.
LEMMA NoMutex ==
  ASSUME Rest1, NEW s \in Sessions, NEW u \in UserSet,
         user[s].pc \notin Locking, u.pc \notin Locking,
         GoesTo(s, u), mutex' = mutex
  PROVE  /\ Mutexes'
         /\ mutex' \in [Fds -> Sessions \cup {NONE}]
         /\ \A f \in Fds : Sender(f)' = Sender(f)
<1>1. /\ user \in [Sessions -> UserSet] /\ mutex \in [Fds -> Sessions \cup {NONE}] /\ Mutexes
      /\ user' = [user EXCEPT ![s] = u]
  BY DEF Rest1, Types, GoesTo
<1>2. s # NONE
  BY Constants
<1>3. \A f \in Fds : mutex[f] # s
  BY <1>1, <1>2 DEF Mutexes
<1> QED  BY <1>1, <1>2, <1>3 DEF Mutexes, Sender

\* The connections a step without a handler is not about.
LEMMA ApartOf ==
  ASSUME worker' = worker, NEW f \in Fds, Leaves(Results, poll, poll', f),
         SameMessages(Results, poll, poll'),
         entry'[f] = entry[f], mutex'[f] = mutex[f], reading'[f] = reading[f],
         Sender(f)' = Sender(f), Idle(f)' <=> Idle(f)
  PROVE  Apart(f)
  BY MsgsAreMessages DEF Apart, SameMessages, SameWork

\* What the handlers have of e, when its tokens are not with them.
SameTokens(o, l) ==
    /\ l.w = o.w /\ l.msg = o.msg /\ l.mw = o.mw /\ l.t = o.t
    /\ (l.loc = o.loc /\ l.op = o.op) \/ (l.loc \notin Chain /\ o.loc \notin Chain)

LEMMA ConnKeeps ==
  ASSUME NEW e \in Fds, NEW o, Conn(o, e), NEW l, SameTokens(o, l), worker' = worker,
         SameMessages(Results, poll, poll'),
         NodeAt(Results, poll', e, l.loc, l.op),
         l.loc \notin Speaking \/ entry'[e].session = entry[e].session,
         Fits(l, Cardinality(RefHolders(worker, e)), entry'[e], mutex'[e], Sender(e)',
              reading'[e], Idle(e)')
  PROVE  Conn(l, e)'
<1>1. Slot(poll'.queue, MsgsOf(e), MsgIs(l.t), l.msg, "queue")
  BY MsgsAreMessages DEF Conn, SameMessages, SameTokens
<1>2. EndWith(worker, l, e) /\ MsgWith(worker, l, e)
  BY DEF Conn, EndWith, MsgWith, SameTokens
<1>3. Speaks(worker, l, entry'[e])
  BY DEF Conn, Speaks, SameTokens, Speaking, Chain
<1> QED  BY <1>1, <1>2, <1>3 DEF Conn

\* An entry with a token or a reference is not freed.
LEMMA LiveConn ==
  ASSUME Rest1, NEW e \in Fds, NEW l, Conn(l, e),
         l.loc # "none" \/ l.msg # "none" \/ Cardinality(RefHolders(worker, e)) # 0
  PROVE  Live(e)
<1>1. entry[e].state \in ConnStates \cup {"NONE", "FREED"}
  BY DEF Rest1, Types, EntrySet
<1>2. Counted(l, Cardinality(RefHolders(worker, e)), entry[e])
  BY DEF Conn, Fits
<1> QED  BY <1>1, <1>2 DEF Counted, Live

\* The step leaves all connections but e alone, and the types are right.
Elsewhere(e) ==
    \A f \in Fds : f # e =>
        /\ Leaves(Results, poll, poll', f)
        /\ entry'[f] = entry[f] /\ mutex'[f] = mutex[f] /\ reading'[f] = reading[f]
        /\ Sender(f)' = Sender(f) /\ (Idle(f)' <=> Idle(f))
RequestTypes ==
    /\ entry' \in [Fds -> EntrySet] /\ mutex' \in [Fds -> Sessions \cup {NONE}]
    /\ idle_list' \in Seq(Fds) /\ Distinct(idle_list') /\ bad' = FALSE /\ Mutexes'
NewFits(l, e) ==
    Fits(l, Cardinality(RefHolders(worker, e)), entry'[e], mutex'[e], Sender(e)',
         reading'[e], Idle(e)')

LEMMA RequestStep ==
  ASSUME NEW g, NEW d, Inv(g, d), NEW s \in Sessions, NEW u \in UserSet, RequestFrame(s, u),
         RequestTypes, NEW e \in Fds, Elsewhere(e), NEW l \in PlaceSet, SameTokens(g[e], l),
         NodeAt(Results, poll', e, l.loc, l.op),
         l.loc \notin Speaking \/ entry'[e].session = entry[e].session,
         NewFits(l, e)
  PROVE  /\ Conn(l, e)' /\ Others(e) /\ SameAnswers /\ Rest1'
         /\ \A r \in Sessions : r # s => user'[r] = user[r]
         /\ user'[s] = u /\ outcome' = outcome
         /\ (u.pc \in Taken <=> user[s].pc \in Taken) => SameTaken
<1>1. Rest1 /\ Conn(g[e], e)
  BY InvParts
<1>3. Conn(l, e)'
  <2>1. worker' = worker /\ SameMessages(Results, poll, poll')
    BY DEF RequestFrame
  <2> QED  BY <1>1, <2>1, ConnKeeps DEF NewFits
<1>4. Others(e)
  <2> SUFFICES ASSUME NEW f \in Fds, f # e PROVE Apart(f)
    BY DEF Others
  <2>1. /\ worker' = worker /\ SameMessages(Results, poll, poll')
    BY DEF RequestFrame
  <2> QED  BY <2>1, ApartOf DEF Elsewhere
<1>5. SameAnswers
  BY DEF SameAnswers, RequestFrame
<1>6. Rest1'
  BY <1>1, RequestRest DEF RequestTypes
<1>7. /\ \A r \in Sessions : r # s => user'[r] = user[r]
      /\ user'[s] = u /\ outcome' = outcome
  BY <1>1 DEF RequestFrame, Rest1, Types
<1> QED  BY <1>3, <1>4, <1>5, <1>6, <1>7 DEF SameTaken

\* No connection is touched.
LEMMA RequestApart ==
  ASSUME NEW g, NEW d, Inv(g, d), NEW s \in Sessions, NEW u \in UserSet, RequestFrame(s, u),
         user[s].pc \notin Locking, u.pc \notin Locking,
         u.pc \in Taken <=> user[s].pc \in Taken,
         UNCHANGED <<poll, entry, mutex, idle_list, bad>>
  PROVE  IInv'
<1>1. Rest1
  BY InvParts
<1>2. /\ Mutexes' /\ \A f \in Fds : Sender(f)' = Sender(f)
      /\ user' = [user EXCEPT ![s] = u]
  <2>1. GoesTo(s, u) /\ mutex' = mutex
    BY DEF RequestFrame, GoesTo
  <2> QED  BY <1>1, <2>1, NoMutex DEF GoesTo
<1>3. Rest1'
  <2>1. /\ entry' \in [Fds -> EntrySet] /\ mutex' \in [Fds -> Sessions \cup {NONE}]
        /\ idle_list' \in Seq(Fds) /\ Distinct(idle_list') /\ bad' = FALSE
    BY <1>1 DEF Rest1, Types
  <2> QED  BY <1>1, <1>2, <2>1, RequestRest
<1>4. \A f \in Fds : Apart(f)
  <2> SUFFICES ASSUME NEW f \in Fds PROVE Apart(f)
    OBVIOUS
  <2>1. /\ worker' = worker /\ SameMessages(Results, poll, poll')
        /\ reading' = reading
    BY DEF RequestFrame
  <2>2. Leaves(Results, poll, poll', f) /\ (Idle(f)' <=> Idle(f))
    BY DEF Leaves, Idle
  <2> QED  BY <1>2, <2>1, <2>2, ApartOf
<1>5. SameAnswers /\ SameTaken
  BY <1>1, <1>2 DEF SameAnswers, SameTaken, RequestFrame, Rest1, Types
<1> QED  BY <1>3, <1>4, <1>5, StepApart

\* What does not change the pollers.
LEMMA SamePoll ==
  ASSUME Rest1, poll' = poll
  PROVE  /\ Steady(Results, poll, poll') /\ SameMessages(Results, poll, poll')
         /\ \A f \in Fds : Leaves(Results, poll, poll', f)
  BY DEF Rest1, Types, Steady, SameMessages, Leaves

-----------------------------------------------------------------------------
(* The steps of request.                                                   *)

LEMMA PoppedFits ==
  ASSUME NEW l, NEW n, NEW en, NEW rd, NEW s, s # NONE, Fits(l, n, en, NONE, "none", rd, TRUE)
  PROVE  /\ Fits(l, n, en, s, "popped", rd, FALSE)
         /\ Owes(l, en, "popped") <=> Owes(l, en, "none")
         /\ l.loc # "none"
  BY DEF Fits, Counted, MessageFits, NodeFits, IdleFits, ReadingFits, Owes, Sending, Locking,
         Watched, Polled

LEMMA IdleConnKeeps ==
  ASSUME NEW g, NEW d, Inv(g, d), NEW s \in Sessions, request_idle_conn(s)
  PROVE  IInv'
<1>0. Rest1 /\ closer = NONE /\ user[s].pc \notin Locking \cup Taken
  BY InvParts, RequestUp DEF request_idle_conn, Rest1, stop_flag, Locking, Sending, Taken
<1>f. /\ UNCHANGED <<at, reading, worker, closer, outcome, mixed, entry>>
      /\ poll' = poll
  BY DEF request_idle_conn, pollers, closing, history
<1>g. /\ Steady(Results, poll, poll') /\ SameMessages(Results, poll, poll')
      /\ \A f \in Fds : Leaves(Results, poll, poll', f)
  BY <1>0, <1>f, SamePoll
<1>1. CASE idle_list = <<>>
  <2>1. PICK u : u = [pc |-> "new", fd |-> NONE]
    OBVIOUS
  <2>2. /\ user' = [user EXCEPT ![s] = u] /\ u \in UserSet
        /\ u.pc \notin Locking /\ u.pc \notin Taken /\ UNCHANGED <<mutex, idle_list, bad>>
    BY <1>1, <2>1 DEF request_idle_conn, Go, UserSet, Locking, Sending, Taken
  <2>3. RequestFrame(s, u)
    BY <1>0, <1>f, <1>g, <2>2 DEF RequestFrame
  <2> QED  BY <1>0, <1>f, <2>2, <2>3, RequestApart
<1>2. CASE idle_list # <<>>
  <2>0. PICK e : e = Head(idle_list)
    OBVIOUS
  <2>1. /\ mutex[e] = NONE /\ mutex' = [mutex EXCEPT ![e] = s] /\ idle_list' = Tail(idle_list)
        /\ user' = [user EXCEPT ![s] = [pc |-> "popped", fd |-> e]]
        /\ bad' = (bad \/ ~Live(e))
    BY <1>2, <2>0 DEF request_idle_conn, Go, Uses
  <2>2. /\ e \in Fds /\ e \in ToSet(idle_list) /\ idle_list' \in Seq(Fds) /\ Distinct(idle_list')
        /\ \A f : f \in ToSet(idle_list') <=> f \in ToSet(idle_list) /\ f # e
    <3>1. idle_list \in Seq(Fds) /\ Distinct(idle_list)
      BY <1>0 DEF Rest1, Types
    <3> QED  BY <1>2, <2>0, <2>1, <3>1, IdleHead
  <2>3. PICK u : u = [pc |-> "popped", fd |-> e]
    OBVIOUS
  <2>4. u \in UserSet /\ u.pc = "popped" /\ u.fd = e /\ u.pc \in Locking /\ u.pc \notin Taken
    BY <2>2, <2>3 DEF UserSet, Locking, Sending, Taken
  <2>5. RequestFrame(s, u)
    BY <1>0, <1>f, <1>g, <2>1, <2>3 DEF RequestFrame
  <2>6. /\ Mutexes' /\ mutex'[e] = s /\ s # NONE
        /\ Sender(e) = "none" /\ Sender(e)' = "popped"
        /\ mutex' \in [Fds -> Sessions \cup {NONE}]
        /\ \A f \in Fds : f # e => Sender(f)' = Sender(f) /\ mutex'[f] = mutex[f]
    <3>1. GoesTo(s, u) /\ MutexSet(e, s)
      BY <2>1, <2>3 DEF GoesTo, MutexSet
    <3>2. /\ Mutexes' /\ mutex'[e] = s /\ s # NONE
          /\ Sender(e) = "none" /\ Sender(e)' = u.pc
          /\ mutex' \in [Fds -> Sessions \cup {NONE}]
          /\ \A f \in Fds : f # e => Sender(f)' = Sender(f) /\ mutex'[f] = mutex[f]
      BY <1>0, <3>1, <2>1, <2>2, <2>4, TakesMutex
    <3> QED  BY <3>2, <2>4
  <2>7. g[e] \in PlaceSet /\ Conn(g[e], e)
    BY <2>2, InvParts
  <2>8. Fits(g[e], Cardinality(RefHolders(worker, e)), entry[e], NONE, "none", reading[e], TRUE)
    BY <2>1, <2>2, <2>6, <2>7 DEF Conn, Idle
  <2>9. /\ Fits(g[e], Cardinality(RefHolders(worker, e)), entry[e], s, "popped", reading[e], FALSE)
        /\ Owes(g[e], entry[e], "popped") <=> Owes(g[e], entry[e], "none")
        /\ g[e].loc # "none"
    BY <2>6, <2>8, PoppedFits
  <2>10. NewFits(g[e], e)
    <3>1. Idle(e)' = FALSE
      BY <2>2 DEF Idle
    <3> QED  BY <1>f, <3>1, <2>6, <2>9 DEF NewFits
  <2>11. Live(e)
    BY <1>0, <2>2, <2>7, <2>9, LiveConn
  <2>12. RequestTypes
    BY <1>0, <1>f, <2>1, <2>2, <2>6, <2>11 DEF RequestTypes, Rest1, Types
  <2>13. Elsewhere(e)
    BY <1>f, <1>g, <2>2, <2>6 DEF Elsewhere, Idle
  <2>14. SameTokens(g[e], g[e]) /\ NodeAt(Results, poll', e, g[e].loc, g[e].op)
    BY <1>f, <2>7 DEF SameTokens, Conn
  <2>15. Conn(g[e], e)' /\ Others(e) /\ SameAnswers /\ Rest1' /\ SameTaken
    BY <1>0, <1>f, <2>2, <2>4, <2>5, <2>7, <2>10, <2>12, <2>13, <2>14, RequestStep
  <2>16. /\ Owes(g[e], entry'[e], Sender(e)') <=> OwedBy(g, e)
         /\ entry'[e].session = entry[e].session
    BY <1>f, <2>6, <2>9 DEF OwedBy
  <2> QED  BY <2>2, <2>7, <2>15, <2>16, StepAt
<1> QED  BY <1>1, <1>2

\* A thread that has the mutex of e.
LEMMA HeldConn ==
  ASSUME NEW g, NEW d, Inv(g, d), NEW s \in Sessions, user[s].pc \in Locking,
         NEW e, e = user[s].fd
  PROVE  /\ Rest1 /\ closer = NONE /\ e \in Fds /\ mutex[e] = s /\ s # NONE
         /\ Sender(e) = user[s].pc
         /\ g[e] \in PlaceSet /\ Conn(g[e], e) /\ Live(e) /\ entry[e] \in EntrySet
         /\ NodeAt(Results, poll, e, g[e].loc, g[e].op)
         /\ Fits(g[e], Cardinality(RefHolders(worker, e)), entry[e], s, user[s].pc,
                 reading[e], Idle(e))
<1>1. Rest1 /\ Mutexes
  BY InvParts DEF Rest1
<1>2. closer = NONE
  BY <1>1, RequestUp DEF Rest1, Locking, Sending
<1>3. e \in Fds /\ mutex[e] = s /\ s # NONE /\ Sender(e) = user[s].pc
  BY <1>1, Constants DEF Mutexes, Sender
<1>4. g[e] \in PlaceSet /\ Conn(g[e], e)
  BY <1>3, InvParts
<1>5. /\ NodeAt(Results, poll, e, g[e].loc, g[e].op)
      /\ Fits(g[e], Cardinality(RefHolders(worker, e)), entry[e], s, user[s].pc,
              reading[e], Idle(e))
  BY <1>3, <1>4 DEF Conn
<1>6. g[e].loc # "none"
  BY <1>5 DEF Fits, IdleFits, Locking, Sending
<1>7. Live(e) /\ entry[e] \in EntrySet
  BY <1>1, <1>3, <1>4, <1>6, LiveConn DEF Rest1, Types
<1> QED  BY <1>1, <1>2, <1>3, <1>4, <1>5, <1>7

\* It goes on, with the entry en.
HeldStep(s, u, e, en) ==
    /\ GoesTo(s, u) /\ mutex' = mutex /\ entry' = [entry EXCEPT ![e] = en]
    /\ bad' = (bad \/ ~Live(e))
    /\ UNCHANGED <<at, reading, worker, closer, outcome, mixed, idle_list>>
PollKept(e) ==
    /\ Steady(Results, poll, poll')
    /\ SameMessages(Results, poll, poll')
    /\ \A f \in Fds : f # e => Leaves(Results, poll, poll', f)

LEMMA HeldKeeps ==
  ASSUME NEW g, NEW d, Inv(g, d), NEW s \in Sessions, user[s].pc \in Locking,
         NEW e, e = user[s].fd, NEW u \in UserSet, u.pc \in Locking, u.fd = e,
         NEW en \in EntrySet, HeldStep(s, u, e, en), PollKept(e),
         NEW l \in PlaceSet, SameTokens(g[e], l), NodeAt(Results, poll', e, l.loc, l.op),
         l.loc \notin Speaking \/ en.session = entry[e].session,
         Fits(l, Cardinality(RefHolders(worker, e)), en, s, u.pc, reading[e], Idle(e))
  PROVE  /\ e \in Fds /\ Conn(l, e)' /\ Others(e) /\ SameAnswers /\ Rest1'
         /\ \A r \in Sessions : r # s => user'[r] = user[r]
         /\ user'[s] = u /\ outcome' = outcome
         /\ (u.pc \in Taken <=> user[s].pc \in Taken) => SameTaken
         /\ entry'[e] = en /\ Sender(e)' = u.pc
<1>1. /\ Rest1 /\ closer = NONE /\ e \in Fds /\ Live(e)
  BY HeldConn
<1>2. /\ Mutexes' /\ mutex[e] = s /\ Sender(e)' = u.pc
      /\ mutex' \in [Fds -> Sessions \cup {NONE}]
      /\ \A f \in Fds : f # e => Sender(f)' = Sender(f)
  <2>1. GoesTo(s, u) /\ mutex' = mutex
    BY DEF HeldStep
  <2> QED  BY <1>1, <2>1, KeepsMutex
<1>3. RequestFrame(s, u)
  BY <1>1 DEF RequestFrame, HeldStep, PollKept, GoesTo
<1>4. /\ entry' \in [Fds -> EntrySet] /\ entry'[e] = en
      /\ \A f \in Fds : f # e => entry'[f] = entry[f]
  BY <1>1 DEF HeldStep, Rest1, Types
<1>5. \A f \in Fds : Idle(f)' = Idle(f)
  BY DEF HeldStep, Idle
<1>6. RequestTypes
  BY <1>1, <1>2, <1>4 DEF RequestTypes, HeldStep, Rest1, Types
<1>7. Elsewhere(e)
  BY <1>2, <1>4, <1>5 DEF Elsewhere, HeldStep, PollKept
<1>8. NewFits(l, e)
  BY <1>1, <1>2, <1>4, <1>5 DEF NewFits, HeldStep
<1>9. l.loc \notin Speaking \/ entry'[e].session = entry[e].session
  BY <1>4
<1>10. /\ Conn(l, e)' /\ Others(e) /\ SameAnswers /\ Rest1'
       /\ \A r \in Sessions : r # s => user'[r] = user[r]
       /\ user'[s] = u /\ outcome' = outcome
       /\ (u.pc \in Taken <=> user[s].pc \in Taken) => SameTaken
  BY <1>1, <1>3, <1>6, <1>7, <1>8, <1>9, RequestStep
<1> QED  BY <1>1, <1>2, <1>4, <1>10

\* Steps that leave the debts as they are.
LEMMA HeldSame ==
  ASSUME NEW g, NEW d, Inv(g, d), NEW s \in Sessions, user[s].pc \in Locking,
         NEW e, e = user[s].fd, NEW u \in UserSet, u.pc \in Locking, u.fd = e,
         NEW en \in EntrySet, HeldStep(s, u, e, en), PollKept(e),
         NEW l \in PlaceSet, SameTokens(g[e], l), NodeAt(Results, poll', e, l.loc, l.op),
         en.session = entry[e].session,
         Fits(l, Cardinality(RefHolders(worker, e)), en, s, u.pc, reading[e], Idle(e)),
         Owes(l, en, u.pc) <=> Owes(g[e], entry[e], user[s].pc),
         u.pc \in Taken <=> user[s].pc \in Taken
  PROVE  IInv'
<1>1. e \in Fds /\ Sender(e) = user[s].pc
  BY HeldConn
<1>2. /\ Conn(l, e)' /\ Others(e) /\ SameAnswers /\ Rest1' /\ SameTaken
      /\ entry'[e] = en /\ Sender(e)' = u.pc
  BY HeldKeeps
<1>3. /\ Owes(l, entry'[e], Sender(e)') <=> OwedBy(g, e)
      /\ entry'[e].session = entry[e].session
  BY <1>1, <1>2 DEF OwedBy
<1> QED  BY <1>1, <1>2, <1>3, StepAt

LEMMA SamePollKept ==
  ASSUME Rest1, poll' = poll, NEW e
  PROVE  PollKept(e)
  BY SamePoll DEF PollKept

LEMMA SendFits ==
  ASSUME NEW l, NEW n, NEW en, NEW s, NEW rd, NEW idle, NEW u \in Sending \ {"popped"},
         Fits(l, n, en, s, u, rd, idle), NEW v \in Sending \ {"popped"}
  PROVE  Fits(l, n, en, s, v, rd, idle) /\ (Owes(l, en, v) <=> Owes(l, en, u))
  BY DEF Fits, NodeFits, IdleFits, Owes, Sending, Locking

LEMMA SendKeeps ==
  ASSUME NEW g, NEW d, Inv(g, d), NEW s \in Sessions, send_message(s)
  PROVE  IInv'
<1>0. PICK e : e = user[s].fd
  OBVIOUS
<1>1. PICK v \in {"sent", "full", "failed"} : user' = [user EXCEPT ![s] = [pc |-> v, fd |-> e]]
  BY <1>0 DEF send_message, Go
<1>2. user[s].pc \in Locking /\ user[s].pc = "send"
  BY DEF send_message, Locking, Sending
<1>3. /\ Rest1 /\ e \in Fds /\ g[e] \in PlaceSet /\ entry[e] \in EntrySet
      /\ NodeAt(Results, poll, e, g[e].loc, g[e].op)
      /\ Fits(g[e], Cardinality(RefHolders(worker, e)), entry[e], s, user[s].pc,
              reading[e], Idle(e))
  BY <1>0, <1>2, HeldConn
<1>4. PICK u : u = [pc |-> v, fd |-> e]
  OBVIOUS
<1>5. /\ u \in UserSet /\ u.pc = v /\ u.fd = e /\ u.pc \in Locking
      /\ u.pc \in Taken <=> user[s].pc \in Taken
  BY <1>2, <1>3, <1>4 DEF UserSet, Locking, Sending, Taken
<1>6. HeldStep(s, u, e, entry[e]) /\ poll' = poll
  <2>1. entry' = [entry EXCEPT ![e] = entry[e]]
    BY <1>3 DEF send_message, Rest1, Types
  <2> QED  BY <1>0, <1>1, <1>4, <2>1
           DEF send_message, HeldStep, GoesTo, Uses, pollers, closing, history
<1>7. /\ Fits(g[e], Cardinality(RefHolders(worker, e)), entry[e], s, u.pc, reading[e], Idle(e))
      /\ Owes(g[e], entry[e], u.pc) <=> Owes(g[e], entry[e], user[s].pc)
  BY <1>2, <1>3, <1>5, SendFits DEF Sending
<1>8. PollKept(e) /\ SameTokens(g[e], g[e]) /\ NodeAt(Results, poll', e, g[e].loc, g[e].op)
  BY <1>3, <1>6, SamePollKept DEF SameTokens
<1> QED  BY <1>0, <1>2, <1>3, <1>5, <1>6, <1>7, <1>8, HeldSame

\* The entry with another state.
InState(en, st) == [en EXCEPT !.state = st]

LEMMA InStateFields ==
  ASSUME NEW en \in EntrySet, NEW st \in ConnStates, NEW x, x = InState(en, st)
  PROVE  x \in EntrySet /\ x.state = st /\ x.ref = en.ref /\ x.session = en.session
  BY DEF EntrySet, InState

\* The place record with another place or operation.
At(l, loc, op) == [l EXCEPT !.loc = loc, !.op = op]

LEMMA AtFields ==
  ASSUME NEW l \in PlaceSet, NEW loc \in Places, NEW op \in Ops, NEW x, x = At(l, loc, op)
  PROVE  /\ x \in PlaceSet /\ x.loc = loc /\ x.op = op
         /\ x.w = l.w /\ x.msg = l.msg /\ x.mw = l.mw /\ x.t = l.t
  BY DEF PlaceSet, At

\* The request is sent, or its connection has ended.
LEMMA SyncFits ==
  ASSUME NEW l, NEW n, NEW en, NEW s, NEW rd, NEW idle, NEW u \in {"sent", "full"},
         Fits(l, n, en, s, u, rd, idle),
         NEW x, x.state = "RECEIVING", x.ref = en.ref, x.session = en.session
  PROVE  Fits(l, n, x, s, "unlock", rd, idle) /\ (Owes(l, x, "unlock") <=> Owes(l, en, u))
  BY DEF Fits, Counted, MessageFits, NodeFits, IdleFits, ReadingFits, Owes, Sending, Locking,
         Watched, Polled

LEMMA SyncKeeps ==
  ASSUME NEW g, NEW d, Inv(g, d), NEW s \in Sessions, user[s].pc \in {"sent", "full"},
         NEW e, e = user[s].fd, GoesTo(s, [pc |-> "unlock", fd |-> e]),
         entry' = [entry EXCEPT ![e].state = "RECEIVING"], bad' = (bad \/ ~Live(e)),
         UNCHANGED <<poll, at, reading, mutex, idle_list, worker, closer, outcome, mixed>>
  PROVE  IInv'
<1>2. user[s].pc \in Locking
  BY DEF Locking, Sending
<1>3. /\ Rest1 /\ e \in Fds /\ g[e] \in PlaceSet /\ entry[e] \in EntrySet
      /\ NodeAt(Results, poll, e, g[e].loc, g[e].op)
      /\ Fits(g[e], Cardinality(RefHolders(worker, e)), entry[e], s, user[s].pc,
              reading[e], Idle(e))
  BY <1>2, HeldConn
<1>4. PICK u : u = [pc |-> "unlock", fd |-> e]
  OBVIOUS
<1>5. /\ u \in UserSet /\ u.pc = "unlock" /\ u.fd = e /\ u.pc \in Locking
      /\ u.pc \in Taken <=> user[s].pc \in Taken
  BY <1>3, <1>4 DEF UserSet, Locking, Sending, Taken
<1>x. PICK x : x = InState(entry[e], "RECEIVING")
  OBVIOUS
<1>y. x \in EntrySet /\ x.state = "RECEIVING" /\ x.ref = entry[e].ref /\ x.session = entry[e].session
  BY <1>3, <1>x, InStateFields DEF ConnStates
<1>6. HeldStep(s, u, e, x)
  <2>1. entry' = [entry EXCEPT ![e] = x]
    BY <1>x DEF InState
  <2> QED  BY <1>4, <2>1 DEF HeldStep
<1>7. /\ Fits(g[e], Cardinality(RefHolders(worker, e)), x, s, u.pc, reading[e], Idle(e))
      /\ Owes(g[e], x, u.pc) <=> Owes(g[e], entry[e], user[s].pc)
  BY <1>3, <1>5, <1>y, SyncFits
<1>8. PollKept(e) /\ SameTokens(g[e], g[e]) /\ NodeAt(Results, poll', e, g[e].loc, g[e].op)
  BY <1>3, SamePollKept DEF SameTokens
<1> QED  BY <1>2, <1>3, <1>5, <1>6, <1>y, <1>7, <1>8, HeldSame

\* The rest of the request is left to the poller.
LEMMA AsyncFits ==
  ASSUME NEW l, NEW n, NEW en, NEW s, NEW rd, NEW idle, Fits(l, n, en, s, "full", rd, idle),
         l.loc = "table", NEW x, x.loc = l.loc, x.op = "write", x.msg = l.msg, x.t = l.t
  PROVE  Fits(x, n, en, s, "unlock", rd, idle) /\ (Owes(x, en, "unlock") <=> Owes(l, en, "full"))
  BY DEF Fits, Counted, MessageFits, NodeFits, IdleFits, ReadingFits, Owes, Sending, Locking,
         Watched, Polled

\* The node of a connection in use is that of a read, of its reply or its request.
LEMMA HeldNode ==
  ASSUME NEW l, NEW n, NEW en, NEW s, NEW u \in Sending, NEW rd, NEW idle,
         Fits(l, n, en, s, u, rd, idle)
  PROVE  l.op = "read" /\ l.loc \in Watched
  BY DEF Fits, IdleFits

\* The results there may be.
LEMMA ResultsOf ==
  ASSUME NEW e \in Fds
  PROVE  /\ \A op \in {"connect", "write", "read"}, st \in Ends : Result(e, op, st, NONE) \in Results
         /\ Result(e, "read", "MODIFIED", NONE) \in Results
         /\ \A m \in Sessions : Result(e, "read", "SUCCESS", m) \in Results
  BY DEF Results, Result, Ops, Ends

LEMMA TableOp ==
  ASSUME NEW e, NEW l, NodeAt(Results, poll, e, l.loc, l.op)
  PROVE  /\ Registered(poll, e) /\ l.op \in Ops => l.loc = "table" /\ poll.table[e] = l.op
         /\ l.loc = "table" /\ l.op \in Ops => Registered(poll, e)
  BY DEF NodeAt, Registered, Ops

LEMMA AsyncKeeps ==
  ASSUME NEW g, NEW d, Inv(g, d), NEW s \in Sessions, send_message_async(s)
  PROVE  IInv'
<1>0. PICK e : e = user[s].fd
  OBVIOUS
<1>2. user[s].pc \in Locking /\ user[s].pc = "full" /\ user[s].pc \in Sending
  BY DEF send_message_async, Locking, Sending
<1>3. /\ Rest1 /\ e \in Fds /\ g[e] \in PlaceSet /\ entry[e] \in EntrySet
      /\ NodeAt(Results, poll, e, g[e].loc, g[e].op)
      /\ Fits(g[e], Cardinality(RefHolders(worker, e)), entry[e], s, user[s].pc,
              reading[e], Idle(e))
  BY <1>0, <1>2, HeldConn
<1>f. /\ UNCHANGED <<at, reading, mutex, idle_list, worker, closer, outcome, mixed>>
      /\ bad' = (bad \/ ~Live(e))
  BY <1>0 DEF send_message_async, Uses, pollers, closing, history
<1>4. CASE /\ Registered(poll, e) /\ poll' = mpoller_mod(poll, e, "write")
           /\ Go(s, "unlock", e) /\ UNCHANGED entry
  <2>1. g[e].op = "read" /\ g[e].loc = "table"
    <3>1. g[e].op = "read"
      BY <1>2, <1>3, HeldNode
    <3> QED  BY <1>3, <1>4, <3>1, TableOp DEF Ops
  <2>2. PollKept(e) /\ NodeAt(Results, poll', e, "table", "write")
    <3>1. poll \in Group(Results) /\ NodeAt(Results, poll, e, "table", "read")
      BY <1>3, <2>1 DEF Rest1, Types
    <3>2. Result(e, "read", "MODIFIED", NONE) \in Results
      BY <1>3, ResultsOf
    <3>3. "read" \in Ops /\ "write" \in Ops
      BY DEF Ops
    <3> QED  BY <1>3, <1>4, <3>1, <3>2, <3>3, ModNode DEF PollKept
  <2>3. PICK l : l = At(g[e], "table", "write")
    OBVIOUS
  <2>4. /\ l \in PlaceSet /\ l.loc = "table" /\ l.op = "write"
        /\ l.w = g[e].w /\ l.msg = g[e].msg /\ l.mw = g[e].mw /\ l.t = g[e].t
    <3>1. "table" \in Places /\ "write" \in Ops
      BY DEF Places, Ops
    <3> QED  BY <1>3, <2>3, <3>1, AtFields
  <2>5. SameTokens(g[e], l)
    BY <2>1, <2>4 DEF SameTokens, Chain
  <2>6. PICK u : u = [pc |-> "unlock", fd |-> e]
    OBVIOUS
  <2>7. /\ u \in UserSet /\ u.pc = "unlock" /\ u.fd = e /\ u.pc \in Locking
        /\ u.pc \in Taken <=> user[s].pc \in Taken
    BY <1>2, <1>3, <2>6 DEF UserSet, Locking, Sending, Taken
  <2>8. HeldStep(s, u, e, entry[e])
    <3>1. entry' = [entry EXCEPT ![e] = entry[e]]
      BY <1>3, <1>4 DEF Rest1, Types
    <3> QED  BY <1>4, <1>f, <2>6, <3>1 DEF HeldStep, GoesTo, Go
  <2>9. /\ Fits(l, Cardinality(RefHolders(worker, e)), entry[e], s, u.pc, reading[e], Idle(e))
        /\ Owes(l, entry[e], u.pc) <=> Owes(g[e], entry[e], user[s].pc)
    BY <1>2, <1>3, <2>1, <2>4, <2>7, AsyncFits
  <2>10. NodeAt(Results, poll', e, l.loc, l.op)
    BY <2>2, <2>4
  <2> QED  BY <1>0, <1>2, <1>3, <2>2, <2>4, <2>5, <2>7, <2>8, <2>9, <2>10, HeldSame
<1>5. CASE /\ ~Registered(poll, e) /\ entry' = [entry EXCEPT ![e].state = "RECEIVING"]
           /\ Go(s, "unlock", e) /\ UNCHANGED poll
  <2>1. GoesTo(s, [pc |-> "unlock", fd |-> e])
    BY <1>5 DEF GoesTo, Go
  <2> QED  BY <1>0, <1>2, <1>5, <1>f, <2>1, SyncKeeps
<1>6. CASE Go(s, "failed", e) /\ UNCHANGED <<poll, entry>>
  <2>6. PICK u : u = [pc |-> "failed", fd |-> e]
    OBVIOUS
  <2>7. /\ u \in UserSet /\ u.pc = "failed" /\ u.fd = e /\ u.pc \in Locking
        /\ u.pc \in Taken <=> user[s].pc \in Taken
    BY <1>2, <1>3, <2>6 DEF UserSet, Locking, Sending, Taken
  <2>8. HeldStep(s, u, e, entry[e])
    <3>1. entry' = [entry EXCEPT ![e] = entry[e]]
      BY <1>3, <1>6 DEF Rest1, Types
    <3> QED  BY <1>6, <1>f, <2>6, <3>1 DEF HeldStep, GoesTo, Go
  <2>9. /\ Fits(g[e], Cardinality(RefHolders(worker, e)), entry[e], s, u.pc, reading[e], Idle(e))
        /\ Owes(g[e], entry[e], u.pc) <=> Owes(g[e], entry[e], user[s].pc)
    BY <1>2, <1>3, <2>7, SendFits DEF Sending
  <2>10. PollKept(e) /\ SameTokens(g[e], g[e]) /\ NodeAt(Results, poll', e, g[e].loc, g[e].op)
    BY <1>3, <1>6, SamePollKept DEF SameTokens
  <2> QED  BY <1>0, <1>2, <1>3, <2>7, <2>8, <2>9, <2>10, HeldSame
<1> QED  BY <1>0, <1>4, <1>5, <1>6 DEF send_message_async

LEMMA SendSyncKeeps ==
  ASSUME NEW g, NEW d, Inv(g, d), NEW s \in Sessions, send_message_sync(s)
  PROVE  IInv'
<1>0. PICK e : e = user[s].fd
  OBVIOUS
<1>1. /\ user[s].pc \in {"sent", "full"} /\ GoesTo(s, [pc |-> "unlock", fd |-> e])
      /\ entry' = [entry EXCEPT ![e].state = "RECEIVING"] /\ bad' = (bad \/ ~Live(e))
      /\ UNCHANGED <<poll, at, reading, mutex, idle_list, worker, closer, outcome, mixed>>
  BY <1>0 DEF send_message_sync, Uses, GoesTo, Go, pollers, closing, history
<1> QED  BY <1>0, <1>1, SyncKeeps

\* What mpoller_del makes of the node of e.
Deleted(l) == IF l.loc = "table" THEN At(l, "pipe", l.op) ELSE l

LEMMA DeletedNode ==
  ASSUME NEW x \in Group(Results), NEW e \in Fds, NEW o \in PlaceSet,
         o.op \in {"connect", "write", "read"}, NodeAt(Results, x, e, o.loc, o.op),
         NEW y, y = mpoller_del(x, e), NEW l, l = Deleted(o)
  PROVE  /\ Steady(Results, x, y) /\ SameMessages(Results, x, y)
         /\ \A f \in Fds : f # e => Leaves(Results, x, y, f)
         /\ NodeAt(Results, y, e, l.loc, l.op)
         /\ l \in PlaceSet /\ l.op = o.op
         /\ l.w = o.w /\ l.msg = o.msg /\ l.mw = o.mw /\ l.t = o.t
         /\ (o.loc # "table" /\ l.loc = o.loc) \/ (o.loc = "table" /\ l.loc = "pipe")
<1>1. o.op \in Ops /\ "pipe" \in Places
  BY DEF Ops, Places
<1>2. Registered(x, e) => Result(e, x.table[e], "DELETED", NONE) \in Results
  <2> SUFFICES ASSUME Registered(x, e) PROVE Result(e, x.table[e], "DELETED", NONE) \in Results
    OBVIOUS
  <2>1. x.table[e] = o.op
    BY DEF NodeAt, Registered
  <2> QED  BY <2>1, ResultsOf DEF Ends
<1>3. /\ Steady(Results, x, y) /\ SameMessages(Results, x, y)
      /\ \A f \in Fds : f # e => Leaves(Results, x, y, f)
      /\ \A op \in Ops : NodeAt(Results, x, e, "table", op)
            => NodeAt(Results, y, e, "pipe", op)
  BY <1>2, DelNode
<1>4. CASE o.loc = "table"
  <2>1. l = At(o, "pipe", o.op)
    BY <1>4 DEF Deleted
  <2>2. /\ l \in PlaceSet /\ l.loc = "pipe" /\ l.op = o.op
        /\ l.w = o.w /\ l.msg = o.msg /\ l.mw = o.mw /\ l.t = o.t
    BY <1>1, <2>1, AtFields
  <2>3. NodeAt(Results, y, e, "pipe", o.op)
    BY <1>1, <1>3, <1>4
  <2> QED  BY <1>3, <1>4, <2>2, <2>3
<1>5. CASE o.loc # "table"
  <2>1. l = o /\ ~Registered(x, e)
    BY <1>5 DEF Deleted, NodeAt, Registered
  <2>2. y = x
    BY <2>1 DEF mpoller_del
  <2> QED  BY <1>3, <1>5, <2>1, <2>2
<1> QED  BY <1>4, <1>5

LEMMA FailedFits ==
  ASSUME NEW l, NEW n, NEW en, NEW s, NEW rd, NEW idle, Fits(l, n, en, s, "failed", rd, idle),
         NEW x, x.state = "ERROR", x.ref = en.ref, x.session = en.session,
         NEW k, k.op = l.op, k.msg = l.msg, k.t = l.t,
         (l.loc # "table" /\ k.loc = l.loc) \/ (l.loc = "table" /\ k.loc = "pipe")
  PROVE  Fits(k, n, x, s, "unlock", rd, idle) /\ (Owes(k, x, "unlock") <=> Owes(l, en, "failed"))
  BY DEF Fits, Counted, MessageFits, NodeFits, IdleFits, ReadingFits, Owes, Sending, Locking,
         Watched, Polled

LEMMA FailedKeeps ==
  ASSUME NEW g, NEW d, Inv(g, d), NEW s \in Sessions, request_idle_failed(s)
  PROVE  IInv'
<1>0. PICK e : e = user[s].fd
  OBVIOUS
<1>2. user[s].pc \in Locking /\ user[s].pc = "failed" /\ user[s].pc \in Sending
  BY DEF request_idle_failed, Locking, Sending
<1>3. /\ Rest1 /\ e \in Fds /\ g[e] \in PlaceSet /\ entry[e] \in EntrySet
      /\ NodeAt(Results, poll, e, g[e].loc, g[e].op)
      /\ Fits(g[e], Cardinality(RefHolders(worker, e)), entry[e], s, user[s].pc,
              reading[e], Idle(e))
  BY <1>0, <1>2, HeldConn
<1>4. PICK u : u = [pc |-> "unlock", fd |-> e]
  OBVIOUS
<1>5. /\ u \in UserSet /\ u.pc = "unlock" /\ u.fd = e /\ u.pc \in Locking
      /\ u.pc \in Taken <=> user[s].pc \in Taken
  BY <1>2, <1>3, <1>4 DEF UserSet, Locking, Sending, Taken
<1>x. PICK x : x = InState(entry[e], "ERROR")
  OBVIOUS
<1>y. x \in EntrySet /\ x.state = "ERROR" /\ x.ref = entry[e].ref /\ x.session = entry[e].session
  BY <1>3, <1>x, InStateFields DEF ConnStates
<1>6. HeldStep(s, u, e, x)
  <2>1. entry' = [entry EXCEPT ![e] = x]
    BY <1>0, <1>x DEF InState, request_idle_failed
  <2> QED  BY <1>0, <1>4, <2>1
           DEF request_idle_failed, HeldStep, GoesTo, Go, Uses, pollers, closing, history
<1>7. g[e].op = "read" /\ g[e].loc \in Watched
  BY <1>2, <1>3, HeldNode
<1>8. PICK l : l = Deleted(g[e])
  OBVIOUS
<1>9. /\ Steady(Results, poll, poll') /\ SameMessages(Results, poll, poll')
      /\ \A f \in Fds : f # e => Leaves(Results, poll, poll', f)
      /\ NodeAt(Results, poll', e, l.loc, l.op)
      /\ l \in PlaceSet /\ l.op = g[e].op
      /\ l.w = g[e].w /\ l.msg = g[e].msg /\ l.mw = g[e].mw /\ l.t = g[e].t
      /\ (g[e].loc # "table" /\ l.loc = g[e].loc) \/ (g[e].loc = "table" /\ l.loc = "pipe")
  <2>1. poll \in Group(Results) /\ poll' = mpoller_del(poll, e)
    BY <1>0, <1>3 DEF Rest1, Types, request_idle_failed
  <2> QED  BY <1>3, <1>7, <1>8, <2>1, DeletedNode
<1>10. PollKept(e) /\ SameTokens(g[e], l)
  BY <1>9 DEF PollKept, SameTokens, Chain
<1>11. /\ Fits(l, Cardinality(RefHolders(worker, e)), x, s, u.pc, reading[e], Idle(e))
       /\ Owes(l, x, u.pc) <=> Owes(g[e], entry[e], user[s].pc)
  BY <1>2, <1>3, <1>5, <1>y, <1>9, FailedFits
<1> QED  BY <1>0, <1>2, <1>3, <1>5, <1>6, <1>y, <1>9, <1>10, <1>11, HeldSame

\* The thread gives the mutex back.
LEMMA LeaveSame ==
  ASSUME NEW g, NEW d, Inv(g, d), NEW s \in Sessions, user[s].pc \in Locking,
         NEW e, e = user[s].fd, NEW u \in UserSet, u.pc \notin Locking,
         NEW en \in EntrySet, en.session = entry[e].session,
         GoesTo(s, u), MutexSet(e, NONE), entry' = [entry EXCEPT ![e] = en],
         bad' = (bad \/ ~Live(e)),
         UNCHANGED <<poll, at, reading, worker, closer, outcome, mixed, idle_list>>,
         Fits(g[e], Cardinality(RefHolders(worker, e)), en, NONE, "none", reading[e], Idle(e)),
         Owes(g[e], en, "none") <=> Owes(g[e], entry[e], user[s].pc),
         u.pc \in Taken <=> user[s].pc \in Taken
  PROVE  IInv'
<1>1. /\ Rest1 /\ closer = NONE /\ e \in Fds /\ Live(e) /\ g[e] \in PlaceSet
      /\ NodeAt(Results, poll, e, g[e].loc, g[e].op)
  BY HeldConn
<1>2. /\ Mutexes' /\ mutex'[e] = NONE /\ Sender(e) = user[s].pc /\ Sender(e)' = "none"
      /\ mutex' \in [Fds -> Sessions \cup {NONE}]
      /\ \A f \in Fds : f # e => Sender(f)' = Sender(f) /\ mutex'[f] = mutex[f]
  BY <1>1, LeavesMutex
<1>3. Steady(Results, poll, poll') /\ SameMessages(Results, poll, poll')
      /\ \A f \in Fds : Leaves(Results, poll, poll', f)
  BY <1>1, SamePoll
<1>4. RequestFrame(s, u)
  BY <1>1, <1>3 DEF RequestFrame, GoesTo
<1>5. /\ entry' \in [Fds -> EntrySet] /\ entry'[e] = en
      /\ \A f \in Fds : f # e => entry'[f] = entry[f]
  BY <1>1 DEF Rest1, Types
<1>6. \A f \in Fds : Idle(f)' = Idle(f)
  BY DEF Idle
<1>7. RequestTypes
  BY <1>1, <1>2, <1>5 DEF RequestTypes, Rest1, Types
<1>8. Elsewhere(e)
  BY <1>2, <1>3, <1>5, <1>6 DEF Elsewhere
<1>9. NewFits(g[e], e)
  BY <1>1, <1>2, <1>5, <1>6 DEF NewFits
<1>10. SameTokens(g[e], g[e]) /\ NodeAt(Results, poll', e, g[e].loc, g[e].op)
  BY <1>1 DEF SameTokens
<1>11. Conn(g[e], e)' /\ Others(e) /\ SameAnswers /\ Rest1' /\ SameTaken
  BY <1>1, <1>4, <1>5, <1>7, <1>8, <1>9, <1>10, RequestStep
<1>12. /\ Owes(g[e], entry'[e], Sender(e)') <=> OwedBy(g, e)
       /\ entry'[e].session = entry[e].session
  BY <1>2, <1>5 DEF OwedBy
<1> QED  BY <1>1, <1>11, <1>12, StepAt

LEMMA UnlockFits ==
  ASSUME NEW l, NEW n, NEW en, NEW s, NEW rd, NEW idle, Fits(l, n, en, s, "unlock", rd, idle)
  PROVE  Fits(l, n, en, NONE, "none", rd, idle) /\ (Owes(l, en, "none") <=> Owes(l, en, "unlock"))
  BY DEF Fits, NodeFits, IdleFits, Owes, Sending, Locking

LEMMA UnlockKeeps ==
  ASSUME NEW g, NEW d, Inv(g, d), NEW s \in Sessions, request_idle_unlock(s)
  PROVE  IInv'
<1>0. PICK e : e = user[s].fd
  OBVIOUS
<1>2. user[s].pc \in Locking /\ user[s].pc = "unlock"
  BY DEF request_idle_unlock, Locking, Sending
<1>3. /\ Rest1 /\ e \in Fds /\ entry[e] \in EntrySet
      /\ Fits(g[e], Cardinality(RefHolders(worker, e)), entry[e], s, user[s].pc,
              reading[e], Idle(e))
  BY <1>0, <1>2, HeldConn
<1>4. PICK u : u = [pc |-> "accepted", fd |-> NONE]
  OBVIOUS
<1>5. u \in UserSet /\ u.pc \notin Locking /\ (u.pc \in Taken <=> user[s].pc \in Taken)
  BY <1>2, <1>4 DEF UserSet, Locking, Sending, Taken
<1>6. /\ GoesTo(s, u) /\ MutexSet(e, NONE) /\ bad' = (bad \/ ~Live(e))
      /\ UNCHANGED <<poll, at, reading, worker, closer, outcome, mixed, idle_list>>
  BY <1>0, <1>4 DEF request_idle_unlock, GoesTo, Go, MutexSet, Uses, pollers, closing, history
<1>7. entry' = [entry EXCEPT ![e] = entry[e]]
  BY <1>3 DEF request_idle_unlock, Rest1, Types
<1>8. /\ Fits(g[e], Cardinality(RefHolders(worker, e)), entry[e], NONE, "none", reading[e], Idle(e))
      /\ Owes(g[e], entry[e], "none") <=> Owes(g[e], entry[e], user[s].pc)
  BY <1>2, <1>3, UnlockFits
<1> QED  BY <1>0, <1>2, <1>3, <1>5, <1>6, <1>7, <1>8, LeaveSame

\* An idle connection whose end was reported,
LEMMA GoneFits ==
  ASSUME NEW l, NEW n, NEW en, NEW s, NEW rd, NEW idle, Fits(l, n, en, s, "popped", rd, idle),
         NEW x, x.state = "CLOSING", x.ref = en.ref, x.session = en.session
  PROVE  Fits(l, n, x, NONE, "none", rd, idle) /\ (Owes(l, x, "none") <=> Owes(l, en, "popped"))
  BY DEF Fits, Counted, MessageFits, NodeFits, IdleFits, ReadingFits, Owes, Sending, Locking,
         Watched, Polled

\* and one that the session takes.
LEMMA CheckFits ==
  ASSUME NEW l, NEW n, NEW en, NEW s \in Sessions, NEW rd, NEW idle, Fits(l, n, en, s, "popped", rd, idle),
         NEW x, x.state = en.state, x.ref = en.ref, x.session = s
  PROVE  /\ Fits(l, n, x, s, "send", rd, idle) /\ Owes(l, x, "send") /\ ~Owes(l, en, "popped")
         /\ l.loc \notin Speaking
  BY DEF Fits, Counted, MessageFits, NodeFits, IdleFits, ReadingFits, Owes, Sending, Locking,
         Watched, Polled, Speaking

LEMMA CheckKeeps ==
  ASSUME NEW g, NEW d, Inv(g, d), NEW s \in Sessions, request_idle_conn_check(s)
  PROVE  IInv'
<1>0. PICK e : e = user[s].fd
  OBVIOUS
<1>2. user[s].pc \in Locking /\ user[s].pc = "popped" /\ user[s].pc \notin Taken
  BY DEF request_idle_conn_check, Locking, Sending, Taken
<1>3. /\ Rest1 /\ e \in Fds /\ g[e] \in PlaceSet /\ entry[e] \in EntrySet /\ s # NONE
      /\ Conn(g[e], e) /\ NodeAt(Results, poll, e, g[e].loc, g[e].op) /\ Sender(e) = user[s].pc
      /\ Fits(g[e], Cardinality(RefHolders(worker, e)), entry[e], s, user[s].pc,
              reading[e], Idle(e))
  BY <1>0, <1>2, HeldConn
<1>f. /\ UNCHANGED <<poll, at, reading, idle_list, worker, closer, outcome, mixed>>
      /\ bad' = (bad \/ ~Live(e))
  BY <1>0 DEF request_idle_conn_check, Uses, pollers, closing, history
<1>4. CASE ~Registered(poll, e)
  <2>1. PICK u : u = [pc |-> "again", fd |-> NONE]
    OBVIOUS
  <2>2. u \in UserSet /\ u.pc \notin Locking /\ (u.pc \in Taken <=> user[s].pc \in Taken)
    BY <1>2, <2>1 DEF UserSet, Locking, Sending, Taken
  <2>x. PICK x : x = InState(entry[e], "CLOSING")
    OBVIOUS
  <2>y. x \in EntrySet /\ x.state = "CLOSING" /\ x.ref = entry[e].ref /\ x.session = entry[e].session
    BY <1>3, <2>x, InStateFields DEF ConnStates
  <2>3. GoesTo(s, u) /\ MutexSet(e, NONE) /\ entry' = [entry EXCEPT ![e] = x]
    BY <1>0, <1>4, <2>1, <2>x DEF request_idle_conn_check, GoesTo, Go, MutexSet, InState
  <2>4. /\ Fits(g[e], Cardinality(RefHolders(worker, e)), x, NONE, "none", reading[e], Idle(e))
        /\ Owes(g[e], x, "none") <=> Owes(g[e], entry[e], user[s].pc)
    BY <1>2, <1>3, <2>y, GoneFits
  <2> QED  BY <1>0, <1>2, <1>3, <1>f, <2>2, <2>y, <2>3, <2>4, LeaveSame
<1>5. CASE Registered(poll, e)
  <2>1. PICK u : u = [pc |-> "send", fd |-> e]
    OBVIOUS
  <2>2. /\ u \in UserSet /\ u.pc \in Locking /\ u.fd = e /\ u.pc = "send" /\ u.pc \in Taken
    BY <1>3, <2>1 DEF UserSet, Locking, Sending, Taken
  <2>x. PICK x : x = [entry[e] EXCEPT !.session = s]
    OBVIOUS
  <2>y. x \in EntrySet /\ x.state = entry[e].state /\ x.ref = entry[e].ref /\ x.session = s
    BY <1>3, <2>x DEF EntrySet
  <2>3. HeldStep(s, u, e, x)
    BY <1>0, <1>5, <1>f, <2>1, <2>x DEF request_idle_conn_check, GoesTo, Go, HeldStep
  <2>4. PollKept(e) /\ SameTokens(g[e], g[e]) /\ NodeAt(Results, poll', e, g[e].loc, g[e].op)
    BY <1>3, <1>f, SamePollKept DEF SameTokens
  <2>5. /\ Fits(g[e], Cardinality(RefHolders(worker, e)), x, s, u.pc, reading[e], Idle(e))
        /\ Owes(g[e], x, u.pc) /\ ~Owes(g[e], entry[e], user[s].pc) /\ g[e].loc \notin Speaking
    BY <1>2, <1>3, <2>2, <2>y, CheckFits
  <2>6. /\ Conn(g[e], e)' /\ Others(e) /\ SameAnswers /\ Rest1'
        /\ \A r \in Sessions : r # s => user'[r] = user[r]
        /\ user'[s] = u /\ outcome' = outcome
        /\ entry'[e] = x /\ Sender(e)' = u.pc
    BY <1>0, <1>2, <1>3, <2>2, <2>3, <2>y, <2>4, <2>5, HeldKeeps
  <2>7. PICK k : NewPlace(g, k, e, g[e])
    BY DEF NewPlace
  <2>8. OwedBy(k, e)' /\ ~OwedBy(g, e) /\ entry'[e].session = s
    <3>1. k[e] = g[e]
      BY <1>3, <2>6, <2>7, ConnStep
    <3> QED  BY <1>3, <2>5, <2>6, <2>y, <3>1 DEF OwedBy
  <2> QED  BY <1>2, <1>3, <2>2, <2>6, <2>7, <2>8, NewDebt
<1> QED  BY <1>4, <1>5

\* A connection that is being established.
LEMMA LaunchFits ==
  ASSUME NEW l, NEW n, NEW en, NEW m, NEW u, NEW rd, NEW idle, Fits(l, n, en, m, u, rd, idle),
         en.state = "NONE", NEW s \in Sessions, NEW x, x = launch_conn(s),
         NEW k, k.loc = "table", k.op = "connect", k.msg = l.msg, k.t = l.t
  PROVE  /\ Fits(k, n, x, m, u, rd, idle) /\ Owes(k, x, u) /\ ~Owes(l, en, u)
         /\ l.loc = "none"
<1>1. l.loc = "none" /\ l.msg = "none" /\ n = 0 /\ rd = NONE
  BY DEF Fits, Counted, ReadingFits
<1>2. idle # TRUE /\ m = NONE /\ u = "none"
  BY <1>1 DEF Fits, IdleFits, Locking, Sending
<1>3. x.state = "CONNECTING" /\ x.ref = 1 /\ x.session = s
  BY DEF launch_conn
<1>4. Fits(k, n, x, m, u, rd, idle)
  <2>1. Counted(k, n, x) /\ MessageFits(k, x) /\ ReadingFits(k, x, rd)
    BY <1>1, <1>3 DEF Counted, MessageFits, ReadingFits
  <2>2. NodeFits(k, n, x, m, u, rd)
    BY <1>1, <1>2, <1>3 DEF NodeFits, Polled
  <2>3. IdleFits(k, x, m, u, idle)
    BY <1>2, <1>3 DEF IdleFits, Sending, Fits
  <2> QED  BY <2>1, <2>2, <2>3 DEF Fits
<1> QED  BY <1>1, <1>2, <1>3, <1>4 DEF Owes, Sending

LEMMA NewConnKeeps ==
  ASSUME NEW g, NEW d, Inv(g, d), NEW s \in Sessions, request_new_conn(s)
  PROVE  IInv'
<1>0. Rest1 /\ closer = NONE /\ user[s].pc = "new" /\ user[s].pc \notin Locking \cup Taken
  BY InvParts, RequestUp DEF request_new_conn, Rest1, Locking, Sending, Taken
<1>f. UNCHANGED <<at, reading, mutex, idle_list, worker, closer, outcome, mixed, bad>>
  BY DEF request_new_conn, pollers, closing, history
<1>1. CASE Go(s, "refused", NONE) /\ UNCHANGED <<entry, poll>>
  <2>1. PICK u : u = [pc |-> "refused", fd |-> NONE]
    OBVIOUS
  <2>2. /\ user' = [user EXCEPT ![s] = u] /\ u \in UserSet
        /\ u.pc \notin Locking /\ u.pc \notin Taken
    BY <1>1, <2>1 DEF Go, UserSet, Locking, Sending, Taken
  <2>3. RequestFrame(s, u)
    BY <1>0, <1>1, <1>f, <2>2, SamePoll DEF RequestFrame
  <2> QED  BY <1>0, <1>1, <1>f, <2>2, <2>3, RequestApart
<1>2. ASSUME NEW e \in Fds, entry[e].state = "NONE",
             entry' = [entry EXCEPT ![e] = launch_conn(s)],
             poll' = mpoller_add(poll, e, "connect"), Go(s, "accepted", NONE)
      PROVE  IInv'
  <2>1. PICK u : u = [pc |-> "accepted", fd |-> NONE]
    OBVIOUS
  <2>2. GoesTo(s, u) /\ u \in UserSet /\ u.pc \notin Locking /\ u.pc \in Taken
    BY <1>2, <2>1 DEF GoesTo, Go, UserSet, Locking, Sending, Taken
  <2>3. /\ g[e] \in PlaceSet /\ Conn(g[e], e) /\ NodeAt(Results, poll, e, g[e].loc, g[e].op)
        /\ Fits(g[e], Cardinality(RefHolders(worker, e)), entry[e], mutex[e], Sender(e),
                reading[e], Idle(e))
    BY InvParts DEF Conn
  <2>4. PICK x : x = launch_conn(s)
    OBVIOUS
  <2>5. x \in EntrySet /\ x.session = s
    BY <2>4 DEF EntrySet, launch_conn, ConnStates
  <2>6. PICK l : l = At(g[e], "table", "connect")
    OBVIOUS
  <2>7. /\ l \in PlaceSet /\ l.loc = "table" /\ l.op = "connect"
        /\ l.w = g[e].w /\ l.msg = g[e].msg /\ l.mw = g[e].mw /\ l.t = g[e].t
    <3>1. "table" \in Places /\ "connect" \in Ops
      BY DEF Places, Ops
    <3> QED  BY <2>3, <2>6, <3>1, AtFields
  <2>8. /\ Fits(l, Cardinality(RefHolders(worker, e)), x, mutex[e], Sender(e), reading[e], Idle(e))
        /\ Owes(l, x, Sender(e)) /\ ~Owes(g[e], entry[e], Sender(e)) /\ g[e].loc = "none"
    BY <1>2, <2>3, <2>4, <2>7, LaunchFits
  <2>9. /\ Steady(Results, poll, poll') /\ SameMessages(Results, poll, poll')
        /\ NodeAt(Results, poll', e, l.loc, l.op)
        /\ \A f \in Fds : f # e => Leaves(Results, poll, poll', f)
    <3>1. poll \in Group(Results) /\ "connect" \in Ops /\ g[e].loc \notin {"table", "pipe", "queue"}
      BY <1>0, <2>8 DEF Rest1, Types, Ops
    <3> QED  BY <1>2, <2>3, <2>7, <3>1, AddNode
  <2>10. /\ Mutexes' /\ mutex' \in [Fds -> Sessions \cup {NONE}]
         /\ \A f \in Fds : Sender(f)' = Sender(f)
    BY <1>0, <1>f, <2>2, NoMutex
  <2>11. RequestFrame(s, u)
    BY <1>0, <1>f, <2>2, <2>9 DEF RequestFrame, GoesTo
  <2>12. /\ entry' \in [Fds -> EntrySet] /\ entry'[e] = x
         /\ \A f \in Fds : f # e => entry'[f] = entry[f]
    BY <1>0, <1>2, <2>4, <2>5 DEF Rest1, Types
  <2>13. \A f \in Fds : Idle(f)' = Idle(f)
    BY <1>f DEF Idle
  <2>14. RequestTypes
    BY <1>0, <1>f, <2>10, <2>12 DEF RequestTypes, Rest1, Types
  <2>15. Elsewhere(e)
    BY <1>f, <2>9, <2>10, <2>12, <2>13 DEF Elsewhere
  <2>16. NewFits(l, e)
    BY <1>f, <2>8, <2>10, <2>12, <2>13 DEF NewFits
  <2>17. SameTokens(g[e], l) /\ l.loc \notin Speaking
    BY <2>7, <2>8 DEF SameTokens, Speaking, Chain
  <2>18. /\ Conn(l, e)' /\ Others(e) /\ SameAnswers /\ Rest1'
         /\ \A r \in Sessions : r # s => user'[r] = user[r]
         /\ user'[s] = u /\ outcome' = outcome
    BY <2>2, <2>7, <2>9, <2>11, <2>14, <2>15, <2>16, <2>17, RequestStep
  <2>19. PICK k : NewPlace(g, k, e, l)
    BY DEF NewPlace
  <2>20. OwedBy(k, e)' /\ ~OwedBy(g, e) /\ entry'[e].session = s
    <3>1. k[e] = l
      BY <2>7, <2>18, <2>19, ConnStep
    <3> QED  BY <2>5, <2>8, <2>10, <2>12, <3>1 DEF OwedBy
  <2> QED  BY <1>0, <2>2, <2>7, <2>18, <2>19, <2>20, NewDebt
<1> QED  BY <1>1, <1>2 DEF request_new_conn

LEMMA RequestKeeps ==
  ASSUME NEW g, NEW d, Inv(g, d), NEW s \in Sessions, Request(s)
  PROVE  IInv'
  BY IdleConnKeeps, CheckKeeps, SendKeeps, SendSyncKeeps, AsyncKeeps, FailedKeeps, UnlockKeeps,
     NewConnKeeps DEF Request

-----------------------------------------------------------------------------
(* The steps of the poller threads: what they have in common.              *)

PollerFrame ==
    UNCHANGED <<mutex, idle_list, user, worker, closer, outcome, mixed>>

AtSet == [pc : PollerPcs, fd : Fds \cup {NONE}]

LEMMA PollerUp ==
  ASSUME Rest1
  PROVE  \A e \in Fds, op \in Ops : Ready(poll, e, op) => Index(e) \in Pollers
  BY IndexIsPoller

LEMMA PollerRest ==
  ASSUME Rest1, PollerFrame, poll' \in Group(Results),
         entry' \in [Fds -> EntrySet], at' \in [Pollers -> AtSet],
         reading' \in [Fds -> Sessions \cup {NONE}], PollersAt', bad' = FALSE
  PROVE  Rest1'
<1>1. Types'
  BY DEF Rest1, Types, PollerFrame, AtSet
<1>2. Stages'
  BY DEF Rest1, Stages, PollerFrame
<1>3. Mutexes'
  BY DEF Rest1, Mutexes, PollerFrame
<1> QED  BY <1>1, <1>2, <1>3 DEF Rest1, PollerFrame

\* What a step of a poller thread does to connection e.
NewConn(g, e, l) ==
    /\ SameTokens(g[e], l) /\ NodeAt(Results, poll', e, l.loc, l.op)
    /\ l.loc = "table" => g[e].loc = "table"
    /\ entry'[e].session = entry[e].session
    /\ Fits(l, Cardinality(RefHolders(worker, e)), entry'[e], mutex[e], Sender(e),
            reading'[e], Idle(e))
    /\ Owes(l, entry'[e], Sender(e)) <=> OwedBy(g, e)

LEMMA PollerSame ==
  ASSUME PollerFrame
  PROVE  /\ \A f \in Fds : Sender(f)' = Sender(f) /\ Idle(f)' = Idle(f)
         /\ SameAnswers /\ SameTaken
  BY DEF PollerFrame, Sender, Idle, SameAnswers, SameTaken

LEMMA PollerConn ==
  ASSUME NEW g, NEW d, Inv(g, d), PollerFrame,
         SameMessages(Results, poll, poll'), NEW e \in Fds, NEW l, NewConn(g, e, l)
  PROVE  Conn(l, e)' /\ (Owes(l, entry'[e], Sender(e)') <=> OwedBy(g, e))
<1>1. Conn(g[e], e)
  BY InvParts
<1>2. Sender(e)' = Sender(e) /\ Idle(e)' = Idle(e)
  BY PollerSame
<1>4. worker' = worker /\ mutex' = mutex
  BY DEF PollerFrame
<1>5. Conn(l, e)'
  <2>1. Fits(l, Cardinality(RefHolders(worker, e)), entry'[e], mutex'[e], Sender(e)',
             reading'[e], Idle(e)')
    BY <1>2, <1>4 DEF NewConn
  <2> QED  BY <1>1, <1>4, <2>1, ConnKeeps DEF NewConn
<1> QED  BY <1>2, <1>5 DEF NewConn

LEMMA PollerStepAt ==
  ASSUME NEW g, NEW d, Inv(g, d), PollerFrame,
         SameMessages(Results, poll, poll'), NEW e \in Fds, NEW l \in PlaceSet, NewConn(g, e, l),
         \A f \in Fds : f # e => /\ Leaves(Results, poll, poll', f)
                                 /\ entry'[f] = entry[f] /\ reading'[f] = reading[f],
         Rest1'
  PROVE  IInv'
<1>1. Conn(l, e)' /\ (Owes(l, entry'[e], Sender(e)') <=> OwedBy(g, e))
  BY PollerConn
<1>2. Others(e)
  <2> SUFFICES ASSUME NEW f \in Fds, f # e PROVE Apart(f)
    BY DEF Others
  <2>1. Sender(f)' = Sender(f) /\ (Idle(f)' <=> Idle(f)) /\ worker' = worker /\ mutex' = mutex
    BY PollerSame DEF PollerFrame
  <2> QED  BY <2>1, ApartOf
<1>3. SameAnswers /\ SameTaken /\ entry'[e].session = entry[e].session
  BY PollerSame DEF NewConn
<1> QED  BY <1>1, <1>2, <1>3, StepAt

\* The connection's end is put into the queue, or nothing happens to it.
LEMMA FitsMoves ==
  ASSUME NEW l, NEW n, NEW en, NEW m, NEW u, NEW rd, NEW idle, Fits(l, n, en, m, u, rd, idle),
         NEW k, k.op = l.op, k.msg = l.msg, k.t = l.t, NEW r \in {rd, NONE},
         k.loc = l.loc \/ (k.loc \in Polled /\ l.loc \in Polled)
  PROVE  Fits(k, n, en, m, u, r, idle) /\ (Owes(k, en, u) <=> Owes(l, en, u))
  BY DEF Fits, Counted, MessageFits, NodeFits, IdleFits, ReadingFits, Owes, Watched, Polled

\* Poller thread i goes on with a.
ThreadAt(i, a) == at' = [at EXCEPT ![i] = a]
AtFits(i, a) ==
    /\ a.pc # "wait" => /\ a.fd \in Fds /\ Index(a.fd) = i
                        /\ Event(a.fd, "read") \in poll'.batch[i]
    /\ a.pc = "append" => reading'[a.fd] # NONE

LEMMA PollersMove ==
  ASSUME Rest1, NEW i \in Pollers, NEW a \in AtSet, ThreadAt(i, a), AtFits(i, a),
         \A j \in Pollers : j # i => poll'.batch[j] = poll.batch[j],
         \A f \in Fds : Index(f) # i => reading'[f] = reading[f]
  PROVE  PollersAt' /\ at' \in [Pollers -> AtSet]
<1>1. at \in [Pollers -> AtSet] /\ PollersAt
  BY DEF Rest1, Types, AtSet
<1>2. at' \in [Pollers -> AtSet] /\ at'[i] = a /\ \A j \in Pollers : j # i => at'[j] = at[j]
  BY <1>1 DEF ThreadAt
<1>3. ASSUME NEW j \in Pollers
      PROVE  /\ at'[j].pc # "wait" => /\ at'[j].fd \in Fds /\ Index(at'[j].fd) = j
                                      /\ Event(at'[j].fd, "read") \in poll'.batch[j]
             /\ at'[j].pc = "append" => reading'[at'[j].fd] # NONE
  <2>1. CASE j = i
    BY <1>2, <2>1 DEF AtFits
  <2>2. CASE j # i
    <3>1. /\ at[j].pc # "wait" => /\ at[j].fd \in Fds /\ Index(at[j].fd) = j
                                  /\ Event(at[j].fd, "read") \in poll.batch[j]
          /\ at[j].pc = "append" => reading[at[j].fd] # NONE
      BY <1>1 DEF PollersAt
    <3>2. at'[j] = at[j] /\ poll'.batch[j] = poll.batch[j]
      BY <1>2, <2>2
    <3> QED  BY <2>2, <3>1, <3>2
  <2> QED  BY <2>1, <2>2
<1>4. PollersAt'
  BY <1>3 DEF PollersAt
<1> QED  BY <1>2, <1>4

\* A poller thread that is done with an event of e, or has waited in vain for
\* one: from group x to z the node of e goes from o to l.
EventDone(x, z, o, e, l) ==
    /\ z \in Group(Results)
    /\ \A j \in Pollers : j # Index(e) => z.batch[j] = x.batch[j]
    /\ SameMessages(Results, x, z)
    /\ \A f \in Fds : f # e => Leaves(Results, x, z, f)
    /\ NodeAt(Results, z, e, l.loc, l.op)
    /\ SameTokens(o, l) /\ l.op = o.op
    /\ l.loc = o.loc \/ (l.loc = "queue" /\ o.loc = "table")

Reported(x, e, op) ==
    LET y == Done(x, e, op) IN {y, Report(y, e, op, "FINISHED"), Report(y, e, op, "ERROR")}

\* Report, when no event of e is at hand.
LEMMA ReportDone ==
  ASSUME NEW x \in Group(Results), NEW e \in Fds, NEW op \in {"connect", "write", "read"},
         NoEvent(x, e), NEW o \in PlaceSet, NodeAt(Results, x, e, o.loc, o.op),
         NEW st \in Ends, NEW z, z = Report(x, e, op, st)
  PROVE  \E l \in PlaceSet : EventDone(x, z, o, e, l)
<1>0. op \in Ops /\ Result(e, op, st, NONE) \in Results
  BY ResultsOf DEF Ops
<1>1. /\ Steady(Results, x, z)
      /\ x.table[e] # op => z = x
      /\ \A f \in Fds : f # e => Leaves(Results, x, z, f)
      /\ SameMessages(Results, x, z)
      /\ NodeAt(Results, x, e, "table", op) => NodeAt(Results, z, e, "queue", op)
  BY <1>0, ReportNode
<1>2. CASE x.table[e] # op
  <2>1. SameTokens(o, o) /\ NodeAt(Results, z, e, o.loc, o.op)
    BY <1>1, <1>2 DEF SameTokens
  <2> QED  BY <1>1, <2>1 DEF EventDone, Steady
<1>3. CASE x.table[e] = op
  <2>1. o.loc = "table" /\ o.op = op
    BY <1>3 DEF NodeAt
  <2>2. PICK l : l = At(o, "queue", op)
    OBVIOUS
  <2>3. /\ l \in PlaceSet /\ l.loc = "queue" /\ l.op = op
        /\ l.w = o.w /\ l.msg = o.msg /\ l.mw = o.mw /\ l.t = o.t
    <3>1. "queue" \in Places
      BY DEF Places
    <3> QED  BY <1>0, <2>2, <3>1, AtFields
  <2>4. SameTokens(o, l)
    BY <2>1, <2>3 DEF SameTokens, Chain
  <2>5. NodeAt(Results, z, e, l.loc, l.op)
    BY <1>1, <2>1, <2>3
  <2> QED  BY <1>1, <2>1, <2>3, <2>4, <2>5 DEF EventDone, Steady
<1> QED  BY <1>2, <1>3

LEMMA ReportedNode ==
  ASSUME NEW x \in Group(Results), NEW e \in Fds, NEW op \in {"connect", "write", "read"},
         Ready(x, e, op), NEW o \in PlaceSet, NodeAt(Results, x, e, o.loc, o.op),
         NEW z, z \in Reported(x, e, op)
  PROVE  \E l \in PlaceSet : EventDone(x, z, o, e, l)
<1>0. PICK y : y = Done(x, e, op)
  OBVIOUS
<1>1. /\ HasEvents(Results, x, y, Index(e), x.batch[Index(e)] \ {Event(e, op)})
      /\ \A f \in Fds : Leaves(Results, x, y, f)
      /\ NoEvent(y, e)
  BY <1>0, DoneNode DEF Ops
<1>2. /\ y \in Group(Results) /\ y.queue = x.queue
      /\ \A j \in Pollers : j # Index(e) => y.batch[j] = x.batch[j]
      /\ NodeAt(Results, y, e, o.loc, o.op)
  BY <1>1, GroupFields DEF HasEvents, Leaves
<1>3. SameMessages(Results, x, y)
  BY <1>2 DEF SameMessages
<1>4. EventDone(x, y, o, e, o)
  BY <1>1, <1>2, <1>3 DEF EventDone, SameTokens
<1>5. CASE z = y
  BY <1>4, <1>5
<1>6. ASSUME NEW st \in Ends, z = Report(y, e, op, st)
      PROVE  \E l \in PlaceSet : EventDone(x, z, o, e, l)
  <2>1. PICK l \in PlaceSet : EventDone(y, z, o, e, l)
    BY <1>1, <1>2, <1>6, ReportDone
  <2>2. \A f \in Fds : f # e => Leaves(Results, x, z, f)
    BY <1>1, <2>1 DEF EventDone, Leaves
  <2>3. SameMessages(Results, x, z)
    BY <1>3, <2>1 DEF EventDone, SameMessages
  <2>4. EventDone(x, z, o, e, l)
    BY <1>2, <2>1, <2>2, <2>3 DEF EventDone
  <2> QED  BY <2>4
<1> QED  BY <1>0, <1>5, <1>6 DEF Reported, Ends

\* What is being read is left, or goes on.
Forgets(e) == reading' \in {reading, [reading EXCEPT ![e] = NONE]}

LEMMA EventKeeps ==
  ASSUME NEW g, NEW d, Inv(g, d), NEW e \in Fds, PollerFrame,
         entry' = entry, bad' = FALSE, NEW a \in AtSet, a.pc = "wait", ThreadAt(Index(e), a),
         Forgets(e), NEW l \in PlaceSet, EventDone(poll, poll', g[e], e, l)
  PROVE  IInv'
<1>1. Rest1 /\ Conn(g[e], e) /\ Index(e) \in Pollers
  BY InvParts, IndexIsPoller
<1>2. /\ reading' \in [Fds -> Sessions \cup {NONE}] /\ reading'[e] \in {reading[e], NONE}
      /\ \A f \in Fds : f # e => reading'[f] = reading[f]
  BY <1>1 DEF Forgets, Rest1, Types
<1>3. AtFits(Index(e), a)
  BY DEF AtFits
<1>4. PollersAt' /\ at' \in [Pollers -> AtSet]
  <2>1. /\ \A j \in Pollers : j # Index(e) => poll'.batch[j] = poll.batch[j]
        /\ \A f \in Fds : Index(f) # Index(e) => reading'[f] = reading[f]
    BY <1>2 DEF EventDone
  <2> QED  BY <1>1, <1>3, <2>1, PollersMove
<1>5. Rest1'
  BY <1>1, <1>2, <1>4, PollerRest DEF EventDone, Rest1, Types
<1>6. /\ Fits(l, Cardinality(RefHolders(worker, e)), entry[e], mutex[e], Sender(e),
              reading'[e], Idle(e))
      /\ Owes(l, entry[e], Sender(e)) <=> Owes(g[e], entry[e], Sender(e))
  <2>1. /\ l.op = g[e].op /\ l.msg = g[e].msg /\ l.t = g[e].t
        /\ l.loc = g[e].loc \/ (l.loc \in Polled /\ g[e].loc \in Polled)
    BY DEF EventDone, SameTokens, Polled
  <2>2. Fits(g[e], Cardinality(RefHolders(worker, e)), entry[e], mutex[e], Sender(e),
             reading[e], Idle(e))
    BY <1>1 DEF Conn
  <2> QED  BY <1>2, <2>1, <2>2, FitsMoves
<1>7. NewConn(g, e, l)
  BY <1>6 DEF NewConn, EventDone, OwedBy
<1> QED  BY <1>2, <1>5, <1>7, PollerStepAt DEF EventDone

\* A connection with an event at hand.
LEMMA ReadyConn ==
  ASSUME NEW g, NEW d, Inv(g, d), NEW e \in Fds, NEW op \in Ops, Ready(poll, e, op)
  PROVE  /\ Rest1 /\ Index(e) \in Pollers
         /\ poll \in Group(Results) /\ g[e] \in PlaceSet /\ Conn(g[e], e)
         /\ g[e].loc \in {"table", "pipe"} /\ Live(e)
         /\ NodeAt(Results, poll, e, g[e].loc, g[e].op)
<1>1. Rest1 /\ g[e] \in PlaceSet /\ Conn(g[e], e) /\ Index(e) \in Pollers /\ poll \in Group(Results)
  BY InvParts, IndexIsPoller DEF Rest1, Types
<1>3. NodeAt(Results, poll, e, g[e].loc, g[e].op)
  BY <1>1 DEF Conn
<1>4. g[e].loc \in {"table", "pipe"}
  <2>1. Event(e, op).fd = e /\ Event(e, op) \in poll.batch[Index(e)]
    BY DEF Event, Ready
  <2> QED  BY <1>3, <2>1 DEF NodeAt, NoEvent
<1>5. Live(e)
  BY <1>1, <1>4, LiveConn
<1> QED  BY <1>1, <1>3, <1>4, <1>5

\* A poller thread that is reading.
LEMMA AtConn ==
  ASSUME NEW g, NEW d, Inv(g, d), NEW i \in Pollers, at[i].pc # "wait", NEW e, e = at[i].fd
  PROVE  /\ e \in Fds /\ Index(e) = i /\ Ready(poll, e, "read") /\ "read" \in Ops
         /\ at[i].pc = "append" => reading[e] # NONE
<1>1. PollersAt
  BY InvParts DEF Rest1
<1> QED  BY <1>1 DEF PollersAt, Ready, Ops

LEMMA WriteKeeps ==
  ASSUME NEW g, NEW d, Inv(g, d), NEW e \in Fds, NEW op \in {"connect", "write"},
         poller_handle_write(e, op)
  PROVE  IInv'
<1>0. op \in Ops /\ op \in {"connect", "write", "read"} /\ Ready(poll, e, op)
  BY DEF Ops, poller_handle_write
<1>1. /\ Rest1 /\ Index(e) \in Pollers /\ poll \in Group(Results)
      /\ g[e] \in PlaceSet /\ NodeAt(Results, poll, e, g[e].loc, g[e].op)
  BY <1>0, ReadyConn
<1>2. /\ PollerFrame /\ entry' = entry /\ bad' = FALSE /\ Forgets(e)
      /\ poll' \in Reported(poll, e, op) /\ at' = at /\ at[Index(e)].pc = "wait"
  BY <1>1 DEF poller_handle_write, PollerFrame, Forgets, Reported, pollers, closing, history, Rest1
<1>3. at[Index(e)] \in AtSet /\ ThreadAt(Index(e), at[Index(e)])
  BY <1>1, <1>2 DEF Rest1, Types, AtSet, ThreadAt
<1>4. PICK l \in PlaceSet : EventDone(poll, poll', g[e], e, l)
  BY <1>0, <1>1, <1>2, ReportedNode
<1> QED  BY <1>1, <1>2, <1>3, <1>4, EventKeeps

\* The poller thread goes on with what it is reading from e.
LEMMA ThreadKeeps ==
  ASSUME NEW g, NEW d, Inv(g, d), NEW e \in Fds, Ready(poll, e, "read"), PollerFrame,
         poll' = poll, entry' = entry, bad' = (bad \/ ~Live(e)),
         NEW a \in AtSet, a.fd = e, ThreadAt(Index(e), a),
         a.pc = "append" => reading'[e] # NONE,
         \/ reading' = reading
         \/ entry[e].state = "RECEIVING" /\ reading' = [reading EXCEPT ![e] = entry[e].session]
  PROVE  IInv'
<1>1. /\ Rest1 /\ Index(e) \in Pollers /\ poll \in Group(Results)
      /\ g[e] \in PlaceSet /\ NodeAt(Results, poll, e, g[e].loc, g[e].op) /\ Live(e)
      /\ Conn(g[e], e) /\ g[e].loc \in {"table", "pipe"}
  BY ReadyConn DEF Ops
<1>2. Fits(g[e], Cardinality(RefHolders(worker, e)), entry[e], mutex[e], Sender(e),
           reading[e], Idle(e))
  BY <1>1 DEF Conn
<1>3. entry[e].session \in Sessions
  BY <1>1, <1>2 DEF Fits, Counted
<1>4. /\ reading' \in [Fds -> Sessions \cup {NONE}]
      /\ reading'[e] = reading[e] \/ (entry[e].state = "RECEIVING" /\ reading'[e] = entry[e].session)
      /\ \A f \in Fds : f # e => reading'[f] = reading[f]
  BY <1>1, <1>3 DEF Rest1, Types
<1>5. AtFits(Index(e), a)
  BY DEF AtFits, Ready
<1>6. PollersAt' /\ at' \in [Pollers -> AtSet]
  <2>1. /\ \A j \in Pollers : j # Index(e) => poll'.batch[j] = poll.batch[j]
        /\ \A f \in Fds : Index(f) # Index(e) => reading'[f] = reading[f]
    BY <1>4
  <2> QED  BY <1>1, <1>5, <2>1, PollersMove
<1>7. Rest1'
  BY <1>1, <1>4, <1>6, PollerRest DEF Rest1, Types
<1>8. Fits(g[e], Cardinality(RefHolders(worker, e)), entry[e], mutex[e], Sender(e),
           reading'[e], Idle(e))
  <2>1. CASE reading'[e] = reading[e]
    BY <1>2, <2>1
  <2>2. CASE entry[e].state = "RECEIVING" /\ reading'[e] = entry[e].session
    <3>1. g[e].op = "read"
      BY <1>1, <1>2, <2>2 DEF Fits, NodeFits
    <3> QED  BY <1>2, <2>2, <3>1 DEF Fits, NodeFits, ReadingFits
  <2> QED  BY <1>4, <2>1, <2>2
<1>9. /\ SameMessages(Results, poll, poll') /\ \A f \in Fds : Leaves(Results, poll, poll', f)
  BY <1>1, SamePoll
<1>10. NewConn(g, e, g[e])
  BY <1>1, <1>8 DEF NewConn, SameTokens, OwedBy
<1> QED  BY <1>1, <1>4, <1>7, <1>9, <1>10, PollerStepAt

LEMMA ReadKeeps ==
  ASSUME NEW g, NEW d, Inv(g, d), NEW e \in Fds, poller_handle_read(e)
  PROVE  IInv'
<1>0. "read" \in Ops /\ Ready(poll, e, "read")
  BY DEF Ops, poller_handle_read
<1>1. /\ Rest1 /\ Index(e) \in Pollers /\ poll \in Group(Results)
      /\ g[e] \in PlaceSet /\ NodeAt(Results, poll, e, g[e].loc, g[e].op)
  BY <1>0, ReadyConn
<1>2. PollerFrame /\ entry' = entry /\ reading' = reading
  BY DEF poller_handle_read, PollerFrame, closing, history
<1>3. CASE /\ poll' \in Reported(poll, e, "read")
           /\ PollerGo(Index(e), "wait", NONE) /\ UNCHANGED bad
  <2>1. PICK l \in PlaceSet : EventDone(poll, poll', g[e], e, l)
    BY <1>0, <1>1, <1>3, ReportedNode
  <2>2. PICK a : a = [pc |-> "wait", fd |-> NONE]
    OBVIOUS
  <2>3. a \in AtSet /\ a.pc = "wait" /\ ThreadAt(Index(e), a)
    BY <1>3, <2>2 DEF AtSet, PollerPcs, PollerGo, ThreadAt
  <2>4. bad' = FALSE /\ Forgets(e)
    BY <1>1, <1>2, <1>3 DEF Rest1, Forgets
  <2> QED  BY <1>1, <1>2, <2>1, <2>3, <2>4, EventKeeps
<1>4. ASSUME NEW pc, pc = CASE reading[e] # NONE -> "append"
                            [] reading[e] = NONE /\ entry[e].state = "IDLE" -> "lock"
                            [] OTHER -> "create",
             PollerGo(Index(e), pc, e), Uses(e), poll' = poll
      PROVE  IInv'
  <2>1. pc \in {"append", "lock", "create"} /\ (pc = "append" => reading[e] # NONE)
    BY <1>4
  <2>2. PICK a : a = [pc |-> pc, fd |-> e]
    OBVIOUS
  <2>3. /\ a \in AtSet /\ a.fd = e /\ a.pc = pc /\ ThreadAt(Index(e), a)
        /\ bad' = (bad \/ ~Live(e))
    BY <1>4, <2>1, <2>2 DEF AtSet, PollerPcs, PollerGo, ThreadAt, Uses
  <2> QED  BY <1>0, <1>2, <1>4, <2>1, <2>3, ThreadKeeps
<1> QED  BY <1>3, <1>4 DEF poller_handle_read, Reported

LEMMA LockKeeps ==
  ASSUME NEW g, NEW d, Inv(g, d), NEW i \in Pollers, create_reply_lock(i)
  PROVE  IInv'
<1>0. PICK e : e = at[i].fd
  OBVIOUS
<1>1. e \in Fds /\ Index(e) = i /\ Ready(poll, e, "read")
  BY <1>0, AtConn DEF create_reply_lock
<1>2. /\ PollerFrame /\ entry' = entry /\ reading' = reading /\ poll' = poll
      /\ bad' = (bad \/ ~Live(e)) /\ PollerGo(i, "create", e)
  BY <1>0 DEF create_reply_lock, PollerFrame, Uses, closing, history
<1>3. PICK a : a = [pc |-> "create", fd |-> e]
  OBVIOUS
<1>4. a \in AtSet /\ a.fd = e /\ a.pc = "create" /\ ThreadAt(Index(e), a)
  BY <1>1, <1>2, <1>3 DEF AtSet, PollerPcs, PollerGo, ThreadAt
<1> QED  BY <1>1, <1>2, <1>4, ThreadKeeps

\* A read that fails: no message can be made, or it is malformed.
LEMMA ReadFails ==
  ASSUME NEW g, NEW d, Inv(g, d), NEW i \in Pollers, NEW e \in Fds, Index(e) = i,
         Ready(poll, e, "read"), PollerFrame, entry' = entry, bad' = (bad \/ ~Live(e)),
         poll' = Report(Done(poll, e, "read"), e, "read", "ERROR"),
         PollerGo(i, "wait", NONE), Forgets(e)
  PROVE  IInv'
<1>1. /\ Rest1 /\ poll \in Group(Results) /\ Live(e)
      /\ g[e] \in PlaceSet /\ NodeAt(Results, poll, e, g[e].loc, g[e].op)
  BY ReadyConn DEF Ops
<1>2. bad' = FALSE /\ poll' \in Reported(poll, e, "read")
  BY <1>1 DEF Rest1, Reported
<1>3. PICK l \in PlaceSet : EventDone(poll, poll', g[e], e, l)
  BY <1>1, <1>2, ReportedNode
<1>4. PICK a : a = [pc |-> "wait", fd |-> NONE]
  OBVIOUS
<1>5. a \in AtSet /\ a.pc = "wait" /\ ThreadAt(Index(e), a)
  BY <1>4 DEF AtSet, PollerPcs, PollerGo, ThreadAt
<1> QED  BY <1>1, <1>2, <1>3, <1>5, EventKeeps

LEMMA CreateKeeps ==
  ASSUME NEW g, NEW d, Inv(g, d), NEW i \in Pollers, create_reply(i)
  PROVE  IInv'
<1>0. PICK e : e = at[i].fd
  OBVIOUS
<1>1. e \in Fds /\ Index(e) = i /\ Ready(poll, e, "read") /\ "read" \in Ops
  BY <1>0, AtConn DEF create_reply
<1>2. PollerFrame /\ entry' = entry /\ bad' = (bad \/ ~Live(e))
  BY <1>0 DEF create_reply, PollerFrame, Uses, closing, history
<1>3. CASE /\ entry[e].state = "RECEIVING" /\ reading' = [reading EXCEPT ![e] = entry[e].session]
           /\ PollerGo(i, "append", e) /\ UNCHANGED poll
  <2>1. PICK a : a = [pc |-> "append", fd |-> e]
    OBVIOUS
  <2>2. a \in AtSet /\ a.fd = e /\ ThreadAt(Index(e), a)
    BY <1>1, <1>3, <2>1 DEF AtSet, PollerPcs, PollerGo, ThreadAt
  <2>3. reading'[e] # NONE
    <3>1. Conn(g[e], e) /\ g[e].loc \in {"table", "pipe"} /\ Rest1
      BY <1>1, ReadyConn
    <3>2. entry[e].session \in Sessions
      BY <3>1 DEF Conn, Fits, Counted
    <3> QED  BY <1>1, <1>3, <3>1, <3>2, Constants DEF Rest1, Types
  <2> QED  BY <1>1, <1>2, <1>3, <2>2, <2>3, ThreadKeeps
<1>4. CASE /\ poll' = Report(Done(poll, e, "read"), e, "read", "ERROR")
           /\ PollerGo(i, "wait", NONE) /\ UNCHANGED reading
  BY <1>1, <1>2, <1>4, ReadFails DEF Forgets
<1> QED  BY <1>0, <1>3, <1>4 DEF create_reply

\* A message is complete: the entry becomes SUCCESS.
LEMMA CompleteFits ==
  ASSUME NEW o, NEW n, NEW en, NEW m, NEW u, NEW rd \in Sessions, NEW idle,
         Fits(o, n, en, m, u, rd, idle), rd # NONE, o.loc \in {"table", "pipe"},
         NEW l, l.loc \in {o.loc, "pipe"}, l.op = o.op, l.msg = "queue", l.t = rd,
         NEW x, x.state = "SUCCESS", x.ref = en.ref, x.session = en.session
  PROVE  /\ Fits(l, n, x, m, u, NONE, idle) /\ Owes(l, x, u) /\ Owes(o, en, u)
         /\ o.msg = "none"
<1>1. o.op = "read" /\ en.state = "RECEIVING" /\ en.session = rd /\ o.msg = "none"
  BY DEF Fits, MessageFits, ReadingFits
<1>2. Counted(l, n, x) /\ MessageFits(l, x) /\ ReadingFits(l, x, NONE)
  BY <1>1 DEF Fits, Counted, MessageFits, ReadingFits, Watched, Polled
<1>3. NodeFits(l, n, x, m, u, NONE)
  BY <1>1 DEF Fits, NodeFits, Watched, Polled
<1>4. IdleFits(l, x, m, u, idle)
  BY <1>1 DEF Fits, IdleFits, Sending, Locking
<1> QED  BY <1>1, <1>2, <1>3, <1>4 DEF Fits, Owes

\* The place record with the message of t in the queue.
WithMsg(l, t) == [l EXCEPT !.msg = "queue", !.t = t]

LEMMA WithMsgFields ==
  ASSUME NEW l \in PlaceSet, NEW t \in Sessions, NEW x, x = WithMsg(l, t)
  PROVE  /\ x \in PlaceSet /\ x.loc = l.loc /\ x.op = l.op /\ x.w = l.w /\ x.mw = l.mw
         /\ x.msg = "queue" /\ x.t = t
  BY DEF PlaceSet, WithMsg

\* A message of connection e, for session t, is appended.
LEMMA MessageAppended ==
  ASSUME NEW x \in Group(Results), NEW e \in Fds, NEW t \in Sessions,
         NEW y, y = Callback(x, Result(e, "read", "SUCCESS", t))
  PROVE  /\ Steady(Results, x, y)
         /\ \A f \in Fds : Leaves(Results, x, y, f)
         /\ \A f \in Fds : f # e => \A T, msg : Slot(x.queue, MsgsOf(f), T, msg, "queue")
                                      => Slot(y.queue, MsgsOf(f), T, msg, "queue")
         /\ None(x.queue, MsgsOf(e)) => Only(y.queue, MsgsOf(e), MsgIs(t))
<1>0. PICK r : r = Result(e, "read", "SUCCESS", t)
  OBVIOUS
<1>1. /\ r \in Results /\ r.fd = e /\ r.state = "SUCCESS" /\ r.msg = t
      /\ r \in MsgsOf(e) /\ r \in MsgIs(t)
  BY <1>0, ResultsOf DEF Result, MsgsOf, MsgIs
<1>2. \A f \in Fds : r \notin EndsOf(Results, f) /\ (f # e => r \notin MsgsOf(f))
  BY <1>1 DEF EndsOf, Ends, MsgsOf
<1>3. /\ Steady(Results, x, y) /\ y.queue = Append(x.queue, r)
      /\ \A f \in Fds : Leaves(Results, x, y, f)
  BY <1>0, <1>1, <1>2, CallbackNode
<1>4. x.queue \in Seq(Results)
  BY GroupFields
<1>5. None(x.queue, MsgsOf(e)) => Only(y.queue, MsgsOf(e), MsgIs(t))
  <2>1. \A S, T : None(x.queue, S) /\ r \in S /\ r \in T => Only(Append(x.queue, r), S, T)
    BY <1>1, <1>4, SlotAppend
  <2> QED  BY <1>1, <1>3, <2>1
<1>6. ASSUME NEW f \in Fds, f # e, NEW T, NEW msg, Slot(x.queue, MsgsOf(f), T, msg, "queue")
      PROVE  Slot(y.queue, MsgsOf(f), T, msg, "queue")
  BY <1>1, <1>2, <1>3, <1>4, <1>6, SlotKept
<1> QED  BY <1>3, <1>5, <1>6

LEMMA CompleteKeeps ==
  ASSUME NEW g, NEW d, Inv(g, d), NEW e \in Fds, Ready(poll, e, "read"), PollerFrame,
         reading[e] # NONE, bad' = (bad \/ ~Live(e)), NEW y,
         y = poll \/ y = mpoller_del(poll, e),
         poll' = Callback(y, Result(e, "read", "SUCCESS", reading[e])),
         entry' = [entry EXCEPT ![e].state = "SUCCESS"],
         reading' = [reading EXCEPT ![e] = NONE],
         NEW a \in AtSet, a.fd = e, a.pc = "data", ThreadAt(Index(e), a)
  PROVE  IInv'
<1>1. /\ Rest1 /\ Index(e) \in Pollers
      /\ poll \in Group(Results) /\ g[e] \in PlaceSet /\ Conn(g[e], e)
      /\ g[e].loc \in {"table", "pipe"} /\ Live(e)
      /\ NodeAt(Results, poll, e, g[e].loc, g[e].op)
  BY ReadyConn DEF Ops
<1>2. /\ entry[e] \in EntrySet /\ reading[e] \in Sessions
      /\ Fits(g[e], Cardinality(RefHolders(worker, e)), entry[e], mutex[e], Sender(e),
              reading[e], Idle(e))
  BY <1>1 DEF Conn, Rest1, Types
<1>3. g[e].op \in {"connect", "write", "read"}
  BY <1>1, <1>2 DEF Fits, NodeFits
<1>4. PICK o \in PlaceSet :
         /\ Steady(Results, poll, y) /\ SameMessages(Results, poll, y)
         /\ \A f \in Fds : f # e => Leaves(Results, poll, y, f)
         /\ NodeAt(Results, y, e, o.loc, o.op)
         /\ o.op = g[e].op /\ o.loc \in {g[e].loc, "pipe"}
         /\ o.w = g[e].w /\ o.mw = g[e].mw
  <2>1. CASE y = poll
    <3>1. Steady(Results, poll, y) /\ SameMessages(Results, poll, y)
          /\ \A f \in Fds : Leaves(Results, poll, y, f)
      BY <1>1, <2>1 DEF Steady, SameMessages, Leaves
    <3> QED  BY <1>1, <2>1, <3>1
  <2>2. CASE y = mpoller_del(poll, e)
    <3>1. PICK l : l = Deleted(g[e])
      OBVIOUS
    <3>2. /\ Steady(Results, poll, y) /\ SameMessages(Results, poll, y)
          /\ \A f \in Fds : f # e => Leaves(Results, poll, y, f)
          /\ NodeAt(Results, y, e, l.loc, l.op)
          /\ l \in PlaceSet /\ l.op = g[e].op
          /\ l.w = g[e].w /\ l.mw = g[e].mw
      BY <1>1, <1>3, <2>2, <3>1, DeletedNode
    <3>3. l.loc \in {g[e].loc, "pipe"}
      <4>1. CASE g[e].loc = "table"
        <5>1. l = At(g[e], "pipe", g[e].op)
          BY <1>1, <3>1, <4>1 DEF Deleted
        <5>2. "pipe" \in Places /\ g[e].op \in Ops
          BY <1>3 DEF Places, Ops
        <5> QED  BY <1>1, <5>1, <5>2, AtFields
      <4>2. CASE g[e].loc # "table"
        BY <3>1, <4>2 DEF Deleted
      <4> QED  BY <4>1, <4>2
    <3> QED  BY <3>2, <3>3
  <2> QED  BY <2>1, <2>2
<1>5. PICK l : l = WithMsg(o, reading[e])
  OBVIOUS
<1>6. /\ l \in PlaceSet /\ l.loc = o.loc /\ l.op = o.op /\ l.w = o.w /\ l.mw = o.mw
      /\ l.msg = "queue" /\ l.t = reading[e]
  BY <1>2, <1>5, WithMsgFields
<1>x. PICK x : x = InState(entry[e], "SUCCESS")
  OBVIOUS
<1>y. x \in EntrySet /\ x.state = "SUCCESS" /\ x.ref = entry[e].ref /\ x.session = entry[e].session
  BY <1>2, <1>x, InStateFields DEF ConnStates
<1>7. /\ Fits(l, Cardinality(RefHolders(worker, e)), x, mutex[e], Sender(e), NONE, Idle(e))
      /\ Owes(l, x, Sender(e)) /\ Owes(g[e], entry[e], Sender(e)) /\ g[e].msg = "none"
  BY <1>1, <1>2, <1>4, <1>6, <1>y, CompleteFits
<1>8. /\ Steady(Results, y, poll')
      /\ \A f \in Fds : Leaves(Results, y, poll', f)
      /\ \A f \in Fds : f # e => \A T, msg : Slot(y.queue, MsgsOf(f), T, msg, "queue")
                                   => Slot(poll'.queue, MsgsOf(f), T, msg, "queue")
      /\ None(y.queue, MsgsOf(e)) => Only(poll'.queue, MsgsOf(e), MsgIs(reading[e]))
  <2>1. y \in Group(Results)
    BY <1>4 DEF Steady
  <2> QED  BY <1>2, <2>1, MessageAppended
<1>9. Steady(Results, poll, poll')
  BY <1>4, <1>8 DEF Steady
<1>10. /\ entry' \in [Fds -> EntrySet] /\ entry'[e] = x
       /\ \A f \in Fds : f # e => entry'[f] = entry[f]
  <2>1. entry' = [entry EXCEPT ![e] = x]
    BY <1>x DEF InState
  <2> QED  BY <1>1, <1>y, <2>1, ZenonT(40) DEF Rest1, Types
<1>11. /\ reading' \in [Fds -> Sessions \cup {NONE}] /\ reading'[e] = NONE
       /\ \A f \in Fds : f # e => reading'[f] = reading[f]
  BY <1>1 DEF Rest1, Types
<1>12. Rest1'
  <2>1. AtFits(Index(e), a)
    BY <1>9 DEF AtFits, Ready, Steady
  <2>2. PollersAt' /\ at' \in [Pollers -> AtSet]
    <3>1. /\ \A j \in Pollers : j # Index(e) => poll'.batch[j] = poll.batch[j]
          /\ \A f \in Fds : Index(f) # Index(e) => reading'[f] = reading[f]
      BY <1>9, <1>11 DEF Steady
    <3> QED  BY <1>1, <2>1, <3>1, PollersMove
  <2>3. bad' = FALSE
    BY <1>1 DEF Rest1
  <2> QED  BY <1>1, <1>9, <1>10, <1>11, <2>2, <2>3, PollerRest DEF Steady
<1>13. \A f \in Fds : Sender(f)' = Sender(f) /\ Idle(f)' = Idle(f)
  BY PollerSame
<1>14. worker' = worker /\ mutex' = mutex
  BY DEF PollerFrame
<1>15. Conn(l, e)'
  <2>1. NodeAt(Results, poll', e, l.loc, l.op)
    BY <1>4, <1>6, <1>8 DEF Leaves
  <2>2. Slot(poll'.queue, MsgsOf(e), MsgIs(l.t), l.msg, "queue")
    <3>1. None(poll.queue, MsgsOf(e))
      BY <1>1, <1>7 DEF Conn, Slot
    <3>2. None(y.queue, MsgsOf(e))
      BY <1>4, <3>1, MsgsAreMessages DEF SameMessages, Slot
    <3> QED  BY <1>6, <1>8, <3>2 DEF Slot
  <2>3. l.loc \notin Chain /\ g[e].loc \notin Chain /\ l.loc \notin Speaking
    BY <1>1, <1>4, <1>6 DEF Chain, Speaking
  <2>4. EndWith(worker, l, e) /\ MsgWith(worker, l, e) /\ Speaks(worker, l, x)
    BY <1>1, <1>6, <1>7, <2>3 DEF Conn, EndWith, MsgWith, Speaks
  <2> QED  BY <1>7, <1>10, <1>11, <1>13, <1>14, <2>1, <2>2, <2>4 DEF Conn
<1>16. Others(e)
  <2> SUFFICES ASSUME NEW f \in Fds, f # e PROVE Apart(f)
    BY DEF Others
  <2>1. Leaves(Results, poll, poll', f)
    BY <1>4, <1>8 DEF Leaves
  <2>2. \A t, msg : Slot(poll.queue, MsgsOf(f), MsgIs(t), msg, "queue")
                      => Slot(poll'.queue, MsgsOf(f), MsgIs(t), msg, "queue")
    BY <1>4, <1>8, MsgsAreMessages DEF SameMessages
  <2>3. SameWork(worker, worker', f)
    BY <1>14 DEF SameWork
  <2> QED  BY <1>9, <1>10, <1>11, <1>13, <1>14, <2>1, <2>2, <2>3 DEF Apart, Steady
<1>17. SameAnswers /\ SameTaken
  BY PollerSame
<1>18. /\ Owes(l, entry'[e], Sender(e)') <=> OwedBy(g, e)
       /\ entry'[e].session = entry[e].session
  BY <1>7, <1>10, <1>13, <1>y DEF OwedBy
<1> QED  BY <1>6, <1>12, <1>15, <1>16, <1>17, <1>18, StepAt

LEMMA AppendKeeps ==
  ASSUME NEW g, NEW d, Inv(g, d), NEW i \in Pollers, append_message(i)
  PROVE  IInv'
<1>0. PICK e : e = at[i].fd
  OBVIOUS
<1>1. e \in Fds /\ Index(e) = i /\ Ready(poll, e, "read") /\ reading[e] # NONE
  BY <1>0, AtConn DEF append_message
<1>2. PollerFrame /\ bad' = (bad \/ ~Live(e))
  BY <1>0 DEF append_message, PollerFrame, Uses, closing, history
<1>a. PICK a : a = [pc |-> "data", fd |-> e]
  OBVIOUS
<1>b. /\ a \in AtSet /\ a.fd = e /\ a.pc = "data"
      /\ PollerGo(i, "data", e) => ThreadAt(Index(e), a)
  BY <1>1, <1>a DEF AtSet, PollerPcs, PollerGo, ThreadAt
<1>3. CASE PollerGo(i, "data", e) /\ UNCHANGED <<poll, reading, entry, keep>>
  BY <1>1, <1>2, <1>3, <1>b, ThreadKeeps
<1>4. CASE /\ poll' = Report(Done(poll, e, "read"), e, "read", "ERROR")
           /\ reading' = [reading EXCEPT ![e] = NONE]
           /\ PollerGo(i, "wait", NONE) /\ UNCHANGED <<entry, keep>>
  BY <1>1, <1>2, <1>4, ReadFails DEF Forgets
<1>5. ASSUME NEW k \in BOOLEAN, NEW y, y = IF k THEN poll ELSE mpoller_del(poll, e),
             entry' = [entry EXCEPT ![e].state = "SUCCESS"],
             poll' = Callback(y, Result(e, "read", "SUCCESS", reading[e])),
             reading' = [reading EXCEPT ![e] = NONE], PollerGo(i, "data", e)
      PROVE  IInv'
  <2>1. y = poll \/ y = mpoller_del(poll, e)
    BY <1>5
  <2> QED  BY <1>1, <1>2, <1>5, <1>b, <2>1, CompleteKeeps
<1> QED  BY <1>0, <1>3, <1>4, <1>5 DEF append_message

LEMMA EpollKeeps ==
  ASSUME NEW g, NEW d, Inv(g, d), NEW i \in Pollers, epoll_wait(i)
  PROVE  IInv'
<1>1. Rest1 /\ poll \in Group(Results)
  BY InvParts DEF Rest1, Types
<1>2. PICK B \in Batches(poll, i) : poll' = EpollWait(poll, i, B)
  BY DEF epoll_wait
<1>3. HasEvents(Results, poll, poll', i, B) /\ \A f \in Fds : Leaves(Results, poll, poll', f)
  BY <1>1, <1>2, EpollNode DEF epoll_wait
<1>4. /\ PollerFrame /\ entry' = entry /\ reading' = reading /\ at' = at /\ bad' = FALSE
  BY <1>1 DEF epoll_wait, PollerFrame, pollers, closing, history, Rest1
<1>5. /\ poll' \in Group(Results) /\ poll'.queue = poll.queue
      /\ \A j \in Pollers : j # i => poll'.batch[j] = poll.batch[j]
  BY <1>1, <1>3, GroupFields DEF HasEvents
<1>6. at[i] \in AtSet /\ ThreadAt(i, at[i]) /\ AtFits(i, at[i])
  <2>1. poll.batch[i] = {} /\ PollersAt
    BY <1>1 DEF epoll_wait, Waiting, Rest1
  <2>2. at[i].pc = "wait"
    BY <2>1 DEF PollersAt
  <2> QED  BY <1>1, <1>4, <2>2 DEF Rest1, Types, AtSet, ThreadAt, AtFits
<1>7. PollersAt' /\ at' \in [Pollers -> AtSet]
  <2>1. \A f \in Fds : Index(f) # i => reading'[f] = reading[f]
    BY <1>4
  <2> QED  BY <1>1, <1>5, <1>6, <2>1, PollersMove
<1>8. Rest1'
  BY <1>1, <1>4, <1>5, <1>7, PollerRest DEF Rest1, Types, Stages
<1>9. SameMessages(Results, poll, poll')
  BY <1>5 DEF SameMessages
<1>10. \A f \in Fds : Apart(f)
  <2> SUFFICES ASSUME NEW f \in Fds PROVE Apart(f)
    OBVIOUS
  <2>1. Sender(f)' = Sender(f) /\ (Idle(f)' <=> Idle(f)) /\ worker' = worker /\ mutex' = mutex
    BY <1>4, PollerSame DEF PollerFrame
  <2> QED  BY <1>3, <1>4, <1>5, <1>9, <2>1, ApartOf
<1>11. SameAnswers /\ SameTaken
  BY <1>4, PollerSame
<1> QED  BY <1>8, <1>10, <1>11, StepApart

\* The nodes at the places in from go to the queue, all at once.
MovedAll(g, i, from) == [f \in Fds |-> At(g[f], Moved(f, i, g[f].loc, from), g[f].op)]

LEMMA MovedAllFields ==
  ASSUME NEW g \in [Fds -> PlaceSet], NEW i, NEW from \in SUBSET {"table", "pipe"},
         NEW k, k = MovedAll(g, i, from)
  PROVE  /\ k \in [Fds -> PlaceSet]
         /\ \A f \in Fds : /\ k[f].loc = Moved(f, i, g[f].loc, from) /\ k[f].op = g[f].op
                           /\ k[f].msg = g[f].msg /\ k[f].t = g[f].t
                           /\ SameTokens(g[f], k[f])
                           /\ k[f].loc = g[f].loc \/ (k[f].loc = "queue" /\ g[f].loc \in from)
<1>1. ASSUME NEW f \in Fds
      PROVE  /\ k[f] \in PlaceSet
             /\ k[f].loc = Moved(f, i, g[f].loc, from) /\ k[f].op = g[f].op
             /\ k[f].msg = g[f].msg /\ k[f].t = g[f].t
             /\ SameTokens(g[f], k[f])
             /\ k[f].loc = g[f].loc \/ (k[f].loc = "queue" /\ g[f].loc \in from)
  <2>1. k[f] = At(g[f], Moved(f, i, g[f].loc, from), g[f].op)
    BY DEF MovedAll
  <2>2. g[f] \in PlaceSet /\ g[f].op \in Ops /\ g[f].loc \in Places
    BY DEF PlaceSet
  <2>3. PICK to : to = Moved(f, i, g[f].loc, from)
    OBVIOUS
  <2>4. to \in Places /\ (to = g[f].loc \/ (to = "queue" /\ g[f].loc \in from))
    BY <2>2, <2>3 DEF Moved, Places
  <2>5. /\ k[f] \in PlaceSet /\ k[f].loc = to /\ k[f].op = g[f].op /\ k[f].w = g[f].w
        /\ k[f].msg = g[f].msg /\ k[f].mw = g[f].mw /\ k[f].t = g[f].t
    BY <2>1, <2>2, <2>3, <2>4, AtFields
  <2>6. SameTokens(g[f], k[f])
    BY <2>4, <2>5 DEF SameTokens, Chain
  <2> QED  BY <2>3, <2>4, <2>5, <2>6
<1>2. k \in [Fds -> PlaceSet]
  BY <1>1 DEF MovedAll
<1> QED  BY <1>1, <1>2

LEMMA PipeKeeps ==
  ASSUME NEW g, NEW d, Inv(g, d), NEW i \in Pollers, poller_handle_pipe(i)
  PROVE  IInv'
<1>1. Rest1 /\ poll \in Group(Results) /\ g \in [Fds -> PlaceSet]
  BY InvParts DEF Rest1, Types
<1>2. /\ PollerFrame /\ entry' = entry /\ reading' = reading /\ at' = at /\ bad' = FALSE
      /\ poll' = ReadPipe(poll, i) /\ poll.batch[i] = {}
  BY <1>1 DEF poller_handle_pipe, PollerFrame, pollers, closing, history, Rest1, PipeReady
<1>3. /\ Steady(Results, poll, poll') /\ PipeRead(Results, poll, poll', i)
      /\ SameMessages(Results, poll, poll') /\ MovesNodes(Results, poll, poll', i, {"pipe"})
  BY <1>1, <1>2, ReadPipeNode
<1>4. PICK k : k = MovedAll(g, i, {"pipe"})
  OBVIOUS
<1>5. /\ k \in [Fds -> PlaceSet]
      /\ \A f \in Fds : /\ k[f].loc = Moved(f, i, g[f].loc, {"pipe"}) /\ k[f].op = g[f].op
                        /\ k[f].msg = g[f].msg /\ k[f].t = g[f].t
                        /\ SameTokens(g[f], k[f])
                        /\ k[f].loc = g[f].loc \/ (k[f].loc = "queue" /\ g[f].loc \in {"pipe"})
  BY <1>1, <1>4, MovedAllFields
<1>6. ASSUME NEW f \in Fds
      PROVE  NewConn(g, f, k[f])
  <2>1. Conn(g[f], f) /\ g[f].op \in Ops
    BY <1>1, InvParts DEF PlaceSet
  <2>2. NodeAt(Results, poll', f, k[f].loc, k[f].op)
    BY <1>3, <1>5, <2>1 DEF MovesNodes, Conn
  <2>3. Fits(g[f], Cardinality(RefHolders(worker, f)), entry[f], mutex[f], Sender(f),
             reading[f], Idle(f))
    BY <2>1 DEF Conn
  <2>4. k[f].loc = g[f].loc \/ (k[f].loc \in Polled /\ g[f].loc \in Polled)
    BY <1>5 DEF Polled
  <2>5. /\ Fits(k[f], Cardinality(RefHolders(worker, f)), entry[f], mutex[f], Sender(f),
                reading[f], Idle(f))
        /\ Owes(k[f], entry[f], Sender(f)) <=> Owes(g[f], entry[f], Sender(f))
    BY <1>5, <2>3, <2>4, FitsMoves
  <2> QED  BY <1>2, <1>5, <2>2, <2>5 DEF NewConn, OwedBy
<1>7. ASSUME NEW f \in Fds
      PROVE  Conn(k[f], f)' /\ (OwedBy(k, f)' <=> OwedBy(g, f))
  <2>1. Conn(k[f], f)' /\ (Owes(k[f], entry'[f], Sender(f)') <=> OwedBy(g, f))
    BY <1>2, <1>3, <1>6, PollerConn DEF Steady
  <2> QED  BY <2>1 DEF OwedBy
<1>9. PollersAt' /\ at' \in [Pollers -> AtSet]
  BY <1>1, <1>2, <1>3 DEF Rest1, Types, AtSet, PollersAt, Steady
<1>10. Rest1'
  BY <1>1, <1>2, <1>3, <1>9, PollerRest DEF Rest1, Types, Steady
<1>11. SameAnswers /\ SameTaken
  BY <1>2, PollerSame
<1>12. \A f \in Fds : /\ OwedBy(k, f)' <=> OwedBy(g, f)
                      /\ OwedBy(g, f) => entry'[f].session = entry[f].session
  BY <1>2, <1>7
<1> QED  BY <1>5, <1>7, <1>10, <1>11, <1>12, StepSame

LEMMA PollerKeeps ==
  ASSUME NEW g, NEW d, Inv(g, d)
  PROVE  /\ \A i \in Pollers : PollerStep(i) => IInv'
         /\ \A e \in Fds : PollerEvent(e) => IInv'
<1>1. \A i \in Pollers : PollerStep(i) => IInv'
  BY EpollKeeps, PipeKeeps, LockKeeps, CreateKeeps, AppendKeeps DEF PollerStep
<1>2. \A e \in Fds : PollerEvent(e) => IInv'
  BY WriteKeeps, ReadKeeps DEF PollerEvent
<1> QED  BY <1>1, <1>2

-----------------------------------------------------------------------------
(* The steps of the handler threads: what they have in common.             *)

\* Thread w goes on with v.
WorksOn(w, v) == worker' = [worker EXCEPT ![w] = v]

HandlerFrame == UNCHANGED <<at, reading, mutex, user, closer>>
HandlerTypes ==
    /\ Steady(Results, poll, poll') /\ entry' \in [Fds -> EntrySet]
    /\ idle_list' \in Seq(Fds) /\ Distinct(idle_list')
    /\ outcome' \in [Sessions -> Seq(Told)] /\ bad' = FALSE /\ mixed' = FALSE

LEMMA HandlerRest ==
  ASSUME Rest1, HandlerFrame, HandlerTypes, NEW w \in Workers, NEW v \in WorkerSet,
         WorksOn(w, v)
  PROVE  Rest1'
<1>1. /\ worker \in [Workers -> WorkerSet] /\ Stages
  BY DEF Rest1, Types
<1>2. /\ worker' \in [Workers -> WorkerSet] /\ worker'[w] = v
      /\ \A u \in Workers : u # w => worker'[u] = worker[u]
  BY <1>1 DEF WorksOn
<1>3. Types'
  BY <1>2 DEF Rest1, Types, HandlerFrame, HandlerTypes, Steady
<1>5. Stages'
  BY <1>1 DEF Stages, HandlerFrame
<1>6. Mutexes'
  BY DEF Rest1, Mutexes, HandlerFrame
<1>7. PollersAt'
  BY DEF Rest1, PollersAt, HandlerFrame, HandlerTypes, Steady
<1> QED  BY <1>3, <1>5, <1>6, <1>7 DEF Rest1, HandlerTypes

LEMMA HandlerSenders ==
  ASSUME HandlerFrame
  PROVE  \A f \in Fds : Sender(f)' = Sender(f)
  BY DEF HandlerFrame, Sender

\* The connections that a handler of a result about e is not about.
OnlyAbout(v, e) == v.pc \in {"get", "off"} \/ v.res.fd = e
Untouched(e) ==
    \A f \in Fds : f # e => /\ Leaves(Results, poll, poll', f)
                            /\ entry'[f] = entry[f] /\ (Idle(f)' <=> Idle(f))

LEMMA HandlerOthers ==
  ASSUME Rest1, HandlerFrame, NEW w \in Workers, NEW v \in WorkerSet, WorksOn(w, v),
         NEW e, OnlyAbout(worker[w], e), OnlyAbout(v, e), Untouched(e),
         Steady(Results, poll, poll'), SameMessages(Results, poll, poll')
  PROVE  Others(e)
<1> SUFFICES ASSUME NEW f \in Fds, f # e PROVE Apart(f)
  BY DEF Others
<1>1. SameWork(worker, worker', f)
  <2>1. worker \in [Workers -> WorkerSet]
    BY DEF Rest1, Types
  <2>2. worker'[w] = v /\ \A u \in Workers : u # w => worker'[u] = worker[u]
    BY <2>1 DEF WorksOn
  <2>3. ~About(worker[w], f) /\ ~About(v, f)
    BY DEF OnlyAbout, About
  <2> QED  BY <2>2, <2>3 DEF SameWork
<1>2. Sender(f)' = Sender(f)
  BY HandlerSenders
<1>3. \A t, msg : Slot(poll.queue, MsgsOf(f), MsgIs(t), msg, "queue")
                      => Slot(poll'.queue, MsgsOf(f), MsgIs(t), msg, "queue")
  BY MsgsAreMessages DEF SameMessages
<1> QED  BY <1>1, <1>2, <1>3 DEF Apart, Untouched, HandlerFrame, Steady

-----------------------------------------------------------------------------
(* The handler of the end of a node.                                       *)

LEMMA EndOf ==
  ASSUME NEW g, NEW d, Inv(g, d), NEW w \in Workers, worker[w].pc \in Chain,
         worker[w].res.state # "SUCCESS", NEW e, e = Fd(w)
  PROVE  /\ Rest1 /\ e \in Fds /\ worker[w] \in WorkerSet /\ HasEnd(worker[w], e)
         /\ g[e] \in PlaceSet /\ Conn(g[e], e) /\ Live(e) /\ entry[e] \in EntrySet
         /\ g[e].loc = worker[w].pc /\ g[e].w = w /\ g[e].op = worker[w].res.op
         /\ NodeAt(Results, poll, e, g[e].loc, g[e].op)
         /\ Speaks(worker, g[e], entry[e])
         /\ Fits(g[e], Cardinality(RefHolders(worker, e)), entry[e], mutex[e], Sender(e),
                 reading[e], Idle(e))
<1>1. Rest1 /\ worker[w] \in WorkerSet
  BY InvParts DEF Rest1, Types
<1>2. e \in Fds /\ HasEnd(worker[w], e)
  BY <1>1 DEF WorkerSet, HasEnd, About, Chain, Fd
<1>3. g[e] \in PlaceSet /\ Conn(g[e], e)
  BY <1>2, InvParts
<1>4. g[e].loc = worker[w].pc /\ g[e].w = w /\ g[e].op = worker[w].res.op
  BY <1>2, <1>3 DEF Conn, EndWith
<1>5. g[e].loc # "none"
  BY <1>4 DEF Chain
<1>6. Live(e) /\ entry[e] \in EntrySet
  BY <1>1, <1>2, <1>3, <1>5, LiveConn DEF Rest1, Types
<1> QED  BY <1>1, <1>2, <1>3, <1>4, <1>6 DEF Conn

\* Its handler goes on with v, which has the node still or not any more.
EndMove(w, v, e, o, l) ==
    /\ HasEnd(worker[w], e) /\ OnlyAbout(v, e)
    /\ ~HasRef(v, e) /\ ~HasMsg(v, e) /\ ~Answers(v)
    /\ l.msg = o.msg /\ l.mw = o.mw /\ l.t = o.t
    /\ \/ HasEnd(v, e) /\ l.loc = v.pc /\ l.w = w /\ l.op = v.res.op /\ l.loc \in Chain
       \/ ~HasEnd(v, e) /\ l.loc \notin Chain
    /\ l.loc \in Speaking => v.s = entry'[e].session

NewEnd(l, e) ==
    Fits(l, Cardinality(RefHolders(worker, e)), entry'[e], mutex[e], Sender(e),
         reading[e], Idle(e)')

LEMMA EndConn ==
  ASSUME Rest1, NEW e \in Fds, NEW o, Conn(o, e), HandlerFrame, NEW w \in Workers,
         NEW v \in WorkerSet, WorksOn(w, v), NEW l, EndMove(w, v, e, o, l),
         SameMessages(Results, poll, poll'), NodeAt(Results, poll', e, l.loc, l.op),
         NewEnd(l, e)
  PROVE  Conn(l, e)' /\ SameAnswers
<1>1. worker \in [Workers -> WorkerSet]
  BY DEF Rest1, Types
<1>2. worker'[w] = v /\ \A u \in Workers : u # w => worker'[u] = worker[u]
  BY <1>1 DEF WorksOn
<1>3. /\ ~HasMsg(worker[w], e) /\ ~HasRef(worker[w], e) /\ ~Answers(worker[w])
      /\ HasEnd(worker[w], e)
  BY DEF EndMove, HasEnd, HasMsg, HasRef, Chain, Answers
<1>4. SameAnswers
  BY <1>2, <1>3 DEF SameAnswers, EndMove
<1>5. EndWith(worker', l, e)
  <2>1. \A u \in Workers : u # w => ~HasEnd(worker'[u], e)
    BY <1>2, <1>3 DEF Conn, EndWith
  <2>2. CASE HasEnd(v, e) /\ l.loc = v.pc /\ l.w = w /\ l.op = v.res.op /\ l.loc \in Chain
    BY <1>2, <2>1, <2>2 DEF EndWith
  <2>3. CASE ~HasEnd(v, e) /\ l.loc \notin Chain
    BY <1>2, <2>1, <2>3 DEF EndWith
  <2> QED  BY <2>2, <2>3 DEF EndMove
<1>6. MsgWith(worker', l, e)
  <2>1. \A u \in Workers : HasMsg(worker'[u], e) <=> HasMsg(worker[u], e)
    BY <1>2, <1>3 DEF EndMove
  <2>2. \A u \in Workers : HasMsg(worker[u], e) => worker'[u] = worker[u]
    BY <1>2, <1>3
  <2> QED  BY <2>1, <2>2 DEF Conn, MsgWith, EndMove
<1>7. RefHolders(worker', e) = RefHolders(worker, e)
  BY <1>2, <1>3 DEF RefHolders, EndMove
<1>8. Slot(poll'.queue, MsgsOf(e), MsgIs(l.t), l.msg, "queue")
  BY MsgsAreMessages DEF Conn, SameMessages, EndMove
<1>9. Speaks(worker', l, entry'[e])
  <2> SUFFICES ASSUME l.loc \in Speaking PROVE worker'[l.w].s = entry'[e].session
    BY DEF Speaks
  <2>1. l.loc \in Chain
    BY DEF Speaking, Chain
  <2> QED  BY <1>2, <2>1 DEF EndMove
<1>11. Sender(e)' = Sender(e) /\ mutex' = mutex /\ reading' = reading
  BY HandlerSenders DEF HandlerFrame
<1> QED  BY <1>4, <1>5, <1>6, <1>7, <1>8, <1>9, <1>11 DEF Conn, NewEnd

\* The steps of such a handler that leave the debts as they are.
LEMMA EndKeeps ==
  ASSUME NEW g, NEW d, Inv(g, d), HandlerFrame, HandlerTypes, outcome' = outcome,
         NEW w \in Workers, NEW v \in WorkerSet, WorksOn(w, v),
         NEW e \in Fds, Untouched(e), NEW l \in PlaceSet, EndMove(w, v, e, g[e], l),
         SameMessages(Results, poll, poll'), NodeAt(Results, poll', e, l.loc, l.op),
         NewEnd(l, e),
         Owes(l, entry'[e], Sender(e)) <=> Owes(g[e], entry[e], Sender(e)),
         entry'[e].session = entry[e].session \/ ~Owes(g[e], entry[e], Sender(e))
  PROVE  IInv'
<1>1. Rest1 /\ Conn(g[e], e)
  BY InvParts
<1>2. Conn(l, e)' /\ SameAnswers
  BY <1>1, EndConn
<1>3. Others(e)
  <2>1. OnlyAbout(worker[w], e) /\ OnlyAbout(v, e)
    BY DEF EndMove, OnlyAbout, HasEnd, About
  <2> QED  BY <1>1, <2>1, HandlerOthers DEF HandlerTypes
<1>4. Rest1'
  BY <1>1, HandlerRest
<1>5. SameTaken
  BY DEF SameTaken, HandlerFrame
<1>6. /\ Owes(l, entry'[e], Sender(e)') <=> OwedBy(g, e)
      /\ OwedBy(g, e) => entry'[e].session = entry[e].session
  <2>1. Sender(e)' = Sender(e)
    BY HandlerSenders
  <2> QED  BY <2>1 DEF OwedBy
<1> QED  BY <1>2, <1>3, <1>4, <1>5, <1>6, StepAt

\* The handler keeps the node, with another pc.
AtHandler(l, p, w) == [At(l, p, l.op) EXCEPT !.w = w]

LEMMA ChainMove ==
  ASSUME Rest1, NEW w \in Workers, NEW e \in Fds, HasEnd(worker[w], e),
         NEW o \in PlaceSet, o.op = worker[w].res.op, NEW p \in Chain,
         NEW v \in WorkerSet, v.pc = p, v.res = worker[w].res,
         p \in Speaking => v.s = entry'[e].session,
         NEW l, l = AtHandler(o, p, w)
  PROVE  /\ EndMove(w, v, e, o, l) /\ l \in PlaceSet /\ l.loc = p /\ l.op = o.op
         /\ l.msg = o.msg /\ l.t = o.t
<1>1. p \in Places /\ o.op \in Ops /\ p \notin {"get", "off", "reply", "table", "added"}
  BY DEF Places, Chain, PlaceSet
<1>2. PICK x : x = At(o, p, o.op)
  OBVIOUS
<1>3. /\ x \in PlaceSet /\ x.loc = p /\ x.op = o.op
      /\ x.w = o.w /\ x.msg = o.msg /\ x.mw = o.mw /\ x.t = o.t
  BY <1>1, <1>2, AtFields
<1>4. /\ l \in PlaceSet /\ l.loc = p /\ l.op = o.op /\ l.w = w
      /\ l.msg = o.msg /\ l.mw = o.mw /\ l.t = o.t
  <2>1. l = [x EXCEPT !.w = w]
    BY <1>2 DEF AtHandler
  <2> QED  BY <1>3, <2>1 DEF PlaceSet
<1>5. /\ worker[w].res.fd = e /\ worker[w].res.state # "SUCCESS"
  BY DEF HasEnd, About
<1>6. HasEnd(v, e) /\ ~HasRef(v, e) /\ ~HasMsg(v, e) /\ ~Answers(v) /\ OnlyAbout(v, e)
  BY <1>1, <1>5 DEF HasEnd, HasRef, HasMsg, Answers, OnlyAbout, About
<1> QED  BY <1>1, <1>4, <1>6 DEF EndMove

\* The handler leaves the node.
Leaving(v, e, loc) ==
    (v = Getting /\ loc = "none") \/ (v.pc = "added" /\ v.res.fd = e /\ loc = "table")

LEMMA NodeMove ==
  ASSUME NEW w \in Workers, NEW e \in Fds, HasEnd(worker[w], e), NEW o \in PlaceSet,
         NEW loc \in {"none", "table"}, NEW op \in Ops, NEW v \in WorkerSet, Leaving(v, e, loc),
         NEW l, l = At(o, loc, op)
  PROVE  /\ EndMove(w, v, e, o, l) /\ l \in PlaceSet /\ l.loc = loc /\ l.op = op
         /\ l.msg = o.msg /\ l.t = o.t
<1>1. loc \in Places /\ loc \notin Chain /\ loc \notin Speaking
  BY DEF Places, Chain, Speaking, Leaving
<1>2. /\ l \in PlaceSet /\ l.loc = loc /\ l.op = op
      /\ l.w = o.w /\ l.msg = o.msg /\ l.mw = o.mw /\ l.t = o.t
  BY <1>1, AtFields
<1>3. v.pc = "get" \/ (v.pc = "added" /\ v.res.fd = e)
  BY DEF Getting, Leaving
<1>4. ~HasEnd(v, e) /\ ~HasRef(v, e) /\ ~HasMsg(v, e) /\ ~Answers(v) /\ OnlyAbout(v, e)
  BY <1>3 DEF HasEnd, HasRef, HasMsg, Answers, OnlyAbout, About, Chain
<1>5. loc = "table" => v.pc = "added" /\ v.res.fd = e
  BY DEF Leaving
<1> QED  BY <1>1, <1>2, <1>4, <1>5 DEF EndMove

LEMMA GettingIs == Getting \in WorkerSet /\ Off \in WorkerSet /\ Getting.pc = "get" /\ Off.pc = "off"
<1>1. Getting \in WorkerSet /\ Getting.pc = "get"
  BY DEF Getting, WorkerSet, Told
<1>2. Off = [pc |-> "off", res |-> NONE, s |-> NONE, st |-> "none"]
  BY DEF Off, Getting
<1> QED  BY <1>1, <1>2 DEF WorkerSet, Told

\* The thread with another pc.
ThenAt(v, p) == [v EXCEPT !.pc = p]

LEMMA ThenFields ==
  ASSUME NEW u \in WorkerSet, u.pc \notin {"get", "off"}, u.res.state # "SUCCESS",
         NEW p \in Chain \cup {"added"}, NEW v, v = ThenAt(u, p)
  PROVE  v \in WorkerSet /\ v.pc = p /\ v.res = u.res /\ v.s = u.s /\ v.st = u.st
<1>1. /\ v \in [pc : {"get", "off", "reply", "added"} \cup Chain, res : Results \cup {NONE},
                s : Sessions \cup {NONE}, st : Told]
      /\ v.pc = p /\ v.res = u.res /\ v.s = u.s /\ v.st = u.st
  BY DEF WorkerSet, ThenAt
<1>2. p \notin {"get", "off", "reply"}
  BY DEF Chain
<1> QED  BY <1>1, <1>2 DEF WorkerSet

\* A handler that has the end of e, its entry perhaps changed to en.
EndStep(w, v, e, en) ==
    /\ WorksOn(w, v) /\ HandlerFrame /\ entry' = [entry EXCEPT ![e] = en]
    /\ bad' = FALSE /\ UNCHANGED <<outcome, mixed>>

\* Of idle_list e alone may be removed.
IdleKept(e, b) ==
    /\ idle_list' \in Seq(Fds) /\ Distinct(idle_list')
    /\ \A f \in Fds : f # e => (Idle(f)' <=> Idle(f))
    /\ Idle(e)' = b

LEMMA SameIdle ==
  ASSUME Rest1, idle_list' = idle_list, NEW e
  PROVE  IdleKept(e, Idle(e))
  BY DEF IdleKept, Idle, Rest1, Types

\* The handler keeps the node,
LEMMA EndGoesOn ==
  ASSUME NEW g, NEW d, Inv(g, d), NEW w \in Workers, worker[w].pc \in Chain,
         worker[w].res.state # "SUCCESS", NEW e, e = Fd(w), NEW p \in Chain,
         NEW v \in WorkerSet, v.pc = p, v.res = worker[w].res, NEW en \in EntrySet,
         p \in Speaking => v.s = en.session,
         EndStep(w, v, e, en), poll' = poll, NEW b, IdleKept(e, b),
         en.session = entry[e].session,
         \A l \in PlaceSet : l.loc = p /\ l.op = g[e].op /\ l.msg = g[e].msg /\ l.t = g[e].t =>
            /\ Fits(l, Cardinality(RefHolders(worker, e)), en, mutex[e], Sender(e),
                    reading[e], b)
            /\ Owes(l, en, Sender(e)) <=> Owes(g[e], entry[e], Sender(e))
  PROVE  IInv'
<1>1. /\ Rest1 /\ e \in Fds /\ HasEnd(worker[w], e) /\ g[e] \in PlaceSet
      /\ g[e].loc = worker[w].pc /\ g[e].op = worker[w].res.op
      /\ NodeAt(Results, poll, e, g[e].loc, g[e].op)
  BY EndOf
<1>2. /\ entry' \in [Fds -> EntrySet] /\ entry'[e] = en
      /\ \A f \in Fds : f # e => entry'[f] = entry[f]
  BY <1>1 DEF EndStep, Rest1, Types
<1>3. PICK l : l = AtHandler(g[e], p, w)
  OBVIOUS
<1>4. /\ EndMove(w, v, e, g[e], l) /\ l \in PlaceSet /\ l.loc = p /\ l.op = g[e].op
      /\ l.msg = g[e].msg /\ l.t = g[e].t
  BY <1>1, <1>2, <1>3, ChainMove
<1>5. /\ Steady(Results, poll, poll') /\ SameMessages(Results, poll, poll')
      /\ \A f \in Fds : Leaves(Results, poll, poll', f)
  BY <1>1, SamePoll
<1>6. NodeAt(Results, poll', e, l.loc, l.op)
  <2>1. g[e].loc \notin {"table", "pipe", "queue"} /\ l.loc \notin {"table", "pipe", "queue"}
    BY <1>1, <1>4 DEF Chain
  <2> QED  BY <1>1, <2>1, NodeElsewhere
<1>7. Idle(e)' = b /\ \A f \in Fds : f # e => (Idle(f)' <=> Idle(f))
  BY DEF IdleKept
<1>8. NewEnd(l, e) /\ (Owes(l, entry'[e], Sender(e)) <=> Owes(g[e], entry[e], Sender(e)))
  <2>1. /\ Fits(l, Cardinality(RefHolders(worker, e)), en, mutex[e], Sender(e),
                reading[e], b)
        /\ Owes(l, en, Sender(e)) <=> Owes(g[e], entry[e], Sender(e))
    BY <1>4
  <2> QED  BY <1>1, <1>2, <1>7, <2>1 DEF NewEnd
<1>9. HandlerTypes /\ HandlerFrame /\ outcome' = outcome /\ WorksOn(w, v)
  BY <1>1, <1>2, <1>5 DEF HandlerTypes, EndStep, Rest1, Types, IdleKept
<1>10. Untouched(e)
  BY <1>2, <1>5, <1>7 DEF Untouched
<1>11. entry'[e].session = entry[e].session
  BY <1>2
<1> QED  BY <1>1, <1>4, <1>5, <1>6, <1>8, <1>9, <1>10, <1>11, EndKeeps

\* or it leaves the node, and the entry if nobody else needs it.
LEMMA EndLeaves ==
  ASSUME NEW g, NEW d, Inv(g, d), NEW w \in Workers, worker[w].pc \in Chain,
         worker[w].res.state # "SUCCESS", NEW e, e = Fd(w), NEW en \in EntrySet,
         EndStep(w, Getting, e, en), poll' = poll, idle_list' = idle_list,
         en.session = entry[e].session \/ ~Owes(g[e], entry[e], Sender(e)),
         \A l \in PlaceSet : l.loc = "none" /\ l.op = g[e].op /\ l.msg = g[e].msg /\ l.t = g[e].t =>
            /\ Fits(l, Cardinality(RefHolders(worker, e)), en, mutex[e], Sender(e),
                    reading[e], Idle(e))
            /\ Owes(l, en, Sender(e)) <=> Owes(g[e], entry[e], Sender(e))
  PROVE  IInv'
<1>1. /\ Rest1 /\ e \in Fds /\ HasEnd(worker[w], e) /\ g[e] \in PlaceSet
      /\ g[e].loc = worker[w].pc /\ NodeAt(Results, poll, e, g[e].loc, g[e].op)
  BY EndOf
<1>2. /\ entry' \in [Fds -> EntrySet] /\ entry'[e] = en
      /\ \A f \in Fds : f # e => entry'[f] = entry[f]
  BY <1>1 DEF EndStep, Rest1, Types
<1>3. PICK l : l = At(g[e], "none", g[e].op)
  OBVIOUS
<1>4. /\ EndMove(w, Getting, e, g[e], l) /\ l \in PlaceSet /\ l.loc = "none" /\ l.op = g[e].op
      /\ l.msg = g[e].msg /\ l.t = g[e].t
  <2>1. g[e].op \in Ops /\ Leaving(Getting, e, "none")
    BY <1>1 DEF PlaceSet, Leaving
  <2> QED  BY <1>1, <1>3, <2>1, GettingIs, NodeMove
<1>5. /\ Steady(Results, poll, poll') /\ SameMessages(Results, poll, poll')
      /\ \A f \in Fds : Leaves(Results, poll, poll', f)
  BY <1>1, SamePoll
<1>6. NodeAt(Results, poll', e, l.loc, l.op)
  <2>1. g[e].loc \notin {"table", "pipe", "queue"} /\ l.loc \notin {"table", "pipe", "queue"}
    BY <1>1, <1>4 DEF Chain
  <2> QED  BY <1>1, <2>1, NodeElsewhere
<1>7. \A f \in Fds : Idle(f)' = Idle(f)
  BY DEF Idle
<1>8. NewEnd(l, e) /\ (Owes(l, entry'[e], Sender(e)) <=> Owes(g[e], entry[e], Sender(e)))
  <2>1. /\ Fits(l, Cardinality(RefHolders(worker, e)), en, mutex[e], Sender(e),
                reading[e], Idle(e))
        /\ Owes(l, en, Sender(e)) <=> Owes(g[e], entry[e], Sender(e))
    BY <1>4
  <2> QED  BY <1>1, <1>2, <1>7, <2>1 DEF NewEnd
<1>9. HandlerTypes /\ HandlerFrame /\ outcome' = outcome /\ WorksOn(w, Getting)
  BY <1>1, <1>2, <1>5 DEF HandlerTypes, EndStep, Rest1, Types
<1>10. Untouched(e)
  BY <1>2, <1>5, <1>7 DEF Untouched
<1>11. entry'[e].session = entry[e].session \/ ~Owes(g[e], entry[e], Sender(e))
  BY <1>2
<1> QED  BY <1>1, <1>4, <1>5, <1>6, <1>8, <1>9, <1>10, <1>11, GettingIs, EndKeeps

LEMMA ConnectedFits ==
  ASSUME NEW o, NEW n, NEW en, NEW m, NEW u, NEW rd, NEW idle, Fits(o, n, en, m, u, rd, idle),
         o.loc \in {"connected", "written"}, NEW l, l.op = o.op, l.msg = o.msg, l.t = o.t,
         NEW x, x.ref = en.ref, x.session = en.session,
         \/ l.loc = "read" /\ x.state = "RECEIVING"
         \/ o.loc = "connected" /\ l.loc \in {"write", "handle"} /\ x.state = en.state
  PROVE  Fits(l, n, x, m, u, rd, idle) /\ (Owes(l, x, u) <=> Owes(o, en, u))
<1>1. /\ o.op \in {"connect", "write"} /\ o.msg = "none" /\ rd = NONE /\ ~(idle = TRUE)
      /\ o.loc = "connected" => o.op = "connect" /\ en.state = "CONNECTING" /\ n = 0 /\ m = NONE
      /\ o.loc = "written" => o.op = "write" /\ en.state \in {"CONNECTING", "IDLE"} /\ u \notin Sending
  BY DEF Fits, NodeFits, MessageFits, IdleFits, Watched, Polled
<1>2. Counted(l, n, x) /\ MessageFits(l, x) /\ ReadingFits(l, x, rd)
  BY <1>1 DEF Fits, Counted, MessageFits, ReadingFits
<1>3. NodeFits(l, n, x, m, u, rd)
  BY <1>1 DEF Fits, NodeFits, Polled
<1>4. IdleFits(l, x, m, u, idle)
  BY <1>1 DEF Fits, IdleFits, Locking, Sending
<1> QED  BY <1>1, <1>2, <1>3, <1>4 DEF Fits, Owes, Sending

LEMMA ConnectedKeeps ==
  ASSUME NEW g, NEW d, Inv(g, d), NEW w \in Workers, handle_connected(w) \/ handle_written(w)
  PROVE  IInv'
<1>0. PICK e : e = Fd(w)
  OBVIOUS
<1>1. worker[w].pc \in {"connected", "written"} /\ worker[w].pc \in Chain
  BY DEF handle_connected, handle_written, Chain
<1>2. worker[w] \in WorkerSet /\ worker[w].res.state # "SUCCESS"
  BY <1>1, InvParts DEF Rest1, Types, WorkerSet
<1>3. /\ Rest1 /\ e \in Fds /\ g[e] \in PlaceSet /\ Live(e) /\ entry[e] \in EntrySet
      /\ g[e].loc = worker[w].pc /\ g[e].w = w /\ Speaks(worker, g[e], entry[e])
      /\ Fits(g[e], Cardinality(RefHolders(worker, e)), entry[e], mutex[e], Sender(e),
              reading[e], Idle(e))
  BY <1>0, <1>1, <1>2, EndOf
<1>4. worker[w].s = entry[e].session
  BY <1>1, <1>3 DEF Speaks, Speaking
<1>f. /\ HandlerFrame /\ poll' = poll /\ idle_list' = idle_list /\ UNCHANGED <<outcome, mixed>>
      /\ bad' = FALSE
  BY <1>0, <1>3 DEF handle_connected, handle_written, HandlerFrame, pollers, closing, history,
                    Uses, Rest1
<1>x. PICK x : x = InState(entry[e], "RECEIVING")
  OBVIOUS
<1>y. x \in EntrySet /\ x.state = "RECEIVING" /\ x.ref = entry[e].ref /\ x.session = entry[e].session
  BY <1>3, <1>x, InStateFields DEF ConnStates
<1>5. PICK p \in {"read", "write", "handle"}, en \in {entry[e], x} :
         /\ WorksOn(w, ThenAt(worker[w], p)) /\ entry' = [entry EXCEPT ![e] = en]
         /\ \/ p = "read" /\ en = x
            \/ worker[w].pc = "connected" /\ p \in {"write", "handle"} /\ en = entry[e]
  <2>1. ASSUME NEW p, Work(w, p) PROVE WorksOn(w, ThenAt(worker[w], p))
    BY <2>1 DEF Work, WorksOn, ThenAt
  <2>2. CASE entry' = [entry EXCEPT ![e].state = "RECEIVING"] /\ Work(w, "read")
    <3>1. entry' = [entry EXCEPT ![e] = x]
      BY <1>x, <2>2 DEF InState
    <3> QED  BY <2>1, <2>2, <3>1
  <2>3. ASSUME NEW p \in {"write", "handle"}, Work(w, p), UNCHANGED entry, worker[w].pc = "connected"
        PROVE  \E q \in {"read", "write", "handle"}, en \in {entry[e], x} :
                 /\ WorksOn(w, ThenAt(worker[w], q)) /\ entry' = [entry EXCEPT ![e] = en]
                 /\ \/ q = "read" /\ en = x
                    \/ worker[w].pc = "connected" /\ q \in {"write", "handle"} /\ en = entry[e]
    <3>1. entry' = [entry EXCEPT ![e] = entry[e]]
      BY <1>3, <2>3 DEF Rest1, Types
    <3> QED  BY <2>1, <2>3, <3>1
  <2> QED  BY <1>0, <2>2, <2>3 DEF handle_connected, handle_written
<1>6. en \in EntrySet /\ en.session = entry[e].session /\ en.ref = entry[e].ref
  BY <1>3, <1>5, <1>y
<1>7. PICK v : v = ThenAt(worker[w], p)
  OBVIOUS
<1>8. v \in WorkerSet /\ v.pc = p /\ v.res = worker[w].res /\ v.s = worker[w].s /\ p \in Chain
  <2>1. p \in Chain /\ worker[w].pc \notin {"get", "off"}
    BY <1>1 DEF Chain
  <2> QED  BY <1>2, <1>7, <2>1, ThenFields
<1>9. EndStep(w, v, e, en)
  BY <1>5, <1>7, <1>f DEF EndStep
<1>10. ASSUME NEW l \in PlaceSet, l.loc = p, l.op = g[e].op, l.msg = g[e].msg, l.t = g[e].t
       PROVE  /\ Fits(l, Cardinality(RefHolders(worker, e)), en, mutex[e], Sender(e),
                      reading[e], Idle(e))
              /\ Owes(l, en, Sender(e)) <=> Owes(g[e], entry[e], Sender(e))
  <2>1. \/ l.loc = "read" /\ en.state = "RECEIVING"
        \/ g[e].loc = "connected" /\ l.loc \in {"write", "handle"} /\ en.state = entry[e].state
    BY <1>3, <1>5, <1>10, <1>y
  <2>2. g[e].loc \in {"connected", "written"}
    BY <1>1, <1>3
  <2> QED  BY <1>3, <1>6, <1>10, <2>1, <2>2, ConnectedFits
<1>11. p \in Speaking => v.s = en.session
  BY <1>4, <1>6, <1>8
<1>12. IdleKept(e, Idle(e))
  BY <1>3, <1>f, SameIdle
<1> QED  BY <1>0, <1>1, <1>2, <1>f, <1>6, <1>8, <1>9, <1>10, <1>11, <1>12, EndGoesOn

\* The registration fails,
LEMMA AddFailsFits ==
  ASSUME NEW o, NEW n, NEW en, NEW m, NEW u, NEW rd, NEW idle, Fits(o, n, en, m, u, rd, idle),
         o.loc \in {"read", "write"}, NEW l, l.op = o.op, l.msg = o.msg, l.t = o.t,
         l.loc = "handle"
  PROVE  Fits(l, n, en, m, u, rd, idle) /\ (Owes(l, en, u) <=> Owes(o, en, u))
  BY DEF Fits, Counted, MessageFits, NodeFits, IdleFits, ReadingFits, Owes, Watched, Polled

\* or the node is back in the table, with the operation the handler wanted.
LEMMA AddFits ==
  ASSUME NEW o, NEW n, NEW en, NEW m, NEW u, NEW rd, NEW idle, Fits(o, n, en, m, u, rd, idle),
         o.loc \in {"read", "write"}, NEW l, l.op = o.loc, l.msg = o.msg, l.t = o.t,
         l.loc = "table"
  PROVE  Fits(l, n, en, m, u, rd, idle) /\ (Owes(l, en, u) <=> Owes(o, en, u))
<1>1. /\ o.op \in {"connect", "write"} /\ o.msg = "none" /\ rd = NONE /\ ~(idle = TRUE)
      /\ o.loc = "read" => en.state = "RECEIVING" /\ u \notin Sending
      /\ o.loc = "write" => o.op = "connect" /\ en.state = "CONNECTING" /\ u \notin Sending
  BY DEF Fits, NodeFits, MessageFits, IdleFits, Watched, Polled
<1>2. Counted(l, n, en) /\ MessageFits(l, en) /\ ReadingFits(l, en, rd)
  BY <1>1 DEF Fits, Counted, MessageFits, ReadingFits
<1>3. NodeFits(l, n, en, m, u, rd)
  BY <1>1 DEF Fits, NodeFits, Polled, Watched
<1>4. IdleFits(l, en, m, u, idle)
  BY <1>1 DEF Fits, IdleFits, Locking, Sending
<1> QED  BY <1>1, <1>2, <1>3, <1>4 DEF Fits, Owes

LEMMA AddKeeps ==
  ASSUME NEW g, NEW d, Inv(g, d), NEW w \in Workers, handle_add(w)
  PROVE  IInv'
<1>0. PICK e : e = Fd(w)
  OBVIOUS
<1>1. worker[w].pc \in {"read", "write"} /\ worker[w].pc \in Chain
  BY DEF handle_add, Chain
<1>2. worker[w] \in WorkerSet /\ worker[w].res.state # "SUCCESS"
  BY <1>1, InvParts DEF Rest1, Types, WorkerSet
<1>3. /\ Rest1 /\ e \in Fds /\ g[e] \in PlaceSet /\ HasEnd(worker[w], e) /\ entry[e] \in EntrySet
      /\ g[e].loc = worker[w].pc /\ g[e].w = w /\ Speaks(worker, g[e], entry[e])
      /\ NodeAt(Results, poll, e, g[e].loc, g[e].op)
      /\ Fits(g[e], Cardinality(RefHolders(worker, e)), entry[e], mutex[e], Sender(e),
              reading[e], Idle(e))
  BY <1>0, <1>1, <1>2, EndOf
<1>4. worker[w].s = entry[e].session
  BY <1>1, <1>3 DEF Speaks, Speaking
<1>f. /\ HandlerFrame /\ entry' = entry /\ idle_list' = idle_list /\ UNCHANGED <<outcome, mixed>>
      /\ bad' = FALSE
  BY <1>3 DEF handle_add, HandlerFrame, pollers, closing, history, Rest1
<1>g. entry' = [entry EXCEPT ![e] = entry[e]]
  BY <1>3, <1>f DEF Rest1, Types
<1>5. CASE Work(w, "handle") /\ UNCHANGED poll
  <2>1. PICK v : v = ThenAt(worker[w], "handle")
    OBVIOUS
  <2>2. v \in WorkerSet /\ v.pc = "handle" /\ v.res = worker[w].res /\ v.s = worker[w].s
    <3>1. "handle" \in Chain \cup {"added"} /\ worker[w].pc \notin {"get", "off"}
      BY <1>1 DEF Chain
    <3> QED  BY <1>2, <2>1, <3>1, ThenFields
  <2>3. EndStep(w, v, e, entry[e]) /\ "handle" \in Chain
    BY <1>5, <1>f, <1>g, <2>1 DEF EndStep, Work, WorksOn, ThenAt, Chain
  <2>4. ASSUME NEW l \in PlaceSet, l.loc = "handle", l.op = g[e].op, l.msg = g[e].msg, l.t = g[e].t
        PROVE  /\ Fits(l, Cardinality(RefHolders(worker, e)), entry[e], mutex[e], Sender(e),
                       reading[e], Idle(e))
               /\ Owes(l, entry[e], Sender(e)) <=> Owes(g[e], entry[e], Sender(e))
    BY <1>1, <1>3, <2>4, AddFailsFits
  <2>5. IdleKept(e, Idle(e)) /\ v.s = entry[e].session
    BY <1>3, <1>4, <1>f, <2>2, SameIdle
  <2> QED  BY <1>0, <1>1, <1>2, <1>3, <1>5, <2>2, <2>3, <2>4, <2>5, EndGoesOn
<1>6. CASE poll' = mpoller_add(poll, e, worker[w].pc) /\ Work(w, "added")
  <2>0. PICK p \in {"read", "write"} : p = worker[w].pc
    BY <1>1
  <2>1. PICK v : v = ThenAt(worker[w], "added")
    OBVIOUS
  <2>2. v \in WorkerSet /\ v.pc = "added" /\ v.res = worker[w].res
    <3>1. worker[w].pc \notin {"get", "off"}
      BY <1>1
    <3> QED  BY <1>2, <2>1, <3>1, ThenFields
  <2>3. PICK l : l = At(g[e], "table", p)
    OBVIOUS
  <2>4. /\ EndMove(w, v, e, g[e], l) /\ l \in PlaceSet /\ l.loc = "table" /\ l.op = p
        /\ l.msg = g[e].msg /\ l.t = g[e].t
    <3>1. p \in Ops /\ Leaving(v, e, "table")
      BY <1>0, <2>2 DEF Ops, Fd, Leaving
    <3> QED  BY <1>3, <2>2, <2>3, <3>1, NodeMove
  <2>5. /\ Steady(Results, poll, poll') /\ SameMessages(Results, poll, poll')
        /\ NodeAt(Results, poll', e, "table", p)
        /\ \A f \in Fds : f # e => Leaves(Results, poll, poll', f)
    <3>1. poll \in Group(Results) /\ p \in Ops /\ g[e].loc \notin {"table", "pipe", "queue"}
      BY <1>1, <1>3 DEF Rest1, Types, Ops
    <3> QED  BY <1>3, <1>6, <2>0, <3>1, AddNode
  <2>6. /\ Fits(l, Cardinality(RefHolders(worker, e)), entry[e], mutex[e], Sender(e),
                reading[e], Idle(e))
        /\ Owes(l, entry[e], Sender(e)) <=> Owes(g[e], entry[e], Sender(e))
    BY <1>1, <1>3, <2>0, <2>4, AddFits
  <2>7. \A f \in Fds : Idle(f)' = Idle(f)
    BY <1>f DEF Idle
  <2>8. /\ NewEnd(l, e) /\ (Owes(l, entry'[e], Sender(e)) <=> Owes(g[e], entry[e], Sender(e)))
        /\ entry'[e].session = entry[e].session
    BY <1>3, <1>f, <2>6, <2>7 DEF NewEnd
  <2>9. HandlerTypes /\ outcome' = outcome /\ WorksOn(w, v)
    BY <1>3, <1>6, <1>f, <2>1, <2>5
       DEF HandlerTypes, Rest1, Types, Work, WorksOn, ThenAt
  <2>10. Untouched(e)
    BY <1>f, <2>5, <2>7 DEF Untouched
  <2>11. NodeAt(Results, poll', e, l.loc, l.op)
    BY <2>4, <2>5
  <2> QED  BY <1>2, <1>3, <1>f, <2>2, <2>4, <2>5, <2>8, <2>9, <2>10, <2>11, EndKeeps
<1> QED  BY <1>0, <1>5, <1>6 DEF handle_add

\* The end of a connection is looked at: its session is told, or the message
\* that was read before the end is left to its own handler, or the entry is
\* released.
LEMMA TellFits ==
  ASSUME NEW o, NEW n, NEW en, NEW rd, NEW idle, Fits(o, n, en, NONE, "none", rd, idle),
         o.loc = "ended", NEW l, l.op = o.op, l.msg = o.msg, l.t = o.t,
         l.loc = "handle", en.state \in {"ERROR", "RECEIVING"}
  PROVE  Fits(l, n, en, NONE, "none", rd, idle) /\ (Owes(l, en, "none") <=> Owes(o, en, "none"))
  BY DEF Fits, Counted, MessageFits, NodeFits, IdleFits, ReadingFits, Owes, Watched, Polled, Sending

LEMMA LateFits ==
  ASSUME NEW o, NEW n, NEW en, NEW rd, NEW idle, Fits(o, n, en, NONE, "none", rd, idle),
         o.loc = "ended", NEW l, l.op = o.op, l.msg = o.msg, l.t = o.t,
         l.loc = "none", en.state = "SUCCESS",
         NEW x, x.state = "CLOSING", x.ref = en.ref, x.session = en.session
  PROVE  Fits(l, n, x, NONE, "none", rd, idle) /\ (Owes(l, x, "none") <=> Owes(o, en, "none"))
<1>1. o.msg # "none" /\ ~(idle = TRUE)
  BY DEF Fits, MessageFits, IdleFits
<1>2. Counted(l, n, x) /\ MessageFits(l, x) /\ ReadingFits(l, x, rd) /\ NodeFits(l, n, x, NONE, "none", rd)
  BY <1>1 DEF Fits, Counted, MessageFits, ReadingFits, NodeFits
<1>3. IdleFits(l, x, NONE, "none", idle)
  BY <1>1 DEF Fits, IdleFits, Sending
<1> QED  BY <1>1, <1>2, <1>3 DEF Fits, Owes

LEMMA UnusedFits ==
  ASSUME NEW o, NEW n, NEW en, NEW rd, NEW idle \in BOOLEAN, Fits(o, n, en, NONE, "none", rd, idle),
         o.loc = "ended", NEW l, l.op = o.op, l.msg = o.msg, l.t = o.t,
         l.loc = "unref", en.state \notin {"ERROR", "RECEIVING", "SUCCESS"}
  PROVE  /\ Fits(l, n, en, NONE, "none", rd, FALSE)
         /\ Owes(l, en, "none") <=> Owes(o, en, "none")
         /\ en.state = "IDLE" => idle = TRUE
         /\ en.state # "IDLE" => idle = FALSE
<1>1. /\ o.op = "read" /\ o.msg = "none" /\ en.state \in {"IDLE", "CLOSING"}
      /\ en.state = "IDLE" => idle = TRUE
      /\ en.state # "IDLE" => idle = FALSE
  BY DEF Fits, NodeFits, MessageFits, IdleFits, Watched, Polled, Sending
<1>2. Counted(l, n, en) /\ MessageFits(l, en) /\ ReadingFits(l, en, rd) /\ NodeFits(l, n, en, NONE, "none", rd)
  BY <1>1 DEF Fits, Counted, MessageFits, ReadingFits, NodeFits
<1>3. IdleFits(l, en, NONE, "none", FALSE)
  BY <1>1 DEF Fits, IdleFits, Sending, Watched, Polled
<1> QED  BY <1>1, <1>2, <1>3 DEF Fits, Owes, Sending

LEMMA EndedKeeps ==
  ASSUME NEW g, NEW d, Inv(g, d), NEW w \in Workers, handle_reply_end(w)
  PROVE  IInv'
<1>0. PICK e : e = Fd(w)
  OBVIOUS
<1>1. worker[w].pc = "ended" /\ worker[w].pc \in Chain /\ worker[w].pc \notin {"get", "off"}
  BY DEF handle_reply_end, Chain
<1>2. worker[w] \in WorkerSet /\ worker[w].res.state # "SUCCESS"
  BY <1>1, InvParts DEF Rest1, Types, WorkerSet
<1>3. /\ Rest1 /\ e \in Fds /\ g[e] \in PlaceSet /\ Live(e) /\ entry[e] \in EntrySet
      /\ g[e].loc = "ended"
      /\ Fits(g[e], Cardinality(RefHolders(worker, e)), entry[e], mutex[e], Sender(e),
              reading[e], Idle(e))
  BY <1>0, <1>1, <1>2, EndOf
<1>4. mutex[e] = NONE /\ Sender(e) = "none"
  BY <1>0 DEF handle_reply_end, Sender
<1>f. /\ HandlerFrame /\ poll' = poll /\ UNCHANGED <<outcome, mixed>>
      /\ bad' = (bad \/ ~Live(e) \/ (entry[e].state = "IDLE" /\ e \notin ToSet(idle_list)))
      /\ entry' = [entry EXCEPT ![e].state = IF entry[e].state = "SUCCESS" THEN "CLOSING" ELSE @]
      /\ idle_list' = IF entry[e].state = "IDLE" THEN RemoveFirst(idle_list, e) ELSE idle_list
  BY <1>0 DEF handle_reply_end, HandlerFrame, pollers, closing, history
<1>5. CASE entry[e].state \in {"ERROR", "RECEIVING"}
  <2>1. PICK v : v = [worker[w] EXCEPT !.pc = "handle", !.s = entry[e].session,
                          !.st = IF entry[e].state = "ERROR" THEN entry[e].state
                                 ELSE worker[w].st]
    OBVIOUS
  <2>2. v \in WorkerSet /\ v.pc = "handle" /\ v.res = worker[w].res /\ v.s = entry[e].session
    <3>1. entry[e].session \in Sessions \cup {NONE}
      BY <1>3 DEF EntrySet
    <3>2. /\ v \in [pc : {"get", "off", "reply", "added"} \cup Chain, res : Results \cup {NONE},
                    s : Sessions \cup {NONE}, st : Told]
          /\ v.pc = "handle" /\ v.res = worker[w].res /\ v.s = entry[e].session
      BY <1>2, <2>1, <3>1 DEF WorkerSet, Told, Chain
    <3> QED  BY <1>1, <1>2, <3>2 DEF WorkerSet
  <2>3. EndStep(w, v, e, entry[e]) /\ idle_list' = idle_list
    <3>1. WorksOn(w, v)
      <4>1. entry[e].state \in {"ERROR", "RECEIVING"} =>
               worker' = [worker EXCEPT ![w] =
                            [worker[w] EXCEPT !.pc = "handle", !.s = entry[e].session,
                               !.st = IF entry[e].state = "ERROR" THEN entry[e].state
                                      ELSE worker[w].st]]
        BY <1>0 DEF handle_reply_end
      <4> QED  BY <1>5, <2>1, <4>1 DEF WorksOn
    <3>2. entry' = [entry EXCEPT ![e] = entry[e]]
      BY <1>3, <1>5, <1>f DEF Rest1, Types, EntrySet
    <3> QED  BY <1>3, <1>5, <1>f, <3>1, <3>2 DEF EndStep, Rest1
  <2>4. ASSUME NEW l \in PlaceSet, l.loc = "handle", l.op = g[e].op, l.msg = g[e].msg, l.t = g[e].t
        PROVE  /\ Fits(l, Cardinality(RefHolders(worker, e)), entry[e], mutex[e], Sender(e),
                       reading[e], Idle(e))
               /\ Owes(l, entry[e], Sender(e)) <=> Owes(g[e], entry[e], Sender(e))
    BY <1>3, <1>4, <1>5, <2>4, TellFits
  <2>5. IdleKept(e, Idle(e)) /\ "handle" \in Chain
    BY <1>3, <2>3, SameIdle DEF Chain
  <2> QED  BY <1>0, <1>1, <1>2, <1>3, <1>f, <2>2, <2>3, <2>4, <2>5, EndGoesOn
<1>6. CASE entry[e].state = "SUCCESS"
  <2>1. PICK x : x = InState(entry[e], "CLOSING")
    OBVIOUS
  <2>2. x \in EntrySet /\ x.state = "CLOSING" /\ x.ref = entry[e].ref /\ x.session = entry[e].session
    BY <1>3, <2>1, InStateFields DEF ConnStates
  <2>3. EndStep(w, Getting, e, x) /\ idle_list' = idle_list
    <3>1. WorksOn(w, Getting)
      BY <1>0, <1>6 DEF handle_reply_end, WorksOn
    <3>2. entry' = [entry EXCEPT ![e] = x]
      BY <1>6, <1>f, <2>1 DEF InState
    <3> QED  BY <1>3, <1>6, <1>f, <3>1, <3>2 DEF EndStep, Rest1
  <2>4. ASSUME NEW l \in PlaceSet, l.loc = "none", l.op = g[e].op, l.msg = g[e].msg, l.t = g[e].t
        PROVE  /\ Fits(l, Cardinality(RefHolders(worker, e)), x, mutex[e], Sender(e),
                       reading[e], Idle(e))
               /\ Owes(l, x, Sender(e)) <=> Owes(g[e], entry[e], Sender(e))
    BY <1>3, <1>4, <1>6, <2>2, <2>4, LateFits
  <2> QED  BY <1>0, <1>1, <1>2, <1>f, <2>2, <2>3, <2>4, EndLeaves
<1>7. CASE entry[e].state \notin {"ERROR", "RECEIVING", "SUCCESS"}
  <2>1. PICK v : v = ThenAt(worker[w], "unref")
    OBVIOUS
  <2>2. v \in WorkerSet /\ v.pc = "unref" /\ v.res = worker[w].res
    <3>1. "unref" \in Chain \cup {"added"}
      BY DEF Chain
    <3> QED  BY <1>1, <1>2, <2>1, <3>1, ThenFields
  <2>3. /\ entry[e].state = "IDLE" => Idle(e)
        /\ entry[e].state # "IDLE" => ~Idle(e)
        /\ \A l \in PlaceSet : l.loc = "unref" /\ l.op = g[e].op /\ l.msg = g[e].msg /\ l.t = g[e].t =>
              /\ Fits(l, Cardinality(RefHolders(worker, e)), entry[e], mutex[e], Sender(e),
                      reading[e], FALSE)
              /\ Owes(l, entry[e], Sender(e)) <=> Owes(g[e], entry[e], Sender(e))
    <3>1. PICK l \in PlaceSet : l = At(g[e], "unref", g[e].op)
      BY <1>3, AtFields DEF Places, Chain, PlaceSet
    <3>2. l.loc = "unref" /\ l.op = g[e].op /\ l.msg = g[e].msg /\ l.t = g[e].t
      <4>1. "unref" \in Places /\ g[e].op \in Ops
        BY <1>3 DEF Places, Chain, PlaceSet
      <4> QED  BY <1>3, <3>1, <4>1, AtFields
    <3>a. PICK b \in BOOLEAN : b = Idle(e)
      <4>1. Idle(e) = TRUE \/ Idle(e) = FALSE
        BY DEF Idle
      <4> QED  BY <4>1
    <3>4. Fits(g[e], Cardinality(RefHolders(worker, e)), entry[e], NONE, "none", reading[e], b)
      BY <1>3, <1>4, <3>a
    <3>3. (entry[e].state = "IDLE" => b = TRUE) /\ (entry[e].state # "IDLE" => b = FALSE)
      BY <1>3, <1>7, <3>2, <3>4, UnusedFits, ZenonT(40)
    <3>5. ASSUME NEW k \in PlaceSet, k.loc = "unref", k.op = g[e].op, k.msg = g[e].msg, k.t = g[e].t
          PROVE  /\ Fits(k, Cardinality(RefHolders(worker, e)), entry[e], mutex[e], Sender(e),
                         reading[e], FALSE)
                 /\ Owes(k, entry[e], Sender(e)) <=> Owes(g[e], entry[e], Sender(e))
      <4>1. /\ Fits(k, Cardinality(RefHolders(worker, e)), entry[e], NONE, "none", reading[e], FALSE)
            /\ Owes(k, entry[e], "none") <=> Owes(g[e], entry[e], "none")
        BY <1>3, <1>7, <3>4, <3>5, UnusedFits
      <4> QED  BY <1>4, <4>1
    <3> QED  BY <3>3, <3>a, <3>5
  <2>4. IdleKept(e, FALSE)
    <3>1. idle_list \in Seq(Fds) /\ Distinct(idle_list)
      BY <1>3 DEF Rest1, Types
    <3>2. CASE entry[e].state = "IDLE"
      <4>1. idle_list' = RemoveFirst(idle_list, e) /\ e \in ToSet(idle_list)
        BY <1>f, <2>3, <3>2 DEF Idle
      <4>2. /\ idle_list' \in Seq(Fds) /\ Distinct(idle_list')
            /\ \A f : f \in ToSet(idle_list') <=> f \in ToSet(idle_list) /\ f # e
        BY <1>3, <3>1, <4>1, IdleRemove
      <4>3. Idle(e)' = FALSE
        BY <4>2 DEF Idle
      <4>4. \A f \in Fds : f # e => (Idle(f)' <=> Idle(f))
        BY <4>2 DEF Idle
      <4> QED  BY <4>2, <4>3, <4>4 DEF IdleKept
    <3>3. CASE entry[e].state # "IDLE"
      <4>1. idle_list' = idle_list
        BY <1>f, <3>3
      <4>2. Idle(e)' = FALSE
        BY <2>3, <3>3, <4>1 DEF Idle
      <4>3. \A f \in Fds : f # e => (Idle(f)' <=> Idle(f))
        BY <4>1 DEF Idle
      <4> QED  BY <3>1, <4>1, <4>2, <4>3 DEF IdleKept
    <3> QED  BY <3>2, <3>3
  <2>5. EndStep(w, v, e, entry[e])
    <3>1. WorksOn(w, v)
      BY <1>0, <1>7, <2>1 DEF handle_reply_end, WorksOn, ThenAt
    <3>2. entry' = [entry EXCEPT ![e] = entry[e]]
      BY <1>3, <1>7, <1>f DEF Rest1, Types, EntrySet
    <3>3. bad' = FALSE
      BY <1>3, <1>f, <2>3 DEF Rest1, Idle
    <3> QED  BY <1>f, <3>1, <3>2, <3>3 DEF EndStep
  <2>6. "unref" \in Chain /\ "unref" \notin Speaking
    BY DEF Chain, Speaking
  <2>7. PICK b : b = FALSE
    OBVIOUS
  <2>8. /\ IdleKept(e, b)
        /\ \A l \in PlaceSet : l.loc = "unref" /\ l.op = g[e].op /\ l.msg = g[e].msg /\ l.t = g[e].t =>
              /\ Fits(l, Cardinality(RefHolders(worker, e)), entry[e], mutex[e], Sender(e),
                      reading[e], b)
              /\ Owes(l, entry[e], Sender(e)) <=> Owes(g[e], entry[e], Sender(e))
    BY <2>3, <2>4, <2>7
  <2> QED  BY <1>0, <1>1, <1>2, <1>3, <1>f, <2>2, <2>5, <2>6, <2>8, EndGoesOn
<1> QED  BY <1>5, <1>6, <1>7

-----------------------------------------------------------------------------
(* The handlers that have neither the end of a node nor a message: those   *)
(* that hold a reference, and those that have registered a node.           *)

SideMove(w, v, e) ==
    /\ OnlyAbout(worker[w], e) /\ OnlyAbout(v, e)
    /\ ~HasEnd(worker[w], e) /\ ~HasMsg(worker[w], e)
    /\ ~HasEnd(v, e) /\ ~HasMsg(v, e)

NewSide(l, e) ==
    Fits(l, Cardinality(RefHolders(worker', e)), entry'[e], mutex[e], Sender(e),
         reading[e], Idle(e)')

LEMMA SideConn ==
  ASSUME Rest1, NEW e \in Fds, NEW o, Conn(o, e), HandlerFrame, NEW w \in Workers,
         NEW v \in WorkerSet, WorksOn(w, v), SideMove(w, v, e), NEW l, SameTokens(o, l),
         SameMessages(Results, poll, poll'), NodeAt(Results, poll', e, l.loc, l.op),
         entry'[e].session = entry[e].session \/ l.loc \notin Speaking,
         NewSide(l, e)
  PROVE  Conn(l, e)'
<1>1. worker \in [Workers -> WorkerSet]
  BY DEF Rest1, Types
<1>2. worker'[w] = v /\ \A u \in Workers : u # w => worker'[u] = worker[u]
  BY <1>1 DEF WorksOn
<1>3. \A u \in Workers : /\ HasEnd(worker'[u], e) <=> HasEnd(worker[u], e)
                         /\ HasMsg(worker'[u], e) <=> HasMsg(worker[u], e)
                         /\ HasEnd(worker[u], e) \/ HasMsg(worker[u], e) => worker'[u] = worker[u]
  BY <1>2 DEF SideMove
<1>4. EndWith(worker', l, e)
  BY <1>3 DEF Conn, EndWith, SameTokens
<1>5. MsgWith(worker', l, e)
  BY <1>3 DEF Conn, MsgWith, SameTokens
<1>6. Slot(poll'.queue, MsgsOf(e), MsgIs(l.t), l.msg, "queue")
  BY MsgsAreMessages DEF Conn, SameMessages, SameTokens
<1>7. Speaks(worker', l, entry'[e])
  <2> SUFFICES ASSUME l.loc \in Speaking PROVE worker'[l.w].s = entry'[e].session
    BY DEF Speaks
  <2>1. l.loc \in Chain /\ l.loc = o.loc /\ l.w = o.w /\ l.w \in Workers /\ HasEnd(worker[l.w], e)
    BY DEF Speaking, Chain, SameTokens, Conn, EndWith
  <2> QED  BY <1>3, <2>1 DEF Conn, Speaks
<1>8. Sender(e)' = Sender(e) /\ mutex' = mutex /\ reading' = reading
  BY HandlerSenders DEF HandlerFrame
<1> QED  BY <1>4, <1>5, <1>6, <1>7, <1>8 DEF Conn, NewSide

LEMMA RefChange ==
  ASSUME Rest1, NEW e \in Fds, NEW w \in Workers, NEW v \in WorkerSet, WorksOn(w, v)
  PROVE  /\ IsFiniteSet(RefHolders(worker, e))
         /\ RefHolders(worker', e) = IF HasRef(v, e) THEN RefHolders(worker, e) \cup {w}
                                     ELSE RefHolders(worker, e) \ {w}
<1>1. worker'[w] = v /\ \A u \in Workers : u # w => worker'[u] = worker[u]
  BY DEF WorksOn, Rest1, Types
<1>2. RefHolders(worker, e) \subseteq Workers /\ IsFiniteSet(Workers)
  BY Constants DEF RefHolders
<1>3. IsFiniteSet(RefHolders(worker, e))
  BY <1>2, FS_Subset
<1> QED  BY <1>1, <1>3 DEF RefHolders

\* Such a step that leaves the debts as they are.
LEMMA SideKeeps ==
  ASSUME NEW g, NEW d, Inv(g, d), HandlerFrame, HandlerTypes, outcome' = outcome,
         NEW w \in Workers, NEW v \in WorkerSet, WorksOn(w, v),
         ~Answers(worker[w]), ~Answers(v),
         NEW e \in Fds, Untouched(e), NEW l \in PlaceSet, SideMove(w, v, e),
         SameTokens(g[e], l),
         SameMessages(Results, poll, poll'), NodeAt(Results, poll', e, l.loc, l.op),
         NewSide(l, e),
         Owes(l, entry'[e], Sender(e)) <=> Owes(g[e], entry[e], Sender(e)),
         \/ entry'[e].session = entry[e].session
         \/ l.loc \notin Speaking /\ ~Owes(g[e], entry[e], Sender(e))
  PROVE  IInv'
<1>1. Rest1 /\ Conn(g[e], e)
  BY InvParts
<1>2. Conn(l, e)'
  BY <1>1, SideConn
<1>3. Others(e)
  <2>1. OnlyAbout(worker[w], e) /\ OnlyAbout(v, e)
    BY DEF SideMove
  <2> QED  BY <1>1, <2>1, HandlerOthers DEF HandlerTypes
<1>4. Rest1'
  BY <1>1, HandlerRest
<1>5. SameTaken
  BY DEF SameTaken, HandlerFrame
<1>6. /\ Owes(l, entry'[e], Sender(e)') <=> OwedBy(g, e)
      /\ OwedBy(g, e) => entry'[e].session = entry[e].session
  <2>1. Sender(e)' = Sender(e)
    BY HandlerSenders
  <2> QED  BY <2>1 DEF OwedBy
<1>7. SameAnswers
  <2>1. worker'[w] = v /\ \A u \in Workers : u # w => worker'[u] = worker[u]
    BY <1>1 DEF WorksOn, Rest1, Types
  <2> QED  BY <2>1 DEF SameAnswers
<1> QED  BY <1>2, <1>3, <1>4, <1>5, <1>6, <1>7, StepAt

\* A thread that holds a reference to e.
LEMMA RefOf ==
  ASSUME NEW g, NEW d, Inv(g, d), NEW w \in Workers, worker[w].pc \in {"handle", "unref"},
         worker[w].res.state = "SUCCESS", NEW e, e = Fd(w)
  PROVE  /\ Rest1 /\ e \in Fds /\ worker[w] \in WorkerSet /\ HasRef(worker[w], e)
         /\ g[e] \in PlaceSet /\ Conn(g[e], e) /\ Live(e) /\ entry[e] \in EntrySet
         /\ w \in RefHolders(worker, e) /\ Cardinality(RefHolders(worker, e)) \in Nat \ {0}
         /\ worker[w].res.op = "read"
         /\ ~HasEnd(worker[w], e) /\ ~HasMsg(worker[w], e) /\ OnlyAbout(worker[w], e)
         /\ NodeAt(Results, poll, e, g[e].loc, g[e].op)
         /\ Fits(g[e], Cardinality(RefHolders(worker, e)), entry[e], mutex[e], Sender(e),
                 reading[e], Idle(e))
<1>1. Rest1 /\ worker[w] \in WorkerSet
  BY InvParts DEF Rest1, Types
<1>2. e \in Fds /\ worker[w].res \in Results /\ worker[w].res.fd = e
  BY <1>1 DEF WorkerSet, Fd
<1>3. /\ HasRef(worker[w], e) /\ ~HasEnd(worker[w], e) /\ ~HasMsg(worker[w], e)
      /\ OnlyAbout(worker[w], e)
  BY <1>2 DEF HasRef, HasEnd, HasMsg, About, OnlyAbout
<1>4. worker[w].res.op = "read"
  BY <1>2 DEF Results, EXIT, Result, Ends
<1>5. g[e] \in PlaceSet /\ Conn(g[e], e)
  BY <1>2, InvParts
<1>6. w \in RefHolders(worker, e) /\ IsFiniteSet(RefHolders(worker, e))
  <2>1. RefHolders(worker, e) \subseteq Workers /\ IsFiniteSet(Workers)
    BY Constants DEF RefHolders
  <2> QED  BY <1>3, <2>1, FS_Subset DEF RefHolders
<1>7. Cardinality(RefHolders(worker, e)) \in Nat \ {0}
  BY <1>6, FS_CardinalityType, FS_EmptySet
<1>8. Live(e) /\ entry[e] \in EntrySet
  BY <1>1, <1>2, <1>5, <1>7, LiveConn DEF Rest1, Types
<1> QED  BY <1>1, <1>2, <1>3, <1>4, <1>5, <1>6, <1>7, <1>8 DEF Conn

\* The entry once a reference was given back and n are left.
LeftWith(en, n) == IF n = 0 THEN NoEntry("FREED") ELSE [en EXCEPT !.ref = n]

LEMMA LeftFields ==
  ASSUME NEW en \in EntrySet, NEW n \in Nat, NEW x, x = LeftWith(en, n)
  PROVE  /\ x \in EntrySet /\ x.ref = n
         /\ n = 0 => x.state = "FREED"
         /\ n # 0 => x.state = en.state /\ x.session = en.session
  BY DEF EntrySet, LeftWith, NoEntry

LEMMA LastFits ==
  ASSUME NEW o, NEW n \in Nat, NEW en, NEW m, NEW u, NEW rd, NEW idle,
         Fits(o, n, en, m, u, rd, idle), o.loc = "unref", m = NONE,
         NEW l, l.op = o.op, l.msg = o.msg, l.t = o.t, l.loc = "none",
         NEW x, x.ref = n, n = 0 => x.state = "FREED",
         n # 0 => x.state = en.state /\ x.session = en.session
  PROVE  /\ Fits(l, n, x, m, u, rd, idle) /\ ~Owes(l, x, u) /\ ~Owes(o, en, u)
         /\ en.ref = n + 1 /\ (o.op = "connect" => n = 0)
<1>1. /\ o.msg = "none" /\ u = "none" /\ ~(idle = TRUE)
      /\ en.state \notin {"NONE", "FREED"}
      /\ en.ref = n + 1 /\ (o.op = "connect" => n = 0)
  BY DEF Fits, Counted, MessageFits, NodeFits, IdleFits, Watched, Polled
<1>2. Counted(l, n, x) /\ MessageFits(l, x) /\ ReadingFits(l, x, rd) /\ NodeFits(l, n, x, m, u, rd)
  BY <1>1 DEF Fits, Counted, MessageFits, ReadingFits, NodeFits
<1>3. IdleFits(l, x, m, u, idle)
  BY <1>1 DEF Fits, IdleFits, Sending, Watched, Polled
<1> QED  BY <1>1, <1>2, <1>3 DEF Fits, Owes, Sending

LEMMA UnrefFits ==
  ASSUME NEW o, NEW n \in Nat \ {0}, NEW en, en.ref \in Nat, NEW m, NEW u, NEW rd, NEW idle,
         Fits(o, n, en, m, u, rd, idle),
         NEW k, k = n - 1, NEW x, x.ref = en.ref - 1, x.ref = 0 => x.state = "FREED",
         x.ref # 0 => x.state = en.state /\ x.session = en.session
  PROVE  /\ Fits(o, k, x, m, u, rd, idle) /\ (Owes(o, x, u) <=> Owes(o, en, u))
         /\ x.ref \in Nat
         /\ x.session = en.session \/ (o.loc \notin Speaking /\ ~Owes(o, en, u))
<1>1. CASE o.loc = "none" /\ o.msg = "none"
  <2>1. /\ en.ref = n /\ k \in Nat /\ x.ref = k /\ x.ref \in Nat
        /\ en.state \notin {"NONE", "FREED"} /\ u = "none" /\ ~(idle = TRUE) /\ m = NONE
    BY <1>1 DEF Fits, Counted, IdleFits, Watched, Polled
  <2>2. Counted(o, k, x) /\ MessageFits(o, x) /\ ReadingFits(o, x, rd)
    BY <1>1, <2>1 DEF Fits, Counted, MessageFits, ReadingFits
  <2>3. NodeFits(o, k, x, m, u, rd) /\ IdleFits(o, x, m, u, idle)
    BY <1>1, <2>1 DEF Fits, NodeFits, IdleFits, Sending, Watched, Polled
  <2>4. ~Owes(o, x, u) /\ ~Owes(o, en, u) /\ o.loc \notin Speaking
    BY <1>1, <2>1 DEF Owes, Sending, Speaking
  <2> QED  BY <2>1, <2>2, <2>3, <2>4 DEF Fits
<1>2. CASE ~(o.loc = "none" /\ o.msg = "none")
  <2>1. /\ en.ref = n + 1 /\ k \in Nat /\ x.ref = k + 1 /\ x.ref \in Nat /\ x.ref # 0
        /\ en.state \notin {"NONE", "FREED"}
    BY <1>2 DEF Fits, Counted
  <2>2. x.state = en.state /\ x.session = en.session
    BY <2>1
  <2>3. ~(o.loc # "none" /\ o.op = "connect")
    BY DEF Fits, NodeFits
  <2>4. Counted(o, k, x) /\ MessageFits(o, x) /\ ReadingFits(o, x, rd)
    BY <1>2, <2>1, <2>2 DEF Fits, Counted, MessageFits, ReadingFits
  <2>5. NodeFits(o, k, x, m, u, rd) /\ IdleFits(o, x, m, u, idle)
    BY <2>2, <2>3 DEF Fits, NodeFits, IdleFits
  <2> QED  BY <2>1, <2>2, <2>4, <2>5 DEF Fits, Owes
<1> QED  BY <1>1, <1>2

LEMMA ReleaseKeeps ==
  ASSUME NEW g, NEW d, Inv(g, d), NEW w \in Workers, release_conn(w)
  PROVE  IInv'
<1>0. PICK e : e = Fd(w)
  OBVIOUS
<1>1. worker[w].pc = "unref" /\ worker[w].pc \in Chain
  BY DEF release_conn, Chain
<1>f. /\ HandlerFrame /\ poll' = poll /\ idle_list' = idle_list /\ UNCHANGED <<outcome, mixed>>
      /\ bad' = (bad \/ ~Live(e)) /\ WorksOn(w, Getting)
  BY <1>0 DEF release_conn, HandlerFrame, pollers, closing, history, WorksOn, Uses
<1>n. PICK n : n = IF worker[w].res.op = "connect" THEN 0 ELSE entry[e].ref - 1
  OBVIOUS
<1>x. PICK x : x = LeftWith(entry[e], n)
  OBVIOUS
<1>e. entry' = [entry EXCEPT ![e] = x]
  BY <1>0, <1>n, <1>x DEF release_conn, LeftWith
<1>2. CASE worker[w].res.state # "SUCCESS"
  <2>1. /\ Rest1 /\ e \in Fds /\ g[e] \in PlaceSet /\ Live(e) /\ entry[e] \in EntrySet
        /\ g[e].loc = "unref" /\ g[e].op = worker[w].res.op
        /\ Fits(g[e], Cardinality(RefHolders(worker, e)), entry[e], mutex[e], Sender(e),
                reading[e], Idle(e))
    BY <1>0, <1>1, <1>2, EndOf
  <2>2. mutex[e] = NONE
    <3>1. worker[w].res.op = "write" => mutex[e] = NONE
      BY <1>0 DEF release_conn
    <3> QED  BY <2>1, <3>1 DEF Fits, NodeFits
  <2>3. PICK c : c = Cardinality(RefHolders(worker, e))
    OBVIOUS
  <2>4. c \in Nat
    BY <2>1, <2>3 DEF Fits, Counted
  <2>5. entry[e].ref = c + 1 /\ (g[e].op = "connect" => c = 0)
    BY <2>1, <2>3 DEF Fits, Counted, NodeFits
  <2>6. n = c
    BY <1>n, <2>1, <2>4, <2>5
  <2>7. /\ x \in EntrySet /\ x.ref = c /\ (c = 0 => x.state = "FREED")
        /\ c # 0 => x.state = entry[e].state /\ x.session = entry[e].session
    BY <1>x, <2>1, <2>4, <2>6, LeftFields
  <2>8. ASSUME NEW l \in PlaceSet, l.loc = "none", l.op = g[e].op, l.msg = g[e].msg, l.t = g[e].t
        PROVE  /\ Fits(l, Cardinality(RefHolders(worker, e)), x, mutex[e], Sender(e),
                       reading[e], Idle(e))
               /\ ~Owes(l, x, Sender(e)) /\ ~Owes(g[e], entry[e], Sender(e))
    <3>1. Fits(g[e], c, entry[e], mutex[e], Sender(e), reading[e], Idle(e))
      BY <2>1, <2>3
    <3>2. /\ Fits(l, c, x, mutex[e], Sender(e), reading[e], Idle(e))
          /\ ~Owes(l, x, Sender(e)) /\ ~Owes(g[e], entry[e], Sender(e))
      BY <2>1, <2>2, <2>4, <2>7, <2>8, <3>1, LastFits
    <3> QED  BY <2>3, <3>2
  <2>9. ~Owes(g[e], entry[e], Sender(e))
    <3>1. "none" \in Places /\ g[e].op \in Ops
      BY <2>1 DEF Places, PlaceSet
    <3>2. PICK l : l = At(g[e], "none", g[e].op)
      OBVIOUS
    <3> QED  BY <2>1, <2>8, <3>1, <3>2, AtFields
  <2>10. EndStep(w, Getting, e, x)
    BY <1>f, <1>e, <2>1 DEF EndStep, Rest1
  <2> QED  BY <1>0, <1>1, <1>2, <1>f, <2>7, <2>8, <2>9, <2>10, EndLeaves
<1>3. CASE worker[w].res.state = "SUCCESS"
  <2>1. /\ Rest1 /\ e \in Fds /\ g[e] \in PlaceSet /\ Live(e) /\ entry[e] \in EntrySet
        /\ w \in RefHolders(worker, e) /\ Cardinality(RefHolders(worker, e)) \in Nat \ {0}
        /\ worker[w].res.op = "read"
        /\ ~HasEnd(worker[w], e) /\ ~HasMsg(worker[w], e) /\ OnlyAbout(worker[w], e)
        /\ NodeAt(Results, poll, e, g[e].loc, g[e].op)
        /\ Fits(g[e], Cardinality(RefHolders(worker, e)), entry[e], mutex[e], Sender(e),
                reading[e], Idle(e))
    BY <1>0, <1>1, <1>3, RefOf
  <2>2. PICK c : c = Cardinality(RefHolders(worker, e))
    OBVIOUS
  <2>3. c \in Nat \ {0} /\ entry[e].ref \in Nat /\ n = entry[e].ref - 1
    BY <1>n, <2>1, <2>2 DEF EntrySet
  <2>4. n \in Nat
    BY <2>1, <2>2, <2>3 DEF Fits, Counted
  <2>5. /\ x \in EntrySet /\ x.ref = n /\ (n = 0 => x.state = "FREED")
        /\ n # 0 => x.state = entry[e].state /\ x.session = entry[e].session
    BY <1>x, <2>1, <2>4, LeftFields, SMTT(40)
  <2>6. /\ Fits(g[e], c - 1, x, mutex[e], Sender(e), reading[e], Idle(e))
        /\ Owes(g[e], x, Sender(e)) <=> Owes(g[e], entry[e], Sender(e))
        /\ \/ x.session = entry[e].session
           \/ g[e].loc \notin Speaking /\ ~Owes(g[e], entry[e], Sender(e))
    <3>1. Fits(g[e], c, entry[e], mutex[e], Sender(e), reading[e], Idle(e))
      BY <2>1, <2>2
    <3>2. x.ref = entry[e].ref - 1 /\ (x.ref = 0 => x.state = "FREED")
      BY <2>3, <2>5
    <3>3. x.ref # 0 => x.state = entry[e].state /\ x.session = entry[e].session
      BY <2>5
    <3>4. PICK k : k = c - 1
      OBVIOUS
    <3>5. /\ Fits(g[e], k, x, mutex[e], Sender(e), reading[e], Idle(e))
          /\ Owes(g[e], x, Sender(e)) <=> Owes(g[e], entry[e], Sender(e))
          /\ x.session = entry[e].session
             \/ (g[e].loc \notin Speaking /\ ~Owes(g[e], entry[e], Sender(e)))
      BY ONLY <2>3, <3>1, <3>2, <3>3, <3>4, UnrefFits
    <3> QED  BY ONLY <3>4, <3>5
  <2>7. SideMove(w, Getting, e)
    BY <2>1, GettingIs DEF SideMove, OnlyAbout, HasEnd, HasMsg, About
  <2>8. Cardinality(RefHolders(worker', e)) = c - 1
    <3>1. ~HasRef(Getting, e)
      BY GettingIs DEF HasRef, About
    <3>2. /\ IsFiniteSet(RefHolders(worker, e))
          /\ RefHolders(worker', e) = RefHolders(worker, e) \ {w}
      BY <1>f, <2>1, <3>1, GettingIs, RefChange
    <3> QED  BY <2>1, <2>2, <3>2, FS_RemoveElement
  <2>9. /\ entry' \in [Fds -> EntrySet] /\ entry'[e] = x
        /\ \A f \in Fds : f # e => entry'[f] = entry[f]
    BY <1>e, <2>1, <2>5 DEF Rest1, Types
  <2>10. \A f \in Fds : Idle(f)' = Idle(f)
    BY <1>f DEF Idle
  <2>11. NewSide(g[e], e)
    BY <2>1, <2>6, <2>8, <2>9, <2>10 DEF NewSide
  <2>12. /\ Steady(Results, poll, poll') /\ SameMessages(Results, poll, poll')
         /\ \A f \in Fds : Leaves(Results, poll, poll', f)
    BY <1>f, <2>1, SamePoll
  <2>13. HandlerTypes
    BY <1>f, <2>1, <2>9, <2>12 DEF HandlerTypes, Rest1, Types
  <2>14. Untouched(e)
    BY <2>9, <2>10, <2>12 DEF Untouched
  <2>16. SameTokens(g[e], g[e]) /\ NodeAt(Results, poll', e, g[e].loc, g[e].op)
    BY <1>f, <2>1 DEF SameTokens
  <2>17. ~Answers(worker[w]) /\ ~Answers(Getting)
    BY <1>1, GettingIs DEF Answers
  <2>18. /\ Owes(g[e], entry'[e], Sender(e)) <=> Owes(g[e], entry[e], Sender(e))
         /\ \/ entry'[e].session = entry[e].session
            \/ g[e].loc \notin Speaking /\ ~Owes(g[e], entry[e], Sender(e))
    BY <2>6, <2>9
  <2> QED  BY <1>1, <1>f, <2>1, <2>7, <2>11, <2>12, <2>13, <2>14, <2>16, <2>17, <2>18,
              GettingIs, SideKeeps
<1> QED  BY <1>2, <1>3

\* Session t is told, and nobody owes it an answer any more.
Told1(t, st) == outcome' = [outcome EXCEPT ![t] = Append(outcome[t], st)]

LEMMA TellKeeps ==
  ASSUME NEW g, NEW d, Inv(g, d), NEW k \in [Fds -> PlaceSet], \A f \in Fds : Conn(k[f], f)',
         NEW t, NEW st \in Told, Told1(t, st), user' = user, entry' = entry, Rest1',
         t \in Sessions => d[t].by \in {"conn", "worker"},
         \A f \in Fds : /\ OwedBy(k, f)' => OwedBy(g, f) /\ entry[f].session # t
                        /\ OwedBy(g, f) /\ entry[f].session # t => OwedBy(k, f)',
         \A u \in Workers : /\ Answers(worker'[u]) => worker'[u] = worker[u] /\ (t \in Sessions => worker[u].s # t)
                            /\ Answers(worker[u]) /\ worker[u].s # t => worker'[u] = worker[u]
  PROVE  IInv'
<1>1. outcome \in [Sessions -> Seq(Told)]
  BY InvParts DEF Rest1, Types
<1>2. ASSUME NEW s \in Sessions, s # t
      PROVE  SameFor(g, k, s)
  <2>1. outcome'[s] = outcome[s]
    BY <1>1, <1>2 DEF Told1
  <2>2. \A f \in Fds : OwesTo(k, f, s)' <=> OwesTo(g, f, s)
    BY <1>2 DEF OwesTo
  <2>3. \A u \in Workers : AnswersTo(u, s)' <=> AnswersTo(u, s)
    BY <1>2 DEF AnswersTo
  <2> QED  BY <2>1, <2>2, <2>3 DEF SameFor
<1>3. PICK c : c = [by |-> "told", e |-> NONE, w |-> NONE]
  OBVIOUS
<1>4. c \in DebtSet /\ c.by = "told"
  BY <1>3 DEF DebtSet
<1>5. ASSUME t \in Sessions PROVE Sess(k, c, t)'
  <2>1. Sess(g, d[t], t) /\ d[t].by \notin {"none", "told"}
    BY <1>5, InvParts
  <2>2. user'[t].pc \in Taken /\ outcome[t] = <<>>
    BY <2>1 DEF Sess
  <2>3. Len(outcome'[t]) = 1
    <3>1. outcome'[t] = Append(<<>>, st)
      BY <1>1, <1>5, <2>2 DEF Told1
    <3> QED  BY <3>1
  <2>4. \A f \in Fds : ~(OwedBy(k, f)' /\ entry'[f].session = t)
    OBVIOUS
  <2>5. \A u \in Workers : ~(Answers(worker'[u]) /\ worker'[u].s = t)
    BY <1>5
  <2> QED  BY <1>4, <2>2, <2>3, <2>4, <2>5 DEF Sess
<1> QED  BY <1>2, <1>4, <1>5, StepDebt

LEMMA HandleFits ==
  ASSUME NEW o, NEW n, NEW en, NEW m, NEW u, NEW rd, NEW idle, Fits(o, n, en, m, u, rd, idle),
         o.loc = "handle", NEW l, l.op = o.op, l.msg = o.msg, l.t = o.t, l.loc = "unref"
  PROVE  /\ Fits(l, n, en, m, u, rd, idle) /\ ~Owes(l, en, u) /\ Owes(o, en, u)
         /\ en.session \in Sessions
<1>1. o.msg = "none" /\ ~(idle = TRUE) /\ u \notin Sending /\ o.op \in {"connect", "write", "read"}
      /\ en.session \in Sessions
  BY DEF Fits, Counted, MessageFits, NodeFits, IdleFits, Watched, Polled
<1>2. Counted(l, n, en) /\ MessageFits(l, en) /\ ReadingFits(l, en, rd)
  BY <1>1 DEF Fits, Counted, MessageFits, ReadingFits
<1>3. NodeFits(l, n, en, m, u, rd)
  BY <1>1 DEF Fits, NodeFits
<1>4. IdleFits(l, en, m, u, idle)
  BY <1>1 DEF Fits, IdleFits, Watched, Polled
<1>5. Owes(o, en, u)
  BY <1>1 DEF Fits, NodeFits, Owes
<1>6. ~Owes(l, en, u)
  BY <1>1 DEF Owes
<1> QED  BY <1>1, <1>2, <1>3, <1>4, <1>5, <1>6 DEF Fits

LEMMA HandleKeeps ==
  ASSUME NEW g, NEW d, Inv(g, d), NEW w \in Workers, handle(w)
  PROVE  IInv'
<1>0. PICK e : e = Fd(w)
  OBVIOUS
<1>t. PICK t : t = worker[w].s
  OBVIOUS
<1>1. worker[w].pc = "handle" /\ worker[w].pc \in Chain /\ worker[w].pc \notin {"get", "off"}
  BY DEF handle, Chain
<1>v. PICK v : v = ThenAt(worker[w], "unref")
  OBVIOUS
<1>2. Rest1 /\ worker[w] \in WorkerSet /\ worker[w].st \in Told
  BY InvParts DEF Rest1, Types, WorkerSet
<1>3. v \in WorkerSet /\ v.pc = "unref" /\ v.res = worker[w].res
  BY <1>1, <1>2, <1>v DEF ThenAt, WorkerSet, Chain
<1>f. /\ HandlerFrame /\ poll' = poll /\ idle_list' = idle_list /\ entry' = entry /\ mixed' = mixed
      /\ bad' = bad /\ WorksOn(w, v) /\ Told1(t, worker[w].st) /\ user' = user
  <2>1. outcome' = [outcome EXCEPT ![t] = Append(outcome[t], worker[w].st)]
    BY <1>t DEF handle
  <2>2. WorksOn(w, v)
    BY <1>v DEF handle, Work, WorksOn, ThenAt
  <2> QED  BY <2>1, <2>2 DEF handle, HandlerFrame, pollers, closing, Told1
<1>4. /\ Steady(Results, poll, poll') /\ SameMessages(Results, poll, poll')
      /\ \A f \in Fds : Leaves(Results, poll, poll', f)
  BY <1>f, <1>2, SamePoll
<1>5. HandlerTypes
  <2>1. outcome' \in [Sessions -> Seq(Told)]
    <3>1. outcome \in [Sessions -> Seq(Told)]
      BY <1>2 DEF Rest1, Types
    <3>2. t \in Sessions => Append(outcome[t], worker[w].st) \in Seq(Told)
      BY <1>2, <3>1, AppendProperties
    <3> QED  BY <1>f, <3>1, <3>2 DEF Told1
  <2> QED  BY <1>2, <1>4, <1>f, <2>1 DEF HandlerTypes, Rest1, Types
<1>6. Rest1'
  BY <1>1, <1>2, <1>3, <1>5, <1>f, HandlerRest
<1>7. \A f \in Fds : Idle(f)' = Idle(f) /\ Sender(f)' = Sender(f)
  BY <1>f, HandlerSenders DEF Idle
<1>8. worker'[w] = v /\ \A u \in Workers : u # w => worker'[u] = worker[u]
  BY <1>2, <1>f DEF WorksOn, Rest1, Types
<1>9. ~Answers(v)
  BY <1>3 DEF Answers
<1>11. Untouched(e)
  BY <1>4, <1>7, <1>f DEF Untouched
<1>12. \A s \in Sessions : Sess(g, d[s], s)
  BY InvParts
<1>13. CASE worker[w].res.state # "SUCCESS"
  <2>1. /\ e \in Fds /\ HasEnd(worker[w], e) /\ g[e] \in PlaceSet /\ Conn(g[e], e)
        /\ g[e].loc = "handle" /\ g[e].w = w /\ g[e].op = worker[w].res.op
        /\ NodeAt(Results, poll, e, g[e].loc, g[e].op)
        /\ Speaks(worker, g[e], entry[e])
        /\ Fits(g[e], Cardinality(RefHolders(worker, e)), entry[e], mutex[e], Sender(e),
                reading[e], Idle(e))
    BY <1>0, <1>1, <1>13, EndOf
  <2>2. PICK l : l = AtHandler(g[e], "unref", w)
    OBVIOUS
  <2>3. /\ EndMove(w, v, e, g[e], l) /\ l \in PlaceSet /\ l.loc = "unref" /\ l.op = g[e].op
        /\ l.msg = g[e].msg /\ l.t = g[e].t
    <3>1. "unref" \in Chain /\ "unref" \notin Speaking
      BY DEF Chain, Speaking
    <3> QED  BY <1>2, <1>3, <2>1, <2>2, <3>1, ChainMove
  <2>4. /\ Fits(l, Cardinality(RefHolders(worker, e)), entry[e], mutex[e], Sender(e),
                reading[e], Idle(e))
        /\ ~Owes(l, entry[e], Sender(e)) /\ Owes(g[e], entry[e], Sender(e))
        /\ entry[e].session \in Sessions
    BY <2>1, <2>3, HandleFits
  <2>5. NodeAt(Results, poll', e, l.loc, l.op)
    <3>1. g[e].loc \notin {"table", "pipe", "queue"} /\ l.loc \notin {"table", "pipe", "queue"}
      BY <2>1, <2>3
    <3> QED  BY <1>f, <2>1, <2>3, <3>1, NodeElsewhere
  <2>6. NewEnd(l, e)
    BY <1>7, <1>f, <2>1, <2>4 DEF NewEnd
  <2>7. Conn(l, e)' /\ SameAnswers
    BY <1>2, <1>3, <1>4, <1>f, <2>1, <2>3, <2>5, <2>6, EndConn
  <2>8. Others(e)
    <3>1. OnlyAbout(worker[w], e) /\ OnlyAbout(v, e)
      BY <2>3 DEF EndMove, OnlyAbout, HasEnd, About
    <3> QED  BY <1>2, <1>3, <1>4, <1>11, <1>f, <3>1, HandlerOthers
  <2>9. PICK k : NewPlace(g, k, e, l)
    BY DEF NewPlace
  <2>10. /\ k \in [Fds -> PlaceSet] /\ k[e] = l /\ \A f \in Fds : Conn(k[f], f)'
         /\ \A f \in Fds : f # e => (OwedBy(k, f)' <=> OwedBy(g, f))
    BY <2>1, <2>3, <2>7, <2>8, <2>9, ConnStep
  <2>11. ~OwedBy(k, e)' /\ OwedBy(g, e)
    BY <1>7, <1>f, <2>1, <2>4, <2>10 DEF OwedBy
  <2>12. t = entry[e].session /\ t \in Sessions
    BY <1>t, <2>1, <2>4 DEF Speaks, Speaking
  <2>13. d[t].by = "conn" /\ d[t].e = e
    BY <1>12, <2>1, <2>11, <2>12 DEF Sess
  <2>14. \A f \in Fds : /\ OwedBy(k, f)' => OwedBy(g, f) /\ entry[f].session # t
                        /\ OwedBy(g, f) /\ entry[f].session # t => OwedBy(k, f)'
    BY <1>12, <2>10, <2>11, <2>12, <2>13 DEF Sess
  <2>15. \A u \in Workers : /\ Answers(worker'[u]) => worker'[u] = worker[u] /\ (t \in Sessions => worker[u].s # t)
                            /\ Answers(worker[u]) /\ worker[u].s # t => worker'[u] = worker[u]
    <3>1. ~Answers(worker[w])
      BY <1>13 DEF Answers
    <3>2. \A u \in Workers : Answers(worker[u]) => worker[u].s # t
      BY <1>12, <2>12, <2>13 DEF Sess
    <3> QED  BY <1>8, <1>9, <3>1, <3>2
  <2> QED  BY <1>2, <1>6, <1>f, <2>10, <2>13, <2>14, <2>15, TellKeeps
<1>14. CASE worker[w].res.state = "SUCCESS"
  <2>1. /\ e \in Fds /\ g[e] \in PlaceSet /\ Conn(g[e], e) /\ HasRef(worker[w], e)
        /\ w \in RefHolders(worker, e)
        /\ ~HasEnd(worker[w], e) /\ ~HasMsg(worker[w], e) /\ OnlyAbout(worker[w], e)
        /\ NodeAt(Results, poll, e, g[e].loc, g[e].op)
        /\ Fits(g[e], Cardinality(RefHolders(worker, e)), entry[e], mutex[e], Sender(e),
                reading[e], Idle(e))
    BY <1>0, <1>1, <1>14, RefOf
  <2>2. HasRef(v, e) /\ SideMove(w, v, e)
    <3>1. v.res.fd = e /\ v.res.state = "SUCCESS"
      BY <1>3, <1>14, <2>1 DEF HasRef, About
    <3> QED  BY <1>3, <2>1, <3>1 DEF SideMove, HasRef, HasEnd, HasMsg, About, OnlyAbout
  <2>3. RefHolders(worker', e) = RefHolders(worker, e)
    <3>1. RefHolders(worker', e) = RefHolders(worker, e) \cup {w}
      BY <1>2, <1>3, <1>f, <2>1, <2>2, RefChange
    <3> QED  BY <2>1, <3>1
  <2>4. NewSide(g[e], e)
    BY <1>7, <1>f, <2>1, <2>3 DEF NewSide
  <2>6. SameTokens(g[e], g[e]) /\ NodeAt(Results, poll', e, g[e].loc, g[e].op)
    BY <1>f, <2>1 DEF SameTokens
  <2>7. Conn(g[e], e)'
    <3>1. entry'[e].session = entry[e].session
      BY <1>f
    <3> QED  BY <1>2, <1>3, <1>4, <1>f, <2>1, <2>2, <2>4, <2>6, <3>1, SideConn
  <2>8. Others(e)
    <3>1. OnlyAbout(worker[w], e) /\ OnlyAbout(v, e)
      BY <2>2 DEF SideMove
    <3> QED  BY <1>2, <1>3, <1>4, <1>11, <1>f, <3>1, HandlerOthers
  <2>9. PICK k : NewPlace(g, k, e, g[e])
    BY DEF NewPlace
  <2>10. /\ k \in [Fds -> PlaceSet] /\ k[e] = g[e] /\ \A f \in Fds : Conn(k[f], f)'
         /\ \A f \in Fds : f # e => (OwedBy(k, f)' <=> OwedBy(g, f))
    BY <2>1, <2>7, <2>8, <2>9, ConnStep
  <2>11. \A f \in Fds : OwedBy(k, f)' <=> OwedBy(g, f)
    <3>1. OwedBy(k, e)' <=> OwedBy(g, e)
      BY <1>7, <1>f, <2>1, <2>10 DEF OwedBy
    <3> QED  BY <2>10, <3>1
  <2>12. Answers(worker[w])
    BY <1>1, <1>14 DEF Answers
  <2>13. t \in Sessions => d[t].by = "worker" /\ d[t].w = w
    BY <1>12, <1>t, <2>12 DEF Sess
  <2>14. \A f \in Fds : OwedBy(g, f) => entry[f].session # t
    <3> SUFFICES ASSUME NEW f \in Fds, OwedBy(g, f), entry[f].session = t PROVE FALSE
      OBVIOUS
    <3>1. g[f].loc # "none" \/ g[f].msg # "none"
      <4>1. Fits(g[f], Cardinality(RefHolders(worker, f)), entry[f], mutex[f], Sender(f),
                 reading[f], Idle(f))
        BY InvParts DEF Conn
      <4>2. Sender(f) \in Sending => g[f].loc # "none"
        BY <4>1 DEF Fits, IdleFits, Sending
      <4> QED  BY <4>2 DEF OwedBy, Owes
    <3>2. t \in Sessions
      BY <3>1, InvParts DEF Conn, Fits, Counted
    <3> QED  BY <1>12, <2>13, <3>2 DEF Sess
  <2>15. \A f \in Fds : /\ OwedBy(k, f)' => OwedBy(g, f) /\ entry[f].session # t
                        /\ OwedBy(g, f) /\ entry[f].session # t => OwedBy(k, f)'
    BY <2>11, <2>14
  <2>16. \A u \in Workers : /\ Answers(worker'[u]) => worker'[u] = worker[u] /\ (t \in Sessions => worker[u].s # t)
                            /\ Answers(worker[u]) /\ worker[u].s # t => worker'[u] = worker[u]
    <3>1. \A u \in Workers : t \in Sessions /\ Answers(worker[u]) /\ worker[u].s = t => u = w
      BY <1>12, <2>13 DEF Sess
    <3> QED  BY <1>8, <1>9, <1>t, <3>1
  <2> QED  BY <1>2, <1>6, <1>f, <2>10, <2>13, <2>15, <2>16, TellKeeps
<1> QED  BY <1>13, <1>14

-----------------------------------------------------------------------------
(* The handler of a message.                                               *)

NoMsg(l) == [l EXCEPT !.msg = "none"]

LEMMA NoMsgFields ==
  ASSUME NEW l \in PlaceSet, NEW x, x = NoMsg(l)
  PROVE  /\ x \in PlaceSet /\ x.msg = "none" /\ x.loc = l.loc /\ x.op = l.op
         /\ x.w = l.w /\ x.mw = l.mw /\ x.t = l.t
  BY DEF PlaceSet, NoMsg

LEMMA MsgOf ==
  ASSUME NEW g, NEW d, Inv(g, d), NEW w \in Workers, worker[w].pc = "reply", NEW e, e = Fd(w)
  PROVE  /\ Rest1 /\ e \in Fds /\ worker[w] \in WorkerSet /\ HasMsg(worker[w], e)
         /\ g[e] \in PlaceSet /\ Conn(g[e], e) /\ Live(e) /\ entry[e] \in EntrySet
         /\ worker[w].res.state = "SUCCESS" /\ worker[w].res.fd = e
         /\ g[e].msg = "reply" /\ g[e].mw = w
         /\ worker[w].s = g[e].t /\ worker[w].res.msg = g[e].t
         /\ ~HasEnd(worker[w], e) /\ ~HasRef(worker[w], e)
         /\ NodeAt(Results, poll, e, g[e].loc, g[e].op)
         /\ Fits(g[e], Cardinality(RefHolders(worker, e)), entry[e], mutex[e], Sender(e),
                 reading[e], Idle(e))
<1>1. Rest1 /\ worker[w] \in WorkerSet
  BY InvParts DEF Rest1, Types
<1>2. e \in Fds /\ worker[w].res.state = "SUCCESS" /\ worker[w].res.fd = e
  BY <1>1 DEF WorkerSet, Fd
<1>3. HasMsg(worker[w], e) /\ ~HasEnd(worker[w], e) /\ ~HasRef(worker[w], e)
  BY <1>2 DEF HasMsg, HasEnd, HasRef, About
<1>4. g[e] \in PlaceSet /\ Conn(g[e], e)
  BY <1>2, InvParts
<1>5. /\ g[e].msg = "reply" /\ g[e].mw = w
      /\ worker[w].s = g[e].t /\ worker[w].res.msg = g[e].t
  BY <1>3, <1>4 DEF Conn, MsgWith
<1>6. g[e].msg # "none"
  BY <1>5
<1>7. Live(e) /\ entry[e] \in EntrySet
  BY <1>1, <1>2, <1>4, <1>6, LiveConn DEF Rest1, Types
<1> QED  BY <1>1, <1>2, <1>3, <1>4, <1>5, <1>7 DEF Conn

\* It keeps a reference, and the connection becomes idle or waits for its end.
Rests(en, x, b, idle) ==
    /\ x.ref = en.ref + 1 /\ x.session = en.session
    /\ (x.state = "IDLE" /\ b = TRUE) \/ (x.state = "CLOSING" /\ b = idle)
NowIs(e, x) == entry' = [entry EXCEPT ![e] = x]
\* What handle_reply_success leaves of e.
NowFits(g, e, x, b) ==
    \A l \in PlaceSet : l.loc = g[e].loc /\ l.op = g[e].op /\ l.msg = "none" =>
        /\ Fits(l, Cardinality(RefHolders(worker, e)) + 1, x, mutex[e], Sender(e), reading[e], b)
        /\ ~Owes(l, x, Sender(e)) /\ Owes(g[e], entry[e], Sender(e))

LEMMA SuccessFits ==
  ASSUME NEW o, NEW n, NEW k, OneMore(k, n), NEW en, NEW m, NEW u, NEW rd, NEW idle,
         Fits(o, n, en, m, u, rd, idle), o.msg # "none", en.state = "SUCCESS",
         NEW l \in PlaceSet, l.loc = o.loc, l.op = o.op, l.msg = "none",
         NEW x \in EntrySet, NEW b, Rests(en, x, b, idle)
  PROVE  /\ Fits(l, k, x, m, u, rd, b) /\ ~Owes(l, x, u) /\ Owes(o, en, u)
         /\ en.session \in Sessions /\ o.loc \notin Speaking
<1>1. /\ ~(idle = TRUE) /\ en.session = o.t /\ en.session \in Sessions
      /\ o.op = "read" /\ o.loc \in Watched /\ o.loc # "none" /\ o.loc \notin Speaking
      /\ u \notin Sending /\ rd = NONE /\ en.ref = k
  BY DEF Fits, Counted, MessageFits, IdleFits, ReadingFits, Watched, Polled, Speaking, OneMore
<1>2. Counted(l, k, x) /\ MessageFits(l, x) /\ ReadingFits(l, x, rd)
  BY <1>1 DEF Fits, Counted, MessageFits, ReadingFits, Rests, OneMore
<1>3. NodeFits(l, k, x, m, u, rd)
  BY <1>1 DEF Fits, NodeFits, Watched, Polled, Rests
<1>4. IdleFits(l, x, m, u, b)
  BY <1>1 DEF Fits, IdleFits, Sending, Rests
<1> QED  BY <1>1, <1>2, <1>3, <1>4 DEF Fits, Owes, Rests

LEMMA LateMsgFits ==
  ASSUME NEW o, NEW n, NEW k, OneMore(k, n), NEW en, NEW m, NEW u, NEW rd, NEW idle,
         Fits(o, n, en, m, u, rd, idle), o.msg # "none", en.state # "SUCCESS",
         NEW l \in PlaceSet, l.loc = o.loc, l.op = o.op, l.msg = "none"
  PROVE  /\ Fits(l, k, en, m, u, rd, idle) /\ ~Owes(l, en, u) /\ Owes(o, en, u)
         /\ en.session \in Sessions /\ o.loc \notin Speaking
<1>1. /\ en.session = o.t /\ en.session \in Sessions /\ o.loc = "none" /\ en.state = "CLOSING"
      /\ en.ref = k
  BY DEF Fits, Counted, MessageFits, OneMore
<1>2. Counted(l, k, en) /\ MessageFits(l, en) /\ ReadingFits(l, en, rd)
  BY <1>1 DEF Fits, Counted, MessageFits, ReadingFits, OneMore
<1>3. NodeFits(l, k, en, m, u, rd) /\ IdleFits(l, en, m, u, idle)
  BY <1>1 DEF Fits, NodeFits, IdleFits
<1> QED  BY <1>1, <1>2, <1>3 DEF Fits, Owes, Speaking

LEMMA SuccessStep ==
  ASSUME NEW g, NEW d, Inv(g, d), NEW w \in Workers, worker[w].pc = "reply", NEW e, e = Fd(w),
         NEW v \in WorkerSet, v.pc = "handle", v.res = worker[w].res, v.s = worker[w].s,
         HandlerFrame, WorksOn(w, v), poll' = poll, outcome' = outcome, bad' = FALSE,
         mixed' = FALSE, NEW x \in EntrySet, NowIs(e, x),
         NEW b, IdleKept(e, b),
         x.session = entry[e].session, g[e].t \in Sessions, entry[e].session = g[e].t,
         g[e].loc \notin Speaking,
         NowFits(g, e, x, b)
  PROVE  IInv'
<1>1. /\ Rest1 /\ e \in Fds /\ worker[w] \in WorkerSet /\ HasMsg(worker[w], e)
      /\ g[e] \in PlaceSet /\ Conn(g[e], e)
      /\ worker[w].res.state = "SUCCESS" /\ worker[w].res.fd = e
      /\ g[e].msg = "reply" /\ g[e].mw = w /\ worker[w].s = g[e].t
      /\ ~HasEnd(worker[w], e) /\ ~HasRef(worker[w], e)
      /\ NodeAt(Results, poll, e, g[e].loc, g[e].op)
  BY MsgOf
<1>2. PICK l : l = NoMsg(g[e])
  OBVIOUS
<1>3. /\ l \in PlaceSet /\ l.msg = "none" /\ l.loc = g[e].loc /\ l.op = g[e].op
      /\ l.w = g[e].w
  BY <1>1, <1>2, NoMsgFields
<1>4. /\ Fits(l, Cardinality(RefHolders(worker, e)) + 1, x, mutex[e], Sender(e), reading[e], b)
      /\ ~Owes(l, x, Sender(e)) /\ Owes(g[e], entry[e], Sender(e))
  BY <1>3 DEF NowFits
<1>5. /\ entry' \in [Fds -> EntrySet] /\ entry'[e] = x
      /\ \A f \in Fds : f # e => entry'[f] = entry[f]
  BY <1>1 DEF NowIs, Rest1, Types
<1>6. worker'[w] = v /\ \A u \in Workers : u # w => worker'[u] = worker[u]
  BY <1>1 DEF WorksOn, Rest1, Types
<1>7. HasRef(v, e) /\ ~HasEnd(v, e) /\ ~HasMsg(v, e) /\ OnlyAbout(worker[w], e) /\ OnlyAbout(v, e)
  BY <1>1 DEF HasRef, HasEnd, HasMsg, About, OnlyAbout
<1>8. Cardinality(RefHolders(worker', e)) = Cardinality(RefHolders(worker, e)) + 1
  <2>1. /\ IsFiniteSet(RefHolders(worker, e))
        /\ RefHolders(worker', e) = RefHolders(worker, e) \cup {w}
    BY <1>1, <1>7, RefChange
  <2>2. w \notin RefHolders(worker, e)
    BY <1>1 DEF RefHolders
  <2> QED  BY <2>1, <2>2, FS_AddElement
<1>9. /\ Steady(Results, poll, poll') /\ SameMessages(Results, poll, poll')
      /\ \A f \in Fds : Leaves(Results, poll, poll', f)
  BY <1>1, SamePoll
<1>10. HandlerTypes
  BY <1>1, <1>5, <1>9 DEF HandlerTypes, Rest1, Types, IdleKept
<1>11. Rest1'
  BY <1>1, <1>10, HandlerRest
<1>12. Untouched(e) /\ Idle(e)' = b /\ Sender(e)' = Sender(e) /\ mutex' = mutex /\ reading' = reading
  BY <1>1, <1>5, <1>9, HandlerSenders DEF Untouched, IdleKept, HandlerFrame
<1>13. Conn(l, e)'
  <2>1. Slot(poll'.queue, MsgsOf(e), MsgIs(l.t), l.msg, "queue")
    BY <1>1, <1>3 DEF Conn, Slot
  <2>2. \A u \in Workers : HasMsg(worker[u], e) => u = w
    BY <1>1 DEF Conn, MsgWith
  <2>3. MsgWith(worker', l, e)
    BY <1>3, <1>6, <1>7, <2>2 DEF MsgWith
  <2>4. EndWith(worker', l, e)
    BY <1>1, <1>3, <1>6, <1>7 DEF Conn, EndWith
  <2>5. Speaks(worker', l, entry'[e])
    BY <1>3 DEF Speaks
  <2>7. NodeAt(Results, poll', e, l.loc, l.op)
    BY <1>1, <1>3
  <2>8. Fits(l, Cardinality(RefHolders(worker', e)), entry'[e], mutex'[e], Sender(e)',
             reading'[e], Idle(e)')
    BY <1>4, <1>5, <1>8, <1>12
  <2> QED  BY <2>1, <2>3, <2>4, <2>5, <2>7, <2>8 DEF Conn
<1>14. Others(e)
  BY <1>1, <1>7, <1>9, <1>12, HandlerOthers
<1>15. PICK k : NewPlace(g, k, e, l)
  BY DEF NewPlace
<1>16. /\ k \in [Fds -> PlaceSet] /\ k[e] = l /\ \A f \in Fds : Conn(k[f], f)'
       /\ \A f \in Fds : f # e => (OwedBy(k, f)' <=> OwedBy(g, f)) /\ entry'[f] = entry[f]
  BY <1>1, <1>3, <1>13, <1>14, <1>15, ConnStep
<1>17. ~OwedBy(k, e)' /\ OwedBy(g, e)
  BY <1>4, <1>5, <1>12, <1>16 DEF OwedBy
<1>18. PICK t \in Sessions : t = g[e].t
  OBVIOUS
<1>19. Sess(g, d[t], t) /\ d[t].by = "conn" /\ d[t].e = e
  BY <1>1, <1>17, <1>18, InvParts DEF Sess
<1>20. Answers(v) /\ ~Answers(worker[w]) /\ v.s = t /\ worker[w].s = t
  BY <1>1, <1>18 DEF Answers
<1>21. ASSUME NEW s \in Sessions, s # t
       PROVE  SameFor(g, k, s)
  <2>1. \A f \in Fds : OwesTo(k, f, s)' <=> OwesTo(g, f, s)
    BY <1>16, <1>17, <1>18, <1>21 DEF OwesTo
  <2>2. \A u \in Workers : AnswersTo(u, s)' <=> AnswersTo(u, s)
    BY <1>6, <1>20, <1>21 DEF AnswersTo
  <2> QED  BY <2>1, <2>2 DEF SameFor, HandlerFrame
<1>22. PICK c : c = [by |-> "worker", e |-> NONE, w |-> w]
  OBVIOUS
<1>23. c \in DebtSet /\ c.by = "worker" /\ c.w = w
  BY <1>22 DEF DebtSet
<1>24. Sess(k, c, t)'
  <2>1. user'[t].pc \in Taken /\ outcome'[t] = <<>>
    BY <1>19 DEF Sess, HandlerFrame
  <2>2. \A f \in Fds : ~(OwedBy(k, f)' /\ entry'[f].session = t)
    BY <1>16, <1>17, <1>19 DEF Sess
  <2>3. \A u \in Workers : Answers(worker'[u]) /\ worker'[u].s = t => u = w
    BY <1>6, <1>19 DEF Sess
  <2>4. Answers(worker'[w]) /\ worker'[w].s = t
    BY <1>6, <1>20
  <2> QED  BY <1>23, <2>1, <2>2, <2>3, <2>4 DEF Sess
<1> QED  BY <1>11, <1>16, <1>21, <1>23, <1>24, StepDebt

\* The entry of a message that is handled.
Replied(en, st) == [en EXCEPT !.ref = en.ref + 1, !.state = st]

LEMMA RepliedFields ==
  ASSUME NEW en \in EntrySet, NEW st \in ConnStates, NEW x, x = Replied(en, st)
  PROVE  x \in EntrySet /\ x.state = st /\ x.ref = en.ref + 1 /\ x.session = en.session
<1>1. en.ref + 1 \in Nat /\ st \in ConnStates \cup {"NONE", "FREED"}
  BY DEF EntrySet
<1>2. PICK n \in Nat : n = en.ref + 1
  BY <1>1
<1>3. x = [en EXCEPT !.ref = n, !.state = st]
  BY <1>2 DEF Replied
<1>4. x \in EntrySet /\ x.state = st /\ x.ref = n /\ x.session = en.session
  BY ONLY en \in EntrySet, <1>1, <1>2, <1>3 DEF EntrySet
<1> QED  BY <1>2, <1>4

LEMMA SuccessKeeps ==
  ASSUME NEW g, NEW d, Inv(g, d), NEW w \in Workers, handle_reply_success(w)
  PROVE  IInv'
<1>0. PICK e : e = Fd(w)
  OBVIOUS
<1>1. worker[w].pc = "reply"
  BY DEF handle_reply_success
<1>2. /\ Rest1 /\ e \in Fds /\ worker[w] \in WorkerSet /\ g[e] \in PlaceSet /\ Live(e)
      /\ entry[e] \in EntrySet /\ worker[w].res.state = "SUCCESS" /\ g[e].msg = "reply"
      /\ worker[w].s = g[e].t /\ worker[w].res.msg = g[e].t
      /\ Fits(g[e], Cardinality(RefHolders(worker, e)), entry[e], mutex[e], Sender(e),
              reading[e], Idle(e))
  BY <1>0, <1>1, MsgOf
<1>v. PICK v : v = [worker[w] EXCEPT !.pc = "handle", !.st = "SUCCESS"]
  OBVIOUS
<1>3. v \in WorkerSet /\ v.pc = "handle" /\ v.res = worker[w].res /\ v.s = worker[w].s
  <2>1. /\ v \in [pc : {"get", "off", "reply", "added"} \cup Chain, res : Results \cup {NONE},
                  s : Sessions \cup {NONE}, st : Told]
        /\ v.pc = "handle" /\ v.res = worker[w].res /\ v.s = worker[w].s
    BY <1>2, <1>v DEF WorkerSet, Told, Chain
  <2> QED  BY <1>1, <1>2, <2>1 DEF WorkerSet
<1>f. /\ HandlerFrame /\ poll' = poll /\ outcome' = outcome /\ mixed' = FALSE /\ bad' = FALSE
      /\ WorksOn(w, v)
  <2>1. HandlerFrame /\ poll' = poll /\ outcome' = outcome
    BY DEF handle_reply_success, HandlerFrame, pollers, closing
  <2>2. mixed' = FALSE /\ bad' = FALSE
    BY <1>0, <1>2 DEF handle_reply_success, Uses, Rest1
  <2>3. WorksOn(w, v)
    BY <1>v DEF handle_reply_success, WorksOn
  <2> QED  BY <2>1, <2>2, <2>3
<1>c. PICK c : c = Cardinality(RefHolders(worker, e))
  OBVIOUS
<1>d. c \in Nat /\ Fits(g[e], c, entry[e], mutex[e], Sender(e), reading[e], Idle(e))
  BY <1>2, <1>c DEF Fits, Counted
<1>k. PICK k : k = c + 1
  OBVIOUS
<1>m. OneMore(k, c)
  BY <1>d, <1>k DEF OneMore
<1>4. CASE entry[e].state = "SUCCESS"
  <2>1. PICK st \in {"IDLE", "CLOSING"} : st = IF worker[w].s \in keep THEN "IDLE" ELSE "CLOSING"
    OBVIOUS
  <2>2. PICK x : x = Replied(entry[e], st)
    OBVIOUS
  <2>3. x \in EntrySet /\ x.state = st /\ x.ref = entry[e].ref + 1 /\ x.session = entry[e].session
    BY <1>2, <2>1, <2>2, RepliedFields DEF ConnStates
  <2>4. NowIs(e, x)
    <3>1. entry' = [entry EXCEPT ![e].ref = @ + 1, ![e].state = st]
      BY <1>0, <1>4, <2>1 DEF handle_reply_success
    <3> QED  BY <1>2, <2>2, <3>1 DEF NowIs, Replied, Rest1, Types, EntrySet
  <2>5. idle_list' = IF st = "IDLE" THEN <<e>> \o idle_list ELSE idle_list
    BY <1>0, <1>4, <2>1 DEF handle_reply_success
  <2>6. PICK b : b = IF st = "IDLE" THEN TRUE ELSE Idle(e)
    OBVIOUS
  <2>7. /\ \A l \in PlaceSet : l.loc = g[e].loc /\ l.op = g[e].op /\ l.msg = "none" =>
              /\ Fits(l, k, x, mutex[e], Sender(e), reading[e], b)
              /\ ~Owes(l, x, Sender(e)) /\ Owes(g[e], entry[e], Sender(e))
              /\ ~(Idle(e) = TRUE) /\ entry[e].session = g[e].t
              /\ entry[e].session \in Sessions /\ g[e].loc \notin Speaking
    <3>1. PICK i : i = Idle(e)
      OBVIOUS
    <3>2. Rests(entry[e], x, b, i) /\ g[e].msg # "none"
      BY <1>2, <2>1, <2>3, <2>6, <3>1 DEF Rests
    <3>3. Fits(g[e], c, entry[e], mutex[e], Sender(e), reading[e], i)
      BY <1>d, <3>1
    <3>4. ASSUME NEW l \in PlaceSet, l.loc = g[e].loc, l.op = g[e].op, l.msg = "none"
          PROVE  /\ Fits(l, k, x, mutex[e], Sender(e), reading[e], b)
                 /\ ~Owes(l, x, Sender(e)) /\ Owes(g[e], entry[e], Sender(e))
                 /\ ~(i = TRUE) /\ entry[e].session = g[e].t
                 /\ entry[e].session \in Sessions /\ g[e].loc \notin Speaking
      <4>1. /\ OneMore(k, c) /\ x \in EntrySet /\ Rests(entry[e], x, b, i)
            /\ g[e].msg # "none" /\ entry[e].state = "SUCCESS"
        BY <1>m, <1>4, <2>3, <3>2
      <4>2. /\ Fits(l, k, x, mutex[e], Sender(e), reading[e], b)
            /\ ~Owes(l, x, Sender(e)) /\ Owes(g[e], entry[e], Sender(e))
            /\ entry[e].session \in Sessions /\ g[e].loc \notin Speaking
        BY ONLY <3>3, <3>4, <4>1, SuccessFits
      <4>3. ~(i = TRUE) /\ entry[e].session = g[e].t
        BY <3>3, <4>1 DEF Fits, IdleFits, MessageFits
      <4> QED  BY <4>2, <4>3
    <3> QED  BY <3>1, <3>4
  <2>8. /\ ~(Idle(e) = TRUE) /\ entry[e].session = g[e].t
        /\ entry[e].session \in Sessions /\ g[e].loc \notin Speaking
    <3>1. PICK l : l = NoMsg(g[e])
      OBVIOUS
    <3> QED  BY <1>2, <2>7, <3>1, NoMsgFields
  <2>9. IdleKept(e, b)
    <3>1. idle_list \in Seq(Fds) /\ Distinct(idle_list) /\ e \notin ToSet(idle_list)
      BY <1>2, <2>8 DEF Rest1, Types, Idle
    <3>2. CASE st = "IDLE"
      <4>1. /\ idle_list' \in Seq(Fds) /\ Distinct(idle_list')
            /\ \A f : f \in ToSet(idle_list') <=> f \in ToSet(idle_list) \/ f = e
        BY <1>2, <2>5, <3>1, <3>2, IdlePush
      <4>2. Idle(e)' = TRUE
        BY <4>1 DEF Idle
      <4>3. \A f \in Fds : f # e => (Idle(f)' <=> Idle(f))
        BY <4>1 DEF Idle
      <4> QED  BY <2>6, <3>2, <4>1, <4>2, <4>3 DEF IdleKept
    <3>3. CASE st # "IDLE"
      BY <1>2, <2>5, <2>6, <3>3, SameIdle
    <3> QED  BY <3>2, <3>3
  <2>10. NowFits(g, e, x, b)
    BY <1>c, <1>k, <2>7 DEF NowFits
  <2>11. g[e].t \in Sessions
    BY <2>8
  <2> QED  BY <1>0, <1>1, <1>3, <1>f, <2>3, <2>4, <2>8, <2>9, <2>10, <2>11, SuccessStep
<1>5. CASE entry[e].state # "SUCCESS"
  <2>1. NowIs(e, entry[e]) /\ idle_list' = idle_list
    BY <1>0, <1>2, <1>5 DEF NowIs, handle_reply_success, Rest1, Types
  <2>2. \A l \in PlaceSet : l.loc = g[e].loc /\ l.op = g[e].op /\ l.msg = "none" =>
            /\ Fits(l, k, entry[e], mutex[e], Sender(e), reading[e], Idle(e))
            /\ ~Owes(l, entry[e], Sender(e)) /\ Owes(g[e], entry[e], Sender(e))
            /\ entry[e].session = g[e].t
            /\ entry[e].session \in Sessions /\ g[e].loc \notin Speaking
    <3>1. PICK i : i = Idle(e)
      OBVIOUS
    <3>2. /\ Fits(g[e], c, entry[e], mutex[e], Sender(e), reading[e], i)
          /\ g[e].msg # "none" /\ OneMore(k, c)
      BY <1>2, <1>d, <1>m, <3>1
    <3>3. ASSUME NEW l \in PlaceSet, l.loc = g[e].loc, l.op = g[e].op, l.msg = "none"
          PROVE  /\ Fits(l, k, entry[e], mutex[e], Sender(e), reading[e], i)
                 /\ ~Owes(l, entry[e], Sender(e)) /\ Owes(g[e], entry[e], Sender(e))
                 /\ entry[e].session \in Sessions /\ g[e].loc \notin Speaking
      BY ONLY <1>5, <3>2, <3>3, LateMsgFits
    <3>4. entry[e].session = g[e].t
      BY <3>2 DEF Fits, MessageFits
    <3> QED  BY <3>1, <3>3, <3>4
  <2>3. entry[e].session = g[e].t /\ entry[e].session \in Sessions /\ g[e].loc \notin Speaking
    <3>1. PICK l : l = NoMsg(g[e])
      OBVIOUS
    <3> QED  BY <1>2, <2>2, <3>1, NoMsgFields
  <2>4. IdleKept(e, Idle(e))
    BY <1>2, <2>1, SameIdle
  <2>5. NowFits(g, e, entry[e], Idle(e))
    BY <1>c, <1>k, <2>2 DEF NowFits
  <2>6. g[e].t \in Sessions
    BY <2>3
  <2> QED  BY <1>0, <1>1, <1>2, <1>3, <1>f, <2>1, <2>3, <2>4, <2>5, <2>6, SuccessStep
<1> QED  BY <1>4, <1>5

-----------------------------------------------------------------------------
(* The handler that has registered a node.                                 *)

LEMMA AddedKeeps ==
  ASSUME NEW g, NEW d, Inv(g, d), NEW w \in Workers, handle_added(w)
  PROVE  IInv'
<1>0. PICK e : e = Fd(w)
  OBVIOUS
<1>1. Rest1 /\ worker[w] \in WorkerSet /\ worker[w].pc = "added"
  BY InvParts DEF Rest1, Types, handle_added
<1>2. e \in Fds /\ worker[w].res.fd = e /\ g[e] \in PlaceSet /\ Conn(g[e], e)
  <2>1. e \in Fds /\ worker[w].res.fd = e
    BY <1>0, <1>1 DEF WorkerSet, Fd
  <2> QED  BY <2>1, InvParts
<1>f. /\ HandlerFrame /\ idle_list' = idle_list /\ entry' = entry /\ UNCHANGED <<outcome, mixed, bad>>
      /\ WorksOn(w, Getting) /\ poll' = IF stop_flag THEN mpoller_del(poll, e) ELSE poll
  BY <1>0 DEF handle_added, HandlerFrame, pollers, closing, history, WorksOn
<1>3. SideMove(w, Getting, e) /\ ~HasRef(worker[w], e) /\ ~HasRef(Getting, e)
  BY <1>1, <1>2, GettingIs DEF SideMove, OnlyAbout, HasEnd, HasMsg, HasRef, About, Chain
<1>4. RefHolders(worker', e) = RefHolders(worker, e)
  <2>1. RefHolders(worker', e) = RefHolders(worker, e) \ {w}
    BY <1>1, <1>2, <1>3, <1>f, GettingIs, RefChange
  <2>2. w \notin RefHolders(worker, e)
    BY <1>3 DEF RefHolders
  <2> QED  BY <2>1, <2>2
<1>5. \A f \in Fds : Idle(f)' = Idle(f)
  BY <1>f DEF Idle
<1>6. ~Answers(worker[w]) /\ ~Answers(Getting)
  BY <1>1, GettingIs DEF Answers
<1>7. ASSUME NEW l \in PlaceSet, l.op = g[e].op, SameTokens(g[e], l),
             l.loc = g[e].loc \/ (l.loc \in Polled /\ g[e].loc \in Polled),
             Steady(Results, poll, poll'), SameMessages(Results, poll, poll'),
             \A f \in Fds : f # e => Leaves(Results, poll, poll', f),
             NodeAt(Results, poll', e, l.loc, l.op)
      PROVE  IInv'
  <2>1. Fits(g[e], Cardinality(RefHolders(worker, e)), entry[e], mutex[e], Sender(e),
             reading[e], Idle(e))
    BY <1>2 DEF Conn
  <2>2. /\ Fits(l, Cardinality(RefHolders(worker, e)), entry[e], mutex[e], Sender(e),
                reading[e], Idle(e))
        /\ Owes(l, entry[e], Sender(e)) <=> Owes(g[e], entry[e], Sender(e))
    BY <1>7, <2>1, FitsMoves DEF SameTokens
  <2>3. NewSide(l, e)
    BY <1>2, <1>4, <1>5, <1>f, <2>2 DEF NewSide
  <2>4. HandlerTypes
    BY <1>1, <1>7, <1>f DEF HandlerTypes, Rest1, Types
  <2>5. Untouched(e)
    BY <1>5, <1>7, <1>f DEF Untouched
  <2>7. /\ entry'[e].session = entry[e].session
        /\ Owes(l, entry'[e], Sender(e)) <=> Owes(g[e], entry[e], Sender(e))
    BY <1>f, <2>2
  <2> QED  BY <1>1, <1>2, <1>3, <1>6, <1>7, <1>f, <2>3, <2>4, <2>5, <2>7, GettingIs, SideKeeps
<1>8. CASE ~stop_flag \/ g[e].loc # "table"
  <2>1. NodeAt(Results, poll, e, g[e].loc, g[e].op)
    BY <1>2 DEF Conn
  <2>2. poll' = poll
    <3>1. g[e].loc # "table" => ~Registered(poll, e)
      BY <2>1 DEF NodeAt, Registered
    <3> QED  BY <1>8, <1>f, <3>1 DEF mpoller_del
  <2>3. /\ Steady(Results, poll, poll') /\ SameMessages(Results, poll, poll')
        /\ \A f \in Fds : Leaves(Results, poll, poll', f)
    BY <1>1, <2>2, SamePoll
  <2>4. SameTokens(g[e], g[e])
    BY DEF SameTokens
  <2> QED  BY <1>2, <1>7, <2>1, <2>2, <2>3, <2>4
<1>9. CASE stop_flag /\ g[e].loc = "table"
  <2>1. /\ NodeAt(Results, poll, e, g[e].loc, g[e].op) /\ g[e].op \in {"connect", "write", "read"}
        /\ poll \in Group(Results)
    BY <1>1, <1>2, <1>9 DEF Conn, Fits, NodeFits, Rest1, Types
  <2>2. PICK l : l = Deleted(g[e])
    OBVIOUS
  <2>3. poll' = mpoller_del(poll, e)
    BY <1>9, <1>f
  <2>4. /\ Steady(Results, poll, poll') /\ SameMessages(Results, poll, poll')
        /\ \A f \in Fds : f # e => Leaves(Results, poll, poll', f)
        /\ NodeAt(Results, poll', e, l.loc, l.op)
        /\ l \in PlaceSet /\ l.op = g[e].op
        /\ l.w = g[e].w /\ l.msg = g[e].msg /\ l.mw = g[e].mw /\ l.t = g[e].t
        /\ l.loc = "pipe"
    BY <1>2, <1>9, <2>1, <2>2, <2>3, DeletedNode
  <2>5. SameTokens(g[e], l) /\ l.loc \in Polled /\ g[e].loc \in Polled
    BY <1>9, <2>4 DEF SameTokens, Polled, Chain
  <2> QED  BY <1>7, <2>4, <2>5
<1> QED  BY <1>8, <1>9

-----------------------------------------------------------------------------
(* A handler thread takes a result.                                        *)

\* What it does next with result r, and what it has at hand then.
NextPc(r) ==
    CASE r.op = "exit" -> "off"
      [] r.op = "read" /\ r.state = "MODIFIED" -> "get"
      [] r.op = "read" /\ r.state = "SUCCESS" -> "reply"
      [] r.op = "read" /\ r.state \notin {"SUCCESS", "MODIFIED"} -> "ended"
      [] r.op = "write" /\ r.state = "FINISHED" -> "written"
      [] r.op = "connect" /\ r.state = "FINISHED" -> "connected"
      [] OTHER -> "handle"
NextWork(p, r) ==
    CASE p = "off" -> Off
      [] p = "get" -> Getting
      [] p = "ended" -> [pc |-> p, res |-> r, s |-> NONE, st |-> StateOf(r.state)]
      [] OTHER -> [pc |-> p, res |-> r, s |-> entry[r.fd].session, st |-> StateOf(r.state)]

\* Thread w takes r, and goes on with v.
Takes(w, r, v) ==
    /\ worker[w].pc = "get" /\ poll.queue # <<>> /\ r = Head(poll.queue) /\ poll' = Rest(poll)
    /\ WorksOn(w, v) /\ HandlerFrame
    /\ UNCHANGED <<entry, idle_list, outcome, mixed>> /\ bad' = FALSE

LEMMA TakeOthers ==
  ASSUME Rest1, NEW w \in Workers, NEW r, NEW v \in WorkerSet, Takes(w, r, v), NEW e,
         OnlyAbout(v, e),
         \A f \in Fds : f # e => r \notin EndsOf(Results, f) /\ r \notin MsgsOf(f)
  PROVE  Others(e) /\ HandlerTypes /\ SameTaken /\ Rest1'
<1>1. poll \in Group(Results) /\ worker \in [Workers -> WorkerSet]
  BY DEF Rest1, Types
<1>2. /\ Steady(Results, poll, poll')
      /\ \A f \in Fds : r \notin EndsOf(Results, f) => Leaves(Results, poll, poll', f)
      /\ \A S, T, place : Slot(poll.queue, S, T, place, "queue") /\ r \notin S
               => Slot(poll'.queue, S, T, place, "queue")
  BY <1>1, TakeNode DEF Takes
<1>3. HandlerTypes /\ HandlerFrame /\ SameTaken /\ WorksOn(w, v)
  BY <1>2 DEF HandlerTypes, Takes, Rest1, Types, SameTaken, HandlerFrame
<1>4. Rest1'
  BY <1>3, HandlerRest
<1>5. ASSUME NEW f \in Fds, f # e PROVE Apart(f)
  <2>1. SameWork(worker, worker', f)
    <3>1. worker'[w] = v /\ \A u \in Workers : u # w => worker'[u] = worker[u]
      BY <1>1, <1>3 DEF WorksOn
    <3>2. ~About(worker[w], f) /\ ~About(v, f)
      BY <1>5 DEF OnlyAbout, About, Takes
    <3> QED  BY <3>1, <3>2 DEF SameWork
  <2>2. Sender(f)' = Sender(f) /\ (Idle(f)' <=> Idle(f))
    BY <1>3, HandlerSenders DEF Idle, Takes
  <2>3. r \notin EndsOf(Results, f) /\ r \notin MsgsOf(f)
    BY <1>5
  <2>4. Leaves(Results, poll, poll', f)
    BY <1>2, <2>3
  <2>5. \A t, msg : Slot(poll.queue, MsgsOf(f), MsgIs(t), msg, "queue")
                      => Slot(poll'.queue, MsgsOf(f), MsgIs(t), msg, "queue")
    BY <1>2, <2>3
  <2> QED  BY <1>2, <2>1, <2>2, <2>4, <2>5 DEF Apart, Takes, HandlerFrame, Steady
<1> QED  BY <1>3, <1>4, <1>5 DEF Others

\* A result of no connection, or one that only says that the timeout was set.
LEMMA TakeNothing ==
  ASSUME NEW g, NEW d, Inv(g, d), NEW w \in Workers, NEW r, NEW v \in {Getting, Off},
         Takes(w, r, v), \A f \in Fds : r \notin EndsOf(Results, f) /\ r \notin MsgsOf(f)
  PROVE  IInv'
<1>1. Rest1 /\ v \in WorkerSet /\ v.pc \in {"get", "off"} /\ OnlyAbout(v, NONE)
  BY InvParts, GettingIs DEF OnlyAbout
<1>2. Others(NONE) /\ SameTaken /\ Rest1'
  BY <1>1, TakeOthers
<1>3. \A f \in Fds : Apart(f)
  BY <1>2, Constants DEF Others
<1>4. SameAnswers
  <2>1. worker'[w] = v /\ \A u \in Workers : u # w => worker'[u] = worker[u]
    BY <1>1 DEF Takes, WorksOn, Rest1, Types
  <2>2. ~Answers(v) /\ ~Answers(worker[w])
    BY <1>1 DEF Answers, Takes
  <2> QED  BY <2>1, <2>2 DEF SameAnswers
<1> QED  BY <1>2, <1>3, <1>4, StepApart

\* A message.
MsgTo(l, w) == [l EXCEPT !.msg = "reply", !.mw = w]

LEMMA MsgToFields ==
  ASSUME NEW l \in PlaceSet, NEW w \in Workers, NEW x, x = MsgTo(l, w)
  PROVE  /\ x \in PlaceSet /\ x.msg = "reply" /\ x.mw = w /\ x.loc = l.loc /\ x.op = l.op
         /\ x.w = l.w /\ x.t = l.t
  BY DEF PlaceSet, MsgTo

LEMMA MsgTakenFits ==
  ASSUME NEW o, NEW n, NEW en, NEW m, NEW u, NEW rd, NEW idle, Fits(o, n, en, m, u, rd, idle),
         o.msg = "queue", NEW l, l.loc = o.loc, l.op = o.op, l.msg = "reply", l.t = o.t
  PROVE  Fits(l, n, en, m, u, rd, idle) /\ (Owes(l, en, u) <=> Owes(o, en, u))
  BY DEF Fits, Counted, MessageFits, NodeFits, IdleFits, ReadingFits, Owes

LEMMA TakeMessage ==
  ASSUME NEW g, NEW d, Inv(g, d), NEW w \in Workers, NEW r, NEW e \in Fds, r \in MsgsOf(e),
         NEW v \in WorkerSet, v.pc = "reply", v.res = r, v.s = entry[e].session, Takes(w, r, v)
  PROVE  IInv'
<1>1. Rest1 /\ g[e] \in PlaceSet /\ Conn(g[e], e) /\ poll \in Group(Results)
  BY InvParts DEF Rest1, Types
<1>2. r \in Results /\ r.fd = e /\ r.state = "SUCCESS" /\ OnlyAbout(v, e)
  BY DEF MsgsOf, OnlyAbout
<1>3. \A f \in Fds : r \notin EndsOf(Results, f) /\ (f # e => r \notin MsgsOf(f))
  BY <1>2 DEF EndsOf, Ends, MsgsOf
<1>4. Others(e) /\ HandlerTypes /\ SameTaken /\ Rest1'
  BY <1>1, <1>2, <1>3, TakeOthers
<1>5. /\ Steady(Results, poll, poll') /\ Leaves(Results, poll, poll', e)
      /\ g[e].msg = "queue" /\ r \in MsgIs(g[e].t) /\ None(poll'.queue, MsgsOf(e))
  <2>0. poll.queue # <<>> /\ r = Head(poll.queue) /\ poll' = Rest(poll)
    BY DEF Takes
  <2>1. /\ Steady(Results, poll, poll')
        /\ \A f \in Fds : r \notin EndsOf(Results, f) => Leaves(Results, poll, poll', f)
    BY <1>1, <2>0, TakeNode
  <2>2. Slot(poll.queue, MsgsOf(e), MsgIs(g[e].t), g[e].msg, "queue")
    BY <1>1 DEF Conn
  <2>3. FirstTaken(poll, r, poll')
    BY <2>0 DEF FirstTaken
  <2>4. WasMessage(g[e].msg, MsgIs(g[e].t), r) /\ None(poll'.queue, MsgsOf(e))
    BY <1>1, <2>2, <2>3, TakenSlot
  <2> QED  BY <1>3, <2>1, <2>2, <2>4 DEF WasMessage
<1>6. PICK l : l = MsgTo(g[e], w)
  OBVIOUS
<1>7. /\ l \in PlaceSet /\ l.msg = "reply" /\ l.mw = w /\ l.loc = g[e].loc /\ l.op = g[e].op
      /\ l.w = g[e].w /\ l.t = g[e].t
  BY <1>1, <1>6, MsgToFields
<1>8. /\ Fits(g[e], Cardinality(RefHolders(worker, e)), entry[e], mutex[e], Sender(e),
              reading[e], Idle(e))
      /\ entry[e].session = g[e].t
  BY <1>1, <1>5 DEF Conn, Fits, MessageFits
<1>9. /\ Fits(l, Cardinality(RefHolders(worker, e)), entry[e], mutex[e], Sender(e),
              reading[e], Idle(e))
      /\ Owes(l, entry[e], Sender(e)) <=> Owes(g[e], entry[e], Sender(e))
  BY <1>5, <1>7, <1>8, MsgTakenFits
<1>10. worker'[w] = v /\ \A u \in Workers : u # w => worker'[u] = worker[u]
  BY <1>1 DEF Takes, WorksOn, Rest1, Types
<1>11. /\ HasMsg(v, e) /\ ~HasEnd(v, e) /\ ~HasRef(v, e) /\ ~Answers(v)
       /\ ~HasMsg(worker[w], e) /\ ~HasEnd(worker[w], e) /\ ~HasRef(worker[w], e)
       /\ ~Answers(worker[w])
  BY <1>2 DEF HasMsg, HasEnd, HasRef, About, Answers, Takes, Chain
<1>12. Conn(l, e)'
  <2>1. Slot(poll'.queue, MsgsOf(e), MsgIs(l.t), l.msg, "queue")
    BY <1>5, <1>7 DEF Slot
  <2>2. \A u \in Workers : ~HasMsg(worker[u], e)
    BY <1>1, <1>5 DEF Conn, MsgWith
  <2>3. MsgWith(worker', l, e)
    <3>1. r.msg = g[e].t
      BY <1>5 DEF MsgIs
    <3> QED  BY <1>7, <1>8, <1>10, <1>11, <2>2, <3>1 DEF MsgWith
  <2>4. EndWith(worker', l, e)
    BY <1>1, <1>7, <1>10, <1>11 DEF Conn, EndWith
  <2>5. Speaks(worker', l, entry'[e])
    <3> SUFFICES ASSUME l.loc \in Speaking PROVE worker'[l.w].s = entry'[e].session
      BY DEF Speaks
    <3>1. l.loc \in Chain
      BY DEF Speaking, Chain
    <3>2. g[e].w \in Workers /\ HasEnd(worker[g[e].w], e) /\ worker[g[e].w].s = entry[e].session
      BY <1>1, <1>7, <3>1 DEF Conn, EndWith, Speaks
    <3> QED  BY <1>7, <1>10, <1>11, <3>2 DEF Takes
  <2>7. NodeAt(Results, poll', e, l.loc, l.op)
    BY <1>1, <1>5, <1>7 DEF Conn, Leaves
  <2>8. RefHolders(worker', e) = RefHolders(worker, e)
    BY <1>10, <1>11 DEF RefHolders
  <2>9. /\ Sender(e)' = Sender(e) /\ Idle(e)' = Idle(e) /\ mutex' = mutex /\ reading' = reading
        /\ entry' = entry
    BY HandlerSenders DEF Takes, Idle, HandlerFrame
  <2> QED  BY <1>9, <2>1, <2>3, <2>4, <2>5, <2>7, <2>8, <2>9 DEF Conn
<1>13. SameAnswers
  BY <1>10, <1>11 DEF SameAnswers
<1>14. /\ Owes(l, entry'[e], Sender(e)') <=> OwedBy(g, e)
       /\ OwedBy(g, e) => entry'[e].session = entry[e].session
  <2>1. Sender(e)' = Sender(e) /\ entry' = entry
    BY HandlerSenders DEF Takes
  <2> QED  BY <1>9, <2>1 DEF OwedBy
<1> QED  BY <1>4, <1>7, <1>12, <1>13, <1>14, StepAt

\* The end of a node.
LEMMA EndTakenFits ==
  ASSUME NEW o, NEW n, NEW en, NEW m, NEW u, NEW rd, NEW idle, Fits(o, n, en, m, u, rd, idle),
         o.loc = "queue", NEW l, l.op = o.op, l.msg = o.msg, l.t = o.t,
         l.loc \in {"connected", "written", "ended", "handle"},
         l.loc = "connected" => o.op = "connect", l.loc = "written" => o.op = "write",
         l.loc = "ended" <=> o.op = "read"
  PROVE  Fits(l, n, en, m, u, rd, idle) /\ (Owes(l, en, u) <=> Owes(o, en, u))
<1>1. o.op \in {"connect", "write", "read"}
  BY DEF Fits, NodeFits
<1>2. Counted(l, n, en) /\ ReadingFits(l, en, rd) /\ MessageFits(l, en)
  BY <1>1 DEF Fits, Counted, ReadingFits, MessageFits, Watched, Polled
<1>3. NodeFits(l, n, en, m, u, rd)
  BY <1>1 DEF Fits, NodeFits, Watched, Polled
<1>4. IdleFits(l, en, m, u, idle)
  BY <1>1 DEF Fits, IdleFits, Watched, Polled
<1> QED  BY <1>1, <1>2, <1>3, <1>4 DEF Fits, Owes

LEMMA TakeEnd ==
  ASSUME NEW g, NEW d, Inv(g, d), NEW w \in Workers, NEW r, NEW e \in Fds,
         r \in EndsOf(Results, e), NEW p \in {"connected", "written", "ended", "handle"},
         p = "connected" => r.op = "connect", p = "written" => r.op = "write",
         p = "ended" <=> r.op = "read",
         NEW v \in WorkerSet, v.pc = p, v.res = r, p # "ended" => v.s = entry[e].session,
         Takes(w, r, v)
  PROVE  IInv'
<1>1. Rest1 /\ g[e] \in PlaceSet /\ Conn(g[e], e) /\ poll \in Group(Results)
  BY InvParts DEF Rest1, Types
<1>2. r \in Results /\ r.fd = e /\ r.state # "SUCCESS" /\ OnlyAbout(v, e)
  BY DEF EndsOf, Ends, OnlyAbout
<1>3. \A f \in Fds : r \notin MsgsOf(f) /\ (f # e => r \notin EndsOf(Results, f))
  BY <1>2 DEF EndsOf, MsgsOf
<1>4. Others(e) /\ HandlerTypes /\ SameTaken /\ Rest1'
  BY <1>1, <1>2, <1>3, TakeOthers
<1>5. p \in Chain /\ p \notin {"table", "pipe", "queue"} /\ p \in Places
  BY DEF Chain, Places
<1>6. /\ Steady(Results, poll, poll') /\ g[e].loc = "queue" /\ g[e].op = r.op
      /\ NodeAt(Results, poll', e, p, g[e].op)
  <2>0. poll.queue # <<>> /\ r = Head(poll.queue) /\ poll' = Rest(poll)
    BY DEF Takes
  <2>1. Steady(Results, poll, poll')
    BY <1>1, <2>0, TakeNode
  <2>2. NodeAt(Results, poll, e, g[e].loc, g[e].op)
    BY <1>1 DEF Conn
  <2>3. FirstTaken(poll, r, poll') /\ Away(p)
    BY <1>5, <2>0 DEF FirstTaken, Away
  <2>4. WasQueued(g[e].loc, g[e].op, r) /\ NodeAt(Results, poll', e, p, g[e].op)
    BY <1>1, <2>2, <2>3, TakenNode
  <2> QED  BY <2>1, <2>4 DEF WasQueued
<1>7. PICK l : l = AtHandler(g[e], p, w)
  OBVIOUS
<1>8. /\ l \in PlaceSet /\ l.loc = p /\ l.op = g[e].op /\ l.w = w
      /\ l.msg = g[e].msg /\ l.mw = g[e].mw /\ l.t = g[e].t
  <2>1. PICK x : x = At(g[e], p, g[e].op)
    OBVIOUS
  <2>2. /\ x \in PlaceSet /\ x.loc = p /\ x.op = g[e].op
        /\ x.msg = g[e].msg /\ x.mw = g[e].mw /\ x.t = g[e].t
    <3>1. g[e].op \in Ops
      BY <1>1 DEF PlaceSet
    <3> QED  BY <1>1, <1>5, <2>1, <3>1, AtFields
  <2>3. l = [x EXCEPT !.w = w]
    BY <1>7, <2>1 DEF AtHandler
  <2> QED  BY <2>2, <2>3 DEF PlaceSet
<1>9. /\ Fits(l, Cardinality(RefHolders(worker, e)), entry[e], mutex[e], Sender(e),
              reading[e], Idle(e))
      /\ Owes(l, entry[e], Sender(e)) <=> Owes(g[e], entry[e], Sender(e))
  <2>1. Fits(g[e], Cardinality(RefHolders(worker, e)), entry[e], mutex[e], Sender(e),
             reading[e], Idle(e))
    BY <1>1 DEF Conn
  <2> QED  BY <1>6, <1>8, <2>1, EndTakenFits
<1>10. worker'[w] = v /\ \A u \in Workers : u # w => worker'[u] = worker[u]
  BY <1>1 DEF Takes, WorksOn, Rest1, Types
<1>11. /\ HasEnd(v, e) /\ ~HasMsg(v, e) /\ ~HasRef(v, e) /\ ~Answers(v)
       /\ ~HasMsg(worker[w], e) /\ ~HasEnd(worker[w], e) /\ ~HasRef(worker[w], e)
       /\ ~Answers(worker[w])
  BY <1>2, <1>5 DEF HasMsg, HasEnd, HasRef, About, Answers, Takes, Chain
<1>12. Conn(l, e)'
  <2>1. Slot(poll'.queue, MsgsOf(e), MsgIs(l.t), l.msg, "queue")
    <3>1. Slot(poll.queue, MsgsOf(e), MsgIs(l.t), l.msg, "queue") /\ r \notin MsgsOf(e)
      BY <1>1, <1>3, <1>8 DEF Conn
    <3>2. poll.queue # <<>> /\ r = Head(poll.queue) /\ poll' = Rest(poll)
      BY DEF Takes
    <3> QED  BY <1>1, <3>1, <3>2, TakeNode
  <2>2. \A u \in Workers : ~HasEnd(worker[u], e)
    <3>1. g[e].loc \notin Chain
      BY <1>6 DEF Chain
    <3> QED  BY <1>1, <3>1 DEF Conn, EndWith
  <2>3. EndWith(worker', l, e)
    BY <1>5, <1>6, <1>8, <1>10, <1>11, <2>2 DEF EndWith
  <2>4. MsgWith(worker', l, e)
    <3>1. \A u \in Workers : /\ HasMsg(worker'[u], e) <=> HasMsg(worker[u], e)
                             /\ HasMsg(worker[u], e) => worker'[u] = worker[u]
      BY <1>10, <1>11
    <3> QED  BY <1>1, <1>8, <3>1 DEF Conn, MsgWith
  <2>5. Speaks(worker', l, entry'[e])
    <3>1. p \in Speaking => p # "ended"
      BY DEF Speaking
    <3> QED  BY <1>8, <1>10, <3>1 DEF Speaks, Takes
  <2>7. NodeAt(Results, poll', e, l.loc, l.op)
    BY <1>6, <1>8
  <2>8. RefHolders(worker', e) = RefHolders(worker, e)
    BY <1>10, <1>11 DEF RefHolders
  <2>9. /\ Sender(e)' = Sender(e) /\ Idle(e)' = Idle(e) /\ mutex' = mutex /\ reading' = reading
        /\ entry' = entry
    BY HandlerSenders DEF Takes, Idle, HandlerFrame
  <2> QED  BY <1>9, <2>1, <2>3, <2>4, <2>5, <2>7, <2>8, <2>9 DEF Conn
<1>13. SameAnswers
  BY <1>10, <1>11 DEF SameAnswers
<1>14. /\ Owes(l, entry'[e], Sender(e)') <=> OwedBy(g, e)
       /\ OwedBy(g, e) => entry'[e].session = entry[e].session
  <2>1. Sender(e)' = Sender(e) /\ entry' = entry
    BY HandlerSenders DEF Takes
  <2> QED  BY <1>9, <2>1 DEF OwedBy
<1> QED  BY <1>4, <1>8, <1>12, <1>13, <1>14, StepAt

\* The entry of a result that was taken is live.
LEMMA TakenLive ==
  ASSUME NEW g, NEW d, Inv(g, d), poll.queue # <<>>, NEW r, r = Head(poll.queue), NEW e \in Fds,
         r \in EndsOf(Results, e) \/ r \in MsgsOf(e)
  PROVE  Live(e) /\ entry[e].session \in Sessions
<1>1. Rest1 /\ g[e] \in PlaceSet /\ Conn(g[e], e) /\ poll \in Group(Results)
  BY InvParts DEF Rest1, Types
<1>2. PICK y : y = Rest(poll)
  OBVIOUS
<1>3. g[e].loc # "none" \/ g[e].msg # "none"
  <2>1. CASE r \in EndsOf(Results, e)
    <3>1. NodeAt(Results, poll, e, g[e].loc, g[e].op)
      BY <1>1 DEF Conn
    <3>2. PICK to : to = "none"
      OBVIOUS
    <3>3. FirstTaken(poll, r, y) /\ Away(to)
      BY <1>2, <3>2 DEF FirstTaken, Away
    <3>4. WasQueued(g[e].loc, g[e].op, r) /\ NodeAt(Results, y, e, to, g[e].op)
      BY <1>1, <2>1, <3>1, <3>3, TakenNode
    <3> QED  BY <3>4 DEF WasQueued
  <2>2. CASE r \in MsgsOf(e)
    <3>1. Slot(poll.queue, MsgsOf(e), MsgIs(g[e].t), g[e].msg, "queue")
      BY <1>1 DEF Conn
    <3>2. FirstTaken(poll, r, y)
      BY <1>2 DEF FirstTaken
    <3>3. WasMessage(g[e].msg, MsgIs(g[e].t), r) /\ None(y.queue, MsgsOf(e))
      BY <1>1, <2>2, <3>1, <3>2, TakenSlot
    <3> QED  BY <3>3 DEF WasMessage
  <2> QED  BY <2>1, <2>2
<1>4. entry[e].session \in Sessions
  BY <1>1, <1>3 DEF Conn, Fits, Counted
<1> QED  BY <1>1, <1>3, <1>4, LiveConn

\* What the thread goes on with, by the kind of result.
LEMMA NextStep ==
  ASSUME NEW r \in Results, NEW p, p = NextPc(r)
  PROVE  \/ /\ p \in {"get", "off"}
            /\ \A f \in Fds : r \notin EndsOf(Results, f) /\ r \notin MsgsOf(f)
         \/ p = "reply" /\ r.fd \in Fds /\ r \in MsgsOf(r.fd)
         \/ /\ p \in {"connected", "written", "ended", "handle"}
            /\ r.fd \in Fds /\ r \in EndsOf(Results, r.fd)
            /\ p = "connected" => r.op = "connect"
            /\ p = "written" => r.op = "write"
            /\ p = "ended" <=> r.op = "read"
<1>1. CASE r = EXIT
  <2>1. r.op = "exit" /\ r.state = "none"
    BY <1>1 DEF EXIT, Result
  <2>2. p \in {"get", "off"}
    BY <2>1 DEF NextPc
  <2> QED  BY <2>1, <2>2 DEF EndsOf, Ends, MsgsOf
<1>2. CASE r.fd \in Fds /\ r.op \in {"connect", "write", "read"} /\ r.state \in Ends
  <2>1. r \in EndsOf(Results, r.fd) /\ r.state \notin {"SUCCESS", "MODIFIED"}
    BY <1>2 DEF EndsOf, Ends
  <2> QED  BY <1>2, <2>1 DEF NextPc
<1>3. CASE r.fd \in Fds /\ r.op = "read" /\ r.state = "MODIFIED"
  <2>1. p = "get"
    BY <1>3 DEF NextPc
  <2> QED  BY <1>3, <2>1 DEF EndsOf, Ends, MsgsOf
<1>4. CASE r.fd \in Fds /\ r.op = "read" /\ r.state = "SUCCESS" /\ r.msg \in Sessions
  <2>1. p = "reply"
    BY <1>4 DEF NextPc
  <2> QED  BY <1>4, <2>1 DEF MsgsOf
<1> QED  BY <1>1, <1>2, <1>3, <1>4 DEF Results

LEMMA NextWorkFields ==
  ASSUME NEW r \in Results, r.fd \in Fds, r.state # "MODIFIED", entry[r.fd].session \in Sessions,
         NEW p \in {"reply", "connected", "written", "ended", "handle"},
         p = "reply" <=> r.state = "SUCCESS", NEW v, v = NextWork(p, r)
  PROVE  /\ v \in WorkerSet /\ v.pc = p /\ v.res = r
         /\ p # "ended" => v.s = entry[r.fd].session
<1>1. PICK s : s = IF p = "ended" THEN NONE ELSE entry[r.fd].session
  OBVIOUS
<1>2. s \in Sessions \cup {NONE}
  BY <1>1
<1>3. v = [pc |-> p, res |-> r, s |-> s, st |-> StateOf(r.state)]
  BY <1>1 DEF NextWork
<1>4. StateOf(r.state) \in Told
  BY DEF StateOf, Told
<1>5. p \in {"get", "off", "reply", "added"} \cup Chain
  BY DEF Chain
<1>6. v \in WorkerSet
  BY <1>2, <1>3, <1>4, <1>5 DEF WorkerSet
<1> QED  BY <1>1, <1>3, <1>6

LEMMA RoutineKeeps ==
  ASSUME NEW g, NEW d, Inv(g, d), NEW w \in Workers, handler_thread_routine(w)
  PROVE  IInv'
<1>1. Rest1 /\ poll \in Group(Results)
  BY InvParts DEF Rest1, Types
<1>2. poll.queue # <<>> /\ worker[w].pc = "get" /\ poll' = Rest(poll)
  BY DEF handler_thread_routine, Rest
<1>3. PICK r : r = Head(poll.queue)
  OBVIOUS
<1>4. r \in Results
  BY <1>1, <1>2, <1>3, TakeNode
<1>5. PICK p : p = NextPc(r)
  OBVIOUS
<1>6. PICK v : v = NextWork(p, r)
  OBVIOUS
<1>7. WorksOn(w, v)
  BY <1>3, <1>5, <1>6 DEF handler_thread_routine, NextPc, NextWork, WorksOn
<1>8. IF p \in {"get", "off"} THEN UNCHANGED bad ELSE Uses(r.fd)
  BY <1>3, <1>5 DEF handler_thread_routine, NextPc
<1>9. HandlerFrame /\ UNCHANGED <<entry, idle_list, outcome, mixed>>
  BY DEF handler_thread_routine, HandlerFrame, pollers, closing, history
<1>10. bad' = FALSE => Takes(w, r, v)
  BY <1>2, <1>3, <1>7, <1>9 DEF Takes
<1>11. CASE /\ p \in {"get", "off"}
            /\ \A f \in Fds : r \notin EndsOf(Results, f) /\ r \notin MsgsOf(f)
  <2>1. v \in {Getting, Off}
    BY <1>6, <1>11 DEF NextWork
  <2>2. Takes(w, r, v)
    BY <1>1, <1>8, <1>10, <1>11 DEF Rest1
  <2> QED  BY <1>11, <2>1, <2>2, TakeNothing
<1>12. ASSUME NEW e \in Fds, e = r.fd, r \in EndsOf(Results, e) \/ r \in MsgsOf(e),
              p \notin {"get", "off"}
       PROVE  Takes(w, r, v) /\ entry[e].session \in Sessions
  <2>1. Live(e) /\ entry[e].session \in Sessions
    BY <1>2, <1>3, <1>12, TakenLive
  <2>2. bad' = FALSE
    BY <1>1, <1>8, <1>12, <2>1 DEF Uses, Rest1
  <2> QED  BY <1>10, <2>1, <2>2
<1>13. CASE p = "reply" /\ r.fd \in Fds /\ r \in MsgsOf(r.fd)
  <2>1. PICK e \in Fds : e = r.fd
    BY <1>13
  <2>2. Takes(w, r, v) /\ entry[e].session \in Sessions /\ r \in MsgsOf(e)
    BY <1>12, <1>13, <2>1
  <2>3. r.state = "SUCCESS"
    BY <2>2 DEF MsgsOf
  <2>4. v \in WorkerSet /\ v.pc = "reply" /\ v.res = r /\ v.s = entry[e].session
    BY <1>4, <1>6, <1>13, <2>1, <2>2, <2>3, NextWorkFields
  <2> QED  BY <2>2, <2>4, TakeMessage
<1>14. CASE /\ p \in {"connected", "written", "ended", "handle"}
            /\ r.fd \in Fds /\ r \in EndsOf(Results, r.fd)
            /\ p = "connected" => r.op = "connect"
            /\ p = "written" => r.op = "write"
            /\ p = "ended" <=> r.op = "read"
  <2>1. PICK e \in Fds : e = r.fd
    BY <1>14
  <2>2. Takes(w, r, v) /\ entry[e].session \in Sessions /\ r \in EndsOf(Results, e)
    BY <1>12, <1>14, <2>1
  <2>3. r.state \notin {"SUCCESS", "MODIFIED"}
    BY <2>2 DEF EndsOf, Ends
  <2>4. v \in WorkerSet /\ v.pc = p /\ v.res = r /\ (p # "ended" => v.s = entry[e].session)
    BY <1>4, <1>6, <1>14, <2>1, <2>2, <2>3, NextWorkFields
  <2> QED  BY <1>14, <2>2, <2>4, TakeEnd
<1> QED  BY <1>4, <1>5, <1>11, <1>13, <1>14, NextStep

LEMMA HandlerKeeps ==
  ASSUME NEW g, NEW d, Inv(g, d), NEW w \in Workers, Handler(w)
  PROVE  IInv'
  BY RoutineKeeps, SuccessKeeps, EndedKeeps, ConnectedKeeps, AddKeeps, AddedKeeps, HandleKeeps,
     ReleaseKeeps DEF Handler

-----------------------------------------------------------------------------
(* The number of handler threads, and deinit.                              *)

\* A thread starts to wait for results; nothing else happens but that deinit is
\* called.
QuietFrame ==
    UNCHANGED <<poll, at, reading, entry, mutex, idle_list, user, outcome, mixed, bad>>
Quiet(w) == worker[w].pc \in {"get", "off"} /\ worker'[w].pc \in {"get", "off"}

LEMMA QuietKeeps ==
  ASSUME NEW g, NEW d, Inv(g, d), QuietFrame, worker' \in [Workers -> WorkerSet],
         \A w \in Workers : worker'[w] = worker[w] \/ Quiet(w), Stages',
         closer' \in Workers \cup {Main, NONE}
  PROVE  IInv'
<1>1. Rest1
  BY InvParts
<1>2. Rest1'
  <2>1. Types'
    BY <1>1 DEF Rest1, Types, QuietFrame
  <2>2. Mutexes' /\ PollersAt' /\ bad' = FALSE /\ mixed' = FALSE
    BY <1>1 DEF Rest1, Mutexes, PollersAt, QuietFrame
  <2> QED  BY <2>1, <2>2 DEF Rest1
<1>3. \A f \in Fds : Apart(f)
  <2> SUFFICES ASSUME NEW f \in Fds PROVE Apart(f)
    OBVIOUS
  <2>1. SameWork(worker, worker', f)
    BY DEF SameWork, Quiet, About
  <2>2. Leaves(Results, poll, poll', f) /\ SameMessages(Results, poll, poll')
    BY DEF QuietFrame, Leaves, SameMessages
  <2>3. Sender(f)' = Sender(f) /\ (Idle(f)' <=> Idle(f))
    BY DEF QuietFrame, Sender, Idle
  <2> QED  BY <2>1, <2>2, <2>3 DEF Apart, QuietFrame
<1>4. SameAnswers
  BY DEF SameAnswers, Quiet, Answers
<1>5. SameTaken
  BY DEF SameTaken, QuietFrame
<1> QED  BY <1>2, <1>3, <1>4, <1>5, StepApart

LEMMA IncreaseKeeps ==
  ASSUME NEW g, NEW d, Inv(g, d), NEW w \in Workers, increase_handler_thread(w)
  PROVE  IInv'
<1>1. Rest1 /\ Stages /\ worker \in [Workers -> WorkerSet]
  BY InvParts DEF Rest1, Types
<1>2. /\ QuietFrame /\ closer' = closer
      /\ worker' = [worker EXCEPT ![w] = Getting] /\ worker[w].pc = "off"
  BY DEF increase_handler_thread, QuietFrame, pollers, history
<1>3. /\ worker' \in [Workers -> WorkerSet] /\ worker'[w].pc = "get"
      /\ \A u \in Workers : u # w => worker'[u] = worker[u]
  BY <1>1, <1>2, GettingIs
<1>4. \A u \in Workers : worker'[u] = worker[u] \/ Quiet(u)
  BY <1>2, <1>3 DEF Quiet
<1>5. Stages' /\ closer' \in Workers \cup {Main, NONE}
  BY <1>1, <1>2 DEF Stages, QuietFrame, Rest1, Types
<1> QED  BY <1>2, <1>3, <1>4, <1>5, QuietKeeps

LEMMA DeinitKeeps ==
  ASSUME NEW g, NEW d, Inv(g, d), NEW w \in Workers \cup {Main}, deinit(w)
  PROVE  IInv'
<1>1. Rest1 /\ worker \in [Workers -> WorkerSet]
  BY InvParts DEF Rest1, Types
<1>2. /\ QuietFrame /\ closer' = w /\ worker' = worker
      /\ \A s \in Sessions : user[s].pc \in {"start", "accepted", "refused"}
  BY DEF deinit, QuietFrame, pollers, history
<1>3. Stages'
  BY <1>2 DEF Stages, QuietFrame
<1> QED  BY <1>1, <1>2, <1>3, QuietKeeps

LEMMA ExitIs ==
  EXIT \in Results /\ EXIT \notin Messages(Results) /\ \A f \in Fds : EXIT \notin EndsOf(Results, f)
  BY DEF EXIT, Result, Results, Messages, EndsOf, Ends

LEMMA DecreaseKeeps ==
  ASSUME NEW g, NEW d, Inv(g, d), decrease_handler_thread
  PROVE  IInv'
<1>1. Rest1 /\ poll \in Group(Results)
  BY InvParts DEF Rest1, Types
<1>2. /\ PollerFrame /\ entry' = entry /\ reading' = reading /\ at' = at /\ bad' = FALSE
      /\ poll' = [poll EXCEPT !.queue = <<EXIT>> \o @]
  BY <1>1 DEF decrease_handler_thread, PollerFrame, pollers, history, Rest1
<1>3. /\ Steady(Results, poll, poll') /\ \A f \in Fds : Leaves(Results, poll, poll', f)
      /\ SameMessages(Results, poll, poll')
  BY <1>1, <1>2, ExitIs, PrependNode
<1>4. PollersAt' /\ at' \in [Pollers -> AtSet]
  BY <1>1, <1>2, <1>3 DEF Rest1, Types, AtSet, PollersAt, Steady
<1>5. Rest1'
  BY <1>1, <1>2, <1>3, <1>4, PollerRest DEF Rest1, Types, Steady
<1>6. \A f \in Fds : Apart(f)
  <2> SUFFICES ASSUME NEW f \in Fds PROVE Apart(f)
    OBVIOUS
  <2>1. Sender(f)' = Sender(f) /\ (Idle(f)' <=> Idle(f)) /\ worker' = worker /\ mutex' = mutex
    BY <1>2, PollerSame DEF PollerFrame
  <2> QED  BY <1>2, <1>3, <2>1, ApartOf DEF Steady
<1>7. SameAnswers /\ SameTaken
  BY <1>2, PollerSame
<1> QED  BY <1>5, <1>6, <1>7, StepApart

-----------------------------------------------------------------------------
(* The invariant is inductive.                                             *)

LEMMA Stutters ==
  ASSUME NEW g, NEW d, Inv(g, d), UNCHANGED state
  PROVE  IInv'
<1>1. Rest1
  BY InvParts
<1>2. QuietFrame /\ worker' = worker /\ closer' = closer
  BY DEF state, QuietFrame
<1>3. Stages'
  BY <1>1, <1>2 DEF Rest1, Stages, QuietFrame
<1>4. worker' \in [Workers -> WorkerSet] /\ closer' \in Workers \cup {Main, NONE}
  BY <1>1, <1>2 DEF Rest1, Types
<1> QED  BY <1>2, <1>3, <1>4, QuietKeeps

\* A step is one that the code defines, or leaves the state as it is.
LEMMA NextSteps ==
  ASSUME [Next]_vars
  PROVE  Step \/ UNCHANGED state
  BY DEF Next, Defined, poller_undefined, decrease_contended, vars

LEMMA NextKeeps ==
  ASSUME IInv, [Next]_vars
  PROVE  IInv'
<1>1. PICK g \in [Fds -> PlaceSet], d \in [Sessions -> DebtSet] : Inv(g, d)
  BY DEF IInv
<1>2. CASE UNCHANGED state
  BY <1>1, <1>2, Stutters
<1>3. CASE \E s \in Sessions : Request(s)
  BY <1>1, <1>3, RequestKeeps
<1>4. CASE (\E e \in Fds : PollerEvent(e)) \/ (\E i \in Pollers : PollerStep(i))
  BY <1>1, <1>4, PollerKeeps
<1>5. CASE \E w \in Workers : Handler(w)
  BY <1>1, <1>5, HandlerKeeps
<1>6. CASE \E w \in Workers : increase_handler_thread(w)
  BY <1>1, <1>6, IncreaseKeeps
<1>7. CASE decrease_handler_thread
  BY <1>1, <1>7, DecreaseKeeps
<1>8. CASE \E w \in Workers \cup {Main} : deinit(w)
  BY <1>1, <1>8, DeinitKeeps
<1> QED  BY <1>2, <1>3, <1>4, <1>5, <1>6, <1>7, <1>8, NextSteps DEF Step

\* At first no connection has a token and no session is owed anything.
NoPlace == [loc |-> "none", w |-> NONE, op |-> "read", msg |-> "none", mw |-> NONE, t |-> NONE]
NoDebt == [by |-> "none", e |-> NONE, w |-> NONE]

LEMMA InitOK == Init => IInv
<1> SUFFICES ASSUME Init PROVE IInv
  OBVIOUS
<1>1. PICK g : g = [f \in Fds |-> NoPlace]
  OBVIOUS
<1>2. PICK d : d = [s \in Sessions |-> NoDebt]
  OBVIOUS
<1>3. g \in [Fds -> PlaceSet] /\ d \in [Sessions -> DebtSet]
  BY <1>1, <1>2 DEF NoPlace, NoDebt, PlaceSet, Places, Ops, DebtSet
<1>4. /\ poll \in Group(Results) /\ poll.queue = <<>>
      /\ \A f \in Fds : NodeAt(Results, poll, f, "none", "read")
  BY NewGroupIs DEF Init
<1>5. /\ worker \in [Workers -> WorkerSet]
      /\ \A w \in Workers : worker[w].pc \in {"get", "off"}
  BY GettingIs DEF Init
<1>6. Types
  <2>1. <<>> \in Seq(Fds) /\ <<>> \in Seq(Told) /\ Distinct(<<>>)
    BY EmptySeq DEF Distinct
  <2>2. entry \in [Fds -> EntrySet]
    BY DEF Init, NoEntry, EntrySet
  <2>3. user \in [Sessions -> UserSet]
    BY DEF Init, UserSet
  <2>4. at \in [Pollers -> [pc : PollerPcs, fd : Fds \cup {NONE}]]
    BY DEF Init, PollerPcs
  <2> QED  BY <1>4, <1>5, <2>1, <2>2, <2>3, <2>4 DEF Init, Types
<1>7. Stages
  BY <1>4, <1>5 DEF Init, Stages
<1>8. Mutexes /\ PollersAt
  BY DEF Init, Mutexes, PollersAt, Locking, Sending
<1>9. ASSUME NEW e \in Fds PROVE Conn(g[e], e) /\ ~OwedBy(g, e)
  <2>1. /\ g[e].loc = "none" /\ g[e].op = "read" /\ g[e].msg = "none" /\ g[e].t = NONE
    BY <1>1 DEF NoPlace
  <2>2. Slot(poll.queue, MsgsOf(e), MsgIs(g[e].t), g[e].msg, "queue")
    BY <1>4, <2>1 DEF Slot, None
  <2>3. \A w \in Workers : ~HasEnd(worker[w], e) /\ ~HasMsg(worker[w], e) /\ ~HasRef(worker[w], e)
    BY <1>5 DEF HasEnd, HasMsg, HasRef, About
  <2>4. EndWith(worker, g[e], e) /\ MsgWith(worker, g[e], e) /\ Speaks(worker, g[e], entry[e])
    BY <2>1, <2>3 DEF EndWith, MsgWith, Speaks, Chain, Speaking
  <2>6. Cardinality(RefHolders(worker, e)) = 0
    <3>1. RefHolders(worker, e) = {}
      BY <2>3 DEF RefHolders
    <3> QED  BY <3>1, FS_EmptySet
  <2>7. /\ entry[e].state = "NONE" /\ entry[e].ref = 0 /\ mutex[e] = NONE /\ reading[e] = NONE
        /\ Sender(e) = "none" /\ Idle(e) = FALSE
    BY DEF Init, NoEntry, Sender, Idle, ToSet
  <2>8. Fits(g[e], Cardinality(RefHolders(worker, e)), entry[e], mutex[e], Sender(e),
             reading[e], Idle(e))
    BY <2>1, <2>6, <2>7 DEF Fits, Counted, MessageFits, NodeFits, IdleFits, ReadingFits, Locking, Sending
  <2>9. NodeAt(Results, poll, e, g[e].loc, g[e].op)
    BY <1>4, <2>1
  <2>10. ~OwedBy(g, e)
    BY <2>1, <2>7 DEF OwedBy, Owes, Sending
  <2> QED  BY <2>2, <2>4, <2>8, <2>9, <2>10 DEF Conn
<1>10. ASSUME NEW s \in Sessions PROVE Sess(g, d[s], s)
  <2>1. d[s].by = "none" /\ user[s].pc = "start" /\ outcome[s] = <<>>
    BY <1>2 DEF NoDebt, Init
  <2>2. \A w \in Workers : ~Answers(worker[w])
    BY <1>5 DEF Answers
  <2> QED  BY <1>9, <2>1, <2>2 DEF Sess, Taken
<1>11. bad = FALSE /\ mixed = FALSE
  BY DEF Init
<1>12. Inv(g, d)
  BY <1>3, <1>6, <1>7, <1>8, <1>9, <1>10, <1>11 DEF Inv
<1> QED  BY <1>3, <1>12 DEF IInv

LEMMA Inductive == Spec => []IInv
<1>1. IInv /\ [Next]_vars => IInv'
  BY NextKeeps
<1> QED  BY <1>1, InitOK, PTL DEF Spec

-----------------------------------------------------------------------------
(* What follows.                                                           *)

\* Nobody uses a connection entry that was freed, or unlinks one that is not in
\* the idle list: not the thread that sends on an idle connection while its end
\* is handled, not a poller thread with an event of a node removed meanwhile,
\* not the last of two handlers of one connection.
THEOREM NoEntryUsedAfterFree == Spec => []NoUseAfterFree
<1>1. IInv => NoUseAfterFree
  BY DEF IInv, Inv, NoUseAfterFree
<1> QED  BY <1>1, Inductive, PTL

\* handle is called once at most for a session, never for one whose request was
\* refused, and with the reply that was read for that session.
THEOREM SessionHandledOnce == Spec => []HandledOnce
<1>1. IInv => HandledOnce
  <2> SUFFICES ASSUME IInv PROVE HandledOnce
    OBVIOUS
  <2>1. PICK g, d : Inv(g, d)
    BY DEF IInv
  <2>2. \A s \in Sessions : Sess(g, d[s], s)
    BY <2>1, InvParts
  <2>3. mixed = FALSE
    BY <2>1 DEF Inv
  <2>4. Len(<<>>) = 0
    OBVIOUS
  <2>5. ASSUME NEW s \in Sessions
        PROVE  Len(outcome[s]) <= IF user[s].pc = "refused" THEN 0 ELSE 1
    <3>1. user[s].pc = "refused" => outcome[s] = <<>>
      BY <2>2 DEF Sess, Taken
    <3>2. Len(outcome[s]) = 1 \/ outcome[s] = <<>>
      BY <2>2 DEF Sess
    <3>3. PICK k : k = Len(outcome[s])
      OBVIOUS
    <3>4. (k = 0 \/ k = 1) /\ (user[s].pc = "refused" => k = 0)
      BY <2>4, <3>1, <3>2, <3>3
    <3>5. k <= IF user[s].pc = "refused" THEN 0 ELSE 1
      BY <3>4
    <3> QED  BY <3>3, <3>5
  <2> QED  BY <2>3, <2>5 DEF HandledOnce
<1> QED  BY <1>1, Inductive, PTL

\* The end of an operation that is in a pipe, in the queue or with a handler that
\* has just taken it is on the way.
LEMMA EndOnTheWay ==
  ASSUME Types, NEW e \in Fds, NEW l, Conn(l, e), l.loc \in {"pipe", "queue", "ended"},
         NEW ops, l.op \in ops
  PROVE  OnTheWay(e, ops)
<1>1. NodeAt(Results, poll, e, l.loc, l.op)
  BY DEF Conn
<1>2. CASE l.loc = "pipe"
  <2>1. PICK r : /\ r \in EndsOf(Results, e) /\ r \in OpIs(Results, l.op)
                 /\ r \in ToSet(poll.pipe[Index(e)])
    BY <1>1, <1>2 DEF NodeAt, Slot, Only, ToSet
  <2>2. r.fd = e /\ r.op = l.op /\ r.state \notin {"SUCCESS", "MODIFIED"}
    BY <2>1 DEF EndsOf, Ends, OpIs
  <2> QED  BY <2>1, <2>2 DEF OnTheWay
<1>3. CASE l.loc = "queue"
  <2>1. PICK r : /\ r \in EndsOf(Results, e) /\ r \in OpIs(Results, l.op)
                 /\ r \in ToSet(poll.queue)
    BY <1>1, <1>3 DEF NodeAt, Slot, Only, ToSet
  <2>2. r.fd = e /\ r.op = l.op /\ r.state \notin {"SUCCESS", "MODIFIED"}
    BY <2>1 DEF EndsOf, Ends, OpIs
  <2> QED  BY <2>1, <2>2 DEF OnTheWay
<1>4. CASE l.loc = "ended"
  <2>1. /\ l.w \in Workers /\ HasEnd(worker[l.w], e) /\ worker[l.w].pc = "ended"
        /\ worker[l.w].res.op = l.op
    BY <1>4 DEF Conn, EndWith, Chain
  <2>2. PICK r : r = worker[l.w].res
    OBVIOUS
  <2>3. r.fd = e /\ r.op = l.op /\ r.state \notin {"SUCCESS", "MODIFIED"}
    BY <2>1, <2>2 DEF Types, WorkerSet, HasEnd, About
  <2> QED  BY <2>1, <2>2, <2>3 DEF OnTheWay
<1> QED  BY <1>2, <1>3, <1>4

\* A connection in the idle list is there once, counts the list's reference,
\* and is registered for reading or its end is on the way: a session that takes
\* it is told, whatever the peer does.
THEOREM IdleConnIsWatched == Spec => []IdleIsWatched
<1>1. IInv => IdleIsWatched
  <2> SUFFICES ASSUME IInv PROVE IdleIsWatched
    OBVIOUS
  <2>1. PICK g, d : Inv(g, d)
    BY DEF IInv
  <2>2. Types
    BY <2>1 DEF Inv
  <2>3. ASSUME NEW e \in ToSet(idle_list)
        PROVE  /\ entry[e].state = "IDLE" /\ entry[e].ref >= 1
               /\ poll.table[e] = "read" \/ OnTheWay(e, {"read"})
    <3>1. e \in Fds /\ Idle(e)
      BY <2>2 DEF Types, ToSet, Idle
    <3>2. PICK l : l = g[e]
      OBVIOUS
    <3>3. Conn(l, e)
      BY <2>1, <3>1, <3>2, InvParts
    <3>4. entry[e].state = "IDLE" /\ l.op = "read" /\ l.loc \in Watched
      BY <3>1, <3>3 DEF Conn, Fits, IdleFits
    <3>5. entry[e].ref >= 1
      BY <3>3, <3>4 DEF Conn, Fits, Counted, Watched, Polled
    <3>6. CASE l.loc = "table"
      BY <3>3, <3>4, <3>5, <3>6 DEF Conn, NodeAt
    <3>7. CASE l.loc # "table"
      BY <2>2, <3>1, <3>3, <3>4, <3>5, <3>7, EndOnTheWay DEF Watched, Polled
    <3> QED  BY <3>6, <3>7
  <2> QED  BY <2>2, <2>3 DEF IdleIsWatched, Types, Distinct
<1> QED  BY <1>1, Inductive, PTL

\* A message that was not handled is in the queue or with a handler.
LEMMA MsgRemembered ==
  ASSUME Types, NEW e \in Fds, NEW l \in PlaceSet, Conn(l, e), l.msg # "none",
         NEW s, entry[e].session = s
  PROVE  \/ \E r \in ToSet(poll.queue) : r.state = "SUCCESS" /\ r.msg = s
         \/ \E w \in Workers : Attends(w, s)
<1>1. l.t = s
  BY DEF Conn, Fits, MessageFits
<1>2. CASE l.msg = "queue"
  <2>1. PICK r : r \in MsgsOf(e) /\ r \in MsgIs(l.t) /\ r \in ToSet(poll.queue)
    BY <1>2 DEF Conn, Slot, Only, ToSet
  <2> QED  BY <1>1, <2>1 DEF MsgsOf, MsgIs
<1>3. CASE l.msg = "reply"
  <2>1. l.mw \in Workers /\ worker[l.mw].pc = "reply" /\ worker[l.mw].s = s
    BY <1>1, <1>3 DEF Conn, MsgWith, HasMsg
  <2> QED  BY <2>1 DEF Attends
<1> QED  BY <1>2, <1>3 DEF PlaceSet

\* A connection that owes an answer and has no message is registered, or its end
\* is on the way.
LEMMA ConnRemembers ==
  ASSUME Types, Mutexes, NEW s \in Sessions, user[s].pc = "accepted",
         NEW e \in Fds, entry[e].session = s, NEW l \in PlaceSet, Conn(l, e),
         Owes(l, entry[e], Sender(e)), l.msg = "none", l.loc \notin Speaking
  PROVE  Minds(e, s)
<1>1. /\ NodeAt(Results, poll, e, l.loc, l.op)
      /\ Fits(l, Cardinality(RefHolders(worker, e)), entry[e], mutex[e], Sender(e),
              reading[e], Idle(e))
  BY DEF Conn
<1>2. ~(entry[e].state = "IDLE" /\ Sender(e) \in Sending \ {"popped"})
  <2> SUFFICES ASSUME Sender(e) \in Sending \ {"popped"} PROVE FALSE
    OBVIOUS
  <2>1. mutex[e] # NONE /\ mutex[e] = entry[e].session
    BY <1>1 DEF Fits, IdleFits, Sending, Sender
  <2> QED  BY <2>1 DEF Sender, Sending
<1>3. /\ l.loc \notin {"none", "unref"}
      /\ \/ entry[e].state \in {"CONNECTING", "RECEIVING", "ERROR"}
         \/ entry[e].state = "IDLE" /\ l.op = "write"
  BY <1>2 DEF Owes
<1>4. l.loc \in {"table", "pipe", "queue", "ended"} /\ l.op \in {"connect", "write", "read"}
  BY <1>1, <1>3 DEF PlaceSet, Places, Chain, Speaking, Fits, NodeFits
<1>5. CASE l.loc = "table"
  <2>1. poll.table[e] = l.op /\ Registered(poll, e)
    BY <1>1, <1>4, <1>5 DEF NodeAt, Registered
  <2> QED  BY <1>3, <2>1 DEF Minds, Waits
<1>6. CASE l.loc # "table"
  <2>1. OnTheWay(e, {"connect", "write", "read"})
    BY <1>4, <1>6, EndOnTheWay
  <2>2. l.op = "write" => OnTheWay(e, {"write"})
    BY <1>4, <1>6, EndOnTheWay
  <2> QED  BY <1>3, <2>1, <2>2 DEF Minds, Waits
<1> QED  BY <1>5, <1>6

\* A session whose request was accepted is not forgotten: until it is told, its
\* reply is in the queue, a handler has it, or its connection will end in a way
\* that tells it.
THEOREM SessionRemembered == Spec => []NobodyForgotten
<1>1. IInv => NobodyForgotten
  <2> SUFFICES ASSUME IInv, NEW s \in Sessions, user[s].pc = "accepted", outcome[s] = <<>>
               PROVE  \/ \E r \in ToSet(poll.queue) : r.state = "SUCCESS" /\ r.msg = s
                      \/ \E w \in Workers : Attends(w, s)
                      \/ \E e \in Fds : Minds(e, s)
    BY DEF NobodyForgotten
  <2>1. PICK g \in [Fds -> PlaceSet], d \in [Sessions -> DebtSet] : Inv(g, d)
    BY DEF IInv
  <2>2. Types /\ Mutexes
    BY <2>1 DEF Inv
  <2>3. Sess(g, d[s], s) /\ d[s] \in DebtSet
    BY <2>1, InvParts
  <2>4. d[s].by \in {"conn", "worker"}
    <3>1. d[s].by # "none"
      BY <2>3 DEF Sess, Taken
    <3>2. d[s].by # "told"
      <4>1. Len(<<>>) = 0
        OBVIOUS
      <4> QED  BY <2>3, <4>1 DEF Sess
    <3> QED  BY <2>3, <3>1, <3>2 DEF DebtSet
  <2>5. CASE d[s].by = "worker"
    <3>1. d[s].w \in Workers /\ Attends(d[s].w, s)
      BY <2>3, <2>5 DEF Sess, Answers, Attends
    <3> QED  BY <3>1
  <2>6. CASE d[s].by = "conn"
    <3>1. PICK e \in Fds : OwedBy(g, e) /\ entry[e].session = s
      BY <2>3, <2>6 DEF Sess
    <3>2. PICK l \in PlaceSet : l = g[e]
      BY <2>1
    <3>3. Conn(l, e) /\ Owes(l, entry[e], Sender(e))
      BY <2>1, <3>1, <3>2, InvParts DEF OwedBy
    <3>4. CASE l.msg # "none"
      BY <2>2, <3>1, <3>2, <3>3, <3>4, MsgRemembered
    <3>5. CASE l.loc \in Speaking
      <4>1. l.w \in Workers /\ worker[l.w].pc = l.loc /\ worker[l.w].s = s
        BY <3>1, <3>3, <3>5 DEF Conn, EndWith, Speaks, Speaking, Chain
      <4> QED  BY <3>5, <4>1 DEF Attends, Speaking
    <3>6. CASE l.msg = "none" /\ l.loc \notin Speaking
      BY <2>2, <3>1, <3>2, <3>3, <3>6, ConnRemembers
    <3> QED  BY <3>4, <3>5, <3>6
  <2> QED  BY <2>4, <2>5, <2>6
<1> QED  BY <1>1, Inductive, PTL

\* The variables have their types; in particular a connection never counts
\* more references than one for each thread that handles results and one for
\* its node.
THEOREM TypesCorrect == Spec => []TypeOK
<1>1. Init => keep \subseteq Sessions
  BY DEF Init
<1>2. IInv /\ keep \subseteq Sessions /\ [Next]_vars => (keep \subseteq Sessions)'
  <2> SUFFICES ASSUME IInv, keep \subseteq Sessions, [Next]_vars PROVE keep' \subseteq Sessions
    OBVIOUS
  <2>1. PollersAt /\ Types
    BY DEF IInv, Inv
  <2>2. CASE \E i \in Pollers : append_message(i)
    <3>1. PICK i \in Pollers : append_message(i)
      BY <2>2
    <3>2. reading[at[i].fd] \in Sessions
      BY <2>1, <3>1 DEF append_message, PollersAt, Types
    <3> QED  BY <3>1, <3>2 DEF append_message
  <2>3. CASE keep' = keep
    BY <2>3
  <2>4. (\E i \in Pollers : append_message(i)) \/ keep' = keep
    <3>1. ASSUME NEW s \in Sessions, Request(s) PROVE keep' = keep
      BY <3>1 DEF Request, request_idle_conn, request_idle_conn_check, send_message,
         send_message_sync, send_message_async, request_idle_failed, request_idle_unlock,
         request_new_conn
    <3>2. ASSUME NEW e \in Fds, PollerEvent(e) PROVE keep' = keep
      BY <3>2 DEF PollerEvent, poller_handle_write, poller_handle_read
    <3>3. ASSUME NEW i \in Pollers, PollerStep(i) PROVE append_message(i) \/ keep' = keep
      BY <3>3 DEF PollerStep, epoll_wait, poller_handle_pipe, create_reply_lock, create_reply
    <3>4. ASSUME NEW w \in Workers, Handler(w) PROVE keep' = keep
      BY <3>4 DEF Handler, handler_thread_routine, handle_reply_success, handle_reply_end,
         handle_connected, handle_written, handle_add, handle_added, handle, release_conn
    <3>6. ASSUME \/ \E w \in Workers : increase_handler_thread(w)
                 \/ decrease_handler_thread
                 \/ \E w \in Workers \cup {Main} : deinit(w)
          PROVE  keep' = keep
      BY <3>6 DEF increase_handler_thread, decrease_handler_thread, deinit
    <3>7. UNCHANGED state => keep' = keep
      BY DEF state
    <3> QED  BY <3>1, <3>2, <3>3, <3>4, <3>6, <3>7, NextSteps DEF Step
  <2> QED  BY <2>2, <2>3, <2>4
<1>4. Init => undefined \in BOOLEAN
  BY DEF Init
<1>5. undefined \in BOOLEAN /\ [Next]_vars => (undefined \in BOOLEAN)'
  BY DEF Next, Defined, poller_undefined, decrease_contended, vars
<1>3. IInv /\ keep \subseteq Sessions /\ undefined \in BOOLEAN => TypeOK
  <2> SUFFICES ASSUME IInv, keep \subseteq Sessions, undefined \in BOOLEAN PROVE TypeOK
    OBVIOUS
  <2>1. PICK g, d : Inv(g, d)
    BY DEF IInv
  <2>2. Types /\ IsFiniteSet(Workers)
    BY <2>1, Constants DEF Inv
  <2>3. Cardinality(Workers) \in Nat
    BY <2>2, FS_CardinalityType
  <2>4. ASSUME NEW e \in Fds
        PROVE  /\ poll.table[e] \in {"none", "connect", "write", "read"}
               /\ entry[e].ref \in 0 .. Cardinality(Workers) + 1
    <3>1. Conn(g[e], e) /\ g[e].op \in Ops
      BY <2>1, InvParts DEF PlaceSet
    <3>2. poll.table[e] \in {"none", "connect", "write", "read"}
      <4>1. CASE g[e].loc = "table"
        <5>1. g[e].op \in {"connect", "write", "read"}
          BY <3>1, <4>1 DEF Conn, Fits, NodeFits
        <5> QED  BY <3>1, <4>1, <5>1 DEF Conn, NodeAt
      <4>2. CASE g[e].loc # "table"
        BY <3>1, <4>2 DEF Conn, NodeAt
      <4> QED  BY <4>1, <4>2
    <3>3. PICK n : n = Cardinality(RefHolders(worker, e))
      OBVIOUS
    <3>4. n \in Nat /\ n <= Cardinality(Workers)
      <4>1. RefHolders(worker, e) \in SUBSET Workers
        BY DEF RefHolders
      <4> QED  BY <2>2, <3>3, <4>1, FS_Subset, FS_CardinalityType
    <3>5. entry[e].ref \in Nat /\ entry[e].ref <= n + 1
      BY <3>1, <3>3, <3>4 DEF Conn, Fits, Counted
    <3> QED  BY <2>3, <3>2, <3>4, <3>5
  <2>5. ToSet(idle_list) \subseteq Fds
    BY <2>2 DEF Types, ToSet
  <2>6. \A e \in Fds : /\ reading[e] \in Sessions \cup {NONE}
                       /\ entry[e].state \in ConnStates \cup {"NONE", "FREED"}
                       /\ entry[e].session \in Sessions \cup {NONE}
                       /\ mutex[e] \in Sessions \cup {NONE}
    BY <2>2 DEF Types, EntrySet
  <2>7. \A w \in Workers : worker[w].s \in Sessions \cup {NONE}
    BY <2>2 DEF Types, WorkerSet
  <2> QED  BY <2>2, <2>4, <2>5, <2>6, <2>7 DEF TypeOK, Types
<1> QED  BY <1>1, <1>2, <1>3, <1>4, <1>5, Inductive, PTL DEF Spec
=============================================================================
