--------------------------- MODULE CommServiceInv ---------------------------
(***************************************************************************)
(* The inductive invariant of the serving side of the communicator, IInv,  *)
(* and the words its proof in CommServiceProof is written in.              *)
(*                                                                         *)
(* Of each connection three tokens are followed: its node, which is with   *)
(* the poller, in the message queue or with the one handler that took its  *)
(* end; its message, which is in the queue or with one handler; and, before *)
(* there is an entry, the accepted socket.  Of each session, who will tell *)
(* it its end: the connection, or one thread.  And of the service, who     *)
(* will give back its own reference.                                       *)
(***************************************************************************)
EXTENDS CommService, MPollerProof

-----------------------------------------------------------------------------
(* The types.  deleted says whether unbind has deleted the listening node. *)

ListenEnd(r, deleted) ==
    \/ r.state = "DELETED" /\ deleted
    \/ r.state \in {"ERROR", "STOPPED"} /\ ~deleted

ResultsOf(stop, deleted) ==
    {r \in [fd : Fds, op : {"read", "write", "listen"},
            state : Ends \cup {"SUCCESS", "MODIFIED"},
            msg : Conns \cup (Conns \X Nat) \cup {NONE}] :
        \/ r.fd \in Conns /\ r.op = "read"
        \/ r.fd \in Conns /\ r.op = "write" /\ r.state \in Ends /\ (r.state = "DELETED" => stop)
        \/ r.fd = listen_fd /\ r.op = "listen" /\ r.state = "SUCCESS" /\ r.msg \in Conns
        \/ r.fd = listen_fd /\ r.op = "listen" /\ ListenEnd(r, deleted)}

AllResults == ResultsOf(TRUE, TRUE) \cup ResultsOf(TRUE, FALSE)
Results == ResultsOf(stop_flag, worker[Main].pc = "unbound")

MsgsOf(R, c) == {r \in R : r.fd = c /\ r.state = "SUCCESS"}
AccsOf(R, c) == {r \in R : r.fd = listen_fd /\ r.state = "SUCCESS" /\ r.msg = c}

\* The handlers with a result about a connection.
OfConn == {"ended", "replied", "request", "handle", "unref"}
Closing == {"shutdown", "drain", "decref"}
Speaking == {"request", "handle", "replied"}

Tells == {"TOREPLY", "SUCCESS", "ERROR", "STOPPED", "none"}

WorkerSet ==
    {v \in [pc : OfConn \cup Closing \cup {"get", "off", "unbound", "closed", "accepted", "added", "stopped"},
            res : AllResults \cup {NONE}, s : (Conns \X Nat) \cup {NONE}, st : Tells] :
        /\ v.pc \in OfConn => v.res \in AllResults /\ v.res.fd \in Conns
        /\ v.pc \in {"accepted", "added"} => v.res \in AllResults /\ v.res.msg \in Conns
        /\ v.pc \in Speaking => v.s \in Sessions /\ v.s[1] = v.res.fd
        /\ v.pc = "ended" => v.res.op = "read" /\ v.res.state \in Ends
        /\ v.pc \in {"ended", "replied"} => v.st \in {"ERROR", "STOPPED"}}

EntryStates == {"NONE", "CONNECTED", "RECEIVING", "SUCCESS", "IDLE", "KEEPALIVE",
                "CLOSING", "ERROR", "FREED"}
EntrySet == [state : EntryStates, ref : Nat, seq : 0 .. MaxSeq]
TargetSet == [state : {"NONE", "LIVE", "FREED"}, ref : Nat, idle : BOOLEAN]
ServiceSet == [ref : Nat, listening : BOOLEAN, unbound : Nat]

ObjSet ==
    [entry : [Conns -> EntrySet], target : [Conns -> TargetSet], service : ServiceSet,
     alive_list : Seq(Conns), torn : BOOLEAN, bad : BOOLEAN]

PollerPcs == {"wait", "data", "lock", "create", "new", "append"}
UserPcs == {"none", "toreply", "over", "sent", "sending", "handle", "unref", "returned"}
SessionSet == [passive : 0 .. 4, told : Seq(Tells)]

Types ==
    /\ poll \in Group(Results)
    /\ at \in [pc : PollerPcs, fd : Conns \cup {NONE}]
    /\ reading \in SUBSET Conns
    /\ obj \in ObjSet
    /\ mutex \in [Conns -> Sessions \cup {NONE}]
    /\ session \in [Sessions -> SessionSet]
    /\ user \in [Sessions -> UserPcs]
    /\ worker \in [Workers -> WorkerSet]
    /\ stop_flag \in BOOLEAN
    /\ stray \in SUBSET Conns

-----------------------------------------------------------------------------
(* Where the tokens of a connection are.                                   *)

PlaceSet == [loc : {"none", "table", "pipe", "queue", "ended", "replied"},
             op : {"read", "write"},
             msg : {"none", "queue", "request"},
             acc : {"none", "queue", "accepted"}]

\* The thread v is at p with a result about c.
Subject(v) == IF v.pc \in {"accepted", "added"} THEN v.res.msg ELSE v.res.fd
AtHand(v, p, c) == v.pc = p /\ Subject(v) = c

\* There is no such thread, or exactly one; the latter when p is the place.
NoneAt(W, p, c) == \A w \in Workers : ~AtHand(W[w], p, c)
OnlyAt(W, p, c) ==
    \E w \in Workers : AtHand(W[w], p, c) /\ \A v \in Workers : AtHand(W[v], p, c) => v = w
One(W, p, c, place) == IF place = p THEN OnlyAt(W, p, c) ELSE NoneAt(W, p, c)

Held(W, l, c) ==
    /\ One(W, "ended", c, l.loc) /\ One(W, "replied", c, l.loc)
    /\ One(W, "request", c, l.msg) /\ One(W, "accepted", c, l.acc)

Queued(R, x, l, c) ==
    /\ NodeAt(R, x, c, l.loc, l.op)
    /\ Slot(x.queue, MsgsOf(R, c), R, l.msg, "queue")
    /\ Slot(x.queue, AccsOf(R, c), R, l.acc, "queue")

\* The threads that hold a reference of the entry besides the tokens'.
HasRef(v, c) == v.pc \in {"handle", "unref"} /\ v.res.fd = c
Refs(W, c) == {w \in Workers : HasRef(W[w], c)}
UserRefs(u, c) == {s \in Sessions : s[1] = c /\ u[s] \in {"sent", "handle", "unref"}}
Holders(W, u, c) == Cardinality(Refs(W, c)) + Cardinality(UserRefs(u, c))

-----------------------------------------------------------------------------
(* What the objects of a connection may be, by the place l of its tokens:  *)
(* its entry en and target ta, with n references by threads and k sessions *)
(* that are not deleted; whether it is in alive_list (al); what the poller *)
(* thread does with it (a), whether a message is being read (rd); and      *)
(* passive of its last session (p).                                        *)

Watched == {"table", "pipe", "queue", "ended"}
Kept(l) == l.loc # "none" \/ l.msg # "none"

Counted(l, n, k, en, ta) ==
    /\ n \in Nat /\ k \in Nat
    /\ en.state \in {"NONE", "FREED"} <=> ~Kept(l) /\ n = 0
    /\ en.ref = n + IF Kept(l) THEN 1 ELSE 0
    /\ l.acc # "none" <=> en.state = "NONE" /\ ta.state = "LIVE"
    /\ en.state = "NONE" => k = 0 /\ en.seq = 0
    /\ ta.state = "NONE" => en.state = "NONE"
    /\ ta.state = "FREED" => en.state \in {"NONE", "FREED"} /\ k = 0
    /\ ta.state = "LIVE" =>
          ta.ref = k + (IF en.state = "FREED" THEN 0 ELSE 1) /\ ta.ref # 0

StateFits(l, en, ta, p) ==
    /\ l.loc = "ended" => l.op = "read"
    /\ l.loc = "replied" => l.op = "write"
    /\ l.loc # "none" /\ l.op = "write" =>
          en.state = "IDLE" /\ ~ta.idle /\ l.msg = "none" /\ p = 3
    /\ l.msg # "none" =>
          /\ p = 1
          /\ \/ en.state = "SUCCESS" /\ l.loc \in Watched /\ l.op = "read"
             \/ en.state = "CLOSING" /\ l.loc = "none"
    /\ en.state = "SUCCESS" => l.msg # "none"
    /\ ta.idle => en.state = "IDLE" /\ l.op = "read" /\ l.loc \in Watched
    /\ en.state = "CONNECTED" => en.seq = 0
    /\ en.state \notin {"NONE", "CONNECTED", "FREED"} => en.seq # 0
    /\ en.state = "KEEPALIVE" /\ l.loc # "none" => p \in {3, 4}
    /\ en.state = "IDLE" => p \in {2, 3, 4}
    /\ en.state = "ERROR" /\ l.loc # "none" => p = 3

PollFits(l, en, al, a, rd, p) ==
    /\ al = "in" => en.state = "KEEPALIVE" /\ l.loc # "none" /\ a # "new"
    /\ en.state = "KEEPALIVE" => al = "in" \/ a = "new" \/ l.loc = "none"
    /\ rd = "yes" => en.seq # 0
    /\ rd = "yes" /\ l.loc # "none" => en.state = "RECEIVING" /\ p = 1
    /\ a \in {"lock", "create", "new"} => rd = "no" /\ en.seq < MaxSeq
    /\ a = "new" => en.state \in {"KEEPALIVE", "CONNECTED"}
    /\ a = "append" => rd = "yes"

At(c) == IF at.fd = c THEN at.pc ELSE "wait"
Alive(c) == IF c \in ToSet(obj.alive_list) THEN "in" ELSE "out"
Reads(c) == IF c \in reading THEN "yes" ELSE "no"
LastSession(c) == <<c, obj.entry[c].seq>>
Passive(c) == IF obj.entry[c].seq = 0 THEN 0 ELSE session[LastSession(c)].passive

Fitting(l, n, k, en, ta, al, a, rd, p) ==
    /\ Counted(l, n, k, en, ta)
    /\ StateFits(l, en, ta, p)
    /\ PollFits(l, en, al, a, rd, p)

Fits(l, c) ==
    Fitting(l, Holders(worker, user, c), Cardinality(Undeleted(c)), obj.entry[c], obj.target[c],
            Alive(c), At(c), Reads(c), Passive(c))

-----------------------------------------------------------------------------
(* What a session may be: se is its state, u its user, o whether its       *)
(* connection will have it told its end.                                   *)

Owes(l, en) ==
    \/ l.msg = "queue"
    \/ l.loc \in Watched /\ en.state \in {"RECEIVING", "ERROR"}
    \/ l.loc \in {"table", "pipe", "queue"} /\ l.op = "write"

Owed(l, s) == s[2] = obj.entry[s[1]].seq /\ Owes(l, obj.entry[s[1]])

Asked(t) == Len(t) = 1 /\ t[1] = "TOREPLY"
EndOnly(t) == Len(t) = 1 /\ t[1] # "TOREPLY"
AskedAndEnd(t) == Len(t) = 2 /\ t[1] = "TOREPLY" /\ t[2] # "TOREPLY"

\* The end is to be told, by the connection or by a handler: of a request that
\* is being received, or of a reply that is being sent; or the request is.
Receiving(se) == se.passive = 1 /\ se.told = <<>>
Sending(se, u) == se.passive = 3 /\ Asked(se.told) /\ u \in {"sending", "returned"}
Asking(se) == se.passive = 2 /\ se.told = <<>>

Phases(se, u) ==
    \/ se.passive \in {0, 1, 2} /\ se.told = <<>> /\ u = "none"
    \/ se.passive \in {1, 4} /\ EndOnly(se.told) /\ u = "none"
    \/ se.passive = 2 /\ Asked(se.told) /\ u = "toreply"
    \/ se.passive \in {3, 4} /\ Asked(se.told) /\ u = "over"
    \/ se.passive = 3 /\ Asked(se.told) /\ u \in {"sent", "handle", "sending", "returned"}
    \/ se.passive \in {3, 4} /\ AskedAndEnd(se.told) /\ u \in {"unref", "returned", "sending"}

SpeaksFor(v, s) == v.pc \in Speaking /\ v.s = s

\* A thread v that speaks for a session: to ask for a reply, or to tell the end.
Speaker(v, se, u) ==
    /\ v.pc = "request" => Receiving(se)
    /\ v.pc = "replied" => Sending(se, u)
    /\ v.pc = "handle" => IF v.st = "TOREPLY" THEN Asking(se)
                          ELSE Receiving(se) \/ Sending(se, u)

Sess(l, s) ==
    /\ session[s].passive = 0 <=> s[2] > obj.entry[s[1]].seq
    /\ s[2] < obj.entry[s[1]].seq => session[s].passive \in {3, 4}
    /\ Phases(session[s], user[s])
    /\ Owed(l, s) => /\ Receiving(session[s]) \/ Sending(session[s], user[s])
                     /\ \A w \in Workers : ~SpeaksFor(worker[w], s)
    /\ \A w \in Workers : SpeaksFor(worker[w], s) => Speaker(worker[w], session[s], user[s])
    /\ \A v, w \in Workers : SpeaksFor(worker[v], s) /\ SpeaksFor(worker[w], s) => v = w

\* A handler that takes the end or the message of a connection has its last
\* session at hand.
LastAtHand(c) ==
    \A w \in Workers : \A p \in {"request", "replied"} :
        AtHand(worker[w], p, c) => worker[w].s = LastSession(c)

Conn(l, c) ==
    /\ Queued(Results, poll, l, c)
    /\ Held(worker, l, c)
    /\ Fits(l, c)
    /\ LastAtHand(c)
    /\ \A s \in Sessions : s[1] = c => Sess(l, s)

-----------------------------------------------------------------------------
(* The service: z is the place of its node, and whether its own reference  *)
(* has still to be given back: by the handler of the node that unbind      *)
(* deleted, or by Main when the node has failed.                           *)

ServicePlaces == [loc : {"table", "pipe", "queue", "stopped", "closing", "none"}, own : {0, 1}]

IsClosing(v) == v.pc \in Closing
IsStopped(v) == v.pc = "stopped"

Live(o) == {c \in Conns : o.target[c].state = "LIVE"}

ServiceNode(R, x, W, z) ==
    /\ NodeAt(R, x, listen_fd, z.loc, "listen")
    /\ z.loc = "stopped" <=> \E w \in Workers : IsStopped(W[w])
    /\ z.loc = "closing" <=> \E w \in Workers \ {Main} : IsClosing(W[w])
    /\ \A v, w \in Workers : IsStopped(W[v]) /\ IsStopped(W[w]) => v = w
    /\ \A v, w \in Workers \ {Main} : IsClosing(W[v]) /\ IsClosing(W[w]) => v = w

MainFits(z, m) ==
    /\ m \in {"off", "unbound", "closed"} \cup Closing
    /\ m = "unbound" => IF z.own = 1 THEN z.loc \in {"pipe", "queue", "closing"} ELSE z.loc = "none"
    /\ m # "unbound" => z.loc \in {"queue", "stopped", "none"} \/ (m = "off" /\ z.loc = "table")
    /\ m \in {"off"} \cup Closing => z.own = 1
    /\ m = "closed" => z.own = 0

ServiceFits(z, sv, n) ==
    /\ n \in Nat
    /\ sv.ref = n + z.own
    /\ sv.unbound = IF sv.ref = 0 THEN 1 ELSE 0

Serv(z) ==
    /\ ServiceNode(Results, poll, worker, z)
    /\ MainFits(z, worker[Main].pc)
    /\ ServiceFits(z, obj.service, Cardinality(Live(obj)))

PollerAt ==
    /\ at.pc = "wait" <=> at.fd = NONE
    /\ at.pc # "wait" => Ready(poll, at.fd, "read")

AliveOK ==
    /\ Len(obj.alive_list) <= 1
    /\ ~obj.service.listening /\ (\A w \in Workers : worker[w].pc # "drain")
          => obj.alive_list = <<>>

Global == Types /\ PollerAt /\ AliveOK /\ ~obj.bad

Inv(g, z) ==
    /\ Global
    /\ Serv(z)
    /\ \A c \in Conns : Conn(g[c], c)

IInv == \E g \in [Conns -> PlaceSet], z \in ServicePlaces : Inv(g, z)

-----------------------------------------------------------------------------
(* The objects.                                                            *)

\* The object o when the parts of c, the service and the list are these.
Upd(o, c, en, ta, sv, al) ==
    [entry |-> [o.entry EXCEPT ![c] = en], target |-> [o.target EXCEPT ![c] = ta],
     service |-> sv, alive_list |-> al, torn |-> o.torn, bad |-> o.bad]

\* What the operations do to the parts.
InState(en, st) == [en EXCEPT !.state = st]
WithRef(en, n) == [en EXCEPT !.ref = n]
NotIdle(ta) == [ta EXCEPT !.idle = FALSE]
SvLess(sv) ==
    [sv EXCEPT !.ref = sv.ref - 1,
               !.unbound = IF sv.ref - 1 = 0 THEN sv.unbound + 1 ELSE sv.unbound]
TargetLess(ta) ==
    IF ta.ref - 1 > 0 THEN [ta EXCEPT !.ref = ta.ref - 1]
    ELSE [ta EXCEPT !.ref = ta.ref - 1, !.state = "FREED"]
SvAfter(ta, sv) == IF ta.ref - 1 > 0 THEN sv ELSE SvLess(sv)

\* The parts of c in o can be used.
Usable(o, c) ==
    /\ o \in ObjSet /\ c \in Conns /\ ~o.bad
    /\ o.target[c].state = "LIVE" /\ o.target[c].ref # 0
    /\ o.service.ref # 0 /\ o.service.unbound = 0

\* The end of a handler.
EntryLess(en) ==
    IF en.ref - 1 > 0 THEN WithRef(en, en.ref - 1)
    ELSE InState(WithRef(en, en.ref - 1), "FREED")

-----------------------------------------------------------------------------
(* A thread goes on.                                                       *)

WorksOn(w, v) == worker' = [worker EXCEPT ![w] = v]

-----------------------------------------------------------------------------
(* What a step that is about c leaves to the others.                       *)

About(v, f) == v.pc \in OfConn \cup {"accepted"} /\ Subject(v) = f
OnlyAbout(v, c) == v.pc \in OfConn \cup {"accepted"} => Subject(v) = c

KeepsQueued(f) == \A l : Queued(Results, poll, l, f) => Queued(Results', poll', l, f)
KeepsWork(f) ==
    \A w \in Workers : worker'[w] = worker[w] \/ (~About(worker[w], f) /\ ~About(worker'[w], f))
KeepsObj(f) ==
    obj'.entry[f] = obj.entry[f] /\ obj'.target[f] = obj.target[f] /\ Alive(f)' = Alive(f)
KeepsRead(f) == At(f)' = At(f) /\ Reads(f)' = Reads(f)
KeepsSession(f) ==
    \A s \in Sessions : s[1] = f => session'[s] = session[s] /\ user'[s] = user[s]

Apart(f) == KeepsQueued(f) /\ KeepsWork(f) /\ KeepsObj(f) /\ KeepsRead(f) /\ KeepsSession(f)
Others(c) == \A f \in Conns : f # c => Apart(f)

-----------------------------------------------------------------------------
(* The frame of a step about one connection.                               *)

\* What a step may do to the pollers: it leaves the nodes and messages of all
\* but c alone.
PollStep(c) ==
    /\ poll' \in Group(Results)
    /\ \A f \in Fds : f # c => Leaves(Results, poll, poll', f)
    /\ \A f \in Conns : f # c => \A T, place :
          /\ Slot(poll.queue, MsgsOf(Results, f), T, place, "queue")
                => Slot(poll'.queue, MsgsOf(Results, f), T, place, "queue")
          /\ Slot(poll.queue, AccsOf(Results, f), T, place, "queue")
                => Slot(poll'.queue, AccsOf(Results, f), T, place, "queue")

Plain(v) == v.pc \notin Closing \cup {"stopped", "off", "unbound", "closed"}

WorkStep(c) ==
    \/ worker' = worker
    \/ \E w \in Workers, v \in WorkerSet :
          /\ WorksOn(w, v) /\ Plain(worker[w]) /\ Plain(v)
          /\ OnlyAbout(worker[w], c) /\ OnlyAbout(v, c)

ObjStep(c) == obj' \in ObjSet /\ ~obj'.bad /\ \A f \in Conns : f # c => KeepsObj(f)

ReadStep(c) ==
    /\ at' \in [pc : PollerPcs, fd : Conns \cup {NONE}]
    /\ reading' \in SUBSET Conns
    /\ PollerAt'
    /\ \A f \in Conns : f # c => KeepsRead(f)

SessStep(c) ==
    /\ mutex' \in [Conns -> Sessions \cup {NONE}]
    /\ session' \in [Sessions -> SessionSet]
    /\ user' \in [Sessions -> UserPcs]
    /\ \A f \in Conns : f # c => KeepsSession(f)

FlagStep == stop_flag' = stop_flag /\ stray' \in SUBSET Conns

-----------------------------------------------------------------------------
(* What is known of a connection, and when its objects can be used.        *)

\* The place of the tokens changes, but not with the threads.
SameHands(o, l) ==
    /\ \A p \in {"ended", "replied"} : o.loc = p <=> l.loc = p
    /\ o.msg = "request" <=> l.msg = "request"
    /\ o.acc = "accepted" <=> l.acc = "accepted"

-----------------------------------------------------------------------------
(* The steps of the poller thread: what they have in common.               *)

Polled == {"table", "pipe", "queue"}

\* The node moves among the places of the poller.
MovesOn(o, l) ==
    /\ l.op = o.op /\ l.msg = o.msg /\ l.acc = o.acc
    /\ l.loc = o.loc \/ (l.loc \in Polled /\ o.loc \in Polled)

\* What the poller thread goes on with.
Goes(c, p, e) ==
    /\ at' = [pc |-> p, fd |-> e]
    /\ \/ p = "wait" /\ e = NONE
       \/ p \in PollerPcs \ {"wait"} /\ e = c /\ Ready(poll', c, "read")
    /\ reading' \in {reading, reading \ {c}, reading \cup {c}}

PlacedAt(o, loc, op) == [o EXCEPT !.loc = loc, !.op = op]

\* From x to y the node of c goes from o to l, and the messages stay.
NodeGoes(x, y, o, c, l) ==
    /\ y \in Group(Results) /\ SameMessages(Results, x, y)
    /\ \A f \in Fds : f # c => Leaves(Results, x, y, f)
    /\ NodeAt(Results, y, c, l.loc, l.op)
    /\ l.msg = o.msg /\ l.acc = o.acc

PollerFrame == UNCHANGED <<users, worker, flags>>

-----------------------------------------------------------------------------
(* alive_list, which has no more than one element.                         *)

WithList(o, q) == [o EXCEPT !.alive_list = q]

-----------------------------------------------------------------------------
(* A session is created.                                                   *)

NextSeq(en) == [en EXCEPT !.seq = en.seq + 1, !.state = "RECEIVING"]
MoreRef(ta) == [ta EXCEPT !.ref = ta.ref + 1]

CreatesFor(o, c) ==
    [o EXCEPT !.entry[c].seq = @ + 1, !.entry[c].state = "RECEIVING", !.target[c].ref = @ + 1]

Created(en, ta, xn, xa) ==
    /\ xn \in EntrySet /\ xn.state = "RECEIVING" /\ xn.ref = en.ref /\ xn.seq = en.seq + 1
    /\ xa \in TargetSet /\ xa.state = ta.state /\ xa.ref = ta.ref + 1 /\ xa.idle = ta.idle

\* The message is being read, or not.
ReadsIf(a, r) ==
    /\ a \in {"append", "wait"}
    /\ r = IF a = "append" THEN "yes" ELSE "no"

\* The connection from which a session is created: what it was, and what it is.
Creates(o, l, n, k, m, en, xn, ta, xa, al, a, rd, r, p) ==
    /\ MovesOn(o, l) /\ o.loc \in {"table", "pipe"} /\ l.loc \in Polled
    /\ OneMore(m, k) /\ en \in EntrySet /\ ta \in TargetSet /\ al \in {"in", "out"}
    /\ Fitting(o, n, k, en, ta, al, "new", rd, p)
    /\ Created(en, ta, xn, xa) /\ ReadsIf(a, r)

\* What becomes of a session.
WithPassive(se, p) == [se EXCEPT !.passive = p]
WithTold(se, st) == [se EXCEPT !.told = Append(se.told, st)]

\* The session that comes next.
IsNext(s, c) == s = <<c, obj.entry[c].seq + 1>>

-----------------------------------------------------------------------------
(* A message goes to the queue.                                            *)

MessageGoes(x, y, r) ==
    /\ Steady(Results, x, y)
    /\ \A f \in Fds : Leaves(Results, x, y, f)
    /\ \A S, T, place : r \notin S /\ Slot(x.queue, S, T, place, "queue")
                           => Slot(y.queue, S, T, place, "queue")
    /\ \A S, T : r \in S /\ r \in T /\ None(x.queue, S) => Only(y.queue, S, T)

WithMsg(l, m) == [l EXCEPT !.msg = m]
WithAcc(l, m) == [l EXCEPT !.acc = m]

\* The parts of en, but for its state.
InStateOf(en, st, xn) ==
    xn \in EntrySet /\ xn.state = st /\ xn.ref = en.ref /\ xn.seq = en.seq

\* A request is complete.
Completes(o, l, n, k, en, xn, ta, al, rd, p) ==
    /\ o \in PlaceSet /\ o.loc \in {"table", "pipe"}
    /\ Fitting(o, n, k, en, ta, al, "append", rd, p)
    /\ l.loc = o.loc /\ l.op = o.op /\ l.acc = o.acc /\ l.msg = "queue"
    /\ InStateOf(en, "SUCCESS", xn) /\ en \in EntrySet

-----------------------------------------------------------------------------
(* The nodes of many descriptors move.                                     *)

MovedTo(l, loc) == [l EXCEPT !.loc = loc]
Early(from) == from \subseteq {"table", "pipe"}

\* Nothing but the pollers changes, and no node but those in from moves.
NodesMove(from) ==
    /\ Early(from)
    /\ poll' \in Group(Results) /\ SameMessages(Results, poll, poll')
    /\ MovesNodes(Results, poll, poll', 0, from)

-----------------------------------------------------------------------------
(* The listening socket.                                                   *)

\* The node of the listening socket goes from z to y.
ListenGoes(z, y) ==
    /\ y = z \/ (z.loc = "table" /\ y = [z EXCEPT !.loc = "queue"])
    /\ poll' \in Group(Results) /\ SameMessages(Results, poll, poll')
    /\ \A f \in Fds : f # listen_fd => Leaves(Results, poll, poll', f)
    /\ NodeAt(Results, poll', listen_fd, y.loc, "listen")

\* A connection is accepted.
NewTarget == [state |-> "LIVE", ref |-> 1, idle |-> FALSE]
OneMoreRef(sv) == [sv EXCEPT !.ref = @ + 1]
AcceptsFor(o, c) == [o EXCEPT !.service.ref = @ + 1, !.target[c] = NewTarget]

Accepts(o, l, n, k, en, ta, xa, al, a, rd, p) ==
    /\ o \in PlaceSet /\ Fitting(o, n, k, en, ta, al, a, rd, p)
    /\ en \in EntrySet /\ ta \in TargetSet /\ ta.state = "NONE"
    /\ l.loc = o.loc /\ l.op = o.op /\ l.msg = o.msg /\ l.acc = "queue"
    /\ xa.state = "LIVE" /\ xa.ref = 1 /\ xa.idle = FALSE

-----------------------------------------------------------------------------
(* The steps of the threads: what they have in common.                     *)

\* A thread at u goes to v, and what it has at hand from one place to another.
HandGoes(p, u, v, c, from, to) ==
    IF AtHand(u, p, c) THEN (IF AtHand(v, p, c) THEN to = from ELSE to # p)
    ELSE (IF AtHand(v, p, c) THEN from # p /\ to = p ELSE (to = p <=> from = p))

HandsGo(u, v, c, o, l) ==
    /\ HandGoes("ended", u, v, c, o.loc, l.loc) /\ HandGoes("replied", u, v, c, o.loc, l.loc)
    /\ HandGoes("request", u, v, c, o.msg, l.msg) /\ HandGoes("accepted", u, v, c, o.acc, l.acc)

\* The thread that steps, from worker[w] to v, with c at hand.
PlainWork(w, v, c) ==
    /\ w \in Workers /\ v \in WorkerSet /\ WorksOn(w, v) /\ Plain(worker[w]) /\ Plain(v)
    /\ OnlyAbout(worker[w], c) /\ OnlyAbout(v, c)

-----------------------------------------------------------------------------
(* handler_thread_routine takes a result.                                  *)

Takes(x, r, y, o, c) ==
    x \in Group(Results) /\ FirstTaken(x, r, y) /\ Queued(Results, x, o, c) /\ c \in Conns
      /\ o \in PlaceSet

\* The result is about c.
IsAbout(r, c) ==
    r.fd = c \/ (r.fd = listen_fd /\ r.state = "SUCCESS" /\ r.msg = c)

\* The thread that has taken r.
Took(r, pc, s) == [pc |-> pc, res |-> r, st |-> StateOf(r.state), s |-> s]

\* A thread w that is idle takes r and is then at v.
Routine(w, r, v) ==
    /\ w \in Workers /\ worker[w].pc = "get"
    /\ FirstTaken(poll, r, poll') /\ WorksOn(w, v) /\ v \in WorkerSet
    /\ obj' = obj /\ UNCHANGED <<pollers, users, flags>>

\* It had nothing at hand.
IdleGoes(v, c, o, l) ==
    /\ \A p \in {"ended", "replied"} : IF AtHand(v, p, c) THEN o.loc # p /\ l.loc = p
                                       ELSE (l.loc = p <=> o.loc = p)
    /\ IF AtHand(v, "request", c) THEN o.msg # "request" /\ l.msg = "request"
       ELSE (l.msg = "request" <=> o.msg = "request")
    /\ IF AtHand(v, "accepted", c) THEN o.acc # "accepted" /\ l.acc = "accepted"
       ELSE (l.acc = "accepted" <=> o.acc = "accepted")

\* A result that its last session is told is taken.
TookLast(r, pc, c, v) == v = Took(r, pc, LastSession(c)) /\ r.fd = c /\ pc \in Speaking

\* What handler_thread_routine does with r.
RoutineGoes(w, r, pc, s, o) ==
    /\ worker[w].pc = "get" /\ FirstTaken(poll, r, poll')
    /\ WorksOn(w, IF pc = "get" THEN Getting ELSE Took(r, pc, s))
    /\ obj' = o /\ UNCHANGED <<pollers, users, flags>>

-----------------------------------------------------------------------------
(* A thread goes on with what it has at hand.                              *)

\* A thread that speaks goes on with the result it has.
GoneOn(u, v, pc) == v.pc = pc /\ v.res = u.res

\* The place of a connection that was registered, and nothing else.
Plac(loc, op, m, a) == [loc |-> loc, op |-> op, msg |-> m, acc |-> a]

\* An accepted connection gets its entry.
Registers(o, l, n, k, en, xn, ta, al, rd, p) ==
    /\ o.acc = "accepted" /\ Fitting(o, n, k, en, ta, al, "wait", rd, p)
    /\ l.loc = "table" /\ l.op = "read" /\ l.msg = "none" /\ l.acc = "none"
    /\ xn.state = "CONNECTED" /\ xn.ref = 1 /\ xn.seq = 0

RegisterFor(o, c) == [o EXCEPT !.entry[c] = accept_conn]

\* The list stays, or becomes empty.
ListStep ==
    /\ obj'.service.listening = obj.service.listening
    /\ obj'.alive_list = obj.alive_list \/ obj'.alive_list = <<>>

\* The objects of a connection that could not be registered.
Drops(o, l, n, k, en, ta, xa, al, a, rd, p) ==
    /\ o.acc = "accepted" /\ Fitting(o, n, k, en, ta, al, a, rd, p)
    /\ l.loc = o.loc /\ l.op = o.op /\ l.msg = o.msg /\ l.acc = "none"
    /\ xa.state = "FREED" /\ xa.idle = ta.idle

\* A thread steps with the service.
ServiceWork(w, v) ==
    /\ w \in Workers /\ v \in WorkerSet /\ WorksOn(w, v)
    /\ worker[w].pc \notin OfConn \cup {"accepted"} /\ v.pc \notin OfConn \cup {"accepted"}
    /\ worker'[Main].pc = "unbound" <=> worker[Main].pc = "unbound"

\* The service alone is changed in o.
SvOnly(o, y, sv) ==
    /\ y \in ObjSet /\ ~y.bad /\ y.service = sv /\ y.alive_list = o.alive_list
    /\ \A f \in Conns : y.entry[f] = o.entry[f] /\ y.target[f] = o.target[f]

SvClosed(sv) == [sv EXCEPT !.listening = FALSE]

-----------------------------------------------------------------------------
(* drain: a kept connection is closed.                                     *)

Drains(o, l, n, k, en, xn, ta, a, rd, p) ==
    /\ MovesOn(o, l) /\ Fitting(o, n, k, en, ta, "in", a, rd, p)
    /\ InStateOf(en, "CLOSING", xn)

\* Its objects are then these.
Drained(c, y, e) ==
    y = Upd(obj, c, InState(obj.entry[c], "CLOSING"), obj.target[c], obj.service, e)

\* The empty list.
IsEmpty(e) == e \in Seq(Conns) /\ e = <<>>

-----------------------------------------------------------------------------
(* unbind and deinit: there may be other results than before.              *)

\* All results of x are in Q.
AllIn(x, Q) ==
    /\ \A k \in DOMAIN x.queue : x.queue[k] \in Q
    /\ \A i \in Pollers : \A k \in DOMAIN x.pipe[i] : x.pipe[i][k] \in Q

-----------------------------------------------------------------------------
(* The handlers of what ends, or of what was told.                         *)

\* A handler of c goes on: it is done, or has the same result at hand.
Continues(w, v, c) ==
    /\ w \in Workers /\ worker[w].pc \in OfConn /\ Subject(worker[w]) = c
    /\ v \in WorkerSet /\ WorksOn(w, v)
    /\ v.pc = "get" \/ (v.pc \in OfConn /\ v.res = worker[w].res)

HoldsRef(u) == u.pc \in {"handle", "unref"}

\* The connection has ended: its handler keeps the reference of the node.
Ended(o, l, n, m, k, en, ta, xa, al, rd, p) ==
    /\ o.loc = "ended" /\ Fitting(o, n, k, en, ta, al, "wait", rd, p) /\ OneMore(m, n)
    /\ l.loc = "none" /\ l.op = "read" /\ l.msg = o.msg /\ l.acc = o.acc
    /\ xa.state = ta.state /\ xa.ref = ta.ref /\ xa.idle = FALSE
    /\ en.state # "SUCCESS"

\* It has, while its message is not handled yet.
EndedEarly(o, l, n, k, en, xn, ta, al, rd, p) ==
    /\ o.loc = "ended" /\ Fitting(o, n, k, en, ta, al, "wait", rd, p)
    /\ l.loc = "none" /\ l.op = "read" /\ l.msg = o.msg /\ l.acc = o.acc
    /\ en.state = "SUCCESS" /\ InStateOf(en, "CLOSING", xn)

\* Whose references are kept by a thread at v.
EndsAt(w, v, c) ==
    /\ w \in Workers /\ AtHand(worker[w], "ended", c) /\ Continues(w, v, c)
    /\ UNCHANGED <<poll, pollers, users, flags>>

\* The session s is not deleted before or after: it is at se now.
SessionTurns(s, se) ==
    /\ s \in Sessions /\ se \in SessionSet /\ session' = [session EXCEPT ![s] = se]
    /\ session[s].passive \in 1 .. 3 <=> se.passive \in 1 .. 3
    /\ session[s].passive = 0 <=> se.passive = 0
    /\ session[s].passive \in {3, 4} => se.passive \in {3, 4}

\* The session is to be told x by the thread that speaks for it.
GoesTell(w, x) == worker' = [worker EXCEPT ![w].pc = "handle", ![w].st = x]

\* The entry has the reference of idle_list.
IdleFor(o, c) == [o EXCEPT !.entry[c].ref = @ + 1, !.target[c].idle = TRUE]
IsIdle(ta) == [ta EXCEPT !.idle = TRUE]

\* The session of a request can be replied to, when the connection has not ended.
Requested(o, l, n, m, k, en, xn, ta, xa, al, a, rd, p) ==
    /\ o.msg = "request" /\ Fitting(o, n, k, en, ta, al, a, rd, p) /\ OneMore(m, n)
    /\ l.loc = o.loc /\ l.op = o.op /\ l.acc = o.acc /\ l.msg = "none"
    /\ xa.state = ta.state /\ xa.ref = ta.ref /\ xn.seq = en.seq /\ en.ref \in Nat
    /\ \/ en.state = "SUCCESS" /\ xn.state = "IDLE" /\ xn.ref = en.ref + 1 /\ xa.idle = TRUE
       \/ en.state # "SUCCESS" /\ xn.state = en.state /\ xn.ref = en.ref /\ xa.idle = ta.idle

-----------------------------------------------------------------------------
(* A connection is kept alive, or closed.                                  *)

\* The entry en, but for its state and references.
EntryIs(en, st, n, xn) == xn \in EntrySet /\ xn.state = st /\ xn.ref = n /\ xn.seq = en.seq

IsOne(q, c) == q \in Seq(Conns) /\ q = <<c>>

MoreEntry(o, c) == [o EXCEPT !.entry[c].ref = @ + 1]

CloseMore(o, c) == [SetState(o, c, "CLOSING") EXCEPT !.entry[c].ref = @ + 1]

\* The reply was written: the connection is closed, or is let go.
Replied(o, l, n, m, k, en, xn, ta, al, rd, p) ==
    /\ o.loc = "replied" /\ Fitting(o, n, k, en, ta, al, "wait", rd, p) /\ OneMore(m, n)
    /\ l.msg = o.msg /\ l.acc = o.acc /\ xn.seq = en.seq /\ en.ref \in Nat /\ al \in {"in", "out"}
    /\ \/ l.loc = "none" /\ xn.state = en.state /\ xn.ref = en.ref
       \/ l.loc \in Polled /\ l.op = "read" /\ xn.state = "CLOSING" /\ xn.ref = en.ref + 1

\* What a thread whose reply was written leaves behind.
RepliedTo(o, l, n, m, k, c, xn) ==
    /\ PollStep(c) /\ Queued(Results, poll', l, c) /\ poll'.batch = poll.batch
    /\ obj' = Upd(obj, c, xn, obj.target[c], obj.service, obj.alive_list)
    /\ Replied(o, l, n, m, k, obj.entry[c], xn, obj.target[c], Alive(c), Reads(c), Passive(c))

-----------------------------------------------------------------------------
(* A session is told, and the handler's reference is given back.           *)

\* The phases that a session goes through when it is told x.
Hears(se, x, u, y) ==
    IF x = "TOREPLY" THEN Asking(se) /\ y = "toreply"
    ELSE (Receiving(se) \/ Sending(se, u)) /\ y = u

\* A thread goes on with the reference it has of c, and nothing else changes but
\* for what its session was told.
HasTold(w, v, c) ==
    /\ v.pc = "unref" /\ worker[w].pc = "handle" /\ Continues(w, v, c)
    /\ UNCHANGED <<poll, pollers, obj, mutex, flags>>

\* A reference of the entry is given back; with the last one, that of the target.
ReleasedTo(en, ta, xn, xa) ==
    /\ en.ref \in Nat /\ en.ref # 0 /\ ta.ref \in Nat /\ xn.seq = en.seq /\ xa.idle = ta.idle
    /\ en.state \notin {"NONE", "FREED"} /\ ta.state = "LIVE"
    /\ IF en.ref = 1
       THEN /\ xn.state = "FREED" /\ xn.ref = 0 /\ xa.ref = ta.ref - 1
            /\ xa.state = IF ta.ref = 1 THEN "FREED" ELSE "LIVE"
       ELSE /\ xn.state = en.state /\ xn.ref = en.ref - 1 /\ xa.ref = ta.ref /\ xa.state = ta.state

Releases(l, n, m, k, en, xn, ta, xa, al, a, rd, p) ==
    /\ l \in PlaceSet /\ Fitting(l, n, k, en, ta, al, a, rd, p) /\ OneMore(n, m)
    /\ al \in {"in", "out"} /\ (l.loc = "none" => a = "wait") /\ ReleasedTo(en, ta, xn, xa)

-----------------------------------------------------------------------------
(* The users: what their steps have in common.                             *)

\* The session and its user go from se and u to sn and v.
Turns(se, u, sn, v) ==
    /\ se.passive = 0 <=> sn.passive = 0
    /\ se.passive \in {3, 4} => sn.passive \in {3, 4}
    /\ Phases(sn, v)
    /\ Receiving(se) => Receiving(sn)
    /\ Sending(se, u) => Sending(sn, v)
    /\ Asking(se) => Asking(sn)

\* It is told nothing by a thread.
Unspoken(se, u) == ~Receiving(se) /\ ~Sending(se, u) /\ ~Asking(se)

\* The session s and its user are at sn and u now.
UserTurns(s, sn, u) ==
    /\ s \in Sessions /\ sn \in SessionSet /\ u \in UserPcs
    /\ session' = [session EXCEPT ![s] = sn] /\ user' = [user EXCEPT ![s] = u]
    /\ mutex' \in [Conns -> Sessions \cup {NONE}]
    /\ Turns(session[s], user[s], sn, u)

\* The references that the users hold, and the sessions that are not deleted.
UserHolds(u) == u \in {"sent", "handle", "unref"}

\* The target is not idle any more.
NotIdleFor(o, c) == [o EXCEPT !.target[c].idle = FALSE]
TargetIs(ta, xa) == xa \in TargetSet /\ xa.state = ta.state /\ xa.ref = ta.ref /\ xa.idle = FALSE

\* The connection of which the user of the last session takes the entry from
\* idle_list: to reply, or to shut it down.
SentTo(o, l, en, xn, al, xl) ==
    /\ xn.ref = en.ref + 1
    /\ \/ xn.state = "CLOSING" /\ MovesOn(o, l) /\ xl = al
       \/ xn.state = "KEEPALIVE" /\ l = o /\ xl = "in"
       \/ xn.state = "IDLE" /\ l = o /\ xl = al
SendingTo(o, l, en, xn, al, xl) ==
    /\ xn.ref = en.ref /\ xl = al
    /\ \/ /\ xn.state = "IDLE" /\ o.loc = "table" /\ l.loc = "table" /\ l.op = "write"
          /\ l.msg = o.msg /\ l.acc = o.acc
       \/ xn.state = "RECEIVING" /\ l = o /\ o.loc # "table"
       \/ xn.state = "ERROR" /\ MovesOn(o, l)
OverTo(o, l, en, xn, al, xl) ==
    xn.ref = en.ref /\ xn.state = "CLOSING" /\ MovesOn(o, l) /\ xl = al
TakesIdle(o, l, n, m, k, en, xn, ta, xa, al, xl, a, rd, u) ==
    /\ o \in PlaceSet /\ Fitting(o, n, k, en, ta, al, a, rd, 2) /\ ta.idle
    /\ TargetIs(ta, xa) /\ xn.seq = en.seq /\ en.ref \in Nat /\ al \in {"in", "out"}
    /\ \/ u = "sent" /\ OneMore(m, n) /\ SentTo(o, l, en, xn, al, xl)
       \/ u = "sending" /\ m = n /\ SendingTo(o, l, en, xn, al, xl)
       \/ u = "over" /\ m = n /\ OverTo(o, l, en, xn, al, xl)

\* What a user that takes the entry from idle_list leaves behind.
TakesFrom(o, l, n, m, k, c, xn, xa, q, u) ==
    /\ PollStep(c) /\ Queued(Results, poll', l, c) /\ poll'.batch = poll.batch
    /\ obj' = Upd(obj, c, xn, xa, obj.service, q)
    /\ TakesIdle(o, l, n, m, k, obj.entry[c], xn, obj.target[c], xa, Alive(c),
                 IF c \in ToSet(q) THEN "in" ELSE "out", At(c), Reads(c), u)
    /\ q = obj.alive_list \/ (IsOne(q, c) /\ obj.service.listening)
    /\ \A f \in Conns : f # c => (f \in ToSet(q) <=> f \in ToSet(obj.alive_list))

\* Its session is not to be replied to any more.
Answers(s, sn, u) ==
    /\ MayReply(s) /\ UserTurns(s, sn, u) /\ sn.passive = 3
    /\ Unspoken(session[s], user[s]) /\ (u = "sending" => Sending(sn, u))

\* The last session changes, and the objects stay.
Later(l, n, k, en, ta, al, a, rd) ==
    Fitting(l, n, k, en, ta, al, a, rd, 2) /\ l \in PlaceSet

\* The entry is taken from idle_list, and the poller's part is done: it is sent.
TakenBy(s, sn, u, c) ==
    /\ Answers(s, sn, u) /\ s[1] = c /\ s \in Sessions /\ c \in Conns /\ obj.target[c].idle
    /\ UNCHANGED <<pollers, worker, stop_flag>> /\ stray' \in SUBSET Conns

-----------------------------------------------------------------------------
(* A user replies.                                                         *)

\* What a reply does when the entry is in idle_list.
Replies(s, c, y) ==
    \/ /\ GoUser(s, "sent") /\ poll' = mpoller_del(poll, c)
       /\ obj' = SetState(MoreEntry(y, c), c, "CLOSING")
    \/ /\ GoUser(s, "sent") /\ poll' = poll
       /\ \/ obj.service.listening /\ obj.alive_list = <<>> /\ obj' = AliveAdd(y, c)
          \/ obj' = UseService(MoreEntry(y, c))
    \/ /\ GoUser(s, "sending")
       /\ \/ Registered(poll, c) /\ poll' = mpoller_mod(poll, c, "write") /\ obj' = y
          \/ ~Registered(poll, c) /\ poll' = poll /\ obj' = SetState(y, c, "RECEIVING")
    \/ /\ GoUser(s, "sending") /\ poll' = mpoller_del(poll, c) /\ obj' = SetState(y, c, "ERROR")

\* What is common to its branches: u is what the user does next.
ReplyFrame(s, c, u) ==
    /\ s \in Sessions /\ c \in Conns /\ s[1] = c /\ obj.target[c].idle
    /\ MayReply(s) /\ session' = [session EXCEPT ![s].passive = 3]
    /\ mutex' = [mutex EXCEPT ![c] = s] /\ UNCHANGED <<pollers, worker, stop_flag>>
    /\ stray' \in SUBSET Conns /\ GoUser(s, u) /\ u \in {"sent", "sending"}

-----------------------------------------------------------------------------
(* The rest of a reply.                                                    *)

\* The objects are the same, but for what is noted of the mutex.
SameObjects ==
    /\ obj' \in ObjSet /\ obj'.entry = obj.entry /\ obj'.target = obj.target
    /\ obj'.service = obj.service /\ obj'.alive_list = obj.alive_list /\ obj'.bad = obj.bad

-----------------------------------------------------------------------------
(* A session is shut down, and deleted.                                    *)

\* A session of the connection is deleted: k were left, and j are now.
Deletes(l, n, k, j, en, ta, xa, al, a, rd, p, q) ==
    /\ l \in PlaceSet /\ Fitting(l, n, k, en, ta, al, a, rd, p) /\ OneMore(k, j)
    /\ ta.state = "LIVE" /\ ta.ref \in Nat /\ xa.ref = ta.ref - 1 /\ xa.idle = ta.idle
    /\ xa.state = IF ta.ref = 1 THEN "FREED" ELSE "LIVE"
    /\ q = p \/ (q = 4 /\ ~Owes(l, en) /\ l.loc # "replied" /\ l.msg # "request")

\* The user deletes s, which nobody speaks for.
Deletion(s, sn, u, c) ==
    /\ UserTurns(s, sn, u) /\ s \in Sessions /\ c \in Conns /\ s[1] = c
    /\ sn.passive = 4 /\ session[s].passive \in 1 .. 3
    /\ Unspoken(session[s], user[s]) /\ (UserHolds(u) <=> UserHolds(user[s]))
    /\ UNCHANGED <<pollers, worker, flags>>

\* The objects and the node when TargetShutdown, if any, is done.
Left(o, l, n, k, en, xn, xa, al, a, rd, p) ==
    /\ l \in PlaceSet /\ Fitting(l, n, k, xn, xa, al, a, rd, p) /\ SameHands(o, l)
    /\ Owes(l, xn) => Owes(o, en)
    /\ xn \in EntrySet /\ xn.seq = en.seq
    /\ xa \in TargetSet /\ xa.state = "LIVE" /\ xa.ref # 0

-----------------------------------------------------------------------------
(* The initial state.                                                      *)

\* At first no connection has a token, and the listening socket is registered.
NoPlace == [loc |-> "none", op |-> "read", msg |-> "none", acc |-> "none"]

-----------------------------------------------------------------------------
(* Short names.                                                            *)

\* Where the tokens of each connection may be.
Places == [Conns -> PlaceSet]

\* The references of c that threads hold, and its sessions not deleted.
Holding(c) == Holders(worker, user, c)
Open(c) == Cardinality(Undeleted(c))

\* The parts of o, one by one.
Whole(o) == [entry |-> o.entry, target |-> o.target, service |-> o.service,
             alive_list |-> o.alive_list, torn |-> o.torn, bad |-> o.bad]

=============================================================================
