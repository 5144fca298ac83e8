-------------------------- MODULE CommServiceProof --------------------------
(***************************************************************************)
(* Proofs about the serving side of the communicator, for any number of    *)
(* connections, requests and handler threads: the invariant IInv of        *)
(* CommServiceInv is inductive, and what follows from it.                  *)
(***************************************************************************)
EXTENDS CommServiceInv

USE DEF Places, Holding, Open, Whole

----
(* Constants, and counting. *)

LEMMA Constants ==
  /\ Conns \subseteq Fds /\ listen_fd \in Fds /\ listen_fd \notin Conns /\ NONE \notin Fds
  /\ IsFiniteSet(Conns) /\ IsFiniteSet(Workers) /\ IsFiniteSet(Sessions)
  /\ Main \in Workers /\ Handlers \subseteq Workers
  /\ Pollers = {0} /\ \A f \in Fds : Index(f) = 0
  /\ MaxSeq \in Nat
<1>1. /\ Fds \subseteq Nat /\ IsFiniteSet(Fds) /\ NONE \notin Fds
      /\ listen_fd \in Fds /\ MaxSeq \in Nat /\ nthreads = 1 /\ IsFiniteSet(Handlers)
  BY MPollerAssumption, ServiceAssumption
<1>2. IsFiniteSet(Conns)
  BY <1>1, FS_Subset DEF Conns
<1>3. IsFiniteSet(Workers)
  <2>1. IsFiniteSet({Main})
    BY FS_Singleton
  <2> QED  BY <1>1, <2>1, FS_Union DEF Workers
<1>4. IsFiniteSet(Sessions)
  <2>1. IsFiniteSet(1 .. MaxSeq)
    BY <1>1, FS_Interval
  <2> QED  BY <1>2, <2>1, FS_Product DEF Sessions
<1>5. Pollers = {0}
  BY <1>1 DEF Pollers
<1>6. \A f \in Fds : Index(f) = 0
  BY <1>1 DEF Index
<1> QED  BY <1>1, <1>2, <1>3, <1>4, <1>5, <1>6 DEF Conns, Workers

\* The members of a session.
LEMMA SessionParts ==
  \A s \in Sessions : /\ s[1] \in Conns /\ s[2] \in Nat /\ s[2] # 0 /\ s[2] <= MaxSeq
                      /\ s = <<s[1], s[2]>>
  BY Constants DEF Sessions

LEMMA SessionOf ==
  ASSUME NEW c \in Conns, NEW k \in Nat, k # 0, k <= MaxSeq
  PROVE  <<c, k>> \in Sessions /\ <<c, k>>[1] = c /\ <<c, k>>[2] = k
  BY Constants DEF Sessions

----
(* The objects. *)

LEMMA ObjFields ==
  ASSUME NEW o \in ObjSet
  PROVE  /\ o.entry \in [Conns -> EntrySet] /\ o.target \in [Conns -> TargetSet]
         /\ o.service \in ServiceSet /\ o.alive_list \in Seq(Conns)
         /\ o.torn \in BOOLEAN /\ o.bad \in BOOLEAN
         /\ o = Whole(o)
  BY DEF ObjSet

\* Nothing is noted when what is used is there.
LEMMA UseIsGood ==
  ASSUME NEW o \in ObjSet, ~o.bad
  PROVE  /\ \A c \in Conns : o.entry[c].state \notin {"NONE", "FREED"} => UseEntry(o, c) = o
         /\ \A c \in Conns : o.target[c].state = "LIVE" => UseTarget(o, c) = o
         /\ o.service.unbound = 0 => UseService(o) = o
<1>1. [o EXCEPT !.bad = FALSE] = o
  BY ObjFields
<1>2. ASSUME NEW c \in Conns, o.entry[c].state \notin {"NONE", "FREED"} PROVE UseEntry(o, c) = o
  <2>1. (o.bad \/ o.entry[c].state \in {"NONE", "FREED"}) = FALSE
    BY <1>2
  <2> QED  BY <1>1, <2>1 DEF UseEntry
<1>3. ASSUME NEW c \in Conns, o.target[c].state = "LIVE" PROVE UseTarget(o, c) = o
  <2>1. (o.bad \/ o.target[c].state # "LIVE") = FALSE
    BY <1>3
  <2> QED  BY <1>1, <2>1 DEF UseTarget
<1>4. ASSUME o.service.unbound = 0 PROVE UseService(o) = o
  <2>1. (o.bad \/ o.service.unbound > 0) = FALSE
    BY <1>4
  <2> QED  BY <1>1, <2>1 DEF UseService
<1> QED  BY <1>2, <1>3, <1>4

LEMMA UpdParts ==
  ASSUME NEW o \in ObjSet, NEW c \in Conns, NEW en \in EntrySet, NEW ta \in TargetSet,
         NEW sv \in ServiceSet, NEW al \in Seq(Conns), NEW y, y = Upd(o, c, en, ta, sv, al)
  PROVE  /\ y \in ObjSet /\ y.bad = o.bad /\ y.entry[c] = en /\ y.target[c] = ta
         /\ y.service = sv /\ y.alive_list = al
         /\ \A f \in Conns : f # c => y.entry[f] = o.entry[f] /\ y.target[f] = o.target[f]
<1>1. /\ o.entry \in [Conns -> EntrySet] /\ o.target \in [Conns -> TargetSet]
      /\ o.torn \in BOOLEAN /\ o.bad \in BOOLEAN
  BY ObjFields
<1>2. [o.entry EXCEPT ![c] = en] \in [Conns -> EntrySet]
  BY <1>1
<1>3. [o.target EXCEPT ![c] = ta] \in [Conns -> TargetSet]
  BY <1>1
<1> QED  BY <1>1, <1>2, <1>3 DEF Upd, ObjSet

LEMMA UpdSame ==
  ASSUME NEW o \in ObjSet, NEW c \in Conns
  PROVE  Upd(o, c, o.entry[c], o.target[c], o.service, o.alive_list) = o
<1>1. /\ o.entry \in [Conns -> EntrySet] /\ o.target \in [Conns -> TargetSet]
      /\ o = Whole(o)
  BY ObjFields
<1>2. [o.entry EXCEPT ![c] = o.entry[c]] = o.entry /\ [o.target EXCEPT ![c] = o.target[c]] = o.target
  BY <1>1
<1> QED  BY <1>1, <1>2 DEF Upd

LEMMA UpdTwice ==
  ASSUME NEW o \in ObjSet, NEW c \in Conns, NEW en, NEW ta, NEW sv, NEW al,
         NEW xn, NEW xa, NEW xv, NEW xl
  PROVE  Upd(Upd(o, c, xn, xa, xv, xl), c, en, ta, sv, al) = Upd(o, c, en, ta, sv, al)
<1>1. /\ o.entry \in [Conns -> EntrySet] /\ o.target \in [Conns -> TargetSet]
  BY ObjFields
<1>2. /\ [[o.entry EXCEPT ![c] = xn] EXCEPT ![c] = en] = [o.entry EXCEPT ![c] = en]
      /\ [[o.target EXCEPT ![c] = xa] EXCEPT ![c] = ta] = [o.target EXCEPT ![c] = ta]
  BY <1>1
<1> QED  BY <1>2 DEF Upd

LEMMA SetStateIs ==
  ASSUME NEW o, NEW c, Usable(o, c), o.entry[c].state \notin {"NONE", "FREED"}, NEW st
  PROVE  SetState(o, c, st)
           = Upd(o, c, InState(o.entry[c], st), o.target[c], o.service, o.alive_list)
<1>1. UseEntry(o, c) = o
  BY UseIsGood DEF Usable
<1>2. /\ o.entry \in [Conns -> EntrySet] /\ o.target \in [Conns -> TargetSet] /\ c \in Conns
      /\ o = Whole(o)
  BY ObjFields DEF Usable
<1>3. [o.target EXCEPT ![c] = o.target[c]] = o.target
  BY <1>2
<1>4. [o EXCEPT !.entry[c].state = st]
        = [entry |-> [o.entry EXCEPT ![c] = InState(o.entry[c], st)], target |-> o.target,
           service |-> o.service, alive_list |-> o.alive_list, torn |-> o.torn, bad |-> o.bad]
  BY <1>2 DEF InState
<1> QED  BY <1>1, <1>3, <1>4 DEF SetState, Upd

LEMMA ServiceDecrefParts ==
  ASSUME NEW o \in ObjSet, ~o.bad, o.service.unbound = 0
  PROVE  ServiceDecref(o)
           = [entry |-> o.entry, target |-> o.target, service |-> SvLess(o.service),
              alive_list |-> o.alive_list, torn |-> o.torn, bad |-> o.bad]
<1>1. UseService(o) = o
  BY UseIsGood
<1>2. /\ o.service \in ServiceSet
      /\ o = Whole(o)
  BY ObjFields
<1> QED
  <2> DEFINE n == o.service.ref - 1
             u == IF n = 0 THEN o.service.unbound + 1 ELSE o.service.unbound
  <2>1. ServiceDecref(o) = [o EXCEPT !.service.ref = n, !.service.unbound = u]
    <3>1. [o EXCEPT !.service.ref = n].service.unbound = o.service.unbound
      BY <1>2 DEF ServiceSet
    <3> QED  BY <1>1, <1>2, <3>1 DEF ServiceDecref
  <2>2. SvLess(o.service) = [o.service EXCEPT !.ref = n, !.unbound = u]
    BY DEF SvLess
  <2> HIDE DEF n, u
  <2>3. [o EXCEPT !.service.ref = n, !.service.unbound = u]
          = [entry |-> o.entry, target |-> o.target,
             service |-> [o.service EXCEPT !.ref = n, !.unbound = u],
             alive_list |-> o.alive_list, torn |-> o.torn, bad |-> o.bad]
    <3> DEFINE x == [o EXCEPT !.service.ref = n]
    <3>1. x = [entry |-> o.entry, target |-> o.target, service |-> [o.service EXCEPT !.ref = n],
               alive_list |-> o.alive_list, torn |-> o.torn, bad |-> o.bad]
      BY <1>2
    <3>2. [o EXCEPT !.service.ref = n, !.service.unbound = u] = [x EXCEPT !.service.unbound = u]
      OBVIOUS
    <3> HIDE DEF x
    <3>3. [x EXCEPT !.service.unbound = u]
            = [entry |-> o.entry, target |-> o.target, service |-> [x.service EXCEPT !.unbound = u],
               alive_list |-> o.alive_list, torn |-> o.torn, bad |-> o.bad]
      BY <3>1
    <3>4. [x.service EXCEPT !.unbound = u] = [o.service EXCEPT !.ref = n, !.unbound = u]
      BY <3>1
    <3> QED  BY <3>2, <3>3, <3>4
  <2> QED  BY <2>1, <2>2, <2>3

LEMMA ServiceDecrefIs ==
  ASSUME NEW o \in ObjSet, ~o.bad, o.service.unbound = 0, NEW c \in Conns
  PROVE  ServiceDecref(o) = Upd(o, c, o.entry[c], o.target[c], SvLess(o.service), o.alive_list)
<1>1. o.entry \in [Conns -> EntrySet] /\ o.target \in [Conns -> TargetSet]
  BY ObjFields
<1>2. [o.entry EXCEPT ![c] = o.entry[c]] = o.entry /\ [o.target EXCEPT ![c] = o.target[c]] = o.target
  BY <1>1
<1> QED  BY <1>2, ServiceDecrefParts DEF Upd

LEMMA TargetDecrefIs ==
  ASSUME NEW o, NEW c, Usable(o, c)
  PROVE  TargetDecref(o, c) = Upd(o, c, o.entry[c], TargetLess(o.target[c]),
                                  SvAfter(o.target[c], o.service), o.alive_list)
<1> DEFINE ta == o.target[c]
           y == [o EXCEPT !.target[c].ref = ta.ref - 1]
           z == [y EXCEPT !.target[c].state = "FREED"]
<1>1. UseTarget(o, c) = o
  BY UseIsGood DEF Usable
<1>2. /\ o.entry \in [Conns -> EntrySet] /\ o.target \in [Conns -> TargetSet] /\ c \in Conns
      /\ o.service \in ServiceSet /\ o.alive_list \in Seq(Conns) /\ o \in ObjSet
      /\ o = Whole(o)
  BY ObjFields DEF Usable
<1>3. ta \in TargetSet /\ ta.ref \in Nat \ {0} /\ ta.ref - 1 \in Nat
  BY <1>2 DEF TargetSet, Usable
<1>4. /\ y = Upd(o, c, o.entry[c], [ta EXCEPT !.ref = ta.ref - 1], o.service, o.alive_list)
      /\ z = Upd(o, c, o.entry[c], [ta EXCEPT !.ref = ta.ref - 1, !.state = "FREED"], o.service,
                 o.alive_list)
      /\ y.target[c].ref = ta.ref - 1
  <2>1. [o.entry EXCEPT ![c] = o.entry[c]] = o.entry
    BY <1>2
  <2>2. /\ y = [entry |-> o.entry, target |-> [o.target EXCEPT ![c] = [ta EXCEPT !.ref = ta.ref - 1]],
                service |-> o.service, alive_list |-> o.alive_list, torn |-> o.torn, bad |-> o.bad]
    BY <1>2
  <2>3. y.target[c] = [ta EXCEPT !.ref = ta.ref - 1] /\ y.target[c].ref = ta.ref - 1
    BY <1>2, <1>3, <2>2 DEF TargetSet
  <2>4. z = [entry |-> o.entry,
             target |-> [o.target EXCEPT ![c] = [ta EXCEPT !.ref = ta.ref - 1, !.state = "FREED"]],
             service |-> o.service, alive_list |-> o.alive_list, torn |-> o.torn, bad |-> o.bad]
    <3> HIDE DEF y
    <3>1. [y EXCEPT !.target[c].state = "FREED"]
            = [entry |-> o.entry,
               target |-> [y.target EXCEPT ![c] = [y.target[c] EXCEPT !.state = "FREED"]],
               service |-> o.service, alive_list |-> o.alive_list, torn |-> o.torn, bad |-> o.bad]
      BY <2>2
    <3>2. [y.target EXCEPT ![c] = [y.target[c] EXCEPT !.state = "FREED"]]
            = [o.target EXCEPT ![c] = [y.target[c] EXCEPT !.state = "FREED"]]
      BY <1>2, <2>2
    <3>3. [y.target[c] EXCEPT !.state = "FREED"] = [ta EXCEPT !.ref = ta.ref - 1, !.state = "FREED"]
      BY <2>3
    <3> QED  BY <3>1, <3>2, <3>3
  <2> QED  BY <2>1, <2>2, <2>3, <2>4 DEF Upd
<1>5. TargetDecref(o, c) = IF ta.ref - 1 > 0 THEN y ELSE ServiceDecref(z)
  <2>1. [UseTarget(o, c) EXCEPT !.target[c].ref = @ - 1] = y
    BY <1>1
  <2>2. TargetDecref(o, c) = IF y.target[c].ref > 0 THEN y ELSE ServiceDecref(z)
    <3> DEFINE D(x) == IF x.target[c].ref > 0 THEN x
                       ELSE ServiceDecref([x EXCEPT !.target[c].state = "FREED"])
    <3>1. TargetDecref(o, c) = D([UseTarget(o, c) EXCEPT !.target[c].ref = @ - 1])
      BY Zenon DEF TargetDecref
    <3>2. D([UseTarget(o, c) EXCEPT !.target[c].ref = @ - 1]) = D(y)
      <4> HIDE DEF D, y
      <4> QED  BY <2>1
    <3> QED  BY <3>1, <3>2
  <2> QED  BY <1>4, <2>2
<1>6. CASE ta.ref - 1 > 0
  BY <1>4, <1>5, <1>6 DEF TargetLess, SvAfter
<1>7. CASE ~(ta.ref - 1 > 0)
  <2> DEFINE ft == [ta EXCEPT !.ref = ta.ref - 1, !.state = "FREED"]
  <2>1. ft \in TargetSet /\ o.entry[c] \in EntrySet
    BY <1>2, <1>3 DEF TargetSet
  <2> HIDE DEF ft
  <2>2. /\ z \in ObjSet /\ z.bad = o.bad /\ z.entry[c] = o.entry[c] /\ z.target[c] = ft
        /\ z.service = o.service /\ z.alive_list = o.alive_list
        /\ z = Upd(o, c, o.entry[c], ft, o.service, o.alive_list)
    <3>1. z = Upd(o, c, o.entry[c], ft, o.service, o.alive_list)
      BY <1>4 DEF ft
    <3> HIDE DEF z
    <3> QED  BY <1>2, <2>1, <3>1, UpdParts
  <2> HIDE DEF z
  <2>3. ServiceDecref(z) = Upd(z, c, o.entry[c], ft, SvLess(o.service), o.alive_list)
    BY <1>2, <2>2, ServiceDecrefIs DEF Usable
  <2>4. Upd(z, c, o.entry[c], ft, SvLess(o.service), o.alive_list)
          = Upd(o, c, o.entry[c], ft, SvLess(o.service), o.alive_list)
    BY <1>2, <2>2, UpdTwice
  <2> QED  BY <1>5, <1>7, <2>3, <2>4 DEF TargetLess, SvAfter, ft
<1> QED  BY <1>6, <1>7

\* Single parts of o that are replaced.
LEMMA ExceptEntry ==
  ASSUME NEW o \in ObjSet, NEW c \in Conns, NEW v
  PROVE  /\ [o EXCEPT !.entry[c] = v] = Upd(o, c, v, o.target[c], o.service, o.alive_list)
         /\ [o EXCEPT !.entry[c].state = v]
              = Upd(o, c, InState(o.entry[c], v), o.target[c], o.service, o.alive_list)
         /\ [o EXCEPT !.entry[c].ref = v]
              = Upd(o, c, WithRef(o.entry[c], v), o.target[c], o.service, o.alive_list)
         /\ [o EXCEPT !.entry[c].seq = v]
              = Upd(o, c, [o.entry[c] EXCEPT !.seq = v], o.target[c], o.service, o.alive_list)
<1>1. /\ o.target \in [Conns -> TargetSet]
      /\ o = Whole(o)
  BY ObjFields
<1>2. [o.target EXCEPT ![c] = o.target[c]] = o.target
  BY <1>1
<1>3. \A E : [o EXCEPT !.entry = E]
        = [entry |-> E, target |-> o.target, service |-> o.service,
           alive_list |-> o.alive_list, torn |-> o.torn, bad |-> o.bad]
  BY <1>1
<1>4. \A x : [o EXCEPT !.entry = [o.entry EXCEPT ![c] = x]]
               = Upd(o, c, x, o.target[c], o.service, o.alive_list)
  BY <1>2, <1>3 DEF Upd
<1> QED  BY <1>4 DEF InState, WithRef

LEMMA ExceptTarget ==
  ASSUME NEW o \in ObjSet, NEW c \in Conns, NEW v
  PROVE  /\ [o EXCEPT !.target[c] = v] = Upd(o, c, o.entry[c], v, o.service, o.alive_list)
         /\ [o EXCEPT !.target[c].ref = v]
              = Upd(o, c, o.entry[c], [o.target[c] EXCEPT !.ref = v], o.service, o.alive_list)
         /\ [o EXCEPT !.target[c].idle = v]
              = Upd(o, c, o.entry[c], [o.target[c] EXCEPT !.idle = v], o.service, o.alive_list)
<1>1. /\ o.entry \in [Conns -> EntrySet]
      /\ o = Whole(o)
  BY ObjFields
<1>2. [o.entry EXCEPT ![c] = o.entry[c]] = o.entry
  BY <1>1
<1>3. \A T : [o EXCEPT !.target = T]
        = [entry |-> o.entry, target |-> T, service |-> o.service,
           alive_list |-> o.alive_list, torn |-> o.torn, bad |-> o.bad]
  BY <1>1
<1>4. \A x : [o EXCEPT !.target = [o.target EXCEPT ![c] = x]]
               = Upd(o, c, o.entry[c], x, o.service, o.alive_list)
  BY <1>2, <1>3 DEF Upd
<1> QED  BY <1>4

LEMMA EntryTypes ==
  ASSUME NEW en \in EntrySet, NEW st \in EntryStates, NEW n \in Nat
  PROVE  /\ InState(en, st) \in EntrySet /\ WithRef(en, n) \in EntrySet
         /\ InState(en, st).state = st /\ InState(en, st).ref = en.ref
         /\ InState(en, st).seq = en.seq
         /\ WithRef(en, n).state = en.state /\ WithRef(en, n).ref = n
         /\ WithRef(en, n).seq = en.seq
  BY DEF EntrySet, InState, WithRef

LEMMA EntryDecrefIs ==
  ASSUME NEW o, NEW c, Usable(o, c), o.entry[c].state \notin {"NONE", "FREED"},
         o.entry[c].ref # 0
  PROVE  EntryDecref(o, c) =
           IF o.entry[c].ref - 1 > 0
           THEN Upd(o, c, EntryLess(o.entry[c]), o.target[c], o.service, o.alive_list)
           ELSE Upd(o, c, EntryLess(o.entry[c]), TargetLess(o.target[c]),
                    SvAfter(o.target[c], o.service), o.alive_list)
<1> DEFINE en == o.entry[c]
           n == en.ref - 1
           y == [o EXCEPT !.entry[c].ref = n]
           z == [y EXCEPT !.entry[c].state = "FREED"]
<1>1. /\ UseEntry(o, c) = o /\ o \in ObjSet /\ c \in Conns /\ ~o.bad
  BY UseIsGood DEF Usable
<1>2. /\ o.entry \in [Conns -> EntrySet] /\ o.target \in [Conns -> TargetSet]
      /\ o.service \in ServiceSet /\ o.alive_list \in Seq(Conns)
  BY <1>1, ObjFields
<1>3. en \in EntrySet /\ n \in Nat /\ o.target[c] \in TargetSet
  BY <1>1, <1>2 DEF EntrySet
<1>4. y = Upd(o, c, WithRef(en, n), o.target[c], o.service, o.alive_list)
  BY <1>1, ExceptEntry
<1>5. WithRef(en, n) \in EntrySet /\ WithRef(en, n).ref = n
  <2> HIDE DEF en, n
  <2>1. "FREED" \in EntryStates
    BY DEF EntryStates
  <2> QED  BY <1>3, <2>1, EntryTypes
<1>6. EntryDecref(o, c) = IF y.entry[c].ref > 0 THEN y ELSE TargetDecref(z, c)
  <2>1. [UseEntry(o, c) EXCEPT !.entry[c].ref = @ - 1] = y
    BY <1>1
  <2> DEFINE D(x) == IF x.entry[c].ref > 0 THEN x
                     ELSE TargetDecref([x EXCEPT !.entry[c].state = "FREED"], c)
  <2>2. EntryDecref(o, c) = D([UseEntry(o, c) EXCEPT !.entry[c].ref = @ - 1])
    BY Zenon DEF EntryDecref
  <2>3. D([UseEntry(o, c) EXCEPT !.entry[c].ref = @ - 1]) = D(y)
    <3> HIDE DEF D, y
    <3> QED  BY <2>1
  <2> QED  BY <2>2, <2>3
<1> HIDE DEF y, n, en
<1>7. /\ y \in ObjSet /\ y.bad = o.bad /\ y.entry[c] = WithRef(en, n) /\ y.target[c] = o.target[c]
      /\ y.service = o.service /\ y.alive_list = o.alive_list
  BY <1>1, <1>2, <1>3, <1>4, <1>5, UpdParts
<1>8. CASE n > 0
  <2>1. EntryLess(en) = WithRef(en, n)
    BY <1>8 DEF EntryLess, n
  <2>2. EntryDecref(o, c) = y
    BY <1>5, <1>6, <1>7, <1>8
  <2> QED  BY <1>4, <1>8, <2>1, <2>2 DEF n, en
<1>9. CASE ~(n > 0)
  <2> DEFINE fr == InState(WithRef(en, n), "FREED")
  <2>1. fr \in EntrySet /\ EntryLess(en) = fr
    <3>1. "FREED" \in EntryStates
      BY DEF EntryStates
    <3>2. fr \in EntrySet
      BY <1>3, <1>5, <3>1, EntryTypes
    <3> QED  BY <1>9, <3>2 DEF EntryLess, n
  <2>2. z = Upd(y, c, fr, o.target[c], o.service, o.alive_list)
    <3>1. z = Upd(y, c, InState(y.entry[c], "FREED"), y.target[c], y.service, y.alive_list)
      BY <1>1, <1>7, ExceptEntry
    <3> HIDE DEF z
    <3> QED  BY <1>7, <3>1
  <2>3. z = Upd(o, c, fr, o.target[c], o.service, o.alive_list)
    <3> HIDE DEF fr, z
    <3> QED  BY <1>1, <1>4, <2>2, UpdTwice
  <2> HIDE DEF fr, z
  <2>4. /\ z \in ObjSet /\ z.bad = o.bad /\ z.entry[c] = fr /\ z.target[c] = o.target[c]
        /\ z.service = o.service /\ z.alive_list = o.alive_list
    BY <1>1, <1>2, <1>3, <2>1, <2>3, UpdParts
  <2>5. Usable(z, c)
    BY <2>4 DEF Usable
  <2>6. TargetDecref(z, c) = Upd(z, c, fr, TargetLess(o.target[c]),
                                 SvAfter(o.target[c], o.service), o.alive_list)
    BY <2>4, <2>5, TargetDecrefIs
  <2>7. TargetDecref(z, c) = Upd(o, c, fr, TargetLess(o.target[c]),
                                 SvAfter(o.target[c], o.service), o.alive_list)
    BY <1>1, <2>3, <2>6, UpdTwice
  <2>8. EntryDecref(o, c) = TargetDecref(z, c)
    BY <1>5, <1>6, <1>7, <1>9
  <2> QED  BY <1>9, <2>1, <2>7, <2>8 DEF n, en
<1> QED  BY <1>8, <1>9

----
(* A thread goes on. *)

LEMMA HandKept ==
  ASSUME NEW W, NEW V, NEW p, NEW c, NEW place, One(W, p, c, place),
         \A u \in Workers : V[u] = W[u] \/ (~AtHand(W[u], p, c) /\ ~AtHand(V[u], p, c))
  PROVE  One(V, p, c, place)
  BY DEF One, OnlyAt, NoneAt

LEMMA HandLost ==
  ASSUME NEW W, NEW w \in Workers, NEW v, W \in [Workers -> WorkerSet],
         NEW V, V = [W EXCEPT ![w] = v],
         NEW p, NEW c, NEW place, One(W, p, c, place), AtHand(W[w], p, c), ~AtHand(v, p, c)
  PROVE  place = p /\ NoneAt(V, p, c)
  BY DEF One, OnlyAt, NoneAt

LEMMA HandGained ==
  ASSUME NEW W, NEW w \in Workers, NEW v, W \in [Workers -> WorkerSet],
         NEW V, V = [W EXCEPT ![w] = v],
         NEW p, NEW c, NoneAt(W, p, c), AtHand(v, p, c)
  PROVE  OnlyAt(V, p, c)
  BY DEF OnlyAt, NoneAt

LEMMA RefsKept ==
  ASSUME NEW W, NEW V, NEW c,
         \A u \in Workers : HasRef(V[u], c) <=> HasRef(W[u], c)
  PROVE  Refs(V, c) = Refs(W, c)
  BY DEF Refs

LEMMA RefsFinite ==
  ASSUME NEW W, NEW c PROVE IsFiniteSet(Refs(W, c)) /\ Cardinality(Refs(W, c)) \in Nat
<1>1. IsFiniteSet(Refs(W, c))
  BY Constants, FS_Subset DEF Refs
<1> QED  BY <1>1, FS_CardinalityType

LEMMA RefsMore ==
  ASSUME NEW W, NEW w \in Workers, NEW v, W \in [Workers -> WorkerSet],
         NEW V, V = [W EXCEPT ![w] = v], NEW c, ~HasRef(W[w], c), HasRef(v, c)
  PROVE  OneMore(Cardinality(Refs(V, c)), Cardinality(Refs(W, c)))
<1>1. Refs(V, c) = Refs(W, c) \cup {w} /\ w \notin Refs(W, c)
  BY DEF Refs
<1> QED  BY <1>1, RefsFinite, CountMore

LEMMA RefsLess ==
  ASSUME NEW W, NEW w \in Workers, NEW v, W \in [Workers -> WorkerSet],
         NEW V, V = [W EXCEPT ![w] = v], NEW c, HasRef(W[w], c), ~HasRef(v, c)
  PROVE  OneMore(Cardinality(Refs(W, c)), Cardinality(Refs(V, c)))
<1>1. Refs(V, c) = Refs(W, c) \ {w} /\ w \in Refs(W, c)
  BY DEF Refs
<1> QED  BY <1>1, RefsFinite, CountLess

LEMMA UserRefsFinite ==
  ASSUME NEW u, NEW c
  PROVE  IsFiniteSet(UserRefs(u, c)) /\ Cardinality(UserRefs(u, c)) \in Nat
<1>1. IsFiniteSet(UserRefs(u, c))
  BY Constants, FS_Subset DEF UserRefs
<1> QED  BY <1>1, FS_CardinalityType

LEMMA HoldersNat ==
  ASSUME NEW W, NEW u, NEW c PROVE Holders(W, u, c) \in Nat
  BY RefsFinite, UserRefsFinite DEF Holders

----
(* What a step that is about c leaves to the others. *)

LEMMA SameHeld ==
  ASSUME NEW f \in Conns, KeepsWork(f), NEW l, Held(worker, l, f)
  PROVE  Held(worker', l, f) /\ Refs(worker', f) = Refs(worker, f)
<1>1. \A p \in {"ended", "replied", "request", "accepted"} : \A u \in Workers :
         worker'[u] = worker[u] \/ (~AtHand(worker[u], p, f) /\ ~AtHand(worker'[u], p, f))
  BY DEF KeepsWork, About, AtHand, OfConn
<1>2. \A u \in Workers : HasRef(worker'[u], f) <=> HasRef(worker[u], f)
  <2> TAKE u \in Workers
  <2>1. \A v : HasRef(v, f) => About(v, f)
    BY DEF HasRef, About, OfConn, Subject
  <2> QED  BY <2>1 DEF KeepsWork
<1>3. Refs(worker', f) = Refs(worker, f)
  BY <1>2, RefsKept
<1>4. /\ One(worker', "ended", f, l.loc) /\ One(worker', "replied", f, l.loc)
      /\ One(worker', "request", f, l.msg) /\ One(worker', "accepted", f, l.acc)
  BY <1>1, HandKept DEF Held
<1> QED  BY <1>3, <1>4 DEF Held

\* The sessions of f.
LEMMA SameSessions ==
  ASSUME NEW f \in Conns, KeepsSession(f)
  PROVE  Undeleted(f)' = Undeleted(f) /\ UserRefs(user', f) = UserRefs(user, f)
  BY DEF KeepsSession, Undeleted, UserRefs

LEMMA SameSess ==
  ASSUME NEW f \in Conns, KeepsWork(f), worker \in [Workers -> WorkerSet],
         worker' \in [Workers -> WorkerSet], NEW s \in Sessions, s[1] = f
  PROVE  \A w \in Workers : \/ worker'[w] = worker[w]
                            \/ ~SpeaksFor(worker[w], s) /\ ~SpeaksFor(worker'[w], s)
<1> SUFFICES ASSUME NEW w \in Workers, worker'[w] # worker[w]
             PROVE  ~SpeaksFor(worker[w], s) /\ ~SpeaksFor(worker'[w], s)
  OBVIOUS
<1>1. ASSUME NEW v \in WorkerSet, SpeaksFor(v, s) PROVE About(v, f)
  BY <1>1 DEF SpeaksFor, WorkerSet, About, Subject, OfConn, Speaking
<1>2. ~About(worker[w], f) /\ ~About(worker'[w], f)
  BY DEF KeepsWork
<1> QED  BY <1>1, <1>2

\* The last session of a connection that has one.
LEMMA LastIsSession ==
  ASSUME NEW c \in Conns, NEW q \in 0 .. MaxSeq, q # 0
  PROVE  <<c, q>> \in Sessions /\ <<c, q>>[1] = c /\ <<c, q>>[2] = q
  BY SessionOf, Constants

LEMMA SamePassive ==
  ASSUME NEW f \in Conns, KeepsSession(f), obj \in ObjSet, obj'.entry[f].seq = obj.entry[f].seq
  PROVE  Passive(f)' = Passive(f)
<1>1. obj.entry[f].seq \in 0 .. MaxSeq
  BY ObjFields DEF EntrySet
<1>2. CASE obj.entry[f].seq = 0
  BY <1>2 DEF Passive
<1>3. CASE obj.entry[f].seq # 0
  <2>1. <<f, obj.entry[f].seq>> \in Sessions /\ <<f, obj.entry[f].seq>>[1] = f
    BY <1>1, <1>3, LastIsSession
  <2>2. session'[<<f, obj.entry[f].seq>>] = session[<<f, obj.entry[f].seq>>]
    BY <2>1 DEF KeepsSession
  <2> QED  BY <1>3, <2>2 DEF Passive, LastSession
<1> QED  BY <1>2, <1>3

LEMMA ApartKeeps ==
  ASSUME Types, Types', NEW f \in Conns, Apart(f), NEW l, Conn(l, f)
  PROVE  Conn(l, f)'
<1>1. /\ KeepsQueued(f) /\ KeepsWork(f) /\ KeepsObj(f) /\ KeepsRead(f) /\ KeepsSession(f)
      /\ obj \in ObjSet /\ worker \in [Workers -> WorkerSet] /\ worker' \in [Workers -> WorkerSet]
      /\ obj'.entry[f] = obj.entry[f] /\ obj'.target[f] = obj.target[f]
  BY DEF Apart, Types, KeepsObj
<1>2. Held(worker', l, f) /\ Refs(worker', f) = Refs(worker, f)
  BY <1>1, SameHeld DEF Conn
<1>3. Undeleted(f)' = Undeleted(f) /\ UserRefs(user', f) = UserRefs(user, f)
  BY <1>1, SameSessions
<1>4. Passive(f)' = Passive(f)
  BY <1>1, SamePassive
<1>5. Holders(worker', user', f) = Holders(worker, user, f)
  BY <1>2, <1>3 DEF Holders
<1>6. Fits(l, f)'
  <2>1. Fits(l, f)
    BY DEF Conn
  <2>2. /\ obj'.entry[f] = obj.entry[f] /\ obj'.target[f] = obj.target[f] /\ Alive(f)' = Alive(f)
        /\ At(f)' = At(f) /\ Reads(f)' = Reads(f)
    BY <1>1 DEF KeepsObj, KeepsRead
  <2>3. Fitting(l, Holders(worker', user', f), Cardinality(Undeleted(f)'), obj'.entry[f],
                obj'.target[f], Alive(f)', At(f)', Reads(f)', Passive(f)')
    BY <2>1, <2>2, <1>3, <1>4, <1>5 DEF Fits
  <2> QED  BY <2>3 DEF Fits
<1>7. Queued(Results', poll', l, f)
  BY <1>1 DEF KeepsQueued, Conn
<1>8. LastAtHand(f)'
  <2>1. \A w \in Workers : \A p \in {"request", "replied"} :
           AtHand(worker'[w], p, f) => worker'[w] = worker[w]
    BY <1>1 DEF KeepsWork, About, AtHand, OfConn
  <2>2. LastAtHand(f)
    BY DEF Conn
  <2> QED  BY <1>1, <2>1, <2>2 DEF LastAtHand, LastSession
<1>9. ASSUME NEW s \in Sessions, s[1] = f PROVE Sess(l, s)'
  <2>1. Sess(l, s)
    BY <1>9 DEF Conn
  <2>2. session'[s] = session[s] /\ user'[s] = user[s]
    BY <1>1, <1>9 DEF KeepsSession
  <2>3. \A w \in Workers : \/ worker'[w] = worker[w]
                           \/ ~SpeaksFor(worker[w], s) /\ ~SpeaksFor(worker'[w], s)
    BY <1>1, <1>9, SameSess
  <2>4. Owed(l, s)' <=> Owed(l, s)
    BY <1>1, <1>9 DEF Owed
  <2> QED  BY <1>1, <1>9, <2>1, <2>2, <2>3, <2>4 DEF Sess
<1> QED  BY <1>2, <1>6, <1>7, <1>8, <1>9 DEF Conn

LEMMA InvParts ==
  ASSUME NEW g, NEW z, Inv(g, z)
  PROVE  /\ Types /\ PollerAt /\ AliveOK /\ ~obj.bad /\ Serv(z)
         /\ \A c \in Conns : Conn(g[c], c)
  BY DEF Inv, Global

\* A step that is about the connection c, whose tokens are now at l, while the
\* reference of the service is at y.
LEMMA StepKeeps ==
  ASSUME NEW g \in Places, NEW z \in ServicePlaces, Inv(g, z),
         NEW c \in Conns, NEW l \in PlaceSet, NEW y \in ServicePlaces,
         Global', Serv(y)', Others(c), Conn(l, c)'
  PROVE  IInv'
<1> DEFINE k == [g EXCEPT ![c] = l]
<1>1. k \in Places
  OBVIOUS
<1>2. ASSUME NEW f \in Conns PROVE Conn(k[f], f)'
  <2>1. CASE f = c
    <3>1. k[f] = l
      BY <2>1
    <3> QED  BY <2>1, <3>1
  <2>2. CASE f # c
    <3>1. k[f] = g[f]
      BY <2>2
    <3>2. Conn(g[f], f) /\ Types /\ Types' /\ Apart(f)
      BY <2>2, InvParts DEF Others, Global
    <3>3. Conn(g[f], f)'
      <4> HIDE DEF k
      <4>1. PICK o : o = g[f]
        OBVIOUS
      <4>2. Conn(o, f)
        BY <3>2, <4>1
      <4>3. Conn(o, f)'
        BY <3>2, <4>2, ApartKeeps
      <4> QED  BY <4>1, <4>3
    <3> QED  BY <3>1, <3>3
  <2> QED  BY <2>1, <2>2
<1>3. Inv(k, y)'
  <2> HIDE DEF k
  <2> QED  BY <1>2 DEF Inv
<1> HIDE DEF k
<1> QED  BY <1>1, <1>3 DEF IInv

\* A step that concerns no connection.
LEMMA NoConnKeeps ==
  ASSUME NEW g \in Places, NEW z \in ServicePlaces, Inv(g, z),
         NEW y \in ServicePlaces, Global', Serv(y)', \A f \in Conns : Apart(f)
  PROVE  IInv'
<1>1. ASSUME NEW f \in Conns PROVE Conn(g[f], f)'
  <2>1. Conn(g[f], f) /\ Types /\ Types' /\ Apart(f)
    BY InvParts DEF Global
  <2> QED  BY <2>1, ApartKeeps
<1>2. Inv(g, y)'
  BY <1>1 DEF Inv
<1> QED  BY <1>2 DEF IInv

----
(* The frame of a step about one connection. *)

LEMMA SameResults ==
  ASSUME stop_flag' = stop_flag, worker'[Main].pc = "unbound" <=> worker[Main].pc = "unbound"
  PROVE  Results' = Results
  BY DEF Results, ResultsOf, ListenEnd

LEMMA MessagesOfConn ==
  ASSUME NEW R, NEW f
  PROVE  MsgsOf(R, f) \in SUBSET Messages(R) /\ AccsOf(R, f) \in SUBSET Messages(R)
  BY DEF MsgsOf, AccsOf, Messages

\* A step that leaves the messages alone.
LEMMA QuietPoll ==
  ASSUME NEW c, poll' \in Group(Results), SameMessages(Results, poll, poll'),
         \A f \in Fds : f # c => Leaves(Results, poll, poll', f)
  PROVE  PollStep(c)
<1>1. ASSUME NEW f \in Conns, NEW T, NEW place
      PROVE  /\ Slot(poll.queue, MsgsOf(Results, f), T, place, "queue")
                   => Slot(poll'.queue, MsgsOf(Results, f), T, place, "queue")
             /\ Slot(poll.queue, AccsOf(Results, f), T, place, "queue")
                   => Slot(poll'.queue, AccsOf(Results, f), T, place, "queue")
  BY MessagesOfConn DEF SameMessages
<1> QED  BY <1>1 DEF PollStep

LEMMA WorkStepParts ==
  ASSUME Types, NEW z, MainFits(z, worker[Main].pc), NEW c, WorkStep(c)
  PROVE  /\ worker' \in [Workers -> WorkerSet] /\ worker'[Main] = worker[Main]
         /\ \A f \in Conns : f # c => KeepsWork(f)
         /\ \A u \in Workers : /\ IsStopped(worker'[u]) <=> IsStopped(worker[u])
                               /\ IsClosing(worker'[u]) <=> IsClosing(worker[u])
                               /\ worker'[u].pc = "drain" <=> worker[u].pc = "drain"
<1>1. worker \in [Workers -> WorkerSet] /\ Main \in Workers
  BY Constants DEF Types
<1>2. CASE worker' = worker
  BY <1>1, <1>2 DEF KeepsWork
<1>3. CASE worker' # worker
  <2>1. PICK w \in Workers, v \in WorkerSet :
           /\ WorksOn(w, v) /\ Plain(worker[w]) /\ Plain(v)
           /\ OnlyAbout(worker[w], c) /\ OnlyAbout(v, c)
    BY <1>3 DEF WorkStep
  <2>2. w # Main
    BY <2>1 DEF MainFits, Plain
  <2>3. /\ worker' = [worker EXCEPT ![w] = v] /\ worker' \in [Workers -> WorkerSet]
        /\ worker'[w] = v /\ \A u \in Workers : u # w => worker'[u] = worker[u]
    BY <1>1, <2>1 DEF WorksOn
  <2>4. ASSUME NEW f \in Conns, f # c PROVE KeepsWork(f)
    BY <2>1, <2>3, <2>4 DEF KeepsWork, About, OnlyAbout
  <2>5. \A u \in Workers : /\ IsStopped(worker'[u]) <=> IsStopped(worker[u])
                           /\ IsClosing(worker'[u]) <=> IsClosing(worker[u])
                           /\ worker'[u].pc = "drain" <=> worker[u].pc = "drain"
    BY <2>1, <2>3 DEF IsStopped, IsClosing, Plain, Closing
  <2> QED  BY <1>1, <2>2, <2>3, <2>4, <2>5
<1> QED  BY <1>2, <1>3

\* The list and listening are as before, or the list is empty.
LEMMA AliveStep ==
  ASSUME Types, NEW z, MainFits(z, worker[Main].pc), NEW c, WorkStep(c), AliveOK,
         obj'.service.listening = obj.service.listening,
         \/ obj'.alive_list = obj.alive_list
         \/ obj'.alive_list = <<>>
         \/ Len(obj'.alive_list) = 1 /\ obj.service.listening
  PROVE  AliveOK'
<1>1. \A u \in Workers : worker'[u].pc = "drain" <=> worker[u].pc = "drain"
  BY WorkStepParts
<1>2. Len(obj'.alive_list) <= 1
  <2>1. CASE obj'.alive_list = obj.alive_list
    BY <2>1 DEF AliveOK
  <2>2. CASE obj'.alive_list = <<>>
    BY <2>2
  <2>3. CASE Len(obj'.alive_list) = 1
    BY <2>3
  <2> QED  BY <2>1, <2>2, <2>3
<1>3. ~obj'.service.listening /\ (\A w \in Workers : worker'[w].pc # "drain")
         => obj'.alive_list = <<>>
  BY <1>1 DEF AliveOK
<1> QED  BY <1>2, <1>3 DEF AliveOK

LEMMA ConnStepKeeps ==
  ASSUME NEW g \in Places, NEW z \in ServicePlaces, Inv(g, z),
         NEW c \in Conns, NEW l \in PlaceSet,
         PollStep(c), WorkStep(c), ObjStep(c), ReadStep(c), SessStep(c), FlagStep, AliveOK',
         ServiceFits(z, obj'.service, Cardinality(Live(obj'))), Conn(l, c)'
  PROVE  IInv'
<1>1. Types /\ Serv(z)
  BY InvParts
<1>2. /\ worker' \in [Workers -> WorkerSet] /\ worker'[Main] = worker[Main]
      /\ \A f \in Conns : f # c => KeepsWork(f)
      /\ \A u \in Workers : /\ IsStopped(worker'[u]) <=> IsStopped(worker[u])
                            /\ IsClosing(worker'[u]) <=> IsClosing(worker[u])
  BY <1>1, WorkStepParts DEF Serv
<1>3. Results' = Results
  BY <1>2, SameResults DEF FlagStep
<1>4. Types'
  <2>1. poll' \in Group(Results) /\ stop_flag' \in BOOLEAN
    BY <1>1 DEF PollStep, FlagStep, Types
  <2> QED  BY <1>2, <1>3, <2>1 DEF Types, ObjStep, ReadStep, SessStep, FlagStep
<1>5. Global'
  BY <1>4 DEF Global, ObjStep, ReadStep
<1>6. Serv(z)'
  <2>1. listen_fd \in Fds /\ listen_fd # c
    BY Constants
  <2>2. NodeAt(Results', poll', listen_fd, z.loc, "listen")
    BY <1>1, <1>3, <2>1 DEF Serv, ServiceNode, PollStep, Leaves
  <2>3. ServiceNode(Results', poll', worker', z)
    BY <1>1, <1>2, <2>2 DEF Serv, ServiceNode
  <2> QED  BY <1>1, <1>2, <2>3 DEF Serv
<1>7. ASSUME NEW f \in Conns, f # c PROVE Apart(f)
  <2>1. f \in Fds
    BY Constants
  <2>2. KeepsQueued(f)
    BY <1>3, <1>7, <2>1 DEF PollStep, Leaves, KeepsQueued, Queued
  <2> QED  BY <1>2, <1>7, <2>2 DEF Apart, ObjStep, ReadStep, SessStep
<1> QED  BY <1>5, <1>6, <1>7, StepKeeps DEF Others

\* A session that the step does not concern.
LEMMA SessKept ==
  ASSUME NEW o, NEW l, NEW s \in Sessions, Sess(o, s),
         session'[s] = session[s], user'[s] = user[s],
         obj'.entry[s[1]].seq = obj.entry[s[1]].seq, Owed(l, s)' => Owed(o, s),
         \A w \in Workers : SpeaksFor(worker'[w], s) =>
             SpeaksFor(worker[w], s) /\ worker'[w].pc = worker[w].pc /\ worker'[w].st = worker[w].st
  PROVE  Sess(l, s)'
<1>1. \A w \in Workers : SpeaksFor(worker'[w], s) =>
         SpeaksFor(worker[w], s) /\ Speaker(worker'[w], session[s], user[s])
  BY DEF Sess, Speaker
<1> QED  BY <1>1 DEF Sess

----
(* What is known of a connection, and when its objects can be used. *)

LEMMA ConnIs ==
  ASSUME NEW g \in Places, NEW z \in ServicePlaces, Inv(g, z), NEW c \in Conns
  PROVE  /\ g[c] \in PlaceSet
         /\ Queued(Results, poll, g[c], c) /\ Held(worker, g[c], c) /\ Fits(g[c], c)
         /\ LastAtHand(c) /\ \A s \in Sessions : s[1] = c => Sess(g[c], s)
         /\ poll \in Group(Results) /\ obj \in ObjSet /\ ~obj.bad
         /\ obj.entry[c] \in EntrySet /\ obj.target[c] \in TargetSet
         /\ obj.service \in ServiceSet /\ obj.alive_list \in Seq(Conns)
         /\ worker \in [Workers -> WorkerSet] /\ session \in [Sessions -> SessionSet]
         /\ user \in [Sessions -> UserPcs]
<1>1. Types /\ Conn(g[c], c) /\ ~obj.bad
  BY InvParts
<1>2. obj \in ObjSet
  BY <1>1 DEF Types
<1> QED  BY <1>1, <1>2, ObjFields DEF Conn, Types

LEMMA LiveFinite ==
  ASSUME NEW o PROVE IsFiniteSet(Live(o)) /\ Cardinality(Live(o)) \in Nat
<1>1. IsFiniteSet(Live(o))
  BY Constants, FS_Subset DEF Live
<1> QED  BY <1>1, FS_CardinalityType

LEMMA LiveUsable ==
  ASSUME NEW g \in Places, NEW z \in ServicePlaces, Inv(g, z), NEW c \in Conns,
         obj.target[c].state = "LIVE"
  PROVE  Usable(obj, c)
<1>1. /\ obj \in ObjSet /\ ~obj.bad /\ Fits(g[c], c) /\ obj.service \in ServiceSet
      /\ ServiceFits(z, obj.service, Cardinality(Live(obj))) /\ obj.target[c] \in TargetSet
  BY ConnIs, InvParts DEF Serv
<1>2. obj.target[c].ref # 0
  BY <1>1 DEF Fits, Fitting, Counted
<1>3. c \in Live(obj)
  BY DEF Live
<1>4. Cardinality(Live(obj)) # 0
  BY <1>3, LiveFinite, FS_EmptySet
<1>5. obj.service.ref # 0 /\ obj.service.unbound = 0
  <2>1. z.own \in {0, 1}
    BY DEF ServicePlaces
  <2> QED  BY <1>1, <1>4, <2>1, LiveFinite DEF ServiceFits, ServiceSet
<1> QED  BY <1>1, <1>2, <1>5 DEF Usable

\* An entry that is there.
LEMMA EntryUsable ==
  ASSUME NEW g \in Places, NEW z \in ServicePlaces, Inv(g, z), NEW c \in Conns,
         g[c].loc # "none" \/ g[c].msg # "none" \/ Holding(c) # 0
  PROVE  /\ Usable(obj, c) /\ obj.target[c].state = "LIVE"
         /\ obj.entry[c].state \notin {"NONE", "FREED"} /\ obj.entry[c].ref # 0
         /\ UseEntry(obj, c) = obj /\ UseTarget(obj, c) = obj /\ UseService(obj) = obj
<1>1. /\ Fits(g[c], c) /\ obj.entry[c] \in EntrySet /\ obj.target[c] \in TargetSet
      /\ obj \in ObjSet /\ ~obj.bad
  BY ConnIs
<1>2. /\ obj.entry[c].state \notin {"NONE", "FREED"} /\ obj.target[c].state = "LIVE"
      /\ obj.entry[c].ref # 0
  <2>1. Counted(g[c], Holding(c), Open(c), obj.entry[c],
                obj.target[c])
    BY <1>1 DEF Fits, Fitting
  <2>2. Holding(c) \in Nat
    BY HoldersNat
  <2>3. obj.entry[c].state \notin {"NONE", "FREED"}
    BY <2>1 DEF Counted, Kept
  <2>4. obj.entry[c].ref # 0
    BY <2>1, <2>2 DEF Counted, Kept
  <2>5. obj.target[c].state = "LIVE"
    BY <1>1, <2>1, <2>3 DEF Counted, TargetSet
  <2> QED  BY <2>3, <2>4, <2>5
<1>3. Usable(obj, c)
  BY <1>2, LiveUsable
<1> QED  BY <1>1, <1>2, <1>3, UseIsGood DEF Usable

\* The service that has a reference.
LEMMA ServiceUsable ==
  ASSUME NEW g \in Places, NEW z \in ServicePlaces, Inv(g, z), z.own = 1
  PROVE  obj.service.ref # 0 /\ obj.service.unbound = 0 /\ UseService(obj) = obj /\ obj \in ObjSet
<1>1. obj \in ObjSet /\ ~obj.bad /\ ServiceFits(z, obj.service, Cardinality(Live(obj)))
  BY InvParts DEF Serv, Types
<1>2. obj.service \in ServiceSet
  BY <1>1, ObjFields
<1>3. obj.service.ref # 0 /\ obj.service.unbound = 0
  BY <1>1, <1>2 DEF ServiceFits, ServiceSet
<1> QED  BY <1>1, <1>3, UseIsGood

LEMMA HeldMoves ==
  ASSUME NEW W, NEW o, NEW l, NEW c, Held(W, o, c), SameHands(o, l)
  PROVE  Held(W, l, c)
  BY DEF Held, One, SameHands

\* Nothing happens to the sessions.
LEMMA UsersSame ==
  ASSUME Types, UNCHANGED users, NEW c
  PROVE  /\ SessStep(c) /\ session' = session /\ user' = user
         /\ \A f \in Conns : KeepsSession(f)
  BY DEF users, Types, SessStep, KeepsSession

\* A step about c that changes no thread and no session.
LEMMA QuietStep ==
  ASSUME NEW g \in Places, NEW z \in ServicePlaces, Inv(g, z),
         NEW c \in Conns, NEW l \in PlaceSet, UNCHANGED <<users, worker, flags>>,
         PollStep(c), ObjStep(c), ReadStep(c), AliveOK',
         ServiceFits(z, obj'.service, Cardinality(Live(obj'))),
         SameHands(g[c], l), Queued(Results, poll', l, c),
         obj'.entry[c].seq = obj.entry[c].seq,
         Fitting(l, Holding(c), Open(c), obj'.entry[c],
                 obj'.target[c], Alive(c)', At(c)', Reads(c)', Passive(c)),
         Owes(l, obj'.entry[c]) => Owes(g[c], obj.entry[c])
  PROVE  IInv'
<1>1. /\ Held(worker, g[c], c) /\ LastAtHand(c) /\ \A s \in Sessions : s[1] = c => Sess(g[c], s)
      /\ obj \in ObjSet /\ Types
  BY ConnIs, InvParts
<1>2. /\ worker' = worker /\ session' = session /\ user' = user /\ stop_flag' = stop_flag
      /\ stray' = stray /\ SessStep(c) /\ KeepsSession(c)
  BY <1>1, UsersSame DEF flags
<1>3. WorkStep(c) /\ FlagStep
  BY <1>1, <1>2 DEF WorkStep, FlagStep, Types
<1>4. Results' = Results
  BY <1>2, SameResults
<1>5. Held(worker, l, c)
  BY <1>1, HeldMoves
<1>6. Fits(l, c)'
  <2>1. Passive(c)' = Passive(c)
    BY <1>1, <1>2, SamePassive
  <2>2. Undeleted(c)' = Undeleted(c)
    BY <1>2 DEF Undeleted
  <2> QED  BY <1>2, <2>1, <2>2 DEF Fits
<1>7. LastAtHand(c)'
  BY <1>1, <1>2 DEF LastAtHand, LastSession
<1>8. ASSUME NEW s \in Sessions, s[1] = c PROVE Sess(l, s)'
  <2>1. Owed(l, s)' => Owed(g[c], s)
    BY <1>8 DEF Owed
  <2> QED  BY <1>1, <1>2, <1>8, <2>1, SessKept
<1>9. Conn(l, c)'
  BY <1>2, <1>4, <1>5, <1>6, <1>7, <1>8 DEF Conn
<1> QED  BY <1>3, <1>2, <1>9, ConnStepKeeps

----
(* The steps of the poller thread: what they have in common. *)

LEMMA MovedFits ==
  ASSUME NEW o, NEW l, MovesOn(o, l), NEW n, NEW k, NEW en, NEW ta, NEW al, NEW a, NEW rd, NEW p,
         Fitting(o, n, k, en, ta, al, a, rd, p)
  PROVE  /\ Fitting(l, n, k, en, ta, al, a, rd, p) /\ SameHands(o, l)
         /\ Owes(l, en) <=> Owes(o, en)
<1>1. Counted(l, n, k, en, ta)
  BY DEF Fitting, Counted, Kept, MovesOn, Polled
<1>2. StateFits(l, en, ta, p)
  BY DEF Fitting, StateFits, MovesOn, Polled, Watched
<1>3. PollFits(l, en, al, a, rd, p)
  BY DEF Fitting, PollFits, MovesOn, Polled
<1>4. SameHands(o, l) /\ (Owes(l, en) <=> Owes(o, en))
  BY DEF SameHands, Owes, MovesOn, Polled, Watched
<1> QED  BY <1>1, <1>2, <1>3, <1>4 DEF Fitting

\* The poller thread leaves the connection.
LEMMA LeftFits ==
  ASSUME NEW l, NEW n, NEW k, NEW en, NEW ta, NEW al, NEW a, NEW rd, NEW p,
         Fitting(l, n, k, en, ta, al, a, rd, p), a = "new" => en.state # "KEEPALIVE",
         NEW r \in {rd, "no"}
  PROVE  Fitting(l, n, k, en, ta, al, "wait", r, p)
<1>1. PollFits(l, en, al, "wait", r, p)
  BY DEF Fitting, PollFits
<1> QED  BY <1>1 DEF Fitting

LEMMA ReadGoes ==
  ASSUME Types, NEW c \in Conns, at.fd \in {NONE, c}, NEW p, NEW e, Goes(c, p, e)
  PROVE  ReadStep(c) /\ At(c)' = p
<1>1. NONE \notin Conns /\ reading \in SUBSET Conns
  BY Constants DEF Types
<1>2. at' \in [pc : PollerPcs, fd : Conns \cup {NONE}] /\ at'.pc = p /\ at'.fd = e
  BY DEF Goes, PollerPcs
<1>3. PollerAt'
  BY <1>1, <1>2 DEF PollerAt, Goes
<1>4. \A f \in Conns : f # c => KeepsRead(f)
  BY <1>1, <1>2 DEF KeepsRead, At, Reads, Goes
<1>5. At(c)' = p
  BY <1>1, <1>2 DEF At, Goes
<1> QED  BY <1>1, <1>2, <1>3, <1>4, <1>5 DEF ReadStep, Goes

LEMMA ReadSame ==
  ASSUME Types, PollerAt, UNCHANGED pollers, poll'.batch = poll.batch, NEW c
  PROVE  ReadStep(c) /\ \A f \in Conns : KeepsRead(f)
<1>1. at' = at /\ reading' = reading
  BY DEF pollers
<1>2. PollerAt'
  BY <1>1 DEF PollerAt, Ready
<1> QED  BY <1>1, <1>2 DEF ReadStep, KeepsRead, Types, At, Reads

\* The objects stay as they are.
LEMMA ObjSame ==
  ASSUME Types, ~obj.bad, obj' = obj, NEW c
  PROVE  ObjStep(c) /\ \A f \in Conns : KeepsObj(f)
  BY DEF ObjStep, KeepsObj, Types, Alive

LEMMA AliveSame ==
  ASSUME AliveOK, worker' = worker, obj'.alive_list = obj.alive_list,
         obj'.service.listening = obj.service.listening
  PROVE  AliveOK'
  BY DEF AliveOK

LEMMA ConnResults ==
  ASSUME NEW c \in Conns, NEW st \in Ends
  PROVE  /\ Result(c, "read", st, NONE) \in Results
         /\ (st = "DELETED" => stop_flag) => Result(c, "write", st, NONE) \in Results
         /\ Result(c, "read", "MODIFIED", NONE) \in Results
         /\ \A m \in Conns \X Nat : Result(c, "read", "SUCCESS", m) \in Results
  BY Constants DEF Result, Results, ResultsOf

LEMMA PlacedFields ==
  ASSUME NEW o \in PlaceSet, NEW loc \in {"none", "table", "pipe", "queue", "ended", "replied"},
         NEW op \in {"read", "write"}, NEW l, l = PlacedAt(o, loc, op)
  PROVE  /\ l \in PlaceSet /\ l.loc = loc /\ l.op = op /\ l.msg = o.msg /\ l.acc = o.acc
  BY DEF PlaceSet, PlacedAt

LEMMA NodeGoesQueued ==
  ASSUME NEW x, NEW y, NEW o, NEW c \in Conns, NEW l, Queued(Results, x, o, c),
         NodeGoes(x, y, o, c, l)
  PROVE  Queued(Results, y, l, c)
<1>1. MsgsOf(Results, c) \in SUBSET Messages(Results) /\ AccsOf(Results, c) \in SUBSET Messages(Results)
  BY MessagesOfConn
<1> QED  BY <1>1 DEF NodeGoes, Queued, SameMessages

LEMMA NodeStays ==
  ASSUME NEW x \in Group(Results), NEW o, NEW c, Queued(Results, x, o, c)
  PROVE  NodeGoes(x, x, o, c, o)
  BY DEF NodeGoes, Queued, SameMessages, Leaves

LEMMA NodeGoesOn ==
  ASSUME NEW x, NEW y, NEW v, NEW o, NEW c, NEW l, NEW m,
         NodeGoes(x, y, o, c, l), NodeGoes(y, v, l, c, m)
  PROVE  NodeGoes(x, v, o, c, m)
  BY DEF NodeGoes, SameMessages, Leaves

\* Report, when no event of c is at hand.
LEMMA Reports ==
  ASSUME NEW x \in Group(Results), NEW c \in Conns, NEW op \in {"read", "write"}, NoEvent(x, c),
         NEW o \in PlaceSet, Queued(Results, x, o, c), NEW st \in Ends \ {"DELETED"},
         NEW y, y = Report(x, c, op, st)
  PROVE  \E l \in PlaceSet : NodeGoes(x, y, o, c, l) /\ MovesOn(o, l)
<1>0. op \in Ops /\ Result(c, op, st, NONE) \in Results /\ c \in Fds
  BY ConnResults, Constants DEF Ops
<1>1. /\ Steady(Results, x, y)
      /\ x.table[c] # op => y = x
      /\ \A f \in Fds : f # c => Leaves(Results, x, y, f)
      /\ SameMessages(Results, x, y)
      /\ NodeAt(Results, x, c, "table", op) => NodeAt(Results, y, c, "queue", op)
  BY <1>0, ReportNode
<1>2. CASE x.table[c] # op
  <2>1. MovesOn(o, o) /\ NodeGoes(x, y, o, c, o)
    BY <1>1, <1>2, NodeStays DEF MovesOn
  <2> QED  BY <2>1
<1>3. CASE x.table[c] = op
  <2>1. o.loc = "table" /\ o.op = op /\ NodeAt(Results, x, c, o.loc, o.op)
    BY <1>3 DEF Queued, NodeAt
  <2>2. PICK l : l = PlacedAt(o, "queue", op)
    OBVIOUS
  <2>3. l \in PlaceSet /\ l.loc = "queue" /\ l.op = op /\ l.msg = o.msg /\ l.acc = o.acc
    BY <2>2, PlacedFields
  <2>4. NodeGoes(x, y, o, c, l)
    BY <1>1, <2>1, <2>3 DEF NodeGoes, Steady
  <2>5. MovesOn(o, l)
    BY <2>1, <2>3 DEF MovesOn, Polled
  <2> QED  BY <2>3, <2>4, <2>5
<1> QED  BY <1>2, <1>3

\* The thread is done with an event of c.
LEMMA Dones ==
  ASSUME NEW x \in Group(Results), NEW c \in Conns, NEW op \in {"read", "write"}, Ready(x, c, op),
         NEW o, Queued(Results, x, o, c), NEW y, y = Done(x, c, op)
  PROVE  NodeGoes(x, y, o, c, o) /\ NoEvent(y, c)
<1>0. op \in Ops /\ c \in Fds
  BY Constants DEF Ops
<1>1. /\ HasEvents(Results, x, y, Index(c), x.batch[Index(c)] \ {Event(c, op)})
      /\ \A f \in Fds : Leaves(Results, x, y, f)
      /\ NoEvent(y, c)
  BY <1>0, DoneNode
<1> QED  BY <1>0, <1>1 DEF NodeGoes, HasEvents, SameMessages, Leaves, Queued

\* And reports the end of the node.
LEMMA DoneReports ==
  ASSUME NEW x \in Group(Results), NEW c \in Conns, NEW op \in {"read", "write"}, Ready(x, c, op),
         NEW o \in PlaceSet, Queued(Results, x, o, c), NEW st \in Ends \ {"DELETED"},
         NEW y, y = Report(Done(x, c, op), c, op, st)
  PROVE  \E l \in PlaceSet : NodeGoes(x, y, o, c, l) /\ MovesOn(o, l)
<1>1. PICK v : v = Done(x, c, op)
  OBVIOUS
<1>2. NodeGoes(x, v, o, c, o) /\ NoEvent(v, c)
  BY <1>1, Dones
<1>3. v \in Group(Results) /\ Queued(Results, v, o, c)
  BY <1>2, NodeGoesQueued DEF NodeGoes
<1>4. PICK l \in PlaceSet : NodeGoes(v, y, o, c, l) /\ MovesOn(o, l)
  BY <1>1, <1>2, <1>3, Reports
<1> QED  BY <1>2, <1>4, NodeGoesOn

\* A connection with an event at hand.
LEMMA ReadyLoc ==
  ASSUME NEW g \in Places, NEW z \in ServicePlaces, Inv(g, z), NEW c \in Conns, NEW op,
         Ready(poll, c, op)
  PROVE  g[c].loc \in {"table", "pipe"}
<1>1. NodeAt(Results, poll, c, g[c].loc, g[c].op)
  BY ConnIs DEF Queued
<1>2. Event(c, op).fd = c /\ Event(c, op) \in poll.batch[Index(c)]
  BY DEF Event, Ready
<1> QED  BY <1>1, <1>2 DEF NodeAt, NoEvent

\* The poller thread leaves c, whose objects stay as they are.
LEMMA PollerLeaves ==
  ASSUME NEW g \in Places, NEW z \in ServicePlaces, Inv(g, z), NEW c \in Conns,
         PollerFrame, obj' = obj, at.fd \in {NONE, c}, PollerGo("wait", NONE),
         reading' \in {reading, reading \ {c}},
         NEW l \in PlaceSet, NodeGoes(poll, poll', g[c], c, l), MovesOn(g[c], l),
         At(c) = "new" => obj.entry[c].state # "KEEPALIVE"
  PROVE  IInv'
<1>1. /\ Types /\ AliveOK /\ ~obj.bad /\ Serv(z) /\ Queued(Results, poll, g[c], c)
      /\ Fits(g[c], c)
  BY ConnIs, InvParts
<1>2. PollStep(c)
  BY QuietPoll DEF NodeGoes
<1>3. ObjStep(c) /\ Alive(c)' = Alive(c)
  BY <1>1, ObjSame DEF KeepsObj
<1>4. ReadStep(c) /\ At(c)' = "wait"
  <2>1. Goes(c, "wait", NONE)
    BY DEF Goes, PollerGo
  <2> QED  BY <1>1, <2>1, ReadGoes
<1>5. AliveOK'
  BY <1>1, AliveSame DEF PollerFrame
<1>6. ServiceFits(z, obj'.service, Cardinality(Live(obj')))
  BY <1>1 DEF Serv
<1>7. Queued(Results, poll', l, c)
  BY <1>1, NodeGoesQueued
<1>8. Reads(c)' \in {Reads(c), "no"}
  BY DEF Reads
<1>9. /\ Fitting(l, Holding(c), Open(c), obj.entry[c],
                 obj.target[c], Alive(c), "wait", Reads(c)', Passive(c))
      /\ SameHands(g[c], l) /\ (Owes(l, obj.entry[c]) <=> Owes(g[c], obj.entry[c]))
  <2>1. /\ Fitting(l, Holding(c), Open(c), obj.entry[c],
                   obj.target[c], Alive(c), At(c), Reads(c), Passive(c))
        /\ SameHands(g[c], l) /\ (Owes(l, obj.entry[c]) <=> Owes(g[c], obj.entry[c]))
    BY <1>1, MovedFits DEF Fits
  <2> QED  BY <1>8, <2>1, LeftFits
<1> QED  BY <1>2, <1>3, <1>4, <1>5, <1>6, <1>7, <1>9, QuietStep DEF PollerFrame

\* The poller thread goes on with c, whose objects stay as they are.
LEMMA PollerStays ==
  ASSUME NEW g \in Places, NEW z \in ServicePlaces, Inv(g, z), NEW c \in Conns,
         PollerFrame, obj' = obj, at.fd \in {NONE, c}, NEW p \in PollerPcs \ {"wait"},
         PollerGo(p, c), UNCHANGED <<poll, reading>>, Ready(poll, c, "read"),
         PollFits(g[c], obj.entry[c], Alive(c), p, Reads(c), Passive(c))
  PROVE  IInv'
<1>1. /\ Types /\ AliveOK /\ ~obj.bad /\ Serv(z) /\ Queued(Results, poll, g[c], c)
      /\ Fits(g[c], c) /\ g[c] \in PlaceSet /\ poll \in Group(Results)
  BY ConnIs, InvParts
<1>2. PollStep(c)
  BY <1>1 DEF PollStep, Leaves
<1>3. ObjStep(c) /\ Alive(c)' = Alive(c)
  BY <1>1, ObjSame DEF KeepsObj
<1>4. ReadStep(c) /\ At(c)' = p
  <2>1. Goes(c, p, c)
    BY DEF Goes, PollerGo
  <2> QED  BY <1>1, <2>1, ReadGoes
<1>5. AliveOK'
  BY <1>1, AliveSame DEF PollerFrame
<1>6. ServiceFits(z, obj'.service, Cardinality(Live(obj')))
  BY <1>1 DEF Serv
<1>7. Fitting(g[c], Holding(c), Open(c), obj.entry[c],
              obj.target[c], Alive(c), p, Reads(c)', Passive(c)) /\ SameHands(g[c], g[c])
  BY <1>1 DEF Fits, Fitting, Reads, SameHands
<1> QED  BY <1>1, <1>2, <1>3, <1>4, <1>5, <1>6, <1>7, QuietStep DEF PollerFrame

LEMMA WriteKeeps ==
  ASSUME NEW g \in Places, NEW z \in ServicePlaces, Inv(g, z), NEW c \in Conns,
         poller_handle_write(c)
  PROVE  IInv'
<1>1. /\ at.pc = "wait" /\ Ready(poll, c, "write") /\ PollerFrame /\ obj' = obj
      /\ at' = at /\ reading' = reading
  BY DEF poller_handle_write, pollers, PollerFrame
<1>2. /\ PollerAt /\ Types /\ poll \in Group(Results) /\ g[c] \in PlaceSet
      /\ Queued(Results, poll, g[c], c)
  BY ConnIs, InvParts
<1>3. at.fd = NONE /\ PollerGo("wait", NONE) /\ At(c) # "new"
  BY <1>1, <1>2 DEF PollerAt, PollerGo, Types, At
<1>4. PICK l \in PlaceSet : NodeGoes(poll, poll', g[c], c, l) /\ MovesOn(g[c], l)
  <2>1. CASE poll' = Done(poll, c, "write")
    <3>1. NodeGoes(poll, poll', g[c], c, g[c])
      BY <1>1, <1>2, <2>1, Dones
    <3> QED  BY <1>2, <3>1 DEF MovesOn
  <2>2. ASSUME NEW st \in {"FINISHED", "ERROR"}, poll' = Report(Done(poll, c, "write"), c, "write", st)
        PROVE  \E l \in PlaceSet : NodeGoes(poll, poll', g[c], c, l) /\ MovesOn(g[c], l)
    <3>1. st \in Ends \ {"DELETED"}
      BY DEF Ends
    <3> QED  BY <1>1, <1>2, <2>2, <3>1, DoneReports
  <2> QED  BY <2>1, <2>2 DEF poller_handle_write
<1> QED  BY <1>1, <1>3, <1>4, PollerLeaves

\* A read that ends.
LEMMA ReadEndsKeeps ==
  ASSUME NEW g \in Places, NEW z \in ServicePlaces, Inv(g, z), NEW c \in Conns,
         Ready(poll, c, "read"), PollerFrame, obj' = obj, at.fd \in {NONE, c},
         NEW st \in {"FINISHED", "ERROR"}, ReadEnds(c, st),
         At(c) = "new" => obj.entry[c].state # "KEEPALIVE"
  PROVE  IInv'
<1>1. /\ poll' = Report(Done(poll, c, "read"), c, "read", st)
      /\ reading' = reading \ {c} /\ PollerGo("wait", NONE)
  BY DEF ReadEnds
<1>2. poll \in Group(Results) /\ g[c] \in PlaceSet /\ Queued(Results, poll, g[c], c)
  BY ConnIs
<1>3. PICK l \in PlaceSet : NodeGoes(poll, poll', g[c], c, l) /\ MovesOn(g[c], l)
  <2>1. st \in Ends \ {"DELETED"}
    BY DEF Ends
  <2> QED  BY <1>1, <1>2, <2>1, DoneReports
<1> QED  BY <1>1, <1>3, PollerLeaves

\* The thread is at work on the connection at.fd.
LEMMA AtWork ==
  ASSUME NEW g \in Places, NEW z \in ServicePlaces, Inv(g, z), at.pc # "wait", NEW c, c = at.fd
  PROVE  /\ c \in Conns /\ Ready(poll, c, "read") /\ At(c) = at.pc
         /\ g[c].loc \in {"table", "pipe"}
<1>1. Types /\ PollerAt
  BY InvParts
<1>2. c \in Conns /\ Ready(poll, c, "read") /\ At(c) = at.pc
  BY <1>1 DEF PollerAt, Types, At
<1> QED  BY <1>2, ReadyLoc

LEMMA ReadKeeps ==
  ASSUME NEW g \in Places, NEW z \in ServicePlaces, Inv(g, z), NEW c \in Conns,
         poller_handle_read(c)
  PROVE  IInv'
<1>1. /\ Ready(poll, c, "read") /\ PollerFrame
      /\ at \in {[pc |-> "wait", fd |-> NONE], [pc |-> "data", fd |-> c]}
  BY DEF poller_handle_read, PollerFrame
<1>2. /\ at.fd \in {NONE, c} /\ At(c) \in {"wait", "data"}
  BY <1>1, Constants DEF At
<1>3. /\ poll \in Group(Results) /\ g[c] \in PlaceSet /\ Queued(Results, poll, g[c], c)
      /\ Fits(g[c], c) /\ obj.entry[c] \in EntrySet
  BY ConnIs
<1>4. CASE /\ poll' = Done(poll, c, "read") /\ PollerGo("wait", NONE)
           /\ UNCHANGED <<reading, obj>>
  <2>1. NodeGoes(poll, poll', g[c], c, g[c]) /\ MovesOn(g[c], g[c])
    BY <1>1, <1>3, <1>4, Dones DEF MovesOn
  <2> QED  BY <1>1, <1>2, <1>3, <1>4, <2>1, PollerLeaves
<1>5. CASE ReadEnds(c, "FINISHED") /\ UNCHANGED obj
  BY <1>1, <1>2, <1>5, ReadEndsKeeps
<1>6. ASSUME NEW p, p = CASE c \in reading -> "append"
                          [] c \notin reading /\ obj.entry[c].state = "IDLE" -> "lock"
                          [] OTHER -> "create",
             c \in reading \/ obj.entry[c].seq < MaxSeq,
             PollerGo(p, c), obj' = UseEntry(obj, c), UNCHANGED <<poll, reading>>
      PROVE  IInv'
  <2>1. obj' = obj
    BY <1>1, <1>6, ReadyLoc, EntryUsable
  <2>2. p \in {"append", "lock", "create"} /\ (p = "append" <=> c \in reading)
    BY <1>6
  <2>3. PollFits(g[c], obj.entry[c], Alive(c), p, Reads(c), Passive(c))
    <3>1. PollFits(g[c], obj.entry[c], Alive(c), At(c), Reads(c), Passive(c))
      BY <1>3 DEF Fits, Fitting
    <3> QED  BY <1>2, <1>6, <2>2, <3>1 DEF PollFits, Reads
  <2>4. p \in PollerPcs \ {"wait"}
    BY <2>2 DEF PollerPcs
  <2> QED  BY <1>1, <1>2, <1>6, <2>1, <2>3, <2>4, PollerStays
<1> QED  BY <1>4, <1>5, <1>6 DEF poller_handle_read

LEMMA LockKeeps ==
  ASSUME NEW g \in Places, NEW z \in ServicePlaces, Inv(g, z), create_request_lock
  PROVE  IInv'
<1>0. PICK c : c = at.fd
  OBVIOUS
<1>1. /\ at.pc = "lock" /\ PollerGo("create", c) /\ PollerFrame /\ UNCHANGED <<poll, reading>>
      /\ obj' = UseTarget(obj, c)
  BY <1>0 DEF create_request_lock, PollerFrame
<1>2. c \in Conns /\ Ready(poll, c, "read") /\ At(c) = "lock" /\ g[c].loc \in {"table", "pipe"}
  BY <1>0, <1>1, AtWork
<1>3. obj' = obj
  BY <1>1, <1>2, EntryUsable
<1>4. PollFits(g[c], obj.entry[c], Alive(c), "create", Reads(c), Passive(c))
  <2>1. PollFits(g[c], obj.entry[c], Alive(c), "lock", Reads(c), Passive(c))
    BY <1>2, ConnIs DEF Fits, Fitting
  <2> QED  BY <2>1 DEF PollFits
<1>5. "create" \in PollerPcs \ {"wait"}
  BY DEF PollerPcs
<1> QED  BY <1>0, <1>1, <1>2, <1>3, <1>4, <1>5, PollerStays

----
(* alive_list, which has no more than one element. *)

LEMMA ShortList ==
  ASSUME NEW q \in Seq(Conns), Len(q) <= 1, NEW c, c \in ToSet(q)
  PROVE  q = <<c>> /\ Head(q) = c /\ Tail(q) = <<>> /\ RemoveFirst(q, c) = <<>>
<1>1. Len(q) \in Nat /\ DOMAIN q = 1 .. Len(q)
  BY LenProperties
<1>2. Len(q) = 1 /\ q[1] = c
  BY <1>1 DEF ToSet
<1>3. q = <<c>>
  BY <1>2
<1>4. SelectInSeq(q, LAMBDA v : v = c) = 1
  <2>1. {i \in 1 .. Len(q) : q[i] = c} = {1}
    BY <1>2
  <2>2. Min({1}) = 1
    BY DEF Min
  <2> QED  BY <2>1, <2>2 DEF SelectInSeq
<1>5. RemoveFirst(q, c) = SubSeq(q, 1, 0) \o SubSeq(q, 2, 1)
  <2>1. \E i \in 1 .. Len(q) : q[i] = c
    BY <1>2
  <2>2. RemoveFirst(q, c) = RemoveAt(q, 1)
    BY <1>4, <2>1 DEF RemoveFirst
  <2>3. 1 - 1 = 0 /\ 1 + 1 = 2
    OBVIOUS
  <2> QED  BY <1>2, <2>2, <2>3 DEF RemoveAt
<1>6. SubSeq(q, 1, 0) \o SubSeq(q, 2, 1) = <<>>
  <2>1. SubSeq(q, 1, 0) = <<>> /\ SubSeq(q, 2, 1) = <<>>
    BY <1>3
  <2> QED  BY <2>1
<1>7. Head(q) = c /\ Tail(q) = <<>>
  BY <1>3
<1> QED  BY <1>3, <1>5, <1>6, <1>7

LEMMA WithListIs ==
  ASSUME NEW o \in ObjSet, NEW c \in Conns, NEW q
  PROVE  WithList(o, q) = Upd(o, c, o.entry[c], o.target[c], o.service, q)
<1>1. /\ o.entry \in [Conns -> EntrySet] /\ o.target \in [Conns -> TargetSet]
      /\ o = Whole(o)
  BY ObjFields
<1>2. [o.entry EXCEPT ![c] = o.entry[c]] = o.entry /\ [o.target EXCEPT ![c] = o.target[c]] = o.target
  BY <1>1
<1> QED  BY <1>1, <1>2 DEF WithList, Upd

LEMMA AliveDelIs ==
  ASSUME NEW o, NEW c, Usable(o, c), c \in ToSet(o.alive_list), Len(o.alive_list) <= 1,
         NEW e, e = <<>>
  PROVE  AliveDel(o, c) = Upd(o, c, o.entry[c], o.target[c], o.service, e)
<1>1. /\ UseService(o) = o /\ o \in ObjSet /\ c \in Conns /\ ~o.bad
  BY UseIsGood DEF Usable
<1>2. /\ o.alive_list \in Seq(Conns) /\ o.bad \in BOOLEAN
      /\ o = Whole(o)
  BY <1>1, ObjFields
<1>3. RemoveFirst(o.alive_list, c) = e
  BY <1>2, ShortList
<1>4. WithList(o, e) = Upd(o, c, o.entry[c], o.target[c], o.service, e)
  BY <1>1, WithListIs
<1>5. AliveDel(o, c) = WithList(o, e)
  <2>1. (o.bad \/ c \notin ToSet(o.alive_list)) = o.bad
    BY <1>1, <1>2
  <2>2. AliveDel(o, c) = [o EXCEPT !.bad = (o.bad \/ c \notin ToSet(o.alive_list)),
                                   !.alive_list = RemoveFirst(o.alive_list, c)]
    BY <1>1, <1>2 DEF AliveDel
  <2>3. [o EXCEPT !.bad = o.bad, !.alive_list = e] = WithList(o, e)
    BY <1>2 DEF WithList
  <2> QED  BY <1>3, <2>1, <2>2, <2>3
<1> QED  BY <1>4, <1>5

\* The parts of c, the service and the list are replaced.
LEMMA ObjUpd ==
  ASSUME Types, ~obj.bad, NEW c \in Conns, NEW en \in EntrySet, NEW ta \in TargetSet,
         NEW sv \in ServiceSet, NEW al \in Seq(Conns),
         \A f \in Conns : f # c => (f \in ToSet(al) <=> f \in ToSet(obj.alive_list)),
         obj' = Upd(obj, c, en, ta, sv, al)
  PROVE  /\ ObjStep(c) /\ obj'.entry[c] = en /\ obj'.target[c] = ta /\ obj'.service = sv
         /\ obj'.alive_list = al
         /\ \A f \in Conns : f # c => obj'.target[f] = obj.target[f]
         /\ Alive(c)' = IF c \in ToSet(al) THEN "in" ELSE "out"
<1>1. /\ obj' \in ObjSet /\ obj'.bad = obj.bad /\ obj'.entry[c] = en /\ obj'.target[c] = ta
      /\ obj'.service = sv /\ obj'.alive_list = al
      /\ \A f \in Conns : f # c => obj'.entry[f] = obj.entry[f] /\ obj'.target[f] = obj.target[f]
  BY UpdParts DEF Types
<1>2. \A f \in Conns : f # c => Alive(f)' = Alive(f)
  BY <1>1 DEF Alive
<1>3. ObjStep(c)
  BY <1>1, <1>2 DEF ObjStep, KeepsObj
<1> QED  BY <1>1, <1>3 DEF Alive

LEMMA CreateKeeps ==
  ASSUME NEW g \in Places, NEW z \in ServicePlaces, Inv(g, z), create_request
  PROVE  IInv'
<1>0. PICK c : c = at.fd
  OBVIOUS
<1>1. at.pc = "create" /\ PollerFrame
  BY DEF create_request, PollerFrame
<1>2. c \in Conns /\ Ready(poll, c, "read") /\ At(c) = "create" /\ g[c].loc \in {"table", "pipe"}
  BY <1>0, <1>1, AtWork
<1>3. /\ Usable(obj, c) /\ UseEntry(obj, c) = obj /\ UseService(obj) = obj
  BY <1>2, EntryUsable
<1>4. /\ Types /\ ~obj.bad /\ AliveOK /\ Serv(z) /\ Fits(g[c], c) /\ g[c] \in PlaceSet
      /\ poll \in Group(Results) /\ Queued(Results, poll, g[c], c)
      /\ obj.entry[c] \in EntrySet /\ obj.target[c] \in TargetSet
      /\ obj.service \in ServiceSet /\ obj.alive_list \in Seq(Conns)
  BY <1>2, ConnIs, InvParts
<1>5. /\ PollFits(g[c], obj.entry[c], Alive(c), "create", Reads(c), Passive(c))
      /\ Counted(g[c], Holding(c), Open(c), obj.entry[c], obj.target[c])
      /\ StateFits(g[c], obj.entry[c], obj.target[c], Passive(c))
  BY <1>2, <1>4 DEF Fits, Fitting
<1>6. CASE /\ obj.entry[c].state = "CONNECTED" /\ obj' = UseService(obj)
           /\ PollerGo("new", c) /\ UNCHANGED <<poll, reading>>
  <2>1. PollFits(g[c], obj.entry[c], Alive(c), "new", Reads(c), Passive(c))
    BY <1>5, <1>6 DEF PollFits
  <2>2. "new" \in PollerPcs \ {"wait"}
    BY DEF PollerPcs
  <2> QED  BY <1>0, <1>1, <1>2, <1>3, <1>6, <2>1, <2>2, PollerStays
<1>7. CASE /\ obj.entry[c].state = "KEEPALIVE" /\ obj' = AliveDel(obj, c)
           /\ PollerGo("new", c) /\ UNCHANGED <<poll, reading>>
  <2>1. c \in ToSet(obj.alive_list) /\ Len(obj.alive_list) <= 1 /\ obj.alive_list = <<c>>
    <3>1. Alive(c) = "in"
      BY <1>2, <1>5, <1>7 DEF PollFits
    <3>2. c \in ToSet(obj.alive_list) /\ Len(obj.alive_list) <= 1
      BY <1>4, <3>1 DEF Alive, AliveOK
    <3> QED  BY <1>4, <3>2, ShortList
  <2>e. PICK al : al = <<>>
    OBVIOUS
  <2>2. obj' = Upd(obj, c, obj.entry[c], obj.target[c], obj.service, al)
    BY <1>3, <1>7, <2>1, <2>e, AliveDelIs
  <2>3. /\ ObjStep(c) /\ obj'.entry[c] = obj.entry[c] /\ obj'.target[c] = obj.target[c]
        /\ obj'.service = obj.service /\ obj'.alive_list = <<>>
        /\ \A f \in Conns : f # c => obj'.target[f] = obj.target[f]
        /\ Alive(c)' = "out"
    <3>1. <<>> \in Seq(Conns) /\ c \notin ToSet(<<>>)
          /\ \A f \in Conns : f # c => (f \in ToSet(<<>>) <=> f \in ToSet(obj.alive_list))
      BY <2>1, ListSets
    <3>3. /\ al \in Seq(Conns) /\ c \notin ToSet(al)
          /\ \A f \in Conns : f # c => (f \in ToSet(al) <=> f \in ToSet(obj.alive_list))
          /\ obj' = Upd(obj, c, obj.entry[c], obj.target[c], obj.service, al)
      BY <2>2, <2>e, <3>1
    <3>4. /\ ObjStep(c) /\ obj'.entry[c] = obj.entry[c] /\ obj'.target[c] = obj.target[c]
          /\ obj'.service = obj.service /\ obj'.alive_list = al
          /\ \A f \in Conns : f # c => obj'.target[f] = obj.target[f]
          /\ Alive(c)' = IF c \in ToSet(al) THEN "in" ELSE "out"
      BY <1>2, <1>4, <3>3, ObjUpd
    <3> QED  BY <2>e, <3>3, <3>4
  <2>4. Live(obj') = Live(obj)
    BY <2>3 DEF Live
  <2>5. ServiceFits(z, obj'.service, Cardinality(Live(obj')))
    BY <1>4, <2>3, <2>4 DEF Serv
  <2>6. AliveOK'
    BY <1>1, <1>4, <2>3 DEF AliveOK, PollerFrame
  <2>7. PollStep(c)
    BY <1>4, <1>7 DEF PollStep, Leaves
  <2>8. ReadStep(c) /\ At(c)' = "new" /\ Reads(c)' = Reads(c)
    <3>1. Goes(c, "new", c)
      BY <1>2, <1>7 DEF Goes, PollerGo, PollerPcs
    <3> QED  BY <1>0, <1>2, <1>4, <1>7, <3>1, ReadGoes DEF Reads
  <2>9. Fitting(g[c], Holding(c), Open(c), obj.entry[c],
                obj.target[c], "out", "new", Reads(c), Passive(c)) /\ SameHands(g[c], g[c])
    BY <1>5, <1>7 DEF Fitting, PollFits, SameHands
  <2> QED  BY <1>1, <1>2, <1>4, <1>7, <2>3, <2>5, <2>6, <2>7, <2>8, <2>9, QuietStep DEF PollerFrame
<1>8. CASE /\ obj' = UseService(UseEntry(obj, c)) /\ ReadEnds(c, "ERROR")
  BY <1>0, <1>2, <1>3, <1>1, <1>8, ReadEndsKeeps
<1> QED  BY <1>0, <1>6, <1>7, <1>8 DEF create_request

----
(* A session is created. *)

LEMMA CreatesForIs ==
  ASSUME NEW o \in ObjSet, NEW c \in Conns
  PROVE  CreatesFor(o, c)
           = Upd(o, c, NextSeq(o.entry[c]), MoreRef(o.target[c]), o.service, o.alive_list)
<1>1. /\ o.entry \in [Conns -> EntrySet] /\ o.target \in [Conns -> TargetSet]
      /\ o = Whole(o)
  BY ObjFields
<1>a. PICK x : x = [o EXCEPT !.entry[c].seq = @ + 1]
  OBVIOUS
<1>b. PICK y : y = [x EXCEPT !.entry[c].state = "RECEIVING"]
  OBVIOUS
<1>2. x = [entry |-> [o.entry EXCEPT ![c] = [o.entry[c] EXCEPT !.seq = @ + 1]], target |-> o.target,
           service |-> o.service, alive_list |-> o.alive_list, torn |-> o.torn, bad |-> o.bad]
  BY <1>1, <1>a
<1>3. y = [entry |-> [x.entry EXCEPT ![c] = [x.entry[c] EXCEPT !.state = "RECEIVING"]],
           target |-> o.target,
           service |-> o.service, alive_list |-> o.alive_list, torn |-> o.torn, bad |-> o.bad]
  BY <1>2, <1>b
<1>4. [x.entry EXCEPT ![c] = [x.entry[c] EXCEPT !.state = "RECEIVING"]]
        = [o.entry EXCEPT ![c] = NextSeq(o.entry[c])]
  <2>1. x.entry[c] = [o.entry[c] EXCEPT !.seq = o.entry[c].seq + 1]
    BY <1>1, <1>2
  <2>2. [x.entry[c] EXCEPT !.state = "RECEIVING"] = NextSeq(o.entry[c])
    BY <2>1 DEF NextSeq
  <2> QED  BY <1>1, <1>2, <2>2
<1>5. [y EXCEPT !.target[c].ref = @ + 1]
        = [entry |-> y.entry, target |-> [o.target EXCEPT ![c] = MoreRef(o.target[c])],
           service |-> o.service, alive_list |-> o.alive_list, torn |-> o.torn, bad |-> o.bad]
  BY <1>3 DEF MoreRef
<1>6. CreatesFor(o, c) = [y EXCEPT !.target[c].ref = @ + 1]
  BY <1>a, <1>b DEF CreatesFor
<1> QED  BY <1>3, <1>4, <1>5, <1>6 DEF Upd

LEMMA CreatedTypes ==
  ASSUME NEW en \in EntrySet, en.seq < MaxSeq, NEW ta \in TargetSet,
         NEW xn, xn = NextSeq(en), NEW xa, xa = MoreRef(ta)
  PROVE  Created(en, ta, xn, xa)
<1>1. en.seq + 1 \in 0 .. MaxSeq
  BY Constants DEF EntrySet
<1>2. "RECEIVING" \in EntryStates
  BY DEF EntryStates
<1>3. /\ xn \in EntrySet /\ xn.state = "RECEIVING" /\ xn.ref = en.ref /\ xn.seq = en.seq + 1
  BY <1>1, <1>2 DEF EntrySet, NextSeq
<1>4. xa \in TargetSet /\ xa.state = ta.state /\ xa.ref = ta.ref + 1 /\ xa.idle = ta.idle
  BY DEF TargetSet, MoreRef
<1> QED  BY <1>3, <1>4 DEF Created

LEMMA CreatedFits ==
  ASSUME NEW o, NEW l, NEW n, NEW k, NEW m, NEW en, NEW xn, NEW ta, NEW xa, NEW al, NEW a,
         NEW rd, NEW r, NEW p, Creates(o, l, n, k, m, en, xn, ta, xa, al, a, rd, r, p)
  PROVE  /\ Fitting(l, n, m, xn, xa, al, a, r, 1)
         /\ o.msg = "none" /\ SameHands(o, l) /\ (en.seq # 0 => p \in {3, 4}) /\ en.seq < MaxSeq
<1> USE DEF Creates
<1>0. k \in Nat /\ m = k + 1 /\ en.seq \in Nat /\ ta.ref \in Nat /\ en.ref \in Nat
  BY DEF OneMore, EntrySet, TargetSet
<1>c. /\ xn.state = "RECEIVING" /\ xn.ref = en.ref /\ xn.seq = en.seq + 1
      /\ xa.state = ta.state /\ xa.ref = ta.ref + 1 /\ xa.idle = ta.idle
      /\ a \in {"append", "wait"} /\ r = IF a = "append" THEN "yes" ELSE "no"
  BY DEF Created, ReadsIf
<1>1. en.state \in {"KEEPALIVE", "CONNECTED"} /\ en.seq < MaxSeq /\ al = "out"
  BY DEF Fitting, PollFits
<1>2. /\ o.op # "write" /\ o.msg = "none" /\ ~ta.idle /\ ta.state = "LIVE"
  BY <1>1 DEF Fitting, StateFits, Counted, TargetSet
<1>3. Counted(l, n, m, xn, xa)
  <2>1. Kept(o) /\ Kept(l)
    BY DEF Kept, MovesOn, Polled
  <2>2. n \in Nat /\ en.ref = n + 1 /\ ta.ref = k + 1 /\ o.acc = "none"
    BY <1>1, <1>2, <2>1 DEF Fitting, Counted
  <2>3. l.acc = "none"
    BY <2>2 DEF MovesOn
  <2>4. xa.ref = m + 1 /\ xa.ref # 0
    BY <1>0, <1>c, <2>2
  <2> QED  BY <1>0, <1>c, <1>2, <2>1, <2>2, <2>3, <2>4 DEF Counted
<1>4. StateFits(l, xn, xa, 1)
  BY <1>0, <1>c, <1>2 DEF StateFits, MovesOn, Polled
<1>5. PollFits(l, xn, al, a, r, 1)
  BY <1>0, <1>c, <1>1 DEF PollFits
<1>6. SameHands(o, l)
  BY DEF SameHands, MovesOn, Polled
<1>7. en.seq # 0 => p \in {3, 4}
  BY <1>1 DEF Fitting, StateFits
<1> QED  BY <1>1, <1>2, <1>3, <1>4, <1>5, <1>6, <1>7 DEF Fitting

LEMMA SessionFields ==
  ASSUME NEW se \in SessionSet, NEW p \in 0 .. 4, NEW st \in Tells
  PROVE  /\ WithPassive(se, p) \in SessionSet /\ WithPassive(se, p).passive = p
         /\ WithPassive(se, p).told = se.told
         /\ WithTold(se, st) \in SessionSet /\ WithTold(se, st).passive = se.passive
         /\ WithTold(se, st).told = Append(se.told, st)
<1>1. se.told \in Seq(Tells) /\ Append(se.told, st) \in Seq(Tells)
  BY AppendProperties DEF SessionSet
<1> QED  BY <1>1 DEF SessionSet, WithPassive, WithTold

LEMMA SessionPut ==
  ASSUME session \in [Sessions -> SessionSet], NEW s \in Sessions, NEW x \in SessionSet,
         session' = [session EXCEPT ![s] = x]
  PROVE  /\ session' \in [Sessions -> SessionSet] /\ session'[s] = x
         /\ \A t \in Sessions : t # s => session'[t] = session[t]
  OBVIOUS

\* Nobody speaks for a session that does not exist yet, or that was deleted.
LEMMA NobodySpeaks ==
  ASSUME NEW l, NEW s \in Sessions, Sess(l, s), session[s].passive \in {0, 4}
  PROVE  \A w \in Workers : ~SpeaksFor(worker[w], s)
  BY DEF Sess, Speaker, Receiving, Sending, Asking, SpeaksFor, Speaking

\* The session s of c is created, and its message is being read or not.
LEMMA SessionCreated ==
  ASSUME NEW g \in Places, NEW z \in ServicePlaces, Inv(g, z), NEW c, c = at.fd,
         at.pc = "new", NEW s, IsNext(s, c),
         UNCHANGED <<mutex, user, worker, flags>>, obj' = CreatesFor(obj, c),
         session' = [session EXCEPT ![s].passive = 1],
         NEW a, NEW e, Goes(c, a, e), ReadsIf(a, Reads(c)'),
         NEW l \in PlaceSet, NodeGoes(poll, poll', g[c], c, l), MovesOn(g[c], l)
  PROVE  IInv'
<1>1. c \in Conns /\ Ready(poll, c, "read") /\ At(c) = "new" /\ g[c].loc \in {"table", "pipe"}
  BY AtWork
<1>2. /\ Types /\ AliveOK /\ ~obj.bad /\ Serv(z) /\ Queued(Results, poll, g[c], c)
      /\ Fits(g[c], c) /\ g[c] \in PlaceSet /\ obj \in ObjSet /\ Held(worker, g[c], c)
      /\ obj.entry[c] \in EntrySet /\ obj.target[c] \in TargetSet
      /\ obj.service \in ServiceSet /\ obj.alive_list \in Seq(Conns)
      /\ session \in [Sessions -> SessionSet] /\ user \in [Sessions -> UserPcs]
      /\ \A t \in Sessions : t[1] = c => Sess(g[c], t)
  BY <1>1, ConnIs, InvParts
<1>3. Fitting(g[c], Holding(c), Open(c), obj.entry[c],
              obj.target[c], Alive(c), "new", Reads(c), Passive(c))
  BY <1>1, <1>2 DEF Fits
<1>4. l.loc \in Polled
  BY <1>1 DEF MovesOn, Polled
<1>5. PICK xn, xa : xn = NextSeq(obj.entry[c]) /\ xa = MoreRef(obj.target[c])
  OBVIOUS
<1>6. obj.entry[c].seq < MaxSeq
  BY <1>3 DEF Fitting, PollFits
<1>c. Created(obj.entry[c], obj.target[c], xn, xa)
  BY <1>2, <1>5, <1>6, CreatedTypes
<1>7. /\ xn \in EntrySet /\ xn.state = "RECEIVING" /\ xn.ref = obj.entry[c].ref
      /\ xn.seq = obj.entry[c].seq + 1
      /\ xa \in TargetSet /\ xa.state = obj.target[c].state /\ xa.ref = obj.target[c].ref + 1
      /\ xa.idle = obj.target[c].idle
  BY <1>c DEF Created
<1>8. /\ s \in Sessions /\ s[1] = c /\ s[2] = obj.entry[c].seq + 1
  <2>1. obj.entry[c].seq \in Nat
    BY <1>2, Constants DEF EntrySet
  <2> QED  BY <1>1, <1>6, <2>1, SessionOf, Constants DEF IsNext
<1>9. /\ session[s].passive = 0 /\ session[s].told = <<>> /\ user[s] = "none"
      /\ \A w \in Workers : ~SpeaksFor(worker[w], s)
  <2>1. Sess(g[c], s) /\ obj.entry[c].seq \in Nat
    BY <1>2, <1>8, Constants DEF EntrySet
  <2>2. session[s].passive = 0
    BY <1>8, <2>1 DEF Sess
  <2> QED  BY <2>1, <2>2, <1>8, NobodySpeaks DEF Sess, Phases
<1>10. /\ session' \in [Sessions -> SessionSet] /\ session'[s].passive = 1
       /\ session'[s].told = <<>>
       /\ \A t \in Sessions : t # s => session'[t] = session[t]
  <2>1. PICK x : x = WithPassive(session[s], 1)
    OBVIOUS
  <2>2. x \in SessionSet /\ x.passive = 1 /\ x.told = session[s].told
    <3>1. session[s] \in SessionSet /\ "none" \in Tells
      BY <1>2, <1>8 DEF Tells
    <3> QED  BY <2>1, <3>1, SessionFields
  <2>3. session' = [session EXCEPT ![s] = x]
    BY <2>1 DEF WithPassive
  <2> QED  BY <1>2, <1>8, <1>9, <2>2, <2>3, SessionPut
<1>11. OneMore(Cardinality(Undeleted(c)'), Open(c))
  <2>1. IsFiniteSet(Undeleted(c))
    BY Constants, FS_Subset DEF Undeleted
  <2>2. Undeleted(c)' = Undeleted(c) \cup {s} /\ s \notin Undeleted(c)
    BY <1>8, <1>9, <1>10 DEF Undeleted
  <2> QED  BY <2>1, <2>2, CountMore
<1>12. Alive(c) \in {"in", "out"}
  BY DEF Alive
<1>13. /\ Fitting(l, Holding(c), Cardinality(Undeleted(c)'), xn, xa, Alive(c), a,
                  Reads(c)', 1)
       /\ g[c].msg = "none" /\ SameHands(g[c], l)
       /\ obj.entry[c].seq # 0 => Passive(c) \in {3, 4}
  <2>1. PICK o, n, k, m, en, ta, al, rd, r, p :
           /\ o = g[c] /\ n = Holding(c) /\ k = Open(c)
           /\ m = Cardinality(Undeleted(c)') /\ al = Alive(c) /\ rd = Reads(c) /\ r = Reads(c)'
           /\ p = Passive(c) /\ en = obj.entry[c] /\ ta = obj.target[c]
    OBVIOUS
  <2>2. Creates(o, l, n, k, m, en, xn, ta, xa, al, a, rd, r, p)
    BY <1>1, <1>2, <1>3, <1>4, <1>c, <1>11, <1>12, <2>1 DEF Creates
  <2>3. /\ Fitting(l, n, m, xn, xa, al, a, r, 1) /\ o.msg = "none" /\ SameHands(o, l)
        /\ (en.seq # 0 => p \in {3, 4})
    BY <2>2, CreatedFits
  <2> QED  BY <2>1, <2>3
<1>14. obj' = Upd(obj, c, xn, xa, obj.service, obj.alive_list)
  BY <1>1, <1>2, <1>5, CreatesForIs
<1>15. /\ ObjStep(c) /\ obj'.entry[c] = xn /\ obj'.target[c] = xa /\ obj'.service = obj.service
       /\ obj'.alive_list = obj.alive_list
       /\ \A f \in Conns : f # c => obj'.target[f] = obj.target[f]
       /\ Alive(c)' = Alive(c)
  <2>1. Alive(c) = IF c \in ToSet(obj.alive_list) THEN "in" ELSE "out"
    BY DEF Alive
  <2> QED  BY <1>1, <1>2, <1>7, <1>14, <2>1, ObjUpd
<1>16. ServiceFits(z, obj'.service, Cardinality(Live(obj')))
  <2>1. Live(obj') = Live(obj)
    BY <1>7, <1>15 DEF Live
  <2> QED  BY <1>2, <1>15, <2>1 DEF Serv
<1>17. PollStep(c) /\ Queued(Results, poll', l, c)
  BY <1>1, <1>2, QuietPoll, NodeGoesQueued DEF NodeGoes
<1>18. ReadStep(c) /\ At(c)' = a
  BY <1>1, <1>2, ReadGoes
<1>19. WorkStep(c) /\ FlagStep /\ AliveOK' /\ Results' = Results
  <2>1. worker' = worker /\ stop_flag' = stop_flag /\ stray' = stray
    BY DEF flags
  <2> QED  BY <1>2, <1>15, <2>1, SameResults DEF WorkStep, FlagStep, Types, AliveOK
<1>20. SessStep(c)
  BY <1>2, <1>8, <1>10 DEF SessStep, KeepsSession, Types
<1>21. Held(worker, l, c)
  BY <1>2, <1>13, HeldMoves
<1>22. Passive(c)' = 1
  <2>1. obj'.entry[c].seq = obj.entry[c].seq + 1 /\ obj.entry[c].seq \in Nat
    BY <1>2, <1>7, <1>15, Constants DEF EntrySet
  <2>2. LastSession(c)' = s
    BY <2>1 DEF LastSession, IsNext
  <2> QED  BY <1>10, <2>1, <2>2 DEF Passive
<1>23. Fits(l, c)'
  BY <1>13, <1>15, <1>18, <1>22 DEF Fits
<1>24. LastAtHand(c)'
  <2>1. NoneAt(worker, "request", c) /\ NoneAt(worker, "replied", c)
    BY <1>1, <1>2, <1>13 DEF Held, One
  <2> QED  BY <2>1 DEF LastAtHand, NoneAt
<1>25. ASSUME NEW t \in Sessions, t[1] = c PROVE Sess(l, t)'
  <2>1. obj'.entry[t[1]].seq = obj.entry[c].seq + 1 /\ obj.entry[c].seq \in Nat
        /\ obj'.entry[t[1]] = xn
    BY <1>2, <1>7, <1>15, <1>25, Constants DEF EntrySet
  <2>2. CASE t = s
    <3>1. Receiving(session'[s]) /\ Phases(session'[s], user'[s])
      BY <1>9, <1>10 DEF Receiving, Phases
    <3>2. /\ session'[s].passive = 0 <=> s[2] > obj'.entry[s[1]].seq
          /\ ~(s[2] < obj'.entry[s[1]].seq)
      BY <1>8, <1>10, <2>1, <2>2
    <3>3. Sess(l, s)'
      BY <1>9, <3>1, <3>2 DEF Sess
    <3> QED  BY <2>2, <3>3
  <2>3. CASE t # s
    <3>1. t[2] \in Nat /\ t[2] # obj.entry[c].seq + 1
      <4>1. t[2] \in Nat /\ t = <<t[1], t[2]>>
        BY SessionParts
      <4> QED  BY <1>25, <2>3, <4>1 DEF IsNext
    <3>2. Sess(g[c], t) /\ session'[t] = session[t] /\ user'[t] = user[t]
      BY <1>2, <1>10, <1>25, <2>3
    <3>q. PICK q : q = obj.entry[c].seq
      OBVIOUS
    <3>n. /\ q \in Nat /\ t[2] \in Nat /\ t[2] # q + 1 /\ obj'.entry[t[1]].seq = q + 1
          /\ session[t].passive = 0 <=> t[2] > q
          /\ t[2] < q => session[t].passive \in {3, 4}
          /\ session'[t].passive = session[t].passive
      <4>1. /\ session[t].passive = 0 <=> t[2] > obj.entry[t[1]].seq
            /\ t[2] < obj.entry[t[1]].seq => session[t].passive \in {3, 4}
        BY <3>2 DEF Sess
      <4> QED  BY <1>25, <2>1, <3>1, <3>2, <3>q, <4>1
    <3>3. t[2] < obj'.entry[t[1]].seq => session'[t].passive \in {3, 4}
      <4>1. CASE t[2] = q
        <5>1. t = LastSession(c) /\ obj.entry[c].seq # 0
          BY <1>25, <3>q, <4>1, SessionParts DEF LastSession
        <5> QED  BY <1>13, <3>n, <5>1 DEF Passive
      <4>2. CASE t[2] # q
        BY <3>n, <4>2
      <4> QED  BY <4>1, <4>2
    <3>4. ~Owed(l, t)'
      BY <2>1, <3>1 DEF Owed
    <3>5. session'[t].passive = 0 <=> t[2] > obj'.entry[t[1]].seq
      BY <3>n
    <3> QED  BY <3>2, <3>3, <3>4, <3>5 DEF Sess
  <2> QED  BY <2>2, <2>3
<1>26. Conn(l, c)'
  BY <1>17, <1>19, <1>21, <1>23, <1>24, <1>25 DEF Conn
<1> QED  BY <1>1, <1>15, <1>16, <1>17, <1>18, <1>19, <1>20, <1>26, ConnStepKeeps

LEMMA CreateSessionKeeps ==
  ASSUME NEW g \in Places, NEW z \in ServicePlaces, Inv(g, z), create_request_session
  PROVE  IInv'
<1>0. PICK c : c = at.fd
  OBVIOUS
<1>s. PICK s : IsNext(s, c)
  BY DEF IsNext
<1>1. /\ at.pc = "new" /\ UNCHANGED <<mutex, user, worker, flags>>
  BY DEF create_request_session
<1>2. c \in Conns /\ Ready(poll, c, "read") /\ At(c) = "new" /\ g[c].loc \in {"table", "pipe"}
  BY <1>0, <1>1, AtWork
<1>3. /\ poll \in Group(Results) /\ g[c] \in PlaceSet /\ Queued(Results, poll, g[c], c)
      /\ UseEntry(obj, c) = obj /\ UseTarget(obj, c) = obj
  BY <1>2, ConnIs, EntryUsable
<1>4. CASE /\ obj' = CreatesFor(UseEntry(UseTarget(obj, c), c), c)
           /\ session' = [session EXCEPT ![s].passive = 1]
           /\ reading' = reading \cup {c} /\ PollerGo("append", c) /\ UNCHANGED poll
  <2>1. Goes(c, "append", c)
    BY <1>2, <1>4 DEF Goes, PollerGo, PollerPcs
  <2>2. ReadsIf("append", Reads(c)')
    BY <1>4 DEF Reads, ReadsIf
  <2>3. NodeGoes(poll, poll', g[c], c, g[c]) /\ MovesOn(g[c], g[c])
    BY <1>3, <1>4, NodeStays DEF MovesOn
  <2> QED  BY <1>0, <1>s, <1>1, <1>3, <1>4, <2>1, <2>2, <2>3, SessionCreated
<1>5. CASE /\ obj' = CreatesFor(UseEntry(UseTarget(obj, c), c), c)
           /\ session' = [session EXCEPT ![s].passive = 1] /\ ReadEnds(c, "ERROR")
  <2>1. Goes(c, "wait", NONE)
    BY <1>5 DEF Goes, PollerGo, ReadEnds
  <2>2. ReadsIf("wait", Reads(c)')
    BY <1>5 DEF Reads, ReadEnds, ReadsIf
  <2>3. "ERROR" \in Ends \ {"DELETED"}
    BY DEF Ends
  <2>4. PICK l \in PlaceSet : NodeGoes(poll, poll', g[c], c, l) /\ MovesOn(g[c], l)
    BY <1>2, <1>3, <1>5, <2>3, DoneReports DEF ReadEnds
  <2> QED  BY <1>0, <1>s, <1>1, <1>3, <1>5, <2>1, <2>2, <2>4, SessionCreated
<1>6. CASE obj.entry[c].state = "CONNECTED" /\ ReadEnds(c, "ERROR") /\ UNCHANGED <<obj, session>>
  <2>1. PollerFrame
    BY <1>1, <1>6 DEF PollerFrame, users
  <2> QED  BY <1>0, <1>2, <1>6, <2>1, ReadEndsKeeps
<1> QED  BY <1>0, <1>s, <1>4, <1>5, <1>6 DEF create_request_session, CreatesFor, IsNext

----
(* A message goes to the queue. *)

LEMMA MessagePut ==
  ASSUME NEW x \in Group(Results), NEW r \in Messages(Results), NEW y, y = Callback(x, r)
  PROVE  MessageGoes(x, y, r)
<1>1. r \in Results /\ \A f \in Fds : r \notin EndsOf(Results, f)
  BY DEF Messages, EndsOf, Ends
<1>2. /\ Steady(Results, x, y) /\ y.queue = Append(x.queue, r)
      /\ \A f \in Fds : Leaves(Results, x, y, f)
  BY <1>1, CallbackNode
<1>3. x.queue \in Seq(Results)
  BY GroupFields
<1>4. ASSUME NEW S, NEW T, NEW place, r \notin S, Slot(x.queue, S, T, place, "queue")
      PROVE  Slot(y.queue, S, T, place, "queue")
  BY <1>1, <1>2, <1>3, <1>4, SlotKept
<1>5. ASSUME NEW S, NEW T, r \in S, r \in T, None(x.queue, S) PROVE Only(y.queue, S, T)
  <2>1. Only(Append(x.queue, r), S, T)
    BY <1>1, <1>3, <1>5, SlotAppend
  <2> QED  BY <1>2, <2>1
<1> QED  BY <1>2, <1>4, <1>5 DEF MessageGoes

LEMMA WithFields ==
  ASSUME NEW l \in PlaceSet
  PROVE  /\ \A m \in {"none", "queue", "request"} :
               /\ WithMsg(l, m) \in PlaceSet /\ WithMsg(l, m).msg = m
               /\ WithMsg(l, m).loc = l.loc /\ WithMsg(l, m).op = l.op
               /\ WithMsg(l, m).acc = l.acc
         /\ \A m \in {"none", "queue", "accepted"} :
               /\ WithAcc(l, m) \in PlaceSet /\ WithAcc(l, m).acc = m
               /\ WithAcc(l, m).loc = l.loc /\ WithAcc(l, m).op = l.op
               /\ WithAcc(l, m).msg = l.msg
  BY DEF PlaceSet, WithMsg, WithAcc

LEMMA InStateIs ==
  ASSUME NEW en \in EntrySet, NEW st \in EntryStates, NEW xn, xn = InState(en, st)
  PROVE  InStateOf(en, st, xn)
<1>1. 0 \in Nat
  OBVIOUS
<1> QED  BY <1>1, EntryTypes DEF InStateOf

LEMMA CompletesFits ==
  ASSUME NEW o, NEW l, NEW n, NEW k, NEW en, NEW xn, NEW ta, NEW al, NEW rd, NEW p,
         Completes(o, l, n, k, en, xn, ta, al, rd, p)
  PROVE  /\ Fitting(l, n, k, xn, ta, al, "data", "no", p) /\ SameHands(o, l)
         /\ Owes(o, en) /\ o.msg = "none" /\ en.seq # 0
<1>0. /\ xn.state = "SUCCESS" /\ xn.ref = en.ref /\ xn.seq = en.seq
      /\ o.loc \in {"table", "pipe"} /\ l.loc = o.loc /\ l.op = o.op /\ l.acc = o.acc
      /\ l.msg = "queue" /\ Fitting(o, n, k, en, ta, al, "append", rd, p)
  BY DEF Completes, InStateOf
<1>1. en.state = "RECEIVING" /\ p = 1
  BY <1>0 DEF Fitting, PollFits
<1>2. o.op # "write" /\ o.msg = "none" /\ ~ta.idle /\ en.seq # 0
  BY <1>0, <1>1 DEF Fitting, StateFits
<1>p. l.op = "read"
  BY <1>0, <1>2 DEF Completes, PlaceSet
<1>3. Counted(l, n, k, xn, ta)
  BY <1>0, <1>1, <1>2 DEF Fitting, Counted, Kept
<1>4. StateFits(l, xn, ta, p)
  BY <1>0, <1>1, <1>2, <1>p DEF StateFits, Watched
<1>5. PollFits(l, xn, al, "data", "no", p)
  BY <1>0, <1>1 DEF Fitting, PollFits
<1>6. SameHands(o, l) /\ Owes(o, en)
  BY <1>0, <1>1, <1>2 DEF SameHands, Owes, Watched
<1> QED  BY <1>2, <1>3, <1>4, <1>5, <1>6 DEF Fitting

LEMMA CompleteKeeps ==
  ASSUME NEW g \in Places, NEW z \in ServicePlaces, Inv(g, z), NEW c, c = at.fd,
         at.pc = "append", PollerFrame, obj' = SetState(obj, c, "SUCCESS"),
         NEW s, s = LastSession(c),
         poll' = Callback(poll, Result(c, "read", "SUCCESS", s)),
         reading' = reading \ {c}, PollerGo("data", c)
  PROVE  IInv'
<1>1. c \in Conns /\ Ready(poll, c, "read") /\ At(c) = "append" /\ g[c].loc \in {"table", "pipe"}
  BY AtWork
<1>2. /\ Types /\ AliveOK /\ ~obj.bad /\ Serv(z) /\ Queued(Results, poll, g[c], c)
      /\ Fits(g[c], c) /\ g[c] \in PlaceSet /\ obj \in ObjSet /\ poll \in Group(Results)
      /\ obj.entry[c] \in EntrySet /\ obj.target[c] \in TargetSet
      /\ obj.service \in ServiceSet /\ obj.alive_list \in Seq(Conns)
  BY <1>1, ConnIs, InvParts
<1>3. PICK xn, l : xn = InState(obj.entry[c], "SUCCESS") /\ l = WithMsg(g[c], "queue")
  OBVIOUS
<1>4. InStateOf(obj.entry[c], "SUCCESS", xn) /\ xn \in EntrySet /\ xn.seq = obj.entry[c].seq
  <2>1. InStateOf(obj.entry[c], "SUCCESS", xn)
    BY <1>2, <1>3, InStateIs DEF EntryStates
  <2> QED  BY <2>1 DEF InStateOf
<1>5. l \in PlaceSet /\ l.msg = "queue" /\ l.loc = g[c].loc /\ l.op = g[c].op /\ l.acc = g[c].acc
  BY <1>2, <1>3, WithFields
<1>6. /\ Fitting(l, Holding(c), Open(c), xn, obj.target[c],
                 Alive(c), "data", "no", Passive(c))
      /\ SameHands(g[c], l) /\ Owes(g[c], obj.entry[c]) /\ g[c].msg = "none"
      /\ obj.entry[c].seq # 0
  <2>1. PICK o, n, k, en, ta, al, rd, p :
           /\ o = g[c] /\ n = Holding(c) /\ k = Open(c)
           /\ en = obj.entry[c] /\ ta = obj.target[c] /\ al = Alive(c) /\ rd = Reads(c)
           /\ p = Passive(c)
    OBVIOUS
  <2>2. Completes(o, l, n, k, en, xn, ta, al, rd, p)
    BY <1>1, <1>2, <1>4, <1>5, <2>1 DEF Completes, Fits
  <2>3. /\ Fitting(l, n, k, xn, ta, al, "data", "no", p) /\ SameHands(o, l)
        /\ Owes(o, en) /\ o.msg = "none" /\ en.seq # 0
    BY <2>2, CompletesFits
  <2> QED  BY <2>1, <2>3
<1>7. obj' = Upd(obj, c, xn, obj.target[c], obj.service, obj.alive_list)
  <2>1. Usable(obj, c) /\ obj.entry[c].state \notin {"NONE", "FREED"}
    BY <1>1, EntryUsable
  <2> QED  BY <1>3, <2>1, SetStateIs
<1>8. /\ ObjStep(c) /\ obj'.entry[c] = xn /\ obj'.target[c] = obj.target[c]
      /\ obj'.service = obj.service /\ obj'.alive_list = obj.alive_list
      /\ \A f \in Conns : f # c => obj'.target[f] = obj.target[f]
      /\ Alive(c)' = Alive(c)
  <2>1. Alive(c) = IF c \in ToSet(obj.alive_list) THEN "in" ELSE "out"
    BY DEF Alive
  <2> QED  BY <1>1, <1>2, <1>4, <1>7, <2>1, ObjUpd
<1>9. ServiceFits(z, obj'.service, Cardinality(Live(obj')))
  <2>1. Live(obj') = Live(obj)
    BY <1>8 DEF Live
  <2> QED  BY <1>2, <1>8, <2>1 DEF Serv
<1>10. PICK r : r = Result(c, "read", "SUCCESS", s)
  OBVIOUS
<1>11. /\ r \in Results /\ r.fd = c /\ r.state = "SUCCESS"
  <2>1. s \in Conns \X Nat
    BY <1>1, <1>2, Constants DEF LastSession, EntrySet
  <2>2. "ERROR" \in Ends
    BY DEF Ends
  <2>3. r \in Results
    BY <1>1, <1>10, <2>1, <2>2, ConnResults
  <2> QED  BY <1>10, <2>3 DEF Result
<1>12. r \in Messages(Results) /\ r \in MsgsOf(Results, c)
       /\ \A f \in Conns : r \notin AccsOf(Results, f) /\ (f # c => r \notin MsgsOf(Results, f))
  BY <1>1, <1>11, Constants DEF Messages, MsgsOf, AccsOf
<1>13. /\ Steady(Results, poll, poll')
       /\ \A f \in Fds : Leaves(Results, poll, poll', f)
       /\ \A S, T, place : r \notin S /\ Slot(poll.queue, S, T, place, "queue")
                              => Slot(poll'.queue, S, T, place, "queue")
       /\ \A S, T : r \in S /\ r \in T /\ None(poll.queue, S) => Only(poll'.queue, S, T)
  <2>1. MessageGoes(poll, poll', r)
    BY <1>2, <1>10, <1>12, MessagePut
  <2> QED  BY <2>1 DEF MessageGoes
<1>14. PollStep(c)
  BY <1>12, <1>13 DEF PollStep, Steady
<1>15. Queued(Results, poll', l, c)
  <2>1. NodeAt(Results, poll', c, l.loc, l.op)
    BY <1>1, <1>2, <1>5, <1>13, Constants DEF Queued, Leaves
  <2>2. Slot(poll'.queue, MsgsOf(Results, c), Results, l.msg, "queue")
    <3>1. None(poll.queue, MsgsOf(Results, c))
      BY <1>2, <1>6 DEF Queued, Slot
    <3> QED  BY <1>5, <1>11, <1>12, <1>13, <3>1 DEF Slot
  <2>3. Slot(poll'.queue, AccsOf(Results, c), Results, l.acc, "queue")
    BY <1>1, <1>2, <1>5, <1>12, <1>13 DEF Queued
  <2> QED  BY <2>1, <2>2, <2>3 DEF Queued
<1>16. ReadStep(c) /\ At(c)' = "data" /\ Reads(c)' = "no"
  <2>1. Goes(c, "data", c)
    BY <1>1, <1>13 DEF Goes, PollerGo, PollerPcs, Ready, Steady
  <2>2. ReadStep(c) /\ At(c)' = "data"
    BY <1>1, <1>2, <2>1, ReadGoes
  <2> QED  BY <2>2 DEF Reads
<1>17. AliveOK'
  BY <1>2, <1>8, AliveSame DEF PollerFrame
<1>18. obj'.entry[c].seq = obj.entry[c].seq
  BY <1>4, <1>8
<1> QED  BY <1>1, <1>5, <1>6, <1>8, <1>9, <1>14, <1>15, <1>16, <1>17, <1>18, QuietStep
         DEF PollerFrame

LEMMA AppendKeeps ==
  ASSUME NEW g \in Places, NEW z \in ServicePlaces, Inv(g, z), append_message
  PROVE  IInv'
<1>0. PICK c, s : c = at.fd /\ s = LastSession(c)
  OBVIOUS
<1>1. at.pc = "append" /\ PollerFrame
  BY DEF append_message, PollerFrame
<1>2. c \in Conns /\ Ready(poll, c, "read") /\ At(c) = "append" /\ g[c].loc \in {"table", "pipe"}
  BY <1>0, <1>1, AtWork
<1>3. UseEntry(obj, c) = obj
  BY <1>2, EntryUsable
<1>4. CASE PollerGo("data", c) /\ obj' = UseEntry(obj, c) /\ UNCHANGED <<poll, reading>>
  <2>1. PollFits(g[c], obj.entry[c], Alive(c), "append", Reads(c), Passive(c))
    BY <1>2, ConnIs DEF Fits, Fitting
  <2>2. PollFits(g[c], obj.entry[c], Alive(c), "data", Reads(c), Passive(c))
    BY <1>2, <2>1 DEF PollFits
  <2>3. "data" \in PollerPcs \ {"wait"}
    BY DEF PollerPcs
  <2> QED  BY <1>0, <1>1, <1>2, <1>3, <1>4, <2>2, <2>3, PollerStays
<1>5. CASE obj' = UseEntry(obj, c) /\ ReadEnds(c, "ERROR")
  BY <1>0, <1>1, <1>2, <1>3, <1>5, ReadEndsKeeps
<1>6. CASE /\ obj' = SetState(obj, c, "SUCCESS") /\ reading' = reading \ {c}
           /\ poll' = Callback(poll, Result(c, "read", "SUCCESS", s)) /\ PollerGo("data", c)
  BY <1>0, <1>1, <1>6, CompleteKeeps
<1> QED  BY <1>0, <1>4, <1>5, <1>6 DEF append_message, LastSession

----
(* The nodes of many descriptors move. *)

LEMMA MovedToIs ==
  ASSUME NEW o \in PlaceSet, NEW from, NEW f \in Fds,
         Early(from), NEW l, l = MovedTo(o, Moved(f, 0, o.loc, from))
  PROVE  /\ l \in PlaceSet /\ MovesOn(o, l) /\ l.loc = Moved(f, 0, o.loc, from) /\ l.op = o.op
         /\ l.msg = o.msg /\ l.acc = o.acc
<1>1. Moved(f, 0, o.loc, from) \in {"none", "table", "pipe", "queue", "ended", "replied"}
      /\ (Moved(f, 0, o.loc, from) = o.loc \/ (o.loc \in Polled /\ Moved(f, 0, o.loc, from) \in Polled))
  BY DEF Moved, Polled, PlaceSet, Early
<1>2. PICK m : m = Moved(f, 0, o.loc, from)
  OBVIOUS
<1>3. l \in PlaceSet /\ l.loc = m /\ l.op = o.op /\ l.msg = o.msg /\ l.acc = o.acc
  BY <1>1, <1>2 DEF PlaceSet, MovedTo
<1> QED  BY <1>1, <1>2, <1>3 DEF MovesOn

\* The connection c, whose node moves.
LEMMA ConnMoves ==
  ASSUME NEW g \in Places, NEW z \in ServicePlaces, Inv(g, z), NEW c \in Conns,
         UNCHANGED <<pollers, obj, users, worker, flags>>,
         NEW from, NodesMove(from), NEW l, l = MovedTo(g[c], Moved(c, 0, g[c].loc, from))
  PROVE  l \in PlaceSet /\ Conn(l, c)'
<1>1. /\ Queued(Results, poll, g[c], c) /\ Held(worker, g[c], c) /\ Fits(g[c], c)
      /\ LastAtHand(c) /\ g[c] \in PlaceSet /\ Types
      /\ \A s \in Sessions : s[1] = c => Sess(g[c], s)
  BY ConnIs, InvParts
<1>2. c \in Fds
  BY Constants
<1>3. /\ worker' = worker /\ session' = session /\ user' = user /\ stop_flag' = stop_flag
      /\ obj' = obj /\ at' = at /\ reading' = reading
  BY DEF flags, pollers, users
<1>4. Results' = Results
  BY <1>3, SameResults
<1>5. /\ l \in PlaceSet /\ MovesOn(g[c], l) /\ l.op = g[c].op /\ l.msg = g[c].msg
      /\ l.acc = g[c].acc /\ l.loc = Moved(c, 0, g[c].loc, from)
  <2>1. PICK o : o = g[c]
    OBVIOUS
  <2>2. o \in PlaceSet /\ l = MovedTo(o, Moved(c, 0, o.loc, from)) /\ Early(from)
    BY <1>1, <2>1 DEF NodesMove
  <2>3. /\ l \in PlaceSet /\ MovesOn(o, l) /\ l.loc = Moved(c, 0, o.loc, from) /\ l.op = o.op
        /\ l.msg = o.msg /\ l.acc = o.acc
    BY <1>2, <2>2, MovedToIs
  <2> QED  BY <2>1, <2>3
<1>6. Queued(Results, poll', l, c)
  <2>1. g[c].op \in Ops
    BY <1>1 DEF PlaceSet, Ops
  <2>2. NodeAt(Results, poll', c, l.loc, l.op)
    BY <1>1, <1>2, <1>5, <2>1 DEF NodesMove, MovesNodes, Queued
  <2>3. MsgsOf(Results, c) \in SUBSET Messages(Results) /\ AccsOf(Results, c) \in SUBSET Messages(Results)
    BY MessagesOfConn
  <2> QED  BY <1>1, <1>5, <2>2, <2>3 DEF NodesMove, SameMessages, Queued
<1>7. Fits(l, c)' /\ SameHands(g[c], l) /\ (Owes(l, obj.entry[c]) <=> Owes(g[c], obj.entry[c]))
  <2>1. /\ Fitting(l, Holding(c), Open(c), obj.entry[c],
                   obj.target[c], Alive(c), At(c), Reads(c), Passive(c))
        /\ SameHands(g[c], l) /\ (Owes(l, obj.entry[c]) <=> Owes(g[c], obj.entry[c]))
    BY <1>1, <1>5, MovedFits DEF Fits
  <2>2. /\ Undeleted(c)' = Undeleted(c) /\ Alive(c)' = Alive(c) /\ At(c)' = At(c)
        /\ Reads(c)' = Reads(c) /\ Passive(c)' = Passive(c)
    BY <1>3 DEF Undeleted, Alive, At, Reads, Passive, LastSession
  <2> QED  BY <1>3, <2>1, <2>2 DEF Fits
<1>8. Held(worker', l, c)
  BY <1>1, <1>3, <1>7, HeldMoves
<1>9. LastAtHand(c)'
  BY <1>1, <1>3 DEF LastAtHand, LastSession
<1>10. ASSUME NEW s \in Sessions, s[1] = c PROVE Sess(l, s)'
  <2>1. Owed(l, s)' => Owed(g[c], s)
    BY <1>3, <1>7, <1>10 DEF Owed
  <2> QED  BY <1>1, <1>3, <1>10, <2>1, SessKept
<1> QED  BY <1>4, <1>5, <1>6, <1>7, <1>8, <1>9, <1>10 DEF Conn

\* The service, whose node moves.
LEMMA ServiceMoves ==
  ASSUME NEW z \in ServicePlaces, Serv(z), UNCHANGED <<obj, worker, stop_flag>>,
         NEW from, NodesMove(from), NEW y,
         y = [z EXCEPT !.loc = Moved(listen_fd, 0, z.loc, from)]
  PROVE  y \in ServicePlaces /\ Serv(y)'
<1>1. Results' = Results
  BY SameResults
<1>2. listen_fd \in Fds /\ "listen" \in Ops
  BY Constants DEF Ops
<1>3. NodeAt(Results', poll', listen_fd, y.loc, "listen") /\ y.own = z.own
  BY <1>1, <1>2 DEF Serv, ServiceNode, NodesMove, MovesNodes, ServicePlaces
<1>4. y.loc = z.loc \/ (z.loc \in {"table", "pipe"} /\ y.loc = "queue")
  BY DEF Moved, NodesMove, Early, ServicePlaces
<1>5. y \in ServicePlaces
  BY <1>3, <1>4 DEF ServicePlaces
<1>6. ServiceNode(Results', poll', worker', y)
  BY <1>3, <1>4 DEF Serv, ServiceNode
<1>7. MainFits(y, worker'[Main].pc)
  BY <1>3, <1>4 DEF Serv, MainFits
<1>8. ServiceFits(y, obj'.service, Cardinality(Live(obj')))
  BY <1>3, <1>4 DEF Serv, ServiceFits
<1> QED  BY <1>5, <1>6, <1>7, <1>8 DEF Serv

LEMMA NodesMoveKeeps ==
  ASSUME NEW g \in Places, NEW z \in ServicePlaces, Inv(g, z),
         UNCHANGED <<pollers, obj, users, worker, flags>>,
         NEW from, NodesMove(from), PollerAt'
  PROVE  IInv'
<1>1. PICK y : y = [z EXCEPT !.loc = Moved(listen_fd, 0, z.loc, from)]
  OBVIOUS
<1>2. Types /\ AliveOK /\ ~obj.bad /\ Serv(z)
  BY InvParts
<1>3. /\ worker' = worker /\ session' = session /\ user' = user /\ stop_flag' = stop_flag
      /\ obj' = obj /\ at' = at /\ reading' = reading /\ mutex' = mutex /\ stray' = stray
  BY DEF flags, pollers, users
<1>4. y \in ServicePlaces /\ Serv(y)'
  BY <1>1, <1>2, <1>3, ServiceMoves
<1>5. Global'
  <2>1. Results' = Results
    BY <1>3, SameResults
  <2>2. Types'
    BY <1>2, <1>3, <2>1 DEF Types, NodesMove
  <2>3. AliveOK'
    BY <1>2, <1>3 DEF AliveOK
  <2> QED  BY <1>2, <1>3, <2>2, <2>3 DEF Global
<1>6. PICK k : k = [c \in Conns |-> MovedTo(g[c], Moved(c, 0, g[c].loc, from))]
  OBVIOUS
<1>7. ASSUME NEW c \in Conns PROVE k[c] \in PlaceSet /\ Conn(k[c], c)'
  <2>1. PICK l : l = MovedTo(g[c], Moved(c, 0, g[c].loc, from))
    OBVIOUS
  <2>2. k[c] = l
    BY <1>6, <2>1
  <2>3. l \in PlaceSet /\ Conn(l, c)'
    BY <2>1, ConnMoves
  <2> QED  BY <2>2, <2>3
<1>8. k \in Places
  BY <1>6, <1>7
<1>9. Inv(k, y)'
  BY <1>4, <1>5, <1>7 DEF Inv
<1> QED  BY <1>4, <1>8, <1>9 DEF IInv

LEMMA EpollKeeps ==
  ASSUME NEW g \in Places, NEW z \in ServicePlaces, Inv(g, z), epoll_wait
  PROVE  IInv'
<1>1. /\ poll \in Group(Results) /\ PollerAt /\ 0 \in Pollers
  BY InvParts, Constants DEF Types
<1>2. PICK B \in Batches(poll, 0) : poll' = EpollWait(poll, 0, B)
  BY DEF epoll_wait
<1>3. /\ HasEvents(Results, poll, poll', 0, B)
      /\ \A f \in Fds : Leaves(Results, poll, poll', f)
  BY <1>1, <1>2, EpollNode DEF epoll_wait
<1>4. PICK from : from = {}
  OBVIOUS
<1>5. NodesMove(from)
  <2>1. \A f, loc : Moved(f, 0, loc, from) = loc
    BY <1>4 DEF Moved
  <2>2. MovesNodes(Results, poll, poll', 0, from)
    BY <1>3, <2>1 DEF MovesNodes, Leaves
  <2> QED  BY <1>3, <1>4, <2>2 DEF NodesMove, HasEvents, SameMessages, Early
<1>6. PollerAt'
  BY <1>1 DEF PollerAt, epoll_wait, pollers
<1> QED  BY <1>5, <1>6, NodesMoveKeeps DEF epoll_wait

LEMMA PipeKeeps ==
  ASSUME NEW g \in Places, NEW z \in ServicePlaces, Inv(g, z), poller_handle_pipe
  PROVE  IInv'
<1>1. /\ poll \in Group(Results) /\ PollerAt /\ 0 \in Pollers
  BY InvParts, Constants DEF Types
<1>2. poll' = ReadPipe(poll, 0) /\ poll.batch[0] = {}
  BY DEF poller_handle_pipe, PipeReady
<1>3. /\ Steady(Results, poll, poll') /\ SameMessages(Results, poll, poll')
      /\ MovesNodes(Results, poll, poll', 0, {"pipe"})
  BY <1>1, <1>2, ReadPipeNode
<1>4. NodesMove({"pipe"})
  BY <1>3 DEF NodesMove, Steady, Early
<1>6. PollerAt'
  BY <1>1 DEF PollerAt, poller_handle_pipe, pollers
<1> QED  BY <1>4, <1>6, NodesMoveKeeps DEF poller_handle_pipe

\* Main is off as long as the listening socket is registered.
LEMMA TableIsBound ==
  ASSUME NEW g \in Places, NEW z \in ServicePlaces, Inv(g, z),
         Registered(poll, listen_fd)
  PROVE  z.loc = "table" /\ worker[Main].pc = "off" /\ poll.table[listen_fd] = "listen"
<1>1. Serv(z) /\ Main \in Workers
  BY InvParts, Constants
<1>2. z.loc = "table" /\ poll.table[listen_fd] = "listen"
  BY <1>1 DEF Serv, ServiceNode, NodeAt, Registered
<1> QED  BY <1>1, <1>2 DEF Serv, MainFits

----
(* The listening socket. *)

\* Nothing is seen of it by the connections.
LEMMA ConnsApart ==
  ASSUME Types, stop_flag' = stop_flag, Results' = Results,
         SameMessages(Results, poll, poll'),
         \A f \in Fds : f # listen_fd => Leaves(Results, poll, poll', f)
  PROVE  \A f \in Conns : KeepsQueued(f)
<1> SUFFICES ASSUME NEW f \in Conns, NEW l, Queued(Results, poll, l, f)
             PROVE  Queued(Results, poll', l, f)
  BY DEF KeepsQueued
<1>1. f \in Fds /\ f # listen_fd
  BY Constants
<1>2. MsgsOf(Results, f) \in SUBSET Messages(Results) /\ AccsOf(Results, f) \in SUBSET Messages(Results)
  BY MessagesOfConn
<1> QED  BY <1>1, <1>2 DEF Leaves, Queued, SameMessages

LEMMA ListenKeeps ==
  ASSUME NEW g \in Places, NEW z \in ServicePlaces, Inv(g, z),
         UNCHANGED <<pollers, obj, users, worker, flags>>, at.pc = "wait",
         NEW y \in ServicePlaces, ListenGoes(z, y)
  PROVE  IInv'
<1>1. Types /\ PollerAt /\ AliveOK /\ ~obj.bad /\ Serv(z)
  BY InvParts
<1>2. /\ worker' = worker /\ session' = session /\ user' = user /\ stop_flag' = stop_flag
      /\ obj' = obj /\ at' = at /\ reading' = reading /\ mutex' = mutex /\ stray' = stray
  BY DEF flags, pollers, users
<1>3. Results' = Results
  BY <1>2, SameResults
<1>4. Global'
  <2>1. Types'
    BY <1>1, <1>2, <1>3 DEF Types, ListenGoes
  <2>2. PollerAt' /\ AliveOK'
    BY <1>1, <1>2 DEF PollerAt, AliveOK
  <2> QED  BY <1>1, <1>2, <2>1, <2>2 DEF Global
<1>5. Serv(y)'
  <2>1. ServiceNode(Results', poll', worker', y)
    BY <1>1, <1>2, <1>3 DEF Serv, ServiceNode, ListenGoes, ServicePlaces
  <2>2. MainFits(y, worker'[Main].pc)
    BY <1>1, <1>2 DEF Serv, MainFits, ListenGoes, ServicePlaces
  <2>3. ServiceFits(y, obj'.service, Cardinality(Live(obj')))
    BY <1>1, <1>2 DEF Serv, ServiceFits, ListenGoes, ServicePlaces
  <2> QED  BY <2>1, <2>2, <2>3 DEF Serv
<1>6. ASSUME NEW f \in Conns PROVE Apart(f)
  <2>1. KeepsQueued(f)
    BY <1>1, <1>2, <1>3, ConnsApart DEF ListenGoes
  <2>2. KeepsWork(f) /\ KeepsObj(f) /\ KeepsRead(f) /\ KeepsSession(f)
    BY <1>2 DEF KeepsWork, KeepsObj, KeepsRead, KeepsSession, Alive, At, Reads
  <2> QED  BY <2>1, <2>2 DEF Apart
<1> QED  BY <1>4, <1>5, <1>6, NoConnKeeps

\* Its error is reported, when no event of it is at hand, or is at once.
LEMMA ListenReports ==
  ASSUME NEW g \in Places, NEW z \in ServicePlaces, Inv(g, z),
         NEW x \in Group(Results), NoEvent(x, listen_fd), x.table = poll.table,
         NodeAt(Results, x, listen_fd, z.loc, "listen"), SameMessages(Results, poll, x),
         \A f \in Fds : f # listen_fd => Leaves(Results, poll, x, f),
         poll' = Report(x, listen_fd, "listen", "ERROR")
  PROVE  \E y \in ServicePlaces : ListenGoes(z, y)
<1>0. listen_fd \in Fds /\ "listen" \in Ops
  BY Constants DEF Ops
<1>1. CASE x.table[listen_fd] # "listen"
  <2>1. poll' = x
    BY <1>1 DEF Report
  <2>2. ListenGoes(z, z)
    BY <2>1 DEF ListenGoes
  <2> QED  BY <2>2
<1>2. CASE x.table[listen_fd] = "listen"
  <2>1. worker[Main].pc = "off" /\ z.loc = "table"
    BY <1>2, TableIsBound DEF Registered
  <2>2. Result(listen_fd, "listen", "ERROR", NONE) \in Results
    BY <1>0, <2>1 DEF Result, Results, ResultsOf, ListenEnd, Ends
  <2>3. "ERROR" \in Ends \ {"DELETED"}
    BY DEF Ends
  <2>4. /\ Steady(Results, x, poll')
        /\ \A f \in Fds : f # listen_fd => Leaves(Results, x, poll', f)
        /\ SameMessages(Results, x, poll')
        /\ NodeAt(Results, x, listen_fd, "table", "listen")
              => NodeAt(Results, poll', listen_fd, "queue", "listen")
    BY <1>0, <2>2, <2>3, ReportNode
  <2>5. PICK y : y = [z EXCEPT !.loc = "queue"]
    OBVIOUS
  <2>6. y \in ServicePlaces /\ y.loc = "queue"
    BY <2>5 DEF ServicePlaces
  <2>7. ListenGoes(z, y)
    BY <2>1, <2>4, <2>5, <2>6 DEF ListenGoes, Steady, SameMessages, Leaves
  <2> QED  BY <2>6, <2>7
<1> QED  BY <1>1, <1>2

LEMMA AcceptsForIs ==
  ASSUME NEW o \in ObjSet, NEW c \in Conns
  PROVE  AcceptsFor(o, c) = Upd(o, c, o.entry[c], NewTarget, OneMoreRef(o.service), o.alive_list)
<1>1. /\ o.entry \in [Conns -> EntrySet]
      /\ o = Whole(o)
  BY ObjFields
<1>2. [o.entry EXCEPT ![c] = o.entry[c]] = o.entry
  BY <1>1
<1>3. PICK x : x = [o EXCEPT !.service.ref = @ + 1]
  OBVIOUS
<1>4. x = [entry |-> o.entry, target |-> o.target, service |-> OneMoreRef(o.service),
           alive_list |-> o.alive_list, torn |-> o.torn, bad |-> o.bad]
  BY <1>1, <1>3 DEF OneMoreRef
<1>5. AcceptsFor(o, c) = [x EXCEPT !.target[c] = NewTarget]
  BY <1>3 DEF AcceptsFor
<1>6. [x EXCEPT !.target[c] = NewTarget]
        = [entry |-> o.entry, target |-> [o.target EXCEPT ![c] = NewTarget],
           service |-> OneMoreRef(o.service),
           alive_list |-> o.alive_list, torn |-> o.torn, bad |-> o.bad]
  BY <1>4
<1> QED  BY <1>2, <1>5, <1>6 DEF Upd

LEMMA AcceptsFits ==
  ASSUME NEW o, NEW l, NEW n, NEW k, NEW en, NEW ta, NEW xa, NEW al, NEW a, NEW rd, NEW p,
         Accepts(o, l, n, k, en, ta, xa, al, a, rd, p)
  PROVE  /\ Fitting(l, n, k, en, xa, al, a, rd, p) /\ SameHands(o, l)
         /\ o.acc = "none" /\ (Owes(l, en) <=> Owes(o, en))
<1>0. /\ l.loc = o.loc /\ l.op = o.op /\ l.msg = o.msg /\ l.acc = "queue"
      /\ xa.state = "LIVE" /\ xa.ref = 1 /\ xa.idle = FALSE /\ ta.state = "NONE"
      /\ Fitting(o, n, k, en, ta, al, a, rd, p) /\ o \in PlaceSet
  BY DEF Accepts
<1>1. en.state = "NONE" /\ k = 0 /\ o.acc = "none" /\ ~Kept(o)
  BY <1>0 DEF Fitting, Counted
<1>2. Counted(l, n, k, en, xa)
  BY <1>0, <1>1 DEF Fitting, Counted, Kept
<1>3. StateFits(l, en, xa, p)
  BY <1>0, <1>1 DEF Fitting, StateFits, Kept
<1>4. PollFits(l, en, al, a, rd, p)
  BY <1>0 DEF Fitting, PollFits
<1>5. SameHands(o, l) /\ (Owes(l, en) <=> Owes(o, en))
  BY <1>0, <1>1 DEF SameHands, Owes
<1> QED  BY <1>1, <1>2, <1>3, <1>4, <1>5 DEF Fitting

LEMMA AcceptedKeeps ==
  ASSUME NEW g \in Places, NEW z \in ServicePlaces, Inv(g, z), NEW c \in Conns,
         at.pc = "wait", z.own = 1, UNCHANGED <<pollers, users, worker, flags>>,
         obj.target[c].state = "NONE", obj' = AcceptsFor(obj, c),
         poll' = Callback(poll, Result(listen_fd, "listen", "SUCCESS", c))
  PROVE  IInv'
<1>1. /\ Types /\ AliveOK /\ PollerAt /\ ~obj.bad /\ Serv(z) /\ Queued(Results, poll, g[c], c)
      /\ Fits(g[c], c) /\ g[c] \in PlaceSet /\ obj \in ObjSet /\ poll \in Group(Results)
      /\ obj.entry[c] \in EntrySet /\ obj.target[c] \in TargetSet
      /\ obj.service \in ServiceSet /\ obj.alive_list \in Seq(Conns)
  BY ConnIs, InvParts
<1>2. PICK xa, sv, l : xa = NewTarget /\ sv = OneMoreRef(obj.service) /\ l = WithAcc(g[c], "queue")
  OBVIOUS
<1>3. l \in PlaceSet /\ l.acc = "queue" /\ l.loc = g[c].loc /\ l.op = g[c].op /\ l.msg = g[c].msg
  BY <1>1, <1>2, WithFields
<1>4. /\ xa \in TargetSet /\ xa.state = "LIVE" /\ xa.ref = 1 /\ xa.idle = FALSE
  BY <1>2 DEF NewTarget, TargetSet
<1>5. /\ sv \in ServiceSet /\ sv.ref = obj.service.ref + 1 /\ sv.unbound = obj.service.unbound
      /\ sv.listening = obj.service.listening /\ obj.service.ref \in Nat
  BY <1>1, <1>2 DEF ServiceSet, OneMoreRef
<1>6. /\ Fitting(l, Holding(c), Open(c), obj.entry[c], xa,
                 Alive(c), At(c), Reads(c), Passive(c))
      /\ SameHands(g[c], l) /\ g[c].acc = "none"
      /\ Owes(l, obj.entry[c]) <=> Owes(g[c], obj.entry[c])
  <2>1. PICK o, n, k, en, ta, al, a, rd, p :
           /\ o = g[c] /\ n = Holding(c) /\ k = Open(c)
           /\ en = obj.entry[c] /\ ta = obj.target[c] /\ al = Alive(c) /\ a = At(c)
           /\ rd = Reads(c) /\ p = Passive(c)
    OBVIOUS
  <2>2. Accepts(o, l, n, k, en, ta, xa, al, a, rd, p)
    BY <1>1, <1>3, <1>4, <2>1 DEF Accepts, Fits
  <2>3. /\ Fitting(l, n, k, en, xa, al, a, rd, p) /\ SameHands(o, l)
        /\ o.acc = "none" /\ (Owes(l, en) <=> Owes(o, en))
    BY <2>2, AcceptsFits
  <2> QED  BY <2>1, <2>3
<1>7. obj' = Upd(obj, c, obj.entry[c], xa, sv, obj.alive_list)
  BY <1>1, <1>2, AcceptsForIs
<1>8. /\ ObjStep(c) /\ obj'.entry[c] = obj.entry[c] /\ obj'.target[c] = xa
      /\ obj'.service = sv /\ obj'.alive_list = obj.alive_list
      /\ \A f \in Conns : f # c => obj'.target[f] = obj.target[f]
      /\ Alive(c)' = Alive(c)
  <2>1. Alive(c) = IF c \in ToSet(obj.alive_list) THEN "in" ELSE "out"
    BY DEF Alive
  <2> QED  BY <1>1, <1>4, <1>5, <1>7, <2>1, ObjUpd
<1>9. ServiceFits(z, obj'.service, Cardinality(Live(obj')))
  <2>1. Live(obj') = Live(obj) \cup {c} /\ c \notin Live(obj)
    BY <1>4, <1>8 DEF Live
  <2>2. OneMore(Cardinality(Live(obj')), Cardinality(Live(obj)))
    BY <2>1, LiveFinite, CountMore
  <2>3. ServiceFits(z, obj.service, Cardinality(Live(obj)))
    BY <1>1 DEF Serv
  <2> QED  BY <1>5, <1>8, <2>2, <2>3 DEF ServiceFits, OneMore
<1>10. PICK r : r = Result(listen_fd, "listen", "SUCCESS", c)
  OBVIOUS
<1>11. /\ r \in Results /\ r.fd = listen_fd /\ r.state = "SUCCESS" /\ r.msg = c
  BY <1>10, Constants DEF Result, Results, ResultsOf, Ends
<1>12. r \in Messages(Results) /\ r \in AccsOf(Results, c)
       /\ \A f \in Conns : r \notin MsgsOf(Results, f) /\ (f # c => r \notin AccsOf(Results, f))
  BY <1>11, Constants DEF Messages, MsgsOf, AccsOf
<1>13. /\ Steady(Results, poll, poll')
       /\ \A f \in Fds : Leaves(Results, poll, poll', f)
       /\ \A S, T, place : r \notin S /\ Slot(poll.queue, S, T, place, "queue")
                              => Slot(poll'.queue, S, T, place, "queue")
       /\ \A S, T : r \in S /\ r \in T /\ None(poll.queue, S) => Only(poll'.queue, S, T)
  <2>1. MessageGoes(poll, poll', r)
    BY <1>1, <1>10, <1>12, MessagePut
  <2> QED  BY <2>1 DEF MessageGoes
<1>14. PollStep(c)
  BY <1>12, <1>13 DEF PollStep, Steady
<1>15. Queued(Results, poll', l, c)
  <2>1. NodeAt(Results, poll', c, l.loc, l.op)
    BY <1>1, <1>3, <1>13, Constants DEF Queued, Leaves
  <2>2. Slot(poll'.queue, AccsOf(Results, c), Results, l.acc, "queue")
    <3>1. None(poll.queue, AccsOf(Results, c))
      BY <1>1, <1>6 DEF Queued, Slot
    <3> QED  BY <1>3, <1>11, <1>12, <1>13, <3>1 DEF Slot
  <2>3. Slot(poll'.queue, MsgsOf(Results, c), Results, l.msg, "queue")
    BY <1>1, <1>3, <1>12, <1>13 DEF Queued
  <2> QED  BY <2>1, <2>2, <2>3 DEF Queued
<1>16. ReadStep(c) /\ At(c)' = At(c) /\ Reads(c)' = Reads(c)
  BY <1>1, <1>13, ReadSame DEF KeepsRead, Steady
<1>17. AliveOK'
  BY <1>1, <1>5, <1>8, AliveSame
<1>18. obj'.entry[c].seq = obj.entry[c].seq
  BY <1>8
<1> QED  BY <1>3, <1>6, <1>8, <1>9, <1>14, <1>15, <1>16, <1>17, <1>18, QuietStep

LEMMA AcceptKeeps ==
  ASSUME NEW g \in Places, NEW z \in ServicePlaces, Inv(g, z), accept
  PROVE  IInv'
<1>0. PICK y : y = Done(poll, listen_fd, "listen")
  OBVIOUS
<1>1. /\ at.pc = "wait" /\ Ready(poll, listen_fd, "listen")
      /\ UNCHANGED <<pollers, users, worker, flags>>
  BY DEF accept
<1>2. poll \in Group(Results) /\ NodeAt(Results, poll, listen_fd, z.loc, "listen")
      /\ listen_fd \in Fds /\ "listen" \in Ops
  BY InvParts, Constants DEF Types, Serv, ServiceNode, Ops
<1>3. z.own = 1 /\ UseService(obj) = obj
  <2>1. Event(listen_fd, "listen").fd = listen_fd
        /\ Event(listen_fd, "listen") \in poll.batch[Index(listen_fd)]
    BY <1>1 DEF Event, Ready
  <2>2. z.loc \in {"table", "pipe"}
    BY <1>2, <2>1 DEF NodeAt, NoEvent
  <2>3. MainFits(z, worker[Main].pc)
    BY InvParts DEF Serv
  <2>4. z.own = 1
    BY <2>2, <2>3 DEF MainFits, ServicePlaces
  <2> QED  BY <2>4, ServiceUsable
<1>4. ASSUME NEW c \in Conns, obj.target[c].state = "NONE", obj' = AcceptsFor(UseService(obj), c),
             poll' = Callback(poll, Result(listen_fd, "listen", "SUCCESS", c))
      PROVE  IInv'
  BY <1>1, <1>3, <1>4, AcceptedKeeps
<1>5. /\ y \in Group(Results) /\ y.table = poll.table /\ y.queue = poll.queue
      /\ \A f \in Fds : Leaves(Results, poll, y, f)
      /\ NoEvent(y, listen_fd) /\ SameMessages(Results, poll, y)
      /\ NodeAt(Results, y, listen_fd, z.loc, "listen")
  <2>1. /\ HasEvents(Results, poll, y, Index(listen_fd),
                     poll.batch[Index(listen_fd)] \ {Event(listen_fd, "listen")})
        /\ \A f \in Fds : Leaves(Results, poll, y, f)
        /\ NoEvent(y, listen_fd)
    BY <1>0, <1>1, <1>2, DoneNode
  <2> QED  BY <1>2, <2>1 DEF HasEvents, SameMessages, Leaves
<1>6. CASE poll' = y /\ UNCHANGED obj
  <2>1. ListenGoes(z, z)
    BY <1>5, <1>6 DEF ListenGoes
  <2> QED  BY <1>1, <1>6, <2>1, ListenKeeps
<1>7. CASE poll' = Report(y, listen_fd, "listen", "ERROR") /\ UNCHANGED obj
  <2>1. PICK v \in ServicePlaces : ListenGoes(z, v)
    BY <1>5, <1>7, ListenReports
  <2> QED  BY <1>1, <1>7, <2>1, ListenKeeps
<1> QED  BY <1>0, <1>4, <1>6, <1>7 DEF accept, AcceptsFor, NewTarget

----
(* The steps of the threads: what they have in common. *)

LEMMA HandMoves ==
  ASSUME NEW W, NEW w \in Workers, NEW v, W \in [Workers -> WorkerSet],
         NEW V, V = [W EXCEPT ![w] = v],
         NEW p, NEW c, NEW from, NEW to, One(W, p, c, from), HandGoes(p, W[w], v, c, from, to)
  PROVE  One(V, p, c, to)
<1>1. V[w] = v /\ \A u \in Workers : u # w => V[u] = W[u]
  OBVIOUS
<1>2. CASE AtHand(W[w], p, c) /\ AtHand(v, p, c)
  BY <1>1, <1>2 DEF One, OnlyAt, NoneAt, HandGoes
<1>3. CASE AtHand(W[w], p, c) /\ ~AtHand(v, p, c)
  BY <1>3, HandLost DEF HandGoes, One
<1>4. CASE ~AtHand(W[w], p, c) /\ AtHand(v, p, c)
  BY <1>4, HandGained DEF HandGoes, One
<1>5. CASE ~AtHand(W[w], p, c) /\ ~AtHand(v, p, c)
  BY <1>1, <1>5 DEF One, OnlyAt, NoneAt, HandGoes
<1> QED  BY <1>2, <1>3, <1>4, <1>5

LEMMA HandsMove ==
  ASSUME NEW w \in Workers, NEW v, worker \in [Workers -> WorkerSet], WorksOn(w, v),
         NEW c, NEW o, NEW l, Held(worker, o, c), HandsGo(worker[w], v, c, o, l)
  PROVE  Held(worker', l, c)
<1>1. worker' = [worker EXCEPT ![w] = v]
  BY DEF WorksOn
<1>2. /\ One(worker', "ended", c, l.loc) /\ One(worker', "replied", c, l.loc)
      /\ One(worker', "request", c, l.msg) /\ One(worker', "accepted", c, l.acc)
  BY <1>1, HandMoves DEF Held, HandsGo
<1> QED  BY <1>2 DEF Held

\* A session that the thread does not begin to speak for.
LEMMA SessUnspoken ==
  ASSUME NEW w \in Workers, NEW v, worker \in [Workers -> WorkerSet], WorksOn(w, v),
         NEW o, NEW l, NEW s \in Sessions, Sess(o, s),
         session'[s] = session[s], user'[s] = user[s],
         obj'.entry[s[1]].seq = obj.entry[s[1]].seq, Owed(l, s)' => Owed(o, s),
         ~SpeaksFor(v, s)
  PROVE  Sess(l, s)'
<1>1. worker'[w] = v /\ \A u \in Workers : u # w => worker'[u] = worker[u]
  BY DEF WorksOn
<1>2. \A u \in Workers : SpeaksFor(worker'[u], s) =>
         SpeaksFor(worker[u], s) /\ worker'[u].pc = worker[u].pc /\ worker'[u].st = worker[u].st
  BY <1>1
<1> QED  BY <1>2, SessKept

\* A session that the thread begins to speak for, or goes on to.
LEMMA SessSpoken ==
  ASSUME NEW w \in Workers, NEW v, worker \in [Workers -> WorkerSet], WorksOn(w, v),
         NEW o, NEW l, NEW s \in Sessions, Sess(o, s),
         obj'.entry[s[1]].seq = obj.entry[s[1]].seq, ~Owed(l, s)',
         Owed(o, s) \/ SpeaksFor(worker[w], s),
         SpeaksFor(v, s), Speaker(v, session'[s], user'[s]), Phases(session'[s], user'[s]),
         session'[s].passive = 0 <=> session[s].passive = 0,
         session[s].passive \in {3, 4} => session'[s].passive \in {3, 4}
  PROVE  Sess(l, s)'
<1>1. worker'[w] = v /\ \A u \in Workers : u # w => worker'[u] = worker[u]
  BY DEF WorksOn
<1>2. \A u \in Workers : SpeaksFor(worker[u], s) => u = w
  BY DEF Sess
<1>3. \A u \in Workers : SpeaksFor(worker'[u], s) => u = w
  BY <1>1, <1>2
<1> QED  BY <1>1, <1>3 DEF Sess

\* A thread steps with the connection c.
LEMMA WorkerStep ==
  ASSUME NEW g \in Places, NEW z \in ServicePlaces, Inv(g, z),
         NEW c \in Conns, NEW l \in PlaceSet, NEW w, NEW v, PlainWork(w, v, c),
         PollStep(c), poll'.batch = poll.batch, UNCHANGED pollers,
         ObjStep(c), SessStep(c), FlagStep, AliveOK',
         ServiceFits(z, obj'.service, Cardinality(Live(obj'))),
         Queued(Results, poll', l, c), HandsGo(worker[w], v, c, g[c], l),
         obj'.entry[c].seq = obj.entry[c].seq,
         v.pc \in {"request", "replied"} => v.s = LastSession(c),
         Fitting(l, Holders(worker', user', c), Cardinality(Undeleted(c)'), obj'.entry[c],
                 obj'.target[c], Alive(c)', At(c), Reads(c), Passive(c)'),
         \A s \in Sessions : s[1] = c => Sess(l, s)'
  PROVE  IInv'
<1>1. /\ Types /\ PollerAt /\ Held(worker, g[c], c) /\ LastAtHand(c) /\ Serv(z)
      /\ worker \in [Workers -> WorkerSet]
  BY ConnIs, InvParts
<1>2. w \in Workers /\ v \in WorkerSet /\ WorksOn(w, v)
  BY DEF PlainWork
<1>3. WorkStep(c)
  BY DEF WorkStep, PlainWork
<1>4. Held(worker', l, c)
  BY <1>1, <1>2, HandsMove
<1>5. ReadStep(c) /\ At(c)' = At(c) /\ Reads(c)' = Reads(c)
  BY <1>1, ReadSame DEF KeepsRead
<1>6. LastAtHand(c)'
  <2>1. worker'[w] = v /\ \A u \in Workers : u # w => worker'[u] = worker[u]
    BY <1>1, <1>2 DEF WorksOn
  <2>2. LastSession(c)' = LastSession(c)
    BY DEF LastSession
  <2> QED  BY <1>1, <2>1, <2>2 DEF LastAtHand, AtHand
<1>7. Results' = Results
  <2>1. worker'[Main] = worker[Main]
    BY <1>1, <1>3, WorkStepParts DEF Serv
  <2> QED  BY <2>1, SameResults DEF FlagStep
<1>8. Fits(l, c)'
  BY <1>5 DEF Fits
<1>9. Conn(l, c)'
  BY <1>4, <1>6, <1>7, <1>8 DEF Conn
<1> QED  BY <1>3, <1>5, <1>9, ConnStepKeeps

----
(* handler_thread_routine takes a result. *)

\* What the queue has, of what is not taken.
LEMMA TakenOther ==
  ASSUME NEW x \in Group(Results), NEW r, NEW y, FirstTaken(x, r, y)
  PROVE  /\ Steady(Results, x, y) /\ r \in Results
         /\ \A f \in Fds : r \notin EndsOf(Results, f) => Leaves(Results, x, y, f)
         /\ \A S, T, place : r \notin S /\ Slot(x.queue, S, T, place, "queue")
                                => Slot(y.queue, S, T, place, "queue")
<1>1. x.queue # <<>> /\ r = Head(x.queue) /\ y = Rest(x)
  BY DEF FirstTaken
<1>2. /\ Steady(Results, x, y) /\ r \in Results
      /\ \A f \in Fds : r \notin EndsOf(Results, f) => Leaves(Results, x, y, f)
      /\ \A S, T, place : Slot(x.queue, S, T, place, "queue") =>
            (r \notin S => Slot(y.queue, S, T, place, "queue"))
  BY <1>1, TakeNode
<1> QED  BY <1>2

\* The end of a node is taken.
LEMMA TakenEnd ==
  ASSUME NEW x, NEW r, NEW y, NEW o, NEW c, Takes(x, r, y, o, c), r \in EndsOf(Results, c),
         NEW to \in {"none", "ended", "replied"}, NEW l, l = PlacedAt(o, to, o.op)
  PROVE  Queued(Results, y, l, c) /\ o.loc = "queue" /\ o.op = r.op
<1>1. x \in Group(Results) /\ FirstTaken(x, r, y) /\ c \in Fds /\ Queued(Results, x, o, c)
      /\ o \in PlaceSet
  BY Constants DEF Takes
<1>2. Away(to)
  BY DEF Away
<1>3. WasQueued(o.loc, o.op, r) /\ NodeAt(Results, y, c, to, o.op)
  BY <1>1, <1>2, TakenNode DEF Queued
<1>4. l.loc = to /\ l.op = o.op /\ l.msg = o.msg /\ l.acc = o.acc
  <2>1. o.op \in {"read", "write"}
    BY <1>1 DEF PlaceSet
  <2> QED  BY <1>1, <2>1, PlacedFields
<1>5. r \notin MsgsOf(Results, c) /\ r \notin AccsOf(Results, c)
  BY DEF EndsOf, Ends, MsgsOf, AccsOf
<1>6. /\ Slot(y.queue, MsgsOf(Results, c), Results, o.msg, "queue")
      /\ Slot(y.queue, AccsOf(Results, c), Results, o.acc, "queue")
  BY <1>1, <1>5, TakenOther DEF Queued
<1> QED  BY <1>3, <1>4, <1>6 DEF Queued, WasQueued

\* A request is taken.
LEMMA TakenMsg ==
  ASSUME NEW x, NEW r, NEW y, NEW o, NEW c, Takes(x, r, y, o, c), r \in MsgsOf(Results, c),
         NEW l, l = WithMsg(o, "request")
  PROVE  Queued(Results, y, l, c) /\ o.msg = "queue"
<1>1. x \in Group(Results) /\ FirstTaken(x, r, y) /\ c \in Fds /\ Queued(Results, x, o, c)
      /\ o \in PlaceSet /\ c # listen_fd
  BY Constants DEF Takes
<1>2. l.msg = "request" /\ l.loc = o.loc /\ l.op = o.op /\ l.acc = o.acc
  BY <1>1, WithFields
<1>3. WasMessage(o.msg, Results, r) /\ None(y.queue, MsgsOf(Results, c))
  BY <1>1, TakenSlot DEF Queued
<1>4. r \notin AccsOf(Results, c) /\ r \notin EndsOf(Results, c)
  BY <1>1 DEF EndsOf, Ends, MsgsOf, AccsOf
<1>5. /\ NodeAt(Results, y, c, o.loc, o.op)
      /\ Slot(y.queue, AccsOf(Results, c), Results, o.acc, "queue")
  BY <1>1, <1>4, TakenOther DEF Queued, Leaves
<1> QED  BY <1>2, <1>3, <1>5 DEF Queued, WasMessage, Slot

\* An accepted connection is taken.
LEMMA TakenAcc ==
  ASSUME NEW x, NEW r, NEW y, NEW o, NEW c, Takes(x, r, y, o, c), r \in AccsOf(Results, c),
         NEW l, l = WithAcc(o, "accepted")
  PROVE  Queued(Results, y, l, c) /\ o.acc = "queue"
<1>1. x \in Group(Results) /\ FirstTaken(x, r, y) /\ c \in Fds /\ Queued(Results, x, o, c)
      /\ o \in PlaceSet /\ c # listen_fd
  BY Constants DEF Takes
<1>2. l.acc = "accepted" /\ l.loc = o.loc /\ l.op = o.op /\ l.msg = o.msg
  BY <1>1, WithFields
<1>3. WasMessage(o.acc, Results, r) /\ None(y.queue, AccsOf(Results, c))
  BY <1>1, TakenSlot DEF Queued
<1>4. r \notin MsgsOf(Results, c) /\ r \notin EndsOf(Results, c)
  BY <1>1 DEF EndsOf, Ends, MsgsOf, AccsOf
<1>5. /\ NodeAt(Results, y, c, o.loc, o.op)
      /\ Slot(y.queue, MsgsOf(Results, c), Results, o.msg, "queue")
  BY <1>1, <1>4, TakenOther DEF Queued, Leaves
<1> QED  BY <1>2, <1>3, <1>5 DEF Queued, WasMessage, Slot

LEMMA TakenPoll ==
  ASSUME poll \in Group(Results), NEW r, FirstTaken(poll, r, poll'), NEW c \in Conns, IsAbout(r, c)
  PROVE  PollStep(c) /\ poll'.batch = poll.batch /\ r \in Results
<1>1. /\ Steady(Results, poll, poll') /\ r \in Results
      /\ \A f \in Fds : r \notin EndsOf(Results, f) => Leaves(Results, poll, poll', f)
      /\ \A S, T, place : r \notin S /\ Slot(poll.queue, S, T, place, "queue")
                             => Slot(poll'.queue, S, T, place, "queue")
  BY TakenOther
<1>2. \A f \in Fds : f # c => r \notin EndsOf(Results, f)
  BY DEF EndsOf, Ends, IsAbout
<1>3. \A f \in Conns : f # c => r \notin MsgsOf(Results, f) /\ r \notin AccsOf(Results, f)
  BY Constants DEF MsgsOf, AccsOf, IsAbout
<1> QED  BY <1>1, <1>2, <1>3 DEF PollStep, Steady

\* What is common to the results about a connection: it is at l now.
LEMMA TookKeeps ==
  ASSUME NEW g \in Places, NEW z \in ServicePlaces, Inv(g, z),
         NEW c \in Conns, NEW l \in PlaceSet, NEW w, NEW v, PlainWork(w, v, c),
         NEW r, FirstTaken(poll, r, poll'), IsAbout(r, c), obj' = obj,
         UNCHANGED <<pollers, users, flags>>,
         Queued(Results, poll', l, c), HandsGo(worker[w], v, c, g[c], l),
         v.pc \in {"request", "replied"} => v.s = LastSession(c),
         Fitting(l, Holders(worker', user, c), Open(c), obj.entry[c],
                 obj.target[c], Alive(c), At(c), Reads(c), Passive(c)),
         \A s \in Sessions : s[1] = c => Sess(l, s)'
  PROVE  IInv'
<1>1. Types /\ AliveOK /\ ~obj.bad /\ Serv(z) /\ poll \in Group(Results)
  BY InvParts DEF Types
<1>2. PollStep(c) /\ poll'.batch = poll.batch
  BY <1>1, TakenPoll
<1>3. ObjStep(c) /\ Alive(c)' = Alive(c)
  BY <1>1, ObjSame DEF KeepsObj
<1>4. /\ SessStep(c) /\ session' = session /\ user' = user
  BY <1>1, UsersSame
<1>5. FlagStep
  BY <1>1 DEF FlagStep, flags, Types
<1>6. AliveOK'
  <2>1. WorkStep(c)
    BY DEF WorkStep, PlainWork
  <2> QED  BY <1>1, <2>1, AliveStep DEF Serv
<1>7. ServiceFits(z, obj'.service, Cardinality(Live(obj')))
  BY <1>1 DEF Serv
<1>8. Undeleted(c)' = Undeleted(c) /\ Passive(c)' = Passive(c)
  BY <1>4 DEF Undeleted, Passive, LastSession
<1>9. Fitting(l, Holders(worker', user', c), Cardinality(Undeleted(c)'), obj'.entry[c],
              obj'.target[c], Alive(c)', At(c), Reads(c), Passive(c)')
  BY <1>3, <1>4, <1>8
<1> QED  BY <1>2, <1>3, <1>4, <1>5, <1>6, <1>7, <1>9, WorkerStep

LEMMA TookIs ==
  ASSUME NEW r \in Results, NEW pc \in OfConn \cup {"accepted", "shutdown", "stopped"},
         NEW s \in Sessions \cup {NONE},
         pc \in OfConn => r.fd \in Conns, pc = "accepted" => r.msg \in Conns,
         pc \in Speaking => s \in Sessions /\ s[1] = r.fd,
         pc = "ended" => r.op = "read" /\ r.state \in Ends,
         NEW v, v = Took(r, pc, s)
  PROVE  /\ v \in WorkerSet /\ v.pc = pc /\ v.res = r /\ v.s = s /\ v.st = StateOf(r.state)
         /\ v.st \in {"ERROR", "STOPPED"}
<1>1. r \in AllResults
  BY DEF Results, AllResults, ResultsOf, ListenEnd
<1>2. StateOf(r.state) \in {"ERROR", "STOPPED"}
  BY DEF StateOf
<1>3. v.pc = pc /\ v.res = r /\ v.s = s /\ v.st = StateOf(r.state)
  BY DEF Took
<1>4. v \in [pc : OfConn \cup Closing \cup {"get", "off", "unbound", "closed", "accepted", "added", "stopped"},
             res : AllResults \cup {NONE}, s : (Conns \X Nat) \cup {NONE}, st : Tells]
  <2>1. s \in (Conns \X Nat) \cup {NONE}
    BY Constants DEF Sessions
  <2> QED  BY <1>1, <1>2, <2>1 DEF Took, Closing, Tells
<1>5. pc # "added"
  BY DEF OfConn
<1> QED  BY <1>1, <1>2, <1>3, <1>4, <1>5 DEF WorkerSet

LEMMA GettingIs ==
  Getting \in WorkerSet /\ Getting.pc = "get" /\ Plain(Getting)
  BY DEF Getting, WorkerSet, Tells, Plain, OfConn, Closing, Speaking

LEMMA RoutineParts ==
  ASSUME NEW c \in Conns, NEW w, NEW r, NEW v, Routine(w, r, v), OnlyAbout(v, c), Plain(v)
  PROVE  /\ PlainWork(w, v, c)
         /\ \A o, l : IdleGoes(v, c, o, l) => HandsGo(worker[w], v, c, o, l)
         /\ ~HasRef(worker[w], c) /\ \A s : ~SpeaksFor(worker[w], s)
<1>1. worker[w].pc = "get" /\ \A p \in {"ended", "replied", "request", "accepted"} : ~AtHand(worker[w], p, c)
  BY DEF Routine, AtHand
<1>2. PlainWork(w, v, c)
  BY <1>1 DEF Routine, PlainWork, Plain, OnlyAbout, OfConn, Closing
<1>3. ASSUME NEW o, NEW l, IdleGoes(v, c, o, l) PROVE HandsGo(worker[w], v, c, o, l)
  BY <1>1, <1>3 DEF IdleGoes, HandsGo, HandGoes
<1> QED  BY <1>1, <1>2, <1>3 DEF HasRef, SpeaksFor, Speaking

\* What is taken is told no session.
LEMMA RoutineUnspoken ==
  ASSUME NEW g \in Places, NEW z \in ServicePlaces, Inv(g, z),
         NEW c \in Conns, NEW l \in PlaceSet, NEW w, NEW r, NEW v, Routine(w, r, v), IsAbout(r, c),
         v.pc \in {"get", "accepted", "ended"}, OnlyAbout(v, c),
         Queued(Results, poll', l, c), IdleGoes(v, c, g[c], l),
         Fitting(l, Holding(c), Open(c), obj.entry[c],
                 obj.target[c], Alive(c), At(c), Reads(c), Passive(c)),
         Owes(l, obj.entry[c]) => Owes(g[c], obj.entry[c])
  PROVE  IInv'
<1>1. /\ w \in Workers /\ FirstTaken(poll, r, poll') /\ WorksOn(w, v) /\ v \in WorkerSet
      /\ obj' = obj /\ UNCHANGED <<pollers, users, flags>>
  BY DEF Routine
<1>2. Plain(v)
  BY DEF Plain, Closing
<1>3. /\ PlainWork(w, v, c) /\ HandsGo(worker[w], v, c, g[c], l) /\ ~HasRef(worker[w], c)
  BY <1>2, RoutineParts
<1>4. /\ worker \in [Workers -> WorkerSet] /\ \A s \in Sessions : s[1] = c => Sess(g[c], s)
  BY ConnIs
<1>5. session' = session /\ user' = user
  BY <1>1 DEF users
<1>6. Refs(worker', c) = Refs(worker, c)
  <2>1. ~HasRef(v, c)
    BY DEF HasRef
  <2> QED  BY <1>1, <1>3, <1>4, <2>1, RefsKept DEF WorksOn
<1>7. ASSUME NEW s \in Sessions, s[1] = c PROVE Sess(l, s)'
  <2>1. ~SpeaksFor(v, s)
    BY DEF SpeaksFor, Speaking
  <2>2. Owed(l, s)' => Owed(g[c], s)
    BY <1>1, <1>7 DEF Owed
  <2> QED  BY <1>1, <1>4, <1>5, <1>7, <2>1, <2>2, SessUnspoken
<1>8. Fitting(l, Holders(worker', user, c), Open(c), obj.entry[c],
              obj.target[c], Alive(c), At(c), Reads(c), Passive(c))
  BY <1>6 DEF Holders
<1> QED  BY <1>1, <1>3, <1>7, <1>8, TookKeeps

\* What is taken is told the last session.
LEMMA RoutineSpoken ==
  ASSUME NEW g \in Places, NEW z \in ServicePlaces, Inv(g, z),
         NEW c \in Conns, NEW l \in PlaceSet, NEW w, NEW r, NEW v, Routine(w, r, v), IsAbout(r, c),
         v.pc \in Speaking, OnlyAbout(v, c), v.s = LastSession(c), v.st # "TOREPLY",
         obj.entry[c].seq # 0,
         Queued(Results, poll', l, c), IdleGoes(v, c, g[c], l),
         Fitting(l, Holders(worker', user, c), Open(c), obj.entry[c],
                 obj.target[c], Alive(c), At(c), Reads(c), Passive(c)),
         ~Owes(l, obj.entry[c]), Owes(g[c], obj.entry[c]),
         v.pc = "request" => Passive(c) = 1, v.pc = "replied" => Passive(c) = 3
  PROVE  IInv'
<1>1. /\ w \in Workers /\ FirstTaken(poll, r, poll') /\ WorksOn(w, v) /\ v \in WorkerSet
      /\ obj' = obj /\ UNCHANGED <<pollers, users, flags>>
  BY DEF Routine
<1>2. Plain(v)
  BY DEF Plain, Closing, Speaking
<1>3. /\ PlainWork(w, v, c) /\ HandsGo(worker[w], v, c, g[c], l)
  BY <1>2, RoutineParts
<1>4. /\ worker \in [Workers -> WorkerSet] /\ \A s \in Sessions : s[1] = c => Sess(g[c], s)
      /\ obj.entry[c] \in EntrySet
  BY ConnIs
<1>5. session' = session /\ user' = user
  BY <1>1 DEF users
<1>6. ASSUME NEW s \in Sessions, s[1] = c PROVE Sess(l, s)'
  <2>1. ~Owed(l, s)'
    BY <1>1, <1>6 DEF Owed
  <2>2. obj'.entry[s[1]].seq = obj.entry[s[1]].seq
    BY <1>1
  <2>3. CASE s = LastSession(c)
    <3>1. s[2] = obj.entry[c].seq
      BY <2>3 DEF LastSession
    <3>2. Sess(g[c], s) /\ Owed(g[c], s)
      BY <1>4, <1>6, <3>1 DEF Owed
    <3>3. SpeaksFor(v, s)
      BY <2>3 DEF SpeaksFor
    <3>4. session[s].passive = Passive(c)
      BY <2>3 DEF Passive
    <3>5. /\ Receiving(session[s]) \/ Sending(session[s], user[s])
          /\ Phases(session[s], user[s])
      BY <3>2 DEF Sess
    <3>6. Speaker(v, session[s], user[s])
      BY <3>4, <3>5 DEF Speaker, Receiving, Sending
    <3> QED  BY <1>1, <1>4, <1>5, <2>1, <2>2, <3>2, <3>3, <3>5, <3>6, SessSpoken
  <2>4. CASE s # LastSession(c)
    <3>1. ~SpeaksFor(v, s)
      BY <2>4 DEF SpeaksFor
    <3> QED  BY <1>1, <1>4, <1>5, <1>6, <2>1, <2>2, <3>1, SessUnspoken
  <2> QED  BY <2>3, <2>4
<1> QED  BY <1>1, <1>3, <1>6, TookKeeps

\* What is taken, as the connection sees it.
LEMMA AccTakenFits ==
  ASSUME NEW o, NEW l, NEW n, NEW k, NEW en, NEW ta, NEW al, NEW a, NEW rd, NEW p,
         Fitting(o, n, k, en, ta, al, a, rd, p), l.loc = o.loc, l.op = o.op, l.msg = o.msg,
         o.acc # "none", l.acc # "none"
  PROVE  Fitting(l, n, k, en, ta, al, a, rd, p) /\ (Owes(l, en) <=> Owes(o, en))
<1>1. Counted(l, n, k, en, ta)
  BY DEF Fitting, Counted, Kept
<1>2. StateFits(l, en, ta, p)
  BY DEF Fitting, StateFits
<1>3. PollFits(l, en, al, a, rd, p)
  BY DEF Fitting, PollFits
<1> QED  BY <1>1, <1>2, <1>3 DEF Fitting, Owes

LEMMA EndTakenFits ==
  ASSUME NEW o, NEW l, NEW n, NEW k, NEW en, NEW ta, NEW al, NEW a, NEW rd, NEW p,
         Fitting(o, n, k, en, ta, al, a, rd, p), o.loc = "queue", l.loc = "ended",
         o.op = "read", l.op = "read", l.msg = o.msg, l.acc = o.acc
  PROVE  Fitting(l, n, k, en, ta, al, a, rd, p) /\ (Owes(l, en) => Owes(o, en))
<1>1. Counted(l, n, k, en, ta)
  BY DEF Fitting, Counted, Kept
<1>2. StateFits(l, en, ta, p)
  BY DEF Fitting, StateFits, Watched
<1>3. PollFits(l, en, al, a, rd, p)
  BY DEF Fitting, PollFits
<1> QED  BY <1>1, <1>2, <1>3 DEF Fitting, Owes, Watched

LEMMA MsgTakenFits ==
  ASSUME NEW o, NEW l, NEW n, NEW k, NEW en, NEW ta, NEW al, NEW a, NEW rd, NEW p,
         Fitting(o, n, k, en, ta, al, a, rd, p), o.msg = "queue", l.msg = "request",
         l.loc = o.loc, l.op = o.op, l.acc = o.acc
  PROVE  /\ Fitting(l, n, k, en, ta, al, a, rd, p)
         /\ ~Owes(l, en) /\ Owes(o, en) /\ en.seq # 0 /\ p = 1
<1>1. Counted(l, n, k, en, ta)
  BY DEF Fitting, Counted, Kept
<1>2. StateFits(l, en, ta, p)
  BY DEF Fitting, StateFits
<1>3. PollFits(l, en, al, a, rd, p)
  BY DEF Fitting, PollFits
<1>4. /\ p = 1 /\ en.state \in {"SUCCESS", "CLOSING"} /\ (l.loc = "none" \/ l.op = "read")
      /\ en.seq # 0
  BY <1>2 DEF StateFits
<1> QED  BY <1>1, <1>2, <1>3, <1>4 DEF Fitting, Owes

LEMMA ReplyTakenFits ==
  ASSUME NEW o, NEW l, NEW n, NEW k, NEW en, NEW ta, NEW al, NEW a, NEW rd, NEW p,
         Fitting(o, n, k, en, ta, al, a, rd, p), o.loc = "queue", l.loc = "replied",
         o.op = "write", l.op = "write", l.msg = o.msg, l.acc = o.acc
  PROVE  /\ Fitting(l, n, k, en, ta, al, a, rd, p)
         /\ ~Owes(l, en) /\ Owes(o, en) /\ en.seq # 0 /\ p = 3
<1>0. en.state = "IDLE" /\ ~ta.idle /\ o.msg = "none" /\ p = 3 /\ en.seq # 0
  BY DEF Fitting, StateFits
<1>1. Counted(l, n, k, en, ta)
  BY DEF Fitting, Counted, Kept
<1>2. StateFits(l, en, ta, p)
  BY <1>0 DEF Fitting, StateFits
<1>3. PollFits(l, en, al, a, rd, p)
  BY DEF Fitting, PollFits
<1> QED  BY <1>0, <1>1, <1>2, <1>3 DEF Fitting, Owes

LEMMA FailTakenFits ==
  ASSUME NEW o, NEW l, NEW n, NEW m, NEW k, NEW en, NEW ta, NEW al, NEW a, NEW rd, NEW p,
         Fitting(o, n, k, en, ta, al, a, rd, p), o.loc = "queue", l.loc = "none",
         o.op = "write", l.op = "write", l.msg = o.msg, l.acc = o.acc, OneMore(m, n)
  PROVE  /\ Fitting(l, m, k, en, ta, al, a, rd, p)
         /\ ~Owes(l, en) /\ Owes(o, en) /\ en.seq # 0
<1>0. en.state = "IDLE" /\ ~ta.idle /\ o.msg = "none" /\ p = 3 /\ en.seq # 0
  BY DEF Fitting, StateFits
<1>m. n \in Nat /\ m \in Nat /\ m = n + 1
  BY DEF OneMore
<1>1. Counted(l, m, k, en, ta)
  BY <1>0, <1>m DEF Fitting, Counted, Kept
<1>2. StateFits(l, en, ta, p)
  BY <1>0 DEF Fitting, StateFits
<1>3. PollFits(l, en, al, a, rd, p)
  BY <1>0 DEF Fitting, PollFits
<1> QED  BY <1>0, <1>1, <1>2, <1>3 DEF Fitting, Owes, Watched

\* A result about the connection c is taken.
LEMMA TakesAccepted ==
  ASSUME NEW g \in Places, NEW z \in ServicePlaces, Inv(g, z), NEW w, NEW r, NEW v,
         Routine(w, r, v), NEW c \in Conns, r \in AccsOf(Results, c), v = Took(r, "accepted", NONE)
  PROVE  IInv'
<1>1. /\ g[c] \in PlaceSet /\ Queued(Results, poll, g[c], c) /\ Fits(g[c], c)
      /\ poll \in Group(Results)
  BY ConnIs
<1>2. PICK l : l = WithAcc(g[c], "accepted")
  OBVIOUS
<1>3. /\ l \in PlaceSet /\ l.acc = "accepted" /\ l.loc = g[c].loc /\ l.op = g[c].op
      /\ l.msg = g[c].msg
  BY <1>1, <1>2, WithFields
<1>4. Queued(Results, poll', l, c) /\ g[c].acc = "queue"
  BY <1>1, <1>2, TakenAcc DEF Takes, Routine
<1>5. /\ Fitting(l, Holding(c), Open(c), obj.entry[c],
                 obj.target[c], Alive(c), At(c), Reads(c), Passive(c))
      /\ Owes(l, obj.entry[c]) => Owes(g[c], obj.entry[c])
  BY <1>1, <1>3, <1>4, AccTakenFits DEF Fits
<1>6. v.pc = "accepted" /\ v.res = r /\ Subject(v) = c
  BY DEF Took, Subject, AccsOf
<1>7. OnlyAbout(v, c) /\ IsAbout(r, c)
  BY <1>6 DEF OnlyAbout, IsAbout, AccsOf
<1>8. IdleGoes(v, c, g[c], l)
  BY <1>3, <1>4, <1>6 DEF IdleGoes, AtHand
<1> QED  BY <1>3, <1>4, <1>5, <1>6, <1>7, <1>8, RoutineUnspoken

LEMMA TakesModified ==
  ASSUME NEW g \in Places, NEW z \in ServicePlaces, Inv(g, z), NEW w, NEW r, NEW v,
         Routine(w, r, v), NEW c \in Conns, r.fd = c, r.state = "MODIFIED", v = Getting
  PROVE  IInv'
<1>1. /\ g[c] \in PlaceSet /\ Queued(Results, poll, g[c], c) /\ Fits(g[c], c)
      /\ poll \in Group(Results)
  BY ConnIs
<1>2. r \notin MsgsOf(Results, c) /\ r \notin AccsOf(Results, c) /\ r \notin EndsOf(Results, c)
  BY DEF EndsOf, Ends, MsgsOf, AccsOf
<1>3. Queued(Results, poll', g[c], c)
  BY <1>1, <1>2, TakenOther, Constants DEF Queued, Leaves, Routine
<1>4. v.pc = "get" /\ OnlyAbout(v, c) /\ IsAbout(r, c)
  BY GettingIs DEF OnlyAbout, IsAbout, OfConn
<1>5. IdleGoes(v, c, g[c], g[c])
  BY <1>4 DEF IdleGoes, AtHand
<1> QED  BY <1>1, <1>3, <1>4, <1>5, RoutineUnspoken DEF Fits

LEMMA TakesEnded ==
  ASSUME NEW g \in Places, NEW z \in ServicePlaces, Inv(g, z), NEW w, NEW r, NEW v,
         Routine(w, r, v), NEW c \in Conns, r \in EndsOf(Results, c), r.op = "read",
         v = Took(r, "ended", NONE)
  PROVE  IInv'
<1>1. /\ g[c] \in PlaceSet /\ Queued(Results, poll, g[c], c) /\ Fits(g[c], c)
      /\ poll \in Group(Results)
  BY ConnIs
<1>2. PICK l : l = PlacedAt(g[c], "ended", g[c].op)
  OBVIOUS
<1>3. /\ l \in PlaceSet /\ l.loc = "ended" /\ l.op = g[c].op /\ l.msg = g[c].msg
      /\ l.acc = g[c].acc
  <2>1. g[c].op \in {"read", "write"}
    BY <1>1 DEF PlaceSet
  <2> QED  BY <1>1, <1>2, <2>1, PlacedFields
<1>4. Queued(Results, poll', l, c) /\ g[c].loc = "queue" /\ g[c].op = r.op
  BY <1>1, <1>2, TakenEnd DEF Takes, Routine
<1>5. /\ Fitting(l, Holding(c), Open(c), obj.entry[c],
                 obj.target[c], Alive(c), At(c), Reads(c), Passive(c))
      /\ Owes(l, obj.entry[c]) => Owes(g[c], obj.entry[c])
  BY <1>1, <1>3, <1>4, EndTakenFits DEF Fits
<1>6. v.pc = "ended" /\ v.res = r /\ Subject(v) = c
  BY DEF Took, Subject, EndsOf
<1>7. OnlyAbout(v, c) /\ IsAbout(r, c)
  BY <1>6 DEF OnlyAbout, IsAbout, EndsOf
<1>8. IdleGoes(v, c, g[c], l)
  BY <1>3, <1>4, <1>6 DEF IdleGoes, AtHand
<1> QED  BY <1>3, <1>4, <1>5, <1>6, <1>7, <1>8, RoutineUnspoken

LEMMA TookLastIs ==
  ASSUME NEW r, NEW pc, NEW c, NEW v, TookLast(r, pc, c, v)
  PROVE  /\ v.pc = pc /\ v.res = r /\ v.s = LastSession(c) /\ v.st # "TOREPLY"
         /\ v.pc \in Speaking /\ OnlyAbout(v, c) /\ IsAbout(r, c) /\ Subject(v) = c
<1>1. v.pc = pc /\ v.res = r /\ v.s = LastSession(c) /\ v.st = StateOf(r.state) /\ r.fd = c
  BY DEF Took, TookLast
<1>2. pc \in Speaking /\ pc # "accepted" /\ pc # "added"
  BY DEF TookLast, Speaking
<1>3. v.st # "TOREPLY"
  BY <1>1 DEF StateOf
<1> QED  BY <1>1, <1>2, <1>3 DEF Subject, OnlyAbout, IsAbout

LEMMA TookRefs ==
  ASSUME NEW w, NEW r, NEW v, Routine(w, r, v), worker \in [Workers -> WorkerSet], NEW c,
         v.pc \in {"request", "replied"}
  PROVE  Holders(worker', user, c) = Holding(c)
<1>1. w \in Workers /\ WorksOn(w, v) /\ ~HasRef(worker[w], c) /\ ~HasRef(v, c)
  BY DEF Routine, HasRef
<1>2. Refs(worker', c) = Refs(worker, c)
  BY <1>1, RefsKept DEF WorksOn
<1> QED  BY <1>2 DEF Holders

LEMMA TakesRequest ==
  ASSUME NEW g \in Places, NEW z \in ServicePlaces, Inv(g, z), NEW w, NEW r, NEW v,
         Routine(w, r, v), NEW c \in Conns, r \in MsgsOf(Results, c), TookLast(r, "request", c, v)
  PROVE  IInv'
<1>1. /\ g[c] \in PlaceSet /\ Queued(Results, poll, g[c], c) /\ Fits(g[c], c)
      /\ poll \in Group(Results) /\ worker \in [Workers -> WorkerSet]
  BY ConnIs
<1>2. PICK l : l = WithMsg(g[c], "request")
  OBVIOUS
<1>3. /\ l \in PlaceSet /\ l.msg = "request" /\ l.loc = g[c].loc /\ l.op = g[c].op
      /\ l.acc = g[c].acc
  BY <1>1, <1>2, WithFields
<1>4. Queued(Results, poll', l, c) /\ g[c].msg = "queue"
  BY <1>1, <1>2, TakenMsg DEF Takes, Routine
<1>5. /\ Fitting(l, Holding(c), Open(c), obj.entry[c],
                 obj.target[c], Alive(c), At(c), Reads(c), Passive(c))
      /\ ~Owes(l, obj.entry[c]) /\ Owes(g[c], obj.entry[c]) /\ obj.entry[c].seq # 0
      /\ Passive(c) = 1
  <2>1. PICK n, k, en, ta, al, a, rd, p :
           /\ n = Holding(c) /\ k = Open(c)
           /\ en = obj.entry[c] /\ ta = obj.target[c] /\ al = Alive(c) /\ a = At(c)
           /\ rd = Reads(c) /\ p = Passive(c)
    OBVIOUS
  <2>2. Fitting(g[c], n, k, en, ta, al, a, rd, p)
    BY <1>1, <2>1 DEF Fits
  <2>3. /\ Fitting(l, n, k, en, ta, al, a, rd, p)
        /\ ~Owes(l, en) /\ Owes(g[c], en) /\ en.seq # 0 /\ p = 1
    BY <1>3, <1>4, <2>2, MsgTakenFits
  <2> QED  BY <2>1, <2>3
<1>6. /\ v.pc = "request" /\ v.s = LastSession(c) /\ v.st # "TOREPLY"
      /\ v.pc \in Speaking /\ OnlyAbout(v, c) /\ IsAbout(r, c) /\ Subject(v) = c
  BY TookLastIs
<1>7. IdleGoes(v, c, g[c], l)
  BY <1>3, <1>4, <1>6 DEF IdleGoes, AtHand
<1>8. Holders(worker', user, c) = Holding(c)
  BY <1>1, <1>6, TookRefs
<1> QED  BY <1>3, <1>4, <1>5, <1>6, <1>7, <1>8, RoutineSpoken

LEMMA TakesReplied ==
  ASSUME NEW g \in Places, NEW z \in ServicePlaces, Inv(g, z), NEW w, NEW r, NEW v,
         Routine(w, r, v), NEW c \in Conns, r \in EndsOf(Results, c), r.op = "write",
         TookLast(r, "replied", c, v)
  PROVE  IInv'
<1>1. /\ g[c] \in PlaceSet /\ Queued(Results, poll, g[c], c) /\ Fits(g[c], c)
      /\ poll \in Group(Results) /\ worker \in [Workers -> WorkerSet]
  BY ConnIs
<1>2. PICK l : l = PlacedAt(g[c], "replied", g[c].op)
  OBVIOUS
<1>3. /\ l \in PlaceSet /\ l.loc = "replied" /\ l.op = g[c].op /\ l.msg = g[c].msg
      /\ l.acc = g[c].acc
  <2>1. g[c].op \in {"read", "write"}
    BY <1>1 DEF PlaceSet
  <2> QED  BY <1>1, <1>2, <2>1, PlacedFields
<1>4. Queued(Results, poll', l, c) /\ g[c].loc = "queue" /\ g[c].op = r.op
  BY <1>1, <1>2, TakenEnd DEF Takes, Routine
<1>5. /\ Fitting(l, Holding(c), Open(c), obj.entry[c],
                 obj.target[c], Alive(c), At(c), Reads(c), Passive(c))
      /\ ~Owes(l, obj.entry[c]) /\ Owes(g[c], obj.entry[c]) /\ obj.entry[c].seq # 0
      /\ Passive(c) = 3
  BY <1>1, <1>3, <1>4, ReplyTakenFits DEF Fits
<1>6. /\ v.pc = "replied" /\ v.s = LastSession(c) /\ v.st # "TOREPLY"
      /\ v.pc \in Speaking /\ OnlyAbout(v, c) /\ IsAbout(r, c) /\ Subject(v) = c
  BY TookLastIs
<1>7. IdleGoes(v, c, g[c], l)
  BY <1>3, <1>4, <1>6 DEF IdleGoes, AtHand
<1>8. Holders(worker', user, c) = Holding(c)
  BY <1>1, <1>6, TookRefs
<1> QED  BY <1>3, <1>4, <1>5, <1>6, <1>7, <1>8, RoutineSpoken

LEMMA TakesFailed ==
  ASSUME NEW g \in Places, NEW z \in ServicePlaces, Inv(g, z), NEW w, NEW r, NEW v,
         Routine(w, r, v), NEW c \in Conns, r \in EndsOf(Results, c), r.op = "write",
         TookLast(r, "handle", c, v)
  PROVE  IInv'
<1>1. /\ g[c] \in PlaceSet /\ Queued(Results, poll, g[c], c) /\ Fits(g[c], c)
      /\ poll \in Group(Results) /\ worker \in [Workers -> WorkerSet]
  BY ConnIs
<1>2. PICK l : l = PlacedAt(g[c], "none", g[c].op)
  OBVIOUS
<1>3. /\ l \in PlaceSet /\ l.loc = "none" /\ l.op = g[c].op /\ l.msg = g[c].msg
      /\ l.acc = g[c].acc
  <2>1. g[c].op \in {"read", "write"}
    BY <1>1 DEF PlaceSet
  <2> QED  BY <1>1, <1>2, <2>1, PlacedFields
<1>4. Queued(Results, poll', l, c) /\ g[c].loc = "queue" /\ g[c].op = r.op
  BY <1>1, <1>2, TakenEnd DEF Takes, Routine
<1>6. /\ v.pc = "handle" /\ v.s = LastSession(c) /\ v.st # "TOREPLY" /\ v.res = r
      /\ v.pc \in Speaking /\ OnlyAbout(v, c) /\ IsAbout(r, c) /\ Subject(v) = c
  BY TookLastIs
<1>8. OneMore(Holders(worker', user, c), Holding(c))
  <2>1. w \in Workers /\ WorksOn(w, v) /\ ~HasRef(worker[w], c) /\ HasRef(v, c)
    BY <1>6 DEF Routine, HasRef, EndsOf
  <2>2. OneMore(Cardinality(Refs(worker', c)), Cardinality(Refs(worker, c)))
    BY <1>1, <2>1, RefsMore DEF WorksOn
  <2> QED  BY <2>2, UserRefsFinite DEF Holders, OneMore
<1>5. /\ Fitting(l, Holders(worker', user, c), Open(c), obj.entry[c],
                 obj.target[c], Alive(c), At(c), Reads(c), Passive(c))
      /\ ~Owes(l, obj.entry[c]) /\ Owes(g[c], obj.entry[c]) /\ obj.entry[c].seq # 0
  BY <1>1, <1>3, <1>4, <1>8, FailTakenFits DEF Fits
<1>7. IdleGoes(v, c, g[c], l)
  BY <1>3, <1>4, <1>6 DEF IdleGoes, AtHand
<1> QED  BY <1>3, <1>4, <1>5, <1>6, <1>7, RoutineSpoken

\* The end of the listening socket is taken, by a thread that goes to v.
LEMMA TakesListenEnd ==
  ASSUME NEW g \in Places, NEW z \in ServicePlaces, Inv(g, z), NEW w, NEW r, NEW v,
         Routine(w, r, v), r \in EndsOf(Results, listen_fd),
         \/ v.pc = "shutdown" /\ r.state = "DELETED"
         \/ v.pc = "stopped" /\ r.state \in {"ERROR", "STOPPED"}
  PROVE  IInv'
<1>1. /\ Types /\ PollerAt /\ AliveOK /\ ~obj.bad /\ Serv(z) /\ poll \in Group(Results)
      /\ worker \in [Workers -> WorkerSet]
  BY InvParts DEF Types
<1>2. /\ w \in Workers /\ FirstTaken(poll, r, poll') /\ WorksOn(w, v) /\ v \in WorkerSet
      /\ obj' = obj /\ UNCHANGED <<pollers, users, flags>> /\ worker[w].pc = "get"
  BY DEF Routine
<1>3. worker'[w] = v /\ \A u \in Workers : u # w => worker'[u] = worker[u]
  BY <1>1, <1>2 DEF WorksOn
<1>4. w # Main /\ worker'[Main] = worker[Main]
  BY <1>1, <1>2, <1>3, Constants DEF Serv, MainFits, Closing
<1>5. Results' = Results
  BY <1>2, <1>4, SameResults DEF flags
<1>6. PICK y : y = [z EXCEPT !.loc = IF v.pc = "shutdown" THEN "closing" ELSE "stopped"]
  OBVIOUS
<1>7. /\ WasQueued(z.loc, "listen", r) /\ NodeAt(Results, poll', listen_fd, y.loc, "listen")
      /\ y.loc = IF v.pc = "shutdown" THEN "closing" ELSE "stopped"
      /\ y.own = z.own
  <2>1. NodeAt(Results, poll, listen_fd, z.loc, "listen")
    BY <1>1 DEF Serv, ServiceNode
  <2>2. /\ Away(y.loc) /\ y.loc = (IF v.pc = "shutdown" THEN "closing" ELSE "stopped")
        /\ y.own = z.own
    BY <1>6 DEF Away, ServicePlaces
  <2> QED  BY <1>1, <1>2, <2>1, <2>2, TakenNode, Constants
<1>8. z.loc = "queue"
  BY <1>7 DEF WasQueued
<1>9. Steady(Results, poll, poll') /\ \A f \in Conns : KeepsQueued(f)
  <2>1. /\ Steady(Results, poll, poll') /\ r \in Results
        /\ \A f \in Fds : r \notin EndsOf(Results, f) => Leaves(Results, poll, poll', f)
        /\ \A S, T, place : r \notin S /\ Slot(poll.queue, S, T, place, "queue")
                               => Slot(poll'.queue, S, T, place, "queue")
    BY <1>1, <1>2, TakenOther
  <2>2. ASSUME NEW f \in Conns PROVE KeepsQueued(f)
    <3>1. /\ r \notin EndsOf(Results, f) /\ r \notin MsgsOf(Results, f)
          /\ r \notin AccsOf(Results, f) /\ f \in Fds
      BY Constants DEF EndsOf, MsgsOf, AccsOf, Ends
    <3> QED  BY <1>5, <2>1, <3>1 DEF KeepsQueued, Queued, Leaves
  <2> QED  BY <2>1, <2>2
<1>10. \A f \in Conns : KeepsWork(f)
  <2>1. \A f : ~About(worker[w], f) /\ ~About(v, f)
    BY <1>2 DEF About, OfConn
  <2> QED  BY <1>3, <2>1 DEF KeepsWork
<1>11. \A f \in Conns : KeepsObj(f)
  BY <1>1, <1>2, ObjSame
<1>12. (\A f \in Conns : KeepsRead(f)) /\ PollerAt' /\ ReadStep(listen_fd)
  <2>1. ReadStep(listen_fd) /\ \A f \in Conns : KeepsRead(f)
    BY <1>1, <1>2, <1>9, ReadSame DEF Steady
  <2> QED  BY <2>1 DEF ReadStep
<1>13. (\A f \in Conns : KeepsSession(f)) /\ SessStep(listen_fd)
  BY <1>1, <1>2, UsersSame
<1>14. Types'
  <2>1. worker' \in [Workers -> WorkerSet]
    BY <1>1, <1>2 DEF WorksOn
  <2> QED  BY <1>1, <1>2, <1>5, <1>9, <1>12, <1>13, <2>1 DEF Types, Steady, ReadStep, SessStep, flags
<1>15. AliveOK'
  <2>1. \A u \in Workers : worker'[u].pc = "drain" <=> worker[u].pc = "drain"
    BY <1>2, <1>3
  <2> QED  BY <1>1, <1>2, <2>1 DEF AliveOK
<1>16. y \in ServicePlaces /\ Serv(y)'
  <2>1. /\ ~\E u \in Workers : IsStopped(worker[u])
        /\ ~\E u \in Workers \ {Main} : IsClosing(worker[u])
    BY <1>1, <1>8 DEF Serv, ServiceNode
  <2>2. /\ y.loc = "stopped" <=> \E u \in Workers : IsStopped(worker'[u])
        /\ y.loc = "closing" <=> \E u \in Workers \ {Main} : IsClosing(worker'[u])
        /\ \A u, x \in Workers : IsStopped(worker'[u]) /\ IsStopped(worker'[x]) => u = x
        /\ \A u, x \in Workers \ {Main} : IsClosing(worker'[u]) /\ IsClosing(worker'[x]) => u = x
    BY <1>2, <1>3, <1>4, <1>7, <2>1 DEF IsStopped, IsClosing, Closing
  <2>3. MainFits(y, worker'[Main].pc)
    <3>1. ListenEnd(r, worker[Main].pc = "unbound")
      BY Constants DEF EndsOf, Results, ResultsOf, Ends
    <3> QED  BY <1>1, <1>4, <1>7, <1>8, <3>1 DEF Serv, MainFits, ListenEnd
  <2>4. ServiceFits(y, obj'.service, Cardinality(Live(obj')))
    BY <1>1, <1>2, <1>7 DEF Serv, ServiceFits
  <2>5. y \in ServicePlaces
    BY <1>7, <1>6 DEF ServicePlaces
  <2> QED  BY <1>5, <1>7, <2>2, <2>3, <2>4, <2>5 DEF Serv, ServiceNode
<1> QED
  <2>1. Global'
    BY <1>1, <1>2, <1>12, <1>14, <1>15 DEF Global
  <2> QED  BY <1>9, <1>10, <1>11, <1>12, <1>13, <1>16, <2>1, NoConnKeeps DEF Apart

LEMMA RoutineIs ==
  ASSUME NEW w, handler_thread_routine(w), NEW r, r = Head(poll.queue)
  PROVE  /\ FirstTaken(poll, r, poll')
         /\ r.op = "listen" /\ r.state = "SUCCESS" => RoutineGoes(w, r, "accepted", NONE, obj)
         /\ r.op = "listen" /\ r.state = "DELETED" => RoutineGoes(w, r, "shutdown", NONE, obj)
         /\ r.op = "listen" /\ r.state \in {"ERROR", "STOPPED"}
               => RoutineGoes(w, r, "stopped", NONE, obj)
         /\ r.op = "read" /\ r.state = "MODIFIED" => RoutineGoes(w, r, "get", NONE, obj)
         /\ r.op = "read" /\ r.state = "SUCCESS"
               => RoutineGoes(w, r, "request", LastSession(r.fd), UseEntry(obj, r.fd))
         /\ r.op = "read" /\ r.state \notin {"SUCCESS", "MODIFIED"}
               => RoutineGoes(w, r, "ended", NONE, obj)
         /\ r.op = "write" /\ r.state = "FINISHED"
               => RoutineGoes(w, r, "replied", LastSession(r.fd), UseEntry(obj, r.fd))
         /\ r.op = "write" /\ r.state # "FINISHED"
               => RoutineGoes(w, r, "handle", LastSession(r.fd), UseEntry(obj, r.fd))
<1>1. FirstTaken(poll, r, poll')
  BY DEF handler_thread_routine, FirstTaken, Rest
<1>2. worker[w].pc = "get" /\ UNCHANGED <<pollers, users, flags>>
  BY DEF handler_thread_routine
<1>3. r.op = "listen" /\ r.state = "SUCCESS" => RoutineGoes(w, r, "accepted", NONE, obj)
  BY <1>1, <1>2 DEF handler_thread_routine, RoutineGoes, WorksOn, Took
<1>4. r.op = "listen" /\ r.state = "DELETED" => RoutineGoes(w, r, "shutdown", NONE, obj)
  BY <1>1, <1>2 DEF handler_thread_routine, RoutineGoes, WorksOn, Took
<1>5. r.op = "listen" /\ r.state \in {"ERROR", "STOPPED"} => RoutineGoes(w, r, "stopped", NONE, obj)
  BY <1>1, <1>2 DEF handler_thread_routine, RoutineGoes, WorksOn, Took
<1>6. r.op = "read" /\ r.state = "MODIFIED" => RoutineGoes(w, r, "get", NONE, obj)
  BY <1>1, <1>2 DEF handler_thread_routine, RoutineGoes, WorksOn, Took
<1>7. r.op = "read" /\ r.state = "SUCCESS"
        => RoutineGoes(w, r, "request", LastSession(r.fd), UseEntry(obj, r.fd))
  BY <1>1, <1>2 DEF handler_thread_routine, RoutineGoes, WorksOn, Took, LastSession
<1>8. r.op = "read" /\ r.state \notin {"SUCCESS", "MODIFIED"} => RoutineGoes(w, r, "ended", NONE, obj)
  BY <1>1, <1>2 DEF handler_thread_routine, RoutineGoes, WorksOn, Took
<1>9. r.op = "write" /\ r.state = "FINISHED"
        => RoutineGoes(w, r, "replied", LastSession(r.fd), UseEntry(obj, r.fd))
  BY <1>1, <1>2 DEF handler_thread_routine, RoutineGoes, WorksOn, Took, LastSession
<1>10. r.op = "write" /\ r.state # "FINISHED"
        => RoutineGoes(w, r, "handle", LastSession(r.fd), UseEntry(obj, r.fd))
  BY <1>1, <1>2 DEF handler_thread_routine, RoutineGoes, WorksOn, Took, LastSession
<1> QED  BY <1>1, <1>3, <1>4, <1>5, <1>6, <1>7, <1>8, <1>9, <1>10

LEMMA RoutineGoesIs ==
  ASSUME NEW w \in Workers, NEW r \in Results, NEW s \in Sessions \cup {NONE},
         NEW pc \in OfConn \cup {"accepted", "shutdown", "stopped"},
         pc \in OfConn => r.fd \in Conns, pc = "accepted" => r.msg \in Conns,
         pc \in Speaking => s \in Sessions /\ s[1] = r.fd,
         pc = "ended" => r.op = "read" /\ r.state \in Ends,
         RoutineGoes(w, r, pc, s, obj), NEW v, v = Took(r, pc, s)
  PROVE  Routine(w, r, v) /\ v.pc = pc
<1>1. v \in WorkerSet /\ v.pc = pc
  BY TookIs
<1>2. pc # "get"
  BY DEF OfConn
<1> QED  BY <1>1, <1>2 DEF RoutineGoes, Routine

LEMMA RoutineKeeps ==
  ASSUME NEW g \in Places, NEW z \in ServicePlaces, Inv(g, z), NEW w \in Handlers,
         handler_thread_routine(w)
  PROVE  IInv'
<1>1. poll \in Group(Results) /\ w \in Workers
  BY InvParts, Constants DEF Types
<1>2. PICK r : r = Head(poll.queue)
  OBVIOUS
<1>3. FirstTaken(poll, r, poll')
  BY <1>2, RoutineIs
<1>4. r \in Results
  BY <1>1, <1>3, TakenOther
<1>5. NONE \in Sessions \cup {NONE}
  OBVIOUS
<1>6. ASSUME NEW c \in Conns, g[c].msg # "none" \/ (g[c].loc # "none" /\ g[c].op = "write")
      PROVE  UseEntry(obj, c) = obj /\ LastSession(c) \in Sessions /\ LastSession(c)[1] = c
  <2>1. obj.entry[c].seq \in 0 .. MaxSeq /\ Fits(g[c], c)
    BY ConnIs, Constants DEF EntrySet
  <2>2. obj.entry[c].seq # 0
    BY <1>6, <2>1 DEF Fits, Fitting, StateFits
  <2>3. LastSession(c) \in Sessions /\ LastSession(c)[1] = c
    BY <2>1, <2>2, LastIsSession DEF LastSession
  <2> QED  BY <1>6, <2>3, EntryUsable
<1>7. CASE r.op = "listen" /\ r.state = "SUCCESS"
  <2>1. r.msg \in Conns /\ r.fd = listen_fd
    BY <1>4, <1>7, Constants DEF Results, ResultsOf, ListenEnd
  <2>2. PICK v, c : v = Took(r, "accepted", NONE) /\ c = r.msg
    OBVIOUS
  <2>3. Routine(w, r, v)
    BY <1>1, <1>2, <1>4, <1>5, <1>7, <2>1, <2>2, RoutineIs, RoutineGoesIs DEF OfConn, Speaking
  <2>4. r \in AccsOf(Results, c)
    BY <1>4, <1>7, <2>1, <2>2 DEF AccsOf
  <2> QED  BY <2>1, <2>2, <2>3, <2>4, TakesAccepted
<1>8. CASE r.op = "listen" /\ r.state \in {"DELETED", "ERROR", "STOPPED"}
  <2>1. r.fd = listen_fd /\ r \in EndsOf(Results, listen_fd)
    BY <1>4, <1>8, Constants DEF Results, ResultsOf, EndsOf, Ends
  <2>2. PICK pc : pc = IF r.state = "DELETED" THEN "shutdown" ELSE "stopped"
    OBVIOUS
  <2>3. RoutineGoes(w, r, pc, NONE, obj)
    BY <1>2, <1>8, <2>2, RoutineIs
  <2>4. PICK v : v = Took(r, pc, NONE)
    OBVIOUS
  <2>5. Routine(w, r, v) /\ v.pc = pc
    BY <1>1, <1>4, <1>5, <2>2, <2>3, <2>4, RoutineGoesIs DEF OfConn, Speaking
  <2> QED  BY <1>8, <2>1, <2>2, <2>5, TakesListenEnd
<1>9. CASE r.op = "read" /\ r.state = "MODIFIED"
  <2>1. r.fd \in Conns
    BY <1>4, <1>9 DEF Results, ResultsOf
  <2>2. PICK v, c : v = Getting /\ c = r.fd
    OBVIOUS
  <2>3. Routine(w, r, v)
    BY <1>1, <1>2, <1>9, <2>2, RoutineIs, GettingIs DEF RoutineGoes, Routine
  <2> QED  BY <1>9, <2>1, <2>2, <2>3, TakesModified
<1>10. CASE r.op = "read" /\ r.state = "SUCCESS"
  <2>1. r.fd \in Conns
    BY <1>4, <1>10 DEF Results, ResultsOf
  <2>2. PICK v, c, s : s = LastSession(c) /\ v = Took(r, "request", s) /\ c = r.fd
    OBVIOUS
  <2>3. r \in MsgsOf(Results, c)
    BY <1>4, <1>10, <2>2 DEF MsgsOf
  <2>4. g[c].msg # "none"
    <3>1. Queued(Results, poll, g[c], c) /\ g[c] \in PlaceSet
      BY <2>1, <2>2, ConnIs
    <3> QED  BY <1>1, <1>3, <2>1, <2>2, <2>3, <3>1, TakenMsg DEF Takes
  <2>5. UseEntry(obj, c) = obj /\ s \in Sessions /\ s[1] = c
    BY <1>6, <2>1, <2>2, <2>4
  <2>6. RoutineGoes(w, r, "request", s, obj)
    BY <1>2, <1>10, <2>2, <2>5, RoutineIs
  <2>7. Routine(w, r, v)
    BY <1>1, <1>4, <2>1, <2>2, <2>5, <2>6, RoutineGoesIs DEF OfConn, Speaking
  <2>8. TookLast(r, "request", c, v)
    BY <2>2 DEF TookLast, Speaking
  <2> QED  BY <2>1, <2>2, <2>3, <2>7, <2>8, TakesRequest
<1>11. CASE r.op = "read" /\ r.state \notin {"SUCCESS", "MODIFIED"}
  <2>1. r.fd \in Conns /\ r \in EndsOf(Results, r.fd) /\ r.state \in Ends
    BY <1>4, <1>11 DEF Results, ResultsOf, EndsOf
  <2>2. PICK v, c : v = Took(r, "ended", NONE) /\ c = r.fd
    OBVIOUS
  <2>3. Routine(w, r, v)
    BY <1>1, <1>2, <1>4, <1>5, <1>11, <2>1, <2>2, RoutineIs, RoutineGoesIs DEF OfConn, Speaking
  <2> QED  BY <1>11, <2>1, <2>2, <2>3, TakesEnded
<1>12. CASE r.op = "write"
  <2>1. r.fd \in Conns /\ r \in EndsOf(Results, r.fd)
    BY <1>4, <1>12 DEF Results, ResultsOf, EndsOf
  <2>2. PICK v, c, s, pc : /\ s = LastSession(c) /\ v = Took(r, pc, s) /\ c = r.fd
                           /\ pc = IF r.state = "FINISHED" THEN "replied" ELSE "handle"
    OBVIOUS
  <2>4. g[c].loc # "none" /\ g[c].op = "write"
    <3>1. Queued(Results, poll, g[c], c) /\ g[c] \in PlaceSet
      BY <2>1, <2>2, ConnIs
    <3> QED  BY <1>1, <1>3, <1>12, <2>1, <2>2, <3>1, TakenEnd DEF Takes
  <2>5. UseEntry(obj, c) = obj /\ s \in Sessions /\ s[1] = c
    BY <1>6, <2>1, <2>2, <2>4
  <2>6. RoutineGoes(w, r, pc, s, obj)
    BY <1>2, <1>12, <2>2, <2>5, RoutineIs
  <2>7. Routine(w, r, v)
    BY <1>1, <1>4, <2>1, <2>2, <2>5, <2>6, RoutineGoesIs DEF OfConn, Speaking
  <2>8. TookLast(r, pc, c, v)
    BY <2>2 DEF TookLast, Speaking
  <2>9. CASE pc = "replied"
    BY <1>12, <2>1, <2>2, <2>7, <2>8, <2>9, TakesReplied
  <2>10. CASE pc = "handle"
    BY <1>12, <2>1, <2>2, <2>7, <2>8, <2>10, TakesFailed
  <2> QED  BY <2>2, <2>9, <2>10
<1> QED
  <2>1. /\ r.op \in {"read", "write", "listen"}
        /\ r.op = "listen" => r.state \in {"SUCCESS", "DELETED", "ERROR", "STOPPED"}
    BY <1>4, Constants DEF Results, ResultsOf, ListenEnd
  <2> QED  BY <1>7, <1>8, <1>9, <1>10, <1>11, <1>12, <2>1

----
(* A thread goes on with what it has at hand. *)

LEMMA HandIs ==
  ASSUME NEW g \in Places, NEW z \in ServicePlaces, Inv(g, z),
         NEW c \in Conns, NEW w \in Workers, NEW p,
         AtHand(worker[w], p, c)
  PROVE  /\ p \in {"ended", "replied"} => g[c].loc = p
         /\ p = "request" => g[c].msg = p
         /\ p = "accepted" => g[c].acc = p
<1>1. Held(worker, g[c], c)
  BY ConnIs
<1>2. \A q, place : AtHand(worker[w], q, c) /\ One(worker, q, c, place) => place = q
  BY DEF One, NoneAt
<1> QED  BY <1>1, <1>2 DEF Held

LEMMA GoesOn ==
  ASSUME worker \in [Workers -> WorkerSet], NEW w \in Workers, NEW pc, Work(w, pc)
  PROVE  \E v : /\ WorksOn(w, v) /\ GoneOn(worker[w], v, pc) /\ v.s = worker[w].s
                /\ v.st = worker[w].st /\ v = [worker[w] EXCEPT !.pc = pc]
<1>1. PICK v : v = [worker[w] EXCEPT !.pc = pc]
  OBVIOUS
<1>2. worker[w] \in WorkerSet
  OBVIOUS
<1>3. v.pc = pc /\ v.res = worker[w].res /\ v.s = worker[w].s /\ v.st = worker[w].st
  BY <1>1, <1>2 DEF WorkerSet
<1>4. WorksOn(w, v)
  BY <1>1 DEF WorksOn, Work
<1> QED  BY <1>1, <1>3, <1>4 DEF GoneOn

\* The poller thread has at hand what is in the table or in the pipe.
LEMMA NotAt ==
  ASSUME NEW g \in Places, NEW z \in ServicePlaces, Inv(g, z), NEW c \in Conns,
         g[c].loc \notin {"table", "pipe"}
  PROVE  At(c) = "wait"
<1>1. CASE at.fd = c /\ at.pc # "wait"
  <2>1. Ready(poll, c, "read")
    BY <1>1, InvParts DEF PollerAt
  <2> QED  BY <2>1, ReadyLoc
<1> QED  BY <1>1 DEF At

\* The target gives back a reference, and the service perhaps too.
LEMMA TargetLessIs ==
  ASSUME NEW ta \in TargetSet, ta.state = "LIVE", ta.ref # 0, NEW xa, xa = TargetLess(ta)
  PROVE  /\ xa \in TargetSet /\ xa.ref = ta.ref - 1 /\ xa.idle = ta.idle
         /\ xa.state = IF ta.ref = 1 THEN "FREED" ELSE "LIVE"
         /\ ta.ref \in Nat
<1>1. ta.ref \in Nat /\ ta.ref - 1 \in Nat /\ (ta.ref - 1 > 0 <=> ta.ref # 1)
  BY DEF TargetSet
<1> QED  BY <1>1 DEF TargetSet, TargetLess

LEMMA SvLessIs ==
  ASSUME NEW sv \in ServiceSet, sv.ref # 0, sv.unbound = 0, NEW sx, sx = SvLess(sv)
  PROVE  /\ sx \in ServiceSet /\ sx.ref = sv.ref - 1 /\ sv.ref \in Nat
         /\ sx.unbound = (IF sx.ref = 0 THEN 1 ELSE 0)
         /\ sx.listening = sv.listening
<1>1. sv.ref \in Nat /\ sv.ref - 1 \in Nat
  BY DEF ServiceSet
<1>2. PICK n, u : n = sv.ref - 1 /\ u = IF n = 0 THEN 1 ELSE 0
  OBVIOUS
<1>3. sx = [sv EXCEPT !.ref = n, !.unbound = u] /\ n \in Nat /\ u \in Nat
  BY <1>1, <1>2 DEF SvLess
<1>4. sx \in ServiceSet /\ sx.ref = n /\ sx.unbound = u /\ sx.listening = sv.listening
  BY <1>3 DEF ServiceSet
<1> QED  BY <1>1, <1>2, <1>4

LEMMA TargetGone ==
  ASSUME NEW g \in Places, NEW z \in ServicePlaces, Inv(g, z), NEW c \in Conns,
         Usable(obj, c), NEW ta \in TargetSet, ta.state = "LIVE", ta.ref # 0,
         NEW xa, xa = TargetLess(ta), NEW sx, sx = SvAfter(ta, obj.service)
  PROVE  /\ sx \in ServiceSet /\ sx.listening = obj.service.listening
         /\ \A y : y.service = sx /\ y.target[c] = xa
                      /\ (\A f \in Conns : f # c => y.target[f] = obj.target[f])
                   => ServiceFits(z, y.service, Cardinality(Live(y)))
<1>1. /\ xa.ref = ta.ref - 1 /\ xa.state = (IF ta.ref = 1 THEN "FREED" ELSE "LIVE")
      /\ ta.ref \in Nat
  BY TargetLessIs
<1>2. ServiceFits(z, obj.service, Cardinality(Live(obj))) /\ obj.service \in ServiceSet
  BY InvParts, ConnIs DEF Serv
<1>3. obj.service.ref # 0 /\ obj.service.unbound = 0 /\ obj.target[c].state = "LIVE"
  BY DEF Usable
<1>4. CASE ta.ref # 1
  <2>1. sx = obj.service
    BY <1>1, <1>4 DEF SvAfter
  <2>2. ASSUME NEW y, y.target[c] = xa, \A f \in Conns : f # c => y.target[f] = obj.target[f]
        PROVE  Live(y) = Live(obj)
    BY <1>1, <1>3, <1>4, <2>2 DEF Live
  <2> QED  BY <1>2, <2>1, <2>2
<1>5. CASE ta.ref = 1
  <2>1. sx = SvLess(obj.service)
    BY <1>5 DEF SvAfter
  <2>2. /\ sx \in ServiceSet /\ sx.ref = obj.service.ref - 1 /\ obj.service.ref \in Nat
        /\ sx.unbound = (IF sx.ref = 0 THEN 1 ELSE 0)
        /\ sx.listening = obj.service.listening
    BY <1>2, <1>3, <2>1, SvLessIs
  <2>3. ASSUME NEW y, y.target[c] = xa, \A f \in Conns : f # c => y.target[f] = obj.target[f]
        PROVE  OneMore(Cardinality(Live(obj)), Cardinality(Live(y)))
    <3>1. Live(y) = Live(obj) \ {c} /\ c \in Live(obj)
      BY <1>1, <1>3, <1>5, <2>3 DEF Live
    <3> QED  BY <3>1, LiveFinite, CountLess
  <2>4. ASSUME NEW m, OneMore(Cardinality(Live(obj)), m) PROVE ServiceFits(z, sx, m)
    <3>1. PICK n, sv : n = Cardinality(Live(obj)) /\ sv = obj.service
      OBVIOUS
    <3>2. n = m + 1 /\ m \in Nat /\ z.own \in Nat
      BY <2>4, <3>1 DEF OneMore, ServicePlaces
    <3> QED  BY <1>2, <2>2, <3>1, <3>2 DEF ServiceFits
  <2> QED  BY <2>2, <2>3, <2>4
<1> QED  BY <1>4, <1>5

LEMMA RegistersFits ==
  ASSUME NEW o, NEW l, NEW n, NEW k, NEW en, NEW xn, NEW ta, NEW al, NEW rd, NEW p,
         Registers(o, l, n, k, en, xn, ta, al, rd, p)
  PROVE  /\ Fitting(l, n, k, xn, ta, al, "wait", rd, p)
         /\ en.seq = 0 /\ ~Owes(l, xn)
<1>1. /\ o.acc = "accepted" /\ Fitting(o, n, k, en, ta, al, "wait", rd, p)
      /\ l.loc = "table" /\ l.op = "read" /\ l.msg = "none" /\ l.acc = "none"
      /\ xn.state = "CONNECTED" /\ xn.ref = 1 /\ xn.seq = 0
  BY DEF Registers
<1>2. /\ en.state = "NONE" /\ ta.state = "LIVE" /\ n = 0 /\ k = 0 /\ en.seq = 0 /\ ta.ref = k + 1
  BY <1>1 DEF Fitting, Counted
<1>3. ~ta.idle /\ rd # "yes" /\ al # "in"
  BY <1>1, <1>2 DEF Fitting, StateFits, PollFits
<1>4. Counted(l, n, k, xn, ta)
  BY <1>1, <1>2 DEF Counted, Kept
<1>5. StateFits(l, xn, ta, p)
  BY <1>1, <1>3 DEF StateFits
<1>6. PollFits(l, xn, al, "wait", rd, p)
  BY <1>1, <1>3 DEF PollFits
<1> QED  BY <1>1, <1>2, <1>4, <1>5, <1>6 DEF Fitting, Owes

\* The connection that a handler is about to register.
LEMMA AcceptedConn ==
  ASSUME NEW w \in Workers, worker \in [Workers -> WorkerSet], worker[w].pc = "accepted"
  PROVE  \E c \in Conns : c = worker[w].res.msg /\ AtHand(worker[w], "accepted", c)
  BY DEF WorkerSet, AtHand, Subject

LEMMA AcceptedIs ==
  ASSUME NEW g \in Places, NEW z \in ServicePlaces, Inv(g, z), NEW w \in Workers,
         NEW c \in Conns, AtHand(worker[w], "accepted", c)
  PROVE  /\ g[c].acc = "accepted" /\ g[c].loc = "none" /\ g[c].msg = "none"
         /\ obj.entry[c].state = "NONE" /\ obj.target[c].state = "LIVE" /\ obj.entry[c].seq = 0
         /\ obj.target[c].ref = 1 /\ Usable(obj, c) /\ At(c) = "wait"
<1>2. g[c].acc = "accepted" /\ Fits(g[c], c) /\ g[c] \in PlaceSet
  <2>1. g[c].acc = "accepted"
    BY HandIs
  <2> QED  BY <2>1, ConnIs
<1>3. PICK o, n, k, en, ta, al, a, rd, p :
         /\ o = g[c] /\ n = Holding(c) /\ k = Open(c)
         /\ en = obj.entry[c] /\ ta = obj.target[c] /\ al = Alive(c) /\ a = At(c)
         /\ rd = Reads(c) /\ p = Passive(c)
  OBVIOUS
<1>4. Fitting(o, n, k, en, ta, al, a, rd, p) /\ o.acc = "accepted"
  BY <1>2, <1>3 DEF Fits
<1>5. /\ en.state = "NONE" /\ ta.state = "LIVE" /\ en.seq = 0 /\ ta.ref = 1
      /\ o.loc = "none" /\ o.msg = "none"
  BY <1>4 DEF Fitting, Counted, Kept
<1>6. Usable(obj, c)
  BY <1>3, <1>5, LiveUsable
<1>7. At(c) = "wait"
  BY <1>3, <1>5, NotAt
<1> QED  BY <1>2, <1>3, <1>5, <1>6, <1>7

LEMMA AcceptedFrame ==
  ASSUME NEW g \in Places, NEW z \in ServicePlaces, Inv(g, z), NEW w \in Workers,
         NEW c \in Conns, AtHand(worker[w], "accepted", c),
         NEW v \in WorkerSet, v.pc \in {"get", "added"}, WorksOn(w, v)
  PROVE  /\ PlainWork(w, v, c) /\ Holders(worker', user, c) = Holding(c)
         /\ \A s : ~SpeaksFor(v, s)
         /\ \A o, l : (l.loc = o.loc \/ (o.loc = "none" /\ l.loc = "table"))
                         /\ l.msg = o.msg /\ l.acc = "none" => HandsGo(worker[w], v, c, o, l)
<1>1. worker \in [Workers -> WorkerSet]
  BY InvParts DEF Types
<1>2. worker[w].pc = "accepted" /\ Subject(worker[w]) = c
  BY DEF AtHand
<1>3. PlainWork(w, v, c)
  BY <1>2 DEF PlainWork, Plain, Closing, OnlyAbout, OfConn
<1>4. Refs(worker', c) = Refs(worker, c)
  <2>1. ~HasRef(worker[w], c) /\ ~HasRef(v, c)
    BY <1>2 DEF HasRef
  <2> QED  BY <1>1, <2>1, RefsKept DEF WorksOn
<1>5. ASSUME NEW o, NEW l, l.loc = o.loc \/ (o.loc = "none" /\ l.loc = "table"),
             l.msg = o.msg, l.acc = "none"
      PROVE  HandsGo(worker[w], v, c, o, l)
  BY <1>2, <1>5 DEF HandsGo, HandGoes, AtHand
<1> QED  BY <1>3, <1>4, <1>5 DEF Holders, SpeaksFor, Speaking

LEMMA RegisterForIs ==
  ASSUME NEW o \in ObjSet, NEW c \in Conns
  PROVE  RegisterFor(o, c) = Upd(o, c, accept_conn, o.target[c], o.service, o.alive_list)
  BY ExceptEntry DEF RegisterFor

LEMMA RegisterKeeps ==
  ASSUME NEW g \in Places, NEW z \in ServicePlaces, Inv(g, z), NEW w \in Workers,
         NEW c \in Conns, AtHand(worker[w], "accepted", c),
         obj' = RegisterFor(obj, c), poll' = mpoller_add(poll, c, "read"), Work(w, "added"),
         UNCHANGED <<pollers, users, flags>>
  PROVE  IInv'
<1>1. /\ g[c].acc = "accepted" /\ g[c].loc = "none" /\ g[c].msg = "none"
      /\ Usable(obj, c) /\ At(c) = "wait"
  BY AcceptedIs
<1>2. /\ Types /\ AliveOK /\ ~obj.bad /\ Serv(z) /\ Queued(Results, poll, g[c], c)
      /\ Fits(g[c], c) /\ g[c] \in PlaceSet /\ obj \in ObjSet /\ poll \in Group(Results)
      /\ obj.entry[c] \in EntrySet /\ obj.target[c] \in TargetSet
      /\ obj.service \in ServiceSet /\ obj.alive_list \in Seq(Conns)
      /\ worker \in [Workers -> WorkerSet] /\ \A s \in Sessions : s[1] = c => Sess(g[c], s)
  BY <1>1, ConnIs, InvParts
<1>3. PICK v : /\ WorksOn(w, v) /\ GoneOn(worker[w], v, "added") /\ v.s = worker[w].s
               /\ v.st = worker[w].st /\ v = [worker[w] EXCEPT !.pc = "added"]
  BY <1>2, GoesOn
<1>4. v \in WorkerSet /\ v.pc = "added"
  <2>1. worker[w] \in WorkerSet /\ worker[w].pc = "accepted"
    BY <1>2 DEF AtHand
  <2> QED  BY <1>3, <2>1 DEF GoneOn, WorkerSet, OfConn, Speaking
<1>5. PICK xn, l : xn = accept_conn /\ l = Plac("table", "read", "none", "none")
  OBVIOUS
<1>6. l \in PlaceSet /\ l.loc = "table" /\ l.op = "read" /\ l.msg = "none" /\ l.acc = "none"
  BY <1>5 DEF Plac, PlaceSet
<1>7. xn \in EntrySet /\ xn.state = "CONNECTED" /\ xn.ref = 1 /\ xn.seq = 0
  BY <1>5, Constants DEF accept_conn, EntrySet, EntryStates
<1>8. /\ Fitting(l, Holding(c), Open(c), xn,
                 obj.target[c], Alive(c), "wait", Reads(c), Passive(c))
      /\ obj.entry[c].seq = 0 /\ ~Owes(l, xn)
  <2>1. PICK o, n, k, en, ta, al, rd, p :
           /\ o = g[c] /\ n = Holding(c) /\ k = Open(c)
           /\ en = obj.entry[c] /\ ta = obj.target[c] /\ al = Alive(c)
           /\ rd = Reads(c) /\ p = Passive(c)
    OBVIOUS
  <2>2. Registers(o, l, n, k, en, xn, ta, al, rd, p)
    BY <1>1, <1>2, <1>6, <1>7, <2>1 DEF Registers, Fits
  <2>3. Fitting(l, n, k, xn, ta, al, "wait", rd, p) /\ en.seq = 0 /\ ~Owes(l, xn)
    BY <2>2, RegistersFits
  <2> QED  BY <2>1, <2>3
<1>9. obj' = Upd(obj, c, xn, obj.target[c], obj.service, obj.alive_list)
  BY <1>1, <1>2, <1>5, RegisterForIs
<1>10. /\ ObjStep(c) /\ obj'.entry[c] = xn /\ obj'.target[c] = obj.target[c]
       /\ obj'.service = obj.service /\ obj'.alive_list = obj.alive_list
       /\ \A f \in Conns : f # c => obj'.target[f] = obj.target[f]
       /\ Alive(c)' = Alive(c)
  <2>1. Alive(c) = IF c \in ToSet(obj.alive_list) THEN "in" ELSE "out"
    BY DEF Alive
  <2> QED  BY <1>1, <1>2, <1>7, <1>9, <2>1, ObjUpd
<1>11. ServiceFits(z, obj'.service, Cardinality(Live(obj')))
  <2>1. Live(obj') = Live(obj)
    BY <1>10 DEF Live
  <2> QED  BY <1>2, <1>10, <2>1 DEF Serv
<1>12. PollStep(c) /\ poll'.batch = poll.batch /\ Queued(Results, poll', l, c)
  <2>1. /\ Steady(Results, poll, poll') /\ SameMessages(Results, poll, poll')
        /\ \A loc, op : NodeAt(Results, poll, c, loc, op) /\ loc \notin {"table", "pipe", "queue"}
              => NodeAt(Results, poll', c, "table", "read")
        /\ \A f \in Fds : f # c => Leaves(Results, poll, poll', f)
    BY <1>1, <1>2, AddNode, Constants DEF Ops
  <2>2. NodeAt(Results, poll', c, "table", "read")
    BY <1>1, <1>2, <2>1 DEF Queued
  <2>3. /\ Slot(poll'.queue, MsgsOf(Results, c), Results, g[c].msg, "queue")
        /\ Slot(poll'.queue, AccsOf(Results, c), Results, g[c].acc, "queue")
    BY <1>2, <2>1, MessagesOfConn DEF Queued, SameMessages
  <2>4. Queued(Results, poll', l, c)
    BY <1>1, <1>6, <2>2, <2>3 DEF Queued, Slot
  <2> QED  BY <2>1, <2>4, QuietPoll DEF Steady
<1>13. /\ PlainWork(w, v, c) /\ Holders(worker', user, c) = Holding(c)
       /\ \A s : ~SpeaksFor(v, s)
       /\ HandsGo(worker[w], v, c, g[c], l)
  BY <1>1, <1>3, <1>4, <1>6, AcceptedFrame
<1>14. /\ SessStep(c) /\ session' = session /\ user' = user
  BY <1>2, UsersSame
<1>15. FlagStep
  BY <1>2 DEF FlagStep, flags, Types
<1>16. AliveOK'
  <2>1. WorkStep(c)
    BY <1>13 DEF WorkStep, PlainWork
  <2> QED  BY <1>2, <1>10, <2>1, AliveStep DEF Serv
<1>17. obj'.entry[c].seq = obj.entry[c].seq
  BY <1>7, <1>8, <1>10
<1>18. Undeleted(c)' = Undeleted(c) /\ Passive(c)' = Passive(c)
  BY <1>14, <1>17 DEF Undeleted, Passive, LastSession
<1>19. ASSUME NEW s \in Sessions, s[1] = c PROVE Sess(l, s)'
  <2>1. ~Owed(l, s)'
    BY <1>8, <1>10, <1>19 DEF Owed
  <2> QED  BY <1>2, <1>3, <1>13, <1>14, <1>17, <1>19, <2>1, SessUnspoken
<1>20. Fitting(l, Holders(worker', user', c), Cardinality(Undeleted(c)'), obj'.entry[c],
               obj'.target[c], Alive(c)', At(c), Reads(c), Passive(c)')
  BY <1>1, <1>8, <1>10, <1>13, <1>14, <1>18
<1> QED  BY <1>1, <1>4, <1>6, <1>10, <1>11, <1>12, <1>13, <1>14, <1>15, <1>16, <1>17, <1>19, <1>20,
            WorkerStep

\* A thread steps with c and speaks for no session then.
LEMMA WorkerQuiet ==
  ASSUME NEW g \in Places, NEW z \in ServicePlaces, Inv(g, z),
         NEW c \in Conns, NEW l \in PlaceSet, NEW w, NEW v, PlainWork(w, v, c),
         PollStep(c), poll'.batch = poll.batch, Queued(Results, poll', l, c),
         UNCHANGED <<pollers, users, flags>>, ObjStep(c), ListStep,
         ServiceFits(z, obj'.service, Cardinality(Live(obj'))),
         HandsGo(worker[w], v, c, g[c], l), obj'.entry[c].seq = obj.entry[c].seq,
         v.pc \notin Speaking,
         Fitting(l, Holders(worker', user, c), Open(c), obj'.entry[c],
                 obj'.target[c], Alive(c)', At(c), Reads(c), Passive(c)),
         Owes(l, obj'.entry[c]) => Owes(g[c], obj.entry[c])
  PROVE  IInv'
<1>1. /\ Types /\ AliveOK /\ Serv(z) /\ worker \in [Workers -> WorkerSet]
      /\ \A s \in Sessions : s[1] = c => Sess(g[c], s)
  BY ConnIs, InvParts
<1>2. /\ SessStep(c) /\ session' = session /\ user' = user
  BY <1>1, UsersSame
<1>3. FlagStep
  BY <1>1 DEF FlagStep, flags, Types
<1>4. AliveOK'
  <2>1. WorkStep(c)
    BY DEF WorkStep, PlainWork
  <2> QED  BY <1>1, <2>1, AliveStep DEF Serv, ListStep
<1>5. Undeleted(c)' = Undeleted(c) /\ Passive(c)' = Passive(c)
  BY <1>2 DEF Undeleted, Passive, LastSession
<1>6. w \in Workers /\ WorksOn(w, v) /\ v.pc \notin {"request", "replied"}
  BY DEF PlainWork, Speaking
<1>7. ASSUME NEW s \in Sessions, s[1] = c PROVE Sess(l, s)'
  <2>1. Owed(l, s)' => Owed(g[c], s)
    BY <1>7 DEF Owed
  <2>2. ~SpeaksFor(v, s)
    BY DEF SpeaksFor
  <2> QED  BY <1>1, <1>2, <1>6, <1>7, <2>1, <2>2, SessUnspoken
<1>8. Fitting(l, Holders(worker', user', c), Cardinality(Undeleted(c)'), obj'.entry[c],
              obj'.target[c], Alive(c)', At(c), Reads(c), Passive(c)')
  BY <1>2, <1>5
<1> QED  BY <1>2, <1>3, <1>4, <1>6, <1>7, <1>8, WorkerStep

\* mpoller_del of a connection.
LEMMA Dels ==
  ASSUME NEW x \in Group(Results), NEW c \in Conns, NEW o \in PlaceSet, Queued(Results, x, o, c),
         o.loc = "table" /\ o.op = "write" => stop_flag, NEW y, y = mpoller_del(x, c)
  PROVE  \E l \in PlaceSet : NodeGoes(x, y, o, c, l) /\ MovesOn(o, l) /\ y.batch = x.batch
<1>1. c \in Fds /\ o.op \in {"read", "write"} /\ o.op \in Ops
      /\ NodeAt(Results, x, c, o.loc, o.op)
  BY Constants DEF PlaceSet, Ops, Queued
<1>2. x.table[c] = IF o.loc = "table" THEN o.op ELSE "none"
  BY <1>1 DEF NodeAt
<1>3. Registered(x, c) => Result(c, x.table[c], "DELETED", NONE) \in Results
  <2>1. "DELETED" \in Ends
    BY DEF Ends
  <2> QED  BY <1>1, <1>2, <2>1, ConnResults DEF Registered
<1>4. /\ Steady(Results, x, y) /\ SameMessages(Results, x, y)
      /\ ~Registered(x, c) => y = x
      /\ \A f \in Fds : f # c => Leaves(Results, x, y, f)
      /\ \A op \in Ops : NodeAt(Results, x, c, "table", op)
            => NodeAt(Results, y, c, "pipe", op)
  BY <1>1, <1>3, DelNode
<1>5. CASE o.loc # "table"
  <2>1. y = x
    BY <1>2, <1>4, <1>5 DEF Registered
  <2>2. NodeGoes(x, y, o, c, o)
    BY <2>1, NodeStays
  <2> QED  BY <2>1, <2>2 DEF MovesOn
<1>6. CASE o.loc = "table"
  <2>2. PICK l : l = PlacedAt(o, "pipe", o.op)
    OBVIOUS
  <2>3. l \in PlaceSet /\ l.loc = "pipe" /\ l.op = o.op /\ l.msg = o.msg /\ l.acc = o.acc
    BY <1>1, <2>2, PlacedFields
  <2>4. NodeAt(Results, y, c, "pipe", o.op)
    BY <1>1, <1>4, <1>6
  <2>5. NodeGoes(x, y, o, c, l)
    BY <1>4, <2>3, <2>4 DEF NodeGoes, Steady
  <2>6. MovesOn(o, l)
    BY <1>6, <2>3 DEF MovesOn, Polled
  <2> QED  BY <1>4, <2>3, <2>5, <2>6 DEF Steady
<1> QED  BY <1>5, <1>6

\* The node moves, and is seen by the connection alone.
LEMMA NodeGoesPoll ==
  ASSUME NEW c \in Conns, NEW o, NEW l, Queued(Results, poll, o, c), NodeGoes(poll, poll', o, c, l)
  PROVE  PollStep(c) /\ Queued(Results, poll', l, c)
<1>1. Queued(Results, poll', l, c)
  BY NodeGoesQueued
<1> QED  BY <1>1, QuietPoll DEF NodeGoes

LEMMA PollSame ==
  ASSUME poll \in Group(Results), poll' = poll, NEW c \in Conns, NEW o, NEW l, Queued(Results, poll, o, c),
         l.loc = o.loc, l.op = o.op, l.msg = o.msg, l.acc = o.acc \/ {l.acc, o.acc} = {"none", "accepted"}
  PROVE  PollStep(c) /\ Queued(Results, poll', l, c) /\ poll'.batch = poll.batch
<1>1. NodeGoes(poll, poll', o, c, o)
  BY NodeStays
<1>2. PollStep(c)
  BY <1>1, NodeGoesPoll
<1>3. Queued(Results, poll', l, c)
  BY DEF Queued, Slot
<1> QED  BY <1>2, <1>3

LEMMA DropsFits ==
  ASSUME NEW o, NEW l, NEW n, NEW k, NEW en, NEW ta, NEW xa, NEW al, NEW a, NEW rd, NEW p,
         Drops(o, l, n, k, en, ta, xa, al, a, rd, p)
  PROVE  Fitting(l, n, k, en, xa, al, a, rd, p) /\ (Owes(l, en) <=> Owes(o, en))
<1>1. Counted(l, n, k, en, xa)
  BY DEF Drops, Fitting, Counted, Kept
<1>2. StateFits(l, en, xa, p)
  BY DEF Drops, Fitting, StateFits
<1>3. PollFits(l, en, al, a, rd, p)
  BY DEF Drops, Fitting, PollFits
<1> QED  BY <1>1, <1>2, <1>3 DEF Drops, Fitting, Owes

LEMMA DropKeeps ==
  ASSUME NEW g \in Places, NEW z \in ServicePlaces, Inv(g, z), NEW w \in Workers,
         NEW c \in Conns, AtHand(worker[w], "accepted", c),
         obj' = TargetDecref(obj, c), Finish(w), poll' = poll,
         UNCHANGED <<pollers, users, flags>>
  PROVE  IInv'
<1>1. /\ g[c].acc = "accepted" /\ g[c].loc = "none" /\ g[c].msg = "none"
      /\ Usable(obj, c) /\ obj.target[c].ref = 1 /\ obj.target[c].state = "LIVE"
  BY AcceptedIs
<1>2. /\ Types /\ AliveOK /\ ~obj.bad /\ Serv(z) /\ Queued(Results, poll, g[c], c)
      /\ Fits(g[c], c) /\ g[c] \in PlaceSet /\ obj \in ObjSet /\ poll \in Group(Results)
      /\ obj.entry[c] \in EntrySet /\ obj.target[c] \in TargetSet
      /\ obj.service \in ServiceSet /\ obj.alive_list \in Seq(Conns)
      /\ worker \in [Workers -> WorkerSet]
  BY ConnIs, InvParts
<1>3. PICK v : v = Getting
  OBVIOUS
<1>4. v \in WorkerSet /\ v.pc = "get" /\ WorksOn(w, v)
  BY <1>3, GettingIs DEF Finish, WorksOn
<1>5. PICK xa, sx, l : /\ xa = TargetLess(obj.target[c]) /\ sx = SvAfter(obj.target[c], obj.service)
                       /\ l = WithAcc(g[c], "none")
  OBVIOUS
<1>6. l \in PlaceSet /\ l.acc = "none" /\ l.loc = g[c].loc /\ l.op = g[c].op /\ l.msg = g[c].msg
  BY <1>2, <1>5, WithFields
<1>7. xa \in TargetSet /\ xa.idle = obj.target[c].idle /\ xa.state = "FREED"
  BY <1>1, <1>2, <1>5, TargetLessIs
<1>8. /\ Fitting(l, Holding(c), Open(c), obj.entry[c],
                 xa, Alive(c), At(c), Reads(c), Passive(c))
      /\ Owes(l, obj.entry[c]) <=> Owes(g[c], obj.entry[c])
  <2>1. PICK o, n, k, en, ta, al, a, rd, p :
           /\ o = g[c] /\ n = Holding(c) /\ k = Open(c)
           /\ en = obj.entry[c] /\ ta = obj.target[c] /\ al = Alive(c) /\ a = At(c)
           /\ rd = Reads(c) /\ p = Passive(c)
    OBVIOUS
  <2>2. Drops(o, l, n, k, en, ta, xa, al, a, rd, p)
    BY <1>1, <1>2, <1>6, <1>7, <2>1 DEF Drops, Fits
  <2>3. Fitting(l, n, k, en, xa, al, a, rd, p) /\ (Owes(l, en) <=> Owes(o, en))
    BY <2>2, DropsFits
  <2> QED  BY <2>1, <2>3
<1>9. obj' = Upd(obj, c, obj.entry[c], xa, sx, obj.alive_list)
  BY <1>1, <1>5, TargetDecrefIs
<1>10. /\ sx \in ServiceSet /\ sx.listening = obj.service.listening
       /\ \A y : y.service = sx /\ y.target[c] = xa
                    /\ (\A f \in Conns : f # c => y.target[f] = obj.target[f])
                 => ServiceFits(z, y.service, Cardinality(Live(y)))
  <2>1. obj.target[c].ref # 0
    BY <1>1
  <2> QED  BY <1>1, <1>2, <1>5, <2>1, TargetGone
<1>11. /\ ObjStep(c) /\ obj'.entry[c] = obj.entry[c] /\ obj'.target[c] = xa
       /\ obj'.service = sx /\ obj'.alive_list = obj.alive_list
       /\ \A f \in Conns : f # c => obj'.target[f] = obj.target[f]
       /\ Alive(c)' = Alive(c)
  <2>1. Alive(c) = IF c \in ToSet(obj.alive_list) THEN "in" ELSE "out"
    BY DEF Alive
  <2> QED  BY <1>2, <1>7, <1>9, <1>10, <2>1, ObjUpd
<1>12. ServiceFits(z, obj'.service, Cardinality(Live(obj'))) /\ ListStep
  BY <1>10, <1>11 DEF ListStep
<1>13. PollStep(c) /\ Queued(Results, poll', l, c) /\ poll'.batch = poll.batch
  BY <1>1, <1>2, <1>6, PollSame
<1>14. /\ PlainWork(w, v, c) /\ Holders(worker', user, c) = Holding(c)
       /\ HandsGo(worker[w], v, c, g[c], l)
  BY <1>1, <1>4, <1>6, AcceptedFrame
<1>15. Fitting(l, Holders(worker', user, c), Open(c), obj'.entry[c],
               obj'.target[c], Alive(c)', At(c), Reads(c), Passive(c))
  BY <1>8, <1>11, <1>14
<1>16. v.pc \notin Speaking
  BY <1>4 DEF Speaking
<1> QED  BY <1>6, <1>8, <1>11, <1>12, <1>13, <1>14, <1>15, <1>16, WorkerQuiet

LEMMA HandleAcceptedKeeps ==
  ASSUME NEW g \in Places, NEW z \in ServicePlaces, Inv(g, z), NEW w \in Workers,
         handle_accepted(w)
  PROVE  IInv'
<1>1. worker \in [Workers -> WorkerSet] /\ worker[w].pc = "accepted"
  BY InvParts DEF Types, handle_accepted
<1>2. PICK c \in Conns : c = worker[w].res.msg /\ AtHand(worker[w], "accepted", c)
  BY <1>1, AcceptedConn
<1>3. UNCHANGED <<pollers, users, flags>>
  BY DEF handle_accepted
<1>4. CASE obj' = TargetDecref(obj, c) /\ Finish(w) /\ poll' = poll
  BY <1>2, <1>3, <1>4, DropKeeps
<1>5. CASE /\ obj' = [UseService(UseTarget(obj, c)) EXCEPT !.entry[c] = accept_conn]
           /\ poll' = mpoller_add(poll, c, "read") /\ Work(w, "added")
  <2>1. Usable(obj, c)
    BY <1>2, AcceptedIs
  <2>2. UseService(UseTarget(obj, c)) = obj
    BY <2>1, UseIsGood DEF Usable
  <2>3. obj' = RegisterFor(obj, c)
    BY <1>5, <2>2 DEF RegisterFor
  <2> QED  BY <1>2, <1>3, <1>5, <2>3, RegisterKeeps
<1> QED  BY <1>2, <1>4, <1>5 DEF handle_accepted

\* A thread that has no token at hand leaves the connection c.
LEMMA HandsStay ==
  ASSUME NEW u, NEW v, NEW c, NEW o, NEW l,
         u.pc \notin {"ended", "replied", "request", "accepted"},
         v.pc \notin {"ended", "replied", "request", "accepted"},
         SameHands(o, l)
  PROVE  HandsGo(u, v, c, o, l)
  BY DEF HandsGo, HandGoes, AtHand, SameHands

LEMMA AddedKeeps ==
  ASSUME NEW g \in Places, NEW z \in ServicePlaces, Inv(g, z), NEW w \in Workers,
         handle_added(w)
  PROVE  IInv'
<1>1. worker \in [Workers -> WorkerSet] /\ worker[w].pc = "added" /\ Types /\ AliveOK /\ ~obj.bad
      /\ Serv(z)
  BY InvParts DEF Types, handle_added
<1>2. PICK c \in Conns : c = worker[w].res.msg
  BY <1>1 DEF WorkerSet
<1>3. /\ Queued(Results, poll, g[c], c) /\ g[c] \in PlaceSet /\ poll \in Group(Results)
      /\ Fits(g[c], c)
  BY ConnIs
<1>4. UNCHANGED <<pollers, users, flags>> /\ obj' = obj
      /\ poll' = IF stop_flag THEN mpoller_del(poll, c) ELSE poll
  BY <1>2 DEF handle_added
<1>5. PICK l \in PlaceSet : NodeGoes(poll, poll', g[c], c, l) /\ MovesOn(g[c], l)
                            /\ poll'.batch = poll.batch
  <2>1. CASE stop_flag
    BY <1>3, <1>4, <2>1, Dels
  <2>2. CASE ~stop_flag
    <3>1. NodeGoes(poll, poll', g[c], c, g[c])
      BY <1>3, <1>4, <2>2, NodeStays
    <3> QED  BY <1>3, <1>4, <2>2, <3>1 DEF MovesOn
  <2> QED  BY <2>1, <2>2
<1>6. /\ Fitting(l, Holding(c), Open(c), obj.entry[c],
                 obj.target[c], Alive(c), At(c), Reads(c), Passive(c))
      /\ SameHands(g[c], l) /\ (Owes(l, obj.entry[c]) <=> Owes(g[c], obj.entry[c]))
  BY <1>3, <1>5, MovedFits DEF Fits
<1>7. PICK v : v = Getting
  OBVIOUS
<1>8. v \in WorkerSet /\ v.pc = "get" /\ WorksOn(w, v)
  BY <1>7, GettingIs DEF handle_added, Finish, WorksOn
<1>9. PlainWork(w, v, c)
  BY <1>1, <1>8 DEF PlainWork, Plain, Closing, OnlyAbout, OfConn
<1>10. HandsGo(worker[w], v, c, g[c], l)
  BY <1>1, <1>6, <1>8, HandsStay
<1>11. Holders(worker', user, c) = Holding(c)
  <2>1. ~HasRef(worker[w], c) /\ ~HasRef(v, c)
    BY <1>1, <1>8 DEF HasRef
  <2>2. Refs(worker', c) = Refs(worker, c)
    BY <1>1, <1>8, <2>1, RefsKept DEF WorksOn
  <2> QED  BY <2>2 DEF Holders
<1>12. ObjStep(c) /\ Alive(c)' = Alive(c) /\ ListStep
  BY <1>1, <1>4, ObjSame DEF KeepsObj, ListStep
<1>13. PollStep(c) /\ Queued(Results, poll', l, c)
  BY <1>3, <1>5, NodeGoesPoll
<1>14. ServiceFits(z, obj'.service, Cardinality(Live(obj')))
  BY <1>1, <1>4 DEF Serv
<1>15. v.pc \notin Speaking
  BY <1>8 DEF Speaking
<1>16. Fitting(l, Holders(worker', user, c), Open(c), obj'.entry[c],
               obj'.target[c], Alive(c)', At(c), Reads(c), Passive(c))
  BY <1>4, <1>6, <1>11, <1>12
<1> QED  BY <1>4, <1>5, <1>6, <1>9, <1>10, <1>12, <1>13, <1>14, <1>15, <1>16, WorkerQuiet

LEMMA ServiceWorkKeeps ==
  ASSUME NEW g \in Places, NEW z \in ServicePlaces, Inv(g, z),
         NEW w, NEW v, ServiceWork(w, v), poll' = poll, UNCHANGED <<pollers, users, flags>>,
         obj' \in ObjSet, ~obj'.bad, \A f \in Conns : KeepsObj(f), AliveOK',
         NEW y \in ServicePlaces, Serv(y)'
  PROVE  IInv'
<1>1. /\ Types /\ PollerAt /\ poll \in Group(Results) /\ worker \in [Workers -> WorkerSet]
  BY InvParts DEF Types
<1>2. w \in Workers /\ v \in WorkerSet /\ WorksOn(w, v)
  BY DEF ServiceWork
<1>3. worker'[w] = v /\ \A u \in Workers : u # w => worker'[u] = worker[u]
  BY <1>1, <1>2 DEF WorksOn
<1>4. Results' = Results
  BY SameResults DEF flags, ServiceWork
<1>5. \A f \in Conns : KeepsQueued(f)
  BY <1>4 DEF KeepsQueued
<1>6. \A f \in Conns : KeepsWork(f)
  <2>1. \A f : ~About(worker[w], f) /\ ~About(v, f)
    BY DEF About, ServiceWork
  <2> QED  BY <1>3, <2>1 DEF KeepsWork
<1>7. (\A f \in Conns : KeepsRead(f)) /\ PollerAt' /\ ReadStep(listen_fd)
  <2>1. ReadStep(listen_fd) /\ \A f \in Conns : KeepsRead(f)
    BY <1>1, ReadSame
  <2> QED  BY <2>1 DEF ReadStep
<1>8. (\A f \in Conns : KeepsSession(f)) /\ SessStep(listen_fd)
  BY <1>1, UsersSame
<1>9. Types'
  <2>1. worker' \in [Workers -> WorkerSet]
    BY <1>1, <1>2 DEF WorksOn
  <2> QED  BY <1>1, <1>4, <1>7, <1>8, <2>1 DEF Types, ReadStep, SessStep, flags
<1>10. Global'
  BY <1>7, <1>9 DEF Global
<1> QED  BY <1>5, <1>6, <1>7, <1>8, <1>10, NoConnKeeps DEF Apart

LEMMA SvOnlyKeeps ==
  ASSUME NEW sv, SvOnly(obj, obj', sv)
  PROVE  (\A f \in Conns : KeepsObj(f)) /\ Live(obj') = Live(obj)
  BY DEF SvOnly, KeepsObj, Alive, Live

LEMMA SvFields ==
  ASSUME NEW sv \in ServiceSet
  PROVE  /\ SvClosed(sv) \in ServiceSet /\ SvClosed(sv).listening = FALSE
         /\ SvClosed(sv).ref = sv.ref /\ SvClosed(sv).unbound = sv.unbound
  BY DEF ServiceSet, SvClosed

LEMMA SvOnlyIs ==
  ASSUME NEW o \in ObjSet, ~o.bad
  PROVE  SvOnly(o, o, o.service)
         /\ SvOnly(o, [o EXCEPT !.service.listening = FALSE], SvClosed(o.service))
<1>1. /\ o.entry \in [Conns -> EntrySet] /\ o.target \in [Conns -> TargetSet]
      /\ o.service \in ServiceSet /\ o.alive_list \in Seq(Conns)
      /\ o.torn \in BOOLEAN /\ o.bad \in BOOLEAN
      /\ o = Whole(o)
  BY ObjFields
<1>2. ASSUME NEW sv \in ServiceSet PROVE SvOnly(o, [o EXCEPT !.service = sv], sv)
  BY <1>1, <1>2 DEF SvOnly, ObjSet
<1>3. [o EXCEPT !.service.listening = FALSE] = [o EXCEPT !.service = SvClosed(o.service)]
  BY <1>1 DEF SvClosed
<1>4. SvOnly(o, o, o.service)
  BY DEF SvOnly
<1> QED  BY <1>1, <1>2, <1>3, <1>4, SvFields

\* The thread that closes the service, and the one that saw the socket's end.
LEMMA ClosingIs ==
  ASSUME NEW g \in Places, NEW z \in ServicePlaces, Inv(g, z), NEW w \in Workers
  PROVE  /\ IsClosing(worker[w]) => /\ z.own = 1
                                    /\ IF w = Main THEN z.loc \in {"queue", "stopped", "none"}
                                       ELSE z.loc = "closing" /\ worker[Main].pc = "unbound"
                                    /\ \A u \in Workers : u # w => ~IsClosing(worker[u])
         /\ IsStopped(worker[w]) => /\ z.loc = "stopped" /\ worker[Main].pc # "unbound" /\ w # Main
                                    /\ \A u \in Workers : u # w => ~IsStopped(worker[u])
<1>1. /\ z.loc = "stopped" <=> \E u \in Workers : IsStopped(worker[u])
      /\ z.loc = "closing" <=> \E u \in Workers \ {Main} : IsClosing(worker[u])
      /\ \A u, v \in Workers : IsStopped(worker[v]) /\ IsStopped(worker[u]) => v = u
      /\ \A u, v \in Workers \ {Main} : IsClosing(worker[v]) /\ IsClosing(worker[u]) => v = u
      /\ MainFits(z, worker[Main].pc)
  BY InvParts DEF Serv, ServiceNode
<1>2. z.own \in {0, 1} /\ Main \in Workers
  BY Constants DEF ServicePlaces
<1>3. CASE IsClosing(worker[w])
  <2>1. CASE w = Main
    <3>1. /\ worker[Main].pc # "unbound" /\ worker[Main].pc # "off" /\ z.own = 1
      BY <1>1, <1>3, <2>1 DEF MainFits, IsClosing, Closing
    <3>2. z.loc \in {"queue", "stopped", "none"}
      BY <1>1, <3>1 DEF MainFits
    <3>3. \A u \in Workers : u # w => ~IsClosing(worker[u])
      BY <1>1, <2>1, <3>2
    <3>4. ~IsStopped(worker[w])
      BY <1>3 DEF IsClosing, IsStopped, Closing
    <3> QED  BY <2>1, <3>1, <3>2, <3>3, <3>4
  <2>2. CASE w # Main
    <3>1. z.loc = "closing"
      BY <1>1, <1>3, <2>2
    <3>2. worker[Main].pc = "unbound" /\ z.own = 1
      BY <1>1, <1>2, <3>1 DEF MainFits
    <3>3. \A u \in Workers : u # w => ~IsClosing(worker[u])
      <4>1. ~IsClosing(worker[Main])
        BY <3>2 DEF IsClosing, Closing
      <4> QED  BY <1>1, <1>3, <2>2, <4>1
    <3>4. ~IsStopped(worker[w])
      BY <1>3 DEF IsClosing, IsStopped, Closing
    <3> QED  BY <2>2, <3>1, <3>2, <3>3, <3>4
  <2> QED  BY <2>1, <2>2
<1>4. CASE IsStopped(worker[w])
  <2>1. z.loc = "stopped"
    BY <1>1, <1>4
  <2>2. worker[Main].pc # "unbound"
    BY <1>1, <2>1 DEF MainFits
  <2>3. w # Main
    BY <1>1, <1>4 DEF IsStopped, MainFits, Closing
  <2>4. ~IsClosing(worker[w])
    BY <1>4 DEF IsClosing, IsStopped, Closing
  <2> QED  BY <1>1, <1>4, <2>1, <2>2, <2>3, <2>4
<1> QED  BY <1>3, <1>4

\* The node of the listening socket is in the poller no more.
LEMMA ListenAway ==
  ASSUME NEW R, NEW x, NEW z, NEW y, NodeAt(R, x, listen_fd, z, "listen"),
         z \notin {"table", "pipe", "queue"}, y \notin {"table", "pipe", "queue"}
  PROVE  NodeAt(R, x, listen_fd, y, "listen")
  BY NodeElsewhere

LEMMA HandleStopKeeps ==
  ASSUME NEW g \in Places, NEW z \in ServicePlaces, Inv(g, z), NEW w \in Workers,
         handle_stop(w)
  PROVE  IInv'
<1>1. /\ worker \in [Workers -> WorkerSet] /\ worker[w].pc = "stopped" /\ AliveOK
      /\ Serv(z) /\ obj \in ObjSet /\ ~obj.bad /\ obj.service \in ServiceSet
  BY InvParts, ObjFields DEF Types, handle_stop
<1>2. /\ z.loc = "stopped" /\ worker[Main].pc # "unbound" /\ w # Main
      /\ \A u \in Workers : u # w => ~IsStopped(worker[u])
  BY <1>1, ClosingIs DEF IsStopped
<1>3. obj' = obj
  <2>1. UseService(obj) = obj
    BY <1>1, UseIsGood DEF handle_stop
  <2> QED  BY <2>1 DEF handle_stop
<1>5. PICK v : v = Getting
  OBVIOUS
<1>6. v \in WorkerSet /\ v.pc = "get" /\ WorksOn(w, v)
  BY <1>5, GettingIs DEF handle_stop, Finish, WorksOn
<1>7. worker'[w] = v /\ \A u \in Workers : u # w => worker'[u] = worker[u]
  BY <1>1, <1>6 DEF WorksOn
<1>8. worker'[Main] = worker[Main] /\ ServiceWork(w, v)
  <2>1. worker'[Main] = worker[Main]
    BY <1>2, <1>7, Constants
  <2> QED  BY <1>1, <1>6, <2>1 DEF ServiceWork, OfConn
<1>9. \A f \in Conns : KeepsObj(f)
  BY <1>3 DEF KeepsObj, Alive
<1>10. AliveOK'
  <2>1. \A u \in Workers : worker'[u].pc = "drain" <=> worker[u].pc = "drain"
    BY <1>1, <1>6, <1>7
  <2> QED  BY <1>1, <1>3, <2>1 DEF AliveOK
<1>12. PICK y : y = [z EXCEPT !.loc = "none"]
  OBVIOUS
<1>13. y \in ServicePlaces /\ y.loc = "none" /\ y.own = z.own
  BY <1>12 DEF ServicePlaces
<1>11. Serv(y)'
  <2>1. Results' = Results /\ poll' = poll
    BY <1>8, SameResults DEF handle_stop, flags
  <2>2. NodeAt(Results, poll, listen_fd, "none", "listen")
    BY <1>1, <1>2, ListenAway DEF Serv, ServiceNode
  <2>3. \A u \in Workers : ~IsStopped(worker'[u]) /\ (IsClosing(worker'[u]) <=> IsClosing(worker[u]))
    BY <1>1, <1>2, <1>6, <1>7 DEF IsStopped, IsClosing, Closing
  <2>4. ServiceNode(Results', poll', worker', y)
    BY <1>1, <1>2, <1>13, <2>1, <2>2, <2>3 DEF ServiceNode, Serv
  <2>5. MainFits(y, worker'[Main].pc)
    BY <1>1, <1>2, <1>8, <1>13 DEF MainFits, Serv
  <2>6. ServiceFits(y, obj'.service, Cardinality(Live(obj')))
    BY <1>1, <1>3, <1>13 DEF Serv, ServiceFits
  <2> QED  BY <2>4, <2>5, <2>6 DEF Serv
<1> QED
  <2>1. poll' = poll /\ UNCHANGED <<pollers, users, flags>>
    BY DEF handle_stop
  <2> QED  BY <1>1, <1>3, <1>8, <1>9, <1>10, <1>11, <1>13, <2>1, ServiceWorkKeeps

LEMMA ShutdownServiceKeeps ==
  ASSUME NEW g \in Places, NEW z \in ServicePlaces, Inv(g, z), NEW w \in Workers,
         shutdown_service(w)
  PROVE  IInv'
<1>1. /\ worker \in [Workers -> WorkerSet] /\ worker[w].pc = "shutdown" /\ AliveOK
      /\ Serv(z) /\ obj \in ObjSet /\ ~obj.bad /\ obj.service \in ServiceSet
  BY InvParts, ObjFields DEF Types, shutdown_service
<1>2. /\ z.own = 1 /\ (w # Main => worker[Main].pc = "unbound")
      /\ \A u \in Workers : u # w => ~IsClosing(worker[u])
  BY <1>1, ClosingIs DEF IsClosing, Closing
<1>3. SvOnly(obj, obj', SvClosed(obj.service))
  <2>1. UseService(obj) = obj
    BY <1>2, ServiceUsable
  <2>2. obj' = [obj EXCEPT !.service.listening = FALSE]
    BY <2>1 DEF shutdown_service
  <2> QED  BY <1>1, <2>2, SvOnlyIs
<1>4. /\ obj'.service.ref = obj.service.ref /\ obj'.service.unbound = obj.service.unbound
      /\ obj' \in ObjSet /\ ~obj'.bad /\ obj'.alive_list = obj.alive_list
  <2>1. PICK sv : sv = obj.service
    OBVIOUS
  <2>2. obj' \in ObjSet /\ ~obj'.bad /\ obj'.alive_list = obj.alive_list
        /\ obj'.service = SvClosed(sv)
    BY <1>3, <2>1 DEF SvOnly
  <2>3. /\ SvClosed(sv).ref = sv.ref /\ SvClosed(sv).unbound = sv.unbound
    BY <1>1, <2>1, SvFields
  <2> QED  BY <2>1, <2>2, <2>3
<1>5. PICK v : /\ WorksOn(w, v) /\ GoneOn(worker[w], v, "drain") /\ v.s = worker[w].s
               /\ v.st = worker[w].st /\ v = [worker[w] EXCEPT !.pc = "drain"]
  BY <1>1, GoesOn DEF shutdown_service
<1>6. v \in WorkerSet /\ v.pc = "drain"
  <2>1. worker[w] \in WorkerSet
    BY <1>1
  <2> QED  BY <1>5, <2>1 DEF GoneOn, WorkerSet, OfConn, Speaking, Closing
<1>7. worker'[w] = v /\ \A u \in Workers : u # w => worker'[u] = worker[u]
  BY <1>1, <1>5 DEF WorksOn
<1>8. ServiceWork(w, v)
  <2>1. worker'[Main].pc = "unbound" <=> worker[Main].pc = "unbound"
    BY <1>1, <1>6, <1>7, Constants
  <2> QED  BY <1>1, <1>5, <1>6, <2>1 DEF ServiceWork, OfConn
<1>9. (\A f \in Conns : KeepsObj(f)) /\ Live(obj') = Live(obj)
  BY <1>3, SvOnlyKeeps
<1>10. AliveOK'
  BY <1>1, <1>4, <1>6, <1>7 DEF AliveOK
<1>11. Serv(z)'
  <2>1. Results' = Results /\ poll' = poll
    BY <1>8, SameResults DEF shutdown_service, flags, ServiceWork
  <2>3. \A u \in Workers : /\ IsStopped(worker'[u]) <=> IsStopped(worker[u])
                           /\ IsClosing(worker'[u]) <=> IsClosing(worker[u])
    BY <1>1, <1>6, <1>7 DEF IsStopped, IsClosing, Closing
  <2>4. ServiceNode(Results', poll', worker', z)
    BY <1>1, <2>1, <2>3 DEF ServiceNode, Serv
  <2>5. MainFits(z, worker'[Main].pc)
    BY <1>1, <1>6, <1>7, Constants DEF MainFits, Serv, Closing
  <2>6. ServiceFits(z, obj'.service, Cardinality(Live(obj')))
    BY <1>1, <1>4, <1>9 DEF Serv, ServiceFits
  <2> QED  BY <2>4, <2>5, <2>6 DEF Serv
<1> QED
  <2>1. poll' = poll /\ UNCHANGED <<pollers, users, flags>>
    BY DEF shutdown_service
  <2> QED  BY <1>4, <1>8, <1>9, <1>10, <1>11, <2>1, ServiceWorkKeeps

LEMMA ServiceDecrefKeeps ==
  ASSUME NEW g \in Places, NEW z \in ServicePlaces, Inv(g, z), NEW w \in Workers,
         service_decref(w)
  PROVE  IInv'
<1>1. /\ worker \in [Workers -> WorkerSet] /\ worker[w].pc = "decref" /\ AliveOK
      /\ Serv(z) /\ obj \in ObjSet /\ ~obj.bad /\ obj.service \in ServiceSet
  BY InvParts, ObjFields DEF Types, service_decref
<1>2. /\ z.own = 1
      /\ IF w = Main THEN z.loc \in {"queue", "stopped", "none"}
         ELSE z.loc = "closing" /\ worker[Main].pc = "unbound"
      /\ \A u \in Workers : u # w => ~IsClosing(worker[u])
  BY <1>1, ClosingIs DEF IsClosing, Closing
<1>u. obj.service.ref # 0 /\ obj.service.unbound = 0
  BY <1>2, ServiceUsable
<1>3. PICK sx : sx = SvLess(obj.service)
  OBVIOUS
<1>4. /\ sx \in ServiceSet /\ sx.ref = obj.service.ref - 1 /\ obj.service.ref \in Nat
      /\ sx.unbound = (IF sx.ref = 0 THEN 1 ELSE 0)
      /\ sx.listening = obj.service.listening
  BY <1>1, <1>3, <1>u, SvLessIs
<1>o. SvOnly(obj, obj', sx)
  <2>1. obj' = [entry |-> obj.entry, target |-> obj.target, service |-> sx,
                alive_list |-> obj.alive_list, torn |-> obj.torn, bad |-> obj.bad]
    BY <1>1, <1>3, <1>u, ServiceDecrefParts DEF service_decref
  <2> QED  BY <1>1, <1>4, <2>1, ObjFields DEF SvOnly, ObjSet
<1>5. PICK v : v = IF w = Main THEN [Getting EXCEPT !.pc = "closed"] ELSE Getting
  OBVIOUS
<1>6. v \in WorkerSet /\ v.pc = (IF w = Main THEN "closed" ELSE "get") /\ WorksOn(w, v)
  <2>1. WorksOn(w, v)
    BY <1>5 DEF service_decref, WorksOn
  <2>2. v \in WorkerSet /\ v.pc = (IF w = Main THEN "closed" ELSE "get")
    BY <1>5 DEF Getting, WorkerSet, Tells, OfConn, Closing, Speaking
  <2> QED  BY <2>1, <2>2
<1>7. worker'[w] = v /\ \A u \in Workers : u # w => worker'[u] = worker[u]
  BY <1>1, <1>6 DEF WorksOn
<1>m. /\ worker'[Main].pc = IF w = Main THEN "closed" ELSE "unbound"
      /\ worker'[Main].pc = "unbound" <=> worker[Main].pc = "unbound"
  BY <1>1, <1>2, <1>6, <1>7, Constants
<1>8. ServiceWork(w, v)
  BY <1>1, <1>6, <1>m DEF ServiceWork, OfConn
<1>9. (\A f \in Conns : KeepsObj(f)) /\ Live(obj') = Live(obj)
  BY <1>o, SvOnlyKeeps
<1>10. AliveOK'
  <2>1. \A u \in Workers : worker'[u].pc = "drain" <=> worker[u].pc = "drain"
    BY <1>1, <1>6, <1>7
  <2> QED  BY <1>1, <1>4, <1>o, <2>1 DEF AliveOK, SvOnly
<1>12. PICK y : y = [loc |-> IF w = Main THEN z.loc ELSE "none", own |-> 0]
  OBVIOUS
<1>13. y \in ServicePlaces /\ y.loc = (IF w = Main THEN z.loc ELSE "none") /\ y.own = 0
  BY <1>12 DEF ServicePlaces
<1>11. Serv(y)'
  <2>1. Results' = Results /\ poll' = poll
    BY <1>8, SameResults DEF service_decref, flags, ServiceWork
  <2>2. NodeAt(Results, poll, listen_fd, y.loc, "listen")
    BY <1>1, <1>2, <1>13, ListenAway DEF Serv, ServiceNode
  <2>3. \A u \in Workers : ~IsClosing(worker'[u]) /\ (IsStopped(worker'[u]) <=> IsStopped(worker[u]))
    BY <1>1, <1>2, <1>6, <1>7 DEF IsStopped, IsClosing, Closing
  <2>4. ServiceNode(Results', poll', worker', y)
    <3>1. z.loc = "closing" => w # Main
      BY <1>2
    <3>2. z.loc = "closing" => \A u \in Workers : ~IsStopped(worker[u])
      BY <1>1 DEF Serv, ServiceNode
    <3> QED  BY <1>1, <1>2, <1>13, <2>1, <2>2, <2>3, <3>1, <3>2 DEF ServiceNode, Serv
  <2>5. MainFits(y, worker'[Main].pc)
    BY <1>2, <1>13, <1>m DEF MainFits, Closing
  <2>6. ServiceFits(y, obj'.service, Cardinality(Live(obj')))
    <3>1. PICK n : n = Cardinality(Live(obj))
      OBVIOUS
    <3>2. ServiceFits(z, obj.service, n)
      BY <1>1, <3>1 DEF Serv
    <3>3. ServiceFits(y, sx, n)
      BY <1>2, <1>4, <1>13, <3>2 DEF ServiceFits
    <3> QED  BY <1>9, <1>o, <3>1, <3>3 DEF SvOnly
  <2> QED  BY <2>4, <2>5, <2>6 DEF Serv
<1> QED
  <2>1. poll' = poll /\ UNCHANGED <<pollers, users, flags>>
    BY DEF service_decref
  <2> QED  BY <1>8, <1>9, <1>10, <1>11, <1>13, <1>o, <2>1, ServiceWorkKeeps DEF SvOnly

----
(* drain: a kept connection is closed. *)

LEMMA KeptReads ==
  ASSUME NEW o, NEW n, NEW k, NEW en, NEW ta, NEW a, NEW rd, NEW p,
         Fitting(o, n, k, en, ta, "in", a, rd, p), o \in PlaceSet
  PROVE  /\ o.loc # "none" /\ o.op = "read" /\ o.msg = "none" /\ en.state = "KEEPALIVE"
         /\ a # "new" /\ ~ta.idle
<1>1. en.state = "KEEPALIVE" /\ o.loc # "none" /\ a # "new"
  BY DEF Fitting, PollFits
<1>2. o.op \in {"read", "write"}
  BY DEF PlaceSet
<1> QED  BY <1>1, <1>2 DEF Fitting, StateFits

LEMMA DrainsFits ==
  ASSUME NEW o \in PlaceSet, NEW l, NEW n, NEW k, NEW en, NEW xn, NEW ta, NEW a, NEW rd, NEW p,
         Drains(o, l, n, k, en, xn, ta, a, rd, p)
  PROVE  /\ Fitting(l, n, k, xn, ta, "out", a, rd, p) /\ SameHands(o, l) /\ ~Owes(l, xn)
<1>1. /\ o.loc # "none" /\ o.op = "read" /\ o.msg = "none" /\ en.state = "KEEPALIVE"
      /\ a # "new" /\ ~ta.idle
  BY KeptReads DEF Drains
<1>2. Fitting(l, n, k, en, ta, "in", a, rd, p) /\ SameHands(o, l)
  BY MovedFits DEF Drains
<1>3. l.loc # "none" /\ l.op = "read" /\ l.msg = "none"
  BY <1>1 DEF Drains, MovesOn, Polled
<1>4. xn.state = "CLOSING" /\ xn.ref = en.ref /\ xn.seq = en.seq
  BY DEF Drains, InStateOf
<1>5. Counted(l, n, k, xn, ta)
  BY <1>1, <1>2, <1>3, <1>4 DEF Fitting, Counted
<1>6. StateFits(l, xn, ta, p)
  BY <1>1, <1>2, <1>3, <1>4 DEF Fitting, StateFits
<1>7. PollFits(l, xn, "out", a, rd, p)
  BY <1>1, <1>2, <1>3, <1>4 DEF Fitting, PollFits
<1> QED  BY <1>2, <1>3, <1>4, <1>5, <1>6, <1>7 DEF Fitting, Owes

LEMMA CloseAliveIs ==
  ASSUME NEW o, NEW c, Usable(o, c), o.entry[c].state \notin {"NONE", "FREED"},
         NEW e \in Seq(Conns)
  PROVE  UseService(CloseAlive(o, <<c>>, e))
           = Upd(o, c, InState(o.entry[c], "CLOSING"), o.target[c], o.service, e)
<1>1. o \in ObjSet /\ c \in Conns /\ ~o.bad /\ o.service.unbound = 0
  BY DEF Usable
<1>2. ToSet(<<c>>) = {c}
  BY ListSets
<1>3. /\ o.entry \in [Conns -> EntrySet] /\ o.target \in [Conns -> TargetSet]
      /\ o = Whole(o)
      /\ o.bad \in BOOLEAN /\ o.service \in ServiceSet
  BY <1>1, ObjFields
<1>0. PICK F, B :
        /\ F = [d \in Conns |-> IF d \in {c} THEN [o.entry[d] EXCEPT !.state = "CLOSING"]
                                ELSE o.entry[d]]
        /\ B = (o.bad \/ \E d \in {c} : o.entry[d].state \in {"NONE", "FREED"})
  OBVIOUS
<1>4. F = [o.entry EXCEPT ![c] = InState(o.entry[c], "CLOSING")]
  BY <1>0, <1>1, <1>3 DEF InState
<1>5. B = o.bad
  BY <1>0, <1>1, <1>3
<1>6. CloseAlive(o, <<c>>, e) = [o EXCEPT !.alive_list = e, !.bad = B, !.entry = F]
  BY <1>0, <1>2 DEF CloseAlive
<1>7. o.target = [o.target EXCEPT ![c] = o.target[c]]
  BY <1>1, <1>3
<1>8. CloseAlive(o, <<c>>, e) = Upd(o, c, InState(o.entry[c], "CLOSING"), o.target[c], o.service, e)
  <2>1. [o EXCEPT !.alive_list = e, !.bad = o.bad, !.entry = F]
          = [entry |-> F, target |-> o.target, service |-> o.service, alive_list |-> e,
             torn |-> o.torn, bad |-> o.bad]
    <3>1. PICK x : x = [o EXCEPT !.alive_list = e, !.bad = o.bad]
      OBVIOUS
    <3>2. x = [entry |-> o.entry, target |-> o.target, service |-> o.service, alive_list |-> e,
               torn |-> o.torn, bad |-> o.bad]
      BY <1>3, <3>1
    <3>3. [x EXCEPT !.entry = F] = [entry |-> F, target |-> o.target, service |-> o.service,
                                    alive_list |-> e, torn |-> o.torn, bad |-> o.bad]
      BY <3>2
    <3> QED  BY <3>1, <3>3
  <2> QED  BY <1>4, <1>5, <1>6, <1>7, <2>1 DEF Upd
<1>9. PICK y : y = Upd(o, c, InState(o.entry[c], "CLOSING"), o.target[c], o.service, e)
  OBVIOUS
<1>10. UseService(y) = y
  <2>1. InState(o.entry[c], "CLOSING") \in EntrySet
    BY <1>1, <1>3, InStateIs DEF EntryStates, InStateOf
  <2>2. y \in ObjSet /\ y.bad = o.bad /\ y.service = o.service
    BY <1>1, <1>3, <1>9, <2>1, UpdParts
  <2> QED  BY <1>1, <2>2, UseIsGood
<1> QED  BY <1>8, <1>9, <1>10

\* The connection c of alive_list.
LEMMA KeptConn ==
  ASSUME NEW g \in Places, NEW z \in ServicePlaces, Inv(g, z), NEW c \in Conns,
         c \in ToSet(obj.alive_list)
  PROVE  /\ g[c].loc # "none" /\ g[c].op = "read" /\ g[c].msg = "none"
         /\ obj.entry[c].state = "KEEPALIVE" /\ Usable(obj, c)
         /\ \A f \in Conns : f # c => f \notin ToSet(obj.alive_list)
         /\ Fitting(g[c], Holding(c), Open(c), obj.entry[c],
                    obj.target[c], "in", At(c), Reads(c), Passive(c))
<1>1. AliveOK /\ Fits(g[c], c) /\ g[c] \in PlaceSet /\ obj.alive_list \in Seq(Conns)
  BY ConnIs, InvParts
<1>2. PICK o, n, k, en, ta, a, rd, p :
         /\ o = g[c] /\ n = Holding(c) /\ k = Open(c)
         /\ en = obj.entry[c] /\ ta = obj.target[c] /\ a = At(c)
         /\ rd = Reads(c) /\ p = Passive(c)
  OBVIOUS
<1>3. Fitting(o, n, k, en, ta, "in", a, rd, p)
  BY <1>1, <1>2 DEF Fits, Alive
<1>4. /\ o.loc # "none" /\ o.op = "read" /\ o.msg = "none" /\ en.state = "KEEPALIVE"
  BY <1>1, <1>2, <1>3, KeptReads
<1>5. Usable(obj, c)
  BY <1>2, <1>4, EntryUsable
<1>6. \A f \in Conns : f # c => f \notin ToSet(obj.alive_list)
  <2>1. obj.alive_list = <<c>>
    BY <1>1, ShortList DEF AliveOK
  <2> QED  BY <2>1, ListSets
<1> QED  BY <1>2, <1>3, <1>4, <1>5, <1>6

LEMMA DrainedIs ==
  ASSUME NEW g \in Places, NEW z \in ServicePlaces, Inv(g, z), NEW c \in Conns,
         c \in ToSet(obj.alive_list), NEW e \in Seq(Conns)
  PROVE  Drained(c, UseService(CloseAlive(obj, <<c>>, e)), e)
<1>1. obj.entry[c].state = "KEEPALIVE" /\ Usable(obj, c)
  BY KeptConn
<1> QED  BY <1>1, CloseAliveIs DEF Drained

LEMMA EmptyIs ==
  /\ \E e : IsEmpty(e)
  /\ \A e : IsEmpty(e) => ToSet(e) = {} /\ Len(e) = 0 /\ e \in Seq(Conns)
<1>1. IsEmpty(<<>>)
  BY DEF IsEmpty
<1> QED  BY <1>1, ListSets DEF IsEmpty

LEMMA DrainsConn ==
  ASSUME NEW g \in Places, NEW z \in ServicePlaces, Inv(g, z), NEW c \in Conns,
         c \in ToSet(obj.alive_list), poll' = mpoller_del(poll, c),
         NEW e, IsEmpty(e), Drained(c, obj', e)
  PROVE  \E l \in PlaceSet :
            /\ PollStep(c) /\ Queued(Results, poll', l, c) /\ poll'.batch = poll.batch
            /\ ObjStep(c) /\ obj'.alive_list = e /\ obj'.service = obj.service
            /\ obj'.entry[c].seq = obj.entry[c].seq /\ Live(obj') = Live(obj)
            /\ Fitting(l, Holding(c), Open(c), obj'.entry[c],
                       obj'.target[c], Alive(c)', At(c), Reads(c), Passive(c))
            /\ SameHands(g[c], l) /\ ~Owes(l, obj'.entry[c])
<1>1. /\ Types /\ AliveOK /\ ~obj.bad /\ Queued(Results, poll, g[c], c)
      /\ g[c] \in PlaceSet /\ obj \in ObjSet /\ poll \in Group(Results)
      /\ obj.entry[c] \in EntrySet /\ obj.target[c] \in TargetSet
      /\ obj.service \in ServiceSet /\ obj.alive_list \in Seq(Conns)
  BY ConnIs, InvParts
<1>2. PICK o, n, k, en, ta, sv, a, rd, p :
         /\ o = g[c] /\ n = Holding(c) /\ k = Open(c)
         /\ en = obj.entry[c] /\ ta = obj.target[c] /\ sv = obj.service /\ a = At(c)
         /\ rd = Reads(c) /\ p = Passive(c)
  OBVIOUS
<1>4. /\ o.loc # "none" /\ o.op = "read" /\ o.msg = "none" /\ en.state = "KEEPALIVE"
      /\ \A f \in Conns : f # c => f \notin ToSet(obj.alive_list)
      /\ Fitting(o, n, k, en, ta, "in", a, rd, p)
  BY <1>2, KeptConn
<1>6. PICK l \in PlaceSet : NodeGoes(poll, poll', o, c, l) /\ MovesOn(o, l)
                            /\ poll'.batch = poll.batch
  BY <1>1, <1>2, <1>4, Dels
<1>7. PICK xn : xn = InState(en, "CLOSING")
  OBVIOUS
<1>8. InStateOf(en, "CLOSING", xn)
  BY <1>1, <1>2, <1>7, InStateIs DEF EntryStates
<1>9. Fitting(l, n, k, xn, ta, "out", a, rd, p) /\ SameHands(o, l) /\ ~Owes(l, xn)
  BY <1>1, <1>2, <1>4, <1>6, <1>8, DrainsFits DEF Drains
<1>10. obj' = Upd(obj, c, xn, ta, sv, e)
  BY <1>2, <1>7 DEF Drained
<1>11. ToSet(e) = {} /\ e \in Seq(Conns)
  BY EmptyIs
<1>13. /\ ObjStep(c) /\ obj'.entry[c] = xn /\ obj'.target[c] = ta /\ obj'.service = obj.service
       /\ obj'.alive_list = e
       /\ \A f \in Conns : f # c => obj'.target[f] = obj.target[f]
       /\ Alive(c)' = "out"
  <2>1. xn \in EntrySet /\ ta \in TargetSet
    BY <1>1, <1>2, <1>8 DEF InStateOf
  <2>2. \A f \in Conns : f # c => (f \in ToSet(e) <=> f \in ToSet(obj.alive_list))
    BY <1>4, <1>11
  <2>3. /\ ObjStep(c) /\ obj'.entry[c] = xn /\ obj'.target[c] = ta /\ obj'.service = sv
        /\ obj'.alive_list = e
        /\ \A f \in Conns : f # c => obj'.target[f] = obj.target[f]
        /\ Alive(c)' = IF c \in ToSet(e) THEN "in" ELSE "out"
    BY <1>1, <1>2, <1>10, <1>11, <2>1, <2>2, ObjUpd
  <2> QED  BY <1>2, <1>11, <2>3
<1>14. Live(obj') = Live(obj)
  BY <1>2, <1>13 DEF Live
<1>15. PollStep(c) /\ Queued(Results, poll', l, c)
  BY <1>1, <1>2, <1>6, NodeGoesPoll
<1>16. obj'.entry[c].seq = obj.entry[c].seq
  BY <1>2, <1>8, <1>13 DEF InStateOf
<1> QED  BY <1>2, <1>6, <1>9, <1>13, <1>14, <1>15, <1>16

LEMMA DrainKeeps ==
  ASSUME NEW g \in Places, NEW z \in ServicePlaces, Inv(g, z), drain
  PROVE  IInv'
<1>1. /\ Types /\ PollerAt /\ AliveOK /\ Serv(z) /\ obj.alive_list \in Seq(Conns) /\ obj.alive_list # <<>>
      /\ Len(obj.alive_list) <= 1
  BY InvParts, ObjFields DEF drain, AliveOK, Types
<1>2. PICK c \in Conns : c = Head(obj.alive_list) /\ c \in ToSet(obj.alive_list)
  <2>1. Head(obj.alive_list) = obj.alive_list[1] /\ 1 \in DOMAIN obj.alive_list
    BY <1>1
  <2> QED  BY <1>1, <2>1 DEF ToSet
<1>3. PICK e : IsEmpty(e)
  BY EmptyIs
<1>4. Tail(obj.alive_list) = e
  BY <1>1, <1>2, <1>3, ShortList DEF IsEmpty
<1>5. /\ poll' = mpoller_del(poll, c) /\ Drained(c, obj', e)
      /\ UNCHANGED <<pollers, users, worker, flags>>
  <2>1. Drained(c, UseService(CloseAlive(obj, <<c>>, e)), e)
    BY <1>2, <1>3, DrainedIs, EmptyIs
  <2> QED  BY <1>2, <1>4, <2>1 DEF drain
<1>6. PICK l \in PlaceSet :
            /\ PollStep(c) /\ Queued(Results, poll', l, c) /\ poll'.batch = poll.batch
            /\ ObjStep(c) /\ obj'.alive_list = e /\ obj'.service = obj.service
            /\ obj'.entry[c].seq = obj.entry[c].seq /\ Live(obj') = Live(obj)
            /\ Fitting(l, Holding(c), Open(c), obj'.entry[c],
                       obj'.target[c], Alive(c)', At(c), Reads(c), Passive(c))
            /\ SameHands(g[c], l) /\ ~Owes(l, obj'.entry[c])
  BY <1>2, <1>3, <1>5, DrainsConn
<1>7. ReadStep(c) /\ At(c)' = At(c) /\ Reads(c)' = Reads(c)
  BY <1>1, <1>2, <1>5, <1>6, ReadSame DEF KeepsRead
<1>8. AliveOK'
  BY <1>3, <1>5, <1>6, EmptyIs DEF AliveOK, IsEmpty
<1>9. ServiceFits(z, obj'.service, Cardinality(Live(obj')))
  BY <1>1, <1>6 DEF Serv
<1>10. UNCHANGED <<users, worker, flags>>
  BY <1>5
<1> QED  BY <1>6, <1>7, <1>8, <1>9, <1>10, QuietStep

\* Nothing is closed.
LEMMA CloseNone ==
  ASSUME NEW o \in ObjSet, ~o.bad, NEW q, q = <<>>, o.alive_list = q
  PROVE  CloseAlive(o, q, <<>>) = o
<1>1. /\ o.entry \in [Conns -> EntrySet] /\ o.bad \in BOOLEAN
      /\ o = Whole(o)
  BY ObjFields
<1>2. ToSet(q) = {}
  BY ListSets
<1>3. PICK F, B :
        /\ F = [d \in Conns |-> IF d \in ToSet(q) THEN [o.entry[d] EXCEPT !.state = "CLOSING"]
                                ELSE o.entry[d]]
        /\ B = (o.bad \/ \E d \in ToSet(q) : o.entry[d].state \in {"NONE", "FREED"})
  OBVIOUS
<1>4. F = o.entry /\ B = o.bad
  BY <1>1, <1>2, <1>3
<1>5. CloseAlive(o, q, <<>>) = [o EXCEPT !.alive_list = q, !.bad = B, !.entry = F]
  BY <1>3 DEF CloseAlive
<1>6. [o EXCEPT !.alive_list = o.alive_list, !.bad = o.bad, !.entry = o.entry] = o
  <2>1. [o EXCEPT !.alive_list = o.alive_list, !.bad = o.bad] = o
    BY <1>1
  <2>2. [o EXCEPT !.entry = o.entry] = o
    BY <1>1
  <2> QED  BY <2>1, <2>2
<1> QED  BY <1>4, <1>5, <1>6

\* A thread steps with the service and with the connection c.
LEMMA ServiceConnKeeps ==
  ASSUME NEW g \in Places, NEW z \in ServicePlaces, Inv(g, z),
         NEW w, NEW v, ServiceWork(w, v), NEW c \in Conns, NEW l \in PlaceSet,
         PollStep(c), Queued(Results, poll', l, c), poll'.batch = poll.batch,
         UNCHANGED <<pollers, users, flags>>, ObjStep(c), AliveOK',
         obj'.entry[c].seq = obj.entry[c].seq,
         Fitting(l, Holding(c), Open(c), obj'.entry[c],
                 obj'.target[c], Alive(c)', At(c), Reads(c), Passive(c)),
         SameHands(g[c], l), ~Owes(l, obj'.entry[c]),
         NEW y \in ServicePlaces, Serv(y)'
  PROVE  IInv'
<1>1. /\ Types /\ PollerAt /\ worker \in [Workers -> WorkerSet] /\ Held(worker, g[c], c)
      /\ LastAtHand(c) /\ \A s \in Sessions : s[1] = c => Sess(g[c], s)
  BY ConnIs, InvParts DEF Types
<1>2. /\ w \in Workers /\ v \in WorkerSet /\ WorksOn(w, v)
      /\ worker[w].pc \notin OfConn \cup {"accepted"} /\ v.pc \notin OfConn \cup {"accepted"}
  BY DEF ServiceWork
<1>3. worker'[w] = v /\ \A u \in Workers : u # w => worker'[u] = worker[u]
  BY <1>1, <1>2 DEF WorksOn
<1>4. Results' = Results
  BY SameResults DEF flags, ServiceWork
<1>5. \A f \in Conns : f # c => KeepsQueued(f)
  BY <1>4, Constants DEF KeepsQueued, PollStep, Queued, Leaves
<1>6. \A f \in Conns : KeepsWork(f)
  <2>1. \A f : ~About(worker[w], f) /\ ~About(v, f)
    BY <1>2 DEF About
  <2> QED  BY <1>3, <2>1 DEF KeepsWork
<1>7. (\A f \in Conns : KeepsRead(f)) /\ ReadStep(c)
  BY <1>1, ReadSame
<1>8. (\A f \in Conns : KeepsSession(f)) /\ SessStep(c) /\ session' = session /\ user' = user
  BY <1>1, UsersSame
<1>9. Types'
  <2>1. worker' \in [Workers -> WorkerSet]
    BY <1>1, <1>2 DEF WorksOn
  <2> QED  BY <1>1, <1>4, <1>7, <1>8, <2>1 DEF Types, ReadStep, SessStep, flags, PollStep, ObjStep
<1>10. Global'
  BY <1>7, <1>9 DEF Global, ReadStep, ObjStep
<1>11. Others(c)
  BY <1>5, <1>6, <1>7, <1>8 DEF Others, Apart, ObjStep
<1>12. Conn(l, c)'
  <2>1. Held(worker', l, c)
    <3>1. HandsGo(worker[w], v, c, g[c], l)
      BY <1>2, HandsStay DEF OfConn
    <3> QED  BY <1>1, <1>2, <3>1, HandsMove
  <2>2. Fits(l, c)'
    <3>1. Refs(worker', c) = Refs(worker, c)
      <4>1. ~HasRef(worker[w], c) /\ ~HasRef(v, c)
        BY <1>2 DEF HasRef, OfConn
      <4> QED  BY <1>3, <4>1, RefsKept
    <3>2. Holders(worker', user', c) = Holding(c)
      BY <1>8, <3>1 DEF Holders
    <3>3. Undeleted(c)' = Undeleted(c) /\ Passive(c)' = Passive(c)
      BY <1>8 DEF Undeleted, Passive, LastSession
    <3> QED  BY <1>7, <3>2, <3>3 DEF Fits, KeepsRead
  <2>3. LastAtHand(c)'
    <3>1. LastSession(c)' = LastSession(c)
      BY DEF LastSession
    <3>2. \A p \in {"request", "replied"} : ~AtHand(v, p, c)
      BY <1>2 DEF AtHand, OfConn
    <3> QED  BY <1>1, <1>3, <3>1, <3>2 DEF LastAtHand
  <2>4. ASSUME NEW s \in Sessions, s[1] = c PROVE Sess(l, s)'
    <3>1. ~Owed(l, s)'
      BY <2>4 DEF Owed
    <3>2. ~SpeaksFor(v, s)
      BY <1>2 DEF SpeaksFor, Speaking, OfConn
    <3> QED  BY <1>1, <1>2, <1>8, <2>4, <3>1, <3>2, SessUnspoken
  <2> QED  BY <1>4, <2>1, <2>2, <2>3, <2>4 DEF Conn
<1> QED  BY <1>10, <1>11, <1>12, StepKeeps

LEMMA DrainAllKeeps ==
  ASSUME NEW g \in Places, NEW z \in ServicePlaces, Inv(g, z), NEW w \in Workers,
         drain_all(w)
  PROVE  IInv'
<1>1. /\ worker \in [Workers -> WorkerSet] /\ worker[w].pc = "drain" /\ AliveOK /\ Types
      /\ Serv(z) /\ obj \in ObjSet /\ ~obj.bad /\ obj.alive_list \in Seq(Conns)
      /\ Len(obj.alive_list) <= 1 /\ poll \in Group(Results)
  BY InvParts, ObjFields DEF Types, drain_all, AliveOK
<1>2. z.own = 1
  BY <1>1, ClosingIs DEF IsClosing, Closing
<1>3. PICK v : /\ WorksOn(w, v) /\ GoneOn(worker[w], v, "decref") /\ v.s = worker[w].s
               /\ v.st = worker[w].st /\ v = [worker[w] EXCEPT !.pc = "decref"]
  BY <1>1, GoesOn DEF drain_all
<1>4. v \in WorkerSet /\ v.pc = "decref"
  <2>1. worker[w] \in WorkerSet
    BY <1>1
  <2> QED  BY <1>1, <1>3, <2>1 DEF GoneOn, WorkerSet, OfConn, Speaking, Closing
<1>5. worker'[w] = v /\ \A u \in Workers : u # w => worker'[u] = worker[u]
  BY <1>1, <1>3 DEF WorksOn
<1>6. worker'[Main].pc = "unbound" <=> worker[Main].pc = "unbound"
  BY <1>1, <1>4, <1>5, Constants
<1>7. ServiceWork(w, v)
  BY <1>1, <1>3, <1>4, <1>6 DEF ServiceWork, OfConn
<1>8. UNCHANGED <<pollers, users, flags>> /\ Results' = Results
  BY <1>7, SameResults DEF drain_all, flags, ServiceWork
<1>9. ASSUME NodeAt(Results, poll', listen_fd, z.loc, "listen"), obj'.service = obj.service,
             Live(obj') = Live(obj)
      PROVE  Serv(z)'
  <2>1. \A u \in Workers : /\ IsStopped(worker'[u]) <=> IsStopped(worker[u])
                           /\ IsClosing(worker'[u]) <=> IsClosing(worker[u])
    BY <1>1, <1>4, <1>5 DEF IsStopped, IsClosing, Closing
  <2>2. ServiceNode(Results', poll', worker', z)
    BY <1>1, <1>8, <1>9, <2>1 DEF ServiceNode, Serv
  <2>3. MainFits(z, worker'[Main].pc)
    BY <1>1, <1>4, <1>5, Constants DEF MainFits, Serv, Closing
  <2> QED  BY <1>1, <1>9, <2>2, <2>3 DEF Serv
<1>10. CASE obj.alive_list = <<>>
  <2>1. poll' = poll
    BY <1>10, FoldNone DEF drain_all
  <2>2. obj' = obj
    <3>1. CloseAlive(obj, obj.alive_list, <<>>) = obj
      BY <1>1, <1>10, CloseNone
    <3>2. UseService(obj) = obj
      BY <1>2, ServiceUsable
    <3> QED  BY <3>1, <3>2 DEF drain_all
  <2>3. \A f \in Conns : KeepsObj(f)
    BY <1>1, <2>2, ObjSame
  <2>4. AliveOK'
    BY <1>1, <1>10, <2>2 DEF AliveOK
  <2>5. Serv(z)'
    BY <1>1, <1>9, <2>1, <2>2 DEF Serv, ServiceNode
  <2> QED  BY <1>1, <1>7, <1>8, <2>1, <2>2, <2>3, <2>4, <2>5, ServiceWorkKeeps
<1>11. CASE obj.alive_list # <<>>
  <2>1. PICK c \in Conns : c \in ToSet(obj.alive_list)
    <3>1. obj.alive_list[1] \in Conns /\ 1 \in DOMAIN obj.alive_list
      BY <1>1, <1>11
    <3> QED  BY <3>1 DEF ToSet
  <2>2. obj.alive_list = <<c>>
    BY <1>1, <2>1, ShortList
  <2>3. PICK e : IsEmpty(e)
    BY EmptyIs
  <2>4. poll' = mpoller_del(poll, c)
    BY <2>2, FoldOne DEF drain_all
  <2>5. Drained(c, obj', e)
    <3>1. Drained(c, UseService(CloseAlive(obj, <<c>>, e)), e)
      BY <2>1, <2>3, DrainedIs, EmptyIs
    <3> QED  BY <2>2, <2>3, <3>1 DEF drain_all, IsEmpty
  <2>6. PICK l \in PlaceSet :
            /\ PollStep(c) /\ Queued(Results, poll', l, c) /\ poll'.batch = poll.batch
            /\ ObjStep(c) /\ obj'.alive_list = e /\ obj'.service = obj.service
            /\ obj'.entry[c].seq = obj.entry[c].seq /\ Live(obj') = Live(obj)
            /\ Fitting(l, Holding(c), Open(c), obj'.entry[c],
                       obj'.target[c], Alive(c)', At(c), Reads(c), Passive(c))
            /\ SameHands(g[c], l) /\ ~Owes(l, obj'.entry[c])
    BY <2>1, <2>3, <2>4, <2>5, DrainsConn
  <2>7. AliveOK'
    BY <2>3, <2>6, EmptyIs DEF AliveOK, IsEmpty
  <2>8. Serv(z)'
    <3>1. NodeAt(Results, poll', listen_fd, z.loc, "listen")
      BY <1>1, <2>6, Constants DEF Serv, ServiceNode, PollStep, Leaves
    <3> QED  BY <1>9, <2>6, <3>1
  <2> QED  BY <1>7, <1>8, <2>1, <2>6, <2>7, <2>8, ServiceConnKeeps
<1> QED  BY <1>10, <1>11

----
(* unbind and deinit: there may be other results than before. *)

LEMMA SlotChange ==
  ASSUME NEW q, NEW R, NEW Q, \A k \in DOMAIN q : q[k] \in R /\ q[k] \in Q,
         NEW S, NEW U, \A r \in R : r \in Q => (r \in S <=> r \in U),
         NEW T, NEW V, \A r \in R : r \in Q => (r \in T <=> r \in V),
         NEW place, NEW here, Slot(q, S, T, place, here)
  PROVE  Slot(q, U, V, place, here)
BY DEF Slot, Only, None

LEMMA ResultsChange ==
  ASSUME NEW R, NEW Q, NEW x \in Group(R), AllIn(x, Q)
  PROVE  /\ x \in Group(Q)
         /\ \A e \in Fds : \A loc, op : NodeAt(R, x, e, loc, op) => NodeAt(Q, x, e, loc, op)
         /\ \A l : \A c \in Conns : Queued(R, x, l, c) => Queued(Q, x, l, c)
<1>1. /\ x.table \in [Fds -> Ops \cup {"none"}] /\ x.pipe \in [Pollers -> Seq(R)]
      /\ x.batch \in [Pollers -> SUBSET [fd : Fds, op : Ops]]
      /\ x.has_pipe \in [Pollers -> BOOLEAN]
      /\ x.queue \in Seq(R) /\ \A i \in Pollers : PollerOK(R, x, i)
      /\ x = [table |-> x.table, pipe |-> x.pipe, batch |-> x.batch,
              has_pipe |-> x.has_pipe, queue |-> x.queue]
  BY GroupFields
<1>2. x.queue \in Seq(Q)
  BY <1>1, ElementOfSeq, SeqDef DEF AllIn
<1>3. \A i \in Pollers : x.pipe[i] \in Seq(R) /\ x.pipe[i] \in Seq(Q)
  BY <1>1, ElementOfSeq, SeqDef DEF AllIn
<1>4. ASSUME NEW i \in Pollers PROVE PollerOK(Q, x, i)
  <2>1. x.pipe[i] \in Seq(Routed(R, i))
    BY <1>1 DEF PollerOK
  <2>2. \A k \in DOMAIN x.pipe[i] : x.pipe[i][k] \in Routed(R, i)
    BY <2>1
  <2>3. \A k \in DOMAIN x.pipe[i] : x.pipe[i][k] \in Routed(Q, i)
    BY <2>2 DEF AllIn, Routed
  <2>4. x.pipe[i] \in Seq(Routed(Q, i))
    BY <2>1, <2>3, SeqDef
  <2> QED  BY <1>1, <2>4 DEF PollerOK
<1>5. x \in Group(Q)
  <2>1. x.pipe \in [Pollers -> Seq(Q)]
    BY <1>1, <1>3
  <2> QED  BY <1>1, <1>2, <1>4, <2>1 DEF Group
<1>6. ASSUME NEW e \in Fds, NEW loc, NEW op, NodeAt(R, x, e, loc, op) PROVE NodeAt(Q, x, e, loc, op)
  <2>1. /\ \A r \in R : r \in Q => (r \in EndsOf(R, e) <=> r \in EndsOf(Q, e))
        /\ \A r \in R : r \in Q => (r \in OpIs(R, op) <=> r \in OpIs(Q, op))
    BY DEF EndsOf, OpIs
  <2>2. Index(e) \in Pollers
    BY IndexIsPoller
  <2>3. \A k \in DOMAIN x.queue : x.queue[k] \in R /\ x.queue[k] \in Q
    BY <1>1 DEF AllIn
  <2>4. \A k \in DOMAIN x.pipe[Index(e)] : x.pipe[Index(e)][k] \in R /\ x.pipe[Index(e)][k] \in Q
    BY <1>3, <2>2 DEF AllIn
  <2>5. Slot(x.queue, EndsOf(Q, e), OpIs(Q, op), loc, "queue")
    BY <1>6, <2>1, <2>3, SlotChange DEF NodeAt
  <2>6. Slot(x.pipe[Index(e)], EndsOf(Q, e), OpIs(Q, op), loc, "pipe")
    <3>1. PICK q : q = x.pipe[Index(e)]
      OBVIOUS
    <3>2. Slot(q, EndsOf(R, e), OpIs(R, op), loc, "pipe")
      BY <1>6, <3>1 DEF NodeAt
    <3>3. \A k \in DOMAIN q : q[k] \in R /\ q[k] \in Q
      BY <2>4, <3>1
    <3>4. PICK S, U, T, V : /\ S = EndsOf(R, e) /\ U = EndsOf(Q, e)
                            /\ T = OpIs(R, op) /\ V = OpIs(Q, op)
      OBVIOUS
    <3>5. Slot(q, U, V, loc, "pipe")
      BY <2>1, <3>2, <3>3, <3>4 DEF Slot, Only, None
    <3> QED  BY <3>1, <3>4, <3>5
  <2> QED  BY <1>6, <2>5, <2>6 DEF NodeAt
<1>7. ASSUME NEW l, NEW c \in Conns, Queued(R, x, l, c) PROVE Queued(Q, x, l, c)
  <2>1. /\ \A r \in R : r \in Q => (r \in MsgsOf(R, c) <=> r \in MsgsOf(Q, c))
        /\ \A r \in R : r \in Q => (r \in AccsOf(R, c) <=> r \in AccsOf(Q, c))
        /\ \A r \in R : r \in Q => (r \in R <=> r \in Q)
    BY DEF MsgsOf, AccsOf
  <2>2. \A k \in DOMAIN x.queue : x.queue[k] \in R /\ x.queue[k] \in Q
    BY <1>1 DEF AllIn
  <2>3. Slot(x.queue, MsgsOf(Q, c), Q, l.msg, "queue")
    BY <1>7, <2>1, <2>2, SlotChange DEF Queued
  <2>4. Slot(x.queue, AccsOf(Q, c), Q, l.acc, "queue")
    BY <1>7, <2>1, <2>2, SlotChange DEF Queued
  <2>5. NodeAt(Q, x, c, l.loc, l.op)
    BY <1>6, <1>7, Constants DEF Queued
  <2> QED  BY <2>3, <2>4, <2>5 DEF Queued
<1> QED  BY <1>5, <1>6, <1>7

LEMMA DeinitKeeps ==
  ASSUME NEW g \in Places, NEW z \in ServicePlaces, Inv(g, z), deinit
  PROVE  IInv'
<1>1. Types /\ PollerAt /\ AliveOK /\ Serv(z) /\ ~obj.bad /\ poll \in Group(Results)
  BY InvParts DEF Types
<1>2. /\ stop_flag' = TRUE
      /\ poll' = poll /\ obj' = obj /\ worker' = worker /\ stray' = stray
      /\ at' = at /\ reading' = reading /\ mutex' = mutex /\ session' = session /\ user' = user
  BY DEF deinit, pollers, users
<1>3. Results \subseteq Results'
  BY <1>2 DEF Results, ResultsOf
<1>4. AllIn(poll, Results')
  <2>1. poll.queue \in Seq(Results) /\ \A i \in Pollers : poll.pipe[i] \in Seq(Results)
    BY <1>1, GroupFields
  <2>2. \A k \in DOMAIN poll.queue : poll.queue[k] \in Results
    BY <2>1
  <2>3. \A i \in Pollers : \A k \in DOMAIN poll.pipe[i] : poll.pipe[i][k] \in Results
    BY <2>1
  <2> QED  BY <1>3, <2>2, <2>3 DEF AllIn
<1>5. /\ poll \in Group(Results')
      /\ \A e \in Fds : \A loc, op :
            NodeAt(Results, poll, e, loc, op) => NodeAt(Results', poll, e, loc, op)
      /\ \A l : \A c \in Conns : Queued(Results, poll, l, c) => Queued(Results', poll, l, c)
  BY <1>1, <1>4, ResultsChange
<1>6. Global'
  <2>1. Types'
    BY <1>1, <1>2, <1>5 DEF Types
  <2> QED  BY <1>1, <1>2, <2>1 DEF Global, PollerAt, AliveOK
<1>7. Serv(z)'
  BY <1>1, <1>2, <1>5, Constants DEF Serv, ServiceNode
<1>8. \A f \in Conns : Apart(f)
  BY <1>2, <1>5 DEF Apart, KeepsQueued, KeepsWork, KeepsObj, KeepsRead, KeepsSession, At, Alive, Reads
<1> QED  BY <1>6, <1>7, <1>8, NoConnKeeps

\* The queue and the pipes hold no end of the listening socket: what they hold
\* may be there after unbind too.
LEMMA UnboundResults ==
  ASSUME NEW x \in Group(Results), NEW z, z = "table",
         NodeAt(Results, x, listen_fd, z, "listen"), stop_flag' = stop_flag
  PROVE  AllIn(x, Results')
<1>1. /\ None(x.queue, EndsOf(Results, listen_fd))
      /\ None(x.pipe[Index(listen_fd)], EndsOf(Results, listen_fd))
  BY DEF NodeAt, Slot
<1>2. Pollers = {0} /\ Index(listen_fd) = 0 /\ Index(listen_fd) \in Pollers
  BY Constants, IndexIsPoller
<1>3. x.queue \in Seq(Results) /\ \A i \in Pollers : x.pipe[i] \in Seq(Results)
  BY GroupFields
<1>4. ASSUME NEW r \in Results, r \notin EndsOf(Results, listen_fd) PROVE r \in Results'
  BY <1>4 DEF Results, ResultsOf, EndsOf, ListenEnd, Ends
<1>5. \A k \in DOMAIN x.queue : x.queue[k] \in Results'
  BY <1>1, <1>3, <1>4 DEF None
<1>6. ASSUME NEW i \in Pollers, NEW k \in DOMAIN x.pipe[i] PROVE x.pipe[i][k] \in Results'
  <2>1. i = Index(listen_fd)
    BY <1>2
  <2> QED  BY <1>1, <1>3, <1>4, <1>6, <2>1 DEF None
<1> QED  BY <1>5, <1>6 DEF AllIn

\* Main steps with the service, and only the node of the listening socket moves.
LEMMA UnbindFrame ==
  ASSUME NEW g \in Places, NEW z \in ServicePlaces, Inv(g, z),
         UNCHANGED <<pollers, obj, users, flags>>, AllIn(poll, Results'),
         worker[Main].pc = "off", NEW v \in WorkerSet, v.pc = "unbound",
         WorksOn(Main, v), Steady(Results', poll, poll'), SameMessages(Results', poll, poll'),
         \A f \in Fds : f # listen_fd => Leaves(Results', poll, poll', f),
         NEW y \in ServicePlaces, Serv(y)'
  PROVE  IInv'
<1>1. Types /\ PollerAt /\ AliveOK /\ ~obj.bad /\ poll \in Group(Results)
      /\ worker \in [Workers -> WorkerSet]
  BY InvParts DEF Types
<1>2. /\ stop_flag' = stop_flag /\ obj' = obj /\ stray' = stray
      /\ at' = at /\ reading' = reading /\ mutex' = mutex /\ session' = session /\ user' = user
  BY DEF pollers, users, flags
<1>3. worker'[Main] = v /\ \A u \in Workers : u # Main => worker'[u] = worker[u]
  BY <1>1, Constants DEF WorksOn
<1>4. \A l : \A c \in Conns : Queued(Results, poll, l, c) => Queued(Results', poll, l, c)
  BY <1>1, ResultsChange
<1>5. ASSUME NEW f \in Conns PROVE KeepsQueued(f)
  <2>1. ASSUME NEW l, Queued(Results, poll, l, f) PROVE Queued(Results', poll', l, f)
    <3>1. Queued(Results', poll, l, f)
      BY <1>4, <1>5, <2>1
    <3>2. NodeAt(Results', poll', f, l.loc, l.op)
      BY <1>5, <3>1, Constants DEF Queued, Leaves
    <3>3. /\ MsgsOf(Results', f) \in SUBSET Messages(Results')
          /\ AccsOf(Results', f) \in SUBSET Messages(Results')
      BY MessagesOfConn
    <3> QED  BY <3>1, <3>2, <3>3 DEF Queued, SameMessages
  <2> QED  BY <2>1 DEF KeepsQueued
<1>6. Global'
  <2>1. Types'
    <3>1. worker' \in [Workers -> WorkerSet]
      BY <1>1 DEF WorksOn
    <3> QED  BY <1>1, <1>2, <3>1 DEF Types, Steady
  <2>2. PollerAt'
    BY <1>1, <1>2 DEF PollerAt, Ready, Steady
  <2>3. AliveOK'
    <3>1. \A u \in Workers : worker'[u].pc = "drain" <=> worker[u].pc = "drain"
      BY <1>3
    <3> QED  BY <1>1, <1>2, <3>1 DEF AliveOK
  <2> QED  BY <1>1, <1>2, <2>1, <2>2, <2>3 DEF Global
<1>7. ASSUME NEW f \in Conns PROVE KeepsWork(f)
  <2>1. ~About(worker[Main], f) /\ ~About(v, f)
    BY DEF About, OfConn
  <2> QED  BY <1>3, <2>1 DEF KeepsWork
<1>8. \A f \in Conns : Apart(f)
  BY <1>2, <1>5, <1>7 DEF Apart, KeepsObj, KeepsRead, KeepsSession, At, Alive, Reads
<1> QED  BY <1>6, <1>8, NoConnKeeps

LEMMA UnbindKeeps ==
  ASSUME NEW g \in Places, NEW z \in ServicePlaces, Inv(g, z), unbind
  PROVE  IInv'
<1>1. /\ Types /\ Serv(z) /\ obj.service \in ServiceSet /\ poll \in Group(Results)
      /\ worker \in [Workers -> WorkerSet] /\ worker[Main].pc = "off"
      /\ NodeAt(Results, poll, listen_fd, z.loc, "listen")
  BY InvParts, ObjFields DEF Types, unbind, Serv, ServiceNode
<1>2. /\ UNCHANGED <<pollers, obj, users, flags>> /\ poll' = mpoller_del(poll, listen_fd)
      /\ obj' = obj /\ stop_flag' = stop_flag
  BY DEF unbind, flags
<1>3. PICK pc : /\ pc = IF Registered(poll, listen_fd) THEN "unbound" ELSE "shutdown"
                /\ Work(Main, pc)
  BY DEF unbind
<1>4. PICK v : /\ WorksOn(Main, v) /\ GoneOn(worker[Main], v, pc) /\ v.s = worker[Main].s
               /\ v.st = worker[Main].st /\ v = [worker[Main] EXCEPT !.pc = pc]
  BY <1>1, <1>3, GoesOn, Constants
<1>5. v \in WorkerSet /\ v.pc = pc /\ pc \in {"unbound", "shutdown"}
  <2>1. worker[Main] \in WorkerSet
    BY <1>1, Constants
  <2> QED  BY <1>1, <1>3, <1>4, <2>1 DEF GoneOn, WorkerSet, OfConn, Speaking, Closing
<1>6. worker'[Main] = v /\ \A u \in Workers : u # Main => worker'[u] = worker[u]
  BY <1>1, <1>4, Constants DEF WorksOn
<1>7. CASE Registered(poll, listen_fd)
  <2>1. z.loc = "table" /\ poll.table[listen_fd] = "listen" /\ pc = "unbound"
    BY <1>3, <1>7, TableIsBound
  <2>2. AllIn(poll, Results')
    BY <1>1, <1>2, <2>1, UnboundResults
  <2>3. poll \in Group(Results') /\ NodeAt(Results', poll, listen_fd, "table", "listen")
    BY <1>1, <2>1, <2>2, ResultsChange, Constants
  <2>4. Result(listen_fd, "listen", "DELETED", NONE) \in Results'
    BY <1>5, <1>6, <2>1, Constants DEF Results, ResultsOf, ListenEnd, Result, Ends
  <2>5. /\ Steady(Results', poll, poll')
        /\ \A f \in Fds : f # listen_fd => Leaves(Results', poll, poll', f)
        /\ SameMessages(Results', poll, poll')
        /\ NodeAt(Results', poll', listen_fd, "pipe", "listen")
    BY <1>2, <2>1, <2>3, <2>4, DelNode, Constants DEF Ops
  <2>6. PICK y : y = [z EXCEPT !.loc = "pipe"]
    OBVIOUS
  <2>7. y \in ServicePlaces /\ y.loc = "pipe" /\ y.own = z.own
    BY <2>6 DEF ServicePlaces
  <2>8. Serv(y)'
    <3>1. \A u \in Workers : /\ IsStopped(worker'[u]) <=> IsStopped(worker[u])
                             /\ IsClosing(worker'[u]) <=> IsClosing(worker[u])
      BY <1>1, <1>5, <1>6, <2>1 DEF IsStopped, IsClosing, Closing
    <3>2. ServiceNode(Results', poll', worker', y)
      <4>1. ServiceNode(Results, poll, worker, z)
        BY <1>1 DEF Serv
      <4> QED  BY <2>1, <2>5, <2>7, <3>1, <4>1 DEF ServiceNode
    <3>3. MainFits(y, worker'[Main].pc)
      BY <1>1, <1>5, <1>6, <2>1, <2>7 DEF MainFits, Serv
    <3>4. ServiceFits(y, obj'.service, Cardinality(Live(obj')))
      BY <1>1, <1>2, <2>7 DEF Serv, ServiceFits
    <3> QED  BY <3>2, <3>3, <3>4 DEF Serv
  <2> QED  BY <1>1, <1>2, <1>4, <1>5, <2>1, <2>2, <2>5, <2>7, <2>8, UnbindFrame
<1>8. CASE ~Registered(poll, listen_fd)
  <2>1. pc = "shutdown" /\ poll' = poll
    BY <1>2, <1>3, <1>8 DEF mpoller_del
  <2>2. ServiceWork(Main, v) /\ Results' = Results
    <3>1. ServiceWork(Main, v)
      BY <1>1, <1>4, <1>5, <1>6, <2>1, Constants DEF ServiceWork, OfConn
    <3> QED  BY <1>2, <3>1, SameResults DEF ServiceWork
  <2>3. (\A f \in Conns : KeepsObj(f)) /\ AliveOK /\ obj \in ObjSet /\ ~obj.bad
    BY <1>1, <1>2, ObjSame, InvParts DEF Types
  <2>4. AliveOK'
    <3>1. \A u \in Workers : worker'[u].pc = "drain" <=> worker[u].pc = "drain"
      BY <1>1, <1>5, <1>6, <2>1
    <3> QED  BY <1>2, <2>3, <3>1 DEF AliveOK
  <2>5. Serv(z)'
    <3>1. \A u \in Workers : /\ IsStopped(worker'[u]) <=> IsStopped(worker[u])
                             /\ u # Main => (IsClosing(worker'[u]) <=> IsClosing(worker[u]))
      BY <1>1, <1>5, <1>6, <2>1 DEF IsStopped, IsClosing, Closing
    <3>2. ServiceNode(Results', poll', worker', z)
      <4>1. ServiceNode(Results, poll, worker, z)
        BY <1>1 DEF Serv
      <4> QED  BY <1>1, <2>1, <2>2, <3>1, <4>1 DEF ServiceNode
    <3>3. z.loc # "table"
      BY <1>1, <1>8 DEF NodeAt, Registered
    <3>4. MainFits(z, worker'[Main].pc)
      BY <1>1, <1>5, <1>6, <2>1, <3>3 DEF MainFits, Serv, Closing
    <3> QED  BY <1>1, <1>2, <3>2, <3>4 DEF Serv
  <2> QED  BY <1>2, <2>1, <2>2, <2>3, <2>4, <2>5, ServiceWorkKeeps
<1> QED  BY <1>7, <1>8

----
(* The handlers of what ends, or of what was told. *)

LEMMA ContinuesIs ==
  ASSUME worker \in [Workers -> WorkerSet], NEW c \in Conns, NEW w, NEW v, Continues(w, v, c), NEW u
  PROVE  /\ PlainWork(w, v, c)
         /\ HoldsRef(v) /\ ~HoldsRef(worker[w])
               => OneMore(Holders(worker', u, c), Holders(worker, u, c))
         /\ ~HoldsRef(v) /\ HoldsRef(worker[w])
               => OneMore(Holders(worker, u, c), Holders(worker', u, c))
         /\ (HoldsRef(v) <=> HoldsRef(worker[w]))
               => Holders(worker', u, c) = Holders(worker, u, c)
<1>1. /\ w \in Workers /\ worker[w].pc \in OfConn /\ worker[w].res.fd = c
      /\ v \in WorkerSet /\ worker' = [worker EXCEPT ![w] = v]
      /\ v.pc \in OfConn => v.res.fd = c
      /\ v.pc = "get" \/ v.pc \in OfConn
  BY DEF Continues, WorksOn, Subject, OfConn
<1>2. PlainWork(w, v, c)
  BY <1>1 DEF PlainWork, Plain, OnlyAbout, Subject, OfConn, Closing, WorksOn
<1>3. HasRef(worker[w], c) <=> HoldsRef(worker[w])
  BY <1>1 DEF HasRef, HoldsRef
<1>4. HasRef(v, c) <=> HoldsRef(v)
  BY <1>1 DEF HasRef, HoldsRef, OfConn
<1>5. PICK a, b, d : /\ a = Cardinality(Refs(worker, c)) /\ b = Cardinality(Refs(worker', c))
                     /\ d = Cardinality(UserRefs(u, c))
  OBVIOUS
<1>6. a \in Nat /\ b \in Nat /\ d \in Nat
  BY <1>5, RefsFinite, UserRefsFinite
<1>7. HoldsRef(v) /\ ~HoldsRef(worker[w]) => OneMore(b, a)
  BY <1>1, <1>3, <1>4, <1>5, RefsMore
<1>8. ~HoldsRef(v) /\ HoldsRef(worker[w]) => OneMore(a, b)
  BY <1>1, <1>3, <1>4, <1>5, RefsLess
<1>9. (HoldsRef(v) <=> HoldsRef(worker[w])) => a = b
  <2>1. ASSUME HoldsRef(v) <=> HoldsRef(worker[w]) PROVE Refs(worker', c) = Refs(worker, c)
    <3>1. HasRef(v, c) <=> HasRef(worker[w], c)
      BY <1>3, <1>4, <2>1
    <3>2. \A x \in Workers : HasRef(worker'[x], c) <=> HasRef(worker[x], c)
      BY <1>1, <3>1
    <3> QED  BY <3>2, RefsKept
  <2> QED  BY <1>5, <2>1
<1>10. Holders(worker', u, c) = b + d /\ Holders(worker, u, c) = a + d
  BY <1>5 DEF Holders
<1> QED  BY <1>2, <1>6, <1>7, <1>8, <1>9, <1>10 DEF OneMore

\* The pollers do not change when a thread gives up what it took.
LEMMA PollAway ==
  ASSUME poll \in Group(Results), poll' = poll, NEW c \in Conns, NEW o, NEW l,
         Queued(Results, poll, o, c), Away(o.loc), Away(l.loc),
         l.msg = "queue" <=> o.msg = "queue", l.acc = "queue" <=> o.acc = "queue"
  PROVE  PollStep(c) /\ Queued(Results, poll', l, c) /\ poll'.batch = poll.batch
<1>1. NodeAt(Results, poll, c, l.loc, l.op)
  BY NodeElsewhere DEF Queued, Away
<1>2. Queued(Results, poll', l, c)
  BY <1>1 DEF Queued, Slot
<1>3. PollStep(c)
  BY DEF PollStep, Leaves
<1> QED  BY <1>2, <1>3

\* The token that a handler of c gives up.
LEMMA TokenGone ==
  ASSUME NEW u, NEW v, NEW c, NEW o, NEW l, Subject(u) = c,
         v.pc \notin {"ended", "replied", "request", "accepted"},
         \/ /\ u.pc \in {"ended", "replied"} /\ o.loc = u.pc
            /\ l.loc \notin {"ended", "replied"} /\ l.msg = o.msg
         \/ /\ u.pc = "request" /\ o.msg = "request" /\ l.msg # "request" /\ l.loc = o.loc,
         l.acc = o.acc
  PROVE  HandsGo(u, v, c, o, l)
<1>1. \A p \in {"ended", "replied", "request", "accepted"} : ~AtHand(v, p, c)
  BY DEF AtHand
<1>2. \A p : AtHand(u, p, c) <=> u.pc = p
  BY DEF AtHand
<1> QED  BY <1>1, <1>2 DEF HandsGo, HandGoes

LEMMA EndedFits ==
  ASSUME NEW o, NEW l, NEW n, NEW m, NEW k, NEW en, NEW ta, NEW xa, NEW al, NEW rd, NEW p,
         Ended(o, l, n, m, k, en, ta, xa, al, rd, p)
  PROVE  /\ Fitting(l, m, k, en, xa, "out", "wait", rd, p) /\ ~Owes(l, en)
         /\ o.msg = "none" /\ o.op = "read"
         /\ en.state \in {"RECEIVING", "ERROR"} => Owes(o, en) /\ en.seq # 0
<1>1. /\ o.loc = "ended" /\ Counted(o, n, k, en, ta) /\ StateFits(o, en, ta, p)
      /\ PollFits(o, en, al, "wait", rd, p) /\ n \in Nat /\ m = n + 1
      /\ l.loc = "none" /\ l.op = "read" /\ l.msg = o.msg /\ l.acc = o.acc
      /\ xa.state = ta.state /\ xa.ref = ta.ref /\ xa.idle = FALSE
      /\ en.state # "SUCCESS"
  BY DEF Ended, OneMore, Fitting
<1>2. o.op = "read" /\ o.msg = "none" /\ (en.state \in {"RECEIVING", "ERROR"} => en.seq # 0)
  BY <1>1 DEF StateFits
<1>3. Counted(l, m, k, en, xa)
  BY <1>1, <1>2 DEF Counted, Kept
<1>4. StateFits(l, en, xa, p)
  BY <1>1, <1>2 DEF StateFits
<1>5. PollFits(l, en, "out", "wait", rd, p)
  BY <1>1 DEF PollFits
<1> QED  BY <1>1, <1>2, <1>3, <1>4, <1>5 DEF Fitting, Owes, Watched

LEMMA EndedEarlyFits ==
  ASSUME NEW o, NEW l, NEW n, NEW k, NEW en, NEW xn, NEW ta, NEW al, NEW rd, NEW p,
         EndedEarly(o, l, n, k, en, xn, ta, al, rd, p)
  PROVE  /\ Fitting(l, n, k, xn, ta, al, "wait", rd, p) /\ (Owes(l, xn) => Owes(o, en))
<1>1. /\ o.loc = "ended" /\ Counted(o, n, k, en, ta) /\ StateFits(o, en, ta, p)
      /\ PollFits(o, en, al, "wait", rd, p)
      /\ l.loc = "none" /\ l.op = "read" /\ l.msg = o.msg /\ l.acc = o.acc
      /\ en.state = "SUCCESS"
  BY DEF EndedEarly, Fitting
<1>2. xn.state = "CLOSING" /\ xn.ref = en.ref /\ xn.seq = en.seq
  BY DEF EndedEarly, InStateOf
<1>3. o.op = "read" /\ o.msg # "none" /\ en.seq # 0 /\ ~ta.idle
  BY <1>1 DEF StateFits
<1>4. Counted(l, n, k, xn, ta)
  BY <1>1, <1>2, <1>3 DEF Counted, Kept
<1>5. StateFits(l, xn, ta, p)
  BY <1>1, <1>2, <1>3 DEF StateFits
<1>6. PollFits(l, xn, al, "wait", rd, p)
  BY <1>1, <1>2, <1>3 DEF PollFits
<1> QED  BY <1>1, <1>2, <1>4, <1>5, <1>6 DEF Fitting, Owes, Watched

\* What is known of a connection whose end is at hand.
LEMMA EndedConn ==
  ASSUME NEW g \in Places, NEW z \in ServicePlaces, Inv(g, z), NEW w \in Workers,
         NEW c \in Conns, AtHand(worker[w], "ended", c), NEW l, l = PlacedAt(g[c], "none", "read")
  PROVE  /\ g[c].loc = "ended" /\ At(c) = "wait" /\ Usable(obj, c)
         /\ obj.entry[c].state \notin {"NONE", "FREED"}
         /\ UseEntry(obj, c) = obj /\ UseTarget(obj, c) = obj /\ UseService(obj) = obj
         /\ l \in PlaceSet /\ l.loc = "none" /\ l.op = "read" /\ l.msg = g[c].msg
         /\ l.acc = g[c].acc
<1>1. g[c].loc = "ended" /\ g[c] \in PlaceSet
  BY HandIs, ConnIs
<1>2. At(c) = "wait"
  BY <1>1, NotAt
<1>3. /\ Usable(obj, c) /\ obj.entry[c].state \notin {"NONE", "FREED"}
      /\ UseEntry(obj, c) = obj /\ UseTarget(obj, c) = obj /\ UseService(obj) = obj
  BY <1>1, EntryUsable
<1> QED  BY <1>1, <1>2, <1>3, PlacedFields

\* An ended connection of which there is no session to tell.
LEMMA EndQuiet ==
  ASSUME NEW g \in Places, NEW z \in ServicePlaces, Inv(g, z), NEW c \in Conns,
         NEW w, NEW v, EndsAt(w, v, c), v.pc \in {"get", "unref"},
         NEW xn \in EntrySet, NEW xa \in TargetSet, NEW q,
         q = obj.alive_list \/ (IsEmpty(q) /\ c \in ToSet(obj.alive_list)),
         obj' = Upd(obj, c, xn, xa, obj.service, q),
         xn.seq = obj.entry[c].seq, xa.state = obj.target[c].state,
         NEW l, l = PlacedAt(g[c], "none", "read"),
         Fitting(l, Holders(worker', user, c), Open(c), xn, xa,
                 IF c \in ToSet(q) THEN "in" ELSE "out", "wait", Reads(c), Passive(c)),
         Owes(l, xn) => Owes(g[c], obj.entry[c])
  PROVE  IInv'
<1>1. /\ Types /\ AliveOK /\ ~obj.bad /\ Serv(z) /\ Queued(Results, poll, g[c], c)
      /\ g[c] \in PlaceSet /\ obj \in ObjSet /\ poll \in Group(Results)
      /\ obj.service \in ServiceSet /\ obj.alive_list \in Seq(Conns)
      /\ worker \in [Workers -> WorkerSet]
  BY ConnIs, InvParts
<1>2. w \in Workers /\ AtHand(worker[w], "ended", c) /\ Continues(w, v, c)
      /\ UNCHANGED <<pollers, users, flags>> /\ poll' = poll
  BY DEF EndsAt
<1>3. /\ g[c].loc = "ended" /\ At(c) = "wait"
      /\ l \in PlaceSet /\ l.loc = "none" /\ l.op = "read" /\ l.msg = g[c].msg
      /\ l.acc = g[c].acc
  BY <1>2, EndedConn
<1>4. PICK sv : sv = obj.service
  OBVIOUS
<1>5. q \in Seq(Conns) /\ (q = obj.alive_list \/ q = <<>>)
      /\ \A f \in Conns : f # c => (f \in ToSet(q) <=> f \in ToSet(obj.alive_list))
  <2>1. CASE q = obj.alive_list
    BY <1>1, <2>1
  <2>2. CASE IsEmpty(q) /\ c \in ToSet(obj.alive_list)
    <3>1. \A f \in Conns : f # c => f \notin ToSet(obj.alive_list)
      BY <2>2, KeptConn
    <3> QED  BY <2>2, <3>1, EmptyIs DEF IsEmpty
  <2> QED  BY <2>1, <2>2
<1>6. /\ ObjStep(c) /\ obj'.entry[c] = xn /\ obj'.target[c] = xa /\ obj'.service = sv
      /\ obj'.alive_list = q
      /\ \A f \in Conns : f # c => obj'.target[f] = obj.target[f]
      /\ Alive(c)' = IF c \in ToSet(q) THEN "in" ELSE "out"
  BY <1>1, <1>4, <1>5, ObjUpd
<1>7. Live(obj') = Live(obj)
  BY <1>6 DEF Live
<1>8. ServiceFits(z, obj'.service, Cardinality(Live(obj')))
  BY <1>1, <1>4, <1>6, <1>7 DEF Serv
<1>9. ListStep
  BY <1>4, <1>5, <1>6 DEF ListStep
<1>10. PollStep(c) /\ Queued(Results, poll', l, c) /\ poll'.batch = poll.batch
  BY <1>1, <1>2, <1>3, PollAway DEF Away
<1>11. PlainWork(w, v, c)
  BY <1>1, <1>2, ContinuesIs
<1>12. HandsGo(worker[w], v, c, g[c], l)
  BY <1>2, <1>3, TokenGone DEF AtHand
<1>13. v.pc \notin Speaking
  BY DEF Speaking
<1>14. Fitting(l, Holders(worker', user, c), Open(c), obj'.entry[c],
               obj'.target[c], Alive(c)', At(c), Reads(c), Passive(c))
  BY <1>3, <1>6
<1>15. obj'.entry[c].seq = obj.entry[c].seq
       /\ (Owes(l, obj'.entry[c]) => Owes(g[c], obj.entry[c]))
  BY <1>6
<1> QED  BY <1>2, <1>3, <1>6, <1>8, <1>9, <1>10, <1>11, <1>12, <1>13, <1>14, <1>15, WorkerQuiet

LEMMA TurnsIs ==
  ASSUME Types, NEW c \in Conns, NEW s, NEW se, SessionTurns(s, se), s[1] = c,
         mutex' = mutex, user' \in [Sessions -> UserPcs],
         \A t \in Sessions : t # s => user'[t] = user[t]
  PROVE  /\ SessStep(c) /\ session'[s] = se /\ Undeleted(c)' = Undeleted(c)
         /\ \A t \in Sessions : t # s => session'[t] = session[t]
<1>1. session \in [Sessions -> SessionSet] /\ s \in Sessions /\ se \in SessionSet
      /\ session' = [session EXCEPT ![s] = se]
  BY DEF Types, SessionTurns
<1>2. /\ session' \in [Sessions -> SessionSet] /\ session'[s] = se
      /\ \A t \in Sessions : t # s => session'[t] = session[t]
  BY <1>1, SessionPut
<1>3. SessStep(c)
  BY <1>1, <1>2 DEF SessStep, Types, KeepsSession
<1>4. \A t \in Sessions : session'[t].passive \in 1 .. 3 <=> session[t].passive \in 1 .. 3
  BY <1>2 DEF SessionTurns
<1> QED  BY <1>2, <1>3, <1>4 DEF Undeleted

\* A thread steps with c and goes on to speak for its last session.
LEMMA WorkerSpeaks ==
  ASSUME NEW g \in Places, NEW z \in ServicePlaces, Inv(g, z),
         NEW c \in Conns, NEW l \in PlaceSet, NEW w, NEW v, PlainWork(w, v, c),
         PollStep(c), poll'.batch = poll.batch, UNCHANGED <<pollers, mutex, user, flags>>,
         ObjStep(c), AliveOK', ServiceFits(z, obj'.service, Cardinality(Live(obj'))),
         Queued(Results, poll', l, c), HandsGo(worker[w], v, c, g[c], l),
         obj'.entry[c].seq = obj.entry[c].seq, obj.entry[c].seq # 0,
         v.pc = "handle", NEW s, s = LastSession(c), v.s = s,
         NEW se, SessionTurns(s, se), Speaker(v, se, user[s]), Phases(se, user[s]),
         Fitting(l, Holders(worker', user, c), Open(c), obj'.entry[c],
                 obj'.target[c], Alive(c)', At(c), Reads(c), se.passive),
         ~Owes(l, obj'.entry[c]),
         Owes(g[c], obj.entry[c]) \/ SpeaksFor(worker[w], s)
  PROVE  IInv'
<1>1. /\ Types /\ worker \in [Workers -> WorkerSet] /\ obj.entry[c] \in EntrySet
      /\ \A t \in Sessions : t[1] = c => Sess(g[c], t)
  BY ConnIs, InvParts
<1>2. w \in Workers /\ WorksOn(w, v)
  BY DEF PlainWork
<1>3. s \in Sessions /\ s[1] = c /\ s[2] = obj.entry[c].seq
  <2>1. obj.entry[c].seq \in 0 .. MaxSeq
    BY <1>1 DEF EntrySet
  <2> QED  BY <2>1, LastIsSession DEF LastSession
<1>4. user' = user /\ mutex' = mutex /\ UNCHANGED pollers
  OBVIOUS
<1>5. /\ SessStep(c) /\ session'[s] = se /\ Undeleted(c)' = Undeleted(c)
      /\ \A t \in Sessions : t # s => session'[t] = session[t]
  BY <1>1, <1>3, <1>4, TurnsIs DEF Types
<1>6. FlagStep
  BY <1>1 DEF FlagStep, flags, Types
<1>7. LastSession(c)' = s
  BY DEF LastSession
<1>8. Passive(c)' = se.passive
  BY <1>5, <1>7 DEF Passive
<1>9. ASSUME NEW t \in Sessions, t[1] = c PROVE Sess(l, t)'
  <2>1. ~Owed(l, t)'
    BY <1>9 DEF Owed
  <2>2. obj'.entry[t[1]].seq = obj.entry[t[1]].seq
    BY <1>9
  <2>3. CASE t = s
    <3>1. Sess(g[c], s)
      BY <1>1, <1>3
    <3>2. Owed(g[c], s) \/ SpeaksFor(worker[w], s)
      BY <1>3 DEF Owed
    <3>3. SpeaksFor(v, s)
      BY DEF SpeaksFor, Speaking
    <3>4. /\ session'[s].passive = 0 <=> session[s].passive = 0
          /\ session[s].passive \in {3, 4} => session'[s].passive \in {3, 4}
      BY <1>5 DEF SessionTurns
    <3>5. Speaker(v, session'[s], user'[s]) /\ Phases(session'[s], user'[s])
      BY <1>4, <1>5
    <3> QED  BY <1>1, <1>2, <1>3, <2>1, <2>2, <2>3, <3>1, <3>2, <3>3, <3>4, <3>5, SessSpoken
  <2>4. CASE t # s
    <3>1. ~SpeaksFor(v, t)
      BY <2>4 DEF SpeaksFor
    <3> QED  BY <1>1, <1>2, <1>4, <1>5, <1>9, <2>1, <2>2, <2>4, <3>1, SessUnspoken
  <2> QED  BY <2>3, <2>4
<1>10. Fitting(l, Holders(worker', user', c), Cardinality(Undeleted(c)'), obj'.entry[c],
              obj'.target[c], Alive(c)', At(c), Reads(c), Passive(c)')
  BY <1>4, <1>5, <1>8
<1>11. v.pc \in {"request", "replied"} => v.s = LastSession(c)
  OBVIOUS
<1> QED  BY <1>4, <1>5, <1>6, <1>9, <1>10, <1>11, WorkerStep

\* Nothing happens to the last session.
LEMMA LastStays ==
  ASSUME NEW g \in Places, NEW z \in ServicePlaces, Inv(g, z), NEW c \in Conns,
         obj.entry[c].seq # 0, session' = session, NEW s, s = LastSession(c)
  PROVE  /\ SessionTurns(s, session[s]) /\ Passive(c) = session[s].passive
         /\ s \in Sessions /\ s \in Conns \X Nat /\ s[1] = c /\ s[2] = obj.entry[c].seq
         /\ Sess(g[c], s) /\ Phases(session[s], user[s])
         /\ Owes(g[c], obj.entry[c])
               => Receiving(session[s]) \/ Sending(session[s], user[s])
<1>1. /\ session \in [Sessions -> SessionSet] /\ obj.entry[c] \in EntrySet
      /\ \A t \in Sessions : t[1] = c => Sess(g[c], t)
  BY ConnIs
<1>2. s \in Sessions /\ s[1] = c /\ s[2] = obj.entry[c].seq
  <2>1. obj.entry[c].seq \in 0 .. MaxSeq
    BY <1>1 DEF EntrySet
  <2> QED  BY <2>1, LastIsSession DEF LastSession
<1>3. s \in Conns \X Nat
  <2>1. obj.entry[c].seq \in Nat
    BY <1>1 DEF EntrySet
  <2> QED  BY <2>1 DEF LastSession
<1>4. SessionTurns(s, session[s])
  <2>1. session[s] \in SessionSet /\ session' = [session EXCEPT ![s] = session[s]]
    BY <1>1, <1>2
  <2> QED  BY <1>2, <2>1 DEF SessionTurns
<1>5. Sess(g[c], s)
  BY <1>1, <1>2
<1>6. Owes(g[c], obj.entry[c]) => Owed(g[c], s)
  BY <1>2 DEF Owed
<1> QED  BY <1>2, <1>3, <1>4, <1>5, <1>6 DEF Passive, Sess

LEMMA EndTold ==
  ASSUME NEW g \in Places, NEW z \in ServicePlaces, Inv(g, z), NEW c \in Conns,
         NEW w, NEW v, EndsAt(w, v, c), obj' = obj, obj.entry[c].state \in {"ERROR", "RECEIVING"},
         v.pc = "handle", v.s = LastSession(c), v.st # "TOREPLY"
  PROVE  IInv'
<1>1. /\ Types /\ AliveOK /\ ~obj.bad /\ Serv(z) /\ Queued(Results, poll, g[c], c)
      /\ poll \in Group(Results) /\ worker \in [Workers -> WorkerSet] /\ Fits(g[c], c)
      /\ obj.target[c] \in TargetSet
  BY ConnIs, InvParts
<1>2. w \in Workers /\ AtHand(worker[w], "ended", c) /\ Continues(w, v, c)
      /\ UNCHANGED <<pollers, mutex, user, flags>> /\ poll' = poll /\ session' = session
  BY DEF EndsAt, users
<1>3. PICK l : l = PlacedAt(g[c], "none", "read")
  OBVIOUS
<1>4. /\ g[c].loc = "ended" /\ At(c) = "wait"
      /\ l \in PlaceSet /\ l.loc = "none" /\ l.op = "read" /\ l.msg = g[c].msg
      /\ l.acc = g[c].acc
  BY <1>2, <1>3, EndedConn
<1>5. PlainWork(w, v, c) /\ OneMore(Holders(worker', user, c), Holding(c))
  BY <1>1, <1>2, ContinuesIs DEF HoldsRef, AtHand
<1>6. /\ Fitting(l, Holders(worker', user, c), Open(c), obj.entry[c],
                 obj.target[c], Alive(c), At(c), Reads(c), Passive(c))
      /\ ~Owes(l, obj.entry[c]) /\ Owes(g[c], obj.entry[c]) /\ obj.entry[c].seq # 0
  <2>1. PICK o, n, m, k, en, ta, al, rd, p :
           /\ o = g[c] /\ n = Holding(c) /\ k = Open(c)
           /\ m = Holders(worker', user, c) /\ en = obj.entry[c] /\ ta = obj.target[c]
           /\ al = Alive(c) /\ rd = Reads(c) /\ p = Passive(c)
    OBVIOUS
  <2>2. Fitting(o, n, k, en, ta, al, "wait", rd, p)
    BY <1>1, <1>4, <2>1 DEF Fits
  <2>3. ta.idle = FALSE /\ al = "out"
    <3>1. ta.idle \in BOOLEAN /\ al \in {"in", "out"}
      BY <1>1, <2>1 DEF TargetSet, Alive
    <3>2. ta.idle => en.state = "IDLE"
      BY <2>2 DEF Fitting, StateFits
    <3>3. al = "in" => en.state = "KEEPALIVE"
      BY <2>2 DEF Fitting, PollFits
    <3> QED  BY <2>1, <3>1, <3>2, <3>3
  <2>4. Ended(o, l, n, m, k, en, ta, ta, al, rd, p)
    BY <1>4, <1>5, <2>1, <2>2, <2>3 DEF Ended
  <2>5. /\ Fitting(l, m, k, en, ta, "out", "wait", rd, p) /\ ~Owes(l, en)
        /\ Owes(o, en) /\ en.seq # 0
    BY <2>1, <2>4, EndedFits
  <2> QED  BY <1>4, <2>1, <2>3, <2>5
<1>7. PICK s, se : s = LastSession(c) /\ se = session[s]
  OBVIOUS
<1>8. /\ SessionTurns(s, se) /\ Passive(c) = se.passive /\ Phases(se, user[s])
      /\ Receiving(se) \/ Sending(se, user[s])
  BY <1>2, <1>6, <1>7, LastStays
<1>9. Speaker(v, se, user[s])
  BY <1>8 DEF Speaker
<1>10. ObjStep(c) /\ Alive(c)' = Alive(c)
  BY <1>1, ObjSame DEF KeepsObj
<1>11. AliveOK'
  <2>1. WorkStep(c)
    BY <1>5 DEF WorkStep, PlainWork
  <2> QED  BY <1>1, <2>1, AliveStep DEF Serv
<1>12. ServiceFits(z, obj'.service, Cardinality(Live(obj')))
  BY <1>1 DEF Serv
<1>13. PollStep(c) /\ Queued(Results, poll', l, c) /\ poll'.batch = poll.batch
  BY <1>1, <1>2, <1>4, PollAway DEF Away
<1>14. HandsGo(worker[w], v, c, g[c], l)
  BY <1>2, <1>4, TokenGone DEF AtHand
<1>15. Fitting(l, Holders(worker', user, c), Open(c), obj'.entry[c],
               obj'.target[c], Alive(c)', At(c), Reads(c), se.passive)
  BY <1>6, <1>8, <1>10
<1> QED  BY <1>2, <1>4, <1>5, <1>6, <1>7, <1>8, <1>9, <1>10, <1>11, <1>12, <1>13, <1>14, <1>15, WorkerSpeaks

LEMMA HandleRequestEndKeeps ==
  ASSUME NEW g \in Places, NEW z \in ServicePlaces, Inv(g, z), NEW w \in Workers,
         handle_request_end(w)
  PROVE  IInv'
<1>1. /\ worker \in [Workers -> WorkerSet] /\ worker[w] \in WorkerSet /\ worker[w].pc = "ended"
      /\ obj \in ObjSet
  BY InvParts DEF Types, handle_request_end
<1>2. PICK c \in Conns : c = Fd(w) /\ AtHand(worker[w], "ended", c)
  BY <1>1 DEF WorkerSet, OfConn, Fd, AtHand, Subject
<1>3. PICK l : l = PlacedAt(g[c], "none", "read")
  OBVIOUS
<1>4. /\ g[c].loc = "ended" /\ At(c) = "wait" /\ Usable(obj, c)
      /\ obj.entry[c].state \notin {"NONE", "FREED"}
      /\ UseEntry(obj, c) = obj /\ UseTarget(obj, c) = obj /\ UseService(obj) = obj
      /\ l \in PlaceSet /\ l.loc = "none" /\ l.op = "read" /\ l.msg = g[c].msg
      /\ l.acc = g[c].acc
  BY <1>2, <1>3, EndedConn
<1>5. /\ Fits(g[c], c) /\ obj.entry[c] \in EntrySet /\ obj.target[c] \in TargetSet
      /\ obj.alive_list \in Seq(Conns) /\ AliveOK
  BY ConnIs, InvParts
<1>6. PICK o, n, k, en, ta, sv, al, rd, p, q :
         /\ o = g[c] /\ n = Holding(c) /\ k = Open(c)
         /\ en = obj.entry[c] /\ ta = obj.target[c] /\ sv = obj.service /\ al = Alive(c)
         /\ rd = Reads(c) /\ p = Passive(c) /\ q = obj.alive_list
  OBVIOUS
<1>7. Fitting(o, n, k, en, ta, al, "wait", rd, p)
  BY <1>4, <1>5, <1>6 DEF Fits
<1>8. /\ al \in {"in", "out"} /\ ta.idle \in BOOLEAN
      /\ ta.idle => en.state = "IDLE"
      /\ al = "in" <=> en.state = "KEEPALIVE"
      /\ c \in ToSet(q) <=> al = "in"
  <2>1. al \in {"in", "out"} /\ ta.idle \in BOOLEAN /\ (c \in ToSet(q) <=> al = "in")
    BY <1>5, <1>6 DEF TargetSet, Alive
  <2>2. ta.idle => en.state = "IDLE"
    BY <1>7 DEF Fitting, StateFits
  <2>3. al = "in" <=> en.state = "KEEPALIVE"
    BY <1>4, <1>6, <1>7 DEF Fitting, PollFits
  <2> QED  BY <2>1, <2>2, <2>3
<1>9. UNCHANGED <<poll, pollers, users, flags>>
  BY DEF handle_request_end
\* A thread that keeps the reference.
<1>10. ASSUME obj.entry[c].state \notin {"ERROR", "RECEIVING", "SUCCESS"}
       PROVE  \E v : /\ v.pc = "unref" /\ EndsAt(w, v, c)
                     /\ OneMore(Holders(worker', user, c), n)
  <2>1. PICK v : v = [worker[w] EXCEPT !.pc = "unref"]
    OBVIOUS
  <2>2. WorksOn(w, v)
    BY <1>2, <1>10, <2>1 DEF handle_request_end, WorksOn, Fd
  <2>3. v \in WorkerSet /\ v.pc = "unref" /\ v.res = worker[w].res
    BY <1>1, <2>1 DEF WorkerSet, OfConn, Speaking
  <2>4. Continues(w, v, c)
    BY <1>1, <1>2, <2>2, <2>3 DEF Continues, OfConn, AtHand
  <2>5. OneMore(Holders(worker', user, c), n)
    BY <1>1, <1>6, <2>3, <2>4, ContinuesIs DEF HoldsRef
  <2> QED  BY <1>2, <1>9, <2>3, <2>4, <2>5 DEF EndsAt
<1>11. CASE obj.entry[c].state \notin {"ERROR", "RECEIVING", "SUCCESS"}
  <2>1. PICK v : v.pc = "unref" /\ EndsAt(w, v, c) /\ OneMore(Holders(worker', user, c), n)
    BY <1>10, <1>11
  <2>2. PICK m : m = Holders(worker', user, c)
    OBVIOUS
  <2>3. ASSUME NEW xa \in TargetSet, xa.state = ta.state, xa.ref = ta.ref, xa.idle = FALSE
        PROVE  Fitting(l, m, k, en, xa, "out", "wait", rd, p) /\ ~Owes(l, en)
    <3>1. Ended(o, l, n, m, k, en, ta, xa, al, rd, p)
      BY <1>4, <1>6, <1>7, <1>11, <2>1, <2>2, <2>3 DEF Ended
    <3> QED  BY <3>1, EndedFits
  <2>4. CASE en.state = "KEEPALIVE"
    <3>1. PICK e : IsEmpty(e)
      BY EmptyIs
    <3>2. obj' = AliveDel(obj, c)
      BY <1>2, <1>4, <1>6, <2>4 DEF handle_request_end
    <3>3. AliveDel(obj, c) = Upd(obj, c, en, ta, sv, e)
      BY <1>4, <1>5, <1>6, <1>8, <2>4, <3>1, AliveDelIs DEF AliveOK, IsEmpty
    <3>4. Fitting(l, m, k, en, ta, "out", "wait", rd, p) /\ ~Owes(l, en)
      BY <1>5, <1>6, <1>8, <2>3, <2>4
    <3>5. c \in ToSet(obj.alive_list) /\ c \notin ToSet(e)
      BY <1>6, <1>8, <2>4, <3>1, EmptyIs
    <3> QED  BY <1>3, <1>5, <1>6, <2>1, <2>2, <3>1, <3>2, <3>3, <3>4, <3>5, EndQuiet
  <2>5. CASE en.state = "IDLE"
    <3>1. PICK xa : xa = [ta EXCEPT !.idle = FALSE]
      OBVIOUS
    <3>2. xa \in TargetSet /\ xa.state = ta.state /\ xa.ref = ta.ref /\ xa.idle = FALSE
      BY <1>5, <1>6, <3>1 DEF TargetSet
    <3>3. obj' = [obj EXCEPT !.target[c].idle = FALSE]
      BY <1>2, <1>4, <1>6, <2>5 DEF handle_request_end
    <3>4. obj' = Upd(obj, c, en, xa, sv, q)
      BY <1>1, <1>6, <3>1, <3>3, ExceptTarget
    <3>5. Fitting(l, m, k, en, xa, "out", "wait", rd, p) /\ ~Owes(l, en)
      BY <2>3, <3>2
    <3>6. c \notin ToSet(q)
      BY <1>8, <2>5
    <3> QED  BY <1>3, <1>5, <1>6, <2>1, <2>2, <3>2, <3>4, <3>5, <3>6, EndQuiet
  <2>6. CASE en.state \notin {"KEEPALIVE", "IDLE"}
    <3>1. obj' = obj
      BY <1>2, <1>4, <1>6, <1>11, <2>6 DEF handle_request_end
    <3>2. obj' = Upd(obj, c, en, ta, sv, q)
      BY <1>1, <1>6, <3>1, UpdSame
    <3>3. Fitting(l, m, k, en, ta, "out", "wait", rd, p) /\ ~Owes(l, en)
      BY <1>5, <1>6, <1>8, <2>3, <2>6
    <3>4. c \notin ToSet(q)
      BY <1>8, <2>6
    <3> QED  BY <1>3, <1>5, <1>6, <2>1, <2>2, <3>2, <3>3, <3>4, EndQuiet
  <2> QED  BY <2>4, <2>5, <2>6
<1>12. CASE obj.entry[c].state = "SUCCESS"
  <2>1. PICK v : v = Getting
    OBVIOUS
  <2>2. WorksOn(w, v)
    BY <1>2, <1>12, <2>1 DEF handle_request_end, WorksOn
  <2>3. v \in WorkerSet /\ v.pc = "get"
    BY <2>1, GettingIs
  <2>4. Continues(w, v, c)
    BY <1>1, <1>2, <2>2, <2>3 DEF Continues, OfConn, AtHand
  <2>5. Holders(worker', user, c) = n
    BY <1>1, <1>6, <2>3, <2>4, ContinuesIs DEF HoldsRef
  <2>6. EndsAt(w, v, c)
    BY <1>2, <1>9, <2>4 DEF EndsAt
  <2>7. PICK xn : xn = InState(en, "CLOSING")
    OBVIOUS
  <2>8. InStateOf(en, "CLOSING", xn)
    BY <1>5, <1>6, <2>7, InStateIs DEF EntryStates
  <2>9. EndedEarly(o, l, n, k, en, xn, ta, al, rd, p)
    BY <1>4, <1>6, <1>7, <1>12, <2>8 DEF EndedEarly
  <2>10. Fitting(l, n, k, xn, ta, al, "wait", rd, p) /\ (Owes(l, xn) => Owes(o, en))
    BY <2>9, EndedEarlyFits
  <2>11. obj' = Upd(obj, c, xn, ta, sv, q)
    <3>1. obj' = SetState(obj, c, "CLOSING")
      BY <1>2, <1>4, <1>12 DEF handle_request_end
    <3> QED  BY <1>4, <1>6, <2>7, <3>1, SetStateIs
  <2>12. al = IF c \in ToSet(q) THEN "in" ELSE "out"
    BY <1>8
  <2>13. xn \in EntrySet /\ xn.seq = en.seq
    BY <2>8 DEF InStateOf
  <2> QED  BY <1>3, <1>5, <1>6, <2>3, <2>5, <2>6, <2>10, <2>11, <2>12, <2>13, EndQuiet
<1>13. CASE obj.entry[c].state \in {"ERROR", "RECEIVING"}
  <2>1. obj' = obj
    BY <1>2, <1>4, <1>13 DEF handle_request_end
  <2>2. PICK s : s = LastSession(c)
    OBVIOUS
  <2>3. PICK x : x = IF obj.entry[c].state = "ERROR" THEN "ERROR" ELSE worker[w].st
    OBVIOUS
  <2>4. x \in {"ERROR", "STOPPED"}
    BY <1>1, <2>3 DEF WorkerSet
  <2>5. s \in Sessions /\ s[1] = c /\ s \in Conns \X Nat
    <3>1. obj.entry[c].seq \in 0 .. MaxSeq
      BY <1>5 DEF EntrySet
    <3>2. obj.entry[c].seq # 0
      BY <1>5, <1>6, <1>7, <1>13 DEF Fitting, StateFits
    <3> QED  BY <2>2, <3>1, <3>2, LastIsSession, Constants DEF LastSession, Sessions
  <2>6. PICK v : v = [worker[w] EXCEPT !.pc = "handle", !.s = s, !.st = x]
    OBVIOUS
  <2>7. WorksOn(w, v)
    BY <1>2, <1>13, <2>2, <2>3, <2>6 DEF handle_request_end, WorksOn, LastSession
  <2>8. /\ v \in WorkerSet /\ v.pc = "handle" /\ v.res = worker[w].res /\ v.s = s
        /\ v.st # "TOREPLY"
    <3>1. worker[w].res \in AllResults /\ worker[w].res.fd \in Conns /\ worker[w].res.fd = c
      BY <1>1, <1>2 DEF WorkerSet, OfConn, Fd
    <3>2. v = [pc |-> "handle", res |-> worker[w].res, s |-> s, st |-> x]
      BY <1>1, <2>6 DEF WorkerSet
    <3> QED  BY <2>4, <2>5, <3>1, <3>2 DEF WorkerSet, OfConn, Speaking, Tells
  <2>9. Continues(w, v, c)
    BY <1>1, <1>2, <2>7, <2>8 DEF Continues, OfConn, AtHand
  <2> QED  BY <1>2, <1>9, <1>13, <2>1, <2>2, <2>8, <2>9, EndTold DEF EndsAt
<1> QED  BY <1>11, <1>12, <1>13

LEMMA TellsNext ==
  ASSUME worker \in [Workers -> WorkerSet], NEW w \in Workers, NEW c \in Conns,
         NEW p \in {"request", "replied"}, AtHand(worker[w], p, c), NEW x \in Tells, GoesTell(w, x)
  PROVE  \E v : /\ v.pc = "handle" /\ v.s = worker[w].s /\ v.st = x /\ Continues(w, v, c)
                /\ \A u : OneMore(Holders(worker', u, c), Holders(worker, u, c))
<1>1. worker[w] \in WorkerSet /\ worker[w].pc = p
  BY DEF AtHand
<1>2. PICK v : v = [worker[w] EXCEPT !.pc = "handle", !.st = x]
  OBVIOUS
<1>3. WorksOn(w, v)
  BY <1>2 DEF GoesTell, WorksOn
<1>4. /\ v = [pc |-> "handle", res |-> worker[w].res, s |-> worker[w].s, st |-> x]
      /\ v.pc = "handle" /\ v.res = worker[w].res /\ v.s = worker[w].s /\ v.st = x
  BY <1>1, <1>2 DEF WorkerSet
<1>5. v \in WorkerSet
  BY <1>1, <1>4 DEF WorkerSet, OfConn, Speaking
<1>6. Continues(w, v, c)
  BY <1>1, <1>3, <1>4, <1>5 DEF Continues, OfConn, AtHand
<1>7. \A u : OneMore(Holders(worker', u, c), Holders(worker, u, c))
  BY <1>1, <1>4, <1>6, ContinuesIs DEF HoldsRef
<1> QED  BY <1>4, <1>6, <1>7

LEMMA IdleForIs ==
  ASSUME NEW o \in ObjSet, NEW c \in Conns
  PROVE  IdleFor(o, c) = Upd(o, c, WithRef(o.entry[c], o.entry[c].ref + 1), IsIdle(o.target[c]),
                             o.service, o.alive_list)
<1>1. PICK en, ta, sv, q : /\ en = o.entry[c] /\ ta = o.target[c] /\ sv = o.service
                           /\ q = o.alive_list
  OBVIOUS
<1>2. en \in EntrySet /\ ta \in TargetSet /\ sv \in ServiceSet /\ q \in Seq(Conns)
      /\ en.ref + 1 \in Nat
  BY <1>1, ObjFields DEF EntrySet
<1>3. PICK xn : xn = WithRef(en, en.ref + 1)
  OBVIOUS
<1>4. xn \in EntrySet
  BY <1>2, <1>3 DEF EntrySet, WithRef
<1>5. PICK x : x = [o EXCEPT !.entry[c].ref = en.ref + 1]
  OBVIOUS
<1>6. x = Upd(o, c, xn, ta, sv, q)
  BY <1>1, <1>3, <1>5, ExceptEntry
<1>7. x \in ObjSet /\ x.entry[c] = xn /\ x.target[c] = ta /\ x.service = sv /\ x.alive_list = q
  BY <1>2, <1>4, <1>6, UpdParts
<1>8. [x EXCEPT !.target[c].idle = TRUE] = Upd(x, c, xn, IsIdle(ta), sv, q)
  <2>1. [x EXCEPT !.target[c].idle = TRUE]
          = Upd(x, c, x.entry[c], [x.target[c] EXCEPT !.idle = TRUE], x.service, x.alive_list)
    BY <1>7, ExceptTarget
  <2> QED  BY <1>7, <2>1 DEF IsIdle
<1>9. Upd(x, c, xn, IsIdle(ta), sv, q) = Upd(o, c, xn, IsIdle(ta), sv, q)
  BY <1>6, UpdTwice
<1>10. IdleFor(o, c) = [x EXCEPT !.target[c].idle = TRUE]
  BY <1>1, <1>5 DEF IdleFor
<1> QED  BY <1>1, <1>3, <1>8, <1>9, <1>10

LEMMA RequestedFits ==
  ASSUME NEW o, NEW l, NEW n, NEW m, NEW k, NEW en, NEW xn, NEW ta, NEW xa, NEW al, NEW a,
         NEW rd, NEW p, Requested(o, l, n, m, k, en, xn, ta, xa, al, a, rd, p)
  PROVE  Fitting(l, m, k, xn, xa, al, a, rd, 2) /\ ~Owes(l, xn) /\ en.seq # 0
<1>1. /\ o.msg = "request" /\ Counted(o, n, k, en, ta) /\ StateFits(o, en, ta, p)
      /\ PollFits(o, en, al, a, rd, p) /\ n \in Nat /\ m = n + 1
      /\ l.loc = o.loc /\ l.op = o.op /\ l.acc = o.acc /\ l.msg = "none"
      /\ xa.state = ta.state /\ xa.ref = ta.ref /\ xn.seq = en.seq /\ en.ref \in Nat
  BY DEF Requested, OneMore, Fitting
<1>2. p = 1 /\ (\/ en.state = "SUCCESS" /\ l.loc \in Watched /\ l.op = "read"
                \/ en.state = "CLOSING" /\ l.loc = "none")
  BY <1>1 DEF StateFits
<1>3. CASE en.state = "SUCCESS"
  <2>1. xn.state = "IDLE" /\ xn.ref = en.ref + 1 /\ xa.idle = TRUE
    BY <1>3 DEF Requested
  <2>2. en.seq # 0
    BY <1>1, <1>3 DEF StateFits
  <2>3. l.loc \in Watched /\ l.op = "read" /\ l.loc # "none" /\ l.loc # "replied"
    BY <1>2, <1>3 DEF Watched
  <2>4. Counted(l, m, k, xn, xa)
    <3>1. Kept(o) /\ Kept(l)
      BY <1>1, <2>3 DEF Kept
    <3> QED  BY <1>1, <1>3, <2>1, <3>1 DEF Counted
  <2>5. StateFits(l, xn, xa, 2)
    BY <1>1, <2>1, <2>2, <2>3 DEF StateFits
  <2>6. PollFits(l, xn, al, a, rd, 2)
    BY <1>1, <1>3, <2>1, <2>2, <2>3 DEF PollFits
  <2>7. ~Owes(l, xn)
    BY <1>1, <2>1, <2>3 DEF Owes
  <2> QED  BY <2>2, <2>4, <2>5, <2>6, <2>7 DEF Fitting
<1>4. CASE en.state # "SUCCESS"
  <2>1. xn.state = "CLOSING" /\ xn.ref = en.ref /\ xa.idle = ta.idle /\ l.loc = "none"
        /\ en.state = "CLOSING"
    BY <1>2, <1>4 DEF Requested
  <2>2. en.seq # 0 /\ ~xa.idle
    BY <1>1, <2>1 DEF StateFits
  <2>4. Counted(l, m, k, xn, xa)
    BY <1>1, <2>1 DEF Counted, Kept
  <2>5. StateFits(l, xn, xa, 2)
    BY <1>1, <2>1, <2>2 DEF StateFits
  <2>6. PollFits(l, xn, al, a, rd, 2)
    BY <1>1, <2>1 DEF PollFits
  <2>7. ~Owes(l, xn)
    BY <1>1, <2>1 DEF Owes, Watched
  <2> QED  BY <2>2, <2>4, <2>5, <2>6, <2>7 DEF Fitting
<1> QED  BY <1>3, <1>4

LEMMA HandleRequestSuccessKeeps ==
  ASSUME NEW g \in Places, NEW z \in ServicePlaces, Inv(g, z), NEW w \in Workers,
         handle_request_success(w)
  PROVE  IInv'
<1>1. /\ worker \in [Workers -> WorkerSet] /\ worker[w] \in WorkerSet /\ worker[w].pc = "request"
      /\ obj \in ObjSet /\ Types /\ PollerAt /\ AliveOK /\ ~obj.bad /\ Serv(z)
      /\ poll \in Group(Results) /\ session \in [Sessions -> SessionSet]
  BY InvParts DEF Types, handle_request_success
<1>2. PICK c \in Conns : c = Fd(w) /\ AtHand(worker[w], "request", c)
  BY <1>1 DEF WorkerSet, OfConn, Fd, AtHand, Subject
<1>3. /\ poll' = poll /\ UNCHANGED <<pollers, mutex, user, flags>> /\ GoesTell(w, "TOREPLY")
      /\ session' = [session EXCEPT ![worker[w].s].passive = 2]
      /\ obj' = IF obj.entry[c].state # "SUCCESS" THEN UseTarget(obj, c)
                ELSE IdleFor(UseTarget(SetState(obj, c, "IDLE"), c), c)
  BY <1>2 DEF handle_request_success, GoesTell, IdleFor
<1>4. PICK l : l = WithMsg(g[c], "none")
  OBVIOUS
<1>5. /\ g[c].msg = "request" /\ g[c] \in PlaceSet /\ Fits(g[c], c) /\ LastAtHand(c)
      /\ Queued(Results, poll, g[c], c) /\ obj.entry[c] \in EntrySet
      /\ obj.target[c] \in TargetSet /\ obj.service \in ServiceSet
      /\ obj.alive_list \in Seq(Conns) /\ \A t \in Sessions : t[1] = c => Sess(g[c], t)
  <2>1. g[c].msg = "request"
    BY <1>2, HandIs
  <2> QED  BY <2>1, ConnIs
<1>6. /\ l \in PlaceSet /\ l.msg = "none" /\ l.loc = g[c].loc /\ l.op = g[c].op
      /\ l.acc = g[c].acc
  BY <1>4, <1>5, WithFields
<1>7. /\ Usable(obj, c) /\ obj.target[c].state = "LIVE"
      /\ obj.entry[c].state \notin {"NONE", "FREED"} /\ UseTarget(obj, c) = obj
  BY <1>5, EntryUsable
<1>8. PICK v : /\ v.pc = "handle" /\ v.s = worker[w].s /\ v.st = "TOREPLY" /\ Continues(w, v, c)
               /\ OneMore(Holders(worker', user, c), Holding(c))
  BY <1>1, <1>2, <1>3, TellsNext DEF Tells
<1>9. PlainWork(w, v, c)
  BY <1>1, <1>8, ContinuesIs
<1>10. PICK o, n, m, k, en, ta, sv, al, a, rd, p, q :
          /\ o = g[c] /\ n = Holding(c) /\ k = Open(c)
          /\ m = Holders(worker', user, c) /\ en = obj.entry[c] /\ ta = obj.target[c]
          /\ sv = obj.service /\ al = Alive(c) /\ a = At(c) /\ rd = Reads(c) /\ p = Passive(c)
          /\ q = obj.alive_list
  OBVIOUS
<1>11. Fitting(o, n, k, en, ta, al, a, rd, p) /\ OneMore(m, n)
  BY <1>5, <1>8, <1>10 DEF Fits
<1>12. \E xn \in EntrySet, xa \in TargetSet :
          obj' = Upd(obj, c, xn, xa, sv, q) /\ Requested(o, l, n, m, k, en, xn, ta, xa, al, a, rd, p)
  <2>1. CASE en.state = "SUCCESS"
    <3>1. PICK yn : yn = InState(en, "IDLE")
      OBVIOUS
    <3>2. InStateOf(en, "IDLE", yn)
      BY <1>5, <1>10, <3>1, InStateIs DEF EntryStates
    <3>3. PICK y : y = SetState(obj, c, "IDLE")
      OBVIOUS
    <3>4. y = Upd(obj, c, yn, ta, sv, q)
      BY <1>7, <1>10, <3>1, <3>3, SetStateIs
    <3>5. /\ y \in ObjSet /\ y.bad = obj.bad /\ y.entry[c] = yn /\ y.target[c] = ta
          /\ y.service = sv /\ y.alive_list = q
      BY <1>1, <1>5, <1>10, <3>2, <3>4, UpdParts DEF InStateOf
    <3>6. UseTarget(y, c) = y
      BY <1>1, <1>7, <1>10, <3>5, UseIsGood
    <3>7. obj' = IdleFor(y, c)
      BY <1>3, <1>10, <2>1, <3>3, <3>6
    <3>8. PICK xn, xa : xn = WithRef(yn, yn.ref + 1) /\ xa = IsIdle(ta)
      OBVIOUS
    <3>9. IdleFor(y, c) = Upd(y, c, xn, xa, sv, q)
      BY <3>5, <3>8, IdleForIs
    <3>10. obj' = Upd(obj, c, xn, xa, sv, q)
      BY <1>1, <3>4, <3>7, <3>9, UpdTwice
    <3>11. en.ref \in Nat /\ yn.ref = en.ref /\ yn.seq = en.seq /\ yn.state = "IDLE"
           /\ yn \in EntrySet
      BY <1>5, <1>10, <3>2 DEF EntrySet, InStateOf
    <3>12. xn \in EntrySet /\ xn.state = "IDLE" /\ xn.ref = en.ref + 1 /\ xn.seq = en.seq
      <4>1. en.ref + 1 \in Nat /\ xn = WithRef(yn, en.ref + 1)
        BY <3>8, <3>11
      <4> QED  BY <3>11, <4>1 DEF EntrySet, WithRef
    <3>13. xa \in TargetSet /\ xa.state = ta.state /\ xa.ref = ta.ref /\ xa.idle = TRUE
      BY <1>5, <1>10, <3>8 DEF IsIdle, TargetSet
    <3> QED  BY <1>5, <1>6, <1>10, <1>11, <2>1, <3>10, <3>11, <3>12, <3>13 DEF Requested
  <2>2. CASE en.state # "SUCCESS"
    <3>1. obj' = Upd(obj, c, en, ta, sv, q)
      BY <1>1, <1>3, <1>7, <1>10, <2>2, UpdSame
    <3>2. en \in EntrySet /\ ta \in TargetSet /\ en.ref \in Nat
      BY <1>5, <1>10 DEF EntrySet
    <3> QED  BY <1>5, <1>6, <1>10, <1>11, <2>2, <3>1, <3>2 DEF Requested
  <2> QED  BY <2>1, <2>2
<1>13. PICK xn \in EntrySet, xa \in TargetSet :
          obj' = Upd(obj, c, xn, xa, sv, q) /\ Requested(o, l, n, m, k, en, xn, ta, xa, al, a, rd, p)
  BY <1>12
<1>14. Fitting(l, m, k, xn, xa, al, a, rd, 2) /\ ~Owes(l, xn) /\ en.seq # 0
  BY <1>13, RequestedFits
<1>15. xn.seq = en.seq /\ xa.state = ta.state
  BY <1>13 DEF Requested
<1>16. /\ ObjStep(c) /\ obj'.entry[c] = xn /\ obj'.target[c] = xa /\ obj'.service = sv
       /\ obj'.alive_list = q
       /\ \A f \in Conns : f # c => obj'.target[f] = obj.target[f]
       /\ Alive(c)' = Alive(c)
  BY <1>1, <1>5, <1>10, <1>13, ObjUpd DEF Alive
<1>17. ServiceFits(z, obj'.service, Cardinality(Live(obj')))
  <2>1. Live(obj') = Live(obj)
    <3>1. obj'.target[c].state = obj.target[c].state
      BY <1>10, <1>15, <1>16
    <3> QED  BY <1>16, <3>1 DEF Live
  <2> QED  BY <1>1, <1>10, <1>16, <2>1 DEF Serv
<1>18. AliveOK'
  <2>1. WorkStep(c)
    BY <1>9 DEF WorkStep, PlainWork
  <2>2. obj'.service.listening = obj.service.listening /\ obj'.alive_list = obj.alive_list
    BY <1>10, <1>16
  <2> QED  BY <1>1, <2>1, <2>2, AliveStep DEF Serv
<1>19. PollStep(c) /\ Queued(Results, poll', l, c) /\ poll'.batch = poll.batch
  <2>1. Queued(Results, poll', l, c)
    BY <1>3, <1>5, <1>6 DEF Queued, Slot
  <2>2. PollStep(c)
    BY <1>1, <1>3 DEF PollStep, Leaves
  <2> QED  BY <1>3, <2>1, <2>2
<1>20. HandsGo(worker[w], v, c, g[c], l)
  BY <1>2, <1>5, <1>6, <1>8, TokenGone DEF AtHand
<1>21. PICK s, se : s = LastSession(c) /\ se = WithPassive(session[s], 2)
  OBVIOUS
<1>22. s \in Sessions /\ s[1] = c /\ worker[w].s = s
  <2>1. obj.entry[c].seq \in 0 .. MaxSeq
    BY <1>5 DEF EntrySet
  <2> QED  BY <1>2, <1>5, <1>10, <1>14, <1>21, <2>1, LastIsSession DEF LastSession, LastAtHand
<1>23. Receiving(session[s]) /\ Phases(session[s], user[s]) /\ SpeaksFor(worker[w], s)
  <2>1. SpeaksFor(worker[w], s) /\ Sess(g[c], s)
    BY <1>1, <1>5, <1>22 DEF SpeaksFor, Speaking
  <2> QED  BY <1>1, <2>1 DEF Sess, Speaker
<1>24. /\ se \in SessionSet /\ se.passive = 2 /\ se.told = session[s].told
       /\ session[s] \in SessionSet
  <2>1. session[s] \in SessionSet /\ 2 \in 0 .. 4 /\ "none" \in Tells
    BY <1>1, <1>22 DEF Tells
  <2> QED  BY <1>21, <2>1, SessionFields
<1>25. session[s].passive = 1 /\ se.told = <<>> /\ user[s] = "none"
  <2>1. Len(session[s].told) = 0
    BY <1>23, ListSets DEF Receiving
  <2> QED  BY <1>23, <1>24, <2>1 DEF Receiving, Phases, EndOnly
<1>26. SessionTurns(s, se)
  <2>1. session' = [session EXCEPT ![s] = se]
    BY <1>3, <1>21, <1>22 DEF WithPassive
  <2> QED  BY <1>22, <1>24, <1>25, <2>1 DEF SessionTurns
<1>27. Speaker(v, se, user[s]) /\ Phases(se, user[s])
  BY <1>8, <1>24, <1>25 DEF Speaker, Asking, Phases
<1>28. Fitting(l, Holders(worker', user, c), Open(c), obj'.entry[c],
               obj'.target[c], Alive(c)', At(c), Reads(c), se.passive)
  BY <1>10, <1>14, <1>16, <1>24
<1> QED  BY <1>3, <1>6, <1>8, <1>9, <1>10, <1>14, <1>15, <1>16, <1>17, <1>18, <1>19, <1>20,
            <1>21, <1>22, <1>23, <1>26, <1>27, <1>28, WorkerSpeaks

----
(* A connection is kept alive, or closed. *)

LEMMA OneIs ==
  ASSUME NEW c \in Conns
  PROVE  \E q : IsOne(q, c) /\ Append(<<>>, c) = q
<1>1. <<c>> \in Seq(Conns) /\ Append(<<>>, c) = <<c>>
  OBVIOUS
<1> QED  BY <1>1 DEF IsOne

LEMMA OneHas ==
  ASSUME NEW c \in Conns, NEW q, IsOne(q, c)
  PROVE  q \in Seq(Conns) /\ Len(q) = 1 /\ \A f : f \in ToSet(q) <=> f = c
<1>1. ToSet(q) = {c} /\ Len(q) = 1
  BY ListSets DEF IsOne
<1> QED  BY <1>1 DEF IsOne

LEMMA MoreEntryIs ==
  ASSUME NEW o \in ObjSet, NEW c \in Conns
  PROVE  \E xn : /\ EntryIs(o.entry[c], o.entry[c].state, o.entry[c].ref + 1, xn)
                 /\ MoreEntry(o, c) = Upd(o, c, xn, o.target[c], o.service, o.alive_list)
<1>1. PICK en, n : en = o.entry[c] /\ n = en.ref + 1
  OBVIOUS
<1>2. en \in EntrySet /\ n \in Nat
  BY <1>1, ObjFields DEF EntrySet
<1>3. PICK xn : xn = WithRef(en, n)
  OBVIOUS
<1>4. EntryIs(en, en.state, n, xn)
  BY <1>2, <1>3 DEF EntryIs, EntrySet, WithRef
<1>5. PICK x : x = [o EXCEPT !.entry[c].ref = n]
  OBVIOUS
<1>6. x = Upd(o, c, xn, o.target[c], o.service, o.alive_list)
  BY <1>1, <1>3, <1>5, ExceptEntry
<1>7. MoreEntry(o, c) = x
  BY <1>1, <1>5 DEF MoreEntry
<1> QED  BY <1>1, <1>4, <1>6, <1>7

LEMMA SetStateTo ==
  ASSUME NEW o, NEW c, Usable(o, c), o.entry[c].state \notin {"NONE", "FREED"}, NEW st \in EntryStates
  PROVE  \E xn : /\ EntryIs(o.entry[c], st, o.entry[c].ref, xn)
                 /\ SetState(o, c, st) = Upd(o, c, xn, o.target[c], o.service, o.alive_list)
<1>1. PICK xn : xn = InState(o.entry[c], st)
  OBVIOUS
<1>2. o.entry[c] \in EntrySet
  BY ObjFields DEF Usable
<1>3. EntryIs(o.entry[c], st, o.entry[c].ref, xn)
  BY <1>1, <1>2 DEF EntryIs, EntrySet, InState
<1> QED  BY <1>1, <1>3, SetStateIs

LEMMA CloseMoreIs ==
  ASSUME NEW o, NEW c, Usable(o, c), o.entry[c].state \notin {"NONE", "FREED"}
  PROVE  \E xn : /\ EntryIs(o.entry[c], "CLOSING", o.entry[c].ref + 1, xn)
                 /\ CloseMore(o, c) = Upd(o, c, xn, o.target[c], o.service, o.alive_list)
<1>1. PICK en, ta, sv, q : /\ en = o.entry[c] /\ ta = o.target[c] /\ sv = o.service
                           /\ q = o.alive_list
  OBVIOUS
<1>2. o \in ObjSet /\ c \in Conns /\ ta \in TargetSet /\ sv \in ServiceSet /\ q \in Seq(Conns)
  BY <1>1, ObjFields DEF Usable
<1>3. PICK y, yn : /\ y = SetState(o, c, "CLOSING") /\ EntryIs(en, "CLOSING", en.ref, yn)
                   /\ y = Upd(o, c, yn, ta, sv, q)
  BY <1>1, SetStateTo DEF EntryStates
<1>4. y \in ObjSet /\ y.entry[c] = yn /\ y.target[c] = ta /\ y.service = sv /\ y.alive_list = q
  BY <1>2, <1>3, UpdParts DEF EntryIs
<1>5. PICK xn : EntryIs(yn, yn.state, yn.ref + 1, xn) /\ MoreEntry(y, c) = Upd(y, c, xn, ta, sv, q)
  BY <1>2, <1>4, MoreEntryIs
<1>6. Upd(y, c, xn, ta, sv, q) = Upd(o, c, xn, ta, sv, q)
  BY <1>2, <1>3, UpdTwice
<1>7. CloseMore(o, c) = MoreEntry(y, c)
  BY <1>3 DEF CloseMore, MoreEntry
<1>8. EntryIs(en, "CLOSING", en.ref + 1, xn)
  BY <1>3, <1>5 DEF EntryIs
<1> QED  BY <1>1, <1>5, <1>6, <1>7, <1>8

LEMMA AliveAddIs ==
  ASSUME NEW o, NEW c, Usable(o, c), o.entry[c].state \notin {"NONE", "FREED"}, o.alive_list = <<>>
  PROVE  \E xn, q : /\ EntryIs(o.entry[c], "KEEPALIVE", o.entry[c].ref + 1, xn) /\ IsOne(q, c)
                    /\ AliveAdd(o, c) = Upd(o, c, xn, o.target[c], o.service, q)
<1>1. PICK en, ta, sv, e : /\ en = o.entry[c] /\ ta = o.target[c] /\ sv = o.service
                           /\ e = o.alive_list
  OBVIOUS
<1>2. /\ o \in ObjSet /\ c \in Conns /\ ~o.bad /\ sv.unbound = 0
      /\ ta \in TargetSet /\ sv \in ServiceSet /\ e \in Seq(Conns)
  BY <1>1, ObjFields DEF Usable
<1>3. PICK y, yn : /\ y = SetState(o, c, "KEEPALIVE") /\ EntryIs(en, "KEEPALIVE", en.ref, yn)
                   /\ y = Upd(o, c, yn, ta, sv, e)
  BY <1>1, SetStateTo DEF EntryStates
<1>4. /\ y \in ObjSet /\ y.entry[c] = yn /\ y.target[c] = ta /\ y.service = sv /\ y.alive_list = e
      /\ y.bad = o.bad
  BY <1>2, <1>3, UpdParts DEF EntryIs
<1>5. UseService(y) = y
  BY <1>2, <1>4, UseIsGood
<1>6. PICK q : IsOne(q, c) /\ Append(e, c) = q
  BY <1>1, <1>2, OneIs
<1>7. PICK x : x = [y EXCEPT !.alive_list = q]
  OBVIOUS
<1>8. x = Upd(y, c, yn, ta, sv, q)
  <2>1. x = Upd(y, c, y.entry[c], y.target[c], y.service, q)
    BY <1>2, <1>4, <1>7, WithListIs DEF WithList
  <2> QED  BY <1>4, <2>1
<1>9. x \in ObjSet /\ x.entry[c] = yn /\ x.target[c] = ta /\ x.service = sv /\ x.alive_list = q
  <2>1. yn \in EntrySet /\ q \in Seq(Conns)
    BY <1>3, <1>6 DEF EntryIs, IsOne
  <2> QED  BY <1>2, <1>4, <1>8, <2>1, UpdParts
<1>10. PICK xn : EntryIs(yn, yn.state, yn.ref + 1, xn) /\ MoreEntry(x, c) = Upd(x, c, xn, ta, sv, q)
  BY <1>2, <1>9, MoreEntryIs
<1>11. Upd(x, c, xn, ta, sv, q) = Upd(o, c, xn, ta, sv, q)
  <2>1. Upd(x, c, xn, ta, sv, q) = Upd(y, c, xn, ta, sv, q)
    BY <1>2, <1>4, <1>8, UpdTwice
  <2> QED  BY <1>2, <1>3, <2>1, UpdTwice
<1>12. AliveAdd(o, c) = MoreEntry(x, c)
  <2>1. AliveAdd(o, c) = [y EXCEPT !.alive_list = Append(@, c), !.entry[c].ref = @ + 1]
    BY <1>3, <1>5 DEF AliveAdd
  <2>2. Append(y.alive_list, c) = q
    BY <1>4, <1>6
  <2> QED  BY <1>7, <2>1, <2>2 DEF MoreEntry
<1>13. EntryIs(en, "KEEPALIVE", en.ref + 1, xn)
  BY <1>3, <1>10 DEF EntryIs
<1> QED  BY <1>1, <1>6, <1>10, <1>11, <1>12, <1>13

\* mpoller_add of a connection that has no node.
LEMMA Adds ==
  ASSUME NEW x \in Group(Results), NEW c \in Conns, NEW o \in PlaceSet, Queued(Results, x, o, c),
         Away(o.loc), NEW y, y = mpoller_add(x, c, "read"), NEW l, l = PlacedAt(o, "table", "read")
  PROVE  NodeGoes(x, y, o, c, l) /\ y.batch = x.batch
<1>1. l.loc = "table" /\ l.op = "read" /\ l.msg = o.msg /\ l.acc = o.acc
  BY PlacedFields
<1>2. c \in Fds /\ "read" \in Ops
  BY Constants DEF Ops
<1>3. /\ Steady(Results, x, y) /\ SameMessages(Results, x, y)
      /\ \A loc, op : NodeAt(Results, x, c, loc, op) /\ loc \notin {"table", "pipe", "queue"}
            => NodeAt(Results, y, c, "table", "read")
      /\ \A f \in Fds : f # c => Leaves(Results, x, y, f)
  BY <1>2, AddNode
<1>4. NodeAt(Results, y, c, "table", "read")
  BY <1>3 DEF Queued, Away
<1> QED  BY <1>1, <1>3, <1>4 DEF NodeGoes, Steady

LEMMA RepliedFits ==
  ASSUME NEW o, NEW l, NEW n, NEW m, NEW k, NEW en, NEW xn, NEW ta, NEW al, NEW rd,
         NEW p, Replied(o, l, n, m, k, en, xn, ta, al, rd, p)
  PROVE  Fitting(l, m, k, xn, ta, al, "wait", rd, p) /\ ~Owes(l, xn) /\ en.seq # 0
<1>1. /\ o.loc = "replied" /\ Counted(o, n, k, en, ta) /\ StateFits(o, en, ta, p)
      /\ PollFits(o, en, al, "wait", rd, p) /\ n \in Nat /\ m = n + 1
      /\ l.msg = o.msg /\ l.acc = o.acc /\ xn.seq = en.seq /\ en.ref \in Nat
      /\ al \in {"in", "out"}
  BY DEF Replied, OneMore, Fitting
<1>2. en.state = "IDLE" /\ ~ta.idle /\ l.msg = "none" /\ p = 3 /\ en.seq # 0
  BY <1>1 DEF StateFits
<1>3. en.ref = n + 1 /\ al = "out" /\ (rd = "yes" => FALSE)
  BY <1>1, <1>2 DEF Counted, Kept, PollFits
<1>4. CASE l.loc = "none" /\ xn.state = en.state /\ xn.ref = en.ref
  <2>1. Counted(l, m, k, xn, ta)
    BY <1>1, <1>2, <1>3, <1>4 DEF Counted, Kept
  <2>2. StateFits(l, xn, ta, p)
    BY <1>1, <1>2, <1>4 DEF StateFits
  <2>3. PollFits(l, xn, al, "wait", rd, p)
    BY <1>1, <1>2, <1>3, <1>4 DEF PollFits
  <2>4. ~Owes(l, xn)
    BY <1>2, <1>4 DEF Owes, Watched
  <2> QED  BY <1>2, <2>1, <2>2, <2>3, <2>4 DEF Fitting
<1>6. CASE l.loc \in Polled /\ l.op = "read" /\ xn.state = "CLOSING" /\ xn.ref = en.ref + 1
  <2>0. l.loc \notin {"none", "ended", "replied"}
    BY <1>6 DEF Polled
  <2>1. Counted(l, m, k, xn, ta)
    BY <1>1, <1>2, <1>3, <1>6, <2>0 DEF Counted, Kept
  <2>2. StateFits(l, xn, ta, p)
    BY <1>1, <1>2, <1>6, <2>0 DEF StateFits
  <2>3. PollFits(l, xn, al, "wait", rd, p)
    BY <1>1, <1>2, <1>3, <1>6 DEF PollFits
  <2>4. ~Owes(l, xn)
    BY <1>2, <1>6 DEF Owes, Watched
  <2> QED  BY <1>2, <2>1, <2>2, <2>3, <2>4 DEF Fitting
<1> QED  BY <1>4, <1>6 DEF Replied

LEMMA RepliedKeeps ==
  ASSUME NEW g \in Places, NEW z \in ServicePlaces, Inv(g, z), NEW w \in Workers,
         NEW c \in Conns, AtHand(worker[w], "replied", c), GoesTell(w, "SUCCESS"),
         UNCHANGED <<pollers, users, flags>>,
         NEW v, v.pc = "handle", v.s = worker[w].s, v.st = "SUCCESS", Continues(w, v, c),
         NEW l \in PlaceSet, NEW xn \in EntrySet,
         RepliedTo(g[c], l, Holding(c), Holders(worker', user, c),
                   Open(c), c, xn)
  PROVE  IInv'
<1>1. /\ Types /\ AliveOK /\ ~obj.bad /\ Serv(z) /\ LastAtHand(c)
      /\ worker \in [Workers -> WorkerSet] /\ obj.target[c] \in TargetSet
      /\ obj.service \in ServiceSet /\ \A t \in Sessions : t[1] = c => Sess(g[c], t)
  BY ConnIs, InvParts
<1>2. PICK o, n, m, k, en, ta, sv, al, rd, p, q :
         /\ o = g[c] /\ n = Holding(c) /\ k = Open(c)
         /\ m = Holders(worker', user, c) /\ en = obj.entry[c] /\ ta = obj.target[c]
         /\ sv = obj.service /\ al = Alive(c) /\ q = obj.alive_list
         /\ rd = Reads(c) /\ p = Passive(c)
  OBVIOUS
<1>3. /\ PollStep(c) /\ Queued(Results, poll', l, c) /\ poll'.batch = poll.batch
      /\ obj' = Upd(obj, c, xn, ta, sv, q) /\ Replied(o, l, n, m, k, en, xn, ta, al, rd, p)
  BY <1>2 DEF RepliedTo
<1>4. Fitting(l, m, k, xn, ta, al, "wait", rd, p) /\ ~Owes(l, xn) /\ en.seq # 0
  BY <1>3, RepliedFits
<1>5. xn.seq = en.seq /\ o.loc = "replied" /\ l.msg = o.msg /\ l.acc = o.acc
      /\ l.loc \notin {"ended", "replied"}
  BY <1>3 DEF Replied, Polled
<1>6. /\ ObjStep(c) /\ obj'.entry[c] = xn /\ obj'.target[c] = ta /\ obj'.service = sv
      /\ obj'.alive_list = q
      /\ \A f \in Conns : f # c => obj'.target[f] = obj.target[f]
      /\ Alive(c)' = al
  <2>1. al = IF c \in ToSet(q) THEN "in" ELSE "out"
    BY <1>2 DEF Alive
  <2>2. obj \in ObjSet /\ ~obj.bad /\ q \in Seq(Conns)
    BY <1>1, <1>2, ObjFields DEF Types
  <2> QED  BY <1>1, <1>2, <1>3, <2>1, <2>2, ObjUpd
<1>7. PlainWork(w, v, c)
  BY <1>1, ContinuesIs
<1>8. AliveOK'
  <2>1. WorkStep(c)
    BY <1>7 DEF WorkStep, PlainWork
  <2>2. obj'.service.listening = obj.service.listening
    BY <1>2, <1>6
  <2>3. obj'.alive_list = obj.alive_list
    BY <1>2, <1>6
  <2> QED  BY <1>1, <2>1, <2>2, <2>3, AliveStep DEF Serv
<1>9. ServiceFits(z, obj'.service, Cardinality(Live(obj')))
  <2>1. Live(obj') = Live(obj)
    <3>1. obj'.target[c].state = obj.target[c].state
      BY <1>2, <1>6
    <3> QED  BY <1>6, <3>1 DEF Live
  <2> QED  BY <1>1, <1>2, <1>6, <2>1 DEF Serv
<1>10. HandsGo(worker[w], v, c, g[c], l)
  BY <1>2, <1>5, TokenGone DEF AtHand
<1>11. At(c) = "wait"
  BY <1>2, <1>5, NotAt
<1>12. PICK s, se : s = LastSession(c) /\ se = session[s]
  OBVIOUS
<1>13. UNCHANGED <<pollers, mutex, user, flags>> /\ session' = session
  BY DEF users
<1>14. /\ SessionTurns(s, se) /\ Passive(c) = se.passive /\ Phases(se, user[s])
       /\ s \in Sessions /\ Sess(g[c], s)
  BY <1>2, <1>4, <1>12, <1>13, LastStays
<1>15. worker[w].s = s /\ worker[w].pc = "replied"
  BY <1>1, <1>12 DEF LastAtHand, AtHand
<1>16. SpeaksFor(worker[w], s)
  BY <1>15 DEF SpeaksFor, Speaking
<1>17. Sending(se, user[s])
  BY <1>12, <1>14, <1>15, <1>16 DEF Sess, Speaker
<1>18. Speaker(v, se, user[s])
  BY <1>17 DEF Speaker
<1>19. Fitting(l, Holders(worker', user, c), Open(c), obj'.entry[c],
               obj'.target[c], Alive(c)', At(c), Reads(c), se.passive)
  BY <1>2, <1>4, <1>6, <1>11, <1>14
<1> QED  BY <1>2, <1>3, <1>4, <1>5, <1>6, <1>7, <1>8, <1>9, <1>10, <1>12, <1>13, <1>14, <1>15, <1>16,
            <1>18, <1>19, WorkerSpeaks

LEMMA HandleReplyResultKeeps ==
  ASSUME NEW g \in Places, NEW z \in ServicePlaces, Inv(g, z), NEW w \in Workers,
         handle_reply_result(w)
  PROVE  IInv'
<1>1. /\ worker \in [Workers -> WorkerSet] /\ worker[w] \in WorkerSet /\ worker[w].pc = "replied"
      /\ obj \in ObjSet
  BY InvParts DEF Types, handle_reply_result
<1>2. PICK c \in Conns : c = Fd(w) /\ AtHand(worker[w], "replied", c)
  BY <1>1 DEF WorkerSet, OfConn, Fd, AtHand, Subject
<1>3. UNCHANGED <<pollers, users, flags>> /\ GoesTell(w, "SUCCESS")
  BY DEF handle_reply_result, GoesTell
<1>4. /\ g[c] \in PlaceSet /\ Fits(g[c], c) /\ Queued(Results, poll, g[c], c)
      /\ obj.entry[c] \in EntrySet /\ obj.target[c] \in TargetSet /\ obj.service \in ServiceSet
      /\ obj.alive_list \in Seq(Conns) /\ poll \in Group(Results)
  BY ConnIs
<1>5. g[c].loc = "replied"
  BY <1>2, HandIs
<1>6. /\ Usable(obj, c) /\ obj.entry[c].state \notin {"NONE", "FREED"} /\ UseTarget(obj, c) = obj
  BY <1>5, EntryUsable
<1>7. PICK v : /\ v.pc = "handle" /\ v.s = worker[w].s /\ v.st = "SUCCESS" /\ Continues(w, v, c)
               /\ OneMore(Holders(worker', user, c), Holding(c))
  BY <1>1, <1>2, <1>3, TellsNext DEF Tells
<1>8. At(c) = "wait"
  BY <1>5, NotAt
<1>9. PICK o, n, m, k, en, ta, sv, al, rd, p, q :
         /\ o = g[c] /\ n = Holding(c) /\ k = Open(c)
         /\ m = Holders(worker', user, c) /\ en = obj.entry[c] /\ ta = obj.target[c]
         /\ sv = obj.service /\ al = Alive(c) /\ rd = Reads(c) /\ p = Passive(c)
         /\ q = obj.alive_list
  OBVIOUS
<1>10. /\ Fitting(o, n, k, en, ta, al, "wait", rd, p) /\ OneMore(m, n) /\ en.ref \in Nat
       /\ al \in {"in", "out"} /\ al = IF c \in ToSet(q) THEN "in" ELSE "out"
  BY <1>4, <1>7, <1>8, <1>9 DEF Fits, EntrySet, Alive
<1>11. SUFFICES ASSUME TRUE
                PROVE  \E l \in PlaceSet, xn \in EntrySet : RepliedTo(o, l, n, m, k, c, xn)
  BY <1>2, <1>3, <1>7, <1>9, RepliedKeeps
<1>12. CASE UNCHANGED <<obj, poll>>
  <2>1. PICK l : l = PlacedAt(o, "none", "read")
    OBVIOUS
  <2>2. l \in PlaceSet /\ l.loc = "none" /\ l.msg = o.msg /\ l.acc = o.acc
    BY <1>4, <1>9, <2>1, PlacedFields
  <2>3. PollStep(c) /\ Queued(Results, poll', l, c) /\ poll'.batch = poll.batch
    BY <1>4, <1>5, <1>9, <1>12, <2>2, PollAway DEF Away
  <2>4. obj' = Upd(obj, c, en, ta, sv, q)
    BY <1>1, <1>9, <1>12, UpdSame
  <2>5. Replied(o, l, n, m, k, en, en, ta, al, rd, p)
    BY <1>5, <1>9, <1>10, <2>2 DEF Replied
  <2>6. RepliedTo(o, l, n, m, k, c, en)
    BY <1>9, <1>10, <2>3, <2>4, <2>5 DEF RepliedTo
  <2> QED  BY <1>4, <1>9, <2>2, <2>6
<1>14. PICK y : y = mpoller_add(poll, c, "read")
  OBVIOUS
<1>15. CASE poll' = mpoller_del(y, c) /\ obj' = UseService(CloseMore(obj, c))
  <2>1. PICK l : l = PlacedAt(o, "table", "read")
    OBVIOUS
  <2>2. l \in PlaceSet /\ l.loc = "table" /\ l.op = "read" /\ l.msg = o.msg /\ l.acc = o.acc
    BY <1>4, <1>9, <2>1, PlacedFields
  <2>3. NodeGoes(poll, y, o, c, l) /\ y.batch = poll.batch
    BY <1>4, <1>5, <1>9, <1>14, <2>1, Adds DEF Away
  <2>4. PICK xn : /\ EntryIs(en, "CLOSING", en.ref + 1, xn)
                  /\ CloseMore(obj, c) = Upd(obj, c, xn, ta, sv, q)
    BY <1>6, <1>9, CloseMoreIs
  <2>5. obj' = Upd(obj, c, xn, ta, sv, q)
    <3>1. PICK x : x = CloseMore(obj, c)
      OBVIOUS
    <3>2. x \in ObjSet /\ x.service = sv /\ x.bad = obj.bad
      BY <1>1, <1>4, <1>9, <2>4, <3>1, UpdParts DEF EntryIs
    <3>3. UseService(x) = x
      BY <1>6, <1>9, <3>2, UseIsGood DEF Usable
    <3> QED  BY <1>15, <2>4, <3>1, <3>3
  <2>6. y \in Group(Results) /\ Queued(Results, y, l, c)
    BY <1>4, <1>9, <2>3, NodeGoesQueued DEF NodeGoes
  <2>7. PICK r \in PlaceSet : /\ NodeGoes(y, poll', l, c, r) /\ MovesOn(l, r)
                              /\ poll'.batch = y.batch
    BY <1>15, <2>2, <2>6, Dels
  <2>8. r.loc \in Polled /\ r.op = "read" /\ r.msg = o.msg /\ r.acc = o.acc
    BY <2>2, <2>7 DEF MovesOn, Polled
  <2>9. NodeGoes(poll, poll', o, c, r)
    BY <2>3, <2>7, NodeGoesOn
  <2>10. PollStep(c) /\ Queued(Results, poll', r, c) /\ poll'.batch = poll.batch
    BY <1>4, <1>9, <2>3, <2>7, <2>9, NodeGoesPoll
  <2>11. Replied(o, r, n, m, k, en, xn, ta, al, rd, p)
    BY <1>5, <1>9, <1>10, <2>4, <2>8 DEF Replied, EntryIs
  <2>12. RepliedTo(o, r, n, m, k, c, xn)
    BY <1>9, <2>5, <2>10, <2>11 DEF RepliedTo
  <2> QED  BY <2>4, <2>12 DEF EntryIs
<1>16. \/ UNCHANGED <<obj, poll>>
       \/ poll' = mpoller_del(y, c) /\ obj' = UseService(CloseMore(obj, c))
  BY <1>2, <1>6, <1>14 DEF handle_reply_result, CloseMore
<1> QED  BY <1>12, <1>15, <1>16

----
(* A session is told, and the handler's reference is given back. *)

LEMMA ToldMore ==
  ASSUME NEW t \in Seq(Tells), NEW x \in Tells, NEW q, q = Append(t, x)
  PROVE  /\ t = <<>> => Len(t) = 0 /\ Len(q) = 1 /\ q[1] = x
         /\ Len(t) = 1 => Len(q) = 2 /\ q[1] = t[1] /\ q[2] = x
  OBVIOUS

LEMMA HearsIs ==
  ASSUME NEW se \in SessionSet, NEW x \in Tells, NEW u, NEW y, Phases(se, u), Hears(se, x, u, y),
         NEW sn, sn = WithTold(se, x)
  PROVE  /\ sn \in SessionSet /\ Phases(sn, y) /\ sn.passive = se.passive
         /\ u = y \/ (u = "none" /\ y = "toreply")
         /\ se.passive # 0
<1>1. sn \in SessionSet /\ sn.passive = se.passive /\ sn.told = Append(se.told, x)
  <2>1. 0 \in 0 .. 4
    OBVIOUS
  <2> QED  BY <2>1, SessionFields
<1>2. PICK t, q : t = se.told /\ q = sn.told
  OBVIOUS
<1>3. /\ t = <<>> => Len(t) = 0 /\ Len(q) = 1 /\ q[1] = x
      /\ Len(t) = 1 => Len(q) = 2 /\ q[1] = t[1] /\ q[2] = x
  <2>1. t \in Seq(Tells) /\ q = Append(t, x)
    BY <1>1, <1>2 DEF SessionSet
  <2> QED  BY <2>1, ToldMore
<1>4. CASE x = "TOREPLY"
  <2>1. se.passive = 2 /\ t = <<>> /\ y = "toreply"
    BY <1>2, <1>4 DEF Hears, Asking
  <2>2. u = "none"
    BY <1>2, <1>3, <2>1 DEF Phases, Asked
  <2>3. Asked(q)
    BY <1>3, <1>4, <2>1 DEF Asked
  <2> QED  BY <1>1, <1>2, <2>1, <2>2, <2>3 DEF Phases
<1>5. CASE x # "TOREPLY" /\ Receiving(se)
  <2>1. se.passive = 1 /\ t = <<>> /\ y = u
    BY <1>2, <1>5 DEF Hears, Receiving
  <2>2. u = "none"
    BY <1>2, <1>3, <2>1 DEF Phases, EndOnly
  <2>3. EndOnly(q)
    BY <1>3, <1>5, <2>1 DEF EndOnly
  <2> QED  BY <1>1, <1>2, <2>1, <2>2, <2>3 DEF Phases
<1>6. CASE x # "TOREPLY" /\ Sending(se, u)
  <2>1. se.passive = 3 /\ Asked(t) /\ y = u /\ u \in {"sending", "returned"}
    BY <1>2, <1>6 DEF Hears, Sending
  <2>2. AskedAndEnd(q)
    BY <1>3, <1>6, <2>1 DEF Asked, AskedAndEnd
  <2> QED  BY <1>1, <1>2, <2>1, <2>2 DEF Phases
<1> QED  BY <1>4, <1>5, <1>6 DEF Hears

LEMMA TellFrame ==
  ASSUME NEW g \in Places, NEW z \in ServicePlaces, Inv(g, z), NEW c \in Conns,
         NEW w, NEW v, HasTold(w, v, c)
  PROVE  /\ PlainWork(w, v, c) /\ PollStep(c) /\ poll'.batch = poll.batch
         /\ Queued(Results, poll', g[c], c) /\ ObjStep(c) /\ AliveOK'
         /\ ServiceFits(z, obj'.service, Cardinality(Live(obj')))
         /\ HandsGo(worker[w], v, c, g[c], g[c]) /\ FlagStep
         /\ \A u : Holders(worker', u, c) = Holders(worker, u, c)
         /\ v.pc \notin Speaking /\ Alive(c)' = Alive(c) /\ obj' = obj
<1>1. /\ Types /\ AliveOK /\ ~obj.bad /\ Serv(z) /\ Queued(Results, poll, g[c], c)
      /\ poll \in Group(Results) /\ worker \in [Workers -> WorkerSet]
  BY ConnIs, InvParts
<1>2. /\ v.pc = "unref" /\ worker[w].pc = "handle" /\ Continues(w, v, c)
      /\ poll' = poll /\ obj' = obj /\ UNCHANGED flags
  BY DEF HasTold
<1>3. PlainWork(w, v, c) /\ \A u : Holders(worker', u, c) = Holders(worker, u, c)
  BY <1>1, <1>2, ContinuesIs DEF HoldsRef
<1>4. PollStep(c) /\ Queued(Results, poll', g[c], c) /\ poll'.batch = poll.batch
  BY <1>1, <1>2, PollSame
<1>5. ObjStep(c) /\ Alive(c)' = Alive(c)
  BY <1>1, <1>2, ObjSame DEF KeepsObj
<1>6. AliveOK'
  <2>1. WorkStep(c)
    BY <1>3 DEF WorkStep, PlainWork
  <2> QED  BY <1>1, <1>2, <2>1, AliveStep DEF Serv
<1>7. ServiceFits(z, obj'.service, Cardinality(Live(obj')))
  BY <1>1, <1>2 DEF Serv
<1>8. HandsGo(worker[w], v, c, g[c], g[c])
  BY <1>2, HandsStay DEF SameHands
<1>9. FlagStep
  BY <1>1, <1>2 DEF FlagStep, flags, Types
<1> QED  BY <1>2, <1>3, <1>4, <1>5, <1>6, <1>7, <1>8, <1>9 DEF Speaking

LEMMA TellSession ==
  ASSUME NEW g \in Places, NEW z \in ServicePlaces, Inv(g, z), NEW c \in Conns,
         NEW w, NEW v, HasTold(w, v, c), NEW s \in Sessions, worker[w].s = s, s[1] = c,
         NEW sn, sn = WithTold(session[s], worker[w].st), session' = [session EXCEPT ![s] = sn],
         user' = IF worker[w].st = "TOREPLY" THEN [user EXCEPT ![s] = "toreply"] ELSE user
  PROVE  IInv'
<1>1. /\ Types /\ worker \in [Workers -> WorkerSet] /\ session \in [Sessions -> SessionSet]
      /\ user \in [Sessions -> UserPcs] /\ Fits(g[c], c)
      /\ \A t \in Sessions : t[1] = c => Sess(g[c], t)
  BY ConnIs, InvParts
<1>2. /\ PlainWork(w, v, c) /\ PollStep(c) /\ poll'.batch = poll.batch
      /\ Queued(Results, poll', g[c], c) /\ ObjStep(c) /\ AliveOK'
      /\ ServiceFits(z, obj'.service, Cardinality(Live(obj')))
      /\ HandsGo(worker[w], v, c, g[c], g[c]) /\ FlagStep
      /\ \A u : Holders(worker', u, c) = Holders(worker, u, c)
      /\ v.pc \notin Speaking /\ Alive(c)' = Alive(c) /\ obj' = obj
  BY TellFrame
<1>3. /\ w \in Workers /\ WorksOn(w, v) /\ worker[w].pc = "handle" /\ v.pc = "unref"
      /\ UNCHANGED pollers /\ mutex' = mutex
  BY <1>2 DEF HasTold, PlainWork
<1>4. Sess(g[c], s) /\ SpeaksFor(worker[w], s)
  BY <1>1, <1>3 DEF SpeaksFor, Speaking
<1>5. PICK x, y : x = worker[w].st /\ y = user'[s]
  OBVIOUS
<1>6. x \in Tells /\ y = (IF x = "TOREPLY" THEN "toreply" ELSE user[s])
      /\ (\A t \in Sessions : t # s => user'[t] = user[t]) /\ user' \in [Sessions -> UserPcs]
  BY <1>1, <1>3, <1>5 DEF WorkerSet, UserPcs
<1>7. Hears(session[s], x, user[s], y) /\ Phases(session[s], user[s])
  <2>1. Speaker(worker[w], session[s], user[s]) /\ Phases(session[s], user[s])
    BY <1>3, <1>4 DEF Sess
  <2> QED  BY <1>3, <1>5, <1>6, <2>1 DEF Speaker, Hears
<1>8. /\ sn \in SessionSet /\ Phases(sn, y) /\ sn.passive = session[s].passive
      /\ user[s] = y \/ (user[s] = "none" /\ y = "toreply")
  BY <1>1, <1>5, <1>6, <1>7, HearsIs
<1>9. SessionTurns(s, sn)
  BY <1>8 DEF SessionTurns
<1>10. /\ SessStep(c) /\ session'[s] = sn /\ Undeleted(c)' = Undeleted(c)
       /\ \A t \in Sessions : t # s => session'[t] = session[t]
  BY <1>1, <1>3, <1>6, <1>9, TurnsIs
<1>11. Passive(c)' = Passive(c)
  <2>1. \A t \in Sessions : session'[t].passive = session[t].passive
    BY <1>8, <1>10
  <2>2. obj.entry[c].seq # 0 => LastSession(c) \in Sessions
    <3>1. obj.entry[c].seq \in 0 .. MaxSeq
      BY ConnIs DEF EntrySet
    <3> QED  BY <3>1, LastIsSession DEF LastSession
  <2> QED  BY <1>2, <2>1, <2>2 DEF Passive, LastSession
<1>12. Holders(worker', user', c) = Holding(c)
  <2>1. \A t \in Sessions : user'[t] \in {"sent", "handle", "unref"}
                              <=> user[t] \in {"sent", "handle", "unref"}
    BY <1>5, <1>6, <1>8
  <2>2. UserRefs(user', c) = UserRefs(user, c)
    BY <2>1 DEF UserRefs
  <2>3. Holders(worker', user', c) = Holders(worker', user, c)
    BY <2>2 DEF Holders
  <2> QED  BY <1>2, <2>3
<1>13. Fitting(g[c], Holders(worker', user', c), Cardinality(Undeleted(c)'), obj'.entry[c],
               obj'.target[c], Alive(c)', At(c), Reads(c), Passive(c)')
  <2>1. Fitting(g[c], Holding(c), Open(c), obj.entry[c],
                obj.target[c], Alive(c), At(c), Reads(c), Passive(c))
    BY <1>1 DEF Fits
  <2> QED  BY <1>2, <1>10, <1>11, <1>12, <2>1
<1>14. ASSUME NEW t \in Sessions, t[1] = c PROVE Sess(g[c], t)'
  <2>1. obj'.entry[t[1]].seq = obj.entry[t[1]].seq /\ (Owed(g[c], t)' <=> Owed(g[c], t))
    BY <1>2 DEF Owed
  <2>2. ~SpeaksFor(v, t)
    BY <1>2 DEF SpeaksFor
  <2>3. CASE t # s
    BY <1>1, <1>3, <1>6, <1>10, <1>14, <2>1, <2>2, <2>3, SessUnspoken
  <2>4. CASE t = s
    <3>1. ~Owed(g[c], s) /\ \A u \in Workers : SpeaksFor(worker[u], s) => u = w
      BY <1>3, <1>4 DEF Sess
    <3>2. worker'[w] = v /\ \A u \in Workers : u # w => worker'[u] = worker[u]
      BY <1>1, <1>3 DEF WorksOn
    <3>3. \A u \in Workers : ~SpeaksFor(worker'[u], s)
      BY <2>2, <2>4, <3>1, <3>2
    <3>4. session'[s].passive = session[s].passive /\ Phases(session'[s], user'[s])
      BY <1>5, <1>8, <1>10
    <3> QED  BY <1>4, <2>1, <2>4, <3>1, <3>3, <3>4 DEF Sess
  <2> QED  BY <2>3, <2>4
<1>15. obj'.entry[c].seq = obj.entry[c].seq /\ (v.pc \in {"request", "replied"} => v.s = LastSession(c))
  BY <1>2, <1>3
<1> QED  BY <1>2, <1>3, <1>10, <1>13, <1>14, <1>15, WorkerStep

LEMMA HandleKeeps ==
  ASSUME NEW g \in Places, NEW z \in ServicePlaces, Inv(g, z), NEW w \in Workers,
         handle(w)
  PROVE  IInv'
<1>1. /\ Types /\ worker \in [Workers -> WorkerSet] /\ worker[w] \in WorkerSet
      /\ worker[w].pc = "handle" /\ session \in [Sessions -> SessionSet]
      /\ user \in [Sessions -> UserPcs]
  BY InvParts DEF Types, handle
<1>2. PICK c \in Conns : c = Fd(w) /\ AtHand(worker[w], "handle", c)
  BY <1>1 DEF WorkerSet, OfConn, Fd, AtHand, Subject
<1>3. PICK s : s = worker[w].s
  OBVIOUS
<1>4. s \in Sessions /\ s[1] = c
  BY <1>1, <1>2, <1>3 DEF WorkerSet, Speaking, Fd
<1>5. PICK v : WorksOn(w, v) /\ GoneOn(worker[w], v, "unref") /\ v = [worker[w] EXCEPT !.pc = "unref"]
  BY <1>1, GoesOn DEF handle
<1>6. HasTold(w, v, c)
  <2>1. v \in WorkerSet /\ v.pc = "unref" /\ v.res = worker[w].res
    BY <1>1, <1>5 DEF GoneOn, WorkerSet, OfConn, Speaking
  <2>2. Continues(w, v, c)
    BY <1>1, <1>2, <1>5, <2>1 DEF Continues, OfConn, AtHand
  <2> QED  BY <1>1, <2>1, <2>2 DEF HasTold, handle
<1>7. PICK sn : sn = WithTold(session[s], worker[w].st)
  OBVIOUS
<1>8. session' = [session EXCEPT ![s] = sn]
  BY <1>3, <1>7 DEF handle, WithTold
<1>9. user' = IF worker[w].st = "TOREPLY" THEN [user EXCEPT ![s] = "toreply"] ELSE user
  BY <1>3 DEF handle
<1> QED  BY <1>3, <1>4, <1>6, <1>7, <1>8, <1>9, TellSession

LEMMA ReleasesFits ==
  ASSUME NEW l, NEW n, NEW m, NEW k, NEW en, NEW xn, NEW ta, NEW xa, NEW al, NEW a, NEW rd, NEW p,
         Releases(l, n, m, k, en, xn, ta, xa, al, a, rd, p)
  PROVE  Fitting(l, m, k, xn, xa, al, a, rd, p) /\ (Owes(l, xn) => Owes(l, en))
<1>1. /\ l \in PlaceSet /\ Counted(l, n, k, en, ta) /\ StateFits(l, en, ta, p)
      /\ PollFits(l, en, al, a, rd, p) /\ m \in Nat /\ n = m + 1 /\ al \in {"in", "out"}
      /\ (l.loc = "none" => a = "wait") /\ ReleasedTo(en, ta, xn, xa)
  BY DEF Releases, OneMore, Fitting
<1>2. CASE en.ref = 1
  <2>1. ~Kept(l) /\ n = 1 /\ m = 0 /\ k \in Nat /\ l.acc = "none" /\ ta.ref = k + 1
    <3>1. /\ n \in Nat /\ k \in Nat /\ n = m + 1 /\ m \in Nat /\ ta.state = "LIVE"
          /\ en.ref = n + (IF Kept(l) THEN 1 ELSE 0) /\ en.state \notin {"NONE", "FREED"}
      BY ONLY <1>1 DEF Counted, ReleasedTo
    <3>2. ~Kept(l) /\ n = 1 /\ m = 0
      BY ONLY <1>2, <3>1
    <3>3. l.acc = "none" /\ ta.ref = k + 1
      BY ONLY <1>1, <3>1 DEF Counted
    <3> QED  BY ONLY <3>1, <3>2, <3>3
  <2>2. l.loc = "none" /\ l.msg = "none" /\ a = "wait"
    BY <1>1, <2>1 DEF Kept
  <2>3. xn.state = "FREED" /\ xn.ref = 0 /\ xa.ref = k /\ xa.idle = ta.idle /\ xn.seq = en.seq
        /\ xa.state = IF k = 0 THEN "FREED" ELSE "LIVE"
    BY <1>1, <1>2, <2>1 DEF ReleasedTo
  <2>4. Counted(l, m, k, xn, xa)
    BY <2>1, <2>3 DEF Counted
  <2>5. ~ta.idle
    BY <1>1, <2>2 DEF StateFits, Watched
  <2>6. StateFits(l, xn, xa, p)
    BY <1>1, <2>2, <2>3, <2>5 DEF StateFits
  <2>7. PollFits(l, xn, al, a, rd, p)
    BY <1>1, <2>2, <2>3 DEF PollFits
  <2> QED  BY <2>2, <2>4, <2>6, <2>7 DEF Fitting, Owes, Watched
<1>3. CASE en.ref # 1
  <2>1. /\ xn.state = en.state /\ xn.ref = en.ref - 1 /\ xa.ref = ta.ref /\ xa.state = ta.state
        /\ xn.seq = en.seq /\ xa.idle = ta.idle /\ en.state \notin {"NONE", "FREED"}
        /\ en.ref \in Nat /\ en.ref # 0 /\ ta.state = "LIVE"
    BY <1>1, <1>3 DEF ReleasedTo
  <2>2. Counted(l, m, k, xn, xa)
    <3>1. en.ref = n + (IF Kept(l) THEN 1 ELSE 0)
      BY <1>1 DEF Counted
    <3>2. Kept(l) \/ m # 0
      BY <1>1, <1>3, <3>1
    <3>3. xn.ref = m + (IF Kept(l) THEN 1 ELSE 0)
      BY <1>1, <2>1, <3>1
    <3> QED  BY <1>1, <2>1, <3>2, <3>3 DEF Counted
  <2>3. StateFits(l, xn, xa, p)
    BY <1>1, <2>1 DEF StateFits
  <2>4. PollFits(l, xn, al, a, rd, p)
    BY <1>1, <2>1 DEF PollFits
  <2> QED  BY <2>1, <2>2, <2>3, <2>4 DEF Fitting, Owes
<1> QED  BY <1>2, <1>3

\* EntryDecref, by a thread that holds a reference.
LEMMA EntryLessIs ==
  ASSUME NEW en \in EntrySet, en.ref # 0, NEW xn, xn = EntryLess(en)
  PROVE  /\ xn \in EntrySet /\ xn.seq = en.seq /\ xn.ref = en.ref - 1
         /\ xn.state = IF en.ref = 1 THEN "FREED" ELSE en.state
<1>1. en.ref \in Nat /\ en.ref - 1 \in Nat
  BY DEF EntrySet
<1>2. PICK m : m = en.ref - 1
  OBVIOUS
<1>3. PICK y : y = WithRef(en, m)
  OBVIOUS
<1>4. en.state \in EntryStates
  BY DEF EntrySet
<1>5. y \in EntrySet /\ y.state = en.state /\ y.ref = m /\ y.seq = en.seq
  BY <1>1, <1>2, <1>3, <1>4, EntryTypes
<1>6. CASE m > 0
  BY <1>1, <1>2, <1>3, <1>5, <1>6 DEF EntryLess
<1>7. CASE ~(m > 0)
  <2>1. en.ref = 1 /\ xn = InState(y, "FREED")
    BY <1>1, <1>2, <1>3, <1>7 DEF EntryLess
  <2>2. "FREED" \in EntryStates /\ 0 \in Nat
    BY DEF EntryStates
  <2>3. /\ xn \in EntrySet /\ xn.state = "FREED" /\ xn.ref = y.ref /\ xn.seq = y.seq
    BY <1>5, <2>1, <2>2, EntryTypes
  <2> QED  BY <1>2, <1>5, <2>1, <2>3
<1> QED  BY <1>6, <1>7

LEMMA EntryGoes ==
  ASSUME NEW g \in Places, NEW z \in ServicePlaces, Inv(g, z), NEW c \in Conns,
         Holding(c) # 0, obj' = EntryDecref(obj, c)
  PROVE  /\ ObjStep(c) /\ obj'.alive_list = obj.alive_list
         /\ obj'.service.listening = obj.service.listening
         /\ ReleasedTo(obj.entry[c], obj.target[c], obj'.entry[c], obj'.target[c])
         /\ ServiceFits(z, obj'.service, Cardinality(Live(obj'))) /\ Alive(c)' = Alive(c)
<1>1. /\ Types /\ ~obj.bad /\ Serv(z) /\ obj \in ObjSet
      /\ obj.entry[c] \in EntrySet /\ obj.target[c] \in TargetSet
      /\ obj.service \in ServiceSet /\ obj.alive_list \in Seq(Conns)
  BY ConnIs, InvParts
<1>2. /\ Usable(obj, c) /\ obj.target[c].state = "LIVE"
      /\ obj.entry[c].state \notin {"NONE", "FREED"} /\ obj.entry[c].ref # 0
  BY EntryUsable
<1>3. obj.target[c].ref # 0
  BY <1>2 DEF Usable
<1>4. PICK en, ta, sv, al, xn, ya, yv :
         /\ en = obj.entry[c] /\ ta = obj.target[c] /\ sv = obj.service /\ al = obj.alive_list
         /\ xn = EntryLess(en) /\ ya = TargetLess(ta) /\ yv = SvAfter(ta, sv)
  OBVIOUS
<1>5. /\ xn \in EntrySet /\ xn.seq = en.seq /\ xn.ref = en.ref - 1
      /\ xn.state = IF en.ref = 1 THEN "FREED" ELSE en.state
  BY <1>1, <1>2, <1>4, EntryLessIs
<1>6. /\ ya \in TargetSet /\ ya.ref = ta.ref - 1 /\ ya.idle = ta.idle
      /\ ya.state = (IF ta.ref = 1 THEN "FREED" ELSE "LIVE") /\ ta.ref \in Nat
  BY <1>1, <1>2, <1>3, <1>4, TargetLessIs
<1>7. /\ yv \in ServiceSet /\ yv.listening = sv.listening
      /\ \A y : y.service = yv /\ y.target[c] = ya
                   /\ (\A f \in Conns : f # c => y.target[f] = obj.target[f])
                => ServiceFits(z, y.service, Cardinality(Live(y)))
  BY <1>1, <1>2, <1>3, <1>4, TargetGone
<1>8. en.ref \in Nat
  BY <1>1, <1>4 DEF EntrySet
<1>9. Alive(c) = IF c \in ToSet(al) THEN "in" ELSE "out"
  BY <1>4 DEF Alive
<1>10. CASE en.ref = 1
  <2>1. obj' = Upd(obj, c, xn, ya, yv, al)
    <3>1. ~(obj.entry[c].ref - 1 > 0)
      BY <1>4, <1>10
    <3>2. obj' = Upd(obj, c, EntryLess(obj.entry[c]), TargetLess(obj.target[c]),
                     SvAfter(obj.target[c], obj.service), obj.alive_list)
      BY <1>2, <3>1, EntryDecrefIs
    <3> QED  BY <1>4, <3>2
  <2>2. /\ ObjStep(c) /\ obj'.entry[c] = xn /\ obj'.target[c] = ya /\ obj'.service = yv
        /\ obj'.alive_list = al
        /\ \A f \in Conns : f # c => obj'.target[f] = obj.target[f]
        /\ Alive(c)' = IF c \in ToSet(al) THEN "in" ELSE "out"
    BY <1>1, <1>4, <1>5, <1>6, <1>7, <2>1, ObjUpd
  <2>3. ServiceFits(z, obj'.service, Cardinality(Live(obj')))
    BY <1>7, <2>2
  <2>4. ReleasedTo(en, ta, xn, ya)
    BY <1>2, <1>4, <1>5, <1>6, <1>8, <1>10 DEF ReleasedTo
  <2> QED  BY <1>4, <1>7, <1>9, <2>2, <2>3, <2>4
<1>11. CASE en.ref # 1
  <2>1. obj' = Upd(obj, c, xn, ta, sv, al)
    <3>1. en.ref - 1 > 0
      BY <1>2, <1>4, <1>8, <1>11
    <3> QED  BY <1>2, <1>4, <3>1, EntryDecrefIs
  <2>2. /\ ObjStep(c) /\ obj'.entry[c] = xn /\ obj'.target[c] = ta /\ obj'.service = sv
        /\ obj'.alive_list = al
        /\ \A f \in Conns : f # c => obj'.target[f] = obj.target[f]
        /\ Alive(c)' = IF c \in ToSet(al) THEN "in" ELSE "out"
    BY <1>1, <1>4, <1>5, <2>1, ObjUpd
  <2>3. Live(obj') = Live(obj)
    <3>1. obj'.target[c].state = obj.target[c].state
      BY <1>4, <2>2
    <3> QED  BY <2>2, <3>1 DEF Live
  <2>4. ServiceFits(z, obj'.service, Cardinality(Live(obj')))
    BY <1>1, <1>4, <2>2, <2>3 DEF Serv
  <2>5. ReleasedTo(en, ta, xn, ta)
    BY <1>2, <1>4, <1>5, <1>6, <1>8, <1>11 DEF ReleasedTo
  <2> QED  BY <1>4, <1>9, <2>2, <2>4, <2>5
<1> QED  BY <1>10, <1>11

\* What that leaves of the connection, when the references are m in all.
LEMMA EntryGoesFits ==
  ASSUME NEW g \in Places, NEW z \in ServicePlaces, Inv(g, z), NEW c \in Conns,
         NEW m, OneMore(Holding(c), m), obj' = EntryDecref(obj, c)
  PROVE  /\ Fitting(g[c], m, Open(c), obj'.entry[c], obj'.target[c], Alive(c)',
                    At(c), Reads(c), Passive(c))
         /\ Owes(g[c], obj'.entry[c]) => Owes(g[c], obj.entry[c])
         /\ obj'.entry[c].seq = obj.entry[c].seq
<1>1. Holding(c) # 0
  BY DEF OneMore
<1>2. ReleasedTo(obj.entry[c], obj.target[c], obj'.entry[c], obj'.target[c])
      /\ Alive(c)' = Alive(c)
  BY <1>1, EntryGoes
<1>3. Fits(g[c], c) /\ g[c] \in PlaceSet
  BY ConnIs
<1>4. g[c].loc = "none" => At(c) = "wait"
  BY NotAt
<1>5. PICK n, k, en, ta, al, a, rd, p, xn, xa :
         /\ n = Holding(c) /\ k = Open(c)
         /\ en = obj.entry[c] /\ ta = obj.target[c] /\ al = Alive(c) /\ a = At(c)
         /\ rd = Reads(c) /\ p = Passive(c) /\ xn = obj'.entry[c] /\ xa = obj'.target[c]
  OBVIOUS
<1>6. Fitting(g[c], n, k, en, ta, al, a, rd, p)
  BY <1>3, <1>5 DEF Fits
<1>7. al \in {"in", "out"}
  BY <1>5 DEF Alive
<1>8. Releases(g[c], n, m, k, en, xn, ta, xa, al, a, rd, p)
  BY <1>2, <1>3, <1>4, <1>5, <1>6, <1>7 DEF Releases
<1>9. Fitting(g[c], m, k, xn, xa, al, a, rd, p) /\ (Owes(g[c], xn) => Owes(g[c], en))
  BY <1>8, ReleasesFits
<1>10. xn.seq = en.seq
  BY <1>2, <1>5 DEF ReleasedTo
<1> QED  BY <1>2, <1>5, <1>9, <1>10

LEMMA ReleaseConnKeeps ==
  ASSUME NEW g \in Places, NEW z \in ServicePlaces, Inv(g, z), NEW w \in Workers,
         release_conn(w)
  PROVE  IInv'
<1>1. /\ worker \in [Workers -> WorkerSet] /\ worker[w] \in WorkerSet /\ worker[w].pc = "unref"
  BY InvParts DEF Types, release_conn
<1>2. PICK c \in Conns : c = Fd(w) /\ AtHand(worker[w], "unref", c)
  BY <1>1 DEF WorkerSet, OfConn, Fd, AtHand, Subject
<1>3. PICK v : v = Getting
  OBVIOUS
<1>4. v \in WorkerSet /\ v.pc = "get" /\ WorksOn(w, v)
  BY <1>3, GettingIs DEF release_conn, Finish, WorksOn
<1>5. Continues(w, v, c)
  BY <1>1, <1>2, <1>4 DEF Continues, OfConn, AtHand
<1>6. PlainWork(w, v, c) /\ OneMore(Holding(c), Holders(worker', user, c))
  BY <1>1, <1>4, <1>5, ContinuesIs DEF HoldsRef
<1>7. obj' = EntryDecref(obj, c) /\ poll' = poll /\ UNCHANGED <<pollers, users, flags>>
  BY <1>2 DEF release_conn
<1>8. Holding(c) # 0
  BY <1>6 DEF OneMore
<1>9. /\ ObjStep(c) /\ ListStep /\ ServiceFits(z, obj'.service, Cardinality(Live(obj')))
  BY <1>7, <1>8, EntryGoes DEF ListStep
<1>10. /\ Fitting(g[c], Holders(worker', user, c), Open(c), obj'.entry[c],
                  obj'.target[c], Alive(c)', At(c), Reads(c), Passive(c))
       /\ Owes(g[c], obj'.entry[c]) => Owes(g[c], obj.entry[c])
       /\ obj'.entry[c].seq = obj.entry[c].seq
  BY <1>6, <1>7, EntryGoesFits
<1>11. PollStep(c) /\ Queued(Results, poll', g[c], c) /\ poll'.batch = poll.batch
  <2>1. poll \in Group(Results) /\ Queued(Results, poll, g[c], c)
    BY ConnIs
  <2> QED  BY <1>7, <2>1, PollSame
<1>12. HandsGo(worker[w], v, c, g[c], g[c])
  BY <1>1, <1>4, HandsStay DEF SameHands
<1>13. v.pc \notin Speaking /\ g[c] \in PlaceSet
  BY <1>4 DEF Speaking
<1> QED  BY <1>6, <1>7, <1>9, <1>10, <1>11, <1>12, <1>13, WorkerQuiet

----
(* The users: what their steps have in common. *)

LEMMA SpeakerIs ==
  ASSUME NEW v, NEW se, NEW u, NEW sn, NEW y, v.pc \in Speaking, Speaker(v, se, u)
  PROVE  ~Unspoken(se, u) /\ (Turns(se, u, sn, y) => Speaker(v, sn, y))
BY DEF Speaking, Speaker, Unspoken, Turns

LEMMA UserSess ==
  ASSUME NEW o, NEW l, NEW s \in Sessions, Sess(o, s), worker' = worker,
         obj'.entry[s[1]].seq = obj.entry[s[1]].seq,
         Turns(session[s], user[s], session'[s], user'[s]),
         Owed(l, s)' => Owed(o, s) \/ (Unspoken(session[s], user[s])
                                         /\ Sending(session'[s], user'[s]))
  PROVE  Sess(l, s)'
<1>1. PICK se, u, sn, y :
         se = session[s] /\ u = user[s] /\ sn = session'[s] /\ y = user'[s]
  OBVIOUS
<1>2. /\ Turns(se, u, sn, y)
      /\ Owed(l, s)' => Owed(o, s) \/ (Unspoken(se, u) /\ Sending(sn, y))
  BY <1>1
<1>3. /\ se.passive = 0 <=> s[2] > obj.entry[s[1]].seq
      /\ s[2] < obj.entry[s[1]].seq => se.passive \in {3, 4}
      /\ Owed(o, s) => /\ Receiving(se) \/ Sending(se, u)
                       /\ \A w \in Workers : ~SpeaksFor(worker[w], s)
      /\ \A w \in Workers : SpeaksFor(worker[w], s) => Speaker(worker[w], se, u)
      /\ \A v, w \in Workers : SpeaksFor(worker[v], s) /\ SpeaksFor(worker[w], s) => v = w
  BY <1>1 DEF Sess
<1>4. /\ sn.passive = 0 <=> s[2] > obj'.entry[s[1]].seq
      /\ s[2] < obj'.entry[s[1]].seq => sn.passive \in {3, 4}
      /\ Phases(sn, y)
  BY <1>2, <1>3 DEF Turns
<1>5. ASSUME NEW w \in Workers, SpeaksFor(worker[w], s)
      PROVE  Speaker(worker[w], sn, y) /\ ~Unspoken(se, u)
  <2>1. worker[w].pc \in Speaking /\ Speaker(worker[w], se, u)
    BY <1>3, <1>5 DEF SpeaksFor
  <2> QED  BY <1>2, <2>1, SpeakerIs
<1>6. ASSUME Owed(l, s)'
      PROVE  /\ Receiving(sn) \/ Sending(sn, y)
             /\ \A w \in Workers : ~SpeaksFor(worker[w], s)
  <2>1. CASE Owed(o, s)
    BY <1>2, <1>3, <2>1 DEF Turns
  <2>2. CASE Unspoken(se, u) /\ Sending(sn, y)
    BY <1>5, <2>2
  <2> QED  BY <1>2, <1>6, <2>1, <2>2
<1>7. \A w \in Workers : worker'[w] = worker[w]
  OBVIOUS
<1> QED  BY <1>1, <1>3, <1>4, <1>5, <1>6, <1>7 DEF Sess

LEMMA UserTurnsIs ==
  ASSUME Types, NEW c \in Conns, NEW s, NEW sn, NEW u, UserTurns(s, sn, u), s[1] = c
  PROVE  /\ SessStep(c) /\ session'[s] = sn /\ user'[s] = u
         /\ \A t \in Sessions : t # s => session'[t] = session[t] /\ user'[t] = user[t]
<1>1. /\ session \in [Sessions -> SessionSet] /\ s \in Sessions /\ sn \in SessionSet
      /\ session' = [session EXCEPT ![s] = sn] /\ user \in [Sessions -> UserPcs]
      /\ user' = [user EXCEPT ![s] = u] /\ u \in UserPcs
      /\ mutex' \in [Conns -> Sessions \cup {NONE}]
  BY DEF Types, UserTurns
<1>2. /\ session' \in [Sessions -> SessionSet] /\ session'[s] = sn
      /\ \A t \in Sessions : t # s => session'[t] = session[t]
  BY <1>1, SessionPut
<1>3. /\ user' \in [Sessions -> UserPcs] /\ user'[s] = u
      /\ \A t \in Sessions : t # s => user'[t] = user[t]
  BY <1>1
<1>4. SessStep(c)
  BY <1>1, <1>2, <1>3 DEF SessStep, KeepsSession
<1> QED  BY <1>2, <1>3, <1>4

LEMMA UserCounts ==
  ASSUME Types, NEW c \in Conns, NEW s, NEW sn, NEW u, UserTurns(s, sn, u), s[1] = c
  PROVE  /\ (UserHolds(u) <=> UserHolds(user[s])) => Holders(worker, user', c) = Holding(c)
         /\ UserHolds(u) /\ ~UserHolds(user[s])
               => OneMore(Holders(worker, user', c), Holding(c))
         /\ ~UserHolds(u) /\ UserHolds(user[s])
               => OneMore(Holding(c), Holders(worker, user', c))
         /\ (sn.passive \in 1 .. 3 <=> session[s].passive \in 1 .. 3)
               => Undeleted(c)' = Undeleted(c)
         /\ sn.passive = 4 /\ session[s].passive \in 1 .. 3
               => OneMore(Open(c), Cardinality(Undeleted(c)'))
<1>1. /\ session'[s] = sn /\ user'[s] = u /\ s \in Sessions
      /\ \A t \in Sessions : t # s => session'[t] = session[t] /\ user'[t] = user[t]
  <2>1. s \in Sessions
    BY DEF UserTurns
  <2> QED  BY <2>1, UserTurnsIs
<1>2. PICK S, T : S = UserRefs(user, c) /\ T = UserRefs(user', c)
  OBVIOUS
<1>3. /\ \A t : t \in S <=> t \in Sessions /\ t[1] = c /\ UserHolds(user[t])
      /\ \A t : t \in T <=> t \in Sessions /\ t[1] = c /\ UserHolds(user'[t])
  BY <1>2 DEF UserRefs, UserHolds
<1>4. IsFiniteSet(S) /\ IsFiniteSet(T)
  BY <1>2, UserRefsFinite
<1>5. (UserHolds(u) <=> UserHolds(user[s])) => T = S
  BY <1>1, <1>3
<1>6. UserHolds(u) /\ ~UserHolds(user[s]) => OneMore(Cardinality(T), Cardinality(S))
  <2>1. UserHolds(u) /\ ~UserHolds(user[s]) => s \notin S /\ T = S \cup {s}
    BY <1>1, <1>3
  <2> QED  BY <1>4, <2>1, CountMore
<1>7. ~UserHolds(u) /\ UserHolds(user[s]) => OneMore(Cardinality(S), Cardinality(T))
  <2>1. ~UserHolds(u) /\ UserHolds(user[s]) => s \in S /\ T = S \ {s}
    BY <1>1, <1>3
  <2> QED  BY <1>4, <2>1, CountLess
<1>8. PICK r, i, j : /\ r = Cardinality(Refs(worker, c)) /\ i = Cardinality(S) /\ j = Cardinality(T)
  OBVIOUS
<1>9. /\ r \in Nat /\ i \in Nat /\ j \in Nat
      /\ Holding(c) = r + i /\ Holders(worker, user', c) = r + j
  BY <1>2, <1>8, RefsFinite, UserRefsFinite DEF Holders
<1>10. /\ OneMore(j, i) => OneMore(r + j, r + i)
       /\ OneMore(i, j) => OneMore(r + i, r + j)
  BY <1>9 DEF OneMore
<1>11. /\ (UserHolds(u) <=> UserHolds(user[s])) => Holders(worker, user', c) = Holding(c)
       /\ UserHolds(u) /\ ~UserHolds(user[s])
             => OneMore(Holders(worker, user', c), Holding(c))
       /\ ~UserHolds(u) /\ UserHolds(user[s])
             => OneMore(Holding(c), Holders(worker, user', c))
  BY <1>5, <1>6, <1>7, <1>8, <1>9, <1>10
<1>12. PICK D, E : D = Undeleted(c) /\ E = Undeleted(c)'
  OBVIOUS
<1>13. /\ \A t : t \in D <=> t \in Sessions /\ t[1] = c /\ session[t].passive \in 1 .. 3
       /\ \A t : t \in E <=> t \in Sessions /\ t[1] = c /\ session'[t].passive \in 1 .. 3
  BY <1>12 DEF Undeleted
<1>14. (sn.passive \in 1 .. 3 <=> session[s].passive \in 1 .. 3) => E = D
  BY <1>1, <1>13
<1>15. sn.passive = 4 /\ session[s].passive \in 1 .. 3
          => OneMore(Cardinality(D), Cardinality(E))
  <2>1. sn.passive = 4 /\ session[s].passive \in 1 .. 3 => s \in D /\ E = D \ {s}
    BY <1>1, <1>13
  <2>2. IsFiniteSet(D)
    <3>1. \A t \in D : t \in Sessions
      BY <1>13
    <3> QED  BY <3>1, Constants, FS_Subset
  <2> QED  BY <2>1, <2>2, CountLess
<1> QED  BY <1>11, <1>12, <1>14, <1>15

\* A step of the user of s, whose connection is c.
LEMMA UserStep ==
  ASSUME NEW g \in Places, NEW z \in ServicePlaces, Inv(g, z),
         NEW c \in Conns, NEW l \in PlaceSet, UNCHANGED <<pollers, worker, stop_flag>>,
         stray' \in SUBSET Conns,
         PollStep(c), poll'.batch = poll.batch, ObjStep(c), AliveOK',
         ServiceFits(z, obj'.service, Cardinality(Live(obj'))),
         Queued(Results, poll', l, c), SameHands(g[c], l),
         obj'.entry[c].seq = obj.entry[c].seq,
         NEW s, NEW sn, NEW u, UserTurns(s, sn, u), s[1] = c,
         Fitting(l, Holders(worker, user', c), Cardinality(Undeleted(c)'), obj'.entry[c],
                 obj'.target[c], Alive(c)', At(c), Reads(c), Passive(c)'),
         Owes(l, obj'.entry[c]) =>
            \/ Owes(g[c], obj.entry[c])
            \/ Unspoken(session[s], user[s]) /\ Sending(sn, u) /\ s = LastSession(c)
  PROVE  IInv'
<1>1. /\ Types /\ PollerAt /\ Held(worker, g[c], c) /\ LastAtHand(c) /\ Serv(z)
      /\ worker' = worker /\ stop_flag' = stop_flag /\ UNCHANGED pollers
      /\ \A t \in Sessions : t[1] = c => Sess(g[c], t)
  BY ConnIs, InvParts
<1>2. /\ SessStep(c) /\ session'[s] = sn /\ user'[s] = u
      /\ \A t \in Sessions : t # s => session'[t] = session[t] /\ user'[t] = user[t]
  BY <1>1, UserTurnsIs
<1>3. WorkStep(c)
  BY <1>1 DEF WorkStep
<1>4. Held(worker', l, c)
  BY <1>1, HeldMoves
<1>5. ReadStep(c) /\ At(c)' = At(c) /\ Reads(c)' = Reads(c)
  BY <1>1, ReadSame DEF KeepsRead
<1>6. LastAtHand(c)'
  <2>1. LastSession(c)' = LastSession(c)
    BY DEF LastSession
  <2> QED  BY <1>1, <2>1 DEF LastAtHand, AtHand
<1>7. Results' = Results
  BY <1>1, SameResults
<1>8. FlagStep
  BY <1>1 DEF FlagStep
<1>9. Fits(l, c)'
  BY <1>1, <1>5 DEF Fits
<1>10. ASSUME NEW t \in Sessions, t[1] = c PROVE Sess(l, t)'
  <2>1. /\ Owed(l, t)' <=> t[2] = obj.entry[c].seq /\ Owes(l, obj'.entry[c])
        /\ Owed(g[c], t) <=> t[2] = obj.entry[c].seq /\ Owes(g[c], obj.entry[c])
    BY <1>10 DEF Owed
  <2>2. CASE t # s
    <3>1. Owed(l, t)' => Owed(g[c], t)
      <4>1. s = LastSession(c) => t[2] # obj.entry[c].seq
        <5>1. t = <<t[1], t[2]>>
          BY SessionParts
        <5> QED  BY <1>10, <2>2, <5>1 DEF LastSession
      <4> QED  BY <2>1, <4>1
    <3>2. \A w \in Workers : SpeaksFor(worker'[w], t) =>
              SpeaksFor(worker[w], t) /\ worker'[w].pc = worker[w].pc /\ worker'[w].st = worker[w].st
      BY <1>1
    <3>3. session'[t] = session[t] /\ user'[t] = user[t]
          /\ obj'.entry[t[1]].seq = obj.entry[t[1]].seq /\ Sess(g[c], t)
      BY <1>1, <1>2, <1>10, <2>2
    <3> QED  BY <3>1, <3>2, <3>3, SessKept
  <2>3. CASE t = s
    <3>1. Turns(session[t], user[t], session'[t], user'[t])
      BY <1>2, <2>3 DEF UserTurns
    <3>2. Owed(l, t)' => Owed(g[c], t) \/ (Unspoken(session[t], user[t])
                                             /\ Sending(session'[t], user'[t]))
      BY <1>2, <2>1, <2>3
    <3>3. obj'.entry[t[1]].seq = obj.entry[t[1]].seq /\ Sess(g[c], t)
      BY <1>1, <1>10
    <3> QED  BY <1>1, <3>1, <3>2, <3>3, UserSess
  <2> QED  BY <2>2, <2>3
<1>11. Conn(l, c)'
  BY <1>4, <1>6, <1>7, <1>9, <1>10 DEF Conn
<1> QED  BY <1>2, <1>3, <1>5, <1>8, <1>11, ConnStepKeeps

\* The connection of a session that is not deleted.
LEMMA UndeletedUsable ==
  ASSUME NEW g \in Places, NEW z \in ServicePlaces, Inv(g, z),
         NEW s \in Sessions, NEW c \in Conns, s[1] = c,
         session[s].passive \in 1 .. 3
  PROVE  /\ Usable(obj, c) /\ obj.target[c].state = "LIVE" /\ UseTarget(obj, c) = obj
         /\ obj.target[c].ref # 0 /\ obj.entry[c].state # "NONE"
<1>1. /\ Fits(g[c], c) /\ obj.target[c] \in TargetSet /\ obj \in ObjSet /\ ~obj.bad
  BY ConnIs
<1>2. Counted(g[c], Holding(c), Open(c), obj.entry[c], obj.target[c])
  BY <1>1 DEF Fits, Fitting
<1>3. Open(c) # 0
  <2>1. s \in Undeleted(c) /\ \A t \in Undeleted(c) : t \in Sessions
    BY DEF Undeleted
  <2>2. IsFiniteSet(Undeleted(c))
    BY <2>1, Constants, FS_Subset
  <2> QED  BY <2>1, <2>2, FS_EmptySet
<1>4. obj.target[c].state = "LIVE" /\ obj.entry[c].state # "NONE"
  BY <1>1, <1>2, <1>3 DEF Counted, TargetSet
<1>5. Usable(obj, c)
  BY <1>4, LiveUsable
<1> QED  BY <1>1, <1>4, <1>5, UseIsGood DEF Usable

\* A session that is received, or to be replied to, is the last of its connection.
LEMMA EarlyIsLast ==
  ASSUME NEW g \in Places, NEW z \in ServicePlaces, Inv(g, z),
         NEW s \in Sessions, NEW c \in Conns, s[1] = c,
         session[s].passive \in {1, 2}
  PROVE  s = LastSession(c) /\ Passive(c) = session[s].passive /\ obj.entry[c].seq # 0
<1>1. Sess(g[c], s) /\ obj.entry[c] \in EntrySet
  BY ConnIs
<1>2. s[2] \in Nat /\ s[2] # 0 /\ s = <<s[1], s[2]>>
  BY SessionParts
<1>3. obj.entry[c].seq \in Nat
  BY <1>1, Constants DEF EntrySet
<1>4. s[2] = obj.entry[c].seq
  BY <1>1, <1>2, <1>3 DEF Sess
<1> QED  BY <1>2, <1>4 DEF LastSession, Passive

LEMMA NotIdleIs ==
  ASSUME NEW o, NEW c, Usable(o, c), NEW y, y = NotIdleFor(o, c)
  PROVE  \E xa : /\ TargetIs(o.target[c], xa)
                 /\ y = Upd(o, c, o.entry[c], xa, o.service, o.alive_list)
                 /\ Usable(y, c) /\ y.entry[c] = o.entry[c] /\ y.target[c] = xa
                 /\ y.service = o.service /\ y.alive_list = o.alive_list
<1>1. /\ o \in ObjSet /\ c \in Conns /\ ~o.bad
      /\ o.target[c].state = "LIVE" /\ o.target[c].ref # 0
      /\ o.service.ref # 0 /\ o.service.unbound = 0
  BY DEF Usable
<1>2. /\ o.entry[c] \in EntrySet /\ o.target[c] \in TargetSet /\ o.service \in ServiceSet
      /\ o.alive_list \in Seq(Conns)
  BY <1>1, ObjFields
<1>3. PICK xa : xa = NotIdle(o.target[c])
  OBVIOUS
<1>4. TargetIs(o.target[c], xa)
  BY <1>2, <1>3 DEF NotIdle, TargetIs, TargetSet
<1>5. y = Upd(o, c, o.entry[c], xa, o.service, o.alive_list)
  <2>1. [o EXCEPT !.target[c].idle = FALSE]
          = Upd(o, c, o.entry[c], [o.target[c] EXCEPT !.idle = FALSE], o.service, o.alive_list)
    BY <1>1, ExceptTarget
  <2> QED  BY <1>3, <2>1 DEF NotIdleFor, NotIdle
<1>6. /\ y \in ObjSet /\ y.bad = o.bad /\ y.entry[c] = o.entry[c] /\ y.target[c] = xa
      /\ y.service = o.service /\ y.alive_list = o.alive_list
  BY <1>1, <1>2, <1>4, <1>5, UpdParts DEF TargetIs
<1>7. Usable(y, c)
  BY <1>1, <1>4, <1>6 DEF Usable, TargetIs
<1> QED  BY <1>4, <1>5, <1>6, <1>7

\* mpoller_mod of a connection that is watched for requests.
LEMMA Mods ==
  ASSUME NEW x \in Group(Results), NEW c \in Conns, NEW o \in PlaceSet, Queued(Results, x, o, c),
         o.loc = "table", o.op = "read", NEW y, y = mpoller_mod(x, c, "write"),
         NEW l, l = PlacedAt(o, "table", "write")
  PROVE  l \in PlaceSet /\ NodeGoes(x, y, o, c, l) /\ y.batch = x.batch
         /\ l.loc = "table" /\ l.op = "write" /\ l.msg = o.msg /\ l.acc = o.acc
<1>1. l \in PlaceSet /\ l.loc = "table" /\ l.op = "write" /\ l.msg = o.msg /\ l.acc = o.acc
  BY PlacedFields
<1>2. c \in Fds /\ "read" \in Ops /\ "write" \in Ops
  BY Constants DEF Ops
<1>3. NodeAt(Results, x, c, "table", "read")
  BY DEF Queued
<1>4. Result(c, "read", "MODIFIED", NONE) \in Results
  <2>1. "ERROR" \in Ends
    BY DEF Ends
  <2> QED  BY <2>1, ConnResults
<1>5. /\ Steady(Results, x, y) /\ SameMessages(Results, x, y)
      /\ \A f \in Fds : f # c => Leaves(Results, x, y, f)
      /\ NodeAt(Results, y, c, "table", "write")
  BY <1>2, <1>3, <1>4, ModNode
<1> QED  BY <1>1, <1>5 DEF NodeGoes, Steady

LEMMA RegisteredIs ==
  ASSUME NEW c \in Conns, NEW o \in PlaceSet, Queued(Results, poll, o, c)
  PROVE  Registered(poll, c) <=> o.loc = "table"
<1>1. poll.table[c] = IF o.loc = "table" THEN o.op ELSE "none"
  BY DEF Queued, NodeAt
<1>2. o.op # "none"
  BY DEF PlaceSet
<1> QED  BY <1>1, <1>2 DEF Registered

LEMMA TakesIdleFits ==
  ASSUME NEW o, NEW l, NEW n, NEW m, NEW k, NEW en, NEW xn, NEW ta, NEW xa, NEW al, NEW xl, NEW a,
         NEW rd, NEW u, TakesIdle(o, l, n, m, k, en, xn, ta, xa, al, xl, a, rd, u)
  PROVE  /\ Fitting(l, m, k, xn, xa, xl, a, rd, 3) /\ SameHands(o, l)
         /\ Owes(l, xn) => u = "sending"
<1>1. /\ o \in PlaceSet /\ Counted(o, n, k, en, ta) /\ StateFits(o, en, ta, 2)
      /\ PollFits(o, en, al, a, rd, 2) /\ ta.idle /\ n \in Nat
      /\ xa.state = ta.state /\ xa.ref = ta.ref /\ xa.idle = FALSE
      /\ xn.seq = en.seq /\ en.ref \in Nat /\ al \in {"in", "out"}
  BY DEF TakesIdle, TargetIs, Fitting, Counted
<1>2. /\ en.state = "IDLE" /\ o.op = "read" /\ o.loc \in Watched /\ o.msg = "none" /\ en.seq # 0
  BY <1>1 DEF StateFits
<1>3. /\ o.loc # "none" /\ o.loc \in {"table", "pipe", "queue", "ended"} /\ al = "out"
      /\ a # "new" /\ rd # "yes"
  BY <1>1, <1>2 DEF PollFits, Watched
<1>4. /\ l.msg = "none" /\ l.acc = o.acc /\ l.loc \in Watched /\ SameHands(o, l)
      /\ xn.state \in {"CLOSING", "KEEPALIVE", "IDLE", "RECEIVING", "ERROR"}
      /\ xn.ref = m + 1 /\ m \in Nat /\ l.loc # "none"
  <2>1. en.ref = n + 1
    BY <1>1, <1>3 DEF Counted, Kept
  <2>2. /\ l.msg = "none" /\ l.acc = o.acc /\ l.loc \in Watched
        /\ l.loc = o.loc \/ (l.loc \in Polled /\ o.loc \in Polled)
        /\ xn.state \in {"CLOSING", "KEEPALIVE", "IDLE", "RECEIVING", "ERROR"}
    BY <1>2, <1>3 DEF TakesIdle, SentTo, SendingTo, OverTo, MovesOn, Polled, Watched
  <2>3. xn.ref = m + 1 /\ m \in Nat
    BY <1>1, <2>1 DEF TakesIdle, SentTo, SendingTo, OverTo, OneMore
  <2> QED  BY <1>2, <2>2, <2>3 DEF SameHands, Polled, Watched
<1>5. Counted(l, m, k, xn, xa)
  BY <1>1, <1>2, <1>3, <1>4 DEF Counted, Kept
<1>6. /\ l.op = "write" => xn.state = "IDLE" /\ u = "sending"
      /\ xl = "in" => xn.state = "KEEPALIVE"
      /\ xn.state = "KEEPALIVE" => xl = "in"
      /\ xn.state \in {"RECEIVING", "ERROR"} => u = "sending"
      /\ l.loc = "ended" => l.op = "read"
  BY <1>2, <1>3 DEF TakesIdle, SentTo, SendingTo, OverTo, MovesOn
<1>7. StateFits(l, xn, xa, 3)
  BY <1>1, <1>2, <1>4, <1>6 DEF StateFits, Watched
<1>8. PollFits(l, xn, xl, a, rd, 3)
  BY <1>1, <1>2, <1>3, <1>4, <1>6 DEF PollFits
<1>9. Owes(l, xn) => u = "sending"
  BY <1>4, <1>6 DEF Owes
<1> QED  BY <1>4, <1>5, <1>7, <1>8, <1>9 DEF Fitting

LEMMA TakesKeeps ==
  ASSUME NEW g \in Places, NEW z \in ServicePlaces, Inv(g, z),
         NEW c \in Conns, NEW s, NEW sn, NEW u, Answers(s, sn, u), s[1] = c,
         UNCHANGED <<pollers, worker, stop_flag>>, stray' \in SUBSET Conns,
         NEW l \in PlaceSet, NEW xn \in EntrySet, NEW xa \in TargetSet, NEW q \in Seq(Conns),
         TakesFrom(g[c], l, Holding(c), Holders(worker, user', c),
                   Open(c), c, xn, xa, q, u)
  PROVE  IInv'
<1>1. /\ Types /\ AliveOK /\ ~obj.bad /\ Serv(z) /\ obj.service \in ServiceSet
      /\ worker' = worker
  BY ConnIs, InvParts
<1>2. PICK o, n, m, k, en, ta, sv, al, xl, a, rd :
         /\ o = g[c] /\ n = Holding(c) /\ k = Open(c)
         /\ m = Holders(worker, user', c) /\ en = obj.entry[c] /\ ta = obj.target[c]
         /\ sv = obj.service /\ al = Alive(c) /\ xl = IF c \in ToSet(q) THEN "in" ELSE "out"
         /\ a = At(c) /\ rd = Reads(c)
  OBVIOUS
<1>3. /\ PollStep(c) /\ Queued(Results, poll', l, c) /\ poll'.batch = poll.batch
      /\ obj' = Upd(obj, c, xn, xa, sv, q)
      /\ TakesIdle(o, l, n, m, k, en, xn, ta, xa, al, xl, a, rd, u)
      /\ q = obj.alive_list \/ (IsOne(q, c) /\ sv.listening)
      /\ \A f \in Conns : f # c => (f \in ToSet(q) <=> f \in ToSet(obj.alive_list))
  BY <1>2 DEF TakesFrom
<1>4. /\ Fitting(l, m, k, xn, xa, xl, a, rd, 3) /\ SameHands(o, l)
      /\ Owes(l, xn) => u = "sending"
  BY <1>3, TakesIdleFits
<1>5. xn.seq = en.seq /\ xa.state = ta.state
  BY <1>3 DEF TakesIdle, TargetIs
<1>6. /\ ObjStep(c) /\ obj'.entry[c] = xn /\ obj'.target[c] = xa /\ obj'.service = sv
      /\ obj'.alive_list = q
      /\ \A f \in Conns : f # c => obj'.target[f] = obj.target[f]
      /\ Alive(c)' = xl
  BY <1>1, <1>2, <1>3, ObjUpd
<1>7. AliveOK'
  <2>1. WorkStep(c)
    BY <1>1 DEF WorkStep
  <2>2. obj'.service.listening = obj.service.listening
    BY <1>2, <1>6
  <2>3. obj'.alive_list = obj.alive_list \/ (Len(obj'.alive_list) = 1 /\ obj.service.listening)
    BY <1>2, <1>3, <1>6, OneHas
  <2> QED  BY <1>1, <2>1, <2>2, <2>3, AliveStep DEF Serv
<1>8. ServiceFits(z, obj'.service, Cardinality(Live(obj')))
  <2>1. Live(obj') = Live(obj)
    <3>1. obj'.target[c].state = obj.target[c].state
      BY <1>2, <1>5, <1>6
    <3> QED  BY <1>6, <3>1 DEF Live
  <2> QED  BY <1>1, <1>2, <1>6, <2>1 DEF Serv
<1>9. /\ UserTurns(s, sn, u) /\ sn.passive = 3 /\ session[s].passive = 2 /\ s \in Sessions
      /\ Unspoken(session[s], user[s]) /\ (u = "sending" => Sending(sn, u))
  BY DEF Answers, MayReply, UserTurns
<1>10. s = LastSession(c) /\ obj.entry[c].seq # 0
  BY <1>9, EarlyIsLast
<1>11. session'[s] = sn /\ Undeleted(c)' = Undeleted(c)
  <2>1. sn.passive \in 1 .. 3 <=> session[s].passive \in 1 .. 3
    BY <1>9
  <2>2. Undeleted(c)' = Undeleted(c)
    BY <1>1, <1>9, <2>1, UserCounts
  <2>3. session'[s] = sn
    BY <1>1, <1>9, UserTurnsIs
  <2> QED  BY <2>2, <2>3
<1>12. obj'.entry[c].seq = obj.entry[c].seq /\ Passive(c)' = 3
  <2>1. obj'.entry[c].seq = obj.entry[c].seq
    BY <1>2, <1>5, <1>6
  <2> QED  BY <1>9, <1>10, <1>11, <2>1 DEF Passive, LastSession
<1>13. Fitting(l, Holders(worker, user', c), Cardinality(Undeleted(c)'), obj'.entry[c],
               obj'.target[c], Alive(c)', At(c), Reads(c), Passive(c)')
  BY <1>2, <1>4, <1>6, <1>11, <1>12
<1>14. Owes(l, obj'.entry[c]) =>
          \/ Owes(g[c], obj.entry[c])
          \/ Unspoken(session[s], user[s]) /\ Sending(sn, u) /\ s = LastSession(c)
  BY <1>4, <1>6, <1>9, <1>10
<1> QED  BY <1>2, <1>3, <1>4, <1>6, <1>7, <1>8, <1>9, <1>12, <1>13, <1>14, UserStep

LEMMA LaterFits ==
  ASSUME NEW l, NEW n, NEW k, NEW en, NEW ta, NEW al, NEW a, NEW rd,
         Later(l, n, k, en, ta, al, a, rd)
  PROVE  Fitting(l, n, k, en, ta, al, a, rd, 3)
<1>1. Counted(l, n, k, en, ta) /\ StateFits(l, en, ta, 2) /\ PollFits(l, en, al, a, rd, 2)
  BY DEF Later, Fitting
<1>2. StateFits(l, en, ta, 3)
  BY <1>1 DEF StateFits
<1>3. PollFits(l, en, al, a, rd, 3)
  BY <1>1 DEF PollFits
<1> QED  BY <1>1, <1>2, <1>3 DEF Fitting

\* A reply, or a shutdown, of a connection that has ended.
LEMMA AnswerLate ==
  ASSUME NEW g \in Places, NEW z \in ServicePlaces, Inv(g, z),
         NEW c \in Conns, NEW s, NEW sn, Answers(s, sn, "over"), s[1] = c,
         UNCHANGED <<poll, pollers, obj, worker, flags>>
  PROVE  IInv'
<1>1. /\ Types /\ AliveOK /\ ~obj.bad /\ Serv(z) /\ Fits(g[c], c) /\ g[c] \in PlaceSet
      /\ Queued(Results, poll, g[c], c) /\ poll \in Group(Results)
      /\ poll' = poll /\ obj' = obj /\ worker' = worker
  BY ConnIs, InvParts
<1>2. /\ UserTurns(s, sn, "over") /\ sn.passive = 3 /\ session[s].passive = 2 /\ s \in Sessions
      /\ user[s] = "toreply"
  BY DEF Answers, MayReply, UserTurns
<1>3. s = LastSession(c) /\ Passive(c) = 2 /\ obj.entry[c].seq # 0
  BY <1>2, EarlyIsLast
<1>4. session'[s] = sn /\ Undeleted(c)' = Undeleted(c)
      /\ Holders(worker, user', c) = Holding(c)
  <2>1. (sn.passive \in 1 .. 3 <=> session[s].passive \in 1 .. 3)
        /\ (UserHolds("over") <=> UserHolds(user[s]))
    BY <1>2 DEF UserHolds
  <2>2. Undeleted(c)' = Undeleted(c) /\ Holders(worker, user', c) = Holding(c)
    BY <1>1, <1>2, <2>1, UserCounts
  <2>3. session'[s] = sn
    BY <1>1, <1>2, UserTurnsIs
  <2> QED  BY <2>2, <2>3
<1>5. Passive(c)' = 3
  BY <1>1, <1>2, <1>3, <1>4 DEF Passive, LastSession
<1>6. Fitting(g[c], Holding(c), Open(c), obj.entry[c],
              obj.target[c], Alive(c), At(c), Reads(c), 3)
  <2>1. Fitting(g[c], Holding(c), Open(c), obj.entry[c],
                obj.target[c], Alive(c), At(c), Reads(c), 2)
    BY <1>1, <1>3 DEF Fits
  <2> QED  BY <1>1, <2>1, LaterFits DEF Later
<1>7. ObjStep(c) /\ Alive(c)' = Alive(c)
  BY <1>1, ObjSame DEF KeepsObj
<1>8. Fitting(g[c], Holders(worker, user', c), Cardinality(Undeleted(c)'), obj'.entry[c],
              obj'.target[c], Alive(c)', At(c), Reads(c), Passive(c)')
  BY <1>1, <1>4, <1>5, <1>6, <1>7
<1>9. PollStep(c) /\ Queued(Results, poll', g[c], c) /\ poll'.batch = poll.batch
  BY <1>1, PollSame
<1>10. AliveOK'
  BY <1>1, AliveSame
<1>11. ServiceFits(z, obj'.service, Cardinality(Live(obj')))
  BY <1>1 DEF Serv
<1>12. SameHands(g[c], g[c])
  BY DEF SameHands
<1>13. UNCHANGED <<pollers, worker, stop_flag>> /\ stray' \in SUBSET Conns
  BY <1>1 DEF flags, Types
<1>14. obj'.entry[c].seq = obj.entry[c].seq
       /\ (Owes(g[c], obj'.entry[c]) => Owes(g[c], obj.entry[c]))
  BY <1>1
<1> QED  BY <1>1, <1>2, <1>7, <1>8, <1>9, <1>10, <1>11, <1>12, <1>13, <1>14, UserStep

LEMMA AnswersIs ==
  ASSUME NEW g \in Places, NEW z \in ServicePlaces, Inv(g, z), NEW s \in Sessions, MayReply(s),
         NEW u \in {"over", "sent", "sending"}, user' = [user EXCEPT ![s] = u],
         mutex' \in [Conns -> Sessions \cup {NONE}],
         session' = [session EXCEPT ![s].passive = 3]
  PROVE  \E sn : Answers(s, sn, u)
<1>1. /\ session \in [Sessions -> SessionSet] /\ user \in [Sessions -> UserPcs]
      /\ s[1] \in Conns
  BY InvParts, SessionParts DEF Types
<1>2. Phases(session[s], user[s])
  BY <1>1, ConnIs DEF Sess
<1>3. session[s].passive = 2 /\ user[s] = "toreply"
  BY DEF MayReply
<1>4. Asked(session[s].told)
  BY <1>2, <1>3 DEF Phases
<1>5. PICK sn : sn = WithPassive(session[s], 3)
  OBVIOUS
<1>6. sn \in SessionSet /\ sn.passive = 3 /\ sn.told = session[s].told
  <2>1. 3 \in 0 .. 4 /\ "none" \in Tells
    BY DEF Tells
  <2> QED  BY <1>1, <1>5, <2>1, SessionFields
<1>7. session' = [session EXCEPT ![s] = sn]
  BY <1>5 DEF WithPassive
<1>8. Unspoken(session[s], user[s])
  <2>1. session[s].told # <<>>
    BY <1>4 DEF Asked
  <2> QED  BY <1>3, <2>1 DEF Unspoken, Receiving, Sending, Asking
<1>9. Phases(sn, u) /\ (u = "sending" => Sending(sn, u))
  BY <1>4, <1>6 DEF Phases, Sending
<1>10. Turns(session[s], user[s], sn, u)
  BY <1>3, <1>6, <1>8, <1>9 DEF Turns, Unspoken
<1>11. u \in UserPcs
  BY DEF UserPcs
<1>12. UserTurns(s, sn, u)
  BY <1>6, <1>7, <1>10, <1>11 DEF UserTurns
<1> QED  BY <1>6, <1>8, <1>9, <1>12 DEF Answers

\* The connection of an idle target.
LEMMA IdleConn ==
  ASSUME NEW g \in Places, NEW z \in ServicePlaces, Inv(g, z), NEW c \in Conns, obj.target[c].idle
  PROVE  /\ obj.entry[c].state = "IDLE" /\ g[c].op = "read" /\ g[c].loc \in Watched
         /\ g[c].loc # "none" /\ Usable(obj, c) /\ obj.target[c].state = "LIVE"
         /\ obj.entry[c].state \notin {"NONE", "FREED"} /\ obj.entry[c].ref # 0
         /\ UseEntry(obj, c) = obj /\ UseTarget(obj, c) = obj /\ UseService(obj) = obj
<1>1. Fits(g[c], c)
  BY ConnIs
<1>2. obj.entry[c].state = "IDLE" /\ g[c].op = "read" /\ g[c].loc \in Watched
  BY <1>1 DEF Fits, Fitting, StateFits
<1>3. g[c].loc # "none"
  BY <1>2 DEF Watched
<1> QED  BY <1>2, <1>3, EntryUsable

\* What is left to show: the objects, and the node.
LEMMA TakenKeeps ==
  ASSUME NEW g \in Places, NEW z \in ServicePlaces, Inv(g, z),
         NEW c \in Conns, NEW s, NEW sn, NEW u, TakenBy(s, sn, u, c),
         NEW l \in PlaceSet, NEW xn \in EntrySet, NEW xa, TargetIs(obj.target[c], xa),
         NEW q, q = obj.alive_list \/ (IsOne(q, c) /\ obj.service.listening /\ obj.alive_list = <<>>),
         NEW xl, xl = IF c \in ToSet(q) THEN "in" ELSE "out",
         NodeGoes(poll, poll', g[c], c, l), poll'.batch = poll.batch,
         obj' = Upd(obj, c, xn, xa, obj.service, q), xn.seq = obj.entry[c].seq,
         \/ u = "sent" /\ SentTo(g[c], l, obj.entry[c], xn, Alive(c), xl)
         \/ u = "sending" /\ SendingTo(g[c], l, obj.entry[c], xn, Alive(c), xl)
         \/ u = "over" /\ OverTo(g[c], l, obj.entry[c], xn, Alive(c), xl)
  PROVE  IInv'
<1>1. /\ Answers(s, sn, u) /\ s[1] = c /\ s \in Sessions /\ obj.target[c].idle
      /\ UNCHANGED <<pollers, worker, stop_flag>> /\ stray' \in SUBSET Conns
  BY DEF TakenBy
<1>2. /\ Types /\ Queued(Results, poll, g[c], c) /\ Fits(g[c], c) /\ g[c] \in PlaceSet
      /\ obj.entry[c] \in EntrySet /\ obj.alive_list \in Seq(Conns)
  BY ConnIs, InvParts
<1>3. PollStep(c) /\ Queued(Results, poll', l, c)
  BY <1>2, NodeGoesPoll
<1>4. q \in Seq(Conns) /\ \A f \in Conns : f # c => (f \in ToSet(q) <=> f \in ToSet(obj.alive_list))
  <2>1. CASE q = obj.alive_list
    BY <1>2, <2>1
  <2>2. CASE IsOne(q, c) /\ obj.alive_list = <<>>
    <3>1. ToSet(obj.alive_list) = {}
      BY <2>2, ListSets
    <3> QED  BY <2>2, <3>1, OneHas
  <2> QED  BY <2>1, <2>2
<1>5. /\ UserTurns(s, sn, u) /\ user[s] = "toreply" /\ session[s].passive = 2
  BY <1>1 DEF Answers, MayReply
<1>6. PICK n, m : n = Holding(c) /\ m = Holders(worker, user', c)
  OBVIOUS
<1>7. (u = "sent" => OneMore(m, n)) /\ (u \in {"sending", "over"} => m = n)
  <2>1. ~UserHolds(user[s]) /\ (u = "sent" => UserHolds(u)) /\ (u \in {"sending", "over"} => ~UserHolds(u))
    BY <1>5 DEF UserHolds
  <2> QED  BY <1>1, <1>2, <1>5, <1>6, <2>1, UserCounts
<1>8. Passive(c) = 2
  BY <1>1, <1>5, EarlyIsLast
<1>9. PICK k, en, ta, al, a, rd :
         /\ k = Open(c) /\ en = obj.entry[c] /\ ta = obj.target[c]
         /\ al = Alive(c) /\ a = At(c) /\ rd = Reads(c)
  OBVIOUS
<1>10. Fitting(g[c], n, k, en, ta, al, a, rd, 2) /\ al \in {"in", "out"} /\ en.ref \in Nat
  BY <1>2, <1>6, <1>8, <1>9 DEF Fits, Alive, EntrySet
<1>11. TakesIdle(g[c], l, n, m, k, en, xn, ta, xa, al, xl, a, rd, u)
  BY <1>1, <1>2, <1>7, <1>9, <1>10 DEF TakesIdle
<1>12. q = obj.alive_list \/ (IsOne(q, c) /\ obj.service.listening)
  OBVIOUS
<1>13. TakesFrom(g[c], l, n, m, k, c, xn, xa, q, u)
  BY <1>3, <1>4, <1>9, <1>11, <1>12 DEF TakesFrom
<1>14. xa \in TargetSet
  BY DEF TargetIs
<1> QED  BY <1>1, <1>4, <1>6, <1>9, <1>13, <1>14, TakesKeeps

\* The objects, when the entry has one reference more, or is in another state.
LEMMA UpdUsable ==
  ASSUME NEW o, NEW c, Usable(o, c), NEW xn \in EntrySet, NEW xa,
         TargetIs(o.target[c], xa) \/ xa = o.target[c],
         NEW y, y = Upd(o, c, xn, xa, o.service, o.alive_list)
  PROVE  /\ Usable(y, c) /\ y.entry[c] = xn /\ y.target[c] = xa /\ y.service = o.service
         /\ y.alive_list = o.alive_list
         /\ \A en, ta, q : Upd(y, c, en, ta, o.service, q) = Upd(o, c, en, ta, o.service, q)
<1>1. /\ o \in ObjSet /\ c \in Conns /\ ~o.bad /\ o.entry[c] \in EntrySet
      /\ o.target[c] \in TargetSet /\ o.service \in ServiceSet /\ o.alive_list \in Seq(Conns)
      /\ o.target[c].state = "LIVE" /\ o.target[c].ref # 0
      /\ o.service.ref # 0 /\ o.service.unbound = 0
  BY ObjFields DEF Usable
<1>2. xa \in TargetSet /\ xa.state = "LIVE" /\ xa.ref # 0
  BY <1>1 DEF TargetIs
<1>3. PICK sv, al : sv = o.service /\ al = o.alive_list
  OBVIOUS
<1>4. /\ y \in ObjSet /\ y.bad = o.bad /\ y.entry[c] = xn /\ y.target[c] = xa
      /\ y.service = sv /\ y.alive_list = al
  BY <1>1, <1>2, <1>3, UpdParts
<1>5. Usable(y, c)
  BY <1>1, <1>2, <1>3, <1>4 DEF Usable
<1>6. ASSUME NEW en, NEW ta, NEW q PROVE Upd(y, c, en, ta, sv, q) = Upd(o, c, en, ta, sv, q)
  BY <1>1, <1>3, UpdTwice
<1> QED  BY <1>3, <1>4, <1>5, <1>6

LEMMA TakenObjects ==
  ASSUME NEW o, NEW c, Usable(o, c), o.entry[c].state \notin {"NONE", "FREED"},
         NEW y, y = NotIdleFor(o, c), NEW en, en = o.entry[c], NEW sv, sv = o.service,
         NEW al, al = o.alive_list
  PROVE  \E xa : /\ TargetIs(o.target[c], xa) /\ y = Upd(o, c, en, xa, sv, al)
                 /\ \A st \in EntryStates : \E xn :
                       EntryIs(en, st, en.ref, xn) /\ SetState(y, c, st) = Upd(o, c, xn, xa, sv, al)
                 /\ \E xn : /\ EntryIs(en, en.state, en.ref + 1, xn)
                            /\ UseService(MoreEntry(y, c)) = Upd(o, c, xn, xa, sv, al)
                 /\ \E xn : /\ EntryIs(en, "CLOSING", en.ref + 1, xn)
                            /\ SetState(MoreEntry(y, c), c, "CLOSING") = Upd(o, c, xn, xa, sv, al)
                 /\ al = <<>> => \E xn, q :
                       /\ EntryIs(en, "KEEPALIVE", en.ref + 1, xn) /\ IsOne(q, c)
                       /\ AliveAdd(y, c) = Upd(o, c, xn, xa, sv, q)
<1>1. PICK xa : /\ TargetIs(o.target[c], xa) /\ y = Upd(o, c, en, xa, sv, al)
                /\ Usable(y, c) /\ y.entry[c] = en /\ y.target[c] = xa
                /\ y.service = sv /\ y.alive_list = al
  BY NotIdleIs
<1>2. en \in EntrySet /\ c \in Conns /\ y \in ObjSet
  BY <1>1, ObjFields DEF Usable
<1>3. \A xn, q : Upd(y, c, xn, xa, sv, q) = Upd(o, c, xn, xa, sv, q)
  <2>1. o \in ObjSet
    BY DEF Usable
  <2> QED  BY <1>1, <1>2, <2>1, UpdTwice
<1>4. ASSUME NEW st \in EntryStates
      PROVE  \E xn : EntryIs(en, st, en.ref, xn) /\ SetState(y, c, st) = Upd(o, c, xn, xa, sv, al)
  <2>1. PICK xn : EntryIs(en, st, en.ref, xn) /\ SetState(y, c, st) = Upd(y, c, xn, xa, sv, al)
    BY <1>1, SetStateTo
  <2> QED  BY <1>3, <2>1
<1>5. PICK x : x = MoreEntry(y, c)
  OBVIOUS
<1>6. PICK yn : EntryIs(en, en.state, en.ref + 1, yn) /\ x = Upd(y, c, yn, xa, sv, al)
  BY <1>1, <1>2, <1>5, MoreEntryIs
<1>7. /\ Usable(x, c) /\ x.entry[c] = yn /\ x.target[c] = xa /\ x.service = sv /\ x.alive_list = al
      /\ \A xn, q : Upd(x, c, xn, xa, sv, q) = Upd(y, c, xn, xa, sv, q)
  <2>1. yn \in EntrySet
    BY <1>6 DEF EntryIs
  <2> QED  BY <1>1, <1>6, <2>1, UpdUsable
<1>8. UseService(x) = Upd(o, c, yn, xa, sv, al)
  <2>1. UseService(x) = x
    BY <1>7, UseIsGood DEF Usable
  <2> QED  BY <1>3, <1>6, <2>1
<1>9. \E xn : /\ EntryIs(en, "CLOSING", en.ref + 1, xn)
              /\ SetState(x, c, "CLOSING") = Upd(o, c, xn, xa, sv, al)
  <2>1. yn.state \notin {"NONE", "FREED"} /\ "CLOSING" \in EntryStates
    BY <1>6 DEF EntryIs, EntryStates
  <2>2. PICK xn : EntryIs(yn, "CLOSING", yn.ref, xn) /\ SetState(x, c, "CLOSING") = Upd(x, c, xn, xa, sv, al)
    BY <1>7, <2>1, SetStateTo
  <2>3. EntryIs(en, "CLOSING", en.ref + 1, xn)
    BY <1>6, <2>2 DEF EntryIs
  <2> QED  BY <1>3, <1>7, <2>2, <2>3
<1>10. ASSUME al = <<>>
       PROVE  \E xn, q : /\ EntryIs(en, "KEEPALIVE", en.ref + 1, xn) /\ IsOne(q, c)
                         /\ AliveAdd(y, c) = Upd(o, c, xn, xa, sv, q)
  <2>1. PICK xn, q : /\ EntryIs(en, "KEEPALIVE", en.ref + 1, xn) /\ IsOne(q, c)
                     /\ AliveAdd(y, c) = Upd(y, c, xn, xa, sv, q)
    BY <1>1, <1>10, AliveAddIs
  <2> QED  BY <1>3, <2>1
<1> QED  BY <1>1, <1>4, <1>5, <1>6, <1>8, <1>9, <1>10

\* The node of such a connection: it is removed, stays, or writes from now on.
LEMMA TakenDel ==
  ASSUME NEW g \in Places, NEW z \in ServicePlaces, Inv(g, z), NEW c \in Conns, obj.target[c].idle,
         poll' = mpoller_del(poll, c)
  PROVE  \E l \in PlaceSet :
            NodeGoes(poll, poll', g[c], c, l) /\ MovesOn(g[c], l) /\ poll'.batch = poll.batch
<1>1. g[c].op = "read"
  BY IdleConn
<1>2. poll \in Group(Results) /\ g[c] \in PlaceSet /\ Queued(Results, poll, g[c], c)
  BY ConnIs
<1>3. g[c].loc = "table" /\ g[c].op = "write" => stop_flag
  BY <1>1
<1> QED  BY <1>2, <1>3, Dels

LEMMA TakenStays ==
  ASSUME NEW g \in Places, NEW z \in ServicePlaces, Inv(g, z), NEW c \in Conns
  PROVE  /\ g[c] \in PlaceSet /\ (Registered(poll, c) <=> g[c].loc = "table")
         /\ poll' = poll => NodeGoes(poll, poll', g[c], c, g[c]) /\ poll'.batch = poll.batch
<1>1. poll \in Group(Results) /\ g[c] \in PlaceSet /\ Queued(Results, poll, g[c], c)
  BY ConnIs
<1>2. Registered(poll, c) <=> g[c].loc = "table"
  BY <1>1, RegisteredIs
<1>3. poll' = poll => NodeGoes(poll, poll', g[c], c, g[c]) /\ poll'.batch = poll.batch
  BY <1>1, NodeStays
<1> QED  BY <1>1, <1>2, <1>3

LEMMA TakenMod ==
  ASSUME NEW g \in Places, NEW z \in ServicePlaces, Inv(g, z), NEW c \in Conns, obj.target[c].idle,
         poll' = mpoller_mod(poll, c, "write"), Registered(poll, c)
  PROVE  \E l \in PlaceSet :
            /\ NodeGoes(poll, poll', g[c], c, l) /\ poll'.batch = poll.batch
            /\ g[c].loc = "table" /\ l.loc = "table" /\ l.op = "write"
            /\ l.msg = g[c].msg /\ l.acc = g[c].acc
<1>1. g[c].op = "read"
  BY IdleConn
<1>2. poll \in Group(Results) /\ g[c] \in PlaceSet /\ Queued(Results, poll, g[c], c)
  BY ConnIs
<1>3. g[c].loc = "table"
  BY <1>2, RegisteredIs
<1>4. PICK l : l = PlacedAt(g[c], "table", "write")
  OBVIOUS
<1> QED  BY <1>1, <1>2, <1>3, <1>4, Mods

----
(* A user replies. *)

\* The list stays as it is.
LEMMA TakenSame ==
  ASSUME NEW g \in Places, NEW z \in ServicePlaces, Inv(g, z),
         NEW c \in Conns, NEW s, NEW sn, NEW u, TakenBy(s, sn, u, c),
         NEW l \in PlaceSet, NEW xn \in EntrySet, NEW xa, TargetIs(obj.target[c], xa),
         NodeGoes(poll, poll', g[c], c, l), poll'.batch = poll.batch,
         obj' = Upd(obj, c, xn, xa, obj.service, obj.alive_list), xn.seq = obj.entry[c].seq,
         \/ u = "sent" /\ SentTo(g[c], l, obj.entry[c], xn, Alive(c), Alive(c))
         \/ u = "sending" /\ SendingTo(g[c], l, obj.entry[c], xn, Alive(c), Alive(c))
         \/ u = "over" /\ OverTo(g[c], l, obj.entry[c], xn, Alive(c), Alive(c))
  PROVE  IInv'
<1>1. PICK q : q = obj.alive_list
  OBVIOUS
<1>2. PICK xl : xl = IF c \in ToSet(q) THEN "in" ELSE "out"
  OBVIOUS
<1>3. xl = Alive(c)
  BY <1>1, <1>2 DEF Alive
<1>4. \/ u = "sent" /\ SentTo(g[c], l, obj.entry[c], xn, Alive(c), xl)
      \/ u = "sending" /\ SendingTo(g[c], l, obj.entry[c], xn, Alive(c), xl)
      \/ u = "over" /\ OverTo(g[c], l, obj.entry[c], xn, Alive(c), xl)
  BY <1>3
<1>5. obj' = Upd(obj, c, xn, xa, obj.service, q)
  BY <1>1
<1> QED  BY <1>1, <1>2, <1>4, <1>5, TakenKeeps

\* The connection of a reply, and what it does with the entry.
LEMMA TakenObjectsHere ==
  ASSUME NEW g \in Places, NEW z \in ServicePlaces, Inv(g, z), NEW c \in Conns, obj.target[c].idle,
         NEW y, y = NotIdleFor(obj, c)
  PROVE  \E xa : /\ TargetIs(obj.target[c], xa)
                 /\ y = Upd(obj, c, obj.entry[c], xa, obj.service, obj.alive_list)
                 /\ \A st \in EntryStates : \E xn :
                       /\ EntryIs(obj.entry[c], st, obj.entry[c].ref, xn)
                       /\ SetState(y, c, st) = Upd(obj, c, xn, xa, obj.service, obj.alive_list)
                 /\ \E xn : /\ EntryIs(obj.entry[c], "IDLE", obj.entry[c].ref + 1, xn)
                            /\ UseService(MoreEntry(y, c))
                                 = Upd(obj, c, xn, xa, obj.service, obj.alive_list)
                 /\ \E xn : /\ EntryIs(obj.entry[c], "CLOSING", obj.entry[c].ref + 1, xn)
                            /\ SetState(MoreEntry(y, c), c, "CLOSING")
                                 = Upd(obj, c, xn, xa, obj.service, obj.alive_list)
                 /\ obj.alive_list = <<>> => \E xn, q :
                       /\ EntryIs(obj.entry[c], "KEEPALIVE", obj.entry[c].ref + 1, xn) /\ IsOne(q, c)
                       /\ AliveAdd(y, c) = Upd(obj, c, xn, xa, obj.service, q)
<1>1. Usable(obj, c) /\ obj.entry[c].state \notin {"NONE", "FREED"} /\ obj.entry[c].state = "IDLE"
  BY IdleConn
<1>2. PICK o, en, sv, al : o = obj /\ en = obj.entry[c] /\ sv = obj.service /\ al = obj.alive_list
  OBVIOUS
<1>3. Usable(o, c) /\ o.entry[c].state \notin {"NONE", "FREED"} /\ y = NotIdleFor(o, c)
      /\ en = o.entry[c] /\ sv = o.service /\ al = o.alive_list
  BY <1>1, <1>2
<1>4. \E xa : /\ TargetIs(o.target[c], xa) /\ y = Upd(o, c, en, xa, sv, al)
              /\ \A st \in EntryStates : \E xn :
                    EntryIs(en, st, en.ref, xn) /\ SetState(y, c, st) = Upd(o, c, xn, xa, sv, al)
              /\ \E xn : /\ EntryIs(en, en.state, en.ref + 1, xn)
                         /\ UseService(MoreEntry(y, c)) = Upd(o, c, xn, xa, sv, al)
              /\ \E xn : /\ EntryIs(en, "CLOSING", en.ref + 1, xn)
                         /\ SetState(MoreEntry(y, c), c, "CLOSING") = Upd(o, c, xn, xa, sv, al)
              /\ al = <<>> => \E xn, q :
                    /\ EntryIs(en, "KEEPALIVE", en.ref + 1, xn) /\ IsOne(q, c)
                    /\ AliveAdd(y, c) = Upd(o, c, xn, xa, sv, q)
  BY <1>3, TakenObjects
<1> QED  BY <1>1, <1>2, <1>4

LEMMA ReplyIs ==
  ASSUME NEW g \in Places, NEW z \in ServicePlaces, Inv(g, z), NEW s \in Sessions, reply(s),
         NEW c \in Conns, s[1] = c, obj.target[c].idle, NEW y, y = NotIdleFor(obj, c)
  PROVE  /\ MayReply(s) /\ session' = [session EXCEPT ![s].passive = 3]
         /\ mutex' = [mutex EXCEPT ![c] = s] /\ UNCHANGED <<pollers, worker, stop_flag>>
         /\ stray' \in SUBSET Conns /\ Replies(s, c, y)
<1>1. UseEntry(obj, c) = obj /\ UseTarget(obj, c) = obj
  BY IdleConn
<1>2. [UseEntry(UseTarget(obj, c), c) EXCEPT !.target[c].idle = FALSE] = y
  BY <1>1 DEF NotIdleFor
<1>3. [y EXCEPT !.entry[c].ref = @ + 1] = MoreEntry(y, c)
  BY DEF MoreEntry
<1>4. stray \in SUBSET Conns
  BY InvParts DEF Types
<1>5. /\ MayReply(s) /\ session' = [session EXCEPT ![s].passive = 3]
      /\ mutex' = [mutex EXCEPT ![c] = s] /\ UNCHANGED <<pollers, worker, stop_flag>>
      /\ stray' \in {stray, stray \cup {c}}
      /\ \/ /\ poll' = mpoller_del(poll, c)
            /\ obj' = SetState(MoreEntry(y, c), c, "CLOSING")
            /\ GoUser(s, "sent")
         \/ /\ obj.service.listening => obj.alive_list = <<>>
            /\ obj' = IF obj.service.listening THEN AliveAdd(y, c) ELSE UseService(MoreEntry(y, c))
            /\ GoUser(s, "sent")
            /\ UNCHANGED poll
         \/ /\ poll' = IF Registered(poll, c) THEN mpoller_mod(poll, c, "write") ELSE poll
            /\ obj' = IF Registered(poll, c) THEN y ELSE SetState(y, c, "RECEIVING")
            /\ GoUser(s, "sending")
         \/ /\ poll' = mpoller_del(poll, c)
            /\ obj' = SetState(y, c, "ERROR")
            /\ GoUser(s, "sending")
  BY <1>2, <1>3 DEF reply
<1> QED  BY <1>4, <1>5 DEF Replies

LEMMA ReplyTaken ==
  ASSUME NEW g \in Places, NEW z \in ServicePlaces, Inv(g, z), NEW s, NEW c, NEW u, ReplyFrame(s, c, u)
  PROVE  \E sn : TakenBy(s, sn, u, c)
<1>1. /\ s \in Sessions /\ c \in Conns /\ s[1] = c /\ obj.target[c].idle /\ MayReply(s)
      /\ session' = [session EXCEPT ![s].passive = 3]
      /\ mutex' = [mutex EXCEPT ![c] = s]
      /\ UNCHANGED <<pollers, worker, stop_flag>>
      /\ stray' \in SUBSET Conns /\ user' = [user EXCEPT ![s] = u] /\ u \in {"over", "sent", "sending"}
  BY DEF ReplyFrame, GoUser
<1>2. mutex' \in [Conns -> Sessions \cup {NONE}]
  <2>1. mutex \in [Conns -> Sessions \cup {NONE}]
    BY InvParts DEF Types
  <2> QED  BY <1>1, <2>1
<1>3. PICK sn : Answers(s, sn, u)
  BY <1>1, <1>2, AnswersIs
<1> QED  BY <1>1, <1>3 DEF TakenBy

\* It was sent at once, and the connection is closed.
LEMMA ReplyCloses ==
  ASSUME NEW g \in Places, NEW z \in ServicePlaces, Inv(g, z), NEW s, NEW c,
         ReplyFrame(s, c, "sent"), poll' = mpoller_del(poll, c),
         obj' = SetState(MoreEntry(NotIdleFor(obj, c), c), c, "CLOSING")
  PROVE  IInv'
<1>1. c \in Conns /\ obj.target[c].idle
  BY DEF ReplyFrame
<1>2. PICK sn : TakenBy(s, sn, "sent", c)
  BY ReplyTaken
<1>3. PICK y : y = NotIdleFor(obj, c)
  OBVIOUS
<1>4. PICK xa, xn : /\ TargetIs(obj.target[c], xa)
                    /\ EntryIs(obj.entry[c], "CLOSING", obj.entry[c].ref + 1, xn)
                    /\ SetState(MoreEntry(y, c), c, "CLOSING")
                         = Upd(obj, c, xn, xa, obj.service, obj.alive_list)
  BY <1>1, <1>3, TakenObjectsHere
<1>5. PICK l \in PlaceSet :
         NodeGoes(poll, poll', g[c], c, l) /\ MovesOn(g[c], l) /\ poll'.batch = poll.batch
  BY <1>1, TakenDel
<1>6. SentTo(g[c], l, obj.entry[c], xn, Alive(c), Alive(c))
  BY <1>4, <1>5 DEF SentTo, EntryIs
<1>7. xn \in EntrySet /\ xn.seq = obj.entry[c].seq
  BY <1>4 DEF EntryIs
<1>8. obj' = Upd(obj, c, xn, xa, obj.service, obj.alive_list)
  BY <1>3, <1>4
<1> QED  BY <1>1, <1>2, <1>4, <1>5, <1>6, <1>7, <1>8, TakenSame

\* It was, and the connection is kept alive.
LEMMA ReplyKeepsAlive ==
  ASSUME NEW g \in Places, NEW z \in ServicePlaces, Inv(g, z), NEW s, NEW c,
         ReplyFrame(s, c, "sent"), poll' = poll, obj.alive_list = <<>>, obj.service.listening,
         obj' = AliveAdd(NotIdleFor(obj, c), c)
  PROVE  IInv'
<1>1. c \in Conns /\ obj.target[c].idle
  BY DEF ReplyFrame
<1>2. PICK sn : TakenBy(s, sn, "sent", c)
  BY ReplyTaken
<1>3. PICK y : y = NotIdleFor(obj, c)
  OBVIOUS
<1>4. PICK xa, xn, q : /\ TargetIs(obj.target[c], xa)
                       /\ EntryIs(obj.entry[c], "KEEPALIVE", obj.entry[c].ref + 1, xn)
                       /\ IsOne(q, c)
                       /\ AliveAdd(y, c) = Upd(obj, c, xn, xa, obj.service, q)
  BY <1>1, <1>3, TakenObjectsHere
<1>5. PICK l \in PlaceSet :
         l = g[c] /\ NodeGoes(poll, poll', g[c], c, l) /\ poll'.batch = poll.batch
  BY <1>1, TakenStays
<1>6. PICK xl : xl = IF c \in ToSet(q) THEN "in" ELSE "out"
  OBVIOUS
<1>7. xl = "in"
  <2>1. c \in ToSet(q)
    BY <1>1, <1>4, OneHas
  <2> QED  BY <1>6, <2>1
<1>8. SentTo(g[c], l, obj.entry[c], xn, Alive(c), xl)
  BY <1>4, <1>5, <1>7 DEF SentTo, EntryIs
<1>9. xn \in EntrySet /\ xn.seq = obj.entry[c].seq
  BY <1>4 DEF EntryIs
<1>10. obj' = Upd(obj, c, xn, xa, obj.service, q)
  BY <1>3, <1>4
<1> QED  BY <1>1, <1>2, <1>4, <1>5, <1>6, <1>8, <1>9, <1>10, TakenKeeps

\* It was, and the connection is left as it is.
LEMMA ReplyStrays ==
  ASSUME NEW g \in Places, NEW z \in ServicePlaces, Inv(g, z), NEW s, NEW c,
         ReplyFrame(s, c, "sent"), poll' = poll,
         obj' = UseService(MoreEntry(NotIdleFor(obj, c), c))
  PROVE  IInv'
<1>1. c \in Conns /\ obj.target[c].idle
  BY DEF ReplyFrame
<1>2. PICK sn : TakenBy(s, sn, "sent", c)
  BY ReplyTaken
<1>3. PICK y : y = NotIdleFor(obj, c)
  OBVIOUS
<1>4. PICK xa, xn : /\ TargetIs(obj.target[c], xa)
                    /\ EntryIs(obj.entry[c], "IDLE", obj.entry[c].ref + 1, xn)
                    /\ UseService(MoreEntry(y, c))
                         = Upd(obj, c, xn, xa, obj.service, obj.alive_list)
  BY <1>1, <1>3, TakenObjectsHere
<1>5. PICK l \in PlaceSet :
         l = g[c] /\ NodeGoes(poll, poll', g[c], c, l) /\ poll'.batch = poll.batch
  BY <1>1, TakenStays
<1>6. SentTo(g[c], l, obj.entry[c], xn, Alive(c), Alive(c))
  BY <1>4, <1>5 DEF SentTo, EntryIs
<1>7. xn \in EntrySet /\ xn.seq = obj.entry[c].seq
  BY <1>4 DEF EntryIs
<1>8. obj' = Upd(obj, c, xn, xa, obj.service, obj.alive_list)
  BY <1>3, <1>4
<1> QED  BY <1>1, <1>2, <1>4, <1>5, <1>6, <1>7, <1>8, TakenSame

\* It is to be written by the poller, or the connection has an end already.
LEMMA ReplyWrites ==
  ASSUME NEW g \in Places, NEW z \in ServicePlaces, Inv(g, z), NEW s, NEW c,
         ReplyFrame(s, c, "sending"), NEW y, y = NotIdleFor(obj, c),
         \/ Registered(poll, c) /\ poll' = mpoller_mod(poll, c, "write") /\ obj' = y
         \/ ~Registered(poll, c) /\ poll' = poll /\ obj' = SetState(y, c, "RECEIVING")
  PROVE  IInv'
<1>1. c \in Conns /\ obj.target[c].idle
  BY DEF ReplyFrame
<1>2. PICK sn : TakenBy(s, sn, "sending", c)
  BY ReplyTaken
<1>3. PICK xa : /\ TargetIs(obj.target[c], xa)
                /\ y = Upd(obj, c, obj.entry[c], xa, obj.service, obj.alive_list)
                /\ \A st \in EntryStates : \E xn :
                      /\ EntryIs(obj.entry[c], st, obj.entry[c].ref, xn)
                      /\ SetState(y, c, st) = Upd(obj, c, xn, xa, obj.service, obj.alive_list)
  BY <1>1, TakenObjectsHere
<1>4. CASE Registered(poll, c)
  <2>1. poll' = mpoller_mod(poll, c, "write") /\ obj' = y
    BY <1>4
  <2>2. PICK l \in PlaceSet :
           /\ NodeGoes(poll, poll', g[c], c, l) /\ poll'.batch = poll.batch
           /\ g[c].loc = "table" /\ l.loc = "table" /\ l.op = "write"
           /\ l.msg = g[c].msg /\ l.acc = g[c].acc
    BY <1>1, <1>4, <2>1, TakenMod
  <2>3. PICK xn : xn = obj.entry[c]
    OBVIOUS
  <2>4. xn \in EntrySet /\ xn.state = "IDLE"
    BY <1>1, <2>3, ConnIs, IdleConn
  <2>5. SendingTo(g[c], l, obj.entry[c], xn, Alive(c), Alive(c)) /\ xn.seq = obj.entry[c].seq
    BY <2>2, <2>3, <2>4 DEF SendingTo
  <2>6. obj' = Upd(obj, c, xn, xa, obj.service, obj.alive_list)
    BY <1>3, <2>1, <2>3
  <2> QED  BY <1>1, <1>2, <1>3, <2>2, <2>4, <2>5, <2>6, TakenSame
<1>5. CASE ~Registered(poll, c)
  <2>1. poll' = poll /\ obj' = SetState(y, c, "RECEIVING")
    BY <1>5
  <2>2. "RECEIVING" \in EntryStates
    BY DEF EntryStates
  <2>3. PICK xn : /\ EntryIs(obj.entry[c], "RECEIVING", obj.entry[c].ref, xn)
                  /\ SetState(y, c, "RECEIVING") = Upd(obj, c, xn, xa, obj.service, obj.alive_list)
    BY <1>3, <2>2
  <2>4. PICK l \in PlaceSet : /\ l = g[c] /\ NodeGoes(poll, poll', g[c], c, l)
                              /\ poll'.batch = poll.batch /\ g[c].loc # "table"
    BY <1>1, <1>5, <2>1, TakenStays
  <2>5. SendingTo(g[c], l, obj.entry[c], xn, Alive(c), Alive(c))
    BY <2>3, <2>4 DEF SendingTo, EntryIs
  <2>6. xn \in EntrySet /\ xn.seq = obj.entry[c].seq
    BY <2>3 DEF EntryIs
  <2>7. obj' = Upd(obj, c, xn, xa, obj.service, obj.alive_list)
    BY <2>1, <2>3
  <2> QED  BY <1>1, <1>2, <1>3, <2>4, <2>5, <2>6, <2>7, TakenSame
<1> QED  BY <1>4, <1>5

\* It cannot be sent.
LEMMA ReplyFails ==
  ASSUME NEW g \in Places, NEW z \in ServicePlaces, Inv(g, z), NEW s, NEW c,
         ReplyFrame(s, c, "sending"), poll' = mpoller_del(poll, c),
         obj' = SetState(NotIdleFor(obj, c), c, "ERROR")
  PROVE  IInv'
<1>1. c \in Conns /\ obj.target[c].idle
  BY DEF ReplyFrame
<1>2. PICK sn : TakenBy(s, sn, "sending", c)
  BY ReplyTaken
<1>3. PICK y : y = NotIdleFor(obj, c)
  OBVIOUS
<1>4. PICK xa : /\ TargetIs(obj.target[c], xa)
                /\ \A st \in EntryStates : \E xn :
                      /\ EntryIs(obj.entry[c], st, obj.entry[c].ref, xn)
                      /\ SetState(y, c, st) = Upd(obj, c, xn, xa, obj.service, obj.alive_list)
  BY <1>1, <1>3, TakenObjectsHere
<1>5. "ERROR" \in EntryStates
  BY DEF EntryStates
<1>6. PICK xn : /\ EntryIs(obj.entry[c], "ERROR", obj.entry[c].ref, xn)
                /\ SetState(y, c, "ERROR") = Upd(obj, c, xn, xa, obj.service, obj.alive_list)
  BY <1>4, <1>5
<1>7. PICK l \in PlaceSet :
         NodeGoes(poll, poll', g[c], c, l) /\ MovesOn(g[c], l) /\ poll'.batch = poll.batch
  BY <1>1, TakenDel
<1>8. SendingTo(g[c], l, obj.entry[c], xn, Alive(c), Alive(c))
  BY <1>6, <1>7 DEF SendingTo, EntryIs
<1>9. xn \in EntrySet /\ xn.seq = obj.entry[c].seq
  BY <1>6 DEF EntryIs
<1>10. obj' = Upd(obj, c, xn, xa, obj.service, obj.alive_list)
  BY <1>3, <1>6
<1> QED  BY <1>1, <1>2, <1>4, <1>7, <1>8, <1>9, <1>10, TakenSame

LEMMA ReplyKeeps ==
  ASSUME NEW g \in Places, NEW z \in ServicePlaces, Inv(g, z), NEW s \in Sessions,
         reply(s)
  PROVE  IInv'
<1>1. PICK c \in Conns : s[1] = c
  BY SessionParts
<1>2. MayReply(s) /\ session' = [session EXCEPT ![s].passive = 3]
  BY DEF reply
<1>3. CASE ~obj.target[c].idle
  <2>1. UseTarget(obj, c) = obj
    <3>1. session[s].passive \in 1 .. 3
      BY <1>2 DEF MayReply
    <3> QED  BY <1>1, <3>1, UndeletedUsable
  <2>2. user' = [user EXCEPT ![s] = "over"] /\ UNCHANGED <<poll, pollers, obj, worker, flags>>
        /\ mutex' = mutex
    BY <1>1, <1>3, <2>1 DEF reply, GoUser, flags
  <2>3. mutex' \in [Conns -> Sessions \cup {NONE}]
    BY <2>2, InvParts DEF Types
  <2>4. PICK sn : Answers(s, sn, "over")
    BY <1>2, <2>2, <2>3, AnswersIs
  <2> QED  BY <1>1, <2>2, <2>4, AnswerLate
<1>4. CASE obj.target[c].idle
  <2>1. PICK y : y = NotIdleFor(obj, c)
    OBVIOUS
  <2>2. /\ MayReply(s) /\ session' = [session EXCEPT ![s].passive = 3]
        /\ mutex' = [mutex EXCEPT ![c] = s] /\ UNCHANGED <<pollers, worker, stop_flag>>
        /\ stray' \in SUBSET Conns /\ Replies(s, c, y)
    BY <1>1, <1>4, <2>1, ReplyIs
  <2>3. /\ GoUser(s, "sent") => ReplyFrame(s, c, "sent")
        /\ GoUser(s, "sending") => ReplyFrame(s, c, "sending")
    BY <1>1, <1>4, <2>2 DEF ReplyFrame
  <2>4. CASE /\ ReplyFrame(s, c, "sent") /\ poll' = mpoller_del(poll, c)
             /\ obj' = SetState(MoreEntry(y, c), c, "CLOSING")
    BY <2>1, <2>4, ReplyCloses
  <2>5. CASE /\ ReplyFrame(s, c, "sent") /\ poll' = poll /\ obj.alive_list = <<>>
             /\ obj.service.listening /\ obj' = AliveAdd(y, c)
    BY <2>1, <2>5, ReplyKeepsAlive
  <2>6. CASE /\ ReplyFrame(s, c, "sent") /\ poll' = poll /\ obj' = UseService(MoreEntry(y, c))
    BY <2>1, <2>6, ReplyStrays
  <2>7. CASE /\ ReplyFrame(s, c, "sending")
             /\ \/ Registered(poll, c) /\ poll' = mpoller_mod(poll, c, "write") /\ obj' = y
                \/ ~Registered(poll, c) /\ poll' = poll /\ obj' = SetState(y, c, "RECEIVING")
    BY <2>1, <2>7, ReplyWrites
  <2>8. CASE /\ ReplyFrame(s, c, "sending") /\ poll' = mpoller_del(poll, c)
             /\ obj' = SetState(y, c, "ERROR")
    BY <2>1, <2>8, ReplyFails
  <2> QED  BY <2>2, <2>3, <2>4, <2>5, <2>6, <2>7, <2>8 DEF Replies
<1> QED  BY <1>3, <1>4
----
(* The rest of a reply. *)

\* The user goes on, and no reference or session comes or goes.
LEMMA UserQuiet ==
  ASSUME NEW g \in Places, NEW z \in ServicePlaces, Inv(g, z),
         NEW c \in Conns, NEW s, NEW sn, NEW u, UserTurns(s, sn, u), s[1] = c,
         sn.passive = session[s].passive, UserHolds(u) <=> UserHolds(user[s]),
         UNCHANGED <<poll, pollers, worker, flags>>, SameObjects
  PROVE  IInv'
<1>1. /\ Types /\ AliveOK /\ ~obj.bad /\ Serv(z) /\ Fits(g[c], c) /\ g[c] \in PlaceSet
      /\ Queued(Results, poll, g[c], c) /\ poll \in Group(Results)
      /\ poll' = poll /\ worker' = worker
  BY ConnIs, InvParts
<1>2. /\ obj' \in ObjSet /\ obj'.entry = obj.entry /\ obj'.target = obj.target
      /\ obj'.service = obj.service /\ obj'.alive_list = obj.alive_list /\ ~obj'.bad
  BY <1>1 DEF SameObjects
<1>3. s \in Sessions /\ session' = [session EXCEPT ![s] = sn]
  BY DEF UserTurns
<1>4. /\ session'[s] = sn /\ \A t \in Sessions : t # s => session'[t] = session[t]
  BY <1>1, UserTurnsIs
<1>5. Undeleted(c)' = Undeleted(c) /\ Holders(worker, user', c) = Holding(c)
  <2>1. sn.passive \in 1 .. 3 <=> session[s].passive \in 1 .. 3
    OBVIOUS
  <2> QED  BY <1>1, <2>1, UserCounts
<1>6. Passive(c)' = Passive(c)
  <2>1. CASE obj.entry[c].seq = 0
    BY <1>2, <2>1 DEF Passive
  <2>2. CASE obj.entry[c].seq # 0
    <3>1. PICK t \in Sessions : t = LastSession(c)
      <4>1. obj.entry[c].seq \in 0 .. MaxSeq
        BY <1>1, ConnIs DEF EntrySet
      <4> QED  BY <2>2, <4>1, LastIsSession DEF LastSession
    <3>2. Passive(c) = session[t].passive /\ Passive(c)' = session'[t].passive
      BY <1>2, <2>2, <3>1 DEF Passive, LastSession
    <3> QED  BY <1>4, <3>2
  <2> QED  BY <2>1, <2>2
<1>7. ObjStep(c) /\ Alive(c)' = Alive(c)
  BY <1>2 DEF ObjStep, KeepsObj, Alive
<1>8. Fitting(g[c], Holders(worker, user', c), Cardinality(Undeleted(c)'), obj'.entry[c],
              obj'.target[c], Alive(c)', At(c), Reads(c), Passive(c)')
  BY <1>1, <1>2, <1>5, <1>6, <1>7 DEF Fits
<1>9. PollStep(c) /\ Queued(Results, poll', g[c], c) /\ poll'.batch = poll.batch
  BY <1>1, PollSame
<1>10. AliveOK'
  BY <1>1, <1>2, AliveSame
<1>11. ServiceFits(z, obj'.service, Cardinality(Live(obj')))
  <2>1. Live(obj') = Live(obj)
    BY <1>2 DEF Live
  <2> QED  BY <1>1, <1>2, <2>1 DEF Serv
<1>12. SameHands(g[c], g[c])
  BY DEF SameHands
<1>13. UNCHANGED <<pollers, worker, stop_flag>> /\ stray' \in SUBSET Conns
  BY <1>1 DEF flags, Types
<1>14. obj'.entry[c].seq = obj.entry[c].seq
       /\ (Owes(g[c], obj'.entry[c]) => Owes(g[c], obj.entry[c]))
  BY <1>2
<1> QED  BY <1>1, <1>7, <1>8, <1>9, <1>10, <1>11, <1>12, <1>13, <1>14, UserStep

LEMMA ObjectsStay ==
  ASSUME Types, obj' = obj
  PROVE  SameObjects
BY DEF SameObjects, Types

\* A user that holds a reference.
LEMMA UserHoldsOne ==
  ASSUME NEW s \in Sessions, NEW c, s[1] = c, UserHolds(user[s])
  PROVE  Holding(c) # 0
<1>1. s \in UserRefs(user, c)
  BY DEF UserRefs, UserHolds
<1>2. IsFiniteSet(UserRefs(user, c)) /\ Cardinality(UserRefs(user, c)) \in Nat
  BY UserRefsFinite
<1>3. Cardinality(Refs(worker, c)) \in Nat
  BY RefsFinite
<1>4. Cardinality(UserRefs(user, c)) # 0
  BY <1>1, <1>2, FS_EmptySet
<1> QED  BY <1>2, <1>3, <1>4 DEF Holders

LEMMA UserIs ==
  ASSUME NEW g \in Places, NEW z \in ServicePlaces, Inv(g, z), NEW s \in Sessions
  PROVE  /\ s[1] \in Conns /\ session[s] \in SessionSet /\ Phases(session[s], user[s])
         /\ session = [session EXCEPT ![s] = session[s]]
         /\ mutex \in [Conns -> Sessions \cup {NONE}]
<1>1. /\ session \in [Sessions -> SessionSet] /\ mutex \in [Conns -> Sessions \cup {NONE}]
      /\ s[1] \in Conns
  BY InvParts, SessionParts DEF Types
<1>2. Phases(session[s], user[s])
  BY <1>1, ConnIs DEF Sess
<1> QED  BY <1>1, <1>2

LEMMA ReplyUnlockKeeps ==
  ASSUME NEW g \in Places, NEW z \in ServicePlaces, Inv(g, z), NEW s \in Sessions,
         reply_unlock(s)
  PROVE  IInv'
<1>1. PICK c \in Conns : s[1] = c
  BY SessionParts
<1>2. /\ session[s] \in SessionSet /\ Phases(session[s], user[s])
      /\ session = [session EXCEPT ![s] = session[s]]
      /\ mutex \in [Conns -> Sessions \cup {NONE}] /\ Types
  BY UserIs, InvParts
<1>3. PICK u : u = IF user[s] = "sent" THEN "handle" ELSE "returned"
  OBVIOUS
<1>4. PICK sn : sn = session[s]
  OBVIOUS
<1>5. /\ user[s] \in {"sent", "sending"} /\ user' = [user EXCEPT ![s] = u]
      /\ session' = session /\ mutex' = [mutex EXCEPT ![c] = NONE]
      /\ UNCHANGED <<poll, pollers, worker, flags>>
      /\ obj' = IF user[s] = "sent" THEN UseTarget(obj, c)
                ELSE [obj EXCEPT !.torn = @ \/ obj.target[c].state # "LIVE"]
  BY <1>1, <1>3 DEF reply_unlock, GoUser
<1>6. Turns(session[s], user[s], sn, u)
  BY <1>2, <1>3, <1>4, <1>5 DEF Turns, Phases, Receiving, Sending, Asking
<1>7. UserTurns(s, sn, u)
  <2>1. mutex' \in [Conns -> Sessions \cup {NONE}]
    BY <1>2, <1>5
  <2>2. u \in UserPcs
    BY <1>3 DEF UserPcs
  <2>3. session' = [session EXCEPT ![s] = sn]
    BY <1>2, <1>4, <1>5
  <2> QED  BY <1>2, <1>4, <1>5, <1>6, <2>1, <2>2, <2>3 DEF UserTurns
<1>8. sn.passive = session[s].passive /\ (UserHolds(u) <=> UserHolds(user[s]))
  BY <1>3, <1>4, <1>5 DEF UserHolds
<1>9. SameObjects
  <2>1. CASE user[s] = "sent"
    <3>1. Holding(c) # 0
      BY <1>1, <2>1, UserHoldsOne DEF UserHolds
    <3>2. UseTarget(obj, c) = obj
      BY <3>1, EntryUsable
    <3> QED  BY <1>2, <1>5, <2>1, <3>2, ObjectsStay
  <2>2. CASE user[s] = "sending"
    <3>1. PICK b \in BOOLEAN : b = (obj.torn \/ obj.target[c].state # "LIVE")
      OBVIOUS
    <3>2. obj' = [obj EXCEPT !.torn = b]
      BY <1>5, <2>2, <3>1
    <3>3. obj \in ObjSet
      BY <1>2 DEF Types
    <3> QED  BY <3>1, <3>2, <3>3 DEF SameObjects, ObjSet
  <2> QED  BY <1>5, <2>1, <2>2
<1> QED  BY <1>1, <1>5, <1>7, <1>8, <1>9, UserQuiet

LEMMA ReplyHandleKeeps ==
  ASSUME NEW g \in Places, NEW z \in ServicePlaces, Inv(g, z), NEW s \in Sessions,
         reply_handle(s)
  PROVE  IInv'
<1>1. PICK c \in Conns : s[1] = c
  BY SessionParts
<1>2. /\ session[s] \in SessionSet /\ Phases(session[s], user[s])
      /\ mutex \in [Conns -> Sessions \cup {NONE}] /\ Types
  BY UserIs, InvParts
<1>3. PICK sn : sn = WithTold(session[s], "SUCCESS")
  OBVIOUS
<1>4. /\ user[s] = "handle" /\ user' = [user EXCEPT ![s] = "unref"]
      /\ session' = [session EXCEPT ![s] = sn] /\ mutex' = mutex /\ obj' = obj
      /\ UNCHANGED <<poll, pollers, worker, flags>>
  BY <1>3 DEF reply_handle, GoUser, WithTold
<1>5. session[s].passive = 3 /\ Asked(session[s].told)
  BY <1>2, <1>4 DEF Phases
<1>6. sn \in SessionSet /\ sn.passive = 3 /\ AskedAndEnd(sn.told)
  <2>1. "SUCCESS" \in Tells /\ 3 \in 0 .. 4 /\ session[s].told \in Seq(Tells)
    BY <1>2 DEF Tells, SessionSet
  <2>2. sn \in SessionSet /\ sn.passive = 3 /\ sn.told = Append(session[s].told, "SUCCESS")
    BY <1>2, <1>3, <1>5, <2>1, SessionFields
  <2>3. PICK q : q = Append(session[s].told, "SUCCESS")
    OBVIOUS
  <2>4. Len(q) = 2 /\ q[1] = session[s].told[1] /\ q[2] = "SUCCESS"
    BY <1>5, <2>1, <2>3, ToldMore DEF Asked
  <2> QED  BY <1>5, <2>2, <2>3, <2>4 DEF Asked, AskedAndEnd
<1>7. Turns(session[s], user[s], sn, "unref")
  BY <1>4, <1>5, <1>6 DEF Turns, Phases, Receiving, Sending, Asking
<1>8. UserTurns(s, sn, "unref")
  <2>1. "unref" \in UserPcs
    BY DEF UserPcs
  <2> QED  BY <1>2, <1>4, <1>6, <1>7, <2>1 DEF UserTurns
<1>9. sn.passive = session[s].passive /\ (UserHolds("unref") <=> UserHolds(user[s]))
  BY <1>4, <1>5, <1>6 DEF UserHolds
<1>10. SameObjects
  BY <1>2, <1>4, ObjectsStay
<1> QED  BY <1>1, <1>4, <1>8, <1>9, <1>10, UserQuiet

\* passive of the last session, when no session changes.
LEMMA SamePassiveHere ==
  ASSUME session' = session, NEW c, obj'.entry[c].seq = obj.entry[c].seq
  PROVE  Passive(c)' = Passive(c)
BY DEF Passive, LastSession

LEMMA ReplyUnrefKeeps ==
  ASSUME NEW g \in Places, NEW z \in ServicePlaces, Inv(g, z), NEW s \in Sessions,
         reply_unref(s)
  PROVE  IInv'
<1>1. PICK c \in Conns : s[1] = c
  BY SessionParts
<1>2. /\ session[s] \in SessionSet /\ Phases(session[s], user[s])
      /\ session = [session EXCEPT ![s] = session[s]]
      /\ mutex \in [Conns -> Sessions \cup {NONE}] /\ Types /\ AliveOK
      /\ g[c] \in PlaceSet /\ Queued(Results, poll, g[c], c) /\ poll \in Group(Results)
  BY UserIs, InvParts, ConnIs
<1>3. PICK sn : sn = session[s]
  OBVIOUS
<1>4. /\ user[s] = "unref" /\ user' = [user EXCEPT ![s] = "returned"]
      /\ session' = session /\ mutex' = mutex /\ obj' = EntryDecref(obj, c)
      /\ UNCHANGED <<poll, pollers, worker, flags>>
  BY <1>1 DEF reply_unref, GoUser
<1>5. Turns(session[s], user[s], sn, "returned")
  BY <1>2, <1>3, <1>4 DEF Turns, Phases, Receiving, Sending, Asking
<1>6. UserTurns(s, sn, "returned")
  <2>1. "returned" \in UserPcs
    BY DEF UserPcs
  <2>2. session' = [session EXCEPT ![s] = sn]
    BY <1>2, <1>3, <1>4
  <2> QED  BY <1>2, <1>3, <1>4, <1>5, <2>1, <2>2 DEF UserTurns
<1>7. /\ OneMore(Holding(c), Holders(worker, user', c))
      /\ Undeleted(c)' = Undeleted(c)
  <2>1. /\ ~UserHolds("returned") /\ UserHolds(user[s])
        /\ sn.passive \in 1 .. 3 <=> session[s].passive \in 1 .. 3
    BY <1>3, <1>4 DEF UserHolds
  <2> QED  BY <1>1, <1>2, <1>6, <2>1, UserCounts
<1>8. Holding(c) # 0
  BY <1>1, <1>4, UserHoldsOne DEF UserHolds
<1>9. /\ ObjStep(c) /\ obj'.alive_list = obj.alive_list
      /\ obj'.service.listening = obj.service.listening
      /\ ServiceFits(z, obj'.service, Cardinality(Live(obj')))
  BY <1>4, <1>8, EntryGoes
<1>10. /\ Fitting(g[c], Holders(worker, user', c), Open(c), obj'.entry[c],
                  obj'.target[c], Alive(c)', At(c), Reads(c), Passive(c))
       /\ Owes(g[c], obj'.entry[c]) => Owes(g[c], obj.entry[c])
       /\ obj'.entry[c].seq = obj.entry[c].seq
  BY <1>4, <1>7, EntryGoesFits
<1>11. Passive(c)' = Passive(c)
  BY <1>4, <1>10, SamePassiveHere
<1>12. Fitting(g[c], Holders(worker, user', c), Cardinality(Undeleted(c)'), obj'.entry[c],
               obj'.target[c], Alive(c)', At(c), Reads(c), Passive(c)')
  BY <1>7, <1>10, <1>11
<1>13. PollStep(c) /\ Queued(Results, poll', g[c], c) /\ poll'.batch = poll.batch
  <2>1. poll' = poll
    BY <1>4
  <2> QED  BY <1>2, <2>1, PollSame
<1>14. AliveOK'
  <2>1. worker' = worker
    BY <1>4
  <2> QED  BY <1>2, <1>9, <2>1, AliveSame
<1>15. SameHands(g[c], g[c])
  BY DEF SameHands
<1>16. UNCHANGED <<pollers, worker, stop_flag>> /\ stray' \in SUBSET Conns
  BY <1>2, <1>4 DEF flags, Types
<1> QED  BY <1>1, <1>2, <1>6, <1>9, <1>10, <1>12, <1>13, <1>14, <1>15, <1>16, UserStep
----
(* A session is shut down, and deleted. *)

\* TargetShutdown, when the entry is in idle_list.
LEMMA ShutdownIs ==
  ASSUME NEW g \in Places, NEW z \in ServicePlaces, Inv(g, z), NEW c \in Conns, obj.target[c].idle
  PROVE  \E xn, xa : /\ TargetIs(obj.target[c], xa)
                     /\ EntryIs(obj.entry[c], "CLOSING", obj.entry[c].ref, xn)
                     /\ TargetShutdown(obj, c) = Upd(obj, c, xn, xa, obj.service, obj.alive_list)
<1>1. /\ Usable(obj, c) /\ UseTarget(obj, c) = obj /\ obj.entry[c].state \notin {"NONE", "FREED"}
  BY IdleConn
<1>2. "CLOSING" \in EntryStates
  BY DEF EntryStates
<1>3. PICK o : o = obj
  OBVIOUS
<1>4. PICK y : y = SetState(o, c, "CLOSING")
  OBVIOUS
<1>5. Usable(o, c) /\ o.entry[c].state \notin {"NONE", "FREED"} /\ o \in ObjSet
  BY <1>1, <1>3 DEF Usable
<1>6. PICK xn : /\ EntryIs(o.entry[c], "CLOSING", o.entry[c].ref, xn)
                /\ y = Upd(o, c, xn, o.target[c], o.service, o.alive_list)
  BY <1>2, <1>4, <1>5, SetStateTo
<1>7. xn \in EntrySet
  BY <1>6 DEF EntryIs
<1>8. /\ Usable(y, c) /\ y.entry[c] = xn /\ y.target[c] = o.target[c] /\ y.service = o.service
      /\ y.alive_list = o.alive_list
      /\ \A en, ta, q : Upd(y, c, en, ta, o.service, q) = Upd(o, c, en, ta, o.service, q)
  <2>1. PICK xa : xa = o.target[c]
    OBVIOUS
  <2>2. (TargetIs(o.target[c], xa) \/ xa = o.target[c])
        /\ y = Upd(o, c, xn, xa, o.service, o.alive_list)
    BY <1>6, <2>1
  <2>3. /\ Usable(y, c) /\ y.entry[c] = xn /\ y.target[c] = xa /\ y.service = o.service
        /\ y.alive_list = o.alive_list
        /\ \A en, ta, q : Upd(y, c, en, ta, o.service, q) = Upd(o, c, en, ta, o.service, q)
    BY ONLY <1>5, <1>7, <2>2, UpdUsable
  <2> QED  BY <2>1, <2>3
<1>9. PICK v : v = NotIdleFor(y, c)
  OBVIOUS
<1>10. PICK xa : /\ TargetIs(y.target[c], xa)
                 /\ v = Upd(y, c, y.entry[c], xa, y.service, y.alive_list)
  BY <1>8, <1>9, NotIdleIs
<1>11. v = Upd(o, c, xn, xa, o.service, o.alive_list) /\ TargetIs(o.target[c], xa)
  BY <1>8, <1>10
<1>12. TargetShutdown(obj, c) = v
  BY <1>1, <1>3, <1>4, <1>9 DEF TargetShutdown, NotIdleFor
<1> QED  BY <1>3, <1>6, <1>11, <1>12

LEMMA ShutdownKeeps ==
  ASSUME NEW g \in Places, NEW z \in ServicePlaces, Inv(g, z), NEW s \in Sessions,
         shutdown(s)
  PROVE  IInv'
<1>1. PICK c \in Conns : s[1] = c
  BY SessionParts
<1>2. /\ MayReply(s) /\ session' = [session EXCEPT ![s].passive = 3]
      /\ user' = [user EXCEPT ![s] = "over"] /\ mutex' = mutex
      /\ UNCHANGED <<pollers, worker, flags>> /\ obj' = TargetShutdown(obj, c)
      /\ poll' = IF obj.target[c].idle THEN mpoller_del(poll, c) ELSE poll
  BY <1>1 DEF shutdown, GoUser
<1>3. mutex' \in [Conns -> Sessions \cup {NONE}] /\ stray \in SUBSET Conns
  BY <1>2, InvParts DEF Types
<1>4. PICK sn : Answers(s, sn, "over")
  BY <1>2, <1>3, AnswersIs
<1>5. CASE ~obj.target[c].idle
  <2>1. UseTarget(obj, c) = obj
    <3>1. session[s].passive \in 1 .. 3
      BY <1>2 DEF MayReply
    <3> QED  BY <1>1, <3>1, UndeletedUsable
  <2>2. UNCHANGED <<poll, pollers, obj, worker, flags>>
    BY <1>2, <1>5, <2>1 DEF TargetShutdown
  <2> QED  BY <1>1, <1>4, <2>2, AnswerLate
<1>6. CASE obj.target[c].idle
  <2>1. PICK xn, xa : /\ TargetIs(obj.target[c], xa)
                      /\ EntryIs(obj.entry[c], "CLOSING", obj.entry[c].ref, xn)
                      /\ TargetShutdown(obj, c) = Upd(obj, c, xn, xa, obj.service, obj.alive_list)
    BY <1>6, ShutdownIs
  <2>2. PICK l \in PlaceSet :
           NodeGoes(poll, poll', g[c], c, l) /\ MovesOn(g[c], l) /\ poll'.batch = poll.batch
    BY <1>2, <1>6, TakenDel
  <2>3. OverTo(g[c], l, obj.entry[c], xn, Alive(c), Alive(c))
    BY <2>1, <2>2 DEF OverTo, EntryIs
  <2>4. xn \in EntrySet /\ xn.seq = obj.entry[c].seq
    BY <2>1 DEF EntryIs
  <2>5. TakenBy(s, sn, "over", c)
    BY <1>1, <1>2, <1>3, <1>4, <1>6 DEF TakenBy, flags
  <2>6. obj' = Upd(obj, c, xn, xa, obj.service, obj.alive_list)
    BY <1>2, <2>1
  <2> QED  BY <1>1, <2>1, <2>2, <2>3, <2>4, <2>5, <2>6, TakenSame
<1> QED  BY <1>5, <1>6

LEMMA DeletesFits ==
  ASSUME NEW l, NEW n, NEW k, NEW j, NEW en, NEW ta, NEW xa, NEW al, NEW a, NEW rd, NEW p, NEW q,
         Deletes(l, n, k, j, en, ta, xa, al, a, rd, p, q)
  PROVE  Fitting(l, n, j, en, xa, al, a, rd, q)
<1>1. Counted(l, n, k, en, ta) /\ StateFits(l, en, ta, p) /\ PollFits(l, en, al, a, rd, p)
  BY DEF Deletes, Fitting
<1>2. /\ l \in PlaceSet /\ j \in Nat /\ k = j + 1 /\ ta.state = "LIVE" /\ ta.ref \in Nat
      /\ xa.ref = ta.ref - 1 /\ xa.idle = ta.idle
      /\ xa.state = IF ta.ref = 1 THEN "FREED" ELSE "LIVE"
      /\ q = p \/ (q = 4 /\ ~Owes(l, en) /\ l.loc # "replied" /\ l.msg # "request")
  BY DEF Deletes, OneMore
<1>3. Counted(l, n, j, en, xa)
  <2>1. /\ ta.ref = k + (IF en.state = "FREED" THEN 0 ELSE 1) /\ n \in Nat
        /\ en.state # "NONE"
    BY <1>1, <1>2 DEF Counted
  <2>2. xa.state = "FREED" => en.state = "FREED" /\ j = 0
    BY <1>2, <2>1
  <2>3. xa.state = "LIVE" => xa.ref = j + (IF en.state = "FREED" THEN 0 ELSE 1) /\ xa.ref # 0
    BY <1>2, <2>1
  <2> QED  BY <1>1, <1>2, <2>1, <2>2, <2>3 DEF Counted
<1>4. StateFits(l, en, xa, p)
  BY <1>1, <1>2 DEF StateFits
<1>5. CASE q = p
  BY <1>1, <1>3, <1>4, <1>5 DEF Fitting
<1>6. CASE q = 4 /\ ~Owes(l, en) /\ l.loc # "replied" /\ l.msg # "request"
  <2>1. l.msg = "none"
    BY <1>2, <1>6 DEF PlaceSet, Owes
  <2>2. l.loc \in Watched => en.state \notin {"RECEIVING", "ERROR"}
    BY <1>6 DEF Owes
  <2>3. l.loc # "none" => l.loc \in Watched /\ l.op # "write"
    BY <1>1, <1>2, <1>6 DEF PlaceSet, Owes, Watched, StateFits
  <2>4. StateFits(l, en, xa, q)
    BY <1>4, <1>6, <2>1, <2>2, <2>3 DEF StateFits
  <2>5. PollFits(l, en, al, a, rd, q)
    BY <1>1, <1>6, <2>1, <2>2, <2>3 DEF PollFits
  <2> QED  BY <1>3, <2>4, <2>5 DEF Fitting
<1> QED  BY <1>2, <1>5, <1>6

LEMMA ToldIs ==
  ASSUME NEW s \in Sessions, session[s].told \in Seq(Tells)
  PROVE  /\ session[s].told = <<>> => ~Told(s)
         /\ Asked(session[s].told) => ~Told(s)
<1>1. PICK t : t = session[s].told
  OBVIOUS
<1>2. t \in Seq(Tells) /\ DOMAIN t = 1 .. Len(t) /\ Len(t) \in Nat
  BY <1>1
<1>3. t = <<>> => ~Told(s)
  BY <1>1 DEF Told
<1>4. Asked(t) => ~Told(s)
  BY <1>1, <1>2 DEF Told, Asked
<1> QED  BY <1>1, <1>3, <1>4

LEMMA DeletionIs ==
  ASSUME NEW g \in Places, NEW z \in ServicePlaces, Inv(g, z), NEW s \in Sessions, NEW c \in Conns,
         s[1] = c, delete_session(s)
  PROVE  \E sn, u : Deletion(s, sn, u, c)
<1>1. /\ session[s] \in SessionSet /\ Phases(session[s], user[s])
      /\ mutex \in [Conns -> Sessions \cup {NONE}] /\ user \in [Sessions -> UserPcs]
  BY UserIs, ConnIs
<1>2. PICK u : u = IF user[s] = "toreply" THEN "over" ELSE user[s]
  OBVIOUS
<1>3. PICK sn : sn = WithPassive(session[s], 4)
  OBVIOUS
<1>4. /\ session[s].passive \in 1 .. 3 /\ (Told(s) \/ user[s] \in {"toreply", "over"})
      /\ user' = [user EXCEPT ![s] = u] /\ session' = [session EXCEPT ![s] = sn]
      /\ mutex' = mutex /\ UNCHANGED <<pollers, worker, flags>>
  BY <1>2, <1>3 DEF delete_session, WithPassive
<1>5. sn \in SessionSet /\ sn.passive = 4 /\ sn.told = session[s].told
  <2>1. 4 \in 0 .. 4 /\ "none" \in Tells
    BY DEF Tells
  <2> QED  BY <1>1, <1>3, <2>1, SessionFields
<1>6. /\ session[s].told = <<>> => ~Told(s)
      /\ Asked(session[s].told) => ~Told(s)
  <2>1. session[s].told \in Seq(Tells)
    BY <1>1 DEF SessionSet
  <2> QED  BY <2>1, ToldIs
<1>7. /\ session[s].told # <<>>
      /\ Asked(session[s].told) => user[s] \in {"toreply", "over"}
  BY <1>1, <1>4, <1>6 DEF Phases, Asked
<1>8. Unspoken(session[s], user[s])
  BY <1>7 DEF Unspoken, Receiving, Sending, Asking
<1>9. Phases(sn, u)
  BY <1>1, <1>2, <1>4, <1>5, <1>7 DEF Phases
<1>10. Turns(session[s], user[s], sn, u)
  BY <1>4, <1>5, <1>8, <1>9 DEF Turns, Unspoken
<1>11. UserTurns(s, sn, u)
  <2>1. u \in UserPcs
    BY <1>1, <1>2 DEF UserPcs
  <2>2. mutex' \in [Conns -> Sessions \cup {NONE}]
    BY <1>1, <1>4
  <2> QED  BY <1>4, <1>5, <1>10, <2>1, <2>2 DEF UserTurns
<1>12. UserHolds(u) <=> UserHolds(user[s])
  BY <1>2 DEF UserHolds
<1> QED  BY <1>4, <1>5, <1>8, <1>11, <1>12 DEF Deletion

\* The tokens of a connection whose last session nobody speaks for.
LEMMA UnspokenLast ==
  ASSUME NEW g \in Places, NEW z \in ServicePlaces, Inv(g, z), NEW c \in Conns, NEW s \in Sessions,
         s[1] = c, s = LastSession(c), Unspoken(session[s], user[s])
  PROVE  ~Owes(g[c], obj.entry[c]) /\ g[c].loc # "replied" /\ g[c].msg # "request"
<1>1. Sess(g[c], s) /\ Held(worker, g[c], c) /\ LastAtHand(c)
  BY ConnIs
<1>2. s[2] = obj.entry[c].seq
  BY DEF LastSession
<1>3. ~Owes(g[c], obj.entry[c])
  BY <1>1, <1>2 DEF Sess, Owed, Unspoken
<1>4. ASSUME NEW p \in {"request", "replied"}, NEW w \in Workers, AtHand(worker[w], p, c)
      PROVE  FALSE
  <2>1. worker[w].s = s /\ worker[w].pc = p
    BY <1>1, <1>4 DEF LastAtHand, AtHand
  <2>2. Speaker(worker[w], session[s], user[s])
    BY <1>1, <2>1 DEF Sess, SpeaksFor, Speaking
  <2> QED  BY <2>1, <2>2 DEF Speaker, Unspoken
<1>5. g[c].loc # "replied"
  BY <1>1, <1>4 DEF Held, One, OnlyAt
<1>6. g[c].msg # "request"
  BY <1>1, <1>4 DEF Held, One, OnlyAt
<1> QED  BY <1>3, <1>5, <1>6

LEMMA DeleteStep ==
  ASSUME NEW g \in Places, NEW z \in ServicePlaces, Inv(g, z),
         NEW c, NEW s, NEW sn, NEW u, Deletion(s, sn, u, c),
         NEW l, NEW xn, NEW xa, NEW p,
         Left(g[c], l, Holding(c), Open(c), obj.entry[c], xn, xa,
              Alive(c), At(c), Reads(c), p),
         p = Passive(c) \/ s = LastSession(c),
         NodeGoes(poll, poll', g[c], c, l), poll'.batch = poll.batch,
         obj' = Upd(obj, c, xn, TargetLess(xa), SvAfter(xa, obj.service), obj.alive_list)
  PROVE  IInv'
<1>1. /\ UserTurns(s, sn, u) /\ s \in Sessions /\ c \in Conns /\ s[1] = c
      /\ sn.passive = 4 /\ session[s].passive \in 1 .. 3
      /\ Unspoken(session[s], user[s]) /\ (UserHolds(u) <=> UserHolds(user[s]))
      /\ UNCHANGED <<pollers, worker, flags>>
  BY DEF Deletion
<1>2. /\ Types /\ AliveOK /\ ~obj.bad /\ g[c] \in PlaceSet
      /\ Queued(Results, poll, g[c], c) /\ obj.alive_list \in Seq(Conns)
  BY <1>1, ConnIs, InvParts
<1>3. /\ l \in PlaceSet /\ SameHands(g[c], l) /\ (Owes(l, xn) => Owes(g[c], obj.entry[c]))
      /\ xn \in EntrySet /\ xn.seq = obj.entry[c].seq
      /\ xa \in TargetSet /\ xa.state = "LIVE" /\ xa.ref # 0
      /\ Fitting(l, Holding(c), Open(c), xn, xa,
                 Alive(c), At(c), Reads(c), p)
  BY DEF Left
<1>4. PICK ta : ta = TargetLess(xa)
  OBVIOUS
<1>5. PICK sx : sx = SvAfter(xa, obj.service)
  OBVIOUS
<1>6. /\ ta \in TargetSet /\ ta.ref = xa.ref - 1 /\ ta.idle = xa.idle /\ xa.ref \in Nat
      /\ ta.state = IF xa.ref = 1 THEN "FREED" ELSE "LIVE"
  BY <1>3, <1>4, TargetLessIs
<1>7. Usable(obj, c)
  BY <1>1, UndeletedUsable
<1>8. /\ sx \in ServiceSet /\ sx.listening = obj.service.listening
      /\ \A y : y.service = sx /\ y.target[c] = ta
                   /\ (\A f \in Conns : f # c => y.target[f] = obj.target[f])
                => ServiceFits(z, y.service, Cardinality(Live(y)))
  BY <1>1, <1>3, <1>4, <1>5, <1>7, TargetGone
<1>9. PICK al : al = obj.alive_list
  OBVIOUS
<1>10. /\ ObjStep(c) /\ obj'.entry[c] = xn /\ obj'.target[c] = ta /\ obj'.service = sx
       /\ obj'.alive_list = al /\ \A f \in Conns : f # c => obj'.target[f] = obj.target[f]
       /\ Alive(c)' = IF c \in ToSet(al) THEN "in" ELSE "out"
  <2>1. obj' = Upd(obj, c, xn, ta, sx, al) /\ al \in Seq(Conns)
        /\ \A f \in Conns : f # c => (f \in ToSet(al) <=> f \in ToSet(obj.alive_list))
    BY <1>2, <1>4, <1>5, <1>9
  <2> QED  BY <1>1, <1>2, <1>3, <1>6, <1>8, <2>1, ObjUpd
<1>11. Alive(c)' = Alive(c)
  BY <1>9, <1>10 DEF Alive
<1>12. ServiceFits(z, obj'.service, Cardinality(Live(obj')))
  BY <1>8, <1>10
<1>13. PollStep(c) /\ Queued(Results, poll', l, c)
  BY <1>1, <1>2, NodeGoesPoll
<1>14. AliveOK'
  <2>1. worker' = worker /\ obj'.alive_list = obj.alive_list
        /\ obj'.service.listening = obj.service.listening
    BY <1>1, <1>8, <1>9, <1>10
  <2> QED  BY <1>2, <2>1, AliveSame
<1>15. /\ session'[s] = sn /\ \A t \in Sessions : t # s => session'[t] = session[t]
  BY <1>1, <1>2, UserTurnsIs
<1>16. /\ Holders(worker, user', c) = Holding(c)
       /\ OneMore(Open(c), Cardinality(Undeleted(c)'))
  BY <1>1, <1>2, UserCounts
<1>17. \/ Passive(c)' = Passive(c) /\ s # LastSession(c)
       \/ Passive(c)' = 4 /\ s = LastSession(c)
  <2>1. obj'.entry[c].seq = obj.entry[c].seq /\ obj.entry[c].seq \in 0 .. MaxSeq
    BY <1>1, <1>3, <1>10, ConnIs DEF EntrySet
  <2>2. CASE obj.entry[c].seq = 0
    <3>1. s # LastSession(c)
      BY <1>1, <2>2, SessionParts DEF LastSession
    <3> QED  BY <2>1, <2>2, <3>1 DEF Passive
  <2>3. CASE obj.entry[c].seq # 0
    <3>1. PICK t \in Sessions : t = LastSession(c)
      BY <1>1, <2>1, <2>3, LastIsSession DEF LastSession
    <3>2. Passive(c) = session[t].passive /\ Passive(c)' = session'[t].passive
      BY <2>1, <2>3, <3>1 DEF Passive, LastSession
    <3> QED  BY <1>1, <1>15, <3>1, <3>2
  <2> QED  BY <2>2, <2>3
<1>18. PICK q : q = Passive(c)'
  OBVIOUS
<1>19. q = p \/ (q = 4 /\ ~Owes(l, xn) /\ l.loc # "replied" /\ l.msg # "request")
  <2>1. CASE s = LastSession(c)
    <3>1. ~Owes(g[c], obj.entry[c]) /\ g[c].loc # "replied" /\ g[c].msg # "request"
      BY <1>1, <2>1, UnspokenLast
    <3> QED  BY <1>3, <1>17, <1>18, <2>1, <3>1 DEF SameHands
  <2>2. CASE s # LastSession(c)
    BY <1>17, <1>18, <2>2
  <2> QED  BY <2>1, <2>2
<1>20. Fitting(l, Holding(c), Cardinality(Undeleted(c)'), xn, ta,
               Alive(c), At(c), Reads(c), q)
  <2>1. PICK n, k, j : n = Holding(c) /\ k = Open(c)
                       /\ j = Cardinality(Undeleted(c)')
    OBVIOUS
  <2>2. PICK e, a, rd : e = Alive(c) /\ a = At(c) /\ rd = Reads(c)
    OBVIOUS
  <2>3. Deletes(l, n, k, j, xn, xa, ta, e, a, rd, p, q)
    BY <1>3, <1>6, <1>16, <1>19, <2>1, <2>2 DEF Deletes
  <2>4. Fitting(l, n, j, xn, ta, e, a, rd, q)
    BY <2>3, DeletesFits
  <2> QED  BY <2>1, <2>2, <2>4
<1>21. Fitting(l, Holders(worker, user', c), Cardinality(Undeleted(c)'), obj'.entry[c],
               obj'.target[c], Alive(c)', At(c), Reads(c), Passive(c)')
  BY <1>10, <1>11, <1>16, <1>18, <1>20
<1>22. UNCHANGED <<pollers, worker, stop_flag>> /\ stray' \in SUBSET Conns
  BY <1>1, <1>2 DEF flags, Types
<1>23. obj'.entry[c].seq = obj.entry[c].seq
       /\ (Owes(l, obj'.entry[c]) => Owes(g[c], obj.entry[c]))
  BY <1>3, <1>10
<1> QED  BY <1>1, <1>3, <1>10, <1>12, <1>13, <1>14, <1>21, <1>22, <1>23, UserStep

\* The connection has ended, or has a later session.
LEMMA DeleteLate ==
  ASSUME NEW g \in Places, NEW z \in ServicePlaces, Inv(g, z),
         NEW c, NEW s, NEW sn, NEW u, Deletion(s, sn, u, c),
         poll' = poll, obj' = TargetDecref(obj, c)
  PROVE  IInv'
<1>1. c \in Conns /\ s \in Sessions /\ s[1] = c /\ session[s].passive \in 1 .. 3
  BY DEF Deletion
<1>2. Usable(obj, c) /\ obj.target[c].state = "LIVE" /\ obj.target[c].ref # 0
  BY <1>1, UndeletedUsable
<1>3. PICK l, xn, xa, p : l = g[c] /\ xn = obj.entry[c] /\ xa = obj.target[c] /\ p = Passive(c)
  OBVIOUS
<1>4. /\ g[c] \in PlaceSet /\ Fits(g[c], c) /\ obj.entry[c] \in EntrySet
      /\ obj.target[c] \in TargetSet /\ poll \in Group(Results) /\ Queued(Results, poll, g[c], c)
  BY <1>1, ConnIs
<1>5. Left(g[c], l, Holding(c), Open(c), obj.entry[c], xn, xa,
           Alive(c), At(c), Reads(c), p)
  <2>1. SameHands(g[c], l)
    BY <1>3 DEF SameHands
  <2>2. Fitting(l, Holding(c), Open(c), xn, xa,
                Alive(c), At(c), Reads(c), p)
    BY <1>3, <1>4 DEF Fits
  <2> QED  BY <1>2, <1>3, <1>4, <2>1, <2>2 DEF Left
<1>6. NodeGoes(poll, poll', g[c], c, l) /\ poll'.batch = poll.batch
  BY <1>3, <1>4, NodeStays
<1>7. obj' = Upd(obj, c, xn, TargetLess(xa), SvAfter(xa, obj.service), obj.alive_list)
  BY <1>2, <1>3, TargetDecrefIs
<1> QED  BY <1>3, <1>5, <1>6, <1>7, DeleteStep

\* The connection waits for the reply, and is closed.
LEMMA DeleteIdle ==
  ASSUME NEW g \in Places, NEW z \in ServicePlaces, Inv(g, z),
         NEW c, NEW s, NEW sn, NEW u, Deletion(s, sn, u, c),
         session[s].passive = 2, obj.target[c].idle,
         poll' = mpoller_del(poll, c), obj' = TargetDecref(TargetShutdown(obj, c), c)
  PROVE  IInv'
<1>1. c \in Conns /\ s \in Sessions /\ s[1] = c
  BY DEF Deletion
<1>2. s = LastSession(c) /\ Passive(c) = 2
  BY <1>1, EarlyIsLast
<1>3. PICK xn, xa : /\ TargetIs(obj.target[c], xa)
                    /\ EntryIs(obj.entry[c], "CLOSING", obj.entry[c].ref, xn)
                    /\ TargetShutdown(obj, c) = Upd(obj, c, xn, xa, obj.service, obj.alive_list)
  BY <1>1, ShutdownIs
<1>4. PICK l \in PlaceSet :
         NodeGoes(poll, poll', g[c], c, l) /\ MovesOn(g[c], l) /\ poll'.batch = poll.batch
  BY <1>1, TakenDel
<1>5. /\ g[c] \in PlaceSet /\ Fits(g[c], c) /\ obj.entry[c] \in EntrySet
      /\ Usable(obj, c) /\ obj.target[c].state = "LIVE"
  BY <1>1, ConnIs, IdleConn
<1>6. obj.target[c].ref # 0
  BY <1>5 DEF Usable
<1>7. /\ xn \in EntrySet /\ xn.state = "CLOSING" /\ xn.ref = obj.entry[c].ref
      /\ xn.seq = obj.entry[c].seq
      /\ xa \in TargetSet /\ xa.state = "LIVE" /\ xa.ref # 0
  BY <1>3, <1>5, <1>6 DEF TargetIs, EntryIs
<1>8. Fitting(l, Holding(c), Open(c), xn, xa,
              Alive(c), At(c), Reads(c), 3)
      /\ SameHands(g[c], l) /\ ~Owes(l, xn)
  <2>1. PICK o, n, k, en, ta : o = g[c] /\ n = Holding(c)
                               /\ k = Open(c) /\ en = obj.entry[c]
                               /\ ta = obj.target[c]
    OBVIOUS
  <2>2. PICK e, a, rd : e = Alive(c) /\ a = At(c) /\ rd = Reads(c)
    OBVIOUS
  <2>3. Fitting(o, n, k, en, ta, e, a, rd, 2)
    BY <1>2, <1>5, <2>1, <2>2 DEF Fits
  <2>4. OverTo(o, l, en, xn, e, e)
    BY <1>4, <1>7, <2>1 DEF OverTo
  <2>5. /\ o \in PlaceSet /\ ta.idle /\ TargetIs(ta, xa) /\ xn.seq = en.seq /\ en.ref \in Nat
        /\ e \in {"in", "out"}
    BY <1>3, <1>5, <1>7, <2>1, <2>2 DEF EntrySet, Alive
  <2>6. TakesIdle(o, l, n, n, k, en, xn, ta, xa, e, e, a, rd, "over")
    BY <2>3, <2>4, <2>5 DEF TakesIdle
  <2>7. Fitting(l, n, k, xn, xa, e, a, rd, 3) /\ SameHands(o, l) /\ (Owes(l, xn) => "over" = "sending")
    BY <2>6, TakesIdleFits
  <2> QED  BY <2>1, <2>2, <2>7
<1>9. PICK p : p = 3
  OBVIOUS
<1>10. Left(g[c], l, Holding(c), Open(c), obj.entry[c], xn, xa,
            Alive(c), At(c), Reads(c), p)
  BY <1>4, <1>7, <1>8, <1>9 DEF Left
<1>11. obj' = Upd(obj, c, xn, TargetLess(xa), SvAfter(xa, obj.service), obj.alive_list)
  <2>1. PICK o, y : o = obj /\ y = Upd(o, c, xn, xa, o.service, o.alive_list)
    OBVIOUS
  <2>2. /\ Usable(y, c) /\ y.entry[c] = xn /\ y.target[c] = xa /\ y.service = o.service
        /\ y.alive_list = o.alive_list
        /\ \A en, ta, q : Upd(y, c, en, ta, o.service, q) = Upd(o, c, en, ta, o.service, q)
    <3>1. /\ TargetIs(o.target[c], xa) \/ xa = o.target[c]
          /\ y = Upd(o, c, xn, xa, o.service, o.alive_list) /\ Usable(o, c) /\ xn \in EntrySet
      BY <1>3, <1>5, <1>7, <2>1
    <3> QED  BY ONLY <3>1, UpdUsable
  <2>3. TargetDecref(y, c) = Upd(y, c, xn, TargetLess(xa), SvAfter(xa, o.service), o.alive_list)
    BY <2>2, TargetDecrefIs
  <2>4. \A en, ta, sv, q : Upd(y, c, en, ta, sv, q) = Upd(o, c, en, ta, sv, q)
    <3>1. o \in ObjSet /\ c \in Conns
      BY <1>1, <1>5, <2>1 DEF Usable
    <3> QED  BY <2>1, <3>1, UpdTwice
  <2>5. obj' = TargetDecref(y, c)
    BY <1>3, <2>1
  <2> QED  BY <2>1, <2>3, <2>4, <2>5
<1> QED  BY <1>2, <1>4, <1>10, <1>11, DeleteStep

LEMMA DeleteKeeps ==
  ASSUME NEW g \in Places, NEW z \in ServicePlaces, Inv(g, z), NEW s \in Sessions,
         delete_session(s)
  PROVE  IInv'
<1>1. PICK c \in Conns : s[1] = c
  BY SessionParts
<1>2. PICK sn, u : Deletion(s, sn, u, c)
  BY <1>1, DeletionIs
<1>3. UseTarget(obj, c) = obj
  <2>1. session[s].passive \in 1 .. 3
    BY DEF delete_session
  <2> QED  BY <1>1, <2>1, UndeletedUsable
<1>4. CASE session[s].passive = 2 /\ obj.target[c].idle
  <2>1. poll' = mpoller_del(poll, c) /\ obj' = TargetDecref(TargetShutdown(obj, c), c)
    BY <1>1, <1>4 DEF delete_session
  <2> QED  BY <1>2, <1>4, <2>1, DeleteIdle
<1>5. CASE ~(session[s].passive = 2 /\ obj.target[c].idle)
  <2>1. poll' = poll /\ obj' = TargetDecref(obj, c)
    BY <1>1, <1>3, <1>5 DEF delete_session, TargetShutdown
  <2> QED  BY <1>2, <2>1, DeleteLate
<1> QED  BY <1>4, <1>5

----
(* The invariant is inductive. *)

LEMMA Stutters ==
  ASSUME NEW g \in Places, NEW z \in ServicePlaces, Inv(g, z), UNCHANGED state
  PROVE  IInv'
<1>1. Types /\ PollerAt /\ AliveOK /\ Serv(z) /\ ~obj.bad
  BY InvParts
<1>2. /\ stop_flag' = stop_flag /\ poll' = poll /\ obj' = obj /\ worker' = worker
      /\ stray' = stray /\ at' = at /\ reading' = reading /\ mutex' = mutex
      /\ session' = session /\ user' = user
  BY DEF state
<1>3. Results' = Results
  BY <1>2, SameResults
<1>4. Global'
  <2>1. Types'
    BY <1>1, <1>2, <1>3 DEF Types
  <2> QED  BY <1>1, <1>2, <2>1 DEF Global, PollerAt, AliveOK
<1>5. Serv(z)'
  BY <1>1, <1>2, <1>3 DEF Serv, ServiceNode
<1>6. \A f \in Conns : Apart(f)
  BY <1>2, <1>3 DEF Apart, KeepsQueued, KeepsWork, KeepsObj, KeepsRead, KeepsSession, At, Alive, Reads
<1> QED  BY <1>4, <1>5, <1>6, NoConnKeeps

LEMMA PollerKeeps ==
  ASSUME NEW g \in Places, NEW z \in ServicePlaces, Inv(g, z),
         PollerStep \/ \E c \in Conns : poller_handle_read(c)
  PROVE  IInv'
<1>1. ASSUME NEW c \in Conns, poller_handle_read(c) PROVE IInv'
  BY <1>1, ReadKeeps
<1>3. ASSUME NEW c \in Conns, poller_handle_write(c) PROVE IInv'
  BY <1>3, WriteKeeps
<1>4. CASE PollerStep
  BY <1>3, <1>4, EpollKeeps, PipeKeeps, AcceptKeeps, LockKeeps, CreateKeeps, CreateSessionKeeps,
     AppendKeeps DEF PollerStep
<1> QED  BY <1>1, <1>4

LEMMA HandlerKeeps ==
  ASSUME NEW g \in Places, NEW z \in ServicePlaces, Inv(g, z),
         NEW w \in Handlers, Handler(w)
  PROVE  IInv'
<1>1. w \in Workers
  BY Constants
<1> QED  BY <1>1, RoutineKeeps, HandleAcceptedKeeps, AddedKeeps, HandleStopKeeps,
            HandleRequestSuccessKeeps, HandleRequestEndKeeps, HandleReplyResultKeeps,
            HandleKeeps, ReleaseConnKeeps DEF Handler

LEMMA OwnerKeeps ==
  ASSUME NEW g \in Places, NEW z \in ServicePlaces, Inv(g, z),
         unbind \/ drain \/ deinit \/ \E w \in Workers : Shutdown(w)
  PROVE  IInv'
<1>1. ASSUME NEW w \in Workers, Shutdown(w) PROVE IInv'
  BY <1>1, ShutdownServiceKeeps, DrainAllKeeps, ServiceDecrefKeeps DEF Shutdown
<1> QED  BY <1>1, UnbindKeeps, DrainKeeps, DeinitKeeps

LEMMA UserKeeps ==
  ASSUME NEW g \in Places, NEW z \in ServicePlaces, Inv(g, z), NEW s \in Sessions,
         reply(s) \/ shutdown(s) \/ delete_session(s) \/ InReply(s)
  PROVE  IInv'
  BY ReplyKeeps, ShutdownKeeps, DeleteKeeps, ReplyUnlockKeeps, ReplyHandleKeeps, ReplyUnrefKeeps
  DEF InReply

\* A step is one that the code defines, or leaves the state as it is.
LEMMA NextSteps ==
  ASSUME [Next]_vars
  PROVE  Step \/ UNCHANGED state
  BY DEF Next, Defined, Undefined, vars

LEMMA NextKeeps ==
  ASSUME IInv, [Next]_vars
  PROVE  IInv'
<1>1. PICK g \in Places, z \in ServicePlaces : Inv(g, z)
  BY DEF IInv
<1>2. CASE UNCHANGED state
  BY <1>1, <1>2, Stutters
<1>3. CASE PollerStep \/ \E c \in Conns : poller_handle_read(c)
  BY <1>1, <1>3, PollerKeeps
<1>4. CASE \E w \in Handlers : Handler(w)
  BY <1>1, <1>4, HandlerKeeps
<1>5. CASE unbind \/ drain \/ deinit \/ \E w \in Workers : Shutdown(w)
  BY <1>1, <1>5, OwnerKeeps
<1>6. CASE \E s \in Sessions : reply(s) \/ shutdown(s) \/ delete_session(s) \/ InReply(s)
  BY <1>1, <1>6, UserKeeps
<1> QED  BY <1>2, <1>3, <1>4, <1>5, <1>6, NextSteps DEF Step

LEMMA InitPoll ==
  ASSUME Init
  PROVE  /\ poll \in Group(Results) /\ poll.queue = <<>>
         /\ NodeAt(Results, poll, listen_fd, "table", "listen")
         /\ \A c \in Conns : NodeAt(Results, poll, c, "none", "read")
<1>1. PICK x : x = NewGroup
  OBVIOUS
<1>2. /\ x \in Group(Results) /\ x.queue = <<>>
      /\ \A f \in Fds : NodeAt(Results, x, f, "none", "read")
  BY <1>1, NewGroupIs
<1>3. poll = mpoller_add(x, listen_fd, "listen") /\ listen_fd \in Fds /\ "listen" \in Ops
  BY <1>1, Constants DEF Init, Ops
<1>4. /\ Steady(Results, x, poll)
      /\ NodeAt(Results, x, listen_fd, "none", "read") => NodeAt(Results, poll, listen_fd, "table", "listen")
      /\ \A f \in Fds : f # listen_fd => Leaves(Results, x, poll, f)
  BY <1>2, <1>3, AddNode
<1>5. poll.queue = <<>>
  BY <1>1, <1>3 DEF mpoller_add, NewGroup
<1>6. ASSUME NEW c \in Conns PROVE NodeAt(Results, poll, c, "none", "read")
  BY <1>2, <1>4, Constants DEF Leaves
<1> QED  BY <1>2, <1>3, <1>4, <1>5, <1>6 DEF Steady

LEMMA InitWorkers ==
  ASSUME Init
  PROVE  /\ worker \in [Workers -> WorkerSet]
         /\ \A w \in Workers : worker[w].pc \in {"get", "off"}
         /\ worker[Main].pc = "off"
<1>1. ASSUME NEW p \in {"get", "off"}
      PROVE  [Getting EXCEPT !.pc = p] \in WorkerSet /\ [Getting EXCEPT !.pc = p].pc = p
  BY DEF Getting, WorkerSet, OfConn, Closing, Speaking, Tells
<1>2. ASSUME NEW w \in Workers
      PROVE  \E p \in {"get", "off"} :
                /\ worker[w] = [Getting EXCEPT !.pc = p]
                /\ w = Main => p = "off"
  BY DEF Init
<1>3. worker = [w \in Workers |-> worker[w]]
  BY DEF Init
<1>4. \A w \in Workers : worker[w] \in WorkerSet /\ worker[w].pc \in {"get", "off"}
  BY <1>1, <1>2
<1>5. worker[Main].pc = "off"
  BY <1>1, <1>2, Constants
<1> QED  BY <1>3, <1>4, <1>5

LEMMA InitObj ==
  ASSUME Init
  PROVE  /\ obj \in ObjSet /\ ~obj.bad /\ obj.alive_list = <<>>
         /\ \A c \in Conns : obj.entry[c] = [state |-> "NONE", ref |-> 0, seq |-> 0]
                             /\ obj.target[c] = [state |-> "NONE", ref |-> 0, idle |-> FALSE]
         /\ obj.service = [ref |-> 1, listening |-> TRUE, unbound |-> 0]
<1>1. /\ obj.alive_list = <<>> /\ ~obj.bad /\ obj.torn = FALSE /\ obj.bad = FALSE
      /\ obj.entry = [c \in Conns |-> [state |-> "NONE", ref |-> 0, seq |-> 0]]
      /\ obj.target = [c \in Conns |-> [state |-> "NONE", ref |-> 0, idle |-> FALSE]]
      /\ obj.service = [ref |-> 1, listening |-> TRUE, unbound |-> 0]
      /\ obj = [entry |-> obj.entry, target |-> obj.target, service |-> obj.service,
                alive_list |-> obj.alive_list, torn |-> obj.torn, bad |-> obj.bad]
  BY DEF Init
<1>2. [state |-> "NONE", ref |-> 0, seq |-> 0] \in EntrySet
  BY Constants DEF EntrySet, EntryStates
<1>3. [state |-> "NONE", ref |-> 0, idle |-> FALSE] \in TargetSet
  BY DEF TargetSet
<1>4. obj.service \in ServiceSet
  BY <1>1 DEF ServiceSet
<1>5. <<>> \in Seq(Conns)
  BY EmptySeq
<1>6. obj.entry \in [Conns -> EntrySet] /\ obj.target \in [Conns -> TargetSet]
  BY <1>1, <1>2, <1>3
<1>7. obj \in ObjSet
  BY <1>1, <1>4, <1>5, <1>6 DEF ObjSet
<1> QED  BY <1>1, <1>7

LEMMA InitConn ==
  ASSUME Init, NEW l, l = NoPlace, NEW c \in Conns
  PROVE  Conn(l, c)
<1>1. l.loc = "none" /\ l.op = "read" /\ l.msg = "none" /\ l.acc = "none"
  BY DEF NoPlace
<1>2. Queued(Results, poll, l, c)
  BY <1>1, InitPoll DEF Queued, Slot, None
<1>3. \A w \in Workers : worker[w].pc \in {"get", "off"}
  BY InitWorkers
<1>4. Held(worker, l, c) /\ LastAtHand(c)
  BY <1>1, <1>3 DEF Held, One, NoneAt, AtHand, LastAtHand
<1>5. Holding(c) = 0
  <2>1. Refs(worker, c) = {}
    BY <1>3 DEF Refs, HasRef
  <2>2. UserRefs(user, c) = {}
    BY DEF UserRefs, Init
  <2>3. Cardinality(Refs(worker, c)) = 0 /\ Cardinality(UserRefs(user, c)) = 0
    BY <2>1, <2>2, FS_EmptySet
  <2> QED  BY <2>3 DEF Holders
<1>6. Open(c) = 0
  <2>1. Undeleted(c) = {}
    BY DEF Undeleted, Init
  <2> QED  BY <2>1, FS_EmptySet
<1>7. /\ obj.entry[c].state = "NONE" /\ obj.entry[c].ref = 0 /\ obj.entry[c].seq = 0
      /\ obj.target[c].state = "NONE" /\ obj.target[c].ref = 0 /\ obj.target[c].idle = FALSE
  BY InitObj
<1>8. Alive(c) = "out" /\ At(c) = "wait" /\ Reads(c) = "no" /\ Passive(c) = 0
  <2>1. ToSet(<<>>) = {}
    BY DEF ToSet
  <2>2. Alive(c) = "out"
    BY <2>1, InitObj DEF Alive
  <2>3. At(c) = "wait" /\ Reads(c) = "no"
    BY DEF Init, At, Reads
  <2> QED  BY <1>7, <2>2, <2>3 DEF Passive
<1>9. Fits(l, c)
  <2>1. PICK n, k, en, ta, al, a, rd, p :
           /\ n = Holding(c) /\ k = Open(c) /\ en = obj.entry[c]
           /\ ta = obj.target[c] /\ al = Alive(c) /\ a = At(c) /\ rd = Reads(c) /\ p = Passive(c)
    OBVIOUS
  <2>2. n = 0 /\ k = 0 /\ al = "out" /\ a = "wait" /\ rd = "no" /\ p = 0
    BY <1>5, <1>6, <1>8, <2>1
  <2>3. en.state = "NONE" /\ en.ref = 0 /\ en.seq = 0 /\ ta.state = "NONE" /\ ta.idle = FALSE
    BY <1>7, <2>1
  <2>4. Counted(l, n, k, en, ta)
    BY <1>1, <2>2, <2>3 DEF Counted, Kept
  <2>5. StateFits(l, en, ta, p)
    BY <1>1, <2>2, <2>3 DEF StateFits
  <2>6. PollFits(l, en, al, a, rd, p)
    BY <1>1, <2>2, <2>3 DEF PollFits
  <2> QED  BY <2>1, <2>4, <2>5, <2>6 DEF Fits, Fitting
<1>10. ASSUME NEW s \in Sessions, s[1] = c PROVE Sess(l, s)
  <2>1. session[s].passive = 0 /\ session[s].told = <<>> /\ user[s] = "none"
    BY DEF Init
  <2>2. s[2] \in Nat /\ s[2] # 0
    BY SessionParts
  <2>3. Phases(session[s], user[s])
    BY <2>1 DEF Phases
  <2>4. ~Owed(l, s)
    BY <1>1, <1>7, <1>10 DEF Owed, Owes, Watched
  <2>5. \A w \in Workers : ~SpeaksFor(worker[w], s)
    BY <1>3 DEF SpeaksFor, Speaking
  <2>6. s[2] > obj.entry[s[1]].seq /\ ~(s[2] < obj.entry[s[1]].seq)
    BY <1>7, <1>10, <2>2
  <2> QED  BY <2>1, <2>3, <2>4, <2>5, <2>6 DEF Sess
<1> QED  BY <1>2, <1>4, <1>9, <1>10 DEF Conn

LEMMA InitOK == Init => IInv
<1> SUFFICES ASSUME Init PROVE IInv
  OBVIOUS
<1>1. PICK g : g = [c \in Conns |-> NoPlace]
  OBVIOUS
<1>2. g \in Places /\ \A c \in Conns : g[c] = NoPlace
  BY <1>1 DEF NoPlace, PlaceSet
<1>3. PICK z : z = [loc |-> "table", own |-> 1]
  OBVIOUS
<1>4. z \in ServicePlaces /\ z.loc = "table" /\ z.own = 1
  BY <1>3 DEF ServicePlaces
<1>5. \A c \in Conns : Conn(g[c], c)
  BY <1>2, InitConn
<1>6. Types
  <2>1. at \in [pc : PollerPcs, fd : Conns \cup {NONE}]
    BY DEF Init, PollerPcs
  <2>2. <<>> \in Seq(Tells)
    BY EmptySeq
  <2>3. session \in [Sessions -> SessionSet] /\ user \in [Sessions -> UserPcs]
    BY <2>2 DEF Init, SessionSet, UserPcs
  <2>4. mutex \in [Conns -> Sessions \cup {NONE}]
    BY DEF Init
  <2> QED  BY <2>1, <2>3, <2>4, InitPoll, InitWorkers, InitObj DEF Init, Types
<1>7. PollerAt /\ AliveOK
  BY InitObj DEF Init, PollerAt, AliveOK
<1>8. Serv(z)
  <2>1. /\ obj.service.ref = 1 /\ obj.service.unbound = 0
    BY InitObj
  <2>2. Cardinality(Live(obj)) = 0
    <3>1. Live(obj) = {}
      BY InitObj DEF Live
    <3> QED  BY <3>1, FS_EmptySet
  <2>3. ServiceFits(z, obj.service, Cardinality(Live(obj)))
    BY <1>4, <2>1, <2>2 DEF ServiceFits
  <2>4. \A w \in Workers : ~IsStopped(worker[w]) /\ ~IsClosing(worker[w])
    BY InitWorkers DEF IsStopped, IsClosing, Closing
  <2>5. ServiceNode(Results, poll, worker, z)
    BY <1>4, <2>4, InitPoll DEF ServiceNode
  <2>6. MainFits(z, worker[Main].pc)
    BY <1>4, InitWorkers DEF MainFits, Closing
  <2> QED  BY <2>3, <2>5, <2>6 DEF Serv
<1>9. Inv(g, z)
  BY <1>5, <1>6, <1>7, <1>8, InitObj DEF Inv, Global
<1> QED  BY <1>2, <1>4, <1>9 DEF IInv

LEMMA Inductive == Spec => []IInv
<1>1. IInv /\ [Next]_vars => IInv'
  BY NextKeeps
<1> QED  BY <1>1, InitOK, PTL DEF Spec

----
(* What follows. *)

\* Nobody uses an entry, a target or the service after its last reference was
\* given back, or unlinks from alive_list an entry that is not in it: not a
\* handler, the owner of the service, or the user of a session, in any order.
THEOREM NothingUsedAfterFree == Spec => []NoUseAfterFree
<1>1. IInv => NoUseAfterFree
  BY DEF IInv, Inv, Global, NoUseAfterFree
<1> QED  BY <1>1, Inductive, PTL

\* The counters of the targets and of the service are the numbers of those that
\* refer to them, and handle_unbound is called once, by the last.
THEOREM ReferencesCounted == Spec => []RefsCount
<1>1. IInv => RefsCount
  <2> SUFFICES ASSUME IInv PROVE RefsCount
    OBVIOUS
  <2>1. PICK g \in Places, z \in ServicePlaces : Inv(g, z)
    BY DEF IInv
  <2>2. ASSUME NEW c \in Conns, obj.target[c].state = "LIVE"
        PROVE  obj.target[c].ref = Open(c)
                                      + IF obj.entry[c].state = "FREED" THEN 0 ELSE 1
    <3>1. Fits(g[c], c)
      BY <2>1, ConnIs
    <3> QED  BY <2>2, <3>1 DEF Fits, Fitting, Counted
  <2>3. ServiceFits(z, obj.service, Cardinality(Live(obj)))
    BY <2>1, InvParts DEF Serv
  <2>4. PICK n : n = Cardinality(Live(obj))
    OBVIOUS
  <2>5. n \in Nat /\ obj.service.ref - n \in {0, 1}
    BY <2>1, <2>3, <2>4 DEF ServiceFits, ServicePlaces
  <2>6. obj.service.unbound = IF obj.service.ref = 0 THEN 1 ELSE 0
    BY <2>3 DEF ServiceFits
  <2> QED  BY <2>2, <2>4, <2>5, <2>6 DEF RefsCount, Live
<1> QED  BY <1>1, Inductive, PTL

\* The end of a connection's reading in the pipe, in the queue or with a handler
\* is pending.
LEMMA EndPending ==
  ASSUME NEW c \in Conns, NEW r, r.fd = c, r.op = "read", r.state \in Ends,
         \/ r \in ToSet(poll.pipe[0]) \/ r \in ToSet(poll.queue)
         \/ \E w \in Handlers : worker[w].pc = "ended" /\ worker[w].res = r
  PROVE  Pending(c) # {}
<1>1. r.state \notin {"SUCCESS", "MODIFIED"}
  BY DEF Ends
<1>2. r \in Pending(c)
  BY <1>1 DEF Pending
<1> QED  BY <1>2

\* A connection whose node is still to end is watched, or its end is pending.
LEMMA NodeEnds ==
  ASSUME NEW g \in Places, NEW z \in ServicePlaces, Inv(g, z), NEW c \in Conns,
         g[c].loc \in Watched, g[c].op = "read"
  PROVE  poll.table[c] = "read" \/ Pending(c) # {}
<1>1. PICK l : l = g[c]
  OBVIOUS
<1>2. /\ NodeAt(Results, poll, c, l.loc, "read") /\ Held(worker, l, c)
      /\ worker \in [Workers -> WorkerSet]
  BY <1>1, ConnIs DEF Queued
<1>3. Index(c) = 0
  BY Constants
<1>4. CASE l.loc = "table"
  BY <1>2, <1>4 DEF NodeAt
<1>5. ASSUME NEW q, q = poll.pipe[0] \/ q = poll.queue,
             Only(q, EndsOf(Results, c), OpIs(Results, "read"))
      PROVE  Pending(c) # {}
  <2>1. PICK r : r \in EndsOf(Results, c) /\ r \in OpIs(Results, "read") /\ r \in ToSet(q)
    BY <1>5 DEF Only, ToSet
  <2>2. r.fd = c /\ r.op = "read" /\ r.state \in Ends
    BY <2>1 DEF EndsOf, OpIs
  <2> QED  BY <1>5, <2>1, <2>2, EndPending
<1>6. CASE l.loc = "pipe"
  <2>1. Only(poll.pipe[0], EndsOf(Results, c), OpIs(Results, "read"))
    BY <1>2, <1>3, <1>6 DEF NodeAt, Slot
  <2> QED  BY <1>5, <2>1
<1>7. CASE l.loc = "queue"
  <2>1. Only(poll.queue, EndsOf(Results, c), OpIs(Results, "read"))
    BY <1>2, <1>7 DEF NodeAt, Slot
  <2> QED  BY <1>5, <2>1
<1>8. CASE l.loc = "ended"
  <2>1. PICK w \in Workers : AtHand(worker[w], "ended", c)
    BY <1>2, <1>8 DEF Held, One, OnlyAt
  <2>2. /\ worker[w].pc = "ended" /\ worker[w].res.fd = c /\ worker[w].res.op = "read"
        /\ worker[w].res.state \in Ends
    BY <1>2, <2>1 DEF AtHand, Subject, WorkerSet
  <2>3. w \in Handlers
    <3>1. MainFits(z, worker[Main].pc)
      BY InvParts DEF Serv
    <3>2. w # Main
      BY <2>2, <3>1 DEF MainFits, Closing
    <3> QED  BY <3>2 DEF Workers
  <2> QED  BY <2>2, <2>3, EndPending
<1> QED  BY <1>1, <1>4, <1>6, <1>7, <1>8 DEF Watched

\* A kept connection is in alive_list, and one in alive_list is watched or about
\* to be ended; and nothing is kept by a service that was drained for good.
THEOREM KeptConnectionsListed == Spec => []AliveListRight
<1>1. IInv => AliveListRight
  <2> SUFFICES ASSUME IInv PROVE AliveListRight
    OBVIOUS
  <2>1. PICK g \in Places, z \in ServicePlaces : Inv(g, z)
    BY DEF IInv
  <2>2. Types /\ AliveOK
    BY <2>1, InvParts
  <2>3. ASSUME NEW c \in Conns
        PROVE  /\ c \in ToSet(obj.alive_list) =>
                     /\ obj.entry[c].state = "KEEPALIVE"
                     /\ poll.table[c] = "read" \/ Pending(c) # {}
               /\ obj.entry[c].state = "KEEPALIVE" /\ poll.table[c] = "read" =>
                     c \in ToSet(obj.alive_list) \/ at = [pc |-> "new", fd |-> c]
    <3>1. PICK l : l = g[c]
      OBVIOUS
    <3>2. /\ l \in PlaceSet /\ NodeAt(Results, poll, c, l.loc, l.op)
          /\ StateFits(l, obj.entry[c], obj.target[c], Passive(c))
          /\ PollFits(l, obj.entry[c], Alive(c), At(c), Reads(c), Passive(c))
      BY <2>1, <3>1, ConnIs DEF Queued, Fits, Fitting
    <3>3. ASSUME c \in ToSet(obj.alive_list)
          PROVE  /\ obj.entry[c].state = "KEEPALIVE"
                 /\ poll.table[c] = "read" \/ Pending(c) # {}
      <4>1. Alive(c) = "in"
        BY <3>3 DEF Alive
      <4>2. obj.entry[c].state = "KEEPALIVE" /\ l.loc # "none"
        BY <3>2, <4>1 DEF PollFits
      <4>3. l.op = "read" /\ l.loc \in Watched
        BY <3>2, <4>2 DEF PlaceSet, StateFits, Watched
      <4> QED  BY <2>1, <3>1, <4>2, <4>3, NodeEnds
    <3>4. ASSUME obj.entry[c].state = "KEEPALIVE", poll.table[c] = "read"
          PROVE  c \in ToSet(obj.alive_list) \/ at = [pc |-> "new", fd |-> c]
      <4>1. l.loc # "none"
        BY <3>2, <3>4 DEF NodeAt
      <4>2. Alive(c) = "in" \/ At(c) = "new"
        BY <3>2, <3>4, <4>1 DEF PollFits
      <4>3. At(c) = "new" => at.pc = "new" /\ at.fd = c
        BY DEF At
      <4>4. at.pc = "new" /\ at.fd = c => at = [pc |-> "new", fd |-> c]
        BY <2>2 DEF Types
      <4> QED  BY <4>2, <4>3, <4>4 DEF Alive
    <3> QED  BY <3>3, <3>4
  <2> QED  BY <2>2, <2>3 DEF AliveOK, AliveListRight
<1> QED  BY <1>1, Inductive, PTL

\* A session is asked for a reply once, and told its end once, by the handlers
\* or by its own reply, and not after it was deleted.
THEOREM EachSessionToldOnce == Spec => []SessionToldOnce
<1>1. IInv => SessionToldOnce
  <2> SUFFICES ASSUME IInv PROVE SessionToldOnce
    OBVIOUS
  <2>1. PICK g \in Places, z \in ServicePlaces : Inv(g, z)
    BY DEF IInv
  <2>2. \A s \in Sessions : Sess(g[s[1]], s)
    BY <2>1, ConnIs, SessionParts
  <2>3. worker \in [Workers -> WorkerSet]
    BY <2>1, InvParts DEF Types
  <2>4. ASSUME NEW s \in Sessions
        PROVE  LET t == session[s].told IN
               Len(t) <= 2 /\ (Len(t) = 2 => t[1] = "TOREPLY" /\ t[2] # "TOREPLY")
    <3>1. PICK t : t = session[s].told
      OBVIOUS
    <3>2. t = <<>> \/ EndOnly(t) \/ Asked(t) \/ AskedAndEnd(t)
      BY <2>2, <3>1 DEF Sess, Phases
    <3>3. Len(<<>>) = 0
      OBVIOUS
    <3>4. PICK k : k = Len(t)
      OBVIOUS
    <3>5. k \in {0, 1, 2} /\ (k = 2 => AskedAndEnd(t))
      BY <3>2, <3>3, <3>4 DEF EndOnly, Asked, AskedAndEnd
    <3>6. k <= 2
      BY <3>5
    <3>7. k = 2 => t[1] = "TOREPLY" /\ t[2] # "TOREPLY"
      BY <3>5 DEF AskedAndEnd
    <3>8. Len(t) <= 2 /\ (Len(t) = 2 => t[1] = "TOREPLY" /\ t[2] # "TOREPLY")
      BY ONLY <3>4, <3>6, <3>7
    <3> QED  BY ONLY <3>1, <3>8
  <2>5. ASSUME NEW w \in Handlers, worker[w].pc \in {"request", "handle"}
        PROVE  session[worker[w].s].passive # 4
    <3>1. PICK v, s : v = worker[w] /\ s = v.s
      OBVIOUS
    <3>2. w \in Workers /\ v \in WorkerSet
      BY <2>3, <3>1, Constants
    <3>3. s \in Sessions /\ SpeaksFor(v, s)
      BY <2>5, <3>1, <3>2 DEF WorkerSet, Speaking, SpeaksFor
    <3>4. Speaker(v, session[s], user[s])
      BY <2>2, <3>1, <3>2, <3>3 DEF Sess
    <3>5. session[s].passive \in {1, 2, 3}
      BY <2>5, <3>1, <3>4 DEF Speaker, Receiving, Sending, Asking
    <3> QED  BY <3>1, <3>5
  <2> QED  BY <2>4, <2>5 DEF SessionToldOnce
<1> QED  BY <1>1, Inductive, PTL

\* The node of a reply that is being written is deleted after deinit only.
THEOREM WriteDeletedByDeinit == Spec => []WriteNotDeleted
<1>1. IInv => WriteNotDeleted
  <2> SUFFICES ASSUME IInv PROVE WriteNotDeleted
    OBVIOUS
  <2>1. poll \in Group(Results)
    BY InvParts DEF IInv, Types
  <2>2. poll.queue \in Seq(Results) /\ poll.pipe[0] \in Seq(Results)
    BY <2>1, Constants, GroupFields
  <2>3. ToSet(poll.queue) \subseteq Results /\ ToSet(poll.pipe[0]) \subseteq Results
    BY <2>2 DEF ToSet
  <2>4. ASSUME NEW r \in Results, r.op = "write", r.state = "DELETED" PROVE stop_flag
    BY <2>4 DEF Results, ResultsOf
  <2> QED  BY <2>3, <2>4 DEF WriteNotDeleted
<1> QED  BY <1>1, Inductive, PTL

\* When all is quiet, no connection has a token left.
LEMMA QuietConn ==
  ASSUME NEW g \in Places, NEW z \in ServicePlaces, Inv(g, z), Quiet, NEW c \in Conns
  PROVE  obj.entry[c].state \in {"NONE", "FREED"} /\ obj.target[c].state \in {"NONE", "FREED"}
<1>1. PICK l : l = g[c]
  OBVIOUS
<1>2. /\ l \in PlaceSet /\ Queued(Results, poll, l, c) /\ Held(worker, l, c) /\ Fits(l, c)
      /\ poll \in Group(Results) /\ obj.target[c] \in TargetSet
  BY <1>1, ConnIs
<1>3. \A w \in Workers : worker[w].pc \in {"get", "unbound", "closed"}
  BY DEF Quiet, Workers
<1>4. /\ poll.queue = <<>> /\ poll.pipe[0] = <<>> /\ poll.table[c] = "none" /\ Index(c) = 0
  BY Constants DEF Quiet, Registered
<1>5. \A S, T : ~Only(<<>>, S, T)
  BY DEF Only
<1>6. l.loc \notin {"table", "pipe", "queue"} /\ l.msg # "queue" /\ l.acc # "queue"
  BY <1>2, <1>4, <1>5 DEF Queued, NodeAt, Slot, PlaceSet
<1>7. l.loc \notin {"ended", "replied"} /\ l.msg # "request" /\ l.acc # "accepted"
  BY <1>2, <1>3 DEF Held, One, OnlyAt, AtHand
<1>8. l.loc = "none" /\ l.msg = "none" /\ l.acc = "none"
  BY <1>2, <1>6, <1>7 DEF PlaceSet
<1>9. Holding(c) = 0
  <2>1. Refs(worker, c) = {}
    BY <1>3 DEF Refs, HasRef
  <2>2. UserRefs(user, c) = {}
    BY DEF UserRefs, Quiet
  <2>3. Cardinality(Refs(worker, c)) = 0 /\ Cardinality(UserRefs(user, c)) = 0
    BY <2>1, <2>2, FS_EmptySet
  <2> QED  BY <2>3 DEF Holders
<1>10. Open(c) = 0
  <2>1. Undeleted(c) = {}
    BY DEF Undeleted, Quiet
  <2> QED  BY <2>1, FS_EmptySet
<1>11. Counted(l, 0, 0, obj.entry[c], obj.target[c])
  BY <1>2, <1>9, <1>10 DEF Fits, Fitting
<1>12. obj.entry[c].state \in {"NONE", "FREED"}
  BY <1>8, <1>11 DEF Counted, Kept
<1>13. obj.target[c].state # "LIVE"
  BY <1>8, <1>11, <1>12 DEF Counted
<1>14. obj.target[c].state \in {"NONE", "FREED"}
  BY <1>2, <1>13 DEF TargetSet
<1> QED  BY <1>12, <1>14

\* A service that was unbound, with nothing left to happen, has told its owner,
\* and every connection it ever accepted was closed and freed.
THEOREM NoReferenceLost == Spec => []NothingLeaks
<1>1. IInv => NothingLeaks
  <2> SUFFICES ASSUME IInv, Quiet
               PROVE  /\ obj.service.unbound = 1
                      /\ \A c \in Conns : obj.entry[c].state \in {"NONE", "FREED"}
                                          /\ obj.target[c].state \in {"NONE", "FREED"}
    BY DEF NothingLeaks
  <2>1. PICK g \in Places, z \in ServicePlaces : Inv(g, z)
    BY DEF IInv
  <2>2. \A c \in Conns : obj.entry[c].state \in {"NONE", "FREED"}
                         /\ obj.target[c].state \in {"NONE", "FREED"}
    BY <2>1, QuietConn
  <2>3. /\ ServiceNode(Results, poll, worker, z) /\ MainFits(z, worker[Main].pc)
        /\ ServiceFits(z, obj.service, Cardinality(Live(obj)))
    BY <2>1, InvParts DEF Serv
  <2>4. \A w \in Workers : worker[w].pc \in {"get", "unbound", "closed"}
    BY DEF Quiet, Workers
  <2>5. z.own = 0 \/ z.loc \in {"pipe", "queue", "closing"}
    BY <2>1, <2>3 DEF MainFits, Quiet, ServicePlaces
  <2>6. z.loc # "closing"
    BY <2>3, <2>4 DEF ServiceNode, IsClosing, Closing
  <2>7. z.loc \notin {"pipe", "queue"}
    <3>1. poll.queue = <<>> /\ poll.pipe[Index(listen_fd)] = <<>>
      BY Constants DEF Quiet
    <3>2. \A S, T : ~Only(<<>>, S, T)
      BY DEF Only
    <3> QED  BY <2>3, <3>1, <3>2 DEF ServiceNode, NodeAt, Slot
  <2>8. Cardinality(Live(obj)) = 0
    <3>1. Live(obj) = {}
      BY <2>2 DEF Live
    <3> QED  BY <3>1, FS_EmptySet
  <2>9. obj.service.unbound = 1
    BY <2>3, <2>5, <2>6, <2>7, <2>8 DEF ServiceFits
  <2> QED  BY <2>2, <2>9
<1> QED  BY <1>1, Inductive, PTL

\* The variables have their types.
THEOREM TypesRight == Spec => []TypeOK
<1>1. Init => undefined \in BOOLEAN
  BY DEF Init
<1>2. undefined \in BOOLEAN /\ [Next]_vars => (undefined \in BOOLEAN)'
  BY DEF Next, Defined, Undefined, vars
<1>3. IInv /\ undefined \in BOOLEAN => TypeOK
  <2> SUFFICES ASSUME IInv, undefined \in BOOLEAN PROVE TypeOK
    OBVIOUS
  <2>1. Types
    BY InvParts DEF IInv
  <2>2. ASSUME NEW c \in Conns
        PROVE  obj.entry[c] \in EntrySet /\ obj.target[c] \in TargetSet
    BY <2>1, <2>2, ObjFields DEF Types
  <2>3. \A s \in Sessions : session[s].passive \in 0 .. 4
    BY <2>1 DEF Types, SessionSet
  <2> QED  BY <2>1, <2>2, <2>3 DEF Types, TypeOK, EntrySet, EntryStates, TargetSet
<1> QED  BY <1>1, <1>2, <1>3, Inductive, PTL DEF Spec
=============================================================================
