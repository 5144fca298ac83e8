----------------------------- MODULE PollerProof -----------------------------
(***************************************************************************)
(* What the poller of module Poller guarantees, for any number of          *)
(* descriptors, nodes and timeouts, until the program is undefined.        *)
(*                                                                         *)
(* The argument: each node is in one of five situations (Kinds), the tree  *)
(* holds just the nodes that the poller waits for and whose in_rbtree is   *)
(* set, the nodes that were put in a list are among the others (Held), and *)
(* the nodes that the poller thread took out of the tree are those of its  *)
(* local list and those that this list dropped (StackOK, NoneLost).        *)
(* Nothing is assumed of the shape of the lists: all that is used of them  *)
(* is that an operation changes no cells but those it follows, which are   *)
(* not cells of the local list, unless the program is undefined (Keeps).   *)
(***************************************************************************)
EXTENDS Poller, FiniteSetTheorems, SequenceTheorems, WellFoundedInduction, TLAPS

-----------------------------------------------------------------------------
(* The index *)

\* The fields of the index have their types.
IndexSet ==
    [heap : [next : [Cells -> Cells], prev : [Cells -> Cells]],
     tree : Seq(Nodes), tree_first : Nodes \cup {NULL},
     tree_last : Nodes \cup {NULL}, in_rbtree : SUBSET Nodes,
     timeout : [Nodes -> Nat], timer : Nat, listed : SUBSET Nodes,
     dropped : SUBSET Nodes, touched : SUBSET (Cells \cup {NULL}),
     broken : BOOLEAN]

Sorted(s, timeout) ==
    \A i, j \in DOMAIN s : i < j => timeout[s[i]] <= timeout[s[j]]
Once(s) == \A i, j \in DOMAIN s : s[i] = s[j] => i = j
Has(s, n) == \E i \in DOMAIN s : s[i] = n

\* The tree has nodes of W, in the order of their timeouts.
TreeHolds(x, W) ==
    /\ \A i \in DOMAIN x.tree : x.tree[i] \in W
    /\ Sorted(x.tree, x.timeout)
    /\ Once(x.tree)
    /\ x.tree_first = First(x.tree)
    /\ x.tree_last = Last(x.tree)
    /\ \A n \in W : n \in x.in_rbtree <=> Has(x.tree, n)

\* The tree holds the nodes of W that have in_rbtree set, and only others of W
\* were put in a list.
Held(x, W) ==
    /\ W \subseteq Nodes
    /\ x.listed \subseteq W \ x.in_rbtree
    /\ TreeHolds(x, W)

-----------------------------------------------------------------------------
(* The invariant *)

Waiting == {n \in Nodes : Watched(n)}
Piped == {n \in Nodes : \E i \in DOMAIN pipe : pipe[i] = n}

\* Nodes that expired and were not given to the callback.
Taken == {n \in Nodes : node[n].op \notin {"none", "gone"}
                            /\ ~Watched(n) /\ n \notin Piped}

NodeSet == [fd : Fds \cup {NULL}, op : Operations \cup {"none", "timer", "gone"},
            removed : BOOLEAN, res : BOOLEAN]

TableTypes ==
    /\ nodes \in [Fds -> Nodes \cup {NULL}]
    /\ node \in [Nodes -> NodeSet]
    /\ pipe \in Seq(Nodes \cup {NULL})
    /\ cb \in [Nodes -> Nat]

ThreadTypes ==
    /\ stopped \in BOOLEAN /\ has_pipe \in BOOLEAN /\ seen \in BOOLEAN
    /\ pc \in {"off", "timer", "wait", "events", "handle", "remove",
               "remove_lock", "pipe", "expire", "expire_tree", "deliver",
               "exited", "undefined"}
    /\ batch \in SUBSET Nodes
    /\ cur \in Cells \cup {NULL}
    /\ time \in Nat /\ now \in Nat \ {0} /\ input \in Nat
    /\ stopping \in {"no", "join", "drain", "done"}

\* Types, and epoll watches the nodes of the table.
PollerTypes ==
    /\ TableTypes /\ ThreadTypes
    /\ epoll = nodes
    /\ index \in IndexSet /\ index.touched = {}
    /\ bad \in BOOLEAN

\* What the fields of a node say of the situation it is in.
Kinds ==
    /\ \A n \in Nodes : cb[n] = IF node[n].op = "gone" THEN 1 ELSE 0
    /\ \A n \in Nodes : node[n].op \in Operations <=> node[n].fd # NULL
    /\ \A f \in Fds : nodes[f] # NULL =>
          node[nodes[f]].fd = f /\ ~node[nodes[f]].removed
    /\ \A n \in Nodes : n \in Piped <=>
          node[n].op \in Operations /\ node[n].removed
    /\ \A i, j \in DOMAIN pipe : pipe[i] = pipe[j] /\ pipe[i] # NULL => i = j

\* Line 887: a new node is not in the tree.
Fresh == \A n \in Nodes : node[n].op = "none" => n \notin index.in_rbtree

\* A node that the poller thread may get an event of.
Event(n) == n \in Waiting \cup Piped /\ node[n].op \in Operations

\* Where the poller thread is, and the nodes it has in hand.
ThreadOK ==
    /\ stopped <=> pc = "off" \/ stopping \in {"drain", "done"}
    /\ pc = "off" => stopping = "no"
    /\ stopping = "drain" => pc = "exited"
    /\ stopping = "done" => pc = "undefined"
    /\ batch # {} => pc \in {"events", "handle", "remove", "remove_lock", "undefined"}
    /\ pc # "undefined" => \A n \in batch : Event(n)
    /\ pc \in {"handle", "remove", "remove_lock"} => Event(cur) /\ cur \notin batch

\* Expired nodes that are not lost.
Expiring == Taken \ index.dropped

\* The local list of expired nodes has at most two.
Chain(c) ==
    \/ c = STACK
    \/ c \in Expiring /\ index.heap.next[c] = STACK
    \/ /\ c \in Expiring /\ index.heap.next[c] \in Expiring
       /\ index.heap.next[index.heap.next[c]] = STACK

\* In the making: the first node that expired, if any, is and remains the last
\* of the list, and at most one is before it.
Making ==
    LET a == index.heap.prev[STACK]
        b == index.heap.next[STACK]
    IN  \/ a = STACK /\ b = STACK
        \/ /\ a \in Expiring
           /\ index.heap.next[a] = STACK /\ index.heap.prev[a] = STACK
           /\ b = a \/ (b \in Expiring /\ index.heap.next[b] = a)

StackOK ==
    ~index.broken =>
    /\ pc = "expire_tree" => Making
    /\ pc = "deliver" => Chain(cur)

\* The expired nodes that the local list did not drop are those of the list.
NoneLost ==
    ~index.broken =>
    /\ pc = "expire_tree" => \A m \in Expiring :
          m = index.heap.prev[STACK] \/ m = index.heap.next[STACK]
    /\ pc = "deliver" => \A m \in Expiring :
          cur # STACK /\ (m = cur \/ m = index.heap.next[cur])
    /\ pc \notin {"expire_tree", "deliver", "undefined"} => Expiring = {}

PollerInv ==
    /\ PollerTypes
    /\ Kinds
    /\ Held(index, Waiting)
    /\ Fresh
    /\ ThreadOK
    /\ StackOK
    /\ index.dropped \subseteq Taken

-----------------------------------------------------------------------------
(* Sequences *)

CutAt(s, k) == SubSeq(s, 1, k - 1) \o SubSeq(s, k + 1, Len(s))
PutAt(s, k, n) == SubSeq(s, 1, k) \o <<n>> \o SubSeq(s, k + 1, Len(s))

\* r is s without its element at place k.
IsCut(r, s, k) ==
    /\ Len(r) = Len(s) - 1
    /\ DOMAIN r = 1 .. (Len(s) - 1)
    /\ \A i \in 1 .. (Len(s) - 1) : r[i] = IF i < k THEN s[i] ELSE s[i + 1]

\* r is s with n behind place k.
IsPut(r, s, k, n) ==
    /\ Len(r) = Len(s) + 1
    /\ DOMAIN r = 1 .. (Len(s) + 1)
    /\ \A i \in 1 .. (Len(s) + 1) :
          r[i] = IF i <= k THEN s[i] ELSE IF i = k + 1 THEN n ELSE s[i - 1]

\* A sequence without its element at place k.
LEMMA CutOut ==
    ASSUME NEW S, NEW s \in Seq(S), NEW k \in 1 .. Len(s), NEW r,
           r = CutAt(s, k)
    PROVE  r \in Seq(S) /\ IsCut(r, s, k)
<1>m. PICK m : m = Len(s)
  OBVIOUS
<1>0. m = Len(s) /\ m \in Nat /\ k \in Nat /\ 1 <= k /\ k <= m
  BY <1>m
<1>s. /\ SubSeq(s, 1, k - 1) \in Seq(S) /\ Len(SubSeq(s, 1, k - 1)) = k - 1
      /\ \A i \in 1 .. (k - 1) : SubSeq(s, 1, k - 1)[i] = s[i]
  OBVIOUS
<1>t. /\ SubSeq(s, k + 1, Len(s)) \in Seq(S)
      /\ Len(SubSeq(s, k + 1, Len(s))) = Len(s) - k
      /\ \A i \in 1 .. (Len(s) - k) : SubSeq(s, k + 1, Len(s))[i] = s[k + i]
  OBVIOUS
<1>a. PICK a : a = SubSeq(s, 1, k - 1)
  OBVIOUS
<1>b. PICK b : b = SubSeq(s, k + 1, Len(s))
  OBVIOUS
<1>1. a \in Seq(S) /\ Len(a) = k - 1 /\ \A i \in 1 .. (k - 1) : a[i] = s[i]
  BY ONLY <1>a, <1>s
<1>2. b \in Seq(S) /\ Len(b) = m - k /\ \A i \in 1 .. (m - k) : b[i] = s[k + i]
  BY ONLY <1>b, <1>t, <1>0
<1>3. /\ a \o b \in Seq(S) /\ Len(a \o b) = Len(a) + Len(b)
      /\ \A i \in 1 .. Len(a) + Len(b) : (a \o b)[i] =
            IF i <= Len(a) THEN a[i] ELSE b[i - Len(a)]
  BY ONLY <1>1, <1>2, ConcatProperties
<1>4. r = a \o b
  BY <1>a, <1>b DEF CutAt
<1>5. /\ r \in Seq(S) /\ Len(r) = Len(a) + Len(b)
      /\ \A i \in 1 .. Len(a) + Len(b) : r[i] =
            IF i <= Len(a) THEN a[i] ELSE b[i - Len(a)]
  BY ONLY <1>3, <1>4
<1>6. Len(a) + Len(b) = m - 1 /\ m - 1 \in Nat
  BY ONLY <1>0, <1>1, <1>2
<1>7. r \in Seq(S) /\ Len(r) = m - 1 /\ DOMAIN r = 1 .. (m - 1)
  BY ONLY <1>5, <1>6
<1>8. ASSUME NEW i \in 1 .. (m - 1)
      PROVE  r[i] = IF i < k THEN s[i] ELSE s[i + 1]
  <2>1. r[i] = IF i <= k - 1 THEN a[i] ELSE b[i - (k - 1)]
    BY ONLY <1>0, <1>1, <1>5, <1>6, i \in 1 .. (m - 1)
  <2>2. CASE i < k
    BY ONLY <2>1, <2>2, <1>0, <1>1, i \in 1 .. (m - 1)
  <2>3. CASE ~(i < k)
    <3>1. i - (k - 1) \in 1 .. (m - k) /\ ~(i <= k - 1)
      BY <2>3, <1>0
    <3>2. r[i] = b[i - (k - 1)]
      BY <2>1, <3>1
    <3>3. b[i - (k - 1)] = s[k + (i - (k - 1))]
      BY <3>1, <1>2
    <3>4. k + (i - (k - 1)) = i + 1
      BY <1>0
    <3> QED BY ONLY <2>3, <3>2, <3>3, <3>4, <1>0, i \in 1 .. (m - 1)
  <2> QED BY <2>2, <2>3
<1> QED BY <1>0, <1>7, <1>8 DEF IsCut

\* A sequence with a further element behind place k.
LEMMA PutIn ==
    ASSUME NEW S, NEW s \in Seq(S), NEW k \in 0 .. Len(s), NEW n \in S, NEW r,
           r = PutAt(s, k, n)
    PROVE  r \in Seq(S) /\ IsPut(r, s, k, n)
<1>m. PICK m : m = Len(s)
  OBVIOUS
<1>0. m = Len(s) /\ m \in Nat /\ k \in Nat /\ k <= m
  BY <1>m
<1>s. /\ SubSeq(s, 1, k) \in Seq(S) /\ Len(SubSeq(s, 1, k)) = k
      /\ \A i \in 1 .. k : SubSeq(s, 1, k)[i] = s[i]
  OBVIOUS
<1>t. /\ SubSeq(s, k + 1, Len(s)) \in Seq(S)
      /\ Len(SubSeq(s, k + 1, Len(s))) = Len(s) - k
      /\ \A i \in 1 .. (Len(s) - k) : SubSeq(s, k + 1, Len(s))[i] = s[k + i]
  OBVIOUS
<1>a. PICK a : a = SubSeq(s, 1, k)
  OBVIOUS
<1>b. PICK b : b = SubSeq(s, k + 1, Len(s))
  OBVIOUS
<1>o. PICK o : o = <<n>>
  OBVIOUS
<1>1. a \in Seq(S) /\ Len(a) = k /\ \A i \in 1 .. k : a[i] = s[i]
  BY ONLY <1>a, <1>s
<1>2. b \in Seq(S) /\ Len(b) = m - k /\ \A i \in 1 .. (m - k) : b[i] = s[k + i]
  BY ONLY <1>b, <1>t, <1>0
<1>3. o \in Seq(S) /\ Len(o) = 1 /\ o[1] = n
  BY <1>o
<1>4. /\ a \o o \in Seq(S) /\ Len(a \o o) = Len(a) + Len(o)
      /\ \A i \in 1 .. Len(a) + Len(o) : (a \o o)[i] =
            IF i <= Len(a) THEN a[i] ELSE o[i - Len(a)]
  BY ONLY <1>1, <1>3, ConcatProperties
<1>5. PICK c \in Seq(S) : c = a \o o
  BY <1>4
<1>6. /\ Len(c) = Len(a) + Len(o)
      /\ \A i \in 1 .. Len(a) + Len(o) : c[i] =
            IF i <= Len(a) THEN a[i] ELSE o[i - Len(a)]
  BY ONLY <1>4, <1>5
<1>7. /\ Len(c) = k + 1 /\ c[k + 1] = n
      /\ \A i \in 1 .. k : c[i] = s[i]
  BY ONLY <1>1, <1>3, <1>6, <1>0
<1>8. /\ c \o b \in Seq(S) /\ Len(c \o b) = Len(c) + Len(b)
      /\ \A i \in 1 .. Len(c) + Len(b) : (c \o b)[i] =
            IF i <= Len(c) THEN c[i] ELSE b[i - Len(c)]
  BY ONLY <1>2, c \in Seq(S), ConcatProperties
<1>9. r = c \o b
  BY <1>a, <1>b, <1>o, <1>5 DEF PutAt
<1>10. /\ r \in Seq(S) /\ Len(r) = Len(c) + Len(b)
       /\ \A i \in 1 .. Len(c) + Len(b) : r[i] =
             IF i <= Len(c) THEN c[i] ELSE b[i - Len(c)]
  BY ONLY <1>8, <1>9
<1>11. Len(c) + Len(b) = m + 1
  BY ONLY <1>0, <1>2, <1>7
<1>12. r \in Seq(S) /\ Len(r) = m + 1 /\ DOMAIN r = 1 .. (m + 1)
  BY ONLY <1>10, <1>11, <1>0
<1>13. ASSUME NEW i \in 1 .. (m + 1)
       PROVE  r[i] = IF i <= k THEN s[i]
                     ELSE IF i = k + 1 THEN n ELSE s[i - 1]
  <2>1. r[i] = IF i <= k + 1 THEN c[i] ELSE b[i - (k + 1)]
    BY ONLY <1>0, <1>7, <1>10, <1>11, i \in 1 .. (m + 1)
  <2>2. CASE i <= k
    BY ONLY <2>1, <2>2, <1>0, <1>7, i \in 1 .. (m + 1)
  <2>3. CASE i = k + 1
    BY ONLY <2>1, <2>3, <1>0, <1>7, i \in 1 .. (m + 1)
  <2>4. CASE ~(i <= k + 1)
    <3>1. i - (k + 1) \in 1 .. (m - k) /\ ~(i <= k) /\ i # k + 1
      BY <2>4, <1>0
    <3>2. r[i] = b[i - (k + 1)]
      BY <2>1, <2>4
    <3>3. b[i - (k + 1)] = s[k + (i - (k + 1))]
      BY <3>1, <1>2
    <3>4. k + (i - (k + 1)) = i - 1
      BY <1>0
    <3> QED BY ONLY <3>1, <3>2, <3>3, <3>4, <1>0, i \in 1 .. (m + 1)
  <2> QED BY ONLY <2>2, <2>3, <2>4, <1>0, i \in 1 .. (m + 1)
<1> QED BY <1>0, <1>12, <1>13 DEF IsPut

\* A set of places that has with a place all the places before it is a range,
\* as long as the set is large.
LEMMA Initial ==
    ASSUME NEW m \in Nat, NEW P, P \subseteq 1 .. m,
           \A i, j \in 1 .. m : i < j /\ j \in P => i \in P
    PROVE  Cardinality(P) \in 0 .. m /\ P = 1 .. Cardinality(P)
<1> DEFINE T == {i \in Nat \ {0} : i \notin P}
<1>1. m + 1 \in T
  OBVIOUS
<1>2. PICK e \in T : \A y \in T : ~(<<y, e>> \in OpToRel(<, Nat))
  <2>1. IsWellFoundedOn(OpToRel(<, Nat), Nat)
    BY NatLessThanWellFounded
  <2>2. T \subseteq Nat /\ T # {}
    BY <1>1
  <2> QED BY ONLY <2>1, <2>2, WFMin
<1>3. \A y \in T : ~(y < e)
  <2> SUFFICES ASSUME NEW y \in T, y < e PROVE FALSE
    OBVIOUS
  <2>1. <<y, e>> \in OpToRel(<, Nat)
    BY DEF OpToRel
  <2> QED BY <1>2, <2>1
<1>4. P = 1 .. (e - 1)
  <2>1. ASSUME NEW i \in P PROVE i \in 1 .. (e - 1)
    <3>1. i \in 1 .. m /\ e \in Nat \ {0} /\ e \notin P
      OBVIOUS
    <3>2. CASE i < e
      BY <3>1, <3>2
    <3>3. CASE e < i
      <4>1. e \in 1 .. m /\ e < i
        BY <3>1, <3>3
      <4> QED BY <3>1, <4>1
    <3>4. CASE e = i
      BY <3>1, <3>4
    <3> QED BY <3>1, <3>2, <3>3, <3>4
  <2>2. ASSUME NEW i \in 1 .. (e - 1) PROVE i \in P
    <3>1. i \in Nat \ {0} /\ i < e
      OBVIOUS
    <3> QED BY <3>1, <1>3
  <2> QED BY <2>1, <2>2
<1>5. e - 1 \in Nat /\ e - 1 <= m
  <2>1. e \in Nat \ {0}
    OBVIOUS
  <2>2. ~(m + 1 < e)
    BY <1>1, <1>3
  <2> QED BY <2>1, <2>2
<1>6. Cardinality(1 .. (e - 1)) = e - 1
  <2>1. 1 \in Int /\ e - 1 \in Int
    BY <1>5
  <2>2. Cardinality(1 .. (e - 1)) = IF 1 > e - 1 THEN 0 ELSE (e - 1) - 1 + 1
    BY ONLY <2>1, FS_Interval
  <2> QED BY <2>2, <1>5
<1> QED BY <1>4, <1>5, <1>6

\* __poller_tree_insert keeps the order, and says what becomes of the ends.
LEMMA InsertSorted ==
    ASSUME NEW s \in Seq(Nodes), NEW timeout \in [Nodes -> Nat],
           NEW n \in Nodes, NEW k, NEW r,
           Sorted(s, timeout), Once(s), ~Has(s, n),
           k = Cardinality({i \in DOMAIN s : timeout[s[i]] <= timeout[n]}),
           r = PutAt(s, k, n)
    PROVE  /\ r \in Seq(Nodes)
           /\ Sorted(r, timeout) /\ Once(r)
           /\ \A m : Has(r, m) <=> m = n \/ Has(s, m)
           /\ First(r) = IF k = 0 THEN n ELSE First(s)
           /\ Last(r) = IF k = Len(s) THEN n ELSE Last(s)
<1> DEFINE P == {i \in DOMAIN s : timeout[s[i]] <= timeout[n]}
<1>m. PICK m : m = Len(s)
  OBVIOUS
<1>1. m = Len(s) /\ m \in Nat /\ DOMAIN s = 1 .. m
      /\ \A i \in 1 .. m : s[i] \in Nodes
  BY <1>m
<1>2. k \in 0 .. m /\ P = 1 .. k
  <2>1. P \subseteq 1 .. m
    BY <1>1
  <2>2. \A i, j \in 1 .. m : i < j /\ j \in P => i \in P
    <3> SUFFICES ASSUME NEW i \in 1 .. m, NEW j \in 1 .. m, i < j, j \in P
                 PROVE  i \in P
      OBVIOUS
    <3>1. timeout[s[i]] <= timeout[s[j]] /\ timeout[s[j]] <= timeout[n]
      BY <1>1 DEF Sorted
    <3>2. timeout[s[i]] \in Nat /\ timeout[s[j]] \in Nat /\ timeout[n] \in Nat
      BY <1>1
    <3> QED BY <1>1, <3>1, <3>2
  <2>3. PICK Q : Q = P
    OBVIOUS
  <2>4. Cardinality(Q) \in 0 .. m /\ Q = 1 .. Cardinality(Q)
    <3>1. m \in Nat /\ Q \subseteq 1 .. m
          /\ \A i, j \in 1 .. m : i < j /\ j \in Q => i \in Q
      BY <1>1, <2>1, <2>2, <2>3
    <3> QED BY ONLY <3>1, Initial
  <2> QED BY <2>3, <2>4
<1>3. \A i \in 1 .. m : i <= k <=> timeout[s[i]] <= timeout[n]
  <2> SUFFICES ASSUME NEW i \in 1 .. m
               PROVE  i <= k <=> timeout[s[i]] <= timeout[n]
    OBVIOUS
  <2>1. i \in P <=> timeout[s[i]] <= timeout[n]
    BY <1>1
  <2>2. i \in P <=> i \in 1 .. k
    BY <1>2
  <2> HIDE DEF P
  <2> QED BY ONLY <2>1, <2>2, <1>1, <1>2, i \in 1 .. m
<1> HIDE DEF P
<1>4. /\ r \in Seq(Nodes) /\ Len(r) = m + 1 /\ DOMAIN r = 1 .. (m + 1)
      /\ \A i \in 1 .. (m + 1) : r[i] = IF i <= k THEN s[i]
                                ELSE IF i = k + 1 THEN n ELSE s[i - 1]
  <2>1. k \in 0 .. Len(s)
    BY <1>1, <1>2
  <2>2. r \in Seq(Nodes) /\ IsPut(r, s, k, n)
    BY ONLY <2>1, PutIn, s \in Seq(Nodes), n \in Nodes,
            r = PutAt(s, k, n)
  <2> QED BY ONLY <2>2, <1>1 DEF IsPut
<1>5. \A i \in 1 .. m : timeout[s[i]] \in Nat
  BY <1>1
<1>6. k \in Nat /\ k <= m /\ timeout[n] \in Nat
  BY <1>1, <1>2
<1>7. Sorted(r, timeout)
  <2> SUFFICES ASSUME NEW i \in 1 .. (m + 1), NEW j \in 1 .. (m + 1), i < j
               PROVE  timeout[r[i]] <= timeout[r[j]]
    BY <1>4 DEF Sorted
  <2>1. \A a, b \in 1 .. m : a < b => timeout[s[a]] <= timeout[s[b]]
    BY <1>1 DEF Sorted
  <2>2. CASE j <= k
    <3>1. r[i] = s[i] /\ r[j] = s[j] /\ i \in 1 .. m /\ j \in 1 .. m
      BY ONLY <1>1, <1>4, <1>6, <2>2, i \in 1 .. (m + 1), j \in 1 .. (m + 1), i < j,
              SMTT(30)
    <3> QED BY <2>1, <3>1
  <2>3. CASE i <= k /\ j = k + 1
    <3>1. r[i] = s[i] /\ r[j] = n /\ i \in 1 .. m
      BY ONLY <1>1, <1>4, <1>6, <2>3, i \in 1 .. (m + 1), j \in 1 .. (m + 1), i < j,
              SMTT(30)
    <3> QED BY <1>3, <2>3, <3>1
  <2>4. CASE i <= k /\ j > k + 1
    <3>1. r[i] = s[i] /\ r[j] = s[j - 1] /\ i \in 1 .. m /\ j - 1 \in 1 .. m
          /\ i < j - 1
      BY ONLY <1>1, <1>4, <1>6, <2>4, i \in 1 .. (m + 1), j \in 1 .. (m + 1), i < j,
              SMTT(30)
    <3> QED BY <2>1, <3>1
  <2>5. CASE i = k + 1
    <3>1. r[i] = n /\ r[j] = s[j - 1] /\ j - 1 \in 1 .. m /\ ~(j - 1 <= k)
      BY ONLY <1>1, <1>4, <1>6, <2>5, i \in 1 .. (m + 1), j \in 1 .. (m + 1), i < j,
              SMTT(30)
    <3>2. ~(timeout[s[j - 1]] <= timeout[n])
      BY <1>3, <3>1
    <3>3. timeout[s[j - 1]] \in Nat
      BY <1>5, <3>1
    <3> QED BY ONLY <3>1, <3>2, <3>3, <1>6
  <2>6. CASE i > k + 1
    <3>1. r[i] = s[i - 1] /\ r[j] = s[j - 1] /\ i - 1 \in 1 .. m
          /\ j - 1 \in 1 .. m /\ i - 1 < j - 1
      BY ONLY <1>1, <1>4, <1>6, <2>6, i \in 1 .. (m + 1), j \in 1 .. (m + 1), i < j,
              SMTT(30)
    <3> QED BY <2>1, <3>1
  <2> QED BY ONLY <1>6, <1>1, <2>2, <2>3, <2>4, <2>5, <2>6,
                  i \in 1 .. (m + 1), j \in 1 .. (m + 1), i < j
<1>8. \A i \in 1 .. m : s[i] # n
  BY <1>1 DEF Has
<1>9. Once(r)
  <2> SUFFICES ASSUME NEW i \in 1 .. (m + 1), NEW j \in 1 .. (m + 1), r[i] = r[j]
               PROVE  i = j
    <3>1. DOMAIN r = 1 .. (m + 1)
      BY <1>4
    <3> QED BY <3>1 DEF Once
  <2>1. \A a, b \in 1 .. m : s[a] = s[b] => a = b
    BY <1>1 DEF Once
  <2>2. ASSUME NEW l \in 1 .. (m + 1) PROVE r[l] = n <=> l = k + 1
    <3>1. CASE l <= k
      <4>1. r[l] = s[l] /\ l \in 1 .. m /\ l # k + 1
        BY ONLY <1>1, <1>4, <1>6, <3>1, l \in 1 .. (m + 1)
      <4> QED BY ONLY <4>1, <1>8
    <3>2. CASE l = k + 1
      <4>1. r[l] = n
        BY ONLY <1>1, <1>4, <1>6, <3>2, l \in 1 .. (m + 1)
      <4> QED BY ONLY <4>1, <3>2
    <3>3. CASE l > k + 1
      <4>1. r[l] = s[l - 1] /\ l - 1 \in 1 .. m /\ l # k + 1
        BY ONLY <1>1, <1>4, <1>6, <3>3, l \in 1 .. (m + 1)
      <4> QED BY ONLY <4>1, <1>8
    <3> QED BY ONLY <1>1, <1>6, <3>1, <3>2, <3>3, l \in 1 .. (m + 1)
  <2>3. CASE i = k + 1 \/ j = k + 1
    BY <2>2, <2>3
  <2>4. CASE i # k + 1 /\ j # k + 1
    <3> DEFINE u(l) == IF l <= k THEN l ELSE l - 1
    <3>1. \A l \in 1 .. (m + 1) : l # k + 1 => u(l) \in 1 .. m /\ r[l] = s[u(l)]
      BY ONLY <1>1, <1>4, <1>6
    <3>2. u(i) = u(j)
      <4> HIDE DEF u
      <4> QED BY <3>1, <2>1, <2>4
    <3> QED BY ONLY <3>2, <2>4, <1>6, <1>1, i \in 1 .. (m + 1), j \in 1 .. (m + 1)
  <2> QED BY <2>3, <2>4
<1>10. ASSUME NEW q PROVE Has(r, q) <=> q = n \/ Has(s, q)
  <2>1. ASSUME NEW i \in 1 .. (m + 1) PROVE r[i] = n \/ \E j \in 1 .. m : s[j] = r[i]
    <3>1. CASE i <= k
      <4>1. i \in 1 .. m /\ r[i] = s[i]
        BY ONLY <1>1, <1>4, <1>6, <3>1, i \in 1 .. (m + 1)
      <4> QED BY <4>1
    <3>2. CASE i = k + 1
      BY ONLY <1>1, <1>4, <1>6, <3>2, i \in 1 .. (m + 1)
    <3>3. CASE i > k + 1
      <4>1. i - 1 \in 1 .. m /\ r[i] = s[i - 1]
        BY ONLY <1>1, <1>4, <1>6, <3>3, i \in 1 .. (m + 1), SMTT(30)
      <4> QED BY <4>1
    <3> QED BY ONLY <3>1, <3>2, <3>3, <1>6, <1>1, i \in 1 .. (m + 1)
  <2>2. ASSUME NEW i \in 1 .. m PROVE \E j \in 1 .. (m + 1) : r[j] = s[i]
    <3>1. CASE i <= k
      <4>1. i \in 1 .. (m + 1) /\ r[i] = s[i]
        BY ONLY <1>1, <1>4, <1>6, <3>1, i \in 1 .. m
      <4> QED BY <4>1
    <3>2. CASE i > k
      <4>1. i + 1 \in 1 .. (m + 1) /\ r[i + 1] = s[i]
        <5>1. i + 1 \in 1 .. (m + 1) /\ ~(i + 1 <= k) /\ i + 1 # k + 1
              /\ (i + 1) - 1 = i
          BY ONLY <1>1, <1>6, <3>2, i \in 1 .. m
        <5> QED BY ONLY <5>1, <1>4
      <4> QED BY <4>1
    <3> QED BY ONLY <3>1, <3>2, <1>6, <1>1, i \in 1 .. m
  <2>3. k + 1 \in 1 .. (m + 1) /\ r[k + 1] = n
    BY ONLY <1>1, <1>4, <1>6
  <2>4. DOMAIN r = 1 .. (m + 1) /\ DOMAIN s = 1 .. m
    BY <1>1, <1>4
  <2>5. ASSUME Has(r, q) PROVE q = n \/ Has(s, q)
    BY ONLY <2>1, <2>4, <2>5 DEF Has
  <2>6. ASSUME Has(s, q) PROVE Has(r, q)
    BY ONLY <2>2, <2>4, <2>6 DEF Has
  <2>7. ASSUME q = n PROVE Has(r, q)
    BY ONLY <2>3, <2>4, <2>7 DEF Has
  <2> QED BY <2>5, <2>6, <2>7
<1>11. First(r) = IF k = 0 THEN n ELSE First(s)
  <2>1. r # <<>> /\ Head(r) = r[1]
    BY <1>1, <1>4
  <2>2. k = 0 => r[1] = n
    BY ONLY <1>1, <1>4, <1>6
  <2>3. k # 0 => r[1] = s[1] /\ s # <<>> /\ Head(s) = s[1]
    <3>1. k # 0 => 1 <= k /\ 1 \in 1 .. (m + 1)
      BY ONLY <1>1, <1>6
    <3>2. k # 0 => r[1] = s[1]
      BY ONLY <3>1, <1>4
    <3>3. k # 0 => s # <<>>
      BY <1>1, <1>6
    <3>4. s # <<>> => Head(s) = s[1]
      BY ONLY s \in Seq(Nodes)
    <3> QED BY <3>2, <3>3, <3>4
  <2> QED BY ONLY <2>1, <2>2, <2>3 DEF First
<1>12. Last(r) = IF k = Len(s) THEN n ELSE Last(s)
  <2>1. r # <<>> /\ Last(r) = r[m + 1]
    BY ONLY <1>1, <1>4 DEF Last
  <2>2. k = m => r[m + 1] = n
    BY ONLY <1>1, <1>4, <1>6
  <2>3. k # m => r[m + 1] = s[m] /\ s # <<>>
    <3>1. k # m => m + 1 \in 1 .. (m + 1) /\ ~(m + 1 <= k) /\ m + 1 # k + 1
                   /\ (m + 1) - 1 = m
      BY ONLY <1>1, <1>6
    <3>2. k # m => r[m + 1] = s[m]
      BY ONLY <3>1, <1>4
    <3>3. k # m => s # <<>>
      BY <1>1, <1>6
    <3> QED BY <3>2, <3>3
  <2> QED BY ONLY <2>1, <2>2, <2>3, <1>1 DEF Last
<1> QED BY <1>4, <1>7, <1>9, <1>10, <1>11, <1>12

\* rb_erase keeps the order, and the neighbours of the erased node are the new
\* ends when it was at an end.
LEMMA EraseSorted ==
    ASSUME NEW s \in Seq(Nodes), NEW timeout \in [Nodes -> Nat],
           NEW n \in Nodes, NEW r,
           Sorted(s, timeout), Once(s), Has(s, n), r = RbErase(s, n)
    PROVE  /\ r \in Seq(Nodes)
           /\ Sorted(r, timeout) /\ Once(r)
           /\ \A m : Has(r, m) <=> m # n /\ Has(s, m)
           /\ First(r) = IF First(s) = n THEN RbNext(s, n) ELSE First(s)
           /\ Last(r) = IF Last(s) = n THEN RbPrev(s, n) ELSE Last(s)
           /\ First(s) = n =>
                 Last(r) = IF RbNext(s, n) = NULL THEN NULL ELSE Last(s)
<1>m. PICK m : m = Len(s)
  OBVIOUS
<1>1. m = Len(s) /\ m \in Nat /\ DOMAIN s = 1 .. m
      /\ \A i \in 1 .. m : s[i] \in Nodes
  BY <1>m
<1>k. PICK k : k = PlaceOf(s, n)
  OBVIOUS
<1>2. k \in 1 .. m /\ s[k] = n
  BY <1>1, <1>k DEF PlaceOf, Has
<1>3. r \in Seq(Nodes) /\ IsCut(r, s, k)
  <2>1. r = CutAt(s, k) /\ k \in 1 .. Len(s)
    BY <1>k, <1>1, <1>2 DEF RbErase, CutAt
  <2> QED BY ONLY <2>1, CutOut, s \in Seq(Nodes)
<1>4. /\ Len(r) = m - 1 /\ DOMAIN r = 1 .. (m - 1)
      /\ \A i \in 1 .. (m - 1) : r[i] = IF i < k THEN s[i] ELSE s[i + 1]
  BY ONLY <1>1, <1>3 DEF IsCut
<1>5. k \in Nat /\ 1 <= k /\ k <= m
  BY <1>1, <1>2
<1>6. \A a, b \in 1 .. m : s[a] = s[b] => a = b
  BY <1>1 DEF Once
<1> DEFINE u(l) == IF l < k THEN l ELSE l + 1
<1>7. \A l \in 1 .. (m - 1) : u(l) \in 1 .. m /\ u(l) # k /\ r[l] = s[u(l)]
  BY ONLY <1>1, <1>4, <1>5
<1>8. \A a, b \in 1 .. (m - 1) : (a < b => u(a) < u(b)) /\ (u(a) = u(b) => a = b)
  BY ONLY <1>1, <1>5
<1>9. \A l \in 1 .. m : l # k => \E j \in 1 .. (m - 1) : u(j) = l
  <2> SUFFICES ASSUME NEW l \in 1 .. m, l # k
               PROVE  \E j \in 1 .. (m - 1) : u(j) = l
    OBVIOUS
  <2>1. CASE l < k
    <3>1. l \in 1 .. (m - 1) /\ u(l) = l
      BY ONLY <1>1, <1>5, <2>1, l \in 1 .. m
    <3> QED BY <3>1
  <2>2. CASE l > k
    <3>1. l - 1 \in 1 .. (m - 1) /\ u(l - 1) = l
      BY ONLY <1>1, <1>5, <2>2, l \in 1 .. m
    <3> QED BY <3>1
  <2> QED BY ONLY <1>1, <1>5, <2>1, <2>2, l \in 1 .. m, l # k
<1> HIDE DEF u
<1>10. Sorted(r, timeout)
  <2> SUFFICES ASSUME NEW i \in 1 .. (m - 1), NEW j \in 1 .. (m - 1), i < j
               PROVE  timeout[r[i]] <= timeout[r[j]]
    BY <1>4 DEF Sorted
  <2>1. \A a, b \in 1 .. m : a < b => timeout[s[a]] <= timeout[s[b]]
    BY <1>1 DEF Sorted
  <2> QED BY <2>1, <1>7, <1>8
<1>11. Once(r)
  <2> SUFFICES ASSUME NEW i \in 1 .. (m - 1), NEW j \in 1 .. (m - 1), r[i] = r[j]
               PROVE  i = j
    <3>1. DOMAIN r = 1 .. (m - 1)
      BY <1>4
    <3> QED BY <3>1 DEF Once
  <2> QED BY <1>6, <1>7, <1>8
<1>12. ASSUME NEW q PROVE Has(r, q) <=> q # n /\ Has(s, q)
  <2>1. DOMAIN r = 1 .. (m - 1) /\ DOMAIN s = 1 .. m
    BY <1>1, <1>4
  <2>2. ASSUME Has(r, q) PROVE q # n /\ Has(s, q)
    BY ONLY <2>1, <2>2, <1>2, <1>6, <1>7 DEF Has
  <2>3. ASSUME q # n, Has(s, q) PROVE Has(r, q)
    <3>1. PICK l \in 1 .. m : s[l] = q
      BY ONLY <2>1, <2>3 DEF Has
    <3>2. l # k
      BY <1>2, <2>3, <3>1
    <3>3. PICK j \in 1 .. (m - 1) : u(j) = l
      BY <1>9, <3>2
    <3>4. r[j] = q
      BY <1>7, <3>1, <3>3
    <3> QED BY ONLY <2>1, <3>4, j \in 1 .. (m - 1) DEF Has
  <2> QED BY <2>2, <2>3
<1>13. s # <<>> /\ First(s) = s[1] /\ Last(s) = s[m]
  <2>1. s # <<>>
    BY <1>1, <1>2
  <2>2. Head(s) = s[1]
    BY ONLY <2>1, s \in Seq(Nodes)
  <2> QED BY <1>1, <2>1, <2>2 DEF First, Last
<1>14. (First(s) = n <=> k = 1) /\ (Last(s) = n <=> k = m)
  <2>1. 1 \in 1 .. m /\ m \in 1 .. m /\ k \in 1 .. m
    BY ONLY <1>1, <1>5
  <2> QED BY ONLY <2>1, <1>2, <1>6, <1>13
<1>15. RbNext(s, n) = IF k = m THEN NULL ELSE s[k + 1]
  BY ONLY <1>14, <1>k DEF RbNext
<1>16. RbPrev(s, n) = IF k = 1 THEN NULL ELSE s[k - 1]
  BY ONLY <1>14, <1>k DEF RbPrev
<1>17. CASE m = 1
  <2>1. r = <<>>
    BY ONLY <1>3, <1>4, <1>17
  <2>2. First(r) = NULL /\ Last(r) = NULL /\ k = 1
    BY ONLY <2>1, <1>5, <1>17 DEF First, Last
  <2>3. First(s) = n /\ Last(s) = n /\ RbNext(s, n) = NULL /\ RbPrev(s, n) = NULL
    BY ONLY <2>2, <1>14, <1>15, <1>16, <1>17
  <2> QED BY ONLY <2>2, <2>3, <1>3, <1>10, <1>11, <1>12
<1>18. CASE m > 1
  <2>1. r # <<>> /\ Len(r) = m - 1 /\ 1 \in 1 .. (m - 1) /\ m - 1 \in 1 .. (m - 1)
    BY ONLY <1>1, <1>3, <1>4, <1>18
  <2>2. Head(r) = r[1]
    BY ONLY <2>1, <1>3
  <2>3. First(r) = r[1] /\ Last(r) = r[m - 1]
    BY ONLY <2>1, <2>2 DEF First, Last
  <2>4. r[1] = IF k = 1 THEN s[2] ELSE s[1]
    <3>1. (1 < k <=> k # 1) /\ 1 + 1 = 2
      BY ONLY <1>5
    <3> QED BY ONLY <2>1, <3>1, <1>4
  <2>5. r[m - 1] = IF k = m THEN s[m - 1] ELSE s[m]
    <3>1. (m - 1 < k <=> k = m) /\ (m - 1) + 1 = m
      BY ONLY <1>1, <1>5
    <3> QED BY ONLY <2>1, <3>1, <1>4
  <2>6. First(r) = IF First(s) = n THEN RbNext(s, n) ELSE First(s)
    <3>1. k = 1 => k # m /\ k + 1 = 2
      BY ONLY <1>1, <1>5, <1>18
    <3> QED BY ONLY <3>1, <2>3, <2>4, <1>13, <1>14, <1>15
  <2>7. Last(r) = IF Last(s) = n THEN RbPrev(s, n) ELSE Last(s)
    <3>1. k = m => k # 1 /\ k - 1 = m - 1
      BY ONLY <1>1, <1>5, <1>18
    <3> QED BY ONLY <3>1, <2>3, <2>5, <1>13, <1>14, <1>16
  <2>8. ASSUME First(s) = n
        PROVE  Last(r) = IF RbNext(s, n) = NULL THEN NULL ELSE Last(s)
    <3>1. k = 1 /\ k # m /\ 2 \in 1 .. m /\ k + 1 = 2
      BY ONLY <2>8, <1>1, <1>5, <1>14, <1>18
    <3>2. RbNext(s, n) = s[2] /\ s[2] \in Nodes
      BY ONLY <3>1, <1>1, <1>15
    <3>3. NULL \notin Nodes
      BY PollerAssumption DEF Cells
    <3> QED BY ONLY <3>1, <3>2, <3>3, <2>3, <2>5, <1>13
  <2> QED BY ONLY <2>6, <2>7, <2>8, <1>3, <1>10, <1>11, <1>12
<1> QED BY ONLY <1>5, <1>17, <1>18, <1>1

-----------------------------------------------------------------------------
(* The index: what its operations do to each field *)

\* x and y have the same cells for the members of C.
SameCells(x, y, C) ==
    \A c \in C : /\ y.heap.next[c] = x.heap.next[c]
                 /\ y.heap.prev[c] = x.heap.prev[c]

SameTree(x, y) ==
    /\ y.tree = x.tree /\ y.tree_first = x.tree_first
    /\ y.tree_last = x.tree_last /\ y.in_rbtree = x.in_rbtree

\* Unless a link was followed to a cell outside the lists, only cells of the
\* lists and those of the nodes in N changed.
Keeps(x, y, N) ==
    /\ x.broken => y.broken
    /\ y.dropped = x.dropped
    /\ y.listed \subseteq x.listed \cup N
    /\ ~y.broken =>
          SameCells(x, y, Cells \ (x.listed \cup N \cup {TIMEO, NOTIMEO}))

LEMMA KeepsThen ==
    ASSUME NEW x, NEW y, NEW z, NEW N, NEW M, Keeps(x, y, N), Keeps(y, z, M)
    PROVE  Keeps(x, z, N \cup M)
BY DEF Keeps, SameCells

\* The cells are different from each other.
LEMMA CellFacts ==
    /\ Nodes \subseteq Cells /\ Heads \subseteq Cells
    /\ TIMEO \in Heads /\ NOTIMEO \in Heads /\ STACK \in Heads
    /\ TIMEO \in Cells /\ NOTIMEO \in Cells /\ STACK \in Cells
    /\ TIMEO # NOTIMEO /\ TIMEO # STACK /\ NOTIMEO # STACK
    /\ TIMEO \notin Nodes /\ NOTIMEO \notin Nodes /\ STACK \notin Nodes
    /\ NULL \notin Cells /\ NULL \notin Nodes /\ NULL \notin Fds
BY PollerAssumption DEF Cells, Heads

\* The fields of a member of IndexSet.
LEMMA IndexFields ==
    ASSUME NEW x \in IndexSet
    PROVE  /\ x.heap \in [next : [Cells -> Cells], prev : [Cells -> Cells]]
           /\ x.heap.next \in [Cells -> Cells] /\ x.heap.prev \in [Cells -> Cells]
           /\ x.tree \in Seq(Nodes)
           /\ x.tree_first \in Nodes \cup {NULL}
           /\ x.tree_last \in Nodes \cup {NULL}
           /\ x.in_rbtree \subseteq Nodes
           /\ x.timeout \in [Nodes -> Nat]
           /\ x.timer \in Nat
           /\ x.listed \subseteq Nodes /\ x.dropped \subseteq Nodes
           /\ x.touched \subseteq Cells \cup {NULL}
           /\ x.broken \in BOOLEAN
BY DEF IndexSet

\* What list_delete does, wherever the links lead.
LEMMA ListDeleteFields ==
    ASSUME NEW x \in IndexSet, NEW n \in Nodes, NEW y, y = ListDelete(x, n)
    PROVE  /\ y \in IndexSet /\ SameTree(x, y) /\ y.timeout = x.timeout
           /\ y.listed = x.listed \ {n} /\ Keeps(x, y, {n})
<1> DEFINE p == x.heap.prev[n]
           q == x.heap.next[n]
           C == {n, p, q}
           u == [x.heap.next EXCEPT ![p] = q]
           b == x.broken \/ ~(C \subseteq x.listed \cup {TIMEO, NOTIMEO})
<1>h. PICK h : h = list_delete(x.heap, n)
  OBVIOUS
<1>1. /\ x.heap.next \in [Cells -> Cells] /\ x.heap.prev \in [Cells -> Cells]
      /\ n \in Cells /\ p \in Cells /\ q \in Cells
      /\ x.listed \subseteq Nodes /\ x.broken \in BOOLEAN
      /\ x.touched \subseteq Cells \cup {NULL}
  BY IndexFields, CellFacts
<1>2. u[n] = q /\ u \in [Cells -> Cells]
  BY <1>1
<1>3. h = [next |-> u, prev |-> [x.heap.prev EXCEPT ![u[n]] = p]]
  BY <1>h DEF list_delete
<1>4. h = [next |-> u, prev |-> [x.heap.prev EXCEPT ![q] = p]]
  BY ONLY <1>2, <1>3
<1>5. /\ h \in [next : [Cells -> Cells], prev : [Cells -> Cells]]
      /\ \A c \in Cells \ C : h.next[c] = x.heap.next[c] /\ h.prev[c] = x.heap.prev[c]
  BY <1>1, <1>4
<1>6. y = [x EXCEPT !.heap = h, !.listed = x.listed \ {n}, !.broken = b,
                    !.touched = x.touched \cup C]
  BY <1>h DEF ListDelete, Follows
<1>7. b \in BOOLEAN /\ x.touched \cup C \in SUBSET (Cells \cup {NULL})
      /\ x.listed \ {n} \in SUBSET Nodes
  BY <1>1
<1>8. ~b => C \subseteq x.listed \cup {TIMEO, NOTIMEO}
  OBVIOUS
<1>9. x.broken => b
  OBVIOUS
<1> HIDE DEF b, C, u, p, q
<1>10. /\ y \in IndexSet /\ SameTree(x, y) /\ y.timeout = x.timeout
       /\ y.heap = h /\ y.listed = x.listed \ {n} /\ y.broken = b
       /\ y.dropped = x.dropped
  BY ONLY <1>5, <1>6, <1>7, x \in IndexSet DEF IndexSet, SameTree
<1>11. ~y.broken => SameCells(x, y, Cells \ (x.listed \cup {n} \cup {TIMEO, NOTIMEO}))
  BY ONLY <1>5, <1>8, <1>10 DEF SameCells
<1> QED BY ONLY <1>9, <1>10, <1>11 DEF Keeps

\* What list_add_tail does, wherever the links lead.
LEMMA AddTailFields ==
    ASSUME NEW x \in IndexSet, NEW n \in Nodes, NEW H \in {TIMEO, NOTIMEO},
           NEW y, y = AddTail(x, H, n)
    PROVE  /\ y \in IndexSet /\ SameTree(x, y) /\ y.timeout = x.timeout
           /\ y.listed = x.listed \cup {n} /\ Keeps(x, y, {n})
<1> DEFINE last == x.heap.prev[H]
           empty == x.heap.next[last] = last
           p == x.heap.prev[last]
           C == IF empty THEN {last} ELSE {last, p}
           b == x.broken \/ ~(C \subseteq x.listed \cup {TIMEO, NOTIMEO})
<1>h. PICK h : h = list_add_tail(x.heap, last, n)
  OBVIOUS
<1>1. /\ x.heap.next \in [Cells -> Cells] /\ x.heap.prev \in [Cells -> Cells]
      /\ n \in Cells /\ last \in Cells /\ p \in Cells /\ x.heap.next[p] \in Cells
      /\ x.listed \subseteq Nodes /\ x.broken \in BOOLEAN
      /\ x.touched \subseteq Cells \cup {NULL} /\ empty \in BOOLEAN
  BY IndexFields, CellFacts
<1>2. empty => h = [next |-> [x.heap.next EXCEPT ![last] = n, ![n] = last],
                    prev |-> [x.heap.prev EXCEPT ![last] = n, ![n] = last]]
  BY <1>h DEF list_add_tail, list_empty
<1>3. ~empty => h = [next |-> [x.heap.next EXCEPT ![n] = last, ![p] = n],
                     prev |-> [x.heap.prev EXCEPT ![n] = x.heap.next[p]]]
  BY <1>h DEF list_add_tail, list_empty
<1>4. C \subseteq Cells /\ (empty => C = {last}) /\ (~empty => C = {last, p})
  BY <1>1
<1>6. y = [x EXCEPT !.heap = h, !.listed = x.listed \cup {n}, !.broken = b,
                    !.touched = (x.touched \cup C) \cup {n}]
  BY <1>h DEF AddTail, Follows, list_empty
<1>7. b \in BOOLEAN /\ (x.touched \cup C) \cup {n} \in SUBSET (Cells \cup {NULL})
      /\ x.listed \cup {n} \in SUBSET Nodes
  BY <1>1, <1>4
<1>8. ~b => C \subseteq x.listed \cup {TIMEO, NOTIMEO}
  OBVIOUS
<1>9. x.broken => b
  OBVIOUS
<1> HIDE DEF b, C, empty, p, last
<1>5. /\ h \in [next : [Cells -> Cells], prev : [Cells -> Cells]]
      /\ \A c \in Cells \ (C \cup {n}) :
            h.next[c] = x.heap.next[c] /\ h.prev[c] = x.heap.prev[c]
  <2>1. CASE empty
    BY ONLY <1>1, <1>2, <1>4, <2>1
  <2>2. CASE ~empty
    BY ONLY <1>1, <1>3, <1>4, <2>2
  <2> QED BY ONLY <2>1, <2>2
<1>10. /\ y \in IndexSet /\ SameTree(x, y) /\ y.timeout = x.timeout
       /\ y.heap = h /\ y.listed = x.listed \cup {n} /\ y.broken = b
       /\ y.dropped = x.dropped
  BY ONLY <1>5, <1>6, <1>7, x \in IndexSet DEF IndexSet, SameTree
<1>11. ~y.broken => SameCells(x, y, Cells \ (x.listed \cup {n} \cup {TIMEO, NOTIMEO}))
  BY ONLY <1>5, <1>8, <1>10 DEF SameCells
<1> QED BY ONLY <1>9, <1>10, <1>11 DEF Keeps

\* What __poller_tree_erase does to the tree and to the rest.
LEMMA TreeEraseFields ==
    ASSUME NEW x \in IndexSet, NEW n \in Nodes, NEW W, TreeHolds(x, W),
           Has(x.tree, n), NEW y, y = TreeErase(x, n)
    PROVE  /\ y \in IndexSet
           /\ y.tree = RbErase(x.tree, n)
           /\ y.tree_first = First(y.tree) /\ y.tree_last = Last(y.tree)
           /\ y.in_rbtree = x.in_rbtree \ {n}
           /\ y.heap = x.heap /\ y.timeout = x.timeout
           /\ y.listed = x.listed /\ y.dropped = x.dropped /\ y.broken = x.broken
<1>1. y = [x EXCEPT !.tree = RbErase(x.tree, n),
              !.tree_first = IF x.tree_first = n THEN RbNext(x.tree, n) ELSE x.tree_first,
              !.tree_last = IF x.tree_last = n THEN RbPrev(x.tree, n) ELSE x.tree_last,
              !.in_rbtree = x.in_rbtree \ {n},
              !.touched = x.touched \cup {n}]
  BY DEF TreeErase
<1>r. PICK r : r = RbErase(x.tree, n)
  OBVIOUS
<1>2. /\ r \in Seq(Nodes)
      /\ First(r) = IF First(x.tree) = n THEN RbNext(x.tree, n) ELSE First(x.tree)
      /\ Last(r) = IF Last(x.tree) = n THEN RbPrev(x.tree, n) ELSE Last(x.tree)
  <2>1. x.tree \in Seq(Nodes) /\ x.timeout \in [Nodes -> Nat]
    BY IndexFields
  <2>2. Sorted(x.tree, x.timeout) /\ Once(x.tree)
    BY DEF TreeHolds
  <2> QED BY ONLY <2>1, <2>2, <1>r, n \in Nodes, Has(x.tree, n), EraseSorted
<1>3. y = [x EXCEPT !.tree = r, !.tree_first = First(r), !.tree_last = Last(r),
              !.in_rbtree = x.in_rbtree \ {n}, !.touched = x.touched \cup {n}]
  BY <1>1, <1>2, <1>r DEF TreeHolds
<1>4. First(r) \in Nodes \cup {NULL} /\ Last(r) \in Nodes \cup {NULL}
  <2>1. r # <<>> => Len(r) \in DOMAIN r /\ Head(r) \in Nodes
    BY ONLY <1>2
  <2> QED BY <1>2, <2>1 DEF First, Last
<1>5. x.in_rbtree \ {n} \in SUBSET Nodes
      /\ x.touched \cup {n} \in SUBSET (Cells \cup {NULL})
  BY IndexFields, CellFacts
<1> HIDE DEF RbErase, First, Last
<1>6. y \in IndexSet
  BY <1>2, <1>3, <1>4, <1>5 DEF IndexSet
<1> QED BY <1>3, <1>6, <1>r, SMTT(30) DEF IndexSet

\* What __poller_tree_insert does to the tree and to the rest.
LEMMA TreeInsertFields ==
    ASSUME NEW x \in IndexSet, NEW n \in Nodes, NEW W, TreeHolds(x, W),
           ~Has(x.tree, n), NEW y, y = TreeInsert(x, n)
    PROVE  /\ y \in IndexSet
           /\ Sorted(y.tree, x.timeout) /\ Once(y.tree)
           /\ \A m : Has(y.tree, m) <=> m = n \/ Has(x.tree, m)
           /\ y.tree_first = First(y.tree) /\ y.tree_last = Last(y.tree)
           /\ y.in_rbtree = x.in_rbtree \cup {n}
           /\ y.heap = x.heap /\ y.timeout = x.timeout
           /\ y.listed = x.listed /\ y.dropped = x.dropped /\ y.broken = x.broken
<1>k. PICK k : k = Cardinality({i \in DOMAIN x.tree :
                                    x.timeout[x.tree[i]] <= x.timeout[n]})
  OBVIOUS
<1>r. PICK r : r = PutAt(x.tree, k, n)
  OBVIOUS
<1>1. y = [x EXCEPT !.tree = r,
              !.tree_first = IF k = 0 THEN n ELSE x.tree_first,
              !.tree_last = IF k = Len(x.tree) THEN n ELSE x.tree_last,
              !.in_rbtree = x.in_rbtree \cup {n},
              !.touched = x.touched \cup {n, x.tree_last}]
  BY <1>k, <1>r DEF TreeInsert, PutAt
<1>2. /\ r \in Seq(Nodes)
      /\ Sorted(r, x.timeout) /\ Once(r)
      /\ \A m : Has(r, m) <=> m = n \/ Has(x.tree, m)
      /\ First(r) = IF k = 0 THEN n ELSE First(x.tree)
      /\ Last(r) = IF k = Len(x.tree) THEN n ELSE Last(x.tree)
  <2>1. x.tree \in Seq(Nodes) /\ x.timeout \in [Nodes -> Nat]
    BY IndexFields
  <2>2. Sorted(x.tree, x.timeout) /\ Once(x.tree)
    BY DEF TreeHolds
  <2> QED BY ONLY <2>1, <2>2, <1>k, <1>r, n \in Nodes, ~Has(x.tree, n), InsertSorted, SMTT(30)
<1>3. y = [x EXCEPT !.tree = r, !.tree_first = First(r), !.tree_last = Last(r),
              !.in_rbtree = x.in_rbtree \cup {n},
              !.touched = x.touched \cup {n, x.tree_last}]
  BY ONLY <1>1, <1>2, TreeHolds(x, W) DEF TreeHolds
<1>4. First(r) \in Nodes \cup {NULL} /\ Last(r) \in Nodes \cup {NULL}
  <2>1. r # <<>> => Len(r) \in DOMAIN r /\ Head(r) \in Nodes
    BY ONLY <1>2
  <2> QED BY <1>2, <2>1 DEF First, Last
<1>5. x.in_rbtree \cup {n} \in SUBSET Nodes
      /\ x.touched \cup {n, x.tree_last} \in SUBSET (Cells \cup {NULL})
  BY IndexFields, CellFacts
<1>6. y \in IndexSet
  BY ONLY <1>2, <1>3, <1>4, <1>5, x \in IndexSet DEF IndexSet
<1>7. /\ y.tree = r /\ y.tree_first = First(r) /\ y.tree_last = Last(r)
      /\ y.in_rbtree = x.in_rbtree \cup {n}
      /\ y.heap = x.heap /\ y.timeout = x.timeout
      /\ y.listed = x.listed /\ y.dropped = x.dropped /\ y.broken = x.broken
  BY ONLY <1>3, x \in IndexSet DEF IndexSet
<1> QED BY ONLY <1>2, <1>6, <1>7

\* Held only depends on the tree, on the listed nodes and on the timeouts of W.
LEMMA HeldSame ==
    ASSUME NEW x \in IndexSet, NEW y \in IndexSet, NEW W, Held(x, W),
           y.tree = x.tree, y.tree_first = x.tree_first,
           y.tree_last = x.tree_last,
           \A m \in W : m \in y.in_rbtree <=> m \in x.in_rbtree,
           \A m \in W : y.timeout[m] = x.timeout[m],
           y.listed \subseteq x.listed
    PROVE  Held(y, W)
<1>1. y.listed \subseteq W \ y.in_rbtree
  BY DEF Held
<1>2. Sorted(y.tree, y.timeout)
  <2>1. \A i \in DOMAIN y.tree : y.tree[i] \in W
    BY DEF Held, TreeHolds
  <2>2. Sorted(y.tree, x.timeout)
    BY DEF Held, TreeHolds
  <2> QED BY ONLY <2>1, <2>2, \A m \in W : y.timeout[m] = x.timeout[m] DEF Sorted
<1>3. TreeHolds(y, W)
  BY <1>2 DEF Held, TreeHolds
<1> QED BY <1>1, <1>3 DEF Held

-----------------------------------------------------------------------------
(* The index: what its operations do to the nodes it holds *)

\* What every operation that takes n out of the index leaves behind.
Unlinked(x, y, n, W) ==
    /\ y \in IndexSet /\ Held(y, W \ {n})
    /\ n \notin y.in_rbtree /\ y.in_rbtree \subseteq x.in_rbtree
    /\ Keeps(x, y, {n})

\* Lines 193-196: the node leaves the tree or the list that has it.
LEMMA UnlinkHeld ==
    ASSUME NEW x \in IndexSet, NEW W, Held(x, W), NEW n \in W, NEW y,
           y = Unlink(x, n)
    PROVE  Unlinked(x, y, n, W)
<1>0. /\ n \in Nodes /\ TreeHolds(x, W) /\ W \subseteq Nodes
      /\ x.listed \subseteq W \ x.in_rbtree
  BY DEF Held
<1>1. CASE n \in x.in_rbtree
  <2>1. y = TreeErase(x, n) /\ Has(x.tree, n)
    BY <1>0, <1>1 DEF Unlink, TreeHolds
  <2>2. /\ y \in IndexSet
        /\ y.tree = RbErase(x.tree, n)
        /\ y.tree_first = First(y.tree) /\ y.tree_last = Last(y.tree)
        /\ y.in_rbtree = x.in_rbtree \ {n}
        /\ y.heap = x.heap /\ y.timeout = x.timeout
        /\ y.listed = x.listed /\ y.dropped = x.dropped /\ y.broken = x.broken
    BY ONLY <1>0, <2>1, x \in IndexSet, TreeEraseFields
  <2>3. /\ Sorted(y.tree, x.timeout) /\ Once(y.tree)
        /\ \A m : Has(y.tree, m) <=> m # n /\ Has(x.tree, m)
    <3>1. x.tree \in Seq(Nodes) /\ x.timeout \in [Nodes -> Nat]
      BY IndexFields
    <3>2. Sorted(x.tree, x.timeout) /\ Once(x.tree)
      BY <1>0 DEF TreeHolds
    <3> QED BY ONLY <1>0, <2>1, <2>2, <3>1, <3>2, EraseSorted
  <2>4. TreeHolds(y, W \ {n})
    <3>1. \A i \in DOMAIN y.tree : y.tree[i] \in W \ {n}
      <4> SUFFICES ASSUME NEW i \in DOMAIN y.tree PROVE y.tree[i] \in W \ {n}
        OBVIOUS
      <4>1. Has(y.tree, y.tree[i])
        BY DEF Has
      <4>2. y.tree[i] # n /\ Has(x.tree, y.tree[i])
        BY <2>3, <4>1
      <4> QED BY <4>2, <1>0 DEF Has, TreeHolds
    <3>2. \A m \in W \ {n} : m \in y.in_rbtree <=> Has(y.tree, m)
      BY ONLY <1>0, <2>2, <2>3 DEF TreeHolds
    <3> QED BY ONLY <3>1, <3>2, <2>2, <2>3 DEF TreeHolds
  <2>5. Held(y, W \ {n})
    BY ONLY <1>0, <1>1, <2>2, <2>4 DEF Held
  <2> QED BY ONLY <2>2, <2>5 DEF Unlinked, Keeps, SameCells
<1>2. CASE n \notin x.in_rbtree
  <2>1. y = ListDelete(x, n)
    BY <1>2 DEF Unlink
  <2>2. /\ y \in IndexSet /\ SameTree(x, y) /\ y.timeout = x.timeout
        /\ y.listed = x.listed \ {n} /\ Keeps(x, y, {n})
    BY ONLY <1>0, <2>1, x \in IndexSet, ListDeleteFields
  <2>3. TreeHolds(y, W \ {n})
    <3>1. ~Has(x.tree, n)
      BY <1>0, <1>2 DEF TreeHolds
    <3>2. \A i \in DOMAIN y.tree : y.tree[i] \in W \ {n}
      BY <3>1, <1>0, <2>2 DEF Has, TreeHolds, SameTree
    <3> QED BY ONLY <3>2, <1>0, <2>2 DEF TreeHolds, SameTree
  <2>4. Held(y, W \ {n})
    BY ONLY <1>0, <2>2, <2>3 DEF Held, SameTree
  <2> QED BY ONLY <2>2, <2>4, <1>2 DEF Unlinked, SameTree
<1> QED BY <1>1, <1>2

\* What every operation that enters n in the index leaves behind.
Linked(x, y, n, W) ==
    /\ y \in IndexSet /\ Held(y, W \cup {n})
    /\ y.in_rbtree \subseteq x.in_rbtree \cup {n}
    /\ Keeps(x, y, {n})

\* The index does not hold n yet: then neither does its tree.
LEMMA NotYet ==
    ASSUME NEW x, NEW W, Held(x, W), NEW n \in Nodes \ W
    PROVE  ~Has(x.tree, n) /\ n \notin x.listed
BY DEF Held, TreeHolds, Has

\* n goes nowhere, or into a list.
LEMMA ListLinkHeld ==
    ASSUME NEW x \in IndexSet, NEW W, Held(x, W), NEW n \in Nodes \ W,
           n \notin x.in_rbtree, NEW y \in IndexSet, SameTree(x, y),
           y.timeout = x.timeout, y.listed \subseteq x.listed \cup {n},
           Keeps(x, y, {n})
    PROVE  Linked(x, y, n, W)
<1>1. ~Has(x.tree, n)
  BY ONLY Held(x, W), n \in Nodes \ W, NotYet
<1>2. TreeHolds(y, W \cup {n})
  BY ONLY <1>1, Held(x, W), SameTree(x, y), n \notin x.in_rbtree,
          y.timeout = x.timeout DEF Held, TreeHolds, SameTree
<1>3. Held(y, W \cup {n})
  BY ONLY <1>2, Held(x, W), SameTree(x, y), n \in Nodes \ W, n \notin x.in_rbtree,
          y.listed \subseteq x.listed \cup {n} DEF Held, SameTree
<1> QED BY ONLY <1>3, y \in IndexSet, SameTree(x, y), Keeps(x, y, {n})
        DEF Linked, SameTree

\* The node goes into the tree.
LEMMA TreeLinkHeld ==
    ASSUME NEW x \in IndexSet, NEW W, Held(x, W), NEW n \in Nodes \ W,
           NEW y, y = TreeInsert(x, n)
    PROVE  Linked(x, y, n, W)
<1>0. /\ n \in Nodes /\ n \notin W /\ TreeHolds(x, W) /\ W \subseteq Nodes
      /\ x.listed \subseteq W \ x.in_rbtree
  BY DEF Held
<1>1. ~Has(x.tree, n) /\ n \notin x.listed
  BY ONLY Held(x, W), n \in Nodes \ W, NotYet
<1>2. /\ y \in IndexSet
      /\ Sorted(y.tree, x.timeout) /\ Once(y.tree)
      /\ \A m : Has(y.tree, m) <=> m = n \/ Has(x.tree, m)
      /\ y.tree_first = First(y.tree) /\ y.tree_last = Last(y.tree)
      /\ y.in_rbtree = x.in_rbtree \cup {n}
      /\ y.heap = x.heap /\ y.timeout = x.timeout
      /\ y.listed = x.listed /\ y.dropped = x.dropped /\ y.broken = x.broken
  BY ONLY <1>0, <1>1, x \in IndexSet, y = TreeInsert(x, n), TreeInsertFields
<1>3. TreeHolds(y, W \cup {n})
  <2>1. \A i \in DOMAIN y.tree : y.tree[i] \in W \cup {n}
    <3> SUFFICES ASSUME NEW i \in DOMAIN y.tree PROVE y.tree[i] \in W \cup {n}
      OBVIOUS
    <3>1. Has(y.tree, y.tree[i])
      BY DEF Has
    <3>2. y.tree[i] = n \/ Has(x.tree, y.tree[i])
      BY <1>2, <3>1
    <3> QED BY ONLY <3>2, <1>0 DEF Has, TreeHolds
  <2>2. \A m \in W \cup {n} : m \in y.in_rbtree <=> Has(y.tree, m)
    BY ONLY <1>0, <1>2 DEF TreeHolds
  <2> QED BY ONLY <2>1, <2>2, <1>2 DEF TreeHolds
<1>4. Held(y, W \cup {n})
  BY ONLY <1>0, <1>1, <1>2, <1>3 DEF Held
<1> QED BY ONLY <1>2, <1>4 DEF Linked, Keeps, SameCells

\* Setting the timer changes neither lists nor tree.
LEMMA TimerHeld ==
    ASSUME NEW x \in IndexSet, NEW W, Held(x, W), NEW k \in Nat, NEW y,
           y = [x EXCEPT !.timer = k]
    PROVE  /\ y \in IndexSet /\ Held(y, W) /\ SameTree(x, y)
           /\ y.heap = x.heap /\ y.listed = x.listed
           /\ y.dropped = x.dropped /\ y.broken = x.broken
<1>1. /\ y \in IndexSet /\ SameTree(x, y)
      /\ y.heap = x.heap /\ y.timeout = x.timeout /\ y.listed = x.listed
      /\ y.dropped = x.dropped /\ y.broken = x.broken
  BY DEF IndexSet, SameTree
<1>2. Held(y, W)
  BY ONLY <1>1, x \in IndexSet, Held(x, W), HeldSame DEF SameTree
<1> QED BY ONLY <1>1, <1>2

LEMMA ArmHeld ==
    ASSUME NEW x \in IndexSet, NEW W, Held(x, W), NEW n \in Nodes, NEW y,
           y = Arm(x, n)
    PROVE  /\ y \in IndexSet /\ Held(y, W) /\ SameTree(x, y)
           /\ y.heap = x.heap /\ y.listed = x.listed
           /\ y.dropped = x.dropped /\ y.broken = x.broken
<1>k. PICK k : k = x.timeout[n]
  OBVIOUS
<1>1. k \in Nat
  BY <1>k, IndexFields
<1>2. y = [x EXCEPT !.timer = k]
  BY <1>k DEF Arm
<1> QED BY ONLY <1>1, <1>2, x \in IndexSet, Held(x, W), TimerHeld

\* Neither does a link that leads outside the lists.
LEMMA StrayHeld ==
    ASSUME NEW x \in IndexSet, NEW W, Held(x, W), NEW c \in Cells, NEW y,
           y = Stray(x, c)
    PROVE  /\ y \in IndexSet /\ Held(y, W) /\ SameTree(x, y)
           /\ y.heap = x.heap /\ y.timeout = x.timeout /\ y.listed = x.listed
           /\ y.dropped = x.dropped /\ y.broken
<1>t. PICK t : t = x.touched \cup {c}
  OBVIOUS
<1>1. t \in SUBSET (Cells \cup {NULL})
  BY <1>t, IndexFields
<1>2. y = [x EXCEPT !.broken = TRUE, !.touched = t]
  BY <1>t DEF Stray
<1>3. /\ y \in IndexSet /\ SameTree(x, y)
      /\ y.heap = x.heap /\ y.timeout = x.timeout /\ y.listed = x.listed
      /\ y.dropped = x.dropped /\ y.broken
  BY ONLY <1>1, <1>2, x \in IndexSet DEF IndexSet, SameTree
<1>4. Held(y, W)
  BY ONLY <1>3, x \in IndexSet, Held(x, W), HeldSame DEF SameTree
<1> QED BY ONLY <1>3, <1>4

\* The same after n was entered.
LEMMA ThenAside ==
    ASSUME NEW x, NEW W, NEW n, NEW z, Linked(x, z, n, W),
           NEW y \in IndexSet, Held(y, W \cup {n}), SameTree(z, y),
           y.heap = z.heap, y.listed = z.listed, y.dropped = z.dropped,
           y.broken \/ y.broken = z.broken
    PROVE  Linked(x, y, n, W)
BY DEF Linked, Keeps, SameTree, SameCells

\* __poller_insert_node.
LEMMA InsertNodeHeld ==
    ASSUME NEW x \in IndexSet, NEW W, Held(x, W), NEW n \in Nodes \ W,
           n \notin x.in_rbtree, NEW y, y = InsertNode(x, n)
    PROVE  Linked(x, y, n, W)
<1> DEFINE end == x.heap.prev[TIMEO]
           first == x.heap.next[TIMEO]
<1>0. n \in Nodes /\ end \in Cells /\ first \in Cells
  BY CellFacts, IndexFields
<1>a. PICK z : z = AddTail(x, TIMEO, n)
  OBVIOUS
<1>b. PICK w : w = TreeInsert(x, n)
  OBVIOUS
<1>1. Linked(x, z, n, W)
  <2>1. TIMEO \in {TIMEO, NOTIMEO}
    OBVIOUS
  <2>2. /\ z \in IndexSet /\ SameTree(x, z) /\ z.timeout = x.timeout
        /\ z.listed = x.listed \cup {n} /\ Keeps(x, z, {n})
    BY ONLY <1>0, <1>a, <2>1, x \in IndexSet, AddTailFields
  <2> QED BY ONLY <2>2, x \in IndexSet, Held(x, W), n \in Nodes \ W,
                  n \notin x.in_rbtree, ListLinkHeld
<1>2. Linked(x, w, n, W)
  BY ONLY <1>b, x \in IndexSet, Held(x, W), n \in Nodes \ W, TreeLinkHeld
<1>3. ASSUME NEW v \in {z, w} PROVE Linked(x, Arm(v, n), n, W)
  <2>a. PICK a : a = Arm(v, n)
    OBVIOUS
  <2>1. Linked(x, v, n, W) /\ v \in IndexSet /\ Held(v, W \cup {n})
    BY <1>1, <1>2 DEF Linked
  <2>2. /\ a \in IndexSet /\ Held(a, W \cup {n}) /\ SameTree(v, a)
        /\ a.heap = v.heap /\ a.listed = v.listed
        /\ a.dropped = v.dropped /\ a.broken = v.broken
    BY ONLY <1>0, <2>a, <2>1, ArmHeld
  <2>3. Linked(x, a, n, W)
    BY ONLY <2>1, <2>2, ThenAside
  <2> QED BY <2>a, <2>3
<1>4. Linked(x, Stray(w, first), n, W)
  <2>a. PICK a : a = Stray(w, first)
    OBVIOUS
  <2>1. w \in IndexSet /\ Held(w, W \cup {n})
    BY <1>2 DEF Linked
  <2>2. /\ a \in IndexSet /\ Held(a, W \cup {n}) /\ SameTree(w, a)
        /\ a.heap = w.heap /\ a.timeout = w.timeout /\ a.listed = w.listed
        /\ a.dropped = w.dropped /\ a.broken
    BY ONLY <1>0, <2>a, <2>1, StrayHeld
  <2>3. Linked(x, a, n, W)
    BY ONLY <1>2, <2>2, ThenAside
  <2> QED BY <2>a, <2>3
<1>5. Linked(x, Stray(x, end), n, W)
  <2>a. PICK a : a = Stray(x, end)
    OBVIOUS
  <2>1. /\ a \in IndexSet /\ SameTree(x, a)
        /\ a.heap = x.heap /\ a.timeout = x.timeout /\ a.listed = x.listed
        /\ a.dropped = x.dropped /\ a.broken
    BY ONLY <1>0, <2>a, x \in IndexSet, Held(x, W), StrayHeld
  <2>2. Keeps(x, a, {n})
    BY ONLY <2>1 DEF Keeps
  <2>3. Linked(x, a, n, W)
    BY ONLY <2>1, <2>2, x \in IndexSet, Held(x, W), n \in Nodes \ W,
            n \notin x.in_rbtree, ListLinkHeld
  <2> QED BY <2>a, <2>3
<1>6. y \in {z, w, Arm(z, n), Arm(w, n), Stray(x, end), Stray(w, first)}
  BY ONLY <1>a, <1>b, y = InsertNode(x, n) DEF InsertNode
<1> QED BY ONLY <1>1, <1>2, <1>3, <1>4, <1>5, <1>6

\* The timeout of a node that the index does not hold.
LEMMA HeldElse ==
    ASSUME NEW x \in IndexSet, NEW W, Held(x, W), NEW n \in Nodes \ W,
           NEW t \in Nat, NEW y, y = [x EXCEPT !.timeout[n] = t]
    PROVE  /\ y \in IndexSet /\ Held(y, W) /\ SameTree(x, y)
           /\ y.heap = x.heap /\ y.listed = x.listed /\ y.dropped = x.dropped
           /\ y.broken = x.broken
<1>1. /\ y \in IndexSet /\ SameTree(x, y)
      /\ y.heap = x.heap /\ y.listed = x.listed /\ y.dropped = x.dropped
      /\ y.broken = x.broken
      /\ \A m \in Nodes \ {n} : y.timeout[m] = x.timeout[m]
  BY DEF IndexSet, SameTree
<1>2. W \subseteq Nodes \ {n}
  BY DEF Held
<1>3. Held(y, W)
  BY ONLY <1>1, <1>2, x \in IndexSet, Held(x, W), HeldSame DEF SameTree
<1> QED BY ONLY <1>1, <1>3

\* The end of add, mod and set_timeout.
LEMMA LinkHeld ==
    ASSUME now \in Nat \ {0},
           NEW x \in IndexSet, NEW W, Held(x, W), NEW n \in Nodes \ W,
           n \notin x.in_rbtree, NEW t \in Int, NEW y, y = Link(x, n, t)
    PROVE  Linked(x, y, n, W)
<1>u. PICK u : u = IF t >= 0 THEN now + t ELSE 0
  OBVIOUS
<1>1. u \in Nat
  BY <1>u
<1>v. PICK v : v = [x EXCEPT !.timeout[n] = u]
  OBVIOUS
<1>2. /\ v \in IndexSet /\ Held(v, W) /\ SameTree(x, v)
      /\ v.heap = x.heap /\ v.listed = x.listed /\ v.dropped = x.dropped
      /\ v.broken = x.broken
  BY ONLY <1>1, <1>v, x \in IndexSet, Held(x, W), n \in Nodes \ W, HeldElse
<1>3. n \notin v.in_rbtree
  BY <1>2 DEF SameTree
<1>4. Linked(v, y, n, W)
  <2>1. CASE t >= 0
    <3>1. y = InsertNode(v, n)
      BY <1>u, <1>v, <2>1 DEF Link
    <3> QED BY ONLY <1>2, <1>3, <3>1, n \in Nodes \ W, InsertNodeHeld
  <2>2. CASE ~(t >= 0)
    <3>1. y = AddTail(v, NOTIMEO, n)
      BY <1>u, <1>v, <2>2 DEF Link
    <3>0. n \in Nodes /\ v \in IndexSet
      BY <1>2
    <3>2. NOTIMEO \in {TIMEO, NOTIMEO}
      OBVIOUS
    <3>3. /\ y \in IndexSet /\ SameTree(v, y) /\ y.timeout = v.timeout
          /\ y.listed = v.listed \cup {n} /\ Keeps(v, y, {n})
      BY ONLY <3>0, <3>1, <3>2, AddTailFields
    <3>4. y.listed \subseteq v.listed \cup {n}
      BY <3>3
    <3> QED BY ONLY <1>2, <1>3, <3>3, <3>4, n \in Nodes \ W, ListLinkHeld
  <2> QED BY <2>1, <2>2
<1>5. Keeps(v, y, {n}) /\ v.in_rbtree = x.in_rbtree
  BY ONLY <1>2, <1>4 DEF Linked, SameTree
<1>6. Keeps(x, y, {n})
  <2>1. SameCells(v, y, Cells \ (v.listed \cup {n} \cup {TIMEO, NOTIMEO})) =>
        SameCells(x, y, Cells \ (x.listed \cup {n} \cup {TIMEO, NOTIMEO}))
    BY ONLY <1>2 DEF SameCells
  <2> QED BY ONLY <1>2, <1>5, <2>1 DEF Keeps
<1> QED BY ONLY <1>4, <1>5, <1>6 DEF Linked

\* The callback gets the nodes in N, which the index does not hold.
Forgotten(x, y, N, W) ==
    /\ y \in IndexSet /\ Held(y, W)
    /\ y.in_rbtree = x.in_rbtree \ N
    /\ SameCells(x, y, Cells \ N)
    /\ y.listed \subseteq x.listed
    /\ y.dropped = x.dropped /\ y.broken = x.broken

\* Giving away nodes that wait nowhere changes nothing for those that wait.
LEMMA ForgetHeld ==
    ASSUME NEW x \in IndexSet, NEW W, Held(x, W), NEW N, N \subseteq Nodes \ W,
           NEW y, y = Forget(x, N)
    PROVE  Forgotten(x, y, N, W)
<1>0. W \subseteq Nodes
  BY DEF Held
<1>t. PICK t : t = [n \in Nodes |-> IF n \in N THEN 0 ELSE x.timeout[n]]
  OBVIOUS
<1>p. PICK p : p = [c \in Cells |-> IF c \in N THEN c ELSE x.heap.prev[c]]
  OBVIOUS
<1>q. PICK q : q = [c \in Cells |-> IF c \in N THEN c ELSE x.heap.next[c]]
  OBVIOUS
<1>1. y = [x EXCEPT !.in_rbtree = x.in_rbtree \ N, !.listed = x.listed \ N,
                    !.timeout = t, !.heap = [next |-> q, prev |-> p]]
  BY <1>t, <1>p, <1>q DEF Forget
<1>2. t \in [Nodes -> Nat] /\ \A n \in Nodes \ N : t[n] = x.timeout[n]
  BY <1>t, IndexFields
<1>3. p \in [Cells -> Cells] /\ q \in [Cells -> Cells]
      /\ \A c \in Cells \ N : p[c] = x.heap.prev[c] /\ q[c] = x.heap.next[c]
  BY <1>p, <1>q, IndexFields
<1>4. /\ y.tree = x.tree /\ y.tree_first = x.tree_first
      /\ y.tree_last = x.tree_last /\ y.in_rbtree = x.in_rbtree \ N
      /\ y.timeout = t /\ y.heap.next = q /\ y.heap.prev = p
      /\ y.listed = x.listed \ N /\ y.dropped = x.dropped /\ y.broken = x.broken
  BY ONLY <1>1, x \in IndexSet DEF IndexSet
<1>5. y \in IndexSet
  <2>1. x.in_rbtree \ N \in SUBSET Nodes /\ x.listed \ N \in SUBSET Nodes
    BY IndexFields
  <2>2. [next |-> q, prev |-> p] \in [next : [Cells -> Cells], prev : [Cells -> Cells]]
    BY <1>3
  <2> QED BY ONLY <1>1, <1>2, <2>1, <2>2, x \in IndexSet DEF IndexSet
<1>6. SameCells(x, y, Cells \ N)
  BY ONLY <1>3, <1>4 DEF SameCells
<1>7. /\ \A m \in W : m \in y.in_rbtree <=> m \in x.in_rbtree
      /\ \A m \in W : y.timeout[m] = x.timeout[m]
  BY ONLY <1>0, <1>2, <1>4, N \subseteq Nodes \ W
<1>8. Held(y, W)
  BY ONLY <1>4, <1>5, <1>7, x \in IndexSet, Held(x, W), HeldSame
<1> QED BY ONLY <1>4, <1>5, <1>6, <1>8 DEF Forgotten

\* Lines 600-616.
LEMMA SetTimerHeld ==
    ASSUME NEW x \in IndexSet, NEW W, Held(x, W), NEW y, y = SetTimer(x)
    PROVE  /\ y \in IndexSet /\ Held(y, W)
           /\ y.heap = x.heap /\ y.in_rbtree = x.in_rbtree
           /\ y.dropped = x.dropped /\ (x.broken => y.broken)
<1> DEFINE first == x.heap.next[TIMEO]
           f == x.tree_first
<1>0. first \in Cells /\ x.listed \subseteq Nodes /\ f \in Nodes \cup {NULL}
  BY CellFacts, IndexFields
<1>1. \/ y = Stray(x, first)
      \/ first \in Nodes /\ y = Arm(x, first)
      \/ f \in Nodes /\ y = Arm(x, f)
      \/ y = [x EXCEPT !.timer = 0]
  BY <1>0 DEF SetTimer, list_empty
<1>2. CASE y = Stray(x, first)
  <2>1. /\ y \in IndexSet /\ Held(y, W) /\ SameTree(x, y)
        /\ y.heap = x.heap /\ y.dropped = x.dropped /\ y.broken
    BY ONLY <1>0, <1>2, x \in IndexSet, Held(x, W), StrayHeld
  <2> QED BY ONLY <2>1 DEF SameTree
<1>3. ASSUME NEW m \in Nodes, y = Arm(x, m)
      PROVE  /\ y \in IndexSet /\ Held(y, W)
             /\ y.heap = x.heap /\ y.in_rbtree = x.in_rbtree
             /\ y.dropped = x.dropped /\ (x.broken => y.broken)
  <2>1. /\ y \in IndexSet /\ Held(y, W) /\ SameTree(x, y)
        /\ y.heap = x.heap /\ y.dropped = x.dropped /\ y.broken = x.broken
    BY ONLY <1>3, x \in IndexSet, Held(x, W), ArmHeld
  <2> QED BY ONLY <2>1 DEF SameTree
<1>4. CASE y = [x EXCEPT !.timer = 0]
  <2>1. 0 \in Nat
    OBVIOUS
  <2>3. /\ y \in IndexSet /\ Held(y, W) /\ SameTree(x, y)
        /\ y.heap = x.heap /\ y.dropped = x.dropped /\ y.broken = x.broken
    BY ONLY <2>1, <1>4, x \in IndexSet, Held(x, W), TimerHeld
  <2> QED BY ONLY <2>3 DEF SameTree
<1> QED BY <1>1, <1>2, <1>3, <1>4

\* INIT_LIST_HEAD of the local list.
LEMMA StackInit ==
    ASSUME NEW x \in IndexSet, NEW W, Held(x, W), NEW y,
           y = [x EXCEPT !.heap = list_init(x.heap, STACK)]
    PROVE  /\ y \in IndexSet /\ Held(y, W) /\ SameTree(x, y)
           /\ y.heap.next[STACK] = STACK /\ y.heap.prev[STACK] = STACK
           /\ SameCells(x, y, Cells \ {STACK})
           /\ y.dropped = x.dropped /\ y.broken = x.broken
<1>h. PICK h : h = list_init(x.heap, STACK)
  OBVIOUS
<1>0. STACK \in Cells
  BY CellFacts
<1>1. /\ h \in [next : [Cells -> Cells], prev : [Cells -> Cells]]
      /\ h.next[STACK] = STACK /\ h.prev[STACK] = STACK
      /\ \A c \in Cells \ {STACK} :
            h.next[c] = x.heap.next[c] /\ h.prev[c] = x.heap.prev[c]
  BY <1>0, <1>h, IndexFields DEF list_init
<1>2. y = [x EXCEPT !.heap = h]
  BY <1>h
<1>3. /\ y \in IndexSet /\ SameTree(x, y) /\ y.heap = h /\ y.timeout = x.timeout
      /\ y.listed = x.listed /\ y.dropped = x.dropped /\ y.broken = x.broken
  BY ONLY <1>1, <1>2, x \in IndexSet DEF IndexSet, SameTree
<1>4. Held(y, W)
  BY ONLY <1>3, x \in IndexSet, Held(x, W), HeldSame DEF SameTree
<1> QED BY ONLY <1>1, <1>3, <1>4 DEF SameCells

\* A node went from the tree to the local list.
Expelled(x, y, n, W) ==
    /\ y \in IndexSet /\ Held(y, W \ {n})
    /\ y.in_rbtree = x.in_rbtree /\ y.broken = x.broken
    /\ SameCells(x, y, Cells \ {n, STACK})
    /\ y.heap.next[STACK] = n
    /\ y.dropped = IF x.heap.next[STACK] # x.heap.prev[STACK]
                   THEN x.dropped \cup {x.heap.next[STACK]} ELSE x.dropped
    /\ x.heap.prev[STACK] = STACK =>
          y.heap.prev[STACK] = n /\ y.heap.next[n] = STACK /\ y.heap.prev[n] = STACK
    /\ x.heap.prev[STACK] # STACK =>
          /\ y.heap.prev[STACK] = x.heap.prev[STACK]
          /\ y.heap.next[n] = x.heap.prev[STACK]

\* Lines 569-574.  The local list is empty, or its last node has the cell of
\* the list on both sides, and it begins with a node.
LEMMA TakeHeld ==
    ASSUME NEW x \in IndexSet, NEW W, Held(x, W), NEW n, n = x.tree_first,
           n # NULL, NEW a \in Cells, a = x.heap.prev[STACK], a # n,
           a = STACK => x.heap.next[STACK] = STACK,
           a # STACK => x.heap.next[a] = STACK /\ x.heap.prev[a] = STACK
                        /\ x.heap.next[STACK] \in Nodes,
           NEW y, y = TakeExpired(x)
    PROVE  Expelled(x, y, n, W) /\ n \in W
<1>f. PICK f : f = x.heap.next[STACK]
  OBVIOUS
<1>0. /\ n \in Nodes /\ TreeHolds(x, W) /\ W \subseteq Nodes
      /\ x.listed \subseteq W \ x.in_rbtree
      /\ n \in Cells /\ n # STACK /\ STACK \in Cells
      /\ x.heap.next \in [Cells -> Cells] /\ x.heap.prev \in [Cells -> Cells]
      /\ x.tree \in Seq(Nodes) /\ x.timeout \in [Nodes -> Nat]
      /\ x.dropped \subseteq Nodes /\ x.touched \subseteq Cells \cup {NULL}
      /\ x.in_rbtree \subseteq Nodes
  BY IndexFields, CellFacts DEF Held
<1>n. n \in W /\ Has(x.tree, n) /\ n \in x.in_rbtree
  <2>1. x.tree # <<>> /\ n = Head(x.tree)
    BY <1>0 DEF TreeHolds, First
  <2>2. x.tree # <<>> => Head(x.tree) = x.tree[1] /\ 1 \in DOMAIN x.tree
    BY ONLY <1>0
  <2> QED BY ONLY <1>0, <2>1, <2>2 DEF TreeHolds, Has
<1>r. PICK r : r = RbErase(x.tree, n)
  OBVIOUS
<1>1. /\ r \in Seq(Nodes)
      /\ Sorted(r, x.timeout) /\ Once(r)
      /\ \A m : Has(r, m) <=> m # n /\ Has(x.tree, m)
      /\ First(r) = RbNext(x.tree, n)
      /\ Last(r) = IF RbNext(x.tree, n) = NULL THEN NULL ELSE Last(x.tree)
  <2>2. Sorted(x.tree, x.timeout) /\ Once(x.tree) /\ First(x.tree) = n
    BY <1>0 DEF TreeHolds
  <2>3. /\ r \in Seq(Nodes)
        /\ Sorted(r, x.timeout) /\ Once(r)
        /\ \A m : Has(r, m) <=> m # n /\ Has(x.tree, m)
        /\ First(r) = IF First(x.tree) = n THEN RbNext(x.tree, n) ELSE First(x.tree)
        /\ First(x.tree) = n =>
              Last(r) = IF RbNext(x.tree, n) = NULL THEN NULL ELSE Last(x.tree)
    BY ONLY <2>2, <1>0, <1>n, <1>r, EraseSorted
  <2> QED BY ONLY <2>2, <2>3
<1>h. PICK h : h = list_add_tail(x.heap, a, n)
  OBVIOUS
<1>d. PICK d : d = IF f # a THEN x.dropped \cup {f} ELSE x.dropped
  OBVIOUS
<1>2. y = [x EXCEPT !.tree_first = First(r), !.tree_last = Last(r), !.tree = r,
                    !.heap = h, !.dropped = d, !.touched = x.touched \cup {n, a}]
  <2>1. x.tree_last = Last(x.tree)
    BY <1>0 DEF TreeHolds
  <2> QED BY ONLY <1>1, <1>d, <1>f, <1>h, <1>r, <2>1, y = TakeExpired(x),
                  n = x.tree_first, a = x.heap.prev[STACK] DEF TakeExpired
<1>3. First(r) \in Nodes \cup {NULL} /\ Last(r) \in Nodes \cup {NULL}
  <2>1. r # <<>> => Len(r) \in DOMAIN r /\ Head(r) \in Nodes
    BY ONLY <1>1
  <2> QED BY <1>1, <2>1 DEF First, Last
<1>4. /\ h \in [next : [Cells -> Cells], prev : [Cells -> Cells]]
      /\ \A c \in Cells \ {n, STACK} :
            h.next[c] = x.heap.next[c] /\ h.prev[c] = x.heap.prev[c]
      /\ h.next[STACK] = n
      /\ a = STACK => h.prev[STACK] = n /\ h.next[n] = STACK /\ h.prev[n] = STACK
      /\ a # STACK => h.prev[STACK] = a /\ h.next[n] = a
  <2>1. CASE a = STACK
    <3>1. h = [next |-> [x.heap.next EXCEPT ![STACK] = n, ![n] = STACK],
               prev |-> [x.heap.prev EXCEPT ![STACK] = n, ![n] = STACK]]
      BY <2>1, <1>h DEF list_add_tail, list_empty
    <3> QED BY ONLY <1>0, <2>1, <3>1
  <2>2. CASE a # STACK
    <3>1. x.heap.next[a] = STACK /\ x.heap.prev[a] = STACK /\ x.heap.prev[STACK] = a
      BY <2>2
    <3>2. h = [next |-> [x.heap.next EXCEPT ![n] = a, ![STACK] = n],
               prev |-> [x.heap.prev EXCEPT ![n] = x.heap.next[STACK]]]
      BY ONLY <1>h, <3>1, <2>2 DEF list_add_tail, list_empty
    <3> QED BY ONLY <1>0, <2>2, <3>1, <3>2, a \in Cells, a # n
  <2> QED BY <2>1, <2>2
<1>5. d \in SUBSET Nodes /\ x.touched \cup {n, a} \in SUBSET (Cells \cup {NULL})
  BY <1>0, <1>d, <1>f
<1>6. /\ y \in IndexSet /\ y.tree = r /\ y.tree_first = First(r)
      /\ y.tree_last = Last(r) /\ y.in_rbtree = x.in_rbtree
      /\ y.heap = h /\ y.timeout = x.timeout /\ y.listed = x.listed
      /\ y.dropped = d /\ y.broken = x.broken
  BY ONLY <1>1, <1>2, <1>3, <1>4, <1>5, x \in IndexSet DEF IndexSet
<1>7. Held(y, W \ {n})
  <2>1. \A i \in DOMAIN r : r[i] \in W \ {n}
    <3> SUFFICES ASSUME NEW i \in DOMAIN r PROVE r[i] \in W \ {n}
      OBVIOUS
    <3>1. Has(r, r[i])
      BY DEF Has
    <3>2. r[i] # n /\ Has(x.tree, r[i])
      BY <1>1, <3>1
    <3> QED BY <3>2, <1>0 DEF Has, TreeHolds
  <2>2. TreeHolds(y, W \ {n})
    BY ONLY <1>0, <1>1, <1>6, <2>1 DEF TreeHolds
  <2> QED BY ONLY <1>0, <1>n, <1>6, <2>2 DEF Held
<1>8. SameCells(x, y, Cells \ {n, STACK})
  BY ONLY <1>4, <1>6 DEF SameCells
<1> QED BY ONLY <1>n, <1>d, <1>f, <1>4, <1>6, <1>7, <1>8,
                a = x.heap.prev[STACK] DEF Expelled

(* node, pipe and cb are used.                                                *)

\* The nodes that the poller waits for, those in the pipe and those that
\* expired after a step; nothing happened to nodes outside N.
Moved(waiting, piped, taken, N) ==
    /\ TableTypes' /\ Kinds'
    /\ Waiting' = waiting /\ Piped' = piped /\ Taken' = taken
    /\ \A m \in Nodes \ N : node'[m] = node[m]

\* What the fields of a node in each situation are.
LEMMA NodeFacts ==
    ASSUME TableTypes, NEW n \in Nodes
    PROVE  /\ node[n] \in NodeSet
           /\ node[n].fd \in Fds \cup {NULL}
           /\ node[n].op \in Operations \cup {"none", "timer", "gone"}
           /\ node[n].removed \in BOOLEAN /\ node[n].res \in BOOLEAN
           /\ "none" \notin Operations /\ "timer" \notin Operations
           /\ "gone" \notin Operations
           /\ cb[n] \in Nat
BY DEF TableTypes, NodeSet, Operations

\* The situations exclude each other.
LEMMA Apart ==
    ASSUME TableTypes, Kinds, NEW n \in Nodes
    PROVE  /\ n \in Waiting => /\ n \notin Piped /\ ~node[n].removed /\ cb[n] = 0
                               /\ node[n].op \in Operations \cup {"timer"}
           /\ n \in Piped => /\ node[n].op \in Operations /\ node[n].removed
                             /\ cb[n] = 0
           /\ n \in Taken => /\ n \notin Waiting /\ n \notin Piped /\ cb[n] = 0
                             /\ node[n].op \in Operations \cup {"timer"}
           /\ node[n].op \in {"none", "gone"} =>
                 n \notin Waiting /\ n \notin Piped /\ n \notin Taken
           /\ \/ node[n].op \in {"none", "gone"}
              \/ n \in Waiting \/ n \in Piped \/ n \in Taken
<1>1. /\ node[n].fd \in Fds \cup {NULL}
      /\ node[n].op \in Operations \cup {"none", "timer", "gone"}
      /\ "none" \notin Operations /\ "timer" \notin Operations
      /\ "gone" \notin Operations
  BY NodeFacts
<1>2. /\ cb[n] = IF node[n].op = "gone" THEN 1 ELSE 0
      /\ node[n].op \in Operations <=> node[n].fd # NULL
      /\ n \in Piped <=> node[n].op \in Operations /\ node[n].removed
  BY DEF Kinds
<1>3. node[n].fd # NULL /\ nodes[node[n].fd] = n => ~node[n].removed
  BY <1>1, CellFacts DEF Kinds
<1>4. n \in Waiting <=> Watched(n)
  BY DEF Waiting
<1>5. n \in Taken <=> node[n].op \notin {"none", "gone"} /\ ~Watched(n) /\ n \notin Piped
  BY DEF Taken
<1>6. n \in Waiting => ~node[n].removed /\ node[n].op \in Operations \cup {"timer"}
  BY ONLY <1>2, <1>3, <1>4 DEF Watched
<1> QED BY ONLY <1>1, <1>2, <1>4, <1>5, <1>6

\* add: a node that was not used gets a descriptor.
LEMMA AddMoves ==
    ASSUME TableTypes, Kinds, NEW n \in Unused, NEW f \in Fds, nodes[f] = NULL,
           NEW o \in Operations, NEW message \in BOOLEAN,
           node' = [node EXCEPT ![n] = NewNode(f, o, message)],
           nodes' = [nodes EXCEPT ![f] = n], pipe' = pipe, cb' = cb
    PROVE  Moved(Waiting \cup {n}, Piped, Taken, {n}) /\ n \notin Waiting
<1>0. n \in Nodes /\ node[n].op = "none" /\ NULL \notin Fds /\ n # NULL
  BY CellFacts DEF Unused
<1>k. PICK k : k = NewNode(f, o, message)
  OBVIOUS
<1>1. k \in NodeSet /\ k.fd = f /\ k.op = o /\ k.removed = FALSE
  BY <1>k DEF NewNode, NodeSet
<1>2. TableTypes'
  BY <1>0, <1>1, <1>k DEF TableTypes
<1>3. /\ node'[n] = k
      /\ \A m \in Nodes \ {n} : node'[m] = node[m]
  BY <1>0, <1>k DEF TableTypes
<1>4. nodes'[f] = n /\ \A g \in Fds \ {f} : nodes'[g] = nodes[g]
  BY DEF TableTypes
<1>5. n \notin Waiting /\ n \notin Piped /\ n \notin Taken /\ cb[n] = 0
  <2>1. n \notin Waiting /\ n \notin Piped /\ n \notin Taken
    BY <1>0, Apart
  <2> QED BY <2>1, <1>0 DEF Kinds
<1>6. Piped' = Piped
  BY DEF Piped
<1>7. node[n].fd = NULL
  BY <1>0, NodeFacts DEF Kinds
<1>8. o \notin {"none", "timer", "gone"}
  BY DEF Operations
<1>9. \A m \in Nodes : Watched(m)' <=> m = n \/ Watched(m)
  <2> SUFFICES ASSUME NEW m \in Nodes PROVE Watched(m)' <=> m = n \/ Watched(m)
    OBVIOUS
  <2>1. CASE m = n
    BY <1>0, <1>1, <1>3, <1>4, <2>1 DEF Watched
  <2>2. CASE m # n
    <3>1. node'[m] = node[m] /\ node[m].fd \in Fds \cup {NULL}
      BY <1>3, <2>2, NodeFacts
    <3>2. node[m].fd \in Fds => (nodes'[node[m].fd] = m <=> nodes[node[m].fd] = m)
      <4>1. m # NULL
        BY CellFacts
      <4> QED BY <1>4, <2>2, <4>1
    <3> QED BY <1>0, <2>2, <3>1, <3>2 DEF Watched
  <2> QED BY <2>1, <2>2
<1>10. Waiting' = Waiting \cup {n}
  BY <1>0, <1>9 DEF Waiting
<1>11. \A m \in Nodes : m \in Taken' <=> m \in Taken
  <2> SUFFICES ASSUME NEW m \in Nodes PROVE m \in Taken' <=> m \in Taken
    OBVIOUS
  <2>1. CASE m = n
    BY <1>5, <1>9, <2>1 DEF Taken
  <2>2. CASE m # n
    BY <1>3, <1>6, <1>9, <2>2 DEF Taken
  <2> QED BY <2>1, <2>2
<1>12. Taken' = Taken
  BY <1>11 DEF Taken
<1>13. \A m \in Nodes : cb'[m] = IF node'[m].op = "gone" THEN 1 ELSE 0
  BY <1>1, <1>3, <1>5, <1>8 DEF Kinds
<1>14. \A m \in Nodes : node'[m].op \in Operations <=> node'[m].fd # NULL
  BY <1>0, <1>1, <1>3 DEF Kinds
<1>15. \A g \in Fds : nodes'[g] # NULL =>
          node'[nodes'[g]].fd = g /\ ~node'[nodes'[g]].removed
  <2> SUFFICES ASSUME NEW g \in Fds, nodes'[g] # NULL
               PROVE  node'[nodes'[g]].fd = g /\ ~node'[nodes'[g]].removed
    OBVIOUS
  <2>1. CASE g = f
    BY <1>1, <1>3, <1>4, <2>1
  <2>2. CASE g # f
    <3>1. nodes'[g] = nodes[g] /\ nodes[g] \in Nodes
      BY <1>4, <2>2 DEF TableTypes
    <3>2. node[nodes[g]].fd = g /\ ~node[nodes[g]].removed
      BY <3>1, CellFacts DEF Kinds
    <3>3. nodes[g] # n
      BY <1>0, <1>7, <3>2
    <3> QED BY <1>3, <3>1, <3>2, <3>3
  <2> QED BY <2>1, <2>2
<1>16. \A m \in Nodes : m \in Piped' <=> node'[m].op \in Operations /\ node'[m].removed
  BY <1>1, <1>3, <1>5, <1>6 DEF Kinds
<1>17. \A i, j \in DOMAIN pipe' : pipe'[i] = pipe'[j] /\ pipe'[i] # NULL => i = j
  BY DEF Kinds
<1>18. Kinds'
  BY ONLY <1>13, <1>14, <1>15, <1>16, <1>17 DEF Kinds
<1> QED BY ONLY <1>2, <1>3, <1>5, <1>6, <1>10, <1>12, <1>18 DEF Moved

\* The parts of Moved, one node at a time.
LEMMA MovedBy ==
    ASSUME TableTypes, Kinds, TableTypes', NEW waiting, NEW piped, NEW taken,
           NEW N, N \subseteq Nodes,
           waiting \subseteq Nodes, piped \subseteq Nodes, taken \subseteq Nodes,
           \A m \in Nodes \ N : node'[m] = node[m] /\ cb'[m] = cb[m],
           \A m \in N : /\ cb'[m] = IF node'[m].op = "gone" THEN 1 ELSE 0
                        /\ node'[m].op \in Operations <=> node'[m].fd # NULL,
           \A g \in Fds : nodes'[g] # NULL =>
               \/ nodes'[g] = nodes[g] /\ nodes'[g] \notin N
               \/ node'[nodes'[g]].fd = g /\ ~node'[nodes'[g]].removed,
           \A m \in Nodes : m \in waiting <=> Watched(m)',
           \A m \in Nodes : m \in piped <=> m \in Piped',
           \A m \in Nodes : m \in piped <=> node'[m].op \in Operations /\ node'[m].removed,
           \A m \in Nodes : m \in taken <=>
               node'[m].op \notin {"none", "gone"} /\ m \notin waiting /\ m \notin piped,
           \A i, j \in DOMAIN pipe' : pipe'[i] = pipe'[j] /\ pipe'[i] # NULL => i = j
    PROVE  Moved(waiting, piped, taken, N)
<1>1. Waiting' = waiting
  BY DEF Waiting
<1>2. Piped' = piped
  BY DEF Piped
<1>3. \A m \in Nodes : m \in Taken' <=> m \in taken
  <2> SUFFICES ASSUME NEW m \in Nodes PROVE m \in Taken' <=> m \in taken
    OBVIOUS
  <2>1. m \in Taken' <=> node'[m].op \notin {"none", "gone"} /\ ~Watched(m)'
                             /\ m \notin Piped'
    BY DEF Taken
  <2> QED BY <2>1
<1>4. Taken' = taken
  BY <1>3 DEF Taken
<1>5. \A m \in Nodes : /\ cb'[m] = IF node'[m].op = "gone" THEN 1 ELSE 0
                       /\ node'[m].op \in Operations <=> node'[m].fd # NULL
  BY DEF Kinds
<1>6. \A g \in Fds : nodes'[g] # NULL =>
          node'[nodes'[g]].fd = g /\ ~node'[nodes'[g]].removed
  <2> SUFFICES ASSUME NEW g \in Fds, nodes'[g] # NULL,
                      nodes'[g] = nodes[g], nodes'[g] \notin N
               PROVE  node'[nodes'[g]].fd = g /\ ~node'[nodes'[g]].removed
    OBVIOUS
  <2>1. nodes[g] \in Nodes \ N
    BY DEF TableTypes
  <2>2. node[nodes[g]].fd = g /\ ~node[nodes[g]].removed
    BY DEF Kinds
  <2> QED BY <2>1, <2>2
<1>7. \A m \in Nodes : m \in Piped' <=> node'[m].op \in Operations /\ node'[m].removed
  OBVIOUS
<1>8. Kinds'
  BY ONLY <1>5, <1>6, <1>7, \A i, j \in DOMAIN pipe' :
              pipe'[i] = pipe'[j] /\ pipe'[i] # NULL => i = j DEF Kinds
<1> QED BY <1>1, <1>2, <1>4, <1>8 DEF Moved

\* add_timer: a node that was not used becomes a timer.
LEMMA AddTimerMoves ==
    ASSUME TableTypes, Kinds, NEW n \in Unused,
           node' = [node EXCEPT ![n] = NewNode(NULL, "timer", FALSE)],
           nodes' = nodes, pipe' = pipe, cb' = cb
    PROVE  Moved(Waiting \cup {n}, Piped, Taken, {n}) /\ n \notin Waiting
<1>0. n \in Nodes /\ node[n].op = "none" /\ NULL \notin Fds /\ n # NULL
  BY CellFacts DEF Unused
<1>k. PICK k : k = NewNode(NULL, "timer", FALSE)
  OBVIOUS
<1>1. k \in NodeSet /\ k.fd = NULL /\ k.op = "timer" /\ k.removed = FALSE
  BY <1>k DEF NewNode, NodeSet
<1>2. TableTypes'
  BY <1>0, <1>1, <1>k DEF TableTypes
<1>3. node'[n] = k /\ \A m \in Nodes \ {n} : node'[m] = node[m]
  BY <1>0, <1>k DEF TableTypes
<1>4. n \notin Waiting /\ n \notin Piped /\ n \notin Taken
  BY <1>0, Apart
<1>5. node[n].fd = NULL /\ "timer" \notin Operations /\ cb[n] = 0
  BY <1>0, NodeFacts DEF Kinds
<1>6. \A m \in Nodes : Watched(m)' <=> m = n \/ Watched(m)
  BY <1>1, <1>3 DEF Watched
<1>7. \A m \in Nodes : m \in Waiting \cup {n} <=> Watched(m)'
  BY <1>6 DEF Waiting
<1>8. \A m \in Nodes : m \in Piped <=> m \in Piped'
  BY DEF Piped
<1>9. \A m \in Nodes : m \in Piped <=> node'[m].op \in Operations /\ node'[m].removed
  BY <1>1, <1>3, <1>4 DEF Kinds
<1>10. \A g \in Fds : nodes'[g] # NULL => nodes'[g] = nodes[g] /\ nodes'[g] \notin {n}
  BY <1>0, <1>5 DEF Kinds
<1>11. \A m \in Nodes : m \in Taken <=> node'[m].op \notin {"none", "gone"}
                          /\ m \notin Waiting \cup {n} /\ m \notin Piped
  <2>1. \A m \in Nodes : m \in Taken <=> node[m].op \notin {"none", "gone"}
                          /\ m \notin Waiting /\ m \notin Piped
    BY DEF Taken, Waiting
  <2> QED BY <1>3, <1>4, <2>1
<1>12. Waiting \cup {n} \subseteq Nodes /\ Piped \subseteq Nodes /\ Taken \subseteq Nodes
       /\ {n} \subseteq Nodes
  BY <1>0 DEF Waiting, Piped, Taken
<1>13. \A m \in {n} : /\ cb'[m] = IF node'[m].op = "gone" THEN 1 ELSE 0
                      /\ node'[m].op \in Operations <=> node'[m].fd # NULL
  BY <1>1, <1>3, <1>5
<1>14. \A i, j \in DOMAIN pipe' : pipe'[i] = pipe'[j] /\ pipe'[i] # NULL => i = j
  BY DEF Kinds
<1>15. \A m \in Nodes \ {n} : node'[m] = node[m] /\ cb'[m] = cb[m]
  BY <1>3
<1>16. Moved(Waiting \cup {n}, Piped, Taken, {n})
  BY ONLY TableTypes, Kinds, <1>2, <1>7, <1>8, <1>9, <1>10, <1>11, <1>12, <1>13,
          <1>14, <1>15, MovedBy
<1> QED BY <1>4, <1>16


\* A step that changes none of these variables, or only the res of a node.
LEMMA SameMoves ==
    ASSUME TableTypes, Kinds, nodes' = nodes, pipe' = pipe, cb' = cb,
           NEW N, N \subseteq Nodes,
           node' \in [Nodes -> NodeSet],
           \A m \in Nodes \ N : node'[m] = node[m],
           \A m \in N : node'[m].fd = node[m].fd /\ node'[m].op = node[m].op
                            /\ node'[m].removed = node[m].removed
    PROVE  Moved(Waiting, Piped, Taken, N)
<1>1. TableTypes'
  BY DEF TableTypes
<1>2. \A m \in Nodes : node'[m].fd = node[m].fd /\ node'[m].op = node[m].op
                           /\ node'[m].removed = node[m].removed
  OBVIOUS
<1>3. \A m \in Nodes : m \in Waiting <=> Watched(m)'
  BY <1>2 DEF Waiting, Watched
<1>4. \A m \in Nodes : m \in Piped <=> m \in Piped'
  BY DEF Piped
<1>5. \A m \in Nodes : m \in Piped <=> node'[m].op \in Operations /\ node'[m].removed
  BY <1>2 DEF Kinds
<1>6. \A m \in Nodes : m \in Taken <=> node'[m].op \notin {"none", "gone"}
                          /\ m \notin Waiting /\ m \notin Piped
  BY <1>2 DEF Taken, Waiting
<1>7. \A g \in Fds : nodes'[g] # NULL =>
          \/ nodes'[g] = nodes[g] /\ nodes'[g] \notin N
          \/ node'[nodes'[g]].fd = g /\ ~node'[nodes'[g]].removed
  <2> SUFFICES ASSUME NEW g \in Fds, nodes[g] # NULL
               PROVE  node'[nodes[g]].fd = g /\ ~node'[nodes[g]].removed
    OBVIOUS
  <2>1. nodes[g] \in Nodes
    BY DEF TableTypes
  <2> QED BY <1>2, <2>1 DEF Kinds
<1>8. Waiting \subseteq Nodes /\ Piped \subseteq Nodes /\ Taken \subseteq Nodes
  BY DEF Waiting, Piped, Taken
<1>9. \A m \in N : /\ cb'[m] = IF node'[m].op = "gone" THEN 1 ELSE 0
                   /\ node'[m].op \in Operations <=> node'[m].fd # NULL
  BY <1>2 DEF Kinds
<1>10. \A i, j \in DOMAIN pipe' : pipe'[i] = pipe'[j] /\ pipe'[i] # NULL => i = j
  BY DEF Kinds
<1>11. \A m \in Nodes \ N : node'[m] = node[m] /\ cb'[m] = cb[m]
  OBVIOUS
<1> QED BY ONLY TableTypes, Kinds, N \subseteq Nodes, <1>1, <1>3, <1>4, <1>5, <1>6,
                <1>7, <1>8, <1>9, <1>10, <1>11, MovedBy

\* A node that the poller waited for leaves the table and goes to the callback.
LEMMA GoneMoves ==
    ASSUME TableTypes, Kinds, NEW n \in Waiting,
           nodes' = IF node[n].fd = NULL THEN nodes
                    ELSE [nodes EXCEPT ![node[n].fd] = NULL],
           node' = [node EXCEPT ![n] = NoNode("gone")],
           cb' = [cb EXCEPT ![n] = @ + 1], pipe' = pipe
    PROVE  Moved(Waiting \ {n}, Piped, Taken, {n})
<1>0. n \in Nodes /\ Watched(n) /\ NULL \notin Fds /\ NULL \notin Nodes
  BY CellFacts DEF Waiting
<1>f. PICK f : f = node[n].fd
  OBVIOUS
<1>k. PICK k : k = NoNode("gone")
  OBVIOUS
<1>1. k \in NodeSet /\ k.fd = NULL /\ k.op = "gone" /\ k.removed = FALSE
  BY <1>k DEF NoNode, NodeSet
<1>2. node'[n] = k /\ \A m \in Nodes \ {n} : node'[m] = node[m]
  BY <1>0, <1>k DEF TableTypes
<1>3. f \in Fds \cup {NULL} /\ n \notin Piped /\ n \notin Taken /\ cb[n] = 0
      /\ "gone" \notin Operations
  <2>1. f \in Fds \cup {NULL} /\ "gone" \notin Operations
    BY <1>0, <1>f, NodeFacts
  <2>2. n \notin Piped /\ n \notin Taken /\ cb[n] = 0
    BY <1>0, Apart
  <2> QED BY <2>1, <2>2
<1>4. \A g \in Fds : nodes'[g] = IF g = f THEN NULL ELSE nodes[g]
  BY <1>0, <1>f, <1>3 DEF TableTypes
<1>5. TableTypes'
  <2>1. nodes' \in [Fds -> Nodes \cup {NULL}]
    BY <1>f, <1>3 DEF TableTypes
  <2>2. node' \in [Nodes -> NodeSet] /\ cb' \in [Nodes -> Nat]
    BY <1>0, <1>1, <1>k DEF TableTypes
  <2> QED BY <2>1, <2>2 DEF TableTypes
<1>6. f # NULL => nodes[f] = n
  BY <1>0, <1>f, <1>3 DEF Watched, Kinds, Operations
<1>7. \A m \in Nodes : m \in Waiting \ {n} <=> Watched(m)'
  <2> SUFFICES ASSUME NEW m \in Nodes PROVE m \in Waiting \ {n} <=> Watched(m)'
    OBVIOUS
  <2>1. CASE m = n
    BY <1>1, <1>2, <2>1 DEF Watched
  <2>2. CASE m # n
    <3>1. node'[m] = node[m] /\ node[m].fd \in Fds \cup {NULL} /\ m # NULL
      BY <1>0, <1>2, <2>2, NodeFacts
    <3>2. node[m].fd \in Fds => (nodes'[node[m].fd] = m <=> nodes[node[m].fd] = m)
      BY <1>4, <1>6, <2>2, <3>1
    <3> QED BY <1>0, <2>2, <3>1, <3>2 DEF Watched, Waiting
  <2> QED BY <2>1, <2>2
<1>8. \A m \in Nodes : m \in Piped <=> m \in Piped'
  BY DEF Piped
<1>9. \A m \in Nodes : m \in Piped <=> node'[m].op \in Operations /\ node'[m].removed
  BY <1>1, <1>2, <1>3 DEF Kinds
<1>10. \A m \in Nodes : m \in Taken <=> node'[m].op \notin {"none", "gone"}
                          /\ m \notin Waiting \ {n} /\ m \notin Piped
  <2>1. \A m \in Nodes : m \in Taken <=> node[m].op \notin {"none", "gone"}
                          /\ m \notin Waiting /\ m \notin Piped
    BY DEF Taken, Waiting
  <2> QED BY <1>1, <1>2, <1>3, <2>1
<1>11. \A g \in Fds : nodes'[g] # NULL => nodes'[g] = nodes[g] /\ nodes'[g] \notin {n}
  <2> SUFFICES ASSUME NEW g \in Fds, nodes'[g] # NULL
               PROVE  nodes'[g] = nodes[g] /\ nodes[g] # n
    OBVIOUS
  <2>1. nodes'[g] = nodes[g] /\ g # f
    BY <1>4
  <2>2. nodes[g] = n => g = f
    BY <1>0, <1>f DEF Kinds
  <2> QED BY <2>1, <2>2
<1>12. Waiting \ {n} \subseteq Nodes /\ Piped \subseteq Nodes /\ Taken \subseteq Nodes
       /\ {n} \subseteq Nodes
  BY <1>0 DEF Waiting, Piped, Taken
<1>13. \A m \in {n} : /\ cb'[m] = IF node'[m].op = "gone" THEN 1 ELSE 0
                      /\ node'[m].op \in Operations <=> node'[m].fd # NULL
  <2>1. cb'[n] = 1
    BY <1>0, <1>3 DEF TableTypes
  <2> QED BY <1>1, <1>2, <1>3, <2>1
<1>14. \A i, j \in DOMAIN pipe' : pipe'[i] = pipe'[j] /\ pipe'[i] # NULL => i = j
  BY DEF Kinds
<1>15. \A m \in Nodes \ {n} : node'[m] = node[m] /\ cb'[m] = cb[m]
  BY <1>0, <1>2 DEF TableTypes
<1> QED BY ONLY TableTypes, Kinds, <1>5, <1>7, <1>8, <1>9, <1>10, <1>11, <1>12, <1>13,
                <1>14, <1>15, MovedBy

\* The pipe with a further node.
LEMMA PipeAppend ==
    ASSUME TableTypes, Kinds, NEW n \in Nodes, n \notin Piped,
           pipe' = Append(pipe, n)
    PROVE  /\ pipe' \in Seq(Nodes \cup {NULL})
           /\ \A m \in Nodes : m \in Piped' <=> m \in Piped \/ m = n
           /\ \A i, j \in DOMAIN pipe' :
                 pipe'[i] = pipe'[j] /\ pipe'[i] # NULL => i = j
<1>l. PICK l : l = Len(pipe)
  OBVIOUS
<1>1. /\ pipe \in Seq(Nodes \cup {NULL}) /\ l \in Nat
      /\ DOMAIN pipe = 1 .. l
  BY <1>l DEF TableTypes
<1>2. /\ pipe' \in Seq(Nodes \cup {NULL}) /\ DOMAIN pipe' = 1 .. (l + 1)
      /\ pipe'[l + 1] = n /\ \A i \in 1 .. l : pipe'[i] = pipe[i]
  BY <1>1, <1>l
<1>3. \A i \in 1 .. l : pipe[i] # n
  BY <1>1 DEF Piped
<1>4. \A i, j \in 1 .. l : pipe[i] = pipe[j] /\ pipe[i] # NULL => i = j
  BY <1>1 DEF Kinds
<1>5. \A i \in 1 .. (l + 1) : i \in 1 .. l \/ i = l + 1
  BY <1>1
<1>6. \A i, j \in DOMAIN pipe' : pipe'[i] = pipe'[j] /\ pipe'[i] # NULL => i = j
  BY ONLY <1>2, <1>3, <1>4, <1>5
<1>7. l + 1 \in 1 .. (l + 1) /\ \A i \in 1 .. l : i \in 1 .. (l + 1)
  BY <1>1
<1>8. ASSUME NEW m \in Nodes PROVE m \in Piped' <=> m \in Piped \/ m = n
  <2>1. m \in Piped' <=> \E i \in 1 .. (l + 1) : pipe'[i] = m
    BY <1>2 DEF Piped
  <2>2. m \in Piped <=> \E i \in 1 .. l : pipe[i] = m
    BY <1>1 DEF Piped
  <2> QED BY ONLY <2>1, <2>2, <1>2, <1>5, <1>7
<1> QED BY <1>2, <1>6, <1>8

\* del: a node leaves the table for the pipe.
LEMMA PipeMoves ==
    ASSUME TableTypes, Kinds, NEW f \in Fds, nodes[f] # NULL, NEW n, n = nodes[f],
           nodes' = [nodes EXCEPT ![f] = NULL],
           node' = [node EXCEPT ![n].removed = TRUE],
           cb' = cb, pipe' = Append(pipe, n)
    PROVE  Moved(Waiting \ {n}, Piped \cup {n}, Taken, {n}) /\ n \in Waiting
<1>0. n \in Nodes /\ NULL \notin Fds /\ NULL \notin Nodes /\ node[n].fd = f
  BY CellFacts DEF TableTypes, Kinds
<1>1. n \in Waiting
  BY <1>0 DEF Waiting, Watched
<1>2. /\ node'[n].fd = f /\ node'[n].op = node[n].op /\ node'[n].removed = TRUE
      /\ node' \in [Nodes -> NodeSet]
      /\ \A m \in Nodes \ {n} : node'[m] = node[m]
  BY <1>0, ZenonT(30) DEF TableTypes, NodeSet
<1>3. n \notin Piped /\ n \notin Taken /\ cb[n] = 0 /\ node[n].op \in Operations
  <2>1. n \notin Piped /\ n \notin Taken /\ cb[n] = 0
    BY <1>0, <1>1, Apart
  <2> QED BY <2>1, <1>0 DEF Kinds
<1>4. \A g \in Fds : nodes'[g] = IF g = f THEN NULL ELSE nodes[g]
  BY DEF TableTypes
<1>5. /\ pipe' \in Seq(Nodes \cup {NULL})
      /\ \A m \in Nodes : m \in Piped' <=> m \in Piped \/ m = n
      /\ \A i, j \in DOMAIN pipe' : pipe'[i] = pipe'[j] /\ pipe'[i] # NULL => i = j
  BY <1>0, <1>3, PipeAppend
<1>6. TableTypes'
  BY <1>2, <1>5 DEF TableTypes
<1>7. \A m \in Nodes : m \in Waiting \ {n} <=> Watched(m)'
  <2> SUFFICES ASSUME NEW m \in Nodes PROVE m \in Waiting \ {n} <=> Watched(m)'
    OBVIOUS
  <2>1. CASE m = n
    BY <1>0, <1>2, <1>3, <1>4, <2>1 DEF Watched
  <2>2. CASE m # n
    <3>1. node'[m] = node[m] /\ node[m].fd \in Fds \cup {NULL} /\ m # NULL
      BY <1>0, <1>2, <2>2, NodeFacts
    <3>2. node[m].fd \in Fds => (nodes'[node[m].fd] = m <=> nodes[node[m].fd] = m)
      BY <1>4, <2>2, <3>1
    <3> QED BY <1>0, <2>2, <3>1, <3>2 DEF Watched, Waiting
  <2> QED BY <2>1, <2>2
<1>8. \A m \in Nodes : m \in Piped \cup {n} <=> m \in Piped'
  BY <1>5
<1>9. \A m \in Nodes : m \in Piped \cup {n} <=>
          node'[m].op \in Operations /\ node'[m].removed
  BY <1>2, <1>3 DEF Kinds
<1>10. \A m \in Nodes : m \in Taken <=> node'[m].op \notin {"none", "gone"}
                          /\ m \notin Waiting \ {n} /\ m \notin Piped \cup {n}
  <2>1. \A m \in Nodes : m \in Taken <=> node[m].op \notin {"none", "gone"}
                          /\ m \notin Waiting /\ m \notin Piped
    BY DEF Taken, Waiting
  <2> QED BY <1>2, <1>3, <2>1
<1>11. \A g \in Fds : nodes'[g] # NULL => nodes'[g] = nodes[g] /\ nodes'[g] \notin {n}
  <2> SUFFICES ASSUME NEW g \in Fds, nodes'[g] # NULL
               PROVE  nodes'[g] = nodes[g] /\ nodes[g] # n
    OBVIOUS
  <2>1. nodes'[g] = nodes[g] /\ g # f
    BY <1>4
  <2>2. nodes[g] = n => g = f
    BY <1>0 DEF Kinds
  <2> QED BY <2>1, <2>2
<1>12. Waiting \ {n} \subseteq Nodes /\ Piped \cup {n} \subseteq Nodes
       /\ Taken \subseteq Nodes /\ {n} \subseteq Nodes
  BY <1>0 DEF Waiting, Piped, Taken
<1>13. \A m \in {n} : /\ cb'[m] = IF node'[m].op = "gone" THEN 1 ELSE 0
                      /\ node'[m].op \in Operations <=> node'[m].fd # NULL
  <2>1. node[n].op # "gone"
    BY <1>3 DEF Operations
  <2> QED BY <1>0, <1>2, <1>3, <2>1
<1>14. \A m \in Nodes \ {n} : node'[m] = node[m] /\ cb'[m] = cb[m]
  BY <1>2
<1>15. Moved(Waiting \ {n}, Piped \cup {n}, Taken, {n})
  BY ONLY TableTypes, Kinds, <1>5, <1>6, <1>7, <1>8, <1>9, <1>10, <1>11, <1>12, <1>13,
          <1>14, MovedBy
<1> QED BY <1>1, <1>15

\* The caller gives node n to the callback, or writes it to the pipe; N has the
\* fields of the other nodes.
HandedOver(n, N) ==
    /\ stopped => /\ node' = [N EXCEPT ![n] = NoNode("gone")]
                  /\ cb' = [cb EXCEPT ![n] = @ + 1] /\ pipe' = pipe
    /\ ~stopped => /\ node' = [N EXCEPT ![n].removed = TRUE]
                   /\ cb' = cb /\ pipe' = Append(pipe, n)

\* mod: a new node takes the place of one in the table, which leaves for the
\* pipe or, when the thread does not run, goes to the callback.
LEMMA ModMoves ==
    ASSUME TableTypes, Kinds, NEW f \in Fds, nodes[f] # NULL, NEW old, old = nodes[f],
           NEW n \in Unused, NEW o \in Operations, NEW message \in BOOLEAN,
           nodes' = [nodes EXCEPT ![f] = n],
           NEW base, base = [node EXCEPT ![n] = NewNode(f, o, message)],
           HandedOver(old, base),
           NEW waiting, waiting = (Waiting \ {old}) \cup {n},
           NEW piped, piped = IF stopped THEN Piped ELSE Piped \cup {old},
           NEW N, N = {old, n}
    PROVE  Moved(waiting, piped, Taken, N)
<1>h. /\ stopped => /\ node' = [base EXCEPT ![old] = NoNode("gone")]
                    /\ cb' = [cb EXCEPT ![old] = @ + 1] /\ pipe' = pipe
      /\ ~stopped => /\ node' = [base EXCEPT ![old].removed = TRUE]
                     /\ cb' = cb /\ pipe' = Append(pipe, old)
  BY DEF HandedOver
<1>0. /\ old \in Nodes /\ NULL \notin Fds /\ NULL \notin Nodes /\ node[old].fd = f
      /\ n \in Nodes /\ node[n].op = "none"
  BY CellFacts DEF TableTypes, Kinds, Unused
<1>1. old \in Waiting
  BY <1>0 DEF Waiting, Watched
<1>2. /\ old \notin Piped /\ old \notin Taken /\ cb[old] = 0
      /\ node[old].op \in Operations /\ ~node[old].removed
      /\ node[old].op \notin {"none", "timer", "gone"}
  <2>1. old \notin Piped /\ old \notin Taken /\ cb[old] = 0 /\ ~node[old].removed
    BY <1>0, <1>1, Apart
  <2>2. node[old].op \in Operations
    BY <1>0 DEF Kinds
  <2> QED BY <2>1, <2>2 DEF Operations
<1>3. n \notin Waiting /\ n \notin Piped /\ n \notin Taken /\ n # old /\ cb[n] = 0
      /\ node[n].fd = NULL
  <2>1. n \notin Waiting /\ n \notin Piped /\ n \notin Taken
    BY <1>0, Apart
  <2>2. cb[n] = 0 /\ node[n].fd = NULL
    BY <1>0, NodeFacts DEF Kinds
  <2> QED BY <1>1, <2>1, <2>2
<1>k. PICK k : k = NewNode(f, o, message)
  OBVIOUS
<1>4. k \in NodeSet /\ k.fd = f /\ k.op = o /\ k.removed = FALSE
  BY <1>k DEF NewNode, NodeSet
<1>5. /\ base \in [Nodes -> NodeSet] /\ base[n] = k
      /\ \A m \in Nodes \ {n} : base[m] = node[m]
  BY <1>0, <1>4, <1>k DEF TableTypes
<1>6. /\ node' \in [Nodes -> NodeSet] /\ node'[n] = k
      /\ \A m \in Nodes \ {old, n} : node'[m] = node[m]
      /\ stopped => node'[old].fd = NULL /\ node'[old].op = "gone" /\ ~node'[old].removed
      /\ ~stopped => /\ node'[old].fd = f /\ node'[old].op = node[old].op
                     /\ node'[old].removed
  <2>1. CASE stopped
    <3>1. NoNode("gone") \in NodeSet /\ NoNode("gone").fd = NULL
          /\ NoNode("gone").op = "gone" /\ ~NoNode("gone").removed
      BY DEF NoNode, NodeSet
    <3> QED BY <1>h, <1>0, <1>3, <1>5, <2>1, <3>1
  <2>2. CASE ~stopped
    <3>1. node' = [base EXCEPT ![old].removed = TRUE] /\ base[old] = node[old]
          /\ base[old] \in NodeSet
      BY <1>h, <1>0, <1>3, <1>5, <2>2
    <3>2. PICK d : d = [base[old] EXCEPT !.removed = TRUE]
      OBVIOUS
    <3>3. d \in NodeSet /\ d.fd = node[old].fd /\ d.op = node[old].op /\ d.removed = TRUE
      BY ONLY <3>1, <3>2 DEF NodeSet
    <3>4. node' = [base EXCEPT ![old] = d]
      BY ONLY <3>1, <3>2
    <3>5. node' \in [Nodes -> NodeSet] /\ node'[old] = d
          /\ \A m \in Nodes \ {old} : node'[m] = base[m]
      BY ONLY <1>0, <1>5, <3>3, <3>4
    <3> QED BY ONLY <1>0, <1>3, <1>5, <2>2, <3>3, <3>5
  <2> QED BY <2>1, <2>2
<1>7. \A g \in Fds : nodes'[g] = IF g = f THEN n ELSE nodes[g]
  BY DEF TableTypes
<1>p. piped = IF stopped THEN Piped ELSE Piped \cup {old}
  OBVIOUS
<1>8. /\ pipe' \in Seq(Nodes \cup {NULL})
      /\ \A m \in Nodes : m \in piped <=> m \in Piped'
      /\ \A i, j \in DOMAIN pipe' : pipe'[i] = pipe'[j] /\ pipe'[i] # NULL => i = j
  <2>1. CASE stopped
    BY <1>h, <1>p, <2>1 DEF TableTypes, Kinds, Piped
  <2>2. CASE ~stopped
    <3>1. /\ pipe' \in Seq(Nodes \cup {NULL})
          /\ \A m \in Nodes : m \in Piped' <=> m \in Piped \/ m = old
          /\ \A i, j \in DOMAIN pipe' :
                pipe'[i] = pipe'[j] /\ pipe'[i] # NULL => i = j
      BY <1>h, <1>0, <1>2, <2>2, PipeAppend
    <3> QED BY <1>p, <2>2, <3>1
  <2> QED BY <2>1, <2>2
<1>9. cb' \in [Nodes -> Nat] /\ cb'[old] = (IF stopped THEN 1 ELSE 0)
      /\ \A m \in Nodes \ {old} : cb'[m] = cb[m]
  <2>1. CASE stopped
    BY <1>h, <1>0, <1>2, <2>1 DEF TableTypes
  <2>2. CASE ~stopped
    BY <1>h, <1>0, <1>2, <2>2 DEF TableTypes
  <2> QED BY <2>1, <2>2
<1>10. TableTypes'
  BY <1>0, <1>6, <1>8, <1>9 DEF TableTypes
<1>w. waiting = (Waiting \ {old}) \cup {n}
  OBVIOUS
<1>11. \A m \in Nodes : m \in waiting <=> Watched(m)'
  <2> SUFFICES ASSUME NEW m \in Nodes PROVE m \in waiting <=> Watched(m)'
    OBVIOUS
  <2>1. CASE m = n
    BY <1>0, <1>4, <1>6, <1>7, <1>w, <2>1 DEF Watched
  <2>2. CASE m = old
    <3>1. ~Watched(m)'
      BY <1>0, <1>2, <1>3, <1>6, <1>7, <2>2 DEF Watched
    <3> QED BY <1>3, <1>w, <2>2, <3>1
  <2>3. CASE m # n /\ m # old
    <3>1. node'[m] = node[m] /\ node[m].fd \in Fds \cup {NULL} /\ m # NULL
      BY <1>0, <1>6, <2>3, NodeFacts
    <3>2. node[m].fd \in Fds => (nodes'[node[m].fd] = m <=> nodes[node[m].fd] = m)
      BY <1>7, <2>3, <3>1
    <3> QED BY <1>0, <1>w, <2>3, <3>1, <3>2 DEF Watched, Waiting
  <2> QED BY <2>1, <2>2, <2>3
<1>12. \A m \in Nodes : m \in piped <=> node'[m].op \in Operations /\ node'[m].removed
  <2> SUFFICES ASSUME NEW m \in Nodes
               PROVE  m \in piped <=> node'[m].op \in Operations /\ node'[m].removed
    OBVIOUS
  <2>1. CASE m = n
    BY <1>3, <1>4, <1>6, <1>p, <2>1
  <2>2. CASE m = old
    BY <1>2, <1>6, <1>p, <2>2
  <2>3. CASE m # n /\ m # old
    BY <1>6, <1>p, <2>3 DEF Kinds
  <2> QED BY <2>1, <2>2, <2>3
<1>13. \A m \in Nodes : m \in Taken <=> node'[m].op \notin {"none", "gone"}
                          /\ m \notin waiting /\ m \notin piped
  <2> SUFFICES ASSUME NEW m \in Nodes
               PROVE  m \in Taken <=> node'[m].op \notin {"none", "gone"}
                          /\ m \notin waiting /\ m \notin piped
    OBVIOUS
  <2>1. m \in Taken <=> node[m].op \notin {"none", "gone"}
                          /\ m \notin Waiting /\ m \notin Piped
    BY DEF Taken, Waiting
  <2>2. CASE m = n
    BY <1>3, <1>w, <2>2
  <2>3. CASE m = old
    BY <1>2, <1>6, <1>p, <2>3
  <2>4. CASE m # n /\ m # old
    BY <1>6, <1>p, <1>w, <2>1, <2>4
  <2> QED BY <2>2, <2>3, <2>4
<1>14. \A g \in Fds : nodes'[g] # NULL =>
           \/ nodes'[g] = nodes[g] /\ nodes'[g] \notin {old, n}
           \/ node'[nodes'[g]].fd = g /\ ~node'[nodes'[g]].removed
  <2> SUFFICES ASSUME NEW g \in Fds, nodes'[g] # NULL, g # f
               PROVE  nodes'[g] = nodes[g] /\ nodes[g] # old /\ nodes[g] # n
    BY <1>4, <1>6, <1>7
  <2>1. nodes'[g] = nodes[g] /\ node[nodes[g]].fd = g
    BY <1>7 DEF Kinds
  <2> QED BY <1>0, <1>3, <2>1
<1>15. waiting \subseteq Nodes /\ piped \subseteq Nodes /\ Taken \subseteq Nodes
       /\ {old, n} \subseteq Nodes
  BY <1>0, <1>p, <1>w DEF Waiting, Piped, Taken
<1>16. \A m \in {old, n} : /\ cb'[m] = IF node'[m].op = "gone" THEN 1 ELSE 0
                           /\ node'[m].op \in Operations <=> node'[m].fd # NULL
  <2>1. /\ cb'[n] = IF node'[n].op = "gone" THEN 1 ELSE 0
        /\ node'[n].op \in Operations <=> node'[n].fd # NULL
    BY <1>0, <1>3, <1>4, <1>6, <1>9 DEF Operations
  <2>2. /\ cb'[old] = IF node'[old].op = "gone" THEN 1 ELSE 0
        /\ node'[old].op \in Operations <=> node'[old].fd # NULL
    BY <1>0, <1>2, <1>6, <1>9 DEF Operations
  <2> QED BY <2>1, <2>2
<1>17. \A m \in Nodes \ {old, n} : node'[m] = node[m] /\ cb'[m] = cb[m]
  BY <1>6, <1>9
<1>18. Moved(waiting, piped, Taken, {old, n})
  BY ONLY TableTypes, Kinds, <1>8, <1>10, <1>11, <1>12, <1>13, <1>14, <1>15, <1>16,
          <1>17, MovedBy
<1> QED BY <1>18

\* The nodes in the pipe go to the callback.
LEMMA DrainMoves ==
    ASSUME TableTypes, Kinds, CallBackPipe, nodes' = nodes
    PROVE  /\ Moved(Waiting, {}, Taken, Piped)
           /\ {pipe[i] : i \in DOMAIN pipe} \ {NULL} = Piped
<1>0. {pipe[i] : i \in DOMAIN pipe} \ {NULL} = Piped
  <2>1. \A i \in DOMAIN pipe : pipe[i] \in Nodes \cup {NULL}
    BY DEF TableTypes
  <2> QED BY <2>1, CellFacts DEF Piped
<1>1. /\ cb' = [n \in Nodes |-> IF n \in Piped THEN cb[n] + 1 ELSE cb[n]]
      /\ node' = [n \in Nodes |-> IF n \in Piped THEN NoNode("gone") ELSE node[n]]
      /\ pipe' = <<>>
  BY <1>0 DEF CallBackPipe
<1>2. NoNode("gone") \in NodeSet /\ NoNode("gone").fd = NULL
      /\ NoNode("gone").op = "gone" /\ ~NoNode("gone").removed
      /\ "gone" \notin Operations
  BY DEF NoNode, NodeSet, Operations
<1>3. TableTypes'
  BY <1>1, <1>2 DEF TableTypes
<1>4. \A m \in Nodes : m \in Piped => node[m].op \in Operations /\ cb[m] = 0
                           /\ node[m].removed /\ m \notin Waiting /\ m \notin Taken
  BY Apart
<1>5. /\ \A m \in Nodes \ Piped : node'[m] = node[m] /\ cb'[m] = cb[m]
      /\ \A m \in Piped : node'[m] = NoNode("gone") /\ cb'[m] = 1
      /\ Piped \subseteq Nodes
  BY <1>1, <1>4 DEF Piped
<1>6. \A m \in Nodes : m \in Waiting <=> Watched(m)'
  <2> SUFFICES ASSUME NEW m \in Nodes PROVE m \in Waiting <=> Watched(m)'
    OBVIOUS
  <2>1. CASE m \in Piped
    BY <1>2, <1>4, <1>5, <2>1 DEF Watched
  <2>2. CASE m \notin Piped
    BY <1>5, <2>2 DEF Watched, Waiting
  <2> QED BY <2>1, <2>2
<1>7. \A m \in Nodes : m \in {} <=> m \in Piped'
  BY <1>1 DEF Piped
<1>8. \A m \in Nodes : m \in {} <=> node'[m].op \in Operations /\ node'[m].removed
  BY <1>2, <1>5 DEF Kinds
<1>9. \A m \in Nodes : m \in Taken <=> node'[m].op \notin {"none", "gone"}
                          /\ m \notin Waiting /\ m \notin {}
  <2>1. \A m \in Nodes : m \in Taken <=> node[m].op \notin {"none", "gone"}
                          /\ m \notin Waiting /\ m \notin Piped
    BY DEF Taken, Waiting
  <2> QED BY <1>2, <1>5, <2>1
<1>10. \A g \in Fds : nodes'[g] # NULL => nodes'[g] = nodes[g] /\ nodes'[g] \notin Piped
  <2> SUFFICES ASSUME NEW g \in Fds, nodes[g] # NULL PROVE nodes[g] \notin Piped
    OBVIOUS
  <2>1. nodes[g] \in Nodes /\ ~node[nodes[g]].removed
    BY DEF TableTypes, Kinds
  <2> QED BY <1>4, <2>1
<1>11. Waiting \subseteq Nodes /\ {} \subseteq Nodes /\ Taken \subseteq Nodes
       /\ Piped \subseteq Nodes
  BY DEF Waiting, Piped, Taken
<1>12. \A m \in Piped : /\ cb'[m] = IF node'[m].op = "gone" THEN 1 ELSE 0
                        /\ node'[m].op \in Operations <=> node'[m].fd # NULL
  BY <1>2, <1>5
<1>13. \A i, j \in DOMAIN pipe' : pipe'[i] = pipe'[j] /\ pipe'[i] # NULL => i = j
  BY <1>1
<1>14. \A m \in Nodes \ Piped : node'[m] = node[m] /\ cb'[m] = cb[m]
  BY <1>5
<1>15. Moved(Waiting, {}, Taken, Piped)
  BY ONLY TableTypes, Kinds, <1>3, <1>6, <1>7, <1>8, <1>9, <1>10, <1>11, <1>12, <1>13,
          <1>14, MovedBy
<1> QED BY <1>0, <1>15

\* A node expires: it leaves the table, or is marked when it is a timer.
LEMMA ExpireMoves ==
    ASSUME TableTypes, Kinds, NEW n \in Waiting, pipe' = pipe, cb' = cb,
           \/ /\ node[n].fd # NULL
              /\ nodes' = [nodes EXCEPT ![node[n].fd] = NULL] /\ node' = node
           \/ /\ node[n].fd = NULL
              /\ node' = [node EXCEPT ![n].removed = TRUE] /\ nodes' = nodes
    PROVE  Moved(Waiting \ {n}, Piped, Taken \cup {n}, {n})
<1>0. n \in Nodes /\ Watched(n) /\ NULL \notin Fds /\ NULL \notin Nodes
  BY CellFacts DEF Waiting
<1>f. PICK f : f = node[n].fd
  OBVIOUS
<1>1. /\ node' \in [Nodes -> NodeSet] /\ node'[n].fd = f /\ node'[n].op = node[n].op
      /\ \A m \in Nodes \ {n} : node'[m] = node[m]
      /\ f # NULL => node' = node
      /\ f = NULL => node'[n].removed = TRUE
  <2>0. node \in [Nodes -> NodeSet] /\ node[n] \in NodeSet
    BY <1>0 DEF TableTypes
  <2>1. CASE f # NULL
    BY <1>f, <2>0, <2>1
  <2>2. CASE f = NULL
    <3>1. PICK d : d = [node[n] EXCEPT !.removed = TRUE]
      OBVIOUS
    <3>2. d \in NodeSet /\ d.fd = node[n].fd /\ d.op = node[n].op /\ d.removed = TRUE
      BY ONLY <2>0, <3>1 DEF NodeSet
    <3>3. node' = [node EXCEPT ![n] = d]
      BY <1>f, <2>2, <3>1
    <3> QED BY ONLY <1>0, <1>f, <2>0, <2>2, <3>2, <3>3
  <2> QED BY <2>1, <2>2
<1>2. f \in Fds \cup {NULL} /\ n \notin Piped /\ cb[n] = 0
      /\ node[n].op \in Operations \cup {"timer"}
  <2>1. f \in Fds \cup {NULL}
    BY <1>0, <1>f, NodeFacts
  <2>2. n \notin Piped /\ cb[n] = 0 /\ node[n].op \in Operations \cup {"timer"}
    BY <1>0, Apart
  <2> QED BY <2>1, <2>2
<1>3. \A g \in Fds : nodes'[g] = IF g = f THEN NULL ELSE nodes[g]
  BY <1>0, <1>f, <1>2 DEF TableTypes
<1>4. nodes' \in [Fds -> Nodes \cup {NULL}]
  BY <1>f, <1>2 DEF TableTypes
<1>5. TableTypes'
  BY <1>1, <1>4 DEF TableTypes
<1>6. /\ f # NULL => nodes[f] = n /\ node[n].op \in Operations
      /\ f = NULL => node[n].op = "timer"
  BY <1>0, <1>f, <1>2 DEF Watched, Kinds, Operations
<1>7. \A m \in Nodes : m \in Waiting \ {n} <=> Watched(m)'
  <2> SUFFICES ASSUME NEW m \in Nodes PROVE m \in Waiting \ {n} <=> Watched(m)'
    OBVIOUS
  <2>1. CASE m = n
    <3>1. ~Watched(n)'
      BY <1>0, <1>1, <1>2, <1>3, <1>6 DEF Watched, Operations
    <3> QED BY <2>1, <3>1
  <2>2. CASE m # n
    <3>1. node'[m] = node[m] /\ node[m].fd \in Fds \cup {NULL} /\ m # NULL
      BY <1>0, <1>1, <2>2, NodeFacts
    <3>2. node[m].fd \in Fds => (nodes'[node[m].fd] = m <=> nodes[node[m].fd] = m)
      BY ONLY <1>0, <1>3, <1>6, <2>2, <3>1
    <3> QED BY <1>0, <2>2, <3>1, <3>2 DEF Watched, Waiting
  <2> QED BY <2>1, <2>2
<1>8. \A m \in Nodes : m \in Piped <=> m \in Piped'
  BY DEF Piped
<1>9. \A m \in Nodes : m \in Piped <=> node'[m].op \in Operations /\ node'[m].removed
  BY <1>1, <1>2, <1>6 DEF Kinds, Operations
<1>10. \A m \in Nodes : m \in Taken \cup {n} <=> node'[m].op \notin {"none", "gone"}
                          /\ m \notin Waiting \ {n} /\ m \notin Piped
  <2>1. \A m \in Nodes : m \in Taken <=> node[m].op \notin {"none", "gone"}
                          /\ m \notin Waiting /\ m \notin Piped
    BY DEF Taken, Waiting
  <2>2. node[n].op \notin {"none", "gone"}
    BY <1>2 DEF Operations
  <2> QED BY <1>1, <1>2, <2>1, <2>2
<1>11. \A g \in Fds : nodes'[g] # NULL => nodes'[g] = nodes[g] /\ nodes'[g] \notin {n}
  <2> SUFFICES ASSUME NEW g \in Fds, nodes'[g] # NULL
               PROVE  nodes'[g] = nodes[g] /\ nodes[g] # n
    OBVIOUS
  <2>1. nodes'[g] = nodes[g] /\ g # f
    BY <1>3
  <2>2. nodes[g] = n => g = f
    BY <1>0, <1>f DEF Kinds
  <2> QED BY <2>1, <2>2
<1>12. Waiting \ {n} \subseteq Nodes /\ Piped \subseteq Nodes
       /\ Taken \cup {n} \subseteq Nodes /\ {n} \subseteq Nodes
  BY <1>0 DEF Waiting, Piped, Taken
<1>13. \A m \in {n} : /\ cb'[m] = IF node'[m].op = "gone" THEN 1 ELSE 0
                      /\ node'[m].op \in Operations <=> node'[m].fd # NULL
  BY <1>1, <1>2, <1>6 DEF Operations
<1>14. \A i, j \in DOMAIN pipe' : pipe'[i] = pipe'[j] /\ pipe'[i] # NULL => i = j
  BY DEF Kinds
<1>15. \A m \in Nodes \ {n} : node'[m] = node[m] /\ cb'[m] = cb[m]
  BY <1>1
<1> QED BY ONLY TableTypes, Kinds, <1>5, <1>7, <1>8, <1>9, <1>10, <1>11, <1>12, <1>13,
                <1>14, <1>15, MovedBy

\* A node that expired goes to the callback.
LEMMA DeliverMoves ==
    ASSUME TableTypes, Kinds, NEW n \in Taken, nodes' = nodes, pipe' = pipe,
           node' = [node EXCEPT ![n] = NoNode("gone")],
           cb' = [cb EXCEPT ![n] = @ + 1]
    PROVE  Moved(Waiting, Piped, Taken \ {n}, {n})
<1>0. n \in Nodes /\ n \notin Waiting /\ n \notin Piped /\ cb[n] = 0
  <2>1. n \in Nodes
    BY DEF Taken
  <2> QED BY <2>1, Apart
<1>1. NoNode("gone") \in NodeSet /\ NoNode("gone").fd = NULL
      /\ NoNode("gone").op = "gone" /\ ~NoNode("gone").removed
      /\ "gone" \notin Operations
  BY DEF NoNode, NodeSet, Operations
<1>2. node'[n] = NoNode("gone") /\ \A m \in Nodes \ {n} : node'[m] = node[m]
  BY <1>0 DEF TableTypes
<1>3. TableTypes'
  BY <1>0, <1>1 DEF TableTypes
<1>4. \A m \in Nodes : m \in Waiting <=> Watched(m)'
  BY <1>0, <1>1, <1>2 DEF Watched, Waiting
<1>5. \A m \in Nodes : m \in Piped <=> m \in Piped'
  BY DEF Piped
<1>6. \A m \in Nodes : m \in Piped <=> node'[m].op \in Operations /\ node'[m].removed
  BY <1>0, <1>1, <1>2 DEF Kinds
<1>7. \A m \in Nodes : m \in Taken \ {n} <=> node'[m].op \notin {"none", "gone"}
                          /\ m \notin Waiting /\ m \notin Piped
  <2>1. \A m \in Nodes : m \in Taken <=> node[m].op \notin {"none", "gone"}
                          /\ m \notin Waiting /\ m \notin Piped
    BY DEF Taken, Waiting
  <2> QED BY <1>1, <1>2, <2>1
<1>8. \A g \in Fds : nodes'[g] # NULL => nodes'[g] = nodes[g] /\ nodes'[g] \notin {n}
  <2> SUFFICES ASSUME NEW g \in Fds, nodes[g] # NULL PROVE nodes[g] # n
    OBVIOUS
  <2>1. nodes[g] \in Nodes /\ node[nodes[g]].fd = g /\ g # NULL
    BY CellFacts DEF TableTypes, Kinds
  <2>2. nodes[g] \in Waiting
    BY <2>1 DEF Waiting, Watched
  <2> QED BY <1>0, <2>2
<1>9. Waiting \subseteq Nodes /\ Piped \subseteq Nodes /\ Taken \ {n} \subseteq Nodes
      /\ {n} \subseteq Nodes
  BY <1>0 DEF Waiting, Piped, Taken
<1>10. \A m \in {n} : /\ cb'[m] = IF node'[m].op = "gone" THEN 1 ELSE 0
                      /\ node'[m].op \in Operations <=> node'[m].fd # NULL
  <2>1. cb'[n] = 1
    BY <1>0 DEF TableTypes
  <2> QED BY <1>1, <1>2, <2>1
<1>11. \A i, j \in DOMAIN pipe' : pipe'[i] = pipe'[j] /\ pipe'[i] # NULL => i = j
  BY DEF Kinds
<1>12. \A m \in Nodes \ {n} : node'[m] = node[m] /\ cb'[m] = cb[m]
  BY <1>0, <1>2 DEF TableTypes
<1> QED BY ONLY TableTypes, Kinds, <1>3, <1>4, <1>5, <1>6, <1>7, <1>8, <1>9, <1>10,
                <1>11, <1>12, MovedBy

-----------------------------------------------------------------------------
(* The calls of other threads *)

\* What Commit(x, S) leaves behind.
Committed(x, W) ==
    /\ index' \in IndexSet /\ index'.touched = {} /\ Held(index', W)
    /\ index'.heap = x.heap /\ index'.in_rbtree = x.in_rbtree
    /\ index'.dropped = x.dropped /\ index'.broken = x.broken
    /\ bad' \in BOOLEAN

\* A step that leaves the index x behind.
LEMMA Commits ==
    ASSUME bad \in BOOLEAN, NEW x \in IndexSet, NEW W, Held(x, W), NEW S,
           Commit(x, S)
    PROVE  Committed(x, W)
<1>1. index' = [x EXCEPT !.touched = {}] /\ bad' \in BOOLEAN
  BY DEF Commit
<1>2. /\ index' \in IndexSet /\ index'.touched = {} /\ SameTree(x, index')
      /\ index'.heap = x.heap /\ index'.timeout = x.timeout
      /\ index'.listed = x.listed /\ index'.dropped = x.dropped
      /\ index'.broken = x.broken
  BY ONLY <1>1, x \in IndexSet DEF IndexSet, SameTree
<1>3. Held(index', W)
  BY ONLY <1>2, Held(x, W) DEF Held, TreeHolds, SameTree
<1> QED BY ONLY <1>1, <1>2, <1>3 DEF Committed, SameTree

\* A step keeps the invariant, and the list of expired nodes.
KeepsTaken ==
    /\ Taken' = Taken /\ index'.dropped = index.dropped
    /\ ~index'.broken => \A m \in Taken : index'.heap.next[m] = index.heap.next[m]
Kept == PollerInv' /\ KeepsTaken

\* Nobody holds the mutex, and the program is not undefined.
Free == pc \notin {"expire_tree", "undefined"} /\ ~index.broken

\* The parts of the invariant that the steps need.
LEMMA InvFacts ==
    ASSUME PollerInv
    PROVE  /\ TableTypes /\ ThreadTypes /\ Kinds /\ Held(index, Waiting)
           /\ index \in IndexSet /\ index.touched = {} /\ bad \in BOOLEAN
           /\ epoll = nodes /\ now \in Nat \ {0} /\ Fresh /\ ThreadOK /\ StackOK
           /\ index.dropped \subseteq Taken
           /\ Waiting \subseteq Nodes /\ Piped \subseteq Nodes /\ Taken \subseteq Nodes
BY DEF PollerInv, PollerTypes, ThreadTypes, Waiting, Piped, Taken

\* A node whose fields stay can give events as before.
LEMMA EventStays ==
    ASSUME NEW waiting, NEW piped, NEW N, Moved(waiting, piped, Taken, N),
           (Waiting \cup Piped) \ N \subseteq waiting \cup piped,
           NEW m \in Nodes \ N, Event(m)
    PROVE  Event(m)'
<1>1. node'[m] = node[m] /\ Waiting' = waiting /\ Piped' = piped
  BY DEF Moved
<1> QED BY ONLY <1>1, Event(m), m \in Nodes \ N,
                (Waiting \cup Piped) \ N \subseteq waiting \cup piped DEF Event

\* A call keeps the invariant when it moves nodes that were in the table, or
\* were not used before, and updates the index to fit.
LEMMA IndexKeeps ==
    ASSUME PollerInv, Free, UNCHANGED <<stopped, thread, stopping, env>>,
           NEW waiting, NEW piped, NEW N, Moved(waiting, piped, Taken, N),
           N \subseteq Waiting \cup Unused, \A m \in N : node'[m].op # "none",
           epoll' = nodes', NEW y \in IndexSet, Held(y, waiting), NEW S, Commit(y, S),
           y.in_rbtree \subseteq index.in_rbtree \cup N, Keeps(index, y, N),
           (Waiting \cup Piped) \ N \subseteq waiting \cup piped,
           ~stopped => \A m \in N : Event(m) => Event(m)'
    PROVE  Kept
<1>0. /\ TableTypes /\ ThreadTypes /\ Kinds /\ bad \in BOOLEAN /\ Fresh /\ ThreadOK
      /\ StackOK /\ Held(index, Waiting) /\ Waiting \subseteq Nodes
      /\ Piped \subseteq Nodes /\ Taken \subseteq Nodes
  BY InvFacts
<1>1. Unused \subseteq Nodes /\ \A m \in Unused : node[m].op = "none"
  BY DEF Unused
<1>2. Committed(y, waiting)
  BY ONLY <1>0, y \in IndexSet, Held(y, waiting), Commit(y, S), Commits
<1>3. /\ TableTypes' /\ Kinds' /\ Waiting' = waiting /\ Piped' = piped /\ Taken' = Taken
      /\ \A m \in Nodes \ N : node'[m] = node[m]
  BY DEF Moved
<1>4. /\ pc' = pc /\ batch' = batch /\ cur' = cur /\ stopped' = stopped
      /\ stopping' = stopping
  BY DEF thread
<1>5. PollerTypes'
  <2>1. ThreadTypes'
    BY <1>0 DEF ThreadTypes, thread, env
  <2> QED BY <1>2, <1>3, <2>1 DEF PollerTypes, Committed
<1>6. Held(index, Waiting)'
  BY <1>2, <1>3 DEF Committed
<1>7. Fresh'
  <2>1. index'.in_rbtree \subseteq index.in_rbtree \cup N
    BY <1>2 DEF Committed
  <2> QED BY <1>0, <1>3, <2>1 DEF Fresh
<1>8. ThreadOK'
  <2>1. ~stopped => \A m \in Nodes : Event(m) => Event(m)'
    <3> SUFFICES ASSUME ~stopped, NEW m \in Nodes, Event(m) PROVE Event(m)'
      OBVIOUS
    <3>1. CASE m \in Nodes \ N
      BY ONLY <3>1, Event(m), Moved(waiting, piped, Taken, N), EventStays,
              (Waiting \cup Piped) \ N \subseteq waiting \cup piped
    <3>2. CASE m \in N
      BY ONLY <3>2, Event(m), ~stopped, ~stopped => \A q \in N : Event(q) => Event(q)'
    <3> QED BY <3>1, <3>2
  <2>2. pc # "undefined"
    BY DEF Free
  <2>3. batch \subseteq Nodes /\ (Event(cur) => cur \in Nodes)
    BY <1>0 DEF ThreadTypes, Event
  <2>4. batch # {} \/ pc \in {"handle", "remove", "remove_lock"} => ~stopped
    BY <1>0, <2>2 DEF ThreadOK, ThreadTypes
  <2>5. \A m \in batch' : Event(m)'
    BY ONLY <1>0, <1>4, <2>1, <2>2, <2>3, <2>4 DEF ThreadOK
  <2>c. PICK c : c = cur
    OBVIOUS
  <2>6. pc \in {"handle", "remove", "remove_lock"} => Event(c)'
    BY ONLY <1>0, <2>1, <2>3, <2>4, <2>c DEF ThreadOK
  <2>7. pc \in {"handle", "remove", "remove_lock"} => Event(cur)'
    BY ONLY <1>4, <2>6, <2>c DEF Event
  <2> QED BY ONLY <1>0, <1>4, <2>2, <2>5, <2>7 DEF ThreadOK
<1>9. KeepsTaken
  <2>1. index'.dropped = index.dropped
    BY <1>2 DEF Committed, Keeps
  <2>2. ASSUME ~index'.broken, NEW m \in Taken
        PROVE  index'.heap.next[m] = index.heap.next[m]
    <3>1. m \notin Waiting /\ m \in Nodes /\ node[m].op # "none"
      BY ONLY <1>0, m \in Taken, Apart
    <3>2. m \in Cells \ (index.listed \cup N \cup {TIMEO, NOTIMEO})
      BY <1>0, <1>1, <3>1, CellFacts DEF Held
    <3>3. index'.heap = y.heap /\ ~y.broken
      BY <1>2, <2>2 DEF Committed
    <3> QED BY ONLY <3>2, <3>3, Keeps(index, y, N) DEF Keeps, SameCells
  <2> QED BY <1>3, <2>1, <2>2 DEF KeepsTaken
<1>10. StackOK'
  <2> SUFFICES ASSUME ~index'.broken, pc = "deliver" PROVE Chain(cur)'
    BY <1>4 DEF StackOK, Free
  <2>1. Chain(cur)
    BY <1>0 DEF StackOK, Free
  <2>2. Expiring' = Expiring /\ Expiring \subseteq Taken
    BY <1>9 DEF KeepsTaken, Expiring
  <2>3. \A m \in Taken : index'.heap.next[m] = index.heap.next[m]
    BY <1>9 DEF KeepsTaken
  <2> QED BY ONLY <1>4, <2>1, <2>2, <2>3 DEF Chain
<1>11. PollerInv'
  <2>1. (index.dropped \subseteq Taken)'
    BY <1>9, InvFacts DEF KeepsTaken
  <2> QED BY ONLY <1>3, <1>5, <1>6, <1>7, <1>8, <1>10, <2>1 DEF PollerInv
<1> QED BY <1>9, <1>11 DEF Kept

\* A node that was not used before is entered.
LEMMA EnterKeeps ==
    ASSUME PollerInv, Free, UNCHANGED <<stopped, thread, stopping, env>>,
           NEW n \in Unused, Moved(Waiting \cup {n}, Piped, Taken, {n}),
           n \notin Waiting, node'[n].op # "none", epoll' = nodes',
           NEW t \in Int, Commit(Link(index, n, t), {})
    PROVE  Kept
<1>0. /\ Held(index, Waiting) /\ index \in IndexSet /\ now \in Nat \ {0} /\ Fresh
  BY InvFacts
<1>1. /\ n \in Nodes \ Waiting /\ n \notin index.in_rbtree /\ node[n].op = "none"
  BY <1>0 DEF Unused, Fresh
<1>y. PICK y : y = Link(index, n, t)
  OBVIOUS
<1>w. PICK W : W = Waiting \cup {n}
  OBVIOUS
<1>N. PICK N : N = {n}
  OBVIOUS
<1>s. PICK S : S = {}
  OBVIOUS
<1>2. Linked(index, y, n, Waiting)
  BY ONLY <1>0, <1>1, <1>y, t \in Int, LinkHeld
<1>3. /\ y \in IndexSet /\ Held(y, W) /\ Keeps(index, y, N)
      /\ y.in_rbtree \subseteq index.in_rbtree \cup N
  BY <1>2, <1>w, <1>N DEF Linked
<1>4. /\ Moved(W, Piped, Taken, N) /\ Commit(y, S)
      /\ N \subseteq Waiting \cup Unused /\ \A m \in N : node'[m].op # "none"
      /\ (Waiting \cup Piped) \ N \subseteq W \cup Piped
  BY <1>y, <1>w, <1>N, <1>s
<1>5. \A m \in N : Event(m) => Event(m)'
  BY <1>1, <1>N DEF Event, Operations
<1> QED BY ONLY PollerInv, Free, UNCHANGED <<stopped, thread, stopping, env>>,
                epoll' = nodes', <1>3, <1>4, <1>5, IndexKeeps

\* poller_add: a new node is entered in the table and waits.
LEMMA AddKeeps ==
    ASSUME PollerInv, Defined, NEW f \in Fds, NEW o \in Ops[f],
           NEW message \in BOOLEAN, NEW t \in Timeouts[f], poller_add(f, o, message, t)
    PROVE  Kept
<1>0. TableTypes /\ Kinds /\ epoll = nodes
  BY InvFacts
<1>n. PICK n : n = CHOOSE u \in Unused : TRUE
  OBVIOUS
<1>1. /\ n \in Unused /\ Commit(Link(index, n, t), {})
      /\ node' = [node EXCEPT ![n] = NewNode(f, o, message)]
      /\ nodes' = [nodes EXCEPT ![f] = n] /\ epoll' = [epoll EXCEPT ![f] = n]
      /\ nodes[f] = NULL /\ Free
      /\ pipe' = pipe /\ cb' = cb /\ UNCHANGED <<stopped, thread, stopping, env>>
  BY <1>n DEF poller_add, Watch, Unlocked, Free, Defined
<1>2. o \in Operations /\ t \in Int
  BY PollerAssumption
<1>3. Moved(Waiting \cup {n}, Piped, Taken, {n}) /\ n \notin Waiting
  BY ONLY <1>0, <1>1, <1>2, f \in Fds, message \in BOOLEAN, AddMoves
<1>4. node'[n].op # "none"
  <2>1. n \in Nodes /\ NewNode(f, o, message).op = o /\ o # "none"
    BY <1>1, <1>2 DEF Unused, NewNode, Operations
  <2> QED BY <1>0, <1>1, <2>1 DEF TableTypes
<1>5. epoll' = nodes'
  BY <1>0, <1>1
<1> QED BY ONLY PollerInv, <1>1, <1>2, <1>3, <1>4, <1>5, EnterKeeps

\* poller_add_timer: a new node waits.
LEMMA AddTimerKeeps ==
    ASSUME PollerInv, Defined, NEW t \in Timeouts[NULL], poller_add_timer(t)
    PROVE  Kept
<1>0. TableTypes /\ Kinds /\ epoll = nodes
  BY InvFacts
<1>n. PICK n : n = CHOOSE u \in Unused : TRUE
  OBVIOUS
<1>1. /\ n \in Unused /\ Commit(Link(index, n, t), {})
      /\ node' = [node EXCEPT ![n] = NewNode(NULL, "timer", FALSE)]
      /\ nodes' = nodes /\ epoll' = epoll /\ Free
      /\ pipe' = pipe /\ cb' = cb /\ UNCHANGED <<stopped, thread, stopping, env>>
  BY <1>n DEF poller_add_timer, table, Unlocked, Free, Defined
<1>2. t \in Int
  BY PollerAssumption
<1>3. Moved(Waiting \cup {n}, Piped, Taken, {n}) /\ n \notin Waiting
  BY ONLY <1>0, <1>1, AddTimerMoves
<1>4. node'[n].op # "none"
  <2>1. n \in Nodes /\ NewNode(NULL, "timer", FALSE).op = "timer"
    BY <1>1 DEF Unused, NewNode
  <2> QED BY <1>0, <1>1, <2>1 DEF TableTypes
<1>5. epoll' = nodes'
  BY <1>0, <1>1
<1> QED BY ONLY PollerInv, <1>1, <1>2, <1>3, <1>4, <1>5, EnterKeeps

\* A node that is waited for leaves the index.
LEMMA UnlinkFacts ==
    ASSUME PollerInv, NEW n \in Waiting, NEW x, x = Unlink(index, n)
    PROVE  /\ n \in Nodes /\ x \in IndexSet /\ Held(x, Waiting \ {n})
           /\ n \notin x.in_rbtree /\ x.in_rbtree \subseteq index.in_rbtree
           /\ Keeps(index, x, {n})
<1>0. Held(index, Waiting) /\ index \in IndexSet /\ Waiting \subseteq Nodes
  BY InvFacts
<1>1. Unlinked(index, x, n, Waiting)
  BY ONLY <1>0, n \in Waiting, x = Unlink(index, n), UnlinkHeld
<1> QED BY <1>0, <1>1 DEF Unlinked

\* What a node of the table, or a timer, is.
LEMMA OfTable ==
    ASSUME PollerInv, NEW f \in Fds, nodes[f] # NULL, NEW n, n = nodes[f]
    PROVE  /\ n \in Nodes /\ n \in Waiting /\ node[n].fd = f
           /\ node[n].op \in Operations /\ node[n].op # "none"
<1>0. TableTypes /\ Kinds
  BY InvFacts
<1>1. n \in Nodes /\ node[n].fd = f /\ f # NULL
  BY <1>0, CellFacts DEF TableTypes, Kinds
<1>2. n \in Waiting /\ node[n].op \in Operations
  BY <1>0, <1>1 DEF Waiting, Watched, Kinds
<1> QED BY <1>1, <1>2 DEF Operations

\* poller_set_timeout: the node leaves its place and enters another.
LEMMA SetTimeoutKeeps ==
    ASSUME PollerInv, Defined, NEW f \in Fds, NEW t \in Timeouts[f],
           poller_set_timeout(f, t)
    PROVE  Kept
<1>0. /\ TableTypes /\ Kinds /\ epoll = nodes /\ Waiting \subseteq Nodes
      /\ now \in Nat \ {0}
  BY InvFacts
<1>n. PICK n : n = nodes[f]
  OBVIOUS
<1>x. PICK x : x = Unlink(index, n)
  OBVIOUS
<1>y. PICK y : y = Link(x, n, t)
  OBVIOUS
<1>N. PICK N : N = {n}
  OBVIOUS
<1>s. PICK S : S = {}
  OBVIOUS
<1>1. /\ n # NULL /\ Commit(y, S) /\ Free
      /\ nodes' = nodes /\ epoll' = epoll /\ node' = node
      /\ pipe' = pipe /\ cb' = cb /\ UNCHANGED <<stopped, thread, stopping, env>>
  BY <1>n, <1>x, <1>y, <1>s DEF poller_set_timeout, table, Unlocked, Free, Defined
<1>2. t \in Int
  BY PollerAssumption
<1>3. n \in Waiting /\ node[n].op # "none" /\ n \in Nodes
  BY ONLY PollerInv, <1>1, <1>n, f \in Fds, OfTable
<1>4. /\ x \in IndexSet /\ Held(x, Waiting \ {n})
      /\ n \notin x.in_rbtree /\ x.in_rbtree \subseteq index.in_rbtree
      /\ Keeps(index, x, {n})
  BY ONLY PollerInv, <1>3, <1>x, UnlinkFacts
<1>5. Linked(x, y, n, Waiting \ {n})
  <2>1. n \in Nodes \ (Waiting \ {n}) /\ now \in Nat \ {0}
    BY <1>3, <1>0
  <2> QED BY ONLY <2>1, <1>2, <1>4, <1>y, LinkHeld
<1>6. (Waiting \ {n}) \cup {n} = Waiting /\ {n} \cup {n} = {n}
  BY <1>3
<1>7. /\ y \in IndexSet /\ Held(y, Waiting)
      /\ y.in_rbtree \subseteq index.in_rbtree \cup N
  BY ONLY <1>4, <1>5, <1>6, <1>N DEF Linked
<1>8. Keeps(index, y, N)
  <2>1. Keeps(index, y, {n} \cup {n})
    BY ONLY <1>4, <1>5, KeepsThen DEF Linked
  <2> QED BY ONLY <2>1, <1>6, <1>N
<1>9. Moved(Waiting, Piped, Taken, N)
  <2>1. \A m \in Nodes : node'[m] = node[m]
    BY <1>1
  <2>2. node' \in [Nodes -> NodeSet] /\ N \subseteq Nodes
    BY <1>0, <1>1, <1>3, <1>N DEF TableTypes
  <2> QED BY ONLY <1>0, <1>1, <2>1, <2>2, SameMoves
<1>10. /\ N \subseteq Waiting \cup Unused /\ \A m \in N : node'[m].op # "none"
       /\ epoll' = nodes' /\ (Waiting \cup Piped) \ N \subseteq Waiting \cup Piped
  BY <1>0, <1>1, <1>3, <1>N
<1>11. \A m \in N : Event(m) => Event(m)'
  <2>1. Waiting' = Waiting /\ Piped' = Piped
    BY <1>9 DEF Moved
  <2> QED BY ONLY <1>1, <2>1 DEF Event
<1> QED BY ONLY PollerInv, <1>1, <1>7, <1>8, <1>9, <1>10, <1>11, IndexKeeps

\* The caller gives a node that was waited for to the callback itself.
LEMMA GoneKeeps ==
    ASSUME PollerInv, Free, UNCHANGED <<stopped, thread, stopping, env>>,
           NEW n \in Waiting, Moved(Waiting \ {n}, Piped, Taken, {n}),
           node'[n].op # "none", epoll' = nodes',
           Commit(Forget(Unlink(index, n), {n}), {n}),
           stopped \/ node[n].op \notin Operations
    PROVE  Kept
<1>x. PICK x : x = Unlink(index, n)
  OBVIOUS
<1>N. PICK N : N = {n}
  OBVIOUS
<1>w. PICK W : W = Waiting \ {n}
  OBVIOUS
<1>y. PICK y : y = Forget(x, N)
  OBVIOUS
<1>1. /\ n \in Nodes /\ x \in IndexSet /\ Held(x, W)
      /\ x.in_rbtree \subseteq index.in_rbtree /\ Keeps(index, x, N)
  BY ONLY PollerInv, n \in Waiting, <1>x, <1>N, <1>w, UnlinkFacts
<1>2. Forgotten(x, y, N, W)
  <2>1. N \subseteq Nodes \ W
    BY <1>1, <1>N, <1>w
  <2> QED BY ONLY <1>1, <1>y, <2>1, ForgetHeld
<1>3. /\ y \in IndexSet /\ Held(y, W)
      /\ y.in_rbtree \subseteq index.in_rbtree \cup N
  BY ONLY <1>1, <1>2 DEF Forgotten
<1>4. Keeps(index, y, N)
  BY ONLY <1>1, <1>2 DEF Forgotten, Keeps, SameCells
<1>5. Commit(y, N)
  BY <1>x, <1>y, <1>N
<1>6. /\ N \subseteq Waiting \cup Unused /\ \A m \in N : node'[m].op # "none"
      /\ (Waiting \cup Piped) \ N \subseteq W \cup Piped
      /\ Moved(W, Piped, Taken, N)
  BY <1>N, <1>w
<1>7. ~stopped => \A m \in N : Event(m) => Event(m)'
  BY <1>N DEF Event
<1> QED BY ONLY PollerInv, Free, UNCHANGED <<stopped, thread, stopping, env>>,
           epoll' = nodes', <1>3, <1>4, <1>5, <1>6, <1>7, IndexKeeps

\* poller_del_timer: the caller gives the node to the callback.
LEMMA DelTimerKeeps ==
    ASSUME PollerInv, Defined, NEW n \in Nodes, poller_del_timer(n)
    PROVE  Kept
<1>0. TableTypes /\ Kinds /\ epoll = nodes
  BY InvFacts
<1>1. /\ node[n].op = "timer" /\ ~node[n].removed
      /\ node' = [node EXCEPT ![n] = NoNode("gone")]
      /\ cb' = [cb EXCEPT ![n] = @ + 1]
      /\ Commit(Forget(Unlink(index, n), {n}), {n})
      /\ nodes' = nodes /\ epoll' = epoll /\ Free
      /\ pipe' = pipe /\ UNCHANGED <<stopped, thread, stopping, env>>
  BY DEF poller_del_timer, table, Unlocked, Free, Defined
<1>2. n \in Waiting /\ node[n].op \notin Operations
  BY <1>1 DEF Waiting, Watched, Operations
<1>3. node[n].fd = NULL
  BY <1>0, <1>2 DEF Kinds
<1>4. Moved(Waiting \ {n}, Piped, Taken, {n})
  <2>1. nodes' = IF node[n].fd = NULL THEN nodes
                 ELSE [nodes EXCEPT ![node[n].fd] = NULL]
    BY <1>1, <1>3
  <2> QED BY ONLY <1>0, <1>1, <1>2, <2>1, GoneMoves
<1>5. node'[n].op # "none" /\ epoll' = nodes'
  BY <1>0, <1>1 DEF TableTypes, NoNode
<1> QED BY ONLY PollerInv, <1>1, <1>2, <1>4, <1>5, GoneKeeps

\* poller_del: the node leaves the table and epoll, and goes to the pipe.
LEMMA DelKeeps ==
    ASSUME PollerInv, Defined, NEW f \in Fds, poller_del(f)
    PROVE  Kept
<1>0. TableTypes /\ Kinds /\ epoll = nodes
  BY InvFacts
<1>n. PICK n : n = nodes[f]
  OBVIOUS
<1>1. /\ nodes[f] # NULL /\ nodes' = [nodes EXCEPT ![f] = NULL]
      /\ epoll' = [epoll EXCEPT ![f] = NULL]
      /\ HandOver(n, Unlink(index, n), node)
      /\ UNCHANGED <<stopped, thread, stopping, env>> /\ Free
  BY <1>n DEF poller_del, Watch, Unlocked, Free, Defined
<1>2. /\ n \in Nodes /\ n \in Waiting /\ node[n].fd = f /\ f # NULL
      /\ node[n].op \in Operations /\ node[n].op # "none" /\ epoll' = nodes'
  BY <1>0, <1>1, <1>n, OfTable, CellFacts
<1>3. CASE /\ stopped /\ cb' = [cb EXCEPT ![n] = @ + 1]
           /\ node' = [node EXCEPT ![n] = NoNode("gone")]
           /\ Commit(Forget(Unlink(index, n), {n}), {n}) /\ pipe' = pipe
  <2>1. nodes' = IF node[n].fd = NULL THEN nodes
                 ELSE [nodes EXCEPT ![node[n].fd] = NULL]
    BY <1>1, <1>2
  <2>2. Moved(Waiting \ {n}, Piped, Taken, {n})
    BY ONLY <1>0, <1>2, <1>3, <2>1, GoneMoves
  <2>3. node'[n].op # "none"
    BY <1>0, <1>2, <1>3 DEF TableTypes, NoNode
  <2> QED BY ONLY PollerInv, <1>1, <1>2, <1>3, <2>2, <2>3, GoneKeeps
<1>4. CASE /\ ~stopped /\ pipe' = Append(pipe, n)
           /\ node' = [node EXCEPT ![n].removed = TRUE]
           /\ Commit(Unlink(index, n), {n}) /\ cb' = cb
  <2>1. Moved(Waiting \ {n}, Piped \cup {n}, Taken, {n})
    BY ONLY <1>0, <1>1, <1>n, <1>4, f \in Fds, PipeMoves
  <2>x. PICK x : x = Unlink(index, n)
    OBVIOUS
  <2>N. PICK N : N = {n}
    OBVIOUS
  <2>p. PICK piped : piped = Piped \cup {n}
    OBVIOUS
  <2>w. PICK waiting : waiting = Waiting \ {n}
    OBVIOUS
  <2>2. /\ x \in IndexSet /\ Held(x, waiting)
        /\ x.in_rbtree \subseteq index.in_rbtree /\ Keeps(index, x, N)
    BY ONLY PollerInv, <1>2, <2>x, <2>N, <2>w, UnlinkFacts
  <2>3. x.in_rbtree \subseteq index.in_rbtree \cup N
    BY ONLY <2>2
  <2>4. Commit(x, N)
    BY <1>4, <2>x, <2>N
  <2>5. node'[n].op = node[n].op
    BY <1>0, <1>2, <1>4 DEF TableTypes, NodeSet
  <2>6. /\ N \subseteq Waiting \cup Unused /\ \A m \in N : node'[m].op # "none"
        /\ (Waiting \cup Piped) \ N \subseteq waiting \cup piped
        /\ Moved(waiting, piped, Taken, N)
    BY ONLY <1>2, <2>1, <2>5, <2>N, <2>p, <2>w
  <2>7. \A m \in N : Event(m) => Event(m)'
    <3>1. Piped' = Piped \cup {n}
      BY ONLY <2>1 DEF Moved
    <3> QED BY ONLY <1>2, <2>5, <2>N, <3>1 DEF Event
  <2> QED BY ONLY PollerInv, <1>1, <1>2, <2>2, <2>3, <2>4, <2>6, <2>7, IndexKeeps
<1> QED BY ONLY <1>1, <1>3, <1>4 DEF HandOver

\* poller_mod: the old node goes to the pipe and the new one takes its entry.
LEMMA ModKeeps ==
    ASSUME PollerInv, Defined, NEW f \in Fds, NEW o \in Ops[f],
           NEW message \in BOOLEAN, NEW t \in Timeouts[f], poller_mod(f, o, message, t)
    PROVE  Kept
<1>0. /\ TableTypes /\ Kinds /\ epoll = nodes /\ Fresh /\ now \in Nat \ {0}
      /\ Waiting \subseteq Nodes
  BY InvFacts
<1>n. PICK n : n = CHOOSE u \in Unused : TRUE
  OBVIOUS
<1>d. PICK old : old = nodes[f]
  OBVIOUS
<1>x. PICK x : x = Unlink(index, old)
  OBVIOUS
<1>y. PICK y : y = Link(x, n, t)
  OBVIOUS
<1>b. PICK base : base = [node EXCEPT ![n] = NewNode(f, o, message)]
  OBVIOUS
<1>1. /\ n \in Unused /\ nodes[f] # NULL /\ nodes' = [nodes EXCEPT ![f] = n]
      /\ epoll' = [epoll EXCEPT ![f] = n]
      /\ HandOver(old, y, base)
      /\ UNCHANGED <<stopped, thread, stopping, env>> /\ Free
  BY <1>n, <1>d, <1>x, <1>y, <1>b DEF poller_mod, Watch, Unlocked, Free, Defined
<1>2. /\ old \in Nodes /\ old \in Waiting
      /\ node[old].op \in Operations /\ node[old].op # "none"
  BY ONLY PollerInv, <1>1, <1>d, f \in Fds, OfTable
<1>3. o \in Operations /\ o # "none" /\ t \in Int
  BY PollerAssumption DEF Operations
<1>4. /\ n \in Nodes /\ node[n].op = "none" /\ n # old /\ n \notin Waiting
      /\ n \notin index.in_rbtree
  <2>1. n \in Nodes /\ node[n].op = "none" /\ n # old /\ n \notin index.in_rbtree
    BY <1>0, <1>1, <1>2 DEF Unused, Fresh
  <2> QED BY ONLY <1>0, <2>1, Apart
<1>5. /\ x \in IndexSet /\ Held(x, Waiting \ {old})
      /\ x.in_rbtree \subseteq index.in_rbtree /\ Keeps(index, x, {old})
  BY ONLY PollerInv, <1>2, <1>x, UnlinkFacts
<1>w. PICK waiting : waiting = (Waiting \ {old}) \cup {n}
  OBVIOUS
<1>6. Linked(x, y, n, Waiting \ {old})
  <2>1. n \in Nodes \ (Waiting \ {old}) /\ now \in Nat \ {0} /\ n \notin x.in_rbtree
    BY <1>4, <1>0, <1>5
  <2> QED BY ONLY <2>1, <1>3, <1>5, <1>y, LinkHeld
<1>7. /\ stopped => /\ node' = [base EXCEPT ![old] = NoNode("gone")]
                    /\ cb' = [cb EXCEPT ![old] = @ + 1] /\ pipe' = pipe
                    /\ Commit(Forget(y, {old}), {old})
      /\ ~stopped => /\ node' = [base EXCEPT ![old].removed = TRUE]
                     /\ cb' = cb /\ pipe' = Append(pipe, old)
                     /\ Commit(y, {old})
  BY <1>1 DEF HandOver
<1>p. PICK piped : piped = IF stopped THEN Piped ELSE Piped \cup {old}
  OBVIOUS
<1>N. PICK N : N = {old, n}
  OBVIOUS
<1>s. PICK S : S = {old}
  OBVIOUS
<1>8. Moved(waiting, piped, Taken, N)
  <2>1. HandedOver(old, base)
    BY ONLY <1>7 DEF HandedOver
  <2>2. nodes[f] # NULL /\ n \in Unused /\ nodes' = [nodes EXCEPT ![f] = n]
        /\ TableTypes /\ Kinds /\ o \in Operations
    BY ONLY <1>0, <1>1, <1>3
  <2> QED BY ONLY <2>1, <2>2, <1>b, <1>d, <1>w, <1>p, <1>N,
                  f \in Fds, message \in BOOLEAN, ModMoves
<1>z. PICK z : z = IF stopped THEN Forget(y, {old}) ELSE y
  OBVIOUS
<1>9. y \in IndexSet /\ Held(y, waiting)
  BY ONLY <1>6, <1>w DEF Linked
<1>10. stopped => Forgotten(y, z, {old}, waiting)
  <2>1. {old} \subseteq Nodes \ waiting
    BY <1>2, <1>4, <1>w
  <2>2. stopped => z = Forget(y, {old})
    BY <1>z
  <2> QED BY ONLY <1>9, <2>1, <2>2, ForgetHeld
<1>11. ~stopped => z = y
  BY <1>z
<1>12. /\ z \in IndexSet /\ Held(z, waiting) /\ z.in_rbtree \subseteq y.in_rbtree
       /\ Keeps(y, z, {old})
  BY ONLY <1>9, <1>10, <1>11 DEF Forgotten, SameCells, Keeps
<1>13. z.in_rbtree \subseteq index.in_rbtree \cup N /\ Keeps(index, z, N)
  <2>1. z.in_rbtree \subseteq index.in_rbtree \cup N
    BY ONLY <1>5, <1>6, <1>12, <1>N DEF Linked
  <2>2. Keeps(x, y, {n})
    BY <1>6 DEF Linked
  <2>3. Keeps(index, y, {old} \cup {n})
    BY ONLY <1>5, <2>2, KeepsThen
  <2>4. Keeps(index, z, ({old} \cup {n}) \cup {old})
    BY ONLY <1>12, <2>3, KeepsThen
  <2>5. ({old} \cup {n}) \cup {old} = N
    BY ONLY <1>N
  <2> QED BY ONLY <2>1, <2>4, <2>5
<1>14. Commit(z, S)
  BY <1>7, <1>z, <1>s
<1>15. node'[n].op = o /\ node'[old].op # "none" /\ (~stopped => node'[old].op = node[old].op)
  <2>1. /\ base \in [Nodes -> NodeSet] /\ base[n].op = o /\ base[old] = node[old]
        /\ base[old] \in NodeSet
    <3>1. NewNode(f, o, message) \in NodeSet /\ NewNode(f, o, message).op = o
      BY <1>3 DEF NewNode, NodeSet
    <3> QED BY <3>1, <1>b, <1>0, <1>2, <1>4 DEF TableTypes
  <2>2. CASE stopped
    BY <2>1, <2>2, <1>7, <1>4, <1>2 DEF NoNode
  <2>3. CASE ~stopped
    BY <2>1, <2>3, <1>7, <1>4, <1>2 DEF NodeSet
  <2> QED BY <2>2, <2>3
<1>16. /\ UNCHANGED <<stopped, thread, stopping, env>> /\ epoll' = nodes'
       /\ N \subseteq Waiting \cup Unused /\ \A m \in N : node'[m].op # "none"
       /\ (Waiting \cup Piped) \ N \subseteq waiting \cup piped
  <2>1. \A m \in N : node'[m].op # "none"
    BY ONLY <1>N, <1>15, <1>3
  <2>2. epoll' = nodes'
    BY <1>0, <1>1
  <2>3. N \subseteq Waiting \cup Unused /\ (Waiting \cup Piped) \ N \subseteq waiting \cup piped
    BY ONLY <1>N, <1>1, <1>2, <1>w, <1>p
  <2> QED BY <1>1, <2>1, <2>2, <2>3
<1>17. ~stopped => \A m \in N : Event(m) => Event(m)'
  <2> SUFFICES ASSUME ~stopped, NEW m \in N, Event(m) PROVE Event(m)'
    OBVIOUS
  <2>1. m = old
    BY ONLY <1>N, <1>4, m \in N, Event(m) DEF Event, Operations
  <2>2. Piped' = Piped \cup {old} /\ ~stopped
    BY <1>8, <1>p DEF Moved
  <2> QED BY ONLY <2>1, <2>2, <1>15, <1>2 DEF Event
<1> QED BY ONLY PollerInv, <1>1, <1>8, <1>12, <1>13, <1>14, <1>16, <1>17, IndexKeeps

-----------------------------------------------------------------------------
(* Steps that move no node *)

\* The step leaves the nodes where they are, apart from the res of a node.
Quiet ==
    /\ nodes' = nodes /\ epoll' = epoll /\ pipe' = pipe /\ cb' = cb
    /\ index' = index /\ bad' \in BOOLEAN
    /\ node' \in [Nodes -> NodeSet]
    /\ \A m \in Nodes : /\ node'[m].fd = node[m].fd /\ node'[m].op = node[m].op
                        /\ node'[m].removed = node[m].removed

\* Such a step keeps what the invariant says of the nodes.
LEMMA QuietFacts ==
    ASSUME PollerInv, Quiet
    PROVE  /\ TableTypes' /\ Kinds' /\ Held(index', Waiting') /\ Fresh'
           /\ Waiting' = Waiting /\ Piped' = Piped /\ Taken' = Taken
           /\ \A m \in Nodes : Event(m)' <=> Event(m)
<1>0. TableTypes /\ Kinds /\ Fresh /\ Held(index, Waiting)
      /\ Waiting \subseteq Nodes /\ Piped \subseteq Nodes
  BY InvFacts
<1>n. PICK N : N = Nodes
  OBVIOUS
<1>1. Moved(Waiting, Piped, Taken, N)
  <2>1. /\ nodes' = nodes /\ pipe' = pipe /\ cb' = cb /\ N \subseteq Nodes
        /\ node' \in [Nodes -> NodeSet] /\ \A m \in Nodes \ N : node'[m] = node[m]
        /\ \A m \in N : node'[m].fd = node[m].fd /\ node'[m].op = node[m].op
                            /\ node'[m].removed = node[m].removed
    BY <1>n DEF Quiet
  <2> QED BY ONLY <1>0, <2>1, SameMoves
<1>2. /\ TableTypes' /\ Kinds'
      /\ Waiting' = Waiting /\ Piped' = Piped /\ Taken' = Taken
  BY <1>1 DEF Moved
<1>3. Held(index', Waiting') /\ Fresh'
  BY <1>0, <1>2 DEF Quiet, Fresh
<1>4. \A m \in Nodes : Event(m)' <=> Event(m)
  BY <1>0, <1>2 DEF Quiet, Event
<1> QED BY <1>2, <1>3, <1>4

\* It is enough to look at the poller thread.
LEMMA QuietKeeps ==
    ASSUME PollerInv, Quiet, ThreadTypes', ThreadOK', StackOK'
    PROVE  Kept
<1>1. /\ TableTypes' /\ Kinds' /\ Held(index', Waiting') /\ Fresh'
      /\ Waiting' = Waiting /\ Taken' = Taken
  BY ONLY PollerInv, Quiet, QuietFacts
<1>2. /\ epoll' = nodes' /\ index' \in IndexSet /\ index'.touched = {} /\ bad' \in BOOLEAN
  BY InvFacts DEF Quiet
<1>3. PollerTypes'
  BY <1>1, <1>2 DEF PollerTypes
<1>4. (index.dropped \subseteq Taken)'
  BY <1>1, InvFacts DEF Quiet
<1>5. PollerInv'
  BY <1>1, <1>3, <1>4 DEF PollerInv
<1> QED BY <1>1, <1>5 DEF Kept, KeepsTaken, Quiet

\* The thread has a node in hand that gives events.
LEMMA InHand ==
    ASSUME PollerInv, NEW n, Event(n), Touches({n})
    PROVE  n \in Nodes /\ index' = index /\ bad' \in BOOLEAN
<1>0. Waiting \subseteq Nodes /\ Piped \subseteq Nodes /\ bad \in BOOLEAN
  BY InvFacts
<1> QED BY <1>0 DEF Event, Touches

\* What the handlers do: one more result, or none, then on to the next event,
\* to the removal of the node, or again to the descriptor.
LEMMA HandlerKeeps ==
    ASSUME PollerInv, pc = "handle", NEW s \in {"events", "handle", "remove"}, Goto(s),
           \/ node' = node /\ input' = input
           \/ \E r \in BOOLEAN : Arrives(r)
    PROVE  Kept
<1>0. ThreadTypes /\ ThreadOK /\ StackOK /\ TableTypes /\ bad \in BOOLEAN
  BY InvFacts
<1>1. Event(cur) /\ cur \notin batch
  BY <1>0 DEF ThreadOK
<1>2. /\ pc' = s /\ cur' = (IF s = "events" THEN NULL ELSE cur) /\ Touches({cur})
      /\ nodes' = nodes /\ epoll' = epoll /\ pipe' = pipe /\ cb' = cb
      /\ stopped' = stopped /\ batch' = batch /\ has_pipe' = has_pipe
      /\ seen' = seen /\ time' = time /\ stopping' = stopping /\ now' = now
  BY DEF Goto, table
<1>3. cur \in Nodes /\ index' = index /\ bad' \in BOOLEAN
  BY ONLY PollerInv, <1>1, <1>2, InHand
<1>4. Quiet /\ input' \in Nat
  <2>1. CASE node' = node /\ input' = input
    BY <1>0, <1>2, <1>3, <2>1 DEF Quiet, TableTypes, ThreadTypes
  <2>2. CASE \E r \in BOOLEAN : Arrives(r)
    <3>1. PICK r \in BOOLEAN : Arrives(r)
      BY <2>2
    <3>d. PICK d : d = [node[cur] EXCEPT !.res = r]
      OBVIOUS
    <3>2. node[cur] \in NodeSet /\ node \in [Nodes -> NodeSet]
      BY <1>0, <1>3 DEF TableTypes
    <3>3. /\ d \in NodeSet /\ d.fd = node[cur].fd /\ d.op = node[cur].op
          /\ d.removed = node[cur].removed
      BY ONLY <3>d, <3>2, r \in BOOLEAN DEF NodeSet
    <3>4. node' = [node EXCEPT ![cur] = d] /\ input > 0 /\ input' = input - 1
      BY <3>1, <3>d DEF Arrives
    <3>5. /\ node' \in [Nodes -> NodeSet]
          /\ \A m \in Nodes : /\ node'[m].fd = node[m].fd /\ node'[m].op = node[m].op
                              /\ node'[m].removed = node[m].removed
      BY ONLY <3>2, <3>3, <3>4, <1>3
    <3>6. input' \in Nat
      BY <1>0, <3>4 DEF ThreadTypes
    <3> QED BY <1>2, <1>3, <3>5, <3>6 DEF Quiet
  <2> QED BY <2>1, <2>2
<1>5. \A m \in Nodes : Event(m)' <=> Event(m)
  BY ONLY PollerInv, <1>4, QuietFacts
<1>6. ThreadTypes'
  BY <1>0, <1>2, <1>4 DEF ThreadTypes
<1>7. ThreadOK'
  <2>1. batch \subseteq Nodes
    BY <1>0 DEF ThreadTypes
  <2>2. \A m \in batch' : Event(m)'
    BY ONLY <1>0, <1>2, <1>5, <2>1, pc = "handle" DEF ThreadOK
  <2>3. s # "events" => Event(cur)' /\ cur' = cur
    <3>c. PICK c : c = cur
      OBVIOUS
    <3>1. c \in Nodes /\ Event(c)
      BY ONLY <1>1, <1>3, <3>c
    <3>2. Event(c)'
      BY ONLY <3>1, <1>5
    <3> QED BY ONLY <1>2, <3>c, <3>2 DEF Event
  <2> QED BY ONLY <1>0, <1>1, <1>2, <2>2, <2>3, pc = "handle",
                  s \in {"events", "handle", "remove"} DEF ThreadOK
<1>8. StackOK'
  BY <1>2 DEF StackOK
<1> QED BY ONLY PollerInv, <1>2, <1>4, <1>6, <1>7, <1>8, QuietKeeps,
                s \in {"events", "handle", "remove"}

\* The six handlers.
LEMMA HandlersKeep ==
    ASSUME PollerInv,
           \/ poller_handle_read \/ poller_handle_write \/ poller_handle_listen
           \/ poller_handle_recvfrom \/ poller_handle_event \/ poller_handle_connect
    PROVE  Kept
<1>0. pc = "handle"
  BY DEF poller_handle_read, poller_handle_write, poller_handle_listen,
         poller_handle_recvfrom, poller_handle_event, poller_handle_connect, Handling
<1>1. node[cur].res \in BOOLEAN
  <2>1. TableTypes /\ ThreadOK
    BY InvFacts
  <2>2. cur \in Nodes
    BY <2>1, <1>0 DEF ThreadOK, Event, Waiting, Piped
  <2> QED BY <2>1, <2>2 DEF TableTypes, NodeSet
<1>2. PICK s \in {"events", "handle", "remove"} :
          /\ Goto(s)
          /\ \/ node' = node /\ input' = input
             \/ \E r \in BOOLEAN : Arrives(r)
  <2>1. CASE poller_handle_read
    BY <1>1, <2>1 DEF poller_handle_read
  <2>2. CASE poller_handle_write
    BY <2>2 DEF poller_handle_write
  <2>3. CASE poller_handle_listen \/ poller_handle_recvfrom \/ poller_handle_event
    <3>1. Produce
      BY <2>3 DEF poller_handle_listen, poller_handle_recvfrom, poller_handle_event
    <3> QED BY <3>1 DEF Produce
  <2>4. CASE poller_handle_connect
    BY <2>4 DEF poller_handle_connect
  <2> QED BY <2>1, <2>2, <2>3, <2>4
<1> QED BY ONLY PollerInv, <1>0, <1>2, HandlerKeeps

\* The thread stays where it is.
LEMMA StillKeeps ==
    ASSUME PollerInv, Quiet, node' = node, thread' = thread, stopped' = stopped,
           stopping' = stopping, input' = input, now' \in Nat \ {0}
    PROVE  Kept
<1>0. ThreadTypes /\ ThreadOK /\ StackOK /\ TableTypes /\ bad \in BOOLEAN
  BY InvFacts
<1>1. /\ Quiet /\ thread' = thread /\ now' \in Nat \ {0} /\ input' = input
      /\ stopped' = stopped /\ stopping' = stopping
  OBVIOUS
<1>2. /\ \A m \in Nodes : Event(m)' <=> Event(m)
      /\ Taken' = Taken
  BY ONLY PollerInv, <1>1, QuietFacts
<1>3. /\ pc' = pc /\ batch' = batch /\ has_pipe' = has_pipe /\ cur' = cur
      /\ seen' = seen /\ time' = time
  BY <1>1 DEF thread
<1>4. ThreadTypes'
  BY <1>0, <1>1, <1>3 DEF ThreadTypes
<1>5. node' = node /\ index' = index
  BY DEF Quiet
<1>6. ThreadOK'
  <2>1. batch \subseteq Nodes
    BY <1>0 DEF ThreadTypes
  <2>c. PICK c : c = cur
    OBVIOUS
  <2>2. pc \in {"handle", "remove", "remove_lock"} => c \in Nodes /\ Event(c)
    BY <1>0, <2>c DEF ThreadOK, Event, Waiting, Piped
  <2>3. pc \in {"handle", "remove", "remove_lock"} => Event(c)'
    BY ONLY <2>2, <1>2
  <2>4. pc \in {"handle", "remove", "remove_lock"} => Event(cur)'
    BY ONLY <2>3, <2>c, <1>3 DEF Event
  <2> QED BY ONLY <1>0, <1>1, <1>2, <1>3, <1>5, <2>1, <2>4 DEF ThreadOK
<1>7. StackOK'
  BY ONLY <1>0, <1>2, <1>3, <1>5 DEF StackOK, Making, Chain, Expiring
<1> QED BY ONLY PollerInv, <1>1, <1>3, <1>4, <1>6, <1>7, QuietKeeps

\* Time passes, or nothing happens.
LEMMA TickKeeps ==
    ASSUME PollerInv, Tick \/ UNCHANGED vars
    PROVE  Kept
<1>0. ThreadTypes /\ TableTypes /\ bad \in BOOLEAN
  BY InvFacts
<1>1. /\ Quiet /\ node' = node /\ thread' = thread /\ input' = input
      /\ stopped' = stopped /\ stopping' = stopping
  BY <1>0 DEF Tick, vars, Quiet, table, thread, TableTypes
<1>2. now' \in Nat \ {0}
  BY <1>0 DEF ThreadTypes, Tick, vars
<1> QED BY ONLY PollerInv, <1>1, <1>2, StillKeeps

\* Quiet steps at which the thread has no event in hand, before and after.
LEMMA FreeKeeps ==
    ASSUME PollerInv, Quiet, ThreadTypes', StackOK',
           pc' \notin {"handle", "remove", "remove_lock"},
           pc' # "undefined" => \A m \in batch' : m \in Nodes /\ Event(m),
           batch' # {} => pc' \in {"events", "undefined"},
           stopped' <=> pc' = "off" \/ stopping' \in {"drain", "done"},
           pc' = "off" => stopping' = "no", stopping' = "drain" => pc' = "exited",
           stopping' = "done" => pc' = "undefined"
    PROVE  Kept
<1>1. \A m \in Nodes : Event(m)' <=> Event(m)
  BY ONLY PollerInv, Quiet, QuietFacts
<1>2. pc' # "undefined" => \A m \in batch' : Event(m)'
  BY <1>1
<1>3. ThreadOK'
  BY <1>2 DEF ThreadOK
<1> QED BY ONLY PollerInv, Quiet, ThreadTypes', StackOK',
                <1>3, QuietKeeps

\* poller_start.
LEMMA StartKeeps ==
    ASSUME PollerInv, poller_start
    PROVE  Kept
<1>0. ThreadTypes /\ ThreadOK /\ TableTypes /\ bad \in BOOLEAN
  BY InvFacts
<1>1. /\ Quiet /\ pc = "off" /\ pc' = "timer" /\ stopped' = FALSE /\ batch' = batch
      /\ has_pipe' = has_pipe /\ cur' = cur /\ seen' = seen /\ time' = time
      /\ stopping' = stopping /\ now' = now /\ input' = input
  BY <1>0 DEF poller_start, Quiet, table, env, TableTypes
<1>2. batch' = {} /\ stopping = "no"
  BY <1>0, <1>1 DEF ThreadOK
<1>3. ThreadTypes' /\ StackOK'
  BY <1>0, <1>1 DEF ThreadTypes, StackOK
<1>4. /\ \A m \in batch' : m \in Nodes /\ Event(m)
      /\ pc' \notin {"handle", "remove", "remove_lock"}
      /\ stopped' <=> pc' = "off" \/ stopping' \in {"drain", "done"}
  BY ONLY <1>1, <1>2
<1> QED BY ONLY PollerInv, <1>1, <1>2, <1>3, <1>4, FreeKeeps

\* The join of the thread in poller_stop.
LEMMA JoinKeeps ==
    ASSUME PollerInv, poller_stop_join
    PROVE  Kept
<1>0. ThreadTypes /\ ThreadOK /\ TableTypes /\ bad \in BOOLEAN
  BY InvFacts
<1>1. /\ Quiet /\ pc = "exited" /\ thread' = thread /\ stopped' = TRUE
      /\ stopping' = "drain" /\ now' = now /\ input' = input
  BY <1>0 DEF poller_stop_join, Quiet, table, env, TableTypes
<1>2. /\ pc' = pc /\ batch' = batch /\ has_pipe' = has_pipe /\ cur' = cur
      /\ seen' = seen /\ time' = time
  BY <1>1 DEF thread
<1>3. batch' = {}
  BY <1>0, <1>1, <1>2 DEF ThreadOK
<1>4. ThreadTypes' /\ StackOK'
  BY <1>0, <1>1, <1>2 DEF ThreadTypes, StackOK
<1>5. /\ \A m \in batch' : m \in Nodes /\ Event(m)
      /\ pc' \notin {"handle", "remove", "remove_lock"}
      /\ stopped' <=> pc' = "off" \/ stopping' \in {"drain", "done"}
  BY ONLY <1>1, <1>2, <1>3
<1> QED BY ONLY PollerInv, <1>1, <1>2, <1>3, <1>4, <1>5, FreeKeeps

\* epoll_wait returns nodes of the table.
LEMMA WaitKeeps ==
    ASSUME PollerInv, poller_wait
    PROVE  Kept
<1>0. ThreadTypes /\ ThreadOK /\ TableTypes /\ Kinds /\ epoll = nodes /\ bad \in BOOLEAN
  BY InvFacts
<1>1. /\ Quiet /\ pc = "wait" /\ pc' = "events" /\ has_pipe' = (pipe # <<>>)
      /\ time' = now /\ stopped' = stopped /\ cur' = cur /\ seen' = seen
      /\ stopping' = stopping /\ now' = now /\ input' = input
      /\ batch' \in SUBSET ({epoll[f] : f \in Fds} \ {NULL})
  BY <1>0 DEF poller_wait, Quiet, table, env, TableTypes
<1>2. ASSUME NEW m \in batch' PROVE m \in Nodes /\ Event(m)
  <2>1. PICK f \in Fds : m = nodes[f] /\ nodes[f] # NULL
    BY <1>0, <1>1
  <2>2. m \in Nodes /\ m \in Waiting /\ node[m].op \in Operations
    BY ONLY PollerInv, <2>1, OfTable
  <2> QED BY <2>2 DEF Event
<1>3. ThreadTypes' /\ StackOK'
  BY <1>0, <1>1, <1>2 DEF ThreadTypes, StackOK
<1>4. stopped <=> stopping \in {"drain", "done"}
  BY <1>0, <1>1 DEF ThreadOK
<1>5. stopping # "drain" /\ stopping # "done"
  BY <1>0, <1>1 DEF ThreadOK
<1>6. /\ pc' \notin {"handle", "remove", "remove_lock"}
      /\ stopped' <=> pc' = "off" \/ stopping' \in {"drain", "done"}
  BY ONLY <1>1, <1>4
<1> QED BY ONLY PollerInv, <1>1, <1>2, <1>3, <1>5, <1>6, FreeKeeps

\* The end of a batch of events.
LEMMA EventsDoneKeeps ==
    ASSUME PollerInv, poller_events_done
    PROVE  Kept
<1>0. ThreadTypes /\ ThreadOK /\ TableTypes /\ bad \in BOOLEAN
  BY InvFacts
<1>1. /\ Quiet /\ pc = "events" /\ pc' = (IF has_pipe THEN "pipe" ELSE "expire")
      /\ batch' = {} /\ has_pipe' = FALSE
      /\ time' = time /\ stopped' = stopped /\ cur' = cur /\ seen' = seen
      /\ stopping' = stopping /\ now' = now /\ input' = input
  BY <1>0 DEF poller_events_done, AfterEvents, Quiet, table, env, TableTypes
<1>p. pc' \in {"pipe", "expire"}
  BY <1>1
<1>3. ThreadTypes' /\ StackOK'
  BY <1>0, <1>1, <1>p DEF ThreadTypes, StackOK
<1>4. stopped <=> stopping \in {"drain", "done"}
  BY <1>0, <1>1 DEF ThreadOK
<1>5. stopping # "drain" /\ stopping # "done"
  BY <1>0, <1>1 DEF ThreadOK
<1>6. /\ pc' \notin {"handle", "remove", "remove_lock", "off", "wait"}
      /\ stopped' <=> pc' = "off" \/ stopping' \in {"drain", "done"}
      /\ \A m \in batch' : m \in Nodes /\ Event(m)
      /\ batch' # {} => pc' = "events"
  BY ONLY <1>1, <1>p, <1>4
<1> QED BY ONLY PollerInv, <1>1, <1>3, <1>5, <1>6, FreeKeeps

\* The list is complete: its nodes, at most two, were taken out of the tree.
LEMMA UnlockKeeps ==
    ASSUME PollerInv, poller_handle_timeout_unlock
    PROVE  Kept
<1>0. ThreadTypes /\ ThreadOK /\ TableTypes /\ StackOK /\ index \in IndexSet /\ bad \in BOOLEAN
  BY InvFacts
<1>1. /\ Quiet /\ pc = "expire_tree" /\ pc' = "deliver" /\ cur' = index.heap.next[STACK]
      /\ time' = 0 /\ batch' = batch /\ has_pipe' = has_pipe
      /\ stopped' = stopped /\ seen' = seen
      /\ stopping' = stopping /\ now' = now /\ input' = input
  BY <1>0 DEF poller_handle_timeout_unlock, Quiet, table, env, TableTypes
<1>2. batch' = {}
  BY <1>0, <1>1 DEF ThreadOK
<1>3. ThreadTypes'
  <2>1. index.heap.next[STACK] \in Cells
    BY <1>0, CellFacts DEF IndexSet
  <2> QED BY <1>0, <1>1, <2>1 DEF ThreadTypes
<1>4. stopped <=> stopping \in {"drain", "done"}
  BY <1>0, <1>1 DEF ThreadOK
<1>5. stopping # "drain" /\ stopping # "done"
  BY <1>0, <1>1 DEF ThreadOK
<1>6. /\ pc' \notin {"handle", "remove", "remove_lock", "off", "wait"}
      /\ stopped' <=> pc' = "off" \/ stopping' \in {"drain", "done"}
      /\ \A m \in batch' : m \in Nodes /\ Event(m)
      /\ batch' # {} => pc' = "events"
  BY ONLY <1>1, <1>2, <1>4
<1>7. StackOK'
  <2> SUFFICES ASSUME ~index'.broken PROVE Chain(cur)'
    BY <1>1 DEF StackOK
  <2>1. Expiring' = Expiring /\ index' = index
    BY ONLY PollerInv, <1>1, QuietFacts DEF Quiet, Expiring
  <2>2. Making
    BY ONLY <1>0, <1>1, <2>1, ~index'.broken DEF StackOK
  <2>3. Chain(index.heap.next[STACK])
    BY <2>2 DEF Making, Chain
  <2> QED BY ONLY <1>1, <2>1, <2>3 DEF Chain
<1> QED BY ONLY PollerInv, <1>1, <1>3, <1>5, <1>6, <1>7, FreeKeeps

\* The thread takes an event of the batch in hand.
LEMMA EventKeeps ==
    ASSUME PollerInv, NEW n \in Nodes, poller_event(n)
    PROVE  Kept
<1>0. ThreadTypes /\ ThreadOK /\ TableTypes /\ bad \in BOOLEAN
  BY InvFacts
<1>1. /\ pc = "events" /\ n \in batch /\ Touches({n})
      /\ batch' = batch \ {n} /\ cur' = n /\ pc' = "handle"
      /\ nodes' = nodes /\ epoll' = epoll /\ node' = node /\ pipe' = pipe /\ cb' = cb
      /\ time' = time /\ stopped' = stopped /\ has_pipe' = has_pipe /\ seen' = seen
      /\ stopping' = stopping /\ now' = now /\ input' = input
  BY DEF poller_event, table, env
<1>2. Event(n)
  BY <1>0, <1>1 DEF ThreadOK
<1>3. index' = index /\ bad' \in BOOLEAN
  BY ONLY PollerInv, <1>1, <1>2, InHand
<1>4. Quiet
  BY <1>0, <1>1, <1>3 DEF Quiet, TableTypes
<1>5. \A m \in Nodes : Event(m)' <=> Event(m)
  BY ONLY PollerInv, <1>4, QuietFacts
<1>6. ThreadTypes' /\ StackOK'
  BY <1>0, <1>1, CellFacts DEF ThreadTypes, StackOK
<1>7. ThreadOK'
  <2>1. batch \subseteq Nodes /\ \A m \in batch : Event(m)
    BY <1>0, <1>1 DEF ThreadTypes, ThreadOK
  <2>2. \A m \in batch' : Event(m)'
    BY ONLY <1>1, <1>5, <2>1
  <2>3. Event(n)'
    BY ONLY <1>2, <1>5, n \in Nodes
  <2>4. Event(cur)'
    BY ONLY <1>1, <2>3 DEF Event
  <2>5. cur' \notin batch'
    BY <1>1
  <2> QED BY ONLY <1>0, <1>1, <2>2, <2>4, <2>5 DEF ThreadOK
<1> QED BY ONLY PollerInv, <1>4, <1>6, <1>7, QuietKeeps

\* Line 187.
LEMMA RemoveReadKeeps ==
    ASSUME PollerInv, poller_remove_read
    PROVE  Kept
<1>0. ThreadTypes /\ ThreadOK /\ TableTypes /\ bad \in BOOLEAN
  BY InvFacts
<1>1. /\ pc = "remove" /\ Touches({cur}) /\ seen' = node[cur].removed
      /\ batch' = batch /\ cur' = cur /\ pc' = "remove_lock"
      /\ nodes' = nodes /\ epoll' = epoll /\ node' = node /\ pipe' = pipe /\ cb' = cb
      /\ time' = time /\ stopped' = stopped /\ has_pipe' = has_pipe
      /\ stopping' = stopping /\ now' = now /\ input' = input
  BY DEF poller_remove_read, table, env
<1>2. Event(cur) /\ cur \notin batch
  BY <1>0, <1>1 DEF ThreadOK
<1>3. cur \in Nodes /\ index' = index /\ bad' \in BOOLEAN
  BY ONLY PollerInv, <1>1, <1>2, InHand
<1>4. Quiet
  BY <1>0, <1>1, <1>3 DEF Quiet, TableTypes
<1>5. \A m \in Nodes : Event(m)' <=> Event(m)
  BY ONLY PollerInv, <1>4, QuietFacts
<1>6. ThreadTypes' /\ StackOK'
  <2>1. node[cur].removed \in BOOLEAN
    BY <1>0, <1>3 DEF TableTypes, NodeSet
  <2> QED BY <1>0, <1>1, <2>1 DEF ThreadTypes, StackOK
<1>7. ThreadOK'
  <2>1. batch \subseteq Nodes /\ \A m \in batch : Event(m)
    BY <1>0, <1>1 DEF ThreadTypes, ThreadOK
  <2>2. \A m \in batch' : Event(m)'
    BY ONLY <1>1, <1>5, <2>1
  <2>c. PICK c : c = cur
    OBVIOUS
  <2>3. Event(c)'
    BY ONLY <1>2, <1>3, <1>5, <2>c
  <2>4. Event(cur)'
    BY ONLY <1>1, <2>3, <2>c DEF Event
  <2> QED BY ONLY <1>0, <1>1, <1>2, <2>2, <2>4 DEF ThreadOK
<1> QED BY ONLY PollerInv, <1>4, <1>6, <1>7, QuietKeeps

\* The stop mark is not a node.
LEMMA StopMoves ==
    ASSUME TableTypes, Kinds, nodes' = nodes, node' = node, cb' = cb,
           pipe' = Append(pipe, NULL)
    PROVE  Moved(Waiting, Piped, Taken, {})
<1>l. PICK l : l = Len(pipe)
  OBVIOUS
<1>1. /\ pipe \in Seq(Nodes \cup {NULL}) /\ l \in Nat /\ DOMAIN pipe = 1 .. l
  BY <1>l DEF TableTypes
<1>2. /\ pipe' \in Seq(Nodes \cup {NULL}) /\ DOMAIN pipe' = 1 .. (l + 1)
      /\ pipe'[l + 1] = NULL /\ \A i \in 1 .. l : pipe'[i] = pipe[i]
  BY <1>1, <1>l
<1>3. \A i \in 1 .. (l + 1) : i \in 1 .. l \/ i = l + 1
  BY <1>1
<1>4. l + 1 \in 1 .. (l + 1) /\ \A i \in 1 .. l : i \in 1 .. (l + 1)
  BY <1>1
<1>5. ASSUME NEW m \in Nodes PROVE m \in Piped <=> m \in Piped'
  <2>1. m \in Piped' <=> \E i \in 1 .. (l + 1) : pipe'[i] = m
    BY <1>2 DEF Piped
  <2>2. m \in Piped <=> \E i \in 1 .. l : pipe[i] = m
    BY <1>1 DEF Piped
  <2>3. m # NULL
    BY CellFacts
  <2> QED BY ONLY <2>1, <2>2, <2>3, <1>2, <1>3, <1>4
<1>6. \A i, j \in 1 .. l : pipe[i] = pipe[j] /\ pipe[i] # NULL => i = j
  BY <1>1 DEF Kinds
<1>7. \A i, j \in DOMAIN pipe' : pipe'[i] = pipe'[j] /\ pipe'[i] # NULL => i = j
  BY ONLY <1>2, <1>3, <1>6
<1>8. TableTypes'
  BY <1>2 DEF TableTypes
<1>9. \A m \in Nodes : m \in Waiting <=> Watched(m)'
  BY DEF Waiting, Watched
<1>10. \A m \in Nodes : m \in Piped <=> node'[m].op \in Operations /\ node'[m].removed
  BY DEF Kinds
<1>11. \A m \in Nodes : m \in Taken <=> node'[m].op \notin {"none", "gone"}
                          /\ m \notin Waiting /\ m \notin Piped
  BY DEF Taken, Waiting
<1>12. \A g \in Fds : nodes'[g] # NULL => nodes'[g] = nodes[g]
  OBVIOUS
<1>13. Waiting \subseteq Nodes /\ Piped \subseteq Nodes /\ Taken \subseteq Nodes
  BY DEF Waiting, Piped, Taken
<1>14. \A m \in Nodes : node'[m] = node[m] /\ cb'[m] = cb[m]
  OBVIOUS
<1>e. PICK N : N = {}
  OBVIOUS
<1>15. /\ N \subseteq Nodes /\ \A m \in Nodes \ N : node'[m] = node[m] /\ cb'[m] = cb[m]
       /\ \A m \in N : /\ cb'[m] = IF node'[m].op = "gone" THEN 1 ELSE 0
                       /\ node'[m].op \in Operations <=> node'[m].fd # NULL
       /\ \A g \in Fds : nodes'[g] # NULL =>
             \/ nodes'[g] = nodes[g] /\ nodes'[g] \notin N
             \/ node'[nodes'[g]].fd = g /\ ~node'[nodes'[g]].removed
  BY ONLY <1>12, <1>14, <1>e
<1>16. Moved(Waiting, Piped, Taken, N)
  BY ONLY TableTypes, Kinds, <1>5, <1>7, <1>8, <1>9, <1>10, <1>11, <1>13, <1>15, MovedBy
<1> QED BY <1>16, <1>e

\* poller_stop, up to the message that makes the thread leave its loop.
LEMMA StopKeeps ==
    ASSUME PollerInv, Defined, poller_stop
    PROVE  Kept
<1>0. /\ ThreadTypes /\ ThreadOK /\ TableTypes /\ Kinds /\ Fresh /\ StackOK
      /\ Held(index, Waiting) /\ epoll = nodes /\ index \in IndexSet
      /\ index.touched = {} /\ bad \in BOOLEAN /\ Waiting \subseteq Nodes /\ Piped \subseteq Nodes
  BY InvFacts
<1>1. /\ stopping = "no" /\ stopping' = "join" /\ pc \notin {"off", "undefined"}
      /\ pipe' = Append(pipe, NULL) /\ thread' = thread
      /\ nodes' = nodes /\ epoll' = epoll /\ node' = node /\ cb' = cb
      /\ index' = index /\ bad' = bad /\ stopped' = stopped
      /\ now' = now /\ input' = input
  BY DEF poller_stop, table, env, Defined
<1>2. /\ pc' = pc /\ batch' = batch /\ has_pipe' = has_pipe /\ cur' = cur
      /\ seen' = seen /\ time' = time
  BY <1>1 DEF thread
<1>3. Moved(Waiting, Piped, Taken, {})
  BY ONLY <1>0, <1>1, StopMoves
<1>4. /\ TableTypes' /\ Kinds' /\ Waiting' = Waiting /\ Piped' = Piped /\ Taken' = Taken
  BY ONLY <1>3 DEF Moved
<1>5. PollerTypes'
  <2>1. ThreadTypes'
    BY ONLY <1>0, <1>1, <1>2 DEF ThreadTypes
  <2> QED BY ONLY <2>1, <1>0, <1>1, <1>4 DEF PollerTypes
<1>6. Held(index', Waiting') /\ Fresh'
  BY ONLY <1>0, <1>1, <1>4 DEF Fresh
<1>7. ThreadOK'
  <2>1. \A m \in batch' : Event(m)'
    BY ONLY <1>0, <1>1, <1>2, <1>4 DEF ThreadOK, Event
  <2>2. pc' \in {"handle", "remove", "remove_lock"} => Event(cur)'
    BY ONLY <1>0, <1>1, <1>2, <1>4 DEF ThreadOK, Event
  <2> QED BY ONLY <1>0, <1>1, <1>2, <2>1, <2>2 DEF ThreadOK
<1>8. StackOK'
  BY ONLY <1>0, <1>1, <1>2, <1>4 DEF StackOK, Making, Chain, Expiring
<1>9. (index.dropped \subseteq Taken)'
  BY <1>1, <1>4, InvFacts
<1>10. PollerInv'
  BY ONLY <1>4, <1>5, <1>6, <1>7, <1>8, <1>9 DEF PollerInv
<1> QED BY ONLY <1>1, <1>4, <1>10 DEF Kept, KeepsTaken

-----------------------------------------------------------------------------
(* Steps of the poller thread that move nodes or change the index *)

\* What a step of the poller thread has to show: that the nodes moved as it
\* says, and the parts of the invariant about the index and the thread.
LEMMA ThreadKeeps ==
    ASSUME PollerInv, ThreadTypes', NEW waiting, NEW piped, NEW taken, NEW N,
           Moved(waiting, piped, taken, N), epoll' = nodes',
           NEW x, Committed(x, waiting), Fresh', ThreadOK', StackOK',
           x.dropped \subseteq taken
    PROVE  PollerInv'
<1>1. TableTypes' /\ Kinds' /\ Waiting' = waiting /\ Taken' = taken
  BY DEF Moved
<1>2. /\ index' \in IndexSet /\ index'.touched = {} /\ bad' \in BOOLEAN
      /\ Held(index', waiting) /\ index'.dropped = x.dropped
  BY DEF Committed
<1>3. PollerTypes'
  BY ONLY <1>1, <1>2, ThreadTypes', epoll' = nodes' DEF PollerTypes
<1> QED BY ONLY <1>1, <1>2, <1>3, Fresh', ThreadOK', StackOK',
                x.dropped \subseteq taken DEF PollerInv

\* The same for a step that leaves the expired nodes alone.
LEMMA ThreadKept ==
    ASSUME PollerInv, ThreadTypes', NEW waiting, NEW piped, NEW N,
           Moved(waiting, piped, Taken, N), epoll' = nodes',
           NEW x, Committed(x, waiting), Fresh', ThreadOK', StackOK',
           x.dropped = index.dropped,
           ~x.broken => \A m \in Taken : x.heap.next[m] = index.heap.next[m]
    PROVE  Kept
<1>1. x.dropped \subseteq Taken
  BY InvFacts
<1>2. PollerInv'
  BY ONLY PollerInv, ThreadTypes', Moved(waiting, piped, Taken, N), epoll' = nodes',
          Committed(x, waiting), Fresh', ThreadOK', StackOK', <1>1, ThreadKeeps
<1> QED BY <1>2 DEF Kept, KeepsTaken, Moved, Committed

\* A step that leaves the nodes where they are.
LEMMA NothingMoves ==
    ASSUME PollerInv, nodes' = nodes, node' = node, pipe' = pipe, cb' = cb
    PROVE  Moved(Waiting, Piped, Taken, {})
<1>0. TableTypes /\ Kinds
  BY InvFacts
<1>e. PICK N : N = {}
  OBVIOUS
<1>1. /\ N \subseteq Nodes /\ node' \in [Nodes -> NodeSet]
      /\ \A m \in Nodes \ N : node'[m] = node[m]
      /\ \A m \in N : node'[m].fd = node[m].fd /\ node'[m].op = node[m].op
                          /\ node'[m].removed = node[m].removed
  BY <1>0, <1>e DEF TableTypes
<1>2. Moved(Waiting, Piped, Taken, N)
  BY ONLY <1>0, <1>1, nodes' = nodes, pipe' = pipe, cb' = cb, SameMoves
<1> QED BY <1>2, <1>e

\* Before the thread waits it sets the timer.
LEMMA TimerKeeps ==
    ASSUME PollerInv, poller_set_timer
    PROVE  Kept
<1>0. /\ ThreadTypes /\ ThreadOK /\ Fresh /\ Held(index, Waiting) /\ epoll = nodes
      /\ index \in IndexSet /\ bad \in BOOLEAN
  BY InvFacts
<1>x. PICK x : x = SetTimer(index)
  OBVIOUS
<1>s. PICK S : S = {index.heap.next[TIMEO], index.tree_first}
  OBVIOUS
<1>1. /\ pc = "timer" /\ pc' = "wait" /\ Commit(x, S)
      /\ nodes' = nodes /\ epoll' = epoll /\ node' = node /\ pipe' = pipe /\ cb' = cb
      /\ batch' = batch /\ cur' = cur /\ seen' = seen
      /\ time' = time /\ stopped' = stopped /\ has_pipe' = has_pipe
      /\ stopping' = stopping /\ now' = now /\ input' = input
  BY <1>x, <1>s DEF poller_set_timer, table, env
<1>2. Moved(Waiting, Piped, Taken, {})
  BY ONLY PollerInv, <1>1, NothingMoves
<1>3. /\ x \in IndexSet /\ Held(x, Waiting)
      /\ x.heap = index.heap /\ x.in_rbtree = index.in_rbtree
      /\ x.dropped = index.dropped
  BY ONLY <1>0, <1>x, SetTimerHeld
<1>4. Committed(x, Waiting)
  BY ONLY <1>0, <1>1, <1>3, Commits
<1>5. ThreadTypes' /\ StackOK' /\ epoll' = nodes'
  BY <1>0, <1>1 DEF ThreadTypes, StackOK
<1>6. Fresh'
  BY ONLY <1>0, <1>1, <1>3, <1>4 DEF Fresh, Committed
<1>7. ThreadOK'
  <2>1. batch' = {}
    BY <1>0, <1>1 DEF ThreadOK
  <2> QED BY ONLY <1>0, <1>1, <2>1 DEF ThreadOK
<1>8. \A m \in Taken : x.heap.next[m] = index.heap.next[m]
  BY ONLY <1>3
<1> QED BY ONLY PollerInv, <1>8, <1>2, <1>3, <1>4, <1>5, <1>6, <1>7, ThreadKept

\* The thread looks at timeo_list and prepares the list of expired nodes, or
\* takes the first node of timeo_list for expired.
LEMMA HandleTimeoutKeeps ==
    ASSUME PollerInv, poller_handle_timeout
    PROVE  Kept
<1>0. /\ ThreadTypes /\ ThreadOK /\ Fresh /\ Held(index, Waiting) /\ epoll = nodes
      /\ index \in IndexSet /\ TableTypes /\ bad \in BOOLEAN
  BY InvFacts
<1>f. PICK S : S = {index.heap.next[TIMEO]}
  OBVIOUS
<1>1. /\ pc = "expire"
      /\ nodes' = nodes /\ epoll' = epoll /\ node' = node /\ pipe' = pipe /\ cb' = cb
      /\ batch' = batch /\ cur' = cur /\ seen' = seen
      /\ time' = time /\ stopped' = stopped /\ has_pipe' = has_pipe
      /\ stopping' = stopping /\ now' = now /\ input' = input
      /\ \/ pc' = "undefined" /\ Touches(S)
         \/ /\ pc' = "expire_tree"
            /\ Commit([index EXCEPT !.heap = list_init(index.heap, STACK)], S)
  BY <1>f DEF poller_handle_timeout, table, env
<1>3. batch = {} /\ stopping # "drain" /\ stopping # "done" /\ ~stopped
  BY <1>0, <1>1 DEF ThreadOK
<1>4. CASE pc' = "undefined" /\ Touches(S)
  <2>1. bad' \in BOOLEAN /\ index' = index
    BY <1>0, <1>4 DEF Touches
  <2>2. Quiet
    BY <1>0, <1>1, <2>1 DEF Quiet, TableTypes
  <2>3. ThreadTypes' /\ StackOK'
    BY <1>0, <1>1, <1>4 DEF ThreadTypes, StackOK
  <2>4. /\ pc' \notin {"handle", "remove", "remove_lock", "off", "wait"}
        /\ stopped' <=> pc' = "off" \/ stopping' \in {"drain", "done"}
        /\ pc' # "undefined" => \A m \in batch' : m \in Nodes /\ Event(m)
        /\ batch' # {} => pc' \in {"events", "undefined"}
        /\ stopping' # "drain" /\ stopping' # "done"
    BY ONLY <1>1, <1>3, <1>4
  <2> QED BY ONLY PollerInv, <2>2, <2>3, <2>4, FreeKeeps
<1>5. CASE /\ pc' = "expire_tree"
           /\ Commit([index EXCEPT !.heap = list_init(index.heap, STACK)], S)
  <2>x. PICK x : x = [index EXCEPT !.heap = list_init(index.heap, STACK)]
    OBVIOUS
  <2>1. /\ x \in IndexSet /\ Held(x, Waiting) /\ SameTree(index, x)
        /\ x.heap.next[STACK] = STACK /\ x.heap.prev[STACK] = STACK
        /\ SameCells(index, x, Cells \ {STACK}) /\ x.dropped = index.dropped
    BY ONLY <1>0, <2>x, StackInit
  <2>2. Moved(Waiting, Piped, Taken, {})
    BY ONLY PollerInv, <1>1, NothingMoves
  <2>3. Committed(x, Waiting)
    <3>1. Commit(x, S)
      BY <1>5, <2>x
    <3> QED BY ONLY <1>0, <2>1, <3>1, Commits
  <2>4. ThreadTypes' /\ epoll' = nodes'
    BY <1>0, <1>1, <1>5 DEF ThreadTypes
  <2>5. Fresh'
    BY ONLY <1>0, <1>1, <2>1, <2>3 DEF Fresh, Committed, SameTree
  <2>6. ThreadOK'
    BY ONLY <1>0, <1>1, <1>3, <1>5 DEF ThreadOK
  <2>7. StackOK'
    BY ONLY <1>5, <2>1, <2>3 DEF StackOK, Making, Committed
  <2>8. \A m \in Taken : x.heap.next[m] = index.heap.next[m]
    BY <2>1, CellFacts DEF SameCells, Taken
  <2> QED BY ONLY PollerInv, <2>8, <2>1, <2>2, <2>3, <2>4, <2>5, <2>6, <2>7, ThreadKept
<1> QED BY <1>1, <1>4, <1>5

\* The nodes in the pipe are forgotten.
LEMMA DrainFacts ==
    ASSUME PollerInv, CallBackPipe, nodes' = nodes, epoll' = epoll
    PROVE  /\ Moved(Waiting, {}, Taken, Piped) /\ epoll' = nodes' /\ Fresh'
           /\ \E x : /\ Committed(x, Waiting) /\ x.dropped = index.dropped
                     /\ \A m \in Taken : x.heap.next[m] = index.heap.next[m]
<1>0. /\ TableTypes /\ Kinds /\ Fresh /\ Held(index, Waiting) /\ epoll = nodes
      /\ index \in IndexSet /\ bad \in BOOLEAN /\ Piped \subseteq Nodes
      /\ Waiting \subseteq Nodes
  BY InvFacts
<1>1. /\ Moved(Waiting, {}, Taken, Piped)
      /\ {pipe[i] : i \in DOMAIN pipe} \ {NULL} = Piped
  BY ONLY <1>0, CallBackPipe, nodes' = nodes, DrainMoves
<1>x. PICK x : x = Forget(index, Piped)
  OBVIOUS
<1>2. Commit(x, Piped)
  BY <1>1, <1>x DEF CallBackPipe
<1>3. Forgotten(index, x, Piped, Waiting)
  <2>1. Piped \subseteq Nodes \ Waiting
    <3>1. \A m \in Piped : m \notin Waiting
      BY ONLY <1>0, Apart
    <3> QED BY <1>0, <3>1
  <2> QED BY ONLY <1>0, <1>x, <2>1, ForgetHeld
<1>4. Committed(x, Waiting)
  <2>1. x \in IndexSet /\ Held(x, Waiting)
    BY <1>3 DEF Forgotten
  <2> QED BY ONLY <1>0, <1>2, <2>1, Commits
<1>5. Fresh'
  <2>1. \A m \in Nodes \ Piped : node'[m] = node[m]
    BY ONLY <1>1 DEF Moved
  <2>2. index'.in_rbtree \subseteq index.in_rbtree
    BY <1>3, <1>4 DEF Forgotten, Committed
  <2>3. \A m \in Piped : node'[m].op # "none"
    <3>1. \A m \in Nodes : m \in Piped =>
              node'[m] = NoNode("gone") /\ NoNode("gone").op = "gone"
      BY <1>1 DEF CallBackPipe, NoNode
    <3> QED BY <3>1, <1>0
  <2> QED BY ONLY <1>0, <2>1, <2>2, <2>3 DEF Fresh
<1>6. \A m \in Taken : x.heap.next[m] = index.heap.next[m]
  <2>1. \A m \in Taken : m \in Nodes /\ m \notin Piped
    BY DEF Taken
  <2> QED BY <2>1, <1>3, CellFacts DEF Forgotten, SameCells
<1>7. x.dropped = index.dropped
  BY <1>3 DEF Forgotten
<1> QED BY <1>0, <1>1, <1>4, <1>5, <1>6, <1>7

\* Nodes are read from the pipe and given to the callback, by the thread or by
\* poller_stop.
LEMMA PipeKeeps ==
    ASSUME PollerInv, Defined, poller_handle_pipe \/ poller_stop_drain
    PROVE  Kept
<1>0. ThreadTypes /\ ThreadOK
  BY InvFacts
<1>1. /\ CallBackPipe /\ nodes' = nodes /\ epoll' = epoll
      /\ batch' = batch /\ cur' = cur /\ seen' = seen
      /\ time' = time /\ stopped' = stopped /\ has_pipe' = has_pipe
      /\ now' = now /\ input' = input
      /\ \/ pc = "pipe" /\ pc' \in {"exited", "expire"} /\ stopping' = stopping
         \/ stopping = "drain" /\ stopping' = "done" /\ pc' = "undefined"
  BY DEF poller_handle_pipe, poller_stop_drain, table, env
<1>2. batch = {}
  BY <1>0, <1>1 DEF ThreadOK
<1>3. /\ Moved(Waiting, {}, Taken, Piped) /\ epoll' = nodes' /\ Fresh'
      /\ \E x : /\ Committed(x, Waiting) /\ x.dropped = index.dropped
                /\ \A m \in Taken : x.heap.next[m] = index.heap.next[m]
  BY ONLY PollerInv, <1>1, DrainFacts
<1>4. PICK x : /\ Committed(x, Waiting) /\ x.dropped = index.dropped
               /\ \A m \in Taken : x.heap.next[m] = index.heap.next[m]
  BY <1>3
<1>5. ThreadTypes' /\ StackOK'
  BY <1>0, <1>1 DEF ThreadTypes, StackOK
<1>6. ThreadOK'
  BY ONLY <1>0, <1>1, <1>2 DEF ThreadOK
<1> QED BY ONLY PollerInv, <1>3, <1>4, <1>5, <1>6, ThreadKept

\* Lines 188-200: a node that was not removed yet is one the poller waits for.
LEMMA RemoveKeeps ==
    ASSUME PollerInv, poller_remove_node
    PROVE  Kept
<1>0. /\ ThreadTypes /\ ThreadOK /\ TableTypes /\ Kinds /\ Fresh /\ epoll = nodes
      /\ Waiting \subseteq Nodes /\ Piped \subseteq Nodes /\ Taken \subseteq Nodes
      /\ bad \in BOOLEAN /\ index \in IndexSet /\ Held(index, Waiting)
  BY InvFacts
<1>1. /\ pc = "remove_lock" /\ pc' \in {"events", "undefined"}
      /\ cur' = NULL /\ seen' = FALSE
      /\ pipe' = pipe /\ batch' = batch
      /\ time' = time /\ stopped' = stopped /\ has_pipe' = has_pipe
      /\ stopping' = stopping /\ now' = now /\ input' = input
  BY DEF poller_remove_node, env
<1>2. Event(cur) /\ cur \notin batch
  BY <1>0, <1>1 DEF ThreadOK
<1>3. cur \in Nodes /\ cur \in Waiting \cup Piped /\ node[cur].op \in Operations
  BY <1>0, <1>2 DEF Event
<1>4. /\ ThreadTypes' /\ StackOK'
      /\ stopping # "drain" /\ stopping # "done" /\ ~stopped
  BY <1>0, <1>1 DEF ThreadTypes, StackOK, ThreadOK
<1>5. batch \subseteq Nodes /\ \A m \in batch : Event(m)
  BY <1>0, <1>1 DEF ThreadTypes, ThreadOK
<1>6. CASE UNCHANGED <<table, node, index, cb, bad>>
  <2>1. Quiet
    BY <1>0, <1>1, <1>6 DEF Quiet, TableTypes, table
  <2>2. /\ pc' \notin {"handle", "remove", "remove_lock", "off", "wait"}
        /\ stopped' <=> pc' = "off" \/ stopping' \in {"drain", "done"}
        /\ pc' # "undefined" => \A m \in batch' : m \in Nodes /\ Event(m)
        /\ batch' # {} => pc' \in {"events", "undefined"}
        /\ stopping' # "drain" /\ stopping' # "done"
    BY ONLY <1>1, <1>4, <1>5
  <2> QED BY ONLY PollerInv, <1>4, <2>1, <2>2, FreeKeeps
<1>7. CASE /\ ~node[cur].removed
           /\ nodes' = [nodes EXCEPT ![node[cur].fd] = NULL]
           /\ Watch(node[cur].fd, NULL)
           /\ node' = [node EXCEPT ![cur] = NoNode("gone")]
           /\ cb' = [cb EXCEPT ![cur] = @ + 1]
           /\ Commit(Forget(Unlink(index, cur), {cur}), {cur})
  <2>n. PICK n : n = cur
    OBVIOUS
  <2>N. PICK N : N = {n}
    OBVIOUS
  <2>w. PICK W : W = Waiting \ {n}
    OBVIOUS
  <2>1. n \in Waiting /\ node[n].fd # NULL /\ n \in Nodes
    <3>1. cur \notin Piped /\ node[cur].fd # NULL
      BY <1>7, <1>0, <1>3 DEF Kinds
    <3> QED BY <2>n, <3>1, <1>3
  <2>2. Moved(W, Piped, Taken, N)
    <3>1. /\ nodes' = IF node[n].fd = NULL THEN nodes
                      ELSE [nodes EXCEPT ![node[n].fd] = NULL]
          /\ node' = [node EXCEPT ![n] = NoNode("gone")]
          /\ cb' = [cb EXCEPT ![n] = @ + 1]
      BY <1>7, <2>1, <2>n
    <3>2. Moved(Waiting \ {n}, Piped, Taken, {n})
      BY ONLY <1>0, <1>1, <2>1, <3>1, GoneMoves
    <3> QED BY ONLY <3>2, <2>w, <2>N
  <2>x. PICK x : x = Unlink(index, n)
    OBVIOUS
  <2>y. PICK y : y = Forget(x, N)
    OBVIOUS
  <2>3. /\ x \in IndexSet /\ Held(x, W)
        /\ x.in_rbtree \subseteq index.in_rbtree /\ Keeps(index, x, N)
    BY ONLY PollerInv, <2>1, <2>x, <2>N, <2>w, UnlinkFacts
  <2>4. Forgotten(x, y, N, W)
    <3>1. N \subseteq Nodes \ W
      BY <2>1, <2>N, <2>w
    <3> QED BY ONLY <2>3, <2>y, <3>1, ForgetHeld
  <2>5. Committed(y, W)
    <3>1. y \in IndexSet /\ Held(y, W)
      BY ONLY <2>4 DEF Forgotten
    <3>2. Commit(y, N)
      BY <1>7, <2>n, <2>x, <2>y, <2>N
    <3> QED BY ONLY <1>0, <3>1, <3>2, Commits
  <2>6. \A m \in Nodes \ {n} : node'[m] = node[m]
    BY ONLY <2>2, <2>N DEF Moved
  <2>7. Fresh'
    <3>1. index'.in_rbtree \subseteq index.in_rbtree
      BY ONLY <2>3, <2>4, <2>5 DEF Forgotten, Committed
    <3>2. node'[n].op # "none"
      BY <1>0, <1>7, <2>1, <2>n DEF TableTypes, NoNode
    <3> QED BY ONLY <1>0, <2>6, <3>1, <3>2 DEF Fresh
  <2>8. epoll' = nodes'
    BY <1>0, <1>7 DEF Watch
  <2>9. ThreadOK'
    <3>1. \A m \in batch' : Event(m)'
      <4> SUFFICES ASSUME NEW m \in batch' PROVE Event(m)'
        OBVIOUS
      <4>1. m \in Nodes \ N /\ Event(m)
        BY <1>1, <1>2, <1>5, <2>n, <2>N
      <4>2. (Waiting \cup Piped) \ N \subseteq W \cup Piped
        BY <2>N, <2>w
      <4> QED BY ONLY <2>2, <4>1, <4>2, EventStays
    <3> QED BY ONLY <1>1, <1>4, <3>1 DEF ThreadOK
  <2>10. y.dropped = index.dropped
    BY ONLY <2>3, <2>4 DEF Forgotten, Keeps
  <2>11. ~y.broken => \A m \in Taken : y.heap.next[m] = index.heap.next[m]
    <3> SUFFICES ASSUME ~y.broken, NEW m \in Taken
                 PROVE  y.heap.next[m] = index.heap.next[m]
      OBVIOUS
    <3>1. m \in Nodes /\ m # n /\ m \notin Waiting
      BY <1>0, <2>1 DEF Taken, Waiting
    <3>2. m \in Cells \ (index.listed \cup N \cup {TIMEO, NOTIMEO}) /\ m \in Cells \ N
      BY <1>0, <2>N, <3>1, CellFacts DEF Held
    <3> QED BY ONLY <2>3, <2>4, <3>2, ~y.broken DEF Forgotten, Keeps, SameCells
  <2> QED BY ONLY PollerInv, <2>10, <2>11, <1>4, <2>2, <2>5, <2>7, <2>8, <2>9, ThreadKept
<1> QED BY ONLY poller_remove_node, <1>6, <1>7 DEF poller_remove_node

-----------------------------------------------------------------------------
(* Steps that deal with expired nodes *)

\* Lines 569-574: a node leaves the tree for the local list, which may drop the
\* one in front for it.
LEMMA ExpireKeeps ==
    ASSUME PollerInv, Defined, poller_handle_timeout_tree
    PROVE  PollerInv'
<1>0. /\ ThreadTypes /\ ThreadOK /\ TableTypes /\ Kinds /\ Fresh /\ epoll = nodes
      /\ Held(index, Waiting) /\ StackOK /\ index \in IndexSet /\ bad \in BOOLEAN
      /\ Waiting \subseteq Nodes /\ Taken \subseteq Nodes
      /\ index.dropped \subseteq Taken /\ ~index.broken
  BY InvFacts DEF Defined
<1>n. PICK n : n = index.tree_first
  OBVIOUS
<1>y. PICK y : y = TakeExpired(index)
  OBVIOUS
<1>1. /\ pc = "expire_tree" /\ n # NULL /\ Commit(y, {n}) /\ thread' = thread
      /\ pipe' = pipe /\ cb' = cb /\ stopped' = stopped
      /\ stopping' = stopping /\ now' = now /\ input' = input
      /\ \/ /\ node[n].fd # NULL
            /\ nodes' = [nodes EXCEPT ![node[n].fd] = NULL]
            /\ epoll' = [epoll EXCEPT ![node[n].fd] = NULL] /\ node' = node
         \/ /\ node[n].fd = NULL
            /\ node' = [node EXCEPT ![n].removed = TRUE]
            /\ nodes' = nodes /\ epoll' = epoll
  BY <1>n, <1>y DEF poller_handle_timeout_tree, table, env, Watch
<1>2. /\ pc' = pc /\ batch' = batch /\ has_pipe' = has_pipe /\ cur' = cur
      /\ seen' = seen /\ time' = time
  BY <1>1 DEF thread
<1>a. PICK a : a = index.heap.prev[STACK]
  OBVIOUS
<1>b. PICK b : b = index.heap.next[STACK]
  OBVIOUS
<1>3. \/ a = STACK /\ b = STACK
      \/ /\ a \in Expiring /\ index.heap.next[a] = STACK /\ index.heap.prev[a] = STACK
         /\ b = a \/ (b \in Expiring /\ index.heap.next[b] = a)
  BY <1>0, <1>1, <1>a, <1>b DEF StackOK, Making
<1>4. n \in Waiting /\ n \in Nodes
  <2>1. TreeHolds(index, Waiting) /\ index.tree \in Seq(Nodes)
    BY <1>0 DEF Held, IndexSet
  <2>2. n = First(index.tree) /\ index.tree # <<>>
    BY ONLY <2>1, <1>n, <1>1 DEF TreeHolds, First
  <2>3. 1 \in DOMAIN index.tree /\ n = index.tree[1]
    BY ONLY <2>1, <2>2 DEF First
  <2>4. n \in Waiting
    BY ONLY <2>1, <2>3 DEF TreeHolds
  <2> QED BY <2>4, <1>0
<1>5. n \notin Taken /\ a # n /\ b # n /\ a \in Cells /\ n # STACK
  <2>1. n \notin Taken
    BY ONLY <1>0, <1>4, Apart
  <2> QED BY <2>1, <1>0, <1>3, <1>4, CellFacts DEF Expiring
<1>6. Expelled(index, y, n, Waiting)
  <2>1. /\ a = STACK => index.heap.next[STACK] = STACK
        /\ a # STACK => /\ index.heap.next[a] = STACK /\ index.heap.prev[a] = STACK
                        /\ index.heap.next[STACK] \in Nodes
    BY ONLY <1>0, <1>3, <1>b DEF Expiring
  <2>2. index \in IndexSet /\ Held(index, Waiting) /\ n # NULL /\ a \in Cells /\ a # n
    BY ONLY <1>0, <1>1, <1>5
  <2> QED BY ONLY <2>1, <2>2, <1>n, <1>a, <1>y, TakeHeld
<1>w. PICK W : W = Waiting \ {n}
  OBVIOUS
<1>7. Moved(W, Piped, Taken \cup {n}, {n})
  <2>1. \/ /\ node[n].fd # NULL
           /\ nodes' = [nodes EXCEPT ![node[n].fd] = NULL] /\ node' = node
        \/ /\ node[n].fd = NULL
           /\ node' = [node EXCEPT ![n].removed = TRUE] /\ nodes' = nodes
    BY ONLY <1>1
  <2>2. Moved(Waiting \ {n}, Piped, Taken \cup {n}, {n})
    BY ONLY <1>0, <1>1, <1>4, <2>1, ExpireMoves
  <2> QED BY ONLY <2>2, <1>w
<1>8. Committed(y, W)
  <2>1. y \in IndexSet /\ Held(y, W)
    BY ONLY <1>6, <1>w DEF Expelled
  <2> QED BY ONLY <1>0, <1>1, <2>1, Commits
<1>9. /\ Taken' = Taken \cup {n} /\ \A m \in Nodes \ {n} : node'[m] = node[m]
  BY ONLY <1>7 DEF Moved
<1>d. y.dropped = IF b # a THEN index.dropped \cup {b} ELSE index.dropped
  BY ONLY <1>6, <1>a, <1>b DEF Expelled
<1>e. /\ y.dropped \subseteq Taken \cup {n}
      /\ n \in Expiring'
      /\ a # STACK => a \in Expiring'
  <2>1. b # a => b \in Taken
    BY ONLY <1>3 DEF Expiring
  <2>2. n \notin y.dropped
    BY ONLY <1>d, <1>0, <1>5
  <2>3. a # STACK => a \in Taken /\ a \notin y.dropped
    BY ONLY <1>d, <1>3 DEF Expiring
  <2>4. index'.dropped = y.dropped
    BY ONLY <1>8 DEF Committed
  <2> QED BY ONLY <1>0, <1>d, <1>9, <2>1, <2>2, <2>3, <2>4 DEF Expiring
<1>10. Fresh'
  <2>1. index'.in_rbtree = index.in_rbtree
    BY ONLY <1>6, <1>8 DEF Expelled, Committed
  <2>2. node'[n].op # "none"
    <3>1. node[n].op # "none" /\ node[n] \in NodeSet
      BY ONLY <1>0, <1>4, Apart DEF TableTypes
    <3>2. CASE node' = node
      BY <3>1, <3>2
    <3>3. CASE node' = [node EXCEPT ![n].removed = TRUE]
      BY <3>1, <3>3, <1>0, <1>4 DEF TableTypes, NodeSet
    <3> QED BY <3>2, <3>3, <1>1
  <2> QED BY ONLY <1>0, <1>9, <2>1, <2>2 DEF Fresh
<1>11. StackOK'
  <2>1. index'.heap = y.heap
    BY <1>8 DEF Committed
  <2>2. \A c \in Cells \ {n, STACK} : index'.heap.next[c] = index.heap.next[c]
                                       /\ index'.heap.prev[c] = index.heap.prev[c]
    BY ONLY <1>6, <2>1 DEF Expelled, SameCells
  <2>3. CASE a = STACK
    <3>1. /\ index'.heap.prev[STACK] = n /\ index'.heap.next[STACK] = n
          /\ index'.heap.next[n] = STACK /\ index'.heap.prev[n] = STACK
      BY ONLY <1>6, <1>a, <2>1, <2>3 DEF Expelled
    <3>2. Making'
      BY ONLY <3>1, <1>e DEF Making
    <3> QED BY ONLY <3>2, <1>1, <1>2 DEF StackOK
  <2>4. CASE a # STACK
    <3>1. /\ index.heap.next[a] = STACK /\ index.heap.prev[a] = STACK
          /\ a \in Cells \ {n, STACK}
      BY ONLY <1>3, <1>5, <2>4
    <3>2. /\ index'.heap.prev[STACK] = a /\ index'.heap.next[STACK] = n
          /\ index'.heap.next[n] = a
      BY ONLY <1>6, <1>a, <2>1, <2>4 DEF Expelled
    <3>3. index'.heap.next[a] = STACK /\ index'.heap.prev[a] = STACK
      BY ONLY <2>2, <3>1
    <3>4. Making'
      BY ONLY <1>e, <2>4, <3>2, <3>3 DEF Making
    <3> QED BY ONLY <3>4, <1>1, <1>2 DEF StackOK
  <2> QED BY <2>3, <2>4
<1>12. ThreadTypes' /\ epoll' = nodes'
  <2>1. ThreadTypes'
    BY ONLY <1>0, <1>1, <1>2 DEF ThreadTypes
  <2>2. epoll' = nodes'
    BY ONLY <1>0, <1>1
  <2> QED BY <2>1, <2>2
<1>13. ThreadOK'
  <2>1. batch = {} /\ stopping # "drain" /\ stopping # "done" /\ ~stopped
    BY <1>0, <1>1 DEF ThreadOK
  <2> QED BY ONLY <1>1, <1>2, <2>1 DEF ThreadOK
<1>14. y.dropped \subseteq Taken \cup {n}
  BY <1>e
<1> QED BY ONLY PollerInv, <1>7, <1>8, <1>10, <1>11, <1>12, <1>13, <1>14, ThreadKeeps

\* What is left when the first expired node was given to the callback.
LEMMA NextDelivered ==
    ASSUME PollerInv, NEW n, n \in Taken, n \notin index.dropped,
           node' = [node EXCEPT ![n] = NoNode("gone")],
           cb' = [cb EXCEPT ![n] = @ + 1], nodes' = nodes, pipe' = pipe,
           index' = Forget(index, {n})
    PROVE  /\ Moved(Waiting, Piped, Taken \ {n}, {n})
           /\ Forgotten(index, index', {n}, Waiting) /\ index'.touched = {}
           /\ Expiring' = Expiring \ {n} /\ Fresh'
<1>0. /\ TableTypes /\ Kinds /\ Fresh /\ index \in IndexSet /\ index.touched = {}
      /\ Held(index, Waiting) /\ Taken \subseteq Nodes
  BY InvFacts
<1>1. Moved(Waiting, Piped, Taken \ {n}, {n})
  BY ONLY <1>0, nodes' = nodes, pipe' = pipe, n \in Taken,
          node' = [node EXCEPT ![n] = NoNode("gone")],
          cb' = [cb EXCEPT ![n] = @ + 1], DeliverMoves
<1>y. PICK y : y = Forget(index, {n})
  OBVIOUS
<1>2. Forgotten(index, y, {n}, Waiting)
  <2>1. {n} \subseteq Nodes \ Waiting
    BY <1>0 DEF Taken, Waiting
  <2> QED BY ONLY <1>0, <1>y, <2>1, ForgetHeld
<1>3. y.touched = {}
  BY <1>0, <1>y DEF Forget, IndexSet
<1>4. Fresh'
  <2>1. index'.in_rbtree \subseteq index.in_rbtree
    BY <1>2, <1>y DEF Forgotten
  <2>2. node'[n].op # "none"
    BY <1>0 DEF TableTypes, NoNode
  <2>3. \A m \in Nodes \ {n} : node'[m] = node[m]
    BY ONLY <1>1 DEF Moved
  <2> QED BY ONLY <1>0, <2>1, <2>2, <2>3 DEF Fresh
<1>5. Expiring' = Expiring \ {n}
  <2>1. Taken' = Taken \ {n}
    BY ONLY <1>1 DEF Moved
  <2>2. index'.dropped = index.dropped
    BY <1>2, <1>y DEF Forgotten
  <2> QED BY ONLY <2>1, <2>2 DEF Expiring
<1> QED BY <1>1, <1>2, <1>3, <1>4, <1>5, <1>y

\* Lines 578-590: the next expired node is given to the callback, or the list is
\* at its end.
LEMMA DeliverKeeps ==
    ASSUME PollerInv, Defined, poller_handle_timeout_deliver
    PROVE  PollerInv'
<1>0. /\ ThreadTypes /\ ThreadOK /\ TableTypes /\ Kinds /\ Fresh /\ epoll = nodes
      /\ Held(index, Waiting) /\ StackOK /\ index \in IndexSet /\ bad \in BOOLEAN
      /\ Waiting \subseteq Nodes /\ Taken \subseteq Nodes
      /\ index.dropped \subseteq Taken /\ ~index.broken
  BY InvFacts DEF Defined
<1>1. /\ pc = "deliver" /\ nodes' = nodes /\ epoll' = epoll /\ pipe' = pipe
      /\ stopped' = stopped /\ batch' = batch /\ has_pipe' = has_pipe /\ seen' = seen
      /\ time' = time /\ stopping' = stopping /\ now' = now /\ input' = input
  BY DEF poller_handle_timeout_deliver, table, env
<1>2. batch = {} /\ stopping # "drain" /\ stopping # "done" /\ ~stopped
  BY <1>0, <1>1 DEF ThreadOK
<1>3. CASE /\ cur = STACK /\ pc' = "timer" /\ cur' = NULL
           /\ Commit([index EXCEPT !.heap = list_init(index.heap, STACK)], {})
           /\ node' = node /\ cb' = cb
  <2>x. PICK x : x = [index EXCEPT !.heap = list_init(index.heap, STACK)]
    OBVIOUS
  <2>s. PICK S : S = {}
    OBVIOUS
  <2>1. /\ x \in IndexSet /\ Held(x, Waiting) /\ SameTree(index, x)
        /\ x.dropped = index.dropped
    BY ONLY <1>0, <2>x, StackInit
  <2>2. Moved(Waiting, Piped, Taken, {})
    BY ONLY PollerInv, <1>1, <1>3, NothingMoves
  <2>3. Committed(x, Waiting)
    <3>1. Commit(x, S)
      BY <1>3, <2>x, <2>s
    <3> QED BY ONLY <1>0, <2>1, <3>1, Commits
  <2>4. ThreadTypes' /\ epoll' = nodes' /\ StackOK'
    BY <1>0, <1>1, <1>3 DEF ThreadTypes, StackOK
  <2>5. Fresh'
    BY ONLY <1>0, <1>3, <2>1, <2>3 DEF Fresh, Committed, SameTree
  <2>6. ThreadOK'
    BY ONLY <1>0, <1>1, <1>2, <1>3 DEF ThreadOK
  <2>7. x.dropped \subseteq Taken
    BY <1>0, <2>1
  <2> QED BY ONLY PollerInv, <2>2, <2>3, <2>4, <2>5, <2>6, <2>7, ThreadKeeps
<1>4. CASE /\ cur # STACK
           /\ node' = [node EXCEPT ![cur] = NoNode("gone")]
           /\ cb' = [cb EXCEPT ![cur] = @ + 1]
           /\ index' = Forget(index, {cur}) /\ bad' = TRUE
           /\ \/ cur' = index.heap.next[cur] /\ pc' = pc
              \/ pc' = "undefined" /\ cur' = cur
  <2>n. PICK n : n = cur
    OBVIOUS
  <2>0. Chain(n)
    BY <1>0, <1>1, <2>n DEF StackOK
  <2>c. PICK c : c = index.heap.next[n]
    OBVIOUS
  <2>1. /\ n \in Expiring /\ n \in Taken /\ n \notin index.dropped
        /\ c = STACK \/ (c \in Expiring /\ index.heap.next[c] = STACK)
    BY ONLY <2>0, <2>n, <2>c, <1>4 DEF Chain, Expiring
  <2>2. n \in Nodes /\ n # STACK /\ c \in Cells /\ (c = n => FALSE)
    <3>1. n \in Nodes
      BY <2>1 DEF Taken
    <3>2. n # STACK
      BY <1>4, <2>n
    <3> QED BY <1>0, <3>1, <3>2, <2>1, <2>c, CellFacts DEF Expiring
  <2>3. /\ Moved(Waiting, Piped, Taken \ {n}, {n})
        /\ Forgotten(index, index', {n}, Waiting) /\ index'.touched = {}
        /\ Expiring' = Expiring \ {n} /\ Fresh'
    <3>1. /\ node' = [node EXCEPT ![n] = NoNode("gone")]
          /\ cb' = [cb EXCEPT ![n] = @ + 1]
          /\ index' = Forget(index, {n})
      BY <1>4, <2>n
    <3> QED BY ONLY PollerInv, <1>1, <2>1, <3>1, NextDelivered
  <2>5. Committed(index', Waiting)
    BY <1>4, <2>3 DEF Committed, Forgotten
  <2>6. index'.dropped \subseteq Taken \ {n}
    BY <1>0, <2>1, <2>3 DEF Forgotten
  <2>8. StackOK'
    <3>1. CASE pc' = "undefined"
      BY <3>1 DEF StackOK
    <3>2. CASE cur' = c /\ pc' = pc
      <4>1. c # STACK => c \in Expiring' /\ index'.heap.next[c] = STACK
        BY ONLY <2>1, <2>2, <2>3 DEF Forgotten, SameCells
      <4>2. Chain(cur)'
        BY ONLY <3>2, <4>1 DEF Chain
      <4> QED BY ONLY <1>1, <3>2, <4>2 DEF StackOK
    <3> QED BY <1>4, <2>n, <2>c, <3>1, <3>2
  <2>9. ThreadTypes' /\ epoll' = nodes'
    <3>1. pc' \in {"deliver", "undefined"} /\ cur' \in Cells
      BY <1>1, <1>4, <2>n, <2>c, <2>2, CellFacts
    <3> QED BY <1>0, <1>1, <3>1 DEF ThreadTypes
  <2>10. ThreadOK'
    <3>1. pc' \in {"deliver", "undefined"}
      BY <1>1, <1>4
    <3> QED BY ONLY <1>1, <1>2, <3>1 DEF ThreadOK
  <2>11. Fresh' /\ Moved(Waiting, Piped, Taken \ {n}, {n})
    BY <2>3
  <2>x. PICK x : x = index'
    OBVIOUS
  <2>12. Committed(x, Waiting) /\ x.dropped \subseteq Taken \ {n}
    BY <2>5, <2>6, <2>x
  <2> QED BY ONLY PollerInv, <2>8, <2>9, <2>10, <2>11, <2>12, ThreadKeeps
<1> QED BY ONLY poller_handle_timeout_deliver, <1>3, <1>4
        DEF poller_handle_timeout_deliver
-----------------------------------------------------------------------------
(* The invariant holds in every state *)

\* The invariant holds at the start.
LEMMA InitInv ==
    ASSUME Init
    PROVE  PollerInv
<1>1. TableTypes /\ ThreadTypes
  <2>1. NoNode("none") \in NodeSet
    BY DEF NoNode, NodeSet
  <2>2. TableTypes
    <3>1. /\ nodes = [f \in Fds |-> NULL] /\ node = [n \in Nodes |-> NoNode("none")]
          /\ pipe = <<>> /\ cb = [n \in Nodes |-> 0]
      BY DEF Init
    <3>2. pipe \in Seq(Nodes \cup {NULL})
      BY <3>1
    <3> QED BY ONLY <2>1, <3>1, <3>2 DEF TableTypes
  <2>3. ThreadTypes
    <3>1. /\ stopped = TRUE /\ has_pipe = FALSE /\ seen = FALSE /\ pc = "off"
          /\ batch = {} /\ cur = NULL /\ time = 0 /\ now = 1 /\ input = MaxInput
          /\ stopping = "no" /\ MaxInput \in Nat
      BY PollerAssumption DEF Init
    <3>2. stopped \in BOOLEAN /\ has_pipe \in BOOLEAN /\ seen \in BOOLEAN
      BY ONLY <3>1, Zenon
    <3>3. /\ batch \in SUBSET Nodes /\ cur \in Cells \cup {NULL} /\ time \in Nat
          /\ now \in Nat \ {0} /\ input \in Nat
      BY ONLY <3>1
    <3> QED BY ONLY <3>1, <3>2, <3>3, Zenon DEF ThreadTypes
  <2> QED BY <2>2, <2>3
<1>2. /\ \A n \in Nodes : node[n] = NoNode("none") /\ node[n].op = "none"
                            /\ node[n].fd = NULL
      /\ \A f \in Fds : nodes[f] = NULL
      /\ pipe = <<>> /\ cb = [n \in Nodes |-> 0] /\ epoll = nodes /\ bad \in BOOLEAN
      /\ pc = "off" /\ stopped = TRUE /\ stopping = "no" /\ batch = {}
  BY DEF Init, NoNode
<1>3. Waiting = {} /\ Piped = {} /\ Taken = {}
  BY <1>2, CellFacts DEF Waiting, Piped, Taken, Watched
<1>4. /\ index \in IndexSet /\ index.touched = {} /\ index.in_rbtree = {}
      /\ index.tree = <<>> /\ index.tree_first = NULL /\ index.tree_last = NULL
      /\ index.listed = {} /\ index.dropped = {}
  BY DEF Init, IndexSet
<1>5. Kinds
  BY <1>2, <1>3 DEF Kinds, Operations
<1>6. Held(index, Waiting)
  <2>1. TreeHolds(index, Waiting)
    BY <1>3, <1>4 DEF TreeHolds, Sorted, Once, First, Last
  <2> QED BY <1>3, <1>4, <2>1 DEF Held
<1>7. Fresh /\ ThreadOK /\ StackOK
  BY <1>2, <1>4 DEF Fresh, ThreadOK, StackOK
<1> QED BY <1>1, <1>2, <1>3, <1>4, <1>5, <1>6, <1>7 DEF PollerInv, PollerTypes

\* The calls.
LEMMA CallsKeep ==
    ASSUME PollerInv, Defined, Call
    PROVE  Kept
<1>1. ASSUME NEW f \in Fds, NEW o \in Ops[f], NEW t \in Timeouts[f],
             NEW message \in IF o = "read" THEN BOOLEAN ELSE {FALSE},
             poller_add(f, o, message, t) \/ poller_mod(f, o, message, t)
      PROVE  Kept
  <2>1. message \in BOOLEAN
    OBVIOUS
  <2> QED BY ONLY <1>1, <2>1, PollerInv, Defined, AddKeeps, ModKeeps
<1>2. ASSUME NEW f \in Fds, poller_del(f) PROVE Kept
  BY ONLY <1>2, PollerInv, Defined, DelKeeps
<1>3. ASSUME NEW f \in Fds, NEW t \in Timeouts[f], poller_set_timeout(f, t) PROVE Kept
  BY ONLY <1>3, PollerInv, Defined, SetTimeoutKeeps
<1>4. ASSUME NEW t \in Timeouts[NULL], poller_add_timer(t) PROVE Kept
  BY ONLY <1>4, PollerInv, Defined, AddTimerKeeps
<1>5. ASSUME NEW n \in Nodes, poller_del_timer(n) PROVE Kept
  BY ONLY <1>5, PollerInv, Defined, DelTimerKeeps
<1>6. CASE poller_start
  BY ONLY <1>6, PollerInv, StartKeeps
<1>7. CASE poller_stop
  BY ONLY <1>7, PollerInv, Defined, StopKeeps
<1> QED BY ONLY Call, <1>1, <1>2, <1>3, <1>4, <1>5, <1>6, <1>7 DEF Call

\* Every step keeps the invariant.
LEMMA NextInv ==
    ASSUME PollerInv, [Next]_vars
    PROVE  PollerInv'
<1>1. CASE Defined /\ Call
  BY ONLY <1>1, PollerInv, CallsKeep DEF Kept
<1>2. CASE Defined /\ Stopping
  BY ONLY <1>2, PollerInv, JoinKeeps, PipeKeeps DEF Kept, Stopping
<1>3. CASE Defined /\ Thread
  <2>1. CASE poller_set_timer \/ poller_wait \/ poller_events_done
    BY ONLY <2>1, PollerInv, TimerKeeps, WaitKeeps, EventsDoneKeeps DEF Kept
  <2>2. ASSUME NEW n \in Nodes, poller_event(n) PROVE PollerInv'
    BY ONLY <2>2, PollerInv, EventKeeps DEF Kept
  <2>3. CASE \/ poller_handle_read \/ poller_handle_write \/ poller_handle_listen
             \/ poller_handle_recvfrom \/ poller_handle_event \/ poller_handle_connect
    BY ONLY <2>3, PollerInv, HandlersKeep DEF Kept
  <2>4. CASE poller_remove_read \/ poller_remove_node \/ poller_handle_pipe
    BY ONLY <1>3, <2>4, PollerInv, RemoveReadKeeps, RemoveKeeps, PipeKeeps DEF Kept
  <2>5. CASE poller_handle_timeout \/ poller_handle_timeout_unlock
    BY ONLY <2>5, PollerInv, HandleTimeoutKeeps, UnlockKeeps DEF Kept
  <2>6. CASE poller_handle_timeout_tree \/ poller_handle_timeout_deliver
    BY ONLY <1>3, <2>6, PollerInv, ExpireKeeps, DeliverKeeps
  <2> QED BY ONLY <1>3, <2>1, <2>2, <2>3, <2>4, <2>5, <2>6 DEF Thread
<1>4. CASE Tick \/ UNCHANGED vars
  BY ONLY <1>4, PollerInv, TickKeeps DEF Kept
<1> QED BY ONLY [Next]_vars, <1>1, <1>2, <1>3, <1>4 DEF Next

\* The invariant, in every state.
LEMMA AlwaysInv == Spec => []PollerInv
<1>1. Init => PollerInv
  BY InitInv
<1>2. PollerInv /\ [Next]_vars => PollerInv'
  BY NextInv
<1> QED BY <1>1, <1>2, PTL DEF Spec

-----------------------------------------------------------------------------
(* No expired node is lost *)

\* Steps that keep the list of expired nodes.
LEMMA KeptLost ==
    ASSUME PollerInv, Defined, NoneLost, KeepsTaken,
           \/ /\ pc' = pc /\ cur' = cur
              /\ pc = "expire_tree" => index' = index
           \/ pc \notin {"expire_tree", "deliver"}
           \/ pc' = "undefined"
    PROVE  NoneLost'
<1> SUFFICES ASSUME ~index'.broken PROVE NoneLost'
  BY DEF NoneLost
<1>0. /\ Expiring' = Expiring /\ StackOK /\ ~index.broken /\ pc # "undefined"
      /\ \A m \in Expiring : index'.heap.next[m] = index.heap.next[m]
  BY InvFacts DEF KeepsTaken, Expiring, Defined
<1>1. CASE /\ pc' = pc /\ cur' = cur
           /\ pc = "expire_tree" => index' = index
  <2>1. pc = "deliver" => cur = STACK \/ cur \in Expiring
    BY <1>0 DEF StackOK, Chain
  <2> QED BY ONLY <1>0, <1>1, <2>1, NoneLost DEF NoneLost
<1>2. CASE pc \notin {"expire_tree", "deliver"}
  <2>1. Expiring' = {}
    BY <1>0, <1>2 DEF NoneLost
  <2> QED BY ONLY <2>1 DEF NoneLost
<1>3. CASE pc' = "undefined"
  BY ONLY <1>3 DEF NoneLost
<1> QED BY <1>1, <1>2, <1>3

\* One more node is taken out of the tree: it is in front of the first, and the
\* one that was there before is dropped.
LEMMA ExpireLost ==
    ASSUME PollerInv, Defined, NoneLost, poller_handle_timeout_tree
    PROVE  NoneLost'
<1>0. /\ TableTypes /\ Kinds /\ StackOK /\ bad \in BOOLEAN
      /\ Held(index, Waiting) /\ index \in IndexSet
      /\ Waiting \subseteq Nodes /\ Taken \subseteq Nodes
      /\ index.dropped \subseteq Taken /\ ~index.broken
  BY InvFacts DEF Defined
<1>n. PICK n : n = index.tree_first
  OBVIOUS
<1>y. PICK y : y = TakeExpired(index)
  OBVIOUS
<1>1. /\ pc = "expire_tree" /\ n # NULL /\ Commit(y, {n}) /\ thread' = thread
      /\ pipe' = pipe /\ cb' = cb
      /\ \/ /\ node[n].fd # NULL
            /\ nodes' = [nodes EXCEPT ![node[n].fd] = NULL] /\ node' = node
         \/ /\ node[n].fd = NULL
            /\ node' = [node EXCEPT ![n].removed = TRUE] /\ nodes' = nodes
  BY <1>n, <1>y DEF poller_handle_timeout_tree, table
<1>a. PICK a : a = index.heap.prev[STACK]
  OBVIOUS
<1>b. PICK b : b = index.heap.next[STACK]
  OBVIOUS
<1>3. \/ a = STACK /\ b = STACK
      \/ /\ a \in Expiring /\ index.heap.next[a] = STACK /\ index.heap.prev[a] = STACK
         /\ b = a \/ (b \in Expiring /\ index.heap.next[b] = a)
  BY <1>0, <1>1, <1>a, <1>b DEF StackOK, Making
<1>4. n \in Waiting /\ n \in Nodes
  <2>1. TreeHolds(index, Waiting) /\ index.tree \in Seq(Nodes)
    BY <1>0 DEF Held, IndexSet
  <2>2. n = First(index.tree) /\ index.tree # <<>>
    BY ONLY <2>1, <1>n, <1>1 DEF TreeHolds, First
  <2>3. 1 \in DOMAIN index.tree /\ n = index.tree[1]
    BY ONLY <2>1, <2>2 DEF First
  <2>4. n \in Waiting
    BY ONLY <2>1, <2>3 DEF TreeHolds
  <2> QED BY <2>4, <1>0
<1>5. n \notin Taken /\ a # n /\ a \in Cells
  <2>1. n \notin Taken
    BY ONLY <1>0, <1>4, Apart
  <2> QED BY <2>1, <1>0, <1>3, <1>4, CellFacts DEF Expiring
<1>6. Expelled(index, y, n, Waiting)
  <2>1. /\ a = STACK => index.heap.next[STACK] = STACK
        /\ a # STACK => /\ index.heap.next[a] = STACK /\ index.heap.prev[a] = STACK
                        /\ index.heap.next[STACK] \in Nodes
    BY ONLY <1>0, <1>3, <1>b DEF Expiring
  <2>2. index \in IndexSet /\ Held(index, Waiting) /\ n # NULL /\ a \in Cells /\ a # n
    BY ONLY <1>0, <1>1, <1>5
  <2> QED BY ONLY <2>1, <2>2, <1>n, <1>a, <1>y, TakeHeld
<1>7. Taken' = Taken \cup {n}
  <2>1. Moved(Waiting \ {n}, Piped, Taken \cup {n}, {n})
    BY ONLY <1>0, <1>1, <1>4, ExpireMoves
  <2> QED BY ONLY <2>1 DEF Moved
<1>8. /\ index'.heap.next[STACK] = n /\ (a # STACK => index'.heap.prev[STACK] = a)
      /\ index'.dropped = IF b # a THEN index.dropped \cup {b} ELSE index.dropped
  <2>1. index' = [y EXCEPT !.touched = {}] /\ y \in IndexSet
    BY <1>1, <1>6 DEF Commit, Expelled
  <2>2. index'.heap = y.heap /\ index'.dropped = y.dropped
    BY ONLY <2>1 DEF IndexSet
  <2> QED BY ONLY <1>6, <1>a, <1>b, <2>2 DEF Expelled
<1>9. \A m \in Expiring : (m = a \/ m = b) /\ a # STACK
  <2>1. \A m \in Expiring : m = a \/ m = b
    BY <1>0, <1>1, <1>a, <1>b DEF NoneLost
  <2>2. \A m \in Expiring : m # STACK
    BY <1>0, CellFacts DEF Expiring
  <2> QED BY ONLY <1>3, <2>1, <2>2
<1>10. \A m \in Expiring' : m = n \/ (m = a /\ a # STACK)
  BY ONLY <1>7, <1>8, <1>9 DEF Expiring
<1>11. pc' = "expire_tree"
  BY <1>1 DEF thread
<1> QED BY ONLY <1>8, <1>10, <1>11 DEF NoneLost

\* The list is complete.
LEMMA UnlockLost ==
    ASSUME PollerInv, Defined, NoneLost, poller_handle_timeout_unlock
    PROVE  NoneLost'
<1>0. StackOK /\ Taken \subseteq Nodes /\ ~index.broken
  BY InvFacts DEF Defined
<1>1. Expiring' = Expiring
  <2>1. Kept
    BY ONLY PollerInv, poller_handle_timeout_unlock, UnlockKeeps
  <2> QED BY <2>1 DEF Kept, KeepsTaken, Expiring
<1>2. /\ pc = "expire_tree" /\ pc' = "deliver" /\ cur' = index.heap.next[STACK]
      /\ index' = index
  BY DEF poller_handle_timeout_unlock
<1>3. Making
  BY <1>0, <1>2 DEF StackOK
<1>4. ASSUME NEW m \in Expiring
      PROVE  /\ index.heap.next[STACK] # STACK
             /\ \/ m = index.heap.next[STACK]
                \/ m = index.heap.next[index.heap.next[STACK]]
  <2>1. m = index.heap.prev[STACK] \/ m = index.heap.next[STACK]
    BY <1>0, <1>2 DEF NoneLost
  <2>2. STACK \notin Expiring
    BY <1>0, CellFacts DEF Expiring
  <2> QED BY ONLY <1>3, <2>1, <2>2, m \in Expiring DEF Making
<1> QED BY ONLY <1>1, <1>2, <1>4 DEF NoneLost

\* The first node of the list goes to the callback, and the second is next.
LEMMA DeliverLost ==
    ASSUME PollerInv, Defined, NoneLost, poller_handle_timeout_deliver
    PROVE  NoneLost'
<1>0. /\ StackOK /\ Taken \subseteq Nodes /\ index \in IndexSet
      /\ ~index.broken /\ Held(index, Waiting)
  BY InvFacts DEF Defined
<1>1. /\ pc = "deliver" /\ nodes' = nodes /\ pipe' = pipe
  BY DEF poller_handle_timeout_deliver, table
<1>2. CASE /\ cur = STACK /\ pc' = "timer" /\ node' = node /\ cb' = cb
           /\ Commit([index EXCEPT !.heap = list_init(index.heap, STACK)], {})
  <2>1. Expiring = {}
    BY <1>0, <1>1, <1>2 DEF NoneLost
  <2>2. Moved(Waiting, Piped, Taken, {})
    BY ONLY PollerInv, <1>1, <1>2, NothingMoves
  <2>3. Taken' = Taken
    BY <2>2 DEF Moved
  <2>4. index'.dropped = index.dropped
    BY <1>0, <1>2 DEF Commit, IndexSet
  <2> QED BY ONLY <1>2, <2>1, <2>3, <2>4 DEF NoneLost, Expiring
<1>3. CASE pc' = "undefined"
  BY ONLY <1>3 DEF NoneLost
<1>4. CASE /\ cur # STACK /\ cur' = index.heap.next[cur] /\ pc' = pc
           /\ node' = [node EXCEPT ![cur] = NoNode("gone")]
           /\ cb' = [cb EXCEPT ![cur] = @ + 1] /\ index' = Forget(index, {cur})
  <2>n. PICK n : n = cur
    OBVIOUS
  <2>0. Chain(n)
    BY <1>0, <1>1, <2>n DEF StackOK
  <2>1. n \in Taken /\ n \notin index.dropped
    BY ONLY <2>0, <2>n, <1>4 DEF Chain, Expiring
  <2>2. Expiring' = Expiring \ {n}
    <3>1. /\ node' = [node EXCEPT ![n] = NoNode("gone")]
          /\ cb' = [cb EXCEPT ![n] = @ + 1]
          /\ index' = Forget(index, {n})
      BY <1>4, <2>n
    <3> QED BY ONLY PollerInv, <1>1, <2>1, <3>1, NextDelivered
  <2>3. \A m \in Expiring' : m = cur'
    BY <1>0, <1>1, <1>4, <2>2, <2>n DEF NoneLost
  <2>4. \A m \in Expiring' : m # STACK
    BY <2>2, <1>0, CellFacts DEF Expiring
  <2> QED BY ONLY <1>1, <1>4, <2>3, <2>4 DEF NoneLost
<1> QED BY ONLY poller_handle_timeout_deliver, <1>2, <1>3, <1>4
        DEF poller_handle_timeout_deliver

\* Every step loses no node but those it drops.
LEMMA NextLost ==
    ASSUME PollerInv, NoneLost, [Next]_vars
    PROVE  NoneLost'
<1>1. CASE Defined /\ Call
  <2>1. KeepsTaken
    BY ONLY <1>1, PollerInv, CallsKeep DEF Kept
  <2>2. CASE poller_start
    <3>1. pc = "off"
      BY <2>2 DEF poller_start
    <3> QED BY ONLY <3>1, <2>1, <1>1, PollerInv, NoneLost, KeptLost
  <2>3. CASE poller_stop
    <3>1. pc' = pc /\ cur' = cur /\ index' = index
      BY <2>3 DEF poller_stop, thread
    <3> QED BY ONLY <3>1, <2>1, <1>1, PollerInv, NoneLost, KeptLost
  <2>4. CASE ~poller_start /\ ~poller_stop
    <3>1. thread' = thread /\ pc # "expire_tree"
      BY ONLY <1>1, <2>4, ZenonT(30) DEF Call, poller_add, poller_del, poller_mod,
              poller_set_timeout, poller_add_timer, poller_del_timer, Unlocked
    <3>2. pc' = pc /\ cur' = cur
      BY <3>1 DEF thread
    <3> QED BY ONLY <3>1, <3>2, <2>1, <1>1, PollerInv, NoneLost, KeptLost
  <2> QED BY <2>2, <2>3, <2>4
<1>2. CASE Defined /\ Stopping
  <2>1. KeepsTaken
    BY ONLY <1>2, PollerInv, JoinKeeps, PipeKeeps DEF Kept, Stopping
  <2>2. (pc' = pc /\ cur' = cur /\ index' = index) \/ pc' = "undefined"
    BY <1>2 DEF Stopping, poller_stop_join, poller_stop_drain, thread
  <2> QED BY ONLY <2>1, <2>2, <1>2, PollerInv, NoneLost, KeptLost
<1>3. CASE Defined /\ Thread
  <2>1. CASE poller_handle_timeout_tree
    BY ONLY <2>1, <1>3, PollerInv, NoneLost, ExpireLost
  <2>2. CASE poller_handle_timeout_unlock
    BY ONLY <2>2, <1>3, PollerInv, NoneLost, UnlockLost
  <2>3. CASE poller_handle_timeout_deliver
    BY ONLY <2>3, <1>3, PollerInv, NoneLost, DeliverLost
  <2>4. CASE poller_set_timer \/ poller_wait \/ poller_events_done
    <3>1. KeepsTaken
      BY ONLY <2>4, PollerInv, TimerKeeps, WaitKeeps, EventsDoneKeeps DEF Kept
    <3>2. pc \notin {"expire_tree", "deliver"}
      BY <2>4 DEF poller_set_timer, poller_wait, poller_events_done, AfterEvents
    <3> QED BY ONLY <3>1, <3>2, <1>3, PollerInv, NoneLost, KeptLost
  <2>5. ASSUME NEW n \in Nodes, poller_event(n) PROVE NoneLost'
    <3>1. KeepsTaken
      BY ONLY <2>5, PollerInv, EventKeeps DEF Kept
    <3>2. pc \notin {"expire_tree", "deliver"}
      BY <2>5 DEF poller_event
    <3> QED BY ONLY <3>1, <3>2, <1>3, PollerInv, NoneLost, KeptLost
  <2>6. CASE \/ poller_handle_read \/ poller_handle_write \/ poller_handle_listen
             \/ poller_handle_recvfrom \/ poller_handle_event \/ poller_handle_connect
    <3>1. KeepsTaken
      BY ONLY <2>6, PollerInv, HandlersKeep DEF Kept
    <3>2. pc \notin {"expire_tree", "deliver"}
      BY <2>6 DEF poller_handle_read, poller_handle_write, poller_handle_listen,
              poller_handle_recvfrom, poller_handle_event, poller_handle_connect, Handling
    <3> QED BY ONLY <3>1, <3>2, <1>3, PollerInv, NoneLost, KeptLost
  <2>7. CASE \/ poller_remove_read \/ poller_remove_node \/ poller_handle_pipe
             \/ poller_handle_timeout
    <3>1. KeepsTaken
      BY ONLY <1>3, <2>7, PollerInv, RemoveReadKeeps, RemoveKeeps, PipeKeeps,
              HandleTimeoutKeeps DEF Kept
    <3>2. pc \notin {"expire_tree", "deliver"}
      BY <2>7 DEF poller_remove_read, poller_remove_node, poller_handle_pipe,
              poller_handle_timeout
    <3> QED BY ONLY <3>1, <3>2, <1>3, PollerInv, NoneLost, KeptLost
  <2> QED BY ONLY <1>3, <2>1, <2>2, <2>3, <2>4, <2>5, <2>6, <2>7 DEF Thread
<1>4. CASE Defined /\ Tick
  <2>1. KeepsTaken
    BY ONLY <1>4, PollerInv, TickKeeps DEF Kept
  <2>2. pc' = pc /\ cur' = cur /\ index' = index
    BY <1>4 DEF Tick, thread
  <2> QED BY ONLY <1>4, <2>1, <2>2, PollerInv, NoneLost, KeptLost
<1>5. CASE UNCHANGED vars
  <2>1. /\ pc' = pc /\ cur' = cur /\ index' = index /\ node' = node /\ nodes' = nodes
        /\ pipe' = pipe
    BY <1>5 DEF vars, table, thread
  <2>2. Expiring' = Expiring
    BY ONLY <2>1 DEF Expiring, Taken, Watched, Piped
  <2> QED BY ONLY <2>1, <2>2, NoneLost DEF NoneLost
<1> QED BY ONLY [Next]_vars, <1>1, <1>2, <1>3, <1>4, <1>5 DEF Next

\* The nodes of the list that begins at cell c.
Line(c) == IF c = STACK THEN {} ELSE {c, index.heap.next[c]} \ {STACK}

\* A chain of expired nodes has at most two, so that what is reachable from its
\* first cell can be written down.
LEMMA BehindIsLine ==
    ASSUME index \in IndexSet, NEW c, Chain(c)
    PROVE  Behind(c) \ Heads = Line(c)
<1>0. /\ Expiring \subseteq Nodes /\ STACK \in Heads /\ Nodes \subseteq Cells
      /\ STACK \in Cells /\ Heads \cap Nodes = {}
  BY CellFacts, PollerAssumption DEF Expiring, Taken
<1>d. PICK d : d = index.heap.next[c]
  OBVIOUS
<1>1. CASE c = STACK
  <2>1. {STACK} \in SUBSET Cells /\ \A e \in {STACK} \ Heads : index.heap.next[e] \in {STACK}
    BY <1>0
  <2>2. Behind(c) \subseteq {STACK}
    BY <1>1, <2>1 DEF Behind
  <2> QED BY <1>0, <1>1, <2>2 DEF Line
<1>2. CASE c # STACK
  <2>1. c \in Expiring /\ (d = STACK \/ (d \in Expiring /\ index.heap.next[d] = STACK))
    BY <1>2, <1>d DEF Chain
  <2>2. c \in Nodes /\ c \in Cells /\ d \in Cells /\ c \notin Heads
    BY <2>1, <1>0
  <2>s. PICK S : S = {c, d, STACK}
    OBVIOUS
  <2>3. S \in SUBSET Cells /\ c \in S
    BY <2>s, <2>2, <1>0
  <2>4. \A e \in S \ Heads : index.heap.next[e] \in S
    BY ONLY <2>s, <2>1, <1>d, <1>0
  <2>5. Behind(c) \subseteq S
    BY ONLY <2>3, <2>4 DEF Behind
  <2>6. c \in Behind(c) /\ d \in Behind(c)
    BY ONLY <2>2, <1>d DEF Behind
  <2>7. Line(c) = {c, d} \ {STACK}
    BY ONLY <1>2, <1>d DEF Line
  <2>8. d \in Heads => d = STACK
    BY <1>0, <2>1
  <2>9. \A e : e \in Behind(c) \ Heads <=> e \in {c, d} \ {STACK}
    BY ONLY <2>2, <2>5, <2>6, <2>8, <2>s, <1>0
  <2> QED BY ONLY <2>7, <2>9
<1> QED BY <1>1, <1>2

\* A node that expired is on its way to the callback, and no other node is.
LEMMA ExpiredIsThese ==
    ASSUME PollerInv, Defined, NoneLost
    PROVE  Expired = Expiring
<1>0. /\ StackOK /\ index \in IndexSet /\ Expiring \subseteq Nodes /\ STACK \notin Nodes
      /\ ~index.broken /\ pc # "undefined"
  BY InvFacts, CellFacts DEF Expiring, Defined
<1>1. ASSUME NEW c, Chain(c),
             \A m \in Expiring : c # STACK /\ (m = c \/ m = index.heap.next[c])
      PROVE  Behind(c) \ Heads = Expiring
  <2>1. Behind(c) \ Heads = Line(c)
    BY ONLY <1>0, <1>1, BehindIsLine
  <2>2. Line(c) \subseteq Expiring
    BY ONLY <1>1 DEF Chain, Line
  <2>3. Expiring \subseteq Line(c)
    BY ONLY <1>0, <1>1 DEF Line
  <2> QED BY ONLY <2>1, <2>2, <2>3
<1>2. CASE pc = "expire_tree"
  <2>c. PICK c : c = index.heap.next[STACK]
    OBVIOUS
  <2>1. Making
    BY <1>0, <1>2 DEF StackOK
  <2>2. Chain(c)
    BY <2>1, <2>c DEF Making, Chain
  <2>3. \A m \in Expiring : m = index.heap.prev[STACK] \/ m = c
    BY <1>0, <1>2, <2>c DEF NoneLost
  <2>4. \A m \in Expiring : m # STACK
    BY <1>0
  <2>5. \A m \in Expiring : c # STACK /\ (m = c \/ m = index.heap.next[c])
    BY ONLY <2>1, <2>3, <2>4, <2>c DEF Making
  <2>6. Behind(c) \ Heads = Expiring
    BY ONLY <1>1, <2>2, <2>5
  <2>7. Expired = Behind(index.heap.next[STACK]) \ Heads
    BY ONLY <1>2 DEF Expired
  <2> QED BY ONLY <2>6, <2>7, <2>c
<1>3. CASE pc = "deliver"
  <2>c. PICK c : c = cur
    OBVIOUS
  <2>1. Chain(c)
    BY <1>0, <1>3, <2>c DEF StackOK
  <2>2. \A m \in Expiring : c # STACK /\ (m = c \/ m = index.heap.next[c])
    BY <1>0, <1>3, <2>c DEF NoneLost
  <2>3. Behind(c) \ Heads = Expiring
    BY ONLY <1>1, <2>1, <2>2
  <2>4. Expired = Behind(cur) \ Heads
    BY ONLY <1>3 DEF Expired
  <2> QED BY ONLY <2>3, <2>4, <2>c
<1>4. CASE pc # "expire_tree" /\ pc # "deliver"
  <2>1. Expired = {}
    BY ONLY <1>4 DEF Expired
  <2>2. Expiring = {}
    BY <1>0, <1>4 DEF NoneLost
  <2> QED BY <2>1, <2>2
<1> QED BY <1>2, <1>3, <1>4

\* A node is in the pipe once or not at all.
LEMMA TimesInPipe ==
    ASSUME TableTypes, Kinds, NEW n \in Nodes
    PROVE  Cardinality({i \in DOMAIN pipe : pipe[i] = n}) = IF n \in Piped THEN 1 ELSE 0
<1>1. CASE n \in Piped
  <2>1. PICK i \in DOMAIN pipe : pipe[i] = n
    BY <1>1 DEF Piped
  <2>2. \A j \in DOMAIN pipe : pipe[j] = n => j = i
    BY <2>1, CellFacts DEF Kinds
  <2>3. {j \in DOMAIN pipe : pipe[j] = n} = {i}
    BY <2>1, <2>2
  <2>4. Cardinality({i}) = 1
    BY FS_Singleton
  <2> QED BY <1>1, <2>3, <2>4
<1>2. CASE n \notin Piped
  <2>1. {j \in DOMAIN pipe : pipe[j] = n} = {}
    BY <1>2 DEF Piped
  <2>2. Cardinality({}) = 0
    BY FS_EmptySet
  <2> QED BY <1>2, <2>1, <2>2
<1> QED BY <1>1, <1>2

\* The invariant and NoneLost put every node in one place.
LEMMA OnePlaceFollows ==
    ASSUME PollerInv, NoneLost
    PROVE  OnePlace
<1> SUFFICES ASSUME NEW n \in Nodes \ Unused
             PROVE  /\ Places(n) <= 1
                    /\ Defined => Places(n) + (IF n \in Expired THEN 1 ELSE 0)
                                            + (IF n \in index.dropped THEN 1 ELSE 0) = 1
  BY Zenon DEF OnePlace
<1>0. /\ TableTypes /\ Kinds /\ n \in Nodes /\ node[n].op # "none"
      /\ index.dropped \subseteq Taken
  BY InvFacts DEF Unused
<1>1. Defined => Expired = Taken \ index.dropped
  BY ONLY PollerInv, NoneLost, ExpiredIsThese DEF Expiring
<1>2. Cardinality({i \in DOMAIN pipe : pipe[i] = n}) = IF n \in Piped THEN 1 ELSE 0
  BY ONLY <1>0, TimesInPipe
<1>3. Watched(n) <=> n \in Waiting
  BY <1>0 DEF Waiting
<1>4. cb[n] = IF node[n].op = "gone" THEN 1 ELSE 0
  BY <1>0 DEF Kinds
<1>5. /\ n \in Waiting => n \notin Piped /\ cb[n] = 0
      /\ n \in Piped => cb[n] = 0
      /\ n \in Taken => n \notin Waiting /\ n \notin Piped /\ cb[n] = 0
      /\ node[n].op = "gone" => n \notin Waiting /\ n \notin Piped /\ n \notin Taken
      /\ node[n].op = "gone" \/ n \in Waiting \/ n \in Piped \/ n \in Taken
  BY ONLY <1>0, Apart
<1>6. Places(n) = IF n \in Taken THEN 0 ELSE 1
  BY ONLY <1>2, <1>3, <1>4, <1>5 DEF Places
<1>7. Defined => (n \in Taken <=> n \in Expired \/ n \in index.dropped)
                 /\ ~(n \in Expired /\ n \in index.dropped)
  BY ONLY <1>0, <1>1
<1> QED BY ONLY <1>6, <1>7

-----------------------------------------------------------------------------
(* Theorems *)

\* Whatever callers do, epoll watches exactly the nodes of the table: each call
\* and each step of the thread that changes one changes the other.
THEOREM TableAndEpoll == Spec => []TableMatchesEpoll
<1>1. Init => epoll = nodes
  BY DEF Init
<1>2. epoll = nodes /\ [Next]_vars => (epoll = nodes)'
  <2> SUFFICES ASSUME epoll = nodes, [Next]_vars PROVE epoll' = nodes'
    OBVIOUS
  <2>1. CASE Call
    <3>1. ASSUME NEW f \in Fds, NEW o, NEW message, NEW t, poller_add(f, o, message, t)
          PROVE  epoll' = nodes'
      BY ONLY <3>1, epoll = nodes DEF poller_add, Watch
    <3>2. ASSUME NEW f \in Fds, NEW o, NEW message, NEW t, poller_mod(f, o, message, t)
          PROVE  epoll' = nodes'
      BY ONLY <3>2, epoll = nodes DEF poller_mod, Watch
    <3>3. ASSUME NEW f \in Fds, poller_del(f) PROVE epoll' = nodes'
      BY ONLY <3>3, epoll = nodes DEF poller_del, Watch
    <3>4. ASSUME NEW f \in Fds, NEW t, poller_set_timeout(f, t) PROVE epoll' = nodes'
      BY ONLY <3>4, epoll = nodes DEF poller_set_timeout, table
    <3>5. ASSUME NEW t, poller_add_timer(t) PROVE epoll' = nodes'
      BY ONLY <3>5, epoll = nodes DEF poller_add_timer, table
    <3>6. ASSUME NEW n \in Nodes, poller_del_timer(n) PROVE epoll' = nodes'
      BY ONLY <3>6, epoll = nodes DEF poller_del_timer, table
    <3>7. CASE poller_start \/ poller_stop
      BY ONLY <3>7, epoll = nodes DEF poller_start, poller_stop, table
    <3> QED BY ONLY <2>1, <3>1, <3>2, <3>3, <3>4, <3>5, <3>6, <3>7 DEF Call
  <2>2. CASE Stopping
    BY <2>2 DEF Stopping, poller_stop_join, poller_stop_drain, table
  <2>3. CASE Thread
    <3>1. ASSUME NEW s, Goto(s) PROVE epoll' = nodes'
      BY ONLY <3>1, epoll = nodes DEF Goto, table
    <3>2. CASE \/ poller_handle_read \/ poller_handle_write \/ poller_handle_listen
               \/ poller_handle_recvfrom \/ poller_handle_event \/ poller_handle_connect
      BY ONLY <3>1, <3>2 DEF poller_handle_read, poller_handle_write,
              poller_handle_listen, poller_handle_recvfrom, poller_handle_event,
              poller_handle_connect, Produce
    <3>3. ASSUME NEW n \in Nodes, poller_event(n) PROVE epoll' = nodes'
      BY ONLY <3>3, epoll = nodes DEF poller_event, table
    <3>4. CASE poller_remove_node
      BY ONLY <3>4, epoll = nodes DEF poller_remove_node, Watch, table
    <3>5. CASE poller_handle_timeout_tree
      BY ONLY <3>5, epoll = nodes DEF poller_handle_timeout_tree, Watch, table
    <3>6. CASE \/ poller_set_timer \/ poller_wait \/ poller_events_done
               \/ poller_remove_read \/ poller_handle_pipe \/ poller_handle_timeout
               \/ poller_handle_timeout_unlock \/ poller_handle_timeout_deliver
      <4>1. nodes' = nodes /\ epoll' = epoll
        BY ONLY <3>6 DEF poller_set_timer, poller_wait, poller_events_done,
                poller_remove_read, poller_handle_pipe, poller_handle_timeout,
                poller_handle_timeout_unlock, poller_handle_timeout_deliver, table
      <4> QED BY <4>1
    <3> QED BY ONLY <2>3, <3>2, <3>3, <3>4, <3>5, <3>6 DEF Thread
  <2>4. CASE Tick \/ UNCHANGED vars
    BY <2>4 DEF Tick, vars, table
  <2> QED BY ONLY [Next]_vars, <2>1, <2>2, <2>3, <2>4 DEF Next
<1>3. epoll = nodes => TableMatchesEpoll
  BY DEF TableMatchesEpoll
<1> QED BY <1>1, <1>2, <1>3, PTL DEF Spec

\* The variables have their types.
THEOREM PollerTyped == Spec => []TypeOK
<1>1. Spec => []PollerInv
  BY AlwaysInv
<1>2. PollerInv => TypeOK
  <2> SUFFICES ASSUME PollerInv PROVE TypeOK
    OBVIOUS
  <2>1. TableTypes /\ ThreadTypes /\ epoll = nodes /\ index \in IndexSet
        /\ index.touched = {} /\ bad \in BOOLEAN
    BY InvFacts
  <2>2. /\ nodes \in [Fds -> Nodes \cup {NULL}] /\ epoll \in [Fds -> Nodes \cup {NULL}]
        /\ node \in [Nodes ->
              [fd : Fds \cup {NULL}, op : Operations \cup {"none", "timer", "gone"},
               removed : BOOLEAN, res : BOOLEAN]]
        /\ pipe \in Seq(Nodes \cup {NULL}) /\ cb \in [Nodes -> Nat]
    BY ONLY <2>1 DEF TableTypes, NodeSet
  <2>3. /\ index.heap.next \in [Cells -> Cells] /\ index.heap.prev \in [Cells -> Cells]
        /\ index.tree \in Seq(Nodes)
        /\ index.tree_first \in Nodes \cup {NULL}
        /\ index.tree_last \in Nodes \cup {NULL}
        /\ index.in_rbtree \in SUBSET Nodes
        /\ index.timeout \in [Nodes -> Nat]
        /\ index.timer \in Nat
        /\ index.listed \in SUBSET Nodes /\ index.dropped \in SUBSET Nodes
        /\ index.broken \in BOOLEAN
    BY ONLY <2>1 DEF IndexSet
  <2>4. bad \in BOOLEAN /\ now \in Nat
    BY ONLY <2>1 DEF ThreadTypes
  <2> QED BY ONLY <2>1, <2>2, <2>3, <2>4, Zenon DEF TypeOK, ThreadTypes
<1> QED BY <1>1, <1>2, PTL

\* Whatever becomes of the lists, until the program is undefined the tree is in
\* order, tree_first and tree_last are its ends, and in_rbtree tells for every
\* watched node whether it is in the tree.
THEOREM TreeIsCoherent == Spec => []TreeCoherent
<1>1. Spec => []PollerInv
  BY AlwaysInv
<1>2. PollerInv => TreeCoherent
  <2> SUFFICES ASSUME PollerInv PROVE TreeCoherent
    OBVIOUS
  <2>1. TreeHolds(index, Waiting)
    BY InvFacts DEF Held
  <2>2. \A n \in Nodes : Watched(n) => n \in Waiting
    BY DEF Waiting
  <2> QED BY ONLY <2>1, <2>2 DEF TreeHolds, Sorted, Has, TreeCoherent
<1> QED BY <1>1, <1>2, PTL

\* No node is given to the callback twice, not even by del or mod in the thread's
\* way; and until the program is undefined each is in one place, or was dropped by
\* the local list of expired nodes.
THEOREM NodesInOnePlace == Spec => []OnePlace
<1>1. Spec => []PollerInv
  BY AlwaysInv
<1>2. Init => NoneLost
  <2> SUFFICES ASSUME Init PROVE NoneLost
    OBVIOUS
  <2>1. \A n \in Nodes : node[n].op = "none"
    BY DEF Init, NoNode
  <2>2. Taken = {} /\ pc = "off"
    BY <2>1 DEF Taken, Init
  <2> QED BY ONLY <2>2 DEF NoneLost, Expiring
<1>3. PollerInv /\ NoneLost /\ [Next]_vars => NoneLost'
  BY NextLost
<1>4. PollerInv /\ NoneLost => OnePlace
  BY OnePlaceFollows
<1> QED BY <1>1, <1>2, <1>3, <1>4, PTL DEF Spec
=============================================================================
