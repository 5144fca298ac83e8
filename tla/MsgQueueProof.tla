--------------------------- MODULE MsgQueueProof ----------------------------
(***************************************************************************)
(* Proofs about the message queue, for any number of threads and messages, *)
(* any limit and with or without spurious wakeups.                         *)
(***************************************************************************)
EXTENDS MsgQueue, SequenceTheorems, TLAPS

\* notify_one moves at most one thread, from swap_wait to swap, and does so
\* if there is one.
LEMMA NotifyGetStates ==
    ASSUME NEW f \in [Threads -> States], NEW g \in NotifyGet(f)
    PROVE  /\ g \in [Threads -> States]
           /\ \A u \in Threads : \/ g[u] = f[u]
                                 \/ f[u] = "swap_wait" /\ g[u] = "swap"
           /\ \A u \in Threads : f[u] = "swap_wait" =>
                  \E w \in Threads : f[w] = "swap_wait" /\ g[w] = "swap"
BY DEF NotifyGet, States, GetStates

\* A call of thread t that notifies get_cond and returns.
LEMMA NotifyAndReturn ==
    ASSUME pc \in [Threads -> States], NEW t \in Threads,
           NEW g \in NotifyGet(Return(t))
    PROVE  /\ g \in [Threads -> States]
           /\ \A u \in Threads :
                 \/ u = t /\ g[u] = "idle"
                 \/ u # t /\ g[u] = pc[u]
                 \/ u # t /\ pc[u] = "swap_wait" /\ g[u] = "swap"
           /\ \A u \in Threads \ {t} : pc[u] = "swap_wait" =>
                  \E w \in Threads : pc[w] = "swap_wait" /\ g[w] = "swap"
<1>1. /\ Return(t) \in [Threads -> States]
      /\ Return(t)[t] = "idle"
      /\ \A u \in Threads \ {t} : Return(t)[u] = pc[u]
  BY DEF Return, States
<1> QED BY <1>1, NotifyGetStates

\* notify_all moves every thread that waits on put_cond, and no other.
LEMMA NotifyPutStates ==
    ASSUME NEW f \in [Threads -> States]
    PROVE  /\ NotifyPut(f) \in [Threads -> States]
           /\ \A u \in Threads :
                 \/ f[u] = "put_wait" /\ NotifyPut(f)[u] = "put_wake"
                 \/ f[u] = "ph_wait" /\ NotifyPut(f)[u] = "ph_wake"
                 \/ /\ f[u] \notin {"put_wait", "ph_wait"}
                    /\ NotifyPut(f)[u] = f[u]
BY DEF NotifyPut, States, PutStates, PutHeadStates

\* The put list after put, and its length.
LEMMA AppendAtTail ==
    ASSUME NEW s \in Seq(Msgs), NEW n \in 0 .. Len(s), NEW m \in Msgs
    PROVE  /\ Append(SubSeq(s, 1, n), m) \in Seq(Msgs)
           /\ Len(Append(SubSeq(s, 1, n), m)) = n + 1
           /\ n = Len(s) => SubSeq(s, 1, n) = s
<1>1. SubSeq(s, 1, n) \in Seq(Msgs) /\ Len(SubSeq(s, 1, n)) = n
  <2>1. \A i \in 1 .. n : s[i] \in Msgs
    BY ElementOfSeq
  <2> QED BY <2>1, SubSeqProperties
<1>2. n = Len(s) => SubSeq(s, 1, n) = s
  BY SubSeqFull
<1> QED BY <1>1, <1>2, AppendProperties

\* The list after a message was put in front, and its length.
LEMMA ConsProps ==
    ASSUME NEW s \in Seq(Msgs), NEW m \in Msgs
    PROVE  /\ <<m>> \o s \in Seq(Msgs)
           /\ Len(<<m>> \o s) = Len(s) + 1
           /\ <<m>> \o s # <<>>
<1>1. <<m>> \in Seq(Msgs) /\ Len(<<m>>) = 1
  OBVIOUS
<1>2. Len(<<m>> \o s) # 0
  BY <1>1, ConcatProperties, LenProperties
<1> QED BY <1>1, <1>2, ConcatProperties, LenProperties

-----------------------------------------------------------------------------
(* Type correctness.  No assumption on who calls what is needed.           *)

LEMMA TypeInit == Init => TypeOK
<1> SUFFICES ASSUME Init PROVE TypeOK
  OBVIOUS
<1>1. <<>> \in Seq(Msgs) /\ Len(<<>>) = 0
  OBVIOUS
<1>2. /\ getq \in Seq(Msgs) /\ putq \in Seq(Msgs) /\ delivered \in Seq(Msgs)
      /\ put_tail \in 0 .. Len(putq)
      /\ msg_cnt \in Nat
  BY <1>1 DEF Init
<1>3. /\ snap \in [Threads -> Seq(Msgs)]
      /\ msg \in [Threads -> Msgs \cup {NULL}]
      /\ unsent \in SUBSET Msgs
      /\ nonblock \in BOOLEAN
  BY <1>1 DEF Init
<1> QED
  BY <1>2, <1>3
  DEF Init, TypeOK, States, PutStates, PutHeadStates, GetStates, Carrying

\* Lines 49-55 keep the types.
LEMMA TypePutLocked ==
    ASSUME TypeOK, NEW t \in Putters, NEW m \in Msgs, PutLocked(t, m),
           unsent' \in SUBSET Msgs
    PROVE  TypeOK'
<1> USE DEF PutLocked, lists
<1>0. t \in Threads
  BY DEF Threads
<1>1. CASE PutBlocks
  BY <1>0, <1>1 DEF TypeOK, States, PutStates, PutHeadStates, GetStates, Carrying
<1>2. CASE ~PutBlocks
  <2>1. /\ putq' \in Seq(Msgs)
        /\ Len(putq') = put_tail + 1
    <3>1. putq' = Append(SubSeq(putq, 1, put_tail), m)
      BY <1>2
    <3>2. putq \in Seq(Msgs) /\ put_tail \in 0 .. Len(putq)
      BY DEF TypeOK
    <3> QED BY <3>1, <3>2, AppendAtTail
  <2>2. put_tail' \in 0 .. Len(putq') /\ msg_cnt' \in Nat
    BY <1>2, <2>1 DEF TypeOK
  <2> QED
    BY <1>0, <1>2, <2>1, <2>2
    DEF TypeOK, States, PutStates, PutHeadStates, GetStates, Carrying
<1> QED BY <1>1, <1>2

\* Lines 74-84 keep the types.
LEMMA TypePutHeadAtPut ==
    ASSUME TypeOK, NEW t \in PutHeaders, NEW m \in Msgs, PutHeadAtPut(t, m),
           unsent' \in SUBSET Msgs
    PROVE  TypeOK'
<1> USE DEF PutHeadAtPut, lists
<1>0. t \in Threads
  BY DEF Threads
<1>1. CASE PutHeadBlocks
  BY <1>0, <1>1
  DEF TypeOK, States, PutStates, PutHeadStates, GetStates, Carrying
<1>2. CASE ~PutHeadBlocks
  <2>1. putq' \in Seq(Msgs) /\ Len(putq') = Len(putq) + 1
    BY <1>2, ConsProps DEF TypeOK
  <2>2. put_tail' \in 0 .. Len(putq') /\ msg_cnt' \in Nat
    BY <1>2, <2>1, LenProperties DEF TypeOK, TailAfterPutHead
  <2>4. /\ pc' \in [Threads -> States]
        /\ \A u \in Threads :
              \/ u = t /\ pc'[u] = "idle"
              \/ u # t /\ pc'[u] = pc[u]
              \/ u # t /\ pc[u] = "swap_wait" /\ pc'[u] = "swap"
    <3>1. /\ pc \in [Threads -> States]
          /\ pc' \in NotifyGet(Return(t))
      BY <1>2 DEF TypeOK
    <3> QED BY <1>0, <3>1, NotifyAndReturn
  <2> QED
    BY <1>0, <1>2, <2>1, <2>2, <2>4
    DEF TypeOK, States, PutStates, PutHeadStates, GetStates, Carrying
<1> QED BY <1>1, <1>2

LEMMA TypeNext == TypeOK /\ [Next]_vars => TypeOK'
<1> USE DEF lists
<1> SUFFICES ASSUME TypeOK, [Next]_vars PROVE TypeOK'
  OBVIOUS
<1>1. CASE UNCHANGED vars
  BY <1>1 DEF vars, TypeOK,
      States, PutStates, PutHeadStates, GetStates, Carrying
<1>2. ASSUME NEW t \in Threads, Step(t) PROVE TypeOK'
  <2>1. ASSUME NEW m \in Msgs, msgqueue_put(t, m) PROVE TypeOK'
    BY <2>1, TypePutLocked DEF msgqueue_put, TypeOK,
        States, PutStates, PutHeadStates, GetStates, Carrying
  <2>2. ASSUME NEW m \in Msgs, msgqueue_put_head(t, m) PROVE TypeOK'
    <3> USE <2>2 DEF msgqueue_put_head
    <3>1. CASE getq = <<>>
      BY <3>1, TypePutHeadAtPut DEF TypeOK,
          States, PutStates, PutHeadStates, GetStates, Carrying
    <3>2. CASE getq # <<>>
      BY <3>2 DEF TypeOK,
          States, PutStates, PutHeadStates, GetStates, Carrying
    <3> QED BY <3>1, <3>2
  <2>3. CASE msgqueue_get(t)
    BY <2>3 DEF msgqueue_get, TypeOK,
        States, PutStates, PutHeadStates, GetStates, Carrying
  <2>4. CASE msgqueue_set_nonblock(t)
    BY <2>4 DEF msgqueue_set_nonblock, TypeOK,
        States, PutStates, PutHeadStates, GetStates, Carrying
  <2>5. CASE msgqueue_set_block(t)
    BY <2>5 DEF msgqueue_set_block, TypeOK,
        States, PutStates, PutHeadStates, GetStates, Carrying
  <2>6. CASE SpuriousWakeup(t)
    BY <2>6 DEF SpuriousWakeup, TypeOK,
        States, PutStates, PutHeadStates, GetStates, Carrying
  <2>7. CASE msgqueue_put_woken(t)
    BY <2>7, TypePutLocked DEF msgqueue_put_woken, TypeOK,
        States, PutStates, PutHeadStates, GetStates, Carrying
  <2>8. CASE msgqueue_put_notify(t)
    <3>2. /\ pc' \in [Threads -> States]
          /\ \A u \in Threads : \/ pc'[u] = pc[u]
                                \/ u = t /\ pc'[u] = "idle"
                                \/ pc[u] = "swap_wait" /\ pc'[u] = "swap"
      <4>1. /\ pc \in [Threads -> States]
            /\ pc' \in NotifyGet(Return(t))
        BY <2>8 DEF TypeOK, msgqueue_put_notify
      <4> QED BY <4>1, NotifyAndReturn
    <3> QED BY <2>8, <3>2 DEF msgqueue_put_notify, TypeOK,
        States, PutStates, PutHeadStates, GetStates, Carrying
  <2>9. CASE msgqueue_put_head_retry(t)
    <3> USE <2>9 DEF msgqueue_put_head_retry
    <3>1. CASE getq = <<>>
      BY <3>1, TypePutHeadAtPut DEF TypeOK,
          States, PutStates, PutHeadStates, GetStates, Carrying
    <3>2. CASE getq # <<>>
      BY <3>2 DEF TypeOK,
          States, PutStates, PutHeadStates, GetStates, Carrying
    <3> QED BY <3>1, <3>2
  <2>10. CASE msgqueue_put_head_woken(t)
    BY <2>10, TypePutHeadAtPut DEF msgqueue_put_head_woken, TypeOK,
        States, PutStates, PutHeadStates, GetStates, Carrying
  <2>11. CASE msgqueue_put_head_link(t)
    BY <2>11 DEF msgqueue_put_head_link, TypeOK,
        States, PutStates, PutHeadStates, GetStates, Carrying
  <2>12. CASE msgqueue_put_head_store(t)
    <3>1. getq' \in Seq(Msgs) /\ snap' \in [Threads -> Seq(Msgs)]
      BY <2>12, ConsProps, EmptySeq DEF msgqueue_put_head_store, TypeOK,
          States, PutStates, PutHeadStates, GetStates, Carrying
    <3> QED BY <2>12, <3>1 DEF msgqueue_put_head_store, TypeOK,
        States, PutStates, PutHeadStates, GetStates, Carrying
  <2>13. CASE msgqueue_get_check(t)
    BY <2>13 DEF msgqueue_get_check, TypeOK,
        States, PutStates, PutHeadStates, GetStates, Carrying
  <2>14. CASE msgqueue_swap(t)
    <3> USE <2>14 DEF msgqueue_swap
    <3>1. CASE GetBlocks
      BY <3>1 DEF TypeOK,
          States, PutStates, PutHeadStates, GetStates, Carrying
    <3>2. CASE ~GetBlocks
      <4>1. /\ putq' \in Seq(Msgs) /\ getq' \in Seq(Msgs)
            /\ put_tail' \in 0 .. Len(putq') /\ msg_cnt' \in Nat
        BY <3>2, LenProperties DEF TypeOK, Exchange
      <4>2. AfterExchange(t) \in [Threads -> States]
        BY DEF TypeOK, AfterExchange, States, GetStates
      <4>3. /\ pc' \in [Threads -> States]
            /\ \A u \in Threads : \/ pc'[u] = AfterExchange(t)[u]
                                  \/ /\ AfterExchange(t)[u] = "put_wait"
                                     /\ pc'[u] = "put_wake"
                                  \/ /\ AfterExchange(t)[u] = "ph_wait"
                                     /\ pc'[u] = "ph_wake"
        BY <3>2, <4>2, NotifyPutStates
      <4>4. \A u \in Threads :
               \/ AfterExchange(t)[u] = pc[u]
               \/ AfterExchange(t)[u] \in {"idle", "undefined"}
               \/ u = t /\ AfterExchange(t)[u] = "get_read"
        BY DEF AfterExchange
      <4>5. /\ get_mutex' \in Threads \cup {NULL}
            /\ t \in Getters
        BY <3>2 DEF TypeOK,
            States, PutStates, PutHeadStates, GetStates, Carrying
      <4> QED BY <4>1, <4>3, <4>4, <4>5 DEF TypeOK,
          States, PutStates, PutHeadStates, GetStates, Carrying
    <3> QED BY <3>1, <3>2
  <2>15. CASE msgqueue_get_read(t)
    <3>1. getq # <<>> => Head(getq) \in Msgs
      BY HeadTailProperties DEF TypeOK,
          States, PutStates, PutHeadStates, GetStates, Carrying
    <3> QED BY <2>15, <3>1 DEF msgqueue_get_read, TypeOK,
        States, PutStates, PutHeadStates, GetStates, Carrying
  <2>16. CASE msgqueue_get_next(t)
    <3>1. getq # <<>> => Tail(getq) \in Seq(Msgs)
      BY HeadTailProperties DEF TypeOK,
          States, PutStates, PutHeadStates, GetStates, Carrying
    <3> QED BY <2>16, <3>1 DEF msgqueue_get_next, TypeOK,
        States, PutStates, PutHeadStates, GetStates, Carrying
  <2>17. CASE msgqueue_get_store(t)
    <3>1. delivered' \in Seq(Msgs) /\ snap' \in [Threads -> Seq(Msgs)]
      BY <2>17, AppendProperties, EmptySeq DEF msgqueue_get_store, TypeOK,
          States, PutStates, PutHeadStates, GetStates, Carrying
    <3> QED BY <2>17, <3>1 DEF msgqueue_get_store, TypeOK,
        States, PutStates, PutHeadStates, GetStates, Carrying
  <2>18. CASE msgqueue_set_nonblock_notify(t)
    <3>2. PICK f \in NotifyGet(Return(t)) : pc' = NotifyPut(f)
      BY <2>18 DEF msgqueue_set_nonblock_notify
    <3>3. /\ f \in [Threads -> States]
          /\ \A u \in Threads : \/ f[u] = pc[u]
                                \/ u = t /\ f[u] = "idle"
                                \/ pc[u] = "swap_wait" /\ f[u] = "swap"
      <4>1. pc \in [Threads -> States]
        BY DEF TypeOK
      <4> QED BY <4>1, <3>2, NotifyAndReturn
    <3>4. /\ pc' \in [Threads -> States]
          /\ \A u \in Threads : \/ pc'[u] = f[u]
                                \/ f[u] = "put_wait" /\ pc'[u] = "put_wake"
                                \/ f[u] = "ph_wait" /\ pc'[u] = "ph_wake"
      BY <3>2, <3>3, NotifyPutStates
    <3> QED BY <2>18, <3>3, <3>4 DEF msgqueue_set_nonblock_notify, TypeOK,
        States, PutStates, PutHeadStates, GetStates, Carrying
  <2> QED
    BY <1>2, <2>1, <2>2, <2>3, <2>4, <2>5, <2>6, <2>7, <2>8, <2>9, <2>10,
       <2>11, <2>12, <2>13, <2>14, <2>15, <2>16, <2>17, <2>18
    DEF Step, Continue
<1> QED BY <1>1, <1>2 DEF Next

\* The types hold in every reachable state, also when callers of put_head
\* compete: no count below zero and no tail outside its list.
THEOREM TypeCorrect == Spec => []TypeOK
<1> QED BY TypeInit, TypeNext, PTL DEF Spec

-----------------------------------------------------------------------------
(* The inductive invariant of a queue on which callers of put_head do not  *)
(* compete with anyone for get_mutex.                                      *)

Splicing == {"ph_retry", "ph_link", "ph_store"}

\* The states of a thread that has yet to put its message into a list.
Loaded == {"put_wait", "put_wake"} \cup PutHeadStates

\* Who holds which mutex.
LockInv ==
    /\ \A t \in Threads :
          get_mutex = t <=> pc[t] \in GetStates \cup Splicing
    /\ \A t \in Threads : put_mutex = t <=> pc[t] = "ph_retry"
    /\ Running

\* What a thread knows of the get list at each statement.
ListInv ==
    /\ msg_cnt = Len(putq)
    /\ put_tail = Len(putq)
    /\ \A t \in Threads :
          /\ pc[t] \in {"swap", "swap_wait", "ph_wait", "ph_wake"}
                => getq = <<>>
          /\ pc[t] \in {"get_read", "get_next", "get_store"} \cup Splicing
                => getq # <<>>
          /\ pc[t] \in {"get_next", "get_store"} => msg[t] = Head(getq)
          /\ pc[t] = "get_store" => snap[t] = Tail(getq)
          /\ pc[t] = "ph_store" => snap[t] = getq

\* The messages inside the queue or already delivered.
Entered == Range(getq) \cup Range(putq) \cup Range(delivered)

\* A message that a call is about to put has not been in the queue before.
FreshInv ==
    /\ unsent \cap Entered = {}
    /\ \A t \in Threads : pc[t] \in Loaded => msg[t] \notin unsent \cup Entered
    /\ \A t, u \in Threads :
          pc[t] \in Loaded /\ pc[u] \in Loaded /\ msg[t] = msg[u] => t = u

IInv == TypeOK /\ LockInv /\ ListInv /\ FreshInv

-----------------------------------------------------------------------------
(* Where the calls that notify leave each thread.                          *)

LEMMA PutNotifyControl ==
    ASSUME TypeOK, NEW t \in Threads, msgqueue_put_notify(t)
    PROVE  \A u \in Threads :
              \/ u = t /\ pc'[u] = "idle"
              \/ u # t /\ pc'[u] = pc[u]
              \/ u # t /\ pc[u] = "swap_wait" /\ pc'[u] = "swap"
<1>1. pc \in [Threads -> States] /\ pc' \in NotifyGet(Return(t))
  BY DEF TypeOK, msgqueue_put_notify
<1> QED BY <1>1, NotifyAndReturn

LEMMA PutHeadControl ==
    ASSUME TypeOK, NEW t \in Threads, NEW m, PutHeadAtPut(t, m)
    PROVE  \A u \in Threads :
              \/ u = t /\ pc'[u] \in {"idle", "ph_wait"}
              \/ u # t /\ pc'[u] = pc[u]
              \/ u # t /\ pc[u] = "swap_wait" /\ pc'[u] = "swap"
<1>1. pc \in [Threads -> States]
  BY DEF TypeOK
<1>2. CASE PutHeadBlocks
  BY <1>1, <1>2 DEF PutHeadAtPut
<1>3. CASE ~PutHeadBlocks
  <2>1. pc' \in NotifyGet(Return(t))
    BY <1>3 DEF PutHeadAtPut
  <2>2. \A u \in Threads :
           \/ u = t /\ pc'[u] = "idle"
           \/ u # t /\ pc'[u] = pc[u]
           \/ u # t /\ pc[u] = "swap_wait" /\ pc'[u] = "swap"
    BY <1>1, <2>1, NotifyAndReturn
  <2> QED BY <2>2
<1> QED BY <1>2, <1>3

LEMMA SwapControl ==
    ASSUME TypeOK, NEW t \in Threads, msgqueue_swap(t), ~GetBlocks
    PROVE  \A u \in Threads :
              \/ u = t /\ SwapMoved /\ pc'[u] = "get_read"
              \/ u = t /\ ~SwapMoved /\ pc'[u] = "idle"
              \/ /\ u # t /\ pc'[u] = "undefined"
                 /\ pc[u] \in {"swap", "swap_wait"}
              \/ /\ u # t /\ pc'[u] = pc[u]
                 /\ SwapNotifies => pc[u] # "put_wait"
              \/ u # t /\ pc[u] = "put_wait" /\ pc'[u] = "put_wake"
              \/ u # t /\ pc[u] = "ph_wait" /\ pc'[u] = "ph_wake"
<1>1. AfterExchange(t) \in [Threads -> States]
  BY DEF AfterExchange, TypeOK, States, GetStates
<1>2. \A u \in Threads :
         \/ u = t /\ SwapMoved /\ AfterExchange(t)[u] = "get_read"
         \/ u = t /\ ~SwapMoved /\ AfterExchange(t)[u] = "idle"
         \/ /\ u # t /\ AfterExchange(t)[u] = "undefined"
            /\ pc[u] \in {"swap", "swap_wait"}
         \/ u # t /\ AfterExchange(t)[u] = pc[u]
  BY DEF AfterExchange
<1>3. pc' = IF SwapNotifies THEN NotifyPut(AfterExchange(t))
                            ELSE AfterExchange(t)
  BY DEF msgqueue_swap
<1>4. CASE SwapNotifies
  <2>1. \A u \in Threads :
           \/ /\ AfterExchange(t)[u] = "put_wait"
              /\ NotifyPut(AfterExchange(t))[u] = "put_wake"
           \/ /\ AfterExchange(t)[u] = "ph_wait"
              /\ NotifyPut(AfterExchange(t))[u] = "ph_wake"
           \/ /\ AfterExchange(t)[u] \notin {"put_wait", "ph_wait"}
              /\ NotifyPut(AfterExchange(t))[u] = AfterExchange(t)[u]
    BY <1>1, NotifyPutStates
  <2>2. pc' = NotifyPut(AfterExchange(t))
    BY <1>3, <1>4
  <2> QED BY <1>2, <1>4, <2>1, <2>2
<1>5. CASE ~SwapNotifies
  BY <1>2, <1>3, <1>5
<1> QED BY <1>4, <1>5

LEMMA SetNotifyControl ==
    ASSUME TypeOK, NEW t \in Threads, msgqueue_set_nonblock_notify(t)
    PROVE  /\ \A u \in Threads :
                 \/ u = t /\ pc'[u] = "idle"
                 \/ u # t /\ pc'[u] = pc[u] /\ pc[u] \notin {"put_wait", "ph_wait"}
                 \/ u # t /\ pc[u] = "swap_wait" /\ pc'[u] = "swap"
                 \/ u # t /\ pc[u] = "put_wait" /\ pc'[u] = "put_wake"
                 \/ u # t /\ pc[u] = "ph_wait" /\ pc'[u] = "ph_wake"
           /\ \A u \in Threads \ {t} : pc[u] = "swap_wait" =>
                 \E w \in Threads : pc[w] = "swap_wait" /\ pc'[w] = "swap"
<1>1. pc \in [Threads -> States]
  BY DEF TypeOK
<1>2. PICK f \in NotifyGet(Return(t)) : pc' = NotifyPut(f)
  BY DEF msgqueue_set_nonblock_notify
<1>3. /\ f \in [Threads -> States]
      /\ \A u \in Threads :
            \/ u = t /\ f[u] = "idle"
            \/ u # t /\ f[u] = pc[u]
            \/ u # t /\ pc[u] = "swap_wait" /\ f[u] = "swap"
      /\ \A u \in Threads \ {t} : pc[u] = "swap_wait" =>
            \E w \in Threads : pc[w] = "swap_wait" /\ f[w] = "swap"
  BY <1>1, NotifyAndReturn
<1>4. \A u \in Threads :
         \/ f[u] = "put_wait" /\ pc'[u] = "put_wake"
         \/ f[u] = "ph_wait" /\ pc'[u] = "ph_wake"
         \/ f[u] \notin {"put_wait", "ph_wait"} /\ pc'[u] = f[u]
  BY <1>2, <1>3, NotifyPutStates
<1> QED BY <1>3, <1>4

-----------------------------------------------------------------------------
(* Callers of put that wait for space.                                     *)

LEMMA SpaceNext == TypeOK /\ NoLostSpace /\ [Next]_vars => NoLostSpace'
<1> SUFFICES ASSUME TypeOK, NoLostSpace, [Next]_vars PROVE NoLostSpace'
  OBVIOUS
<1> USE DEF lists, NoLostSpace
<1>0. /\ pc \in [Threads -> States] /\ msg_cnt \in Nat /\ MsgMax \in Nat
      /\ SizeMax \in Nat /\ MsgMax <= SizeMax
  BY ConstAssumption DEF TypeOK
<1>1. CASE UNCHANGED vars
  BY <1>1 DEF vars
<1>2. ASSUME NEW t \in Threads, Step(t) PROVE NoLostSpace'
  <2>1. ASSUME NEW m, PutLocked(t, m), pc[t] \in {"idle", "put_wake"}
        PROVE  NoLostSpace'
    <3>1. /\ nonblock' = nonblock
          /\ msg_cnt' \in {msg_cnt, msg_cnt + 1}
          /\ PutBlocks => msg_cnt' = MsgMax /\ ~nonblock'
      BY <2>1 DEF PutLocked, PutBlocks
    <3>2. \A u \in Threads :
             /\ pc'[u] = "put_wait" => pc[u] = "put_wait" \/ PutBlocks
             /\ pc[u] = "set_notify" => pc'[u] = "set_notify"
      BY <1>0, <2>1 DEF PutLocked
    <3>3. CASE PutBlocks
      BY <1>0, <3>1, <3>3
    <3>4. CASE ~PutBlocks
      BY <1>0, <3>1, <3>2, <3>4
    <3> QED BY <3>3, <3>4
  <2>2. ASSUME NEW m, PutHeadAtPut(t, m), pc[t] \in PutHeadStates \cup {"idle"}
        PROVE  NoLostSpace'
    <3>1. msg_cnt' \in {msg_cnt, msg_cnt + 1} /\ nonblock' = nonblock
      BY <2>2 DEF PutHeadAtPut
    <3>2. \A u \in Threads : /\ pc'[u] = "put_wait" => pc[u] = "put_wait"
                             /\ pc[u] = "set_notify" => pc'[u] = "set_notify"
      BY <2>2, PutHeadControl DEF PutHeadStates
    <3> QED BY <1>0, <3>1, <3>2
  <2>3. CASE msgqueue_swap(t)
    <3>1. CASE GetBlocks
      BY <1>0, <2>3, <3>1 DEF msgqueue_swap
    <3>2. CASE ~GetBlocks
      <4>1. \A u \in Threads : pc[u] = "set_notify" => pc'[u] = "set_notify"
        BY <2>3, <3>2, SwapControl DEF msgqueue_swap
      <4>2. CASE SwapNotifies
        BY <2>3, <3>2, <4>2, SwapControl
      <4>3. CASE ~SwapNotifies
        <5>1. MsgMax = 0 \/ msg_cnt < MsgMax
          BY <1>0, <4>3 DEF SwapNotifies, MsgMaxMinusOne
        <5>2. \A u \in Threads : pc'[u] = "put_wait" => pc[u] = "put_wait"
          BY <2>3, <3>2, SwapControl
        <5>3. nonblock' = nonblock /\ msg_cnt' = 0
          BY <2>3, <3>2 DEF msgqueue_swap, Exchange
        <5> QED BY <1>0, <4>1, <5>1, <5>2, <5>3
      <4> QED BY <4>2, <4>3
    <3> QED BY <3>1, <3>2
  <2>4. CASE msgqueue_put_notify(t)
    <3>1. \A u \in Threads : /\ pc'[u] = "put_wait" => pc[u] = "put_wait"
                             /\ pc[u] = "set_notify" => pc'[u] = "set_notify"
      BY <2>4, PutNotifyControl DEF msgqueue_put_notify
    <3>2. msg_cnt' = msg_cnt /\ nonblock' = nonblock
      BY <2>4 DEF msgqueue_put_notify
    <3> QED BY <3>1, <3>2
  <2>5. CASE msgqueue_set_nonblock_notify(t)
    <3>1. \A u \in Threads : pc'[u] # "put_wait"
      BY <2>5, SetNotifyControl
    <3> QED BY <3>1
  <2>6. CASE msgqueue_set_nonblock(t)
    <3>1. pc'[t] = "set_notify"
      BY <1>0, <2>6 DEF msgqueue_set_nonblock
    <3> QED BY <3>1
  <2>7. CASE msgqueue_set_block(t)
    BY <2>7 DEF msgqueue_set_block
  <2>8. CASE SpuriousWakeup(t)
    BY <1>0, <2>8 DEF SpuriousWakeup
  <2>9. CASE msgqueue_get(t) \/ msgqueue_get_check(t) \/ msgqueue_get_read(t)
              \/ msgqueue_get_next(t) \/ msgqueue_get_store(t)
    BY <1>0, <2>9 DEF msgqueue_get, msgqueue_get_check, msgqueue_get_read,
                      msgqueue_get_next, msgqueue_get_store
  <2>10. CASE msgqueue_put_head_link(t) \/ msgqueue_put_head_store(t)
    BY <1>0, <2>10 DEF msgqueue_put_head_link, msgqueue_put_head_store
  <2>11. CASE msgqueue_put_head_retry(t)
    BY <1>0, <2>2, <2>11 DEF msgqueue_put_head_retry, PutHeadStates
  <2>12. CASE msgqueue_put_head_woken(t)
    BY <2>2, <2>12 DEF msgqueue_put_head_woken, PutHeadStates
  <2>13. ASSUME NEW m \in Msgs, msgqueue_put_head(t, m) PROVE NoLostSpace'
    <3>1. CASE getq = <<>>
      BY <2>2, <2>13, <3>1 DEF msgqueue_put_head
    <3>2. CASE getq # <<>>
      BY <1>0, <2>13, <3>2 DEF msgqueue_put_head
    <3> QED BY <3>1, <3>2
  <2>14. ASSUME NEW m \in Msgs, msgqueue_put(t, m) PROVE NoLostSpace'
    BY <2>1, <2>14 DEF msgqueue_put
  <2>15. CASE msgqueue_put_woken(t)
    BY <2>1, <2>15 DEF msgqueue_put_woken
  <2> QED
    BY <1>2, <2>3, <2>4, <2>5, <2>6, <2>7, <2>8, <2>9, <2>10, <2>11, <2>12,
       <2>13, <2>14, <2>15
    DEF Step, Continue
<1> QED BY <1>1, <1>2 DEF Next

\* A caller of put is never left waiting on put_cond beside a put list that
\* has room, whatever the other calls do.
THEOREM SpaceSafe == Spec => []NoLostSpace
<1>1. Init => NoLostSpace
  BY DEF Init, NoLostSpace
<1> QED BY <1>1, TypeInit, TypeNext, SpaceNext, PTL DEF Spec

-----------------------------------------------------------------------------
(* The mutexes.                                                            *)

\* The only lock that a caller of put_head can find taken is its own.
LEMMA NobodyElse ==
    ASSUME NoContention, TypeOK, LockInv,
           NEW t \in PutHeaders, pc[t] = "idle"
    PROVE  get_mutex = NULL
<1> SUFFICES ASSUME get_mutex # NULL PROVE FALSE
  OBVIOUS
<1>1. PICK u \in Threads : u = get_mutex
  BY DEF TypeOK
<1>2. pc[u] \in GetStates \cup Splicing
  BY <1>1 DEF LockInv
<1>3. u \in PutHeaders \cup Getters
  BY <1>2 DEF TypeOK, Splicing, PutHeadStates
<1>4. u = t
  BY <1>3 DEF NoContention
<1> QED BY <1>2, <1>4 DEF GetStates, Splicing

LEMMA LockPutHead ==
    ASSUME TypeOK, LockInv, NEW t \in Threads, NEW m, PutHeadAtPut(t, m),
           pc[t] \in {"idle", "ph_wake"}, put_mutex = NULL
    PROVE  LockInv'
<1>1. get_mutex' = get_mutex /\ put_mutex' = NULL
  BY DEF PutHeadAtPut
<1>2. \A u \in Threads : u # NULL
  BY ConstAssumption
<1>3. \A u \in Threads : pc[u] # "ph_retry"
  BY <1>2 DEF LockInv
<1>4. \A u \in Threads :
         /\ pc'[u] \in GetStates \cup Splicing
               <=> pc[u] \in GetStates \cup Splicing
         /\ pc'[u] \notin {"ph_retry", "undefined"}
  BY <1>3, PutHeadControl DEF GetStates, Splicing, LockInv, Running
<1> QED BY <1>1, <1>2, <1>4 DEF LockInv, Running

LEMMA LockNext ==
    ASSUME NoContention, TypeOK, LockInv, ListInv, [Next]_vars
    PROVE  LockInv'
<1> USE DEF GetStates, Splicing
<1>0. pc \in [Threads -> States] /\ \A u \in Threads : u # NULL
  BY ConstAssumption DEF TypeOK
<1>1. CASE UNCHANGED vars
  BY <1>1 DEF vars, LockInv, Running
<1>2. ASSUME NEW t \in Threads, Step(t) PROVE LockInv'
  <2>1. ASSUME NEW m \in Msgs, msgqueue_put(t, m) PROVE LockInv'
    BY <1>0, <2>1 DEF msgqueue_put, PutLocked, LockInv, Running
  <2>2. ASSUME NEW m \in Msgs, msgqueue_put_head(t, m) PROVE LockInv'
    <3> USE <2>2 DEF msgqueue_put_head
    <3>1. CASE getq = <<>>
      BY <3>1, LockPutHead
    <3>2. CASE getq # <<>>
      <4>1. get_mutex = NULL
        BY NobodyElse
      <4> QED BY <1>0, <3>2, <4>1 DEF LockInv, Running
    <3> QED BY <3>1, <3>2
  <2>3. CASE msgqueue_get(t)
    BY <1>0, <2>3 DEF msgqueue_get, LockInv, Running
  <2>4. CASE msgqueue_set_nonblock(t)
    BY <1>0, <2>4 DEF msgqueue_set_nonblock, LockInv, Running
  <2>5. CASE msgqueue_set_block(t)
    BY <2>5 DEF msgqueue_set_block, LockInv, Running
  <2>6. CASE SpuriousWakeup(t)
    BY <1>0, <2>6 DEF SpuriousWakeup, LockInv, Running
  <2>7. CASE msgqueue_put_woken(t)
    BY <1>0, <2>7 DEF msgqueue_put_woken, PutLocked, LockInv, Running
  <2>8. CASE msgqueue_put_notify(t)
    <3>1. /\ get_mutex' = get_mutex /\ put_mutex' = put_mutex
          /\ pc[t] = "put_notify"
      BY <2>8 DEF msgqueue_put_notify
    <3>2. \A u \in Threads :
             /\ pc'[u] \in GetStates \cup Splicing
                   <=> pc[u] \in GetStates \cup Splicing
             /\ pc'[u] = "ph_retry" <=> pc[u] = "ph_retry"
             /\ pc'[u] = "undefined" => pc[u] = "undefined"
      BY <2>8, <3>1, PutNotifyControl
    <3> QED BY <3>1, <3>2 DEF LockInv, Running
  <2>9. CASE msgqueue_put_head_retry(t)
    <3>1. getq # <<>>
      BY <2>9 DEF msgqueue_put_head_retry, ListInv
    <3> QED
      BY <1>0, <2>9, <3>1 DEF msgqueue_put_head_retry, LockInv, Running
  <2>10. CASE msgqueue_put_head_woken(t)
    BY <2>10, LockPutHead DEF msgqueue_put_head_woken
  <2>11. CASE msgqueue_put_head_link(t)
    BY <1>0, <2>11 DEF msgqueue_put_head_link, LockInv, Running
  <2>12. CASE msgqueue_put_head_store(t)
    BY <1>0, <2>12 DEF msgqueue_put_head_store, LockInv, Running
  <2>13. CASE msgqueue_get_check(t)
    BY <1>0, <2>13 DEF msgqueue_get_check, LockInv, Running
  <2>14. CASE msgqueue_swap(t)
    <3>1. CASE GetBlocks
      BY <1>0, <2>14, <3>1 DEF msgqueue_swap, LockInv, Running
    <3>2. CASE ~GetBlocks
      <4>1. get_mutex = t
        BY <2>14 DEF msgqueue_swap, LockInv
      <4>2. /\ get_mutex' = IF SwapMoved THEN t ELSE NULL
            /\ put_mutex' = put_mutex
        BY <2>14, <3>2, <4>1 DEF msgqueue_swap
      <4>3. \A u \in Threads : u # t => pc[u] \notin GetStates \cup Splicing
        BY <4>1 DEF LockInv
      <4>4. pc'[t] = IF SwapMoved THEN "get_read" ELSE "idle"
        BY <2>14, <3>2, SwapControl
      <4>5. \A u \in Threads : u # t =>
               /\ pc'[u] \notin GetStates \cup Splicing
               /\ pc'[u] = "ph_retry" <=> pc[u] = "ph_retry"
               /\ pc'[u] = "undefined" => pc[u] = "undefined"
        BY <2>14, <3>2, <4>3, SwapControl
      <4>6. pc[t] = "swap"
        BY <2>14 DEF msgqueue_swap
      <4> QED BY <1>0, <4>2, <4>4, <4>5, <4>6 DEF LockInv, Running
    <3> QED BY <3>1, <3>2
  <2>15. CASE msgqueue_get_read(t)
    <3>1. getq # <<>>
      BY <2>15 DEF msgqueue_get_read, ListInv
    <3> QED BY <1>0, <2>15, <3>1 DEF msgqueue_get_read, LockInv, Running
  <2>16. CASE msgqueue_get_next(t)
    <3>1. getq # <<>>
      BY <2>16 DEF msgqueue_get_next, ListInv
    <3> QED BY <1>0, <2>16, <3>1 DEF msgqueue_get_next, LockInv, Running
  <2>17. CASE msgqueue_get_store(t)
    BY <1>0, <2>17 DEF msgqueue_get_store, LockInv, Running
  <2>18. CASE msgqueue_set_nonblock_notify(t)
    <3>1. /\ get_mutex' = get_mutex /\ put_mutex' = put_mutex
          /\ pc[t] = "set_notify"
      BY <2>18 DEF msgqueue_set_nonblock_notify
    <3>2. \A u \in Threads :
             /\ pc'[u] \in GetStates \cup Splicing
                   <=> pc[u] \in GetStates \cup Splicing
             /\ pc'[u] = "ph_retry" <=> pc[u] = "ph_retry"
             /\ pc'[u] = "undefined" => pc[u] = "undefined"
      BY <2>18, <3>1, SetNotifyControl
    <3> QED BY <3>1, <3>2 DEF LockInv, Running
  <2> QED
    BY <1>2, <2>1, <2>2, <2>3, <2>4, <2>5, <2>6, <2>7, <2>8, <2>9, <2>10,
       <2>11, <2>12, <2>13, <2>14, <2>15, <2>16, <2>17, <2>18
    DEF Step, Continue
<1> QED BY <1>1, <1>2 DEF Next

-----------------------------------------------------------------------------
(* The lists.                                                              *)

\* The part of ListInv about one thread.
Knows(t) ==
    /\ pc[t] \in {"swap", "swap_wait", "ph_wait", "ph_wake"} => getq = <<>>
    /\ pc[t] \in {"get_read", "get_next", "get_store"} \cup Splicing
          => getq # <<>>
    /\ pc[t] \in {"get_next", "get_store"} => msg[t] = Head(getq)
    /\ pc[t] = "get_store" => snap[t] = Tail(getq)
    /\ pc[t] = "ph_store" => snap[t] = getq

LEMMA ListInvParts ==
    ListInv <=> /\ msg_cnt = Len(putq)
                /\ put_tail = Len(putq)
                /\ \A t \in Threads : Knows(t)
BY DEF ListInv, Knows

\* What the holder of get_mutex may assume of the others.
LEMMA OthersOutside ==
    ASSUME NoContention, TypeOK, LockInv,
           NEW t \in PutHeaders \cup Getters, get_mutex = t,
           NEW u \in Threads, u # t
    PROVE  pc[u] \notin GetStates \cup PutHeadStates
<1>1. pc[u] \notin GetStates
  BY DEF LockInv
<1>2. pc[u] \notin PutHeadStates
  BY DEF TypeOK, NoContention
<1> QED BY <1>1, <1>2

\* A step of put keeps the counts and what the others know.
LEMMA ListPutLocked ==
    ASSUME TypeOK, ListInv, NEW t \in Threads, NEW m \in Msgs,
           PutLocked(t, m)
    PROVE  ListInv'
<1>0. pc \in [Threads -> States] /\ msg \in [Threads -> Msgs \cup {NULL}]
  BY DEF TypeOK
<1>1. getq' = getq /\ snap' = snap
  BY DEF PutLocked, lists
<1>2. \A u \in Threads :
         \/ u # t /\ pc'[u] = pc[u] /\ msg'[u] = msg[u]
         \/ u = t /\ pc'[u] \in {"put_wait", "put_notify"}
  BY <1>0 DEF PutLocked
<1>3. \A u \in Threads : Knows(u)'
  BY <1>1, <1>2, ListInvParts DEF Knows, Splicing
<1>4. msg_cnt' = Len(putq') /\ put_tail' = Len(putq')
  <2>1. CASE PutBlocks
    BY <2>1 DEF PutLocked, ListInv, lists
  <2>2. CASE ~PutBlocks
    <3>1. putq' = Append(SubSeq(putq, 1, put_tail), m)
      BY <2>2 DEF PutLocked
    <3>2. Len(putq') = put_tail + 1
      BY <3>1, AppendAtTail DEF TypeOK
    <3> QED BY <2>2, <3>2 DEF PutLocked, ListInv
  <2> QED BY <2>1, <2>2
<1> QED BY <1>3, <1>4 DEF ListInv, Knows

\* So does a step of put_head that finds the get list empty.
LEMMA ListPutHead ==
    ASSUME TypeOK, ListInv, NEW t \in Threads, NEW m \in Msgs,
           PutHeadAtPut(t, m), getq = <<>>
    PROVE  ListInv'
<1>0. pc \in [Threads -> States] /\ msg \in [Threads -> Msgs \cup {NULL}]
  BY DEF TypeOK
<1>1. getq' = getq /\ snap' = snap
  BY DEF PutHeadAtPut, lists
<1>2. \A u \in Threads :
         \/ u # t /\ pc'[u] = pc[u]
         \/ u # t /\ pc[u] = "swap_wait" /\ pc'[u] = "swap"
         \/ u = t /\ pc'[u] \in {"idle", "ph_wait"}
  BY PutHeadControl
<1>3. \A u \in Threads : u # t => msg'[u] = msg[u]
  BY <1>0 DEF PutHeadAtPut
<1>4. \A u \in Threads : Knows(u)'
  BY <1>1, <1>2, <1>3, ListInvParts DEF Knows, Splicing
<1>5. msg_cnt' = Len(putq') /\ put_tail' = Len(putq')
  <2>1. CASE PutHeadBlocks
    BY <2>1 DEF PutHeadAtPut, ListInv, lists
  <2>2. CASE ~PutHeadBlocks
    <3>1. putq' = <<m>> \o putq /\ Len(putq') = Len(putq) + 1
      BY <2>2, ConsProps DEF PutHeadAtPut, TypeOK
    <3>2. putq = <<>> <=> Len(putq) = 0
      BY EmptySeq DEF TypeOK
    <3> QED BY <2>2, <3>1, <3>2 DEF PutHeadAtPut, ListInv, TailAfterPutHead
  <2> QED BY <2>1, <2>2
<1> QED BY <1>4, <1>5 DEF ListInv, Knows

LEMMA ListNext ==
    ASSUME NoContention, TypeOK, LockInv, ListInv, [Next]_vars
    PROVE  ListInv'
<1> USE DEF Knows, Splicing
<1>0. /\ pc \in [Threads -> States] /\ msg \in [Threads -> Msgs \cup {NULL}]
      /\ snap \in [Threads -> Seq(Msgs)]
      /\ msg_cnt = Len(putq) /\ put_tail = Len(putq)
      /\ \A u \in Threads : Knows(u)
  BY ListInvParts DEF TypeOK
<1>1. CASE UNCHANGED vars
  BY <1>1 DEF vars, ListInv
<1>2. ASSUME NEW t \in Threads, Step(t) PROVE ListInv'
  <2>1. ASSUME NEW m \in Msgs, msgqueue_put(t, m) PROVE ListInv'
    BY <2>1, ListPutLocked DEF msgqueue_put
  <2>2. ASSUME NEW m \in Msgs, msgqueue_put_head(t, m) PROVE ListInv'
    <3> USE <2>2 DEF msgqueue_put_head
    <3>1. CASE getq = <<>>
      BY <3>1, ListPutHead
    <3>2. CASE getq # <<>>
      <4>1. \A u \in Threads :
               \/ u # t /\ pc'[u] = pc[u] /\ msg'[u] = msg[u]
               \/ u = t /\ pc'[u] \in {"ph_retry", "ph_link"}
        BY <1>0, <3>2
      <4>2. UNCHANGED <<getq, putq, put_tail, msg_cnt, snap>>
        BY <3>2 DEF lists
      <4> QED BY <1>0, <3>2, <4>1, <4>2 DEF ListInv
    <3> QED BY <3>1, <3>2
  <2>3. CASE msgqueue_get(t)
    BY <1>0, <2>3 DEF msgqueue_get, ListInv, lists
  <2>4. CASE msgqueue_set_nonblock(t) \/ msgqueue_set_block(t)
    BY <1>0, <2>4
    DEF msgqueue_set_nonblock, msgqueue_set_block, ListInv, lists
  <2>6. CASE SpuriousWakeup(t)
    BY <1>0, <2>6 DEF SpuriousWakeup, ListInv, lists
  <2>7. CASE msgqueue_put_woken(t)
    <3>1. msg[t] \in Msgs
      BY <2>7 DEF msgqueue_put_woken, TypeOK, Carrying
    <3> QED BY <2>7, <3>1, ListPutLocked DEF msgqueue_put_woken
  <2>8. CASE msgqueue_put_notify(t)
    <3>1. UNCHANGED <<getq, putq, put_tail, msg_cnt, msg, snap>>
      BY <2>8 DEF msgqueue_put_notify, lists
    <3> QED BY <1>0, <2>8, <3>1, PutNotifyControl DEF ListInv
  <2>9. CASE msgqueue_put_head_retry(t)
    <3>1. getq # <<>>
      BY <1>0, <2>9 DEF msgqueue_put_head_retry
    <3> QED BY <1>0, <2>9, <3>1 DEF msgqueue_put_head_retry, ListInv, lists
  <2>10. CASE msgqueue_put_head_woken(t)
    <3>1. msg[t] \in Msgs /\ getq = <<>>
      BY <1>0, <2>10
      DEF msgqueue_put_head_woken, TypeOK, Carrying, PutHeadStates
    <3> QED BY <2>10, <3>1, ListPutHead DEF msgqueue_put_head_woken
  <2>11. CASE msgqueue_put_head_link(t)
    BY <1>0, <2>11 DEF msgqueue_put_head_link, ListInv, lists
  <2>12. CASE msgqueue_put_head_store(t)
    <3>1. t \in PutHeaders /\ get_mutex = t
      BY <2>12 DEF msgqueue_put_head_store, LockInv, TypeOK, PutHeadStates
    <3>2. \A u \in Threads : u # t => pc[u] \notin GetStates \cup PutHeadStates
      BY <3>1, OthersOutside
    <3>3. \A u \in Threads : u # t => pc'[u] \notin GetStates \cup PutHeadStates
      BY <1>0, <2>12, <3>2 DEF msgqueue_put_head_store
    <3>4. pc'[t] = "idle" /\ UNCHANGED <<putq, put_tail, msg_cnt>>
      BY <1>0, <2>12 DEF msgqueue_put_head_store
    <3> QED BY <1>0, <3>3, <3>4 DEF ListInv, GetStates, PutHeadStates
  <2>13. CASE msgqueue_get_check(t)
    BY <1>0, <2>13 DEF msgqueue_get_check, ListInv, lists
  <2>14. CASE msgqueue_swap(t)
    <3>1. CASE GetBlocks
      BY <1>0, <2>14, <3>1 DEF msgqueue_swap, ListInv, lists
    <3>2. CASE ~GetBlocks
      <4>1. t \in Getters /\ get_mutex = t /\ getq = <<>>
        BY <1>0, <2>14 DEF msgqueue_swap, LockInv, TypeOK, GetStates
      <4>2. \A u \in Threads : u # t =>
               pc[u] \notin GetStates \cup PutHeadStates
        BY <4>1, OthersOutside
      <4>3. /\ getq' = putq /\ putq' = <<>> /\ put_tail' = 0 /\ msg_cnt' = 0
        BY <2>14, <3>2, <4>1 DEF msgqueue_swap, Exchange
      <4>4. \A u \in Threads : u # t =>
               pc'[u] \notin GetStates \cup PutHeadStates
        BY <2>14, <3>2, <4>2, SwapControl DEF GetStates, PutHeadStates
      <4>5. \/ SwapMoved /\ pc'[t] = "get_read"
            \/ ~SwapMoved /\ pc'[t] = "idle"
        BY <2>14, <3>2, SwapControl
      <4>6. SwapMoved => putq # <<>>
        BY <1>0, EmptySeq DEF SwapMoved
      <4> QED
        BY <4>3, <4>4, <4>5, <4>6, EmptySeq DEF ListInv, GetStates, PutHeadStates
    <3> QED BY <3>1, <3>2
  <2>15. CASE msgqueue_get_read(t)
    BY <1>0, <2>15 DEF msgqueue_get_read, ListInv, lists
  <2>16. CASE msgqueue_get_next(t)
    BY <1>0, <2>16 DEF msgqueue_get_next, ListInv, lists
  <2>17. CASE msgqueue_get_store(t)
    <3>1. t \in Getters /\ get_mutex = t
      BY <2>17 DEF msgqueue_get_store, LockInv, TypeOK, GetStates
    <3>2. \A u \in Threads : u # t => pc[u] \notin GetStates \cup PutHeadStates
      BY <3>1, OthersOutside
    <3>3. \A u \in Threads : u # t => pc'[u] \notin GetStates \cup PutHeadStates
      BY <1>0, <2>17, <3>2 DEF msgqueue_get_store
    <3>4. pc'[t] = "idle" /\ UNCHANGED <<putq, put_tail, msg_cnt>>
      BY <1>0, <2>17 DEF msgqueue_get_store
    <3> QED BY <1>0, <3>3, <3>4 DEF ListInv, GetStates, PutHeadStates
  <2>18. CASE msgqueue_set_nonblock_notify(t)
    <3>1. UNCHANGED <<getq, putq, put_tail, msg_cnt, msg, snap>>
      BY <2>18 DEF msgqueue_set_nonblock_notify, lists
    <3> QED BY <1>0, <2>18, <3>1, SetNotifyControl DEF ListInv
  <2> QED
    BY <1>2, <2>1, <2>2, <2>3, <2>4, <2>6, <2>7, <2>8, <2>9, <2>10,
       <2>11, <2>12, <2>13, <2>14, <2>15, <2>16, <2>17, <2>18
    DEF Step, Continue
<1> QED BY <1>1, <1>2 DEF Next

-----------------------------------------------------------------------------
(* Messages.                                                               *)

LEMMA RangeOne ==
    ASSUME NEW m \in Msgs
    PROVE  <<m>> \in Seq(Msgs) /\ Range(<<m>>) = {m}
<1>1. DOMAIN <<m>> = {1} /\ <<m>>[1] = m
  OBVIOUS
<1>2. Range(<<m>>) = {m}
  BY <1>1 DEF Range
<1> QED BY <1>2

LEMMA RangeAppend ==
    ASSUME NEW s \in Seq(Msgs), NEW m \in Msgs
    PROVE  Range(Append(s, m)) = Range(s) \cup {m}
<1>1. Append(s, m) = s \o <<m>>
  BY AppendIsConcat
<1>2. Range(s \o <<m>>) = Range(s) \cup Range(<<m>>)
  <2>1. \A p, q \in Seq(Msgs) : Range(p \o q) = Range(p) \cup Range(q)
    BY RangeConcatenation
  <2> QED BY <2>1, RangeOne, Zenon
<1> QED BY <1>1, <1>2, RangeOne

LEMMA RangeCons ==
    ASSUME NEW s \in Seq(Msgs), NEW m \in Msgs
    PROVE  Range(<<m>> \o s) = Range(s) \cup {m}
<1>1. Range(<<m>> \o s) = Range(<<m>>) \cup Range(s)
  <2>1. \A p, q \in Seq(Msgs) : Range(p \o q) = Range(p) \cup Range(q)
    BY RangeConcatenation
  <2> QED BY <2>1, RangeOne, Zenon
<1> QED BY <1>1, RangeOne

LEMMA HeadAndTail ==
    ASSUME NEW s \in Seq(Msgs), s # <<>>
    PROVE  /\ Head(s) \in Msgs /\ Tail(s) \in Seq(Msgs)
           /\ s = <<Head(s)>> \o Tail(s)
<1>1. Head(s) \in Msgs /\ Tail(s) \in Seq(Msgs)
  BY HeadTailProperties
<1>2. Len(s) \in Nat \ {0}
  BY EmptySeq
<1>3. s = <<s[1]>> \o SubSeq(s, 2, Len(s))
  <2>1. SubSeq(s, 1, Len(s)) = <<s[1]>> \o SubSeq(s, 1 + 1, Len(s))
    BY <1>2, SubSeqRecursiveFirst
  <2> QED BY <2>1, SubSeqFull
<1>4. Head(s) = s[1] /\ Tail(s) = SubSeq(s, 2, Len(s))
  BY <1>2, TailIsSubSeq
<1> QED BY <1>1, <1>3, <1>4

\* A message that is new to the queue may be put into it.
NewTo(m, t) ==
    /\ m \notin unsent' \cup Entered
    /\ unsent' \subseteq unsent
    /\ \A u \in Threads : u # t /\ pc[u] \in Loaded => msg[u] # m

\* Thread t, working on m, either keeps it or puts it into a list.
LEMMA FreshStep ==
    ASSUME FreshInv, NEW t \in Threads, NEW m, NewTo(m, t),
           \A u \in Threads \ {t} :
              /\ pc'[u] \in Loaded => pc[u] \in Loaded
              /\ msg'[u] = msg[u],
           \/ Entered' = Entered /\ msg'[t] = m
           \/ Entered' = Entered \cup {m} /\ pc'[t] \notin Loaded
    PROVE  FreshInv'
BY DEF FreshInv, NewTo

LEMMA FreshPutLocked ==
    ASSUME TypeOK, ListInv, FreshInv, NEW t \in Threads, NEW m \in Msgs,
           PutLocked(t, m), NewTo(m, t)
    PROVE  FreshInv'
<1>0. pc \in [Threads -> States] /\ msg \in [Threads -> Msgs \cup {NULL}]
  BY DEF TypeOK
<1>1. \A u \in Threads \ {t} : pc'[u] = pc[u] /\ msg'[u] = msg[u]
  BY <1>0 DEF PutLocked
<1>2. CASE PutBlocks
  <2>1. msg'[t] = m
    BY <1>0, <1>2 DEF PutLocked
  <2>2. Entered' = Entered
    BY <1>2 DEF PutLocked, lists, Entered
  <2> QED BY <1>1, <2>1, <2>2, FreshStep
<1>3. CASE ~PutBlocks
  <2>1. putq' = Append(putq, m)
    <3>1. putq' = Append(SubSeq(putq, 1, put_tail), m)
      BY <1>3 DEF PutLocked
    <3>2. SubSeq(putq, 1, put_tail) = putq
      BY AppendAtTail DEF TypeOK, ListInv
    <3> QED BY <3>1, <3>2
  <2>2. Entered' = Entered \cup {m}
    BY <1>3, <2>1, RangeAppend DEF PutLocked, Entered, TypeOK
  <2>3. pc'[t] = "put_notify"
    BY <1>0, <1>3 DEF PutLocked
  <2>4. pc'[t] \notin Loaded
    BY <2>3 DEF Loaded, PutHeadStates
  <2> QED BY <1>1, <2>2, <2>4, FreshStep
<1> QED BY <1>2, <1>3

LEMMA FreshPutHead ==
    ASSUME TypeOK, FreshInv, NEW t \in Threads, NEW m \in Msgs,
           PutHeadAtPut(t, m), NewTo(m, t)
    PROVE  FreshInv'
<1>0. pc \in [Threads -> States] /\ msg \in [Threads -> Msgs \cup {NULL}]
  BY DEF TypeOK
<1>1. \A u \in Threads \ {t} :
         /\ pc'[u] \in Loaded => pc[u] \in Loaded
         /\ msg'[u] = msg[u]
  <2>1. \A u \in Threads \ {t} : msg'[u] = msg[u]
    BY <1>0 DEF PutHeadAtPut
  <2>2. \A u \in Threads \ {t} : pc'[u] = pc[u] \/ pc'[u] = "swap"
    BY PutHeadControl
  <2> QED BY <2>1, <2>2 DEF Loaded, PutHeadStates
<1>2. CASE PutHeadBlocks
  <2>1. msg'[t] = m
    BY <1>0, <1>2 DEF PutHeadAtPut
  <2>2. Entered' = Entered
    BY <1>2 DEF PutHeadAtPut, lists, Entered
  <2> QED BY <1>1, <2>1, <2>2, FreshStep
<1>3. CASE ~PutHeadBlocks
  <2>1. Entered' = Entered \cup {m}
    <3>1. Range(putq') = Range(putq) \cup {m}
      BY <1>3, RangeCons DEF PutHeadAtPut, TypeOK
    <3> QED BY <1>3, <3>1 DEF PutHeadAtPut, Entered
  <2>2. pc'[t] = "idle"
    <3>1. pc' \in NotifyGet(Return(t))
      BY <1>3 DEF PutHeadAtPut
    <3> QED BY <1>0, <3>1, NotifyAndReturn
  <2>3. pc'[t] \notin Loaded
    BY <2>2 DEF Loaded, PutHeadStates
  <2> QED BY <1>1, <2>1, <2>3, FreshStep
<1> QED BY <1>2, <1>3

\* A step that neither takes up a message nor moves one into the queue.
LEMMA FreshSame ==
    ASSUME FreshInv, unsent' = unsent, Entered' = Entered,
           \A u \in Threads : pc'[u] \in Loaded =>
              pc[u] \in Loaded /\ msg'[u] = msg[u]
    PROVE  FreshInv'
BY DEF FreshInv

LEMMA FreshNext ==
    ASSUME NoContention, TypeOK, ListInv, LockInv, FreshInv, [Next]_vars
    PROVE  FreshInv'
<1>0. /\ pc \in [Threads -> States] /\ msg \in [Threads -> Msgs \cup {NULL}]
      /\ getq \in Seq(Msgs) /\ putq \in Seq(Msgs) /\ delivered \in Seq(Msgs)
  BY DEF TypeOK
<1>1. CASE UNCHANGED vars
  <2>1. unsent' = unsent /\ Entered' = Entered /\ pc' = pc /\ msg' = msg
    BY <1>1 DEF vars, Entered
  <2> QED BY <2>1, FreshSame
<1>2. ASSUME NEW t \in Threads, Step(t) PROVE FreshInv'
  <2>1. ASSUME NEW m \in Msgs, m \in unsent, unsent' = unsent \ {m},
               pc[t] = "idle"
        PROVE  NewTo(m, t)
    BY <2>1 DEF NewTo, FreshInv
  <2>2. ASSUME pc[t] \in Loaded, unsent' = unsent PROVE NewTo(msg[t], t)
    BY <2>2 DEF NewTo, FreshInv
  <2>3. ASSUME NEW m \in Msgs, msgqueue_put(t, m) PROVE FreshInv'
    BY <2>1, <2>3, FreshPutLocked DEF msgqueue_put
  <2>4. CASE msgqueue_put_woken(t)
    <3>1. msg[t] \in Msgs /\ pc[t] \in Loaded /\ unsent' = unsent
      BY <2>4 DEF msgqueue_put_woken, TypeOK, Carrying, Loaded
    <3> QED BY <2>2, <2>4, <3>1, FreshPutLocked DEF msgqueue_put_woken
  <2>5. ASSUME NEW m \in Msgs, msgqueue_put_head(t, m) PROVE FreshInv'
    <3>1. NewTo(m, t)
      BY <2>1, <2>5 DEF msgqueue_put_head
    <3>2. CASE getq = <<>>
      BY <2>5, <3>1, <3>2, FreshPutHead DEF msgqueue_put_head
    <3>3. CASE getq # <<>>
      <4>1. Entered' = Entered
        BY <2>5, <3>3 DEF msgqueue_put_head, lists, Entered
      <4>2. /\ msg'[t] = m
            /\ \A u \in Threads \ {t} : pc'[u] = pc[u] /\ msg'[u] = msg[u]
        BY <1>0, <2>5, <3>3 DEF msgqueue_put_head
      <4> QED BY <3>1, <4>1, <4>2, FreshStep
    <3> QED BY <3>2, <3>3
  <2>6. CASE msgqueue_put_head_woken(t)
    <3>1. msg[t] \in Msgs /\ pc[t] \in Loaded /\ unsent' = unsent
      BY <2>6 DEF msgqueue_put_head_woken, TypeOK, Carrying, Loaded, PutHeadStates
    <3> QED BY <2>2, <2>6, <3>1, FreshPutHead DEF msgqueue_put_head_woken
  <2>7. CASE msgqueue_put_head_store(t)
    <3>1. /\ msg[t] \in Msgs /\ pc[t] \in Loaded /\ unsent' = unsent
          /\ snap[t] = getq
      BY <2>7
      DEF msgqueue_put_head_store, TypeOK, Carrying, Loaded, PutHeadStates,
          ListInv
    <3>2. Range(getq') = Range(getq) \cup {msg[t]}
      BY <1>0, <2>7, <3>1, RangeCons DEF msgqueue_put_head_store
    <3>3. Entered' = Entered \cup {msg[t]}
      BY <2>7, <3>2 DEF msgqueue_put_head_store, Entered
    <3>4. /\ pc'[t] = "idle"
          /\ \A u \in Threads \ {t} : pc'[u] = pc[u] /\ msg'[u] = msg[u]
      BY <1>0, <2>7 DEF msgqueue_put_head_store
    <3>5. pc'[t] \notin Loaded
      BY <3>4 DEF Loaded, PutHeadStates
    <3> QED BY <2>2, <3>1, <3>3, <3>4, <3>5, FreshStep
  <2>8. CASE msgqueue_get_store(t)
    <3>1. /\ getq # <<>> /\ msg[t] = Head(getq) /\ snap[t] = Tail(getq)
      BY <2>8 DEF msgqueue_get_store, ListInv
    <3>2. /\ Head(getq) \in Msgs /\ Tail(getq) \in Seq(Msgs)
          /\ getq = <<Head(getq)>> \o Tail(getq)
      BY <1>0, <3>1, HeadAndTail
    <3>3. Range(getq) = Range(Tail(getq)) \cup {Head(getq)}
      BY <3>2, RangeCons
    <3>4. Range(delivered') = Range(delivered) \cup {Head(getq)}
      BY <1>0, <2>8, <3>1, <3>2, RangeAppend DEF msgqueue_get_store
    <3>5. Entered' = Entered
      BY <2>8, <3>1, <3>3, <3>4 DEF msgqueue_get_store, Entered
    <3>6. /\ pc'[t] = "idle" /\ unsent' = unsent
          /\ \A u \in Threads \ {t} : pc'[u] = pc[u] /\ msg'[u] = msg[u]
      BY <1>0, <2>8 DEF msgqueue_get_store
    <3> QED BY <3>5, <3>6, FreshSame DEF Loaded, PutHeadStates
  <2>9. CASE msgqueue_swap(t)
    <3>1. unsent' = unsent /\ msg' = msg
      BY <2>9 DEF msgqueue_swap
    <3>2. Entered' = Entered
      BY <2>9 DEF msgqueue_swap, Exchange, lists, Entered
    <3>3. CASE GetBlocks
      <4>1. \A u \in Threads : pc'[u] \in {pc[u], "swap_wait"}
        BY <1>0, <2>9, <3>3 DEF msgqueue_swap
      <4> QED BY <3>1, <3>2, <4>1, FreshSame DEF Loaded, PutHeadStates
    <3>4. CASE ~GetBlocks
      <4>1. \A u \in Threads : pc'[u] \in Loaded => pc[u] \in Loaded
        BY <2>9, <3>4, SwapControl DEF Loaded, PutHeadStates
      <4> QED BY <3>1, <3>2, <4>1, FreshSame
    <3> QED BY <3>3, <3>4
  <2>10. CASE msgqueue_put_notify(t)
    <3>1. unsent' = unsent /\ msg' = msg /\ Entered' = Entered
      BY <2>10 DEF msgqueue_put_notify, lists, Entered
    <3>2. \A u \in Threads : pc'[u] \in Loaded => pc[u] \in Loaded
      BY <2>10, PutNotifyControl DEF Loaded, PutHeadStates
    <3> QED BY <3>1, <3>2, FreshSame
  <2>11. CASE msgqueue_set_nonblock_notify(t)
    <3>1. unsent' = unsent /\ msg' = msg /\ Entered' = Entered
      BY <2>11 DEF msgqueue_set_nonblock_notify, lists, Entered
    <3>2. \A u \in Threads : pc'[u] \in Loaded => pc[u] \in Loaded
      BY <2>11, SetNotifyControl DEF Loaded, PutHeadStates
    <3> QED BY <3>1, <3>2, FreshSame
  <2>12. CASE \/ msgqueue_get(t) \/ msgqueue_get_check(t)
              \/ msgqueue_get_read(t) \/ msgqueue_get_next(t)
              \/ msgqueue_set_nonblock(t) \/ msgqueue_set_block(t)
    <3> USE DEF msgqueue_get, msgqueue_get_check, msgqueue_get_read,
            msgqueue_get_next, msgqueue_set_nonblock, msgqueue_set_block
    <3>1. unsent' = unsent /\ Entered' = Entered
      BY <2>12 DEF lists, Entered
    <3>2. \A u \in Threads \ {t} : pc'[u] = pc[u] /\ msg'[u] = msg[u]
      BY <1>0, <2>12
    <3>3. pc'[t] \notin Loaded
      BY <1>0, <2>12 DEF Loaded, PutHeadStates
    <3> QED BY <3>1, <3>2, <3>3, FreshSame
  <2>13. CASE \/ msgqueue_put_head_link(t) \/ msgqueue_put_head_retry(t)
              \/ SpuriousWakeup(t)
    <3>1. pc[t] = "ph_retry" => getq # <<>>
      BY DEF ListInv, Splicing
    <3>2. unsent' = unsent /\ Entered' = Entered /\ msg' = msg
      BY <2>13, <3>1 DEF lists, Entered, msgqueue_put_head_link,
                         msgqueue_put_head_retry, SpuriousWakeup
    <3>3. \A u \in Threads : pc'[u] \in Loaded => pc[u] \in Loaded
      BY <1>0, <2>13, <3>1
      DEF Loaded, PutHeadStates, msgqueue_put_head_link,
          msgqueue_put_head_retry, SpuriousWakeup
    <3> QED BY <3>2, <3>3, FreshSame
  <2> QED
    BY <1>2, <2>3, <2>4, <2>5, <2>6, <2>7, <2>8, <2>9, <2>10, <2>11, <2>12,
       <2>13
    DEF Step, Continue
<1> QED BY <1>1, <1>2 DEF Next

-----------------------------------------------------------------------------
\* The mutexes, the lists and the messages are as each statement assumes,
\* for any number of putters, getters and setters, when callers of put_head
\* do not compete.
THEOREM Invariance ==
    ASSUME NoContention PROVE Spec => []IInv
<1>1. Init => IInv
  <2> SUFFICES ASSUME Init PROVE IInv
    OBVIOUS
  <2>1. TypeOK
    BY TypeInit
  <2>2. LockInv
    BY ConstAssumption DEF Init, LockInv, Running, GetStates, Splicing
  <2>3. ListInv
    BY EmptySeq DEF Init, ListInv, Splicing
  <2>4. Range(<<>>) = {}
    BY DEF Range
  <2>5. FreshInv
    BY <2>4 DEF Init, FreshInv, Entered, Loaded, PutHeadStates
  <2> QED BY <2>1, <2>2, <2>3, <2>5 DEF IInv
<1>2. IInv /\ [Next]_vars => IInv'
  BY TypeNext, LockNext, ListNext, FreshNext DEF IInv
<1> QED BY <1>1, <1>2, PTL DEF Spec

\* No getter reads an empty list and no second thread is inside
\* __msgqueue_swap while one exchanges the lists.
THEOREM ReadsSafe ==
    ASSUME NoContention PROVE Spec => []NoWildRead
<1>1. IInv => NoWildRead
  BY DEF IInv, LockInv, NoWildRead
<1> QED BY <1>1, Invariance, PTL

\* At most one getter waits on get_cond, which is why notify_one suffices.
THEOREM OneWaiterSafe ==
    ASSUME NoContention PROVE Spec => []OneWaiter
<1>1. IInv => OneWaiter
  BY DEF IInv, LockInv, OneWaiter, GetStates
<1> QED BY <1>1, Invariance, PTL

-----------------------------------------------------------------------------
(* Getters that wait for a message.                                        *)

\* notify_one leaves nobody waiting on get_cond.
LEMMA NotifyGetWakes ==
    ASSUME TypeOK, LockInv, NEW t \in Threads, pc[t] # "swap_wait",
           NEW g \in NotifyGet(Return(t))
    PROVE  \A u \in Threads : g[u] # "swap_wait"
<1>0. pc \in [Threads -> States]
  BY DEF TypeOK
<1>1. \A u, w \in Threads : pc[u] = "swap_wait" /\ pc[w] = "swap_wait" => u = w
  BY DEF LockInv, GetStates
<1>2. /\ \A u \in Threads :
            \/ u = t /\ g[u] = "idle"
            \/ u # t /\ g[u] = pc[u]
            \/ u # t /\ pc[u] = "swap_wait" /\ g[u] = "swap"
      /\ \A u \in Threads \ {t} : pc[u] = "swap_wait" =>
            \E w \in Threads : pc[w] = "swap_wait" /\ g[w] = "swap"
  BY <1>0, NotifyAndReturn
<1>3. SUFFICES ASSUME NEW u \in Threads, g[u] = "swap_wait" PROVE FALSE
  OBVIOUS
<1>4. u # t /\ pc[u] = "swap_wait"
  BY <1>2, <1>3
<1>5. PICK w \in Threads : pc[w] = "swap_wait" /\ g[w] = "swap"
  BY <1>2, <1>4
<1>6. w = u
  BY <1>1, <1>4, <1>5
<1> QED BY <1>3, <1>5, <1>6

LEMMA WakeNext ==
    ASSUME IInv, NoLostWakeup, [Next]_vars
    PROVE  NoLostWakeup'
<1> USE DEF NoLostWakeup, GetBlocks
<1>0. pc \in [Threads -> States] /\ TypeOK /\ LockInv
  BY DEF IInv, TypeOK
<1>1. CASE UNCHANGED vars
  BY <1>1 DEF vars
<1>2. ASSUME NEW t \in Threads, Step(t) PROVE NoLostWakeup'
  <2>1. ASSUME NEW m, PutLocked(t, m), pc[t] \in {"idle", "put_wake"}
        PROVE  NoLostWakeup'
    BY <1>0, <2>1 DEF PutLocked, lists
  <2>2. ASSUME NEW m, PutHeadAtPut(t, m),
               pc[t] \in {"idle", "ph_wake", "ph_retry"}
        PROVE  NoLostWakeup'
    <3>1. CASE PutHeadBlocks
      BY <1>0, <2>2, <3>1 DEF PutHeadAtPut, lists
    <3>2. CASE ~PutHeadBlocks
      <4>1. \A u \in Threads : pc'[u] # "swap_wait"
        BY <1>0, <2>2, <3>2, NotifyGetWakes DEF PutHeadAtPut
      <4> QED BY <4>1
    <3> QED BY <3>1, <3>2
  <2>3. CASE msgqueue_put_notify(t)
    <3>1. \A u \in Threads : pc'[u] # "swap_wait"
      BY <1>0, <2>3, NotifyGetWakes DEF msgqueue_put_notify
    <3> QED BY <3>1
  <2>4. CASE msgqueue_set_nonblock_notify(t)
    <3>1. PICK f \in NotifyGet(Return(t)) : pc' = NotifyPut(f)
      BY <2>4 DEF msgqueue_set_nonblock_notify
    <3>2. \A u \in Threads : f[u] # "swap_wait"
      BY <1>0, <2>4, NotifyGetWakes DEF msgqueue_set_nonblock_notify
    <3>3. f \in [Threads -> States]
      BY <1>0, NotifyAndReturn
    <3>4. \A u \in Threads : pc'[u] # "swap_wait"
      BY <3>1, <3>2, <3>3, NotifyPutStates
    <3> QED BY <3>4
  <2>5. CASE msgqueue_swap(t)
    <3>1. CASE GetBlocks
      BY <2>5, <3>1 DEF msgqueue_swap, lists
    <3>2. CASE ~GetBlocks
      <4>1. \A u \in Threads : u # t => pc[u] # "swap_wait"
        BY <1>0, <2>5 DEF msgqueue_swap, LockInv, GetStates
      <4>2. \A u \in Threads : pc'[u] # "swap_wait"
        BY <1>0, <2>5, <3>2, <4>1, SwapControl
      <4> QED BY <4>2
    <3> QED BY <3>1, <3>2
  <2>6. CASE msgqueue_set_nonblock(t)
    <3>1. pc'[t] = "set_notify"
      BY <1>0, <2>6 DEF msgqueue_set_nonblock
    <3> QED BY <3>1
  <2>7. CASE msgqueue_set_block(t)
    BY <2>7 DEF msgqueue_set_block, lists
  <2>8. CASE SpuriousWakeup(t)
    BY <1>0, <2>8 DEF SpuriousWakeup, lists
  <2>9. CASE \/ msgqueue_get(t) \/ msgqueue_get_check(t)
             \/ msgqueue_get_read(t) \/ msgqueue_get_next(t)
             \/ msgqueue_get_store(t)
    BY <1>0, <2>9 DEF msgqueue_get, msgqueue_get_check, msgqueue_get_read,
                      msgqueue_get_next, msgqueue_get_store, lists
  <2>10. CASE msgqueue_put_head_link(t) \/ msgqueue_put_head_store(t)
    BY <1>0, <2>10 DEF msgqueue_put_head_link, msgqueue_put_head_store, lists
  <2>11. CASE msgqueue_put_head_retry(t)
    BY <1>0, <2>2, <2>11 DEF msgqueue_put_head_retry, lists
  <2>12. CASE msgqueue_put_head_woken(t)
    BY <2>2, <2>12 DEF msgqueue_put_head_woken
  <2>13. ASSUME NEW m \in Msgs, msgqueue_put_head(t, m) PROVE NoLostWakeup'
    <3>1. CASE getq = <<>>
      BY <2>2, <2>13, <3>1 DEF msgqueue_put_head
    <3>2. CASE getq # <<>>
      BY <1>0, <2>13, <3>2 DEF msgqueue_put_head, lists
    <3> QED BY <3>1, <3>2
  <2>14. ASSUME NEW m \in Msgs, msgqueue_put(t, m) PROVE NoLostWakeup'
    BY <2>1, <2>14 DEF msgqueue_put
  <2>15. CASE msgqueue_put_woken(t)
    BY <2>1, <2>15 DEF msgqueue_put_woken
  <2> QED
    BY <1>2, <2>3, <2>4, <2>5, <2>6, <2>7, <2>8, <2>9, <2>10, <2>11, <2>12,
       <2>13, <2>14, <2>15
    DEF Step, Continue
<1> QED BY <1>1, <1>2 DEF Next

\* A getter is never left waiting on get_cond while there is a message, or
\* while the queue is nonblocking, unless the notification is on its way.
THEOREM WakeupSafe ==
    ASSUME NoContention PROVE Spec => []NoLostWakeup
<1>1. Init => NoLostWakeup
  BY DEF Init, NoLostWakeup
<1>2. IInv /\ NoLostWakeup /\ [Next]_vars => NoLostWakeup'
  BY WakeNext
<1> QED BY <1>1, <1>2, Invariance, PTL DEF Spec

-----------------------------------------------------------------------------
(* The queue implements the deque.                                         *)

LEMMA ElementsAreEntered ==
    ASSUME TypeOK
    PROVE  Deque!Elements(getq \o putq) \cup Deque!Elements(delivered) = Entered
<1>1. Range(getq \o putq) = Range(getq) \cup Range(putq)
  BY RangeConcatenation DEF TypeOK
<1>2. /\ Deque!Elements(getq \o putq) = Range(getq \o putq)
      /\ Deque!Elements(delivered) = Range(delivered)
  BY DEF Deque!Elements, Range
<1> QED BY <1>1, <1>2 DEF Entered

\* Adding behind.
LEMMA DequePut ==
    ASSUME IInv, NEW t \in Threads, NEW m \in Msgs, PutLocked(t, m),
           m \notin Entered
    PROVE  Deque!Put(m) \/ UNCHANGED <<getq \o putq, delivered>>
<1>1. CASE PutBlocks
  BY <1>1 DEF PutLocked, lists
<1>2. CASE ~PutBlocks
  <2>0. getq \in Seq(Msgs) /\ putq \in Seq(Msgs) /\ <<m>> \in Seq(Msgs)
    BY DEF IInv, TypeOK
  <2>1. /\ putq' = Append(SubSeq(putq, 1, put_tail), m)
        /\ getq' = getq /\ delivered' = delivered
    BY <1>2 DEF PutLocked
  <2>2. SubSeq(putq, 1, put_tail) = putq
    BY AppendAtTail DEF IInv, TypeOK, ListInv
  <2>3. getq \o Append(putq, m) = Append(getq \o putq, m)
    BY <2>0
  <2>4. (getq \o putq)' = Append(getq \o putq, m)
    BY <2>1, <2>2, <2>3
  <2>5. Deque!Fresh(m)
    BY ElementsAreEntered DEF IInv, Deque!Fresh
  <2> QED BY <2>1, <2>4, <2>5 DEF Deque!Put
<1> QED BY <1>1, <1>2

\* Adding in front, by way of the put list.
LEMMA DequePutHead ==
    ASSUME IInv, NEW t \in Threads, NEW m \in Msgs, PutHeadAtPut(t, m),
           getq = <<>>, m \notin Entered
    PROVE  Deque!PutHead(m) \/ UNCHANGED <<getq \o putq, delivered>>
<1>1. CASE PutHeadBlocks
  BY <1>1 DEF PutHeadAtPut, lists
<1>2. CASE ~PutHeadBlocks
  <2>0. putq \in Seq(Msgs) /\ <<m>> \o putq \in Seq(Msgs)
    BY ConsProps DEF IInv, TypeOK
  <2>1. /\ putq' = <<m>> \o putq
        /\ getq' = <<>> /\ delivered' = delivered
    BY <1>2 DEF PutHeadAtPut
  <2>2. \A s \in Seq(Msgs) : <<>> \o s = s
    BY ConcatEmptySeq
  <2>3. getq \o putq = putq /\ (getq \o putq)' = <<m>> \o putq
    BY <2>0, <2>1, <2>2, Zenon
  <2>4. Deque!Fresh(m)
    BY ElementsAreEntered DEF IInv, Deque!Fresh
  <2> QED BY <2>1, <2>3, <2>4 DEF Deque!PutHead
<1> QED BY <1>1, <1>2

LEMMA DequeNext ==
    ASSUME NoContention, IInv, [Next]_vars
    PROVE  Deque!Next \/ UNCHANGED <<getq \o putq, delivered>>
<1>0. /\ TypeOK /\ getq \in Seq(Msgs) /\ putq \in Seq(Msgs)
      /\ delivered \in Seq(Msgs)
  BY DEF IInv, TypeOK
<1>1. CASE UNCHANGED vars
  BY <1>1 DEF vars
<1>2. ASSUME NEW t \in Threads, Step(t)
      PROVE  Deque!Next \/ UNCHANGED <<getq \o putq, delivered>>
  <2>0. \A m \in Msgs : Deque!Put(m) \/ Deque!PutHead(m) => Deque!Next
    BY DEF Deque!Next
  <2>1. ASSUME NEW m \in Msgs, msgqueue_put(t, m)
        PROVE  Deque!Next \/ UNCHANGED <<getq \o putq, delivered>>
    <3>1. m \notin Entered /\ PutLocked(t, m)
      BY <2>1 DEF msgqueue_put, IInv, FreshInv
    <3> QED BY <2>0, <3>1, DequePut
  <2>2. CASE msgqueue_put_woken(t)
    <3>1. msg[t] \in Msgs /\ msg[t] \notin Entered /\ PutLocked(t, msg[t])
      BY <2>2
      DEF msgqueue_put_woken, IInv, FreshInv, TypeOK, Carrying, Loaded
    <3> QED BY <2>0, <3>1, DequePut
  <2>3. ASSUME NEW m \in Msgs, msgqueue_put_head(t, m)
        PROVE  Deque!Next \/ UNCHANGED <<getq \o putq, delivered>>
    <3>1. CASE getq = <<>>
      <4>1. m \notin Entered /\ PutHeadAtPut(t, m)
        BY <2>3, <3>1 DEF msgqueue_put_head, IInv, FreshInv
      <4> QED BY <2>0, <3>1, <4>1, DequePutHead
    <3>2. CASE getq # <<>>
      BY <2>3, <3>2 DEF msgqueue_put_head, lists
    <3> QED BY <3>1, <3>2
  <2>4. CASE msgqueue_put_head_woken(t)
    <3>1. /\ msg[t] \in Msgs /\ msg[t] \notin Entered
          /\ PutHeadAtPut(t, msg[t]) /\ getq = <<>>
      BY <2>4
      DEF msgqueue_put_head_woken, IInv, FreshInv, ListInv, TypeOK, Carrying,
          Loaded, PutHeadStates
    <3> QED BY <2>0, <3>1, DequePutHead
  <2>5. CASE msgqueue_put_head_store(t)
    <3>1. /\ msg[t] \in Msgs /\ msg[t] \notin Entered
          /\ snap[t] = getq
      BY <2>5
      DEF msgqueue_put_head_store, IInv, FreshInv, ListInv, TypeOK, Carrying,
          Loaded, PutHeadStates
    <3>2. /\ getq' = <<msg[t]>> \o getq
          /\ putq' = putq /\ delivered' = delivered
      BY <2>5, <3>1 DEF msgqueue_put_head_store
    <3>3. (<<msg[t]>> \o getq) \o putq = <<msg[t]>> \o (getq \o putq)
      <4>1. \A p, q, r \in Seq(Msgs) : (p \o q) \o r = p \o (q \o r)
        BY ConcatAssociative
      <4>2. <<msg[t]>> \in Seq(Msgs)
        BY <3>1
      <4> QED BY <1>0, <4>1, <4>2, Zenon
    <3>4. (getq \o putq)' = <<msg[t]>> \o (getq \o putq)
      BY <3>2, <3>3, Zenon
    <3>5. Deque!Fresh(msg[t])
      BY <1>0, <3>1, ElementsAreEntered DEF Deque!Fresh
    <3> QED BY <2>0, <3>1, <3>2, <3>4, <3>5 DEF Deque!PutHead
  <2>6. CASE msgqueue_get_store(t)
    <3>1. /\ getq # <<>> /\ msg[t] = Head(getq) /\ snap[t] = Tail(getq)
      BY <2>6 DEF msgqueue_get_store, IInv, ListInv
    <3>2. /\ getq' = Tail(getq) /\ putq' = putq
          /\ delivered' = Append(delivered, Head(getq))
      BY <2>6, <3>1 DEF msgqueue_get_store
    <3>3. /\ getq \o putq # <<>>
          /\ Head(getq \o putq) = Head(getq)
          /\ Tail(getq \o putq) = Tail(getq) \o putq
      BY <1>0, <3>1
    <3> QED BY <3>2, <3>3 DEF Deque!Next, Deque!Get
  <2>7. CASE msgqueue_swap(t)
    <3>1. CASE GetBlocks
      BY <2>7, <3>1 DEF msgqueue_swap, lists
    <3>2. CASE ~GetBlocks
      <4>1. getq = <<>>
        BY <2>7 DEF msgqueue_swap, IInv, ListInv
      <4>2. getq' = putq /\ putq' = <<>> /\ delivered' = delivered
        BY <2>7, <3>2, <4>1 DEF msgqueue_swap, Exchange
      <4>3. <<>> \o putq = putq \o <<>>
        BY <1>0, ConcatEmptySeq
      <4> QED BY <4>1, <4>2, <4>3
    <3> QED BY <3>1, <3>2
  <2>8. CASE \/ msgqueue_get(t) \/ msgqueue_get_check(t)
             \/ msgqueue_get_read(t) \/ msgqueue_get_next(t)
             \/ msgqueue_set_nonblock(t) \/ msgqueue_set_block(t)
             \/ msgqueue_set_nonblock_notify(t) \/ msgqueue_put_notify(t)
             \/ msgqueue_put_head_link(t) \/ SpuriousWakeup(t)
    BY <2>8
    DEF msgqueue_get, msgqueue_get_check, msgqueue_get_read,
        msgqueue_get_next, msgqueue_set_nonblock, msgqueue_set_block,
        msgqueue_set_nonblock_notify, msgqueue_put_notify,
        msgqueue_put_head_link, SpuriousWakeup, lists
  <2>9. CASE msgqueue_put_head_retry(t)
    <3>1. getq # <<>>
      BY <2>9 DEF msgqueue_put_head_retry, IInv, ListInv, Splicing
    <3> QED BY <2>9, <3>1 DEF msgqueue_put_head_retry, lists
  <2> QED
    BY <1>2, <2>1, <2>2, <2>3, <2>4, <2>5, <2>6, <2>7, <2>8, <2>9
    DEF Step, Continue
<1> QED BY <1>1, <1>2 DEF Next

\* With any number of putters, getters and setters, any limit and the mode
\* changed at any time, the two lists behave like one deque: every message
\* comes out at most once and in the order in which the calls placed it.
THEOREM DequeSafe ==
    ASSUME NoContention PROVE Spec => ImplementsDeque
<1>1. Init => Deque!Init
  BY EmptySeq, ConcatEmptySeq DEF Init, Deque!Init
<1>2. IInv /\ [Next]_vars => [Deque!Next]_(Deque!dvars)
  BY DequeNext DEF Deque!dvars
<1> QED BY <1>1, <1>2, Invariance, PTL DEF Spec, ImplementsDeque, Deque!Spec
=============================================================================
