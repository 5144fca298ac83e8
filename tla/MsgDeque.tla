------------------------------ MODULE MsgDeque ------------------------------
(***************************************************************************)
(* What src/kernel/msgqueue.h promises its users, the pollers and the      *)
(* thread pool: one ordered collection of messages.  msgqueue_put adds a   *)
(* message behind all the others, msgqueue_put_head adds one in front of   *)
(* all the others, and msgqueue_get removes the one in front.  No message  *)
(* is invented, lost, duplicated or reordered on the way.  How threads     *)
(* block, and the two internal buffers, are not visible at this level.     *)
(***************************************************************************)
EXTENDS Sequences

CONSTANT Msgs   \* the messages, each given to the queue at most once

VARIABLES
    queue,      \* the messages inside, the next one to come out first
    out         \* the messages that msgqueue_get has returned, oldest first

dvars == <<queue, out>>

Elements(s) == {s[i] : i \in DOMAIN s}

Fresh(m) == m \notin Elements(queue) \cup Elements(out)

Init ==
    /\ queue = <<>>
    /\ out = <<>>

Put(m) ==
    /\ Fresh(m)
    /\ queue' = Append(queue, m)
    /\ UNCHANGED out

PutHead(m) ==
    /\ Fresh(m)
    /\ queue' = <<m>> \o queue
    /\ UNCHANGED out

Get ==
    /\ queue # <<>>
    /\ out' = Append(out, Head(queue))
    /\ queue' = Tail(queue)

Next ==
    \/ \E m \in Msgs : Put(m) \/ PutHead(m)
    \/ Get

Spec == Init /\ [][Next]_dvars
=============================================================================
