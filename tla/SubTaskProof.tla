---------------------------- MODULE SubTaskProof ----------------------------
(***************************************************************************)
(* Proofs about series and parallel tasks, for any finite forest of tasks  *)
(* and any number of threads.                                              *)
(*                                                                         *)
(* nleft of a parallel task p counts the series that are not counted down  *)
(* yet: each has one task that is a subtask of p or has p as its parent,   *)
(* and is not done, or a thread that is about to count it down.  Only the  *)
(* frame on top of a stack can be something else than a loop of            *)
(* ParallelTask::dispatch, and no subtask that such a loop has still to    *)
(* start was reached by anybody.                                           *)
(***************************************************************************)
EXTENDS SubTask, FiniteSetTheorems, SequenceTheorems, TLAPS

-----------------------------------------------------------------------------
(* The stacks, with their frames numbered from the bottom.                 *)

Depth(th) == Len(stack[th])
Frame(th, k) == stack[th][Len(stack[th]) + 1 - k]

\* The frame on top is for task t; a frame somewhere is in a loop.
On(th, at, t) == Top(th, at) /\ Head(stack[th]).task = t
InLoop(th, k, p, i) ==
    /\ k \in 1 .. Depth(th)
    /\ Frame(th, k).at = "loop" /\ Frame(th, k).task = p /\ Frame(th, k).i = i

SubTaskTypes ==
    /\ parent \in [Tasks -> Parallels \cup {NULL}]
    /\ nleft \in [Parallels -> Nat]
    /\ stack \in [Threads -> Seq(Frames)]
    /\ inflight \in SUBSET Tasks
    /\ status \in [Tasks -> {"new", "dispatched", "done"}]
    /\ bad \in BOOLEAN

\* Below the top there are only loops.
OnlyLoopsBelow ==
    \A th \in Threads : \A k \in 1 .. Depth(th) :
        k < Depth(th) => Frame(th, k).at = "loop"

\* Nobody has started t yet.
Unreached(t) == status[t] = "new" /\ \A th \in Threads : ~On(th, "start", t)

\* Where a task is: at one place at a time.
OnePlace ==
    /\ \A th \in Threads, t \in Tasks :
          /\ On(th, "start", t) => status[t] = "new"
          /\ On(th, "done", t) => status[t] = "dispatched" /\ t \notin inflight
    /\ \A t \in inflight : status[t] = "dispatched" /\ t \notin Parallels
    /\ \A th, u \in Threads, t \in Tasks :
          /\ On(th, "start", t) /\ On(u, "start", t) => th = u
          /\ On(th, "done", t) /\ On(u, "done", t) => th = u

\* The loops of ParallelTask::dispatch, one for each parallel task.
Loops ==
    /\ \A th \in Threads : \A k \in 1 .. Depth(th) : Frame(th, k).at = "loop" =>
          /\ Frame(th, k).task \in Parallels /\ Frame(th, k).i >= 1
          /\ status[Frame(th, k).task] # "new"
          /\ \A j \in DOMAIN Subtasks[Frame(th, k).task] :
                j >= Frame(th, k).i => Unreached(Subtasks[Frame(th, k).task][j])
    /\ \A th, u \in Threads : \A k \in 1 .. Depth(th), e \in 1 .. Depth(u) :
          /\ Frame(th, k).at = "loop" /\ Frame(u, e).at = "loop"
          /\ Frame(th, k).task = Frame(u, e).task
          => th = u /\ k = e

\* What comes after a task, or is below it, is not reached before its time.
NotBefore ==
    /\ \A t \in Tasks : status[t] # "done" /\ Successor[t] # NULL => Unreached(Successor[t])
    /\ \A p \in Parallels : status[p] = "new" =>
          \A i \in DOMAIN Subtasks[p] : Unreached(Subtasks[p][i])

\* The parent of a task is set when it is reached.
Parents ==
    /\ \A t \in Tasks : Unreached(t) => parent[t] = NULL
    /\ \A t \in Tasks : parent[t] # NULL => status[parent[t]] # "new"
    /\ \A p \in Parallels : \A i \in DOMAIN Subtasks[p] :
          ~Unreached(Subtasks[p][i]) => parent[Subtasks[p][i]] = p

\* The series of p that go on, and the threads about to count one down.
SubtaskSet(p) == {Subtasks[p][i] : i \in DOMAIN Subtasks[p]}
Going(p) == {t \in Tasks : status[t] # "done" /\ (parent[t] = p \/ t \in SubtaskSet(p))}
Leaving(p) == {th \in Threads : On(th, "left", p)}

LeftCounts ==
    /\ \A th \in Threads, p \in Tasks : On(th, "left", p) => p \in Parallels
    /\ \A p \in Parallels :
          /\ status[p] = "new" => Leaving(p) = {}
          /\ status[p] = "dispatched" =>
                nleft[p] = Cardinality(Going(p)) + Cardinality(Leaving(p))
          /\ status[p] = "done" \/ (\E th \in Threads : On(th, "done", p)) =>
                Going(p) = {} /\ Leaving(p) = {}

SubTaskInv ==
    /\ SubTaskTypes /\ OnlyLoopsBelow /\ OnePlace /\ Loops /\ NotBefore /\ Parents
    /\ LeftCounts /\ ~bad

-----------------------------------------------------------------------------
(* What a step does to the stacks.                                         *)

LEMMA FrameTypes ==
    /\ \A t \in Tasks : Start(t) \in Frames /\ Done(t) \in Frames /\ Left(t) \in Frames
    /\ \A t \in Tasks, i \in Nat : Loop(t, i) \in Frames
    /\ \A t : /\ Start(t).at = "start" /\ Start(t).task = t
              /\ Done(t).at = "done" /\ Done(t).task = t
              /\ Left(t).at = "left" /\ Left(t).task = t
    /\ \A t, i : Loop(t, i).at = "loop" /\ Loop(t, i).task = t /\ Loop(t, i).i = i
  BY DEF Start, Done, Left, Loop, Frames

\* The frame on top is the last one from the bottom.
LEMMA TopFrame ==
    ASSUME NEW th, stack[th] \in Seq(Frames)
    PROVE  /\ Depth(th) \in Nat
           /\ stack[th] # <<>> <=> Depth(th) >= 1
           /\ stack[th] # <<>> => /\ Head(stack[th]) = Frame(th, Depth(th))
                                  /\ Head(stack[th]) \in Frames
           /\ \A k \in 1 .. Depth(th) : Frame(th, k) \in Frames
<1>1. Depth(th) \in Nat /\ (stack[th] # <<>> <=> Depth(th) >= 1)
  BY LenProperties, EmptySeq DEF Depth
<1>2. \A k \in 1 .. Depth(th) : Len(stack[th]) + 1 - k \in 1 .. Len(stack[th])
  BY <1>1 DEF Depth
<1>3. \A k \in 1 .. Depth(th) : Frame(th, k) \in Frames
  BY <1>2, ElementOfSeq DEF Frame
<1>4. Len(stack[th]) + 1 - Depth(th) = 1
  BY <1>1 DEF Depth
<1>5. stack[th] # <<>> => Head(stack[th]) = stack[th][1] /\ Head(stack[th]) \in Frames
  BY HeadTailProperties
<1> QED BY <1>1, <1>3, <1>4, <1>5 DEF Frame

LEMMA ReplaceFacts ==
    ASSUME SubTaskTypes, NEW th \in Threads, stack[th] # <<>>, NEW fs \in Seq(Frames),
           Replace(th, fs)
    PROVE  /\ stack' \in [Threads -> Seq(Frames)]
           /\ Depth(th)' = Depth(th) - 1 + Len(fs)
           /\ \A u \in Threads \ {th} : stack'[u] = stack[u]
           /\ \A k \in 1 .. Depth(th) - 1 : Frame(th, k)' = Frame(th, k)
           /\ \A j \in 1 .. Len(fs) : stack'[th][j] = fs[j]
<1> DEFINE s == stack[th]
           n == Len(s)
           r == Tail(s)
           m == Len(fs)
<1>1. s \in Seq(Frames) /\ s # <<>>
  BY DEF SubTaskTypes
<1>2. n \in Nat /\ n >= 1
  BY <1>1, LenProperties, EmptySeq
<1>3. r \in Seq(Frames) /\ Len(r) = n - 1 /\ \A k \in 1 .. n - 1 : r[k] = s[k + 1]
  BY <1>1, HeadTailProperties
<1>4. m \in Nat
  BY LenProperties
<1> HIDE DEF r
<1>5. /\ fs \o r \in Seq(Frames) /\ Len(fs \o r) = m + n - 1
      /\ \A k \in 1 .. m + n - 1 : (fs \o r)[k] = IF k <= m THEN fs[k] ELSE r[k - m]
  <2>1. /\ fs \o r \in Seq(Frames) /\ Len(fs \o r) = Len(fs) + Len(r)
        /\ \A k \in 1 .. Len(fs) + Len(r) :
              (fs \o r)[k] = IF k <= Len(fs) THEN fs[k] ELSE r[k - Len(fs)]
    BY <1>3, ConcatProperties
  <2>2. Len(fs) + Len(r) = m + n - 1
    BY <1>2, <1>3, <1>4
  <2> QED BY <2>1, <2>2
<1>6. stack' = [stack EXCEPT ![th] = fs \o r]
  BY DEF Replace, r
<1>7. stack' \in [Threads -> Seq(Frames)]
  BY <1>5, <1>6 DEF SubTaskTypes
<1>8. stack'[th] = fs \o r /\ \A u \in Threads \ {th} : stack'[u] = stack[u]
  BY <1>6 DEF SubTaskTypes
<1>9. Depth(th)' = Depth(th) - 1 + Len(fs)
  BY <1>2, <1>4, <1>5, <1>8 DEF Depth
<1>10. ASSUME NEW k \in 1 .. Depth(th) - 1 PROVE Frame(th, k)' = Frame(th, k)
  <2>1. k \in 1 .. n - 1 /\ n - k \in 1 .. n - 1
    BY <1>2, <1>10 DEF Depth
  <2>2. Frame(th, k)' = (fs \o r)[m + n - 1 + 1 - k]
    BY <1>5, <1>8 DEF Frame
  <2>3. m + n - 1 + 1 - k \in 1 .. m + n - 1 /\ ~(m + n - 1 + 1 - k <= m)
        /\ m + n - 1 + 1 - k - m = n - k
    BY <1>2, <1>4, <2>1
  <2>4. (fs \o r)[m + n - 1 + 1 - k] = r[n - k]
    BY <1>5, <2>3
  <2>5. r[n - k] = s[n - k + 1]
    BY <1>3, <2>1
  <2>6. n - k + 1 = n + 1 - k
    BY <1>2, <2>1
  <2> QED BY <2>2, <2>4, <2>5, <2>6 DEF Frame
<1>11. \A j \in 1 .. m : j \in 1 .. m + n - 1 /\ j <= m
  BY <1>2, <1>4
<1>12. \A j \in 1 .. m : stack'[th][j] = fs[j]
  BY <1>5, <1>8, <1>11
<1> QED BY <1>7, <1>8, <1>9, <1>10, <1>12

\* Where the frames are after th has replaced its frame by fs.  A frame that is
\* no loop is on top only.
LEMMA BelowIsLoop ==
    ASSUME SubTaskTypes, OnlyLoopsBelow, NEW th \in Threads, NEW k \in 1 .. Depth(th) - 1
    PROVE  Frame(th, k).at = "loop" /\ k \in 1 .. Depth(th)
<1>1. stack[th] \in Seq(Frames)
  BY DEF SubTaskTypes
<1>2. Depth(th) \in Nat
  BY <1>1, TopFrame
<1> QED BY <1>2 DEF OnlyLoopsBelow

LEMMA OthersKeep ==
    ASSUME NEW u, stack'[u] = stack[u]
    PROVE  /\ \A at, t : On(u, at, t)' <=> On(u, at, t)
           /\ \A k, p, i : InLoop(u, k, p, i)' <=> InLoop(u, k, p, i)
           /\ Depth(u)' = Depth(u) /\ \A k : Frame(u, k)' = Frame(u, k)
  BY DEF On, Top, InLoop, Depth, Frame

\* The frame is popped.
LEMMA Pops ==
    ASSUME SubTaskTypes, OnlyLoopsBelow, NEW th \in Threads, stack[th] # <<>>,
           Replace(th, <<>>)
    PROVE  /\ stack' \in [Threads -> Seq(Frames)] /\ OnlyLoopsBelow'
           /\ \A u \in Threads \ {th} : \A at, t : On(u, at, t)' <=> On(u, at, t)
           /\ \A at, t : On(th, at, t)' => at = "loop"
           /\ \A u \in Threads \ {th} : \A k, p, i : InLoop(u, k, p, i)' <=> InLoop(u, k, p, i)
           /\ \A k, p, i : InLoop(th, k, p, i)' <=> InLoop(th, k, p, i) /\ k # Depth(th)
<1>1. <<>> \in Seq(Frames) /\ Len(<<>>) = 0
  BY EmptySeq
<1>2. /\ stack' \in [Threads -> Seq(Frames)]
      /\ Depth(th)' = Depth(th) - 1 + 0
      /\ \A u \in Threads \ {th} : stack'[u] = stack[u]
      /\ \A k \in 1 .. Depth(th) - 1 : Frame(th, k)' = Frame(th, k)
  BY <1>1, ReplaceFacts
<1>3. Depth(th) \in Nat /\ Depth(th) >= 1
  BY TopFrame DEF SubTaskTypes
<1>4. Depth(th)' = Depth(th) - 1
  BY <1>2, <1>3
<1>5. \A k \in 1 .. Depth(th) - 1 : Frame(th, k)'.at = "loop" /\ k \in 1 .. Depth(th)
  BY <1>2, BelowIsLoop
<1>6. OnlyLoopsBelow'
  <2>1. \A u \in Threads \ {th} : \A k \in 1 .. Depth(u)' : k < Depth(u)' => Frame(u, k)'.at = "loop"
    BY <1>2, OthersKeep DEF OnlyLoopsBelow
  <2> QED BY <1>4, <1>5, <2>1 DEF OnlyLoopsBelow
<1>7. ASSUME NEW at, NEW t, On(th, at, t)' PROVE at = "loop"
  <2>1. stack'[th] \in Seq(Frames) /\ stack'[th] # <<>> /\ Head(stack'[th]).at = at
    BY <1>2, <1>7 DEF On, Top
  <2>2. Depth(th)' >= 1 /\ Head(stack'[th]) = Frame(th, Depth(th))'
    BY <2>1, TopFrame DEF Depth, Frame
  <2>3. PICK n : n = Depth(th)'
    OBVIOUS
  <2>4. n \in 1 .. Depth(th) - 1
    BY <1>3, <1>4, <2>2, <2>3
  <2>5. Frame(th, Depth(th))' = Frame(th, n)'
    BY <2>3 DEF Frame
  <2>6. Frame(th, n)'.at = "loop"
    BY <1>5, <2>4
  <2> QED BY <2>1, <2>2, <2>5, <2>6
<1>8. ASSUME NEW k, NEW p, NEW i
      PROVE  InLoop(th, k, p, i)' <=> InLoop(th, k, p, i) /\ k # Depth(th)
  <2>1. k \in 1 .. Depth(th)' <=> k \in 1 .. Depth(th) /\ k # Depth(th)
    BY <1>3, <1>4
  <2>2. k \in 1 .. Depth(th)' => Frame(th, k)' = Frame(th, k)
    BY <1>2, <1>4
  <2> QED BY <2>1, <2>2 DEF InLoop
<1> QED BY <1>2, <1>6, <1>7, <1>8, OthersKeep

\* The frame is replaced by the frame f.
LEMMA Swaps ==
    ASSUME SubTaskTypes, OnlyLoopsBelow, NEW th \in Threads, stack[th] # <<>>,
           NEW f \in Frames, Replace(th, <<f>>)
    PROVE  /\ stack' \in [Threads -> Seq(Frames)] /\ OnlyLoopsBelow'
           /\ \A u \in Threads \ {th} : \A at, t : On(u, at, t)' <=> On(u, at, t)
           /\ \A at, t : On(th, at, t)' <=> f.at = at /\ f.task = t
           /\ \A u \in Threads \ {th} : \A k, p, i : InLoop(u, k, p, i)' <=> InLoop(u, k, p, i)
           /\ \A k, p, i : InLoop(th, k, p, i)' <=>
                 \/ InLoop(th, k, p, i) /\ k # Depth(th)
                 \/ k = Depth(th) /\ f.at = "loop" /\ f.task = p /\ f.i = i
<1>1. <<f>> \in Seq(Frames) /\ Len(<<f>>) = 1 /\ <<f>>[1] = f
  OBVIOUS
<1>2. /\ stack' \in [Threads -> Seq(Frames)]
      /\ Depth(th)' = Depth(th) - 1 + 1
      /\ \A u \in Threads \ {th} : stack'[u] = stack[u]
      /\ \A k \in 1 .. Depth(th) - 1 : Frame(th, k)' = Frame(th, k)
      /\ stack'[th][1] = f
  <2>1. 1 \in 1 .. Len(<<f>>)
    BY <1>1
  <2> QED BY <1>1, <2>1, ReplaceFacts
<1>3. Depth(th) \in Nat /\ Depth(th) >= 1
  BY TopFrame DEF SubTaskTypes
<1>4. Depth(th)' = Depth(th)
  BY <1>2, <1>3
<1>5. \A k \in 1 .. Depth(th) - 1 : Frame(th, k)'.at = "loop" /\ k \in 1 .. Depth(th)
  BY <1>2, BelowIsLoop
<1>6. \A k : k = Depth(th) => Frame(th, k)' = f
  <2>1. Len(stack'[th]) + 1 - Depth(th) = 1
    BY <1>3, <1>4 DEF Depth
  <2> QED BY <1>2, <2>1 DEF Frame
<1>7. \A k \in 1 .. Depth(th) : k \in 1 .. Depth(th) - 1 \/ k = Depth(th)
  BY <1>3
<1>8. OnlyLoopsBelow'
  <2>1. \A u \in Threads \ {th} : \A k \in 1 .. Depth(u)' : k < Depth(u)' => Frame(u, k)'.at = "loop"
    BY <1>2, OthersKeep DEF OnlyLoopsBelow
  <2>2. \A k \in 1 .. Depth(th)' : k < Depth(th)' => Frame(th, k)'.at = "loop"
    BY <1>3, <1>4, <1>5, <1>7
  <2> QED BY <2>1, <2>2 DEF OnlyLoopsBelow
<1>9. stack'[th] # <<>> /\ Head(stack'[th]) = f
  <2>1. stack'[th] \in Seq(Frames) /\ Len(stack'[th]) >= 1
    BY <1>2, <1>3, <1>4 DEF Depth
  <2>2. stack'[th] # <<>>
    BY <2>1, EmptySeq
  <2> QED BY <1>2, <2>1, <2>2, HeadTailProperties
<1>10. \A at, t : On(th, at, t)' <=> f.at = at /\ f.task = t
  BY <1>9 DEF On, Top
<1>11. ASSUME NEW k, NEW p, NEW i
       PROVE  InLoop(th, k, p, i)' <=>
                 \/ InLoop(th, k, p, i) /\ k # Depth(th)
                 \/ k = Depth(th) /\ f.at = "loop" /\ f.task = p /\ f.i = i
  <2>1. k = Depth(th) => k \in 1 .. Depth(th)
    BY <1>3
  <2>2. k \in 1 .. Depth(th) /\ k # Depth(th) => Frame(th, k)' = Frame(th, k)
    BY <1>2, <1>7
  <2> QED BY <1>4, <1>6, <2>1, <2>2 DEF InLoop
<1> QED BY <1>2, <1>8, <1>10, <1>11, OthersKeep

\* The frame is replaced by f on top of the loop g.
LEMMA Pushes ==
    ASSUME SubTaskTypes, OnlyLoopsBelow, NEW th \in Threads, stack[th] # <<>>,
           NEW f \in Frames, NEW g \in Frames, g.at = "loop", Replace(th, <<f, g>>)
    PROVE  /\ stack' \in [Threads -> Seq(Frames)] /\ OnlyLoopsBelow'
           /\ \A u \in Threads \ {th} : \A at, t : On(u, at, t)' <=> On(u, at, t)
           /\ \A at, t : On(th, at, t)' <=> f.at = at /\ f.task = t
           /\ \A u \in Threads \ {th} : \A k, p, i : InLoop(u, k, p, i)' <=> InLoop(u, k, p, i)
           /\ \A k, p, i : f.at # "loop" =>
                 (InLoop(th, k, p, i)' <=>
                    \/ InLoop(th, k, p, i) /\ k # Depth(th)
                    \/ k = Depth(th) /\ g.task = p /\ g.i = i)
<1>1. <<f, g>> \in Seq(Frames) /\ Len(<<f, g>>) = 2 /\ <<f, g>>[1] = f /\ <<f, g>>[2] = g
  OBVIOUS
<1>2. /\ stack' \in [Threads -> Seq(Frames)]
      /\ Depth(th)' = Depth(th) - 1 + 2
      /\ \A u \in Threads \ {th} : stack'[u] = stack[u]
      /\ \A k \in 1 .. Depth(th) - 1 : Frame(th, k)' = Frame(th, k)
      /\ stack'[th][1] = f /\ stack'[th][2] = g
  <2>1. 1 \in 1 .. Len(<<f, g>>) /\ 2 \in 1 .. Len(<<f, g>>)
    BY <1>1
  <2> QED BY <1>1, <2>1, ReplaceFacts
<1>3. Depth(th) \in Nat /\ Depth(th) >= 1
  BY TopFrame DEF SubTaskTypes
<1>4. Depth(th)' = Depth(th) + 1
  BY <1>2, <1>3
<1>5. \A k \in 1 .. Depth(th) - 1 : Frame(th, k)'.at = "loop" /\ k \in 1 .. Depth(th)
  BY <1>2, BelowIsLoop
<1>6. \A k : /\ k = Depth(th) => Frame(th, k)' = g
             /\ k = Depth(th) + 1 => Frame(th, k)' = f
  <2>1. /\ Len(stack'[th]) + 1 - Depth(th) = 2
        /\ Len(stack'[th]) + 1 - (Depth(th) + 1) = 1
    BY <1>3, <1>4 DEF Depth
  <2> QED BY <1>2, <2>1 DEF Frame
<1>7. \A k \in 1 .. Depth(th) + 1 :
         k \in 1 .. Depth(th) - 1 \/ k = Depth(th) \/ k = Depth(th) + 1
  BY <1>3
<1>8. OnlyLoopsBelow'
  <2>1. \A u \in Threads \ {th} : \A k \in 1 .. Depth(u)' : k < Depth(u)' => Frame(u, k)'.at = "loop"
    BY <1>2, OthersKeep DEF OnlyLoopsBelow
  <2>2. \A k \in 1 .. Depth(th)' : k < Depth(th)' => Frame(th, k)'.at = "loop"
    BY <1>3, <1>4, <1>5, <1>6, <1>7
  <2> QED BY <2>1, <2>2 DEF OnlyLoopsBelow
<1>9. stack'[th] # <<>> /\ Head(stack'[th]) = f
  <2>1. stack'[th] \in Seq(Frames) /\ Len(stack'[th]) >= 1
    BY <1>2, <1>3, <1>4 DEF Depth
  <2>2. stack'[th] # <<>>
    BY <2>1, EmptySeq
  <2> QED BY <1>2, <2>1, <2>2, HeadTailProperties
<1>10. \A at, t : On(th, at, t)' <=> f.at = at /\ f.task = t
  BY <1>9 DEF On, Top
<1>11. ASSUME NEW k, NEW p, NEW i, f.at # "loop"
       PROVE  InLoop(th, k, p, i)' <=>
                    \/ InLoop(th, k, p, i) /\ k # Depth(th)
                    \/ k = Depth(th) /\ g.task = p /\ g.i = i
  <2>1. k = Depth(th) => k \in 1 .. Depth(th)
    BY <1>3
  <2>2. k \in 1 .. Depth(th) + 1 <=> k \in 1 .. Depth(th) \/ k = Depth(th) + 1
    BY <1>3
  <2>3. k \in 1 .. Depth(th) /\ k # Depth(th) => Frame(th, k)' = Frame(th, k)
    BY <1>2, <1>3
  <2>4. k = Depth(th) + 1 => k # Depth(th) /\ k \notin 1 .. Depth(th)
    BY <1>3
  <2> QED BY <1>4, <1>6, <1>11, <2>1, <2>2, <2>3, <2>4 DEF InLoop
<1> QED BY <1>2, <1>8, <1>10, <1>11, OthersKeep

-----------------------------------------------------------------------------
(* The invariant without the numbering of the frames.                      *)

LoopsAt ==
    /\ \A th \in Threads : \A k, p, i : InLoop(th, k, p, i) =>
          /\ p \in Parallels /\ i \in Nat /\ i >= 1 /\ status[p] # "new"
          /\ \A j \in DOMAIN Subtasks[p] : j >= i => Unreached(Subtasks[p][j])
    /\ \A th, u \in Threads : \A k, l, p, i, j :
          InLoop(th, k, p, i) /\ InLoop(u, l, p, j) => th = u /\ k = l

LEMMA LoopForm == SubTaskTypes => (Loops <=> LoopsAt)
<1> SUFFICES ASSUME SubTaskTypes PROVE Loops <=> LoopsAt
  OBVIOUS
<1>1. \A th \in Threads : \A k \in 1 .. Depth(th) : Frame(th, k) \in Frames
  BY TopFrame DEF SubTaskTypes
<1>2. \A th \in Threads : \A k \in 1 .. Depth(th) : Frame(th, k).i \in Nat
  BY <1>1 DEF Frames
<1>3. ASSUME Loops PROVE LoopsAt
  BY <1>2, <1>3 DEF Loops, LoopsAt, InLoop
<1>4. ASSUME LoopsAt PROVE Loops
  <2>1. \A th \in Threads : \A k \in 1 .. Depth(th) : Frame(th, k).at = "loop" =>
           InLoop(th, k, Frame(th, k).task, Frame(th, k).i)
    BY DEF InLoop
  <2> QED BY <1>4, <2>1 DEF Loops, LoopsAt
<1> QED BY <1>3, <1>4

LEMMA LoopFormNext == SubTaskTypes' => (Loops' <=> LoopsAt')
  BY LoopForm, PTL

\* The frame on top, by what it is.
LEMMA OnTop ==
    ASSUME SubTaskTypes, Loops, NEW th \in Threads, NEW at, Top(th, at)
    PROVE  /\ stack[th] # <<>> /\ Head(stack[th]).task \in Tasks
           /\ \A t : Head(stack[th]).task = t => On(th, at, t)
           /\ \A a, t : On(th, a, t) => a = at /\ t = Head(stack[th]).task
           /\ at # "loop" => \A k, p, i : InLoop(th, k, p, i) => k # Depth(th)
           /\ at = "loop" => /\ InLoop(th, Depth(th), Head(stack[th]).task, Head(stack[th]).i)
                             /\ Head(stack[th]).i \in Nat
<1>1. stack[th] \in Seq(Frames) /\ stack[th] # <<>> /\ Head(stack[th]).at = at
  BY DEF SubTaskTypes, Top
<1>2. /\ Depth(th) \in Nat /\ Depth(th) >= 1
      /\ Head(stack[th]) = Frame(th, Depth(th)) /\ Head(stack[th]) \in Frames
  BY <1>1, TopFrame
<1>3. Head(stack[th]).task \in Tasks /\ Head(stack[th]).i \in Nat
  BY <1>2 DEF Frames
<1>4. Depth(th) \in 1 .. Depth(th)
  BY <1>2
<1> QED BY <1>1, <1>2, <1>3, <1>4 DEF On, Top, InLoop

LEMMA SubtaskBasics ==
    /\ Parallels \subseteq Tasks /\ NULL \notin Tasks /\ Root \in Tasks
    /\ \A p \in Parallels : /\ Subtasks[p] \in Seq(Tasks)
                            /\ Len(Subtasks[p]) \in Nat
                            /\ DOMAIN Subtasks[p] = 1 .. Len(Subtasks[p])
                            /\ \A i \in DOMAIN Subtasks[p] : Subtasks[p][i] \in Tasks
    /\ \A t \in Tasks : Successor[t] \in Tasks \cup {NULL}
<1>1. \A p \in Parallels : Subtasks[p] \in Seq(Tasks)
  BY SubTaskAssumption
<1>2. \A p \in Parallels : Len(Subtasks[p]) \in Nat /\ DOMAIN Subtasks[p] = 1 .. Len(Subtasks[p])
  BY <1>1, LenProperties
<1>3. \A p \in Parallels : \A i \in DOMAIN Subtasks[p] : Subtasks[p][i] \in Tasks
  BY <1>1, <1>2, ElementOfSeq
<1> QED BY <1>1, <1>2, <1>3, SubTaskAssumption

LEMMA FiniteParts ==
    ASSUME NEW p
    PROVE  /\ IsFiniteSet(Going(p)) /\ Cardinality(Going(p)) \in Nat
           /\ IsFiniteSet(Leaving(p)) /\ Cardinality(Leaving(p)) \in Nat
  BY OnceAssumption, FS_Subset, FS_CardinalityType DEF Going, Leaving

\* Each subtask is counted once when the parallel task is dispatched.
LEMMA SubtasksCounted ==
    ASSUME NEW p \in Parallels
    PROVE  /\ Cardinality(SubtaskSet(p)) = Len(Subtasks[p])
           /\ Subtasks[p] = <<>> <=> SubtaskSet(p) = {}
           /\ SubtaskSet(p) \subseteq Tasks
<1> DEFINE D == 1 .. Len(Subtasks[p])
           f == [i \in D |-> Subtasks[p][i]]
<1>1. Subtasks[p] \in Seq(Tasks) /\ Len(Subtasks[p]) \in Nat /\ DOMAIN Subtasks[p] = D
  BY SubtaskBasics
<1>2. \A i, j \in D : f[i] = f[j] => i = j
  BY <1>1, OnceAssumption
<1>3. f \in [D -> SubtaskSet(p)] /\ \A t \in SubtaskSet(p) : \E i \in D : f[i] = t
  BY <1>1 DEF SubtaskSet
<1>4. ExistsBijection(D, SubtaskSet(p))
  <2> HIDE DEF f, D
  <2> QED BY <1>2, <1>3 DEF ExistsBijection, Bijection, Injection, Surjection, IsInjective
<1>5. IsFiniteSet(D) /\ Cardinality(D) = Len(Subtasks[p])
  BY <1>1, FS_Interval
<1>6. Cardinality(SubtaskSet(p)) = Len(Subtasks[p])
  <2> HIDE DEF f, D
  <2> QED BY <1>4, <1>5, FS_Bijection
<1>7. Subtasks[p] = <<>> <=> SubtaskSet(p) = {}
  <2>1. Subtasks[p] = <<>> <=> Len(Subtasks[p]) = 0
    BY <1>1, EmptySeq
  <2>2. Len(Subtasks[p]) = 0 <=> D = {}
    <3>1. \A n \in Nat : n = 0 <=> 1 .. n = {}
      <4>1. \A n \in Nat : n # 0 => 1 \in 1 .. n
        OBVIOUS
      <4>2. 1 .. 0 = {}
        OBVIOUS
      <4> QED BY <4>1, <4>2
    <3> QED BY <1>1, <3>1
  <2> QED BY <1>1, <2>1, <2>2 DEF SubtaskSet
<1> QED BY <1>6, <1>7, SubtaskBasics DEF SubtaskSet

-----------------------------------------------------------------------------
(* The steps.                                                              *)

LEMMA UsesAlive ==
    ASSUME NEW t, Uses(t), status[t] # "done", ~bad
    PROVE  ~bad' /\ bad' \in BOOLEAN
  BY DEF Uses

\* dispatch() of a task that is not parallel.
LEMMA KeepsDispatch ==
    ASSUME SubTaskInv, NEW th \in Threads, dispatch(th)
    PROVE  SubTaskInv'
<1> PICK t : t = Head(stack[th]).task
  OBVIOUS
<1>1. /\ Top(th, "start") /\ t \notin Parallels
      /\ \/ inflight' = inflight \cup {t} /\ Replace(th, <<>>)
         \/ Replace(th, <<Done(t)>>) /\ UNCHANGED inflight
      /\ status' = [status EXCEPT ![t] = "dispatched"]
      /\ Uses(t) /\ UNCHANGED <<parent, nleft>>
  BY DEF dispatch
<1> USE DEF SubTaskInv
<1>2. /\ stack[th] # <<>> /\ t \in Tasks /\ On(th, "start", t)
      /\ \A a, x : On(th, a, x) => a = "start" /\ x = t
      /\ \A k, p, i : InLoop(th, k, p, i) => k # Depth(th)
  BY <1>1, OnTop
<1>3. status[t] = "new" /\ t \notin inflight
  BY <1>2 DEF OnePlace
<1>4. /\ status' \in [Tasks -> {"new", "dispatched", "done"}]
      /\ \A x \in Tasks : status'[x] = IF x = t THEN "dispatched" ELSE status[x]
  BY <1>1, <1>2 DEF SubTaskTypes
<1>5. ~bad' /\ bad' \in BOOLEAN
  BY <1>1, <1>3, UsesAlive
<1>6. /\ stack' \in [Threads -> Seq(Frames)] /\ OnlyLoopsBelow'
      /\ \A u \in Threads \ {th} : \A at, x : On(u, at, x)' <=> On(u, at, x)
      /\ \A x : ~On(th, "start", x)' /\ ~On(th, "left", x)'
      /\ \A x : On(th, "done", x)' => x = t /\ inflight' = inflight
      /\ \A u \in Threads : \A k, p, i : InLoop(u, k, p, i)' <=> InLoop(u, k, p, i)
      /\ inflight' = inflight \/ inflight' = inflight \cup {t}
  <2>1. CASE Replace(th, <<>>) /\ inflight' = inflight \cup {t}
    <3>1. /\ stack' \in [Threads -> Seq(Frames)] /\ OnlyLoopsBelow'
          /\ \A u \in Threads \ {th} : \A at, x : On(u, at, x)' <=> On(u, at, x)
          /\ \A at, x : On(th, at, x)' => at = "loop"
          /\ \A u \in Threads \ {th} : \A k, p, i : InLoop(u, k, p, i)' <=> InLoop(u, k, p, i)
          /\ \A k, p, i : InLoop(th, k, p, i)' <=> InLoop(th, k, p, i) /\ k # Depth(th)
      BY <1>2, <2>1, Pops
    <3> QED BY <1>2, <2>1, <3>1
  <2>2. CASE Replace(th, <<Done(t)>>) /\ UNCHANGED inflight
    <3>1. Done(t) \in Frames /\ Done(t).at = "done" /\ Done(t).task = t
      BY <1>2, FrameTypes
    <3>2. PICK f : f = Done(t)
      OBVIOUS
    <3>3. /\ stack' \in [Threads -> Seq(Frames)] /\ OnlyLoopsBelow'
          /\ \A u \in Threads \ {th} : \A at, x : On(u, at, x)' <=> On(u, at, x)
          /\ \A at, x : On(th, at, x)' <=> f.at = at /\ f.task = x
          /\ \A u \in Threads \ {th} : \A k, p, i : InLoop(u, k, p, i)' <=> InLoop(u, k, p, i)
          /\ \A k, p, i : InLoop(th, k, p, i)' <=>
                \/ InLoop(th, k, p, i) /\ k # Depth(th)
                \/ k = Depth(th) /\ f.at = "loop" /\ f.task = p /\ f.i = i
      BY <1>2, <2>2, <3>1, <3>2, Swaps
    <3> QED BY <1>2, <2>2, <3>1, <3>2, <3>3
  <2> QED BY <1>1, <2>1, <2>2
<1>7. SubTaskTypes'
  BY <1>1, <1>2, <1>4, <1>5, <1>6 DEF SubTaskTypes
<1>8. \A x \in Tasks : Unreached(x)' <=> Unreached(x)
  BY <1>2, <1>3, <1>4, <1>6, SMTT(30) DEF Unreached
<1>9. OnePlace'
  <2>1. \A u \in Threads, x \in Tasks : On(u, "start", x)' => On(u, "start", x) /\ x # t
    BY <1>2, <1>6 DEF OnePlace
  <2>2. \A u \in Threads, x \in Tasks :
           On(u, "done", x)' => (u = th /\ x = t /\ inflight' = inflight) \/ (On(u, "done", x) /\ x # t)
    BY <1>3, <1>6 DEF OnePlace
  <2>3. \A u \in Threads, x \in Tasks :
          /\ On(u, "start", x)' => status'[x] = "new"
          /\ On(u, "done", x)' => status'[x] = "dispatched" /\ x \notin inflight'
    BY <1>3, <1>4, <1>6, <2>1, <2>2 DEF OnePlace
  <2>4. \A x \in inflight' : status'[x] = "dispatched" /\ x \notin Parallels
    BY <1>1, <1>2, <1>4, <1>6 DEF OnePlace, SubTaskTypes
  <2>5. \A v, u \in Threads, x \in Tasks :
          /\ On(v, "start", x)' /\ On(u, "start", x)' => v = u
          /\ On(v, "done", x)' /\ On(u, "done", x)' => v = u
    BY <2>1, <2>2 DEF OnePlace
  <2> QED BY <2>3, <2>4, <2>5 DEF OnePlace
<1>10. Loops'
  <2>1. LoopsAt
    BY LoopForm
  <2>2. LoopsAt'
    BY <1>4, <1>6, <1>8, <2>1, SubtaskBasics, SMTT(30) DEF LoopsAt
  <2> QED BY <1>7, <2>2, LoopFormNext
<1>11. NotBefore'
  BY <1>3, <1>4, <1>8, SubtaskBasics DEF NotBefore
<1>12. Parents'
  BY <1>1, <1>4, <1>8, SubtaskBasics DEF Parents, SubTaskTypes
<1>13. \A p \in Parallels : Going(p)' = Going(p) /\ Leaving(p)' = Leaving(p)
  <2>1. \A p \in Parallels : Going(p)' = Going(p)
    BY <1>1, <1>3, <1>4 DEF Going, SubtaskSet
  <2>2. \A p \in Parallels : Leaving(p)' = Leaving(p)
    BY <1>2, <1>6 DEF Leaving
  <2> QED BY <2>1, <2>2
<1>14. LeftCounts'
  <2>1. \A p \in Parallels : status'[p] = status[p] /\ nleft'[p] = nleft[p]
    BY <1>1, <1>4, SubtaskBasics
  <2>2. \A p \in Parallels, u \in Threads : On(u, "done", p)' => On(u, "done", p)
    BY <1>1, <1>6
  <2> QED BY <1>6, <1>13, <2>1, <2>2 DEF LeftCounts
<1> QED BY <1>5, <1>6, <1>7, <1>9, <1>10, <1>11, <1>12, <1>14

\* dispatch() of a parallel task: its subtasks are counted, all of them new.
LEMMA KeepsParallel ==
    ASSUME SubTaskInv, NEW th \in Threads, ParallelTask_dispatch(th)
    PROVE  SubTaskInv'
<1> PICK t : t = Head(stack[th]).task
  OBVIOUS
<1>1. /\ Top(th, "start") /\ t \in Parallels
      /\ nleft' = [nleft EXCEPT ![t] = Len(Subtasks[t])]
      /\ status' = [status EXCEPT ![t] = "dispatched"]
      /\ Replace(th, IF Subtasks[t] # <<>> THEN <<Loop(t, 1)>> ELSE <<Done(t)>>)
      /\ Uses(t) /\ UNCHANGED <<parent, inflight>>
  BY DEF ParallelTask_dispatch, InitialLeft
<1> USE DEF SubTaskInv
<1>2. /\ stack[th] # <<>> /\ t \in Tasks /\ On(th, "start", t)
      /\ \A a, x : On(th, a, x) => a = "start" /\ x = t
      /\ \A k, p, i : InLoop(th, k, p, i) => k # Depth(th)
  BY <1>1, OnTop
<1>3. status[t] = "new" /\ t \notin inflight
  BY <1>2 DEF OnePlace
<1>4. /\ status' \in [Tasks -> {"new", "dispatched", "done"}]
      /\ \A x \in Tasks : status'[x] = IF x = t THEN "dispatched" ELSE status[x]
  BY <1>1, <1>2 DEF SubTaskTypes
<1>5. ~bad' /\ bad' \in BOOLEAN
  BY <1>1, <1>3, UsesAlive
<1>6. /\ stack' \in [Threads -> Seq(Frames)] /\ OnlyLoopsBelow'
      /\ \A u \in Threads \ {th} : \A at, x : On(u, at, x)' <=> On(u, at, x)
      /\ \A x : ~On(th, "start", x)' /\ ~On(th, "left", x)'
      /\ \A x : On(th, "done", x)' => x = t /\ Subtasks[t] = <<>>
      /\ \A u \in Threads : \A k, p, i :
            InLoop(u, k, p, i)' => \/ InLoop(u, k, p, i)
                                   \/ u = th /\ k = Depth(th) /\ p = t /\ i = 1
  <2>1. PICK f : f = IF Subtasks[t] # <<>> THEN Loop(t, 1) ELSE Done(t)
    OBVIOUS
  <2>2. /\ f \in Frames /\ f.task = t
        /\ \/ Subtasks[t] # <<>> /\ f.at = "loop" /\ f.i = 1
           \/ Subtasks[t] = <<>> /\ f.at = "done"
    BY <1>2, <2>1, FrameTypes
  <2>3. Replace(th, <<f>>)
    BY <1>1, <2>1
  <2>4. /\ stack' \in [Threads -> Seq(Frames)] /\ OnlyLoopsBelow'
        /\ \A u \in Threads \ {th} : \A at, x : On(u, at, x)' <=> On(u, at, x)
        /\ \A at, x : On(th, at, x)' <=> f.at = at /\ f.task = x
        /\ \A u \in Threads \ {th} : \A k, p, i : InLoop(u, k, p, i)' <=> InLoop(u, k, p, i)
        /\ \A k, p, i : InLoop(th, k, p, i)' <=>
              \/ InLoop(th, k, p, i) /\ k # Depth(th)
              \/ k = Depth(th) /\ f.at = "loop" /\ f.task = p /\ f.i = i
    BY <1>2, <2>2, <2>3, Swaps
  <2> QED BY <1>2, <2>2, <2>4
<1>7. /\ nleft' \in [Parallels -> Nat]
      /\ nleft'[t] = Len(Subtasks[t])
      /\ \A p \in Parallels \ {t} : nleft'[p] = nleft[p]
  BY <1>1, SubtaskBasics DEF SubTaskTypes
<1>8. SubTaskTypes'
  BY <1>1, <1>4, <1>5, <1>6, <1>7 DEF SubTaskTypes
<1>9. \A x \in Tasks : Unreached(x)' <=> Unreached(x)
  BY <1>2, <1>3, <1>4, <1>6, SMTT(30) DEF Unreached
<1>10. OnePlace'
  <2>1. \A u \in Threads, x \in Tasks : On(u, "start", x)' => On(u, "start", x) /\ x # t
    BY <1>2, <1>6 DEF OnePlace
  <2>2. \A u \in Threads, x \in Tasks :
           On(u, "done", x)' => (u = th /\ x = t) \/ (On(u, "done", x) /\ x # t)
    BY <1>3, <1>6 DEF OnePlace
  <2>3. \A u \in Threads, x \in Tasks :
          /\ On(u, "start", x)' => status'[x] = "new"
          /\ On(u, "done", x)' => status'[x] = "dispatched" /\ x \notin inflight'
    BY <1>1, <1>3, <1>4, <2>1, <2>2 DEF OnePlace
  <2>4. \A x \in inflight' : status'[x] = "dispatched" /\ x \notin Parallels
    BY <1>1, <1>2, <1>4 DEF OnePlace, SubTaskTypes
  <2>5. \A v, u \in Threads, x \in Tasks :
          /\ On(v, "start", x)' /\ On(u, "start", x)' => v = u
          /\ On(v, "done", x)' /\ On(u, "done", x)' => v = u
    BY <2>1, <2>2 DEF OnePlace
  <2> QED BY <2>3, <2>4, <2>5 DEF OnePlace
<1>11. Loops'
  <2>1. LoopsAt
    BY LoopForm
  <2>2. \A u \in Threads : \A k, i : ~InLoop(u, k, t, i)
    BY <1>3, <2>1 DEF LoopsAt
  <2>3. \A i \in DOMAIN Subtasks[t] : Unreached(Subtasks[t][i])
    BY <1>1, <1>3 DEF NotBefore
  <2>4. LoopsAt'
    <3>1. ASSUME NEW u \in Threads, NEW k, NEW p, NEW i, InLoop(u, k, p, i)'
          PROVE  /\ p \in Parallels /\ i \in Nat /\ i >= 1 /\ status'[p] # "new"
                 /\ \A j \in DOMAIN Subtasks[p] : j >= i => Unreached(Subtasks[p][j])'
      <4>1. CASE InLoop(u, k, p, i)
        BY <1>4, <1>9, <2>1, <4>1, SubtaskBasics DEF LoopsAt
      <4>2. CASE p = t /\ i = 1
        BY <1>1, <1>2, <1>4, <1>9, <2>3, <4>2, SubtaskBasics
      <4> QED BY <1>6, <3>1, <4>1, <4>2
    <3>2. \A v, u \in Threads : \A k, l, p, i, j :
            InLoop(v, k, p, i)' /\ InLoop(u, l, p, j)' => v = u /\ k = l
      BY <1>6, <2>1, <2>2 DEF LoopsAt
    <3> QED BY <3>1, <3>2 DEF LoopsAt
  <2> QED BY <1>8, <2>4, LoopFormNext
<1>12. NotBefore'
  BY <1>3, <1>4, <1>9, SubtaskBasics DEF NotBefore
<1>13. Parents'
  BY <1>1, <1>4, <1>9, SubtaskBasics DEF Parents, SubTaskTypes
<1>14. \A p \in Parallels : Going(p)' = Going(p) /\ Leaving(p)' = Leaving(p)
  <2>1. \A p \in Parallels : Going(p)' = Going(p)
    BY <1>1, <1>3, <1>4 DEF Going, SubtaskSet
  <2>2. \A p \in Parallels : Leaving(p)' = Leaving(p)
    BY <1>2, <1>6 DEF Leaving
  <2> QED BY <2>1, <2>2
<1>15. Going(t) = SubtaskSet(t) /\ Leaving(t) = {}
  <2>1. \A x \in Tasks : parent[x] # t
    BY <1>2, <1>3, SubtaskBasics DEF Parents
  <2>2. \A i \in DOMAIN Subtasks[t] : status[Subtasks[t][i]] = "new"
    BY <1>1, <1>3 DEF NotBefore, Unreached
  <2>3. \A x \in SubtaskSet(t) : x \in Tasks /\ status[x] = "new"
    BY <1>1, <2>2, SubtaskBasics DEF SubtaskSet
  <2>4. Going(t) = SubtaskSet(t)
    BY <2>1, <2>3 DEF Going
  <2> QED BY <1>1, <1>3, <2>4 DEF LeftCounts
<1>16. LeftCounts'
  <2>1. \A u \in Threads, p \in Tasks : On(u, "left", p)' => p \in Parallels
    BY <1>6 DEF LeftCounts
  <2>2. ASSUME NEW p \in Parallels, p # t
        PROVE  /\ status'[p] = "new" => Leaving(p)' = {}
               /\ status'[p] = "dispatched" =>
                     nleft'[p] = Cardinality(Going(p)') + Cardinality(Leaving(p)')
               /\ status'[p] = "done" \/ (\E u \in Threads : On(u, "done", p)') =>
                     Going(p)' = {} /\ Leaving(p)' = {}
    <3>1. status'[p] = status[p] /\ nleft'[p] = nleft[p]
      BY <1>4, <1>7, <2>2, SubtaskBasics
    <3>2. \A u \in Threads : On(u, "done", p)' => On(u, "done", p)
      BY <1>6, <2>2
    <3> QED BY <1>14, <3>1, <3>2 DEF LeftCounts
  <2>3. /\ status'[t] = "dispatched"
        /\ nleft'[t] = Cardinality(Going(t)') + Cardinality(Leaving(t)')
        /\ (\E u \in Threads : On(u, "done", t)') => Going(t)' = {} /\ Leaving(t)' = {}
    <3>1. Going(t)' = SubtaskSet(t) /\ Leaving(t)' = {}
      BY <1>1, <1>14, <1>15
    <3>2. Cardinality(SubtaskSet(t)) = Len(Subtasks[t]) /\ Cardinality({}) = 0
          /\ (Subtasks[t] = <<>> <=> SubtaskSet(t) = {}) /\ Len(Subtasks[t]) \in Nat
      BY <1>1, SubtasksCounted, FS_EmptySet, SubtaskBasics
    <3>3. \A u \in Threads : On(u, "done", t)' => Subtasks[t] = <<>>
      BY <1>2, <1>3, <1>6 DEF OnePlace
    <3>4. nleft'[t] = Cardinality(Going(t)') + Cardinality(Leaving(t)')
      <4>1. Cardinality(Going(t)') = Len(Subtasks[t]) /\ Cardinality(Leaving(t)') = 0
        BY <3>1, <3>2
      <4> QED BY <1>7, <3>2, <4>1
    <3>5. status'[t] = "dispatched"
      BY <1>2, <1>4
    <3> QED BY <3>1, <3>2, <3>3, <3>4, <3>5
  <2> QED BY <2>1, <2>2, <2>3 DEF LeftCounts
<1> QED BY <1>5, <1>6, <1>8, <1>10, <1>11, <1>12, <1>13, <1>16

\* The loop starts the next subtask, which nobody has reached: so the parallel
\* task is not done yet.
LEMMA KeepsLoop ==
    ASSUME SubTaskInv, NEW th \in Threads, ParallelTask_dispatch_loop(th)
    PROVE  SubTaskInv'
<1> PICK t : t = Head(stack[th]).task
  OBVIOUS
<1> PICK n : n = Head(stack[th]).i
  OBVIOUS
<1> PICK s : s = Subtasks[t][n]
  OBVIOUS
<1>1. /\ Top(th, "loop") /\ n <= Len(Subtasks[t])
      /\ parent' = [parent EXCEPT ![s] = t]
      /\ Replace(th, <<Start(s), Loop(t, n + 1)>>)
      /\ Uses(t) /\ UNCHANGED <<nleft, inflight, status>>
  BY DEF ParallelTask_dispatch_loop
<1> USE DEF SubTaskInv
<1>2. /\ stack[th] # <<>> /\ t \in Tasks /\ n \in Nat
      /\ \A a, x : On(th, a, x) => a = "loop"
      /\ \A k : k = Depth(th) => InLoop(th, k, t, n)
  BY <1>1, OnTop
<1>3. LoopsAt
  BY LoopForm
<1>4. /\ t \in Parallels /\ n >= 1 /\ status[t] # "new"
      /\ \A j \in DOMAIN Subtasks[t] : j >= n => Unreached(Subtasks[t][j])
  BY <1>2, <1>3 DEF LoopsAt
<1>5. n \in DOMAIN Subtasks[t] /\ s \in Tasks /\ Unreached(s) /\ s \in SubtaskSet(t)
  <2>1. Len(Subtasks[t]) \in Nat /\ DOMAIN Subtasks[t] = 1 .. Len(Subtasks[t])
    BY <1>4, SubtaskBasics
  <2>2. n \in DOMAIN Subtasks[t]
    <3>1. n \in Nat /\ n >= 1 /\ n <= Len(Subtasks[t])
      BY ONLY <1>1, <1>2, <1>4
    <3> QED BY ONLY <3>1, <2>1
  <2>3. s \in Tasks
    BY <1>4, <2>2, SubtaskBasics
  <2>4. Unreached(s)
    BY <1>2, <1>4, <2>2
  <2> QED BY <2>2, <2>3, <2>4 DEF SubtaskSet
<1>6. status[s] = "new" /\ parent[s] = NULL /\ \A u \in Threads : ~On(u, "start", s)
  BY <1>5 DEF Unreached, Parents
<1>7. s \in Going(t)
  BY <1>5, <1>6 DEF Going
<1>8. status[t] = "dispatched"
  BY <1>4, <1>7, SubtaskBasics DEF LeftCounts, SubTaskTypes
<1>9. ~bad' /\ bad' \in BOOLEAN
  BY <1>1, <1>8, UsesAlive
<1>10. /\ stack' \in [Threads -> Seq(Frames)] /\ OnlyLoopsBelow'
       /\ \A u \in Threads \ {th} : \A at, x : On(u, at, x)' <=> On(u, at, x)
       /\ \A at, x : On(th, at, x)' <=> at = "start" /\ x = s
       /\ \A u \in Threads \ {th} : \A k, p, i : InLoop(u, k, p, i)' <=> InLoop(u, k, p, i)
       /\ \A k, p, i : InLoop(th, k, p, i)' <=>
             \/ InLoop(th, k, p, i) /\ k # Depth(th)
             \/ k = Depth(th) /\ t = p /\ n + 1 = i
  <2>1. PICK f : f = Start(s)
    OBVIOUS
  <2>2. PICK g : g = Loop(t, n + 1)
    OBVIOUS
  <2>3. n + 1 \in Nat
    BY <1>2
  <2>4. /\ f \in Frames /\ f.at = "start" /\ f.task = s
        /\ g \in Frames /\ g.at = "loop" /\ g.task = t /\ g.i = n + 1
    <3>1. f \in Frames /\ f.at = "start" /\ f.task = s
      BY <1>5, <2>1, FrameTypes
    <3>2. g \in Frames
      BY <1>2, <2>2, <2>3, FrameTypes
    <3>3. g.at = "loop" /\ g.task = t /\ g.i = n + 1
      BY <2>2 DEF Loop
    <3> QED BY <3>1, <3>2, <3>3
  <2>5. Replace(th, <<f, g>>)
    BY <1>1, <2>1, <2>2
  <2>6. /\ stack' \in [Threads -> Seq(Frames)] /\ OnlyLoopsBelow'
        /\ \A u \in Threads \ {th} : \A at, x : On(u, at, x)' <=> On(u, at, x)
        /\ \A at, x : On(th, at, x)' <=> f.at = at /\ f.task = x
        /\ \A u \in Threads \ {th} : \A k, p, i : InLoop(u, k, p, i)' <=> InLoop(u, k, p, i)
        /\ \A k, p, i : f.at # "loop" =>
              (InLoop(th, k, p, i)' <=>
                 \/ InLoop(th, k, p, i) /\ k # Depth(th)
                 \/ k = Depth(th) /\ g.task = p /\ g.i = i)
    BY <1>2, <2>4, <2>5, Pushes
  <2> QED BY <2>4, <2>6
<1>11. /\ parent' \in [Tasks -> Parallels \cup {NULL}]
       /\ \A x \in Tasks : parent'[x] = IF x = s THEN t ELSE parent[x]
  BY <1>1, <1>4, <1>5 DEF SubTaskTypes
<1>12. SubTaskTypes'
  BY <1>1, <1>9, <1>10, <1>11 DEF SubTaskTypes
<1>13. \A x \in Tasks : Unreached(x)' <=> Unreached(x) /\ x # s
  BY <1>1, <1>2, <1>10 DEF Unreached
<1>14. OnePlace'
  <2>1. \A u \in Threads, x \in Tasks :
           /\ On(u, "start", x)' => (u = th /\ x = s) \/ (On(u, "start", x) /\ x # s)
           /\ On(u, "done", x)' => On(u, "done", x)
    BY <1>6, <1>10
  <2>2. \A u \in Threads, x \in Tasks :
          /\ On(u, "start", x)' => status'[x] = "new"
          /\ On(u, "done", x)' => status'[x] = "dispatched" /\ x \notin inflight'
    BY <1>1, <1>6, <2>1 DEF OnePlace
  <2>3. \A v, u \in Threads, x \in Tasks :
          /\ On(v, "start", x)' /\ On(u, "start", x)' => v = u
          /\ On(v, "done", x)' /\ On(u, "done", x)' => v = u
    BY <2>1 DEF OnePlace
  <2> QED BY <1>1, <2>2, <2>3 DEF OnePlace
<1>15. \A p \in Parallels : \A j \in DOMAIN Subtasks[p] : Subtasks[p][j] = s => p = t /\ j = n
  BY <1>4, <1>5, OnceAssumption
<1>16. Loops'
  <2>1. \A u \in Threads : \A k, i : InLoop(u, k, t, i) => u = th /\ k = Depth(th)
    BY <1>2, <1>3 DEF LoopsAt
  <2>2. ASSUME NEW u \in Threads, NEW k, NEW p, NEW i, InLoop(u, k, p, i)'
        PROVE  /\ p \in Parallels /\ i \in Nat /\ i >= 1 /\ status'[p] # "new"
               /\ \A j \in DOMAIN Subtasks[p] : j >= i => Unreached(Subtasks[p][j])'
    <3>1. CASE InLoop(u, k, p, i) /\ p # t
      <4>1. /\ p \in Parallels /\ i \in Nat /\ i >= 1 /\ status[p] # "new"
            /\ \A j \in DOMAIN Subtasks[p] : j >= i => Unreached(Subtasks[p][j])
        BY <1>3, <3>1 DEF LoopsAt
      <4> QED BY <1>1, <1>13, <1>15, <3>1, <4>1, SubtaskBasics
    <3>2. CASE p = t /\ i = n + 1
      <4>1. \A j \in DOMAIN Subtasks[t] : j >= n + 1 => j >= n /\ j # n
        BY <1>2, <1>4, SubtaskBasics
      <4>2. i \in Nat /\ i >= 1
        BY <1>2, <3>2
      <4> QED BY <1>1, <1>4, <1>13, <1>15, <3>2, <4>1, <4>2, SubtaskBasics
    <3>3. (InLoop(u, k, p, i) /\ p # t) \/ (p = t /\ i = n + 1)
      BY <1>10, <2>1, <2>2
    <3> QED BY <3>1, <3>2, <3>3
  <2>3. \A v, u \in Threads : \A k, l, p, i, j :
          InLoop(v, k, p, i)' /\ InLoop(u, l, p, j)' => v = u /\ k = l
    BY <1>3, <1>10, <2>1 DEF LoopsAt
  <2>4. LoopsAt'
    BY <2>2, <2>3 DEF LoopsAt
  <2> QED BY <1>12, <2>4, LoopFormNext
<1>17. NotBefore'
  <2>1. \A x \in Tasks : Successor[x] # s
    BY <1>4, <1>5, OnceAssumption
  <2>2. \A x \in Tasks : status'[x] # "done" /\ Successor[x] # NULL => Unreached(Successor[x])'
    BY <1>1, <1>13, <2>1, SubtaskBasics DEF NotBefore
  <2>3. \A p \in Parallels : status'[p] = "new" =>
            \A i \in DOMAIN Subtasks[p] : Unreached(Subtasks[p][i])'
    BY <1>1, <1>8, <1>13, <1>15, SubtaskBasics DEF NotBefore
  <2> QED BY <2>2, <2>3 DEF NotBefore
<1>18. Parents'
  <2>1. \A x \in Tasks : Unreached(x)' => parent'[x] = NULL
    BY <1>11, <1>13 DEF Parents
  <2>2. \A x \in Tasks : parent'[x] # NULL => status'[parent'[x]] # "new"
    BY <1>1, <1>8, <1>11 DEF Parents
  <2>3. \A p \in Parallels : \A i \in DOMAIN Subtasks[p] :
          ~Unreached(Subtasks[p][i])' => parent'[Subtasks[p][i]] = p
    BY <1>11, <1>13, <1>15, SubtaskBasics DEF Parents
  <2> QED BY <2>1, <2>2, <2>3 DEF Parents
<1>19. \A p \in Parallels : Going(p)' = Going(p) /\ Leaving(p)' = Leaving(p)
  <2>1. ASSUME NEW p \in Parallels PROVE Going(p)' = Going(p)
    <3>1. s \in SubtaskSet(p) <=> p = t
      BY <1>5, <1>15 DEF SubtaskSet
    <3>2. p # NULL
      BY SubtaskBasics
    <3>3. \A x \in Tasks : (parent'[x] = p \/ x \in SubtaskSet(p)) <=> (parent[x] = p \/ x \in SubtaskSet(p))
      BY <1>6, <1>11, <3>1, <3>2
    <3> QED BY <1>1, <3>3 DEF Going, SubtaskSet
  <2>2. \A p \in Parallels : Leaving(p)' = Leaving(p)
    BY <1>2, <1>10, SMTT(30) DEF Leaving
  <2> QED BY <2>1, <2>2
<1>20. LeftCounts'
  <2>1. \A p \in Parallels, u \in Threads : On(u, "done", p)' => On(u, "done", p)
    BY <1>10
  <2>2. \A u \in Threads, p \in Tasks : On(u, "left", p)' => On(u, "left", p)
    BY <1>10
  <2> QED BY <1>1, <1>19, <2>1, <2>2 DEF LeftCounts
<1> QED BY <1>9, <1>10, <1>12, <1>14, <1>16, <1>17, <1>18, <1>20

\* The loop is over; the parallel task is not looked at.
LEMMA KeepsLoopEnd ==
    ASSUME SubTaskInv, NEW th \in Threads, ParallelTask_dispatch_end(th)
    PROVE  SubTaskInv'
<1>1. /\ Top(th, "loop") /\ Replace(th, <<>>)
      /\ UNCHANGED <<parent, nleft, inflight, status, bad>>
  BY DEF ParallelTask_dispatch_end
<1> USE DEF SubTaskInv
<1>2. stack[th] # <<>> /\ \A a, x : On(th, a, x) => a = "loop"
  BY <1>1, OnTop
<1>3. /\ stack' \in [Threads -> Seq(Frames)] /\ OnlyLoopsBelow'
      /\ \A u \in Threads \ {th} : \A at, x : On(u, at, x)' <=> On(u, at, x)
      /\ \A at, x : On(th, at, x)' => at = "loop"
      /\ \A u \in Threads \ {th} : \A k, p, i : InLoop(u, k, p, i)' <=> InLoop(u, k, p, i)
      /\ \A k, p, i : InLoop(th, k, p, i)' <=> InLoop(th, k, p, i) /\ k # Depth(th)
  BY <1>1, <1>2, Pops
<1>4. SubTaskTypes'
  BY <1>1, <1>3 DEF SubTaskTypes
<1>5. \A u \in Threads : \A x : /\ On(u, "start", x)' <=> On(u, "start", x)
                                /\ On(u, "done", x)' <=> On(u, "done", x)
                                /\ On(u, "left", x)' <=> On(u, "left", x)
  BY <1>2, <1>3
<1>6. \A x : Unreached(x)' <=> Unreached(x)
  BY <1>1, <1>5 DEF Unreached
<1>7. OnePlace'
  BY <1>1, <1>5 DEF OnePlace
<1>8. Loops'
  <2>1. LoopsAt
    BY LoopForm
  <2>2. LoopsAt'
    BY <1>1, <1>3, <1>6, <2>1 DEF LoopsAt
  <2> QED BY <1>4, <2>2, LoopFormNext
<1>9. NotBefore' /\ Parents'
  BY <1>1, <1>6 DEF NotBefore, Parents
<1>10. \A p : Going(p)' = Going(p) /\ Leaving(p)' = Leaving(p)
  BY <1>1, <1>5 DEF Going, SubtaskSet, Leaving
<1>11. LeftCounts'
  BY <1>1, <1>5, <1>10 DEF LeftCounts
<1> QED BY <1>1, <1>3, <1>4, <1>7, <1>8, <1>9, <1>11

\* Some thread finishes the work of a task.
LEMMA KeepsComplete ==
    ASSUME SubTaskInv, NEW th \in Threads, NEW t \in Tasks, Complete(th, t)
    PROVE  SubTaskInv'
<1>1. /\ stack[th] = <<>> /\ t \in inflight /\ inflight' = inflight \ {t}
      /\ stack' = [stack EXCEPT ![th] = <<Done(t)>>]
      /\ UNCHANGED <<parent, nleft, status, bad>>
  BY DEF Complete
<1> USE DEF SubTaskInv
<1>2. /\ stack'[th] = <<Done(t)>> /\ \A u \in Threads \ {th} : stack'[u] = stack[u]
      /\ Done(t) \in Frames /\ Done(t).at = "done" /\ Done(t).task = t
  BY <1>1, FrameTypes DEF SubTaskTypes
<1>3. stack' \in [Threads -> Seq(Frames)]
  <2>1. <<Done(t)>> \in Seq(Frames)
    BY <1>2
  <2> QED BY <1>1, <2>1 DEF SubTaskTypes
<1>4. SubTaskTypes'
  BY <1>1, <1>3 DEF SubTaskTypes
<1>5. /\ \A at, x : ~On(th, at, x)
      /\ \A at, x : On(th, at, x)' <=> at = "done" /\ x = t
  BY <1>1, <1>2 DEF On, Top
<1>6. Depth(th) = 0 /\ Depth(th)' = 1 /\ \A k \in 1 .. 1 : Frame(th, k)' = Done(t)
  <2>1. Len(<<>>) = 0 /\ Len(<<Done(t)>>) = 1 /\ <<Done(t)>>[1] = Done(t)
    OBVIOUS
  <2>2. \A k \in 1 .. 1 : 1 + 1 - k = 1
    OBVIOUS
  <2> QED BY <1>1, <1>2, <2>1, <2>2 DEF Depth, Frame
<1>7. \A k, p, i : ~InLoop(th, k, p, i) /\ ~InLoop(th, k, p, i)'
  BY <1>2, <1>6 DEF InLoop
<1>8. \A u \in Threads \ {th} : /\ \A at, x : On(u, at, x)' <=> On(u, at, x)
                                /\ \A k, p, i : InLoop(u, k, p, i)' <=> InLoop(u, k, p, i)
                                /\ Depth(u)' = Depth(u) /\ \A k : Frame(u, k)' = Frame(u, k)
  BY <1>2, OthersKeep
<1>9. OnlyLoopsBelow'
  <2>1. \A k \in 1 .. Depth(th)' : ~(k < Depth(th)')
    BY <1>6
  <2> QED BY <1>8, <2>1 DEF OnlyLoopsBelow
<1>10. status[t] = "dispatched" /\ t \notin Parallels /\ \A u \in Threads : ~On(u, "done", t)
  BY <1>1 DEF OnePlace
<1>11. \A u \in Threads : \A x : /\ On(u, "start", x)' <=> On(u, "start", x)
                                 /\ On(u, "left", x)' <=> On(u, "left", x)
                                 /\ On(u, "done", x)' <=> On(u, "done", x) \/ (u = th /\ x = t)
  BY <1>5, <1>8
<1>12. \A x : Unreached(x)' <=> Unreached(x)
  BY <1>1, <1>11 DEF Unreached
<1>13. OnePlace'
  BY <1>1, <1>10, <1>11 DEF OnePlace
<1>14. Loops'
  <2>1. LoopsAt
    BY LoopForm
  <2>2. LoopsAt'
    BY <1>1, <1>7, <1>8, <1>12, <2>1 DEF LoopsAt
  <2> QED BY <1>4, <2>2, LoopFormNext
<1>15. NotBefore' /\ Parents'
  BY <1>1, <1>12 DEF NotBefore, Parents
<1>16. \A p : Going(p)' = Going(p) /\ Leaving(p)' = Leaving(p)
  BY <1>1, <1>11 DEF Going, SubtaskSet, Leaving
<1>17. LeftCounts'
  BY <1>1, <1>10, <1>11, <1>16 DEF LeftCounts
<1> QED BY <1>1, <1>4, <1>9, <1>13, <1>14, <1>15, <1>17

LEMMA KeepsStutter == ASSUME SubTaskInv, UNCHANGED vars PROVE SubTaskInv'
<1> USE DEF SubTaskInv
<1>1. /\ UNCHANGED <<parent, nleft, stack, inflight, status, bad>>
  BY DEF vars
<1>2. \A u : /\ \A at, x : On(u, at, x)' <=> On(u, at, x)
             /\ \A k, p, i : InLoop(u, k, p, i)' <=> InLoop(u, k, p, i)
             /\ Depth(u)' = Depth(u) /\ \A k : Frame(u, k)' = Frame(u, k)
  BY <1>1, OthersKeep
<1>3. \A x : Unreached(x)' <=> Unreached(x)
  BY <1>1, <1>2 DEF Unreached
<1>4. \A p : Going(p)' = Going(p) /\ Leaving(p)' = Leaving(p)
  BY <1>1, <1>2 DEF Going, SubtaskSet, Leaving
<1>5. SubTaskTypes' /\ OnlyLoopsBelow'
  BY <1>1, <1>2 DEF SubTaskTypes, OnlyLoopsBelow
<1>6. Loops'
  BY <1>1, <1>2, <1>3 DEF Loops
<1>7. OnePlace' /\ NotBefore' /\ Parents' /\ LeftCounts'
  BY <1>1, <1>2, <1>3, <1>4 DEF OnePlace, NotBefore, Parents, LeftCounts
<1> QED BY <1>1, <1>5, <1>6, <1>7

\* What is known of a task whose done() is called.
DoneFacts(th, t) ==
    /\ stack[th] # <<>> /\ t \in Tasks /\ On(th, "done", t)
    /\ \A a, x : On(th, a, x) => a = "done" /\ x = t
    /\ \A k, p, i : InLoop(th, k, p, i) => k # Depth(th)
    /\ status[t] = "dispatched" /\ t \notin inflight
    /\ t \in Parallels => Going(t) = {} /\ Leaving(t) = {}
    /\ parent[t] # t
    /\ parent[t] # NULL => /\ parent[t] \in Parallels /\ t \in Going(parent[t])
                           /\ status[parent[t]] = "dispatched"
                           /\ \A u \in Threads : ~On(u, "done", parent[t])
    /\ \A p \in Parallels : t \in Going(p) => p = parent[t]

LEMMA AtDone ==
    ASSUME SubTaskInv, NEW th \in Threads, Top(th, "done"), NEW t, t = Head(stack[th]).task
    PROVE  DoneFacts(th, t)
<1> USE DEF SubTaskInv
<1>1. /\ stack[th] # <<>> /\ t \in Tasks /\ On(th, "done", t)
      /\ \A a, x : On(th, a, x) => a = "done" /\ x = t
      /\ \A k, p, i : InLoop(th, k, p, i) => k # Depth(th)
  BY OnTop
<1>2. status[t] = "dispatched" /\ t \notin inflight
  BY <1>1 DEF OnePlace
<1>3. t \in Parallels => Going(t) = {} /\ Leaving(t) = {}
  BY <1>1 DEF LeftCounts
<1>4. parent[t] # NULL => parent[t] \in Parallels /\ t \in Going(parent[t])
  BY <1>1, <1>2 DEF SubTaskTypes, Going
<1>5. parent[t] # NULL => status[parent[t]] # "new"
  BY <1>1 DEF Parents
<1>6. parent[t] # NULL => /\ status[parent[t]] = "dispatched"
                          /\ \A u \in Threads : ~On(u, "done", parent[t])
  BY <1>4, <1>5, SubtaskBasics DEF LeftCounts, SubTaskTypes
<1>7. parent[t] # t
  BY <1>1, <1>3, <1>4, SubtaskBasics
<1>8. ASSUME NEW p \in Parallels, t \in Going(p) PROVE p = parent[t]
  <2>1. parent[t] = p \/ t \in SubtaskSet(p)
    BY <1>8 DEF Going
  <2>2. ~Unreached(t)
    BY <1>2 DEF Unreached
  <2>3. t \in SubtaskSet(p) => parent[t] = p
    BY <2>2 DEF SubtaskSet, Parents
  <2> QED BY <2>1, <2>3
<1> QED BY <1>1, <1>2, <1>3, <1>4, <1>6, <1>7, <1>8 DEF DoneFacts

\* The task is done and the next one of the series starts.
LEMMA KeepsDoneNext ==
    ASSUME SubTaskInv, NEW th \in Threads, Top(th, "done"), NEW t, t = Head(stack[th]).task,
           NEW s, s = Successor[t], s # NULL,
           status' = [status EXCEPT ![t] = "done"], Uses(t), UNCHANGED <<nleft, inflight>>,
           parent' = [parent EXCEPT ![s] = parent[t]], Replace(th, <<Start(s)>>)
    PROVE  SubTaskInv'
<1>0. DoneFacts(th, t)
  BY AtDone
<1>1. /\ stack[th] # <<>> /\ t \in Tasks /\ On(th, "done", t)
      /\ \A a, x : On(th, a, x) => a = "done" /\ x = t
      /\ \A k, p, i : InLoop(th, k, p, i) => k # Depth(th)
      /\ status[t] = "dispatched" /\ t \notin inflight
      /\ t \in Parallels => Going(t) = {} /\ Leaving(t) = {}
      /\ parent[t] # t
      /\ parent[t] # NULL => /\ parent[t] \in Parallels /\ t \in Going(parent[t])
                             /\ status[parent[t]] = "dispatched"
                             /\ \A u \in Threads : ~On(u, "done", parent[t])
      /\ \A p \in Parallels : t \in Going(p) => p = parent[t]
  BY <1>0 DEF DoneFacts
<1> USE DEF SubTaskInv
<1>2. s \in Tasks /\ Unreached(s)
  BY <1>1, SubtaskBasics DEF NotBefore
<1>3. /\ status[s] = "new" /\ parent[s] = NULL /\ \A u \in Threads : ~On(u, "start", s)
      /\ s # t
  BY <1>1, <1>2 DEF Unreached, Parents
<1>4. /\ \A p \in Parallels : \A i \in DOMAIN Subtasks[p] : Subtasks[p][i] # s
      /\ \A x \in Tasks : Successor[x] = s => x = t
  BY <1>1, OnceAssumption
<1>5. /\ status' \in [Tasks -> {"new", "dispatched", "done"}]
      /\ \A x \in Tasks : status'[x] = IF x = t THEN "done" ELSE status[x]
      /\ parent' \in [Tasks -> Parallels \cup {NULL}]
      /\ \A x \in Tasks : parent'[x] = IF x = s THEN parent[t] ELSE parent[x]
  BY <1>1, <1>2 DEF SubTaskTypes
<1>6. ~bad' /\ bad' \in BOOLEAN
  BY <1>1, UsesAlive
<1>7. /\ stack' \in [Threads -> Seq(Frames)] /\ OnlyLoopsBelow'
      /\ \A u \in Threads \ {th} : \A at, x : On(u, at, x)' <=> On(u, at, x)
      /\ \A at, x : On(th, at, x)' <=> at = "start" /\ x = s
      /\ \A u \in Threads : \A k, p, i : InLoop(u, k, p, i)' <=> InLoop(u, k, p, i)
  <2>1. PICK f : f = Start(s)
    OBVIOUS
  <2>2. f \in Frames /\ f.at = "start" /\ f.task = s
    BY <1>2, <2>1, FrameTypes
  <2>3. /\ stack' \in [Threads -> Seq(Frames)] /\ OnlyLoopsBelow'
        /\ \A u \in Threads \ {th} : \A at, x : On(u, at, x)' <=> On(u, at, x)
        /\ \A at, x : On(th, at, x)' <=> f.at = at /\ f.task = x
        /\ \A u \in Threads \ {th} : \A k, p, i : InLoop(u, k, p, i)' <=> InLoop(u, k, p, i)
        /\ \A k, p, i : InLoop(th, k, p, i)' <=>
              \/ InLoop(th, k, p, i) /\ k # Depth(th)
              \/ k = Depth(th) /\ f.at = "loop" /\ f.task = p /\ f.i = i
    <3>1. SubTaskTypes /\ OnlyLoopsBelow
      OBVIOUS
    <3>2. stack[th] # <<>> /\ Replace(th, <<f>>)
      BY <1>1, <2>1
    <3> QED BY ONLY <3>1, <3>2, <2>2, th \in Threads, Swaps
  <2>4. \A u \in Threads : \A k, p, i : InLoop(u, k, p, i)' <=> InLoop(u, k, p, i)
    <3>1. ASSUME NEW k, NEW p, NEW i PROVE InLoop(th, k, p, i)' <=> InLoop(th, k, p, i)
      BY <1>1, <2>2, <2>3
    <3> QED BY <2>3, <3>1
  <2>5. \A at, x : On(th, at, x)' <=> at = "start" /\ x = s
    BY <2>2, <2>3
  <2> QED BY <2>3, <2>4, <2>5
<1>8. SubTaskTypes'
  BY <1>5, <1>6, <1>7 DEF SubTaskTypes
<1>9. \A x \in Tasks : Unreached(x)' <=> Unreached(x) /\ x # s
  <2> SUFFICES ASSUME NEW x \in Tasks PROVE Unreached(x)' <=> Unreached(x) /\ x # s
    OBVIOUS
  <2>1. \A u \in Threads : On(u, "start", x)' <=> On(u, "start", x) \/ (u = th /\ x = s)
    BY <1>1, <1>7
  <2>2. status'[x] = "new" <=> status[x] = "new"
    BY <1>1, <1>5
  <2> QED BY <2>1, <2>2 DEF Unreached
<1>10. OnePlace'
  <2>1. \A u \in Threads, x \in Tasks :
           /\ On(u, "start", x)' => (u = th /\ x = s) \/ (On(u, "start", x) /\ x # s)
           /\ On(u, "done", x)' => On(u, "done", x) /\ u # th
    BY <1>3, <1>7
  <2>2. \A u \in Threads, x \in Tasks : /\ On(u, "start", x)' => x # t
                                        /\ On(u, "done", x)' => x # t
    BY <1>1, <1>3, <2>1 DEF OnePlace
  <2>3. \A u \in Threads, x \in Tasks :
          /\ On(u, "start", x)' => status'[x] = "new"
          /\ On(u, "done", x)' => status'[x] = "dispatched" /\ x \notin inflight'
    BY <1>3, <1>5, <2>1, <2>2 DEF OnePlace
  <2>4. \A v, u \in Threads, x \in Tasks :
          /\ On(v, "start", x)' /\ On(u, "start", x)' => v = u
          /\ On(v, "done", x)' /\ On(u, "done", x)' => v = u
    BY <2>1 DEF OnePlace
  <2>5. \A x \in inflight' : status'[x] = "dispatched" /\ x \notin Parallels
    BY <1>1, <1>5 DEF OnePlace, SubTaskTypes
  <2> QED BY <2>3, <2>4, <2>5 DEF OnePlace
<1>11. Loops'
  <2>1. LoopsAt
    BY LoopForm
  <2>2. LoopsAt'
    BY <1>4, <1>5, <1>7, <1>9, <2>1, SubtaskBasics DEF LoopsAt
  <2> QED BY <1>8, <2>2, LoopFormNext
<1>12. NotBefore'
  <2>1. \A x \in Tasks : status'[x] # "done" /\ Successor[x] # NULL => Unreached(Successor[x])'
    BY <1>4, <1>5, <1>9, SubtaskBasics DEF NotBefore
  <2>2. \A p \in Parallels : status'[p] = "new" =>
            \A i \in DOMAIN Subtasks[p] : Unreached(Subtasks[p][i])'
    BY <1>4, <1>5, <1>9, SubtaskBasics DEF NotBefore
  <2> QED BY <2>1, <2>2 DEF NotBefore
<1>13. Parents'
  <2>1. \A x \in Tasks : Unreached(x)' => parent'[x] = NULL
    BY <1>5, <1>9 DEF Parents
  <2>2. \A x \in Tasks : parent'[x] # NULL => status'[parent'[x]] # "new"
    BY <1>1, <1>5, SubtaskBasics DEF Parents, SubTaskTypes
  <2>3. \A p \in Parallels : \A i \in DOMAIN Subtasks[p] :
          ~Unreached(Subtasks[p][i])' => parent'[Subtasks[p][i]] = p
    BY <1>4, <1>5, <1>9, SubtaskBasics DEF Parents
  <2> QED BY <2>1, <2>2, <2>3 DEF Parents
<1>14. \A p \in Parallels : Leaving(p)' = Leaving(p)
  BY <1>1, <1>7, ZenonT(30) DEF Leaving
<1>15. \A p \in Parallels : s \notin Going(p) /\ (t \in Going(p) <=> p = parent[t])
  <2>1. \A p \in Parallels : s \notin SubtaskSet(p) /\ p # NULL
    BY <1>4, SubtaskBasics DEF SubtaskSet
  <2> QED BY <1>1, <1>3, <2>1, SubtaskBasics DEF Going
<1>16. \A p \in Parallels : Going(p)' = IF p = parent[t] THEN (Going(p) \ {t}) \cup {s} ELSE Going(p)
  <2> SUFFICES ASSUME NEW p \in Parallels, NEW x \in Tasks
               PROVE  x \in Going(p)' <=>
                        x \in (IF p = parent[t] THEN (Going(p) \ {t}) \cup {s} ELSE Going(p))
    BY <1>2 DEF Going
  <2>1. x \in Going(p)' <=> status'[x] # "done" /\ (parent'[x] = p \/ x \in SubtaskSet(p))
    BY DEF Going, SubtaskSet
  <2>2. x \in Going(p) <=> status[x] # "done" /\ (parent[x] = p \/ x \in SubtaskSet(p))
    BY DEF Going
  <2>3. s \notin SubtaskSet(p)
    BY <1>4 DEF SubtaskSet
  <2>4. CASE x = s
    BY <1>3, <1>5, <1>15, <2>1, <2>3, <2>4
  <2>5. CASE x = t
    BY <1>3, <1>5, <1>15, <2>1, <2>5
  <2>6. CASE x # s /\ x # t
    BY <1>5, <2>1, <2>2, <2>6
  <2> QED BY <2>4, <2>5, <2>6
<1>17. \A p \in Parallels : /\ Cardinality(Going(p)') = Cardinality(Going(p))
                            /\ p # parent[t] => Going(p)' = Going(p)
  <2>1. ASSUME NEW p \in Parallels, p = parent[t]
        PROVE  Cardinality(Going(p)') = Cardinality(Going(p))
    <3>1. t \in Going(p) /\ s \notin Going(p) \ {t} /\ IsFiniteSet(Going(p))
          /\ Cardinality(Going(p)) \in Nat
      BY <1>15, <2>1, FiniteParts
    <3>2. Cardinality(Going(p) \ {t}) = Cardinality(Going(p)) - 1 /\ IsFiniteSet(Going(p) \ {t})
      BY <3>1, FS_RemoveElement
    <3>3. Cardinality((Going(p) \ {t}) \cup {s}) = Cardinality(Going(p) \ {t}) + 1
      BY <3>1, <3>2, FS_AddElement
    <3>4. Going(p)' = (Going(p) \ {t}) \cup {s}
      BY <1>16, <2>1
    <3> QED BY <3>1, <3>2, <3>3, <3>4
  <2> QED BY <1>16, <2>1
<1>18. LeftCounts'
  <2>1. \A u \in Threads, p \in Tasks : On(u, "left", p)' => On(u, "left", p)
    BY <1>7, SMTT(30)
  <2>2. \A p \in Parallels, u \in Threads : On(u, "done", p)' => On(u, "done", p) /\ p # parent[t]
    BY <1>1, <1>7, SubtaskBasics, SMTT(30)
  <2>3. ASSUME NEW p \in Parallels
        PROVE  /\ status'[p] = "new" => Leaving(p)' = {}
               /\ status'[p] = "dispatched" =>
                     nleft'[p] = Cardinality(Going(p)') + Cardinality(Leaving(p)')
               /\ status'[p] = "done" \/ (\E u \in Threads : On(u, "done", p)') =>
                     Going(p)' = {} /\ Leaving(p)' = {}
    <3>1. CASE p = t
      BY <1>1, <1>5, <1>14, <1>17, <3>1
    <3>2. CASE p # t
      <4>1. status'[p] = status[p] /\ nleft'[p] = nleft[p] /\ p \in Tasks
        BY <1>5, <3>2, SubtaskBasics
      <4>2. status[p] = "done" => p # parent[t]
        BY <1>1, SubtaskBasics
      <4> QED BY <1>14, <1>17, <2>2, <4>1, <4>2 DEF LeftCounts
    <3> QED BY <3>1, <3>2
  <2> QED BY <2>1, <2>3 DEF LeftCounts
<1> QED BY <1>6, <1>7, <1>8, <1>10, <1>11, <1>12, <1>13, <1>18

\* The task is done and was the last of its series.  Its parent, if it has one,
\* will be counted down.
LEMMA KeepsDoneLast ==
    ASSUME SubTaskInv, NEW th \in Threads, Top(th, "done"), NEW t, t = Head(stack[th]).task,
           Successor[t] = NULL,
           status' = [status EXCEPT ![t] = "done"], Uses(t),
           UNCHANGED <<nleft, inflight, parent>>,
           \/ parent[t] # NULL /\ Replace(th, <<Left(parent[t])>>)
           \/ parent[t] = NULL /\ Replace(th, <<>>)
    PROVE  SubTaskInv'
<1>0. DoneFacts(th, t)
  BY AtDone
<1>1. /\ stack[th] # <<>> /\ t \in Tasks /\ On(th, "done", t)
      /\ \A a, x : On(th, a, x) => a = "done" /\ x = t
      /\ \A k, p, i : InLoop(th, k, p, i) => k # Depth(th)
      /\ status[t] = "dispatched" /\ t \notin inflight
      /\ t \in Parallels => Going(t) = {} /\ Leaving(t) = {}
      /\ parent[t] # t
      /\ parent[t] # NULL => /\ parent[t] \in Parallels /\ t \in Going(parent[t])
                             /\ status[parent[t]] = "dispatched"
                             /\ \A u \in Threads : ~On(u, "done", parent[t])
      /\ \A p \in Parallels : t \in Going(p) => p = parent[t]
  BY <1>0 DEF DoneFacts
<1> USE DEF SubTaskInv
<1>2. PICK q : q = parent[t]
  OBVIOUS
<1>3. /\ status' \in [Tasks -> {"new", "dispatched", "done"}]
      /\ \A x \in Tasks : status'[x] = IF x = t THEN "done" ELSE status[x]
  BY <1>1 DEF SubTaskTypes
<1>4. ~bad' /\ bad' \in BOOLEAN
  BY <1>1, UsesAlive
<1>5. /\ stack' \in [Threads -> Seq(Frames)] /\ OnlyLoopsBelow'
      /\ \A u \in Threads \ {th} : \A at, x : On(u, at, x)' <=> On(u, at, x)
      /\ \A x : ~On(th, "start", x)' /\ ~On(th, "done", x)'
      /\ \A x \in Tasks : On(th, "left", x)' <=> x = q
      /\ \A u \in Threads : \A k, p, i : InLoop(u, k, p, i)' <=> InLoop(u, k, p, i)
  <2>1. CASE q # NULL /\ Replace(th, <<Left(q)>>)
    <3>1. PICK f : f = Left(q)
      OBVIOUS
    <3>2. f \in Frames /\ f.at = "left" /\ f.task = q
      BY <1>1, <1>2, <2>1, <3>1, FrameTypes, SubtaskBasics
    <3>3. /\ stack' \in [Threads -> Seq(Frames)] /\ OnlyLoopsBelow'
          /\ \A u \in Threads \ {th} : \A at, x : On(u, at, x)' <=> On(u, at, x)
          /\ \A at, x : On(th, at, x)' <=> f.at = at /\ f.task = x
          /\ \A u \in Threads \ {th} : \A k, p, i : InLoop(u, k, p, i)' <=> InLoop(u, k, p, i)
          /\ \A k, p, i : InLoop(th, k, p, i)' <=>
                \/ InLoop(th, k, p, i) /\ k # Depth(th)
                \/ k = Depth(th) /\ f.at = "loop" /\ f.task = p /\ f.i = i
      BY <1>1, <2>1, <3>1, <3>2, Swaps
    <3>4. ASSUME NEW k, NEW p, NEW i PROVE InLoop(th, k, p, i)' <=> InLoop(th, k, p, i)
      BY <1>1, <3>2, <3>3
    <3>5. \A at, x : On(th, at, x)' <=> at = "left" /\ x = q
      BY <3>2, <3>3
    <3> QED BY <3>3, <3>4, <3>5
  <2>2. CASE q = NULL /\ Replace(th, <<>>)
    <3>1. /\ stack' \in [Threads -> Seq(Frames)] /\ OnlyLoopsBelow'
          /\ \A u \in Threads \ {th} : \A at, x : On(u, at, x)' <=> On(u, at, x)
          /\ \A at, x : On(th, at, x)' => at = "loop"
          /\ \A u \in Threads \ {th} : \A k, p, i : InLoop(u, k, p, i)' <=> InLoop(u, k, p, i)
          /\ \A k, p, i : InLoop(th, k, p, i)' <=> InLoop(th, k, p, i) /\ k # Depth(th)
      BY <1>1, <2>2, Pops
    <3>2. ASSUME NEW k, NEW p, NEW i PROVE InLoop(th, k, p, i)' <=> InLoop(th, k, p, i)
      BY <1>1, <3>1
    <3>3. \A x \in Tasks : x # q
      BY <2>2, SubtaskBasics
    <3> QED BY <3>1, <3>2, <3>3
  <2> QED BY <1>2, <2>1, <2>2
<1>6. SubTaskTypes'
  BY <1>3, <1>4, <1>5 DEF SubTaskTypes
<1>7. \A x \in Tasks : Unreached(x)' <=> Unreached(x)
  <2> SUFFICES ASSUME NEW x \in Tasks PROVE Unreached(x)' <=> Unreached(x)
    OBVIOUS
  <2>1. \A u \in Threads : On(u, "start", x)' <=> On(u, "start", x)
    BY <1>1, <1>5
  <2>2. status'[x] = "new" <=> status[x] = "new"
    BY <1>1, <1>3
  <2> QED BY <2>1, <2>2 DEF Unreached
<1>8. OnePlace'
  <2>1. \A u \in Threads, x \in Tasks :
           /\ On(u, "start", x)' => On(u, "start", x)
           /\ On(u, "done", x)' => On(u, "done", x) /\ u # th
    BY <1>5
  <2>2. \A u \in Threads, x \in Tasks : /\ On(u, "start", x)' => x # t
                                        /\ On(u, "done", x)' => x # t
    BY <1>1, <2>1 DEF OnePlace
  <2>3. \A u \in Threads, x \in Tasks :
          /\ On(u, "start", x)' => status'[x] = "new"
          /\ On(u, "done", x)' => status'[x] = "dispatched" /\ x \notin inflight'
    BY <1>3, <2>1, <2>2 DEF OnePlace
  <2>4. \A v, u \in Threads, x \in Tasks :
          /\ On(v, "start", x)' /\ On(u, "start", x)' => v = u
          /\ On(v, "done", x)' /\ On(u, "done", x)' => v = u
    BY <2>1 DEF OnePlace
  <2>5. \A x \in inflight' : status'[x] = "dispatched" /\ x \notin Parallels
    BY <1>1, <1>3 DEF OnePlace, SubTaskTypes
  <2> QED BY <2>3, <2>4, <2>5 DEF OnePlace
<1>9. Loops'
  <2>1. LoopsAt
    BY LoopForm
  <2>2. LoopsAt'
    BY <1>3, <1>5, <1>7, <2>1, SubtaskBasics DEF LoopsAt
  <2> QED BY <1>6, <2>2, LoopFormNext
<1>10. NotBefore'
  BY <1>3, <1>7, SubtaskBasics DEF NotBefore
<1>11. Parents'
  BY <1>3, <1>7, SubtaskBasics DEF Parents, SubTaskTypes
<1>12. \A p \in Parallels : Going(p)' = Going(p) \ {t} /\ (p # q => Going(p)' = Going(p))
  <2> SUFFICES ASSUME NEW p \in Parallels
               PROVE  Going(p)' = Going(p) \ {t} /\ (p # q => Going(p)' = Going(p))
    OBVIOUS
  <2>1. \A x \in Tasks :
           /\ x \in Going(p)' <=> status'[x] # "done" /\ (parent[x] = p \/ x \in SubtaskSet(p))
           /\ x \in Going(p) <=> status[x] # "done" /\ (parent[x] = p \/ x \in SubtaskSet(p))
    BY DEF Going, SubtaskSet
  <2>2. \A x \in Tasks : x \in Going(p)' <=> x \in Going(p) /\ x # t
    BY <1>3, <2>1
  <2>3. Going(p)' = Going(p) \ {t}
    BY <2>2 DEF Going
  <2>4. p # q => t \notin Going(p)
    BY <1>1, <1>2
  <2> QED BY <2>3, <2>4
<1>13. \A p \in Parallels : Leaving(p)' = IF p = q THEN Leaving(p) \cup {th} ELSE Leaving(p)
  BY <1>1, <1>5, SubtaskBasics DEF Leaving
<1>14. \A p \in Parallels :
          /\ Cardinality(Going(p)') + Cardinality(Leaving(p)') =
                Cardinality(Going(p)) + Cardinality(Leaving(p))
          /\ p # q => Going(p)' = Going(p) /\ Leaving(p)' = Leaving(p)
  <2>1. ASSUME NEW p \in Parallels, p = q
        PROVE  Cardinality(Going(p)') + Cardinality(Leaving(p)') =
                  Cardinality(Going(p)) + Cardinality(Leaving(p))
    <3>1. t \in Going(p) /\ th \notin Leaving(p)
      BY <1>1, <1>2, <2>1, SubtaskBasics DEF Leaving
    <3>2. /\ IsFiniteSet(Going(p)) /\ Cardinality(Going(p)) \in Nat
          /\ IsFiniteSet(Leaving(p)) /\ Cardinality(Leaving(p)) \in Nat
      BY FiniteParts
    <3>3. Cardinality(Going(p) \ {t}) = Cardinality(Going(p)) - 1
      BY <3>1, <3>2, FS_RemoveElement
    <3>4. Cardinality(Leaving(p) \cup {th}) = Cardinality(Leaving(p)) + 1
      BY <3>1, <3>2, FS_AddElement
    <3>5. Going(p)' = Going(p) \ {t} /\ Leaving(p)' = Leaving(p) \cup {th}
      BY <1>12, <1>13, <2>1
    <3> QED BY <3>2, <3>3, <3>4, <3>5
  <2> QED BY <1>12, <1>13, <2>1
<1>15. LeftCounts'
  <2>1. \A u \in Threads, p \in Tasks : On(u, "left", p)' => p \in Parallels
    BY <1>1, <1>2, <1>5, SubtaskBasics, SMTT(30) DEF LeftCounts
  <2>2. \A p \in Parallels, u \in Threads : On(u, "done", p)' => On(u, "done", p) /\ p # q
    BY <1>1, <1>2, <1>5, SubtaskBasics
  <2>3. ASSUME NEW p \in Parallels
        PROVE  /\ status'[p] = "new" => Leaving(p)' = {}
               /\ status'[p] = "dispatched" =>
                     nleft'[p] = Cardinality(Going(p)') + Cardinality(Leaving(p)')
               /\ status'[p] = "done" \/ (\E u \in Threads : On(u, "done", p)') =>
                     Going(p)' = {} /\ Leaving(p)' = {}
    <3>1. CASE p = t
      BY <1>1, <1>2, <1>3, <1>14, <3>1
    <3>2. CASE p # t
      <4>1. status'[p] = status[p] /\ nleft'[p] = nleft[p] /\ p \in Tasks
        BY <1>3, <3>2, SubtaskBasics
      <4>2. status[p] # "dispatched" => p # q
        BY <1>1, <1>2, SubtaskBasics
      <4> QED BY <1>14, <2>2, <4>1, <4>2 DEF LeftCounts
    <3> QED BY <3>1, <3>2
  <2> QED BY <2>1, <2>3 DEF LeftCounts
<1> QED BY <1>4, <1>5, <1>6, <1>8, <1>9, <1>10, <1>11, <1>15

LEMMA KeepsDone ==
    ASSUME SubTaskInv, NEW th \in Threads, subtask_done(th)
    PROVE  SubTaskInv'
<1> PICK t : t = Head(stack[th]).task
  OBVIOUS
<1> PICK s : s = Successor[t]
  OBVIOUS
<1>1. /\ Top(th, "done") /\ status' = [status EXCEPT ![t] = "done"] /\ Uses(t)
      /\ UNCHANGED <<nleft, inflight>>
      /\ \/ /\ s # NULL /\ parent' = [parent EXCEPT ![s] = parent[t]]
            /\ Replace(th, <<Start(s)>>)
         \/ s = NULL /\ parent[t] # NULL /\ Replace(th, <<Left(parent[t])>>) /\ UNCHANGED parent
         \/ s = NULL /\ parent[t] = NULL /\ Replace(th, <<>>) /\ UNCHANGED parent
  BY DEF subtask_done, Inherit
<1> QED BY <1>1, KeepsDoneNext, KeepsDoneLast

\* A finished series is counted down; the last one goes on with the parent.
LEMMA KeepsLeft ==
    ASSUME SubTaskInv, NEW th \in Threads, subtask_done_left(th)
    PROVE  SubTaskInv'
<1> PICK q : q = Head(stack[th]).task
  OBVIOUS
<1>1. /\ Top(th, "left") /\ nleft' = [nleft EXCEPT ![q] = @ - 1]
      /\ Replace(th, IF nleft[q] - 1 = 0 THEN <<Done(q)>> ELSE <<>>)
      /\ Uses(q) /\ UNCHANGED <<parent, inflight, status>>
  BY DEF subtask_done_left
<1> USE DEF SubTaskInv
<1>2. /\ stack[th] # <<>> /\ q \in Tasks /\ On(th, "left", q)
      /\ \A a, x : On(th, a, x) => a = "left" /\ x = q
      /\ \A k, p, i : InLoop(th, k, p, i) => k # Depth(th)
  BY <1>1, OnTop
<1>3. q \in Parallels /\ th \in Leaving(q)
  BY <1>2 DEF LeftCounts, Leaving
<1>4. status[q] = "dispatched" /\ \A u \in Threads : ~On(u, "done", q)
  BY <1>2, <1>3 DEF LeftCounts, SubTaskTypes
<1>5. q \notin inflight
  BY <1>3 DEF OnePlace
<1>6. /\ IsFiniteSet(Going(q)) /\ Cardinality(Going(q)) \in Nat
      /\ IsFiniteSet(Leaving(q)) /\ Cardinality(Leaving(q)) \in Nat
  BY FiniteParts
<1>7. Cardinality(Leaving(q) \ {th}) = Cardinality(Leaving(q)) - 1
      /\ IsFiniteSet(Leaving(q) \ {th}) /\ Cardinality(Leaving(q) \ {th}) \in Nat
  BY <1>3, <1>6, FS_RemoveElement, FS_CardinalityType
<1>8. /\ nleft[q] - 1 = Cardinality(Going(q)) + Cardinality(Leaving(q) \ {th})
      /\ nleft[q] - 1 \in Nat
      /\ nleft[q] - 1 = 0 => Going(q) = {} /\ Leaving(q) \ {th} = {}
  <2>1. nleft[q] = Cardinality(Going(q)) + Cardinality(Leaving(q))
    BY <1>3, <1>4 DEF LeftCounts
  <2>2. nleft[q] - 1 = Cardinality(Going(q)) + Cardinality(Leaving(q) \ {th})
    BY <1>6, <1>7, <2>1
  <2>3. nleft[q] - 1 = 0 => Cardinality(Going(q)) = 0 /\ Cardinality(Leaving(q) \ {th}) = 0
    BY <1>6, <1>7, <2>2
  <2>4. nleft[q] - 1 \in Nat
    BY <1>6, <1>7, <2>2
  <2> QED BY <1>6, <1>7, <2>2, <2>3, <2>4, FS_EmptySet
<1>9. /\ nleft' \in [Parallels -> Nat] /\ nleft'[q] = nleft[q] - 1
      /\ \A p \in Parallels \ {q} : nleft'[p] = nleft[p]
  BY <1>1, <1>3, <1>8 DEF SubTaskTypes
<1>10. ~bad' /\ bad' \in BOOLEAN
  BY <1>1, <1>4, UsesAlive
<1>11. /\ stack' \in [Threads -> Seq(Frames)] /\ OnlyLoopsBelow'
       /\ \A u \in Threads \ {th} : \A at, x : On(u, at, x)' <=> On(u, at, x)
       /\ \A x : ~On(th, "start", x)' /\ ~On(th, "left", x)'
       /\ \A x : On(th, "done", x)' => x = q /\ nleft[q] - 1 = 0
       /\ \A u \in Threads : \A k, p, i : InLoop(u, k, p, i)' <=> InLoop(u, k, p, i)
  <2>1. CASE nleft[q] - 1 = 0
    <3>1. PICK f : f = Done(q)
      OBVIOUS
    <3>2. f \in Frames /\ f.at = "done" /\ f.task = q /\ Replace(th, <<f>>)
      BY <1>1, <1>2, <2>1, <3>1, FrameTypes
    <3>3. /\ stack' \in [Threads -> Seq(Frames)] /\ OnlyLoopsBelow'
          /\ \A u \in Threads \ {th} : \A at, x : On(u, at, x)' <=> On(u, at, x)
          /\ \A at, x : On(th, at, x)' <=> f.at = at /\ f.task = x
          /\ \A u \in Threads \ {th} : \A k, p, i : InLoop(u, k, p, i)' <=> InLoop(u, k, p, i)
          /\ \A k, p, i : InLoop(th, k, p, i)' <=>
                \/ InLoop(th, k, p, i) /\ k # Depth(th)
                \/ k = Depth(th) /\ f.at = "loop" /\ f.task = p /\ f.i = i
      BY <1>2, <3>2, Swaps
    <3>4. ASSUME NEW k, NEW p, NEW i PROVE InLoop(th, k, p, i)' <=> InLoop(th, k, p, i)
      BY <1>2, <3>2, <3>3
    <3>5. \A at, x : On(th, at, x)' <=> at = "done" /\ x = q
      BY <3>2, <3>3
    <3> QED BY <2>1, <3>3, <3>4, <3>5
  <2>2. CASE nleft[q] - 1 # 0
    <3>1. Replace(th, <<>>)
      BY <1>1, <2>2
    <3>2. /\ stack' \in [Threads -> Seq(Frames)] /\ OnlyLoopsBelow'
          /\ \A u \in Threads \ {th} : \A at, x : On(u, at, x)' <=> On(u, at, x)
          /\ \A at, x : On(th, at, x)' => at = "loop"
          /\ \A u \in Threads \ {th} : \A k, p, i : InLoop(u, k, p, i)' <=> InLoop(u, k, p, i)
          /\ \A k, p, i : InLoop(th, k, p, i)' <=> InLoop(th, k, p, i) /\ k # Depth(th)
      BY <1>2, <3>1, Pops
    <3>3. ASSUME NEW k, NEW p, NEW i PROVE InLoop(th, k, p, i)' <=> InLoop(th, k, p, i)
      BY <1>2, <3>2
    <3> QED BY <3>2, <3>3
  <2> QED BY <2>1, <2>2
<1>12. SubTaskTypes'
  BY <1>1, <1>9, <1>10, <1>11 DEF SubTaskTypes
<1>13. \A x : Unreached(x)' <=> Unreached(x)
  <2> SUFFICES ASSUME NEW x PROVE Unreached(x)' <=> Unreached(x)
    OBVIOUS
  <2>1. \A u \in Threads : On(u, "start", x)' <=> On(u, "start", x)
    BY <1>2, <1>11
  <2> QED BY <1>1, <2>1 DEF Unreached
<1>14. OnePlace'
  <2>1. \A u \in Threads, x \in Tasks :
           /\ On(u, "start", x)' => On(u, "start", x)
           /\ On(u, "done", x)' => (u = th /\ x = q) \/ (On(u, "done", x) /\ x # q)
    BY <1>4, <1>11
  <2>2. \A u \in Threads, x \in Tasks :
          /\ On(u, "start", x)' => status'[x] = "new"
          /\ On(u, "done", x)' => status'[x] = "dispatched" /\ x \notin inflight'
    BY <1>1, <1>4, <1>5, <2>1 DEF OnePlace
  <2>3. \A v, u \in Threads, x \in Tasks :
          /\ On(v, "start", x)' /\ On(u, "start", x)' => v = u
          /\ On(v, "done", x)' /\ On(u, "done", x)' => v = u
    BY <2>1 DEF OnePlace
  <2> QED BY <1>1, <2>2, <2>3 DEF OnePlace
<1>15. Loops'
  <2>1. LoopsAt
    BY LoopForm
  <2>2. LoopsAt'
    BY <1>1, <1>11, <1>13, <2>1 DEF LoopsAt
  <2> QED BY <1>12, <2>2, LoopFormNext
<1>16. NotBefore' /\ Parents'
  BY <1>1, <1>13 DEF NotBefore, Parents
<1>17. \A p : Going(p)' = Going(p)
  BY <1>1 DEF Going, SubtaskSet
<1>18. \A p \in Parallels : Leaving(p)' = IF p = q THEN Leaving(p) \ {th} ELSE Leaving(p)
  BY <1>2, <1>11 DEF Leaving
<1>19. LeftCounts'
  <2>1. \A u \in Threads, p \in Tasks : On(u, "left", p)' => On(u, "left", p)
    BY <1>11
  <2>2. ASSUME NEW p \in Parallels
        PROVE  /\ status'[p] = "new" => Leaving(p)' = {}
               /\ status'[p] = "dispatched" =>
                     nleft'[p] = Cardinality(Going(p)') + Cardinality(Leaving(p)')
               /\ status'[p] = "done" \/ (\E u \in Threads : On(u, "done", p)') =>
                     Going(p)' = {} /\ Leaving(p)' = {}
    <3>1. CASE p = q
      <4>1. Going(p)' = Going(q) /\ Leaving(p)' = Leaving(q) \ {th}
        BY <1>17, <1>18, <3>1
      <4>2. \A u \in Threads : On(u, "done", q)' => nleft[q] - 1 = 0
        BY <1>4, <1>11
      <4> QED BY <1>1, <1>4, <1>8, <1>9, <3>1, <4>1, <4>2
    <3>2. CASE p # q
      <4>1. Going(p)' = Going(p) /\ Leaving(p)' = Leaving(p) /\ nleft'[p] = nleft[p]
        BY <1>9, <1>17, <1>18, <3>2
      <4>2. \A u \in Threads : On(u, "done", p)' => On(u, "done", p)
        BY <1>11, <3>2
      <4> QED BY <1>1, <4>1, <4>2 DEF LeftCounts
    <3> QED BY <3>1, <3>2
  <2> QED BY <2>1, <2>2 DEF LeftCounts
<1> QED BY <1>10, <1>11, <1>12, <1>14, <1>15, <1>16, <1>19

LEMMA InvInit == Init => SubTaskInv
<1> SUFFICES ASSUME Init PROVE SubTaskInv
  OBVIOUS
<1>1. /\ parent = [t \in Tasks |-> NULL] /\ nleft = [t \in Parallels |-> 0]
      /\ inflight = {} /\ status = [t \in Tasks |-> "new"] /\ bad = FALSE
  BY DEF Init
<1>2. PICK th \in Threads :
         stack = [u \in Threads |-> IF u = th THEN <<Start(Root)>> ELSE <<>>]
  BY DEF Init
<1>3. Start(Root) \in Frames /\ Start(Root).at = "start" /\ Start(Root).task = Root /\ Root \in Tasks
  BY FrameTypes, SubtaskBasics
<1>4. stack[th] = <<Start(Root)>> /\ \A u \in Threads \ {th} : stack[u] = <<>>
  BY <1>2
<1>5. stack \in [Threads -> Seq(Frames)]
  <2>1. <<Start(Root)>> \in Seq(Frames) /\ <<>> \in Seq(Frames)
    BY <1>3
  <2> QED BY <1>2, <2>1
<1>6. SubTaskTypes
  BY <1>1, <1>5 DEF SubTaskTypes
<1>7. \A u \in Threads : \A at, t : On(u, at, t) <=> u = th /\ at = "start" /\ t = Root
  BY <1>3, <1>4 DEF On, Top
<1>8. /\ Depth(th) = 1 /\ \A u \in Threads \ {th} : Depth(u) = 0
      /\ \A k \in 1 .. 1 : Frame(th, k) = Start(Root)
  <2>1. Len(<<>>) = 0 /\ Len(<<Start(Root)>>) = 1 /\ <<Start(Root)>>[1] = Start(Root)
    OBVIOUS
  <2>2. \A k \in 1 .. 1 : 1 + 1 - k = 1
    OBVIOUS
  <2> QED BY <1>4, <2>1, <2>2 DEF Depth, Frame
<1>9. OnlyLoopsBelow /\ Loops
  <2>1. \A u \in Threads : \A k \in 1 .. Depth(u) : u = th /\ k \in 1 .. 1 /\ ~(k < Depth(u))
                                                    /\ Frame(u, k) = Start(Root)
    <3>1. 1 .. 0 = {} /\ \A k \in 1 .. 1 : ~(k < 1)
      OBVIOUS
    <3> QED BY <1>8, <3>1
  <2> QED BY <1>3, <2>1 DEF OnlyLoopsBelow, Loops
<1>10. OnePlace
  BY <1>1, <1>3, <1>7 DEF OnePlace
<1>11. \A t \in Tasks : Unreached(t) <=> t # Root
  BY <1>1, <1>7 DEF Unreached
<1>12. NotBefore
  BY <1>11, OnceAssumption, SubtaskBasics DEF NotBefore
<1>13. Parents
  BY <1>1, <1>11, OnceAssumption, SubtaskBasics DEF Parents
<1>14. LeftCounts
  <2>1. \A p : Leaving(p) = {}
    BY <1>7 DEF Leaving
  <2> QED BY <1>1, <1>7, <2>1, SubtaskBasics DEF LeftCounts
<1> QED BY <1>1, <1>6, <1>9, <1>10, <1>12, <1>13, <1>14 DEF SubTaskInv

LEMMA InvNext == SubTaskInv /\ [Next]_vars => SubTaskInv'
<1> SUFFICES ASSUME SubTaskInv, [Next]_vars PROVE SubTaskInv'
  OBVIOUS
<1>1. ASSUME NEW th \in Threads, Step(th) PROVE SubTaskInv'
  BY <1>1, KeepsDispatch, KeepsParallel, KeepsLoop, KeepsLoopEnd, KeepsDone, KeepsLeft DEF Step
<1> QED BY <1>1, KeepsComplete, KeepsStutter DEF Next

LEMMA SubTaskInvariant == Spec => []SubTaskInv
  BY InvInit, InvNext, PTL DEF Spec

\* For any finite forest of tasks and any threads, the variables have their
\* types; in particular nleft, an unsigned number, is not decremented at zero.
THEOREM SubTaskTyped == Spec => []TypeOK
<1>1. SubTaskInv => TypeOK
  BY DEF SubTaskInv, SubTaskTypes, TypeOK
<1> QED BY <1>1, SubTaskInvariant, PTL

\* No task is dispatched, finished, counted down or iterated over after its
\* done(): the loop of ParallelTask::dispatch looks at the task only while it has
\* still a subtask to start, and that one keeps the task from being done.
THEOREM DoneIsLast == Spec => []NoUseAfterDone
<1>1. SubTaskInv => NoUseAfterDone
  BY DEF SubTaskInv, NoUseAfterDone
<1> QED BY <1>1, SubTaskInvariant, PTL

\* done() of a parallel task is called after that of every subtask and of every
\* task that followed one in its series: nleft reaches zero when all of them are
\* done, whichever threads finish them and in whatever order.
THEOREM ParentIsLast == Spec => []ParentLast
<1>1. ASSUME SubTaskInv, NEW p \in Parallels, status[p] = "done"
      PROVE  /\ \A i \in DOMAIN Subtasks[p] : status[Subtasks[p][i]] = "done"
             /\ \A t \in Tasks : parent[t] = p => status[t] = "done"
  <2>1. Going(p) = {}
    BY <1>1 DEF SubTaskInv, LeftCounts
  <2>2. \A t \in Tasks : parent[t] = p \/ t \in SubtaskSet(p) => status[t] = "done"
    BY <2>1 DEF Going
  <2>3. \A i \in DOMAIN Subtasks[p] : Subtasks[p][i] \in Tasks /\ Subtasks[p][i] \in SubtaskSet(p)
    BY SubtaskBasics DEF SubtaskSet
  <2> QED BY <2>2, <2>3
<1>2. SubTaskInv => ParentLast
  BY <1>1 DEF ParentLast
<1> QED BY <1>2, SubTaskInvariant, PTL
=============================================================================
