------------------------------ MODULE SubTask -------------------------------
(***************************************************************************)
(* Series and parallel tasks: src/kernel/subtask.cc and subtask.h.         *)
(*                                                                         *)
(* Threads execute the mutually recursive dispatch() and subtask_done(),   *)
(* so each has a stack of frames.  The virtual functions that user code    *)
(* supplies are external: dispatch() of a task that is not parallel hands  *)
(* the task to some thread that calls subtask_done() later, or calls it at *)
(* once; done() returns the next task of the series, or NULL, and may      *)
(* delete the task it was called on.                                       *)
(***************************************************************************)
EXTENDS Integers, Sequences, FiniteSets

CONSTANTS
    Tasks,
    Parallels,    \* the ParallelTask objects among them
    Subtasks,     \* subtasks and subtasks_nr of each, as a sequence
    Successor,    \* what done() of each task returns
    Root,         \* the task that the program dispatches
    Threads,
    NULL

ASSUME SubTaskAssumption ==
    /\ Parallels \subseteq Tasks
    /\ NULL \notin Tasks
    /\ Root \in Tasks
    /\ Subtasks \in [Parallels -> Seq(Tasks)]
    /\ Successor \in [Tasks -> Tasks \cup {NULL}]

\* There are finitely many tasks and threads, and a task is used once: as the
\* task the program starts with, or as one subtask of one parallel task, or as
\* what done() of one task returns.
ASSUME OnceAssumption ==
    /\ IsFiniteSet(Tasks) /\ IsFiniteSet(Threads)
    /\ \A t \in Tasks : Successor[t] # Root
    /\ \A t, u \in Tasks : Successor[t] # NULL /\ Successor[t] = Successor[u] => t = u
    /\ \A p \in Parallels : \A i \in DOMAIN Subtasks[p] :
          /\ Subtasks[p][i] # Root
          /\ \A t \in Tasks : Successor[t] # Subtasks[p][i]
          /\ \A q \in Parallels : \A j \in DOMAIN Subtasks[q] :
                Subtasks[p][i] = Subtasks[q][j] => p = q /\ i = j

VARIABLES
    parent,       \* of each task
    nleft,        \* of each parallel task
    stack,        \* of each thread, the frame on top first
    inflight,     \* dispatched tasks whose subtask_done() is yet to come
    status,       \* "new", "dispatched", "done": done() was called
    bad           \* a task was used after its done()

vars == <<parent, nleft, stack, inflight, status, bad>>

\* Frames: about to call dispatch() of task t; in the loop of
\* ParallelTask::dispatch at subtask i; at the head of the loop of
\* subtask_done with cur = t; at its decrement of the parent's nleft.
Start(t) == [at |-> "start", task |-> t, i |-> 0]
Loop(t, i) == [at |-> "loop", task |-> t, i |-> i]
Done(t) == [at |-> "done", task |-> t, i |-> 0]
Left(t) == [at |-> "left", task |-> t, i |-> 0]

Top(th, at) == stack[th] # <<>> /\ Head(stack[th]).at = at

\* The frame on top is replaced by the frames fs.
Replace(th, fs) == stack' = [stack EXCEPT ![th] = fs \o Tail(@)]

\* A field of task t is read or written.
Uses(t) == bad' = (bad \/ status[t] = "done")

\* dispatch() of a task that is not parallel.
dispatch(th) ==
    /\ Top(th, "start")
    /\ LET t == Head(stack[th]).task IN
       /\ t \notin Parallels
       /\ \/ inflight' = inflight \cup {t} /\ Replace(th, <<>>)
          \/ Replace(th, <<Done(t)>>) /\ UNCHANGED inflight
       /\ status' = [status EXCEPT ![t] = "dispatched"]
       /\ Uses(t)
    /\ UNCHANGED <<parent, nleft>>

\* Mutant of InitialLeft: one subtask is not counted.
InitialLeftShort(t) == IF Subtasks[t] = <<>> THEN 0 ELSE Len(Subtasks[t]) - 1

\* Line 31.
InitialLeft(t) == Len(Subtasks[t])

\* Lines 28-33 and 38-39 of ParallelTask::dispatch.
ParallelTask_dispatch(th) ==
    /\ Top(th, "start")
    /\ LET t == Head(stack[th]).task IN
       /\ t \in Parallels
       /\ nleft' = [nleft EXCEPT ![t] = InitialLeft(t)]
       /\ status' = [status EXCEPT ![t] = "dispatched"]
       /\ Replace(th, IF Subtasks[t] # <<>> THEN <<Loop(t, 1)>> ELSE <<Done(t)>>)
       /\ Uses(t)
    /\ UNCHANGED <<parent, inflight>>

\* Lines 35-36, and the increment of p.
ParallelTask_dispatch_loop(th) ==
    /\ Top(th, "loop")
    /\ LET t == Head(stack[th]).task
           i == Head(stack[th]).i
       IN  /\ i <= Len(Subtasks[t])
           /\ parent' = [parent EXCEPT ![Subtasks[t][i]] = t]
           /\ Replace(th, <<Start(Subtasks[t][i]), Loop(t, i + 1)>>)
           /\ Uses(t)
    /\ UNCHANGED <<nleft, inflight, status>>

\* Mutant of ParallelTask_dispatch_end: the end of the array is computed
\* from this->subtasks_nr each time.
DispatchEndReadsThis(th) ==
    /\ Top(th, "loop")
    /\ Head(stack[th]).i > Len(Subtasks[Head(stack[th]).task])
    /\ Replace(th, <<>>)
    /\ Uses(Head(stack[th]).task)
    /\ UNCHANGED <<parent, nleft, inflight, status>>

\* Line 37 with p = end: only the locals p and end are read, the parallel
\* task may already be deleted.
ParallelTask_dispatch_end(th) ==
    /\ Top(th, "loop")
    /\ Head(stack[th]).i > Len(Subtasks[Head(stack[th]).task])
    /\ Replace(th, <<>>)
    /\ UNCHANGED <<parent, nleft, inflight, status, bad>>

\* Mutant of Inherit: line 13 is missing.
NoInherit(next, par) == UNCHANGED parent

\* Line 13.
Inherit(next, par) == parent' = [parent EXCEPT ![next] = par]

\* Lines 9-14: parent is read before done() is called.
subtask_done(th) ==
    /\ Top(th, "done")
    /\ LET t == Head(stack[th]).task
           next == Successor[t]
       IN  /\ status' = [status EXCEPT ![t] = "done"]
           /\ Uses(t)
           /\ \/ /\ next # NULL
                 /\ Inherit(next, parent[t])
                 /\ Replace(th, <<Start(next)>>)
              \/ /\ next = NULL /\ parent[t] # NULL
                 /\ Replace(th, <<Left(parent[t])>>)
                 /\ UNCHANGED parent
              \/ /\ next = NULL /\ parent[t] = NULL
                 /\ Replace(th, <<>>)
                 /\ UNCHANGED parent
    /\ UNCHANGED <<nleft, inflight>>

\* Lines 17-20: the last of the parallel series goes on with the parent.
subtask_done_left(th) ==
    /\ Top(th, "left")
    /\ LET p == Head(stack[th]).task IN
       /\ nleft' = [nleft EXCEPT ![p] = @ - 1]
       /\ Replace(th, IF nleft[p] - 1 = 0 THEN <<Done(p)>> ELSE <<>>)
       /\ Uses(p)
    /\ UNCHANGED <<parent, inflight, status>>

\* Some thread finishes the work of a task and calls its subtask_done().
Complete(th, t) ==
    /\ stack[th] = <<>>
    /\ t \in inflight
    /\ inflight' = inflight \ {t}
    /\ stack' = [stack EXCEPT ![th] = <<Done(t)>>]
    /\ UNCHANGED <<parent, nleft, status, bad>>

Init ==
    /\ parent = [t \in Tasks |-> NULL]
    /\ nleft = [t \in Parallels |-> 0]
    /\ \E th \in Threads :
          stack = [u \in Threads |-> IF u = th THEN <<Start(Root)>> ELSE <<>>]
    /\ inflight = {}
    /\ status = [t \in Tasks |-> "new"]
    /\ bad = FALSE

Step(th) ==
    \/ dispatch(th)
    \/ ParallelTask_dispatch(th)
    \/ ParallelTask_dispatch_loop(th)
    \/ ParallelTask_dispatch_end(th)
    \/ subtask_done(th)
    \/ subtask_done_left(th)

Next ==
    \/ \E th \in Threads : Step(th) \/ \E t \in Tasks : Complete(th, t)
    \/ /\ inflight = {} /\ \A th \in Threads : stack[th] = <<>>
       /\ UNCHANGED vars

Spec == Init /\ [][Next]_vars

\* A thread inside the library goes on, and what user code started it
\* finishes: its completion is picked up by some thread.
FairSpec ==
    /\ Spec
    /\ \A th \in Threads : WF_vars(Step(th))
    /\ \A t \in Tasks : WF_vars(\E th \in Threads : Complete(th, t))

-----------------------------------------------------------------------------
(* Properties *)

Frames == [at : {"start", "loop", "done", "left"}, task : Tasks, i : Nat]

\* Types; nleft, a size_t, is not decremented at zero.
TypeOK ==
    /\ parent \in [Tasks -> Parallels \cup {NULL}]
    /\ nleft \in [Parallels -> Nat]
    /\ stack \in [Threads -> Seq(Frames)]
    /\ inflight \in SUBSET Tasks
    /\ status \in [Tasks -> {"new", "dispatched", "done"}]
    /\ bad \in BOOLEAN

\* No task is dispatched, finished, counted down or iterated over after its
\* done() was called, although the thread that dispatches a parallel task may
\* still be in its loop when another thread finishes it.
NoUseAfterDone == ~bad

\* A parallel task is finished after everything below it: every subtask and
\* every task that followed one in its series.
ParentLast ==
    \A p \in Parallels : status[p] = "done" =>
        /\ \A i \in DOMAIN Subtasks[p] : status[Subtasks[p][i]] = "done"
        /\ \A t \in Tasks : parent[t] = p => status[t] = "done"

\* The whole program finishes: every task is done in the end.
AllTasksDone == <>(\A t \in Tasks : status[t] = "done")
=============================================================================
