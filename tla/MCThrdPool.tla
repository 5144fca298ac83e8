----------------------------- MODULE MCThrdPool -----------------------------
(* Instances of ThrdPool for TLC: what the callers of the pool do.          *)
EXTENDS ThrdPool

CONSTANTS a1, a2, m1, m2

\* A pool created for n threads, the calls of the two application threads and
\* those of the two tasks.
Program(n, one, two, first, second) ==
    [nthreads |-> n,
     calls |-> [c \in Apps \cup Tasks |-> CASE c = a1 -> one
                                            [] c = a2 -> two
                                            [] c = m1 -> first
                                            [] c = m2 -> second]]

\* A pool grows and shrinks, and is destroyed from outside or, by a task,
\* from inside.  A task gets into the queue of a pool without threads behind
\* the entry of a decrease.
DestroyPrograms ==
    {Program(0, <<"increase", "exit", "increase", "decrease", "increase",
                  "destroy">>, <<>>, <<>>, <<>>),
     Program(0, <<"increase", "increase", "increase", "decrease", "decrease",
                  "destroy">>, <<>>, <<>>, <<>>),
     Program(0, <<"decrease", m1, m2, "increase", "increase">>,
             <<>>, <<"destroy">>, <<>>),
     Program(0, <<"decrease", "decrease", m1, m2, "increase", "increase",
                  "increase">>, <<>>, <<"destroy">>, <<>>),
     Program(0, <<"decrease", m1, "increase", "increase", "destroy">>,
             <<>>, <<"exit">>, <<>>)}

\* Two threads and the tasks themselves change the size of a pool that is
\* never destroyed.
TaskPrograms ==
    {Program(1, <<"decrease", m1, m2, "increase", "increase">>,
             <<"increase", "decrease">>, <<>>, <<"decrease">>),
     Program(1, <<"decrease", m1, m2, "increase">>, <<"increase", "exit">>,
             <<"exit">>, <<"increase">>)}

\* A task shrinks the pool while it is being destroyed: it may wait for ever in
\* put_head, which line 74 of msgqueue.cc makes wait in the nonblocking mode.
ShrinkPrograms ==
    {Program(0, <<"increase", "increase", "decrease", m1, "destroy">>,
             <<>>, <<"decrease">>, <<>>)}

\* A pool that was created with one thread is destroyed.
PhantomPrograms == {Program(1, <<"increase", "destroy">>, <<>>, <<>>, <<>>)}

PoolPrograms == DestroyPrograms \cup TaskPrograms \cup PhantomPrograms
=============================================================================
