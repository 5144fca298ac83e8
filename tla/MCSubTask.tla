----------------------------- MODULE MCSubTask ------------------------------
(* Instances of SubTask for TLC.                                            *)
EXTENDS SubTask, TLC

CONSTANTS root, inner, none, a, b, c, d, last

\* root runs three series side by side: a then b; a parallel task of c and d
\* followed by nothing; and a parallel task of no subtasks.  After root comes
\* last.
TreeSubtasks == (root :> <<a, inner, none>>) @@ (inner :> <<c, d>>)
                    @@ (none :> <<>>)
TreeSuccessor ==
    [t \in Tasks |-> CASE t = a -> b [] t = root -> last [] OTHER -> NULL]
=============================================================================
