------------------------------ MODULE TaskBoard ------------------------------
(***************************************************************************)
(* What the task board promises to whoever looks at it: a task moves from  *)
(* one column to another only along the documented transitions, one at a   *)
(* time, and a task in the trash does not move until it is restored.       *)
(* Nothing is said of who moves it or of how many requests race to do it:  *)
(* TaskService implements this specification.                              *)
(***************************************************************************)
EXTENDS TaskStatus

CONSTANT Tasks

VARIABLES status,    \* status[t]: the column task t is in
          trashed    \* the tasks whose deleted_at is set

boardVars == <<status, trashed>>

BoardInit == /\ status \in [Tasks -> Statuses \ {"completed"}]
             /\ trashed \in SUBSET Tasks

Move(t) == /\ t \notin trashed
           /\ \E to \in Statuses : /\ StatusMove(status[t], to)
                                   /\ status' = [status EXCEPT ![t] = to]
           /\ UNCHANGED trashed

Trash(t) == /\ t \notin trashed
            /\ trashed' = trashed \cup {t}
            /\ UNCHANGED status

Untrash(t) == /\ trashed' = trashed \ {t}
              /\ UNCHANGED status

BoardNext == \E t \in Tasks : Move(t) \/ Trash(t) \/ Untrash(t)

BoardSpec == BoardInit /\ [][BoardNext]_boardVars
=============================================================================
