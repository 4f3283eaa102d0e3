----------------------------- MODULE TaskStatus -----------------------------
(***************************************************************************)
(* The status vocabulary of a task and of a queue entry: the table of      *)
(* transitions TaskService accepts, and what a request for "completed"     *)
(* may be stored as.  A constant module, extended by every specification   *)
(* of the server that reads or writes a status column.                     *)
(***************************************************************************)

\* models.TaskStatus
Statuses == {"todo", "in_progress", "blocked", "completed", "done", "review", "stuck"}

\* The statuses POST /tasks/:id/status accepts (TaskHandler.SetStatus).
UserStatuses == {"todo", "in_progress", "blocked", "done", "review"}

\* Tasks.completion_behavior; "unknown" is any other text in the column.
Behaviors == {"auto_done", "auto_review", "sample_review", "needs_review", "unknown"}

\* The table TransitionStatus consults, row by row.
Transitions ==
    [todo        |-> {"in_progress", "blocked"},
     in_progress |-> {"completed", "blocked", "review", "stuck", "done"},
     blocked     |-> {"todo", "stuck"},
     completed   |-> {"done", "review", "completed"},
     review      |-> {"done", "in_progress", "stuck", "blocked"},
     done        |-> {"todo", "in_progress", "completed"},
     stuck       |-> {"in_progress", "todo"}]

transitionValid(from, to) == to \in Transitions[from]

\* What one write of the status column may do.  "completed" is a request
\* and never a stored status: it is resolved to "done" or "review" first.
StatusMove(from, to) ==
    \/ transitionValid(from, to) /\ to # "completed"
    \/ transitionValid(from, "completed") /\ to \in {"done", "review"}

\* A dependency in one of these statuses no longer holds its dependents back.
Satisfied == {"done", "review"}

\* task_agent_queue.status, and the statuses that occupy an agent.
QueueStatuses == {"queued", "claimed", "processing", "completed", "failed"}
ActiveStatuses == {"queued", "claimed", "processing"}
=============================================================================
