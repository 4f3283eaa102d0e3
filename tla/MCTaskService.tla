--------------------------- MODULE MCTaskService ---------------------------
(***************************************************************************)
(* Instances of TaskService for TLC, with three history variables that     *)
(* record what the database does not: the rejections of a task, whether    *)
(* its last move was one, and the tasks that were done.                    *)
(***************************************************************************)
EXTENDS TaskService, TLC

VARIABLES rejections,    \* rejections[t]: review -> in_progress writes so far
          returned,      \* the tasks whose last move was review -> in_progress
          finished       \* the tasks that were written done: approved, closed or completed

mcVars == <<task, queue, load, enabled, guard, work, calls, rejections, returned, finished>>

Moved(t, from, to) == task[t].status = from /\ task'[t].status = to

MCInit == /\ Init
          /\ rejections = [t \in Tasks |-> 0]
          /\ returned = {}
          /\ finished = {}

MCNext == /\ Next
          /\ rejections' = [t \in Tasks |-> IF Moved(t, "review", "in_progress")
                                            THEN rejections[t] + 1 ELSE rejections[t]]
          /\ returned' = {t \in Tasks : IF task'[t].status = task[t].status THEN t \in returned
                                         ELSE Moved(t, "review", "in_progress")}
          /\ finished' = finished \cup {t \in Tasks : \/ Moved(t, "review", "done")
                                                     \/ Moved(t, "in_progress", "done")}

MCSpec == MCInit /\ [][MCNext]_mcVars
MCFairSpec == MCSpec /\ \A c \in Callers : WF_mcVars(ServiceStep(c) /\ MCNext)

\* When no request is running, agent_loop_count is the number of times the
\* task was sent back from review: handleReviewToInProgress adds one to the
\* count of the snapshot each time.
RejectionsCounted == Quiet => \A t \in Tasks : rejections[t] = task[t].loops

\* A task rejected up to its limit is stopped: when no request is running, a
\* task whose count has reached the limit is not where a rejection put it
\* (handleReviewToInProgress marks it stuck by a second transition).  A human
\* may put it in progress again.
MeltdownHolds == Quiet => \A t \in Tasks : task[t].loops >= MaxLoops => t \notin returned

\* The dispatches that a task holds back are released only after a write moved
\* that task to done, whichever requests race: a goroutine that lost the race for
\* the status, to a rejection or a deletion, releases nothing.
HeldUntilDone ==
    \A t \in Tasks : InitRow[t].pending # <<>> /\ task[t].pending = <<>> => t \in finished

Gated == {t \in Tasks : \E p \in Tasks : \E i \in DOMAIN InitRow[p].pending :
                          InitRow[p].pending[i].sub = t}

\* A held-back dispatch is released at most once, across racing approvals,
\* retries and restarts (processPendingActions clears the list in the
\* transaction that inserts the entries).
ReleasedAtMostOnce ==
    \A s \in Gated : Cardinality({i \in DOMAIN queue : queue[i].task = s}) <= 1

-----------------------------------------------------------------------------
(* The instances.                                                          *)

CONSTANTS c1, c2, t1, t2, t3, t4, t5, a1, a2, NotATask, NotAnAgent

Row(status, assignee) == [status |-> status, deleted |-> FALSE, assignee |-> assignee,
                          loops |-> 0, pending |-> <<>>, plans |-> {}]

NoDependencies == [t \in Tasks |-> {}]
NoParents == [t \in Tasks |-> NotATask]
NoRules == [t \in Tasks |-> <<>>]
AllOf(b) == [t \in Tasks |-> b]

TwoTodo == (t1 :> Row("todo", a1)) @@ (t2 :> Row("todo", a2))
Sampled == AllOf("sample_review")
AutoReviewed == AllOf("auto_review")
AutoDone == AllOf("auto_done")

\* Rules that reopen what has just been finished, and take the agent away.
ReopenRules == [t \in Tasks |-> <<"todo", "assign_user">>]
\* A rule that approves whatever comes to review.
CloseRules == [t \in Tasks |-> <<"done">>]

\* A fork and join inside a parent: t1 and t2 are the children of t3, t4 waits
\* for both, t5 waits for t3.
DagDependsOn == (t1 :> {}) @@ (t2 :> {}) @@ (t3 :> {}) @@ (t4 :> {t1, t2}) @@ (t5 :> {t3})
DagParent == (t1 :> t3) @@ (t2 :> t3) @@ (t3 :> NotATask) @@ (t4 :> NotATask) @@ (t5 :> NotATask)
DagRows == (t1 :> Row("in_progress", NotAnAgent)) @@ (t2 :> Row("in_progress", NotAnAgent))
             @@ (t3 :> Row("in_progress", NotAnAgent)) @@ (t4 :> Row("blocked", a1))
             @@ (t5 :> Row("blocked", NotAnAgent))

\* A task that was delegated from one agent to another, with its assignment held
\* back until its review.
OneHeld == [t \in Tasks |-> [Row("review", a1) EXCEPT
                              !.pending = <<[type |-> "assign_task", sub |-> NotATask, agent |-> a1]>>]]

\* t1 is in review, with the dispatch of its sub-task t2 to a2 held back.
GateRows == (t1 :> [Row("review", a1) EXCEPT
                      !.pending = <<[type |-> "create_sub_task", sub |-> t2, agent |-> a2]>>])
              @@ (t2 :> Row("todo", a2))
=============================================================================
