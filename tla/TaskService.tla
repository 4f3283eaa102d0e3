---------------------------- MODULE TaskService ----------------------------
(***************************************************************************)
(* The orchestration core of the server: TaskService with the two          *)
(* collaborators it calls and is called by, ReviewRouter and DAGEngine,    *)
(* and the set_status and assign_user actions of the RuleEngine.           *)
(*                                                                         *)
(* Every request runs in a goroutine of its own against a shared database. *)
(* A goroutine is a caller c and its continuation work[c]: the operations  *)
(* it still has to run, innermost call first.  One step runs the operation *)
(* at the head, which touches the database once, and puts in its place the *)
(* operations that follow it.  Between two steps of one goroutine, any     *)
(* other may run: whatever an operation carries (a snapshot, a list read   *)
(* earlier) may be stale by the time it is used.                           *)
(***************************************************************************)
EXTENDS TaskStatus, Naturals, Sequences, FiniteSets

CONSTANTS
    Tasks, Agents, Callers,
    NoTask, NoAgent,    \* no parent; no agent assignee (unassigned, or a user)
    DependsOn,          \* DependsOn[t]: the tasks of t's task_dependencies rows
    Parent,             \* Parent[t]: parent_id
    InWorkflow,         \* the tasks whose workflow_id is not NULL
    Behavior,           \* Behavior[t]: completion_behavior
    RuleActions,        \* RuleActions[t]: what the enabled rules do to t, in order
    MaxLoops,           \* max_agent_loops
    MaxConcurrency,     \* max_concurrency of every agent
    EnabledAgents,      \* the agents whose enabled flag is set in the initial state
    InitRow,            \* InitRow[t]: the row of t in the initial state
    Kinds,              \* the kinds of request the environment makes
    SetTargets,         \* the statuses it asks for
    MaxCalls            \* how many requests it makes

RequestKinds == {"set", "approve", "reject", "complete", "safety", "delete", "restore", "restart"}

\* An entry of pending_review_actions: a dispatch held back until a human
\* approves.  "assign_task" is about the task that holds it, so sub is NoTask.
Actions == [type : {"create_sub_task"}, sub : Tasks, agent : Agents]
             \cup [type : {"assign_task"}, sub : {NoTask}, agent : Agents]

Rows == [status   : Statuses,
         deleted  : BOOLEAN,
         assignee : Agents \cup {NoAgent},
         loops    : Nat,                            \* agent_loop_count
         pending  : Seq(Actions),                   \* pending_review_actions
         plans    : SUBSET {"pending", "approved"}] \* statuses of its plans

ASSUME TaskAssumption == /\ NoTask \notin Tasks
                         /\ DependsOn \in [Tasks -> SUBSET Tasks]
                         /\ Parent \in [Tasks -> Tasks \cup {NoTask}]
                         /\ InWorkflow \subseteq Tasks
                         /\ Behavior \in [Tasks -> Behaviors]
                         /\ RuleActions \in [Tasks -> Seq(Statuses \cup {"assign_user"})]

ASSUME AgentAssumption == /\ NoAgent \notin Agents
                          /\ EnabledAgents \subseteq Agents

\* A row the program can start from is never stored as "completed".
ASSUME InitAssumption == /\ InitRow \in [Tasks -> Rows]
                         /\ \A t \in Tasks : InitRow[t].status # "completed"

ASSUME BoundAssumption == /\ MaxLoops \in Nat /\ MaxConcurrency \in Nat /\ MaxCalls \in Nat
                          /\ Kinds \subseteq RequestKinds
                          /\ SetTargets \subseteq UserStatuses

VARIABLES
    task,     \* task[t]: the row of t
    queue,    \* task_agent_queue, oldest entry first
    load,     \* load[a]: agent_profiles.current_load
    enabled,  \* the agents whose enabled flag is set
    guard,    \* DAGEngine.processing: the tasks whose completion is being handled
    work,     \* work[c]: the continuation of goroutine c
    calls     \* how many requests have been made

vars == <<task, queue, load, enabled, guard, work, calls>>

-----------------------------------------------------------------------------
(* The operations a goroutine may have before it.                          *)

maxRetries == 3

Snapshots == [status : Statuses, assignee : Agents \cup {NoAgent}, loops : Nat]

TransitionOps == [op : {"transition"}, task : Tasks, to : Statuses,
                  summary : BOOLEAN, attempt : 0 .. maxRetries - 1]
ResolveOps == [op : {"resolve"}, task : Tasks, snap : Snapshots,
               summary : BOOLEAN, attempt : 0 .. maxRetries - 1]
WriteOps == [op : {"write"}, task : Tasks, snap : Snapshots, to : Statuses,
             asked : Statuses, summary : BOOLEAN, attempt : 0 .. maxRetries - 1]
TaskOps == [op : {"pending", "dag", "gather", "leave", "rules", "dropLoad", "failActive", "unassign"},
            task : Tasks]
ReleaseOps == [op : {"release"}, task : Tasks, actions : Seq(Actions)]
CheckOps == [op : {"check"}, task : Tasks, left : SUBSET Tasks, unblock : SUBSET Tasks]
ParentOps == [op : {"siblings", "parent"}, task : Tasks, unblock : SUBSET Tasks]
AdvanceOps == [op : {"advance"}, task : Tasks, unblock : SUBSET Tasks,
               parent : Tasks \cup {NoTask}, to : {"review", "done"}]
AgentOps == [op : {"dispatch", "reviewQueue", "insert"}, task : Tasks, agent : Agents]
BumpOps == [op : {"bump"}, agent : Agents]
LoopOps == [op : {"loops"}, task : Tasks, agent : Agents \cup {NoAgent}, count : Nat]

Ops == TransitionOps \cup ResolveOps \cup WriteOps \cup TaskOps \cup ReleaseOps
         \cup CheckOps \cup ParentOps \cup AdvanceOps \cup AgentOps \cup BumpOps \cup LoopOps

Entries == [task : Tasks, agent : Agents, status : QueueStatuses]

Transition(t, to, summary) ==
    [op |-> "transition", task |-> t, to |-> to, summary |-> summary, attempt |-> 0]
On(name, t) == [op |-> name, task |-> t]
ForAgent(name, t, a) == [op |-> name, task |-> t, agent |-> a]

Doing(c, name) == work[c] # <<>> /\ Head(work[c]).op = name

\* The operation at the head is over and the operations ops come next.
Then(c, ops) == work' = [work EXCEPT ![c] = ops \o Tail(work[c])]

-----------------------------------------------------------------------------
(* What the SQL statements read and write.                                 *)

Active(e) == e.status \in ActiveStatuses
ActiveFor(q, t, a) == \E i \in DOMAIN q : q[i].task = t /\ q[i].agent = a /\ Active(q[i])

\* Mutant: current_load - 1, without GREATEST.
DropLoadUnclamped(ld, q, t) ==
    [a \in Agents |-> IF ActiveFor(q, t, a) THEN ld[a] - 1 ELSE ld[a]]

\* GREATEST(0, current_load - 1) of each agent with an active entry for t: once
\* per agent, however many entries it has.
DropLoad(ld, q, t) ==
    [a \in Agents |-> IF ActiveFor(q, t, a) /\ ld[a] > 0 THEN ld[a] - 1 ELSE ld[a]]

FailActive(q, t) ==
    [i \in DOMAIN q |-> IF q[i].task = t /\ Active(q[i])
                        THEN [q[i] EXCEPT !.status = "failed"] ELSE q[i]]

ready(d) == task[d].deleted \/ task[d].status \in Satisfied

\* gatherDAGTransitions: the scan of a NULL workflow_id fails, and the row is skipped.
Dependents(t) ==
    {d \in InWorkflow : t \in DependsOn[d] /\ ~task[d].deleted /\ task[d].status = "blocked"}

AllDone(d) == \A x \in DependsOn[d] : ready(x)

\* checkParentAutoCloseLocked
SiblingsDone(p) == \A s \in Tasks : Parent[s] = p => ready(s)

-----------------------------------------------------------------------------
(* TransitionStatus: read, validate, resolve, write, side effects.         *)

\* Mutant: what is not sampled is stored as it was asked for.
CompletionTargetsAsAsked(t, summary) ==
    IF "pending" \in task[t].plans THEN {"review"}
    ELSE CASE Behavior[t] = "auto_done"     -> IF summary THEN {"review"} ELSE {"done"}
           [] Behavior[t] = "sample_review" -> {"review", "completed"}
           [] OTHER                         -> {"review"}

\* resolveCompletionTarget; sample_review draws a random number.
CompletionTargets(t, summary) ==
    IF "pending" \in task[t].plans THEN {"review"}
    ELSE CASE Behavior[t] = "auto_done"     -> IF summary THEN {"review"} ELSE {"done"}
           [] Behavior[t] = "sample_review" -> {"review", "done"}
           [] OTHER                         -> {"review"}

\* handleReviewToDone frees the agents of t: their loads, then their entries.
FreeAgents(t) == <<On("dropLoad", t), On("failActive", t)>>

\* dispatchSideEffects and the handlers it calls, for a task whose snapshot was s.
SideEffects(t, s, to) ==
    LET assigned == s.assignee # NoAgent
        from == s.status
        moved(f, tt) == from = f /\ to = tt
    IN  CASE moved("in_progress", "done") ->
                 <<On("pending", t), On("dag", t), On("rules", t)>>
          [] moved("in_progress", "review") ->
                 (IF assigned /\ Behavior[t] = "auto_review"
                  THEN <<ForAgent("reviewQueue", t, s.assignee)>> ELSE <<>>)
                 \o <<On("dag", t), On("rules", t)>>
          [] moved("review", "done") ->
                 <<On("pending", t), On("dag", t)>> \o FreeAgents(t) \o <<On("rules", t)>>
          [] moved("review", "in_progress") ->
                 <<[op |-> "loops", task |-> t, agent |-> s.assignee, count |-> s.loops + 1]>>
          [] assigned /\ (\/ moved("todo", "in_progress") \/ moved("blocked", "todo")
                          \/ from \in {"done", "stuck"} /\ to \in {"todo", "in_progress"}) ->
                 <<ForAgent("dispatch", t, s.assignee)>>
          [] OTHER -> <<>>

readTaskSnapshot(c) ==
    /\ Doing(c, "transition")
    /\ LET o == Head(work[c])
           row == task[o.task]
           s == [status |-> row.status, assignee |-> row.assignee, loops |-> row.loops]
       IN  Then(c, IF row.deleted \/ row.status = o.to \/ ~transitionValid(row.status, o.to)
                   THEN <<>>
                   ELSE IF o.to = "completed"
                   THEN <<[op |-> "resolve", task |-> o.task, snap |-> s,
                           summary |-> o.summary, attempt |-> o.attempt]>>
                   ELSE <<[op |-> "write", task |-> o.task, snap |-> s, to |-> o.to, asked |-> o.to,
                           summary |-> o.summary, attempt |-> o.attempt]>>)
    /\ UNCHANGED <<task, queue, load, enabled, guard, calls>>

resolveCompletionTarget(c) ==
    /\ Doing(c, "resolve")
    /\ LET o == Head(work[c])
       IN  \E to \in CompletionTargets(o.task, o.summary) :
             Then(c, <<[op |-> "write", task |-> o.task, snap |-> o.snap, to |-> to,
                        asked |-> "completed", summary |-> o.summary, attempt |-> o.attempt]>>)
    /\ UNCHANGED <<task, queue, load, enabled, guard, calls>>

\* Mutant: the status of the snapshot is not in the WHERE clause.
UnmodifiedLive(t, s) == ~task[t].deleted

\* The UPDATE's WHERE clause: the row is live and still in the snapshot's status.
Unmodified(t, s) == ~task[t].deleted /\ task[t].status = s.status

\* Mutant: the number of rows affected is not looked at.
writeStatusUnchecked(c) ==
    /\ Doing(c, "write")
    /\ LET o == Head(work[c]) IN
         /\ task' = IF Unmodified(o.task, o.snap)
                    THEN [task EXCEPT ![o.task].status = o.to] ELSE task
         /\ Then(c, SideEffects(o.task, o.snap, o.to))
    /\ UNCHANGED <<queue, load, enabled, guard, calls>>

writeStatus(c) ==
    /\ Doing(c, "write")
    /\ LET o == Head(work[c]) IN
         \/ /\ Unmodified(o.task, o.snap)
            /\ task' = [task EXCEPT ![o.task].status = o.to]
            /\ Then(c, SideEffects(o.task, o.snap, o.to))
         \/ /\ ~Unmodified(o.task, o.snap)
            /\ Then(c, IF o.attempt < maxRetries - 1
                       THEN <<[Transition(o.task, o.asked, o.summary)
                                 EXCEPT !.attempt = o.attempt + 1]>>
                       ELSE <<>>)
            /\ UNCHANGED task
    /\ UNCHANGED <<queue, load, enabled, guard, calls>>

-----------------------------------------------------------------------------
(* Dispatching an agent.                                                   *)

\* Mutant: no look for an entry that is already there.
tryAutoDispatchAlways(c) ==
    /\ Doing(c, "dispatch")
    /\ LET o == Head(work[c])
       IN  Then(c, IF o.agent \notin enabled THEN <<>>
                   ELSE <<ForAgent("insert", o.task, o.agent), [op |-> "bump", agent |-> o.agent]>>)
    /\ UNCHANGED <<task, queue, load, enabled, guard, calls>>

tryAutoDispatch(c) ==
    /\ Doing(c, "dispatch")
    /\ LET o == Head(work[c])
       IN  Then(c, IF ActiveFor(queue, o.task, o.agent) \/ o.agent \notin enabled THEN <<>>
                   ELSE <<ForAgent("insert", o.task, o.agent), [op |-> "bump", agent |-> o.agent]>>)
    /\ UNCHANGED <<task, queue, load, enabled, guard, calls>>

createReviewQueue(c) ==
    /\ Doing(c, "reviewQueue")
    /\ LET o == Head(work[c])
       IN  Then(c, IF \/ o.agent \notin enabled
                      \/ load[o.agent] >= MaxConcurrency
                      \/ ActiveFor(queue, o.task, o.agent)
                   THEN <<>>
                   ELSE <<ForAgent("insert", o.task, o.agent), [op |-> "bump", agent |-> o.agent]>>)
    /\ UNCHANGED <<task, queue, load, enabled, guard, calls>>

insertQueueEntry(c) ==
    /\ Doing(c, "insert")
    /\ LET o == Head(work[c])
       IN  queue' = Append(queue, [task |-> o.task, agent |-> o.agent, status |-> "queued"])
    /\ Then(c, <<>>)
    /\ UNCHANGED <<task, load, enabled, guard, calls>>

bumpLoad(c) ==
    /\ Doing(c, "bump")
    /\ load' = [load EXCEPT ![Head(work[c]).agent] = @ + 1]
    /\ Then(c, <<>>)
    /\ UNCHANGED <<task, queue, enabled, guard, calls>>

-----------------------------------------------------------------------------
(* Review: the dispatches held back, rejection and the loop limit.         *)

\* processPendingActions reads the actions outside its transaction.
readPendingActions(c) ==
    /\ Doing(c, "pending")
    /\ LET t == Head(work[c]).task
           acts == task[t].pending
       IN  Then(c, IF task[t].deleted \/ acts = <<>> THEN <<>>
                   ELSE <<[op |-> "release", task |-> t, actions |-> acts]>>)
    /\ UNCHANGED <<task, queue, load, enabled, guard, calls>>

\* The transaction: entries and load for the actions; then the task's actions
\* and agent assignee are cleared and all its active entries failed.
processPendingActions(c) ==
    /\ Doing(c, "release")
    /\ LET o == Head(work[c])
           t == o.task
           entry(x) == [task |-> IF x.type = "create_sub_task" THEN x.sub ELSE t,
                        agent |-> x.agent, status |-> "queued"]
           q == queue \o [i \in DOMAIN o.actions |-> entry(o.actions[i])]
           ld == [a \in Agents |->
                    load[a] + Cardinality({i \in DOMAIN o.actions : o.actions[i].agent = a})]
       IN  /\ queue' = FailActive(q, t)
           /\ load' = DropLoad(ld, q, t)
           /\ task' = [task EXCEPT ![t].pending = <<>>, ![t].assignee = NoAgent]
    /\ Then(c, <<>>)
    /\ UNCHANGED <<enabled, guard, calls>>

\* handleReviewToDone decrements the loads first and fails the entries after.
dropLoadOfTask(c) ==
    /\ Doing(c, "dropLoad")
    /\ load' = DropLoad(load, queue, Head(work[c]).task)
    /\ Then(c, <<>>)
    /\ UNCHANGED <<task, queue, enabled, guard, calls>>

failEntriesOfTask(c) ==
    /\ Doing(c, "failActive")
    /\ queue' = FailActive(queue, Head(work[c]).task)
    /\ Then(c, <<>>)
    /\ UNCHANGED <<task, load, enabled, guard, calls>>

\* Mutant: off by one.
PastLimit(count) == count > MaxLoops

AtLimit(count) == count >= MaxLoops

\* Mutant: the count is not saved when it reaches the limit.
countLoopUnsaved(c) ==
    /\ Doing(c, "loops")
    /\ LET o == Head(work[c])
       IN  \/ /\ AtLimit(o.count)
              /\ Then(c, <<Transition(o.task, "stuck", FALSE)>>)
              /\ UNCHANGED task
           \/ /\ ~AtLimit(o.count)
              /\ task' = [task EXCEPT ![o.task].loops = o.count]
              /\ Then(c, <<>>)
    /\ UNCHANGED <<queue, load, enabled, guard, calls>>

\* handleReviewToInProgress: the new count comes from the snapshot.
countLoop(c) ==
    /\ Doing(c, "loops")
    /\ LET o == Head(work[c])
       IN  /\ task' = [task EXCEPT ![o.task].loops = o.count]
           /\ Then(c, IF AtLimit(o.count) THEN <<Transition(o.task, "stuck", FALSE)>>
                      ELSE IF o.agent # NoAgent THEN <<ForAgent("reviewQueue", o.task, o.agent)>>
                      ELSE <<>>)
    /\ UNCHANGED <<queue, load, enabled, guard, calls>>

-----------------------------------------------------------------------------
(* DAGEngine.OnTaskCompleted and the rules.                                *)

\* Mutants: one guard for all tasks; no guard.
BusyAtAll(t) == guard # {}
NeverBusy(t) == FALSE

\* The completion of t is being handled already.
Busy(t) == t \in guard

enterOnTaskCompleted(c) ==
    /\ Doing(c, "dag")
    /\ LET t == Head(work[c]).task IN
         \/ Busy(t) /\ Then(c, <<>>) /\ UNCHANGED guard
         \/ ~Busy(t) /\ guard' = guard \cup {t} /\ Then(c, <<On("gather", t), On("leave", t)>>)
    /\ UNCHANGED <<task, queue, load, enabled, calls>>

\* DAGEngine.mu: one goroutine at a time reads the graph.
Locked == \E c \in Callers : Doing(c, "check") \/ Doing(c, "siblings") \/ Doing(c, "parent")

\* What a goroutine holds when it releases the lock.
Advance(t, unblock, parent, to) ==
    [op |-> "advance", task |-> t, unblock |-> unblock, parent |-> parent, to |-> to]

\* The lock is taken, and the blocked dependents are listed.
gatherDAGTransitions(c) ==
    /\ Doing(c, "gather") /\ ~Locked
    /\ LET t == Head(work[c]).task
       IN  Then(c, <<[op |-> "check", task |-> t, left |-> Dependents(t), unblock |-> {}]>>)
    /\ UNCHANGED <<task, queue, load, enabled, guard, calls>>

\* One dependency count for each of them, then the parent of the task.
checkDependents(c) ==
    /\ Doing(c, "check")
    /\ LET o == Head(work[c]) IN
         \/ \E d \in o.left :
              Then(c, <<[o EXCEPT !.left = @ \ {d},
                                  !.unblock = IF AllDone(d) THEN @ \cup {d} ELSE @]>>)
         \/ /\ o.left = {}
            /\ Then(c, IF task[o.task].deleted \/ Parent[o.task] = NoTask
                       THEN <<Advance(o.task, o.unblock, NoTask, "done")>>
                       ELSE <<[op |-> "siblings", task |-> o.task, unblock |-> o.unblock]>>)
    /\ UNCHANGED <<task, queue, load, enabled, guard, calls>>

checkSiblings(c) ==
    /\ Doing(c, "siblings")
    /\ LET o == Head(work[c])
       IN  Then(c, IF SiblingsDone(Parent[o.task])
                   THEN <<[op |-> "parent", task |-> o.task, unblock |-> o.unblock]>>
                   ELSE <<Advance(o.task, o.unblock, NoTask, "done")>>)
    /\ UNCHANGED <<task, queue, load, enabled, guard, calls>>

\* The status of the parent, and its approved plan: no modelled handler changes a plan.
readParent(c) ==
    /\ Doing(c, "parent")
    /\ LET o == Head(work[c])
           p == Parent[o.task]
       IN  Then(c, <<IF ~task[p].deleted /\ task[p].status \in Satisfied
                     THEN Advance(o.task, o.unblock, NoTask, "done")
                     ELSE Advance(o.task, o.unblock, p,
                                  IF "approved" \in task[p].plans THEN "review" ELSE "done")>>)
    /\ UNCHANGED <<task, queue, load, enabled, guard, calls>>

\* Mutant: the dependent that was advanced is not taken off the list.
AfterNothing(o, d) == o

After(o, d) == [o EXCEPT !.unblock = @ \ {d}]

\* MarkTodo on each dependent (the query gives no order), then on to the parent.
applyDAGTransitions(c) ==
    /\ Doing(c, "advance")
    /\ LET o == Head(work[c]) IN
         \/ \E d \in o.unblock :
              Then(c, <<Transition(d, "todo", FALSE), After(o, d)>>)
         \/ /\ o.unblock = {}
            /\ Then(c, IF o.parent = NoTask THEN <<>>
                       ELSE <<Transition(o.parent, o.to, FALSE)>>)
    /\ UNCHANGED <<task, queue, load, enabled, guard, calls>>

leaveOnTaskCompleted(c) ==
    /\ Doing(c, "leave")
    /\ guard' = guard \ {Head(work[c]).task}
    /\ Then(c, <<>>)
    /\ UNCHANGED <<task, queue, load, enabled, calls>>

\* RuleEngine.Evaluate("on_status_change"): the actions of the rules that match.
evaluateRules(c) ==
    /\ Doing(c, "rules")
    /\ LET t == Head(work[c]).task
           acts == RuleActions[t]
       IN  Then(c, [i \in DOMAIN acts |-> IF acts[i] = "assign_user" THEN On("unassign", t)
                                           ELSE Transition(t, acts[i], FALSE)])
    /\ UNCHANGED <<task, queue, load, enabled, guard, calls>>

\* assign_user makes a user the assignee: no agent is any more.
assignUser(c) ==
    /\ Doing(c, "unassign")
    /\ task' = [task EXCEPT ![Head(work[c]).task].assignee = NoAgent]
    /\ Then(c, <<>>)
    /\ UNCHANGED <<queue, load, enabled, guard, calls>>

ServiceStep(c) ==
    \/ readTaskSnapshot(c) \/ resolveCompletionTarget(c) \/ writeStatus(c)
    \/ tryAutoDispatch(c) \/ createReviewQueue(c) \/ insertQueueEntry(c) \/ bumpLoad(c)
    \/ readPendingActions(c) \/ processPendingActions(c)
    \/ dropLoadOfTask(c) \/ failEntriesOfTask(c) \/ countLoop(c)
    \/ enterOnTaskCompleted(c) \/ gatherDAGTransitions(c) \/ checkDependents(c)
    \/ checkSiblings(c) \/ readParent(c) \/ applyDAGTransitions(c)
    \/ leaveOnTaskCompleted(c) \/ evaluateRules(c) \/ assignUser(c)

-----------------------------------------------------------------------------
(* The requests.  Each takes an idle goroutine; MaxCalls bounds them.      *)

Request(c, kind) == /\ kind \in Kinds /\ calls < MaxCalls /\ work[c] = <<>>
                    /\ calls' = calls + 1

Start(c, ops) == work' = [work EXCEPT ![c] = ops] /\ UNCHANGED <<task, queue, load, enabled, guard>>

\* POST /tasks/:id/status
SetStatus(c, t, to) == /\ to \in SetTargets
                       /\ Request(c, "set")
                       /\ Start(c, <<Transition(t, to, FALSE)>>)

\* POST /tasks/:id/review: the status is checked before, not with, the transition.
HandleReview(c, t) ==
    /\ ~task[t].deleted /\ task[t].status = "review"
    /\ \/ Request(c, "approve") /\ Start(c, <<Transition(t, "done", FALSE)>>)
       \/ Request(c, "reject") /\ Start(c, <<Transition(t, "in_progress", FALSE)>>)

\* An agent reports completion.  One that carries a result summary comes from
\* UpdateQueueStatus, which leaves alone a task that holds back dispatches; one
\* without may come from the tool update_task_status, which does not look at them.
MarkCompleted(c, t, summary) == /\ Request(c, "complete")
                                /\ summary => task[t].pending = <<>>
                                /\ Start(c, <<Transition(t, "completed", summary)>>)

\* SafetyGuard.checkStuckTasks: the timeout may have passed for any task in progress.
checkStuckTasks(c, t) == /\ ~task[t].deleted /\ task[t].status = "in_progress"
                         /\ Request(c, "safety")
                         /\ Start(c, <<Transition(t, "stuck", FALSE)>>)

Delete(c, t) == /\ Request(c, "delete")
                /\ ~task[t].deleted
                /\ task' = [task EXCEPT ![t].deleted = TRUE]
                /\ UNCHANGED <<queue, load, enabled, guard, work>>

Restore(c, t) == /\ Request(c, "restore")
                 /\ task[t].deleted
                 /\ task' = [task EXCEPT ![t].deleted = FALSE]
                 /\ UNCHANGED <<queue, load, enabled, guard, work>>

\* The server dies with every goroutine, and main() starts it again: the
\* loads that are not zero are recomputed from the queue.
Restart ==
    /\ "restart" \in Kinds /\ calls < MaxCalls
    /\ calls' = calls + 1
    /\ work' = [c \in Callers |-> <<>>]
    /\ guard' = {}
    /\ load' = [a \in Agents |->
                  IF load[a] > 0
                  THEN Cardinality({i \in DOMAIN queue : queue[i].agent = a /\ Active(queue[i])})
                  ELSE load[a]]
    /\ UNCHANGED <<task, queue, enabled>>

Requests ==
    \E c \in Callers, t \in Tasks :
       \/ \E to \in UserStatuses : SetStatus(c, t, to)
       \/ HandleReview(c, t)
       \/ \E summary \in BOOLEAN : MarkCompleted(c, t, summary)
       \/ checkStuckTasks(c, t)
       \/ Delete(c, t)
       \/ Restore(c, t)

Environment == Requests \/ Restart

Init == /\ task = InitRow
        /\ queue = <<>>
        /\ load = [a \in Agents |-> 0]
        /\ enabled = EnabledAgents
        /\ guard = {}
        /\ work = [c \in Callers |-> <<>>]
        /\ calls = 0

Next == Environment \/ \E c \in Callers : ServiceStep(c)

\* The Go scheduler runs every goroutine that can run; no request is promised.
Fairness == \A c \in Callers : WF_vars(ServiceStep(c))

Spec == Init /\ [][Next]_vars
FairSpec == Spec /\ Fairness

-----------------------------------------------------------------------------
(* Properties.                                                             *)

Quiet == \A c \in Callers : work[c] = <<>>

ActiveEntries(t, a) ==
    {i \in DOMAIN queue : queue[i].task = t /\ queue[i].agent = a /\ Active(queue[i])}

\* The type of the database rows, of the re-entrancy guard and of every
\* operation a goroutine of TaskService, ReviewRouter and DAGEngine may hold.
TypeOK == /\ task \in [Tasks -> Rows]
          /\ queue \in Seq(Entries)
          /\ load \in [Agents -> Nat]
          /\ enabled \in SUBSET Agents
          /\ guard \in SUBSET Tasks
          /\ work \in [Callers -> Seq(Ops)]
          /\ calls \in Nat

Board == INSTANCE TaskBoard WITH status  <- [t \in Tasks |-> task[t].status],
                                 trashed <- {t \in Tasks : task[t].deleted}

\* However many requests race, and however stale the snapshots they decide on,
\* what is written to the status column is one transition of the table in
\* transitionValid at a time, and never to a task in the trash: the compare
\* and set of writeStatus makes TaskService implement TaskBoard.
ImplementsBoard == Board!BoardSpec

\* No write stores "completed": resolveCompletionTarget runs before writeStatus
\* on every path, retries, rules and the DAG engine included.
CompletedNeverStored == \A t \in Tasks : task[t].status # "completed"

\* Every request comes to an end: TransitionStatus gives up after three lost
\* races, and the recursion through OnTaskCompleted, the parents and the
\* rules is finite.
CallsTerminate == \A c \in Callers : []<>(work[c] = <<>>)

Leaves(t) == UNION {{<<c, i>> : i \in {j \in DOMAIN work[c] : work[c][j] = On("leave", t)}} :
                      c \in Callers}

\* The re-entrancy guard is neither leaked nor shared: a task is marked as
\* being handled exactly while one goroutine, and only one, still has to run
\* the deferred unlock of its OnTaskCompleted, across recursion and restarts.
GuardHeld == \A t \in Tasks : /\ t \in guard <=> Leaves(t) # {}
                              /\ \A x, y \in Leaves(t) : x = y

\* When no request is running, a task whose dependencies are all satisfied is
\* not left blocked: gatherDAGTransitions of the last of them to finish sees
\* the others, however their completions interleave.
NoLostUnblock ==
    Quiet => \A t \in Tasks :
               task[t].status = "blocked" /\ ~task[t].deleted /\ DependsOn[t] # {}
                 => \E d \in DependsOn[t] : ~ready(d)

Children(p) == {s \in Tasks : Parent[s] = p}

\* When no request is running, a parent whose children are all done or in
\* review is not left in progress: checkParentAutoCloseLocked closes it for
\* the last child to finish.
ParentCloses ==
    Quiet => \A p \in Tasks :
               Children(p) # {} /\ (\A s \in Children(p) : ready(s))
                 => task[p].status # "in_progress"

\* A task is never queued twice for the same agent: tryAutoDispatch and
\* createReviewQueue look for an active entry before they insert one.
OneActiveEntry == \A t \in Tasks, a \in Agents : Cardinality(ActiveEntries(t, a)) <= 1
=============================================================================
