----------------------------- MODULE AgentTools -----------------------------
(***************************************************************************)
(* The tools an agent calls and the decomposition of a task: an agent      *)
(* proposes a plan of sub-tasks, or adds to one by create_sub_task, and a  *)
(* user approves or rejects it.  No handler holds a lock or a transaction: *)
(* a statement on the database is a step, and any two calls interleave.    *)
(*                                                                         *)
(* Other handlers move the status of a task as TaskStatus allows (Board);  *)
(* MarkBlocked, MarkReview and MarkInProgress of TaskService are the same  *)
(* move, refused where the table has no such transition.                   *)
(***************************************************************************)
EXTENDS TaskStatus, Sequences, FiniteSets, Integers

CONSTANTS
    Agents, NoAgent,  \* agent profiles; NoAgent: a user, or nobody
    Titles, NoTitle,  \* the titles of plan items; within a plan they are unique
    Unknown,          \* a text that names no item of the plan
    Callers,          \* the goroutines of requests
    Capabilities,     \* Capabilities[a]: the tools profile a declares
    Proposals,        \* the item lists an agent may propose: [title -> [agent, deps]]
    MaxDepth,         \* max_depth of a task
    InitTasks, InitPlans,  \* the tables to begin with: a sequence, a set of sequences
    MaxTasks, MaxPlans, MaxCalls, MaxFaults  \* bounds

Tools == {"propose_decomposition_plan", "create_sub_task", "assign_task", "update_task_status"}
Items == [agent : Agents \cup {NoAgent}, deps : SUBSET (Titles \cup {Unknown})]

ItemRows == [agent : Agents \cup {NoAgent}, deps : SUBSET (Titles \cup {Unknown}),
             approved : {"absent", "undecided", "yes", "no"}, real : Nat]
PlanRows == [task : Nat, status : {"pending", "approved", "rejected", "failed"}, errors : Nat,
             items : [Titles -> ItemRows]]
TaskRows == [status : Statuses \ {"completed"}, parent : Nat, agent : Agents \cup {NoAgent}, depth : Nat,
             inWorkflow : BOOLEAN, gate : [sub : Nat, agent : Agents \cup {NoAgent}],
             plan : Nat, title : Titles \cup {NoTitle}, by : Nat]    \* history: item and call that made it

\* The tables to begin with are such as other calls have left them: no sub-task of
\* a plan, no plan that had to end, and one that waits.
InitTasksOK ==
    /\ InitTasks \in Seq(TaskRows)
    /\ \A t \in DOMAIN InitTasks : /\ InitTasks[t].parent \in 0..(t - 1) /\ InitTasks[t].plan = 0
                                 /\ InitTasks[t].gate.sub \in 0..Len(InitTasks)
InitPlansOK(s) ==
    /\ s \in Seq(PlanRows)
    /\ \A p \in DOMAIN s : /\ s[p].task \in DOMAIN InitTasks
                         /\ s[p].errors < 3
                         /\ \A x \in Titles : s[p].items[x].approved # "yes" /\ s[p].items[x].real = 0
    /\ \A p, q \in DOMAIN s : s[p].status = "pending" /\ s[q].status = "pending"
                              /\ s[p].task = s[q].task => p = q

ASSUME ToolsAssumption ==
    /\ NoAgent \notin Agents /\ NoTitle \notin Titles /\ Unknown \notin Titles
    /\ Capabilities \in [Agents -> SUBSET Tools]
    /\ \A f \in Proposals : DOMAIN f \subseteq Titles /\ f \in [DOMAIN f -> Items]
    /\ {MaxDepth, MaxTasks, MaxPlans, MaxCalls, MaxFaults} \subseteq Nat
    /\ IsFiniteSet(Titles) /\ IsFiniteSet(Callers) /\ Callers # {}
    /\ InitTasksOK /\ \A s \in InitPlans : InitPlansOK(s)

VARIABLES
    task,      \* the table tasks: task[i] is the i-th that was created
    edges,     \* the table task_dependencies: <<task, depends on>>
    plans,     \* the tables decomposition_plans and decomposition_plan_items
    queue,     \* the entries that these handlers put into task_agent_queue
    load,      \* load[a]: current_load
    spent,     \* the workflow has used its token budget
    call,      \* call[g]: the request that goroutine g runs
    calls, faults,
    astray     \* history: the plans whose approval was repeated while one ran, or cut short

tables == <<task, edges, plans, queue, load, spent>>
vars == <<tables, call, calls, faults, astray>>

NoGate == [sub |-> 0, agent |-> NoAgent]
NewTask(parent, agent, depth, plan, title, by) ==
    [status |-> "todo", parent |-> parent, agent |-> agent, depth |-> depth,
     inWorkflow |-> FALSE, gate |-> NoGate, plan |-> plan, title |-> title, by |-> by]
NoItem == [agent |-> NoAgent, deps |-> {}, approved |-> "absent", real |-> 0]
NewPlan(t) == [task |-> t, status |-> "pending", errors |-> 0, items |-> [x \in Titles |-> NoItem]]

Idle == [pc |-> "idle", agent |-> NoAgent, task |-> 0, depth |-> 0, plan |-> 0, title |-> NoTitle,
         to |-> NoAgent, items |-> [x \in {} |-> NoItem], todo |-> {}, made |-> [x \in Titles |-> 0],
         sub |-> 0, by |-> 0]

At(g, pc) == call[g].pc = pc
Goto(g, pc) == call' = [call EXCEPT ![g].pc = pc]
Return(g) == call' = [call EXCEPT ![g] = Idle]
Request == calls < MaxCalls /\ calls' = calls + 1
Run(g, c) == /\ At(g, "idle") /\ Request
             /\ call' = [call EXCEPT ![g] = c]
Step == UNCHANGED <<calls, faults>>

Rows == DOMAIN task
ItemsOf(p) == {x \in Titles : plans[p].items[x].approved # "absent"}
Pending(t) == {p \in DOMAIN plans : plans[p].task = t /\ plans[p].status = "pending"}

\* What get_task_detail and list_sub_tasks show of a task.
GetDependencies(t) == {e[2] : e \in {d \in edges : d[1] = t}}
listSubTasks(t) == {s \in Rows : task[s].parent = t}

\* MarkBlocked, MarkReview, MarkInProgress: an error is logged and ignored.
Mark(t, status) ==
    IF transitionValid(task[t].status, status) THEN [task EXCEPT ![t].status = status] ELSE task

\* SetTaskBlocked: only a task that is still "todo", and only with a dependency.
SetTaskBlocked(t) ==
    IF task[t].status = "todo" /\ GetDependencies(t) # {}
    THEN [task EXCEPT ![t].status = "blocked"] ELSE task

CreateDependency(t, on) == edges \cup ({<<t, on>>} \ {<<t, t>>})

\* The task and its ancestors: a parent is created before its sub-tasks.
Ancestry(t) ==
    LET above[u \in 0..Len(task)] == IF u = 0 THEN {} ELSE {u} \cup above[task[u].parent]
    IN  above[t]
isCircularDelegation(t, a) == \E u \in Ancestry(t) : task[u].agent = a

\* An entry for an agent whose profile exists and is enabled, and its load.
Enqueue(t, a) == /\ queue' = Append(queue, [task |-> t, agent |-> a])
                 /\ load' = [load EXCEPT ![a] = @ + 1]

-----------------------------------------------------------------------------
(* The policy, and the context it is given.                                *)

\* Check: the tool is declared, the depth is left, the budget is not spent.
Check(a, tool, t) ==
    /\ tool \in Capabilities[a]
    /\ tool = "create_sub_task" => task[t].depth < MaxDepth
    /\ ~(task[t].inWorkflow /\ spent)

\* ReportTokenUsage, until the budget is reached.
ReportTokenUsage(t) ==
    /\ Request /\ task[t].inWorkflow /\ ~spent
    /\ spent' = TRUE
    /\ UNCHANGED <<task, edges, plans, queue, load, call, faults, astray>>

-----------------------------------------------------------------------------
(* propose_decomposition_plan.                                             *)

proposePlan(g, a, t, items) ==
    /\ Run(g, [Idle EXCEPT !.pc = "cancel", !.agent = a, !.task = t, !.items = items])
    /\ Check(a, "propose_decomposition_plan", t)
    /\ task[t].status \in {"in_progress", "todo"}
    /\ ~\E p \in DOMAIN plans : plans[p].task = t /\ plans[p].status = "approved"
    /\ UNCHANGED <<tables, faults, astray>>

\* Mutant: the plans that wait stay.
keepPending(g) ==
    /\ At(g, "cancel")
    /\ Goto(g, "insertPlan")
    /\ UNCHANGED <<tables, astray>> /\ Step

cancelPending(g) ==
    /\ At(g, "cancel")
    /\ plans' = [p \in DOMAIN plans |-> IF p \in Pending(call[g].task)
                                        THEN [plans[p] EXCEPT !.status = "rejected"] ELSE plans[p]]
    /\ Goto(g, "insertPlan")
    /\ UNCHANGED <<task, edges, queue, load, spent, astray>> /\ Step

\* Also the plan that create_sub_task opens.
insertPlan(g) ==
    /\ At(g, "insertPlan") /\ Len(plans) < MaxPlans
    /\ plans' = Append(plans, NewPlan(call[g].task))
    /\ call' = [call EXCEPT ![g].plan = Len(plans) + 1,
                            ![g].pc = IF call[g].title = NoTitle THEN "insertItem" ELSE "validate",
                            ![g].todo = DOMAIN call[g].items]
    /\ UNCHANGED <<task, edges, queue, load, spent, astray>> /\ Step

\* One statement per item; a title the plan already has is refused, and not missed.
insertItem(g) ==
    /\ At(g, "insertItem")
    /\ \E x \in call[g].todo :
         /\ LET item == [agent |-> call[g].items[x].agent, deps |-> call[g].items[x].deps,
                         approved |-> "undecided", real |-> 0]
            IN  plans' = IF x \in ItemsOf(call[g].plan) THEN plans
                         ELSE [plans EXCEPT ![call[g].plan].items[x] = item]
         /\ IF call[g].todo = {x} THEN Return(g) ELSE call' = [call EXCEPT ![g].todo = @ \ {x}]
    /\ UNCHANGED <<task, edges, queue, load, spent, astray>> /\ Step

-----------------------------------------------------------------------------
(* create_sub_task.  Called for the task the agent works on, it adds an    *)
(* item to a pending plan; otherwise it creates the sub-task.  A task that *)
(* is assigned to nobody makes the handler panic before it writes.  The    *)
(* entry at once is for calls without a task, which no client can make.    *)

Decomposes(a, t) == task[t].agent = a /\ task[t].status \in {"in_progress", "todo", "review"}

planSubTask(g, a, t, x, item) ==
    /\ Run(g, [Idle EXCEPT !.pc = "findPlan", !.agent = a, !.task = t, !.title = x,
                           !.items = [y \in {x} |-> item]])
    /\ Check(a, "create_sub_task", t) /\ Decomposes(a, t)
    /\ UNCHANGED <<tables, faults, astray>>

findPlan(g) ==
    /\ At(g, "findPlan")
    /\ \/ Pending(call[g].task) = {} /\ Goto(g, "insertPlan")
       \/ \E p \in Pending(call[g].task) :
            call' = [call EXCEPT ![g].plan = p, ![g].pc = "validate", ![g].todo = {call[g].title}]
    /\ UNCHANGED <<tables, astray>> /\ Step

\* A title that the plan has ends the call; ids that are not items of it are counted.
validateItem(g) ==
    /\ At(g, "validate")
    /\ LET known == ItemsOf(call[g].plan)
           deps == call[g].items[call[g].title].deps
       IN  \/ call[g].title \in known /\ Return(g)
           \/ call[g].title \notin known /\ deps \subseteq known /\ Goto(g, "insertItem")
           \/ call[g].title \notin known /\ ~(deps \subseteq known) /\ Goto(g, "countError")
    /\ UNCHANGED <<tables, astray>> /\ Step

countError(g) ==
    /\ At(g, "countError")
    /\ plans' = [plans EXCEPT ![call[g].plan].errors = @ + 1]
    /\ Goto(g, "readErrors")
    /\ UNCHANGED <<task, edges, queue, load, spent, astray>> /\ Step

\* Mutant: the limit is one off.
readErrorsLate(g) ==
    /\ At(g, "readErrors")
    /\ Goto(g, IF plans[call[g].plan].errors > 3 THEN "failPlan" ELSE "insertItem")
    /\ UNCHANGED <<tables, astray>> /\ Step

\* Below the limit the item is added, with the ids that name nothing.
readErrors(g) ==
    /\ At(g, "readErrors")
    /\ Goto(g, IF plans[call[g].plan].errors >= 3 THEN "failPlan" ELSE "insertItem")
    /\ UNCHANGED <<tables, astray>> /\ Step

\* Also where ApprovePlan finds a dependency that is not among the items.
failPlan(g) ==
    /\ At(g, "failPlan")
    /\ plans' = [plans EXCEPT ![call[g].plan].status = "failed"]
    /\ Goto(g, "blockParent")
    /\ UNCHANGED <<task, edges, queue, load, spent, astray>> /\ Step

blockParent(g) ==
    /\ At(g, "blockParent")
    /\ task' = Mark(call[g].task, "blocked")
    /\ Return(g)
    /\ UNCHANGED <<edges, plans, queue, load, spent, astray>> /\ Step

createSubTask(g, a, t, to, deps) ==
    /\ Run(g, [Idle EXCEPT !.pc = "insertTask", !.agent = a, !.task = t, !.depth = task[t].depth,
                           !.to = to, !.todo = deps, !.by = calls + 1])
    /\ Check(a, "create_sub_task", t) /\ ~Decomposes(a, t) /\ task[t].agent # NoAgent
    /\ UNCHANGED <<tables, faults, astray>>

insertTask(g) ==
    /\ At(g, "insertTask") /\ Len(task) < MaxTasks
    /\ LET c == call[g]
       IN  /\ task' = Append(task, [NewTask(c.task, c.to, c.depth + 1, 0, NoTitle, c.by) EXCEPT
                                      !.inWorkflow = task[c.task].inWorkflow])
           /\ call' = [call EXCEPT ![g].pc = IF c.todo = {} THEN "gate" ELSE "link",
                                   ![g].sub = Len(task) + 1]
    /\ UNCHANGED <<edges, plans, queue, load, spent, astray>> /\ Step

\* Nothing depends on a new task: WouldCreateCycle does not refuse one of its own.
linkTask(g) ==
    /\ At(g, "link")
    /\ \E u \in call[g].todo :
         /\ edges' = CreateDependency(call[g].sub, u)
         /\ call' = [call EXCEPT ![g].todo = @ \ {u},
                                 ![g].pc = IF call[g].todo = {u} THEN "hold" ELSE @]
    /\ UNCHANGED <<task, plans, queue, load, spent, astray>> /\ Step

holdTask(g) ==
    /\ At(g, "hold")
    /\ task' = SetTaskBlocked(call[g].sub)
    /\ Goto(g, "gate")
    /\ UNCHANGED <<edges, plans, queue, load, spent, astray>> /\ Step

\* The dispatch to another agent waits for a review of the parent, and replaces
\* what waited there.  After an error the sub-task stays.
gateSubTask(g) ==
    /\ At(g, "gate")
    /\ LET c == call[g]
           refused == c.to = c.agent \/ isCircularDelegation(c.task, c.to)
       IN  \/ /\ c.to = NoAgent \/ refused
              /\ Return(g) /\ UNCHANGED task
           \/ /\ c.to # NoAgent /\ ~refused
              /\ task' = [task EXCEPT ![c.task].gate = [sub |-> c.sub, agent |-> c.to]]
              /\ Goto(g, "review")
    /\ UNCHANGED <<edges, plans, queue, load, spent, astray>> /\ Step

reviewParent(g) ==
    /\ At(g, "review")
    /\ task' = Mark(call[g].task, "review")
    /\ Return(g)
    /\ UNCHANGED <<edges, plans, queue, load, spent, astray>> /\ Step

-----------------------------------------------------------------------------
(* assign_task and update_task_status.                                     *)

assignTask(g, a, t, to) ==
    /\ Run(g, [Idle EXCEPT !.pc = "assign", !.agent = a, !.task = t, !.to = to])
    /\ Check(a, "assign_task", t)
    /\ to # a /\ ~isCircularDelegation(t, to)
    /\ UNCHANGED <<tables, faults, astray>>

\* The status is written directly, whatever it was.
assignAgent(g) ==
    /\ At(g, "assign")
    /\ task' = [task EXCEPT ![call[g].task].agent = call[g].to, ![call[g].task].status = "review"]
    /\ Goto(g, "gateAssign")
    /\ UNCHANGED <<edges, plans, queue, load, spent, astray>> /\ Step

gateAssign(g) ==
    /\ At(g, "gateAssign")
    /\ task' = [task EXCEPT ![call[g].task].gate = [sub |-> 0, agent |-> call[g].to]]
    /\ Return(g)
    /\ UNCHANGED <<edges, plans, queue, load, spent, astray>> /\ Step

assignUser(a, t) ==
    /\ Request /\ Check(a, "assign_task", t)
    /\ task' = [task EXCEPT ![t].agent = NoAgent]
    /\ UNCHANGED <<edges, plans, queue, load, spent, call, faults, astray>>

\* "done" asks for "completed".  The load of the agent goes down once per call that
\* reports an end.
updateStatus(g, a, t, status) ==
    LET asked == IF status = "done" THEN "completed" ELSE status
        ends == asked \in {"completed", "blocked", "review"}
    IN  /\ Check(a, "update_task_status", t)
        /\ transitionValid(task[t].status, asked)
        /\ Run(g, IF ends THEN [Idle EXCEPT !.pc = "unload", !.agent = a] ELSE Idle)
        /\ \E to \in IF asked = "completed" THEN {"done", "review"} ELSE {asked} :
             task' = [task EXCEPT ![t].status = to]
        /\ UNCHANGED <<edges, plans, queue, load, spent, faults, astray>>

unloadAgent(g) ==
    /\ At(g, "unload")
    /\ load' = [load EXCEPT ![call[g].agent] = IF @ = 0 THEN 0 ELSE @ - 1]
    /\ Return(g)
    /\ UNCHANGED <<task, edges, plans, queue, spent, astray>> /\ Step

-----------------------------------------------------------------------------
(* ApprovePlan and RejectPlan.                                             *)

Approving(g) == call[g].pc \in {"readItems", "makeTask", "linkItem", "holdItem", "markItem", "approvePlan"}

\* The pending plan that was created last.  created_at is when its call began: of
\* two that wait, either may be the last.  sel: the items the user names, or none.
ApprovePlan(g, t, sel) ==
    /\ \E p \in Pending(t) :
         /\ Run(g, [Idle EXCEPT !.pc = "readItems", !.task = t, !.plan = p, !.todo = sel,
                                !.by = calls + 1])
         /\ astray' = IF \E h \in Callers : Approving(h) /\ call[h].plan = p THEN astray \cup {p} ELSE astray
    /\ UNCHANGED <<tables, faults>>

\* Every dependency has to be among the items that are approved together.
readItems(g) ==
    /\ At(g, "readItems")
    /\ LET items == plans[call[g].plan].items
           chosen == IF call[g].todo # {} THEN call[g].todo \cap ItemsOf(call[g].plan)
                     ELSE {x \in Titles : items[x].approved = "undecided"}
           sound == \A x \in chosen : items[x].deps \subseteq chosen
       IN  \/ chosen = {} /\ Return(g)
           \/ /\ chosen # {}
              /\ call' = [call EXCEPT ![g].pc = IF sound THEN "makeTask" ELSE "failPlan",
                                      ![g].items = [x \in chosen |-> [agent |-> items[x].agent,
                                                                      deps |-> items[x].deps]],
                                      ![g].todo = chosen]
    /\ UNCHANGED <<tables, astray>> /\ Step

\* Phase 1 inserts the sub-tasks; an item whose INSERT fails is left out.
makeTask(g) ==
    /\ At(g, "makeTask")
    /\ LET c == call[g]
       IN  \E x \in c.todo :
             \/ /\ Len(task) < MaxTasks
                /\ task' = Append(task, NewTask(c.task, c.items[x].agent, task[c.task].depth + 1,
                                                c.plan, x, c.by))
                /\ call' = [call EXCEPT ![g].todo = @ \ {x}, ![g].made[x] = Len(task) + 1]
                /\ UNCHANGED faults
             \/ /\ faults < MaxFaults /\ faults' = faults + 1
                /\ call' = [call EXCEPT ![g].todo = @ \ {x}]
                /\ UNCHANGED task
    /\ UNCHANGED <<edges, plans, queue, load, spent, calls, astray>>

\* Phase 2 goes through the sub-tasks that exist, with their ids in memory.
Made(c) == {x \in Titles : c.made[x] # 0}
phaseTwo(g) ==
    /\ At(g, "makeTask") /\ call[g].todo = {}
    /\ call' = [call EXCEPT ![g].todo = Made(call[g]),
                            ![g].pc = IF Made(call[g]) = {} THEN "approvePlan" ELSE "linkItem"]
    /\ UNCHANGED <<tables, astray>> /\ Step

\* Mutant: the ids are those of the table of the items.
linkStored(g) ==
    /\ At(g, "linkItem")
    /\ \E x \in call[g].todo :
         LET c == call[g]
             stored == [y \in Made(c) |-> IF plans[c.plan].items[y].real = 0 THEN c.made[y]
                                                ELSE plans[c.plan].items[y].real]
         IN  /\ edges' = edges \cup {<<c.made[x], stored[y]>> : y \in (c.items[x].deps \cap DOMAIN stored) \ {x}}
             /\ call' = [call EXCEPT ![g].pc = "holdItem", ![g].title = x]
    /\ UNCHANGED <<task, plans, queue, load, spent, astray>> /\ Step

linkItem(g) ==
    /\ At(g, "linkItem")
    /\ \E x \in call[g].todo :
         LET c == call[g]
         IN  /\ edges' = edges \cup UNION {CreateDependency(c.made[x], c.made[y]) :
                                             y \in c.items[x].deps \cap Made(c)}
             /\ call' = [call EXCEPT ![g].pc = "holdItem", ![g].title = x]
    /\ UNCHANGED <<task, plans, queue, load, spent, astray>> /\ Step

\* Mutant: the edges that were made decide, and not the item.
holdUnlinked(g) ==
    /\ At(g, "holdItem")
    /\ LET c == call[g]
           sub == c.made[c.title]
           waits == GetDependencies(sub) # {}
       IN  /\ task' = IF waits THEN SetTaskBlocked(sub) ELSE task
           /\ \/ ~waits /\ c.items[c.title].agent # NoAgent /\ Enqueue(sub, c.items[c.title].agent)
              \/ (waits \/ c.items[c.title].agent = NoAgent) /\ UNCHANGED <<queue, load>>
    /\ Goto(g, "markItem")
    /\ UNCHANGED <<edges, plans, spent, astray>> /\ Step

\* An item with dependencies waits; one without goes to its agent, unless its profile is
\* missing or disabled by now.
holdItem(g) ==
    /\ At(g, "holdItem")
    /\ LET c == call[g]
           sub == c.made[c.title]
           waits == c.items[c.title].deps # {}
       IN  /\ task' = IF waits THEN SetTaskBlocked(sub) ELSE task
           /\ \/ ~waits /\ c.items[c.title].agent # NoAgent /\ Enqueue(sub, c.items[c.title].agent)
              \/ UNCHANGED <<queue, load>>
    /\ Goto(g, "markItem")
    /\ UNCHANGED <<edges, plans, spent, astray>> /\ Step

NextItem(g) == call' = [call EXCEPT ![g].todo = @ \ {call[g].title},
                                    ![g].pc = IF call[g].todo = {call[g].title} THEN "approvePlan" ELSE "linkItem"]

\* Mutant: the sub-task of the item is not written.
markOnly(g) ==
    /\ At(g, "markItem")
    /\ plans' = [plans EXCEPT ![call[g].plan].items[call[g].title].approved = "yes"]
    /\ NextItem(g)
    /\ UNCHANGED <<task, edges, queue, load, spent, astray>> /\ Step

markItem(g) ==
    /\ At(g, "markItem")
    /\ LET c == call[g]
           item == [plans[c.plan].items[c.title] EXCEPT !.approved = "yes", !.real = c.made[c.title]]
       IN  plans' = [plans EXCEPT ![c.plan].items[c.title] = item]
    /\ NextItem(g)
    /\ UNCHANGED <<task, edges, queue, load, spent, astray>> /\ Step

\* Mutant: the plan goes on waiting.
leavePending(g) ==
    /\ At(g, "approvePlan")
    /\ Goto(g, "blockParent")
    /\ UNCHANGED <<tables, astray>> /\ Step

\* Whatever the status of the plan has become.
approvePlan(g) ==
    /\ At(g, "approvePlan")
    /\ plans' = [plans EXCEPT ![call[g].plan].status = "approved"]
    /\ Goto(g, "blockParent")
    /\ UNCHANGED <<task, edges, queue, load, spent, astray>> /\ Step

RejectPlan(g, t) ==
    /\ \E p \in Pending(t) : Run(g, [Idle EXCEPT !.pc = "rejectPlan", !.task = t, !.plan = p])
    /\ UNCHANGED <<tables, faults, astray>>

rejectPlan(g) ==
    /\ At(g, "rejectPlan")
    /\ plans' = [plans EXCEPT ![call[g].plan].status = "rejected"]
    /\ Goto(g, "rejectItems")
    /\ UNCHANGED <<task, edges, queue, load, spent, astray>> /\ Step

\* Mutant: all the items, and not only those that are undecided.
rejectAll(g) ==
    /\ At(g, "rejectItems")
    /\ LET items == plans[call[g].plan].items
           refused(x) == IF items[x].approved = "absent" THEN items[x] ELSE [items[x] EXCEPT !.approved = "no"]
       IN  plans' = [plans EXCEPT ![call[g].plan].items = [x \in Titles |-> refused(x)]]
    /\ Goto(g, "continue")
    /\ UNCHANGED <<task, edges, queue, load, spent, astray>> /\ Step

rejectItems(g) ==
    /\ At(g, "rejectItems")
    /\ LET items == plans[call[g].plan].items
           refused(x) == IF items[x].approved = "undecided" THEN [items[x] EXCEPT !.approved = "no"] ELSE items[x]
       IN  plans' = [plans EXCEPT ![call[g].plan].items = [x \in Titles |-> refused(x)]]
    /\ Goto(g, "continue")
    /\ UNCHANGED <<task, edges, queue, load, spent, astray>> /\ Step

continueParent(g) ==
    /\ At(g, "continue")
    /\ task' = Mark(call[g].task, "in_progress")
    /\ Return(g)
    /\ UNCHANGED <<edges, plans, queue, load, spent, astray>> /\ Step

-----------------------------------------------------------------------------
(* AttachToWorkflow, the rest of the system, a crash.                      *)

AttachToWorkflow(g, t, depth, deps) ==
    /\ Run(g, [Idle EXCEPT !.pc = "attach", !.task = t, !.depth = depth, !.todo = deps])
    /\ UNCHANGED <<tables, faults, astray>>

attachTask(g) ==
    /\ At(g, "attach")
    /\ task' = [task EXCEPT ![call[g].task].inWorkflow = TRUE, ![call[g].task].depth = call[g].depth]
    /\ IF call[g].todo = {} THEN Return(g) ELSE Goto(g, "checkCycle")
    /\ UNCHANGED <<edges, plans, queue, load, spent, astray>> /\ Step

\* The graph of the workflow, from a task to those that depend on it.
Graph == {<<e[2], e[1]>> : e \in {d \in edges : task[d[1]].inWorkflow}}

\* The edge to be added is in the graph.  The search starts at the dependency, keeps the
\* nodes of its path and does not enter one of them again, and reports a cycle where it comes
\* back to the task by a path on which the task already is: the path that leads from the task
\* back to the dependency ends there, since the dependency is on it from the start.
Paths(G, from) == {p \in UNION {[1..n -> Rows] : n \in 1..Len(task)} :
                     /\ p[1] = from
                     /\ \A i, j \in DOMAIN p : p[i] = p[j] => i = j
                     /\ \A i \in 1..(Len(p) - 1) : <<p[i], p[i + 1]>> \in G}
WouldCreateCycle(t, on) ==
    LET G == Graph \cup {<<on, t>>}
    IN  \/ t = on
        \/ \E p \in Paths(G, on) : /\ \E i \in DOMAIN p : p[i] = t
                                   /\ <<p[Len(p)], t>> \in G

\* A cycle ends the call; what was attached stays.
checkCycle(g) ==
    /\ At(g, "checkCycle")
    /\ \E u \in call[g].todo :
         \/ /\ WouldCreateCycle(call[g].task, u)
            /\ Return(g)
         \/ /\ ~WouldCreateCycle(call[g].task, u)
            /\ call' = [call EXCEPT ![g].pc = "attachEdge", ![g].sub = u]
    /\ UNCHANGED <<tables, astray>> /\ Step

attachEdge(g) ==
    /\ At(g, "attachEdge")
    /\ edges' = CreateDependency(call[g].task, call[g].sub)
    /\ call' = [call EXCEPT ![g].todo = @ \ {call[g].sub},
                            ![g].pc = IF call[g].todo = {call[g].sub} THEN "blockAttached" ELSE "checkCycle"]
    /\ UNCHANGED <<task, plans, queue, load, spent, astray>> /\ Step

blockAttached(g) ==
    /\ At(g, "blockAttached")
    /\ task' = SetTaskBlocked(call[g].task)
    /\ Return(g)
    /\ UNCHANGED <<edges, plans, queue, load, spent, astray>> /\ Step

\* TaskService, for anyone else.
Board(t) ==
    /\ Request
    /\ \E to \in Statuses : StatusMove(task[t].status, to) /\ task' = [task EXCEPT ![t].status = to]
    /\ UNCHANGED <<edges, plans, queue, load, spent, call, faults, astray>>

\* The server dies: the calls end where they are.
Crash ==
    /\ faults < MaxFaults /\ faults' = faults + 1
    /\ \E g \in Callers : ~At(g, "idle")
    /\ call' = [g \in Callers |-> Idle]
    /\ astray' = astray \cup {call[g].plan : g \in Callers}
    /\ UNCHANGED <<tables, calls>>

-----------------------------------------------------------------------------
ToolStep(g) ==
    \/ cancelPending(g) \/ insertPlan(g) \/ insertItem(g) \/ findPlan(g) \/ validateItem(g)
    \/ countError(g) \/ readErrors(g) \/ failPlan(g) \/ blockParent(g)
    \/ insertTask(g) \/ linkTask(g) \/ holdTask(g) \/ gateSubTask(g) \/ reviewParent(g)
    \/ assignAgent(g) \/ gateAssign(g) \/ unloadAgent(g)

DecompositionStep(g) ==
    \/ readItems(g) \/ makeTask(g) \/ phaseTwo(g) \/ linkItem(g) \/ holdItem(g) \/ markItem(g)
    \/ approvePlan(g) \/ rejectPlan(g) \/ rejectItems(g) \/ continueParent(g)
    \/ attachTask(g) \/ checkCycle(g) \/ attachEdge(g) \/ blockAttached(g)

ToolCall(g, a, t) ==
    \/ \E items \in Proposals : proposePlan(g, a, t, items)
    \/ \E items \in Proposals : \E x \in DOMAIN items : planSubTask(g, a, t, x, items[x])
    \/ \E to \in Agents \cup {NoAgent}, deps \in {{}} \cup {{u} : u \in Rows \ {t}} :
         createSubTask(g, a, t, to, deps)
    \/ \E to \in Agents : assignTask(g, a, t, to)
    \/ \E status \in Statuses \ {"stuck"} : updateStatus(g, a, t, status)

UserCall(g, t) ==
    \/ \E sel \in {{}} \cup {{x} : x \in Titles} : ApprovePlan(g, t, sel)
    \/ RejectPlan(g, t)
    \/ \E depth \in {0, MaxDepth}, deps \in {{}} \cup {{u} : u \in Rows} : AttachToWorkflow(g, t, depth, deps)

Init ==
    /\ task = InitTasks
    /\ edges = {} /\ queue = <<>> /\ spent = FALSE
    /\ plans \in InitPlans
    /\ load = [a \in Agents |-> 0]
    /\ call = [g \in Callers |-> Idle]
    /\ calls = 0 /\ faults = 0
    /\ astray = {}

Next ==
    \/ \E g \in Callers : \/ ToolStep(g) \/ DecompositionStep(g)
                          \/ \E t \in Rows : UserCall(g, t) \/ \E a \in Agents : ToolCall(g, a, t)
    \/ \E t \in Rows : \/ Board(t) \/ ReportTokenUsage(t)
                       \/ \E a \in Agents : assignUser(a, t)
    \/ Crash

Spec == Init /\ [][Next]_vars

-----------------------------------------------------------------------------
(* Properties.                                                             *)

Lists == UNION {[some -> Items] : some \in SUBSET Titles}
Pcs == {"idle", "cancel", "insertPlan", "insertItem", "findPlan", "validate", "countError",
        "readErrors", "failPlan", "blockParent", "insertTask", "link", "hold", "gate", "review",
        "assign", "gateAssign", "unload", "readItems", "makeTask", "linkItem", "holdItem",
        "markItem", "approvePlan", "rejectPlan", "rejectItems", "continue", "attach",
        "checkCycle", "attachEdge", "blockAttached"}
Calls == [pc : Pcs,
          agent : Agents \cup {NoAgent}, task : Nat, depth : Nat, plan : Nat,
          title : Titles \cup {NoTitle}, to : Agents \cup {NoAgent}, items : Lists,
          todo : SUBSET (Titles \cup Nat), made : [Titles -> Nat], sub : Nat, by : Nat]

\* The type of the tables and of the calls: what they refer to exists, and an item
\* that is approved has its sub-task.
PlanTypeOK ==
    /\ task \in Seq(TaskRows)
    /\ \A t \in Rows : task[t].parent \in 0..(t - 1) /\ task[t].gate.sub \in {0} \cup Rows
    /\ edges \subseteq Rows \X Rows
    /\ plans \in Seq(PlanRows)
    /\ \A p \in DOMAIN plans :
         /\ plans[p].task \in Rows
         /\ \A x \in Titles : LET item == plans[p].items[x]
                              IN  /\ item.real \in {0} \cup Rows
                                  /\ item.approved = "yes" => item.real # 0
    /\ queue \in Seq([task : Rows, agent : Agents])
    /\ load \in [Agents -> Nat] /\ spent \in BOOLEAN
    /\ call \in [Callers -> Calls]
    /\ calls \in 0..MaxCalls /\ faults \in 0..MaxFaults
    /\ astray \subseteq 0..Len(plans)

Quiet == \A g \in Callers : At(g, "idle")

\* However two approvals of a plan overlap, each builds a graph of its own: the
\* sub-tasks of one never wait for those of another, until a user attaches them.
GraphsApart ==
    \A t \in Rows : \A s \in listSubTasks(t) : \A u \in GetDependencies(s) :
       task[s].plan # 0 /\ task[u].plan # 0 /\ ~task[s].inWorkflow => task[s].by = task[u].by

\* What was approved stays approved, and keeps a sub-task, whatever a rejection or
\* a new plan does at the same time.
ApprovedIsFinal ==
    [][\A p \in DOMAIN plans, x \in Titles :
         plans[p].items[x].approved = "yes" => /\ plans'[p].items[x].approved = "yes"
                                               /\ plans'[p].items[x].real # 0]_plans

\* When no call is running, every sub-task that an approval made is the sub-task of
\* its item, so that no item has two; unless the plan was approved again before the
\* first approval was over, or a crash cut one short.
OneTaskPerItem ==
    Quiet => \A t \in Rows : \A s \in listSubTasks(t) :
               task[s].plan \notin astray \cup {0} => plans[task[s].plan].items[task[s].title].real = s

\* A sub-task whose item has dependencies is never given to its agent by the
\* approval, even where the dependency could not be created.
QueuedIsReady ==
    \A i \in DOMAIN queue :
       LET t == task[queue[i].task]
       IN  t.plan # 0 => plans[t.plan].items[t.title].deps = {}

\* Three calls with invalid dependencies end a plan: when no call is running, no
\* plan waits with three errors, unless a crash came between counting and looking.
BreakerHolds ==
    Quiet => \A p \in DOMAIN plans : plans[p].errors >= 3 /\ p \notin astray
                                       => plans[p].status # "pending"

\* As many plans of a task wait as calls overlapped when they were made, and not
\* more: one caller alone never leaves two.
PendingBounded ==
    \A t \in Rows :
       Cardinality(Pending(t)) + Cardinality({g \in Callers : At(g, "insertPlan") /\ call[g].task = t})
         <= Cardinality(Callers)

\* The graph of a workflow has no cycle: an edge that would close one is refused.
NoCycle ==
    \A t \in Rows : ~\E p \in Paths(edges, t) : p # <<t>> /\ <<p[Len(p)], t>> \in edges
=============================================================================
