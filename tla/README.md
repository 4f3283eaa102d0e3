# CoAether: a verification development

CoAether is a server (Go, PostgreSQL) that keeps a board of tasks, lets agents
and humans move them, and dispatches the tasks to agents that run on other
machines. This directory holds TLA+ models of its orchestration logic, the TLC
configurations that check them on small instances, and proofs that TLAPS checks
for every instance.

    tlc -workers 2 -config service_race.cfg MCTaskService.tla
    tlapm TaskService_proofs.tla
    tlapm TaskServiceGuard_proofs.tla
    tlapm TaskServiceSerial_proofs.tla
    tlapm AgentQueue_proofs.tla
    tlapm BusNodes_proofs.tla
    tlapm AgentTools_proofs.tla
    tlapm AgentProcess_proofs.tla
    tlapm PluginManager_proofs.tla

## The system

| component | state | operations | interacts with |
|---|---|---|---|
| TaskService (`handlers/task_service.go`) | `tasks.status`, `agent_loop_count` | `TransitionStatus`, the `Mark*` methods, `HandleReview`, `tryAutoDispatch` | calls ReviewRouter, DAGEngine and RuleEngine after each transition; writes the queue and the loads |
| ReviewRouter (`handlers/review_router.go`) | `tasks.pending_review_actions` | `processPendingActions`, `createReviewQueue`, notifications | called by TaskService; writes the queue and the loads |
| DAGEngine (`handlers/dag_engine.go`) | the in-memory re-entrancy guard `processing` and its mutex; `task_dependencies` | `OnTaskCompleted`, dependency creation and removal, cycle check | called by TaskService, and calls it back for dependents and parents |
| RuleEngine (`handlers/task_rule.go`) | `task_rules` | `Evaluate`: conditions, then actions | called by TaskService, and calls it back for `set_status` |
| Task handlers (`handlers/task.go`) | `tasks` | create, update, status, delete, restore; in-process execution of agents | TaskService, sessions, bus |
| Agent queue handlers (`handlers/node_agent_handler.go`, `handlers/agent_scheduler.go`) | `task_agent_queue`, `agent_profiles.current_load`, `sessions` | list, claim, update, automatic assignment, session creation | nodes poll them; they report completion to TaskService |
| Agent tools, decomposition (`handlers/workflow.go`, `handlers/decomposition.go`) | `pending_review_actions`, `decomposition_plans`, `task_dependencies` | the tools agents call; proposing, approving and rejecting plans | TaskService, DAGEngine |
| Message bus (`protocol/bus.go`, `handlers/bus_handler.go`) | endpoints, sessions, observers, all under one lock | register, unregister, create and end session, deliver, observe, garbage collection | nodes and browsers connect to it |
| Sessions, nodes (`handlers/session.go`, `handlers/node.go`) | `sessions`, `nodes`, `node_join_tokens` | create; token, start, stop, remove | the bus, and through it the runtime |
| Agent runtime (`agent-runtime/runtime.go`) | one connection, the node's secret, the context of each session | connect and reconnect, poll the queue, mentions, messages, reports | message bus, queue handlers |
| Backend (`agent-runtime/backends/claude_cli.go`) | the map of sessions to processes | start, write, permissions, close, cleaning; a reader per process | the runtime, and the processes of the agents |
| Plugin manager (`plugin/`, `handlers/plugin.go`) | the plugin table, one process per plugin, directories | install, start, stop, reload, remove, monitor | the plugins' processes |
| Harness (`harness/`) | `SafetyGuard` | policy checks, budgets, stuck tasks | the tools, TaskService |
| Workspaces, invitations, users, projects | their tables | create, read, update, delete | |
| Web interface, MCP server | none of record | clients of the HTTP API and of the bus | |

### What is hard about it

* Every HTTP request and every message runs in a goroutine of its own. Nothing
  but the database orders them, and most operations are a read, a decision and a
  write in separate statements. What a goroutine decided on may be stale when it
  writes.
* A status change triggers others: dependents, parents and rules change status
  from inside the call that changed the first task, recursively.
* The server keeps nothing of a call in progress: a crash between the status
  write and its side effects loses them.
* Three columns should agree with each other and nothing enforces it: the entries
  of the queue, the load of the agents, the status of the tasks. The loads in fact do not.
* Nodes disconnect and reconnect at any time; the bus drops what it cannot
  deliver, and the nodes poll.

### What makes each component correct

* TaskService: the status moves along the table of `transitionValid` only,
  whatever races; `completed` is a request and never a stored status; a rejected
  task stops after its limit; every call ends.
* ReviewRouter: a held-back dispatch is released once, and only after its task is done.
* DAGEngine: when nothing runs, no task with all its dependencies satisfied is
  blocked and no parent with all its children finished is open; the guard is
  held exactly while a completion is handled.
* Queue handlers: an entry is processed by one node, and reaches a terminal status.
* Plans: however approvals, rejections and proposals overlap, what is approved stays
  and each approval builds a graph of its own; nothing is given out before what it
  waits for; no cycle.
* Message bus: an endpoint belongs to a connection that is alive; the tables of nodes
  and sessions agree with the bus, after a restart of the server too; a machine finds its
  way back.
* Agent runtime: as long as it runs, the end of a process is reported, once; a live process
  can be reached; none waits for ever.
* Plugin manager: one process per plugin, a running one has somebody who will notice
  its end, and none stays between two states.

## The modules

| module | what it is |
|---|---|
| `TaskStatus` | the statuses, the transition table and the sets of statuses the SQL statements name |
| `TaskBoard` | abstract specification: what the board promises, whoever moves the tasks |
| `TaskService` | TaskService, ReviewRouter, DAGEngine, the rule actions and the requests that start them |
| `MCTaskService` | instances for TLC and three history variables |
| `TaskService_proofs` | the type, the stored statuses and the refinement of `TaskBoard`, for every instance of `TaskService` |
| `TaskServiceGuard_proofs` | the re-entrancy guard of the DAG engine, for every instance; the dispatches that a review holds back: not released before their task is done, for every instance of `MCTaskService`, nor twice, for every one in which humans only approve; dependents and parents that are not left behind, for every instance without deletions and crashes |
| `TaskServiceSerial_proofs` | the queue, the count and the limit of rejections when requests do not overlap, for every instance of `MCTaskService` with one goroutine |
| `AgentQueue` | extends `TaskService`: the queue handlers, the sessions, the poller of the node, automatic assignment, disabled agents |
| `MCAgentQueue` | instances of `AgentQueue` |
| `AgentQueue_proofs` | the type of the queue handlers and the refinement of `TaskBoard`, for every instance of `AgentQueue`; sessions and claims, for every instance whose node keeps its connection |
| `AgentTools` | the tools of agents that write, the policy check, plans, and the dependencies they create; uses `TaskStatus` |
| `MCAgentTools` | instances of `AgentTools` |
| `AgentTools_proofs` | the type and five safety properties and the action property of plans, for every instance of `AgentTools` |
| `MessageBus` | the endpoints and sessions of the bus, and the operations its mutex makes atomic |
| `BusNodes` | extends `MessageBus`: the goroutine of each connection, the runtime of each machine, tokens and secrets, the tables of nodes and sessions |
| `MCBusNodes` | instances of `BusNodes` |
| `BusNodes_proofs` | the type, the owner of every endpoint, online nodes, running and failed sessions, for every instance of `BusNodes` |
| `AgentProcess` | the runtime and the command-line backend on a node, and the processes of the agent |
| `MCAgentProcess` | an instance of `AgentProcess` |
| `AgentProcess_proofs` | the type and three safety properties, for every instance of `AgentProcess` |
| `PluginManager` | the plugins, their processes and their directories |
| `MCPluginManager` | an instance of `PluginManager` |
| `PluginManager_proofs` | the type and two safety properties, for every instance of `PluginManager` |

`AgentQueue` and `AgentProcess` meet at the queue entry: the first has every statement
of the server and a process that only ends, the second every step of the node and calls
of the server that are one step. `BusNodes` has the connection that both take for a
Boolean.

### TaskService

State:

| variable | code |
|---|---|
| `task[t]` | the row of `tasks`: `status`, `deleted_at`, agent assignee, `agent_loop_count`, `pending_review_actions`, and the statuses of its `decomposition_plans` |
| `queue` | `task_agent_queue`, in order of insertion |
| `load` | `agent_profiles.current_load` |
| `enabled` | `agent_profiles.enabled` |
| `guard` | `DAGEngine.processing` |
| `work[c]` | the call stack of goroutine `c`, as the operations that remain |
| `calls` | how many requests were made; bounded by `MaxCalls` |

What no modelled handler changes is a constant: `DependsOn`, `Parent`,
`InWorkflow`, `Behavior`, `RuleActions`, the two limits.

The call stack is explicit because it *is* the behaviour to check:
`TransitionStatus` calls `OnTaskCompleted`, which calls `TransitionStatus` for
each dependent and the parent, which may evaluate rules, which call
`TransitionStatus` again. `work[c]` is a sequence of operations; the first one
runs, and `Then(c, ops)` puts what it calls in front of what remains. One action
runs one operation, which makes one database statement or one transaction, so
that every interleaving of statements of different goroutines is explored.

| action | code |
|---|---|
| `readTaskSnapshot` | the read and the validation of `TransitionStatus` |
| `resolveCompletionTarget` | the target of a completion: plan, behaviour, sampling |
| `writeStatus` | `UPDATE ... WHERE status = <snapshot>`; three attempts, then it gives up; on success `SideEffects`, the `handleXToY` of the code |
| `tryAutoDispatch`, `createReviewQueue`, `insertQueueEntry`, `bumpLoad` | look for an active entry; insert; increment the load: three statements |
| `readPendingActions`, `processPendingActions` | the read outside and the transaction that releases the dispatches |
| `dropLoadOfTask`, `failEntriesOfTask` | the two statements of `handleReviewToDone` |
| `countLoop` | `handleReviewToInProgress` |
| `enterOnTaskCompleted`, `applyDAGTransitions`, `leaveOnTaskCompleted` | `OnTaskCompleted`: the guard, the calls to the dependents and the parent, the deferred unlock |
| `gatherDAGTransitions`, `checkDependents`, `checkSiblings`, `readParent` | the reads that go before, under the lock of the engine and one statement each: the blocked dependents, the dependencies of one of them, the siblings, the parent |
| `evaluateRules`, `assignUser` | the rules that match, in order |
| `SetStatus`, `HandleReview`, `MarkCompleted`, `checkStuckTasks`, `Delete`, `Restore` | the requests |
| `Restart` | the process dies; `main` recounts the loads |

Choices a reader should know:

* `sample_review` draws a random number; the model takes either target.
* The order in which the dependents are checked and advanced is the order of a query
  without ORDER BY; the model takes any.
* The lock of the engine (`DAGEngine.mu`) orders the goroutines that read the graph and
  nobody else: other requests write between two of the reads. `Locked` says who has it.
* `processPendingActions` checks nothing between its read and its transaction,
  and neither does the model. The transaction is one action. Two of its statements read: the
  assignee is read on another connection (`review_router.go:130`), after the transaction has
  written the row of the task, whose lock keeps it as it was; the loads to be lowered are
  those of the active entries of the task (`:139`). An entry that another goroutine commits
  between that statement and the next, which fails the entries, is failed and keeps its load;
  the model does not have this.
* `Delete` and `Restore` are one statement each and hold no goroutine.
* The tool `update_task_status` also decrements the load of the calling agent;
  that statement belongs to the module of the agent tools.

### TaskBoard and the refinement

`TaskBoard` has two variables, the status of each task and the trash, and says:
one task moves at a time, along `transitionValid`, not while it is in the trash;
a task enters and leaves the trash without moving. `TaskService` implements it
under the mapping `status <- task[t].status`, `trashed <- {t : task[t].deleted}`
(`ImplementsBoard`). It holds because the UPDATE of `writeStatus` carries the
snapshot's status in its WHERE clause, and because `completed` is resolved before
the write. Without that clause (mutant `UnmodifiedLive`), TLC finds the race.

### AgentQueue

It takes every action of `TaskService` and adds what happens to an entry of the
queue after its dispatch. `QueueNext` is the steps of `TaskService`, with the new
variables unchanged, or a step of this module; the continuations in `work` hold
the operations of both.

| variable | code |
|---|---|
| `sessions` | the table `sessions`: the entry the node was told of, `task_id`, `status` |
| `procs[s]` | what the node holds of session `s`: its context (`Runtime.sessionMeta`), and whether its process has still to report |
| `connected` | whether the node's endpoint is on the bus |
| `pollers` | the goroutines of the node that run `startQueuePoller` |

| action | code |
|---|---|
| `pollQueue`, `claim`, `ClaimQueueItem`, `startProcessing` | `Runtime.pollQueue` and `processQueueItem`, with the handlers they call: the list, the read and the write of a claim, the load (`bumpLoad`), the status `processing` and `MarkInProgress` |
| `CreateSession`, `findStale`, `supersede`, `openSession`, `deliverPrompt` | `NodeAgentHandler.CreateSession` for an entry: 404, the look for an open session, its end, the new row and `session.create`, the prompt after a pause |
| `handleSessionComplete` | the end of a process, with a result or an error, and the call that reports it |
| `settleEntry`, `lowerLoad`, `closeSessions`, `completeTask` | the statements of `UpdateQueueStatus` for `completed` and `failed` |
| `queueForReview`, `insertReview`, `autoProcessReview`, `markProcessing` | the review by the assignee of a task that another agent completed |
| `AutoAssign`, `autoProcessTask` | `AgentScheduler.AutoAssign`, and the goroutine it starts |
| `ClaimByUser`, `UpdateStatus`, `writeUpdate` | `AgentScheduler.Claim` and `UpdateStatus`, which the web interface calls: the read and the check, then the write, then the load |
| `DisableProfile`, `failEntriesOfAgent`, `zeroLoad`, `EnableProfile` | `AgentProfileHandler.Update` of the field `enabled` |
| `StopNode`, `failEntriesOfNode`, `stopRuntime` | `NodeHandler.StopNode`: profiles and loads, entries, the message; the runtime exits |
| `Disconnect`, `Reconnect` | the connection of `Runtime.Run`; each connection starts one more poller |
| `ServerRestart` | `Restart` of `TaskService`; `Migrate` fails the sessions that are open (`database.go:801-823`); the node loses its connection and its pollers the answers they wait for |

Choices:

* One node hosts all agents. The process of an agent is external: it may end at any
  time, with or without a result summary, or fail. `cmd.Start` succeeds.
* A handler that a poller calls runs in the continuation of the poller, which waits
  for it. A goroutine slot that polls may also serve a request between two polls.
* `session.create` and the prompt reach the node if it is connected when they are
  sent, and at once: the reorderings of the bus belong to its module.
* A row of `sessions` is `pending` until it is closed; nothing in the modelled
  handlers sets `running`.
* `AutoAssign` reads with `FOR UPDATE SKIP LOCKED`: while another goroutine runs it
  may pass over the least loaded agent.
* A runtime that is stopped leaves the handler that its poller had called running in the
  server, and makes none of the calls that would have followed.
* Sessions without an entry, which users create, are in `BusNodes`.

### AgentTools

No handler of the tools or of plans holds a lock or a transaction: every statement is
an action, and `call[g]` is what goroutine `g` is doing.

| variable | code |
|---|---|
| `task[i]` | the i-th row of `tasks` with its parent, agent, depth, workflow and review gate; `plan`, `title` and `by` record which item and which call made it |
| `edges` | `task_dependencies` |
| `plans[p]` | `decomposition_plans` with `error_count`, and the items by title |
| `queue`, `load` | the entries these handlers insert, and `current_load` |
| `spent` | the token budget of the workflow is used |

| action | code |
|---|---|
| `Check` | `PolicyEngine.Check` as `HandleToolCall` calls it |
| `proposePlan`, `cancelPending`, `insertPlan`, `insertItem` | `propose_decomposition_plan` |
| `planSubTask`, `findPlan`, `validateItem`, `countError`, `readErrors`, `failPlan` | `create_sub_task` on a task that is to be decomposed, with the circuit breaker |
| `createSubTask`, `insertTask`, `linkTask`, `holdTask`, `gateSubTask`, `reviewParent` | `create_sub_task` otherwise, with the review gate |
| `assignTask`, `assignAgent`, `gateAssign`, `assignUser`, `updateStatus`, `unloadAgent` | `assign_task`, `update_task_status` |
| `ApprovePlan`, `readItems`, `makeTask`, `phaseTwo`, `linkItem`, `holdItem`, `markItem`, `approvePlan`, `blockParent` | `ApprovePlan`: the sub-tasks, then their dependencies, holds and entries, then the plan |
| `RejectPlan`, `rejectPlan`, `rejectItems`, `continueParent` | `RejectPlan` |
| `AttachToWorkflow`, `attachTask`, `WouldCreateCycle`, `checkCycle`, `attachEdge`, `blockAttached` | `AttachToWorkflow` and the search for cycles |
| `Board`, `Crash` | other handlers move a task as `TaskStatus` allows; the server dies between two statements |

The tables to begin with, `InitTasks` and `InitPlans`, are constants: tables that earlier calls
may have left. `ToolsAssumption` says what they satisfy (`InitTasksOK`, `InitPlansOK`): a parent
before its sub-tasks, no sub-task of a plan, no plan that had to end already, one plan of a task
that waits. Titles of items are unique within a plan. `holdItem` is three statements of the code
at most, in one action: the look whether the agent is enabled, its entry, its load. A profile may
be gone or disabled at any time, so the entry may be left out whenever there is an agent to queue
for. `WouldCreateCycle` is a definition on paths: the search of the code backtracks, and so
reports exactly the paths from the dependency that meet the task twice.

### MessageBus and BusNodes

| variable | code |
|---|---|
| `endpoints`, `members` | `MessageBus.endpoints` and `sessions` |
| `token`, `node`, `row` | `node_join_tokens`, `nodes` (with what the secret's hash is of), `sessions` |
| `proc[p]` | the runtime of machine `p`: the token and secret it has in memory, the secret in its file, its connection |
| `conn[c]` | the goroutine that runs `HandleWS` for connection `c` |
| `inbox[c]`, `lost` | what the client has sent; the connections whose client is gone without the server knowing |
| `creating`, `removing` | the requests that create a session and remove a node |
| `astray` | history, since the server started: how a node lost its endpoint other than by the end of its connection |

| action | code |
|---|---|
| `GenerateToken`, `InstallScript`, `runStart`, `Run`, `Lose`, `Shutdown` | a token, the installation, the service, the dialling, a connection that breaks, the end of the runtime |
| `lookupSecret`, `markOnline`, `lookupToken`, `expireToken`, `useToken`, `insertNode`, `saveNode`, `reissueSecret`, `answer` | the two ways `HandleWS` authenticates a runtime |
| `register`, `setDeliver`, `endOfRead`, `MarkFailed`, `unregister`, `markOffline` | the rest of `HandleWS`: one lock or one statement each |
| `hello`, `handleSessionJoin`, `MarkRunning`, `inviteRuntimes`, `handleSessionCreate`, `forwardCreate` | `handleEnvelope`, what it does with one message split where it releases the lock |
| `CreateRequest`, `createOnBus`, `insertSession`, `deliverCreate` | `SessionHandler.Create` |
| `Restart`, with `Migrate` | the server dies and starts: the bus is empty, and every running or pending session has failed (`database.go:801-823`) |
| `RemoveNode`, `deleteNode`, `StartNode`, `StopNode`, `CleanStaleDBSessions`, `cleanStaleSessions` | the rest |

The client of a connection and its goroutine are apart: `Lose` lets the client dial again
while the goroutine of the old connection still reads, which is how two connections of one
address overlap. The query that accepts a used token again reads a column `node_id` that
`node_join_tokens` does not have (`database.go:324-333`). `TokenNodeColumn` says whether it
is there: `bus_nodes` has it, so that the code behind that query is checked too;
`doc_reconnect` has the schema as it is. The theorems hold of both.

### AgentProcess

| variable | code |
|---|---|
| `queue`, `sessions`, `inbox` | the entries; the sessions the server created; what the bus has sent to the node |
| `onBus`, `members` | the sessions that are on the bus, and those of them that the node is a member of |
| `up`, `secret`, `connected`, `pollers` | the runtime runs, may call the server, is connected; the pollers that run |
| `work[g]` | what the read loop, each poller and the server's goroutine still have to do |
| `meta`, `recent` | `sessionMeta` and `recentlyCompleted` |
| `held[s]`, `procs[p]` | the map of the backend; the processes with their unread input, what their readers still have to do, and whether their runtime has stopped (`orphan`) |
| `asked` | the processes whose request for permission the interface shows |
| `reported[s]` | history: how often the end of session `s` was reported |

| action | code |
|---|---|
| `pollQueue`, `claim`, `startProcessing`, `createSession`, `sendPrompt` | `pollQueue`, `processQueueItem` and the calls they make, for each poller; `createSession` may end an open session of the task on the bus |
| `autoProcessTask`, `markProcessing`, `mention`, `assign` | what the server starts |
| `handleCreate`, `handleInvite`, `HandleMessage`, `startSession`, `handleAutoTaskToolCall`, `HandlePermissionResponse`, `CloseSession` | `handleMessage`, which runs in the read loop, and the backend; an invitation is a `session.create` without a context, which the bus sends when a user opens a session the node is not in (`openSession`) |
| `handleAgentMention`, `holdEntry`, `evaluate`, `nextForWork`, `checkRecent`, `settleMention` | a mention: evaluate it, answer, or work on its entry, unless the task has just ended |
| `takeInput`, `handleControlRequest`, `handleControlRequestGeneric`, `handleAssistantEvent`, `handleResultEvent`, `exit`, `readEnd` | the process, external, and what its reader does with each event |
| `handleSessionComplete`, `takeContext`, `recordEnd`, `report` | the end of a session: the flag of the process, then its context is taken away, the task noted as just ended, and the call made, one lock or call each |
| `cleanStaleSessions` | the bus drops a session that nobody but the server is in |
| `CleanIdleSessions`, `Disconnect`, `Reconnect` with `startQueuePoller` | the cleaner and the connection; each connection starts one more poller |
| `Stop`, `runStart` | the service: what the runtime holds is gone, its processes go on (`runtime.go:232-235`, `:611-630`) |

A call of the server may be lost, at most `MaxFaults` times; it is refused as long as the
runtime has no secret. The program of the agent and the user do anything they can, in any
order: nothing is assumed of them.

When a runtime stops, nothing is killed: its processes become orphans, which run on and end when
they like, while the next runtime knows nothing of them and may start others for the same task.
Nobody reads what an orphan writes, so only its end is followed. The properties about reaching and
answering a process are about the runtime that started it; of orphans the code promises nothing
(the section on known limits).

### PluginManager

| variable | code |
|---|---|
| `plugins[n]` | `Manager.plugins`: which instance the name leads to |
| `inst[i]` | a `PluginInstance`: a request keeps the pointer it found, whatever the map says since |
| `proc[p]` | a process, the instance it was started for, and the goroutine that waits for its end |
| `disk` | the directories of plugins |
| `work[k]` | the goroutine of a request, and of `StartAll` at the start |
| `mistaken` | history: the instances over whose state the news of another process was written |

The actions have the names of the methods; what is between two locks of a method is an
action of its own. Every call may fail: a binary that is missing, a handshake that does not
come in time, an init or shutdown that is refused. The process of a plugin is external and
ends at any time, or never.

## The runs

All runs use `CHECK_DEADLOCK FALSE`: a server nobody calls is idle, and the
models stop when `MaxCalls` requests are spent.

| run | what it asks | bounds, and why they are enough |
|---|---|---|
| `service_race` | do the type, the stored statuses, the guard, what is held back and the refinement survive races? | one task that holds a dispatch back, two goroutines, all eight kinds of request, six requests, a rule that reopens and unassigns. The races, on the snapshot and on the guard, need two goroutines; the third attempt needs two other writes in between; an approval that loses to a rejection, a deletion or a completion is in reach; the limit of 1 puts the meltdown in reach. |
| `service_serial` | do queue, loop count and limit agree when requests do not overlap? | two tasks of two agents, one goroutine, six requests: enough for a dispatch, a review, a rejection that reaches the limit, the restart by a human and one more rejection. |
| `service_dag` | is anything left blocked or open, and does the recursion end? | five tasks: two children of one parent, a join behind the children, a dependent of the parent; two goroutines that complete them in any order; a rule that closes what comes to review. |
| `service_gate` | is a held-back dispatch released once? | two racing approvals, restarts, deletion and restoration, six requests. |
| `queue_poll` | is a dispatched entry worked on and settled, and its task's sessions closed, whatever races with the poller? | one task, one agent, a poller and one other goroutine, three requests that dispatch, approve, reject, disable and enable; the processes end at any time. A retry of the task needs two dispatches, and the third request can disable the agent in between. |
| `queue_all` | do the types, the operations in flight and the refinement survive every request, a stopped node, lost connections, a second poller and restarts? | one task, two agents (the review by the assignee needs another agent), two goroutines, two requests of any kind: a report after a disable, an assignment while disconnected, a claim during an assignment. |
| `plans` | do plans survive calls that overlap, and a crash? | two goroutines, two requests, one fault; a plan where one item waits for the other, or with two errors already, or none; five tasks, three plans. Two approvals, an approval and a rejection, two proposals and the third error all need two calls and no more; an instance with three calls (2.1 million states) was checked by hand. |
| `bus_nodes` | do the bus, the table of nodes and the sessions agree, also after the server was restarted? | one machine, one node, one user interface, two connections, two sessions, five requests, breaks or crashes: two connections of one address are enough to overlap, and five events for a session that is created, joined and loses its runtime while a second one is created. |
| `agent_process` | is every end reported once, and every process reachable, also beside the processes that an earlier runtime left? | one entry, two sessions, two processes, one poller, one request, one fault, which may be a stop: a second process in one session, a second session of one entry, or an orphan and the process of the next runtime. The theorems are about any number of pollers. |
| `plugins` | is a plugin served by one process, and does it come to rest? | one name, three requests or restarts: the requests that go wrong together are a start, a stop and a removal. |
| `doc_cycle_check` | "checks if adding a dependency would create a cycle" (`dag_engine.go:50`) | violated: two tasks attached with a dependency on each other. The search reports the task when it meets it twice on a path. It starts at the dependency, which is then visited; the cycle goes from the task back to the dependency, where the search cuts the path before it takes the new edge a second time. |
| `doc_reconnect` | the runtime reconnects with its secret (`agent-runtime-architecture.md:88`, `:93`) | violated: the secret is saved in the file only; the running process dials again with its used token and is refused. |

`OneActiveEntry`, `RejectionsCounted` and `MeltdownHolds`
are checked of one request at a time; the next section says what happens to them
when requests overlap. `NoLostUnblock` is checked without restarts (the crash
loses the advancement of the graph) and with tasks that complete once; the proofs say
what is needed of the rest.

`OneOpenSession`, `ClaimedIsWorkedOn` and `OpenIsAlive` are checked of a node that
stays connected with one poller; the next section says what breaks them otherwise.
`QueueDrains` assumes weak fairness of the goroutines and of the poller, whose
ticker fires every 15 seconds for as long as the runtime lives (`runtime.go:665`);
nothing is assumed of the processes, the requests or the connection, and an entry
of a disabled agent is not promised anything.

`CallsTerminate` assumes weak fairness of every goroutine: the Go scheduler runs
every goroutine that can run. One operation waits for another goroutine: the first of the
reads of the graph, for the lock of the DAG engine, which is held over finitely many reads that
wait for nothing, and which Go hands on to who has waited longest. Nothing is assumed of the requests.

`Settles` assumes that the goroutines of the server run: the calls that the plugin manager makes
of a plugin have a timeout (30 s for the handshake, 10 s for init and shutdown), and `cmd.Wait`
returns when a process has ended. One call has none: a plugin without a binary is built by `go
build` (`manager.go:557`) while its state is starting, and that is assumed to return. Nothing is
assumed of processes, requests or restarts. `AskingEnds` assumes that the cleaner, whose ticker
fires every minute, comes to a process that has waited for 30 minutes, that a killed process ends,
and that the runtime dials again (`runLoop`, every three seconds); it is stated of a runtime that
has its secret, and of processes whose runtime has not stopped. `Reconnects`, which is violated,
assumes the goroutines of `HandleWS` and the dialling.

`OnlineIsRegistered`, `RunningIsServed` (of the bus) and `NoDeadEndpoint` are what the code
does promise when connections overlap; that the new connection may be left without an
endpoint is below. The properties that a history variable narrows (`astray`, `mistaken`)
say which histories they leave out, and the next section says what happens in those.

### Known limits of the code, outside the passing runs

Of the tasks and the queue, each seen in a counterexample of the same models with wider
bounds:

* Two transitions of one task that both dispatch it insert two entries: the look
  for an active entry and the insert are two statements
  (`task_service.go:550-573`).
* `main.go:48` says `current_load` is to match the active entries, and it does not: a claim counts
  an entry that its dispatch has counted (`node_agent_handler.go:176`), the release of held-back
  dispatches lowers the load once for an agent with several entries (`review_router.go:139-145`),
  and a restart between the insert of an entry and the increment of the load leaves load 0 with an
  active entry, which the recount passes over (`WHERE current_load > 0`, `main.go:54`). So no
  property states it; what the code does keep is that a load is never negative (`TypeOK`).
* A rejection delayed between its status write and its count, overtaken by a full
  second round, sets the count back (`task_service.go:367`).
* A rejection that was checked before another reached the limit puts the stuck
  task in progress again (`task_service.go:474`).
* A task that is rejected and completes again while its first completion is being
  handled is skipped by the re-entrancy guard (`dag_engine.go:115`).
* An `auto_done` task completed with a result summary goes to review
  (`task_service.go:412-416`), where `README.md:114` of the repository says done.
* Two rules that answer each other's status recurse without bound
  (`task_rule.go:200`). The rule sets of the runs end.
* A claim counts the entry in the load once more (`node_agent_handler.go:176`). With
  `max_concurrency` 1 the agent is then full, and `createReviewQueue` queues no
  review for it until the server restarts or the agent is disabled.
* Two pollers of one node (after a reconnection), or a poller during the half second
  in which `autoProcessTask` sleeps, open two sessions for one entry
  (`node_agent_handler.go:132`, `task.go:421`).
* `autoProcessTask` and `autoProcessReview` write `processing` after the prompt, over
  a completion that was faster: the entry stays active (`task.go:440`).
* A process whose session was superseded goes on, and its report completes the task
  (`node_agent_handler.go:587`).
* A report, or a claim, that meets a dead server is not repeated: the entry stays
  claimed or in processing, and only queued entries are polled
  (`runtime.go:1003`, `runtime.go:721`).
* The session row of a review carries no `queue_id`, and its report does not close it
  (`task.go:488`).
* A crash after the status write loses the advancement of the graph, and nothing
  repairs it. It loses the held-back dispatches as well: `review_router.go:124` says "no
  orphan state on crash" of a transaction that runs after the status was committed.
* `README.md:116` of the repository says that a held-back dispatch only happens after a human
  approves. A task whose dispatch was rejected and that then completes without a summary under
  `auto_done` releases it unapproved, and so does a user who sets the task in progress and then
  done: `handleInProgressToDone` calls `processPendingActions`. A rule that sets `done` releases it as
  well. What the code does keep is `HeldUntilDone`: not before a write moved the task to done.
* A task that is reopened and done again between the read of what it holds back and the release of it
  releases it twice (`review_router.go:66`, `:86`).
* The approval of an `assign_task` inserts the entry and fails it in the same transaction
  (`review_router.go:139-145`): the agent is never given the task.
* The parent of an approved plan is to go from blocked to review when its sub-tasks are
  done (`README.md:118`), and `transitionValid` has no such row (`task_service.go:197`).
* A dependent whose `workflow_id` is NULL is dropped by the scan and stays blocked
  (`dag_engine.go:183`).
* The stop of a node between the read and the write of a claim leaves the entry claimed,
  after it was failed.

Of the tools and plans (`workflow.go`, `decomposition.go`):

* Two approvals that overlap, or a crash and a second approval, create the sub-tasks twice;
  a failed plan cannot be rejected; an approval looks at neither `max_depth` nor the load,
  and accepts items that wait for each other.
* `review_task` is always denied: `resolveAgentContext` never sets the limits that the
  policy compares (`policy.go:155-160`).
* `create_sub_task` slices the assignee and the title of its parent without looking at
  their length (`workflow.go:458`, `:493`): an unassigned parent, or an item of a title
  under 20 bytes that exists already, ends in a panic that gin recovers.
* The dispatch at `workflow.go:765-783` cannot be reached; a workflow's `paused` is read
  nowhere; `assign_task` writes `review` without the table; a second delegation overwrites
  `pending_review_actions`; `RejectPlan` leaves a blocked parent blocked.

Of the bus and the nodes (`bus_handler.go`, `bus.go`, `node.go`):

* The late end of an old connection unregisters the new one, which stays connected and gets
  nothing until it breaks.
* One token can be used by two connections at once, which makes two nodes.
* Any endpoint that leaves deletes the sessions that only the server is in, one just created
  for another node included.
* `RemoveNode` takes the endpoint away and then fails to delete a node that sessions refer to.
* `max_sessions` is compared in one statement and the session inserted in another.
* A session that loses its runtime while connections of one address overlap, or after `RemoveNode`
  took its endpoint, stays running until the cleaner or the next start of the server fails it.
* After a restart of the server the nodes stay listed as online; a service manager starts a
  stopped runtime again (`KeepAlive`); each connection starts a ticker of its own.
* The numbers of user interfaces come from an unprotected counter (`bus_handler.go:501`).

Of the runtime and the backend (`runtime.go`, `claude_cli.go`):

* A mention handled while the poller works can open a second session for an entry already
  taken, and one answered with a reply completes an entry that is being worked on.
* A mention that is refused because its task has just been completed leaves its entry in
  processing for ever; so does an evaluation that fails.
* The first run of a runtime has no secret: its calls are refused and its reports lost. A
  start that fails loses the prompt. Results after the first of a session are not reported.
* The web interface sends its answer to a request for permission to the session in view.
* The bus forgets the members of its sessions when the server restarts, and the node does
  not join them again. A runtime that lost its connection is invited again when a user opens the
  session; one that was restarted joins without a context, so that the ends of its processes there are
  not reported.
* A runtime that is told to stop, or gets a signal, says goodbye and exits (`runtime.go:232-235`,
  `:611-630`): the processes of its agents are neither ended nor reported. They go on, with nobody to
  answer or to read them; the cleaner of the next runtime knows only what that runtime has started
  (`claude_cli.go:881`); and a retry of the task starts another process beside the old one.
* Each connection starts one more poller and none is stopped (`runtime.go:98`).

Of the plugin manager (`plugin/manager.go`):

* `Stop` marks a plugin stopped whether or not its process has ended, and never kills it,
  where `docs` says "Stopped: process has exited" and that the host kills it; the write at
  its end may be over a newer start.
* Removing a plugin that is being started leaves its process running; so does a restart of
  the server. `Reload` never replaces the registered manifest, where its comment says that
  it stops and registers again.
* A removal erases a directory that an installation has just written.
* `StartAll` runs before the server listens and waits up to 30 seconds for each plugin;
  killed processes are not waited for; the output of a process is not read after the
  handshake.

## The proofs

`TaskService_proofs` proves, for every set of tasks, agents and goroutines, every
dependency relation, every rule set and every bound:

* `TypeCorrect`: `Spec => []TypeOK`;
* `NeverCompleted`: `Spec => []CompletedNeverStored`;
* `Implementation`: `Spec => ImplementsBoard`.

`TaskServiceGuard_proofs` proves, for the same instances,

* `GuardIsHeld`: `Spec => []GuardHeld`;
* `HeldUntilItsTaskIsDone`: `MCSpec => []HeldUntilDone`;
* `DispatchIsReleasedOnce`: `Gate /\ MCSpec => []ReleasedAtMostOnce`;
* `LastDependencyUnblocks`: `Calm /\ InFlow /\ NoLostUnblock /\ Spec /\ [][CompletesApart /\
  BlocksInTime]_vars => []NoLostUnblock`;
* `LastChildCloses`: `Calm /\ ParentCloses /\ Spec /\ [][CompletesApart /\ StartsInTime]_vars
  => []ParentCloses`;
* `FinishingLeavesNoneBehind`: `Calm /\ Finishing /\ InFlow /\ NoLostUnblock /\ ParentCloses /\ Spec
  => [](NoLostUnblock /\ ParentCloses)`.

`TaskServiceSerial_proofs` proves, for the same instances with one goroutine (`Serial`),

* `SerialOneActiveEntry`: `Serial /\ NoneHeldBack /\ Spec => []OneActiveEntry`;
* `SerialRejections`: `Serial /\ NoCrash /\ NeverRejected /\ MCSpec => []RejectionsCounted`;
* `SerialMeltdown`: `Serial /\ NoCrash /\ MCSpec => []MeltdownHolds`.

`AgentQueue_proofs` proves, for every set of pollers and every set of requests besides,

* `QueueTypeCorrect`: `QueueSpec => []QueueTypeOK`;
* `QueueImplementation`: `QueueSpec => ImplementsBoard`;
* `OpenSessionIsAlive`: `Stays /\ QueueSpec => []OpenIsAlive`;
* `SessionsAreSingle`: `Stays /\ OnePoller /\ QueueSpec => []OneOpenSession`;
* `ClaimIsWorkedOn`: `Stays /\ OneAgentEach /\ QueueSpec => []ClaimedIsWorkedOn`.

`BusNodes_proofs` proves, for every set of nodes, machines, user interfaces, connections,
sessions and tokens, and for either schema,

* `BusTypeCorrect`: `Spec => []BusTypeOK`;
* `EndpointsAreAlive`: `Spec => []NoDeadEndpoint`;
* `OnlineNodesAreRegistered`: `Spec => []OnlineIsRegistered`;
* `RunningSessionsAreServed`: `Spec => []RunningIsServed`;
* `FailedStaysFailed`: `Spec => NeverRunningAgain`.

`AgentTools_proofs` proves, for every set of profiles, callers, titles and proposals, every
table to begin with and every bound,

* `PlanTypeCorrect`: `Spec => []PlanTypeOK`;
* `ApprovalsAreFinal`: `Spec => ApprovedIsFinal`;
* `BreakerIsEnforced`: `Spec => []BreakerHolds`;
* `PendingIsBounded`: `Spec => []PendingBounded`;
* `QueuedTasksAreReady`: `Spec => []QueuedIsReady`;
* `GraphsStayApart`: `Spec => []GraphsApart`;
* `OneTaskForEachItem`: `Spec => []OneTaskPerItem`.

`AgentProcess_proofs` proves, for every set of tasks and every number of entries, sessions,
processes, calls and faults,

* `AgentTypeCorrect`: `Spec => []AgentTypeOK`;
* `EndsAreReportedOnce`: `Spec => []ReportedOnce`;
* `NoEndIsLost`: `Spec => []NoLostEnd`;
* `ProcessesAreReachable`: `Spec => []AliveIsReachable`.

`PluginManager_proofs` proves, for every finite set of names, every set of versions and every
number of requests and restarts,

* `PluginTypeCorrect`: `Spec => []PluginTypeOK`;
* `LiveProcessesAreKnown`: `Spec => []LiveIsKnown`;
* `RunningPluginsAreServed`: `Spec => []RunningIsServed`.

Every module names the assumptions it makes of its constants, and TLC evaluates them in every
run. Those of `TaskService` (`TaskAssumption`, `AgentAssumption`, `InitAssumption`,
`BoundAssumption`) say that the constants have their types, and that no task starts in
`completed`.

### TaskService

`CompletedNeverStored` is not inductive: a goroutine may hold a write whose target is `completed`,
or an `advance` with a bad parent. The invariant that is, `IInv`, adds to the tables (`Tables`)
what every operation still to be run satisfies (`Sound`): a `write` has a target other than
`completed` and a transition from its snapshot to the target that the table allows (or a
completion resolved from an allowed one). The lemmas about the actions ask only that the head is
sound, and say that sound operations take its place (`GoesOn`); one of them per action shows that
the operations it adds are sound and its rows well typed. `GoesOnType` then concludes that a
continuation that was sound stays so. For the refinement, the step of `writeStatus` needs `Sound`
of its head: the WHERE clause gives the equality of the status with the snapshot's, `Sound` gives
the transition, and the two together are the abstract move. Every other action leaves the statuses
alone, and is a stutter or a step of the trash.

`GuardHeld` is about positions: an unlock of `t` is pending when `On("leave", t)`
stands somewhere in a continuation. Every step replaces the head of one
continuation, which moves the rest of it by one distance (`Positions`).
`KeepsUnlocks` concludes that a step whose head and whose new operations are not
the unlock of `t` keeps the pending unlocks of `t` and how many there are. One
lemma per action shows that the operations it adds are `Plain`; two are left.
`enterOnTaskCompleted` adds the only unlock of its task, because the task was not
in the guard and so had none; `leaveOnTaskCompleted` runs the only one, and leaves
none. `GInv` is inductive together with `IInv`, which says what the operations are.

`HeldUntilItsTaskIsDone` has no hypothesis: it is about every kind of request, every graph and
every rule. `HeldInv` says of each `pending` and `release` still to be run that its task was done
before. Only the write that moved the task to done puts one there, and `writeStatus` continues
with the side effects only when its WHERE clause has found the status of the snapshot; the
goroutine that lost the race goes back to read again.

`DispatchIsReleasedOnce` is about any number of goroutines too, and needs `Gate`, which
`service_gate` satisfies: the requests are approvals, the safety guard, deletions, restorations
and restarts; no rule is about a task that holds a dispatch back or waits for one; and each task
that waits does so in one action of one holder, which starts in review. Without it the code
promises less: a status that a user sets dispatches the waiting task past the gate, and a task
that is reopened and done again while its release is under way is released twice (the section on
known limits). `GateInv` says what may still happen to such a task: a write to a holder goes from
review to done (`GateOp`); `pending` and `release` come only after that write; one operation at
most in all continuations is on its way to release what a holder holds back (`OneRelease`),
because its snapshot of the status `review` lets only one approval win; and an entry for a waiting
task is the only one, and is there only when nothing is held back any more (`QueueGated`). A
restart drops the operation and keeps the row, so that the dispatch is lost, not doubled.

The two theorems about what the DAG engine advances are about any number of goroutines, any graph,
rules and depth of recursion, from a first state where the property holds. A debt (`Debts`) is a
dependent to be unblocked or a parent to be closed; it is `Owed` once all the tasks it waits for
are ready. `Honoured` says that what is owed is on its way: some continuation holds a `Pledge`,
which is the completion of a task waited for that the guard will let in, one of the reads or the
`advance` of such a handling, or the transition owed and its write. A debt that is owed when the
reads begin is found by them: a dependent is on the list that the first read makes and its count
is zero when its turn comes, and the siblings of a child are ready at their read, whatever other
requests write in between. A step puts the next operation of the chain in the place of a pledge
(`HeadPledge`), the write pays the debt (`writePays`), and the write that completes the last task
waited for comes with the completion that will be let in (`NewDebt`). A completion that waits
stops being a pledge when another of the same task is let in, and then the `gather` of that one is
a pledge (`OtherPledge`). When no goroutine has anything to do there is no pledge, so nothing is
owed. The hypotheses are the known limits of the code, one by one: no deletion, no restoration and
no crash (`Calm`); dependents are in a workflow (`InFlow`, the NULL that the scan skips); a task
is not completed while its previous completion is still being handled (`CompletesApart`: the
second would be turned away); a task is not blocked, nor a parent started, when what it waits for
is ready already (`BlocksInTime`, `StartsInTime`), because nothing will happen to advance it. The
last three are about steps; what makes them true may be the users. `FinishingLeavesNoneBehind` has
hypotheses about constants and the first state only: no request and no rule starts, restarts or
blocks a task (`Finishing`). A completion still to be handled, and a task in the guard, are then
never in progress (`FinishInv`), so the three hold of every step. `service_dag` satisfies all of
this. Before it was proved, the invariant was checked by hand on `service_dag` and on an instance
with every request but deletions and restarts, rules that reopen what is finished, and the three
conditions on the steps (886,000 states); without `CompletesApart`, TLC finds there a dependent
that is lost.

What `TaskServiceSerial_proofs` states is false of two goroutines (the section on known limits has
the overlaps), so `Serial`, which says that there is one, is a hypothesis; the recursion through
the DAG engine and the rules is not restricted. The other hypotheses are needed too: a dispatch
that was held back is released without a look at the queue (`NoneHeldBack`), a crash between a
rejection and its count loses the count (`NoCrash`), and a count that does not start at zero is
not the number of rejections seen (`NeverRejected`). `service_serial` satisfies all of them. The
argument is about the order of the operations. All but the head of a continuation read what they
need when they run, except that the entries of a task are failed right after its loads were
dropped (`Tidy`); only the head may rest on what the step before it read or wrote (`Shape`). One
lemma per action (`...Next`) shows that it keeps this, and `ShapeInv` holds of any number of
goroutines. With one goroutine, nothing comes between the two steps, and each invariant is a
statement about the head alone: an insert finds no active entry (`EntryInv`); a write finds the
row it was prepared for, and after the write of a rejection its count is next (`CountInv`); at the
limit, what is next stops the task (`LimitInv`).

### AgentQueue

The goroutines of `AgentQueue` mix the operations of `TaskService` with those of the queue
handlers, so `IInv` does not hold of them. `QInv` has the same `Tables`, and continuations of
operations that are `Held`: a sound operation of `TaskService`, or one of the queue handlers
that names an entry or a session that exists. `Held` therefore depends on the state, and a
step of one goroutine must not take from another what it holds: entries and
sessions are never deleted (`Grown`), so `Held` only grows. Because the name of an operation tells
its kind, the head of a goroutine that runs a step of `TaskService` is sound
(`HeadOfService`), and the lemmas of `TaskService_proofs` apply to it as they stand. The steps of the
queue handlers are stutters of the board. What a poller leaves behind when the
runtime is stopped is a part of what it held (`AbandonedType`).

The three theorems about sessions and claims hold of any number of goroutines, tasks and requests,
and name what else they need; `queue_poll` satisfies all of it. `Stays` says that the node is
neither stopped nor disconnected and the server not restarted: a process that ends while the node
is not connected is not reported, and a stopped runtime ends its processes without a report.
`OnePoller` is needed by `OneOpenSession` only: two pollers, or a poller and `autoProcessTask`,
each look for an open session before either opens one. `OneAgentEach` is needed by
`ClaimedIsWorkedOn` only: no task is in the trash (its session is refused after the claim), each
task has one agent, which is its assignee if it has one and which the dispatches held back for it
are for, and no entry is assigned by the scheduler or written by the web interface, whose writes
of `processing` may come after the process has ended.

Most steps leave alone the operations that a property is about: they run none, put
none before a goroutine and move those that wait by one distance (`Aside`; `QueueAside`,
`RequestAside` and `ServiceAside` say of which names this holds, for every action). What
remains is one lemma for each step that matters.

* `SessionInv`: an open session has a process, or a goroutine whose next operation is its prompt,
  or its `close` waits in a continuation (`Watched`). A prompt is always the first operation of
  its goroutine and the only one for its session (`Prompts`).
* `OneInv`: the look for an open session, its end and the opening of another are where the
  poller left them (`InTurn`), and until then the open sessions of the task are none, or the one
  that is to end (`OpenWithin`). No other goroutine opens sessions of tasks.
* `WorkedInv`: an entry that is claimed or in processing has a session that runs or is about to
  (`Served`), or an operation that will open one or settle the entry (`Pledged`). A write of
  `claimed` or `processing` is followed in its goroutine by a `create` for the same entry
  (`Followed`), so the late write of a second poller, which the code makes without a condition,
  comes with a session of its own. That no entry is written otherwise rests on `OwnInv`: every
  operation and every held-back action is about the agent of its task, so that no review is handed
  over to another agent.

### BusNodes

`NoDeadEndpoint` is about a connection whose goroutine has still to unregister its
endpoint. `BInv` adds that a registered endpoint has a connection at all (`Owned`), and what
the handshake knows at each of its steps (`Handshake`): a runtime that is up has a token, a
goroutine that looks a token up has one, and one that is past the handshake has an address;
without it the type is not inductive, since `register` would write to an endpoint that
does not exist. `OwnerStays` says once that an endpoint keeps its owner when no goroutine
but one moves, and that one either owns nothing or stays where it will unregister.
`register` is the only step that makes an owner; `unregister` removes the endpoint of the
address, whoever owns it, and so leaves no endpoint of its own goroutine behind. The
assumptions are `BusAssumption`, `ApiAssumption` and `NodesAssumption`.

The two properties of quiet states need what they become while goroutines are under way.
For `OnlineIsRegistered` that is `Backed`: a node that the table lists as online is
registered, or a goroutine of its address has still to register it or to write offline. It
holds because `HandleWS` writes online before it registers and unregisters before it writes
offline.

`RunningIsServed` follows from `SInv`. A running session has a member that is served by a
connection, or that is on the list of sessions which a connection is about to fail (`Served`).
What makes a session running is the answer of a runtime, which may come when its connection is
long over; so whoever is on the way to that answer is, or was, a member of the session
(`Answered`). A join is taken from a list of sessions read earlier, and the session is made on the
bus before it has a row or anybody can know of it (`Unborn`): a session that a goroutine is still
creating has no members but the one that creates it. `Own` says that no other connection may take
the endpoint of a connection that serves, and `Kept` that no node is being removed while a request
or a connection is about it. All this is claimed only of histories in which, since the server last
started, each endpoint was lost by the end of its own connection (`Straight`), which is what the
property itself says; the others are in the list of limits. A restart empties the bus, and
`Migrate` leaves no session running, so that the invariant holds again from there.
`NeverRunningAgain` follows from `RowStep`, which says for every action what it does to the row of
a session: only `MarkRunning` writes running, and only over pending, so that a session failed by a
restart is as final as one failed by the end of a connection.

### AgentTools

A handler is a sequence of statements that keeps what it has read in the fields of its call,
so `PlanTypeOK` is not inductive alone. `Typed` adds what each call has in its fields when
its next step reads them (`Fits`), and that the rows it names exist (`References`). Every
step then lets the tables grow and never shrink (`Grown`), and the references hold on. The
lemma `NextSteps` divides the steps: those that some safety property is about
(`SpecialStep`), a crash, and the rest, which are `Plain` and do nothing the properties
see. Each property has an invariant of its own on top of `Typed`:

* `BreakerHolds`: `Breaker`. A plan with three errors that still waits has a call that counted
  and has still to look, or has looked and is about to fail it. The count and the look are two
  statements, but whoever counts last looks after it.
* `PendingBounded`: `Bounded`. The calls about to insert a plan count as plans of their task;
  a call that cancels the plans of a task makes it the only one.
* `QueuedIsReady`, `GraphsApart`: `Provenance`. A sub-task of a plan has an item it was made
  for (`Origins`), and an approval works on a copy of items whose dependencies do not change
  while it runs (`Copies`).
* `OneTaskPerItem`: `Singles`. One approval at a time works on a plan that is not astray; it begins
  when no sub-task of the plan exists, and every sub-task it has made is in its hands until
  its item names it.
* `ApprovedIsFinal` follows from `Grown`, without an invariant beyond `Typed`.

The assumption is `ToolsAssumption`.

### AgentProcess

`Typed` says that what is on the way to the runtime, and what the goroutines have still to do,
names entries and sessions that exist. `ReportedOnce` and `NoLostEnd` depend on the read loop,
which handles the messages in the order in which they were sent: the `session.create` of a session
is handled before anything else of it. So while a `session.create` is on its way nobody has heard
of the session (`Unheard`), and a session whose context is held was not reported (`Unreported`):
the report begins by taking the context away, and only the one `session.create` stores it; an
invitation stores none. `Safe` is the conjunction of the three properties with these two. Most
steps are `Silent`, which means that they put no `session.create` on the way, and the order on the
way is kept; the others are the ones that create a session. `AliveIsReachable` is about the
processes of the runtime that runs: the backend writes its map in the step that starts a process,
starts one only where the map has none, and takes one out only to kill it. A stop empties the map
and makes orphans of all its processes in one step; about those it says nothing. `NoLostEnd`,
which is about the contexts held, says nothing of a stopped runtime either: its contexts are gone.

### PluginManager

`Typed` says of a request in the middle of a `Start` that it has the instance it starts, and
later the process that it launched (`Fits`). The other two need `Known`, of each
registered instance whose state is not mistaken: at most one request starts it, while
its state is starting, and what lives of it is what that request launched or
the process at its port. A step about another instance leaves this as it is (`Elsewhere`); a step
that writes that the plugin has stopped or failed leaves it without a process, or adds it to
`mistaken`. The assumption that `Names` is finite is used where the server starts: it registers the
plugins found on disk one after another.

### Only model-checked

* Liveness (`CallsTerminate`, `QueueDrains`, `AskingEnds`, `Settles`), which is out of reach
  of the prover; so is what the recursive definitions compute, which the properties use only
  through facts that need no induction.

## Not modelled

* Errors of the database: every statement succeeds or the process dies.
* The text of comments, notifications, tags and webhooks, authentication and permissions,
  the HTTP layer.
* Workspaces, projects, users, skills and folders: single rows, and who may write them.
* Tasks: `Create` and `Update` with their automatic assignment; the conditions of rules.
* Tools: those that only read, `add_comment`, the switches per agent, the audit log; trash
  and workflows beyond attaching a task; `RemoveDependency`.
* Bus: observers, `session.leave` and `session.end`, which no client sends, the relaying of
  other messages, the HTTP registration and heartbeat of nodes.
* Runtime: the API and echo backends, `--resume` and resumed sessions, the shared
  `.mcp.json`, writes to a process without a lock, the tools of the MCP server.
* Plugins: the API that the host offers to them (their keys are shared, and `updateTask`
  writes any column of a task past TaskService), hooks and the health check, which nothing
  calls, forwarded requests.
* Database schema: the columns are in the record types of the modules. Of the migrations only what
  they do to the sessions at every start is modelled (`Migrate`).

## Plan

Done: `TaskStatus`, `TaskBoard`, `TaskService`, `AgentQueue`, `AgentTools`, `MessageBus`
with `BusNodes`, `AgentProcess`, `PluginManager`, and eight modules of proofs, which prove every
safety property that the passing runs check.

Left, in this order:

1. `Create` and `Update` of tasks; the conditions of rules as a pure operator.
2. The composition of `AgentProcess` with the overlapping connections of `BusNodes`.
