----------------------------- MODULE AgentQueue -----------------------------
(***************************************************************************)
(* The life of a queue entry after its dispatch: a poller of the node      *)
(* claims it, a session and a process of the agent are started for it, and *)
(* the end of the process is reported and completes the task.              *)
(*                                                                         *)
(* The operations of the queue handlers join those of TaskService: a       *)
(* goroutine of the server, or a poller of the node together with the      *)
(* handlers it calls and waits for, is a continuation in work.  One node   *)
(* hosts every agent.  The process of an agent is external: it ends when   *)
(* it likes, with a result or an error.                                    *)
(***************************************************************************)
EXTENDS TaskService

CONSTANTS
    InitPollers,   \* the goroutines that poll the queue in the initial state
    NodeKinds      \* the kinds of request this module adds

ASSUME NodeAssumption == /\ InitPollers \subseteq Callers
                         /\ NodeKinds \subseteq {"assign", "disable", "enable", "disconnect", "stop", "update"}

VARIABLES
    sessions,    \* the rows of the table sessions, oldest first
    procs,       \* procs[s]: what the node holds of session s
    connected,   \* the node's connection to the bus is up
    pollers      \* the goroutines of the node that poll the queue

queueVars == <<sessions, procs, connected, pollers>>
allVars == <<vars, queueVars>>

\* entry is the queue_id the node is given.  A review session has neither task
\* nor queue in its row (task = NoTask).
Sessions == [entry : Nat, task : Tasks \cup {NoTask}, status : {"pending", "completed", "failed"}]

\* meta: the context of the session is in sessionMeta; alive: its process runs.
Procs == [meta : BOOLEAN, alive : BOOLEAN]

EntryOps == [op : {"claim", "claimWrite", "process", "create", "stale", "open", "follow",
                   "auto", "openReview", "mark"}, entry : Nat]
SettleOps == [op : {"settle", "close"}, entry : Nat, status : {"completed", "failed"}]
CompleteOps == [op : {"complete"}, entry : Nat, summary : BOOLEAN]
SessionOps == [op : {"supersede", "prompt"}, session : Nat]
ProfileOps == [op : {"lower", "failAgent", "zero"}, agent : Agents]
ReviewOps == [op : {"insertReview"}, task : Tasks, agent : Agents]
UpdateOps == [op : {"update"}, entry : Nat, status : QueueStatuses]
StopOps == [op : {"failNode", "stopRuntime"}]

QueueOps == Ops \cup EntryOps \cup SettleOps \cup CompleteOps \cup SessionOps
              \cup ProfileOps \cup ReviewOps \cup UpdateOps \cup StopOps

OnEntry(name, e) == [op |-> name, entry |-> e]
OnSession(name, s) == [op |-> name, session |-> s]
OnAgent(name, a) == [op |-> name, agent |-> a]

\* A request of this module: as Request, for the kinds in NodeKinds.
NodeRequest(kind) == kind \in NodeKinds /\ calls < MaxCalls /\ calls' = calls + 1

SetEntry(e, status) == queue' = [queue EXCEPT ![e].status = status]

Live(t) == ~task[t].deleted
OpenSessions(t) == {s \in DOMAIN sessions : sessions[s].task = t /\ sessions[s].status = "pending"}

-----------------------------------------------------------------------------
(* The poller: list, then claim, process and open a session for each.      *)

queued(i) == queue[i].status = "queued" /\ queue[i].agent \in enabled

\* The queued entries of enabled agents (LIMIT 10 is not reached).
ListQueue == {i \in DOMAIN queue : queued(i)}

\* It is given them oldest first.
pollQueue(c) ==
    /\ c \in pollers /\ work[c] = <<>> /\ ListQueue # {}
    /\ \E items \in [1 .. Cardinality(ListQueue) -> ListQueue] :
         /\ \A i, j \in DOMAIN items : i < j => items[i] < items[j]
         /\ work' = [work EXCEPT ![c] = [i \in DOMAIN items |-> OnEntry("claim", items[i])]]
    /\ UNCHANGED <<task, queue, load, enabled, guard, calls, queueVars>>

\* Mutant: a claim is refused when the agent's load is at its maximum.
claimWhenFree(c) ==
    /\ Doing(c, "claim")
    /\ LET e == Head(work[c]).entry
       IN  Then(c, IF queue[e].status = "queued" /\ load[queue[e].agent] < MaxConcurrency
                   THEN <<OnEntry("claimWrite", e), OnAgent("bump", queue[e].agent),
                          OnEntry("process", e), OnEntry("create", e)>> ELSE <<>>)
    /\ UNCHANGED <<task, queue, load, enabled, guard, calls, queueVars>>

\* ClaimQueueItem reads the status; 409 makes the poller go on to the next item.
claim(c) ==
    /\ Doing(c, "claim")
    /\ LET e == Head(work[c]).entry
       IN  Then(c, IF queue[e].status = "queued"
                   THEN <<OnEntry("claimWrite", e), OnAgent("bump", queue[e].agent),
                          OnEntry("process", e), OnEntry("create", e)>> ELSE <<>>)
    /\ UNCHANGED <<task, queue, load, enabled, guard, calls, queueVars>>

\* ... and writes it later, without a condition.
ClaimQueueItem(c) ==
    /\ Doing(c, "claimWrite")
    /\ SetEntry(Head(work[c]).entry, "claimed")
    /\ Then(c, <<>>)
    /\ UNCHANGED <<task, load, enabled, guard, calls, queueVars>>

\* UpdateQueueStatus("processing")
startProcessing(c) ==
    /\ Doing(c, "process")
    /\ LET e == Head(work[c]).entry
       IN  /\ SetEntry(e, "processing")
           /\ Then(c, <<Transition(queue[e].task, "in_progress", FALSE)>>)
    /\ UNCHANGED <<task, load, enabled, guard, calls, queueVars>>

\* CreateSession with a queue_id: 404 for a task in the trash.
CreateSession(c) ==
    /\ Doing(c, "create")
    /\ LET e == Head(work[c]).entry
       IN  Then(c, IF Live(queue[e].task) THEN <<OnEntry("stale", e)>> ELSE <<>>)
    /\ UNCHANGED <<task, queue, load, enabled, guard, calls, queueVars>>

\* Mutant: the open session of the task is left as it is.
keepStale(c) ==
    /\ Doing(c, "stale")
    /\ Then(c, <<OnEntry("open", Head(work[c]).entry)>>)
    /\ UNCHANGED <<task, queue, load, enabled, guard, calls, queueVars>>

\* The look for an open session of the task; the query takes any one.
findStale(c) ==
    /\ Doing(c, "stale")
    /\ LET e == Head(work[c]).entry
           open == OpenSessions(queue[e].task)
       IN  \/ /\ open = {}
              /\ Then(c, <<OnEntry("open", e)>>)
           \/ \E s \in open : Then(c, <<OnSession("supersede", s), OnEntry("open", e)>>)
    /\ UNCHANGED <<task, queue, load, enabled, guard, calls, queueVars>>

\* The row is failed and the bus forgets the session.  The node is not told: a
\* process it has goes on.
supersede(c) ==
    /\ Doing(c, "supersede")
    /\ sessions' = [sessions EXCEPT ![Head(work[c]).session].status = "failed"]
    /\ Then(c, <<>>)
    /\ UNCHANGED <<task, queue, load, enabled, guard, calls, procs, connected, pollers>>

\* A new session row for entry e, and session.create to the node.
Open(row) == /\ sessions' = Append(sessions, row)
             /\ procs' = Append(procs, [meta |-> connected, alive |-> FALSE])

openSession(c) ==
    /\ Doing(c, "open")
    /\ LET e == Head(work[c]).entry
       IN  Open([entry |-> e, task |-> queue[e].task, status |-> "pending"])
    /\ Then(c, <<OnSession("prompt", Len(sessions) + 1)>>)
    /\ UNCHANGED <<task, queue, load, enabled, guard, calls, connected, pollers>>

\* The prompt follows session.create after a pause; a node that is not
\* connected gets neither.  The process starts with the prompt.
deliverPrompt(c) ==
    /\ Doing(c, "prompt")
    /\ procs' = [procs EXCEPT ![Head(work[c]).session].alive = connected]
    /\ Then(c, <<>>)
    /\ UNCHANGED <<task, queue, load, enabled, guard, calls, sessions, connected, pollers>>

-----------------------------------------------------------------------------
(* The end of a process, reported to UpdateQueueStatus.                    *)

\* Mutant: an error is not reported.
ReportSuccess(e, status, summary) ==
    IF status = "failed" THEN <<>>
    ELSE <<[op |-> "settle", entry |-> e, status |-> status], OnAgent("lower", queue[e].agent),
           [op |-> "close", entry |-> e, status |-> status],
           [op |-> "complete", entry |-> e, summary |-> summary]>>

\* Mutant: the sessions of the entry are not closed.
ReportWithoutClose(e, status, summary) ==
    <<[op |-> "settle", entry |-> e, status |-> status], OnAgent("lower", queue[e].agent)>>
      \o IF status = "completed" THEN <<[op |-> "complete", entry |-> e, summary |-> summary]>>
         ELSE <<>>

\* What UpdateQueueStatus does for "completed" and "failed".
Report(e, status, summary) ==
    <<[op |-> "settle", entry |-> e, status |-> status], OnAgent("lower", queue[e].agent),
      [op |-> "close", entry |-> e, status |-> status]>>
      \o IF status = "completed" THEN <<[op |-> "complete", entry |-> e, summary |-> summary]>>
         ELSE <<>>

\* handleSessionComplete: a session without context is not reported.  It runs in
\* the goroutine that reads the output of the process, never in a poller.
handleSessionComplete(c, s) ==
    /\ work[c] = <<>> /\ c \notin pollers
    /\ procs[s].alive
    /\ procs' = [procs EXCEPT ![s] = [meta |-> FALSE, alive |-> FALSE]]
    /\ \E status \in {"completed", "failed"}, summary \in BOOLEAN :
         work' = [work EXCEPT ![c] = IF procs[s].meta THEN Report(sessions[s].entry, status, summary)
                                     ELSE <<>>]
    /\ UNCHANGED <<task, queue, load, enabled, guard, calls, sessions, connected, pollers>>

settleEntry(c) ==
    /\ Doing(c, "settle")
    /\ SetEntry(Head(work[c]).entry, Head(work[c]).status)
    /\ Then(c, <<>>)
    /\ UNCHANGED <<task, load, enabled, guard, calls, queueVars>>

\* Mutant: current_load - 1, without GREATEST.
lowerUnclamped(c) ==
    /\ Doing(c, "lower")
    /\ load' = [load EXCEPT ![Head(work[c]).agent] = @ - 1]
    /\ Then(c, <<>>)
    /\ UNCHANGED <<task, queue, enabled, guard, calls, queueVars>>

lowerLoad(c) ==
    /\ Doing(c, "lower")
    /\ load' = [load EXCEPT ![Head(work[c]).agent] = IF @ > 0 THEN @ - 1 ELSE 0]
    /\ Then(c, <<>>)
    /\ UNCHANGED <<task, queue, enabled, guard, calls, queueVars>>

\* The open sessions whose queue_id is the entry get its status.
closeSessions(c) ==
    /\ Doing(c, "close")
    /\ LET o == Head(work[c])
           ofEntry(r) == r.entry = o.entry /\ r.task # NoTask /\ r.status = "pending"
       IN  sessions' = [s \in DOMAIN sessions |->
                          IF ofEntry(sessions[s]) THEN [sessions[s] EXCEPT !.status = o.status]
                          ELSE sessions[s]]
    /\ Then(c, <<>>)
    /\ UNCHANGED <<task, queue, load, enabled, guard, calls, procs, connected, pollers>>

\* A task that holds back dispatches is left alone; the row of a task in the
\* trash is not found, and MarkCompleted refuses it.
completeTask(c) ==
    /\ Doing(c, "complete")
    /\ LET o == Head(work[c])
           t == queue[o.entry].task
       IN  Then(c, IF Live(t) /\ task[t].pending # <<>> THEN <<>>
                   ELSE <<Transition(t, "completed", o.summary), OnEntry("follow", o.entry)>>)
    /\ UNCHANGED <<task, queue, load, enabled, guard, calls, queueVars>>

\* A task that came to review is queued for its assignee, if that is another agent.
queueForReview(c) ==
    /\ Doing(c, "follow")
    /\ LET e == queue[Head(work[c]).entry]
           row == task[e.task]
       IN  Then(c, IF /\ Live(e.task) /\ row.status = "review"
                      /\ row.assignee \notin {NoAgent, e.agent}
                      /\ ~ActiveFor(queue, e.task, row.assignee)
                   THEN <<[op |-> "insertReview", task |-> e.task, agent |-> row.assignee]>>
                   ELSE <<>>)
    /\ UNCHANGED <<task, queue, load, enabled, guard, calls, queueVars>>

insertReview(c) ==
    /\ Doing(c, "insertReview")
    /\ LET o == Head(work[c])
       IN  /\ queue' = Append(queue, [task |-> o.task, agent |-> o.agent, status |-> "queued"])
           /\ Then(c, <<OnAgent("bump", o.agent), OnEntry("openReview", Len(queue) + 1)>>)
    /\ UNCHANGED <<task, load, enabled, guard, calls, queueVars>>

\* autoProcessReview
autoProcessReview(c) ==
    /\ Doing(c, "openReview")
    /\ LET e == Head(work[c]).entry IN
         \/ /\ Live(queue[e].task) /\ connected
            /\ Open([entry |-> e, task |-> NoTask, status |-> "pending"])
            /\ Then(c, <<OnSession("prompt", Len(sessions) + 1), OnEntry("mark", e)>>)
         \/ /\ ~(Live(queue[e].task) /\ connected)
            /\ Then(c, <<>>)
            /\ UNCHANGED <<sessions, procs>>
    /\ UNCHANGED <<task, queue, load, enabled, guard, calls, connected, pollers>>

\* The last statement of autoProcessTask and autoProcessReview: no condition.
markProcessing(c) ==
    /\ Doing(c, "mark")
    /\ SetEntry(Head(work[c]).entry, "processing")
    /\ Then(c, <<>>)
    /\ UNCHANGED <<task, load, enabled, guard, calls, queueVars>>

-----------------------------------------------------------------------------
(* Assignment by the scheduler, and processing in the server itself.       *)

\* The transaction: the least loaded enabled agent with room gets an entry.  SKIP
\* LOCKED passes over an agent whose row another goroutine is writing.
AutoAssign(c, t) ==
    /\ NodeRequest("assign") /\ work[c] = <<>>
    /\ LET free == {a \in enabled : load[a] < MaxConcurrency}
       IN  \E a \in free :
             /\ \/ \A b \in free : load[a] <= load[b]
                \/ \E d \in Callers \ {c} : work[d] # <<>>
             /\ queue' = Append(queue, [task |-> t, agent |-> a, status |-> "queued"])
             /\ load' = [load EXCEPT ![a] = @ + 1]
    /\ work' = [work EXCEPT ![c] = <<OnEntry("auto", Len(queue) + 1)>>]
    /\ UNCHANGED <<task, enabled, guard, queueVars>>

\* autoProcessTask: the node must be connected, and no session of the task open.
autoProcessTask(c) ==
    /\ Doing(c, "auto")
    /\ LET e == Head(work[c]).entry
           t == queue[e].task
       IN  \/ /\ Live(t) /\ ~connected
              /\ queue' = IF queue[e].status = "processing"
                          THEN [queue EXCEPT ![e].status = "queued"] ELSE queue
              /\ Then(c, <<>>)
           \/ /\ Live(t) /\ connected /\ OpenSessions(t) = {}
              /\ Then(c, <<OnEntry("open", e), OnEntry("mark", e)>>)
              /\ UNCHANGED queue
           \/ /\ Live(t) => connected /\ OpenSessions(t) # {}
              /\ Then(c, <<>>)
              /\ UNCHANGED queue
    /\ UNCHANGED <<task, load, enabled, guard, calls, queueVars>>

\* AgentScheduler.Claim, for the web interface: it leaves the load as it is.
ClaimByUser(c, e) ==
    /\ NodeRequest("update") /\ work[c] = <<>> /\ queue[e].status = "queued"
    /\ work' = [work EXCEPT ![c] = <<OnEntry("claimWrite", e)>>]
    /\ UNCHANGED <<task, queue, load, enabled, guard, queueVars>>

isValidQueueTransition(from, to) ==
    <<from, to>> \in {<<"queued", "claimed">>, <<"claimed", "processing">>, <<"claimed", "failed">>,
                     <<"processing", "completed">>, <<"processing", "failed">>}

\* AgentScheduler.UpdateStatus: the read and the check, the write, and the load if the
\* entry was active when it was read.  The task is left alone.
UpdateStatus(c, e, status) ==
    LET from == queue[e].status
        ends == status \in {"completed", "failed"} /\ from \in {"claimed", "processing"}
    IN  /\ NodeRequest("update") /\ work[c] = <<>>
        /\ status = from \/ isValidQueueTransition(from, status)
        /\ work' = [work EXCEPT ![c] =
                      <<[op |-> "update", entry |-> e, status |-> status]>>
                        \o IF ends THEN <<OnAgent("lower", queue[e].agent)>> ELSE <<>>]
        /\ UNCHANGED <<task, queue, load, enabled, guard, queueVars>>

writeUpdate(c) ==
    /\ Doing(c, "update")
    /\ SetEntry(Head(work[c]).entry, Head(work[c]).status)
    /\ Then(c, <<>>)
    /\ UNCHANGED <<task, load, enabled, guard, calls, queueVars>>

-----------------------------------------------------------------------------
(* Agents that are disabled, and the node's connection.                    *)

\* The profile first, then its entries, then its load.
DisableProfile(c, a) ==
    /\ NodeRequest("disable") /\ work[c] = <<>>
    /\ enabled' = enabled \ {a}
    /\ work' = [work EXCEPT ![c] = <<OnAgent("failAgent", a), OnAgent("zero", a)>>]
    /\ UNCHANGED <<task, queue, load, guard, queueVars>>

failEntriesOfAgent(c) ==
    /\ Doing(c, "failAgent")
    /\ LET of(e) == e.agent = Head(work[c]).agent /\ Active(e)
       IN  queue' = [i \in DOMAIN queue |->
                       IF of(queue[i]) THEN [queue[i] EXCEPT !.status = "failed"] ELSE queue[i]]
    /\ Then(c, <<>>)
    /\ UNCHANGED <<task, load, enabled, guard, calls, queueVars>>

zeroLoad(c) ==
    /\ Doing(c, "zero")
    /\ load' = [load EXCEPT ![Head(work[c]).agent] = 0]
    /\ Then(c, <<>>)
    /\ UNCHANGED <<task, queue, enabled, guard, calls, queueVars>>

EnableProfile(a) ==
    /\ NodeRequest("enable")
    /\ enabled' = enabled \cup {a}
    /\ UNCHANGED <<task, queue, load, guard, work, queueVars>>

\* The node is stopped: its profiles and their loads in one statement, then their entries,
\* then a message to the runtime.
StopNode(c) ==
    /\ NodeRequest("stop") /\ work[c] = <<>>
    /\ enabled' = {}
    /\ load' = [a \in Agents |-> 0]
    /\ work' = [work EXCEPT ![c] = <<[op |-> "failNode"], [op |-> "stopRuntime"]>>]
    /\ UNCHANGED <<task, queue, guard, queueVars>>

failEntriesOfNode(c) ==
    /\ Doing(c, "failNode")
    /\ queue' = [i \in DOMAIN queue |->
                   IF Active(queue[i]) THEN [queue[i] EXCEPT !.status = "failed"] ELSE queue[i]]
    /\ Then(c, <<>>)
    /\ UNCHANGED <<task, load, enabled, guard, calls, queueVars>>

\* What the server still does for a poller that is gone: the handler it had called,
\* which comes before the calls that the poller has not made yet.
Abandoned(ops) ==
    LET ofServer == {i \in DOMAIN ops : ops[i].op \notin {"claim", "process", "create"}}
    IN  SubSeq(ops, 1, Cardinality(ofServer))

\* A runtime that is connected exits: its processes and pollers end, and report nothing.
stopRuntime(c) ==
    /\ Doing(c, "stopRuntime")
    /\ \/ ~connected /\ Then(c, <<>>) /\ UNCHANGED queueVars
       \/ /\ connected /\ connected' = FALSE
          /\ pollers' = {}
          /\ procs' = [s \in DOMAIN procs |-> [meta |-> FALSE, alive |-> FALSE]]
          /\ work' = [d \in Callers |-> IF d = c THEN Tail(work[c])
                                        ELSE IF d \in pollers THEN Abandoned(work[d]) ELSE work[d]]
          /\ UNCHANGED sessions
    /\ UNCHANGED <<task, queue, load, enabled, guard, calls>>

Disconnect ==
    /\ NodeRequest("disconnect")
    /\ connected /\ connected' = FALSE
    /\ UNCHANGED <<task, queue, load, enabled, guard, work, sessions, procs, pollers>>

\* Run starts one more poller each time it connects, and none is ever stopped.
Reconnect(c) ==
    /\ ~connected /\ connected' = TRUE
    /\ work[c] = <<>> /\ c \notin pollers
    /\ pollers' = pollers \cup {c}
    /\ UNCHANGED <<vars, sessions, procs>>

QueueStep(c) ==
    \/ claim(c) \/ ClaimQueueItem(c) \/ startProcessing(c)
    \/ CreateSession(c) \/ findStale(c) \/ supersede(c) \/ openSession(c) \/ deliverPrompt(c)
    \/ settleEntry(c) \/ lowerLoad(c) \/ closeSessions(c) \/ completeTask(c)
    \/ queueForReview(c) \/ insertReview(c) \/ autoProcessReview(c) \/ markProcessing(c)
    \/ autoProcessTask(c) \/ failEntriesOfAgent(c) \/ zeroLoad(c)
    \/ failEntriesOfNode(c) \/ stopRuntime(c) \/ writeUpdate(c)

QueueInit == /\ Init
             /\ sessions = <<>>
             /\ procs = <<>>
             /\ connected = TRUE
             /\ pollers = InitPollers

\* At every start, the sessions that the last server left open have failed.
Migrate == sessions' = [s \in DOMAIN sessions |->
                          IF sessions[s].status = "pending" THEN [sessions[s] EXCEPT !.status = "failed"]
                          ELSE sessions[s]]

\* The node loses the connection to a server that dies, and its pollers the
\* answers they wait for; its processes go on.
ServerRestart == Restart /\ Migrate /\ connected' = FALSE /\ UNCHANGED <<procs, pollers>>

QueueNext ==
    \/ (Requests \/ \E c \in Callers : ServiceStep(c)) /\ UNCHANGED queueVars
    \/ ServerRestart
    \/ \E c \in Callers :
         \/ QueueStep(c)
         \/ pollQueue(c)
         \/ \E s \in DOMAIN sessions : handleSessionComplete(c, s)
         \/ \E t \in Tasks : AutoAssign(c, t)
         \/ \E a \in Agents : DisableProfile(c, a)
         \/ \E e \in DOMAIN queue :
              ClaimByUser(c, e) \/ \E status \in QueueStatuses \ {"queued"} : UpdateStatus(c, e, status)
         \/ StopNode(c)
         \/ Reconnect(c)
    \/ \E a \in Agents : EnableProfile(a)
    \/ Disconnect

QueueSpec == QueueInit /\ [][QueueNext]_allVars

\* A goroutine that can run runs, and a poller polls again after 15 seconds.
QueueFairness ==
    \A c \in Callers : /\ WF_allVars(ServiceStep(c) /\ UNCHANGED queueVars)
                       /\ WF_allVars(QueueStep(c))
                       /\ WF_allVars(pollQueue(c))
QueueFairSpec == QueueSpec /\ QueueFairness

-----------------------------------------------------------------------------
(* Properties.                                                             *)

\* What an operation of the queue handlers carries is there when it runs.
NamesExisting(o) ==
    /\ o \in EntryOps \cup SettleOps \cup CompleteOps \cup UpdateOps => o.entry \in DOMAIN queue
    /\ o \in SessionOps => o.session \in DOMAIN sessions

\* The type of the rows of the queue handlers, of what the node holds, and of
\* every operation of TaskService and the queue handlers together; the
\* operations name entries and sessions that exist, and so do the sessions.
QueueTypeOK ==
    /\ task \in [Tasks -> Rows]
    /\ queue \in Seq(Entries)
    /\ load \in [Agents -> Nat]
    /\ enabled \in SUBSET Agents
    /\ guard \in SUBSET Tasks
    /\ work \in [Callers -> Seq(QueueOps)]
    /\ \A c \in Callers : \A i \in DOMAIN work[c] : NamesExisting(work[c][i])
    /\ calls \in Nat
    /\ sessions \in Seq(Sessions)
    /\ \A s \in DOMAIN sessions : sessions[s].entry \in DOMAIN queue
    /\ procs \in Seq(Procs)
    /\ Len(procs) = Len(sessions)
    /\ connected \in BOOLEAN
    /\ pollers \in SUBSET Callers

\* A task has at most one open session: a retry closes the one before it
\* (CreateSession), so that the dedup of autoProcessTask and of CreateSession
\* without a queue_id means something.
OneOpenSession == \A t \in Tasks : Cardinality(OpenSessions(t)) <= 1

\* When no request is running, an entry that is claimed or in processing is
\* being worked on: some live process will report it.  A claim that is not
\* followed by a process would block the task for ever, since tryAutoDispatch
\* and createReviewQueue skip a task with an active entry.
ClaimedIsWorkedOn ==
    Quiet => \A i \in DOMAIN queue :
               queue[i].status \in {"claimed", "processing"}
                 => \E s \in DOMAIN sessions :
                      sessions[s].entry = i /\ procs[s].alive /\ procs[s].meta

\* When no request is running, a session row is open only while its process
\* runs: a row left open would keep autoProcessTask from starting the task again.
OpenIsAlive ==
    Quiet => \A s \in DOMAIN sessions :
               sessions[s].task # NoTask /\ sessions[s].status = "pending" => procs[s].alive

\* An entry that is queued for an enabled agent does not stay queued, whatever
\* races with the poller and whatever the load of the agent.
QueueDrains ==
    \A i \in 1 .. MaxCalls + 2 :
       (i \in DOMAIN queue /\ queued(i)) ~> (i \in DOMAIN queue /\ ~queued(i))
=============================================================================
