---------------------------- MODULE AgentProcess ----------------------------
(***************************************************************************)
(* The runtime on a node and the processes of the agents it keeps.         *)
(*                                                                         *)
(* Goroutines: the read loop, which handles one message of the bus at a    *)
(* time and waits for whatever it calls; the pollers of the queue, one     *)
(* more with each connection; the cleaner; one reader per process, which   *)
(* also makes the report of its end; and one of the server, which          *)
(* processes an assigned task.  A call of the server is a step here: what  *)
(* the server does in between is the subject of AgentQueue.  The processes *)
(* of the agent and the user interface are external: they may do anything  *)
(* they can do, and a process outlives a runtime that stops.               *)
(***************************************************************************)
EXTENDS Integers, Sequences, FiniteSets

CONSTANTS
    Tasks,          \* the tasks of the one agent of the node
    EntryTask,      \* EntryTask[e]: the task of queue entry e, in the initial state
    Pollers,        \* names for the pollers
    MaxSessions,    \* bound: sessions created
    MaxProcs,       \* bound: processes started
    MaxCalls,       \* bound: comments, messages of users, requests of processes
    MaxFaults       \* bound: lost calls, lost connections and stops

ASSUME AgentAssumption == /\ EntryTask \in Seq(Tasks)
                          /\ Pollers \cap {"loop", "server"} = {}
                          /\ {MaxSessions, MaxProcs, MaxCalls, MaxFaults} \subseteq Nat

VARIABLES
    queue,      \* the rows of task_agent_queue
    sessions,   \* the sessions the server created: their queue entry
    onBus,      \* the sessions that are on the bus
    members,    \* ... the ones the node is a member of
    inbox,      \* what the bus has sent to the node
    up,         \* the runtime runs
    secret,     \* ... and has the node's secret: the server answers its calls
    connected,
    pollers,    \* the pollers that run: none is ever stopped
    work,       \* work[g]: what goroutine g still has to do
    meta,       \* sessionMeta: the sessions whose context the runtime holds
    recent,     \* recentlyCompleted: the tasks with a session that has ended
    held,       \* held[s]: the process in the map sessions of the backend, or 0
    procs,      \* the processes started
    asked,      \* the processes whose request for permission the interface shows
    reported,   \* history: the reports made of the end of session s
    calls, faults

server == <<queue, sessions>>
bus == <<onBus, members>>
runtime == <<up, secret, connected, pollers>>
node == <<meta, recent>>
backend == <<held, procs>>
bounds == <<calls, faults>>
vars == <<server, bus, inbox, runtime, work, node, backend, asked, reported, bounds>>

Goroutines == {"loop", "server"} \cup Pollers
Statuses == {"queued", "claimed", "processing", "completed", "failed"}
Reports == {"none", "completed", "failed"}

ReportSteps == {"none", "context", "record", "call"}

\* phase: what the process does.  cancelled: it is being killed.  completed: it has
\* given a result.  input: lines it has not read.  report, at: the status its reader
\* reports, and what it does next for it.  drained: the reader has seen the end of
\* its output.  orphan: its runtime has stopped; only its end is followed from then on.
Processes == [session : Nat,
              phase : {"waiting", "working", "asking", "gone"},
              cancelled : BOOLEAN, completed : BOOLEAN, input : Nat,
              report : Reports, at : ReportSteps, drained : BOOLEAN, orphan : BOOLEAN]

Envelopes == [type : {"create", "invite", "prompt", "message", "tool"}, session : Nat]
               \cup [type : {"answer"}, session : Nat, of : Nat, approved : BOOLEAN]
               \cup [type : {"mention"}, entry : Nat]

EntrySteps == [op : {"claim", "start", "create", "processing", "evaluate", "settle",
                      "recent", "auto", "mark"}, entry : Nat]
PromptSteps == [op : {"prompt"}, session : Nat]

OnEntry(name, e) == [op |-> name, entry |-> e]
ToSession(type, s) == [type |-> type, session |-> s]

TaskOf(s) == queue[sessions[s]].task
Running(p) == procs[p].phase # "gone"

-----------------------------------------------------------------------------
(* Calls of the server.                                                    *)

Doing(g, name) == work[g] # <<>> /\ Head(work[g]).op = name
Then(g, more) == work' = [work EXCEPT ![g] = more \o Tail(@)]

\* A call is refused as long as the runtime has no secret; it may be lost.
Answered == secret /\ UNCHANGED bounds
Unanswered == \/ ~secret /\ UNCHANGED bounds
              \/ secret /\ faults < MaxFaults /\ faults' = faults + 1 /\ UNCHANGED calls

Request == calls < MaxCalls /\ calls' = calls + 1 /\ UNCHANGED faults

\* updateQueueStatus
Put(e, status) == \/ Answered /\ queue' = [queue EXCEPT ![e].status = status]
                  \/ Unanswered /\ UNCHANGED queue

\* Deliver: to the node, if it is connected.
Send(envelope) == inbox' = IF connected THEN Append(inbox, envelope) ELSE inbox

-----------------------------------------------------------------------------
(* The pollers.                                                            *)

queued(e) == queue[e].status = "queued"

\* The queued entries, oldest first.
pollQueue(g) ==
    /\ g \in pollers /\ work[g] = <<>> /\ secret
    /\ LET waiting == {e \in DOMAIN queue : queued(e)}
       IN  /\ waiting # {}
           /\ \E items \in [1 .. Cardinality(waiting) -> waiting] :
                /\ \A i, j \in DOMAIN items : i < j => items[i] < items[j]
                /\ work' = [work EXCEPT ![g] = [i \in DOMAIN items |-> OnEntry("claim", items[i])]]
    /\ UNCHANGED <<server, bus, inbox, runtime, node, backend, asked, reported, bounds>>

claim(g) ==
    /\ Doing(g, "claim")
    /\ LET e == Head(work[g]).entry
       IN  \/ /\ Answered /\ queued(e)
              /\ queue' = [queue EXCEPT ![e].status = "claimed"]
              /\ Then(g, <<OnEntry("start", e)>>)
           \/ /\ Unanswered \/ (Answered /\ ~queued(e))
              /\ Then(g, <<>>)
              /\ UNCHANGED queue
    /\ UNCHANGED <<sessions, bus, inbox, runtime, node, backend, asked, reported>>

\* A refusal does not stop a poller here, only a call without an answer.
startProcessing(g) ==
    /\ Doing(g, "start")
    /\ LET e == Head(work[g]).entry
       IN  \/ /\ Answered
              /\ queue' = [queue EXCEPT ![e].status = "processing"]
              /\ Then(g, <<OnEntry("create", e)>>)
           \/ Unanswered /\ Then(g, <<>>) /\ UNCHANGED queue
    /\ UNCHANGED <<sessions, bus, inbox, runtime, node, backend, asked, reported>>

New == Len(sessions) + 1

\* A session for entry e, on the bus, and session.create to the node.
Open(e) == /\ sessions' = Append(sessions, e)
           /\ held' = Append(held, 0)
           /\ reported' = Append(reported, 0)
           /\ Send(ToSession("create", New))

Prompt == [op |-> "prompt", session |-> New]

\* CreateSession: the server may find an open session of the task and end it on the
\* bus.  The prompt follows after a pause, and the caller waits for it.
createSession(g) ==
    /\ Doing(g, "create") /\ Len(sessions) < MaxSessions
    /\ LET e == Head(work[g]).entry
       IN  \/ /\ Answered /\ Open(e) /\ Then(g, <<Prompt>>)
              /\ \/ onBus' = onBus \cup {New} /\ UNCHANGED members
                 \/ \E stale \in onBus : /\ TaskOf(stale) = queue[e].task
                                         /\ onBus' = (onBus \ {stale}) \cup {New}
                                         /\ members' = members \ {stale}
           \/ Unanswered /\ Then(g, <<>>) /\ UNCHANGED <<sessions, bus, inbox, held, reported>>
    /\ UNCHANGED <<queue, runtime, node, procs, asked>>

\* autoProcessTask, for an entry the server has just made: nothing if the node is
\* not connected or the task has an open session.
autoProcessTask ==
    /\ Doing("server", "auto")
    /\ LET e == Head(work["server"]).entry
       IN  \/ /\ connected /\ Len(sessions) < MaxSessions
              /\ Open(e) /\ Then("server", <<Prompt, OnEntry("mark", e)>>)
              /\ onBus' = onBus \cup {New}
           \/ /\ Then("server", <<>>)
              /\ UNCHANGED <<sessions, onBus, inbox, held, reported>>
    /\ UNCHANGED <<queue, members, runtime, node, procs, asked, bounds>>

markProcessing ==
    /\ Doing("server", "mark")
    /\ queue' = [queue EXCEPT ![Head(work["server"]).entry].status = "processing"]
    /\ Then("server", <<>>)
    /\ UNCHANGED <<sessions, bus, inbox, runtime, node, backend, asked, reported, bounds>>

sendPrompt(g) ==
    /\ Doing(g, "prompt")
    /\ Send(ToSession("prompt", Head(work[g]).session))
    /\ Then(g, <<>>)
    /\ UNCHANGED <<server, bus, runtime, node, backend, asked, reported, bounds>>

-----------------------------------------------------------------------------
(* The end of a session, reported by the reader of its process.            *)

\* Mutant: the stop reason is reported for the status.
reportReason(p, new, status) ==
    procs' = [procs EXCEPT ![p] = [new EXCEPT !.report = IF status = "failed" THEN "error" ELSE status,
                                              !.at = "context"]]

\* Called by the reader, once it has set the flag that the process has completed.
handleSessionComplete(p, new, status) ==
    procs' = [procs EXCEPT ![p] = [new EXCEPT !.report = status, !.at = "context"]]

\* The context goes first: a session without one is not reported.
takeContext(p) ==
    /\ procs[p].at = "context"
    /\ LET s == procs[p].session
       IN  /\ meta' = meta \ {s}
           /\ IF s \in meta
              THEN /\ procs' = [procs EXCEPT ![p].at = "record"]
                   /\ reported' = [reported EXCEPT ![s] = @ + 1]
              ELSE /\ procs' = [procs EXCEPT ![p].at = "none", ![p].report = "none"]
                   /\ UNCHANGED reported
    /\ UNCHANGED <<server, bus, inbox, runtime, work, recent, held, asked, bounds>>

recordEnd(p) ==
    /\ procs[p].at = "record"
    /\ recent' = recent \cup {TaskOf(procs[p].session)}
    /\ procs' = [procs EXCEPT ![p].at = "call"]
    /\ UNCHANGED <<server, bus, inbox, runtime, work, meta, held, asked, reported, bounds>>

\* The call itself, once; whatever comes of it, the reader goes on.
report(p) ==
    /\ procs[p].at = "call"
    /\ Put(sessions[procs[p].session], procs[p].report)
    /\ procs' = [procs EXCEPT ![p].at = "none", ![p].report = "none"]
    /\ UNCHANGED <<sessions, bus, inbox, runtime, work, node, held, asked, reported>>

-----------------------------------------------------------------------------
(* The processes: what they do, and what their reader makes of it.         *)

Reading(p) == ~procs[p].orphan /\ Running(p) /\ procs[p].at = "none"

takeInput(p) ==
    /\ ~procs[p].orphan /\ procs[p].phase = "waiting" /\ procs[p].input > 0
    /\ procs' = [procs EXCEPT ![p].phase = "working", ![p].input = @ - 1]
    /\ UNCHANGED <<server, bus, inbox, runtime, work, node, held, asked, reported, bounds>>

\* The request is shown if it gets there.  A process that asks with a request
\* the reader cannot parse is approved at once, and the request shown all the same.
Ask(p, phase) ==
    /\ Request /\ Reading(p) /\ procs[p].phase = "working"
    /\ procs' = [procs EXCEPT ![p].phase = phase]
    /\ asked' = IF connected /\ procs[p].session \in members THEN asked \cup {p} ELSE asked
    /\ UNCHANGED <<server, bus, inbox, runtime, work, node, held, reported>>

handleControlRequest(p) == Ask(p, "asking")
handleControlRequestGeneric(p) == Ask(p, "working")

\* The bus sends a tool call back to the node, which is a member of the session.
handleAssistantEvent(p) ==
    /\ Request /\ Reading(p) /\ procs[p].phase = "working"
    /\ connected /\ procs[p].session \in members
    /\ Send(ToSession("tool", procs[p].session))
    /\ UNCHANGED <<server, bus, runtime, work, node, backend, asked, reported>>

handleResultEvent(p) ==
    /\ Reading(p) /\ procs[p].phase = "working"
    /\ \E status \in {"completed", "failed"} :
         handleSessionComplete(p, [procs[p] EXCEPT !.phase = "waiting", !.completed = TRUE], status)
    /\ UNCHANGED <<server, bus, inbox, runtime, work, node, held, asked, reported, bounds>>

\* A process may end at any time; one that is being killed must.
exit(p) ==
    /\ Running(p)
    /\ procs' = [procs EXCEPT ![p].phase = "gone", ![p].input = 0, ![p].cancelled = FALSE]
    /\ UNCHANGED <<server, bus, inbox, runtime, work, node, held, asked, reported, bounds>>

\* Mutant: the end of the output is not reported.
readEndOnly(p) ==
    /\ ~Running(p) /\ procs[p].at = "none" /\ ~procs[p].drained
    /\ procs' = [procs EXCEPT ![p].drained = TRUE]
    /\ UNCHANGED <<server, bus, inbox, runtime, work, node, held, asked, reported, bounds>>

\* The end of readStdout.
readEnd(p) ==
    /\ ~Running(p) /\ procs[p].at = "none" /\ ~procs[p].drained
    /\ LET end == [procs[p] EXCEPT !.drained = TRUE]
       IN  IF procs[p].completed
           THEN procs' = [procs EXCEPT ![p] = end]
           ELSE handleSessionComplete(p, end, "failed")
    /\ UNCHANGED <<server, bus, inbox, runtime, work, node, held, asked, reported, bounds>>

-----------------------------------------------------------------------------
(* The read loop.                                                          *)

Arrived(type) == /\ up /\ work["loop"] = <<>> /\ inbox # <<>> /\ Head(inbox).type = type
                 /\ inbox' = Tail(inbox)

\* session.join: refused once the session has ended.
Join(s) == members' = IF s \in onBus THEN members \cup {s} ELSE members

\* session.create: the context is stored, and the node joins the session.
handleCreate ==
    /\ Arrived("create")
    /\ LET s == Head(inbox).session
       IN  meta' = meta \cup {s} /\ Join(s)
    /\ UNCHANGED <<server, onBus, runtime, work, recent, backend, asked, reported, bounds>>

\* A session.create without a context: the node joins the session again.
handleInvite ==
    /\ Arrived("invite")
    /\ Join(Head(inbox).session)
    /\ UNCHANGED <<server, onBus, runtime, work, node, backend, asked, reported, bounds>>

\* Started for session s with the message that is to be written to it.
NewProcess(s) == [session |-> s, phase |-> "waiting", cancelled |-> FALSE, completed |-> FALSE,
                  input |-> 1, report |-> "none", at |-> "none", drained |-> FALSE,
                  orphan |-> FALSE]

startSession(s) ==
    \/ /\ Len(procs) < MaxProcs
       /\ procs' = Append(procs, NewProcess(s))
       /\ held' = [held EXCEPT ![s] = Len(procs) + 1]
       /\ UNCHANGED bounds
    \/ /\ faults < MaxFaults /\ faults' = faults + 1
       /\ UNCHANGED <<procs, held, calls>>

\* processMessage: a line for a process that is gone is lost.
Write(p) == procs' = IF Running(p) THEN [procs EXCEPT ![p].input = @ + 1] ELSE procs

\* Mutant: a new process brings the context of its session back.
restoreContext ==
    /\ Arrived("prompt") \/ Arrived("message")
    /\ LET s == Head(inbox).session
       IN  IF held[s] = 0
           THEN startSession(s) /\ meta' = IF held' = held THEN meta ELSE meta \cup {s}
           ELSE Write(held[s]) /\ UNCHANGED <<held, bounds, meta>>
    /\ UNCHANGED <<server, bus, runtime, work, recent, asked, reported>>

\* HandleMessage, for the prompt of the server and for a message of a user.
HandleMessage ==
    /\ Arrived("prompt") \/ Arrived("message")
    /\ LET s == Head(inbox).session
       IN  IF held[s] = 0 THEN startSession(s)
           ELSE Write(held[s]) /\ UNCHANGED <<held, bounds>>
    /\ UNCHANGED <<server, bus, runtime, work, node, asked, reported>>

\* A tool call is answered by a line the process may or may not heed.
handleAutoTaskToolCall ==
    /\ Arrived("tool")
    /\ UNCHANGED <<server, bus, runtime, work, node, backend, asked, reported, bounds>>

Kill(p) == procs' = [procs EXCEPT ![p].cancelled = Running(p)]

\* Mutant: the session is forgotten, and its process goes on.
dropSession(s) == held' = [held EXCEPT ![s] = 0] /\ UNCHANGED procs

CloseSession(s) ==
    /\ Kill(held[s])
    /\ held' = [held EXCEPT ![s] = 0]

\* An approval is written to the process the session has now; a denial ends it.
HandlePermissionResponse ==
    /\ Arrived("answer")
    /\ LET m == Head(inbox)
           p == held[m.session]
       IN  \/ /\ p # 0 /\ m.approved
              /\ procs' = IF p = m.of /\ procs[p].phase = "asking"
                          THEN [procs EXCEPT ![p].phase = "working"] ELSE procs
              /\ UNCHANGED held
           \/ /\ p # 0 /\ ~m.approved
              /\ CloseSession(m.session)
           \/ p = 0 /\ UNCHANGED <<procs, held>>
    /\ UNCHANGED <<server, bus, runtime, work, node, asked, reported, bounds>>

-----------------------------------------------------------------------------
(* An agent that is mentioned in a comment.                                *)

handleAgentMention ==
    /\ Arrived("mention")
    /\ LET e == Head(inbox).entry
       IN  work' = [work EXCEPT !["loop"] = <<OnEntry("processing", e), OnEntry("evaluate", e)>>]
    /\ UNCHANGED <<server, bus, runtime, node, backend, asked, reported, bounds>>

\* The entry is set to processing, whatever it is, so that the poller leaves it.
holdEntry ==
    /\ Doing("loop", "processing")
    /\ Put(Head(work["loop"]).entry, "processing")
    /\ Then("loop", <<>>)
    /\ UNCHANGED <<sessions, bus, inbox, runtime, node, backend, asked, reported>>

\* findActiveSession
Active(t) == {s \in meta : /\ TaskOf(s) = t /\ held[s] # 0
                           /\ ~procs[held[s]].completed}

\* Evaluate: a process of its own answers within two minutes, or fails.  What is not
\* "WORK:" is taken as the reply.
Answers == {"work", "reply", "error"}

\* Work that a process is already doing is left to it.
nextForWork(e) == IF Active(queue[e].task) # {} THEN "settle" ELSE "recent"

evaluate ==
    /\ Doing("loop", "evaluate")
    /\ \E answer \in Answers :
         LET e == Head(work["loop"]).entry
         IN  Then("loop", CASE answer = "work" -> <<OnEntry(nextForWork(e), e)>>
                            [] answer = "reply" -> <<OnEntry("settle", e)>>
                            [] answer = "error" -> <<>>)
    /\ UNCHANGED <<server, bus, inbox, runtime, node, backend, asked, reported, bounds>>

\* A task whose process has ended in the last 15 seconds is left alone.
checkRecent ==
    /\ Doing("loop", "recent")
    /\ LET e == Head(work["loop"]).entry
       IN  \/ queue[e].task \in recent /\ Then("loop", <<>>) /\ UNCHANGED recent
           \/ Then("loop", <<OnEntry("create", e)>>) /\ recent' = recent \ {queue[e].task}
    /\ UNCHANGED <<server, bus, inbox, runtime, meta, backend, asked, reported, bounds>>

settleMention ==
    /\ Doing("loop", "settle")
    /\ Put(Head(work["loop"]).entry, "completed")
    /\ Then("loop", <<>>)
    /\ UNCHANGED <<sessions, bus, inbox, runtime, node, backend, asked, reported>>

-----------------------------------------------------------------------------
(* Users, the cleaner, and the connection.                                 *)

\* CreateComment that mentions the agent: an active entry is used again.
mention(t) ==
    /\ Request
    /\ LET active == {e \in DOMAIN queue : queue[e].task = t
                                           /\ queue[e].status \in {"queued", "claimed", "processing"}}
       IN  \/ /\ active = {}
              /\ queue' = Append(queue, [task |-> t, status |-> "queued"])
              /\ Send([type |-> "mention", entry |-> Len(queue) + 1])
           \/ /\ UNCHANGED queue
              /\ \E e \in active : Send([type |-> "mention", entry |-> e])
    /\ UNCHANGED <<sessions, bus, runtime, work, node, backend, asked, reported>>

\* AutoAssign: the scheduler gives task t to the agent.
assign(t) ==
    /\ Request /\ work["server"] = <<>>
    /\ queue' = Append(queue, [task |-> t, status |-> "queued"])
    /\ work' = [work EXCEPT !["server"] = <<OnEntry("auto", Len(queue) + 1)>>]
    /\ UNCHANGED <<sessions, bus, inbox, runtime, node, backend, asked, reported>>

\* A user opens session s: the bus invites the node if it is not in it.
openSession(s) ==
    /\ Request /\ connected /\ s \in onBus \ members
    /\ Send(ToSession("invite", s))
    /\ UNCHANGED <<server, bus, runtime, work, node, backend, asked, reported>>

\* When an endpoint leaves, and every ten minutes, the bus drops sessions that nobody but
\* the server is in.
cleanStaleSessions(s) ==
    /\ Request /\ s \in onBus \ members
    /\ onBus' = onBus \ {s}
    /\ UNCHANGED <<server, members, inbox, runtime, work, node, backend, asked, reported>>

userMessage(s) ==
    /\ Request /\ s \in members
    /\ Send(ToSession("message", s))
    /\ UNCHANGED <<server, bus, runtime, work, node, backend, asked, reported>>

\* The interface sends the answer to the session in view, whichever asked.
sendPermissionResponse(s, p) ==
    /\ s \in members /\ p \in asked
    /\ asked' = asked \ {p}
    /\ \E approved \in BOOLEAN :
         Send([type |-> "answer", session |-> s, of |-> p, approved |-> approved])
    /\ UNCHANGED <<server, bus, runtime, work, node, backend, reported, bounds>>

\* Mutant: a process that waits for an answer is not idle.
cleanUnlessAsking(s) ==
    /\ up /\ (connected \/ work["loop"] # <<>>)
    /\ held[s] # 0 /\ procs[held[s]].phase # "asking"
    /\ CloseSession(s)
    /\ UNCHANGED <<server, bus, inbox, runtime, work, node, asked, reported, bounds>>

\* CleanIdleSessions, while Run has not returned: any session may have been idle
\* for 30 minutes.
CleanIdleSessions(s) ==
    /\ up /\ (connected \/ work["loop"] # <<>>)
    /\ held[s] # 0
    /\ CloseSession(s)
    /\ UNCHANGED <<server, bus, inbox, runtime, work, node, asked, reported, bounds>>

Fault == faults < MaxFaults /\ faults' = faults + 1 /\ UNCHANGED calls

\* What was under way is lost, and the bus forgets the node.
Disconnect ==
    /\ Fault /\ connected
    /\ connected' = FALSE /\ inbox' = <<>> /\ members' = {}
    /\ UNCHANGED <<server, onBus, up, secret, pollers, work, node, backend, asked, reported>>

\* Run starts a poller when the runtime has the secret; the one it started before goes
\* on.  Bound: Pollers.
startQueuePoller ==
    pollers' = IF pollers = Pollers THEN pollers
               ELSE pollers \cup {CHOOSE g \in Pollers : g \notin pollers}

\* runLoop dials again when Run has returned; the join token is no longer valid.
Reconnect ==
    /\ up /\ secret /\ ~connected /\ work["loop"] = <<>>
    /\ connected' = TRUE /\ startQueuePoller
    /\ UNCHANGED <<server, bus, inbox, up, secret, work, node, backend, asked, reported, bounds>>

\* node.stop, a signal or a crash: what the runtime holds is gone and nothing is reported,
\* but nothing kills its processes.
Stop ==
    /\ Fault /\ up
    /\ up' = FALSE /\ connected' = FALSE /\ pollers' = {} /\ inbox' = <<>> /\ members' = {}
    /\ work' = [g \in Goroutines |-> IF g = "server" THEN work[g] ELSE <<>>]
    /\ meta' = {} /\ recent' = {}
    /\ held' = [s \in DOMAIN held |-> 0]
    /\ procs' = [p \in DOMAIN procs |-> [procs[p] EXCEPT !.orphan = TRUE, !.input = 0, !.report = "none",
                                                         !.at = "none", !.drained = TRUE]]
    /\ UNCHANGED <<server, onBus, secret, asked, reported>>

\* The secret that the registration left in the file is read.
runStart ==
    /\ ~up /\ up' = TRUE
    /\ secret' = TRUE /\ connected' = TRUE /\ startQueuePoller
    /\ UNCHANGED <<server, bus, inbox, work, node, backend, asked, reported, bounds>>

-----------------------------------------------------------------------------

Init == /\ queue = [e \in DOMAIN EntryTask |-> [task |-> EntryTask[e], status |-> "queued"]]
        /\ sessions = <<>> /\ onBus = {} /\ members = {} /\ inbox = <<>>
        /\ up = TRUE /\ secret \in BOOLEAN /\ connected = TRUE
        /\ pollers \in SUBSET Pollers /\ Cardinality(pollers) = IF secret THEN 1 ELSE 0
        /\ work = [g \in Goroutines |-> <<>>]
        /\ meta = {} /\ recent = {}
        /\ held = <<>> /\ procs = <<>> /\ asked = {} /\ reported = <<>>
        /\ calls = 0 /\ faults = 0

Poller(g) == \/ pollQueue(g) \/ claim(g) \/ startProcessing(g)
             \/ createSession(g) \/ sendPrompt(g)

ReadLoop == \/ handleCreate \/ handleInvite \/ HandleMessage \/ handleAutoTaskToolCall
            \/ HandlePermissionResponse \/ handleAgentMention
            \/ holdEntry \/ evaluate \/ checkRecent \/ settleMention
            \/ createSession("loop") \/ sendPrompt("loop")

Server == autoProcessTask \/ markProcessing \/ sendPrompt("server")

Reader(p) == takeContext(p) \/ recordEnd(p) \/ report(p) \/ readEnd(p)

Process(p) == \/ takeInput(p) \/ handleAssistantEvent(p)
              \/ handleControlRequest(p) \/ handleControlRequestGeneric(p)
              \/ handleResultEvent(p) \/ exit(p)

Session(s) == \/ openSession(s) \/ cleanStaleSessions(s) \/ userMessage(s) \/ CleanIdleSessions(s)
              \/ \E p \in DOMAIN procs : sendPermissionResponse(s, p)

Next == \/ ReadLoop \/ Server
        \/ \E g \in Pollers : Poller(g)
        \/ \E p \in DOMAIN procs : Reader(p) \/ Process(p)
        \/ \E t \in Tasks : mention(t) \/ assign(t)
        \/ \E s \in DOMAIN sessions : Session(s)
        \/ Disconnect \/ Reconnect \/ Stop \/ runStart

Spec == Init /\ [][Next]_vars

\* The runtime dials again, a process that is being killed ends, and the ticker of the
\* cleaner comes to a request that has waited for 30 minutes.
killed == \E p \in DOMAIN procs : procs[p].cancelled /\ ~procs[p].orphan /\ exit(p)
cleanAsking == \E s \in DOMAIN sessions : /\ held[s] # 0 /\ procs[held[s]].phase = "asking"
                                          /\ CleanIdleSessions(s)
Fairness == WF_vars(Reconnect) /\ WF_vars(killed) /\ WF_vars(cleanAsking)

FairSpec == Spec /\ Fairness

-----------------------------------------------------------------------------
(* Properties.                                                             *)

\* The type of the tables, of what the runtime and the backend hold and of what is
\* on the way; a session of the node has a row, and the map names processes of
\* that session.
AgentTypeOK ==
    /\ queue \in Seq([task : Tasks, status : Statuses])
    /\ sessions \in Seq(DOMAIN queue)
    /\ onBus \in SUBSET DOMAIN sessions /\ members \in SUBSET onBus
    /\ inbox \in Seq(Envelopes)
    /\ {up, secret, connected} \subseteq BOOLEAN /\ pollers \in SUBSET Pollers
    /\ work \in [Goroutines -> Seq(EntrySteps \cup PromptSteps)]
    /\ meta \in SUBSET DOMAIN sessions
    /\ recent \in SUBSET Tasks
    /\ procs \in Seq(Processes)
    /\ held \in [DOMAIN sessions -> 0 .. Len(procs)]
    /\ \A s \in DOMAIN held : held[s] # 0 => procs[held[s]].session = s
    /\ asked \in SUBSET DOMAIN procs
    /\ reported \in [DOMAIN sessions -> Nat]
    /\ {calls, faults} \subseteq Nat

\* The end of a session is reported at most once, however many results its
\* processes give and however they end: a second report would settle the entry and
\* lower the load of the agent again (runtime.go, handleSessionComplete).
ReportedOnce == \A s \in DOMAIN sessions : reported[s] <= 1

\* No end goes unreported: as long as the runtime holds the context of a session
\* for which a process was started, some process of the session has still to be
\* reported, whoever denied, killed, cleaned or replaced it.
NoLostEnd ==
    \A s \in meta :
       (\E p \in DOMAIN procs : procs[p].session = s)
         => \E p \in DOMAIN procs : /\ procs[p].session = s
                                    /\ \/ ~procs[p].completed /\ ~procs[p].drained
                                       \/ procs[p].at = "context"

\* As long as the runtime runs, a process it started and has not begun to kill is the
\* one its session leads to: none runs that no message, no answer and no cleaning can
\* reach.  Of the ones that outlive a runtime it says nothing: nobody can reach them.
AliveIsReachable ==
    \A p \in DOMAIN procs :
       Running(p) /\ ~procs[p].cancelled /\ ~procs[p].orphan => held[procs[p].session] = p

\* A request for permission that nobody answers does not block a process for ever,
\* unless its runtime stops: the cleaner ends it, however often the connection was
\* lost in between, as long as the runtime can connect again.
SomeoneAsks == \E p \in DOMAIN procs : procs[p].phase = "asking" /\ ~procs[p].orphan
AskingEnds == (SomeoneAsks /\ secret) ~> ~SomeoneAsks
=============================================================================
