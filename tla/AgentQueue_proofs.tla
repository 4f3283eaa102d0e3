-------------------------- MODULE AgentQueue_proofs --------------------------
(***************************************************************************)
(* The queue handlers join TaskService: every operation that a goroutine   *)
(* of the server or a poller holds has its type and names entries and      *)
(* sessions that exist, and the tasks still move along the board, for      *)
(* every set of tasks, agents and goroutines and for every request.        *)
(*                                                                         *)
(* The lemmas of TaskService_proofs ask of a goroutine only that its first *)
(* operation is sound, so they hold of continuations that also contain the *)
(* operations of this module (Held).  Entries and sessions are never       *)
(* deleted (Grown): an operation that waits keeps its type while other     *)
(* goroutines run.                                                         *)
(*                                                                         *)
(* Then what holds of the sessions while the node keeps its connection: an *)
(* open one has a process or will be closed, a task has one at most if it  *)
(* has one poller, and a claim is never left behind if tasks do not change *)
(* hands.  Most steps leave alone the operations each of these is about    *)
(* (Aside); the lemmas are about the others.                               *)
(***************************************************************************)
EXTENDS AgentQueue, TaskService_proofs

\* What a continuation may hold: the operations of TaskService, sound, and those of the
\* queue handlers, about entries and sessions that exist.
EntryNames == {"claim", "claimWrite", "process", "create", "stale", "open", "follow",
               "auto", "openReview", "mark"}
Held == SoundOps
          \cup [op : EntryNames, entry : DOMAIN queue]
          \cup [op : {"settle", "close"}, entry : DOMAIN queue, status : {"completed", "failed"}]
          \cup [op : {"complete"}, entry : DOMAIN queue, summary : BOOLEAN]
          \cup [op : {"supersede", "prompt"}, session : DOMAIN sessions]
          \cup ProfileOps \cup ReviewOps
          \cup [op : {"update"}, entry : DOMAIN queue, status : QueueStatuses]
          \cup StopOps

\* The rows of the sessions, and what the node holds of them.
NodeTyped == /\ sessions \in Seq(Sessions)
             /\ \A s \in DOMAIN sessions : sessions[s].entry \in DOMAIN queue
             /\ procs \in Seq(Procs)
             /\ Len(procs) = Len(sessions)
             /\ connected \in BOOLEAN
             /\ pollers \in SUBSET Callers

QInv == Tables /\ NodeTyped /\ work \in [Callers -> Seq(Held)]

Grown == DOMAIN queue \subseteq DOMAIN queue' /\ DOMAIN sessions \subseteq DOMAIN sessions'

-----------------------------------------------------------------------------
(* The operations.                                                         *)

\* The name of an operation tells what it carries.
LEMMA HeldByName ==
    ASSUME NEW o \in Held
    PROVE  /\ o.op \in EntryNames => o.entry \in DOMAIN queue
           /\ o.op \in {"settle", "close"} => o.entry \in DOMAIN queue /\ o.status \in {"completed", "failed"}
           /\ o.op = "complete" => o.entry \in DOMAIN queue /\ o.summary \in BOOLEAN
           /\ o.op \in {"supersede", "prompt"} => o.session \in DOMAIN sessions
           /\ o.op \in {"lower", "failAgent", "zero"} => o.agent \in Agents
           /\ o.op = "insertReview" => o.task \in Tasks /\ o.agent \in Agents
           /\ o.op = "update" => o.entry \in DOMAIN queue /\ o.status \in QueueStatuses
           /\ o.op \in OpNames => o \in SoundOps
<1>1. CASE o \in SoundOps
  BY <1>1, OpsByName DEF SoundOps, OpNames, EntryNames
<1>2. CASE o \notin SoundOps
  BY <1>2 DEF Held, OpNames, EntryNames, ProfileOps, ReviewOps, StopOps
<1>. QED BY <1>1, <1>2

\* Operations that are held.
LEMMA HeldOps ==
    /\ \A e \in DOMAIN queue : \A name \in EntryNames : OnEntry(name, e) \in Held
    /\ \A e \in DOMAIN queue : \A name \in {"settle", "close"} : \A status \in {"completed", "failed"} :
         [op |-> name, entry |-> e, status |-> status] \in Held
    /\ \A e \in DOMAIN queue, summary \in BOOLEAN :
         [op |-> "complete", entry |-> e, summary |-> summary] \in Held
    /\ \A s \in DOMAIN sessions : \A name \in {"supersede", "prompt"} : OnSession(name, s) \in Held
    /\ \A a \in Agents : \A name \in {"lower", "failAgent", "zero", "bump"} : OnAgent(name, a) \in Held
    /\ \A t \in Tasks, a \in Agents : [op |-> "insertReview", task |-> t, agent |-> a] \in Held
    /\ \A e \in DOMAIN queue : \A status \in QueueStatuses :
         [op |-> "update", entry |-> e, status |-> status] \in Held
    /\ \A name \in {"failNode", "stopRuntime"} : [op |-> name] \in Held
    /\ \A t \in Tasks, to \in Statuses, summary \in BOOLEAN : Transition(t, to, summary) \in Held
<1>1. \A e \in DOMAIN queue : \A name \in EntryNames : OnEntry(name, e) \in Held
  BY DEF Held, OnEntry
<1>2. \A e \in DOMAIN queue : \A name \in {"settle", "close"} : \A status \in {"completed", "failed"} :
         [op |-> name, entry |-> e, status |-> status] \in Held
  BY DEF Held
<1>3. \A e \in DOMAIN queue, summary \in BOOLEAN :
         [op |-> "complete", entry |-> e, summary |-> summary] \in Held
  BY DEF Held
<1>4. \A s \in DOMAIN sessions : \A name \in {"supersede", "prompt"} : OnSession(name, s) \in Held
  BY DEF Held, OnSession
<1>5. \A a \in Agents : \A name \in {"lower", "failAgent", "zero"} : OnAgent(name, a) \in Held
  BY DEF Held, OnAgent, ProfileOps
<1>6. \A a \in Agents : OnAgent("bump", a) \in Held
  BY SoundByName DEF Held, OnAgent
<1>7. \A t \in Tasks, a \in Agents : [op |-> "insertReview", task |-> t, agent |-> a] \in Held
  BY DEF Held, ReviewOps
<1>8. \A e \in DOMAIN queue : \A status \in QueueStatuses :
         [op |-> "update", entry |-> e, status |-> status] \in Held
  BY DEF Held
<1>9. \A name \in {"failNode", "stopRuntime"} : [op |-> name] \in Held
  BY DEF Held, StopOps
<1>10. \A t \in Tasks, to \in Statuses, summary \in BOOLEAN : Transition(t, to, summary) \in Held
  BY SoundByName DEF Held
<1>. QED BY <1>1, <1>2, <1>3, <1>4, <1>5, <1>6, <1>7, <1>8, <1>9, <1>10

LEMMA HeldGrows == ASSUME Grown PROVE Held \subseteq Held'
BY DEF Held, Grown

\* The operation at the head of a goroutine.
LEMMA HeadIsHeld ==
    ASSUME QInv, NEW c \in Callers, work[c] # <<>> PROVE Head(work[c]) \in Held
BY HeadTailProperties DEF QInv

\* Of a goroutine that runs an operation of TaskService, that operation is sound.
LEMMA HeadOfService ==
    ASSUME QInv, NEW c \in Callers, ServiceStep(c) PROVE SoundHead(c)
BY StepHasHead, HeadIsHeld, HeldByName DEF SoundHead

-----------------------------------------------------------------------------
(* What a step does to the continuations and the tables.                   *)

\* A goroutine goes on with operations that are held, or begins with them.
LEMMA WorkStep ==
    ASSUME QInv, Grown, NEW c \in Callers, NEW ops \in Seq(Held'),
           (work[c] # <<>> /\ Then(c, ops)) \/ work' = [work EXCEPT ![c] = ops]
    PROVE  (work \in [Callers -> Seq(Held)])'
<1>1. \A d \in Callers : work[d] \in Seq(Held')
  <2>1. ASSUME NEW d \in Callers PROVE work[d] \in Seq(Held')
    <3>1. work[d] \in Seq(Held)
      BY DEF QInv
    <3>. QED BY <3>1, HeldGrows, SeqMonotonic
  <2>. QED BY <2>1
<1>2. work \in [Callers -> Seq(Held')]
  BY <1>1 DEF QInv
<1>3. CASE work[c] # <<>> /\ Then(c, ops)
  BY <1>2, <1>3, ThenType DEF Then
<1>4. CASE work' = [work EXCEPT ![c] = ops]
  BY <1>2, <1>4
<1>. QED BY <1>3, <1>4

LEMMA WorkKept ==
    ASSUME QInv, Grown, UNCHANGED work PROVE (work \in [Callers -> Seq(Held)])'
<1>1. ASSUME NEW d \in Callers PROVE work[d] \in Seq(Held')
  <2>1. work[d] \in Seq(Held)
    BY DEF QInv
  <2>. QED BY <2>1, HeldGrows, SeqMonotonic
<1>. QED BY <1>1 DEF QInv

\* The node and its sessions are left alone, and entries may come.
LEMMA NodeKept ==
    ASSUME QInv, UNCHANGED queueVars, DOMAIN queue \subseteq DOMAIN queue'
    PROVE  NodeTyped' /\ Grown
BY DEF QInv, NodeTyped, queueVars, Grown

\* Short sequences of operations that are held afterwards.
LEMMA ShortHeld ==
    /\ <<>> \in Seq(Held')
    /\ \A x \in Held' : <<x>> \in Seq(Held')
    /\ \A x, y \in Held' : <<x, y>> \in Seq(Held')
    /\ \A x, y, z \in Held' : <<x, y, z>> \in Seq(Held')
BY ShortSeqs

\* A step that writes only its continuation.
LEMMA OnlyWork ==
    ASSUME QInv, NEW c \in Callers, NEW ops \in Seq(Held),
           (work[c] # <<>> /\ Then(c, ops)) \/ work' = [work EXCEPT ![c] = ops],
           UNCHANGED <<task, queue, load, guard, queueVars>>,
           enabled' \in SUBSET Agents, calls' \in Nat
    PROVE  QInv'
<1>1. NodeTyped' /\ Grown
  BY NodeKept
<1>2. Held' = Held
  BY DEF Held, queueVars
<1>3. (work \in [Callers -> Seq(Held)])'
  BY <1>1, <1>2, WorkStep
<1>4. Tables'
  BY DEF QInv, Tables, CompletedNeverStored
<1>. QED BY <1>1, <1>3, <1>4 DEF QInv

\* A step that writes queue and load as well, and leaves the node alone.
LEMMA QueueWritten ==
    ASSUME QInv, NEW c \in Callers, NEW ops \in Seq(Held'),
           (work[c] # <<>> /\ Then(c, ops)) \/ work' = [work EXCEPT ![c] = ops],
           UNCHANGED <<task, guard, queueVars>>,
           queue' \in Seq(Entries), DOMAIN queue \subseteq DOMAIN queue',
           load' \in [Agents -> Nat], enabled' \in SUBSET Agents, calls' \in Nat
    PROVE  QInv'
<1>1. NodeTyped' /\ Grown
  BY NodeKept
<1>2. (work \in [Callers -> Seq(Held)])'
  BY <1>1, WorkStep
<1>3. Tables'
  BY DEF QInv, Tables, CompletedNeverStored
<1>. QED BY <1>1, <1>2, <1>3 DEF QInv

\* A step that writes sessions and processes.
LEMMA NodeWritten ==
    ASSUME QInv, NEW c \in Callers, NEW ops \in Seq(Held'),
           (work[c] # <<>> /\ Then(c, ops)) \/ work' = [work EXCEPT ![c] = ops],
           UNCHANGED <<task, queue, load, enabled, guard, calls>>,
           NodeTyped', DOMAIN sessions \subseteq DOMAIN sessions'
    PROVE  QInv'
<1>1. Grown
  BY DEF Grown
<1>2. (work \in [Callers -> Seq(Held)])'
  BY <1>1, WorkStep
<1>3. Tables'
  BY DEF QInv, Tables, CompletedNeverStored
<1>. QED BY <1>2, <1>3 DEF QInv

\* An entry of the queue, and what is in it.
LEMMA EntryType ==
    ASSUME QInv, NEW e \in DOMAIN queue
    PROVE  /\ queue[e] \in Entries /\ queue[e].task \in Tasks /\ queue[e].agent \in Agents
           /\ task[queue[e].task] \in Rows
<1>1. queue \in Seq(Entries) /\ task \in [Tasks -> Rows]
  BY DEF QInv, Tables
<1>2. queue[e] \in Entries
  BY <1>1, ElementOfSeq, LenProperties
<1>. QED BY <1>1, <1>2 DEF Entries

\* A session, and what the node holds of it.
LEMMA SessionType ==
    ASSUME QInv, NEW s \in DOMAIN sessions
    PROVE  /\ sessions[s] \in Sessions /\ sessions[s].entry \in DOMAIN queue
           /\ s \in DOMAIN procs /\ procs[s] \in Procs
<1>1. sessions \in Seq(Sessions) /\ procs \in Seq(Procs) /\ Len(procs) = Len(sessions)
  BY DEF QInv, NodeTyped
<1>2. s \in 1 .. Len(sessions) /\ s \in DOMAIN procs
  BY <1>1, LenProperties
<1>3. sessions[s] \in Sessions /\ procs[s] \in Procs
  BY <1>1, <1>2, ElementOfSeq, LenProperties
<1>. QED BY <1>2, <1>3 DEF QInv, NodeTyped

\* The status of one entry is written.
LEMMA SetEntryType ==
    ASSUME QInv, NEW e \in DOMAIN queue, NEW status \in QueueStatuses, SetEntry(e, status)
    PROVE  queue' \in Seq(Entries) /\ DOMAIN queue' = DOMAIN queue
<1>1. queue \in Seq(Entries) /\ e \in 1 .. Len(queue)
  BY LenProperties DEF QInv, Tables
<1>2. [queue[e] EXCEPT !.status = status] \in Entries
  BY EntryType DEF Entries
<1>3. queue' = [queue EXCEPT ![e] = [queue[e] EXCEPT !.status = status]]
  BY DEF SetEntry
<1>. QED BY <1>1, <1>2, <1>3, ExceptSeq

\* Entries are changed, none is added.
LEMMA EntriesMapped ==
    ASSUME QInv, NEW q, q = [i \in DOMAIN queue |-> q[i]], DOMAIN q = DOMAIN queue,
           \A i \in DOMAIN queue : q[i] \in Entries
    PROVE  q \in Seq(Entries)
<1>1. queue \in Seq(Entries)
  BY DEF QInv, Tables
<1>. QED BY <1>1, MapIsSeq

\* One entry is added.
LEMMA EntryAdded ==
    ASSUME QInv, NEW t \in Tasks, NEW a \in Agents,
           queue' = Append(queue, [task |-> t, agent |-> a, status |-> "queued"])
    PROVE  /\ queue' \in Seq(Entries) /\ DOMAIN queue \subseteq DOMAIN queue'
           /\ Len(queue) + 1 \in DOMAIN queue'
<1>1. [task |-> t, agent |-> a, status |-> "queued"] \in Entries /\ queue \in Seq(Entries)
  BY DEF Entries, QueueStatuses, QInv, Tables
<1>2. queue' \in Seq(Entries) /\ Len(queue') = Len(queue) + 1 /\ Len(queue) \in Nat
  BY <1>1, AppendProperties, LenProperties
<1>3. DOMAIN queue' = 1 .. (Len(queue) + 1) /\ DOMAIN queue = 1 .. Len(queue)
  BY <1>1, <1>2, LenProperties
<1>. QED BY <1>2, <1>3

LEMMA LoadsType ==
    ASSUME QInv PROVE load \in [Agents -> Nat] /\ enabled \in SUBSET Agents /\ calls \in Nat
                      /\ queue \in Seq(Entries)
BY DEF QInv, Tables

-----------------------------------------------------------------------------
(* The steps of TaskService.                                               *)

LEMMA SameLength ==
    ASSUME NEW q \in Seq(Entries), NEW r, DOMAIN r = DOMAIN q PROVE DOMAIN q \subseteq DOMAIN r
OBVIOUS

\* Entries come, and none goes.
LEMMA ServiceGrows ==
    ASSUME QInv, NEW c \in Callers, ServiceStep(c)
    PROVE  DOMAIN queue \subseteq DOMAIN queue'
<1>1. SoundHead(c) /\ Tables /\ queue \in Seq(Entries)
  BY HeadOfService DEF QInv, Tables
<1>2. CASE insertQueueEntry(c)
  <2>1. PICK x : queue' = Append(queue, x)
    BY <1>2 DEF insertQueueEntry
  <2>. QED BY <1>1, <2>1
<1>3. CASE processPendingActions(c)
  <2>1. PICK new \in Seq(Entries) : queue' = FailActive(queue \o new, Head(work[c]).task)
    BY <1>1, <1>3, ReleasedEntries
  <2>2. DOMAIN queue' = DOMAIN (queue \o new)
    BY <2>1 DEF FailActive
  <2>3. DOMAIN queue \subseteq DOMAIN (queue \o new)
    <3>1. /\ queue \o new \in Seq(Entries) /\ Len(queue \o new) = Len(queue) + Len(new)
          /\ Len(queue) \in Nat /\ Len(new) \in Nat
      BY <1>1, ConcatProperties, LenProperties
    <3>2. DOMAIN queue = 1 .. Len(queue) /\ DOMAIN (queue \o new) = 1 .. Len(queue \o new)
      BY <1>1, <3>1, LenProperties
    <3>. QED BY <3>1, <3>2
  <2>. QED BY <2>2, <2>3
<1>4. CASE failEntriesOfTask(c)
  BY <1>4 DEF failEntriesOfTask, FailActive
<1>5. CASE UNCHANGED queue
  BY <1>5
<1>. QED BY <1>2, <1>3, <1>4, <1>5
     DEF ServiceStep, readTaskSnapshot, resolveCompletionTarget, writeStatus, tryAutoDispatch,
         createReviewQueue, bumpLoad, readPendingActions, dropLoadOfTask, countLoop,
         enterOnTaskCompleted, gatherDAGTransitions, checkDependents, checkSiblings, readParent,
         applyDAGTransitions, leaveOnTaskCompleted,
         evaluateRules, assignUser

LEMMA SoundIsHeld == \A ops \in Seq(SoundOps) : ops \in Seq(Held')
<1>1. SoundOps \subseteq Held'
  BY DEF Held
<1>. QED BY <1>1, SeqMonotonic

LEMMA ServiceQInv ==
    ASSUME QInv, NEW c \in Callers, ServiceStep(c), UNCHANGED queueVars PROVE QInv'
<1>1. Tables' /\ GoesOn(c)
  BY HeadOfService, ServiceStepInv DEF QInv
<1>2. NodeTyped' /\ Grown
  BY ServiceGrows, NodeKept
<1>3. PICK ops \in Seq(SoundOps) : Then(c, ops)
  BY <1>1 DEF GoesOn
<1>4. ops \in Seq(Held') /\ work[c] # <<>>
  BY <1>1, SoundIsHeld DEF GoesOn
<1>5. (work \in [Callers -> Seq(Held)])'
  BY <1>2, <1>3, <1>4, WorkStep
<1>. QED BY <1>1, <1>2, <1>5 DEF QInv

LEMMA RequestsQInv ==
    ASSUME QInv, Requests, UNCHANGED queueVars PROVE QInv'
<1>1. Tables' /\ (Begins \/ UNCHANGED work)
  BY RequestsInv DEF QInv
<1>2. UNCHANGED queue
  BY DEF Requests, SetStatus, HandleReview, MarkCompleted, checkStuckTasks, Delete, Restore, Start
<1>3. NodeTyped' /\ Grown
  BY <1>2, NodeKept
<1>4. CASE UNCHANGED work
  BY <1>1, <1>3, <1>4, WorkKept DEF QInv
<1>5. CASE Begins
  <2>1. PICK c \in Callers, ops \in Seq(SoundOps) : work' = [work EXCEPT ![c] = ops]
    BY <1>5 DEF Begins
  <2>2. ops \in Seq(Held')
    BY SoundIsHeld
  <2>3. (work \in [Callers -> Seq(Held)])'
    BY <1>3, <2>1, <2>2, WorkStep
  <2>. QED BY <1>1, <1>3, <2>3 DEF QInv
<1>. QED BY <1>1, <1>4, <1>5

\* A server that starts again keeps the rows, and forgets its goroutines.
LEMMA ServerRestartQInv ==
    ASSUME QInv, ServerRestart PROVE QInv'
<1>1. Tables' /\ work' = [c \in Callers |-> <<>>]
  BY RestartInv DEF QInv, ServerRestart
<1>2. UNCHANGED queue
  BY DEF ServerRestart, Restart
<1>3. NodeTyped'
  <2>1. sessions \in Seq(Sessions)
    BY DEF QInv, NodeTyped
  <2>2. ASSUME NEW r \in Sessions
        PROVE  /\ [r EXCEPT !.status = "failed"] \in Sessions
               /\ [r EXCEPT !.status = "failed"].entry = r.entry
    BY DEF Sessions
  <2>3. /\ DOMAIN sessions' = DOMAIN sessions /\ DOMAIN sessions = 1 .. Len(sessions)
        /\ sessions' = [s \in DOMAIN sessions |-> sessions'[s]]
        /\ \A s \in DOMAIN sessions : sessions'[s] \in Sessions /\ sessions'[s].entry = sessions[s].entry
    BY <2>1, <2>2 DEF ServerRestart, Migrate
  <2>4. sessions' \in Seq(Sessions)
    BY <2>1, <2>3, MapIsSeq
  <2>5. Len(sessions') = Len(sessions)
    BY <2>1, <2>3, <2>4
  <2>. QED BY <1>2, <2>3, <2>4, <2>5 DEF QInv, NodeTyped, ServerRestart
<1>4. (work \in [Callers -> Seq(Held)])'
  BY <1>1, ShortHeld
<1>. QED BY <1>1, <1>3, <1>4 DEF QInv


-----------------------------------------------------------------------------
(* The poller.                                                             *)

\* The operation at the head, when it is about an entry.
LEMMA HeadEntry ==
    ASSUME QInv, NEW c \in Callers, work[c] # <<>>, Head(work[c]).op \in EntryNames
    PROVE  Head(work[c]).entry \in DOMAIN queue
BY HeadIsHeld, HeldByName

LEMMA pollQueueQInv ==
    ASSUME QInv, NEW c \in Callers, pollQueue(c) PROVE QInv'
<1>. DEFINE n == Cardinality(ListQueue)
<1>1. PICK items \in [1 .. n -> ListQueue] :
         work' = [work EXCEPT ![c] = [i \in DOMAIN items |-> OnEntry("claim", items[i])]]
  BY DEF pollQueue
<1>. DEFINE ops == [i \in DOMAIN items |-> OnEntry("claim", items[i])]
<1>2. n \in Nat
  <2>1. queue \in Seq(Entries) /\ ListQueue \subseteq DOMAIN queue
    BY DEF QInv, Tables, ListQueue
  <2>2. IsFiniteSet(DOMAIN queue)
    BY <2>1, LenProperties, FS_Interval
  <2>. QED BY <2>1, <2>2, FS_Subset, FS_CardinalityType
<1>3. \A i \in 1 .. n : ops[i] \in Held
  <2>1. ASSUME NEW i \in 1 .. n PROVE ops[i] \in Held
    <3>1. items[i] \in DOMAIN queue
      BY DEF ListQueue
    <3>. QED BY <3>1, HeldOps DEF EntryNames
  <2>. QED BY <2>1
<1>4. ops \in [1 .. n -> Held]
  BY <1>3
<1>5. ops \in Seq(Held)
  BY <1>2, <1>4, SeqDef
<1>6. enabled' \in SUBSET Agents /\ calls' \in Nat /\ UNCHANGED <<task, queue, load, guard, queueVars>>
  BY LoadsType DEF pollQueue
<1>. QED BY <1>1, <1>5, <1>6, OnlyWork

LEMMA claimQInv ==
    ASSUME QInv, NEW c \in Callers, claim(c) PROVE QInv'
<1>. DEFINE e == Head(work[c]).entry
            agent == queue[e].agent
            four == <<OnEntry("claimWrite", e), OnAgent("bump", agent),
                      OnEntry("process", e), OnEntry("create", e)>>
            ops == IF queue[e].status = "queued" THEN four ELSE <<>>
<1>1. work[c] # <<>> /\ Then(c, ops)
  BY DEF claim, Doing
<1>2. e \in DOMAIN queue /\ agent \in Agents
  BY HeadEntry, EntryType DEF claim, Doing, EntryNames
<1>3. /\ OnEntry("claimWrite", e) \in Held /\ OnAgent("bump", agent) \in Held
      /\ OnEntry("process", e) \in Held /\ OnEntry("create", e) \in Held
  BY <1>2, HeldOps DEF EntryNames
<1>4. four \in [1 .. 4 -> Held]
  BY <1>3
<1>5. ops \in Seq(Held)
  BY <1>4, SeqDef, ShortSeqs
<1>6. enabled' \in SUBSET Agents /\ calls' \in Nat /\ UNCHANGED <<task, queue, load, guard, queueVars>>
  BY LoadsType DEF claim
<1>. QED BY <1>1, <1>5, <1>6, OnlyWork

LEMMA CreateSessionQInv ==
    ASSUME QInv, NEW c \in Callers, CreateSession(c) PROVE QInv'
<1>. DEFINE e == Head(work[c]).entry
            ops == IF Live(queue[e].task) THEN <<OnEntry("stale", e)>> ELSE <<>>
<1>1. work[c] # <<>> /\ Then(c, ops)
  BY DEF CreateSession, Doing
<1>2. e \in DOMAIN queue
  BY HeadEntry DEF CreateSession, Doing, EntryNames
<1>3. OnEntry("stale", e) \in Held
  BY <1>2, HeldOps DEF EntryNames
<1>4. ops \in Seq(Held)
  BY <1>3, ShortSeqs
<1>5. enabled' \in SUBSET Agents /\ calls' \in Nat /\ UNCHANGED <<task, queue, load, guard, queueVars>>
  BY LoadsType DEF CreateSession
<1>. QED BY <1>1, <1>4, <1>5, OnlyWork

LEMMA findStaleQInv ==
    ASSUME QInv, NEW c \in Callers, findStale(c) PROVE QInv'
<1>. DEFINE e == Head(work[c]).entry
<1>1. work[c] # <<>>
  BY DEF findStale, Doing
<1>2. e \in DOMAIN queue
  BY HeadEntry DEF findStale, Doing, EntryNames
<1>3. OnEntry("open", e) \in Held
  BY <1>2, HeldOps DEF EntryNames
<1>4. enabled' \in SUBSET Agents /\ calls' \in Nat /\ UNCHANGED <<task, queue, load, guard, queueVars>>
  BY LoadsType DEF findStale
<1>5. CASE Then(c, <<OnEntry("open", e)>>)
  <2>1. <<OnEntry("open", e)>> \in Seq(Held)
    BY <1>3, ShortSeqs
  <2>. QED BY <1>1, <1>4, <1>5, <2>1, OnlyWork
<1>6. ASSUME NEW s \in OpenSessions(queue[e].task),
             Then(c, <<OnSession("supersede", s), OnEntry("open", e)>>)
      PROVE  QInv'
  <2>1. OnSession("supersede", s) \in Held
    BY HeldOps DEF OpenSessions
  <2>2. <<OnSession("supersede", s), OnEntry("open", e)>> \in Seq(Held)
    BY <1>3, <2>1, ShortSeqs
  <2>. QED BY <1>1, <1>4, <1>6, <2>2, OnlyWork
<1>. QED BY <1>5, <1>6 DEF findStale

\* The writes of one entry: a claim, the start, the end.
LEMMA SetEntryQInv ==
    ASSUME QInv, NEW c \in Callers, work[c] # <<>>, NEW e \in DOMAIN queue,
           NEW status \in QueueStatuses, SetEntry(e, status),
           NEW ops \in Seq(Held'), Then(c, ops),
           UNCHANGED <<task, load, enabled, guard, calls, queueVars>>
    PROVE  QInv'
<1>1. queue' \in Seq(Entries) /\ DOMAIN queue \subseteq DOMAIN queue'
  BY SetEntryType
<1>2. load' \in [Agents -> Nat] /\ enabled' \in SUBSET Agents /\ calls' \in Nat
  BY LoadsType
<1>. QED BY <1>1, <1>2, QueueWritten

LEMMA ClaimQueueItemQInv ==
    ASSUME QInv, NEW c \in Callers, ClaimQueueItem(c) PROVE QInv'
<1>1. work[c] # <<>> /\ Head(work[c]).entry \in DOMAIN queue
  BY HeadEntry DEF ClaimQueueItem, Doing, EntryNames
<1>2. "claimed" \in QueueStatuses /\ <<>> \in Seq(Held')
  BY ShortHeld DEF QueueStatuses
<1>. QED BY <1>1, <1>2, SetEntryQInv DEF ClaimQueueItem

LEMMA startProcessingQInv ==
    ASSUME QInv, NEW c \in Callers, startProcessing(c) PROVE QInv'
<1>. DEFINE e == Head(work[c]).entry
<1>1. work[c] # <<>> /\ e \in DOMAIN queue /\ queue[e].task \in Tasks
  BY HeadEntry, EntryType DEF startProcessing, Doing, EntryNames
<1>2. "processing" \in QueueStatuses /\ "in_progress" \in Statuses
  BY DEF QueueStatuses, Statuses
<1>3. Transition(queue[e].task, "in_progress", FALSE) \in SoundOps
  BY <1>1, <1>2, SoundByName
<1>4. <<Transition(queue[e].task, "in_progress", FALSE)>> \in Seq(Held')
  BY <1>3, ShortSeqs, SoundIsHeld
<1>. QED BY <1>1, <1>2, <1>4, SetEntryQInv DEF startProcessing

LEMMA markProcessingQInv ==
    ASSUME QInv, NEW c \in Callers, markProcessing(c) PROVE QInv'
<1>1. work[c] # <<>> /\ Head(work[c]).entry \in DOMAIN queue
  BY HeadEntry DEF markProcessing, Doing, EntryNames
<1>2. "processing" \in QueueStatuses /\ <<>> \in Seq(Held')
  BY ShortHeld DEF QueueStatuses
<1>. QED BY <1>1, <1>2, SetEntryQInv DEF markProcessing

LEMMA settleEntryQInv ==
    ASSUME QInv, NEW c \in Callers, settleEntry(c) PROVE QInv'
<1>1. work[c] # <<>> /\ Head(work[c]).entry \in DOMAIN queue
      /\ Head(work[c]).status \in {"completed", "failed"}
  BY HeadIsHeld, HeldByName DEF settleEntry, Doing
<1>2. Head(work[c]).status \in QueueStatuses /\ <<>> \in Seq(Held')
  BY <1>1, ShortHeld DEF QueueStatuses
<1>. QED BY <1>1, <1>2, SetEntryQInv DEF settleEntry

LEMMA writeUpdateQInv ==
    ASSUME QInv, NEW c \in Callers, writeUpdate(c) PROVE QInv'
<1>1. work[c] # <<>> /\ Head(work[c]).entry \in DOMAIN queue /\ Head(work[c]).status \in QueueStatuses
  BY HeadIsHeld, HeldByName DEF writeUpdate, Doing
<1>2. <<>> \in Seq(Held')
  BY ShortHeld
<1>. QED BY <1>1, <1>2, SetEntryQInv DEF writeUpdate

-----------------------------------------------------------------------------
(* The sessions.                                                           *)

\* One session and its process are added: the tables of both stay in step.
LEMMA OpenType ==
    ASSUME QInv, NEW row \in Sessions, row.entry \in DOMAIN queue, Open(row),
           UNCHANGED <<queue, connected, pollers>>
    PROVE  /\ NodeTyped' /\ DOMAIN sessions \subseteq DOMAIN sessions'
           /\ Len(sessions) + 1 \in DOMAIN sessions'
<1>. DEFINE new == [meta |-> connected, alive |-> FALSE]
<1>1. /\ sessions \in Seq(Sessions) /\ procs \in Seq(Procs) /\ Len(procs) = Len(sessions)
      /\ Len(sessions) \in Nat
  BY LenProperties DEF QInv, NodeTyped
<1>2. new \in Procs
  BY DEF QInv, NodeTyped, Procs
<1>3. sessions' = Append(sessions, row) /\ procs' = Append(procs, new)
  BY DEF Open
<1>4. /\ sessions' \in Seq(Sessions) /\ procs' \in Seq(Procs)
      /\ Len(sessions') = Len(sessions) + 1 /\ Len(procs') = Len(sessions) + 1
  BY <1>1, <1>2, <1>3, AppendProperties
<1>5. DOMAIN sessions = 1 .. Len(sessions) /\ DOMAIN sessions' = 1 .. (Len(sessions) + 1)
  BY <1>1, <1>4, LenProperties
<1>6. ASSUME NEW s \in DOMAIN sessions' PROVE sessions'[s].entry \in DOMAIN queue'
  <2>1. CASE s \in DOMAIN sessions
    <3>1. sessions'[s] = sessions[s]
      BY <1>1, <1>3, <1>5, <2>1, AppendProperties
    <3>. QED BY <2>1, <3>1, SessionType
  <2>2. CASE s \notin DOMAIN sessions
    <3>1. s = Len(sessions) + 1
      BY <1>1, <1>5, <1>6, <2>2
    <3>2. sessions'[s] = row
      BY <1>1, <1>3, <3>1, AppendProperties
    <3>. QED BY <3>2
  <2>. QED BY <2>1, <2>2
<1>7. connected' \in BOOLEAN /\ pollers' \in SUBSET Callers
  BY DEF QInv, NodeTyped
<1>8. NodeTyped'
  BY <1>4, <1>6, <1>7 DEF NodeTyped
<1>9. DOMAIN sessions \subseteq DOMAIN sessions' /\ Len(sessions) + 1 \in DOMAIN sessions'
  BY <1>1, <1>5
<1>. QED BY <1>8, <1>9

LEMMA openSessionQInv ==
    ASSUME QInv, NEW c \in Callers, openSession(c) PROVE QInv'
<1>. DEFINE e == Head(work[c]).entry
            row == [entry |-> e, task |-> queue[e].task, status |-> "pending"]
            ops == <<OnSession("prompt", Len(sessions) + 1)>>
<1>1. work[c] # <<>> /\ e \in DOMAIN queue /\ queue[e].task \in Tasks
  BY HeadEntry, EntryType DEF openSession, Doing, EntryNames
<1>2. row \in Sessions
  <2>1. DOMAIN queue \subseteq Nat
    BY LenProperties DEF QInv, Tables
  <2>. QED BY <1>1, <2>1 DEF Sessions
<1>3. Open(row) /\ Then(c, ops) /\ UNCHANGED <<task, queue, load, enabled, guard, calls, connected, pollers>>
  BY DEF openSession
<1>4. /\ NodeTyped' /\ DOMAIN sessions \subseteq DOMAIN sessions'
      /\ Len(sessions) + 1 \in DOMAIN sessions'
  <2>1. row.entry \in DOMAIN queue
    BY <1>1
  <2>. QED BY <1>2, <1>3, <2>1, OpenType
<1>5. OnSession("prompt", Len(sessions) + 1) \in Held'
  BY <1>4 DEF Held, OnSession
<1>6. ops \in Seq(Held')
  BY <1>5, ShortHeld
<1>. QED BY <1>1, <1>3, <1>4, <1>6, NodeWritten

LEMMA autoProcessReviewQInv ==
    ASSUME QInv, NEW c \in Callers, autoProcessReview(c) PROVE QInv'
<1>. DEFINE e == Head(work[c]).entry
            row == [entry |-> e, task |-> NoTask, status |-> "pending"]
            ops == <<OnSession("prompt", Len(sessions) + 1), OnEntry("mark", e)>>
<1>1. work[c] # <<>> /\ e \in DOMAIN queue
  BY HeadEntry DEF autoProcessReview, Doing, EntryNames
<1>2. CASE Open(row) /\ Then(c, ops)
  <2>1. row \in Sessions
    <3>1. DOMAIN queue \subseteq Nat
      BY LenProperties DEF QInv, Tables
    <3>. QED BY <1>1, <3>1 DEF Sessions
  <2>2. UNCHANGED <<task, queue, load, enabled, guard, calls, connected, pollers>>
    BY DEF autoProcessReview
  <2>3. /\ NodeTyped' /\ DOMAIN sessions \subseteq DOMAIN sessions'
        /\ Len(sessions) + 1 \in DOMAIN sessions'
    <3>1. row.entry \in DOMAIN queue
      BY <1>1
    <3>. QED BY <1>2, <2>1, <2>2, <3>1, OpenType
  <2>4. OnSession("prompt", Len(sessions) + 1) \in Held'
    BY <2>3 DEF Held, OnSession
  <2>5. OnEntry("mark", e) \in Held'
    BY <1>1, <2>2 DEF Held, OnEntry, EntryNames
  <2>6. ops \in Seq(Held')
    BY <2>4, <2>5, ShortHeld
  <2>. QED BY <1>1, <1>2, <2>2, <2>3, <2>6, NodeWritten
<1>3. CASE Then(c, <<>>) /\ UNCHANGED <<sessions, procs>>
  <2>1. UNCHANGED <<task, queue, load, guard, queueVars>> /\ UNCHANGED <<enabled, calls>>
    BY <1>3 DEF autoProcessReview, queueVars
  <2>2. enabled' \in SUBSET Agents /\ calls' \in Nat
    BY <2>1, LoadsType
  <2>3. <<>> \in Seq(Held)
    BY ShortSeqs
  <2>. QED BY <1>1, <1>3, <2>1, <2>2, <2>3, OnlyWork
<1>. QED BY <1>2, <1>3 DEF autoProcessReview

\* Sessions or processes are changed, none is added.
LEMMA NodeChanged ==
    ASSUME QInv, NEW c \in Callers, NEW ops \in Seq(Held),
           (work[c] # <<>> /\ Then(c, ops)) \/ work' = [work EXCEPT ![c] = ops],
           UNCHANGED <<task, queue, load, enabled, guard, calls>>,
           sessions' \in Seq(Sessions), DOMAIN sessions' = DOMAIN sessions,
           \A s \in DOMAIN sessions : sessions'[s].entry = sessions[s].entry,
           procs' \in Seq(Procs), DOMAIN procs' = DOMAIN procs,
           connected' \in BOOLEAN, pollers' \in SUBSET Callers
    PROVE  QInv'
<1>1. Grown
  BY DEF Grown
<1>2. ops \in Seq(Held')
  BY <1>1, HeldGrows, SeqMonotonic
<1>3. Len(procs') = Len(sessions')
  <2>1. /\ sessions \in Seq(Sessions) /\ procs \in Seq(Procs) /\ Len(procs) = Len(sessions)
        /\ sessions' \in Seq(Sessions) /\ procs' \in Seq(Procs)
    BY DEF QInv, NodeTyped
  <2>2. DOMAIN procs' = DOMAIN sessions'
    BY <2>1, LenProperties
  <2>. QED BY <2>1, <2>2, LenProperties
<1>4. NodeTyped'
  BY <1>3 DEF QInv, NodeTyped
<1>. QED BY <1>1, <1>2, <1>4, NodeWritten

LEMMA supersedeQInv ==
    ASSUME QInv, NEW c \in Callers, supersede(c) PROVE QInv'
<1>. DEFINE s == Head(work[c]).session
            row == [sessions[s] EXCEPT !.status = "failed"]
<1>1. work[c] # <<>> /\ s \in DOMAIN sessions
  BY HeadIsHeld, HeldByName DEF supersede, Doing
<1>2. row \in Sessions /\ row.entry = sessions[s].entry
  BY <1>1, SessionType DEF Sessions
<1>3. sessions' = [sessions EXCEPT ![s] = row]
  BY DEF supersede
<1>4. sessions \in Seq(Sessions) /\ s \in 1 .. Len(sessions) /\ procs \in Seq(Procs)
      /\ connected \in BOOLEAN /\ pollers \in SUBSET Callers
  BY <1>1, LenProperties DEF QInv, NodeTyped
<1>5. sessions' \in Seq(Sessions) /\ DOMAIN sessions' = DOMAIN sessions
  BY <1>2, <1>3, <1>4, ExceptSeq
<1>6. \A x \in DOMAIN sessions : sessions'[x].entry = sessions[x].entry
  BY <1>2, <1>3
<1>7. <<>> \in Seq(Held)
  BY ShortSeqs
<1>. QED BY <1>1, <1>4, <1>5, <1>6, <1>7, NodeChanged DEF supersede

LEMMA deliverPromptQInv ==
    ASSUME QInv, NEW c \in Callers, deliverPrompt(c) PROVE QInv'
<1>. DEFINE s == Head(work[c]).session
            proc == [procs[s] EXCEPT !.alive = connected]
<1>1. work[c] # <<>> /\ s \in DOMAIN sessions
  BY HeadIsHeld, HeldByName DEF deliverPrompt, Doing
<1>2. /\ procs \in Seq(Procs) /\ connected \in BOOLEAN /\ pollers \in SUBSET Callers
      /\ sessions \in Seq(Sessions)
  BY DEF QInv, NodeTyped
<1>3. proc \in Procs /\ s \in 1 .. Len(procs)
  BY <1>1, <1>2, SessionType, LenProperties DEF Procs
<1>4. procs' = [procs EXCEPT ![s] = proc]
  BY DEF deliverPrompt
<1>5. procs' \in Seq(Procs) /\ DOMAIN procs' = DOMAIN procs
  BY <1>2, <1>3, <1>4, ExceptSeq
<1>6. <<>> \in Seq(Held)
  BY ShortSeqs
<1>. QED BY <1>1, <1>2, <1>5, <1>6, NodeChanged DEF deliverPrompt

LEMMA closeSessionsQInv ==
    ASSUME QInv, NEW c \in Callers, closeSessions(c) PROVE QInv'
<1>. DEFINE o == Head(work[c])
<1>1. work[c] # <<>> /\ o.status \in {"completed", "failed"}
  BY HeadIsHeld, HeldByName DEF closeSessions, Doing
<1>2. /\ procs \in Seq(Procs) /\ connected \in BOOLEAN /\ pollers \in SUBSET Callers
      /\ sessions \in Seq(Sessions)
  BY DEF QInv, NodeTyped
<1>3. ASSUME NEW s \in DOMAIN sessions
      PROVE  sessions'[s] \in Sessions /\ sessions'[s].entry = sessions[s].entry
  <2>1. sessions'[s] = sessions[s] \/ sessions'[s] = [sessions[s] EXCEPT !.status = o.status]
    BY DEF closeSessions
  <2>2. sessions[s] \in Sessions
    BY SessionType
  <2>. QED BY <1>1, <2>1, <2>2 DEF Sessions
<1>4. sessions' = [s \in DOMAIN sessions |-> sessions'[s]] /\ DOMAIN sessions' = DOMAIN sessions
  BY DEF closeSessions
<1>5. sessions' \in Seq(Sessions)
  BY <1>2, <1>3, <1>4, MapIsSeq
<1>6. <<>> \in Seq(Held)
  BY ShortSeqs
<1>. QED BY <1>1, <1>2, <1>3, <1>4, <1>5, <1>6, NodeChanged DEF closeSessions


-----------------------------------------------------------------------------
(* The end of a process and what follows it.                               *)

\* A step that writes a load and its continuation.
LEMMA LoadWritten ==
    ASSUME QInv, NEW c \in Callers, NEW ops \in Seq(Held),
           (work[c] # <<>> /\ Then(c, ops)) \/ work' = [work EXCEPT ![c] = ops],
           UNCHANGED <<task, queue, guard, queueVars>>,
           load' \in [Agents -> Nat], enabled' \in SUBSET Agents, calls' \in Nat
    PROVE  QInv'
<1>1. queue' \in Seq(Entries) /\ DOMAIN queue \subseteq DOMAIN queue'
  BY LoadsType
<1>2. ops \in Seq(Held')
  <2>1. Held' = Held
    BY DEF Held, queueVars
  <2>. QED BY <2>1
<1>. QED BY <1>1, <1>2, QueueWritten

LEMMA lowerLoadQInv ==
    ASSUME QInv, NEW c \in Callers, lowerLoad(c) PROVE QInv'
<1>1. work[c] # <<>> /\ Head(work[c]).agent \in Agents
  BY HeadIsHeld, HeldByName DEF lowerLoad, Doing
<1>2. load' \in [Agents -> Nat] /\ enabled' \in SUBSET Agents /\ calls' \in Nat
  <2>1. load' = [load EXCEPT ![Head(work[c]).agent] =
                   IF load[Head(work[c]).agent] > 0 THEN load[Head(work[c]).agent] - 1 ELSE 0]
    BY DEF lowerLoad
  <2>. QED BY <1>1, <2>1, LoadsType DEF lowerLoad
<1>3. <<>> \in Seq(Held)
  BY ShortSeqs
<1>. QED BY <1>1, <1>2, <1>3, LoadWritten DEF lowerLoad

LEMMA zeroLoadQInv ==
    ASSUME QInv, NEW c \in Callers, zeroLoad(c) PROVE QInv'
<1>1. work[c] # <<>>
  BY DEF zeroLoad, Doing
<1>2. load' \in [Agents -> Nat] /\ enabled' \in SUBSET Agents /\ calls' \in Nat
  BY LoadsType DEF zeroLoad
<1>3. <<>> \in Seq(Held)
  BY ShortSeqs
<1>. QED BY <1>1, <1>2, <1>3, LoadWritten DEF zeroLoad

LEMMA completeTaskQInv ==
    ASSUME QInv, NEW c \in Callers, completeTask(c) PROVE QInv'
<1>. DEFINE o == Head(work[c])
            t == queue[o.entry].task
            two == <<Transition(t, "completed", o.summary), OnEntry("follow", o.entry)>>
            ops == IF Live(t) /\ task[t].pending # <<>> THEN <<>> ELSE two
<1>1. work[c] # <<>> /\ Then(c, ops)
  BY DEF completeTask, Doing
<1>2. o.entry \in DOMAIN queue /\ o.summary \in BOOLEAN
  BY <1>1, HeadIsHeld, HeldByName DEF completeTask, Doing
<1>3. Transition(t, "completed", o.summary) \in Held /\ OnEntry("follow", o.entry) \in Held
  BY <1>2, EntryType, HeldOps DEF EntryNames, Statuses
<1>4. ops \in Seq(Held)
  BY <1>3, ShortSeqs
<1>5. enabled' \in SUBSET Agents /\ calls' \in Nat /\ UNCHANGED <<task, queue, load, guard, queueVars>>
  BY LoadsType DEF completeTask
<1>. QED BY <1>1, <1>4, <1>5, OnlyWork

LEMMA queueForReviewQInv ==
    ASSUME QInv, NEW c \in Callers, queueForReview(c) PROVE QInv'
<1>. DEFINE e == queue[Head(work[c]).entry]
            row == task[e.task]
            wanted == /\ Live(e.task) /\ row.status = "review"
                      /\ row.assignee \notin {NoAgent, e.agent}
                      /\ ~ActiveFor(queue, e.task, row.assignee)
            insert == [op |-> "insertReview", task |-> e.task, agent |-> row.assignee]
            ops == IF wanted THEN <<insert>> ELSE <<>>
<1>1. work[c] # <<>> /\ Then(c, ops)
  BY DEF queueForReview, Doing
<1>2. e.task \in Tasks /\ row \in Rows
  BY HeadEntry, EntryType DEF queueForReview, Doing, EntryNames
<1>3. wanted => row.assignee \in Agents
  BY <1>2 DEF Rows
<1>4. wanted => insert \in Held
  BY <1>2, <1>3, HeldOps
<1>5. ops \in Seq(Held)
  BY <1>4, ShortSeqs
<1>6. enabled' \in SUBSET Agents /\ calls' \in Nat /\ UNCHANGED <<task, queue, load, guard, queueVars>>
  BY LoadsType DEF queueForReview
<1>. QED BY <1>1, <1>5, <1>6, OnlyWork

LEMMA insertReviewQInv ==
    ASSUME QInv, NEW c \in Callers, insertReview(c) PROVE QInv'
<1>. DEFINE o == Head(work[c])
            ops == <<OnAgent("bump", o.agent), OnEntry("openReview", Len(queue) + 1)>>
<1>1. work[c] # <<>> /\ o.task \in Tasks /\ o.agent \in Agents
  BY HeadIsHeld, HeldByName DEF insertReview, Doing
<1>2. /\ queue' \in Seq(Entries) /\ DOMAIN queue \subseteq DOMAIN queue'
      /\ Len(queue) + 1 \in DOMAIN queue'
  BY <1>1, EntryAdded DEF insertReview
<1>3. OnAgent("bump", o.agent) \in Held' /\ OnEntry("openReview", Len(queue) + 1) \in Held'
  <2>1. OnAgent("bump", o.agent) \in SoundOps
    BY <1>1, SoundByName DEF OnAgent
  <2>. QED BY <1>2, <2>1 DEF Held, OnEntry, EntryNames
<1>4. ops \in Seq(Held')
  BY <1>3, ShortHeld
<1>5. load' \in [Agents -> Nat] /\ enabled' \in SUBSET Agents /\ calls' \in Nat
  BY LoadsType DEF insertReview
<1>6. Then(c, ops) /\ UNCHANGED <<task, guard, queueVars>>
  BY DEF insertReview
<1>. QED BY <1>1, <1>2, <1>4, <1>5, <1>6, QueueWritten

\* What the end of a process is reported as.
LEMMA ReportHeld ==
    ASSUME QInv, NEW e \in DOMAIN queue, NEW status \in {"completed", "failed"}, NEW summary \in BOOLEAN
    PROVE  Report(e, status, summary) \in Seq(Held)
<1>. DEFINE complete == [op |-> "complete", entry |-> e, summary |-> summary]
            three == <<[op |-> "settle", entry |-> e, status |-> status],
                       OnAgent("lower", queue[e].agent),
                       [op |-> "close", entry |-> e, status |-> status]>>
            last == IF status = "completed" THEN <<complete>> ELSE <<>>
<1>1. /\ [op |-> "settle", entry |-> e, status |-> status] \in Held
      /\ [op |-> "close", entry |-> e, status |-> status] \in Held /\ complete \in Held
  BY HeldOps
<1>2. OnAgent("lower", queue[e].agent) \in Held
  BY EntryType, HeldOps
<1>3. three \in Seq(Held) /\ last \in Seq(Held)
  BY <1>1, <1>2, ShortSeqs
<1>4. three \o last \in Seq(Held)
  BY <1>3, ConcatProperties
<1>. QED BY <1>4 DEF Report

LEMMA handleSessionCompleteQInv ==
    ASSUME QInv, NEW c \in Callers, NEW s \in DOMAIN sessions, handleSessionComplete(c, s) PROVE QInv'
<1>1. PICK status \in {"completed", "failed"}, summary \in BOOLEAN :
         work' = [work EXCEPT ![c] = IF procs[s].meta THEN Report(sessions[s].entry, status, summary)
                                     ELSE <<>>]
  BY DEF handleSessionComplete
<1>. DEFINE ops == IF procs[s].meta THEN Report(sessions[s].entry, status, summary) ELSE <<>>
            proc == [meta |-> FALSE, alive |-> FALSE]
<1>2. ops \in Seq(Held)
  BY SessionType, ReportHeld, ShortSeqs
<1>3. /\ procs \in Seq(Procs) /\ connected \in BOOLEAN /\ pollers \in SUBSET Callers
      /\ sessions \in Seq(Sessions)
  BY DEF QInv, NodeTyped
<1>4. proc \in Procs /\ s \in 1 .. Len(procs)
  BY <1>3, SessionType, LenProperties DEF Procs
<1>5. procs' = [procs EXCEPT ![s] = proc]
  BY DEF handleSessionComplete
<1>6. procs' \in Seq(Procs) /\ DOMAIN procs' = DOMAIN procs
  BY <1>3, <1>4, <1>5, ExceptSeq
<1>. QED BY <1>1, <1>2, <1>3, <1>6, NodeChanged DEF handleSessionComplete

-----------------------------------------------------------------------------
(* Assignment by the scheduler, and the queue as users change it.          *)

LEMMA AutoAssignQInv ==
    ASSUME QInv, NEW c \in Callers, NEW t \in Tasks, AutoAssign(c, t) PROVE QInv'
<1>. DEFINE ops == <<OnEntry("auto", Len(queue) + 1)>>
<1>1. PICK a \in enabled :
         /\ queue' = Append(queue, [task |-> t, agent |-> a, status |-> "queued"])
         /\ load' = [load EXCEPT ![a] = @ + 1]
  BY DEF AutoAssign
<1>2. a \in Agents
  BY LoadsType
<1>3. /\ queue' \in Seq(Entries) /\ DOMAIN queue \subseteq DOMAIN queue'
      /\ Len(queue) + 1 \in DOMAIN queue'
  BY <1>1, <1>2, EntryAdded
<1>4. OnEntry("auto", Len(queue) + 1) \in Held'
  BY <1>3 DEF Held, OnEntry, EntryNames
<1>5. ops \in Seq(Held')
  BY <1>4, ShortHeld
<1>6. load' \in [Agents -> Nat] /\ enabled' \in SUBSET Agents /\ calls' \in Nat
  BY <1>1, <1>2, LoadsType DEF AutoAssign, NodeRequest
<1>7. work' = [work EXCEPT ![c] = ops] /\ UNCHANGED <<task, guard, queueVars>>
  BY DEF AutoAssign
<1>. QED BY <1>3, <1>5, <1>6, <1>7, QueueWritten

LEMMA autoProcessTaskQInv ==
    ASSUME QInv, NEW c \in Callers, autoProcessTask(c) PROVE QInv'
<1>. DEFINE e == Head(work[c]).entry
<1>1. work[c] # <<>> /\ e \in DOMAIN queue
  BY HeadEntry DEF autoProcessTask, Doing, EntryNames
<1>2. UNCHANGED <<task, load, enabled, guard, calls, queueVars>>
  BY DEF autoProcessTask
<1>3. CASE Then(c, <<>>) /\ SetEntry(e, "queued")
  <2>1. "queued" \in QueueStatuses /\ <<>> \in Seq(Held')
    BY ShortHeld DEF QueueStatuses
  <2>. QED BY <1>1, <1>2, <1>3, <2>1, SetEntryQInv
<1>4. ASSUME NEW ops \in Seq(Held), Then(c, ops), UNCHANGED queue
      PROVE  QInv'
  <2>1. enabled' \in SUBSET Agents /\ calls' \in Nat
    BY <1>2, LoadsType
  <2>. QED BY <1>1, <1>2, <1>4, <2>1, OnlyWork
<1>5. <<OnEntry("open", e), OnEntry("mark", e)>> \in Seq(Held) /\ <<>> \in Seq(Held)
  <2>1. OnEntry("open", e) \in Held /\ OnEntry("mark", e) \in Held
    BY <1>1, HeldOps DEF EntryNames
  <2>. QED BY <2>1, ShortSeqs
<1>6. \/ Then(c, <<>>) /\ SetEntry(e, "queued")
      \/ Then(c, <<>>) /\ UNCHANGED queue
      \/ Then(c, <<OnEntry("open", e), OnEntry("mark", e)>>) /\ UNCHANGED queue
  BY DEF autoProcessTask, SetEntry
<1>. QED BY <1>3, <1>4, <1>5, <1>6

LEMMA ClaimByUserQInv ==
    ASSUME QInv, NEW c \in Callers, NEW e \in DOMAIN queue, ClaimByUser(c, e) PROVE QInv'
<1>1. <<OnEntry("claimWrite", e)>> \in Seq(Held)
  BY HeldOps, ShortSeqs DEF EntryNames
<1>2. enabled' \in SUBSET Agents /\ calls' \in Nat
  BY LoadsType DEF ClaimByUser, NodeRequest
<1>. QED BY <1>1, <1>2, OnlyWork DEF ClaimByUser

LEMMA UpdateStatusQInv ==
    ASSUME QInv, NEW c \in Callers, NEW e \in DOMAIN queue, NEW status \in QueueStatuses,
           UpdateStatus(c, e, status)
    PROVE  QInv'
<1>. DEFINE ends == status \in {"completed", "failed"} /\ queue[e].status \in {"claimed", "processing"}
            last == IF ends THEN <<OnAgent("lower", queue[e].agent)>> ELSE <<>>
            ops == <<[op |-> "update", entry |-> e, status |-> status]>> \o last
<1>1. work' = [work EXCEPT ![c] = ops] /\ UNCHANGED <<task, queue, load, guard, queueVars>>
  BY DEF UpdateStatus
<1>2. /\ [op |-> "update", entry |-> e, status |-> status] \in Held
      /\ OnAgent("lower", queue[e].agent) \in Held
  BY EntryType, HeldOps
<1>3. <<[op |-> "update", entry |-> e, status |-> status]>> \in Seq(Held) /\ last \in Seq(Held)
  BY <1>2, ShortSeqs
<1>4. ops \in Seq(Held)
  BY <1>3, ConcatProperties
<1>5. enabled' \in SUBSET Agents /\ calls' \in Nat
  BY LoadsType DEF UpdateStatus, NodeRequest
<1>. QED BY <1>1, <1>4, <1>5, OnlyWork


-----------------------------------------------------------------------------
(* Agents that are disabled, and the node's connection.                    *)

LEMMA DisableProfileQInv ==
    ASSUME QInv, NEW c \in Callers, NEW a \in Agents, DisableProfile(c, a) PROVE QInv'
<1>1. <<OnAgent("failAgent", a), OnAgent("zero", a)>> \in Seq(Held)
  BY HeldOps, ShortSeqs
<1>2. enabled' \in SUBSET Agents /\ calls' \in Nat
  BY LoadsType DEF DisableProfile, NodeRequest
<1>. QED BY <1>1, <1>2, OnlyWork DEF DisableProfile

\* The statements that fail the entries of an agent or of the node.
LEMMA EntriesFailed ==
    ASSUME QInv, NEW c \in Callers, work[c] # <<>>, Then(c, <<>>),
           UNCHANGED <<task, load, enabled, guard, calls, queueVars>>,
           queue' = [i \in DOMAIN queue |-> queue'[i]], DOMAIN queue' = DOMAIN queue,
           \A i \in DOMAIN queue : queue'[i] \in {queue[i], [queue[i] EXCEPT !.status = "failed"]}
    PROVE  QInv'
<1>1. ASSUME NEW i \in DOMAIN queue PROVE queue'[i] \in Entries
  <2>1. queue[i] \in Entries
    BY EntryType
  <2>. QED BY <2>1 DEF Entries, QueueStatuses
<1>2. queue' \in Seq(Entries)
  BY <1>1, EntriesMapped
<1>3. load' \in [Agents -> Nat] /\ enabled' \in SUBSET Agents /\ calls' \in Nat
  BY LoadsType
<1>4. <<>> \in Seq(Held')
  BY ShortHeld
<1>. QED BY <1>2, <1>3, <1>4, QueueWritten

LEMMA failEntriesOfAgentQInv ==
    ASSUME QInv, NEW c \in Callers, failEntriesOfAgent(c) PROVE QInv'
<1>1. /\ queue' = [i \in DOMAIN queue |-> queue'[i]] /\ DOMAIN queue' = DOMAIN queue
      /\ \A i \in DOMAIN queue : queue'[i] \in {queue[i], [queue[i] EXCEPT !.status = "failed"]}
  BY DEF failEntriesOfAgent
<1>. QED BY <1>1, EntriesFailed DEF failEntriesOfAgent, Doing

LEMMA failEntriesOfNodeQInv ==
    ASSUME QInv, NEW c \in Callers, failEntriesOfNode(c) PROVE QInv'
<1>1. /\ queue' = [i \in DOMAIN queue |-> queue'[i]] /\ DOMAIN queue' = DOMAIN queue
      /\ \A i \in DOMAIN queue : queue'[i] \in {queue[i], [queue[i] EXCEPT !.status = "failed"]}
  BY DEF failEntriesOfNode
<1>. QED BY <1>1, EntriesFailed DEF failEntriesOfNode, Doing

LEMMA EnableProfileQInv ==
    ASSUME QInv, NEW a \in Agents, EnableProfile(a) PROVE QInv'
<1>1. NodeTyped' /\ Grown
  BY NodeKept DEF EnableProfile
<1>2. (work \in [Callers -> Seq(Held)])'
  BY <1>1, WorkKept DEF EnableProfile
<1>3. Tables'
  BY DEF QInv, Tables, CompletedNeverStored, EnableProfile, NodeRequest
<1>. QED BY <1>1, <1>2, <1>3 DEF QInv

LEMMA StopNodeQInv ==
    ASSUME QInv, NEW c \in Callers, StopNode(c) PROVE QInv'
<1>1. <<[op |-> "failNode"], [op |-> "stopRuntime"]>> \in Seq(Held)
  <2>1. [op |-> "failNode"] \in Held /\ [op |-> "stopRuntime"] \in Held
    BY HeldOps
  <2>. QED BY <2>1, ShortSeqs
<1>2. load' \in [Agents -> Nat] /\ enabled' \in SUBSET Agents /\ calls' \in Nat
  BY LoadsType DEF StopNode, NodeRequest
<1>. QED BY <1>1, <1>2, LoadWritten DEF StopNode

\* What is left of the continuation of a poller is a part of it.
LEMMA AbandonedType ==
    ASSUME NEW S, NEW ops \in Seq(S) PROVE Abandoned(ops) \in Seq(S)
<1>. DEFINE ofServer == {i \in DOMAIN ops : ops[i].op \notin {"claim", "process", "create"}}
            n == Cardinality(ofServer)
<1>1. DOMAIN ops = 1 .. Len(ops) /\ Len(ops) \in Nat
  BY LenProperties
<1>2. n \in Nat /\ n <= Len(ops)
  <2>1. IsFiniteSet(1 .. Len(ops)) /\ Cardinality(1 .. Len(ops)) = Len(ops)
    BY <1>1, FS_Interval
  <2>2. ofServer \in SUBSET (1 .. Len(ops))
    BY <1>1
  <2>. HIDE DEF ofServer
  <2>. QED BY <2>1, <2>2, FS_Subset, FS_CardinalityType
<1>3. \A i \in 1 .. n : ops[i] \in S
  BY <1>1, <1>2, ElementOfSeq
<1>4. SubSeq(ops, 1, n) \in Seq(S)
  <2>. HIDE DEF n
  <2>. QED BY <1>2, <1>3, SubSeqProperties
<1>. QED BY <1>4 DEF Abandoned

LEMMA stopRuntimeQInv ==
    ASSUME QInv, NEW c \in Callers, stopRuntime(c) PROVE QInv'
<1>1. work[c] # <<>> /\ work[c] \in Seq(Held)
  BY DEF stopRuntime, Doing, QInv
<1>2. UNCHANGED <<task, queue, load, enabled, guard, calls>>
  BY DEF stopRuntime
<1>3. CASE Then(c, <<>>) /\ UNCHANGED queueVars
  <2>1. enabled' \in SUBSET Agents /\ calls' \in Nat /\ <<>> \in Seq(Held)
    BY <1>2, LoadsType, ShortSeqs
  <2>. QED BY <1>1, <1>2, <1>3, <2>1, OnlyWork
<1>4. CASE /\ connected' = FALSE /\ pollers' = {} /\ UNCHANGED sessions
           /\ procs' = [s \in DOMAIN procs |-> [meta |-> FALSE, alive |-> FALSE]]
           /\ work' = [d \in Callers |-> IF d = c THEN Tail(work[c])
                                         ELSE IF d \in pollers THEN Abandoned(work[d]) ELSE work[d]]
  <2>1. Held' = Held
    BY <1>2, <1>4 DEF Held
  <2>2. ASSUME NEW d \in Callers PROVE work'[d] \in Seq(Held)
    <3>1. work[d] \in Seq(Held)
      BY DEF QInv
    <3>2. Abandoned(work[d]) \in Seq(Held)
      BY <3>1, AbandonedType
    <3>3. Tail(work[c]) \in Seq(Held)
      BY <1>1, HeadTailProperties
    <3>. QED BY <1>4, <3>1, <3>2, <3>3
  <2>3. (work \in [Callers -> Seq(Held)])'
    BY <1>4, <2>1, <2>2
  <2>4. procs' \in Seq(Procs) /\ Len(procs') = Len(procs)
    <3>1. procs \in Seq(Procs)
      BY DEF QInv, NodeTyped
    <3>2. \A s \in DOMAIN procs : procs'[s] \in Procs
      BY <1>4 DEF Procs
    <3>3. procs' = [s \in DOMAIN procs |-> procs'[s]] /\ DOMAIN procs' = DOMAIN procs
      BY <1>4
    <3>4. procs' \in Seq(Procs)
      BY <3>1, <3>2, <3>3, MapIsSeq
    <3>. QED BY <3>1, <3>3, <3>4, LenProperties
  <2>5. NodeTyped'
    BY <1>2, <1>4, <2>4 DEF QInv, NodeTyped
  <2>6. Tables'
    BY <1>2 DEF QInv, Tables, CompletedNeverStored
  <2>. QED BY <2>3, <2>5, <2>6 DEF QInv
<1>. QED BY <1>3, <1>4 DEF stopRuntime

LEMMA ConnectionQInv ==
    ASSUME QInv, Disconnect \/ \E c \in Callers : Reconnect(c) PROVE QInv'
<1>1. /\ UNCHANGED <<task, queue, load, enabled, guard, work, sessions, procs>>
      /\ connected' \in BOOLEAN /\ pollers' \in SUBSET Callers /\ calls' \in Nat
  <2>1. CASE Disconnect
    <3>1. connected' = FALSE /\ pollers' = pollers /\ calls' = calls + 1
          /\ UNCHANGED <<task, queue, load, enabled, guard, work, sessions, procs>>
      BY <2>1 DEF Disconnect, NodeRequest
    <3>2. pollers \in SUBSET Callers /\ calls \in Nat
      BY DEF QInv, NodeTyped, Tables
    <3>3. calls' \in Nat
      BY <3>1, <3>2
    <3>. QED BY <3>1, <3>2, <3>3, Zenon
  <2>2. ASSUME NEW c \in Callers, Reconnect(c)
        PROVE  /\ UNCHANGED <<task, queue, load, enabled, guard, work, sessions, procs>>
               /\ connected' \in BOOLEAN /\ pollers' \in SUBSET Callers /\ calls' \in Nat
    <3>1. connected' = TRUE /\ pollers' = pollers \cup {c}
          /\ UNCHANGED <<task, queue, load, enabled, guard, work, calls, sessions, procs>>
      BY <2>2 DEF Reconnect, vars
    <3>2. pollers \in SUBSET Callers /\ calls \in Nat
      BY DEF QInv, NodeTyped, Tables
    <3>. QED BY <3>1, <3>2
  <2>. QED BY <2>1, <2>2
<1>2. NodeTyped' /\ Grown
  BY <1>1 DEF QInv, NodeTyped, Grown
<1>3. (work \in [Callers -> Seq(Held)])'
  BY <1>1, <1>2, WorkKept
<1>4. Tables'
  BY <1>1 DEF QInv, Tables, CompletedNeverStored
<1>. QED BY <1>2, <1>3, <1>4 DEF QInv

-----------------------------------------------------------------------------
(* The specification.                                                      *)

LEMMA QueueStepQInv ==
    ASSUME QInv, NEW c \in Callers, QueueStep(c) PROVE QInv'
BY claimQInv, ClaimQueueItemQInv, startProcessingQInv, CreateSessionQInv, findStaleQInv,
   supersedeQInv, openSessionQInv, deliverPromptQInv, settleEntryQInv, lowerLoadQInv,
   closeSessionsQInv, completeTaskQInv, queueForReviewQInv, insertReviewQInv,
   autoProcessReviewQInv, markProcessingQInv, autoProcessTaskQInv, failEntriesOfAgentQInv,
   zeroLoadQInv, failEntriesOfNodeQInv, stopRuntimeQInv, writeUpdateQInv
   DEF QueueStep

LEMMA QueueInitQInv == QueueInit => QInv
<1>. SUFFICES ASSUME QueueInit PROVE QInv
  OBVIOUS
<1>1. Tables
  BY InitInv DEF QueueInit, IInv
<1>2. NodeTyped
  BY NodeAssumption, EmptySeq DEF QueueInit, NodeTyped
<1>3. work \in [Callers -> Seq(Held)]
  BY ShortSeqs DEF QueueInit, Init
<1>. QED BY <1>1, <1>2, <1>3 DEF QInv

LEMMA QueueNextQInv == QInv /\ [QueueNext]_allVars => QInv'
<1>. SUFFICES ASSUME QInv, [QueueNext]_allVars PROVE QInv'
  OBVIOUS
<1>1. ASSUME NEW c \in Callers, ServiceStep(c), UNCHANGED queueVars PROVE QInv'
  BY <1>1, ServiceQInv
<1>2. CASE Requests /\ UNCHANGED queueVars
  BY <1>2, RequestsQInv
<1>3. CASE ServerRestart
  BY <1>3, ServerRestartQInv
<1>4. ASSUME NEW c \in Callers, QueueStep(c) \/ pollQueue(c) PROVE QInv'
  BY <1>4, QueueStepQInv, pollQueueQInv
<1>5. ASSUME NEW c \in Callers, NEW s \in DOMAIN sessions, handleSessionComplete(c, s) PROVE QInv'
  BY <1>5, handleSessionCompleteQInv
<1>6. ASSUME NEW c \in Callers, NEW t \in Tasks, AutoAssign(c, t) PROVE QInv'
  BY <1>6, AutoAssignQInv
<1>7. ASSUME NEW c \in Callers, NEW a \in Agents, DisableProfile(c, a) PROVE QInv'
  BY <1>7, DisableProfileQInv
<1>8. ASSUME NEW c \in Callers, NEW e \in DOMAIN queue,
             \/ ClaimByUser(c, e)
             \/ \E status \in QueueStatuses : UpdateStatus(c, e, status)
      PROVE  QInv'
  BY <1>8, ClaimByUserQInv, UpdateStatusQInv
<1>9. ASSUME NEW c \in Callers, StopNode(c) PROVE QInv'
  BY <1>9, StopNodeQInv
<1>10. ASSUME NEW a \in Agents, EnableProfile(a) PROVE QInv'
  BY <1>10, EnableProfileQInv
<1>11. CASE Disconnect \/ \E c \in Callers : Reconnect(c)
  BY <1>11, ConnectionQInv
<1>12. CASE UNCHANGED allVars
  <2>1. NodeTyped' /\ Grown /\ UNCHANGED work
    BY <1>12, NodeKept DEF allVars, vars
  <2>2. (work \in [Callers -> Seq(Held)])'
    BY <2>1, WorkKept
  <2>3. Tables'
    BY <1>12 DEF QInv, Tables, CompletedNeverStored, allVars, vars
  <2>. QED BY <2>1, <2>2, <2>3 DEF QInv
<1>. QED BY <1>1, <1>2, <1>3, <1>4, <1>5, <1>6, <1>7, <1>8, <1>9, <1>10, <1>11, <1>12
     DEF QueueNext

LEMMA QueueSpecQInv == QueueSpec => []QInv
BY QueueInitQInv, QueueNextQInv, PTL DEF QueueSpec

\* An operation that is held is of the module's operations, and what it names is there.
LEMMA HeldIsNamed ==
    ASSUME QInv, NEW o \in Held PROVE o \in QueueOps /\ NamesExisting(o)
<1>1. DOMAIN queue \subseteq Nat /\ DOMAIN sessions \subseteq Nat
  BY LenProperties DEF QInv, Tables, NodeTyped
<1>2. o \in QueueOps
  BY <1>1 DEF Held, SoundOps, QueueOps, EntryOps, SettleOps, CompleteOps, SessionOps, UpdateOps, EntryNames
<1>3. o \in EntryOps \cup SettleOps \cup CompleteOps \cup UpdateOps => o.entry \in DOMAIN queue
  BY HeldByName DEF EntryOps, SettleOps, CompleteOps, UpdateOps, EntryNames
<1>4. o \in SessionOps => o.session \in DOMAIN sessions
  BY HeldByName DEF SessionOps
<1>. QED BY <1>2, <1>3, <1>4 DEF NamesExisting

LEMMA QInvIsTyped == QInv => QueueTypeOK
<1>. SUFFICES ASSUME QInv PROVE QueueTypeOK
  OBVIOUS
<1>1. ASSUME NEW c \in Callers
      PROVE  work[c] \in Seq(QueueOps) /\ \A i \in DOMAIN work[c] : NamesExisting(work[c][i])
  <2>1. work[c] \in Seq(Held)
    BY DEF QInv
  <2>2. Held \subseteq QueueOps
    BY HeldIsNamed
  <2>3. \A i \in DOMAIN work[c] : work[c][i] \in Held
    BY <2>1, ElementOfSeq, LenProperties
  <2>. QED BY <2>1, <2>2, <2>3, SeqMonotonic, HeldIsNamed
<1>2. work \in [Callers -> Seq(QueueOps)]
  BY <1>1 DEF QInv
<1>. QED BY <1>1, <1>2 DEF QueueTypeOK, QInv, Tables, NodeTyped

\* The rows of the queue handlers and every operation that a goroutine of the
\* server or a poller still has before it keep their types, and an operation
\* never names an entry or a session that is not there: not after a restart,
\* nor when the runtime is stopped in the middle of a poll.
THEOREM QueueTypeCorrect == QueueSpec => []QueueTypeOK
BY QueueSpecQInv, QInvIsTyped, PTL

-----------------------------------------------------------------------------
(* The queue handlers and TaskService together implement TaskBoard.        *)

\* The queue handlers write no task row: every transition is an operation of TaskService.
LEMMA QueueStepIsBoard ==
    ASSUME NEW c \in Callers, QueueStep(c) PROVE UNCHANGED task
BY DEF QueueStep, claim, ClaimQueueItem, startProcessing, CreateSession, findStale, supersede,
       openSession, deliverPrompt, settleEntry, lowerLoad, closeSessions, completeTask,
       queueForReview, insertReview, autoProcessReview, markProcessing, autoProcessTask,
       failEntriesOfAgent, zeroLoad, failEntriesOfNode, stopRuntime, writeUpdate

LEMMA QueueNextIsBoard == QInv /\ [QueueNext]_allVars => [Board!BoardNext]_(Board!boardVars)
<1>. SUFFICES ASSUME QInv, [QueueNext]_allVars PROVE [Board!BoardNext]_(Board!boardVars)
  OBVIOUS
<1>1. ASSUME NEW c \in Callers, ServiceStep(c) PROVE [Board!BoardNext]_(Board!boardVars)
  BY <1>1, HeadOfService, ServiceStepIsBoard DEF QInv
<1>2. CASE Requests \/ ServerRestart
  BY <1>2, EnvironmentIsBoard DEF QInv, Environment, ServerRestart
<1>3. CASE UNCHANGED task
  BY <1>3 DEF Board!boardVars
<1>4. ASSUME NEW c \in Callers, QueueStep(c) PROVE UNCHANGED task
  BY <1>4, QueueStepIsBoard
<1>. QED BY <1>1, <1>2, <1>3, <1>4
     DEF QueueNext, allVars, vars, pollQueue, handleSessionComplete, AutoAssign, DisableProfile,
         ClaimByUser, UpdateStatus, StopNode, Reconnect, EnableProfile, Disconnect

\* With pollers that claim and abandon entries, processes that end when they
\* like, agents that are disabled and a node that comes and goes, the tasks
\* still move along the table of transitionValid, one transition at a time and
\* never while in the trash: the queue handlers reach the status column only
\* through TransitionStatus.
THEOREM QueueImplementation == QueueSpec => ImplementsBoard
BY QueueInitQInv, QueueSpecQInv, QueueNextIsBoard, InitIsBoard, PTL
   DEF QueueSpec, QueueInit, ImplementsBoard, Board!BoardSpec

-----------------------------------------------------------------------------
(* What a node that stays connected does with its sessions.                *)

\* Goroutine c goes on with ops in the place of its first operation, or begins with ops.
Replaces(c, ops) == \/ work[c] # <<>> /\ Then(c, ops)
                    \/ work[c] = <<>> /\ work' = [work EXCEPT ![c] = ops]

\* The operations of d whose name is in N are where they were, n positions further on,
\* and none of them is the first.
Shifted(d, N) ==
    /\ 1 \in DOMAIN work[d] => work[d][1].op \notin N
    /\ \E n \in Int :
         /\ \A j \in DOMAIN work[d] : work[d][j].op \in N =>
              j + n \in DOMAIN work'[d] /\ work'[d][j + n] = work[d][j]
         /\ \A k \in DOMAIN work'[d] : work'[d][k].op \in N =>
              k - n \in DOMAIN work[d] /\ k - n # 1 /\ work'[d][k] = work[d][k - n]

\* A step that neither runs an operation in N nor puts one before a goroutine.
Aside(N) == \A d \in Callers : work'[d] = work[d] \/ Shifted(d, N)

\* Where the operations of a goroutine are after its step.
LEMMA Replaced ==
    ASSUME QInv, NEW c \in Callers, NEW S, NEW ops \in Seq(S), Replaces(c, ops)
    PROVE  /\ \A d \in Callers : d # c => work'[d] = work[d]
           /\ \A k \in DOMAIN ops : k \in DOMAIN work'[c] /\ work'[c][k] = ops[k]
           /\ \A j \in DOMAIN work[c] : j # 1 =>
                j + (Len(ops) - 1) \in DOMAIN work'[c] /\ work'[c][j + (Len(ops) - 1)] = work[c][j]
           /\ \A k \in DOMAIN work'[c] : k \in DOMAIN ops \/
                (/\ k - (Len(ops) - 1) \in DOMAIN work[c] /\ k - (Len(ops) - 1) # 1
                 /\ work'[c][k] = work[c][k - (Len(ops) - 1)])
           /\ Len(ops) \in Nat /\ DOMAIN ops = 1 .. Len(ops)
           /\ \A d \in Callers : DOMAIN work[d] \subseteq Nat \ {0} /\ DOMAIN work'[d] \subseteq Nat \ {0}
<1>. DEFINE T == Held \cup S
            m == Len(ops)
<1>1. work \in [Callers -> Seq(Held)]
  BY DEF QInv
<1>2. ops \in Seq(T) /\ \A d \in Callers : work[d] \in Seq(T)
  <2>1. Held \subseteq T /\ S \subseteq T
    OBVIOUS
  <2>. HIDE DEF T
  <2>2. ops \in Seq(T)
    BY <2>1, SeqMonotonic
  <2>3. ASSUME NEW d \in Callers PROVE work[d] \in Seq(T)
    <3>1. work[d] \in Seq(Held)
      BY <1>1
    <3>. QED BY <2>1, <3>1, SeqMonotonic
  <2>. QED BY <2>2, <2>3
<1>. HIDE DEF T
<1>3. m \in Nat /\ DOMAIN ops = 1 .. m
  BY <1>2, LenProperties
<1>. HIDE DEF m
<1>4. \A d \in Callers : d # c => work'[d] = work[d]
  BY <1>1 DEF Replaces, Then
<1>5. \A d \in Callers : DOMAIN work[d] \subseteq Nat \ {0}
  <2>. SUFFICES ASSUME NEW d \in Callers PROVE DOMAIN work[d] \subseteq Nat \ {0}
    OBVIOUS
  <2>1. Len(work[d]) \in Nat /\ DOMAIN work[d] = 1 .. Len(work[d])
    BY <1>2, LenProperties
  <2>. QED BY <2>1
<1>6. CASE work[c] # <<>> /\ Then(c, ops)
  <2>. DEFINE n == Len(work[c])
              w == ops \o Tail(work[c])
  <2>1. /\ n \in Nat /\ n >= 1
        /\ DOMAIN work[c] = 1 .. n
        /\ DOMAIN w = 1 .. (m + n - 1)
        /\ \A i \in 1 .. m : w[i] = ops[i]
        /\ \A i \in 2 .. n : w[i + m - 1] = work[c][i]
    BY <1>2, <1>6, ReplaceHead DEF m
  <2>2. work'[c] = w
    BY <1>1, <1>6 DEF Then
  <2>. HIDE DEF n, w
  <2>3. \A k \in DOMAIN ops : k \in DOMAIN w /\ w[k] = ops[k]
    BY <1>3, <2>1
  <2>4. ASSUME NEW j \in DOMAIN work[c], j # 1
        PROVE  j + (m - 1) \in DOMAIN w /\ w[j + (m - 1)] = work[c][j]
    <3>1. j \in 2 .. n /\ j + m - 1 = j + (m - 1)
      BY <1>3, <2>1, <2>4
    <3>2. w[j + m - 1] = work[c][j]
      BY <2>1, <3>1
    <3>3. w[j + (m - 1)] = work[c][j]
      BY <3>1, <3>2
    <3>4. j + (m - 1) \in 1 .. (m + n - 1)
      BY <1>3, <2>1, <3>1
    <3>. QED BY <2>1, <3>3, <3>4
  <2>5. ASSUME NEW k \in DOMAIN w, k \notin DOMAIN ops
        PROVE  k - (m - 1) \in DOMAIN work[c] /\ k - (m - 1) # 1 /\ w[k] = work[c][k - (m - 1)]
    <3>1. k \in 1 .. (m + n - 1) /\ k \notin 1 .. m
      BY <1>3, <2>1, <2>5
    <3>2. k - (m - 1) \in 2 .. n /\ (k - (m - 1)) + m - 1 = k
      BY <1>3, <2>1, <3>1
    <3>3. PICK i \in 2 .. n : i = k - (m - 1) /\ i + m - 1 = k
      BY <3>2
    <3>4. w[i + m - 1] = work[c][i]
      BY <2>1
    <3>5. w[k] = work[c][k - (m - 1)]
      BY <3>3, <3>4
    <3>6. k - (m - 1) \in DOMAIN work[c] /\ k - (m - 1) # 1
      BY <2>1, <3>2
    <3>. QED BY <3>5, <3>6
  <2>6. DOMAIN w \subseteq Nat \ {0}
    BY <1>3, <2>1
  <2>7. \A d \in Callers : DOMAIN work'[d] \subseteq Nat \ {0}
    BY <1>4, <1>5, <2>2, <2>6
  <2>. QED BY <1>3, <1>4, <1>5, <2>2, <2>3, <2>4, <2>5, <2>7 DEF m
<1>7. CASE work[c] = <<>> /\ work' = [work EXCEPT ![c] = ops]
  <2>1. work'[c] = ops /\ DOMAIN work[c] = {}
    <3>1. DOMAIN <<>> = {}
      OBVIOUS
    <3>. QED BY <1>1, <1>7, <3>1
  <2>2. \A d \in Callers : DOMAIN work'[d] \subseteq Nat \ {0}
    BY <1>3, <1>4, <1>5, <2>1
  <2>. QED BY <1>3, <1>4, <1>5, <2>1, <2>2 DEF m
<1>. QED BY <1>6, <1>7 DEF Replaces

\* The first operation of a goroutine that goes on.
LEMMA FirstIsHead ==
    ASSUME QInv, NEW c \in Callers, work[c] # <<>>
    PROVE  1 \in DOMAIN work[c] /\ Head(work[c]) = work[c][1]
<1>1. work[c] \in Seq(Held)
  BY DEF QInv
<1>. QED BY <1>1, EmptySeq, LenProperties

\* The first operation of a goroutine is over, and none follows from it.
LEMMA Popped ==
    ASSUME QInv, NEW c \in Callers, work[c] # <<>>, Then(c, <<>>)
    PROVE  /\ \A d \in Callers : d # c => work'[d] = work[d]
           /\ \A k \in DOMAIN work'[c] : \E j \in DOMAIN work[c] : j # 1 /\ work'[c][k] = work[c][j]
           /\ \A j \in DOMAIN work[c] : j # 1 => \E k \in DOMAIN work'[c] : work'[c][k] = work[c][j]
<1>1. PICK none : none = <<>>
  OBVIOUS
<1>2. none \in Seq(Held)
  BY <1>1, ShortSeqs
<1>3. DOMAIN none = {}
  BY <1>1
<1>4. Replaces(c, none)
  BY <1>1 DEF Replaces
<1>5. /\ \A d \in Callers : d # c => work'[d] = work[d]
      /\ \A j \in DOMAIN work[c] : j # 1 =>
           j + (Len(none) - 1) \in DOMAIN work'[c] /\ work'[c][j + (Len(none) - 1)] = work[c][j]
      /\ \A k \in DOMAIN work'[c] : k \in DOMAIN none \/
           (/\ k - (Len(none) - 1) \in DOMAIN work[c] /\ k - (Len(none) - 1) # 1
            /\ work'[c][k] = work[c][k - (Len(none) - 1)])
  BY <1>2, <1>4, Replaced
<1>. QED BY <1>3, <1>5

\* A goroutine whose first operation is not in N, and that goes on with none that is.
LEMMA AsideBy ==
    ASSUME QInv, NEW c \in Callers, NEW N, NEW S, NEW ops \in Seq(S), Replaces(c, ops),
           work[c] # <<>> => Head(work[c]).op \notin N,
           \A k \in DOMAIN ops : ops[k].op \notin N
    PROVE  Aside(N)
<1>. DEFINE n == Len(ops) - 1
<1>1. n \in Int
  BY Replaced
<1>2. 1 \in DOMAIN work[c] => work[c][1].op \notin N
  <2>1. DOMAIN <<>> = {}
    OBVIOUS
  <2>. QED BY <2>1, FirstIsHead
<1>3. \A j \in DOMAIN work[c] : work[c][j].op \in N =>
        j + n \in DOMAIN work'[c] /\ work'[c][j + n] = work[c][j]
  BY <1>2, Replaced
<1>4. \A k \in DOMAIN work'[c] : work'[c][k].op \in N =>
        k - n \in DOMAIN work[c] /\ k - n # 1 /\ work'[c][k] = work[c][k - n]
  BY Replaced
<1>. HIDE DEF n
<1>5. Shifted(c, N)
  BY <1>1, <1>2, <1>3, <1>4 DEF Shifted
<1>6. \A d \in Callers : d # c => work'[d] = work[d]
  BY Replaced
<1>. QED BY <1>5, <1>6 DEF Aside

\* Short continuations.
LEMMA ShortAside ==
    ASSUME QInv, NEW c \in Callers, NEW N, work[c] # <<>> => Head(work[c]).op \notin N
    PROVE  /\ Replaces(c, <<>>) => Aside(N)
           /\ \A x : x.op \notin N /\ Replaces(c, <<x>>) => Aside(N)
           /\ \A x, y : {x.op, y.op} \cap N = {} /\ Replaces(c, <<x, y>>) => Aside(N)
<1>1. Replaces(c, <<>>) => Aside(N)
  <2>1. <<>> \in Seq(Held) /\ DOMAIN <<>> = {}
    BY ShortSeqs
  <2>. QED BY <2>1, AsideBy
<1>2. ASSUME NEW x, x.op \notin N, Replaces(c, <<x>>) PROVE Aside(N)
  <2>1. <<x>> \in Seq({x})
    BY ShortSeqs
  <2>2. \A k \in DOMAIN <<x>> : <<x>>[k] = x
    OBVIOUS
  <2>. QED BY <1>2, <2>1, <2>2, AsideBy
<1>3. ASSUME NEW x, NEW y, {x.op, y.op} \cap N = {}, Replaces(c, <<x, y>>) PROVE Aside(N)
  <2>1. <<x, y>> \in Seq({x, y})
    BY ShortSeqs
  <2>2. \A k \in DOMAIN <<x, y>> : <<x, y>>[k] \in {x, y}
    OBVIOUS
  <2>3. \A k \in DOMAIN <<x, y>> : <<x, y>>[k].op \notin N
    BY <1>3, <2>2
  <2>. QED BY <1>3, <2>1, <2>3, AsideBy
<1>. QED BY <1>1, <1>2, <1>3

\* The steps of TaskService, the requests and the steps that leave the goroutines alone.
LEMMA ServiceAside ==
    ASSUME QInv, NEW N, N \cap OpNames = {},
           (\E c \in Callers : ServiceStep(c)) \/ Requests \/ UNCHANGED work
    PROVE  Aside(N)
<1>1. \A o \in SoundOps : o.op \notin N
  BY OpsByName DEF SoundOps
<1>2. ASSUME NEW c \in Callers, NEW ops \in Seq(SoundOps), Replaces(c, ops),
             work[c] # <<>> => Head(work[c]).op \notin N
      PROVE  Aside(N)
  <2>1. \A k \in DOMAIN ops : ops[k] \in SoundOps
    BY ElementOfSeq, LenProperties
  <2>. QED BY <1>1, <1>2, <2>1, AsideBy
<1>3. ASSUME NEW c \in Callers, ServiceStep(c) PROVE Aside(N)
  <2>1. PICK ops \in Seq(SoundOps) : work[c] # <<>> /\ Then(c, ops)
    BY <1>3, HeadOfService, ServiceStepInv DEF QInv, GoesOn
  <2>2. Head(work[c]).op \notin N
    BY <1>3, StepHasHead
  <2>. QED BY <1>2, <2>1, <2>2 DEF Replaces
<1>4. CASE Requests
  <2>1. Begins \/ UNCHANGED work
    BY <1>4, RequestsInv DEF QInv
  <2>2. CASE Begins
    BY <1>2, <2>2 DEF Begins, Replaces
  <2>3. CASE UNCHANGED work
    BY <2>3 DEF Aside
  <2>. QED BY <2>1, <2>2, <2>3
<1>5. CASE UNCHANGED work
  BY <1>5 DEF Aside
<1>. QED BY <1>3, <1>4, <1>5

\* What the queue handlers put in the place of many of their operations.
Common == {"transition", "bump", "lower", "failAgent", "zero", "complete", "follow"}

\* The steps of the queue handlers, by the operations they run and put in their place.
LEMMA QueueAside ==
    ASSUME QInv, NEW N, N \cap Common = {},
           NEW c \in Callers
    PROVE  /\ pollQueue(c) /\ "claim" \notin N => Aside(N)
           /\ claim(c) /\ {"claim", "claimWrite", "process", "create"} \cap N = {} => Aside(N)
           /\ ClaimQueueItem(c) /\ "claimWrite" \notin N => Aside(N)
           /\ startProcessing(c) /\ "process" \notin N => Aside(N)
           /\ CreateSession(c) /\ {"create", "stale"} \cap N = {} => Aside(N)
           /\ findStale(c) /\ {"stale", "supersede", "open"} \cap N = {} => Aside(N)
           /\ supersede(c) /\ "supersede" \notin N => Aside(N)
           /\ openSession(c) /\ {"open", "prompt"} \cap N = {} => Aside(N)
           /\ deliverPrompt(c) /\ "prompt" \notin N => Aside(N)
           /\ settleEntry(c) /\ "settle" \notin N => Aside(N)
           /\ lowerLoad(c) => Aside(N)
           /\ closeSessions(c) /\ "close" \notin N => Aside(N)
           /\ completeTask(c) => Aside(N)
           /\ queueForReview(c) /\ "insertReview" \notin N => Aside(N)
           /\ insertReview(c) /\ {"insertReview", "openReview"} \cap N = {} => Aside(N)
           /\ autoProcessReview(c) /\ {"openReview", "prompt", "mark"} \cap N = {} => Aside(N)
           /\ markProcessing(c) /\ "mark" \notin N => Aside(N)
           /\ autoProcessTask(c) /\ {"auto", "open", "mark"} \cap N = {} => Aside(N)
           /\ failEntriesOfAgent(c) => Aside(N)
           /\ zeroLoad(c) => Aside(N)
           /\ failEntriesOfNode(c) /\ "failNode" \notin N => Aside(N)
           /\ writeUpdate(c) /\ "update" \notin N => Aside(N)
<1>1. Common \cap N = {}
  OBVIOUS
<1>2. \A t \in Tasks, to \in Statuses, summary \in BOOLEAN : Transition(t, to, summary).op \notin N
  BY <1>1 DEF Transition, Common
<1>3. pollQueue(c) /\ "claim" \notin N => Aside(N)
  <2>. SUFFICES ASSUME pollQueue(c), "claim" \notin N PROVE Aside(N)
    OBVIOUS
  <2>. DEFINE n == Cardinality(ListQueue)
  <2>1. PICK items \in [1 .. n -> ListQueue] :
           work' = [work EXCEPT ![c] = [i \in DOMAIN items |-> OnEntry("claim", items[i])]]
    BY DEF pollQueue
  <2>. DEFINE ops == [i \in DOMAIN items |-> OnEntry("claim", items[i])]
  <2>2. n \in Nat
    <3>1. queue \in Seq(Entries) /\ ListQueue \subseteq DOMAIN queue
      BY DEF QInv, Tables, ListQueue
    <3>2. IsFiniteSet(DOMAIN queue)
      BY <3>1, LenProperties, FS_Interval
    <3>. QED BY <3>1, <3>2, FS_Subset, FS_CardinalityType
  <2>. HIDE DEF n
  <2>3. \A i \in DOMAIN ops : ops[i].op = "claim"
    BY DEF OnEntry
  <2>4. ops \in [1 .. n -> {ops[i] : i \in 1 .. n}]
    OBVIOUS
  <2>5. ops \in Seq({ops[i] : i \in 1 .. n})
    BY <2>2, <2>4, SeqDef
  <2>6. Replaces(c, ops)
    BY <2>1 DEF Replaces, pollQueue
  <2>. HIDE DEF ops
  <2>7. work[c] = <<>>
    BY DEF pollQueue
  <2>. QED BY <2>3, <2>5, <2>6, <2>7, AsideBy
<1>4. claim(c) /\ {"claim", "claimWrite", "process", "create"} \cap N = {} => Aside(N)
  <2>. SUFFICES ASSUME claim(c), {"claim", "claimWrite", "process", "create"} \cap N = {} PROVE Aside(N)
    OBVIOUS
  <2>. DEFINE e == Head(work[c]).entry
              four == <<OnEntry("claimWrite", e), OnAgent("bump", queue[e].agent),
                        OnEntry("process", e), OnEntry("create", e)>>
  <2>1. work[c] # <<>> /\ Head(work[c]).op = "claim"
    BY DEF claim, Doing
  <2>2. Replaces(c, four) \/ Replaces(c, <<>>)
    BY <2>1 DEF claim, Replaces
  <2>3. \A k \in DOMAIN four : four[k].op \notin N
    BY <1>1 DEF OnEntry, OnAgent, Common
  <2>4. four \in [1 .. 4 -> {four[i] : i \in 1 .. 4}]
    OBVIOUS
  <2>5. four \in Seq({four[i] : i \in 1 .. 4})
    BY <2>4, SeqDef
  <2>. HIDE DEF four
  <2>. QED BY <2>1, <2>2, <2>3, <2>5, AsideBy, ShortAside
<1>5. /\ ClaimQueueItem(c) /\ "claimWrite" \notin N => Aside(N)
      /\ supersede(c) /\ "supersede" \notin N => Aside(N)
      /\ deliverPrompt(c) /\ "prompt" \notin N => Aside(N)
      /\ settleEntry(c) /\ "settle" \notin N => Aside(N)
      /\ lowerLoad(c) => Aside(N)
      /\ closeSessions(c) /\ "close" \notin N => Aside(N)
      /\ markProcessing(c) /\ "mark" \notin N => Aside(N)
      /\ failEntriesOfAgent(c) => Aside(N)
      /\ zeroLoad(c) => Aside(N)
      /\ failEntriesOfNode(c) /\ "failNode" \notin N => Aside(N)
      /\ writeUpdate(c) /\ "update" \notin N => Aside(N)
  <2>1. ASSUME NEW name, name \notin N, Doing(c, name), Then(c, <<>>) PROVE Aside(N)
    BY <2>1, ShortAside DEF Doing, Replaces
  <2>. QED BY <1>1, <2>1 DEF Common, ClaimQueueItem, supersede, deliverPrompt, settleEntry, lowerLoad,
         closeSessions, markProcessing, failEntriesOfAgent, zeroLoad, failEntriesOfNode, writeUpdate
<1>6. ASSUME NEW name, name \notin N, Doing(c, name)
      PROVE  /\ Then(c, <<>>) => Aside(N)
             /\ \A x : x.op \notin N /\ Then(c, <<x>>) => Aside(N)
             /\ \A x, y : {x.op, y.op} \cap N = {} /\ Then(c, <<x, y>>) => Aside(N)
  BY <1>6, ShortAside DEF Doing, Replaces
<1>7. startProcessing(c) /\ "process" \notin N => Aside(N)
  <2>1. ASSUME startProcessing(c)
        PROVE  Transition(queue[Head(work[c]).entry].task, "in_progress", FALSE).op \notin N
    BY <1>1 DEF Transition, Common
  <2>. QED BY <1>6, <2>1 DEF startProcessing
<1>8. CreateSession(c) /\ {"create", "stale"} \cap N = {} => Aside(N)
  <2>1. "stale" \notin N => OnEntry("stale", Head(work[c]).entry).op \notin N
    BY DEF OnEntry
  <2>. QED BY <1>6, <2>1 DEF CreateSession
<1>9. findStale(c) /\ {"stale", "supersede", "open"} \cap N = {} => Aside(N)
  <2>1. /\ "open" \notin N => OnEntry("open", Head(work[c]).entry).op \notin N
        /\ \A s : OnSession("supersede", s).op = "supersede"
    BY DEF OnEntry, OnSession
  <2>2. findStale(c) => \/ Then(c, <<OnEntry("open", Head(work[c]).entry)>>)
                        \/ \E s : Then(c, <<OnSession("supersede", s), OnEntry("open", Head(work[c]).entry)>>)
    BY DEF findStale
  <2>. SUFFICES ASSUME findStale(c), {"stale", "supersede", "open"} \cap N = {} PROVE Aside(N)
    OBVIOUS
  <2>3. Doing(c, "stale") /\ "stale" \notin N
    BY DEF findStale
  <2>4. CASE Then(c, <<OnEntry("open", Head(work[c]).entry)>>)
    BY <1>6, <2>1, <2>3, <2>4
  <2>5. ASSUME NEW s, Then(c, <<OnSession("supersede", s), OnEntry("open", Head(work[c]).entry)>>)
        PROVE  Aside(N)
    <3>1. {OnSession("supersede", s).op, OnEntry("open", Head(work[c]).entry).op} \cap N = {}
      BY <2>1
    <3>. QED BY <1>6, <2>3, <2>5, <3>1
  <2>. QED BY <2>2, <2>4, <2>5
<1>10. openSession(c) /\ {"open", "prompt"} \cap N = {} => Aside(N)
  <2>1. "prompt" \notin N => OnSession("prompt", Len(sessions) + 1).op \notin N
    BY DEF OnSession
  <2>. QED BY <1>6, <2>1 DEF openSession
<1>11. completeTask(c) => Aside(N)
  <2>. DEFINE o == Head(work[c])
  <2>1. /\ Transition(queue[o.entry].task, "completed", o.summary).op \notin N
        /\ OnEntry("follow", o.entry).op \notin N
    BY <1>1 DEF Transition, OnEntry, Common
  <2>2. completeTask(c) => /\ Doing(c, "complete")
                           /\ \/ Then(c, <<>>)
                              \/ Then(c, <<Transition(queue[o.entry].task, "completed", o.summary),
                                           OnEntry("follow", o.entry)>>)
    BY DEF completeTask
  <2>. QED BY <1>1, <1>6, <2>1, <2>2 DEF Common
<1>12. queueForReview(c) /\ "insertReview" \notin N => Aside(N)
  <2>1. queueForReview(c) => /\ Doing(c, "follow")
                             /\ \/ Then(c, <<>>)
                                \/ \E t, a : Then(c, <<[op |-> "insertReview", task |-> t, agent |-> a]>>)
    BY DEF queueForReview
  <2>. QED BY <1>1, <1>6, <2>1 DEF Common
<1>13. insertReview(c) /\ {"insertReview", "openReview"} \cap N = {} => Aside(N)
  <2>1. /\ OnAgent("bump", Head(work[c]).agent).op \notin N
        /\ OnEntry("openReview", Len(queue) + 1).op = "openReview"
    BY <1>1 DEF OnAgent, OnEntry, Common
  <2>2. insertReview(c) => /\ Doing(c, "insertReview")
                           /\ Then(c, <<OnAgent("bump", Head(work[c]).agent),
                                        OnEntry("openReview", Len(queue) + 1)>>)
    BY DEF insertReview
  <2>. QED BY <1>6, <2>1, <2>2
<1>14. autoProcessReview(c) /\ {"openReview", "prompt", "mark"} \cap N = {} => Aside(N)
  <2>1. /\ OnSession("prompt", Len(sessions) + 1).op = "prompt"
        /\ OnEntry("mark", Head(work[c]).entry).op = "mark"
    BY DEF OnSession, OnEntry
  <2>2. autoProcessReview(c) => /\ Doing(c, "openReview")
                                /\ \/ Then(c, <<>>)
                                   \/ Then(c, <<OnSession("prompt", Len(sessions) + 1),
                                                OnEntry("mark", Head(work[c]).entry)>>)
    BY DEF autoProcessReview
  <2>. QED BY <1>6, <2>1, <2>2
<1>15. autoProcessTask(c) /\ {"auto", "open", "mark"} \cap N = {} => Aside(N)
  <2>. DEFINE e == Head(work[c]).entry
  <2>1. OnEntry("open", e).op = "open" /\ OnEntry("mark", e).op = "mark"
    BY DEF OnEntry
  <2>2. autoProcessTask(c) => /\ Doing(c, "auto")
                              /\ Then(c, <<>>) \/ Then(c, <<OnEntry("open", e), OnEntry("mark", e)>>)
    BY DEF autoProcessTask
  <2>. QED BY <1>6, <2>1, <2>2
<1>. QED BY <1>3, <1>4, <1>5, <1>7, <1>8, <1>9, <1>10, <1>11, <1>12, <1>13, <1>14, <1>15

\* What the end of a process is reported as, and in which order.
LEMMA ReportNames ==
    ASSUME QInv, NEW e \in DOMAIN queue, NEW status \in {"completed", "failed"}, NEW summary \in BOOLEAN
    PROVE  LET ops == Report(e, status, summary) IN
           /\ \A k \in DOMAIN ops : ops[k].op \in {"settle", "lower", "close", "complete"}
           /\ 1 \in DOMAIN ops /\ ops[1].op = "settle" /\ ops[1].entry = e
           /\ 3 \in DOMAIN ops /\ ops[3].op = "close" /\ ops[3].entry = e
<1>. DEFINE complete == [op |-> "complete", entry |-> e, summary |-> summary]
            settle == [op |-> "settle", entry |-> e, status |-> status]
            lower == OnAgent("lower", queue[e].agent)
            close == [op |-> "close", entry |-> e, status |-> status]
            S == {settle, lower, close, complete}
            three == <<settle, lower, close>>
            last == IF status = "completed" THEN <<complete>> ELSE <<>>
            ops == three \o last
<1>1. \A x \in S : x.op \in {"settle", "lower", "close", "complete"}
  BY DEF OnAgent
<1>2. settle.op = "settle" /\ settle.entry = e /\ close.op = "close" /\ close.entry = e
  OBVIOUS
<1>3. Report(e, status, summary) = ops
  BY DEF Report
<1>. HIDE DEF settle, lower, close, complete
<1>4. three \in Seq(S) /\ last \in Seq(S)
  BY ShortSeqs
<1>5. Len(three) = 3 /\ three[1] = settle /\ three[3] = close
  OBVIOUS
<1>. HIDE DEF three, last, S
<1>6. /\ ops \in Seq(S) /\ Len(ops) = 3 + Len(last)
      /\ ops[1] = settle /\ ops[3] = close
  <2>1. Len(last) \in Nat
    BY <1>4, LenProperties
  <2>2. ops \in Seq(S) /\ Len(ops) = Len(three) + Len(last)
        /\ \A i \in 1 .. Len(three) : ops[i] = three[i]
    BY <1>4, ConcatProperties
  <2>. QED BY <1>5, <2>1, <2>2
<1>7. 1 \in DOMAIN ops /\ 3 \in DOMAIN ops /\ \A k \in DOMAIN ops : ops[k] \in S
  <2>1. Len(last) \in Nat /\ DOMAIN ops = 1 .. Len(ops)
    BY <1>4, <1>6, LenProperties
  <2>2. 1 \in DOMAIN ops /\ 3 \in DOMAIN ops
    BY <1>6, <2>1
  <2>. HIDE DEF ops
  <2>. QED BY <1>6, <2>2, ElementOfSeq, LenProperties
<1>. HIDE DEF ops
<1>8. \A k \in DOMAIN ops : ops[k].op \in {"settle", "lower", "close", "complete"}
  BY <1>1, <1>7 DEF S
<1>. QED BY <1>2, <1>3, <1>6, <1>7, <1>8

\* The end of a process, and the requests of the queue handlers.
LEMMA RequestAside ==
    ASSUME QInv, NEW N, N \cap Common = {},
           NEW c \in Callers
    PROVE  /\ \A s \in DOMAIN sessions :
                handleSessionComplete(c, s) /\ {"settle", "close"} \cap N = {} => Aside(N)
           /\ \A t \in Tasks : AutoAssign(c, t) /\ "auto" \notin N => Aside(N)
           /\ \A e \in DOMAIN queue : ClaimByUser(c, e) /\ "claimWrite" \notin N => Aside(N)
           /\ \A e \in DOMAIN queue, status \in QueueStatuses :
                UpdateStatus(c, e, status) /\ "update" \notin N => Aside(N)
           /\ \A a \in Agents : DisableProfile(c, a) => Aside(N)
<1>1. ASSUME work[c] = <<>>
      PROVE  /\ work' = [work EXCEPT ![c] = <<>>] => Aside(N)
             /\ \A x : x.op \notin N /\ work' = [work EXCEPT ![c] = <<x>>] => Aside(N)
             /\ \A x, y : {x.op, y.op} \cap N = {} /\ work' = [work EXCEPT ![c] = <<x, y>>] => Aside(N)
  BY <1>1, ShortAside DEF Replaces
<1>2. ASSUME NEW s \in DOMAIN sessions, handleSessionComplete(c, s), {"settle", "close"} \cap N = {}
      PROVE  Aside(N)
  <2>1. PICK status \in {"completed", "failed"}, summary \in BOOLEAN :
           work' = [work EXCEPT ![c] = IF procs[s].meta THEN Report(sessions[s].entry, status, summary)
                                       ELSE <<>>]
    BY <1>2 DEF handleSessionComplete
  <2>. DEFINE e == sessions[s].entry
              ops == Report(e, status, summary)
  <2>2. work[c] = <<>>
    BY <1>2 DEF handleSessionComplete
  <2>3. CASE procs[s].meta
    <3>1. ops \in Seq(Held)
      BY SessionType, ReportHeld
    <3>2. \A k \in DOMAIN ops : ops[k].op \in {"settle", "lower", "close", "complete"}
      BY SessionType, ReportNames
    <3>3. \A k \in DOMAIN ops : ops[k].op \notin N
      BY <1>2, <3>2 DEF Common
    <3>4. Replaces(c, ops)
      BY <2>1, <2>2, <2>3 DEF Replaces
    <3>. QED BY <2>2, <3>1, <3>3, <3>4, AsideBy
  <2>4. CASE ~procs[s].meta
    BY <1>1, <2>1, <2>2, <2>4
  <2>. QED BY <2>3, <2>4
<1>3. ASSUME NEW t \in Tasks, AutoAssign(c, t), "auto" \notin N PROVE Aside(N)
  <2>1. OnEntry("auto", Len(queue) + 1).op \notin N
    BY <1>3 DEF OnEntry
  <2>. QED BY <1>1, <1>3, <2>1 DEF AutoAssign
<1>4. ASSUME NEW e \in DOMAIN queue, ClaimByUser(c, e), "claimWrite" \notin N PROVE Aside(N)
  <2>1. OnEntry("claimWrite", e).op \notin N
    BY <1>4 DEF OnEntry
  <2>. QED BY <1>1, <1>4, <2>1 DEF ClaimByUser
<1>5. ASSUME NEW e \in DOMAIN queue, NEW status \in QueueStatuses,
             UpdateStatus(c, e, status), "update" \notin N
      PROVE  Aside(N)
  <2>. DEFINE update == [op |-> "update", entry |-> e, status |-> status]
              lower == OnAgent("lower", queue[e].agent)
              ends == status \in {"completed", "failed"} /\ queue[e].status \in {"claimed", "processing"}
              ops == <<update>> \o IF ends THEN <<lower>> ELSE <<>>
  <2>1. work' = [work EXCEPT ![c] = ops] /\ work[c] = <<>>
    BY <1>5 DEF UpdateStatus
  <2>2. {update.op, lower.op} \cap N = {}
    BY <1>5 DEF OnAgent, Common
  <2>3. ops \in Seq({update, lower})
    <3>1. <<update>> \in Seq({update, lower}) /\ <<lower>> \in Seq({update, lower})
          /\ <<>> \in Seq({update, lower})
      BY ShortSeqs
    <3>. HIDE DEF update, lower, ends
    <3>. QED BY <3>1, ConcatProperties
  <2>4. \A k \in DOMAIN ops : ops[k] \in {update, lower}
    <3>. HIDE DEF ops
    <3>. QED BY <2>3, ElementOfSeq, LenProperties
  <2>5. Replaces(c, ops)
    BY <2>1 DEF Replaces
  <2>. HIDE DEF ops, update, lower
  <2>6. \A k \in DOMAIN ops : ops[k].op \notin N
    BY <2>2, <2>4
  <2>. QED BY <2>1, <2>3, <2>5, <2>6, AsideBy
<1>6. ASSUME NEW a \in Agents, DisableProfile(c, a) PROVE Aside(N)
  <2>1. {OnAgent("failAgent", a).op, OnAgent("zero", a).op} \cap N = {}
    BY DEF OnAgent, Common
  <2>. QED BY <1>1, <1>6, <2>1 DEF DisableProfile
<1>. QED BY <1>2, <1>3, <1>4, <1>5, <1>6

-----------------------------------------------------------------------------
(* A session that is open has a process, or will have, or will be closed.  *)

\* The node keeps its connection, and is not stopped.
Stays == "restart" \notin Kinds /\ {"disconnect", "stop"} \cap NodeKinds = {}

\* Goroutine c is about to send session s its prompt.
Prompting(c, s) == \E k \in DOMAIN work[c] : work[c][k].op = "prompt" /\ work[c][k].session = s

\* The end of the process of entry e is being reported.
Closing(e) == \E c \in Callers : \E k \in DOMAIN work[c] :
                 work[c][k].op = "close" /\ work[c][k].entry = e

Connected == /\ Stays /\ connected
             /\ \A c \in Callers : \A k \in DOMAIN work[c] : work[c][k].op # "stopRuntime"

\* A prompt is sent at once, by one goroutine, to a session that has had none; a session
\* that has not ended is reported when it does.
Prompts ==
    /\ \A c \in Callers : \A k \in DOMAIN work[c] : work[c][k].op = "prompt" => k = 1
    /\ \A c \in Callers : \A s \in DOMAIN sessions :
         Prompting(c, s) => /\ procs[s].meta /\ ~procs[s].alive
                            /\ \A d \in Callers : Prompting(d, s) => c = d
    /\ \A s \in DOMAIN sessions : procs[s].alive => procs[s].meta

IsOpen(s) == sessions[s].task # NoTask /\ sessions[s].status = "pending"
Watched(s) == procs[s].alive \/ (\E c \in Callers : Prompting(c, s)) \/ Closing(sessions[s].entry)

SessionInv == Connected /\ Prompts /\ \A s \in DOMAIN sessions : IsOpen(s) => Watched(s)

\* Where the prompts are after a step that sends none and puts none before a goroutine.
LEMMA WorkPromptsAside ==
    ASSUME QInv, Connected, Prompts, Aside({"prompt", "stopRuntime"}), UNCHANGED connected
    PROVE  /\ Connected'
           /\ \A d \in Callers : \A k \in DOMAIN work'[d] : work'[d][k].op = "prompt" => k = 1
           /\ \A d \in Callers : \A s : Prompting(d, s)' <=> Prompting(d, s)
<1>. DEFINE N == {"prompt", "stopRuntime"}
<1>1. ASSUME NEW d \in Callers, work'[d] # work[d]
      PROVE  /\ \A k \in DOMAIN work[d] : work[d][k].op # "prompt"
             /\ \A k \in DOMAIN work'[d] : work'[d][k].op \notin N
  <2>1. Shifted(d, N)
    BY <1>1 DEF Aside
  <2>2. 1 \in DOMAIN work[d] => work[d][1].op \notin N
    BY <2>1 DEF Shifted
  <2>3. \A k \in DOMAIN work[d] : work[d][k].op \notin N
    BY <2>2 DEF Prompts, Connected
  <2>4. \A k \in DOMAIN work'[d] : work'[d][k].op \in N => \E j \in DOMAIN work[d] : work'[d][k] = work[d][j]
    BY <2>1 DEF Shifted
  <2>5. \A k \in DOMAIN work'[d] : work'[d][k].op \notin N
    BY <2>3, <2>4
  <2>. QED BY <2>3, <2>5
<1>2. ASSUME NEW d \in Callers, NEW s PROVE Prompting(d, s)' <=> Prompting(d, s)
  <2>1. CASE work'[d] = work[d]
    BY <2>1 DEF Prompting
  <2>2. CASE work'[d] # work[d]
    BY <1>1, <2>2 DEF Prompting
  <2>. QED BY <2>1, <2>2
<1>3. Connected'
  <2>1. ASSUME NEW d \in Callers, NEW k \in DOMAIN work'[d] PROVE work'[d][k].op # "stopRuntime"
    <3>1. CASE work'[d] = work[d]
      BY <3>1 DEF Connected
    <3>2. CASE work'[d] # work[d]
      BY <1>1, <3>2
    <3>. QED BY <3>1, <3>2
  <2>. QED BY <2>1 DEF Connected, Stays
<1>4. ASSUME NEW d \in Callers, NEW k \in DOMAIN work'[d], work'[d][k].op = "prompt" PROVE k = 1
  <2>1. work'[d] = work[d]
    BY <1>1, <1>4
  <2>. QED BY <1>4, <2>1 DEF Prompts
<1>. QED BY <1>2, <1>3, <1>4

LEMMA PromptsAside ==
    ASSUME QInv, Connected, Prompts, Aside({"prompt", "stopRuntime"}),
           UNCHANGED <<procs, connected>>, DOMAIN sessions' = DOMAIN sessions
    PROVE  /\ Connected' /\ Prompts'
           /\ \A d \in Callers : \A s : Prompting(d, s)' <=> Prompting(d, s)
<1>1. /\ Connected'
      /\ \A d \in Callers : \A k \in DOMAIN work'[d] : work'[d][k].op = "prompt" => k = 1
      /\ \A d \in Callers : \A s : Prompting(d, s)' <=> Prompting(d, s)
  BY WorkPromptsAside
<1>2. ASSUME NEW d \in Callers, NEW s \in DOMAIN sessions, Prompting(d, s)'
      PROVE  procs'[s].meta /\ ~procs'[s].alive /\ \A e \in Callers : Prompting(e, s)' => d = e
  <2>1. procs[s].meta /\ ~procs[s].alive /\ \A e \in Callers : Prompting(e, s) => d = e
    BY <1>1, <1>2 DEF Prompts
  <2>2. procs' = procs
    OBVIOUS
  <2>. QED BY <1>1, <2>1, <2>2
<1>3. \A s \in DOMAIN sessions : procs'[s].alive => procs'[s].meta
  BY DEF Prompts
<1>4. Prompts'
  BY <1>1, <1>2, <1>3 DEF Prompts
<1>. QED BY <1>1, <1>4

LEMMA ClosingAside ==
    ASSUME Aside({"close"}), NEW e, Closing(e) PROVE Closing(e)'
<1>0. PICK d \in Callers : \E j \in DOMAIN work[d] : work[d][j].op = "close" /\ work[d][j].entry = e
  BY DEF Closing
<1>1. PICK j \in DOMAIN work[d] : work[d][j].op = "close" /\ work[d][j].entry = e
  BY <1>0
<1>2. \E k \in DOMAIN work'[d] : work'[d][k] = work[d][j]
  <2>1. CASE work'[d] = work[d]
    BY <2>1
  <2>2. CASE Shifted(d, {"close"})
    <3>1. PICK n \in Int : \A i \in DOMAIN work[d] : work[d][i].op \in {"close"} =>
                              i + n \in DOMAIN work'[d] /\ work'[d][i + n] = work[d][i]
      BY <2>2 DEF Shifted
    <3>2. j + n \in DOMAIN work'[d] /\ work'[d][j + n] = work[d][j]
      BY <1>1, <3>1
    <3>. QED BY <3>2
  <2>. QED BY <2>1, <2>2 DEF Aside
<1>. QED BY <1>1, <1>2 DEF Closing

\* What depends on fewer operations is left aside as well.
LEMMA AsideLess ==
    ASSUME NEW N, NEW M \in SUBSET N, Aside(N) PROVE Aside(M)
<1>1. ASSUME NEW d \in Callers, Shifted(d, N) PROVE Shifted(d, M)
  BY <1>1 DEF Shifted
<1>. QED BY <1>1 DEF Aside

\* A step that opens no session, sends no prompt and closes nothing.
LEMMA SessionAside ==
    ASSUME QInv, SessionInv, Aside({"prompt", "close", "stopRuntime"}),
           UNCHANGED <<procs, connected>>, DOMAIN sessions' = DOMAIN sessions,
           \A s \in DOMAIN sessions :
             /\ sessions'[s].entry = sessions[s].entry /\ sessions'[s].task = sessions[s].task
             /\ sessions'[s].status = "pending" => sessions[s].status = "pending"
    PROVE  SessionInv'
<1>1. Aside({"prompt", "stopRuntime"}) /\ Aside({"close"})
  <2>1. /\ {"prompt", "stopRuntime"} \in SUBSET {"prompt", "close", "stopRuntime"}
        /\ {"close"} \in SUBSET {"prompt", "close", "stopRuntime"}
    OBVIOUS
  <2>. QED BY <2>1, AsideLess
<1>2. /\ Connected' /\ Prompts'
      /\ \A d \in Callers : \A s : Prompting(d, s)' <=> Prompting(d, s)
  BY <1>1, PromptsAside DEF SessionInv
<1>3. ASSUME NEW s \in DOMAIN sessions, IsOpen(s)' PROVE Watched(s)'
  <2>1. IsOpen(s) /\ sessions'[s].entry = sessions[s].entry
    BY <1>3 DEF IsOpen
  <2>2. Watched(s)
    BY <2>1 DEF SessionInv
  <2>3. CASE procs[s].alive
    BY <2>3 DEF Watched
  <2>4. CASE \E c \in Callers : Prompting(c, s)
    BY <1>2, <2>4 DEF Watched
  <2>5. CASE Closing(sessions[s].entry)
    <3>1. PICK e : e = sessions[s].entry
      OBVIOUS
    <3>2. Closing(e)'
      BY <1>1, <2>5, <3>1, ClosingAside
    <3>. QED BY <2>1, <3>1, <3>2 DEF Watched, Closing
  <2>. QED BY <2>2, <2>3, <2>4, <2>5 DEF Watched
<1>. QED BY <1>2, <1>3 DEF SessionInv

\* Every prompt is for a session that exists.
LEMMA PromptsExist ==
    ASSUME QInv, NEW d \in Callers, NEW s, Prompting(d, s) PROVE s \in DOMAIN sessions
<1>1. PICK k \in DOMAIN work[d] : work[d][k].op = "prompt" /\ work[d][k].session = s
  BY DEF Prompting
<1>2. work[d] \in Seq(Held)
  BY DEF QInv
<1>3. work[d][k] \in Held
  BY <1>2, ElementOfSeq, LenProperties
<1>. QED BY <1>1, <1>3, HeldByName

\* A session is opened, and its prompt comes next.
LEMMA OpenedSession ==
    ASSUME QInv, SessionInv, NEW row, Open(row), UNCHANGED connected,
           NEW c \in Callers, work[c] # <<>>, Head(work[c]).op \notin {"prompt", "close", "stopRuntime"},
           NEW S, NEW ops \in Seq(S), Then(c, ops),
           1 \in DOMAIN ops, ops[1] = OnSession("prompt", Len(sessions) + 1),
           \A k \in DOMAIN ops : k # 1 => ops[k].op \notin {"prompt", "close", "stopRuntime"}
    PROVE  SessionInv'
<1>. DEFINE n == Len(sessions) + 1
            new == [meta |-> connected, alive |-> FALSE]
            N == {"prompt", "close", "stopRuntime"}
<1>1. /\ sessions \in Seq(Sessions) /\ procs \in Seq(Procs) /\ Len(procs) = Len(sessions)
      /\ Len(sessions) \in Nat
  BY LenProperties DEF QInv, NodeTyped
<1>2. /\ DOMAIN sessions = 1 .. Len(sessions) /\ DOMAIN sessions' = 1 .. n
      /\ \A s \in DOMAIN sessions : sessions'[s] = sessions[s] /\ procs'[s] = procs[s]
      /\ procs'[n] = new
  <2>1. sessions' = Append(sessions, row) /\ procs' = Append(procs, new)
    BY DEF Open
  <2>2. /\ Len(sessions') = n /\ DOMAIN sessions' = 1 .. Len(sessions')
        /\ \A s \in 1 .. Len(sessions) : sessions'[s] = sessions[s]
    BY <1>1, <2>1, AppendProperties
  <2>3. procs'[n] = new /\ \A s \in 1 .. Len(sessions) : procs'[s] = procs[s]
    BY <1>1, <2>1, AppendProperties
  <2>. QED BY <1>1, <2>2, <2>3, LenProperties
<1>. HIDE DEF n
<1>3. n \in Nat /\ n \notin DOMAIN sessions /\ \A s \in DOMAIN sessions' : s \in DOMAIN sessions \/ s = n
  BY <1>1, <1>2 DEF n
<1>4. 1 \in DOMAIN work[c] /\ Head(work[c]) = work[c][1]
  BY FirstIsHead
<1>5. Replaces(c, ops)
  BY DEF Replaces
<1>6. /\ \A d \in Callers : d # c => work'[d] = work[d]
      /\ 1 \in DOMAIN work'[c] /\ work'[c][1] = ops[1]
      /\ \A j \in DOMAIN work[c] : j # 1 =>
           j + (Len(ops) - 1) \in DOMAIN work'[c] /\ work'[c][j + (Len(ops) - 1)] = work[c][j]
      /\ \A k \in DOMAIN work'[c] : \/ k \in DOMAIN ops /\ work'[c][k] = ops[k]
                                    \/ \E j \in DOMAIN work[c] : j # 1 /\ work'[c][k] = work[c][j]
  BY <1>5, Replaced
<1>7. \A k \in DOMAIN work'[c] : work'[c][k].op \in {"prompt", "stopRuntime"} => k = 1
  BY <1>4, <1>6 DEF SessionInv, Connected, Prompts
<1>8. \A k \in DOMAIN work[c] : work[c][k].op # "prompt"
  BY <1>4 DEF SessionInv, Prompts
<1>9. work'[c][1].op = "prompt" /\ work'[c][1].session = n
  BY <1>6 DEF OnSession, n
<1>10. \A s : Prompting(c, s)' <=> s = n
  BY <1>6, <1>7, <1>9 DEF Prompting
<1>11. \A d \in Callers : d # c => \A s : Prompting(d, s)' <=> Prompting(d, s)
  BY <1>6 DEF Prompting
<1>12. \A d \in Callers : ~Prompting(d, n)
  BY <1>3, PromptsExist
<1>13. Connected'
  <2>1. ASSUME NEW d \in Callers, NEW k \in DOMAIN work'[d] PROVE work'[d][k].op # "stopRuntime"
    <3>1. CASE d = c
      BY <1>7, <1>9, <3>1
    <3>2. CASE d # c
      BY <1>6, <3>2 DEF SessionInv, Connected
    <3>. QED BY <3>1, <3>2
  <2>. QED BY <2>1 DEF SessionInv, Connected, Stays
<1>14. Prompts'
  <2>1. ASSUME NEW d \in Callers, NEW k \in DOMAIN work'[d], work'[d][k].op = "prompt" PROVE k = 1
    <3>1. CASE d = c
      BY <1>7, <2>1, <3>1
    <3>2. CASE d # c
      BY <1>6, <2>1, <3>2 DEF SessionInv, Prompts
    <3>. QED BY <3>1, <3>2
  <2>2. ASSUME NEW d \in Callers, NEW s \in DOMAIN sessions', Prompting(d, s)'
        PROVE  procs'[s].meta /\ ~procs'[s].alive /\ \A e \in Callers : Prompting(e, s)' => d = e
    <3>1. CASE d = c
      <4>1. s = n
        BY <1>10, <2>2, <3>1
      <4>2. procs'[s].meta /\ ~procs'[s].alive
        BY <1>2, <4>1 DEF SessionInv, Connected
      <4>. QED BY <1>11, <1>12, <3>1, <4>1, <4>2
    <3>2. CASE d # c
      <4>1. Prompting(d, s)
        BY <1>11, <2>2, <3>2
      <4>2. s \in DOMAIN sessions /\ s # n
        BY <1>3, <1>12, <4>1
      <4>3. procs[s].meta /\ ~procs[s].alive /\ \A e \in Callers : Prompting(e, s) => d = e
        BY <4>1, <4>2 DEF SessionInv, Prompts
      <4>. QED BY <1>2, <1>10, <1>11, <4>2, <4>3
    <3>. QED BY <3>1, <3>2
  <2>3. ASSUME NEW s \in DOMAIN sessions', procs'[s].alive PROVE procs'[s].meta
    <3>1. s # n
      BY <1>2, <2>3
    <3>. QED BY <1>2, <1>3, <2>3, <3>1 DEF SessionInv, Prompts
  <2>. QED BY <2>1, <2>2, <2>3 DEF Prompts
<1>15. ASSUME NEW s \in DOMAIN sessions', IsOpen(s)' PROVE Watched(s)'
  <2>1. CASE s = n
    BY <1>10, <2>1 DEF Watched
  <2>2. CASE s # n
    <3>1. s \in DOMAIN sessions /\ sessions'[s] = sessions[s] /\ procs'[s] = procs[s]
      BY <1>2, <1>3, <2>2
    <3>2. IsOpen(s)
      BY <1>15, <3>1 DEF IsOpen
    <3>3. Watched(s)
      BY <3>1, <3>2 DEF SessionInv
    <3>4. CASE procs[s].alive
      BY <3>1, <3>4 DEF Watched
    <3>5. CASE \E d \in Callers : Prompting(d, s)
      <4>1. PICK d \in Callers : Prompting(d, s)
        BY <3>5
      <4>2. d # c
        BY <1>8, <4>1 DEF Prompting
      <4>. QED BY <1>11, <4>1, <4>2 DEF Watched
    <3>6. CASE Closing(sessions[s].entry)
      <4>1. PICK e : e = sessions[s].entry
        OBVIOUS
      <4>2. PICK d \in Callers : \E j \in DOMAIN work[d] : work[d][j].op = "close" /\ work[d][j].entry = e
        BY <3>6, <4>1 DEF Closing
      <4>3. PICK j \in DOMAIN work[d] : work[d][j].op = "close" /\ work[d][j].entry = e
        BY <4>2
      <4>4. d = c => j # 1
        BY <1>4, <4>3
      <4>5. \E k \in DOMAIN work'[d] : work'[d][k] = work[d][j]
        <5>1. CASE d = c
          BY <1>6, <4>4, <5>1
        <5>2. CASE d # c
          BY <1>6, <5>2
        <5>. QED BY <5>1, <5>2
      <4>6. Closing(e)'
        BY <4>3, <4>5 DEF Closing
      <4>. QED BY <3>1, <4>1, <4>6 DEF Watched, Closing
    <3>. QED BY <3>3, <3>4, <3>5, <3>6 DEF Watched
  <2>. QED BY <2>1, <2>2
<1>. QED BY <1>13, <1>14, <1>15 DEF SessionInv

LEMMA openSessionWatched ==
    ASSUME QInv, SessionInv, NEW c \in Callers, openSession(c) \/ autoProcessReview(c)
    PROVE  SessionInv'
<1>. DEFINE n == Len(sessions) + 1
            e == Head(work[c]).entry
            prompt == OnSession("prompt", n)
            mark == OnEntry("mark", e)
<1>1. CASE openSession(c)
  <2>1. /\ work[c] # <<>> /\ Head(work[c]).op = "open" /\ Then(c, <<prompt>>) /\ UNCHANGED connected
        /\ Open([entry |-> e, task |-> queue[e].task, status |-> "pending"])
    BY <1>1 DEF openSession, Doing
  <2>2. 1 \in DOMAIN <<prompt>> /\ <<prompt>>[1] = prompt /\ \A k \in DOMAIN <<prompt>> : k = 1
    OBVIOUS
  <2>3. <<prompt>> \in Seq({prompt})
    BY ShortSeqs
  <2>. HIDE DEF e
  <2>. QED BY <2>1, <2>2, <2>3, OpenedSession
<1>2. CASE autoProcessReview(c) /\ Then(c, <<prompt, mark>>)
           /\ Open([entry |-> e, task |-> NoTask, status |-> "pending"])
  <2>1. work[c] # <<>> /\ Head(work[c]).op = "openReview" /\ UNCHANGED connected
    BY <1>2 DEF autoProcessReview, Doing
  <2>2. /\ 1 \in DOMAIN <<prompt, mark>> /\ <<prompt, mark>>[1] = prompt
        /\ \A k \in DOMAIN <<prompt, mark>> : k # 1 => <<prompt, mark>>[k] = mark
    OBVIOUS
  <2>3. <<prompt, mark>> \in Seq({prompt, mark})
    BY ShortSeqs
  <2>4. mark.op = "mark"
    BY DEF OnEntry
  <2>. HIDE DEF e, mark
  <2>. QED BY <1>2, <2>1, <2>2, <2>3, <2>4, OpenedSession
<1>3. CASE autoProcessReview(c) /\ Then(c, <<>>) /\ UNCHANGED <<sessions, procs, connected>>
  <2>1. work[c] # <<>> /\ Head(work[c]).op = "openReview"
    BY <1>3 DEF autoProcessReview, Doing
  <2>2. Aside({"prompt", "close", "stopRuntime"})
    BY <1>3, <2>1, ShortAside DEF Replaces
  <2>. QED BY <1>3, <2>2, SessionAside
<1>. QED BY <1>1, <1>2, <1>3 DEF autoProcessReview

\* The process of the session runs from now on.
LEMMA deliverPromptWatched ==
    ASSUME QInv, SessionInv, NEW c \in Callers, deliverPrompt(c) PROVE SessionInv'
<1>1. PICK s : s = Head(work[c]).session
  OBVIOUS
<1>2. /\ work[c] # <<>> /\ Head(work[c]).op = "prompt" /\ Then(c, <<>>) /\ UNCHANGED <<sessions, connected>>
      /\ procs' = [procs EXCEPT ![s].alive = connected]
  BY <1>1 DEF deliverPrompt, Doing
<1>3. 1 \in DOMAIN work[c] /\ work[c][1].op = "prompt" /\ work[c][1].session = s
  BY <1>1, <1>2, FirstIsHead
<1>4. Prompting(c, s)
  BY <1>3 DEF Prompting
<1>5. s \in DOMAIN sessions
  BY <1>4, PromptsExist
<1>6. /\ procs[s].meta /\ \A d \in Callers : Prompting(d, s) => d = c
  BY <1>4, <1>5 DEF SessionInv, Prompts
<1>7. /\ \A x \in DOMAIN sessions : x # s => procs'[x] = procs[x]
      /\ procs'[s].alive /\ procs'[s].meta
  <2>1. \A x \in DOMAIN sessions : x \in DOMAIN procs /\ procs[x] \in Procs
    BY SessionType
  <2>2. connected
    BY DEF SessionInv, Connected
  <2>. QED BY <1>2, <1>5, <1>6, <2>1, <2>2 DEF Procs
<1>8. /\ \A d \in Callers : d # c => work'[d] = work[d]
      /\ \A k \in DOMAIN work'[c] : \E j \in DOMAIN work[c] : j # 1 /\ work'[c][k] = work[c][j]
  <2>. QED BY <1>2, Popped
<1>9. \A k \in DOMAIN work'[c] : work'[c][k].op # "prompt"
  BY <1>8 DEF SessionInv, Prompts
<1>10. \A x : ~Prompting(c, x)'
  BY <1>9 DEF Prompting
<1>11. \A d \in Callers : d # c => \A x : Prompting(d, x)' <=> Prompting(d, x)
  BY <1>8 DEF Prompting
<1>12. Connected'
  <2>1. ASSUME NEW d \in Callers, NEW k \in DOMAIN work'[d] PROVE work'[d][k].op # "stopRuntime"
    <3>1. CASE d = c
      BY <1>8, <3>1 DEF SessionInv, Connected
    <3>2. CASE d # c
      BY <1>8, <3>2 DEF SessionInv, Connected
    <3>. QED BY <3>1, <3>2
  <2>. QED BY <1>2, <2>1 DEF SessionInv, Connected, Stays
<1>13. Prompts'
  <2>1. ASSUME NEW d \in Callers, NEW k \in DOMAIN work'[d], work'[d][k].op = "prompt" PROVE k = 1
    <3>1. d # c
      BY <1>9, <2>1
    <3>. QED BY <1>8, <2>1, <3>1 DEF SessionInv, Prompts
  <2>2. ASSUME NEW d \in Callers, NEW x \in DOMAIN sessions, Prompting(d, x)'
        PROVE  procs'[x].meta /\ ~procs'[x].alive /\ \A e \in Callers : Prompting(e, x)' => d = e
    <3>1. d # c /\ Prompting(d, x)
      BY <1>10, <1>11, <2>2
    <3>2. x # s
      BY <1>6, <3>1
    <3>3. procs[x].meta /\ ~procs[x].alive /\ \A e \in Callers : Prompting(e, x) => d = e
      BY <3>1 DEF SessionInv, Prompts
    <3>. QED BY <1>7, <1>10, <1>11, <3>2, <3>3
  <2>3. \A x \in DOMAIN sessions : procs'[x].alive => procs'[x].meta
    BY <1>7 DEF SessionInv, Prompts
  <2>. QED BY <1>2, <2>1, <2>2, <2>3 DEF Prompts
<1>14. ASSUME NEW x \in DOMAIN sessions, IsOpen(x)' PROVE Watched(x)'
  <2>1. CASE x = s
    BY <1>7, <2>1 DEF Watched
  <2>2. CASE x # s
    <3>1. Watched(x)
      BY <1>2, <1>14 DEF SessionInv, IsOpen
    <3>2. CASE procs[x].alive
      BY <1>7, <2>2, <3>2 DEF Watched
    <3>3. CASE \E d \in Callers : Prompting(d, x)
      <4>1. PICK d \in Callers : Prompting(d, x)
        BY <3>3
      <4>2. d # c
        <5>1. PICK k \in DOMAIN work[d] : work[d][k].op = "prompt" /\ work[d][k].session = x
          BY <4>1 DEF Prompting
        <5>2. k = 1
          BY <5>1 DEF SessionInv, Prompts
        <5>. QED BY <1>3, <2>2, <5>1, <5>2
      <4>. QED BY <1>11, <4>1, <4>2 DEF Watched
    <3>4. CASE Closing(sessions[x].entry)
      <4>1. PICK e : e = sessions[x].entry
        OBVIOUS
      <4>2. Aside({"close"})
        BY <1>2, ShortAside DEF Replaces
      <4>3. Closing(e)'
        BY <3>4, <4>1, <4>2, ClosingAside
      <4>. QED BY <1>2, <4>1, <4>3 DEF Watched, Closing
    <3>. QED BY <3>1, <3>2, <3>3, <3>4 DEF Watched
  <2>. QED BY <2>1, <2>2
<1>. QED BY <1>2, <1>12, <1>13, <1>14 DEF SessionInv

\* A process ends, and its end is reported: the sessions of its entry will be closed.
LEMMA handleSessionCompleteWatched ==
    ASSUME QInv, SessionInv, NEW c \in Callers, NEW s \in DOMAIN sessions, handleSessionComplete(c, s)
    PROVE  SessionInv'
<1>1. PICK status \in {"completed", "failed"}, summary \in BOOLEAN :
         work' = [work EXCEPT ![c] = IF procs[s].meta THEN Report(sessions[s].entry, status, summary)
                                     ELSE <<>>]
  BY DEF handleSessionComplete
<1>2. PICK e : e = sessions[s].entry
  OBVIOUS
<1>. DEFINE ops == Report(e, status, summary)
<1>3. work[c] = <<>> /\ procs[s].alive /\ procs[s].meta
  BY DEF handleSessionComplete, SessionInv, Prompts
<1>4. Replaces(c, ops) /\ UNCHANGED <<sessions, connected>>
  BY <1>1, <1>2, <1>3 DEF Replaces, handleSessionComplete
<1>5. /\ ops \in Seq(Held) /\ 3 \in DOMAIN ops /\ ops[3].op = "close" /\ ops[3].entry = e
      /\ \A k \in DOMAIN ops : ops[k].op \in {"settle", "lower", "close", "complete"}
  BY <1>2, SessionType, ReportHeld, ReportNames
<1>. HIDE DEF ops
<1>6. Aside({"prompt", "stopRuntime"})
  <2>1. \A k \in DOMAIN ops : ops[k].op \notin {"prompt", "stopRuntime"}
    BY <1>5
  <2>. QED BY <1>3, <1>4, <1>5, <2>1, AsideBy
<1>7. Closing(e)'
  <2>1. 3 \in DOMAIN work'[c] /\ work'[c][3] = ops[3]
    BY <1>4, <1>5, Replaced
  <2>. QED BY <1>5, <2>1 DEF Closing
<1>8. \A x : Closing(x) => Closing(x)'
  <2>. SUFFICES ASSUME NEW x, Closing(x) PROVE Closing(x)'
    OBVIOUS
  <2>1. PICK d \in Callers : \E j \in DOMAIN work[d] : work[d][j].op = "close" /\ work[d][j].entry = x
    BY DEF Closing
  <2>2. DOMAIN <<>> = {}
    OBVIOUS
  <2>3. work'[d] = work[d]
    BY <1>3, <1>4, <1>5, <2>1, <2>2, Replaced
  <2>. QED BY <2>1, <2>3 DEF Closing
<1>9. /\ \A x \in DOMAIN sessions : x # s => procs'[x] = procs[x]
      /\ ~procs'[s].alive /\ ~procs'[s].meta
  <2>1. \A x \in DOMAIN sessions : x \in DOMAIN procs /\ procs[x] \in Procs
    BY SessionType
  <2>2. procs' = [procs EXCEPT ![s] = [meta |-> FALSE, alive |-> FALSE]]
    BY DEF handleSessionComplete
  <2>. QED BY <2>1, <2>2 DEF Procs
<1>10. \A d \in Callers : ~Prompting(d, s)
  BY <1>3 DEF SessionInv, Prompts
<1>11. /\ Connected'
       /\ \A d \in Callers : \A k \in DOMAIN work'[d] : work'[d][k].op = "prompt" => k = 1
       /\ \A d \in Callers : \A x : Prompting(d, x)' <=> Prompting(d, x)
  BY <1>4, <1>6, WorkPromptsAside DEF SessionInv
<1>12. Prompts'
  <2>1. ASSUME NEW d \in Callers, NEW x \in DOMAIN sessions, Prompting(d, x)'
        PROVE  procs'[x].meta /\ ~procs'[x].alive /\ \A b \in Callers : Prompting(b, x)' => d = b
    <3>1. Prompting(d, x) /\ x # s
      BY <1>10, <1>11, <2>1
    <3>2. procs[x].meta /\ ~procs[x].alive /\ \A b \in Callers : Prompting(b, x) => d = b
      BY <3>1 DEF SessionInv, Prompts
    <3>. QED BY <1>9, <1>11, <3>1, <3>2
  <2>2. \A x \in DOMAIN sessions : procs'[x].alive => procs'[x].meta
    BY <1>9 DEF SessionInv, Prompts
  <2>. QED BY <1>4, <1>11, <2>1, <2>2 DEF Prompts
<1>13. ASSUME NEW x \in DOMAIN sessions, IsOpen(x)' PROVE Watched(x)'
  <2>1. CASE x = s
    BY <1>2, <1>4, <1>7, <2>1 DEF Watched, Closing
  <2>2. CASE x # s
    <3>1. Watched(x)
      BY <1>4, <1>13 DEF SessionInv, IsOpen
    <3>2. CASE procs[x].alive
      BY <1>9, <2>2, <3>2 DEF Watched
    <3>3. CASE \E d \in Callers : Prompting(d, x)
      BY <1>11, <3>3 DEF Watched
    <3>4. CASE Closing(sessions[x].entry)
      <4>1. PICK b : b = sessions[x].entry
        OBVIOUS
      <4>2. Closing(b)'
        BY <1>8, <3>4, <4>1
      <4>. QED BY <1>4, <4>1, <4>2 DEF Watched, Closing
    <3>. QED BY <3>1, <3>2, <3>3, <3>4 DEF Watched
  <2>. QED BY <2>1, <2>2
<1>. QED BY <1>4, <1>11, <1>12, <1>13 DEF SessionInv

\* The sessions of the entry are closed; those of other entries will be.
LEMMA closeSessionsWatched ==
    ASSUME QInv, SessionInv, NEW c \in Callers, closeSessions(c) PROVE SessionInv'
<1>1. PICK e : e = Head(work[c]).entry
  OBVIOUS
<1>2. /\ work[c] # <<>> /\ Head(work[c]).op = "close" /\ Then(c, <<>>)
      /\ UNCHANGED <<procs, connected>> /\ DOMAIN sessions' = DOMAIN sessions
  BY DEF closeSessions, Doing
<1>3. Head(work[c]).status # "pending"
  <2>1. Head(work[c]).status \in {"completed", "failed"}
    BY <1>2, HeadIsHeld, HeldByName
  <2>. QED BY <2>1
<1>4. ASSUME NEW s \in DOMAIN sessions
      PROVE  /\ sessions'[s].entry = sessions[s].entry /\ sessions'[s].task = sessions[s].task
             /\ sessions'[s].status = "pending" => sessions[s].status = "pending"
             /\ sessions[s].entry = e /\ sessions[s].task # NoTask => sessions'[s].status # "pending"
  <2>1. sessions[s] \in Sessions
    BY SessionType
  <2>2. sessions'[s] = IF /\ sessions[s].entry = Head(work[c]).entry /\ sessions[s].task # NoTask
                          /\ sessions[s].status = "pending"
                       THEN [sessions[s] EXCEPT !.status = Head(work[c]).status] ELSE sessions[s]
    BY DEF closeSessions
  <2>. QED BY <1>1, <1>3, <2>1, <2>2 DEF Sessions
<1>5. Aside({"prompt", "stopRuntime"})
  BY <1>2, ShortAside DEF Replaces
<1>6. /\ Connected' /\ Prompts'
      /\ \A d \in Callers : \A s : Prompting(d, s)' <=> Prompting(d, s)
  BY <1>2, <1>5, PromptsAside DEF SessionInv
<1>7. ASSUME NEW x, x # e, Closing(x) PROVE Closing(x)'
  <2>1. PICK d \in Callers : \E j \in DOMAIN work[d] : work[d][j].op = "close" /\ work[d][j].entry = x
    BY <1>7 DEF Closing
  <2>2. PICK j \in DOMAIN work[d] : work[d][j].op = "close" /\ work[d][j].entry = x
    BY <2>1
  <2>3. d = c => j # 1
    BY <1>1, <1>2, <1>7, <2>2, FirstIsHead
  <2>4. \E k \in DOMAIN work'[d] : work'[d][k] = work[d][j]
    BY <1>2, <2>3, Popped
  <2>. QED BY <2>2, <2>4 DEF Closing
<1>8. ASSUME NEW s \in DOMAIN sessions, IsOpen(s)' PROVE Watched(s)'
  <2>1. IsOpen(s) /\ sessions'[s].entry = sessions[s].entry /\ sessions[s].entry # e
    BY <1>4, <1>8 DEF IsOpen
  <2>2. Watched(s)
    BY <2>1 DEF SessionInv
  <2>3. CASE procs[s].alive
    BY <1>2, <2>3 DEF Watched
  <2>4. CASE \E d \in Callers : Prompting(d, s)
    BY <1>6, <2>4 DEF Watched
  <2>5. CASE Closing(sessions[s].entry)
    <3>1. PICK x : x = sessions[s].entry
      OBVIOUS
    <3>2. Closing(x)'
      BY <1>7, <2>1, <2>5, <3>1
    <3>. QED BY <2>1, <3>1, <3>2 DEF Watched, Closing
  <2>. QED BY <2>2, <2>3, <2>4, <2>5 DEF Watched
<1>. QED BY <1>2, <1>6, <1>8 DEF SessionInv

\* The steps that leave the sessions alone, or only close one.
LEMMA QueueStepWatched ==
    ASSUME QInv, SessionInv, NEW c \in Callers, QueueStep(c) PROVE SessionInv'
<1>. DEFINE N == {"prompt", "close", "stopRuntime"}
<1>1. N \cap Common = {} /\ N \cap OpNames = {}
  BY DEF OpNames, Common
<1>2. ASSUME Aside(N), UNCHANGED queueVars PROVE SessionInv'
  BY <1>2, SessionAside DEF queueVars
<1>3. CASE supersede(c)
  <2>1. Aside(N)
    BY <1>1, <1>3, QueueAside
  <2>2. /\ UNCHANGED <<procs, connected>>
        /\ sessions' = [sessions EXCEPT ![Head(work[c]).session].status = "failed"]
    BY <1>3 DEF supersede
  <2>3. ASSUME NEW s \in DOMAIN sessions
        PROVE  /\ sessions'[s].entry = sessions[s].entry /\ sessions'[s].task = sessions[s].task
               /\ sessions'[s].status = "pending" => sessions[s].status = "pending"
    <3>1. sessions[s] \in Sessions
      BY SessionType
    <3>. QED BY <2>2, <3>1 DEF Sessions
  <2>4. DOMAIN sessions' = DOMAIN sessions
    BY <2>2
  <2>. QED BY <2>1, <2>2, <2>3, <2>4, SessionAside
<1>4. CASE stopRuntime(c)
  <2>1. work[c] # <<>> /\ Head(work[c]).op = "stopRuntime"
    BY <1>4 DEF stopRuntime, Doing
  <2>2. 1 \in DOMAIN work[c] /\ work[c][1].op = "stopRuntime"
    BY <2>1, FirstIsHead
  <2>. QED BY <2>2 DEF SessionInv, Connected
<1>5. CASE openSession(c) \/ autoProcessReview(c) \/ deliverPrompt(c) \/ closeSessions(c)
  BY <1>5, openSessionWatched, deliverPromptWatched, closeSessionsWatched
<1>6. CASE claim(c) \/ CreateSession(c) \/ findStale(c) \/ ClaimQueueItem(c) \/ startProcessing(c)
  BY <1>1, <1>2, <1>6, QueueAside
     DEF claim, CreateSession, findStale, ClaimQueueItem, startProcessing
<1>7. CASE settleEntry(c) \/ lowerLoad(c) \/ completeTask(c) \/ queueForReview(c) \/ insertReview(c)
  BY <1>1, <1>2, <1>7, QueueAside
     DEF settleEntry, lowerLoad, completeTask, queueForReview, insertReview
<1>8. CASE markProcessing(c) \/ autoProcessTask(c) \/ failEntriesOfAgent(c) \/ zeroLoad(c)
           \/ failEntriesOfNode(c) \/ writeUpdate(c)
  BY <1>1, <1>2, <1>8, QueueAside
     DEF markProcessing, autoProcessTask, failEntriesOfAgent, zeroLoad, failEntriesOfNode, writeUpdate
<1>. QED BY <1>3, <1>4, <1>5, <1>6, <1>7, <1>8 DEF QueueStep

\* What cannot happen while the node stays connected.
LEMMA NothingLost ==
    ASSUME Connected, QueueNext
    PROVE  /\ ~ServerRestart /\ ~Disconnect
           /\ \A c \in Callers : ~Reconnect(c) /\ ~StopNode(c)
BY DEF Connected, Stays, ServerRestart, Restart, Disconnect, Reconnect, StopNode, NodeRequest

LEMMA SessionNext == QInv /\ SessionInv /\ [QueueNext]_allVars => SessionInv'
<1>. SUFFICES ASSUME QInv, SessionInv, [QueueNext]_allVars PROVE SessionInv'
  OBVIOUS
<1>. DEFINE N == {"prompt", "close", "stopRuntime"}
<1>1. N \cap Common = {} /\ N \cap OpNames = {}
  BY DEF OpNames, Common
<1>2. ASSUME Aside(N), UNCHANGED queueVars PROVE SessionInv'
  BY <1>2, SessionAside DEF queueVars
<1>3. ASSUME (\E c \in Callers : ServiceStep(c)) \/ Requests, UNCHANGED queueVars PROVE SessionInv'
  BY <1>1, <1>2, <1>3, ServiceAside
<1>4. ASSUME NEW c \in Callers, pollQueue(c) PROVE SessionInv'
  BY <1>1, <1>2, <1>4, QueueAside DEF pollQueue
<1>5. ASSUME NEW c \in Callers, NEW t \in Tasks, AutoAssign(c, t) PROVE SessionInv'
  BY <1>1, <1>2, <1>5, RequestAside DEF AutoAssign
<1>6. ASSUME NEW c \in Callers, NEW a \in Agents, DisableProfile(c, a) PROVE SessionInv'
  BY <1>1, <1>2, <1>6, RequestAside DEF DisableProfile
<1>7. ASSUME NEW c \in Callers, NEW e \in DOMAIN queue, ClaimByUser(c, e) PROVE SessionInv'
  BY <1>1, <1>2, <1>7, RequestAside DEF ClaimByUser
<1>8. ASSUME NEW c \in Callers, NEW e \in DOMAIN queue, NEW status \in QueueStatuses, UpdateStatus(c, e, status)
      PROVE  SessionInv'
  BY <1>1, <1>2, <1>8, RequestAside DEF UpdateStatus
<1>9. ASSUME UNCHANGED <<work, queueVars>> PROVE SessionInv'
  BY <1>1, <1>2, <1>9, ServiceAside
<1>10. ASSUME NEW a \in Agents, EnableProfile(a) PROVE SessionInv'
  BY <1>9, <1>10 DEF EnableProfile
<1>11. CASE UNCHANGED allVars
  BY <1>9, <1>11 DEF allVars, vars
<1>12. CASE QueueNext
  <2>1. ~ServerRestart /\ ~Disconnect /\ \A c \in Callers : ~Reconnect(c) /\ ~StopNode(c)
    BY <1>12, NothingLost DEF SessionInv
  <2>. QED BY <1>3, <1>4, <1>5, <1>6, <1>7, <1>8, <1>10, <1>12, <2>1,
              QueueStepWatched, handleSessionCompleteWatched DEF QueueNext
<1>. QED BY <1>11, <1>12

LEMMA SessionInit == Stays /\ QueueInit => SessionInv
<1>. SUFFICES ASSUME Stays, QueueInit PROVE SessionInv
  OBVIOUS
<1>1. DOMAIN <<>> = {}
  OBVIOUS
<1>2. \A c \in Callers : DOMAIN work[c] = {}
  BY <1>1 DEF QueueInit, Init
<1>3. DOMAIN sessions = {} /\ connected
  BY <1>1 DEF QueueInit
<1>. QED BY <1>2, <1>3 DEF SessionInv, Connected, Prompts

LEMMA SessionInvariant == Stays /\ QueueSpec => [](QInv /\ SessionInv)
BY SessionInit, SessionNext, QueueInitQInv, QueueNextQInv, PTL DEF QueueSpec

\* While the node stays connected, a session row is left open by no request:
\* when they have all ended, the process of an open session runs, and its end
\* will be reported (OpenIsAlive).  However many pollers, and whatever is
\* assigned, updated, disabled, deleted or restored in between.
THEOREM OpenSessionIsAlive == Stays /\ QueueSpec => []OpenIsAlive
<1>1. QInv /\ SessionInv => OpenIsAlive
  <2>. SUFFICES ASSUME SessionInv, Quiet, NEW s \in DOMAIN sessions, IsOpen(s) PROVE procs[s].alive
    BY DEF OpenIsAlive, IsOpen
  <2>1. DOMAIN <<>> = {}
    OBVIOUS
  <2>2. \A c \in Callers : DOMAIN work[c] = {}
    BY <2>1 DEF Quiet
  <2>. QED BY <2>2 DEF SessionInv, Watched, Prompting, Closing
<1>. QED BY <1>1, SessionInvariant, PTL

-----------------------------------------------------------------------------
(* What a step does to the entries.                                        *)

\* Entries keep their task and agent, and their status changes only to failed.
EntriesKept ==
    /\ DOMAIN queue \subseteq DOMAIN queue'
    /\ \A e \in DOMAIN queue : /\ queue'[e].task = queue[e].task /\ queue'[e].agent = queue[e].agent
                               /\ queue'[e].status \in {queue[e].status, "failed"}

\* The active entries of a task have failed.
LEMMA FailActiveKeeps ==
    ASSUME NEW q \in Seq(Entries), NEW t, NEW e \in DOMAIN q
    PROVE  LET r == FailActive(q, t) IN
           /\ r[e].task = q[e].task /\ r[e].agent = q[e].agent
           /\ r[e].status \in {q[e].status, "failed"}
<1>1. q[e] \in Entries
  BY ElementOfSeq, LenProperties
<1>. QED BY <1>1 DEF FailActive, Entries

LEMMA ServiceKeepsEntries ==
    ASSUME QInv, NEW c \in Callers, ServiceStep(c) PROVE EntriesKept
<1>1. SoundHead(c) /\ Tables /\ queue \in Seq(Entries)
  BY HeadOfService DEF QInv, Tables
<1>2. CASE insertQueueEntry(c)
  <2>1. PICK x : queue' = Append(queue, x)
    BY <1>2 DEF insertQueueEntry
  <2>2. \A e \in DOMAIN queue : queue'[e] = queue[e]
    BY <1>1, <2>1
  <2>. QED BY <2>2, ServiceGrows DEF EntriesKept
<1>3. CASE processPendingActions(c)
  <2>1. PICK new \in Seq(Entries) : queue' = FailActive(queue \o new, Head(work[c]).task)
    BY <1>1, <1>3, ReleasedEntries
  <2>2. PICK t : t = Head(work[c]).task
    OBVIOUS
  <2>3. PICK q : q = queue \o new
    OBVIOUS
  <2>4. q \in Seq(Entries) /\ \A e \in DOMAIN queue : e \in DOMAIN q /\ q[e] = queue[e]
    <3>1. /\ q \in Seq(Entries) /\ Len(q) = Len(queue) + Len(new)
          /\ Len(queue) \in Nat /\ Len(new) \in Nat
          /\ \A i \in 1 .. Len(queue) : q[i] = queue[i]
      BY <1>1, <2>3, ConcatProperties, LenProperties
    <3>2. DOMAIN queue = 1 .. Len(queue) /\ DOMAIN q = 1 .. Len(q)
      BY <1>1, <3>1, LenProperties
    <3>. QED BY <3>1, <3>2
  <2>5. queue' = FailActive(q, t)
    BY <2>1, <2>2, <2>3
  <2>6. ASSUME NEW e \in DOMAIN queue
        PROVE  /\ queue'[e].task = queue[e].task /\ queue'[e].agent = queue[e].agent
               /\ queue'[e].status \in {queue[e].status, "failed"}
    BY <2>4, <2>5, FailActiveKeeps
  <2>. QED BY <2>6, ServiceGrows DEF EntriesKept
<1>4. CASE failEntriesOfTask(c)
  <2>1. PICK t : t = Head(work[c]).task
    OBVIOUS
  <2>2. queue' = FailActive(queue, t)
    BY <1>4, <2>1 DEF failEntriesOfTask
  <2>3. ASSUME NEW e \in DOMAIN queue
        PROVE  /\ queue'[e].task = queue[e].task /\ queue'[e].agent = queue[e].agent
               /\ queue'[e].status \in {queue[e].status, "failed"}
    BY <1>1, <2>2, FailActiveKeeps
  <2>. QED BY <2>3, ServiceGrows DEF EntriesKept
<1>5. CASE UNCHANGED queue
  BY <1>5 DEF EntriesKept
<1>. QED BY <1>2, <1>3, <1>4, <1>5
     DEF ServiceStep, readTaskSnapshot, resolveCompletionTarget, writeStatus, tryAutoDispatch,
         createReviewQueue, bumpLoad, readPendingActions, dropLoadOfTask, countLoop,
         enterOnTaskCompleted, gatherDAGTransitions, checkDependents, checkSiblings, readParent,
         applyDAGTransitions, leaveOnTaskCompleted,
         evaluateRules, assignUser

\* Entries keep their tasks.
TasksKept == \A e \in DOMAIN queue : e \in DOMAIN queue' /\ queue'[e].task = queue[e].task

LEMMA StatusWritten ==
    ASSUME QInv, NEW status, NEW e, SetEntry(e, status) PROVE TasksKept
<1>1. ASSUME NEW i \in DOMAIN queue PROVE queue'[i].task = queue[i].task
  <2>1. queue[i] \in Entries
    BY EntryType
  <2>. QED BY <2>1 DEF SetEntry, Entries
<1>. QED BY <1>1 DEF TasksKept, SetEntry

LEMMA QueueStepKeepsTasks ==
    ASSUME QInv, NEW c \in Callers, QueueStep(c) PROVE TasksKept
<1>1. CASE UNCHANGED queue
  BY <1>1 DEF TasksKept
<1>2. ASSUME NEW e, NEW status, SetEntry(e, status) PROVE TasksKept
  BY <1>2, StatusWritten
<1>3. CASE insertReview(c)
  <2>1. PICK x : queue' = Append(queue, x)
    BY <1>3 DEF insertReview
  <2>2. queue \in Seq(Entries)
    BY DEF QInv, Tables
  <2>3. \A e \in DOMAIN queue : e \in DOMAIN queue' /\ queue'[e] = queue[e]
    BY <2>1, <2>2
  <2>. QED BY <2>3 DEF TasksKept
<1>4. CASE failEntriesOfAgent(c) \/ failEntriesOfNode(c)
  <2>1. /\ DOMAIN queue' = DOMAIN queue
        /\ \A i \in DOMAIN queue : queue'[i] \in {queue[i], [queue[i] EXCEPT !.status = "failed"]}
    BY <1>4 DEF failEntriesOfAgent, failEntriesOfNode
  <2>2. ASSUME NEW i \in DOMAIN queue PROVE queue'[i].task = queue[i].task
    <3>1. queue[i] \in Entries
      BY EntryType
    <3>. QED BY <2>1, <3>1 DEF Entries
  <2>. QED BY <2>1, <2>2 DEF TasksKept
<1>5. CASE autoProcessTask(c)
  <2>1. \/ UNCHANGED queue
        \/ queue' = [queue EXCEPT ![Head(work[c]).entry].status = "queued"]
    BY <1>5 DEF autoProcessTask
  <2>2. CASE queue' = [queue EXCEPT ![Head(work[c]).entry].status = "queued"]
    BY <1>2, <2>2 DEF SetEntry
  <2>. QED BY <1>1, <2>1, <2>2
<1>6. CASE ClaimQueueItem(c) \/ startProcessing(c) \/ settleEntry(c) \/ markProcessing(c) \/ writeUpdate(c)
  BY <1>2, <1>6 DEF ClaimQueueItem, startProcessing, settleEntry, markProcessing, writeUpdate
<1>7. CASE \/ claim(c) \/ CreateSession(c) \/ findStale(c) \/ supersede(c) \/ openSession(c)
           \/ deliverPrompt(c) \/ lowerLoad(c) \/ closeSessions(c) \/ completeTask(c)
           \/ queueForReview(c) \/ autoProcessReview(c) \/ zeroLoad(c) \/ stopRuntime(c)
  BY <1>1, <1>7 DEF claim, CreateSession, findStale, supersede, openSession, deliverPrompt, lowerLoad,
       closeSessions, completeTask, queueForReview, autoProcessReview, zeroLoad, stopRuntime
<1>. QED BY <1>3, <1>4, <1>5, <1>6, <1>7 DEF QueueStep

-----------------------------------------------------------------------------
(* One poller opens one session of a task at a time.                       *)

\* One goroutine polls, and the scheduler assigns nothing, which would open sessions too.
OnePoller == (\A c, d \in InitPollers : c = d) /\ "assign" \notin NodeKinds

Opening == {"stale", "supersede", "open"}

\* The open sessions of the task of entry e are in S.
OpenWithin(e, S) ==
    \A x \in DOMAIN sessions : IsOpen(x) /\ sessions[x].task = queue[e].task => x \in S

\* Operation k of c, one of Opening, comes at its turn: the look for an open session, or
\* the end of the one that was found and then the opening of a new one.
InTurn(c, k) ==
    \/ k = 1 /\ work[c][1].op = "stale"
    \/ k = 1 /\ work[c][1].op = "open" /\ OpenWithin(work[c][1].entry, {})
    \/ /\ k = 1 /\ work[c][1].op = "supersede"
       /\ 2 \in DOMAIN work[c] /\ work[c][2].op = "open"
       /\ OpenWithin(work[c][2].entry, {work[c][1].session})
    \/ k = 2 /\ work[c][2].op = "open" /\ work[c][1].op = "supersede"

OneEach == \A x, y \in DOMAIN sessions :
              IsOpen(x) /\ IsOpen(y) /\ sessions[x].task = sessions[y].task => x = y

PollersOpen ==
    \A c \in Callers : \A k \in DOMAIN work[c] :
      /\ work[c][k].op \in {"claim", "create"} \cup Opening => c \in InitPollers
      /\ work[c][k].op # "auto"

OneInv == /\ OnePoller /\ pollers = InitPollers /\ PollersOpen /\ OneEach
          /\ \A c \in Callers : \A k \in DOMAIN work[c] : work[c][k].op \in Opening => InTurn(c, k)

\* No session is opened, but of a review.
NoneOpened ==
    \A x \in DOMAIN sessions' : IsOpen(x)' =>
       x \in DOMAIN sessions /\ IsOpen(x) /\ sessions'[x].task = sessions[x].task

\* An operation about an entry names one that exists.
LEMMA EntryOfOp ==
    ASSUME QInv, NEW c \in Callers, NEW k \in DOMAIN work[c], work[c][k].op \in EntryNames
    PROVE  work[c][k].entry \in DOMAIN queue
<1>1. work[c] \in Seq(Held)
  BY DEF QInv
<1>2. work[c][k] \in Held
  BY <1>1, ElementOfSeq, LenProperties
<1>. QED BY <1>2, HeldByName

LEMMA WithinKept ==
    ASSUME TasksKept, NoneOpened, NEW e \in DOMAIN queue, NEW S, OpenWithin(e, S)
    PROVE  OpenWithin(e, S)'
BY DEF OpenWithin, TasksKept, NoneOpened

\* A goroutine that does not go on keeps its turn.
LEMMA TurnKept ==
    ASSUME QInv, TasksKept, NoneOpened, NEW c \in Callers, work'[c] = work[c],
           NEW k, InTurn(c, k), k \in DOMAIN work[c]
    PROVE  InTurn(c, k)'
<1>1. CASE k = 1 /\ work[c][1].op = "stale"
  BY <1>1 DEF InTurn
<1>2. CASE k = 1 /\ work[c][1].op = "open" /\ OpenWithin(work[c][1].entry, {})
  <2>1. PICK e : e = work[c][1].entry
    OBVIOUS
  <2>2. e \in DOMAIN queue
    BY <1>2, <2>1, EntryOfOp DEF EntryNames
  <2>3. OpenWithin(e, {})'
    BY <1>2, <2>1, <2>2, WithinKept
  <2>. QED BY <1>2, <2>1, <2>3 DEF InTurn, OpenWithin
<1>3. CASE /\ k = 1 /\ work[c][1].op = "supersede"
           /\ 2 \in DOMAIN work[c] /\ work[c][2].op = "open"
           /\ OpenWithin(work[c][2].entry, {work[c][1].session})
  <2>1. PICK e, s : e = work[c][2].entry /\ s = work[c][1].session
    OBVIOUS
  <2>2. e \in DOMAIN queue
    BY <1>3, <2>1, EntryOfOp DEF EntryNames
  <2>3. OpenWithin(e, {s})'
    BY <1>3, <2>1, <2>2, WithinKept
  <2>. QED BY <1>3, <2>1, <2>3 DEF InTurn, OpenWithin
<1>4. CASE k = 2 /\ work[c][2].op = "open" /\ work[c][1].op = "supersede"
  BY <1>4 DEF InTurn
<1>. QED BY <1>1, <1>2, <1>3, <1>4 DEF InTurn

LEMMA OneEachKept == ASSUME OneEach, NoneOpened PROVE OneEach'
BY DEF OneEach, NoneOpened

\* A goroutine whose first operation opens nothing has no such operation at all.
LEMMA NotOpening ==
    ASSUME OneInv, NEW c \in Callers, 1 \in DOMAIN work[c] => work[c][1].op \notin Opening,
           NEW k \in DOMAIN work[c], k # 1 => 1 \in DOMAIN work[c]
    PROVE  work[c][k].op \notin Opening
<1>. SUFFICES ASSUME work[c][k].op \in Opening PROVE FALSE
  OBVIOUS
<1>1. InTurn(c, k)
  BY DEF OneInv
<1>. QED BY <1>1 DEF InTurn, Opening

\* Where there is an operation there is a first one.
LEMMA HasFirst ==
    ASSUME QInv, NEW c \in Callers, NEW k \in DOMAIN work[c]
    PROVE  1 \in DOMAIN work[c] /\ work[c] # <<>> /\ k \in Nat \ {0}
<1>1. work[c] \in Seq(Held)
  BY DEF QInv
<1>2. Len(work[c]) \in Nat /\ DOMAIN work[c] = 1 .. Len(work[c])
  BY <1>1, LenProperties
<1>3. DOMAIN <<>> = {}
  OBVIOUS
<1>. QED BY <1>2, <1>3

\* After the first, only an open follows, and only a supersede.
LEMMA NoneBehind ==
    ASSUME QInv, OneInv, NEW c \in Callers, NEW k \in DOMAIN work[c], k # 1,
           work[c][k].op \in Opening
    PROVE  k = 2 /\ work[c][2].op = "open" /\ work[c][1].op = "supersede"
<1>1. InTurn(c, k)
  BY DEF OneInv
<1>. QED BY <1>1 DEF InTurn

\* A step that puts no session forward, claims nothing and opens nothing.
LEMMA OneAside ==
    ASSUME QInv, OneInv, Aside({"claim", "create", "auto"} \cup Opening), TasksKept, NoneOpened,
           UNCHANGED pollers
    PROVE  OneInv'
<1>. DEFINE N == {"claim", "create", "auto"} \cup Opening
<1>1. ASSUME NEW d \in Callers, work'[d] # work[d]
      PROVE  \A k \in DOMAIN work'[d] :
               work'[d][k].op \in N => work'[d][k].op \in {"claim", "create"} /\ d \in InitPollers
  <2>1. Shifted(d, N)
    BY <1>1 DEF Aside
  <2>2. 1 \in DOMAIN work[d] => work[d][1].op \notin N
    BY <2>1 DEF Shifted
  <2>3. \A k \in DOMAIN work[d] : work[d][k].op \notin Opening
    BY <2>2, NotOpening, HasFirst
  <2>4. \A k \in DOMAIN work'[d] : work'[d][k].op \in N => \E j \in DOMAIN work[d] : work'[d][k] = work[d][j]
    BY <2>1 DEF Shifted
  <2>5. \A j \in DOMAIN work[d] :
          work[d][j].op \in N => work[d][j].op \in {"claim", "create"} /\ d \in InitPollers
    BY <2>3 DEF OneInv, PollersOpen
  <2>. QED BY <2>4, <2>5
<1>2. ASSUME NEW d \in Callers, NEW k \in DOMAIN work'[d]
      PROVE  /\ work'[d][k].op \in {"claim", "create"} \cup Opening => d \in InitPollers
             /\ work'[d][k].op # "auto"
             /\ work'[d][k].op \in Opening => InTurn(d, k)'
  <2>1. CASE work'[d] = work[d]
    <3>1. /\ work[d][k].op \in {"claim", "create"} \cup Opening => d \in InitPollers
          /\ work[d][k].op # "auto"
          /\ work[d][k].op \in Opening => InTurn(d, k)
      BY <1>2, <2>1 DEF OneInv, PollersOpen
    <3>2. work[d][k].op \in Opening => InTurn(d, k)'
      BY <1>2, <2>1, <3>1, TurnKept
    <3>. QED BY <2>1, <3>1, <3>2
  <2>2. CASE work'[d] # work[d]
    BY <1>1, <1>2, <2>2 DEF Opening
  <2>. QED BY <2>1, <2>2
<1>3. PollersOpen'
  BY <1>2 DEF PollersOpen
<1>4. OneEach'
  BY OneEachKept DEF OneInv
<1>. QED BY <1>2, <1>3, <1>4 DEF OneInv, OnePoller

\* A step of the poller: no other goroutine opens anything.
LEMMA PollerTurn ==
    ASSUME OneInv, NEW c \in InitPollers, c \in Callers, \A d \in Callers : d # c => work'[d] = work[d],
           UNCHANGED pollers, OneEach',
           \A k \in DOMAIN work'[c] : /\ work'[c][k].op # "auto"
                                      /\ work'[c][k].op \in Opening => InTurn(c, k)'
    PROVE  OneInv'
<1>1. ASSUME NEW d \in Callers, NEW k \in DOMAIN work'[d]
      PROVE  /\ work'[d][k].op \in {"claim", "create"} \cup Opening => d \in InitPollers
             /\ work'[d][k].op # "auto"
             /\ work'[d][k].op \in Opening => InTurn(d, k)'
  <2>1. CASE d = c
    BY <1>1, <2>1
  <2>2. CASE d # c
    <3>1. d \notin InitPollers
      BY <2>2 DEF OneInv, OnePoller
    <3>2. work[d][k].op \notin {"claim", "create"} \cup Opening /\ work[d][k].op # "auto"
      BY <1>1, <2>2, <3>1 DEF OneInv, PollersOpen
    <3>. QED BY <2>2, <3>2
  <2>. QED BY <2>1, <2>2
<1>2. PollersOpen'
  BY <1>1 DEF PollersOpen
<1>. QED BY <1>1, <1>2 DEF OneInv, OnePoller

\* The sessions and the entries are left alone.
LEMMA SessionsKept ==
    ASSUME UNCHANGED <<queue, sessions>>
    PROVE  /\ TasksKept /\ NoneOpened /\ (OneEach => OneEach')
           /\ \A e, S : OpenWithin(e, S) => OpenWithin(e, S)'
BY DEF TasksKept, NoneOpened, OneEach, OpenWithin, IsOpen

\* The poller goes on with ops, which come at their turn.
LEMMA PollerGoesOn ==
    ASSUME QInv, OneInv, NEW c \in Callers, NEW S, NEW ops \in Seq(S), Replaces(c, ops),
           c \in InitPollers, 1 \in DOMAIN work[c] => work[c][1].op # "supersede",
           OneEach', UNCHANGED pollers,
           \A k \in DOMAIN ops : /\ ops[k].op # "auto"
                                 /\ ops[k].op \in Opening => InTurn(c, k)'
    PROVE  OneInv'
<1>1. /\ \A d \in Callers : d # c => work'[d] = work[d]
      /\ \A k \in DOMAIN ops : k \in DOMAIN work'[c] /\ work'[c][k] = ops[k]
      /\ \A k \in DOMAIN work'[c] : k \in DOMAIN ops \/
           (/\ k - (Len(ops) - 1) \in DOMAIN work[c] /\ k - (Len(ops) - 1) # 1
            /\ work'[c][k] = work[c][k - (Len(ops) - 1)])
  BY Replaced
<1>2. ASSUME NEW j \in DOMAIN work[c], j # 1 PROVE work[c][j].op \notin Opening \cup {"auto"}
  <2>1. work[c][j].op # "auto"
    BY DEF OneInv, PollersOpen
  <2>2. work[c][j].op \notin Opening
    BY <1>2, NoneBehind, HasFirst
  <2>. QED BY <2>1, <2>2
<1>3. ASSUME NEW k \in DOMAIN work'[c]
      PROVE  work'[c][k].op # "auto" /\ (work'[c][k].op \in Opening => InTurn(c, k)')
  <2>1. CASE k \in DOMAIN ops
    BY <1>1, <2>1
  <2>2. CASE k \notin DOMAIN ops
    <3>1. PICK j \in DOMAIN work[c] : j # 1 /\ work'[c][k] = work[c][j]
      BY <1>1, <1>3, <2>2
    <3>. QED BY <1>2, <3>1
  <2>. QED BY <2>1, <2>2
<1>. QED BY <1>1, <1>3, PollerTurn

LEMMA pollQueueOne ==
    ASSUME QInv, OneInv, NEW c \in Callers, pollQueue(c) PROVE OneInv'
<1>. DEFINE n == Cardinality(ListQueue)
<1>1. PICK items \in [1 .. n -> ListQueue] :
         work' = [work EXCEPT ![c] = [i \in DOMAIN items |-> OnEntry("claim", items[i])]]
  BY DEF pollQueue
<1>. DEFINE ops == [i \in DOMAIN items |-> OnEntry("claim", items[i])]
<1>2. n \in Nat
  <2>1. queue \in Seq(Entries) /\ ListQueue \subseteq DOMAIN queue
    BY DEF QInv, Tables, ListQueue
  <2>2. IsFiniteSet(DOMAIN queue)
    BY <2>1, LenProperties, FS_Interval
  <2>. QED BY <2>1, <2>2, FS_Subset, FS_CardinalityType
<1>. HIDE DEF n
<1>3. \A i \in DOMAIN ops : ops[i].op = "claim"
  BY DEF OnEntry
<1>4. ops \in [1 .. n -> {ops[i] : i \in 1 .. n}]
  OBVIOUS
<1>5. ops \in Seq({ops[i] : i \in 1 .. n})
  BY <1>2, <1>4, SeqDef
<1>6. work[c] = <<>> /\ c \in InitPollers /\ UNCHANGED <<queue, sessions, pollers>>
  BY DEF pollQueue, OneInv, queueVars
<1>7. Replaces(c, ops)
  BY <1>1, <1>6 DEF Replaces
<1>8. DOMAIN work[c] = {}
  <2>1. DOMAIN <<>> = {}
    OBVIOUS
  <2>. QED BY <1>6, <2>1
<1>9. OneEach'
  BY <1>6, SessionsKept DEF OneInv
<1>. HIDE DEF ops
<1>10. \A k \in DOMAIN ops : ops[k].op # "auto" /\ ops[k].op \notin Opening
  BY <1>3 DEF Opening
<1>. QED BY <1>5, <1>6, <1>7, <1>8, <1>9, <1>10, PollerGoesOn

\* The poller that runs the first operation of its continuation.
LEMMA AtTurn ==
    ASSUME QInv, OneInv, NEW c \in Callers, work[c] # <<>>,
           Head(work[c]).op \in {"claim", "create"} \cup Opening
    PROVE  /\ 1 \in DOMAIN work[c] /\ work[c][1] = Head(work[c]) /\ c \in InitPollers
           /\ Head(work[c]).op \in Opening => InTurn(c, 1)
<1>1. 1 \in DOMAIN work[c] /\ work[c][1] = Head(work[c])
  BY FirstIsHead
<1>. QED BY <1>1 DEF OneInv, PollersOpen

LEMMA claimOne ==
    ASSUME QInv, OneInv, NEW c \in Callers, claim(c) PROVE OneInv'
<1>. DEFINE e == Head(work[c]).entry
            four == <<OnEntry("claimWrite", e), OnAgent("bump", queue[e].agent),
                      OnEntry("process", e), OnEntry("create", e)>>
<1>1. work[c] # <<>> /\ Head(work[c]).op = "claim" /\ UNCHANGED <<queue, sessions, pollers>>
  BY DEF claim, Doing, queueVars
<1>2. Replaces(c, four) \/ Replaces(c, <<>>)
  BY <1>1 DEF claim, Replaces
<1>3. \A k \in DOMAIN four : four[k].op \notin Opening \cup {"auto"}
  BY DEF OnEntry, OnAgent, Opening
<1>4. four \in [1 .. 4 -> {four[i] : i \in 1 .. 4}]
  OBVIOUS
<1>5. four \in Seq({four[i] : i \in 1 .. 4})
  BY <1>4, SeqDef
<1>. HIDE DEF four
<1>6. OneEach' /\ c \in InitPollers /\ work[c][1].op # "supersede"
  BY <1>1, SessionsKept, AtTurn DEF OneInv
<1>7. PICK none : none = <<>>
  OBVIOUS
<1>8. none \in Seq(Held) /\ DOMAIN none = {}
  BY <1>7, ShortSeqs
<1>9. CASE Replaces(c, four)
  BY <1>1, <1>3, <1>5, <1>6, <1>9, PollerGoesOn
<1>10. CASE Replaces(c, none)
  BY <1>1, <1>6, <1>8, <1>10, PollerGoesOn
<1>. QED BY <1>2, <1>7, <1>9, <1>10

LEMMA CreateSessionOne ==
    ASSUME QInv, OneInv, NEW c \in Callers, CreateSession(c) PROVE OneInv'
<1>1. work[c] # <<>> /\ Head(work[c]).op = "create" /\ UNCHANGED <<queue, sessions, pollers>>
  BY DEF CreateSession, Doing, queueVars
<1>2. PICK e : e = Head(work[c]).entry
  OBVIOUS
<1>3. PICK one, none : one = <<OnEntry("stale", e)>> /\ none = <<>>
  OBVIOUS
<1>4. Replaces(c, one) \/ Replaces(c, none)
  BY <1>1, <1>2, <1>3 DEF CreateSession, Replaces
<1>5. one \in Seq({OnEntry("stale", e)}) /\ none \in Seq(Held) /\ DOMAIN none = {}
  BY <1>3, ShortSeqs
<1>6. DOMAIN one = {1} /\ one[1].op = "stale"
  BY <1>3 DEF OnEntry
<1>7. OneEach' /\ c \in InitPollers /\ work[c][1].op # "supersede"
  BY <1>1, SessionsKept, AtTurn DEF OneInv
<1>8. CASE Replaces(c, one)
  <2>1. work'[c][1] = one[1]
    BY <1>5, <1>6, <1>8, Replaced
  <2>2. InTurn(c, 1)'
    BY <1>6, <2>1 DEF InTurn
  <2>. QED BY <1>1, <1>5, <1>6, <1>7, <1>8, <2>2, PollerGoesOn
<1>9. CASE Replaces(c, none)
  BY <1>1, <1>5, <1>7, <1>9, PollerGoesOn
<1>. QED BY <1>4, <1>8, <1>9

\* The look for an open session: none, or the only one.
LEMMA findStaleOne ==
    ASSUME QInv, OneInv, NEW c \in Callers, findStale(c) PROVE OneInv'
<1>1. work[c] # <<>> /\ Head(work[c]).op = "stale" /\ UNCHANGED <<queue, sessions, pollers>>
  BY DEF findStale, Doing, queueVars
<1>2. PICK e : e = Head(work[c]).entry
  OBVIOUS
<1>3. e \in DOMAIN queue /\ queue[e].task \in Tasks /\ queue[e].task # NoTask
  <2>1. e \in DOMAIN queue
    BY <1>1, <1>2, HeadEntry DEF EntryNames
  <2>. QED BY <2>1, EntryType, TaskAssumption
<1>4. OneEach' /\ c \in InitPollers /\ work[c][1].op # "supersede"
  BY <1>1, SessionsKept, AtTurn DEF OneInv, Opening
<1>5. CASE OpenSessions(queue[e].task) = {} /\ Then(c, <<OnEntry("open", e)>>)
  <2>1. PICK one : one = <<OnEntry("open", e)>>
    OBVIOUS
  <2>2. one \in Seq({OnEntry("open", e)}) /\ Replaces(c, one)
    BY <1>1, <1>5, <2>1, ShortSeqs DEF Replaces
  <2>3. DOMAIN one = {1} /\ one[1].op = "open" /\ one[1].entry = e
    BY <2>1 DEF OnEntry
  <2>4. work'[c][1] = one[1]
    BY <2>2, <2>3, Replaced
  <2>5. OpenWithin(e, {})
    BY <1>5 DEF OpenWithin, OpenSessions, IsOpen
  <2>6. OpenWithin(e, {})'
    BY <1>1, <2>5, SessionsKept
  <2>7. InTurn(c, 1)'
    BY <2>3, <2>4, <2>6 DEF InTurn, OpenWithin
  <2>. QED BY <1>1, <1>4, <2>2, <2>3, <2>7, PollerGoesOn
<1>6. ASSUME NEW s \in OpenSessions(queue[e].task),
             Then(c, <<OnSession("supersede", s), OnEntry("open", e)>>)
      PROVE  OneInv'
  <2>1. PICK two : two = <<OnSession("supersede", s), OnEntry("open", e)>>
    OBVIOUS
  <2>2. two \in Seq({OnSession("supersede", s), OnEntry("open", e)}) /\ Replaces(c, two)
    BY <1>1, <1>6, <2>1, ShortSeqs DEF Replaces
  <2>3. /\ DOMAIN two = {1, 2} /\ two[1].op = "supersede" /\ two[1].session = s
        /\ two[2].op = "open" /\ two[2].entry = e
    BY <2>1 DEF OnEntry, OnSession
  <2>4. work'[c][1] = two[1] /\ work'[c][2] = two[2] /\ 2 \in DOMAIN work'[c]
    BY <2>2, <2>3, Replaced
  <2>5. OpenWithin(e, {s})
    BY <1>3, <1>6 DEF OpenWithin, OpenSessions, IsOpen, OneInv, OneEach
  <2>6. OpenWithin(e, {s})'
    BY <1>1, <2>5, SessionsKept
  <2>7. InTurn(c, 1)' /\ InTurn(c, 2)'
    BY <2>3, <2>4, <2>6 DEF InTurn, OpenWithin
  <2>. QED BY <1>1, <1>4, <2>2, <2>3, <2>7, PollerGoesOn
<1>. QED BY <1>2, <1>5, <1>6 DEF findStale

\* The session that was found ends, and the new one can be opened.
LEMMA supersedeOne ==
    ASSUME QInv, OneInv, NEW c \in Callers, supersede(c) PROVE OneInv'
<1>1. /\ work[c] # <<>> /\ Head(work[c]).op = "supersede" /\ Then(c, <<>>) /\ UNCHANGED <<queue, pollers>>
      /\ sessions' = [sessions EXCEPT ![Head(work[c]).session].status = "failed"]
  BY DEF supersede, Doing
<1>2. /\ 1 \in DOMAIN work[c] /\ work[c][1] = Head(work[c]) /\ c \in InitPollers
      /\ InTurn(c, 1)
  BY <1>1, AtTurn DEF Opening
<1>3. PICK s, e : s = work[c][1].session /\ e = work[c][2].entry
  OBVIOUS
<1>4. /\ 2 \in DOMAIN work[c] /\ work[c][2].op = "open" /\ OpenWithin(e, {s})
  BY <1>1, <1>2, <1>3 DEF InTurn
<1>5. \A x \in DOMAIN sessions :
        sessions'[x] = IF x = s THEN [sessions[x] EXCEPT !.status = "failed"] ELSE sessions[x]
  BY <1>1, <1>2, <1>3
<1>6. ASSUME NEW x \in DOMAIN sessions', IsOpen(x)'
      PROVE  x \in DOMAIN sessions /\ IsOpen(x) /\ x # s /\ sessions'[x].task = sessions[x].task
  <2>1. x \in DOMAIN sessions
    BY <1>1
  <2>2. sessions[x] \in Sessions
    BY <2>1, SessionType
  <2>3. x # s
    BY <1>5, <1>6, <2>1, <2>2 DEF IsOpen, Sessions
  <2>. QED BY <1>5, <1>6, <2>1, <2>3 DEF IsOpen
<1>7. NoneOpened /\ OneEach'
  BY <1>6, OneEachKept DEF NoneOpened, OneInv
<1>8. OpenWithin(e, {})'
  BY <1>1, <1>4, <1>6 DEF OpenWithin
<1>9. PICK none : none = <<>>
  OBVIOUS
<1>10. none \in Seq(Held) /\ Replaces(c, none)
  BY <1>1, <1>9, ShortSeqs DEF Replaces
<1>11. /\ \A d \in Callers : d # c => work'[d] = work[d]
       /\ \A j \in DOMAIN work[c] : j # 1 =>
            j + (0 - 1) \in DOMAIN work'[c] /\ work'[c][j + (0 - 1)] = work[c][j]
       /\ \A k \in DOMAIN work'[c] : k - (0 - 1) \in DOMAIN work[c] /\ k - (0 - 1) # 1
                                     /\ work'[c][k] = work[c][k - (0 - 1)]
       /\ \A k \in DOMAIN work'[c] : k \in Nat \ {0}
  <2>1. /\ \A d \in Callers : d # c => work'[d] = work[d]
        /\ \A j \in DOMAIN work[c] : j # 1 =>
             j + (Len(none) - 1) \in DOMAIN work'[c] /\ work'[c][j + (Len(none) - 1)] = work[c][j]
        /\ \A k \in DOMAIN work'[c] : k \in DOMAIN none \/
             (/\ k - (Len(none) - 1) \in DOMAIN work[c] /\ k - (Len(none) - 1) # 1
              /\ work'[c][k] = work[c][k - (Len(none) - 1)])
    BY <1>10, Replaced
  <2>2. \A d \in Callers : DOMAIN work'[d] \subseteq Nat \ {0}
    BY <1>10, Replaced
  <2>3. Len(none) = 0 /\ DOMAIN none = {}
    BY <1>9
  <2>. QED BY <2>1, <2>2, <2>3
<1>12. 2 + (0 - 1) = 1
  OBVIOUS
<1>13. 1 \in DOMAIN work'[c] /\ work'[c][1] = work[c][2]
  BY <1>4, <1>11, <1>12
<1>14. InTurn(c, 1)'
  BY <1>3, <1>4, <1>8, <1>13 DEF InTurn, OpenWithin
<1>15. ASSUME NEW k \in DOMAIN work'[c]
       PROVE  work'[c][k].op # "auto" /\ (work'[c][k].op \in Opening => InTurn(c, k)')
  <2>1. PICK j \in DOMAIN work[c] : j = k - (0 - 1) /\ j # 1 /\ work'[c][k] = work[c][j]
    BY <1>11, <1>15
  <2>2. k \in Nat /\ j = k + 1
    BY <1>11, <1>15, <2>1
  <2>3. work'[c][k].op # "auto"
    BY <2>1 DEF OneInv, PollersOpen
  <2>4. work'[c][k].op \in Opening => j = 2
    BY <2>1, NoneBehind
  <2>5. j = 2 => k = 1
    BY <2>2
  <2>. QED BY <1>14, <2>3, <2>4, <2>5
<1>. QED BY <1>1, <1>2, <1>7, <1>11, <1>15, PollerTurn

\* A row is added to the sessions.
LEMMA RowAdded ==
    ASSUME QInv, NEW row, Open(row)
    PROVE  LET n == Len(sessions) + 1 IN
           /\ n \notin DOMAIN sessions /\ sessions'[n] = row
           /\ \A x \in DOMAIN sessions' : x \in DOMAIN sessions \/ x = n
           /\ \A x \in DOMAIN sessions : sessions'[x] = sessions[x]
<1>1. sessions \in Seq(Sessions) /\ sessions' = Append(sessions, row)
  BY DEF QInv, NodeTyped, Open
<1>2. Len(sessions) \in Nat /\ DOMAIN sessions = 1 .. Len(sessions)
  BY <1>1, LenProperties
<1>3. /\ DOMAIN sessions' = 1 .. (Len(sessions) + 1)
      /\ sessions'[Len(sessions) + 1] = row
      /\ \A x \in DOMAIN sessions : sessions'[x] = sessions[x]
  BY <1>1, <1>2
<1>. QED BY <1>2, <1>3

\* The poller opens a session of a task that has none.
LEMMA openSessionOne ==
    ASSUME QInv, OneInv, NEW c \in Callers, openSession(c) PROVE OneInv'
<1>1. PICK e : e = Head(work[c]).entry
  OBVIOUS
<1>2. PICK n, row : /\ n = Len(sessions) + 1
                    /\ row = [entry |-> e, task |-> queue[e].task, status |-> "pending"]
  OBVIOUS
<1>3. PICK one : one = <<OnSession("prompt", n)>>
  OBVIOUS
<1>4. /\ work[c] # <<>> /\ Head(work[c]).op = "open" /\ Then(c, one) /\ UNCHANGED <<queue, pollers>>
      /\ Open(row)
  BY <1>1, <1>2, <1>3 DEF openSession, Doing
<1>5. 1 \in DOMAIN work[c] /\ work[c][1] = Head(work[c]) /\ c \in InitPollers /\ InTurn(c, 1)
  BY <1>4, AtTurn DEF Opening
<1>6. OpenWithin(e, {})
  BY <1>1, <1>4, <1>5 DEF InTurn
<1>7. /\ n \notin DOMAIN sessions /\ sessions'[n] = row
      /\ \A x \in DOMAIN sessions' : x \in DOMAIN sessions \/ x = n
      /\ \A x \in DOMAIN sessions : sessions'[x] = sessions[x]
  BY <1>2, <1>4, RowAdded
<1>8. ASSUME NEW x \in DOMAIN sessions', IsOpen(x)', sessions'[x].task = queue[e].task PROVE x = n
  <2>. SUFFICES ASSUME x # n PROVE FALSE
    OBVIOUS
  <2>1. x \in DOMAIN sessions /\ sessions'[x] = sessions[x]
    BY <1>7
  <2>. QED BY <1>6, <1>8, <2>1 DEF OpenWithin, IsOpen
<1>9. OneEach'
  <2>. SUFFICES ASSUME NEW x \in DOMAIN sessions', NEW y \in DOMAIN sessions', IsOpen(x)', IsOpen(y)',
                       sessions'[x].task = sessions'[y].task
                PROVE  x = y
    BY DEF OneEach
  <2>1. CASE x = n \/ y = n
    <3>1. sessions'[n].task = queue[e].task
      BY <1>2, <1>7
    <3>2. sessions'[x].task = queue[e].task /\ sessions'[y].task = queue[e].task
      BY <2>1, <3>1
    <3>3. x = n /\ y = n
      BY <1>8, <3>2
    <3>. QED BY <3>3
  <2>2. CASE x # n /\ y # n
    <3>1. /\ x \in DOMAIN sessions /\ sessions'[x] = sessions[x]
          /\ y \in DOMAIN sessions /\ sessions'[y] = sessions[y]
      BY <1>7, <2>2
    <3>. QED BY <3>1 DEF OneInv, OneEach, IsOpen
  <2>. QED BY <2>1, <2>2
<1>10. one \in Seq({OnSession("prompt", n)}) /\ Replaces(c, one)
  BY <1>3, <1>4, ShortSeqs DEF Replaces
<1>11. \A k \in DOMAIN one : one[k].op \notin Opening \cup {"auto"}
  BY <1>3 DEF OnSession, Opening
<1>. QED BY <1>4, <1>5, <1>9, <1>10, <1>11, PollerGoesOn

\* The session of a review is not one of its task.
LEMMA autoProcessReviewNone ==
    ASSUME QInv, NEW c \in Callers, autoProcessReview(c) PROVE NoneOpened
<1>1. PICK row : \/ UNCHANGED sessions
                 \/ row.task = NoTask /\ Open(row)
  <2>1. PICK row : row = [entry |-> Head(work[c]).entry, task |-> NoTask, status |-> "pending"]
    OBVIOUS
  <2>2. UNCHANGED sessions \/ Open(row)
    BY <2>1 DEF autoProcessReview
  <2>. QED BY <2>1, <2>2
<1>2. CASE UNCHANGED sessions
  BY <1>2 DEF NoneOpened, IsOpen
<1>3. CASE row.task = NoTask /\ Open(row)
  BY <1>3, RowAdded DEF NoneOpened, IsOpen
<1>. QED BY <1>1, <1>2, <1>3

LEMMA closeSessionsNone ==
    ASSUME QInv, NEW c \in Callers, closeSessions(c) PROVE NoneOpened
<1>1. DOMAIN sessions' = DOMAIN sessions
  BY DEF closeSessions
<1>2. ASSUME NEW x \in DOMAIN sessions
      PROVE  sessions'[x].task = sessions[x].task /\ (IsOpen(x)' => IsOpen(x))
  <2>1. sessions[x] \in Sessions
    BY SessionType
  <2>2. \/ sessions'[x] = sessions[x]
        \/ /\ sessions[x].task # NoTask /\ sessions[x].status = "pending"
           /\ sessions'[x] = [sessions[x] EXCEPT !.status = Head(work[c]).status]
    BY DEF closeSessions
  <2>. QED BY <2>1, <2>2 DEF IsOpen, Sessions
<1>. QED BY <1>1, <1>2 DEF NoneOpened

LEMMA QueueStepOne ==
    ASSUME QInv, Connected, OneInv, NEW c \in Callers, QueueStep(c) PROVE OneInv'
<1>. DEFINE N == {"claim", "create", "auto"} \cup Opening
<1>1. N \cap Common = {} /\ N \cap OpNames = {}
  BY DEF OpNames, Common, Opening
<1>2. TasksKept
  BY QueueStepKeepsTasks
<1>3. N = {"claim", "create", "auto", "stale", "supersede", "open"}
  BY DEF Opening
<1>4. ASSUME Aside(N), UNCHANGED sessions, UNCHANGED pollers PROVE OneInv'
  <2>1. NoneOpened
    BY <1>4 DEF NoneOpened, IsOpen
  <2>. QED BY <1>2, <1>4, <2>1, OneAside
<1>. HIDE DEF N
<1>5. CASE claim(c) \/ CreateSession(c) \/ findStale(c) \/ supersede(c) \/ openSession(c)
  BY <1>5, claimOne, CreateSessionOne, findStaleOne, supersedeOne, openSessionOne
<1>6. CASE closeSessions(c)
  <2>1. Aside(N)
    BY <1>1, <1>3, <1>6, QueueAside
  <2>. QED BY <1>2, <1>6, <2>1, closeSessionsNone, OneAside DEF N, closeSessions
<1>7. CASE autoProcessReview(c)
  <2>1. Aside(N)
    BY <1>1, <1>3, <1>7, QueueAside
  <2>. QED BY <1>2, <1>7, <2>1, autoProcessReviewNone, OneAside DEF N, autoProcessReview
<1>8. CASE stopRuntime(c)
  <2>1. work[c] # <<>> /\ Head(work[c]).op = "stopRuntime"
    BY <1>8 DEF stopRuntime, Doing
  <2>2. 1 \in DOMAIN work[c] /\ work[c][1].op = "stopRuntime"
    BY <2>1, FirstIsHead
  <2>. QED BY <2>2 DEF Connected
<1>9. CASE autoProcessTask(c)
  <2>1. work[c] # <<>> /\ Head(work[c]).op = "auto"
    BY <1>9 DEF autoProcessTask, Doing
  <2>2. 1 \in DOMAIN work[c] /\ work[c][1].op = "auto"
    BY <2>1, FirstIsHead
  <2>. QED BY <2>2 DEF OneInv, PollersOpen
<1>10. CASE ClaimQueueItem(c) \/ startProcessing(c) \/ deliverPrompt(c) \/ settleEntry(c) \/ lowerLoad(c)
  <2>1. Aside(N)
    BY <1>1, <1>3, <1>10, QueueAside
  <2>. QED BY <1>4, <1>10, <2>1
       DEF ClaimQueueItem, startProcessing, deliverPrompt, settleEntry, lowerLoad, queueVars
<1>11. CASE completeTask(c) \/ queueForReview(c) \/ insertReview(c) \/ markProcessing(c)
  <2>1. Aside(N)
    BY <1>1, <1>3, <1>11, QueueAside
  <2>. QED BY <1>4, <1>11, <2>1 DEF completeTask, queueForReview, insertReview, markProcessing, queueVars
<1>12. CASE failEntriesOfAgent(c) \/ zeroLoad(c) \/ failEntriesOfNode(c) \/ writeUpdate(c)
  <2>1. Aside(N)
    BY <1>1, <1>3, <1>12, QueueAside
  <2>. QED BY <1>4, <1>12, <2>1 DEF failEntriesOfAgent, zeroLoad, failEntriesOfNode, writeUpdate, queueVars
<1>. QED BY <1>5, <1>6, <1>7, <1>8, <1>9, <1>10, <1>11, <1>12 DEF QueueStep

LEMMA OneNext == QInv /\ SessionInv /\ OneInv /\ [QueueNext]_allVars => OneInv'
<1>. SUFFICES ASSUME QInv, SessionInv, OneInv, [QueueNext]_allVars PROVE OneInv'
  OBVIOUS
<1>. DEFINE N == {"claim", "create", "auto"} \cup Opening
<1>1. /\ N \cap Common = {} /\ N \cap OpNames = {}
      /\ {"settle", "close", "claimWrite", "update"} \cap N = {}
  BY DEF OpNames, Common, Opening
<1>2. ASSUME Aside(N), UNCHANGED <<sessions, pollers>>, TasksKept PROVE OneInv'
  <2>1. NoneOpened
    BY <1>2 DEF NoneOpened, IsOpen
  <2>. QED BY <1>2, <2>1, OneAside
<1>. HIDE DEF N
<1>3. UNCHANGED queue => TasksKept
  BY DEF TasksKept
<1>4. ASSUME NEW c \in Callers, ServiceStep(c), UNCHANGED queueVars PROVE OneInv'
  <2>1. Aside(N) /\ TasksKept
    BY <1>1, <1>4, ServiceAside, ServiceKeepsEntries DEF EntriesKept, TasksKept
  <2>. QED BY <1>2, <1>4, <2>1 DEF queueVars
<1>5. ASSUME Requests, UNCHANGED queueVars PROVE OneInv'
  <2>1. UNCHANGED queue
    BY <1>5 DEF Requests, SetStatus, HandleReview, MarkCompleted, checkStuckTasks, Delete, Restore, Start
  <2>2. Aside(N)
    BY <1>1, <1>5, ServiceAside
  <2>. QED BY <1>2, <1>3, <1>5, <2>1, <2>2 DEF queueVars
<1>6. ASSUME NEW c \in Callers, NEW s \in DOMAIN sessions, handleSessionComplete(c, s) PROVE OneInv'
  <2>1. Aside(N)
    BY <1>1, <1>6, RequestAside
  <2>. QED BY <1>2, <1>3, <1>6, <2>1 DEF handleSessionComplete
<1>7. ASSUME NEW c \in Callers, NEW a \in Agents, DisableProfile(c, a) PROVE OneInv'
  <2>1. Aside(N)
    BY <1>1, <1>7, RequestAside
  <2>. QED BY <1>2, <1>3, <1>7, <2>1 DEF DisableProfile, queueVars
<1>8. ASSUME NEW c \in Callers, NEW e \in DOMAIN queue, ClaimByUser(c, e) PROVE OneInv'
  <2>1. Aside(N)
    BY <1>1, <1>8, RequestAside
  <2>. QED BY <1>2, <1>3, <1>8, <2>1 DEF ClaimByUser, queueVars
<1>9. ASSUME NEW c \in Callers, NEW e \in DOMAIN queue, NEW status \in QueueStatuses, UpdateStatus(c, e, status)
      PROVE  OneInv'
  <2>1. Aside(N)
    BY <1>1, <1>9, RequestAside
  <2>. QED BY <1>2, <1>3, <1>9, <2>1 DEF UpdateStatus, queueVars
<1>10. ASSUME NEW a \in Agents, EnableProfile(a) PROVE OneInv'
  <2>1. Aside(N)
    BY <1>1, <1>10, ServiceAside DEF EnableProfile
  <2>. QED BY <1>2, <1>3, <1>10, <2>1 DEF EnableProfile, queueVars
<1>11. CASE UNCHANGED allVars
  <2>1. Aside(N)
    BY <1>1, <1>11, ServiceAside DEF allVars, vars
  <2>. QED BY <1>2, <1>3, <1>11, <2>1 DEF allVars, vars, queueVars
<1>12. CASE QueueNext
  <2>1. ~ServerRestart /\ ~Disconnect /\ \A c \in Callers : ~Reconnect(c) /\ ~StopNode(c)
    BY <1>12, NothingLost DEF SessionInv
  <2>2. \A c \in Callers : \A t \in Tasks : ~AutoAssign(c, t)
    BY DEF AutoAssign, NodeRequest, OneInv, OnePoller
  <2>. QED BY <1>4, <1>5, <1>6, <1>7, <1>8, <1>9, <1>10, <1>12, <2>1, <2>2,
              QueueStepOne, pollQueueOne DEF QueueNext, SessionInv
<1>. QED BY <1>11, <1>12

LEMMA OneInit == OnePoller /\ QueueInit => OneInv
<1>. SUFFICES ASSUME OnePoller, QueueInit PROVE OneInv
  OBVIOUS
<1>1. DOMAIN <<>> = {}
  OBVIOUS
<1>2. \A c \in Callers : DOMAIN work[c] = {}
  BY <1>1 DEF QueueInit, Init
<1>3. DOMAIN sessions = {} /\ pollers = InitPollers
  BY <1>1 DEF QueueInit
<1>. QED BY <1>2, <1>3 DEF OneInv, PollersOpen, OneEach

LEMMA OneInvariant == Stays /\ OnePoller /\ QueueSpec => [](QInv /\ SessionInv /\ OneInv)
BY SessionInit, SessionNext, OneInit, OneNext, QueueInitQInv, QueueNextQInv, PTL DEF QueueSpec

\* While the node keeps its connection, and with it its one poller, a task has
\* at most one open session (OneOpenSession): the look for an open session, the
\* end of the one that is found and the opening of another are three steps, and
\* no end of a process, review, update or disabled profile between them opens one.
THEOREM SessionsAreSingle == Stays /\ OnePoller /\ QueueSpec => []OneOpenSession
<1>1. ASSUME QInv, OneInv, NEW t \in Tasks PROVE Cardinality(OpenSessions(t)) <= 1
  <2>. DEFINE S == OpenSessions(t)
  <2>1. \A x, y \in S : x = y
    BY <1>1, TaskAssumption DEF OneInv, OneEach, OpenSessions, IsOpen
  <2>. HIDE DEF S
  <2>2. CASE S = {}
    BY <2>2, FS_EmptySet DEF S
  <2>3. CASE S # {}
    <3>1. PICK x : S = {x}
      BY <2>1, <2>3
    <3>. QED BY <3>1, FS_Singleton DEF S
  <2>. QED BY <2>2, <2>3
<1>2. QInv /\ OneInv => OneOpenSession
  BY <1>1 DEF OneOpenSession
<1>. QED BY <1>2, OneInvariant, PTL

-----------------------------------------------------------------------------
(* Each task has its agent.                                                *)

\* The agent a dispatch that is held back is for is that of the task it is about.
ActionFor(owner, t, x) == x.agent = owner[IF x.type = "create_sub_task" THEN x.sub ELSE t]
RowFor(owner, t, row) == /\ ~row.deleted /\ row.assignee \in {NoAgent, owner[t]}
                         /\ \A i \in DOMAIN row.pending : ActionFor(owner, t, row.pending[i])

\* No task is in the trash, and there is an agent for each that is its assignee, if it has
\* one, and that the dispatches held back for it are for.
MayHave(owner) == owner \in [Tasks -> Agents] /\ \A t \in Tasks : RowFor(owner, t, InitRow[t])
Owner == CHOOSE owner : MayHave(owner)

\* No task changes hands or goes to the trash, and entries are written by the pollers and
\* the ends of processes only.
OneAgentEach == /\ \E owner : MayHave(owner)
                /\ "delete" \notin Kinds /\ {"assign", "update"} \cap NodeKinds = {}

\* An operation that is about the agent of its task, and neither hands the task over nor
\* writes an entry late.
Owned(o) ==
    /\ o.op \in {"dispatch", "reviewQueue", "insert"} => o.agent = Owner[o.task]
    /\ o.op = "loops" => o.agent \in {NoAgent, Owner[o.task]}
    /\ o.op \in {"resolve", "write"} => o.snap.assignee \in {NoAgent, Owner[o.task]}
    /\ o.op = "release" => \A i \in DOMAIN o.actions : ActionFor(Owner, o.task, o.actions[i])
    /\ o.op \notin {"mark", "auto", "update", "insertReview", "openReview"}

RowsOwned == \A t \in Tasks : RowFor(Owner, t, task[t])
EntriesOwned == \A e \in DOMAIN queue : queue[e].agent = Owner[queue[e].task]
WorkOwned == \A c \in Callers : \A k \in DOMAIN work[c] : Owned(work[c][k])
OwnInv == OneAgentEach /\ RowsOwned /\ EntriesOwned /\ WorkOwned

\* The operations of TaskService that are owned; most of them have no agent.
OwnOps == {o \in SoundOps : Owned(o)}
OwnGoesOn(c) == work[c] # <<>> /\ \E ops \in Seq(OwnOps) : Then(c, ops)

LEMMA OwnerIs == ASSUME OneAgentEach PROVE MayHave(Owner)
BY DEF OneAgentEach, Owner

LEMMA PlainOwned ==
    /\ \A o \in SoundOps : o.op \in {"transition", "bump", "pending", "dag", "gather", "leave", "rules",
                                     "dropLoad", "failActive", "unassign", "check", "siblings",
                                     "parent", "advance"} => o \in OwnOps
    /\ \A t \in Tasks, to \in Statuses, s \in BOOLEAN : Transition(t, to, s) \in OwnOps
    /\ \A t \in Tasks, to \in Statuses, s \in BOOLEAN, n \in 0 .. maxRetries - 1 :
         [Transition(t, to, s) EXCEPT !.attempt = n] \in OwnOps
    /\ \A t \in Tasks : \A name \in {"pending", "dag", "gather", "leave", "rules", "dropLoad",
                                     "failActive", "unassign"} : On(name, t) \in OwnOps
    /\ \A a \in Agents : [op |-> "bump", agent |-> a] \in OwnOps
    /\ \A o \in Gathered : o \in OwnOps
<1>1. \A o \in SoundOps : o.op \in {"transition", "bump", "pending", "dag", "gather", "leave", "rules",
                                     "dropLoad", "failActive", "unassign", "check", "siblings",
                                     "parent", "advance"} => o \in OwnOps
  BY DEF OwnOps, Owned
<1>2. \A t \in Tasks, to \in Statuses, s \in BOOLEAN : Transition(t, to, s) \in OwnOps
  <2>1. \A t, to, s : Transition(t, to, s).op = "transition"
    BY DEF Transition
  <2>. QED BY <1>1, <2>1, SoundByName
<1>3. \A t \in Tasks, to \in Statuses, s \in BOOLEAN, n \in 0 .. maxRetries - 1 :
         [Transition(t, to, s) EXCEPT !.attempt = n] \in OwnOps
  <2>. SUFFICES ASSUME NEW t \in Tasks, NEW to \in Statuses, NEW s \in BOOLEAN, NEW n \in 0 .. maxRetries - 1
                PROVE  [Transition(t, to, s) EXCEPT !.attempt = n] \in OwnOps
    OBVIOUS
  <2>1. [Transition(t, to, s) EXCEPT !.attempt = n].op = "transition"
    BY DEF Transition
  <2>2. [Transition(t, to, s) EXCEPT !.attempt = n] \in SoundOps
    BY SoundByName
  <2>. QED BY <1>1, <2>1, <2>2
<1>4. \A t \in Tasks : \A name \in {"pending", "dag", "gather", "leave", "rules", "dropLoad",
                                     "failActive", "unassign"} : On(name, t) \in OwnOps
  <2>. SUFFICES ASSUME NEW t \in Tasks, NEW name \in {"pending", "dag", "gather", "leave", "rules", "dropLoad",
                                                      "failActive", "unassign"}
                PROVE  On(name, t) \in OwnOps
    OBVIOUS
  <2>1. On(name, t).op = name
    BY DEF On
  <2>2. On(name, t) \in SoundOps
    BY SoundByName
  <2>. QED BY <1>1, <2>1, <2>2
<1>5. \A a \in Agents : [op |-> "bump", agent |-> a] \in OwnOps
  BY <1>1, SoundByName
<1>6. \A o \in Gathered : o \in OwnOps
  <2>1. \A o \in Gathered : o.op \in {"check", "siblings", "parent", "advance"}
    BY DEF Gathered, CheckOps, ParentOps, AdvanceOps
  <2>2. \A o \in Gathered : o \in SoundOps
    BY SoundByName DEF Gathered
  <2>. QED BY <1>1, <2>1, <2>2
<1>. QED BY <1>1, <1>2, <1>3, <1>4, <1>5, <1>6

\* A dispatch of the agent of a task.
LEMMA DispatchOwned ==
    ASSUME OneAgentEach, NEW t \in Tasks
    PROVE  /\ Owner[t] \in Agents
           /\ \A name \in {"dispatch", "reviewQueue", "insert"} : ForAgent(name, t, Owner[t]) \in OwnOps
<1>1. Owner[t] \in Agents
  BY OwnerIs DEF MayHave
<1>2. \A name \in {"dispatch", "reviewQueue", "insert"} : ForAgent(name, t, Owner[t]) \in SoundOps
  BY <1>1, SoundByName
<1>. QED BY <1>1, <1>2 DEF OwnOps, Owned, ForAgent

LEMMA OwnContinue ==
    ASSUME NEW c \in Callers, work[c] # <<>>, NEW ops \in Seq(OwnOps), Then(c, ops)
    PROVE  OwnGoesOn(c)
BY DEF OwnGoesOn

\* The operation at the head of a goroutine is owned.
LEMMA HeadOwned ==
    ASSUME QInv, WorkOwned, NEW c \in Callers, work[c] # <<>> PROVE Owned(Head(work[c]))
<1>1. 1 \in DOMAIN work[c] /\ Head(work[c]) = work[c][1]
  BY FirstIsHead
<1>. QED BY <1>1 DEF WorkOwned

LEMMA readTaskSnapshotOwned ==
    ASSUME QInv, OwnInv, NEW c \in Callers, SoundHead(c), readTaskSnapshot(c) PROVE OwnGoesOn(c)
<1>. DEFINE o == Head(work[c])
            row == task[o.task]
            s == [status |-> row.status, assignee |-> row.assignee, loops |-> row.loops]
            resolve == [op |-> "resolve", task |-> o.task, snap |-> s,
                        summary |-> o.summary, attempt |-> o.attempt]
            write == [op |-> "write", task |-> o.task, snap |-> s, to |-> o.to, asked |-> o.to,
                      summary |-> o.summary, attempt |-> o.attempt]
            goes == ~(row.deleted \/ row.status = o.to \/ ~transitionValid(row.status, o.to))
<1>1. work[c] # <<>> /\ o.op = "transition"
  BY DEF readTaskSnapshot, Doing
<1>2. o \in TransitionOps /\ o.task \in Tasks
  BY <1>1, HeadIsSound, OpTypes DEF TransitionOps
<1>3. s \in Snapshots /\ s.assignee \in {NoAgent, Owner[o.task]}
  BY <1>2 DEF QInv, Tables, Rows, Snapshots, TransitionOps, OwnInv, RowsOwned, RowFor
<1>4. row.status = s.status
  OBVIOUS
<1>5. goes /\ o.to = "completed" => resolve \in OwnOps
  <2>1. resolve \in ResolveOps
    BY <1>2, <1>3 DEF TransitionOps, ResolveOps
  <2>2. goes /\ o.to = "completed" => Sound(resolve)
    BY <1>4 DEF Sound
  <2>3. Owned(resolve)
    BY <1>3 DEF Owned
  <2>. QED BY <2>1, <2>2, <2>3 DEF SoundOps, Ops, OwnOps
<1>6. goes /\ o.to # "completed" => write \in OwnOps
  <2>1. write \in WriteOps
    BY <1>2, <1>3 DEF TransitionOps, WriteOps
  <2>2. goes /\ o.to # "completed" => Sound(write)
    BY <1>4 DEF Sound, StatusMove
  <2>3. Owned(write)
    BY <1>3 DEF Owned
  <2>. QED BY <2>1, <2>2, <2>3 DEF SoundOps, Ops, OwnOps
<1>7. \/ Then(c, <<>>)
      \/ goes /\ o.to = "completed" /\ Then(c, <<resolve>>)
      \/ goes /\ o.to # "completed" /\ Then(c, <<write>>)
  BY DEF readTaskSnapshot
<1>. HIDE DEF goes, resolve, write
<1>. QED BY <1>1, <1>5, <1>6, <1>7, ShortSeqs, OwnContinue

LEMMA resolveCompletionTargetOwned ==
    ASSUME QInv, OwnInv, NEW c \in Callers, SoundHead(c), resolveCompletionTarget(c) PROVE OwnGoesOn(c)
<1>. DEFINE o == Head(work[c])
            write(to) == [op |-> "write", task |-> o.task, snap |-> o.snap, to |-> to,
                          asked |-> "completed", summary |-> o.summary, attempt |-> o.attempt]
<1>1. work[c] # <<>> /\ o.op = "resolve"
  BY DEF resolveCompletionTarget, Doing
<1>2. o \in ResolveOps /\ transitionValid(o.snap.status, "completed") /\ Owned(o)
  BY <1>1, HeadIsSound, HeadOwned, OpTypes DEF Sound, OwnInv
<1>3. PICK to \in CompletionTargets(o.task, o.summary) : Then(c, <<write(to)>>)
  BY DEF resolveCompletionTarget
<1>4. to \in {"review", "done"}
  BY <1>2, <1>3, CompletionTargetsType DEF ResolveOps
<1>5. write(to) \in OwnOps
  <2>1. write(to) \in WriteOps
    BY <1>2, <1>4 DEF ResolveOps, WriteOps, Statuses
  <2>2. Sound(write(to)) /\ Owned(write(to))
    BY <1>1, <1>2, <1>4 DEF Sound, StatusMove, Owned
  <2>. QED BY <2>1, <2>2 DEF SoundOps, Ops, OwnOps
<1>. QED BY <1>1, <1>3, <1>5, ShortSeqs, OwnContinue

\* What dispatchSideEffects leaves behind is for the agent of the snapshot.
LEMMA SideEffectsOwned ==
    ASSUME OneAgentEach, NEW t \in Tasks, NEW s \in Snapshots, NEW to \in Statuses,
           s.assignee \in {NoAgent, Owner[t]}
    PROVE  SideEffects(t, s, to) \in Seq(OwnOps)
<1>. DEFINE assigned == s.assignee # NoAgent
            first == IF assigned /\ Behavior[t] = "auto_review"
                     THEN <<ForAgent("reviewQueue", t, s.assignee)>> ELSE <<>>
            count == [op |-> "loops", task |-> t, agent |-> s.assignee, count |-> s.loops + 1]
<1>1. /\ On("pending", t) \in OwnOps /\ On("dag", t) \in OwnOps /\ On("rules", t) \in OwnOps
      /\ On("dropLoad", t) \in OwnOps /\ On("failActive", t) \in OwnOps
  BY PlainOwned
<1>2. assigned => /\ ForAgent("reviewQueue", t, s.assignee) \in OwnOps
                  /\ ForAgent("dispatch", t, s.assignee) \in OwnOps
  BY DispatchOwned
<1>3. count \in OwnOps
  <2>1. count \in LoopOps
    BY DEF LoopOps, Snapshots
  <2>2. count \in SoundOps
    BY <2>1, SoundByName
  <2>. QED BY <2>2 DEF OwnOps, Owned
<1>4. first \in Seq(OwnOps)
  BY <1>2, ShortSeqs
<1>5. first \o <<On("dag", t), On("rules", t)>> \in Seq(OwnOps)
  <2>1. <<On("dag", t), On("rules", t)>> \in Seq(OwnOps)
    BY <1>1, ShortSeqs
  <2>. QED BY <1>4, <2>1, ConcatProperties
<1>6. <<On("pending", t), On("dag", t), On("rules", t)>> \in Seq(OwnOps)
  BY <1>1, ShortSeqs
<1>7. <<On("pending", t), On("dag", t)>> \o FreeAgents(t) \o <<On("rules", t)>> \in Seq(OwnOps)
  <2>1. /\ <<On("pending", t), On("dag", t)>> \in Seq(OwnOps)
        /\ FreeAgents(t) \in Seq(OwnOps)
        /\ <<On("rules", t)>> \in Seq(OwnOps)
    BY <1>1, ShortSeqs DEF FreeAgents
  <2>2. <<On("pending", t), On("dag", t)>> \o FreeAgents(t) \in Seq(OwnOps)
    BY <2>1, ConcatProperties
  <2>. QED BY <2>1, <2>2, ConcatProperties
<1>8. <<count>> \in Seq(OwnOps) /\ <<>> \in Seq(OwnOps)
  BY <1>3, ShortSeqs
<1>9. assigned => <<ForAgent("dispatch", t, s.assignee)>> \in Seq(OwnOps)
  BY <1>2, ShortSeqs
<1>. QED BY <1>5, <1>6, <1>7, <1>8, <1>9 DEF SideEffects

LEMMA writeStatusOwned ==
    ASSUME QInv, OwnInv, NEW c \in Callers, SoundHead(c), writeStatus(c) PROVE OwnGoesOn(c)
<1>. DEFINE o == Head(work[c])
            retry == [Transition(o.task, o.asked, o.summary) EXCEPT !.attempt = o.attempt + 1]
<1>1. work[c] # <<>> /\ o.op = "write"
  BY DEF writeStatus, Doing
<1>2. o \in WriteOps /\ Owned(o)
  BY <1>1, HeadIsSound, HeadOwned, OpTypes DEF OwnInv
<1>3. CASE Then(c, SideEffects(o.task, o.snap, o.to))
  <2>1. o.task \in Tasks /\ o.snap \in Snapshots /\ o.to \in Statuses
        /\ o.snap.assignee \in {NoAgent, Owner[o.task]}
    BY <1>1, <1>2 DEF WriteOps, Owned
  <2>2. SideEffects(o.task, o.snap, o.to) \in Seq(OwnOps)
    BY <2>1, SideEffectsOwned DEF OwnInv
  <2>. QED BY <1>1, <1>3, <2>2, OwnContinue
<1>4. CASE Then(c, IF o.attempt < maxRetries - 1 THEN <<retry>> ELSE <<>>)
  <2>1. o.attempt < maxRetries - 1 => o.attempt + 1 \in 0 .. maxRetries - 1
    BY <1>2 DEF WriteOps, maxRetries
  <2>2. o.attempt < maxRetries - 1 => retry \in OwnOps
    BY <1>2, <2>1, PlainOwned DEF WriteOps
  <2>3. (IF o.attempt < maxRetries - 1 THEN <<retry>> ELSE <<>>) \in Seq(OwnOps)
    BY <2>2, ShortSeqs
  <2>. QED BY <1>1, <1>4, <2>3, OwnContinue
<1>. QED BY <1>3, <1>4 DEF writeStatus

LEMMA dispatchOwned ==
    ASSUME QInv, OwnInv, NEW c \in Callers, SoundHead(c), tryAutoDispatch(c) \/ createReviewQueue(c)
    PROVE  OwnGoesOn(c)
<1>. DEFINE o == Head(work[c])
<1>1. work[c] # <<>> /\ o.op \in {"dispatch", "reviewQueue"}
  BY DEF tryAutoDispatch, createReviewQueue, Doing
<1>2. o \in AgentOps /\ Owned(o)
  BY <1>1, HeadIsSound, HeadOwned, OpTypes DEF OwnInv
<1>3. o.task \in Tasks /\ o.agent \in Agents /\ o.agent = Owner[o.task]
  BY <1>1, <1>2 DEF AgentOps, Owned
<1>4. ForAgent("insert", o.task, o.agent) \in OwnOps /\ [op |-> "bump", agent |-> o.agent] \in OwnOps
  BY <1>3, DispatchOwned, PlainOwned DEF OwnInv
<1>5. \/ Then(c, <<>>)
      \/ Then(c, <<ForAgent("insert", o.task, o.agent), [op |-> "bump", agent |-> o.agent]>>)
  BY DEF tryAutoDispatch, createReviewQueue
<1>. QED BY <1>1, <1>4, <1>5, ShortSeqs, OwnContinue

LEMMA readPendingActionsOwned ==
    ASSUME QInv, OwnInv, NEW c \in Callers, SoundHead(c), readPendingActions(c) PROVE OwnGoesOn(c)
<1>. DEFINE t == Head(work[c]).task
            release == [op |-> "release", task |-> t, actions |-> task[t].pending]
<1>1. work[c] # <<>> /\ Head(work[c]).op = "pending"
  BY DEF readPendingActions, Doing
<1>2. t \in Tasks
  BY <1>1, HeadIsSound, OpTypes DEF TaskOps
<1>3. release \in OwnOps
  <2>1. release \in ReleaseOps
    BY <1>2 DEF ReleaseOps, QInv, Tables, Rows
  <2>2. release \in SoundOps
    BY <2>1, SoundByName
  <2>3. \A i \in DOMAIN task[t].pending : ActionFor(Owner, t, task[t].pending[i])
    BY <1>2 DEF OwnInv, RowsOwned, RowFor
  <2>4. Owned(release)
    BY <2>3 DEF Owned
  <2>. QED BY <2>2, <2>4 DEF OwnOps
<1>4. Then(c, <<release>>) \/ Then(c, <<>>)
  BY DEF readPendingActions
<1>. HIDE DEF release
<1>. QED BY <1>1, <1>3, <1>4, ShortSeqs, OwnContinue

LEMMA countLoopOwned ==
    ASSUME QInv, OwnInv, NEW c \in Callers, SoundHead(c), countLoop(c) PROVE OwnGoesOn(c)
<1>. DEFINE o == Head(work[c])
<1>1. work[c] # <<>> /\ o.op = "loops"
  BY DEF countLoop, Doing
<1>2. o \in LoopOps /\ Owned(o)
  BY <1>1, HeadIsSound, HeadOwned, OpTypes DEF OwnInv
<1>3. o.task \in Tasks /\ o.agent \in {NoAgent, Owner[o.task]}
  BY <1>1, <1>2 DEF LoopOps, Owned
<1>4. Transition(o.task, "stuck", FALSE) \in OwnOps
  BY <1>3, PlainOwned DEF Statuses
<1>5. o.agent # NoAgent => ForAgent("reviewQueue", o.task, o.agent) \in OwnOps
  BY <1>3, DispatchOwned DEF OwnInv
<1>6. \/ Then(c, <<Transition(o.task, "stuck", FALSE)>>)
      \/ o.agent # NoAgent /\ Then(c, <<ForAgent("reviewQueue", o.task, o.agent)>>)
      \/ Then(c, <<>>)
  BY DEF countLoop
<1>. QED BY <1>1, <1>4, <1>5, <1>6, ShortSeqs, OwnContinue

LEMMA engineOwned ==
    ASSUME QInv, NEW c \in Callers, SoundHead(c),
           enterOnTaskCompleted(c) \/ Gathers(c) \/ applyDAGTransitions(c)
    PROVE  OwnGoesOn(c)
<1>. DEFINE o == Head(work[c])
<1>1. work[c] # <<>>
  BY GathersOn DEF enterOnTaskCompleted, applyDAGTransitions, Doing
<1>2. CASE enterOnTaskCompleted(c)
  <2>1. o.op = "dag"
    BY <1>2 DEF enterOnTaskCompleted, Doing
  <2>2. o.task \in Tasks
    BY <2>1, HeadIsSound, OpTypes DEF TaskOps
  <2>3. Then(c, <<>>) \/ Then(c, <<On("gather", o.task), On("leave", o.task)>>)
    BY <1>2 DEF enterOnTaskCompleted
  <2>4. On("gather", o.task) \in OwnOps /\ On("leave", o.task) \in OwnOps
    BY <2>2, PlainOwned
  <2>. QED BY <1>1, <2>3, <2>4, ShortSeqs, OwnContinue
<1>3. CASE Gathers(c)
  <2>1. PICK g \in Gathered : Then(c, <<g>>)
    BY <1>3, GathersOn
  <2>2. g \in OwnOps
    BY PlainOwned
  <2>. QED BY <1>1, <2>1, <2>2, ShortSeqs, OwnContinue
<1>4. CASE applyDAGTransitions(c)
  <2>1. o.op = "advance"
    BY <1>4 DEF applyDAGTransitions, Doing
  <2>2. o \in AdvanceOps
    BY <2>1, HeadIsSound, OpTypes
  <2>3. ASSUME NEW d \in o.unblock, Then(c, <<Transition(d, "todo", FALSE), After(o, d)>>)
        PROVE  OwnGoesOn(c)
    <3>1. After(o, d) \in AdvanceOps
      BY <2>2 DEF AdvanceOps, After
    <3>2. After(o, d) \in OwnOps
      BY <3>1, PlainOwned DEF Gathered
    <3>3. Transition(d, "todo", FALSE) \in OwnOps
      BY <2>2, PlainOwned DEF AdvanceOps, Statuses
    <3>. QED BY <1>1, <2>3, <3>2, <3>3, ShortSeqs, OwnContinue
  <2>4. ASSUME Then(c, IF o.parent = NoTask THEN <<>> ELSE <<Transition(o.parent, o.to, FALSE)>>)
        PROVE  OwnGoesOn(c)
    <3>1. o.parent # NoTask => Transition(o.parent, o.to, FALSE) \in OwnOps
      BY <2>2, PlainOwned DEF AdvanceOps, Statuses
    <3>2. CASE o.parent = NoTask
      BY <1>1, <2>4, <3>2, ShortSeqs, OwnContinue
    <3>3. CASE o.parent # NoTask
      BY <1>1, <2>4, <3>1, <3>3, ShortSeqs, OwnContinue
    <3>. QED BY <3>2, <3>3
  <2>. QED BY <1>4, <2>3, <2>4 DEF applyDAGTransitions
<1>. QED BY <1>2, <1>3, <1>4

LEMMA evaluateRulesOwned ==
    ASSUME QInv, NEW c \in Callers, SoundHead(c), evaluateRules(c) PROVE OwnGoesOn(c)
<1>. DEFINE t == Head(work[c]).task
            acts == RuleActions[t]
            ops == [i \in DOMAIN acts |-> IF acts[i] = "assign_user" THEN On("unassign", t)
                                          ELSE Transition(t, acts[i], FALSE)]
<1>1. work[c] # <<>> /\ Head(work[c]).op = "rules"
  BY DEF evaluateRules, Doing
<1>2. t \in Tasks
  BY <1>1, HeadIsSound, OpTypes DEF TaskOps
<1>3. acts \in Seq(Statuses \cup {"assign_user"})
  BY <1>2, TaskAssumption
<1>4. \A i \in DOMAIN acts : acts[i] \in Statuses \cup {"assign_user"}
  BY <1>3, ElementOfSeq, LenProperties
<1>5. \A i \in DOMAIN acts : ops[i] \in OwnOps
  BY <1>2, <1>4, PlainOwned
<1>6. ops \in Seq(OwnOps)
  BY <1>3, <1>5, MapIsSeq
<1>. QED BY <1>1, <1>6, OwnContinue DEF evaluateRules

\* Every step of TaskService goes on with operations that are owned.
LEMMA ServiceGoesOnOwned ==
    ASSUME QInv, OwnInv, NEW c \in Callers, ServiceStep(c) PROVE OwnGoesOn(c)
<1>1. SoundHead(c) /\ work[c] # <<>>
  BY HeadOfService, StepHasHead
<1>2. Then(c, <<>>) => OwnGoesOn(c)
  BY <1>1, ShortSeqs, OwnContinue
<1>3. CASE \/ insertQueueEntry(c) \/ bumpLoad(c) \/ processPendingActions(c) \/ dropLoadOfTask(c)
           \/ failEntriesOfTask(c) \/ leaveOnTaskCompleted(c) \/ assignUser(c)
  BY <1>2, <1>3 DEF insertQueueEntry, bumpLoad, processPendingActions, dropLoadOfTask,
       failEntriesOfTask, leaveOnTaskCompleted, assignUser
<1>. QED BY <1>1, <1>3, readTaskSnapshotOwned, resolveCompletionTargetOwned, writeStatusOwned,
       dispatchOwned, readPendingActionsOwned, countLoopOwned, engineOwned, evaluateRulesOwned
     DEF ServiceStep, Gathers

\* The rows keep their agent or lose it.
LEMMA ServiceRowsOwned ==
    ASSUME QInv, OwnInv, NEW c \in Callers, ServiceStep(c) PROVE RowsOwned'
<1>1. SoundHead(c) /\ task \in [Tasks -> Rows] /\ work[c] # <<>>
  BY HeadOfService, StepHasHead DEF QInv, Tables
<1>2. ASSUME NEW t \in Tasks,
             \/ \E to \in Statuses : task' = [task EXCEPT ![t].status = to]
             \/ \E n \in Nat : task' = [task EXCEPT ![t].loops = n]
             \/ task' = [task EXCEPT ![t].pending = <<>>, ![t].assignee = NoAgent]
             \/ task' = [task EXCEPT ![t].assignee = NoAgent]
      PROVE  RowsOwned'
  <2>. SUFFICES ASSUME NEW x \in Tasks PROVE RowFor(Owner, x, task'[x])
    BY DEF RowsOwned
  <2>1. task[x] \in Rows /\ RowFor(Owner, x, task[x])
    BY <1>1 DEF OwnInv, RowsOwned
  <2>2. \/ task'[x] = task[x]
        \/ \E to \in Statuses : task'[x] = [task[x] EXCEPT !.status = to]
        \/ \E n \in Nat : task'[x] = [task[x] EXCEPT !.loops = n]
        \/ task'[x] = [task[x] EXCEPT !.pending = <<>>, !.assignee = NoAgent]
        \/ task'[x] = [task[x] EXCEPT !.assignee = NoAgent]
    BY <1>1, <1>2
  <2>3. DOMAIN <<>> = {}
    OBVIOUS
  <2>4. CASE task'[x] = [task[x] EXCEPT !.pending = <<>>, !.assignee = NoAgent]
    BY <2>1, <2>3, <2>4 DEF RowFor, Rows
  <2>5. CASE \/ task'[x] = task[x]
             \/ \E to \in Statuses : task'[x] = [task[x] EXCEPT !.status = to]
             \/ \E n \in Nat : task'[x] = [task[x] EXCEPT !.loops = n]
             \/ task'[x] = [task[x] EXCEPT !.assignee = NoAgent]
    <3>1. /\ task'[x].deleted = task[x].deleted /\ task'[x].pending = task[x].pending
          /\ task'[x].assignee \in {task[x].assignee, NoAgent}
      BY <2>1, <2>5 DEF Rows
    <3>. QED BY <2>1, <3>1 DEF RowFor
  <2>. QED BY <2>2, <2>4, <2>5
<1>3. CASE UNCHANGED task
  BY <1>3 DEF RowsOwned, OwnInv
<1>4. CASE writeStatus(c)
  <2>1. Head(work[c]).op = "write"
    BY <1>4 DEF writeStatus, Doing
  <2>2. Head(work[c]).task \in Tasks /\ Head(work[c]).to \in Statuses
    BY <1>1, <2>1, HeadIsSound, OpTypes DEF WriteOps
  <2>3. \/ UNCHANGED task
        \/ task' = [task EXCEPT ![Head(work[c]).task].status = Head(work[c]).to]
    BY <1>4 DEF writeStatus
  <2>. QED BY <1>2, <1>3, <2>2, <2>3
<1>5. CASE countLoop(c)
  <2>1. Head(work[c]).op = "loops"
    BY <1>5 DEF countLoop, Doing
  <2>2. Head(work[c]).task \in Tasks /\ Head(work[c]).count \in Nat
    BY <1>1, <2>1, HeadIsSound, OpTypes DEF LoopOps
  <2>3. task' = [task EXCEPT ![Head(work[c]).task].loops = Head(work[c]).count]
    BY <1>5 DEF countLoop
  <2>. QED BY <1>2, <2>2, <2>3
<1>6. CASE processPendingActions(c)
  <2>1. Head(work[c]).op = "release"
    BY <1>6 DEF processPendingActions, Doing
  <2>2. Head(work[c]).task \in Tasks
    BY <1>1, <2>1, HeadIsSound, OpTypes DEF ReleaseOps
  <2>3. task' = [task EXCEPT ![Head(work[c]).task].pending = <<>>, ![Head(work[c]).task].assignee = NoAgent]
    BY <1>6 DEF processPendingActions
  <2>. QED BY <1>2, <2>2, <2>3
<1>7. CASE assignUser(c)
  <2>1. Head(work[c]).op = "unassign"
    BY <1>7 DEF assignUser, Doing
  <2>2. Head(work[c]).task \in Tasks
    BY <1>1, <2>1, HeadIsSound, OpTypes DEF TaskOps
  <2>3. task' = [task EXCEPT ![Head(work[c]).task].assignee = NoAgent]
    BY <1>7 DEF assignUser
  <2>. QED BY <1>2, <2>2, <2>3
<1>. QED BY <1>3, <1>4, <1>5, <1>6, <1>7
     DEF ServiceStep, readTaskSnapshot, resolveCompletionTarget, tryAutoDispatch, createReviewQueue,
         insertQueueEntry, bumpLoad, readPendingActions, dropLoadOfTask, failEntriesOfTask,
         enterOnTaskCompleted, gatherDAGTransitions, checkDependents, checkSiblings, readParent,
         applyDAGTransitions, leaveOnTaskCompleted,
         evaluateRules

\* What comes is queued for the agent of its task, or has failed by then.
LEMMA ServiceAddsEntries ==
    ASSUME QInv, OwnInv, NEW c \in Callers, ServiceStep(c), NEW e \in DOMAIN queue', e \notin DOMAIN queue
    PROVE  queue'[e].status \in {"queued", "failed"} /\ queue'[e].agent = Owner[queue'[e].task]
<1>. DEFINE o == Head(work[c])
<1>1. SoundHead(c) /\ queue \in Seq(Entries) /\ work[c] # <<>> /\ Owned(o)
  BY HeadOfService, StepHasHead, HeadOwned DEF QInv, Tables, OwnInv
<1>2. CASE insertQueueEntry(c)
  <2>1. o.op = "insert"
    BY <1>2 DEF insertQueueEntry, Doing
  <2>2. PICK x : x = [task |-> o.task, agent |-> o.agent, status |-> "queued"]
    OBVIOUS
  <2>3. queue' = Append(queue, x)
    BY <1>2, <2>2 DEF insertQueueEntry
  <2>4. Len(queue) \in Nat /\ DOMAIN queue = 1 .. Len(queue)
    BY <1>1, LenProperties
  <2>5. DOMAIN queue' = 1 .. (Len(queue) + 1) /\ queue'[Len(queue) + 1] = x
    BY <1>1, <2>3
  <2>6. e = Len(queue) + 1
    BY <2>4, <2>5
  <2>7. x.status = "queued" /\ x.agent = Owner[x.task]
    BY <1>1, <2>1, <2>2 DEF Owned
  <2>. QED BY <2>5, <2>6, <2>7
<1>3. CASE processPendingActions(c)
  <2>. DEFINE acts == o.actions
              entry(x) == [task |-> IF x.type = "create_sub_task" THEN x.sub ELSE o.task,
                           agent |-> x.agent, status |-> "queued"]
              released == [i \in DOMAIN acts |-> entry(acts[i])]
  <2>1. o.op = "release"
    BY <1>3 DEF processPendingActions, Doing
  <2>2. o.task \in Tasks /\ acts \in Seq(Actions)
    BY <1>1, <2>1, HeadIsSound, OpTypes DEF ReleaseOps
  <2>3. \A i \in DOMAIN acts : acts[i] \in Actions /\ ActionFor(Owner, o.task, acts[i])
    <3>1. \A i \in DOMAIN acts : acts[i] \in Actions
      BY <2>2, ElementOfSeq, LenProperties
    <3>. QED BY <1>1, <2>1, <3>1 DEF Owned
  <2>4. \A x : ActionFor(Owner, o.task, x) => entry(x).status = "queued" /\ entry(x).agent = Owner[entry(x).task]
    BY DEF ActionFor
  <2>5. \A x \in Actions : entry(x) \in Entries
    BY <2>2 DEF Actions, Entries, QueueStatuses
  <2>6. PICK new : new = released
    OBVIOUS
  <2>7. \A i \in DOMAIN new : new[i] \in Entries /\ new[i].status = "queued" /\ new[i].agent = Owner[new[i].task]
    BY <2>3, <2>4, <2>5, <2>6
  <2>8. new \in Seq(Entries)
    <3>1. DOMAIN new = DOMAIN acts /\ new = [i \in DOMAIN acts |-> new[i]]
      BY <2>6
    <3>2. \A i \in DOMAIN acts : new[i] \in Entries
      BY <2>7, <3>1
    <3>. HIDE DEF released, entry, acts
    <3>. QED BY <2>2, <3>1, <3>2, MapIsSeq
  <2>9. queue' = FailActive(queue \o new, o.task)
    BY <1>3, <2>6 DEF processPendingActions
  <2>10. PICK q, t : q = queue \o new /\ t = o.task
    OBVIOUS
  <2>. HIDE DEF released, entry
  <2>11. /\ q \in Seq(Entries) /\ Len(q) = Len(queue) + Len(new)
         /\ Len(queue) \in Nat /\ Len(new) \in Nat
         /\ \A i \in 1 .. Len(new) : q[Len(queue) + i] = new[i]
    BY <1>1, <2>8, <2>10, ConcatProperties, LenProperties
  <2>12. /\ DOMAIN queue = 1 .. Len(queue) /\ DOMAIN q = 1 .. Len(q) /\ DOMAIN new = 1 .. Len(new)
    BY <1>1, <2>8, <2>11, LenProperties
  <2>13. queue' = FailActive(q, t)
    BY <2>9, <2>10
  <2>14. e \in DOMAIN q
    BY <2>13 DEF FailActive
  <2>15. PICK i \in 1 .. Len(new) : e = Len(queue) + i
    <3>1. e \in Nat /\ e > Len(queue) /\ e <= Len(queue) + Len(new)
      BY <2>11, <2>12, <2>14
    <3>2. e - Len(queue) \in 1 .. Len(new) /\ e = Len(queue) + (e - Len(queue))
      BY <2>11, <3>1
    <3>. QED BY <3>2
  <2>16. q[e].status = "queued" /\ q[e].agent = Owner[q[e].task]
    BY <2>7, <2>11, <2>12, <2>15
  <2>17. queue'[e].task = q[e].task /\ queue'[e].agent = q[e].agent /\ queue'[e].status \in {q[e].status, "failed"}
    BY <2>11, <2>13, <2>14, FailActiveKeeps
  <2>. QED BY <2>16, <2>17
<1>4. CASE DOMAIN queue' = DOMAIN queue
  BY <1>4
<1>. QED BY <1>2, <1>3, <1>4
     DEF ServiceStep, readTaskSnapshot, resolveCompletionTarget, writeStatus, tryAutoDispatch,
         createReviewQueue, bumpLoad, readPendingActions, dropLoadOfTask, failEntriesOfTask, FailActive,
         countLoop, enterOnTaskCompleted, gatherDAGTransitions, checkDependents, checkSiblings,
         readParent, applyDAGTransitions, leaveOnTaskCompleted, evaluateRules, assignUser

LEMMA ServiceOwned ==
    ASSUME QInv, OwnInv, NEW c \in Callers, ServiceStep(c) PROVE OwnInv'
<1>1. RowsOwned'
  BY ServiceRowsOwned
<1>2. EntriesOwned'
  <2>. SUFFICES ASSUME NEW e \in DOMAIN queue' PROVE queue'[e].agent = Owner[queue'[e].task]
    BY DEF EntriesOwned
  <2>1. CASE e \in DOMAIN queue
    BY <2>1, ServiceKeepsEntries DEF EntriesKept, OwnInv, EntriesOwned
  <2>2. CASE e \notin DOMAIN queue
    BY <2>2, ServiceAddsEntries
  <2>. QED BY <2>1, <2>2
<1>3. WorkOwned'
  <2>1. PICK ops \in Seq(OwnOps) : work[c] # <<>> /\ Then(c, ops)
    BY ServiceGoesOnOwned DEF OwnGoesOn
  <2>2. Replaces(c, ops)
    BY <2>1 DEF Replaces
  <2>3. \A k \in DOMAIN ops : Owned(ops[k])
    <3>1. \A k \in DOMAIN ops : ops[k] \in OwnOps
      BY ElementOfSeq, LenProperties
    <3>. QED BY <3>1 DEF OwnOps
  <2>4. ASSUME NEW d \in Callers, NEW k \in DOMAIN work'[d] PROVE Owned(work'[d][k])
    <3>1. CASE d # c
      BY <2>2, <2>4, <3>1, Replaced DEF OwnInv, WorkOwned
    <3>2. CASE d = c /\ k \in DOMAIN ops
      <4>1. work'[c][k] = ops[k]
        BY <2>2, <3>2, Replaced
      <4>. QED BY <2>3, <3>2, <4>1
    <3>3. CASE d = c /\ k \notin DOMAIN ops
      <4>1. k - (Len(ops) - 1) \in DOMAIN work[c] /\ work'[c][k] = work[c][k - (Len(ops) - 1)]
        BY <2>2, <2>4, <3>3, Replaced
      <4>. QED BY <3>3, <4>1 DEF OwnInv, WorkOwned
    <3>. QED BY <3>1, <3>2, <3>3
  <2>. QED BY <2>4 DEF WorkOwned
<1>. QED BY <1>1, <1>2, <1>3 DEF OwnInv, OneAgentEach

\* The names of the operations that are owned only if they are about the right agent.
OwnNames == {"dispatch", "reviewQueue", "insert", "loops", "resolve", "write", "release",
             "mark", "auto", "update", "insertReview", "openReview"}

\* A step that neither runs one of them nor puts one before a goroutine.
LEMMA OwnAside ==
    ASSUME OwnInv, Aside(OwnNames), UNCHANGED task,
           \A e \in DOMAIN queue' : e \in DOMAIN queue /\ queue'[e].task = queue[e].task
                                                       /\ queue'[e].agent = queue[e].agent
    PROVE  OwnInv'
<1>1. \A o : o.op \notin OwnNames => Owned(o)
  BY DEF Owned, OwnNames
<1>2. ASSUME NEW d \in Callers, NEW k \in DOMAIN work'[d] PROVE Owned(work'[d][k])
  <2>1. CASE work'[d] = work[d]
    BY <1>2, <2>1 DEF OwnInv, WorkOwned
  <2>2. CASE Shifted(d, OwnNames) /\ work'[d][k].op \in OwnNames
    <3>1. \E j \in DOMAIN work[d] : work'[d][k] = work[d][j]
      BY <1>2, <2>2 DEF Shifted
    <3>. QED BY <3>1 DEF OwnInv, WorkOwned
  <2>3. CASE work'[d][k].op \notin OwnNames
    BY <1>1, <2>3
  <2>. QED BY <2>1, <2>2, <2>3 DEF Aside
<1>3. WorkOwned' /\ EntriesOwned' /\ RowsOwned'
  BY <1>2 DEF WorkOwned, EntriesOwned, RowsOwned, OwnInv
<1>. QED BY <1>3 DEF OwnInv, OneAgentEach

\* A step of the queue handlers: those that hand a task over do not come.
LEMMA NotHandedOver ==
    ASSUME QInv, OwnInv, NEW c \in Callers
    PROVE  /\ ~insertReview(c) /\ ~autoProcessReview(c) /\ ~markProcessing(c)
           /\ ~autoProcessTask(c) /\ ~writeUpdate(c)
           /\ queueForReview(c) => Then(c, <<>>)
<1>1. ASSUME NEW name \in {"mark", "auto", "update", "insertReview", "openReview"}, Doing(c, name)
      PROVE  FALSE
  <2>1. 1 \in DOMAIN work[c] /\ work[c][1].op = name
    BY <1>1, FirstIsHead DEF Doing
  <2>. QED BY <2>1 DEF OwnInv, WorkOwned, Owned
<1>2. queueForReview(c) => Then(c, <<>>)
  <2>. SUFFICES ASSUME queueForReview(c) PROVE Then(c, <<>>)
    OBVIOUS
  <2>1. Head(work[c]).op = "follow" /\ work[c] # <<>>
    BY DEF queueForReview, Doing
  <2>2. PICK e : e = Head(work[c]).entry
    OBVIOUS
  <2>3. e \in DOMAIN queue
    BY <2>1, <2>2, HeadEntry DEF EntryNames
  <2>4. task[queue[e].task].assignee \in {NoAgent, queue[e].agent}
    BY <2>3, EntryType DEF OwnInv, RowsOwned, RowFor, EntriesOwned
  <2>. QED BY <2>2, <2>4 DEF queueForReview
<1>. QED BY <1>1, <1>2 DEF insertReview, autoProcessReview, markProcessing, autoProcessTask, writeUpdate

LEMMA StatusOnly ==
    ASSUME QInv, NEW status, NEW e, SetEntry(e, status)
    PROVE  \A i \in DOMAIN queue' : /\ i \in DOMAIN queue
                                    /\ queue'[i].task = queue[i].task /\ queue'[i].agent = queue[i].agent
                                    /\ i # e => queue'[i] = queue[i]
                                    /\ i = e => queue'[i].status = status
<1>1. ASSUME NEW i \in DOMAIN queue
      PROVE  /\ queue'[i].task = queue[i].task /\ queue'[i].agent = queue[i].agent
             /\ i # e => queue'[i] = queue[i]
             /\ i = e => queue'[i].status = status
  <2>1. queue[i] \in Entries
    BY EntryType
  <2>. QED BY <2>1 DEF SetEntry, Entries
<1>. QED BY <1>1 DEF SetEntry

LEMMA FailedOnly ==
    ASSUME QInv, NEW c \in Callers, failEntriesOfAgent(c) \/ failEntriesOfNode(c)
    PROVE  \A i \in DOMAIN queue' : /\ i \in DOMAIN queue
                                    /\ queue'[i].task = queue[i].task /\ queue'[i].agent = queue[i].agent
                                    /\ queue'[i].status \in {queue[i].status, "failed"}
<1>1. /\ DOMAIN queue' = DOMAIN queue
      /\ \A i \in DOMAIN queue : queue'[i] \in {queue[i], [queue[i] EXCEPT !.status = "failed"]}
  BY DEF failEntriesOfAgent, failEntriesOfNode
<1>2. ASSUME NEW i \in DOMAIN queue
      PROVE  /\ queue'[i].task = queue[i].task /\ queue'[i].agent = queue[i].agent
             /\ queue'[i].status \in {queue[i].status, "failed"}
  <2>1. queue[i] \in Entries
    BY EntryType
  <2>. QED BY <1>1, <2>1 DEF Entries
<1>. QED BY <1>1, <1>2

LEMMA QueueStepOwned ==
    ASSUME QInv, Connected, OwnInv, NEW c \in Callers, QueueStep(c) PROVE OwnInv'
<1>1. OwnNames \cap Common = {}
  BY DEF OwnNames, Common
<1>2. ASSUME Aside(OwnNames), UNCHANGED <<task, queue>> PROVE OwnInv'
  BY <1>2, OwnAside
<1>3. ASSUME Aside(OwnNames), UNCHANGED task, NEW e, NEW status, SetEntry(e, status) PROVE OwnInv'
  BY <1>3, StatusOnly, OwnAside
<1>4. CASE ClaimQueueItem(c) \/ startProcessing(c) \/ settleEntry(c)
  <2>1. Aside(OwnNames)
    BY <1>1, <1>4, QueueAside DEF OwnNames
  <2>. QED BY <1>3, <1>4, <2>1 DEF ClaimQueueItem, startProcessing, settleEntry
<1>5. CASE claim(c) \/ CreateSession(c) \/ findStale(c) \/ supersede(c) \/ openSession(c)
           \/ deliverPrompt(c)
  <2>1. Aside(OwnNames)
    BY <1>1, <1>5, QueueAside DEF OwnNames
  <2>. QED BY <1>2, <1>5, <2>1 DEF claim, CreateSession, findStale, supersede, openSession, deliverPrompt
<1>6. CASE lowerLoad(c) \/ closeSessions(c) \/ completeTask(c) \/ zeroLoad(c)
  <2>1. Aside(OwnNames)
    BY <1>1, <1>6, QueueAside DEF OwnNames
  <2>. QED BY <1>2, <1>6, <2>1 DEF lowerLoad, closeSessions, completeTask, zeroLoad
<1>7. CASE queueForReview(c)
  <2>1. /\ work[c] # <<>> /\ Head(work[c]).op = "follow" /\ Then(c, <<>>) /\ UNCHANGED <<task, queue>>
    BY <1>7, NotHandedOver DEF queueForReview, Doing
  <2>2. "follow" \notin OwnNames
    BY DEF OwnNames
  <2>3. Aside(OwnNames)
    BY <2>1, <2>2, ShortAside DEF Replaces
  <2>. QED BY <1>2, <2>1, <2>3
<1>8. CASE failEntriesOfAgent(c) \/ failEntriesOfNode(c)
  <2>1. Aside(OwnNames)
    BY <1>1, <1>8, QueueAside DEF OwnNames
  <2>. QED BY <1>8, <2>1, FailedOnly, OwnAside DEF failEntriesOfAgent, failEntriesOfNode
<1>9. CASE stopRuntime(c)
  <2>1. work[c] # <<>> /\ Head(work[c]).op = "stopRuntime"
    BY <1>9 DEF stopRuntime, Doing
  <2>2. 1 \in DOMAIN work[c] /\ work[c][1].op = "stopRuntime"
    BY <2>1, FirstIsHead
  <2>. QED BY <2>2 DEF Connected
<1>. QED BY <1>4, <1>5, <1>6, <1>7, <1>8, <1>9, NotHandedOver DEF QueueStep

\* The requests of TaskService begin with a transition.
LEMMA RequestsAside ==
    ASSUME QInv, Requests, NEW N, "transition" \notin N
    PROVE  Aside(N) /\ UNCHANGED queue
<1>1. ASSUME NEW c \in Callers, NEW kind, Request(c, kind), NEW x, x.op = "transition", Start(c, <<x>>)
      PROVE  Aside(N) /\ UNCHANGED queue
  <2>1. work[c] = <<>> /\ work' = [work EXCEPT ![c] = <<x>>]
    BY <1>1 DEF Request, Start
  <2>2. Replaces(c, <<x>>) /\ x.op \notin N
    BY <1>1, <2>1 DEF Replaces
  <2>. QED BY <1>1, <2>1, <2>2, ShortAside DEF Start
<1>2. \A t, to, summary : Transition(t, to, summary).op = "transition"
  BY DEF Transition
<1>3. UNCHANGED work => Aside(N)
  BY DEF Aside
<1>. QED BY <1>1, <1>2, <1>3
     DEF Requests, SetStatus, HandleReview, MarkCompleted, checkStuckTasks, Delete, Restore

LEMMA OwnNext == QInv /\ SessionInv /\ OwnInv /\ [QueueNext]_allVars => OwnInv'
<1>. SUFFICES ASSUME QInv, SessionInv, OwnInv, [QueueNext]_allVars PROVE OwnInv'
  OBVIOUS
<1>1. OwnNames \cap Common = {} /\ {"settle", "close", "claim"} \cap OwnNames = {}
      /\ "transition" \notin OwnNames
  BY DEF OwnNames, Common
<1>2. ASSUME Aside(OwnNames), UNCHANGED <<task, queue>> PROVE OwnInv'
  BY <1>2, OwnAside
<1>3. ASSUME Requests PROVE OwnInv'
  <2>1. Aside(OwnNames) /\ UNCHANGED queue
    BY <1>1, <1>3, RequestsAside
  <2>2. UNCHANGED task \/ \E c \in Callers, t \in Tasks : Restore(c, t)
    BY <1>3 DEF Requests, SetStatus, HandleReview, MarkCompleted, checkStuckTasks, Delete, Request, Start,
         OwnInv, OneAgentEach
  <2>3. \A c \in Callers, t \in Tasks : ~Restore(c, t)
    BY DEF Restore, OwnInv, RowsOwned, RowFor
  <2>. QED BY <1>2, <2>1, <2>2, <2>3
<1>4. ASSUME NEW c \in Callers, pollQueue(c) PROVE OwnInv'
  <2>1. Aside(OwnNames)
    BY <1>1, <1>4, QueueAside
  <2>. QED BY <1>2, <1>4, <2>1 DEF pollQueue
<1>5. ASSUME NEW c \in Callers, NEW s \in DOMAIN sessions, handleSessionComplete(c, s) PROVE OwnInv'
  <2>1. Aside(OwnNames)
    BY <1>1, <1>5, RequestAside
  <2>. QED BY <1>2, <1>5, <2>1 DEF handleSessionComplete
<1>6. ASSUME NEW c \in Callers, NEW a \in Agents, DisableProfile(c, a) PROVE OwnInv'
  <2>1. Aside(OwnNames)
    BY <1>1, <1>6, RequestAside
  <2>. QED BY <1>2, <1>6, <2>1 DEF DisableProfile
<1>7. ASSUME NEW a \in Agents, EnableProfile(a) PROVE OwnInv'
  BY <1>2, <1>7 DEF EnableProfile, Aside
<1>8. CASE UNCHANGED allVars
  BY <1>2, <1>8 DEF allVars, vars, Aside
<1>9. CASE QueueNext
  <2>1. ~ServerRestart /\ ~Disconnect /\ \A c \in Callers : ~Reconnect(c) /\ ~StopNode(c)
    BY <1>9, NothingLost DEF SessionInv
  <2>2. /\ \A c \in Callers : \A t \in Tasks : ~AutoAssign(c, t)
        /\ \A c \in Callers : \A e \in DOMAIN queue : ~ClaimByUser(c, e)
        /\ \A c \in Callers : \A e \in DOMAIN queue : \A status \in QueueStatuses : ~UpdateStatus(c, e, status)
    BY DEF AutoAssign, ClaimByUser, UpdateStatus, NodeRequest, OwnInv, OneAgentEach
  <2>. QED BY <1>3, <1>4, <1>5, <1>6, <1>7, <1>9, <2>1, <2>2, ServiceOwned, QueueStepOwned
           DEF QueueNext, SessionInv
<1>. QED BY <1>8, <1>9

LEMMA OwnInit == OneAgentEach /\ QueueInit => OwnInv
<1>. SUFFICES ASSUME OneAgentEach, QueueInit PROVE OwnInv
  OBVIOUS
<1>1. DOMAIN <<>> = {}
  OBVIOUS
<1>2. /\ \A c \in Callers : DOMAIN work[c] = {}
      /\ DOMAIN queue = {} /\ task = InitRow
  BY <1>1 DEF QueueInit, Init
<1>. QED BY <1>2, OwnerIs DEF OwnInv, RowsOwned, EntriesOwned, WorkOwned, MayHave

-----------------------------------------------------------------------------
(* An entry that is claimed has a process, or a goroutine that will see to it. *)

\* The operations that open the session of an entry, or report the end of its process.
Pledges == {"create", "stale", "open", "settle"}
Pledged(e) == \E c \in Callers : \E k \in DOMAIN work[c] : work[c][k].op \in Pledges /\ work[c][k].entry = e

\* A session of entry e runs, or is about to.
Served(e) == \E s \in DOMAIN sessions : /\ sessions[s].entry = e
                                        /\ procs[s].alive \/ \E c \in Callers : Prompting(c, s)

\* Where an entry is written claimed or processing, a session of it comes later.
Later(c, k) == \E j \in DOMAIN work[c] :
                 j > k /\ work[c][j].op = "create" /\ work[c][j].entry = work[c][k].entry
Followed == \A c \in Callers : \A k \in DOMAIN work[c] :
              work[c][k].op \in {"claimWrite", "process"} => Later(c, k)

IsClaimed(e) == queue[e].status \in {"claimed", "processing"}

WorkedInv == Followed /\ \A e \in DOMAIN queue : IsClaimed(e) => Served(e) \/ Pledged(e)

WorkNames == Pledges \cup {"claimWrite", "process"}

LEMMA PledgesKept ==
    ASSUME QInv, QInv', Aside(WorkNames)
    PROVE  /\ Followed => Followed'
           /\ \A e : Pledged(e) => Pledged(e)'
<1>1. ASSUME NEW e, Pledged(e) PROVE Pledged(e)'
  <2>0. PICK d \in Callers : \E j \in DOMAIN work[d] : work[d][j].op \in Pledges /\ work[d][j].entry = e
    BY <1>1 DEF Pledged
  <2>1. PICK j \in DOMAIN work[d] : work[d][j].op \in Pledges /\ work[d][j].entry = e
    BY <2>0
  <2>2. \E k \in DOMAIN work'[d] : work'[d][k] = work[d][j]
    <3>1. CASE work'[d] = work[d]
      BY <3>1
    <3>2. CASE Shifted(d, WorkNames)
      <4>1. PICK n \in Int : \A i \in DOMAIN work[d] : work[d][i].op \in WorkNames =>
                                i + n \in DOMAIN work'[d] /\ work'[d][i + n] = work[d][i]
        BY <3>2 DEF Shifted
      <4>2. j + n \in DOMAIN work'[d] /\ work'[d][j + n] = work[d][j]
        BY <2>1, <4>1 DEF WorkNames
      <4>. QED BY <4>2
    <3>. QED BY <3>1, <3>2 DEF Aside
  <2>. QED BY <2>1, <2>2 DEF Pledged
<1>2. ASSUME Followed, NEW d \in Callers, NEW k \in DOMAIN work'[d],
             work'[d][k].op \in {"claimWrite", "process"}
      PROVE  Later(d, k)'
  <2>1. CASE work'[d] = work[d]
    <3>1. Later(d, k)
      BY <1>2, <2>1 DEF Followed
    <3>. QED BY <2>1, <3>1 DEF Later
  <2>2. CASE Shifted(d, WorkNames)
    <3>1. PICK n \in Int :
            /\ \A i \in DOMAIN work[d] : work[d][i].op \in WorkNames =>
                 i + n \in DOMAIN work'[d] /\ work'[d][i + n] = work[d][i]
            /\ \A i \in DOMAIN work'[d] : work'[d][i].op \in WorkNames =>
                 i - n \in DOMAIN work[d] /\ i - n # 1 /\ work'[d][i] = work[d][i - n]
      BY <2>2 DEF Shifted
    <3>2. PICK i \in DOMAIN work[d] : i = k - n /\ work'[d][k] = work[d][i]
      BY <1>2, <3>1 DEF WorkNames
    <3>3. Later(d, i)
      BY <1>2, <3>2 DEF Followed
    <3>4. PICK j \in DOMAIN work[d] :
            j > i /\ work[d][j].op = "create" /\ work[d][j].entry = work[d][i].entry
      BY <3>3 DEF Later
    <3>5. j + n \in DOMAIN work'[d] /\ work'[d][j + n] = work[d][j]
      BY <3>1, <3>4 DEF WorkNames, Pledges
    <3>6. j \in Nat /\ i \in Nat /\ j + n > k
      <4>1. j \in Nat /\ i \in Nat
        BY <3>4, HasFirst
      <4>2. k \in Nat
        <5>1. work'[d] \in Seq(Held')
          BY DEF QInv
        <5>. QED BY <5>1, LenProperties
      <4>. QED BY <3>2, <3>4, <4>1, <4>2
    <3>. QED BY <3>2, <3>4, <3>5, <3>6 DEF Later
  <2>. QED BY <2>1, <2>2 DEF Aside
<1>3. Followed => Followed'
  BY <1>2 DEF Followed
<1>. QED BY <1>1, <1>3

\* A goroutine that goes on with ops, in which what is claimed is followed too.
LEMMA FollowedBy ==
    ASSUME QInv, Followed, NEW c \in Callers, NEW S, NEW ops \in Seq(S), Replaces(c, ops),
           \A k \in DOMAIN ops : ops[k].op \in {"claimWrite", "process"} =>
             \E j \in DOMAIN ops : j > k /\ ops[j].op = "create" /\ ops[j].entry = ops[k].entry
    PROVE  Followed'
<1>. DEFINE n == Len(ops) - 1
<1>1. /\ \A d \in Callers : d # c => work'[d] = work[d]
      /\ \A k \in DOMAIN ops : k \in DOMAIN work'[c] /\ work'[c][k] = ops[k]
      /\ \A j \in DOMAIN work[c] : j # 1 => j + n \in DOMAIN work'[c] /\ work'[c][j + n] = work[c][j]
      /\ \A k \in DOMAIN work'[c] : k \in DOMAIN ops \/
           (/\ k - n \in DOMAIN work[c] /\ k - n # 1 /\ work'[c][k] = work[c][k - n])
      /\ n \in Int
      /\ \A d \in Callers : DOMAIN work[d] \subseteq Nat \ {0} /\ DOMAIN work'[d] \subseteq Nat \ {0}
  BY Replaced
<1>. HIDE DEF n
<1>2. ASSUME NEW d \in Callers, NEW k \in DOMAIN work'[d], work'[d][k].op \in {"claimWrite", "process"}
      PROVE  Later(d, k)'
  <2>1. CASE d # c
    <3>1. work'[d] = work[d] /\ Later(d, k)
      BY <1>1, <1>2, <2>1 DEF Followed
    <3>. QED BY <3>1 DEF Later
  <2>2. CASE d = c /\ k \in DOMAIN ops
    <3>1. PICK j \in DOMAIN ops : j > k /\ ops[j].op = "create" /\ ops[j].entry = ops[k].entry
      BY <1>1, <1>2, <2>2
    <3>. QED BY <1>1, <2>2, <3>1 DEF Later
  <2>3. CASE d = c /\ k \notin DOMAIN ops
    <3>1. PICK i \in DOMAIN work[c] : i = k - n /\ i # 1 /\ work'[c][k] = work[c][i]
      BY <1>1, <1>2, <2>3
    <3>2. Later(c, i)
      BY <1>2, <2>3, <3>1 DEF Followed
    <3>3. PICK j \in DOMAIN work[c] :
            j > i /\ work[c][j].op = "create" /\ work[c][j].entry = work[c][i].entry
      BY <3>2 DEF Later
    <3>4. j \in Nat \ {0} /\ i \in Nat \ {0} /\ k \in Nat
      BY <1>1, <1>2, <2>3
    <3>5. j # 1 /\ j + n > k
      BY <1>1, <3>1, <3>3, <3>4
    <3>6. j + n \in DOMAIN work'[c] /\ work'[c][j + n] = work[c][j]
      BY <1>1, <3>5
    <3>. QED BY <2>3, <3>1, <3>3, <3>5, <3>6 DEF Later
  <2>. QED BY <2>1, <2>2, <2>3
<1>. QED BY <1>2 DEF Followed

\* A pledge is kept, if it is not the first operation of the goroutine that goes on.
LEMMA PledgeKept ==
    ASSUME QInv, NEW c \in Callers, NEW S, NEW ops \in Seq(S), Replaces(c, ops), NEW e,
           \/ /\ Pledged(e)
              /\ work[c] # <<>> => ~(Head(work[c]).op \in Pledges /\ Head(work[c]).entry = e)
           \/ \E k \in DOMAIN ops : ops[k].op \in Pledges /\ ops[k].entry = e
    PROVE  Pledged(e)'
<1>1. CASE \E k \in DOMAIN ops : ops[k].op \in Pledges /\ ops[k].entry = e
  <2>1. PICK k \in DOMAIN ops : ops[k].op \in Pledges /\ ops[k].entry = e
    BY <1>1
  <2>2. k \in DOMAIN work'[c] /\ work'[c][k] = ops[k]
    BY Replaced
  <2>. QED BY <2>1, <2>2 DEF Pledged
<1>2. CASE /\ Pledged(e)
           /\ work[c] # <<>> => ~(Head(work[c]).op \in Pledges /\ Head(work[c]).entry = e)
  <2>0. PICK d \in Callers : \E j \in DOMAIN work[d] : work[d][j].op \in Pledges /\ work[d][j].entry = e
    BY <1>2 DEF Pledged
  <2>1. PICK j \in DOMAIN work[d] : work[d][j].op \in Pledges /\ work[d][j].entry = e
    BY <2>0
  <2>2. CASE d # c
    <3>1. work'[d] = work[d]
      BY <2>2, Replaced
    <3>. QED BY <2>1, <3>1 DEF Pledged
  <2>3. CASE d = c
    <3>1. j # 1
      BY <1>2, <2>1, <2>3, HasFirst, FirstIsHead
    <3>2. j + (Len(ops) - 1) \in DOMAIN work'[c] /\ work'[c][j + (Len(ops) - 1)] = work[c][j]
      BY <2>3, <3>1, Replaced
    <3>. QED BY <2>1, <2>3, <3>2 DEF Pledged
  <2>. QED BY <2>2, <2>3
<1>. QED BY <1>1, <1>2

\* Sessions that keep their entries, their processes and their prompts serve their entries.
LEMMA ServedKept ==
    ASSUME QInv, Connected, Prompts, Aside({"prompt", "stopRuntime"}),
           UNCHANGED <<procs, connected>>, DOMAIN sessions' = DOMAIN sessions,
           \A s \in DOMAIN sessions : sessions'[s].entry = sessions[s].entry
    PROVE  \A e : Served(e) => Served(e)'
<1>1. \A d \in Callers : \A s : Prompting(d, s)' <=> Prompting(d, s)
  BY PromptsAside
<1>. SUFFICES ASSUME NEW e, Served(e) PROVE Served(e)'
  OBVIOUS
<1>2. PICK s \in DOMAIN sessions : /\ sessions[s].entry = e
                                   /\ procs[s].alive \/ \E c \in Callers : Prompting(c, s)
  BY DEF Served
<1>3. s \in DOMAIN sessions' /\ sessions'[s].entry = e
  BY <1>2
<1>4. procs'[s].alive \/ \E c \in Callers : Prompting(c, s)'
  BY <1>1, <1>2
<1>. QED BY <1>3, <1>4 DEF Served

\* A step that leaves the pledges, the prompts and the sessions alone, and claims nothing.
LEMMA WorkedAside ==
    ASSUME QInv, QInv', SessionInv, WorkedInv, Aside(WorkNames \cup {"prompt", "stopRuntime"}),
           UNCHANGED <<procs, connected>>, DOMAIN sessions' = DOMAIN sessions,
           \A s \in DOMAIN sessions : sessions'[s].entry = sessions[s].entry,
           \A e \in DOMAIN queue' : IsClaimed(e)' => e \in DOMAIN queue /\ IsClaimed(e)
    PROVE  WorkedInv'
<1>1. Aside(WorkNames) /\ Aside({"prompt", "stopRuntime"})
  <2>1. /\ WorkNames \in SUBSET (WorkNames \cup {"prompt", "stopRuntime"})
        /\ {"prompt", "stopRuntime"} \in SUBSET (WorkNames \cup {"prompt", "stopRuntime"})
    OBVIOUS
  <2>. QED BY <2>1, AsideLess
<1>2. /\ Followed'
      /\ \A e : Pledged(e) => Pledged(e)'
      /\ \A e : Served(e) => Served(e)'
  BY <1>1, PledgesKept, ServedKept DEF SessionInv, WorkedInv
<1>3. ASSUME NEW e \in DOMAIN queue', IsClaimed(e)' PROVE Served(e)' \/ Pledged(e)'
  BY <1>2, <1>3 DEF WorkedInv
<1>. QED BY <1>2, <1>3 DEF WorkedInv

\* A goroutine goes on with ops, and what is claimed by then is pledged by it, or was by another.
LEMMA WorkedBy ==
    ASSUME QInv, SessionInv, WorkedInv, NEW c \in Callers, NEW S, NEW ops \in Seq(S), Replaces(c, ops),
           work[c] # <<>> => Head(work[c]).op \notin {"prompt", "stopRuntime"},
           \A k \in DOMAIN ops : ops[k].op \notin {"prompt", "stopRuntime"},
           \A k \in DOMAIN ops : ops[k].op \in {"claimWrite", "process"} =>
             \E j \in DOMAIN ops : j > k /\ ops[j].op = "create" /\ ops[j].entry = ops[k].entry,
           UNCHANGED queueVars,
           \A e \in DOMAIN queue' : IsClaimed(e)' =>
             \/ Pledged(e)'
             \/ /\ e \in DOMAIN queue /\ IsClaimed(e)
                /\ work[c] # <<>> => ~(Head(work[c]).op \in Pledges /\ Head(work[c]).entry = e)
             \/ \E k \in DOMAIN ops : ops[k].op \in Pledges /\ ops[k].entry = e
    PROVE  WorkedInv'
<1>1. Aside({"prompt", "stopRuntime"})
  BY AsideBy
<1>2. Followed'
  BY FollowedBy DEF WorkedInv
<1>3. \A e : Served(e) => Served(e)'
  BY <1>1, ServedKept DEF SessionInv, queueVars
<1>4. ASSUME NEW e \in DOMAIN queue', IsClaimed(e)' PROVE Served(e)' \/ Pledged(e)'
  <2>1. CASE Pledged(e)'
    BY <2>1
  <2>2. CASE \E k \in DOMAIN ops : ops[k].op \in Pledges /\ ops[k].entry = e
    BY <2>2, PledgeKept
  <2>3. CASE /\ e \in DOMAIN queue /\ IsClaimed(e)
             /\ work[c] # <<>> => ~(Head(work[c]).op \in Pledges /\ Head(work[c]).entry = e)
    <3>1. Served(e) \/ Pledged(e)
      BY <2>3 DEF WorkedInv
    <3>2. Pledged(e) => Pledged(e)'
      BY <2>3, PledgeKept
    <3>. QED BY <1>3, <3>1, <3>2
  <2>. QED BY <1>4, <2>1, <2>2, <2>3
<1>. QED BY <1>2, <1>4 DEF WorkedInv

\* What is written claimed or processing has been pledged by then.
LEMMA ClaimPledged ==
    ASSUME QInv, Followed, NEW c \in Callers, work[c] # <<>>,
           Head(work[c]).op \in {"claimWrite", "process"},
           NEW S, NEW ops \in Seq(S), Replaces(c, ops), NEW e, e = Head(work[c]).entry
    PROVE  Pledged(e)'
<1>1. 1 \in DOMAIN work[c] /\ Head(work[c]) = work[c][1]
  BY FirstIsHead
<1>2. Later(c, 1)
  BY <1>1 DEF Followed
<1>3. PICK j \in DOMAIN work[c] : j > 1 /\ work[c][j].op = "create" /\ work[c][j].entry = e
  BY <1>1, <1>2 DEF Later
<1>4. j # 1
  BY <1>3, HasFirst
<1>5. j + (Len(ops) - 1) \in DOMAIN work'[c] /\ work'[c][j + (Len(ops) - 1)] = work[c][j]
  BY <1>3, <1>4, Replaced
<1>. QED BY <1>3, <1>5 DEF Pledged, Pledges

LEMMA claimWorked ==
    ASSUME QInv, SessionInv, WorkedInv, NEW c \in Callers, claim(c) PROVE WorkedInv'
<1>1. PICK e, a : e = Head(work[c]).entry /\ a = queue[Head(work[c]).entry].agent
  OBVIOUS
<1>2. PICK four, none : /\ four = <<OnEntry("claimWrite", e), OnAgent("bump", a),
                                    OnEntry("process", e), OnEntry("create", e)>>
                        /\ none = <<>>
  OBVIOUS
<1>3. /\ work[c] # <<>> /\ Head(work[c]).op = "claim" /\ UNCHANGED <<queue, queueVars>>
      /\ Replaces(c, four) \/ Replaces(c, none)
  BY <1>1, <1>2 DEF claim, Doing, Replaces
<1>4. /\ DOMAIN four = 1 .. 4
      /\ four[1] = OnEntry("claimWrite", e) /\ four[2] = OnAgent("bump", a)
      /\ four[3] = OnEntry("process", e) /\ four[4] = OnEntry("create", e)
  BY <1>2
<1>5. four \in [1 .. 4 -> {four[i] : i \in 1 .. 4}]
  BY <1>2
<1>6. four \in Seq({four[i] : i \in 1 .. 4})
  BY <1>5, SeqDef
<1>7. \A k \in DOMAIN four :
        /\ four[k].op \notin {"prompt", "stopRuntime"}
        /\ four[k].op \in {"claimWrite", "process"} =>
             \E j \in DOMAIN four : j > k /\ four[j].op = "create" /\ four[j].entry = four[k].entry
  <2>1. /\ four[1].op = "claimWrite" /\ four[1].entry = e /\ four[2].op = "bump"
        /\ four[3].op = "process" /\ four[3].entry = e /\ four[4].op = "create" /\ four[4].entry = e
    BY <1>4 DEF OnEntry, OnAgent
  <2>2. 4 \in DOMAIN four /\ \A k \in DOMAIN four : k \in {1, 2, 3, 4}
    BY <1>4
  <2>. QED BY <2>1, <2>2
<1>8. none \in Seq(Held) /\ DOMAIN none = {}
  BY <1>2, ShortSeqs
<1>9. \A i \in DOMAIN queue' : IsClaimed(i)' =>
        /\ i \in DOMAIN queue /\ IsClaimed(i)
        /\ ~(Head(work[c]).op \in Pledges /\ Head(work[c]).entry = i)
  BY <1>3 DEF IsClaimed, Pledges
<1>10. Head(work[c]).op \notin {"prompt", "stopRuntime"} /\ UNCHANGED queueVars
  BY <1>3
<1>11. CASE Replaces(c, four)
  BY <1>6, <1>7, <1>9, <1>10, <1>11, WorkedBy
<1>12. CASE Replaces(c, none)
  BY <1>8, <1>9, <1>10, <1>12, WorkedBy
<1>. QED BY <1>3, <1>11, <1>12

LEMMA ClaimQueueItemWorked ==
    ASSUME QInv, SessionInv, WorkedInv, NEW c \in Callers, ClaimQueueItem(c) \/ startProcessing(c)
    PROVE  WorkedInv'
<1>1. PICK e : e = Head(work[c]).entry
  OBVIOUS
<1>2. PICK none, one : none = <<>> /\ one = <<Transition(queue[e].task, "in_progress", FALSE)>>
  OBVIOUS
<1>3. /\ work[c] # <<>> /\ Head(work[c]).op \in {"claimWrite", "process"} /\ UNCHANGED queueVars
      /\ SetEntry(e, "claimed") \/ SetEntry(e, "processing")
      /\ Replaces(c, none) \/ Replaces(c, one)
  BY <1>1, <1>2 DEF ClaimQueueItem, startProcessing, Doing, Replaces
<1>4. \A i \in DOMAIN queue' : i \in DOMAIN queue /\ (i # e => queue'[i] = queue[i])
  BY <1>3, StatusOnly
<1>5. /\ Head(work[c]).op \notin {"prompt", "stopRuntime"}
      /\ Head(work[c]).op \notin Pledges
  BY <1>3 DEF Pledges
<1>6. ASSUME NEW S, NEW ops \in Seq(S), Replaces(c, ops), \A k \in DOMAIN ops : ops[k].op = "transition"
      PROVE  WorkedInv'
  <2>1. Pledged(e)'
    BY <1>1, <1>3, <1>6, ClaimPledged DEF WorkedInv
  <2>2. \A i \in DOMAIN queue' : IsClaimed(i)' => Pledged(i)' \/ (i \in DOMAIN queue /\ IsClaimed(i))
    BY <1>4, <2>1 DEF IsClaimed
  <2>. QED BY <1>3, <1>5, <1>6, <2>2, WorkedBy
<1>7. none \in Seq(Held) /\ DOMAIN none = {}
  BY <1>2, ShortSeqs
<1>8. one \in Seq({Transition(queue[e].task, "in_progress", FALSE)})
      /\ \A k \in DOMAIN one : one[k].op = "transition"
  BY <1>2, ShortSeqs DEF Transition
<1>. QED BY <1>3, <1>6, <1>7, <1>8

\* The task is not in the trash, so that a session follows.
LEMMA CreateSessionWorked ==
    ASSUME QInv, SessionInv, OwnInv, WorkedInv, NEW c \in Callers, CreateSession(c) PROVE WorkedInv'
<1>1. PICK e : e = Head(work[c]).entry
  OBVIOUS
<1>2. PICK one : one = <<OnEntry("stale", e)>>
  OBVIOUS
<1>3. work[c] # <<>> /\ Head(work[c]).op = "create" /\ UNCHANGED <<queue, queueVars>>
  BY DEF CreateSession, Doing
<1>4. e \in DOMAIN queue /\ queue[e].task \in Tasks
  BY <1>1, <1>3, HeadEntry, EntryType DEF EntryNames
<1>5. Live(queue[e].task)
  BY <1>4 DEF Live, OwnInv, RowsOwned, RowFor
<1>6. Replaces(c, one)
  BY <1>1, <1>2, <1>3, <1>5 DEF CreateSession, Replaces
<1>7. one \in Seq({OnEntry("stale", e)})
  BY <1>2, ShortSeqs
<1>8. 1 \in DOMAIN one /\ one[1].op = "stale" /\ one[1].entry = e /\ \A k \in DOMAIN one : k = 1
  BY <1>2 DEF OnEntry
<1>9. \A i \in DOMAIN queue' : IsClaimed(i)' =>
        \/ i \in DOMAIN queue /\ IsClaimed(i) /\ ~(Head(work[c]).op \in Pledges /\ Head(work[c]).entry = i)
        \/ \E k \in DOMAIN one : one[k].op \in Pledges /\ one[k].entry = i
  BY <1>1, <1>3, <1>8 DEF IsClaimed, Pledges
<1>10. \A k \in DOMAIN one : one[k].op \notin {"prompt", "stopRuntime", "claimWrite", "process"}
  BY <1>8
<1>. QED BY <1>3, <1>6, <1>7, <1>9, <1>10, WorkedBy

LEMMA findStaleWorked ==
    ASSUME QInv, SessionInv, WorkedInv, NEW c \in Callers, findStale(c) PROVE WorkedInv'
<1>1. PICK e : e = Head(work[c]).entry
  OBVIOUS
<1>2. work[c] # <<>> /\ Head(work[c]).op = "stale" /\ UNCHANGED <<queue, queueVars>>
  BY DEF findStale, Doing
<1>3. ASSUME NEW S, NEW ops \in Seq(S), Replaces(c, ops),
             \A k \in DOMAIN ops : ops[k].op \in {"supersede", "open"},
             \E k \in DOMAIN ops : ops[k].op = "open" /\ ops[k].entry = e
      PROVE  WorkedInv'
  <2>1. \A i \in DOMAIN queue' : IsClaimed(i)' =>
          \/ i \in DOMAIN queue /\ IsClaimed(i) /\ ~(Head(work[c]).op \in Pledges /\ Head(work[c]).entry = i)
          \/ \E k \in DOMAIN ops : ops[k].op \in Pledges /\ ops[k].entry = i
    BY <1>1, <1>2, <1>3 DEF IsClaimed, Pledges
  <2>2. \A k \in DOMAIN ops : ops[k].op \notin {"prompt", "stopRuntime", "claimWrite", "process"}
    BY <1>3
  <2>. QED BY <1>2, <1>3, <2>1, <2>2, WorkedBy
<1>4. CASE Then(c, <<OnEntry("open", e)>>)
  <2>1. PICK one : one = <<OnEntry("open", e)>>
    OBVIOUS
  <2>2. one \in Seq({OnEntry("open", e)}) /\ Replaces(c, one)
    BY <1>2, <1>4, <2>1, ShortSeqs DEF Replaces
  <2>3. 1 \in DOMAIN one /\ one[1].op = "open" /\ one[1].entry = e /\ \A k \in DOMAIN one : k = 1
    BY <2>1 DEF OnEntry
  <2>. QED BY <1>3, <2>2, <2>3
<1>5. ASSUME NEW s, Then(c, <<OnSession("supersede", s), OnEntry("open", e)>>) PROVE WorkedInv'
  <2>1. PICK two : two = <<OnSession("supersede", s), OnEntry("open", e)>>
    OBVIOUS
  <2>2. two \in Seq({OnSession("supersede", s), OnEntry("open", e)}) /\ Replaces(c, two)
    BY <1>2, <1>5, <2>1, ShortSeqs DEF Replaces
  <2>3. /\ 2 \in DOMAIN two /\ two[1].op = "supersede" /\ two[2].op = "open" /\ two[2].entry = e
        /\ \A k \in DOMAIN two : k \in {1, 2}
    BY <2>1 DEF OnEntry, OnSession
  <2>. QED BY <1>3, <2>2, <2>3
<1>. QED BY <1>1, <1>4, <1>5 DEF findStale

LEMMA settleEntryWorked ==
    ASSUME QInv, SessionInv, WorkedInv, NEW c \in Callers, settleEntry(c) PROVE WorkedInv'
<1>1. PICK e, status : e = Head(work[c]).entry /\ status = Head(work[c]).status
  OBVIOUS
<1>2. PICK none : none = <<>>
  OBVIOUS
<1>3. /\ work[c] # <<>> /\ Head(work[c]).op = "settle" /\ UNCHANGED queueVars
      /\ SetEntry(e, status) /\ Replaces(c, none)
  BY <1>1, <1>2 DEF settleEntry, Doing, Replaces
<1>4. status \in {"completed", "failed"}
  BY <1>1, <1>3, HeadIsHeld, HeldByName
<1>5. \A i \in DOMAIN queue' : /\ i \in DOMAIN queue
                               /\ i # e => queue'[i] = queue[i]
                               /\ i = e => queue'[i].status = status
  BY <1>3, StatusOnly
<1>6. \A i \in DOMAIN queue' : IsClaimed(i)' =>
        i \in DOMAIN queue /\ IsClaimed(i) /\ ~(Head(work[c]).op \in Pledges /\ Head(work[c]).entry = i)
  BY <1>1, <1>4, <1>5 DEF IsClaimed
<1>7. none \in Seq(Held) /\ DOMAIN none = {}
  BY <1>2, ShortSeqs
<1>. QED BY <1>3, <1>6, <1>7, WorkedBy

\* A process ends: the entry of its session will be settled.
LEMMA handleSessionCompleteWorked ==
    ASSUME QInv, SessionInv, WorkedInv, NEW c \in Callers, NEW s \in DOMAIN sessions,
           handleSessionComplete(c, s)
    PROVE  WorkedInv'
<1>1. PICK status \in {"completed", "failed"}, summary \in BOOLEAN :
         work' = [work EXCEPT ![c] = IF procs[s].meta THEN Report(sessions[s].entry, status, summary)
                                     ELSE <<>>]
  BY DEF handleSessionComplete
<1>2. PICK e : e = sessions[s].entry
  OBVIOUS
<1>. DEFINE ops == Report(e, status, summary)
<1>3. work[c] = <<>> /\ procs[s].alive /\ procs[s].meta
  BY DEF handleSessionComplete, SessionInv, Prompts
<1>4. Replaces(c, ops) /\ UNCHANGED <<queue, sessions, connected>>
  BY <1>1, <1>2, <1>3 DEF Replaces, handleSessionComplete
<1>5. /\ ops \in Seq(Held) /\ 1 \in DOMAIN ops /\ ops[1].op = "settle" /\ ops[1].entry = e
      /\ \A k \in DOMAIN ops : ops[k].op \in {"settle", "lower", "close", "complete"}
  BY <1>2, SessionType, ReportHeld, ReportNames
<1>. HIDE DEF ops
<1>6. Aside({"prompt", "stopRuntime"}) /\ Followed'
  <2>1. \A k \in DOMAIN ops : ops[k].op \notin {"prompt", "stopRuntime", "claimWrite", "process"}
    BY <1>5
  <2>. QED BY <1>3, <1>4, <1>5, <2>1, AsideBy, FollowedBy DEF WorkedInv
<1>7. \A d \in Callers : \A x : Prompting(d, x)' <=> Prompting(d, x)
  BY <1>4, <1>6, WorkPromptsAside DEF SessionInv
<1>8. \A x \in DOMAIN sessions : x # s => procs'[x] = procs[x]
  <2>1. \A x \in DOMAIN sessions : x \in DOMAIN procs /\ procs[x] \in Procs
    BY SessionType
  <2>2. procs' = [procs EXCEPT ![s] = [meta |-> FALSE, alive |-> FALSE]]
    BY DEF handleSessionComplete
  <2>. QED BY <2>1, <2>2
<1>9. ASSUME NEW i \in DOMAIN queue', IsClaimed(i)' PROVE Served(i)' \/ Pledged(i)'
  <2>1. Served(i) \/ Pledged(i)
    BY <1>4, <1>9 DEF WorkedInv, IsClaimed
  <2>2. CASE i = e
    <3>1. Pledged(i)'
      BY <1>4, <1>5, <2>2, PledgeKept DEF Pledges
    <3>. QED BY <3>1
  <2>3. CASE Pledged(i)
    <3>1. Pledged(i)'
      BY <1>3, <1>4, <1>5, <2>3, PledgeKept
    <3>. QED BY <3>1
  <2>4. CASE Served(i) /\ i # e
    <3>1. PICK x \in DOMAIN sessions : /\ sessions[x].entry = i
                                       /\ procs[x].alive \/ \E d \in Callers : Prompting(d, x)
      BY <2>4 DEF Served
    <3>2. x # s
      BY <1>2, <2>4, <3>1
    <3>3. procs'[x].alive \/ \E d \in Callers : Prompting(d, x)'
      BY <1>7, <1>8, <3>1, <3>2
    <3>. QED BY <1>4, <3>1, <3>3 DEF Served
  <2>. QED BY <2>1, <2>2, <2>3, <2>4
<1>. QED BY <1>6, <1>9 DEF WorkedInv

\* A session is opened: the others stay as they are, and so do their processes.
LEMMA SessionOpened ==
    ASSUME QInv, NEW row, Open(row)
    PROVE  LET n == Len(sessions) + 1 IN
           /\ n \in DOMAIN sessions' /\ sessions'[n] = row
           /\ \A x \in DOMAIN sessions : /\ x \in DOMAIN sessions' /\ sessions'[x] = sessions[x]
                                        /\ procs'[x] = procs[x]
<1>. DEFINE new == [meta |-> connected, alive |-> FALSE]
<1>1. /\ sessions \in Seq(Sessions) /\ sessions' = Append(sessions, row)
      /\ procs \in Seq(Procs) /\ procs' = Append(procs, new) /\ Len(procs) = Len(sessions)
  BY DEF QInv, NodeTyped, Open
<1>. HIDE DEF new
<1>2. Len(sessions) \in Nat /\ DOMAIN sessions = 1 .. Len(sessions) /\ DOMAIN procs = 1 .. Len(sessions)
  BY <1>1, LenProperties
<1>3. /\ DOMAIN sessions' = 1 .. (Len(sessions) + 1)
      /\ sessions'[Len(sessions) + 1] = row
      /\ \A x \in DOMAIN sessions : sessions'[x] = sessions[x]
  BY <1>1, <1>2
<1>4. \A x \in DOMAIN procs : procs'[x] = procs[x]
  BY <1>1, <1>2
<1>. QED BY <1>2, <1>3, <1>4

LEMMA openSessionWorked ==
    ASSUME QInv, SessionInv, WorkedInv, NEW c \in Callers, openSession(c) PROVE WorkedInv'
<1>1. PICK e : e = Head(work[c]).entry
  OBVIOUS
<1>2. PICK n, row : /\ n = Len(sessions) + 1
                    /\ row = [entry |-> e, task |-> queue[e].task, status |-> "pending"]
  OBVIOUS
<1>3. PICK one : one = <<OnSession("prompt", n)>>
  OBVIOUS
<1>4. /\ work[c] # <<>> /\ Head(work[c]).op = "open" /\ Then(c, one) /\ UNCHANGED queue /\ Open(row)
  BY <1>1, <1>2, <1>3 DEF openSession, Doing
<1>5. /\ n \in DOMAIN sessions' /\ sessions'[n] = row
      /\ \A x \in DOMAIN sessions : x \in DOMAIN sessions' /\ sessions'[x] = sessions[x] /\ procs'[x] = procs[x]
  BY <1>2, <1>4, SessionOpened
<1>6. one \in Seq({OnSession("prompt", n)}) /\ Replaces(c, one)
  BY <1>3, <1>4, ShortSeqs DEF Replaces
<1>7. 1 \in DOMAIN one /\ one[1].op = "prompt" /\ one[1].session = n /\ \A k \in DOMAIN one : k = 1
  BY <1>3 DEF OnSession
<1>8. Prompting(c, n)' /\ \A d \in Callers : d # c => work'[d] = work[d]
  BY <1>6, <1>7, Replaced DEF Prompting
<1>9. Served(e)'
  <2>1. sessions'[n].entry = e
    BY <1>2, <1>5
  <2>. QED BY <1>5, <1>8, <2>1 DEF Served
<1>10. ASSUME NEW d \in Callers, NEW x, Prompting(d, x) PROVE Prompting(d, x)'
  <2>1. PICK k \in DOMAIN work[d] : work[d][k].op = "prompt" /\ work[d][k].session = x
    BY <1>10 DEF Prompting
  <2>2. k = 1
    BY <2>1 DEF SessionInv, Prompts
  <2>3. d # c
    BY <1>4, <2>1, <2>2, FirstIsHead
  <2>. QED BY <1>8, <2>1, <2>3 DEF Prompting
<1>11. Followed'
  BY <1>6, <1>7, FollowedBy DEF WorkedInv
<1>12. ASSUME NEW i \in DOMAIN queue', IsClaimed(i)' PROVE Served(i)' \/ Pledged(i)'
  <2>1. Served(i) \/ Pledged(i)
    BY <1>4, <1>12 DEF WorkedInv, IsClaimed
  <2>2. CASE i = e
    BY <1>9, <2>2
  <2>3. CASE Served(i)
    <3>1. PICK x \in DOMAIN sessions : /\ sessions[x].entry = i
                                       /\ procs[x].alive \/ \E d \in Callers : Prompting(d, x)
      BY <2>3 DEF Served
    <3>2. procs'[x].alive \/ \E d \in Callers : Prompting(d, x)'
      BY <1>5, <1>10, <3>1
    <3>. QED BY <1>5, <3>1, <3>2 DEF Served
  <2>4. CASE Pledged(i) /\ i # e
    <3>1. Pledged(i)'
      BY <1>1, <1>6, <2>4, PledgeKept
    <3>. QED BY <3>1
  <2>. QED BY <2>1, <2>2, <2>3, <2>4
<1>. QED BY <1>11, <1>12 DEF WorkedInv

\* The prompt starts the process.
LEMMA deliverPromptWorked ==
    ASSUME QInv, SessionInv, WorkedInv, NEW c \in Callers, deliverPrompt(c) PROVE WorkedInv'
<1>1. PICK s : s = Head(work[c]).session
  OBVIOUS
<1>2. PICK none : none = <<>>
  OBVIOUS
<1>3. /\ work[c] # <<>> /\ Head(work[c]).op = "prompt" /\ Replaces(c, none) /\ UNCHANGED <<queue, sessions>>
      /\ procs' = [procs EXCEPT ![s].alive = connected]
  BY <1>1, <1>2 DEF deliverPrompt, Doing, Replaces
<1>4. none \in Seq(Held) /\ DOMAIN none = {}
  BY <1>2, ShortSeqs
<1>5. /\ \A x \in DOMAIN sessions : x # s => procs'[x] = procs[x]
      /\ s \in DOMAIN sessions => procs'[s].alive
  <2>1. \A x \in DOMAIN sessions : x \in DOMAIN procs /\ procs[x] \in Procs
    BY SessionType
  <2>2. connected
    BY DEF SessionInv, Connected
  <2>. QED BY <1>3, <2>1, <2>2 DEF Procs
<1>6. \A d \in Callers : d # c => work'[d] = work[d]
  BY <1>3, <1>4, Replaced
<1>7. ASSUME NEW d \in Callers, NEW x, x # s, Prompting(d, x) PROVE Prompting(d, x)'
  <2>1. PICK k \in DOMAIN work[d] : work[d][k].op = "prompt" /\ work[d][k].session = x
    BY <1>7 DEF Prompting
  <2>2. k = 1
    BY <2>1 DEF SessionInv, Prompts
  <2>3. d # c
    BY <1>1, <1>3, <1>7, <2>1, <2>2, FirstIsHead
  <2>. QED BY <1>6, <2>1, <2>3 DEF Prompting
<1>8. Followed'
  BY <1>3, <1>4, FollowedBy DEF WorkedInv
<1>9. ASSUME NEW i \in DOMAIN queue', IsClaimed(i)' PROVE Served(i)' \/ Pledged(i)'
  <2>1. Served(i) \/ Pledged(i)
    BY <1>3, <1>9 DEF WorkedInv, IsClaimed
  <2>2. CASE Served(i)
    <3>1. PICK x \in DOMAIN sessions : /\ sessions[x].entry = i
                                       /\ procs[x].alive \/ \E d \in Callers : Prompting(d, x)
      BY <2>2 DEF Served
    <3>2. procs'[x].alive \/ \E d \in Callers : Prompting(d, x)'
      BY <1>5, <1>7, <3>1
    <3>. QED BY <1>3, <3>1, <3>2 DEF Served
  <2>3. CASE Pledged(i)
    <3>1. Pledged(i)'
      BY <1>3, <1>4, <2>3, PledgeKept DEF Pledges
    <3>. QED BY <3>1
  <2>. QED BY <2>1, <2>2, <2>3
<1>. QED BY <1>8, <1>9 DEF WorkedInv

\* The names of the operations that matter here are none of those of TaskService.
LEMMA WorkNamesApart ==
    LET N == WorkNames \cup {"prompt", "stopRuntime"}
    IN  N \cap Common = {} /\ N \cap OpNames = {} /\ "transition" \notin N
        /\ {"claim", "supersede", "close", "failNode", "follow"} \cap N = {}
BY DEF WorkNames, Pledges, Common, OpNames

LEMMA QueueStepWorked ==
    ASSUME QInv, QInv', SessionInv, OwnInv, WorkedInv, NEW c \in Callers, QueueStep(c) PROVE WorkedInv'
<1>. DEFINE N == WorkNames \cup {"prompt", "stopRuntime"}
<1>1. N \cap Common = {} /\ {"supersede", "close", "failNode", "follow"} \cap N = {}
  BY WorkNamesApart
<1>2. ASSUME Aside(N), UNCHANGED <<queue, queueVars>> PROVE WorkedInv'
  BY <1>2, WorkedAside DEF queueVars, IsClaimed
<1>3. CASE claim(c) \/ ClaimQueueItem(c) \/ startProcessing(c) \/ CreateSession(c) \/ findStale(c)
           \/ openSession(c) \/ deliverPrompt(c) \/ settleEntry(c)
  BY <1>3, claimWorked, ClaimQueueItemWorked, CreateSessionWorked, findStaleWorked, openSessionWorked,
     deliverPromptWorked, settleEntryWorked
<1>4. CASE lowerLoad(c) \/ completeTask(c) \/ zeroLoad(c)
  <2>1. Aside(N)
    BY <1>1, <1>4, QueueAside
  <2>. QED BY <1>2, <1>4, <2>1 DEF lowerLoad, completeTask, zeroLoad
<1>5. CASE queueForReview(c)
  <2>1. /\ work[c] # <<>> /\ Head(work[c]).op = "follow" /\ Then(c, <<>>) /\ UNCHANGED <<queue, queueVars>>
    BY <1>5, NotHandedOver DEF queueForReview, Doing
  <2>2. Aside(N)
    BY <1>1, <2>1, ShortAside DEF Replaces
  <2>. QED BY <1>2, <2>1, <2>2
<1>6. CASE failEntriesOfAgent(c) \/ failEntriesOfNode(c)
  <2>1. Aside(N)
    BY <1>1, <1>6, QueueAside
  <2>2. UNCHANGED queueVars
    BY <1>6 DEF failEntriesOfAgent, failEntriesOfNode
  <2>3. \A i \in DOMAIN queue' : i \in DOMAIN queue /\ queue'[i].status \in {queue[i].status, "failed"}
    BY <1>6, FailedOnly
  <2>4. \A i \in DOMAIN queue' : IsClaimed(i)' => i \in DOMAIN queue /\ IsClaimed(i)
    BY <2>3 DEF IsClaimed
  <2>. QED BY <2>1, <2>2, <2>4, WorkedAside DEF queueVars
<1>7. CASE supersede(c) \/ closeSessions(c)
  <2>1. Aside(N)
    BY <1>1, <1>7, QueueAside
  <2>2. UNCHANGED <<queue, procs, connected>>
    BY <1>7 DEF supersede, closeSessions
  <2>3. /\ DOMAIN sessions' = DOMAIN sessions
        /\ \A s \in DOMAIN sessions : sessions'[s].entry = sessions[s].entry
    <3>1. \A s \in DOMAIN sessions : sessions[s] \in Sessions
      BY SessionType
    <3>2. CASE supersede(c)
      <4>1. sessions' = [sessions EXCEPT ![Head(work[c]).session].status = "failed"]
        BY <3>2 DEF supersede
      <4>. QED BY <3>1, <4>1 DEF Sessions
    <3>3. CASE closeSessions(c)
      <4>1. /\ DOMAIN sessions' = DOMAIN sessions
            /\ \A s \in DOMAIN sessions :
                 \/ sessions'[s] = sessions[s]
                 \/ sessions'[s] = [sessions[s] EXCEPT !.status = Head(work[c]).status]
        BY <3>3 DEF closeSessions
      <4>. QED BY <3>1, <4>1 DEF Sessions
    <3>. QED BY <1>7, <3>2, <3>3
  <2>. QED BY <2>1, <2>2, <2>3, WorkedAside DEF IsClaimed
<1>8. ~stopRuntime(c)
  <2>. SUFFICES ASSUME stopRuntime(c) PROVE FALSE
    OBVIOUS
  <2>1. work[c] # <<>> /\ Head(work[c]).op = "stopRuntime"
    BY DEF stopRuntime, Doing
  <2>2. 1 \in DOMAIN work[c] /\ work[c][1].op = "stopRuntime"
    BY <2>1, FirstIsHead
  <2>. QED BY <2>2 DEF SessionInv, Connected
<1>. QED BY <1>3, <1>4, <1>5, <1>6, <1>7, <1>8, NotHandedOver DEF QueueStep

\* A step of TaskService claims nothing, and adds entries that nobody has claimed.
LEMMA ServiceWorked ==
    ASSUME QInv, QInv', SessionInv, OwnInv, WorkedInv, NEW c \in Callers, ServiceStep(c), UNCHANGED queueVars
    PROVE  WorkedInv'
<1>1. Aside(WorkNames \cup {"prompt", "stopRuntime"})
  BY WorkNamesApart, ServiceAside
<1>2. ASSUME NEW i \in DOMAIN queue', IsClaimed(i)' PROVE i \in DOMAIN queue /\ IsClaimed(i)
  <2>1. i \in DOMAIN queue
    BY <1>2, ServiceAddsEntries DEF IsClaimed
  <2>2. queue'[i].status \in {queue[i].status, "failed"}
    BY <2>1, ServiceKeepsEntries DEF EntriesKept
  <2>. QED BY <1>2, <2>1, <2>2 DEF IsClaimed
<1>. QED BY <1>1, <1>2, WorkedAside DEF queueVars

LEMMA WorkedNext == QInv /\ QInv' /\ SessionInv /\ OwnInv /\ WorkedInv /\ [QueueNext]_allVars => WorkedInv'
<1>. SUFFICES ASSUME QInv, QInv', SessionInv, OwnInv, WorkedInv, [QueueNext]_allVars PROVE WorkedInv'
  OBVIOUS
<1>. DEFINE N == WorkNames \cup {"prompt", "stopRuntime"}
<1>1. N \cap Common = {} /\ "claim" \notin N /\ "transition" \notin N
  BY WorkNamesApart
<1>2. ASSUME Aside(N), UNCHANGED <<queue, queueVars>> PROVE WorkedInv'
  BY <1>2, WorkedAside DEF queueVars, IsClaimed
<1>3. ASSUME Requests, UNCHANGED queueVars PROVE WorkedInv'
  BY <1>1, <1>2, <1>3, RequestsAside
<1>4. ASSUME NEW c \in Callers, pollQueue(c) PROVE WorkedInv'
  <2>1. Aside(N)
    BY <1>1, <1>4, QueueAside
  <2>. QED BY <1>2, <1>4, <2>1 DEF pollQueue
<1>5. ASSUME NEW c \in Callers, NEW a \in Agents, DisableProfile(c, a) PROVE WorkedInv'
  <2>1. Aside(N)
    BY <1>1, <1>5, RequestAside
  <2>. QED BY <1>2, <1>5, <2>1 DEF DisableProfile
<1>6. ASSUME NEW a \in Agents, EnableProfile(a) PROVE WorkedInv'
  BY <1>2, <1>6 DEF EnableProfile, Aside
<1>7. CASE UNCHANGED allVars
  BY <1>2, <1>7 DEF allVars, vars, Aside
<1>8. CASE QueueNext
  <2>1. ~ServerRestart /\ ~Disconnect /\ \A c \in Callers : ~Reconnect(c) /\ ~StopNode(c)
    BY <1>8, NothingLost DEF SessionInv
  <2>2. /\ \A c \in Callers : \A t \in Tasks : ~AutoAssign(c, t)
        /\ \A c \in Callers : \A e \in DOMAIN queue : ~ClaimByUser(c, e)
        /\ \A c \in Callers : \A e \in DOMAIN queue : \A status \in QueueStatuses : ~UpdateStatus(c, e, status)
    BY DEF AutoAssign, ClaimByUser, UpdateStatus, NodeRequest, OwnInv, OneAgentEach
  <2>. QED BY <1>3, <1>4, <1>5, <1>6, <1>8, <2>1, <2>2, ServiceWorked, QueueStepWorked,
              handleSessionCompleteWorked DEF QueueNext
<1>. QED BY <1>7, <1>8

LEMMA WorkedInit == QueueInit => WorkedInv
<1>. SUFFICES ASSUME QueueInit PROVE WorkedInv
  OBVIOUS
<1>1. DOMAIN <<>> = {}
  OBVIOUS
<1>2. (\A c \in Callers : DOMAIN work[c] = {}) /\ DOMAIN queue = {}
  BY <1>1 DEF QueueInit, Init
<1>. QED BY <1>2 DEF WorkedInv, Followed

LEMMA WorkedInvariant ==
    Stays /\ OneAgentEach /\ QueueSpec => [](QInv /\ SessionInv /\ OwnInv /\ WorkedInv)
<1>1. QInv /\ SessionInv /\ OwnInv /\ WorkedInv /\ [QueueNext]_allVars
        => (QInv /\ SessionInv /\ OwnInv /\ WorkedInv)'
  BY QueueNextQInv, SessionNext, OwnNext, WorkedNext
<1>2. Stays /\ OneAgentEach /\ QueueInit => QInv /\ SessionInv /\ OwnInv /\ WorkedInv
  BY QueueInitQInv, SessionInit, OwnInit, WorkedInit
<1>. QED BY <1>1, <1>2, PTL DEF QueueSpec

\* While the node keeps its connection and each task its agent, a claim is never left
\* behind: when no request is running, an entry that is claimed or in processing has
\* a session whose process runs and will be reported (ClaimedIsWorkedOn).  However
\* many pollers claim it, for the late write of the one is followed by a session of
\* its own, and whatever process ends or profile is disabled in between.
THEOREM ClaimIsWorkedOn == Stays /\ OneAgentEach /\ QueueSpec => []ClaimedIsWorkedOn
<1>1. QInv /\ SessionInv /\ WorkedInv => ClaimedIsWorkedOn
  <2>. SUFFICES ASSUME QInv, SessionInv, WorkedInv, Quiet, NEW i \in DOMAIN queue, IsClaimed(i)
                PROVE  \E s \in DOMAIN sessions : sessions[s].entry = i /\ procs[s].alive /\ procs[s].meta
    BY DEF ClaimedIsWorkedOn, IsClaimed
  <2>1. DOMAIN <<>> = {}
    OBVIOUS
  <2>2. \A c \in Callers : DOMAIN work[c] = {}
    BY <2>1 DEF Quiet
  <2>3. Served(i) \/ Pledged(i)
    BY DEF WorkedInv
  <2>4. ~Pledged(i) /\ \A c \in Callers : \A s : ~Prompting(c, s)
    BY <2>2 DEF Pledged, Prompting
  <2>5. PICK s \in DOMAIN sessions : sessions[s].entry = i /\ procs[s].alive
    BY <2>3, <2>4 DEF Served
  <2>. QED BY <2>5 DEF SessionInv, Prompts
<1>. QED BY <1>1, WorkedInvariant, PTL
=============================================================================
