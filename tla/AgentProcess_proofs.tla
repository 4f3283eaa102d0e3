------------------------- MODULE AgentProcess_proofs -------------------------
(***************************************************************************)
(* What the runtime keeps has its type, the end of a session is reported   *)
(* once and never lost, and no process of a running runtime runs that its  *)
(* session does not lead to, for every set of tasks and every number of    *)
(* sessions, processes, calls and faults.                                  *)
(*                                                                         *)
(* The type holds by an invariant of its own (Typed): what is on the way   *)
(* and what a goroutine has still to do names rows of the tables, which    *)
(* only grow.  The three others need what the read loop relies on: a       *)
(* session.create is handled before anything else of its session, so that  *)
(* no context is stored again for a session that was reported (Unheard),   *)
(* and a session whose context is still held was not reported              *)
(* (Unreported).  Most steps are Silent: they put nothing on the way that  *)
(* creates a session, and for those the order on the way is kept.          *)
(***************************************************************************)
EXTENDS AgentProcess, SequenceTheorems, FiniteSetTheorems, TLAPS

\* What is on the way, and what a goroutine still has to do, names rows that exist.
Sent == [type : {"create", "invite", "prompt", "message", "tool"}, session : DOMAIN sessions]
          \cup [type : {"answer"}, session : DOMAIN sessions, of : Nat, approved : BOOLEAN]
          \cup [type : {"mention"}, entry : DOMAIN queue]
EntryOps == {"claim", "start", "create", "processing", "evaluate", "settle", "recent", "auto", "mark"}
Ops == [op : EntryOps, entry : DOMAIN queue] \cup [op : {"prompt"}, session : DOMAIN sessions]
\* A reader that has nothing to report has no step of a report to do.
Started == {r \in [session : DOMAIN sessions,
                   phase : {"waiting", "working", "asking", "gone"},
                   cancelled : BOOLEAN, completed : BOOLEAN, input : Nat,
                   report : Reports, at : ReportSteps, drained : BOOLEAN, orphan : BOOLEAN] :
              r.report = "none" => r.at = "none"}
Rows == [task : Tasks, status : Statuses]

TablesTyped == queue \in Seq(Rows) /\ sessions \in Seq(DOMAIN queue)
WorkTyped == work \in [Goroutines -> Seq(Ops)]
BusTyped == onBus \in SUBSET DOMAIN sessions /\ members \in SUBSET onBus /\ inbox \in Seq(Sent)
RuntimeTyped == /\ up \in BOOLEAN /\ secret \in BOOLEAN /\ connected \in BOOLEAN
                /\ pollers \in SUBSET Pollers
NodeTyped == meta \in SUBSET DOMAIN sessions /\ recent \in SUBSET Tasks
BackendTyped ==
    /\ procs \in Seq(Started)
    /\ held \in [DOMAIN sessions -> 0 .. Len(procs)]
    /\ \A s \in DOMAIN sessions : held[s] # 0 => procs[held[s]].session = s
    /\ asked \in SUBSET DOMAIN procs
    /\ reported \in [DOMAIN sessions -> Nat]
BoundsTyped == calls \in Nat /\ faults \in Nat

Typed == /\ TablesTyped /\ WorkTyped /\ BusTyped /\ RuntimeTyped
         /\ NodeTyped /\ BackendTyped /\ BoundsTyped

\* The tables only grow.
Grown == Len(queue) <= Len(queue') /\ Len(sessions) <= Len(sessions')

LEMMA TypedIsType == Typed => AgentTypeOK
<1> SUFFICES ASSUME Typed PROVE AgentTypeOK
  OBVIOUS
<1> USE DEF Typed
<1>1. queue \in Seq([task : Tasks, status : Statuses]) /\ sessions \in Seq(DOMAIN queue)
  BY DEF TablesTyped, Rows
<1>2. inbox \in Seq(Envelopes)
  <2>1. Sent \subseteq Envelopes
    BY <1>1, LenProperties DEF Sent, Envelopes
  <2> QED BY <2>1, SeqMonotonic DEF BusTyped
<1>3. work \in [Goroutines -> Seq(EntrySteps \cup PromptSteps)]
  <2>1. Ops \subseteq EntrySteps \cup PromptSteps
    BY <1>1, LenProperties DEF Ops, EntryOps, EntrySteps, PromptSteps
  <2>2. Seq(Ops) \subseteq Seq(EntrySteps \cup PromptSteps)
    BY <2>1, SeqMonotonic
  <2> QED BY <2>2 DEF WorkTyped
<1>4. procs \in Seq(Processes)
  <2>1. Started \subseteq Processes
    BY <1>1, LenProperties DEF Started, Processes
  <2> QED BY <2>1, SeqMonotonic DEF BackendTyped
<1>5. {up, secret, connected} \subseteq BOOLEAN /\ {calls, faults} \subseteq Nat
  BY DEF RuntimeTyped, BoundsTyped
<1>6. /\ held \in [DOMAIN sessions -> 0 .. Len(procs)]
      /\ \A s \in DOMAIN held : held[s] # 0 => procs[held[s]].session = s
      /\ asked \in SUBSET DOMAIN procs /\ reported \in [DOMAIN sessions -> Nat]
  BY DEF BackendTyped
<1> QED
  BY <1>1, <1>2, <1>3, <1>4, <1>5, <1>6 DEF AgentTypeOK, BusTyped, NodeTyped, RuntimeTyped

LEMMA GrownTypes ==
    ASSUME TablesTyped, TablesTyped', Grown
    PROVE  /\ DOMAIN queue \subseteq DOMAIN queue' /\ DOMAIN sessions \subseteq DOMAIN sessions'
           /\ Ops \subseteq Ops' /\ Sent \subseteq Sent' /\ Started \subseteq Started'
<1>1. DOMAIN queue \subseteq DOMAIN queue' /\ DOMAIN sessions \subseteq DOMAIN sessions'
  BY LenProperties DEF TablesTyped, Grown
<1>2. Ops \subseteq Ops'
  BY <1>1 DEF Ops
<1>3. Sent \subseteq Sent'
  BY <1>1 DEF Sent
<1>4. Started \subseteq Started'
  BY <1>1 DEF Started
<1> QED BY <1>1, <1>2, <1>3, <1>4

LEMMA WorkKept ==
    ASSUME Typed, TablesTyped', Grown, UNCHANGED work
    PROVE  WorkTyped'
<1>1. Seq(Ops) \subseteq Seq(Ops')
  BY GrownTypes, SeqMonotonic DEF Typed
<1> QED BY <1>1 DEF Typed, WorkTyped

LEMMA ThenType ==
    ASSUME Typed, TablesTyped', Grown, NEW g \in Goroutines, work[g] # <<>>,
           NEW more \in Seq(Ops'), Then(g, more)
    PROVE  WorkTyped'
<1>1. work[g] \in Seq(Ops) /\ Seq(Ops) \subseteq Seq(Ops')
  BY GrownTypes, SeqMonotonic DEF Typed, WorkTyped
<1>2. more \o Tail(work[g]) \in Seq(Ops')
  BY <1>1, HeadTailProperties, ConcatProperties
<1> QED BY <1>1, <1>2 DEF Typed, WorkTyped, Then

LEMMA BusKept ==
    ASSUME Typed, TablesTyped', Grown, UNCHANGED <<bus, inbox>>
    PROVE  BusTyped'
<1>1. Seq(Sent) \subseteq Seq(Sent')
  BY GrownTypes, SeqMonotonic DEF Typed
<1> QED BY <1>1, GrownTypes DEF Typed, BusTyped, bus

LEMMA SendType ==
    ASSUME Typed, TablesTyped', Grown, NEW m \in Sent', Send(m)
    PROVE  inbox' \in Seq(Sent')
<1>1. Seq(Sent) \subseteq Seq(Sent')
  BY GrownTypes, SeqMonotonic DEF Typed
<1>2. inbox \in Seq(Sent')
  BY <1>1 DEF Typed, BusTyped
<1>3. Append(inbox, m) \in Seq(Sent')
  BY <1>2, AppendProperties
<1> QED BY <1>2, <1>3 DEF Send

LEMMA NodeKept ==
    ASSUME Typed, TablesTyped', Grown, UNCHANGED node
    PROVE  NodeTyped'
BY GrownTypes DEF Typed, NodeTyped, node

\* The backend and the tables of sessions: nothing is created.
LEMMA BackendKept ==
    ASSUME Typed, TablesTyped', Grown, UNCHANGED <<backend, asked, reported, sessions>>
    PROVE  BackendTyped'
<1>1. Seq(Started) \subseteq Seq(Started')
  BY GrownTypes, SeqMonotonic DEF Typed
<1> QED BY <1>1 DEF Typed, BackendTyped, backend

LEMMA TablesKept == ASSUME Typed, UNCHANGED server PROVE TablesTyped' /\ Grown
BY LenProperties DEF Typed, TablesTyped, Grown, server

LEMMA CountsTyped ==
    ASSUME Typed, Answered \/ Unanswered \/ Request \/ Fault \/ UNCHANGED bounds
    PROVE  BoundsTyped'
BY DEF Typed, BoundsTyped, Answered, Unanswered, Request, Fault, bounds

LEMMA SetStatusType ==
    ASSUME Typed, NEW e \in DOMAIN queue, NEW status \in Statuses,
           queue' = [queue EXCEPT ![e].status = status], UNCHANGED sessions
    PROVE  TablesTyped' /\ Grown
<1>1. queue[e] \in Rows
  BY ElementOfSeq, LenProperties DEF Typed, TablesTyped
<1>2. [queue[e] EXCEPT !.status = status] \in Rows
  BY <1>1 DEF Rows
<1>3. /\ queue' \in Seq(Rows) /\ Len(queue') = Len(queue)
      /\ DOMAIN queue' = DOMAIN queue
  BY <1>2, ExceptSeq, LenProperties DEF Typed, TablesTyped
<1> QED BY <1>3, LenProperties DEF Typed, TablesTyped, Grown

LEMMA PutType ==
    ASSUME Typed, NEW e \in DOMAIN queue, NEW status \in Statuses, Put(e, status),
           UNCHANGED sessions
    PROVE  TablesTyped' /\ Grown /\ BoundsTyped'
<1>1. BoundsTyped'
  BY CountsTyped DEF Put
<1>2. CASE UNCHANGED queue
  BY <1>1, <1>2, TablesKept DEF server
<1>3. CASE queue' = [queue EXCEPT ![e].status = status]
  BY <1>1, <1>3, SetStatusType
<1> QED BY <1>2, <1>3 DEF Put

\* The operation a goroutine runs next.
LEMMA HeadType ==
    ASSUME Typed, NEW g \in Goroutines, NEW name, Doing(g, name)
    PROVE  /\ work[g] # <<>>
           /\ name # "prompt" => Head(work[g]).entry \in DOMAIN queue
           /\ name = "prompt" => Head(work[g]).session \in DOMAIN sessions
<1>1. work[g] \in Seq(Ops) /\ work[g] # <<>>
  BY DEF Typed, WorkTyped, Doing
<1>2. Head(work[g]) \in Ops
  BY <1>1, HeadTailProperties
<1> QED BY <1>1, <1>2 DEF Ops, EntryOps, Doing

LEMMA EmptyOps == <<>> \in Seq(Ops)
BY EmptySeq

LEMMA OnEntryType ==
    ASSUME NEW e \in DOMAIN queue, NEW name \in EntryOps
    PROVE  <<OnEntry(name, e)>> \in Seq(Ops)
<1>1. OnEntry(name, e) \in Ops
  BY DEF OnEntry, Ops
<1> QED BY <1>1

\* The message the read loop takes.
LEMMA ArrivedType ==
    ASSUME Typed, NEW type, Arrived(type)
    PROVE  /\ Head(inbox) \in Sent /\ inbox' \in Seq(Sent)
           /\ type # "mention" => Head(inbox).session \in DOMAIN sessions
           /\ type = "mention" => Head(inbox).entry \in DOMAIN queue
<1>1. inbox \in Seq(Sent) /\ inbox # <<>> /\ inbox' = Tail(inbox) /\ Head(inbox).type = type
  BY DEF Typed, BusTyped, Arrived
<1>2. Head(inbox) \in Sent /\ inbox' \in Seq(Sent)
  BY <1>1, HeadTailProperties
<1> QED BY <1>1, <1>2 DEF Sent

LEMMA ArrivedKept ==
    ASSUME Typed, TablesTyped', Grown, NEW type, Arrived(type),
           UNCHANGED onBus, members' \in SUBSET onBus
    PROVE  BusTyped'
<1>1. inbox' \in Seq(Sent) /\ Seq(Sent) \subseteq Seq(Sent')
  BY ArrivedType, GrownTypes, SeqMonotonic DEF Typed
<1> QED BY <1>1, GrownTypes DEF Typed, BusTyped

-----------------------------------------------------------------------------
(* The poller and the server.                                              *)

LEMMA PollerTypes ==
    ASSUME Typed, NEW g \in Pollers, pollQueue(g) \/ claim(g) \/ startProcessing(g)
    PROVE  Typed'
<1>1. CASE pollQueue(g)
  <2>1. TablesTyped' /\ Grown
    BY <1>1, TablesKept DEF pollQueue
  <2>2. WorkTyped'
    <3> DEFINE waiting == {e \in DOMAIN queue : queued(e)}
    <3>1. PICK items \in [1 .. Cardinality(waiting) -> waiting] :
             work' = [work EXCEPT ![g] = [i \in DOMAIN items |-> OnEntry("claim", items[i])]]
      BY <1>1 DEF pollQueue
    <3>2. Cardinality(waiting) \in Nat
      <4>1. IsFiniteSet(DOMAIN queue)
        BY LenProperties, FS_Interval DEF Typed, TablesTyped
      <4> QED BY <4>1, FS_Subset, FS_CardinalityType
    <3>3. [i \in DOMAIN items |-> OnEntry("claim", items[i])] \in Seq(Ops)
      BY <3>2 DEF OnEntry, Ops, EntryOps
    <3>4. Ops \subseteq Ops'
      BY <2>1, GrownTypes DEF Typed
    <3> HIDE DEF waiting
    <3> QED BY <3>1, <3>3, <3>4, SeqMonotonic DEF Typed, WorkTyped, Goroutines
  <2> QED
    BY <1>1, <2>1, <2>2, BusKept, NodeKept, BackendKept, CountsTyped
       DEF pollQueue, Typed, RuntimeTyped, runtime, server
<1>2. CASE claim(g)
  <2> DEFINE e == Head(work[g]).entry
  <2>1. work[g] # <<>> /\ e \in DOMAIN queue /\ g \in Goroutines
    BY <1>2, HeadType DEF claim, Goroutines
  <2>2. TablesTyped' /\ Grown /\ BoundsTyped'
    BY <1>2, <2>1, SetStatusType, TablesKept, CountsTyped DEF claim, Statuses, server
  <2>3. <<OnEntry("start", e)>> \in Seq(Ops) /\ <<>> \in Seq(Ops)
    BY <2>1, OnEntryType, EmptyOps DEF EntryOps
  <2>4. WorkTyped'
    <3>1. Seq(Ops) \subseteq Seq(Ops')
      BY <2>2, GrownTypes, SeqMonotonic DEF Typed
    <3> QED BY <1>2, <2>1, <2>2, <2>3, <3>1, ThenType DEF claim
  <2> QED
    BY <1>2, <2>2, <2>4, BusKept, NodeKept, BackendKept
       DEF claim, Typed, RuntimeTyped, runtime
<1>3. CASE startProcessing(g)
  <2> DEFINE e == Head(work[g]).entry
  <2>1. work[g] # <<>> /\ e \in DOMAIN queue /\ g \in Goroutines
    BY <1>3, HeadType DEF startProcessing, Goroutines
  <2>2. TablesTyped' /\ Grown /\ BoundsTyped'
    BY <1>3, <2>1, SetStatusType, TablesKept, CountsTyped DEF startProcessing, Statuses, server
  <2>3. <<OnEntry("create", e)>> \in Seq(Ops) /\ <<>> \in Seq(Ops)
    BY <2>1, OnEntryType, EmptyOps DEF EntryOps
  <2>4. WorkTyped'
    <3>1. Seq(Ops) \subseteq Seq(Ops')
      BY <2>2, GrownTypes, SeqMonotonic DEF Typed
    <3> QED BY <1>3, <2>1, <2>2, <2>3, <3>1, ThenType DEF startProcessing
  <2> QED
    BY <1>3, <2>2, <2>4, BusKept, NodeKept, BackendKept
       DEF startProcessing, Typed, RuntimeTyped, runtime
<1> QED BY <1>1, <1>2, <1>3

LEMMA SetStepType ==
    ASSUME Typed, NEW g \in Goroutines, NEW m \in Sent, Doing(g, "prompt"), Send(m), Then(g, <<>>),
           UNCHANGED <<server, bus, runtime, node, backend, asked, reported, bounds>>
    PROVE  Typed'
<1>1. TablesTyped' /\ Grown
  BY TablesKept
<1>2. Sent \subseteq Sent' /\ Seq(Ops) \subseteq Seq(Ops')
  BY <1>1, GrownTypes, SeqMonotonic DEF Typed
<1>3. WorkTyped'
  BY <1>1, <1>2, HeadType, ThenType, EmptyOps
<1>4. inbox' \in Seq(Sent')
  BY <1>1, <1>2, SendType
<1>5. BusTyped'
  BY <1>1, <1>4, GrownTypes DEF Typed, BusTyped, bus
<1> QED
  BY <1>1, <1>3, <1>5, NodeKept, BackendKept, CountsTyped
     DEF Typed, RuntimeTyped, runtime, server

LEMMA PromptTypes ==
    ASSUME Typed, NEW g \in Goroutines, sendPrompt(g)
    PROVE  Typed'
<1>1. Head(work[g]).session \in DOMAIN sessions
  BY HeadType DEF sendPrompt
<1>2. ToSession("prompt", Head(work[g]).session) \in Sent
  BY <1>1 DEF ToSession, Sent
<1> QED BY <1>2, SetStepType DEF sendPrompt

\* Appending to a function whose domain is an initial interval.
LEMMA AppendToFunction ==
    ASSUME NEW n \in Nat, NEW S, NEW f \in [1 .. n -> S], NEW x \in S
    PROVE  /\ Append(f, x) \in [1 .. n + 1 -> S]
           /\ \A i \in 1 .. n : Append(f, x)[i] = f[i]
           /\ Append(f, x)[n + 1] = x
<1>1. f \in Seq(S)
  OBVIOUS
<1>2. Len(f) = n
  BY <1>1, LenProperties
<1>3. /\ Append(f, x) \in Seq(S) /\ Len(Append(f, x)) = n + 1
      /\ \A i \in 1 .. n : Append(f, x)[i] = f[i]
      /\ Append(f, x)[n + 1] = x
  BY <1>1, <1>2, AppendProperties
<1> QED BY <1>3, LenProperties

\* A session is created.
LEMMA OpenType ==
    ASSUME Typed, NEW e \in DOMAIN queue, Open(e), UNCHANGED <<queue, procs, asked>>
    PROVE  /\ TablesTyped' /\ Grown /\ BackendTyped'
           /\ inbox' \in Seq(Sent')
           /\ <<Prompt>> \in Seq(Ops')
           /\ onBus \cup {New} \subseteq DOMAIN sessions'
<1>1. /\ sessions' \in Seq(DOMAIN queue) /\ Len(sessions') = Len(sessions) + 1
      /\ Len(sessions) \in Nat /\ DOMAIN sessions = 1 .. Len(sessions)
      /\ DOMAIN sessions' = 1 .. Len(sessions) + 1
  BY AppendProperties, LenProperties DEF Typed, TablesTyped, Open
<1>2. TablesTyped' /\ Grown
  BY <1>1, LenProperties DEF Typed, TablesTyped, Grown
<1>3. inbox' \in Seq(Sent')
  <2>1. ToSession("create", New) \in Sent'
    BY <1>1 DEF ToSession, Sent, New
  <2> QED BY <1>2, <2>1, SendType DEF Open
<1>4. <<Prompt>> \in Seq(Ops')
  <2>1. Prompt \in Ops'
    BY <1>1 DEF Prompt, Ops, New
  <2> QED BY <2>1
<1>5. BackendTyped'
  <2>1. procs' \in Seq(Started')
    BY <1>2, GrownTypes, SeqMonotonic DEF Typed, BackendTyped
  <2>2. held \in [DOMAIN sessions -> 0 .. Len(procs)] /\ reported \in [DOMAIN sessions -> Nat]
        /\ procs \in Seq(Started)
    BY DEF Typed, BackendTyped
  <2>3. 0 \in 0 .. Len(procs) /\ DOMAIN procs = DOMAIN procs' /\ Len(procs) = Len(procs')
    BY <2>2, LenProperties
  <2>4. held \in [1 .. Len(sessions) -> 0 .. Len(procs)] /\ reported \in [1 .. Len(sessions) -> Nat]
    BY <1>1, <2>2
  <2>5. /\ held' \in [1 .. Len(sessions) + 1 -> 0 .. Len(procs)]
        /\ \A s \in 1 .. Len(sessions) : held'[s] = held[s]
        /\ held'[Len(sessions) + 1] = 0
    <3>1. held' = Append(held, 0) /\ Len(sessions) \in Nat
      BY <1>1 DEF Open
    <3> DEFINE range == 0 .. Len(procs)
    <3>2. 0 \in range /\ held \in [1 .. Len(sessions) -> range]
      BY <2>3, <2>4
    <3> HIDE DEF range
    <3>3. /\ held' \in [1 .. Len(sessions) + 1 -> range]
          /\ \A s \in 1 .. Len(sessions) : held'[s] = held[s]
          /\ held'[Len(sessions) + 1] = 0
      BY <3>1, <3>2, AppendToFunction
    <3> QED BY <3>3 DEF range
  <2>6. reported' \in [1 .. Len(sessions) + 1 -> Nat]
    BY <1>1, <2>4, AppendToFunction DEF Open
  <2>7. held' \in [DOMAIN sessions' -> 0 .. Len(procs')] /\ reported' \in [DOMAIN sessions' -> Nat]
    BY <1>1, <2>3, <2>5, <2>6
  <2>8. \A s \in DOMAIN sessions' : held'[s] # 0 => procs'[held'[s]].session = s
    <3>1. \A s \in DOMAIN sessions : held[s] # 0 => procs[held[s]].session = s
      BY DEF Typed, BackendTyped
    <3> QED BY <1>1, <2>5, <3>1
  <2> QED
    BY <2>1, <2>3, <2>7, <2>8 DEF Typed, BackendTyped
<1>6. onBus \cup {New} \subseteq DOMAIN sessions'
  BY <1>1 DEF Typed, BusTyped, New
<1> QED BY <1>2, <1>3, <1>4, <1>5, <1>6

LEMMA CreateTypes ==
    ASSUME Typed, NEW g \in Goroutines, createSession(g)
    PROVE  Typed'
<1> DEFINE e == Head(work[g]).entry
<1>1. work[g] # <<>> /\ e \in DOMAIN queue
  BY HeadType DEF createSession
<1>2. CASE /\ Answered /\ Open(e) /\ Then(g, <<Prompt>>)
           /\ onBus' \subseteq onBus \cup {New} /\ members' \subseteq onBus'
  <2>1. /\ TablesTyped' /\ Grown /\ BackendTyped' /\ inbox' \in Seq(Sent') /\ <<Prompt>> \in Seq(Ops')
        /\ onBus \cup {New} \subseteq DOMAIN sessions'
    BY <1>1, <1>2, OpenType DEF createSession
  <2>2. WorkTyped'
    BY <1>1, <1>2, <2>1, ThenType
  <2>3. BusTyped'
    BY <1>2, <2>1, GrownTypes DEF Typed, BusTyped
  <2> QED
    BY <1>2, <2>1, <2>2, <2>3, NodeKept, CountsTyped DEF createSession, Typed, RuntimeTyped, runtime
<1>3. CASE Unanswered /\ Then(g, <<>>) /\ UNCHANGED <<sessions, bus, inbox, held, reported>>
  <2>1. TablesTyped' /\ Grown
    BY <1>3, TablesKept DEF createSession, server
  <2>2. Seq(Ops) \subseteq Seq(Ops')
    BY <2>1, GrownTypes, SeqMonotonic DEF Typed
  <2>3. WorkTyped'
    BY <1>1, <1>3, <2>1, <2>2, ThenType, EmptyOps
  <2> QED
    BY <1>3, <2>1, <2>3, BusKept, NodeKept, BackendKept, CountsTyped
       DEF createSession, Typed, RuntimeTyped, runtime, backend
<1>4. members \subseteq onBus
  BY DEF Typed, BusTyped
<1> QED BY <1>2, <1>3, <1>4 DEF createSession

LEMMA ServerTypes ==
    ASSUME Typed, autoProcessTask \/ markProcessing
    PROVE  Typed'
<1> DEFINE e == Head(work["server"]).entry
<1>1. work["server"] # <<>> /\ e \in DOMAIN queue /\ "server" \in Goroutines
  BY HeadType DEF autoProcessTask, markProcessing, Goroutines
<1>2. CASE /\ autoProcessTask /\ Open(e) /\ Then("server", <<Prompt, OnEntry("mark", e)>>)
           /\ onBus' = onBus \cup {New}
  <2>1. /\ TablesTyped' /\ Grown /\ BackendTyped' /\ inbox' \in Seq(Sent') /\ <<Prompt>> \in Seq(Ops')
        /\ onBus \cup {New} \subseteq DOMAIN sessions'
    BY <1>1, <1>2, OpenType DEF autoProcessTask
  <2>2. <<Prompt, OnEntry("mark", e)>> \in Seq(Ops')
    <3>1. Prompt \in Ops'
      BY <2>1
    <3>2. OnEntry("mark", e) \in Ops'
      BY <1>1, <2>1, GrownTypes DEF Typed, OnEntry, Ops, EntryOps
    <3> QED BY <3>1, <3>2
  <2>3. WorkTyped'
    BY <1>1, <1>2, <2>1, <2>2, ThenType
  <2>4. BusTyped'
    BY <1>2, <2>1, GrownTypes DEF Typed, BusTyped, autoProcessTask
  <2> QED
    BY <1>2, <2>1, <2>3, <2>4, NodeKept, CountsTyped DEF autoProcessTask, Typed, RuntimeTyped, runtime
<1>3. CASE /\ Then("server", <<>>) /\ TablesTyped' /\ Grown
           /\ UNCHANGED <<sessions, bus, inbox, runtime, node, backend, asked, reported, bounds>>
  <2>1. Seq(Ops) \subseteq Seq(Ops')
    BY <1>3, GrownTypes, SeqMonotonic DEF Typed
  <2>2. WorkTyped'
    BY <1>1, <1>3, <2>1, ThenType, EmptyOps
  <2> QED
    BY <1>3, <2>2, BusKept, NodeKept, BackendKept, CountsTyped
       DEF Typed, RuntimeTyped, runtime
<1>4. CASE markProcessing
  BY <1>1, <1>3, <1>4, SetStatusType DEF markProcessing, Statuses
<1> QED
  BY <1>2, <1>3, <1>4, TablesKept DEF autoProcessTask, server, backend, bus

-----------------------------------------------------------------------------
(* The processes and their readers.                                        *)

\* q is what process r has become: it belongs to the same session.
Kin(r, q) == q \in Started /\ q.session = r.session

LEMMA ProcessFields ==
    ASSUME NEW r \in Started
    PROVE  /\ \A x \in {"waiting", "working", "asking", "gone"} : Kin(r, [r EXCEPT !.phase = x])
           /\ \A x \in {"waiting", "working", "asking", "gone"}, n \in Nat :
                /\ Kin(r, [r EXCEPT !.phase = x, !.input = n])
                /\ \A b \in BOOLEAN : Kin(r, [r EXCEPT !.phase = x, !.input = n, !.cancelled = b])
           /\ \A x \in {"waiting", "working", "asking", "gone"}, b \in BOOLEAN :
                Kin(r, [r EXCEPT !.phase = x, !.completed = b])
           /\ \A n \in Nat : Kin(r, [r EXCEPT !.input = n])
           /\ Kin(r, [r EXCEPT !.at = "none", !.report = "none"])
           /\ \A b \in BOOLEAN : Kin(r, [r EXCEPT !.cancelled = b])
           /\ Kin(r, [r EXCEPT !.drained = TRUE])
BY DEF Started, Kin, Reports, ReportSteps

\* A reader that reports goes on to the next step of it.
LEMMA ReportFields ==
    ASSUME NEW r \in Started, NEW status \in {"completed", "failed"},
           NEW y \in {"record", "call"}
    PROVE  /\ Kin(r, [r EXCEPT !.report = status, !.at = "context"])
           /\ r.at # "none" => r.report \in {"completed", "failed"} /\ Kin(r, [r EXCEPT !.at = y])
BY DEF Started, Kin, Reports, ReportSteps

LEMMA SetProcess ==
    ASSUME Typed, NEW p \in DOMAIN procs, NEW r, Kin(procs[p], r),
           procs' = [procs EXCEPT ![p] = r], UNCHANGED server,
           held' \in [DOMAIN sessions -> 0 .. Len(procs)],
           \A s \in DOMAIN sessions : held'[s] \in {0, held[s]},
           reported' \in [DOMAIN sessions -> Nat], asked' \in SUBSET DOMAIN procs
    PROVE  BackendTyped'
<1>1. procs \in Seq(Started) /\ r \in Started /\ DOMAIN procs = 1 .. Len(procs) /\ r.session = procs[p].session
  BY LenProperties DEF Typed, BackendTyped, Kin
<1>2. procs' \in Seq(Started) /\ Len(procs') = Len(procs)
  BY <1>1, ExceptSeq
<1>3. DOMAIN procs' = DOMAIN procs
  BY <1>1, <1>2, LenProperties
<1>4. \A q \in DOMAIN procs : procs'[q].session = procs[q].session
  BY <1>1
<1>5. \A s \in DOMAIN sessions : held[s] # 0 => procs[held[s]].session = s
  BY DEF Typed, BackendTyped
<1>6. \A s \in DOMAIN sessions : held[s] # 0 => held[s] \in DOMAIN procs
  BY <1>1 DEF Typed, BackendTyped
<1>7. \A s \in DOMAIN sessions : held'[s] # 0 => procs'[held'[s]].session = s
  BY <1>4, <1>5, <1>6
<1>8. Started' = Started /\ UNCHANGED sessions
  BY DEF Started, server
<1> QED
  BY <1>2, <1>3, <1>7, <1>8 DEF BackendTyped

LEMMA BackendVars ==
    ASSUME Typed
    PROVE  /\ held \in [DOMAIN sessions -> 0 .. Len(procs)] /\ reported \in [DOMAIN sessions -> Nat]
           /\ asked \in SUBSET DOMAIN procs /\ Len(procs) \in Nat
           /\ DOMAIN procs = 1 .. Len(procs)
           /\ \A p \in DOMAIN procs : procs[p] \in Started /\ procs[p].session \in DOMAIN sessions
<1>1. procs \in Seq(Started)
  BY DEF Typed, BackendTyped
<1>2. DOMAIN procs = 1 .. Len(procs) /\ Len(procs) \in Nat /\ \A p \in DOMAIN procs : procs[p] \in Started
  BY <1>1, LenProperties
<1> QED BY <1>2 DEF Typed, BackendTyped, Started

LEMMA CompleteTypes ==
    ASSUME Typed, NEW p \in DOMAIN procs, NEW new, Kin(procs[p], new),
           NEW status \in {"completed", "failed"}, UNCHANGED <<server, held, asked, reported>>,
           handleSessionComplete(p, new, status)
    PROVE  BackendTyped'
<1>1. Kin(new, [new EXCEPT !.report = status, !.at = "context"])
  BY ReportFields DEF Kin
<1>2. Kin(procs[p], [new EXCEPT !.report = status, !.at = "context"])
  BY <1>1 DEF Kin
<1> QED
  BY <1>2, SetProcess, BackendVars DEF handleSessionComplete

LEMMA ReaderTypes ==
    ASSUME Typed, NEW p \in DOMAIN procs, Reader(p)
    PROVE  Typed'
<1>1. procs[p] \in Started /\ procs[p].session \in DOMAIN sessions
  BY BackendVars
<1>2. sessions[procs[p].session] \in DOMAIN queue /\ TaskOf(procs[p].session) \in Tasks
  <2>1. sessions[procs[p].session] \in DOMAIN queue
    BY <1>1, ElementOfSeq, LenProperties DEF Typed, TablesTyped
  <2>2. queue[sessions[procs[p].session]] \in Rows
    BY <2>1, ElementOfSeq, LenProperties DEF Typed, TablesTyped
  <2> QED BY <2>1, <2>2 DEF Rows, TaskOf
<1>3. CASE report(p)
  <2>1. TablesTyped' /\ Grown /\ BoundsTyped'
    <3>1. procs[p].report \in Statuses
      BY <1>1, <1>3, ReportFields DEF report, Statuses
    <3> QED BY <1>2, <1>3, <3>1, PutType DEF report
  <2>2. Kin(procs[p], [procs[p] EXCEPT !.at = "none", !.report = "none"])
    BY <1>1, ProcessFields
  <2>3. /\ Started \subseteq Started' /\ DOMAIN sessions' = DOMAIN sessions
        /\ procs \in Seq(Started) /\ DOMAIN procs = 1 .. Len(procs)
    BY <1>3, <2>1, GrownTypes, LenProperties DEF report, Typed, BackendTyped
  <2>4. BackendTyped'
    <3>1. procs' \in Seq(Started) /\ Len(procs') = Len(procs)
      <4>1. procs' = [procs EXCEPT ![p] = [procs[p] EXCEPT !.at = "none", !.report = "none"]]
        BY <1>3 DEF report
      <4> QED BY <2>2, <2>3, <4>1, ExceptSeq DEF Kin
    <3>2. procs' \in Seq(Started') /\ DOMAIN procs' = DOMAIN procs
      BY <2>3, <3>1, SeqMonotonic, LenProperties
    <3>3. \A q \in DOMAIN procs : procs'[q].session = procs[q].session
      BY <1>1, <1>3, <2>3 DEF report, Started
    <3>4. \A s \in DOMAIN sessions : held[s] # 0 => held[s] \in DOMAIN procs /\ procs[held[s]].session = s
      BY BackendVars DEF Typed, BackendTyped
    <3> QED BY <1>3, <2>3, <3>1, <3>2, <3>3, <3>4, BackendVars DEF report, BackendTyped
  <2> QED
    BY <1>3, <2>1, <2>4, WorkKept, BusKept, NodeKept DEF report, Typed, RuntimeTyped, runtime
<1>4. CASE readEnd(p)
  <2> DEFINE end == [procs[p] EXCEPT !.drained = TRUE]
  <2>1. TablesTyped' /\ Grown
    BY <1>4, TablesKept DEF readEnd
  <2>2. Kin(procs[p], end)
    BY <1>1, ProcessFields
  <2>3. CASE procs' = [procs EXCEPT ![p] = end]
    <3>1. BackendTyped'
      BY <1>4, <2>2, <2>3, SetProcess, BackendVars DEF readEnd
    <3> QED
      BY <1>4, <2>1, <2>3, <3>1, NodeKept, WorkKept, BusKept, CountsTyped
         DEF readEnd, Typed, RuntimeTyped, runtime
  <2>4. CASE handleSessionComplete(p, end, "failed")
    <3>1. BackendTyped'
      BY <1>4, <2>2, <2>4, CompleteTypes DEF readEnd
    <3> QED
      BY <1>4, <2>1, <3>1, NodeKept, WorkKept, BusKept, CountsTyped
         DEF readEnd, Typed, RuntimeTyped, runtime
  <2> QED BY <1>4, <2>3, <2>4 DEF readEnd
<1>5. CASE takeContext(p)
  <2> DEFINE s == procs[p].session
  <2>1. TablesTyped' /\ Grown
    BY <1>5, TablesKept DEF takeContext
  <2>2. NodeTyped'
    BY <1>5 DEF takeContext, Typed, NodeTyped, server
  <2>3. reported' \in [DOMAIN sessions -> Nat]
    BY <1>1, <1>5, BackendVars DEF takeContext
  <2>4. PICK new : Kin(procs[p], new) /\ procs' = [procs EXCEPT ![p] = new]
    <3>1. CASE s \in meta
      <4> DEFINE new == [procs[p] EXCEPT !.at = "record"]
      <4>1. procs' = [procs EXCEPT ![p] = new]
        BY <1>5, <3>1 DEF takeContext
      <4>2. Kin(procs[p], new)
        BY <1>1, <1>5, ReportFields DEF takeContext
      <4> HIDE DEF new
      <4> QED BY <4>1, <4>2
    <3>2. CASE s \notin meta
      <4> DEFINE new == [procs[p] EXCEPT !.at = "none", !.report = "none"]
      <4>1. procs' = [procs EXCEPT ![p] = new]
        BY <1>5, <3>2 DEF takeContext
      <4>2. Kin(procs[p], new)
        BY <1>1, ProcessFields
      <4> HIDE DEF new
      <4> QED BY <4>1, <4>2
    <3> QED BY <3>1, <3>2
  <2>5. BackendTyped'
    BY <1>5, <2>3, <2>4, SetProcess, BackendVars DEF takeContext
  <2> QED
    BY <1>5, <2>1, <2>2, <2>5, WorkKept, BusKept, CountsTyped
       DEF takeContext, Typed, RuntimeTyped, runtime
<1>6. CASE recordEnd(p)
  <2>1. TablesTyped' /\ Grown
    BY <1>6, TablesKept DEF recordEnd
  <2>2. NodeTyped'
    BY <1>2, <1>6 DEF recordEnd, Typed, NodeTyped, server
  <2>3. Kin(procs[p], [procs[p] EXCEPT !.at = "call"])
    BY <1>1, <1>6, ReportFields DEF recordEnd
  <2>4. procs' = [procs EXCEPT ![p] = [procs[p] EXCEPT !.at = "call"]]
    BY <1>6 DEF recordEnd
  <2>5. BackendTyped'
    BY <1>6, <2>3, <2>4, SetProcess, BackendVars DEF recordEnd
  <2> QED
    BY <1>6, <2>1, <2>2, <2>5, WorkKept, BusKept, CountsTyped
       DEF recordEnd, Typed, RuntimeTyped, runtime
<1> QED BY <1>3, <1>4, <1>5, <1>6 DEF Reader

\* The tables, the bus and the goroutines are left alone by a process.
LEMMA ProcessTypes ==
    ASSUME Typed, NEW p \in DOMAIN procs, Process(p)
    PROVE  Typed'
<1>1. /\ procs[p] \in Started /\ procs[p].session \in DOMAIN sessions
      /\ procs[p].input \in Nat
  BY BackendVars DEF Started
<1>2. TablesTyped' /\ Grown /\ Sent \subseteq Sent'
  BY TablesKept, GrownTypes
     DEF Typed, Process, takeInput, handleAssistantEvent, handleControlRequest, handleControlRequestGeneric,
         Ask, handleResultEvent, exit
<1>3. CASE takeInput(p)
  <2>1. procs[p].input - 1 \in Nat
    BY <1>1, <1>3 DEF takeInput
  <2>2. Kin(procs[p], [procs[p] EXCEPT !.phase = "working", !.input = procs[p].input - 1])
    BY <1>1, <2>1, ProcessFields
  <2>3. procs' = [procs EXCEPT ![p] = [procs[p] EXCEPT !.phase = "working", !.input = procs[p].input - 1]]
    BY <1>3 DEF takeInput
  <2>4. BackendTyped'
    BY <1>3, <2>2, <2>3, SetProcess, BackendVars DEF takeInput
  <2> QED
    BY <1>2, <1>3, <2>4, NodeKept, WorkKept, BusKept, CountsTyped
       DEF takeInput, Typed, RuntimeTyped, runtime
<1>4. ASSUME NEW phase \in {"asking", "working"}, Ask(p, phase) PROVE Typed'
  <2>1. Kin(procs[p], [procs[p] EXCEPT !.phase = phase])
    BY <1>1, ProcessFields
  <2>2. procs' = [procs EXCEPT ![p] = [procs[p] EXCEPT !.phase = phase]]
    BY <1>4 DEF Ask
  <2>3. asked' \in SUBSET DOMAIN procs
    BY <1>4, BackendVars DEF Ask
  <2>4. BackendTyped'
    BY <1>4, <2>1, <2>2, <2>3, SetProcess, BackendVars DEF Ask
  <2> QED
    BY <1>2, <1>4, <2>4, NodeKept, WorkKept, BusKept, CountsTyped
       DEF Ask, Typed, RuntimeTyped, runtime
<1>5. CASE handleAssistantEvent(p)
  <2>1. ToSession("tool", procs[p].session) \in Sent'
    BY <1>1, <1>2 DEF ToSession, Sent
  <2>2. BusTyped'
    BY <1>2, <1>5, <2>1, SendType, GrownTypes DEF handleAssistantEvent, Typed, BusTyped, bus
  <2> QED
    BY <1>2, <1>5, <2>2, NodeKept, WorkKept, BackendKept, CountsTyped
       DEF handleAssistantEvent, Typed, RuntimeTyped, runtime, server
<1>6. CASE handleResultEvent(p)
  <2>1. PICK status \in {"completed", "failed"} :
           handleSessionComplete(p, [procs[p] EXCEPT !.phase = "waiting", !.completed = TRUE], status)
    BY <1>6 DEF handleResultEvent
  <2>2. Kin(procs[p], [procs[p] EXCEPT !.phase = "waiting", !.completed = TRUE])
    BY <1>1, ProcessFields
  <2>3. BackendTyped'
    BY <1>6, <2>1, <2>2, CompleteTypes DEF handleResultEvent
  <2> QED
    BY <1>2, <1>6, <2>3, NodeKept, WorkKept, BusKept, CountsTyped
       DEF handleResultEvent, Typed, RuntimeTyped, runtime
<1>7. CASE exit(p)
  <2> DEFINE new == [procs[p] EXCEPT !.phase = "gone", !.input = 0, !.cancelled = FALSE]
  <2>1. Kin(procs[p], new)
    BY <1>1, ProcessFields
  <2>2. procs' = [procs EXCEPT ![p] = new]
    BY <1>7 DEF exit
  <2> HIDE DEF new
  <2>3. BackendTyped'
    BY <1>7, <2>1, <2>2, SetProcess, BackendVars DEF exit
  <2> QED
    BY <1>2, <1>7, <2>3, NodeKept, WorkKept, BusKept, CountsTyped
       DEF exit, Typed, RuntimeTyped, runtime
<1> QED
  BY <1>3, <1>4, <1>5, <1>6, <1>7 DEF Process, handleControlRequest, handleControlRequestGeneric

-----------------------------------------------------------------------------
(* The read loop.                                                          *)

\* An operation of the loop that touches an entry at most.
LEMMA EntryTypes ==
    ASSUME Typed, holdEntry \/ evaluate \/ checkRecent \/ settleMention
    PROVE  Typed'
<1> DEFINE e == Head(work["loop"]).entry
<1>1. work["loop"] # <<>> /\ e \in DOMAIN queue /\ "loop" \in Goroutines
  BY HeadType DEF holdEntry, evaluate, checkRecent, settleMention, Goroutines
<1>2. TablesTyped' /\ Grown /\ BoundsTyped'
  <2>1. CASE holdEntry
    BY <1>1, <2>1, PutType DEF holdEntry, Statuses
  <2>2. CASE settleMention
    BY <1>1, <2>2, PutType DEF settleMention, Statuses
  <2>3. CASE evaluate
    BY <2>3, TablesKept, CountsTyped DEF evaluate
  <2>4. CASE checkRecent
    BY <2>4, TablesKept, CountsTyped DEF checkRecent
  <2> QED BY <2>1, <2>2, <2>3, <2>4
<1>3. PICK more \in Seq(Ops) : Then("loop", more)
  <2>1. <<OnEntry(nextForWork(e), e)>> \in Seq(Ops)
    <3>1. nextForWork(e) \in EntryOps
      BY DEF nextForWork, EntryOps
    <3> QED BY <1>1, <3>1, OnEntryType
  <2>2. <<OnEntry("settle", e)>> \in Seq(Ops) /\ <<OnEntry("create", e)>> \in Seq(Ops)
    BY <1>1, OnEntryType DEF EntryOps
  <2>3. CASE holdEntry \/ settleMention
    BY <2>3, EmptyOps DEF holdEntry, settleMention
  <2>4. CASE evaluate
    BY <2>1, <2>2, <2>4, EmptyOps DEF evaluate, Answers
  <2>5. CASE checkRecent
    BY <2>2, <2>5, EmptyOps DEF checkRecent
  <2> QED BY <2>3, <2>4, <2>5
<1>4. WorkTyped'
  <2>1. more \in Seq(Ops')
    BY <1>2, GrownTypes, SeqMonotonic DEF Typed
  <2> QED BY <1>1, <1>2, <1>3, <2>1, ThenType
<1>5. NodeTyped'
  <2>1. CASE UNCHANGED node
    BY <1>2, <2>1, NodeKept
  <2>2. CASE checkRecent
    BY <2>2 DEF checkRecent, Typed, NodeTyped, server
  <2> QED BY <2>1, <2>2 DEF holdEntry, evaluate, settleMention
<1> QED
  BY <1>2, <1>4, <1>5, BusKept, BackendKept
     DEF holdEntry, evaluate, checkRecent, settleMention, server, Typed, RuntimeTyped, runtime

\* A new process for session s.
LEMMA StartType ==
    ASSUME Typed, NEW s \in DOMAIN sessions, UNCHANGED <<server, asked, reported>>,
           procs' = Append(procs, NewProcess(s)), held' = [held EXCEPT ![s] = Len(procs) + 1]
    PROVE  BackendTyped'
<1>1. /\ procs \in Seq(Started) /\ NewProcess(s) \in Started /\ NewProcess(s).session = s
      /\ Len(procs) \in Nat /\ DOMAIN procs = 1 .. Len(procs)
  BY LenProperties DEF Typed, BackendTyped, NewProcess, Started, Reports, ReportSteps
<1>2. /\ procs' \in Seq(Started) /\ Len(procs') = Len(procs) + 1
      /\ \A p \in DOMAIN procs : procs'[p] = procs[p]
      /\ procs'[Len(procs) + 1].session = s
  BY <1>1, AppendProperties
<1>3. DOMAIN procs' = 1 .. Len(procs) + 1
  BY <1>1, <1>2, LenProperties
<1>4. held \in [DOMAIN sessions -> 0 .. Len(procs)]
  BY BackendVars
<1>5. held' \in [DOMAIN sessions -> 0 .. Len(procs')]
  BY <1>1, <1>2, <1>4
<1>6. \A r \in DOMAIN sessions : held[r] # 0 => held[r] \in DOMAIN procs /\ procs[held[r]].session = r
  BY <1>1, <1>4 DEF Typed, BackendTyped
<1>7. \A r \in DOMAIN sessions : held'[r] # 0 => procs'[held'[r]].session = r
  BY <1>2, <1>4, <1>6
<1>8. UNCHANGED sessions /\ Started' = Started
  BY DEF server, Started
<1> QED
  BY <1>1, <1>2, <1>3, <1>5, <1>7, <1>8, BackendVars DEF BackendTyped

LEMMA CloseType ==
    ASSUME Typed, NEW s \in DOMAIN sessions, held[s] # 0, CloseSession(s),
           UNCHANGED <<server, asked, reported>>
    PROVE  BackendTyped'
<1>1. held \in [DOMAIN sessions -> 0 .. Len(procs)] /\ held[s] \in DOMAIN procs
  BY BackendVars
<1>2. Kin(procs[held[s]], [procs[held[s]] EXCEPT !.cancelled = Running(held[s])])
  BY <1>1, BackendVars, ProcessFields DEF Running
<1>3. procs' = [procs EXCEPT ![held[s]] = [procs[held[s]] EXCEPT !.cancelled = Running(held[s])]]
  BY DEF CloseSession, Kill
<1>4. held' \in [DOMAIN sessions -> 0 .. Len(procs)] /\ \A r \in DOMAIN sessions : held'[r] \in {0, held[r]}
  BY <1>1, BackendVars DEF CloseSession
<1> QED
  BY <1>1, <1>2, <1>3, <1>4, SetProcess, BackendVars

LEMMA MessageTypes ==
    ASSUME Typed, HandleMessage
    PROVE  Typed'
<1> DEFINE s == Head(inbox).session
<1>1. PICK kind \in {"prompt", "message"} : Arrived(kind)
  BY DEF HandleMessage
<1>2. s \in DOMAIN sessions
  BY <1>1, ArrivedType
<1>3. TablesTyped' /\ Grown
  BY TablesKept DEF HandleMessage
<1>4. BusTyped'
  BY <1>1, <1>3, ArrivedKept DEF HandleMessage, Typed, BusTyped, bus
<1>5. CASE procs' = Append(procs, NewProcess(s)) /\ held' = [held EXCEPT ![s] = Len(procs) + 1] /\ UNCHANGED bounds
  <2>1. BackendTyped'
    BY <1>2, <1>5, StartType DEF HandleMessage
  <2> QED
    BY <1>3, <1>4, <1>5, <2>1, WorkKept, NodeKept, CountsTyped
       DEF HandleMessage, Typed, RuntimeTyped, runtime
<1>6. CASE (UNCHANGED bounds \/ Fault) /\ UNCHANGED <<held, procs>>
  BY <1>3, <1>4, <1>6, WorkKept, NodeKept, BackendKept, CountsTyped
     DEF HandleMessage, Typed, RuntimeTyped, runtime, server, backend
<1>7. CASE held[s] # 0 /\ Write(held[s]) /\ UNCHANGED <<held, bounds>>
  <2>1. held[s] \in DOMAIN procs /\ procs[held[s]] \in Started
    BY <1>2, <1>7, BackendVars
  <2>2. CASE UNCHANGED procs
    BY <1>6, <1>7, <2>2
  <2>3. CASE procs' = [procs EXCEPT ![held[s]].input = @ + 1]
    <3>1. Kin(procs[held[s]], [procs[held[s]] EXCEPT !.input = procs[held[s]].input + 1])
      <4>1. procs[held[s]].input + 1 \in Nat
        BY <2>1 DEF Started
      <4> QED BY <2>1, <4>1, ProcessFields
    <3>2. procs' = [procs EXCEPT ![held[s]] = [procs[held[s]] EXCEPT !.input = procs[held[s]].input + 1]]
      BY <2>3
    <3>3. BackendTyped'
      BY <1>7, <2>1, <3>1, <3>2, SetProcess, BackendVars DEF HandleMessage
    <3> QED
      BY <1>3, <1>4, <1>7, <3>3, WorkKept, NodeKept, CountsTyped
         DEF HandleMessage, Typed, RuntimeTyped, runtime
  <2> QED BY <1>7, <2>2, <2>3 DEF Write
<1> QED
  BY <1>5, <1>6, <1>7 DEF HandleMessage, startSession, Fault

LEMMA ArrivalTypes ==
    ASSUME Typed, handleCreate \/ handleInvite \/ handleAutoTaskToolCall \/ handleAgentMention
    PROVE  Typed'
<1>1. PICK kind \in {"create", "invite", "tool", "mention"} :
         /\ Arrived(kind)
         /\ kind = "create" <=> handleCreate
         /\ kind = "mention" <=> handleAgentMention
  BY DEF handleCreate, handleInvite, handleAutoTaskToolCall, handleAgentMention, Arrived
<1>2. TablesTyped' /\ Grown
  BY TablesKept DEF handleCreate, handleInvite, handleAutoTaskToolCall, handleAgentMention
<1>3. UNCHANGED onBus /\ members' \in SUBSET onBus
  BY DEF handleCreate, handleInvite, handleAutoTaskToolCall, handleAgentMention, Join, Typed, BusTyped, bus
<1>4. BusTyped'
  BY <1>1, <1>2, <1>3, ArrivedKept
<1>5. CASE handleCreate
  <2>1. NodeTyped'
    BY <1>1, <1>5, ArrivedType DEF handleCreate, Typed, NodeTyped, server
  <2> QED
    BY <1>2, <1>4, <1>5, <2>1, WorkKept, BackendKept, CountsTyped
       DEF handleCreate, Typed, RuntimeTyped, runtime, server
<1>6. CASE handleAutoTaskToolCall
  BY <1>2, <1>4, <1>6, NodeKept, WorkKept, BackendKept, CountsTyped
     DEF handleAutoTaskToolCall, Typed, RuntimeTyped, runtime, server
<1>7. CASE handleAgentMention
  <2> DEFINE e == Head(inbox).entry
  <2>1. e \in DOMAIN queue
    BY <1>1, <1>7, ArrivedType
  <2>2. <<OnEntry("processing", e), OnEntry("evaluate", e)>> \in Seq(Ops)
    <3>1. OnEntry("processing", e) \in Ops /\ OnEntry("evaluate", e) \in Ops
      BY <2>1 DEF OnEntry, Ops, EntryOps
    <3> QED BY <3>1
  <2>3. Seq(Ops) \subseteq Seq(Ops')
    BY <1>2, GrownTypes, SeqMonotonic DEF Typed
  <2>4. WorkTyped'
    BY <1>7, <2>2, <2>3 DEF handleAgentMention, Typed, WorkTyped, Goroutines
  <2> QED
    BY <1>2, <1>4, <1>7, <2>4, NodeKept, BackendKept, CountsTyped
       DEF handleAgentMention, Typed, RuntimeTyped, runtime, server
<1>8. CASE handleInvite
  BY <1>2, <1>4, <1>8, NodeKept, WorkKept, BackendKept, CountsTyped
     DEF handleInvite, Typed, RuntimeTyped, runtime, server
<1> QED BY <1>5, <1>6, <1>7, <1>8

LEMMA AnswerTypes ==
    ASSUME Typed, HandlePermissionResponse
    PROVE  Typed'
<1> DEFINE m == Head(inbox)
           p == held[m.session]
<1>1. m.session \in DOMAIN sessions
  BY ArrivedType DEF HandlePermissionResponse
<1>2. TablesTyped' /\ Grown
  BY TablesKept DEF HandlePermissionResponse
<1>3. BusTyped'
  BY <1>2, ArrivedKept DEF HandlePermissionResponse, Typed, BusTyped, bus
<1>4. p # 0 => p \in DOMAIN procs /\ procs[p] \in Started
  BY <1>1, BackendVars
<1>5. BackendTyped'
  <2>1. CASE UNCHANGED <<procs, held>>
    BY <1>2, <2>1, BackendKept DEF HandlePermissionResponse, server, backend
  <2>2. CASE p # 0 /\ UNCHANGED held /\ procs' = [procs EXCEPT ![p].phase = "working"]
    <3>1. Kin(procs[p], [procs[p] EXCEPT !.phase = "working"])
      BY <1>4, <2>2, ProcessFields
    <3>2. procs' = [procs EXCEPT ![p] = [procs[p] EXCEPT !.phase = "working"]]
      BY <2>2
    <3> QED BY <1>4, <2>2, <3>1, <3>2, SetProcess, BackendVars DEF HandlePermissionResponse
  <2>3. CASE p # 0 /\ CloseSession(m.session)
    BY <1>1, <2>3, CloseType DEF HandlePermissionResponse
  <2> QED BY <2>1, <2>2, <2>3 DEF HandlePermissionResponse
<1> QED
  BY <1>2, <1>3, <1>5, WorkKept, NodeKept, CountsTyped
     DEF HandlePermissionResponse, Typed, RuntimeTyped, runtime

-----------------------------------------------------------------------------
(* Users, the cleaner and the connection.                                  *)

LEMMA NewRow == \A t \in Tasks : [task |-> t, status |-> "queued"] \in Rows
BY DEF Rows, Statuses

\* A row more in the queue.
LEMMA NewRowType ==
    ASSUME Typed, NEW t \in Tasks, queue' = Append(queue, [task |-> t, status |-> "queued"]),
           UNCHANGED sessions
    PROVE  TablesTyped' /\ Grown /\ Len(queue) + 1 \in DOMAIN queue'
<1>1. [task |-> t, status |-> "queued"] \in Rows
  BY DEF Rows, Statuses
<1>2. queue' \in Seq(Rows) /\ Len(queue') = Len(queue) + 1 /\ Len(queue) \in Nat
  BY <1>1, AppendProperties, LenProperties DEF Typed, TablesTyped
<1>3. DOMAIN queue \subseteq DOMAIN queue' /\ Len(queue) + 1 \in DOMAIN queue'
  BY <1>2, LenProperties DEF Typed, TablesTyped
<1>4. sessions' \in Seq(DOMAIN queue')
  BY <1>3, SeqMonotonic DEF Typed, TablesTyped
<1> QED
  BY <1>2, <1>3, <1>4, LenProperties DEF Typed, TablesTyped, Grown

LEMMA MentionTypes ==
    ASSUME Typed, NEW t \in Tasks, mention(t) \/ assign(t)
    PROVE  Typed'
<1>1. CASE mention(t)
  <2>1. TablesTyped' /\ Grown /\ \E e \in DOMAIN queue' : Send([type |-> "mention", entry |-> e])
    <3>1. CASE UNCHANGED queue
      <4>1. \E e \in DOMAIN queue : Send([type |-> "mention", entry |-> e])
        <5>1. Append(queue, [task |-> t, status |-> "queued"]) # queue
          BY AppendProperties, NewRow DEF Typed, TablesTyped
        <5> QED BY <1>1, <3>1, <5>1 DEF mention
      <4> QED BY <1>1, <3>1, <4>1, TablesKept DEF mention, server
    <3>2. CASE /\ queue' = Append(queue, [task |-> t, status |-> "queued"])
               /\ Send([type |-> "mention", entry |-> Len(queue) + 1])
      BY <1>1, <3>2, NewRowType DEF mention
    <3> QED
      BY <1>1, <3>1, <3>2 DEF mention
  <2>2. PICK e \in DOMAIN queue' : Send([type |-> "mention", entry |-> e])
    BY <2>1
  <2>3. [type |-> "mention", entry |-> e] \in Sent'
    BY DEF Sent
  <2>4. BusTyped'
    BY <1>1, <2>1, <2>2, <2>3, SendType, GrownTypes DEF mention, Typed, BusTyped, bus
  <2> QED
    BY <1>1, <2>1, <2>4, NodeKept, WorkKept, BackendKept, CountsTyped
       DEF mention, Typed, RuntimeTyped, runtime
<1>2. CASE assign(t)
  <2>1. TablesTyped' /\ Grown /\ Len(queue) + 1 \in DOMAIN queue'
    BY <1>2, NewRowType DEF assign
  <2>2. <<OnEntry("auto", Len(queue) + 1)>> \in Seq(Ops')
    <3>1. OnEntry("auto", Len(queue) + 1) \in Ops'
      BY <2>1 DEF OnEntry, Ops, EntryOps
    <3> QED BY <3>1
  <2>3. Seq(Ops) \subseteq Seq(Ops')
    BY <2>1, GrownTypes, SeqMonotonic DEF Typed
  <2>4. WorkTyped'
    BY <1>2, <2>2, <2>3 DEF assign, Typed, WorkTyped, Goroutines
  <2> QED
    BY <1>2, <2>1, <2>4, NodeKept, BusKept, BackendKept, CountsTyped
       DEF assign, Typed, RuntimeTyped, runtime
<1> QED BY <1>1, <1>2

LEMMA UserTypes ==
    ASSUME Typed, NEW s \in DOMAIN sessions, Session(s)
    PROVE  Typed'
<1>1. TablesTyped' /\ Grown
  BY TablesKept DEF Session, openSession, cleanStaleSessions, userMessage, CleanIdleSessions, sendPermissionResponse
<1>2. Sent \subseteq Sent' /\ DOMAIN sessions \subseteq DOMAIN sessions'
  BY <1>1, GrownTypes DEF Typed
<1>3. CASE userMessage(s)
  <2>1. ToSession("message", s) \in Sent'
    BY <1>2 DEF ToSession, Sent
  <2>2. BusTyped'
    BY <1>1, <1>2, <1>3, <2>1, SendType DEF userMessage, Typed, BusTyped, bus
  <2> QED
    BY <1>1, <1>3, <2>2, NodeKept, WorkKept, BackendKept, CountsTyped
       DEF userMessage, Typed, RuntimeTyped, runtime, server
<1>4. CASE CleanIdleSessions(s)
  <2>1. BackendTyped'
    BY <1>4, CloseType DEF CleanIdleSessions
  <2> QED
    BY <1>1, <1>4, <2>1, NodeKept, WorkKept, BusKept, CountsTyped
       DEF CleanIdleSessions, Typed, RuntimeTyped, runtime
<1>5. ASSUME NEW p \in DOMAIN procs, sendPermissionResponse(s, p) PROVE Typed'
  <2>1. PICK approved \in BOOLEAN :
           Send([type |-> "answer", session |-> s, of |-> p, approved |-> approved])
    BY <1>5 DEF sendPermissionResponse
  <2>2. p \in Nat
    BY BackendVars
  <2>3. [type |-> "answer", session |-> s, of |-> p, approved |-> approved] \in Sent'
    BY <1>2, <2>2 DEF Sent
  <2>4. BusTyped'
    BY <1>1, <1>2, <1>5, <2>1, <2>3, SendType DEF sendPermissionResponse, Typed, BusTyped, bus
  <2>5. BackendTyped'
    <3>1. procs' \in Seq(Started')
      BY <1>1, <1>5, GrownTypes, SeqMonotonic DEF sendPermissionResponse, Typed, BackendTyped, backend
    <3> QED
      BY <1>5, <3>1 DEF sendPermissionResponse, Typed, BackendTyped, backend, server
  <2> QED
    BY <1>1, <1>5, <2>4, <2>5, NodeKept, WorkKept, CountsTyped
       DEF sendPermissionResponse, Typed, RuntimeTyped, runtime
<1>6. CASE openSession(s)
  <2>1. ToSession("invite", s) \in Sent'
    BY <1>2 DEF ToSession, Sent
  <2>2. BusTyped'
    BY <1>1, <1>2, <1>6, <2>1, SendType DEF openSession, Typed, BusTyped, bus
  <2> QED
    BY <1>1, <1>6, <2>2, NodeKept, WorkKept, BackendKept, CountsTyped
       DEF openSession, Typed, RuntimeTyped, runtime, server
<1>7. CASE cleanStaleSessions(s)
  <2>1. inbox' \in Seq(Sent')
    BY <1>1, <1>7, GrownTypes, SeqMonotonic DEF cleanStaleSessions, Typed, BusTyped
  <2>2. BusTyped'
    BY <1>2, <1>7, <2>1 DEF cleanStaleSessions, Typed, BusTyped
  <2> QED
    BY <1>1, <1>7, <2>2, NodeKept, WorkKept, BackendKept, CountsTyped
       DEF cleanStaleSessions, Typed, RuntimeTyped, runtime, server
<1> QED BY <1>3, <1>4, <1>5, <1>6, <1>7 DEF Session

\* What a stop of the runtime leaves of a process.
Ended(r) == [r EXCEPT !.orphan = TRUE, !.input = 0, !.report = "none", !.at = "none", !.drained = TRUE]

LEMMA PollerStarted == ASSUME Typed, startQueuePoller PROVE pollers' \in SUBSET Pollers
<1>1. pollers \in SUBSET Pollers
  BY DEF Typed, RuntimeTyped
<1>2. CASE pollers # Pollers
  <2>1. \E g \in Pollers : g \notin pollers
    BY <1>1, <1>2
  <2> QED BY <1>1, <1>2, <2>1 DEF startQueuePoller
<1> QED BY <1>1, <1>2 DEF startQueuePoller

LEMMA ConnectionTypes ==
    ASSUME Typed, Disconnect \/ Reconnect \/ Stop \/ runStart
    PROVE  Typed'
<1>1. TablesTyped' /\ Grown
  BY TablesKept DEF Disconnect, Reconnect, Stop, runStart
<1>2. RuntimeTyped' /\ BoundsTyped'
  BY CountsTyped, PollerStarted DEF Disconnect, Reconnect, Stop, runStart, Typed, RuntimeTyped, runtime
<1>3. UNCHANGED <<onBus, server>> /\ inbox' = <<>> /\ members' = {} => BusTyped'
  BY EmptySeq DEF Typed, BusTyped, server
<1>4. CASE Disconnect
  BY <1>1, <1>2, <1>3, <1>4, NodeKept, WorkKept, BackendKept DEF Disconnect, Typed, server
<1>5. CASE Reconnect \/ runStart
  BY <1>1, <1>2, <1>5, BusKept, NodeKept, WorkKept, BackendKept DEF Reconnect, runStart, Typed, server
<1>6. CASE Stop
  <2>1. /\ work' = [g \in Goroutines |-> IF g = "server" THEN work[g] ELSE <<>>]
        /\ Seq(Ops) \subseteq Seq(Ops') /\ work \in [Goroutines -> Seq(Ops)]
    BY <1>1, <1>6, GrownTypes, SeqMonotonic DEF Stop, Typed, WorkTyped
  <2>2. WorkTyped'
    BY <2>1, EmptyOps DEF WorkTyped
  <2>3. NodeTyped'
    BY <1>6 DEF Stop, NodeTyped
  <2>4. BackendTyped'
    <3>1. procs' = [p \in DOMAIN procs |-> Ended(procs[p])] /\ held' = [s \in DOMAIN held |-> 0]
      BY <1>6 DEF Stop, Ended
    <3>2. \A p \in DOMAIN procs : Ended(procs[p]) \in Started
      <4> SUFFICES ASSUME NEW p \in DOMAIN procs PROVE Ended(procs[p]) \in Started
        OBVIOUS
      <4>1. procs[p] \in Started
        BY BackendVars
      <4> QED BY <4>1 DEF Ended, Started, Reports, ReportSteps
    <3>3. procs' \in Seq(Started)
      BY <3>1, <3>2, BackendVars
    <3>4. Started' = Started /\ UNCHANGED <<asked, reported, sessions>>
      BY <1>6 DEF Stop, Started, server
    <3>5. held' \in [DOMAIN sessions -> 0 .. Len(procs')] /\ \A s \in DOMAIN sessions : held'[s] = 0
      BY <3>1, <3>3, BackendVars, LenProperties
    <3>6. DOMAIN procs' = DOMAIN procs
      BY <3>1
    <3> QED
      BY <3>3, <3>4, <3>5, <3>6, BackendVars DEF BackendTyped
  <2> QED BY <1>1, <1>2, <1>3, <1>6, <2>2, <2>3, <2>4 DEF Stop, Typed
<1> QED BY <1>4, <1>5, <1>6

LEMMA InitTyped == Init => Typed
<1> SUFFICES ASSUME Init PROVE Typed
  OBVIOUS
<1>1. EntryTask \in Seq(Tasks)
  BY AgentAssumption
<1>2. queue \in Seq(Rows)
  <2>1. /\ Len(EntryTask) \in Nat /\ DOMAIN EntryTask = 1 .. Len(EntryTask)
        /\ \A e \in DOMAIN EntryTask : EntryTask[e] \in Tasks
    BY <1>1, LenProperties, ElementOfSeq
  <2> QED BY <2>1 DEF Init, Rows, Statuses
<1>3. sessions \in Seq(DOMAIN queue) /\ DOMAIN sessions = {} /\ inbox \in Seq(Sent) /\ procs \in Seq(Started)
  BY EmptySeq, LenProperties DEF Init
<1>4. Len(procs) = 0
  BY EmptySeq DEF Init
<1> QED
  BY <1>2, <1>3, <1>4, EmptyOps
     DEF Init, Typed, TablesTyped, WorkTyped, BusTyped, RuntimeTyped, NodeTyped, BackendTyped, BoundsTyped

LEMMA StepTyped == Typed /\ [Next]_vars => Typed'
<1> SUFFICES ASSUME Typed, [Next]_vars PROVE Typed'
  OBVIOUS
<1>1. ASSUME NEW g \in Pollers, Poller(g) PROVE Typed'
  BY <1>1, PollerTypes, CreateTypes, PromptTypes DEF Poller, Goroutines
<1>2. CASE ReadLoop
  BY <1>2, ArrivalTypes, MessageTypes, AnswerTypes, EntryTypes, CreateTypes, PromptTypes
     DEF ReadLoop, Goroutines
<1>3. CASE Server
  BY <1>3, ServerTypes, PromptTypes DEF Server, Goroutines
<1>4. ASSUME NEW p \in DOMAIN procs, Reader(p) \/ Process(p) PROVE Typed'
  BY <1>4, ReaderTypes, ProcessTypes
<1>5. ASSUME NEW t \in Tasks, mention(t) \/ assign(t) PROVE Typed'
  BY <1>5, MentionTypes
<1>6. ASSUME NEW s \in DOMAIN sessions, Session(s) PROVE Typed'
  BY <1>6, UserTypes
<1>7. CASE Disconnect \/ Reconnect \/ Stop \/ runStart
  BY <1>7, ConnectionTypes
<1>8. CASE UNCHANGED vars
  BY <1>8, TablesKept, NodeKept, WorkKept, BusKept, BackendKept, CountsTyped
     DEF vars, runtime, server, Typed, RuntimeTyped
<1> QED
  BY <1>1, <1>2, <1>3, <1>4, <1>5, <1>6, <1>7, <1>8 DEF Next

\* Every table and every map of the runtime has its type, and names only rows and
\* processes that exist (AgentTypeOK).
THEOREM AgentTypeCorrect == Spec => []AgentTypeOK
<1>1. Spec => []Typed
  BY InitTyped, StepTyped, PTL DEF Spec
<1> QED
  BY <1>1, TypedIsType, PTL

-----------------------------------------------------------------------------
(* The end of a session.                                                   *)

\* With these messages the read loop will not hear that session s was created.
NotExpected(s, messages) ==
    \A i \in DOMAIN messages : messages[i].type = "create" => messages[i].session # s

\* As long as session.create is on its way the runtime knows nothing of the session: it has
\* neither context nor process, and what names the session comes later.
Unheard ==
    \A i \in DOMAIN inbox : inbox[i].type = "create" =>
       /\ inbox[i].session \notin meta
       /\ reported[inbox[i].session] = 0
       /\ \A p \in DOMAIN procs : procs[p].session # inbox[i].session
       /\ \A j \in 1 .. (i - 1) : inbox[j].type \in {"create", "prompt", "message"}
                                    => inbox[j].session # inbox[i].session

Unreported == \A s \in meta : reported[s] = 0

Safe == Unheard /\ Unreported /\ ReportedOnce /\ NoLostEnd /\ AliveIsReachable

\* A step after which no more creations are on the way than before.
Silent == \/ inbox' = inbox \/ inbox' = <<>> \/ (inbox # <<>> /\ inbox' = Tail(inbox))
          \/ \E m \in Sent' : m.type # "create" /\ inbox' = Append(inbox, m)

LEMMA InboxVars ==
    ASSUME Typed
    PROVE  /\ inbox \in Seq(Sent) /\ Len(inbox) \in Nat /\ DOMAIN inbox = 1 .. Len(inbox)
           /\ \A i \in DOMAIN inbox : inbox[i].type = "create" => inbox[i].session \in DOMAIN sessions
<1>1. inbox \in Seq(Sent)
  BY DEF Typed, BusTyped
<1>2. \A i \in DOMAIN inbox : inbox[i] \in Sent
  BY <1>1, ElementOfSeq, LenProperties
<1> QED BY <1>1, <1>2, LenProperties DEF Sent

\* What is in the inbox after such a step was there before, in the same order.
LEMMA SilentOrder ==
    ASSUME Typed, Typed', Silent
    PROVE  \E d \in {0, 1} : \A i \in DOMAIN inbox' : inbox'[i].type = "create" =>
             \A j \in 1 .. i : j + d \in DOMAIN inbox /\ inbox'[j] = inbox[j + d]
<1>1. inbox \in Seq(Sent) /\ Len(inbox) \in Nat /\ DOMAIN inbox = 1 .. Len(inbox)
  BY InboxVars
<1>2. CASE inbox' = inbox
  BY <1>1, <1>2
<1>3. CASE inbox' = <<>>
  BY <1>3
<1>4. CASE inbox # <<>> /\ inbox' = Tail(inbox)
  <2>1. Len(inbox') = Len(inbox) - 1 /\ \A i \in 1 .. Len(inbox') : inbox'[i] = inbox[i + 1]
    BY <1>1, <1>4, HeadTailProperties
  <2>2. DOMAIN inbox' = 1 .. Len(inbox')
    BY <1>1, <1>4, HeadTailProperties, LenProperties
  <2> QED BY <1>1, <2>1, <2>2
<1>5. ASSUME NEW m \in Sent', m.type # "create", inbox' = Append(inbox, m)
      PROVE  \A i \in DOMAIN inbox' : inbox'[i].type = "create" =>
               \A j \in 1 .. i : j + 0 \in DOMAIN inbox /\ inbox'[j] = inbox[j + 0]
  <2>1. inbox \in Seq(Sent \cup {m})
    BY <1>1, SeqMonotonic
  <2>2. /\ Len(inbox') = Len(inbox) + 1 /\ DOMAIN inbox' = 1 .. Len(inbox')
        /\ \A i \in 1 .. Len(inbox) : inbox'[i] = inbox[i]
        /\ inbox'[Len(inbox) + 1] = m
    BY <1>5, <2>1, AppendProperties, LenProperties
  <2> QED BY <1>1, <1>5, <2>2
<1> QED BY <1>2, <1>3, <1>4, <1>5 DEF Silent

LEMMA StillUnheard ==
    ASSUME Typed, Typed', Unheard, Silent,
           \A s \in meta' \ meta : NotExpected(s, inbox'),
           \A s \in DOMAIN sessions : reported'[s] = reported[s] \/ s \in meta,
           \A p \in DOMAIN procs' : \/ NotExpected(procs'[p].session, inbox')
                                    \/ p \in DOMAIN procs /\ procs'[p].session = procs[p].session
    PROVE  Unheard'
<1>1. PICK d \in {0, 1} : \A i \in DOMAIN inbox' : inbox'[i].type = "create" =>
             \A j \in 1 .. i : j + d \in DOMAIN inbox /\ inbox'[j] = inbox[j + d]
  BY SilentOrder
<1> SUFFICES ASSUME NEW i \in DOMAIN inbox', inbox'[i].type = "create"
             PROVE  /\ inbox'[i].session \notin meta'
                    /\ reported'[inbox'[i].session] = 0
                    /\ \A p \in DOMAIN procs' : procs'[p].session # inbox'[i].session
                    /\ \A j \in 1 .. (i - 1) : inbox'[j].type \in {"create", "prompt", "message"}
                                                 => inbox'[j].session # inbox'[i].session
  BY DEF Unheard
<1>2. i \in 1 .. Len(inbox') /\ i \in Nat
  <2>1. inbox' \in Seq(Sent')
    BY DEF Typed, BusTyped
  <2> QED BY <2>1, LenProperties
<1>3. i + d \in DOMAIN inbox /\ inbox'[i] = inbox[i + d] /\ inbox[i + d].session \in DOMAIN sessions
  BY <1>1, <1>2, InboxVars
<1>4. /\ inbox'[i].session \notin meta /\ reported[inbox'[i].session] = 0
      /\ \A p \in DOMAIN procs : procs[p].session # inbox'[i].session
      /\ \A j \in 1 .. (i + d - 1) : inbox[j].type \in {"create", "prompt", "message"}
                                       => inbox[j].session # inbox'[i].session
  <2> DEFINE k == i + d
  <2>1. k \in DOMAIN inbox /\ inbox[k].type = "create" /\ inbox'[i] = inbox[k]
    BY <1>3
  <2> HIDE DEF k
  <2>2. /\ inbox'[i].session \notin meta /\ reported[inbox'[i].session] = 0
        /\ \A p \in DOMAIN procs : procs[p].session # inbox'[i].session
        /\ \A j \in 1 .. (k - 1) : inbox[j].type \in {"create", "prompt", "message"}
                                         => inbox[j].session # inbox'[i].session
    BY <2>1 DEF Unheard
  <2> QED BY <1>2, <2>2 DEF k
<1>5. inbox'[i].session \notin meta' /\ reported'[inbox'[i].session] = 0
  BY <1>3, <1>4 DEF NotExpected
<1>6. \A p \in DOMAIN procs' : procs'[p].session # inbox'[i].session
  BY <1>4 DEF NotExpected
<1>7. ASSUME NEW j \in 1 .. (i - 1), inbox'[j].type \in {"create", "prompt", "message"}
      PROVE  inbox'[j].session # inbox'[i].session
  BY <1>1, <1>2, <1>4, <1>7
<1> QED BY <1>5, <1>6, <1>7

\* What the loop takes from the inbox is not expected afterwards.
LEMMA HeadHeard ==
    ASSUME Typed, Typed', Unheard, NEW kind \in {"create", "prompt", "message"}, Arrived(kind)
    PROVE  NotExpected(Head(inbox).session, inbox')
<1>1. inbox # <<>> /\ inbox' = Tail(inbox) /\ Head(inbox).type = kind /\ Head(inbox) = inbox[1]
  BY InboxVars DEF Arrived
<1>2. /\ DOMAIN inbox' = 1 .. Len(inbox) - 1 /\ Len(inbox) \in Nat
      /\ \A i \in DOMAIN inbox' : inbox'[i] = inbox[i + 1]
  BY <1>1, InboxVars, HeadTailProperties, LenProperties
<1>3. SUFFICES ASSUME NEW i \in DOMAIN inbox', inbox'[i].type = "create"
               PROVE  inbox'[i].session # Head(inbox).session
  BY DEF NotExpected
<1>4. i \in Nat \ {0} /\ i + 1 \in DOMAIN inbox /\ inbox[i + 1].type = "create" /\ inbox'[i] = inbox[i + 1]
  BY <1>2, <1>3, InboxVars
<1> DEFINE k == i + 1
<1>5. k \in DOMAIN inbox /\ inbox[k].type = "create" /\ 1 \in 1 .. (k - 1) /\ inbox'[i] = inbox[k]
  BY <1>4
<1> HIDE DEF k
<1>6. \A j \in 1 .. (k - 1) : inbox[j].type \in {"create", "prompt", "message"}
                                 => inbox[j].session # inbox[k].session
  BY <1>5 DEF Unheard
<1> QED BY <1>1, <1>5, <1>6

\* A process of this runtime that nobody is killing, and one whose end its reader has
\* still to report.
Alive(r) == r.phase # "gone" /\ ~r.cancelled /\ ~r.orphan
Pending(r) == (~r.completed /\ ~r.drained) \/ r.at = "context"

\* A step that creates neither a session nor a process.
LEMMA StepSafe ==
    ASSUME Typed, Typed', Safe, Silent, UNCHANGED sessions, DOMAIN procs' = DOMAIN procs,
           \A p \in DOMAIN procs : procs'[p].session = procs[p].session,
           \A p \in DOMAIN procs : Alive(procs'[p]) =>
               Alive(procs[p]) /\ held'[procs[p].session] = held[procs[p].session],
           meta' \subseteq meta,
           \A s \in DOMAIN sessions : \/ reported'[s] = reported[s]
                                      \/ s \in meta /\ s \notin meta' /\ reported'[s] = 1,
           \A p \in DOMAIN procs : procs[p].session \in meta' /\ Pending(procs[p]) => Pending(procs'[p])
    PROVE  Safe'
<1>1. Unheard'
  BY StillUnheard DEF Safe
<1>2. meta' \subseteq DOMAIN sessions
  BY DEF Typed, NodeTyped
<1>3. Unreported'
  BY <1>2 DEF Safe, Unreported
<1>4. ReportedOnce'
  <2>1. \A s \in DOMAIN sessions : reported[s] <= 1 /\ reported[s] \in Nat
    BY BackendVars DEF Safe, ReportedOnce
  <2> QED BY <2>1 DEF ReportedOnce
<1>5. NoLostEnd'
  <2>1. SUFFICES ASSUME NEW s \in meta', NEW p \in DOMAIN procs, procs[p].session = s
                 PROVE  \E q \in DOMAIN procs : procs[q].session = s /\ Pending(procs'[q])
    BY DEF NoLostEnd, Pending
  <2>2. PICK q \in DOMAIN procs : procs[q].session = s /\ Pending(procs[q])
    BY <2>1 DEF Safe, NoLostEnd, Pending
  <2> QED BY <2>2
<1>6. AliveIsReachable'
  BY DEF Safe, AliveIsReachable, Alive, Running
<1> QED BY <1>1, <1>3, <1>4, <1>5, <1>6 DEF Safe

\* A step that leaves the processes and the contexts alone.
LEMMA QuietSafe ==
    ASSUME Typed, Typed', Safe, Silent, UNCHANGED <<sessions, procs, held, meta, reported>>
    PROVE  Safe'
BY StepSafe DEF Alive, Running, Pending

LEMMA SendSilent ==
    ASSUME NEW m \in Sent', m.type # "create", Send(m)
    PROVE  Silent
BY DEF Send, Silent

\* A step of one process that leaves what its reader has to report.
LEMMA ProcessSafe ==
    ASSUME Typed, Typed', Safe, Silent, UNCHANGED <<sessions, held, meta, reported>>,
           NEW p \in DOMAIN procs, NEW new, procs' = [procs EXCEPT ![p] = new],
           new.session = procs[p].session,
           Alive(new) => Alive(procs[p]),
           Pending(procs[p]) => Pending(new)
    PROVE  Safe'
<1>1. /\ DOMAIN procs' = DOMAIN procs /\ \A q \in DOMAIN procs : q # p => procs'[q] = procs[q]
      /\ procs'[p] = new
  OBVIOUS
<1>2. \A q \in DOMAIN procs : procs'[q].session = procs[q].session
  BY <1>1
<1>3. \A q \in DOMAIN procs : Alive(procs'[q]) => Alive(procs[q])
  BY <1>1 DEF Alive, Running
<1>4. \A q \in DOMAIN procs : Pending(procs[q]) => Pending(procs'[q])
  BY <1>1 DEF Pending
<1> QED BY <1>1, <1>2, <1>3, <1>4, StepSafe

\* The reader begins to report: the end of its process is still to be reported.
LEMMA CompleteSafe ==
    ASSUME Typed, Typed', Safe, UNCHANGED <<inbox, sessions, held, meta, reported>>,
           NEW p \in DOMAIN procs, NEW new, Kin(procs[p], new),
           NEW status \in {"completed", "failed"},
           Alive(new) => Alive(procs[p]),
           handleSessionComplete(p, new, status)
    PROVE  Safe'
<1> DEFINE next == [new EXCEPT !.report = status, !.at = "context"]
<1>1. procs' = [procs EXCEPT ![p] = next] /\ Silent
  BY DEF handleSessionComplete, Silent
<1>2. /\ next.session = procs[p].session /\ next.at = "context"
      /\ next.phase = new.phase /\ next.cancelled = new.cancelled /\ next.orphan = new.orphan
  BY DEF Kin, Started
<1>3. (Alive(next) => Alive(procs[p])) /\ Pending(next)
  BY <1>2 DEF Alive, Pending
<1> HIDE DEF next
<1> QED BY <1>1, <1>2, <1>3, ProcessSafe

LEMMA CloseSafe ==
    ASSUME Typed, Typed', Safe, Silent, UNCHANGED <<sessions, meta, reported>>,
           NEW s \in DOMAIN sessions, held[s] # 0, CloseSession(s)
    PROVE  Safe'
<1> DEFINE p == held[s]
<1>1. p \in DOMAIN procs /\ procs[p].session = s /\ held \in [DOMAIN sessions -> 0 .. Len(procs)]
  BY BackendVars DEF Typed, BackendTyped
<1>2. /\ procs' = [procs EXCEPT ![p].cancelled = Running(p)] /\ held' = [held EXCEPT ![s] = 0]
      /\ procs[p] \in Started
  BY <1>1, BackendVars DEF CloseSession, Kill
<1>3. /\ DOMAIN procs' = DOMAIN procs /\ \A q \in DOMAIN procs : q # p => procs'[q] = procs[q]
      /\ procs'[p] = [procs[p] EXCEPT !.cancelled = Running(p)]
  BY <1>1, <1>2
<1>4. /\ procs'[p].cancelled \/ procs'[p].phase = "gone"
      /\ procs'[p].session = procs[p].session
      /\ procs'[p].completed = procs[p].completed /\ procs'[p].drained = procs[p].drained
      /\ procs'[p].at = procs[p].at
  <2> DEFINE r == procs[p]
  <2>1. PICK b \in BOOLEAN : procs'[p] = [r EXCEPT !.cancelled = b] /\ (b \/ r.phase = "gone")
    <3>1. CASE Running(p)
      BY <1>3, <3>1
    <3>2. CASE ~Running(p)
      BY <1>3, <3>2 DEF Running
    <3> QED BY <3>1, <3>2
  <2>2. r \in Started
    BY <1>2
  <2> HIDE DEF r
  <2>3. LET new == [r EXCEPT !.cancelled = b]
        IN  /\ new.cancelled = b /\ new.phase = r.phase /\ new.session = r.session
            /\ new.completed = r.completed /\ new.drained = r.drained /\ new.at = r.at
    BY <2>2 DEF Started
  <2> QED BY <2>1, <2>3 DEF r
<1>5. \A q \in DOMAIN procs : procs'[q].session = procs[q].session
  BY <1>3, <1>4
<1>6. \A q \in DOMAIN procs : Alive(procs'[q]) => Alive(procs[q]) /\ held'[procs[q].session] = held[procs[q].session]
  <2> SUFFICES ASSUME NEW q \in DOMAIN procs, Alive(procs'[q])
               PROVE  Alive(procs[q]) /\ held'[procs[q].session] = held[procs[q].session]
    OBVIOUS
  <2>1. q # p
    BY <1>4 DEF Alive
  <2>2. Alive(procs[q])
    BY <1>3, <2>1 DEF Alive, Running
  <2>3. held[procs[q].session] = q
    BY <2>2 DEF Safe, AliveIsReachable, Alive, Running
  <2> QED BY <1>1, <1>2, <2>1, <2>2, <2>3, BackendVars
<1>7. \A q \in DOMAIN procs : Pending(procs[q]) => Pending(procs'[q])
  BY <1>3, <1>4 DEF Pending
<1> QED BY <1>3, <1>5, <1>6, <1>7, StepSafe

\* A new session has no context, no process and no report.
LEMMA OpenSafe ==
    ASSUME Typed, Typed', Safe, NEW e \in DOMAIN queue, Open(e), UNCHANGED <<procs, meta>>
    PROVE  Safe'
<1> DEFINE n == Len(sessions) + 1
<1>0. New = n
  BY DEF New
<1>1. Len(sessions) \in Nat /\ DOMAIN sessions = 1 .. Len(sessions)
  BY LenProperties DEF Typed, TablesTyped
<1>2. sessions' \in Seq(DOMAIN queue) /\ Len(sessions') = n /\ DOMAIN sessions' = 1 .. n
  BY AppendProperties, LenProperties DEF Typed, TablesTyped, Open
<1>3. \A s \in DOMAIN sessions : held'[s] = held[s]
  <2> DEFINE range == 0 .. Len(procs)
  <2>1. 0 \in range /\ held \in [1 .. Len(sessions) -> range]
    BY <1>1, BackendVars
  <2> HIDE DEF range
  <2> QED BY <1>1, <2>1, AppendToFunction DEF Open
<1>4. /\ \A s \in DOMAIN sessions : reported'[s] = reported[s]
      /\ reported'[n] = 0
  <2>1. reported \in [1 .. Len(sessions) -> Nat]
    BY <1>1, BackendVars
  <2> QED BY <1>1, <2>1, AppendToFunction DEF Open
<1>5. meta \subseteq DOMAIN sessions
  BY DEF Typed, NodeTyped
<1>6. Unheard'
  <2>1. CASE inbox' = inbox
    BY <1>4, <2>1, InboxVars DEF Safe, Unheard
  <2>2. CASE inbox' = Append(inbox, ToSession("create", n))
    <3>1. /\ Len(inbox') = Len(inbox) + 1 /\ DOMAIN inbox' = 1 .. Len(inbox')
          /\ \A i \in DOMAIN inbox : inbox'[i] = inbox[i]
          /\ inbox'[Len(inbox) + 1] = ToSession("create", n)
      <4>1. inbox \in Seq(Sent \cup {ToSession("create", n)}) /\ DOMAIN inbox = 1 .. Len(inbox)
        BY InboxVars, SeqMonotonic
      <4> QED BY <2>2, <4>1, AppendProperties, LenProperties
    <3>2. \A i \in DOMAIN inbox : inbox[i].type \in {"create", "prompt", "message"}
                                     => inbox[i].session \in DOMAIN sessions
      BY ElementOfSeq, InboxVars DEF Sent
    <3> SUFFICES ASSUME NEW i \in DOMAIN inbox', inbox'[i].type = "create"
                 PROVE  /\ inbox'[i].session \notin meta'
                        /\ reported'[inbox'[i].session] = 0
                        /\ \A p \in DOMAIN procs' : procs'[p].session # inbox'[i].session
                        /\ \A j \in 1 .. (i - 1) :
                              inbox'[j].type \in {"create", "prompt", "message"}
                                => inbox'[j].session # inbox'[i].session
      BY DEF Unheard
    <3>3. CASE i \in DOMAIN inbox
      <4>1. \A j \in 1 .. i : j \in DOMAIN inbox /\ inbox'[j] = inbox[j]
        BY <3>1, <3>3, InboxVars
      <4>2. inbox'[i] = inbox[i] /\ inbox[i].session \in DOMAIN sessions /\ i \in Nat
        BY <3>1, <3>2, <3>3, InboxVars
      <4>3. /\ inbox[i].session \notin meta /\ reported[inbox[i].session] = 0
            /\ \A p \in DOMAIN procs : procs[p].session # inbox[i].session
            /\ \A j \in 1 .. (i - 1) : inbox[j].type \in {"create", "prompt", "message"}
                                         => inbox[j].session # inbox[i].session
        BY <3>3, <4>2 DEF Safe, Unheard
      <4> QED BY <1>4, <4>1, <4>2, <4>3
    <3>4. CASE i = Len(inbox) + 1
      <4>1. inbox'[i].session = n /\ n \notin DOMAIN sessions
        BY <1>1, <3>1, <3>4 DEF ToSession
      <4>2. \A p \in DOMAIN procs : procs[p].session # n
        BY <4>1, BackendVars
      <4>3. \A j \in 1 .. (i - 1) : inbox'[j] = inbox[j] /\ j \in DOMAIN inbox
        BY <3>1, <3>4, InboxVars
      <4> QED BY <1>4, <1>5, <3>2, <4>1, <4>2, <4>3
    <3> QED BY <3>1, <3>3, <3>4, InboxVars
  <2> QED BY <1>0, <2>1, <2>2 DEF Open, Send
<1>7. Unreported'
  BY <1>4, <1>5 DEF Safe, Unreported
<1>8. ReportedOnce'
  BY <1>1, <1>2, <1>4 DEF Safe, ReportedOnce
<1>9. NoLostEnd' /\ AliveIsReachable'
  BY <1>3, BackendVars DEF Safe, NoLostEnd, AliveIsReachable, Running
<1> QED BY <1>6, <1>7, <1>8, <1>9 DEF Safe

\* A new process for a session that has none: its end has still to be reported.
LEMMA StartSafe ==
    ASSUME Typed, Typed', Safe, Silent, UNCHANGED <<sessions, meta, reported>>,
           NEW s \in DOMAIN sessions, held[s] = 0, NotExpected(s, inbox'),
           procs' = Append(procs, NewProcess(s)), held' = [held EXCEPT ![s] = Len(procs) + 1]
    PROVE  Safe'
<1> DEFINE n == Len(procs) + 1
<1>1. /\ procs \in Seq(Started) /\ NewProcess(s) \in Started
      /\ DOMAIN procs = 1 .. Len(procs) /\ Len(procs) \in Nat
  BY BackendVars DEF Typed, BackendTyped, NewProcess, Started, Reports, ReportSteps
<1>2. /\ DOMAIN procs' = 1 .. n /\ procs'[n] = NewProcess(s)
      /\ \A p \in DOMAIN procs : procs'[p] = procs[p]
  BY <1>1, AppendProperties, LenProperties
<1>3. procs'[n].session = s /\ Pending(procs'[n])
  BY <1>2 DEF NewProcess, Pending
<1>4. \A p \in DOMAIN procs' : p = n \/ p \in DOMAIN procs
  BY <1>1, <1>2
<1>5. Unheard'
  <2>1. \A p \in DOMAIN procs' : \/ NotExpected(procs'[p].session, inbox')
                                 \/ p \in DOMAIN procs /\ procs'[p].session = procs[p].session
    BY <1>2, <1>3, <1>4
  <2> QED BY <2>1, StillUnheard DEF Safe
<1>6. Unreported' /\ ReportedOnce'
  BY DEF Safe, Unreported, ReportedOnce
<1>7. NoLostEnd'
  <2> SUFFICES ASSUME NEW r \in meta, NEW p \in DOMAIN procs', procs'[p].session = r
               PROVE  \E q \in DOMAIN procs' : procs'[q].session = r /\ Pending(procs'[q])
    BY DEF NoLostEnd, Pending
  <2>1. CASE r = s
    BY <1>1, <1>2, <1>3, <2>1
  <2>2. CASE r # s
    <3>1. p \in DOMAIN procs /\ procs[p].session = r
      BY <1>2, <1>3, <1>4, <2>2
    <3>2. PICK q \in DOMAIN procs : procs[q].session = r /\ Pending(procs[q])
      BY <3>1 DEF Safe, NoLostEnd, Pending
    <3> QED BY <1>1, <1>2, <3>2
  <2> QED BY <2>1, <2>2
<1>8. AliveIsReachable'
  <2> SUFFICES ASSUME NEW p \in DOMAIN procs', procs'[p].phase # "gone", ~procs'[p].cancelled,
                      ~procs'[p].orphan
               PROVE  held'[procs'[p].session] = p
    BY DEF AliveIsReachable, Running
  <2>1. CASE p = n
    BY <1>3, <2>1, BackendVars
  <2>2. CASE p \in DOMAIN procs
    <3>1. held[procs[p].session] = p /\ p # 0 /\ procs[p].session \in DOMAIN sessions
      BY <1>1, <1>2, <2>2, BackendVars DEF Safe, AliveIsReachable, Running
    <3> QED BY <1>2, <2>2, <3>1, BackendVars
  <2> QED BY <1>4, <2>1, <2>2
<1> QED BY <1>5, <1>6, <1>7, <1>8 DEF Safe

\* The context of a session comes before its first process.
LEMMA ContextSafe ==
    ASSUME Typed, Typed', Safe, handleCreate
    PROVE  Safe'
<1> DEFINE s == Head(inbox).session
<1>1. /\ inbox # <<>> /\ inbox' = Tail(inbox) /\ Arrived("create") /\ meta' = meta \cup {s}
      /\ UNCHANGED <<sessions, procs, held, reported>>
  BY DEF handleCreate, Arrived, server, backend
<1>2. 1 \in DOMAIN inbox /\ inbox[1].type = "create" /\ inbox[1].session = s
  BY <1>1, InboxVars, EmptySeq DEF Arrived
<1>3. reported[s] = 0 /\ \A p \in DOMAIN procs : procs[p].session # s
  BY <1>2 DEF Safe, Unheard
<1>4. NotExpected(s, inbox')
  BY <1>1, HeadHeard DEF Safe
<1>5. Unheard'
  <2>1. Silent
    BY <1>1 DEF Silent
  <2> QED BY <1>1, <1>4, <2>1, StillUnheard DEF Safe
<1>6. Unreported' /\ ReportedOnce' /\ NoLostEnd' /\ AliveIsReachable'
  BY <1>1, <1>3 DEF Safe, Unreported, ReportedOnce, NoLostEnd, AliveIsReachable, Running
<1> QED BY <1>5, <1>6 DEF Safe

LEMMA StopSafe ==
    ASSUME Typed, Typed', Safe, Stop
    PROVE  Safe'
<1>1. /\ procs' = [p \in DOMAIN procs |-> Ended(procs[p])]
      /\ inbox' = <<>> /\ meta' = {} /\ UNCHANGED <<sessions, reported>>
  BY DEF Stop, Ended, server
<1>2. \A p \in DOMAIN procs' : procs'[p].orphan
  BY <1>1, BackendVars DEF Ended, Started
<1>3. Unheard'
  BY <1>1 DEF Unheard
<1>4. Unreported' /\ ReportedOnce' /\ NoLostEnd' /\ AliveIsReachable'
  BY <1>1, <1>2 DEF Safe, Unreported, ReportedOnce, NoLostEnd, AliveIsReachable, Running
<1> QED BY <1>3, <1>4 DEF Safe

-----------------------------------------------------------------------------
(* Every action is one of these steps.                                     *)

LEMMA PollerSafe ==
    ASSUME Typed, Typed', Safe, NEW poller \in Pollers, Poller(poller)
    PROVE  Safe'
<1>1. CASE pollQueue(poller) \/ claim(poller) \/ startProcessing(poller)
  BY <1>1, QuietSafe DEF pollQueue, claim, startProcessing, Silent, server, backend, node
<1>2. ASSUME NEW g \in Goroutines, createSession(g) PROVE Safe'
  <2>1. Head(work[g]).entry \in DOMAIN queue
    BY <1>2, HeadType DEF createSession
  <2>2. CASE Open(Head(work[g]).entry)
    BY <1>2, <2>1, <2>2, OpenSafe DEF createSession, node
  <2>3. CASE UNCHANGED <<sessions, inbox, held, reported>>
    BY <1>2, <2>3, QuietSafe DEF createSession, Silent, node
  <2> QED BY <1>2, <2>2, <2>3 DEF createSession
<1>3. ASSUME NEW g \in Goroutines, sendPrompt(g) PROVE Safe'
  <2>1. ToSession("prompt", Head(work[g]).session) \in Sent'
    BY <1>3, HeadType DEF sendPrompt, ToSession, Sent, server
  <2>2. Silent
    BY <1>3, <2>1, SendSilent DEF sendPrompt, ToSession
  <2> QED BY <1>3, <2>2, QuietSafe DEF sendPrompt, server, backend, node
<1> QED BY <1>1, <1>2, <1>3 DEF Poller, Goroutines

LEMMA ServerSafe ==
    ASSUME Typed, Typed', Safe, autoProcessTask \/ markProcessing \/ sendPrompt("server")
                                  \/ createSession("loop") \/ sendPrompt("loop")
    PROVE  Safe'
<1>1. CASE autoProcessTask
  <2>1. Head(work["server"]).entry \in DOMAIN queue
    BY <1>1, HeadType DEF autoProcessTask, Goroutines
  <2>2. CASE Open(Head(work["server"]).entry)
    BY <1>1, <2>1, <2>2, OpenSafe DEF autoProcessTask, node
  <2>3. CASE UNCHANGED <<sessions, inbox, held, reported>>
    BY <1>1, <2>3, QuietSafe DEF autoProcessTask, Silent, node
  <2> QED BY <1>1, <2>2, <2>3 DEF autoProcessTask
<1>2. CASE markProcessing
  BY <1>2, QuietSafe DEF markProcessing, Silent, backend, node
<1>3. ASSUME NEW g \in Goroutines, createSession(g) PROVE Safe'
  <2>1. Head(work[g]).entry \in DOMAIN queue
    BY <1>3, HeadType DEF createSession
  <2>2. CASE Open(Head(work[g]).entry)
    BY <1>3, <2>1, <2>2, OpenSafe DEF createSession, node
  <2>3. CASE UNCHANGED <<sessions, inbox, held, reported>>
    BY <1>3, <2>3, QuietSafe DEF createSession, Silent, node
  <2> QED BY <1>3, <2>2, <2>3 DEF createSession
<1>4. ASSUME NEW g \in Goroutines, sendPrompt(g) PROVE Safe'
  <2>1. ToSession("prompt", Head(work[g]).session) \in Sent'
    BY <1>4, HeadType DEF sendPrompt, ToSession, Sent, server
  <2>2. Silent
    BY <1>4, <2>1, SendSilent DEF sendPrompt, ToSession
  <2> QED BY <1>4, <2>2, QuietSafe DEF sendPrompt, server, backend, node
<1> QED BY <1>1, <1>2, <1>3, <1>4 DEF Goroutines

LEMMA ReaderSafe ==
    ASSUME Typed, Typed', Safe, NEW p \in DOMAIN procs, Reader(p)
    PROVE  Safe'
<1>1. procs[p] \in Started
  BY BackendVars
<1>2. ASSUME report(p) \/ recordEnd(p) PROVE Safe'
  <2>1. PICK new \in {[procs[p] EXCEPT !.at = "none", !.report = "none"],
                      [procs[p] EXCEPT !.at = "call"]} : procs' = [procs EXCEPT ![p] = new]
    BY <1>2 DEF report, recordEnd
  <2>2. /\ new.session = procs[p].session /\ new.phase = procs[p].phase
        /\ new.cancelled = procs[p].cancelled /\ new.completed = procs[p].completed
        /\ new.drained = procs[p].drained /\ new.orphan = procs[p].orphan
    BY <1>1 DEF Started
  <2>3. procs[p].at # "context"
    BY <1>2 DEF report, recordEnd
  <2>4. UNCHANGED <<inbox, sessions, held, meta, reported>> /\ Silent
    BY <1>2 DEF report, recordEnd, node, server, Silent
  <2>5. (Alive(new) => Alive(procs[p])) /\ (Pending(procs[p]) => Pending(new))
    BY <2>2, <2>3 DEF Alive, Pending
  <2> QED BY <2>1, <2>2, <2>4, <2>5, ProcessSafe
<1>3. CASE readEnd(p)
  <2> DEFINE end == [procs[p] EXCEPT !.drained = TRUE]
  <2>1. /\ Kin(procs[p], end) /\ end.phase = procs[p].phase /\ end.cancelled = procs[p].cancelled
        /\ end.orphan = procs[p].orphan
    BY <1>1, ProcessFields DEF Started
  <2>2. UNCHANGED <<inbox, sessions, held, meta, reported>> /\ Silent
    BY <1>3 DEF readEnd, server, node, Silent
  <2>3. CASE procs[p].completed
    <3>1. procs' = [procs EXCEPT ![p] = end]
      BY <1>3, <2>3 DEF readEnd
    <3>2. ~Pending(procs[p])
      BY <1>3, <2>3 DEF readEnd, Pending
    <3>3. end.session = procs[p].session
      BY <2>1 DEF Kin
    <3> HIDE DEF end
    <3> QED BY <2>1, <2>2, <3>1, <3>2, <3>3, ProcessSafe DEF Alive
  <2>4. CASE ~procs[p].completed
    <3>1. handleSessionComplete(p, end, "failed")
      BY <1>3, <2>4 DEF readEnd
    <3> HIDE DEF end
    <3> QED BY <2>1, <2>2, <3>1, CompleteSafe DEF Alive
  <2> QED BY <2>3, <2>4
<1>4. CASE takeContext(p)
  <2> DEFINE s == procs[p].session
  <2>1. s \in DOMAIN sessions /\ meta' = meta \ {s}
    BY <1>4, BackendVars DEF takeContext
  <2>2. \A r \in DOMAIN sessions : \/ reported'[r] = reported[r]
                                   \/ r \in meta /\ r \notin meta' /\ reported'[r] = 1
    <3>1. CASE s \in meta
      <4>1. reported' = [reported EXCEPT ![s] = @ + 1] /\ reported[s] = 0
        BY <1>4, <3>1 DEF takeContext, Safe, Unreported
      <4>2. reported \in [DOMAIN sessions -> Nat]
        BY BackendVars
      <4> QED BY <2>1, <3>1, <4>1, <4>2
    <3>2. CASE s \notin meta
      BY <1>4, <3>2 DEF takeContext
    <3> QED BY <3>1, <3>2
  <2>3. PICK new \in {[procs[p] EXCEPT !.at = "none", !.report = "none"],
                      [procs[p] EXCEPT !.at = "record"]} : procs' = [procs EXCEPT ![p] = new]
    BY <1>4 DEF takeContext
  <2>4. /\ new.session = procs[p].session /\ new.phase = procs[p].phase
        /\ new.cancelled = procs[p].cancelled /\ new.orphan = procs[p].orphan
    BY <1>1 DEF Started
  <2>5. DOMAIN procs' = DOMAIN procs /\ \A q \in DOMAIN procs : q # p => procs'[q] = procs[q]
    BY <2>3
  <2>6. \A q \in DOMAIN procs : procs'[q].session = procs[q].session
    BY <2>3, <2>4
  <2>7. \A q \in DOMAIN procs : Alive(procs'[q]) => Alive(procs[q])
    BY <2>3, <2>4 DEF Alive
  <2>8. \A q \in DOMAIN procs : procs[q].session \in meta' /\ Pending(procs[q]) => Pending(procs'[q])
    BY <2>1, <2>5 DEF Pending
  <2>9. Silent /\ UNCHANGED <<sessions, held>>
    BY <1>4 DEF takeContext, Silent, server
  <2> QED BY <2>1, <2>2, <2>5, <2>6, <2>7, <2>8, <2>9, StepSafe
<1> QED BY <1>2, <1>3, <1>4 DEF Reader

LEMMA ActionSafe ==
    ASSUME Typed, Typed', Safe, NEW p \in DOMAIN procs, Process(p)
    PROVE  Safe'
<1>1. procs[p] \in Started /\ procs[p].session \in DOMAIN sessions
  BY BackendVars
<1>2. CASE takeInput(p)
  <2> DEFINE new == [procs[p] EXCEPT !.phase = "working", !.input = procs[p].input - 1]
  <2>1. procs' = [procs EXCEPT ![p] = new]
    BY <1>2 DEF takeInput
  <2>2. /\ new.session = procs[p].session /\ new.cancelled = procs[p].cancelled
        /\ new.completed = procs[p].completed /\ new.drained = procs[p].drained
        /\ new.at = procs[p].at /\ new.orphan = procs[p].orphan
        /\ procs[p].phase # "gone"
    BY <1>1, <1>2 DEF Started, takeInput
  <2>3. UNCHANGED <<inbox, sessions, held, meta, reported>> /\ Silent
    BY <1>2 DEF takeInput, node, server, Silent
  <2> HIDE DEF new
  <2> QED BY <2>1, <2>2, <2>3, ProcessSafe DEF Alive, Pending
<1>3. ASSUME NEW phase \in {"asking", "working"}, Ask(p, phase) PROVE Safe'
  <2> DEFINE new == [procs[p] EXCEPT !.phase = phase]
  <2>1. procs' = [procs EXCEPT ![p] = new]
    BY <1>3 DEF Ask
  <2>2. /\ new.session = procs[p].session /\ new.cancelled = procs[p].cancelled
        /\ new.completed = procs[p].completed /\ new.drained = procs[p].drained
        /\ new.at = procs[p].at /\ new.orphan = procs[p].orphan
        /\ procs[p].phase # "gone"
    BY <1>1, <1>3 DEF Started, Ask
  <2>3. UNCHANGED <<inbox, sessions, held, meta, reported>> /\ Silent
    BY <1>3 DEF Ask, node, server, Silent
  <2> HIDE DEF new
  <2> QED BY <2>1, <2>2, <2>3, ProcessSafe DEF Alive, Pending
<1>4. CASE handleAssistantEvent(p)
  <2>1. ToSession("tool", procs[p].session) \in Sent'
    BY <1>1, <1>4 DEF handleAssistantEvent, ToSession, Sent, server
  <2>2. Silent
    BY <1>4, <2>1, SendSilent DEF handleAssistantEvent, ToSession
  <2> QED BY <1>4, <2>2, QuietSafe DEF handleAssistantEvent, server, backend, node
<1>5. CASE handleResultEvent(p)
  <2> DEFINE new == [procs[p] EXCEPT !.phase = "waiting", !.completed = TRUE]
  <2>1. PICK status \in {"completed", "failed"} : handleSessionComplete(p, new, status)
    BY <1>5 DEF handleResultEvent
  <2>2. /\ Kin(procs[p], new) /\ new.cancelled = procs[p].cancelled /\ procs[p].phase # "gone"
        /\ new.orphan = procs[p].orphan
    BY <1>1, <1>5, ProcessFields DEF Started, handleResultEvent, Reading, Running
  <2>3. UNCHANGED <<inbox, sessions, held, meta, reported>>
    BY <1>5 DEF handleResultEvent, server, node
  <2> HIDE DEF new
  <2> QED BY <2>1, <2>2, <2>3, CompleteSafe DEF Alive
<1>6. CASE exit(p)
  <2> DEFINE new == [procs[p] EXCEPT !.phase = "gone", !.input = 0, !.cancelled = FALSE]
  <2>1. procs' = [procs EXCEPT ![p] = new]
    BY <1>6 DEF exit
  <2>2. /\ new.session = procs[p].session /\ new.phase = "gone"
        /\ new.completed = procs[p].completed /\ new.drained = procs[p].drained
        /\ new.at = procs[p].at /\ new.orphan = procs[p].orphan
    BY <1>1 DEF Started
  <2>3. UNCHANGED <<inbox, sessions, held, meta, reported>> /\ Silent
    BY <1>6 DEF exit, node, server, Silent
  <2> HIDE DEF new
  <2> QED BY <2>1, <2>2, <2>3, ProcessSafe DEF Alive, Pending
<1> QED
  BY <1>2, <1>3, <1>4, <1>5, <1>6 DEF Process, handleControlRequest, handleControlRequestGeneric

LEMMA MessageSafe ==
    ASSUME Typed, Typed', Safe, HandleMessage
    PROVE  Safe'
<1> DEFINE s == Head(inbox).session
           p == held[s]
<1>1. PICK kind \in {"prompt", "message"} : Arrived(kind)
  BY DEF HandleMessage
<1>2. s \in DOMAIN sessions /\ NotExpected(s, inbox')
  BY <1>1, ArrivedType, HeadHeard DEF Safe
<1>3. Silent /\ UNCHANGED <<sessions, meta, reported>>
  BY <1>1 DEF HandleMessage, Arrived, Silent, server, node
<1>4. CASE UNCHANGED <<procs, held>>
  BY <1>3, <1>4, QuietSafe
<1>5. CASE p = 0 /\ startSession(s)
  BY <1>2, <1>3, <1>4, <1>5, StartSafe DEF startSession
<1>6. CASE p # 0 /\ Running(p) /\ UNCHANGED held /\ procs' = [procs EXCEPT ![p].input = @ + 1]
  <2> DEFINE new == [procs[p] EXCEPT !.input = procs[p].input + 1]
  <2>1. p \in DOMAIN procs /\ procs[p] \in Started /\ procs' = [procs EXCEPT ![p] = new]
    BY <1>2, <1>6, BackendVars
  <2>2. /\ new.session = procs[p].session /\ new.cancelled = procs[p].cancelled
        /\ new.completed = procs[p].completed /\ new.drained = procs[p].drained
        /\ new.at = procs[p].at /\ new.orphan = procs[p].orphan
        /\ new.phase = procs[p].phase
    BY <2>1 DEF Started
  <2> HIDE DEF new, p
  <2> QED BY <1>3, <1>6, <2>1, <2>2, ProcessSafe DEF Alive, Pending
<1> QED
  BY <1>3, <1>4, <1>5, <1>6 DEF HandleMessage, Write

LEMMA AnswerSafe ==
    ASSUME Typed, Typed', Safe, HandlePermissionResponse
    PROVE  Safe'
<1> DEFINE s == Head(inbox).session
           p == held[s]
<1>1. s \in DOMAIN sessions
  BY ArrivedType DEF HandlePermissionResponse
<1>2. Silent /\ UNCHANGED <<sessions, meta, reported>>
  BY DEF HandlePermissionResponse, Arrived, Silent, server, node
<1>3. CASE UNCHANGED <<procs, held>>
  BY <1>2, <1>3, QuietSafe
<1>4. CASE p # 0 /\ UNCHANGED held /\ procs[p].phase = "asking" /\ procs' = [procs EXCEPT ![p].phase = "working"]
  <2> DEFINE new == [procs[p] EXCEPT !.phase = "working"]
  <2>1. p \in DOMAIN procs /\ procs[p] \in Started /\ procs' = [procs EXCEPT ![p] = new]
    BY <1>1, <1>4, BackendVars
  <2>2. /\ new.session = procs[p].session /\ new.cancelled = procs[p].cancelled
        /\ new.completed = procs[p].completed /\ new.drained = procs[p].drained
        /\ new.at = procs[p].at /\ new.orphan = procs[p].orphan
        /\ procs[p].phase # "gone"
    BY <1>4, <2>1 DEF Started
  <2> HIDE DEF new, p
  <2>3. Alive(new) => Alive(procs[p])
    BY <2>2 DEF Alive
  <2>4. Pending(procs[p]) => Pending(new)
    BY <2>2 DEF Pending
  <2>5. UNCHANGED <<sessions, held, meta, reported>>
    BY <1>2, <1>4
  <2> QED BY <1>2, <2>1, <2>2, <2>3, <2>4, <2>5, ProcessSafe
<1>5. CASE p # 0 /\ CloseSession(s)
  BY <1>1, <1>2, <1>5, CloseSafe
<1> QED
  BY <1>3, <1>4, <1>5 DEF HandlePermissionResponse

LEMMA LoopSafe ==
    ASSUME Typed, Typed', Safe, ReadLoop
    PROVE  Safe'
<1>1. CASE \/ handleInvite \/ handleAutoTaskToolCall \/ handleAgentMention
           \/ holdEntry \/ evaluate \/ checkRecent \/ settleMention
  <2>1. Silent /\ UNCHANGED <<sessions, procs, held, meta, reported>>
    BY <1>1 DEF handleInvite, handleAutoTaskToolCall, handleAgentMention, holdEntry, evaluate, checkRecent,
                settleMention, Arrived,
                Silent, server, backend, node
  <2> QED BY <2>1, QuietSafe
<1> QED
  BY <1>1, ContextSafe, MessageSafe, AnswerSafe, ServerSafe DEF ReadLoop

LEMMA UserSafe ==
    ASSUME Typed, Typed', Safe, NEW s \in DOMAIN sessions, Session(s)
    PROVE  Safe'
<1>1. CASE userMessage(s)
  <2>1. ToSession("message", s) \in Sent'
    BY <1>1 DEF userMessage, ToSession, Sent, server
  <2>2. Silent
    BY <1>1, <2>1, SendSilent DEF userMessage, ToSession
  <2> QED BY <1>1, <2>2, QuietSafe DEF userMessage, server, backend, node
<1>2. CASE CleanIdleSessions(s)
  BY <1>2, CloseSafe DEF CleanIdleSessions, Silent, server, node
<1>3. ASSUME NEW p \in DOMAIN procs, sendPermissionResponse(s, p) PROVE Safe'
  <2>1. PICK approved \in BOOLEAN :
           Send([type |-> "answer", session |-> s, of |-> p, approved |-> approved])
    BY <1>3 DEF sendPermissionResponse
  <2>2. [type |-> "answer", session |-> s, of |-> p, approved |-> approved] \in Sent'
    BY <1>3, BackendVars DEF sendPermissionResponse, Sent, server
  <2>3. Silent
    BY <2>1, <2>2, SendSilent
  <2> QED BY <1>3, <2>3, QuietSafe DEF sendPermissionResponse, server, backend, node
<1>4. CASE openSession(s)
  <2>1. ToSession("invite", s) \in Sent'
    BY <1>4 DEF openSession, ToSession, Sent, server
  <2>2. Silent
    BY <1>4, <2>1, SendSilent DEF openSession, ToSession
  <2> QED BY <1>4, <2>2, QuietSafe DEF openSession, server, backend, node
<1>5. CASE cleanStaleSessions(s)
  BY <1>5, QuietSafe DEF cleanStaleSessions, Silent, server, backend, node
<1> QED BY <1>1, <1>2, <1>3, <1>4, <1>5 DEF Session

LEMMA TaskSafe ==
    ASSUME Typed, Typed', Safe, NEW t \in Tasks, mention(t) \/ assign(t)
    PROVE  Safe'
<1>1. CASE assign(t)
  BY <1>1, QuietSafe DEF assign, Silent, server, backend, node
<1>2. CASE mention(t)
  <2>1. \E e \in DOMAIN queue' : Send([type |-> "mention", entry |-> e])
    <3>1. CASE UNCHANGED queue
      BY <1>2, <3>1 DEF mention
    <3>2. CASE /\ queue' = Append(queue, [task |-> t, status |-> "queued"])
               /\ Send([type |-> "mention", entry |-> Len(queue) + 1])
      BY <1>2, <3>2, NewRowType DEF mention
    <3> QED BY <1>2, <3>1, <3>2 DEF mention
  <2>2. Silent
    BY <2>1, SendSilent DEF Sent
  <2> QED BY <1>2, <2>2, QuietSafe DEF mention, backend, node
<1> QED BY <1>1, <1>2

LEMMA StepIsSafe == Typed /\ Safe /\ [Next]_vars => Safe'
<1> SUFFICES ASSUME Typed, Safe, [Next]_vars PROVE Safe'
  OBVIOUS
<1>1. Typed'
  BY StepTyped
<1>2. CASE Disconnect \/ Reconnect \/ runStart \/ UNCHANGED vars
  <2>1. Silent /\ UNCHANGED <<sessions, procs, held, meta, reported>>
    BY <1>2 DEF Disconnect, Reconnect, runStart, vars, Silent, server, backend, node
  <2> QED BY <1>1, <2>1, QuietSafe
<1> QED
  BY <1>1, <1>2, PollerSafe, LoopSafe, ServerSafe, ReaderSafe, ActionSafe, UserSafe, TaskSafe, StopSafe
     DEF Next, Server

LEMMA InitSafe == Init => Safe
BY DEF Init, Safe, Unheard, Unreported, ReportedOnce, NoLostEnd, AliveIsReachable

LEMMA SafeAlways == Spec => []Safe
<1>1. Init => Typed /\ Safe
  BY InitTyped, InitSafe
<1>2. Typed /\ Safe /\ [Next]_vars => (Typed /\ Safe)'
  BY StepTyped, StepIsSafe
<1> QED BY <1>1, <1>2, PTL DEF Spec

\* The end of a session is reported at most once: session.create is handled once, and what
\* it stores goes with the first report (ReportedOnce).
THEOREM EndsAreReportedOnce == Spec => []ReportedOnce
<1>1. Safe => ReportedOnce
  BY DEF Safe
<1> QED BY <1>1, SafeAlways, PTL

\* A context for which a process was started is never left to processes that have all been
\* reported (NoLostEnd).
THEOREM NoEndIsLost == Spec => []NoLostEnd
<1>1. Safe => NoLostEnd
  BY DEF Safe
<1> QED BY <1>1, SafeAlways, PTL

\* As long as its runtime runs, the map of the backend leads to every process that nobody
\* is killing (AliveIsReachable).
THEOREM ProcessesAreReachable == Spec => []AliveIsReachable
<1>1. Safe => AliveIsReachable
  BY DEF Safe
<1> QED BY <1>1, SafeAlways, PTL
=============================================================================
