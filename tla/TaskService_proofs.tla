------------------------- MODULE TaskService_proofs -------------------------
(***************************************************************************)
(* Proofs about TaskService, for every set of tasks, agents and callers,   *)
(* every graph of dependencies, every behavior and every set of rules.     *)
(*                                                                         *)
(* What makes the status column correct is not in the column: it is in the *)
(* operations the goroutines carry.  Sound says of an operation that the   *)
(* transition it intends to make was validated against the snapshot it     *)
(* carries; writeStatus then makes it only if the row is still in the      *)
(* snapshot's status.                                                      *)
(***************************************************************************)
EXTENDS TaskService, SequenceTheorems, FiniteSetTheorems, TLAPS

Sound(o) ==
    /\ o.op = "write" => StatusMove(o.snap.status, o.to)
    /\ o.op = "resolve" => transitionValid(o.snap.status, "completed")

SoundOps == {o \in Ops : Sound(o)}

\* The inductive invariant: the tables, and the continuations.
Tables == /\ task \in [Tasks -> Rows]
          /\ queue \in Seq(Entries)
          /\ load \in [Agents -> Nat]
          /\ enabled \in SUBSET Agents
          /\ guard \in SUBSET Tasks
          /\ calls \in Nat
          /\ CompletedNeverStored

IInv == Tables /\ work \in [Callers -> Seq(SoundOps)]

\* What a step of a goroutine needs of the goroutine, and what becomes of it: the rest of
\* the continuation, which may hold the operations of other modules, does not matter.
SoundHead(c) == Head(work[c]) \in SoundOps
GoesOn(c) == work[c] # <<>> /\ \E ops \in Seq(SoundOps) : Then(c, ops)
Begins == \E c \in Callers, ops \in Seq(SoundOps) :
             work[c] = <<>> /\ work' = [work EXCEPT ![c] = ops]

-----------------------------------------------------------------------------
(* Sequences of operations.                                                *)

\* Short sequences written out are sequences.
LEMMA ShortSeqs ==
    ASSUME NEW S
    PROVE  /\ <<>> \in Seq(S)
           /\ \A x \in S : <<x>> \in Seq(S)
           /\ \A x, y \in S : <<x, y>> \in Seq(S)
           /\ \A x, y, z \in S : <<x, y, z>> \in Seq(S)
<1>1. <<>> \in Seq(S)
  BY EmptySeq
<1>2. ASSUME NEW x \in S PROVE <<x>> \in Seq(S)
  <2>1. <<x>> \in [1 .. 1 -> S]
    OBVIOUS
  <2>. QED BY <2>1, SeqDef
<1>3. ASSUME NEW x \in S, NEW y \in S PROVE <<x, y>> \in Seq(S)
  <2>1. <<x, y>> \in [1 .. 2 -> S]
    OBVIOUS
  <2>. QED BY <2>1, SeqDef
<1>4. ASSUME NEW x \in S, NEW y \in S, NEW z \in S PROVE <<x, y, z>> \in Seq(S)
  <2>1. <<x, y, z>> \in [1 .. 3 -> S]
    OBVIOUS
  <2>. QED BY <2>1, SeqDef
<1>. QED BY <1>1, <1>2, <1>3, <1>4

\* What Then does to the continuations: an operation at the head may be
\* replaced by any operations of the right kind.
LEMMA ThenType ==
    ASSUME NEW S, NEW w \in [Callers -> Seq(S)], NEW c \in Callers, w[c] # <<>>,
           NEW ops \in Seq(S)
    PROVE  [w EXCEPT ![c] = ops \o Tail(w[c])] \in [Callers -> Seq(S)]
<1>1. Tail(w[c]) \in Seq(S)
  BY HeadTailProperties
<1>2. ops \o Tail(w[c]) \in Seq(S)
  BY <1>1, ConcatProperties
<1>. QED BY <1>2

\* Where the elements of a continuation are after its head was replaced.
LEMMA ReplaceHead ==
    ASSUME NEW S, NEW s \in Seq(S), s # <<>>, NEW ops \in Seq(S)
    PROVE  /\ Len(s) \in Nat /\ Len(s) >= 1 /\ Len(ops) \in Nat
           /\ DOMAIN s = 1 .. Len(s) /\ DOMAIN ops = 1 .. Len(ops)
           /\ DOMAIN (ops \o Tail(s)) = 1 .. (Len(ops) + Len(s) - 1)
           /\ \A i \in 1 .. Len(ops) : (ops \o Tail(s))[i] = ops[i]
           /\ \A i \in 2 .. Len(s) : (ops \o Tail(s))[i + Len(ops) - 1] = s[i]
           /\ Head(s) = s[1]
<1>1. Len(s) \in Nat /\ Len(ops) \in Nat /\ DOMAIN s = 1 .. Len(s) /\ DOMAIN ops = 1 .. Len(ops)
  BY LenProperties
<1>2. Len(s) >= 1
  BY <1>1, EmptySeq
<1>3. /\ Tail(s) \in Seq(S) /\ Len(Tail(s)) = Len(s) - 1
      /\ \A i \in 1 .. Len(Tail(s)) : Tail(s)[i] = s[i + 1]
      /\ Head(s) = s[1]
  BY <1>1, <1>2, HeadTailProperties
<1>4. /\ ops \o Tail(s) \in Seq(S)
      /\ Len(ops \o Tail(s)) = Len(ops) + Len(s) - 1
      /\ \A i \in 1 .. Len(ops) : (ops \o Tail(s))[i] = ops[i]
      /\ \A i \in 1 .. (Len(s) - 1) : (ops \o Tail(s))[i + Len(ops)] = Tail(s)[i]
  BY <1>1, <1>2, <1>3, ConcatProperties
<1>5. DOMAIN (ops \o Tail(s)) = 1 .. (Len(ops) + Len(s) - 1)
  BY <1>4, LenProperties
<1>6. ASSUME NEW i \in 2 .. Len(s)
      PROVE  (ops \o Tail(s))[i + Len(ops) - 1] = s[i]
  <2>1. i - 1 \in 1 .. (Len(s) - 1) /\ (i - 1) + Len(ops) = i + Len(ops) - 1 /\ (i - 1) + 1 = i
    BY <1>1
  <2>2. (ops \o Tail(s))[(i - 1) + Len(ops)] = Tail(s)[i - 1]
    BY <1>4, <2>1
  <2>3. Tail(s)[i - 1] = s[(i - 1) + 1]
    BY <1>3, <2>1
  <2>. QED BY <2>1, <2>2, <2>3
<1>. QED BY <1>1, <1>2, <1>3, <1>4, <1>5, <1>6

\* The operation at the head of a continuation.
LEMMA HeadType ==
    ASSUME NEW S, work \in [Callers -> Seq(S)], NEW c \in Callers, work[c] # <<>>
    PROVE  Head(work[c]) \in S
BY HeadTailProperties

\* The record set an operation belongs to is told by its name.
LEMMA OpTypes ==
    ASSUME NEW o \in Ops
    PROVE  /\ o.op = "transition" => o \in TransitionOps
           /\ o.op = "resolve" => o \in ResolveOps
           /\ o.op = "write" => o \in WriteOps
           /\ o.op \in {"pending", "dag", "gather", "leave", "rules", "dropLoad", "failActive", "unassign"}
                => o \in TaskOps
           /\ o.op = "release" => o \in ReleaseOps
           /\ o.op = "check" => o \in CheckOps
           /\ o.op \in {"siblings", "parent"} => o \in ParentOps
           /\ o.op = "advance" => o \in AdvanceOps
           /\ o.op \in {"dispatch", "reviewQueue", "insert"} => o \in AgentOps
           /\ o.op = "bump" => o \in BumpOps
           /\ o.op = "loops" => o \in LoopOps
<1>1. CASE o \in TransitionOps
  BY <1>1 DEF TransitionOps
<1>2. CASE o \in ResolveOps
  BY <1>2 DEF ResolveOps
<1>3. CASE o \in WriteOps
  BY <1>3 DEF WriteOps
<1>4. CASE o \in TaskOps
  BY <1>4 DEF TaskOps
<1>5. CASE o \in ReleaseOps
  BY <1>5 DEF ReleaseOps
<1>6. CASE o \in AdvanceOps
  BY <1>6 DEF AdvanceOps
<1>7. CASE o \in AgentOps
  BY <1>7 DEF AgentOps
<1>8. CASE o \in BumpOps
  BY <1>8 DEF BumpOps
<1>9. CASE o \in LoopOps
  BY <1>9 DEF LoopOps
<1>10. CASE o \in CheckOps
  BY <1>10 DEF CheckOps
<1>11. CASE o \in ParentOps
  BY <1>11 DEF ParentOps
<1>. QED BY <1>1, <1>2, <1>3, <1>4, <1>5, <1>6, <1>7, <1>8, <1>9, <1>10, <1>11 DEF Ops

\* The names of the operations that TaskService has a case for.
OpNames == {"transition", "resolve", "write", "dispatch", "reviewQueue", "insert", "bump", "pending",
            "release", "dropLoad", "failActive", "loops", "dag", "gather", "check",
            "siblings", "parent", "advance", "leave", "rules", "unassign"}

LEMMA OpsByName == \A o \in Ops : o.op \in OpNames
BY DEF Ops, OpNames, TransitionOps, ResolveOps, WriteOps, TaskOps, ReleaseOps, CheckOps,
       ParentOps, AdvanceOps, AgentOps, BumpOps, LoopOps

\* The operations that carry nothing to be validated are sound.
LEMMA SoundByName ==
    /\ \A t \in Tasks, to \in Statuses, s \in BOOLEAN : Transition(t, to, s) \in SoundOps
    /\ \A t \in Tasks, to \in Statuses, s \in BOOLEAN, n \in 0 .. maxRetries - 1 :
         [Transition(t, to, s) EXCEPT !.attempt = n] \in SoundOps
    /\ \A t \in Tasks : \A name \in {"pending", "dag", "gather", "leave", "rules", "dropLoad",
                                     "failActive", "unassign"} : On(name, t) \in SoundOps
    /\ \A t \in Tasks, a \in Agents : \A name \in {"dispatch", "reviewQueue", "insert"} :
         ForAgent(name, t, a) \in SoundOps
    /\ \A a \in Agents : [op |-> "bump", agent |-> a] \in SoundOps
    /\ \A o \in ReleaseOps \cup CheckOps \cup ParentOps \cup AdvanceOps \cup LoopOps : o \in SoundOps
<1>1. ASSUME NEW t \in Tasks, NEW to \in Statuses, NEW s \in BOOLEAN,
             NEW n \in 0 .. maxRetries - 1
      PROVE  [op |-> "transition", task |-> t, to |-> to, summary |-> s, attempt |-> n] \in SoundOps
  BY DEF SoundOps, Sound, Ops, TransitionOps
<1>2. \A t \in Tasks, to \in Statuses, s \in BOOLEAN : Transition(t, to, s) \in SoundOps
  <2>1. 0 \in 0 .. maxRetries - 1
    BY DEF maxRetries
  <2>. QED BY <1>1, <2>1 DEF Transition
<1>3. \A t \in Tasks, to \in Statuses, s \in BOOLEAN, n \in 0 .. maxRetries - 1 :
         [Transition(t, to, s) EXCEPT !.attempt = n] \in SoundOps
  BY <1>1 DEF Transition
<1>4. \A t \in Tasks : \A name \in {"pending", "dag", "gather", "leave", "rules", "dropLoad",
                                     "failActive", "unassign"} : On(name, t) \in SoundOps
  BY DEF SoundOps, Sound, Ops, TaskOps, On
<1>5. \A t \in Tasks, a \in Agents : \A name \in {"dispatch", "reviewQueue", "insert"} :
         ForAgent(name, t, a) \in SoundOps
  BY DEF SoundOps, Sound, Ops, AgentOps, ForAgent
<1>6. \A a \in Agents : [op |-> "bump", agent |-> a] \in SoundOps
  BY DEF SoundOps, Sound, Ops, BumpOps
<1>7. \A o \in ReleaseOps : o \in SoundOps
  BY DEF SoundOps, Sound, Ops, ReleaseOps
<1>8. \A o \in AdvanceOps : o \in SoundOps
  BY DEF SoundOps, Sound, Ops, AdvanceOps
<1>9. \A o \in LoopOps : o \in SoundOps
  BY DEF SoundOps, Sound, Ops, LoopOps
<1>10. \A o \in CheckOps : o \in SoundOps
  BY DEF SoundOps, Sound, Ops, CheckOps
<1>11. \A o \in ParentOps : o \in SoundOps
  BY DEF SoundOps, Sound, Ops, ParentOps
<1>. QED BY <1>2, <1>3, <1>4, <1>5, <1>6, <1>7, <1>8, <1>9, <1>10, <1>11

\* The operations dispatchSideEffects leaves behind.
LEMMA SideEffectsType ==
    ASSUME NEW t \in Tasks, NEW s \in Snapshots, NEW to \in Statuses
    PROVE  SideEffects(t, s, to) \in Seq(SoundOps)
<1>. DEFINE assigned == s.assignee # NoAgent
            moved(f, tt) == s.status = f /\ to = tt
            first == IF assigned /\ Behavior[t] = "auto_review"
                     THEN <<ForAgent("reviewQueue", t, s.assignee)>> ELSE <<>>
            count == [op |-> "loops", task |-> t, agent |-> s.assignee, count |-> s.loops + 1]
<1>1. assigned => s.assignee \in Agents
  BY DEF Snapshots
<1>2. /\ On("pending", t) \in SoundOps /\ On("dag", t) \in SoundOps /\ On("rules", t) \in SoundOps
      /\ On("dropLoad", t) \in SoundOps /\ On("failActive", t) \in SoundOps
  BY SoundByName
<1>3. assigned => /\ ForAgent("reviewQueue", t, s.assignee) \in SoundOps
                  /\ ForAgent("dispatch", t, s.assignee) \in SoundOps
  BY <1>1, SoundByName
<1>4. count \in SoundOps
  <2>1. count \in LoopOps
    BY DEF LoopOps, Snapshots
  <2>. QED BY <2>1, SoundByName
<1>5. first \in Seq(SoundOps)
  BY <1>3, ShortSeqs
<1>6. first \o <<On("dag", t), On("rules", t)>> \in Seq(SoundOps)
  <2>1. <<On("dag", t), On("rules", t)>> \in Seq(SoundOps)
    BY <1>2, ShortSeqs
  <2>. QED BY <1>5, <2>1, ConcatProperties
<1>7. <<On("pending", t), On("dag", t), On("rules", t)>> \in Seq(SoundOps)
  BY <1>2, ShortSeqs
<1>8. <<On("pending", t), On("dag", t)>> \o FreeAgents(t) \o <<On("rules", t)>> \in Seq(SoundOps)
  <2>1. /\ <<On("pending", t), On("dag", t)>> \in Seq(SoundOps)
        /\ FreeAgents(t) \in Seq(SoundOps)
        /\ <<On("rules", t)>> \in Seq(SoundOps)
    BY <1>2, ShortSeqs DEF FreeAgents
  <2>2. <<On("pending", t), On("dag", t)>> \o FreeAgents(t) \in Seq(SoundOps)
    BY <2>1, ConcatProperties
  <2>. QED BY <2>1, <2>2, ConcatProperties
<1>9. <<count>> \in Seq(SoundOps) /\ <<>> \in Seq(SoundOps)
  BY <1>4, ShortSeqs
<1>10. assigned => <<ForAgent("dispatch", t, s.assignee)>> \in Seq(SoundOps)
  BY <1>3, ShortSeqs
<1>. QED BY <1>6, <1>7, <1>8, <1>9, <1>10 DEF SideEffects

\* The operation at the head of a goroutine.
LEMMA HeadIsSound ==
    ASSUME NEW c \in Callers, SoundHead(c)
    PROVE  Head(work[c]) \in Ops /\ Sound(Head(work[c]))
BY DEF SoundHead, SoundOps

LEMMA HeadsAreSound ==
    ASSUME IInv, NEW c \in Callers, work[c] # <<>> PROVE SoundHead(c)
BY HeadType DEF IInv, SoundHead

\* A goroutine that goes on with sound operations keeps the continuations sound.
LEMMA Continue ==
    ASSUME NEW c \in Callers, work[c] # <<>>, NEW ops \in Seq(SoundOps), Then(c, ops)
    PROVE  GoesOn(c)
BY DEF GoesOn

LEMMA GoesOnType ==
    ASSUME IInv, NEW c \in Callers, GoesOn(c) PROVE work' \in [Callers -> Seq(SoundOps)]
<1>1. work \in [Callers -> Seq(SoundOps)]
  BY DEF IInv
<1>. QED BY <1>1, ThenType DEF GoesOn, Then

\* A mapped sequence is a sequence.
LEMMA MapIsSeq ==
    ASSUME NEW S, NEW T, NEW s \in Seq(S), NEW r, DOMAIN r = DOMAIN s,
           r = [i \in DOMAIN s |-> r[i]], \A i \in DOMAIN s : r[i] \in T
    PROVE  r \in Seq(T)
<1>1. Len(s) \in Nat /\ DOMAIN s = 1 .. Len(s)
  BY LenProperties
<1>2. r \in [1 .. Len(s) -> T]
  BY <1>1
<1>. QED BY <1>1, <1>2, SeqDef

\* Closing the active entries of a task leaves a queue of entries.
LEMMA FailActiveType ==
    ASSUME NEW q \in Seq(Entries), NEW t \in Tasks
    PROVE  FailActive(q, t) \in Seq(Entries)
<1>1. \A i \in DOMAIN q : q[i] \in Entries
  BY ElementOfSeq, LenProperties
<1>2. \A i \in DOMAIN q : FailActive(q, t)[i] \in Entries
  BY <1>1 DEF FailActive, Entries, QueueStatuses
<1>3. FailActive(q, t) = [i \in DOMAIN q |-> FailActive(q, t)[i]]
  BY DEF FailActive
<1>. QED BY <1>2, <1>3, MapIsSeq DEF FailActive

\* A load never goes below zero: it is GREATEST(0, ...) in the SQL.
LEMMA DropLoadType ==
    ASSUME NEW ld \in [Agents -> Nat], NEW q, NEW t \in Tasks
    PROVE  DropLoad(ld, q, t) \in [Agents -> Nat]
BY DEF DropLoad

-----------------------------------------------------------------------------
(* The steps of a goroutine preserve the invariant.                        *)

LEMMA readTaskSnapshotInv ==
    ASSUME Tables, NEW c \in Callers, SoundHead(c), readTaskSnapshot(c) PROVE Tables' /\ GoesOn(c)
<1>. DEFINE o == Head(work[c])
            row == task[o.task]
            s == [status |-> row.status, assignee |-> row.assignee, loops |-> row.loops]
            resolve == [op |-> "resolve", task |-> o.task, snap |-> s,
                        summary |-> o.summary, attempt |-> o.attempt]
            write == [op |-> "write", task |-> o.task, snap |-> s, to |-> o.to, asked |-> o.to,
                      summary |-> o.summary, attempt |-> o.attempt]
            ops == IF row.deleted \/ row.status = o.to \/ ~transitionValid(row.status, o.to)
                   THEN <<>> ELSE IF o.to = "completed" THEN <<resolve>> ELSE <<write>>
<1>1. work[c] # <<>> /\ o.op = "transition"
  BY DEF readTaskSnapshot, Doing
<1>2. o \in TransitionOps
  BY <1>1, HeadIsSound, OpTypes
<1>3. s \in Snapshots
  BY <1>2 DEF Tables, Rows, Snapshots, TransitionOps
<1>4. row.status = s.status
  OBVIOUS
<1>5. o.to = "completed" /\ transitionValid(row.status, o.to) => resolve \in SoundOps
  <2>1. resolve \in ResolveOps
    BY <1>2, <1>3 DEF TransitionOps, ResolveOps
  <2>2. o.to = "completed" /\ transitionValid(row.status, o.to) => Sound(resolve)
    BY <1>4 DEF Sound
  <2>. QED BY <2>1, <2>2 DEF SoundOps, Ops
<1>6. o.to # "completed" /\ transitionValid(row.status, o.to) => write \in SoundOps
  <2>1. write \in WriteOps
    BY <1>2, <1>3 DEF TransitionOps, WriteOps
  <2>2. o.to # "completed" /\ transitionValid(row.status, o.to) => Sound(write)
    BY <1>4 DEF Sound, StatusMove
  <2>. QED BY <2>1, <2>2 DEF SoundOps, Ops
<1>7. ops \in Seq(SoundOps)
  BY <1>5, <1>6, ShortSeqs
<1>8. Then(c, ops)
  BY DEF readTaskSnapshot
<1>9. GoesOn(c)
  BY <1>1, <1>7, <1>8, Continue
<1>. QED BY <1>9 DEF readTaskSnapshot, Tables, CompletedNeverStored

\* The targets a completion may be resolved to.
LEMMA CompletionTargetsType ==
    ASSUME NEW t \in Tasks, NEW summary
    PROVE  CompletionTargets(t, summary) \subseteq {"review", "done"}
BY DEF CompletionTargets

LEMMA resolveCompletionTargetInv ==
    ASSUME Tables, NEW c \in Callers, SoundHead(c), resolveCompletionTarget(c) PROVE Tables' /\ GoesOn(c)
<1>. DEFINE o == Head(work[c])
            write(to) == [op |-> "write", task |-> o.task, snap |-> o.snap, to |-> to,
                          asked |-> "completed", summary |-> o.summary, attempt |-> o.attempt]
<1>1. work[c] # <<>> /\ o.op = "resolve"
  BY DEF resolveCompletionTarget, Doing
<1>2. o \in ResolveOps /\ transitionValid(o.snap.status, "completed")
  BY <1>1, HeadIsSound, OpTypes DEF Sound
<1>3. PICK to \in CompletionTargets(o.task, o.summary) : Then(c, <<write(to)>>)
  BY DEF resolveCompletionTarget
<1>4. to \in {"review", "done"}
  BY <1>2, <1>3, CompletionTargetsType DEF ResolveOps
<1>5. write(to) \in SoundOps
  <2>1. write(to) \in WriteOps
    BY <1>2, <1>4 DEF ResolveOps, WriteOps, Statuses
  <2>2. Sound(write(to))
    BY <1>2, <1>4 DEF Sound, StatusMove
  <2>. QED BY <2>1, <2>2 DEF SoundOps, Ops
<1>6. GoesOn(c)
  BY <1>1, <1>3, <1>5, ShortSeqs, Continue
<1>. QED BY <1>6 DEF resolveCompletionTarget, Tables, CompletedNeverStored

LEMMA writeStatusInv ==
    ASSUME Tables, NEW c \in Callers, SoundHead(c), writeStatus(c) PROVE Tables' /\ GoesOn(c)
<1>. DEFINE o == Head(work[c])
            retry == [Transition(o.task, o.asked, o.summary) EXCEPT !.attempt = o.attempt + 1]
<1>1. work[c] # <<>> /\ o.op = "write"
  BY DEF writeStatus, Doing
<1>2. o \in WriteOps /\ StatusMove(o.snap.status, o.to)
  BY <1>1, HeadIsSound, OpTypes DEF Sound
<1>3. CASE /\ task' = [task EXCEPT ![o.task].status = o.to]
           /\ Then(c, SideEffects(o.task, o.snap, o.to))
  <2>1. SideEffects(o.task, o.snap, o.to) \in Seq(SoundOps)
    BY <1>2, SideEffectsType DEF WriteOps
  <2>2. GoesOn(c)
    BY <1>1, <1>3, <2>1, Continue
  <2>3. task' \in [Tasks -> Rows]
    <3>1. o.task \in Tasks /\ o.to \in Statuses /\ task \in [Tasks -> Rows]
      BY <1>2 DEF WriteOps, Tables
    <3>2. [task[o.task] EXCEPT !.status = o.to] \in Rows
      BY <3>1 DEF Rows
    <3>. QED BY <1>3, <3>1, <3>2
  <2>4. CompletedNeverStored'
    BY <1>2, <1>3 DEF Tables, CompletedNeverStored, StatusMove, WriteOps, Rows
  <2>. QED BY <2>2, <2>3, <2>4 DEF writeStatus, Tables
<1>4. CASE /\ Then(c, IF o.attempt < maxRetries - 1 THEN <<retry>> ELSE <<>>)
           /\ UNCHANGED task
  <2>1. o.attempt < maxRetries - 1 => o.attempt + 1 \in 0 .. maxRetries - 1
    BY <1>2 DEF WriteOps, maxRetries
  <2>2. o.attempt < maxRetries - 1 => retry \in SoundOps
    BY <1>2, <2>1, SoundByName DEF WriteOps
  <2>3. (IF o.attempt < maxRetries - 1 THEN <<retry>> ELSE <<>>) \in Seq(SoundOps)
    BY <2>2, ShortSeqs
  <2>4. GoesOn(c)
    BY <1>1, <1>4, <2>3, Continue
  <2>. QED BY <1>4, <2>4 DEF writeStatus, Tables, CompletedNeverStored
<1>. QED BY <1>3, <1>4 DEF writeStatus

LEMMA tryAutoDispatchInv ==
    ASSUME Tables, NEW c \in Callers, SoundHead(c), tryAutoDispatch(c) \/ createReviewQueue(c) PROVE Tables' /\ GoesOn(c)
<1>. DEFINE o == Head(work[c])
            insert == <<ForAgent("insert", o.task, o.agent), [op |-> "bump", agent |-> o.agent]>>
<1>1. work[c] # <<>> /\ o.op \in {"dispatch", "reviewQueue"}
  BY DEF tryAutoDispatch, createReviewQueue, Doing
<1>2. o \in AgentOps
  BY <1>1, HeadIsSound, OpTypes
<1>3. insert \in Seq(SoundOps) /\ <<>> \in Seq(SoundOps)
  <2>1. ForAgent("insert", o.task, o.agent) \in SoundOps /\ [op |-> "bump", agent |-> o.agent] \in SoundOps
    BY <1>2, SoundByName DEF AgentOps
  <2>. QED BY <2>1, ShortSeqs
<1>4. Then(c, insert) \/ Then(c, <<>>)
  BY DEF tryAutoDispatch, createReviewQueue
<1>5. GoesOn(c)
  BY <1>1, <1>3, <1>4, Continue
<1>6. UNCHANGED <<task, queue, load, enabled, guard, calls>>
  BY DEF tryAutoDispatch, createReviewQueue
<1>. QED BY <1>5, <1>6 DEF Tables, CompletedNeverStored

LEMMA insertQueueEntryInv ==
    ASSUME Tables, NEW c \in Callers, SoundHead(c), insertQueueEntry(c) PROVE Tables' /\ GoesOn(c)
<1>. DEFINE o == Head(work[c])
            e == [task |-> o.task, agent |-> o.agent, status |-> "queued"]
<1>1. work[c] # <<>> /\ o.op = "insert"
  BY DEF insertQueueEntry, Doing
<1>2. o \in AgentOps
  BY <1>1, HeadIsSound, OpTypes
<1>3. e \in Entries
  BY <1>2 DEF AgentOps, Entries, QueueStatuses
<1>4. queue' \in Seq(Entries)
  BY <1>3, AppendProperties DEF insertQueueEntry, Tables
<1>5. GoesOn(c)
  BY <1>1, ShortSeqs, Continue DEF insertQueueEntry
<1>. QED BY <1>4, <1>5 DEF insertQueueEntry, Tables, CompletedNeverStored

LEMMA bumpLoadInv ==
    ASSUME Tables, NEW c \in Callers, SoundHead(c), bumpLoad(c) PROVE Tables' /\ GoesOn(c)
<1>1. work[c] # <<>> /\ Head(work[c]).op = "bump"
  BY DEF bumpLoad, Doing
<1>2. Head(work[c]).agent \in Agents
  BY <1>1, HeadIsSound, OpTypes DEF BumpOps
<1>3. load' \in [Agents -> Nat]
  BY <1>2 DEF bumpLoad, Tables
<1>4. GoesOn(c)
  BY <1>1, ShortSeqs, Continue DEF bumpLoad
<1>. QED BY <1>3, <1>4 DEF bumpLoad, Tables, CompletedNeverStored

LEMMA readPendingActionsInv ==
    ASSUME Tables, NEW c \in Callers, SoundHead(c), readPendingActions(c) PROVE Tables' /\ GoesOn(c)
<1>. DEFINE t == Head(work[c]).task
            release == [op |-> "release", task |-> t, actions |-> task[t].pending]
<1>1. work[c] # <<>> /\ Head(work[c]).op = "pending"
  BY DEF readPendingActions, Doing
<1>2. t \in Tasks
  BY <1>1, HeadIsSound, OpTypes DEF TaskOps
<1>3. release \in SoundOps
  <2>1. release \in ReleaseOps
    BY <1>2 DEF ReleaseOps, Tables, Rows
  <2>. QED BY <2>1, SoundByName
<1>4. Then(c, <<release>>) \/ Then(c, <<>>)
  BY DEF readPendingActions
<1>5. GoesOn(c)
  BY <1>1, <1>3, <1>4, ShortSeqs, Continue
<1>. QED BY <1>5 DEF readPendingActions, Tables, CompletedNeverStored

\* The entries of the dispatches that were held back.
LEMMA ReleasedEntries ==
    ASSUME Tables, NEW c \in Callers, SoundHead(c), processPendingActions(c)
    PROVE  \E new \in Seq(Entries) : queue' = FailActive(queue \o new, Head(work[c]).task)
<1>. DEFINE o == Head(work[c])
            acts == o.actions
            entry(x) == [task |-> IF x.type = "create_sub_task" THEN x.sub ELSE o.task,
                         agent |-> x.agent, status |-> "queued"]
            new == [i \in DOMAIN acts |-> entry(acts[i])]
<1>1. work[c] # <<>> /\ o.op = "release"
  BY DEF processPendingActions, Doing
<1>2. o.task \in Tasks /\ acts \in Seq(Actions)
  BY <1>1, HeadIsSound, OpTypes DEF ReleaseOps
<1>3. \A i \in DOMAIN acts : acts[i] \in Actions
  BY <1>2, ElementOfSeq, LenProperties
<1>4. \A x \in Actions : entry(x) \in Entries
  BY <1>2 DEF Actions, Entries, QueueStatuses
<1>5. \A i \in DOMAIN acts : new[i] \in Entries
  BY <1>3, <1>4
<1>6. new \in Seq(Entries)
  BY <1>2, <1>5, MapIsSeq
<1>7. queue' = FailActive(queue \o new, o.task)
  BY DEF processPendingActions
<1>. QED BY <1>6, <1>7

LEMMA processPendingActionsInv ==
    ASSUME Tables, NEW c \in Callers, SoundHead(c), processPendingActions(c) PROVE Tables' /\ GoesOn(c)
<1>. DEFINE o == Head(work[c])
            acts == o.actions
            of(a) == {i \in DOMAIN acts : acts[i].agent = a}
            ld == [a \in Agents |-> load[a] + Cardinality(of(a))]
<1>1. work[c] # <<>> /\ o.op = "release"
  BY DEF processPendingActions, Doing
<1>2. o.task \in Tasks /\ acts \in Seq(Actions)
  BY <1>1, HeadIsSound, OpTypes DEF ReleaseOps
<1>3. \A a \in Agents : Cardinality(of(a)) \in Nat
  <2>1. IsFiniteSet(DOMAIN acts)
    BY <1>2, LenProperties, FS_Interval
  <2>. QED BY <2>1, FS_Subset, FS_CardinalityType
<1>4. ld \in [Agents -> Nat]
  <2>1. load \in [Agents -> Nat]
    BY DEF Tables
  <2>. HIDE DEF of
  <2>. QED BY <1>3, <2>1
<1>5. load' \in [Agents -> Nat]
  BY <1>2, <1>4, DropLoadType DEF processPendingActions
<1>6. queue' \in Seq(Entries)
  <2>1. PICK new \in Seq(Entries) : queue' = FailActive(queue \o new, o.task)
    BY ReleasedEntries
  <2>2. queue \o new \in Seq(Entries)
    BY ConcatProperties DEF Tables
  <2>. QED BY <1>2, <2>1, <2>2, FailActiveType
<1>7. task' \in [Tasks -> Rows] /\ CompletedNeverStored'
  <2>1. task' = [task EXCEPT ![o.task].pending = <<>>, ![o.task].assignee = NoAgent]
    BY DEF processPendingActions
  <2>2. task[o.task] \in Rows /\ task \in [Tasks -> Rows]
    BY <1>2 DEF Tables
  <2>3. <<>> \in Seq(Actions)
    BY EmptySeq
  <2>4. [task[o.task] EXCEPT !.pending = <<>>, !.assignee = NoAgent] \in Rows
    BY <2>2, <2>3 DEF Rows
  <2>5. \A t \in Tasks : task'[t].status = task[t].status
    BY <2>1, <2>2 DEF Rows
  <2>. QED BY <1>2, <2>1, <2>2, <2>4, <2>5 DEF Tables, CompletedNeverStored
<1>8. GoesOn(c)
  BY <1>1, ShortSeqs, Continue DEF processPendingActions
<1>. QED BY <1>5, <1>6, <1>7, <1>8 DEF processPendingActions, Tables

LEMMA dropLoadOfTaskInv ==
    ASSUME Tables, NEW c \in Callers, SoundHead(c), dropLoadOfTask(c) PROVE Tables' /\ GoesOn(c)
<1>1. work[c] # <<>> /\ Head(work[c]).op = "dropLoad"
  BY DEF dropLoadOfTask, Doing
<1>2. Head(work[c]).task \in Tasks
  BY <1>1, HeadIsSound, OpTypes DEF TaskOps
<1>3. load' \in [Agents -> Nat]
  BY <1>2, DropLoadType DEF dropLoadOfTask, Tables
<1>4. GoesOn(c)
  BY <1>1, ShortSeqs, Continue DEF dropLoadOfTask
<1>. QED BY <1>3, <1>4 DEF dropLoadOfTask, Tables, CompletedNeverStored

LEMMA failEntriesOfTaskInv ==
    ASSUME Tables, NEW c \in Callers, SoundHead(c), failEntriesOfTask(c) PROVE Tables' /\ GoesOn(c)
<1>1. work[c] # <<>> /\ Head(work[c]).op = "failActive"
  BY DEF failEntriesOfTask, Doing
<1>2. Head(work[c]).task \in Tasks
  BY <1>1, HeadIsSound, OpTypes DEF TaskOps
<1>3. queue' \in Seq(Entries)
  BY <1>2, FailActiveType DEF failEntriesOfTask, Tables
<1>4. GoesOn(c)
  BY <1>1, ShortSeqs, Continue DEF failEntriesOfTask
<1>. QED BY <1>3, <1>4 DEF failEntriesOfTask, Tables, CompletedNeverStored

LEMMA countLoopInv ==
    ASSUME Tables, NEW c \in Callers, SoundHead(c), countLoop(c) PROVE Tables' /\ GoesOn(c)
<1>. DEFINE o == Head(work[c])
<1>1. work[c] # <<>> /\ o.op = "loops"
  BY DEF countLoop, Doing
<1>2. o \in LoopOps
  BY <1>1, HeadIsSound, OpTypes
<1>3. task' \in [Tasks -> Rows] /\ CompletedNeverStored'
  <2>1. task[o.task] \in Rows /\ task \in [Tasks -> Rows] /\ o.task \in Tasks /\ o.count \in Nat
    BY <1>2 DEF Tables, LoopOps
  <2>2. [task[o.task] EXCEPT !.loops = o.count] \in Rows
    BY <2>1 DEF Rows
  <2>3. task' = [task EXCEPT ![o.task].loops = o.count]
    BY DEF countLoop
  <2>4. \A t \in Tasks : task'[t].status = task[t].status
    BY <2>1, <2>3 DEF Rows
  <2>. QED BY <2>1, <2>2, <2>3, <2>4 DEF Tables, CompletedNeverStored
<1>4. Transition(o.task, "stuck", FALSE) \in SoundOps
  BY <1>2, SoundByName DEF LoopOps, Statuses
<1>5. o.agent # NoAgent => ForAgent("reviewQueue", o.task, o.agent) \in SoundOps
  BY <1>2, SoundByName DEF LoopOps
<1>6. GoesOn(c)
  <2>1. CASE AtLimit(o.count)
    BY <1>1, <1>4, <2>1, ShortSeqs, Continue DEF countLoop
  <2>2. CASE ~(AtLimit(o.count)) /\ o.agent # NoAgent
    BY <1>1, <1>5, <2>2, ShortSeqs, Continue DEF countLoop
  <2>3. CASE ~(AtLimit(o.count)) /\ o.agent = NoAgent
    BY <1>1, <2>3, ShortSeqs, Continue DEF countLoop
  <2>. QED BY <2>1, <2>2, <2>3
<1>. QED BY <1>3, <1>6 DEF countLoop, Tables

LEMMA enterOnTaskCompletedInv ==
    ASSUME Tables, NEW c \in Callers, SoundHead(c), enterOnTaskCompleted(c) PROVE Tables' /\ GoesOn(c)
<1>. DEFINE t == Head(work[c]).task
<1>1. work[c] # <<>> /\ Head(work[c]).op = "dag"
  BY DEF enterOnTaskCompleted, Doing
<1>2. t \in Tasks
  BY <1>1, HeadIsSound, OpTypes DEF TaskOps
<1>3. <<On("gather", t), On("leave", t)>> \in Seq(SoundOps) /\ <<>> \in Seq(SoundOps)
  BY <1>2, SoundByName, ShortSeqs
<1>4. Then(c, <<>>) \/ Then(c, <<On("gather", t), On("leave", t)>>)
  BY DEF enterOnTaskCompleted
<1>5. GoesOn(c)
  BY <1>1, <1>3, <1>4, Continue
<1>6. guard' \in SUBSET Tasks
  BY <1>2 DEF enterOnTaskCompleted, Tables, Busy
<1>. QED BY <1>5, <1>6 DEF enterOnTaskCompleted, Tables, CompletedNeverStored

\* The reads of gatherDAGTransitions and checkParentAutoCloseLocked.
Gathers(c) == gatherDAGTransitions(c) \/ checkDependents(c) \/ checkSiblings(c) \/ readParent(c)

Gathered == CheckOps \cup ParentOps \cup AdvanceOps

\* The tasks that such an operation may unblock, and those its predecessor leaves it.
Listed(o) == IF o.op = "check" THEN o.left \cup o.unblock ELSE o.unblock
LeftBy(h) == IF h.op = "gather" THEN Dependents(h.task) ELSE Listed(h)

\* Each puts one operation about the same task in the place of the head, and adds
\* no task to those listed.
LEMMA GathersOn ==
    ASSUME NEW c \in Callers, SoundHead(c), Gathers(c)
    PROVE  /\ work[c] # <<>> /\ Head(work[c]).op \in {"gather", "check", "siblings", "parent"}
           /\ Head(work[c]).task \in Tasks
           /\ \E o \in Gathered : /\ o.task = Head(work[c]).task /\ Then(c, <<o>>)
                                  /\ Listed(o) \subseteq LeftBy(Head(work[c]))
           /\ UNCHANGED <<task, queue, load, enabled, guard, calls>>
<1>. DEFINE h == Head(work[c])
            t == h.task
            p == Parent[t]
            Goes == \E o \in Gathered : o.task = t /\ Then(c, <<o>>) /\ Listed(o) \subseteq LeftBy(h)
<1>1. work[c] # <<>> /\ h.op \in {"gather", "check", "siblings", "parent"}
  BY DEF Gathers, gatherDAGTransitions, checkDependents, checkSiblings, readParent, Doing
<1>2. UNCHANGED <<task, queue, load, enabled, guard, calls>>
  BY DEF Gathers, gatherDAGTransitions, checkDependents, checkSiblings, readParent
<1>3. h \in Ops
  BY HeadIsSound
<1>4. /\ h.op = "gather" => h \in TaskOps
      /\ h.op = "check" => h \in CheckOps
      /\ h.op \in {"siblings", "parent"} => h \in ParentOps
  BY <1>3, OpTypes
<1>5. t \in Tasks
  BY <1>1, <1>4 DEF TaskOps, CheckOps, ParentOps
<1>6. p \in Tasks \cup {NoTask}
  BY <1>5, TaskAssumption
<1>7. ASSUME h.op # "gather", h.unblock \in SUBSET Tasks, NEW q \in Tasks \cup {NoTask},
             NEW to \in {"review", "done"}, Then(c, <<Advance(t, h.unblock, q, to)>>)
      PROVE  Goes
  <2>. DEFINE o == Advance(t, h.unblock, q, to)
  <2>1. o \in Gathered /\ o.task = t /\ Listed(o) = h.unblock
    BY <1>5, <1>7 DEF Gathered, Advance, AdvanceOps, Listed
  <2>2. Listed(o) \subseteq LeftBy(h)
    BY <1>7, <2>1 DEF LeftBy, Listed
  <2>. QED BY <1>7, <2>1, <2>2
<1>8. CASE gatherDAGTransitions(c)
  <2>. DEFINE o == [op |-> "check", task |-> t, left |-> Dependents(t), unblock |-> {}]
  <2>1. Dependents(t) \in SUBSET Tasks
    BY TaskAssumption DEF Dependents
  <2>2. o \in Gathered /\ o.task = t /\ Listed(o) = Dependents(t)
    BY <1>5, <2>1 DEF Gathered, CheckOps, Listed
  <2>3. Then(c, <<o>>) /\ LeftBy(h) = Dependents(t)
    BY <1>8 DEF gatherDAGTransitions, Doing, LeftBy
  <2>. QED BY <1>1, <1>2, <1>5, <2>2, <2>3
<1>9. CASE checkDependents(c)
  <2>1. h \in CheckOps /\ h.op = "check" /\ h.unblock \in SUBSET Tasks
    BY <1>4, <1>9 DEF checkDependents, Doing, CheckOps
  <2>2. ASSUME NEW d \in h.left,
               Then(c, <<[h EXCEPT !.left = @ \ {d},
                                   !.unblock = IF AllDone(d) THEN @ \cup {d} ELSE @]>>)
        PROVE  Goes
    <3>. DEFINE o == [h EXCEPT !.left = @ \ {d}, !.unblock = IF AllDone(d) THEN @ \cup {d} ELSE @]
    <3>1. o \in CheckOps /\ o.task = t /\ Listed(o) \subseteq LeftBy(h)
      BY <2>1 DEF CheckOps, Listed, LeftBy
    <3>. QED BY <2>2, <3>1 DEF Gathered
  <2>3. ASSUME Then(c, IF task[t].deleted \/ Parent[t] = NoTask
                       THEN <<Advance(t, h.unblock, NoTask, "done")>>
                       ELSE <<[op |-> "siblings", task |-> t, unblock |-> h.unblock]>>)
        PROVE  Goes
    <3>. DEFINE o == [op |-> "siblings", task |-> t, unblock |-> h.unblock]
    <3>1. o \in Gathered /\ o.task = t /\ Listed(o) \subseteq LeftBy(h)
      BY <1>5, <2>1 DEF Gathered, ParentOps, Listed, LeftBy
    <3>2. Then(c, <<Advance(t, h.unblock, NoTask, "done")>>) \/ Then(c, <<o>>)
      BY <2>3
    <3>. QED BY <1>7, <2>1, <3>1, <3>2
  <2>4. Goes
    BY <1>9, <2>2, <2>3 DEF checkDependents
  <2>. QED BY <1>1, <1>2, <1>5, <2>4
<1>10. CASE checkSiblings(c)
  <2>. DEFINE o == [op |-> "parent", task |-> t, unblock |-> h.unblock]
  <2>1. h \in ParentOps /\ h.op = "siblings" /\ h.unblock \in SUBSET Tasks
    BY <1>4, <1>10 DEF checkSiblings, Doing, ParentOps
  <2>2. o \in Gathered /\ o.task = t /\ Listed(o) \subseteq LeftBy(h)
    BY <1>5, <2>1 DEF Gathered, ParentOps, Listed, LeftBy
  <2>3. Then(c, <<o>>) \/ Then(c, <<Advance(t, h.unblock, NoTask, "done")>>)
    BY <1>10 DEF checkSiblings
  <2>. QED BY <1>1, <1>2, <1>5, <1>7, <2>1, <2>2, <2>3
<1>11. CASE readParent(c)
  <2>. DEFINE to == IF "approved" \in task[p].plans THEN "review" ELSE "done"
  <2>1. h \in ParentOps /\ h.op = "parent" /\ h.unblock \in SUBSET Tasks
    BY <1>4, <1>11 DEF readParent, Doing, ParentOps
  <2>2. to \in {"review", "done"}
    OBVIOUS
  <2>3. \/ Then(c, <<Advance(t, h.unblock, NoTask, "done")>>)
        \/ Then(c, <<Advance(t, h.unblock, p, to)>>)
    BY <1>11 DEF readParent
  <2>. HIDE DEF to
  <2>. QED BY <1>1, <1>2, <1>5, <1>6, <1>7, <2>1, <2>2, <2>3
<1>. QED BY <1>8, <1>9, <1>10, <1>11 DEF Gathers

LEMMA GathersInv ==
    ASSUME Tables, NEW c \in Callers, SoundHead(c), Gathers(c) PROVE Tables' /\ GoesOn(c)
<1>1. PICK o \in Gathered : Then(c, <<o>>)
  BY GathersOn
<1>2. work[c] # <<>> /\ UNCHANGED <<task, queue, load, enabled, guard, calls>>
  BY GathersOn
<1>3. o \in SoundOps
  BY SoundByName DEF Gathered
<1>4. GoesOn(c)
  BY <1>1, <1>2, <1>3, ShortSeqs, Continue
<1>. QED BY <1>2, <1>4 DEF Tables, CompletedNeverStored

LEMMA applyDAGTransitionsInv ==
    ASSUME Tables, NEW c \in Callers, SoundHead(c), applyDAGTransitions(c) PROVE Tables' /\ GoesOn(c)
<1>. DEFINE o == Head(work[c])
<1>1. work[c] # <<>> /\ o.op = "advance"
  BY DEF applyDAGTransitions, Doing
<1>2. o \in AdvanceOps
  BY <1>1, HeadIsSound, OpTypes
<1>3. ASSUME NEW d \in o.unblock,
             Then(c, <<Transition(d, "todo", FALSE), After(o, d)>>)
      PROVE  GoesOn(c)
  <2>1. After(o, d) \in AdvanceOps
    BY <1>2 DEF AdvanceOps, After
  <2>2. After(o, d) \in SoundOps
    BY <2>1, SoundByName
  <2>3. Transition(d, "todo", FALSE) \in SoundOps
    BY <1>2, SoundByName DEF AdvanceOps, Statuses
  <2>. QED BY <1>1, <1>3, <2>2, <2>3, ShortSeqs, Continue
<1>4. ASSUME Then(c, IF o.parent = NoTask THEN <<>> ELSE <<Transition(o.parent, o.to, FALSE)>>)
      PROVE  GoesOn(c)
  <2>1. o.parent # NoTask => Transition(o.parent, o.to, FALSE) \in SoundOps
    BY <1>2, SoundByName DEF AdvanceOps, Statuses
  <2>2. CASE o.parent = NoTask
    BY <1>1, <1>4, <2>2, ShortSeqs, Continue
  <2>3. CASE o.parent # NoTask
    BY <1>1, <1>4, <2>1, <2>3, ShortSeqs, Continue
  <2>. QED BY <2>2, <2>3
<1>5. GoesOn(c)
  BY <1>3, <1>4 DEF applyDAGTransitions
<1>. QED BY <1>5 DEF applyDAGTransitions, Tables, CompletedNeverStored

LEMMA leaveOnTaskCompletedInv ==
    ASSUME Tables, NEW c \in Callers, SoundHead(c), leaveOnTaskCompleted(c) PROVE Tables' /\ GoesOn(c)
<1>1. work[c] # <<>>
  BY DEF leaveOnTaskCompleted, Doing
<1>2. GoesOn(c)
  BY <1>1, ShortSeqs, Continue DEF leaveOnTaskCompleted
<1>. QED BY <1>2 DEF leaveOnTaskCompleted, Tables, CompletedNeverStored

LEMMA evaluateRulesInv ==
    ASSUME Tables, NEW c \in Callers, SoundHead(c), evaluateRules(c) PROVE Tables' /\ GoesOn(c)
<1>. DEFINE t == Head(work[c]).task
            acts == RuleActions[t]
            ops == [i \in DOMAIN acts |-> IF acts[i] = "assign_user" THEN On("unassign", t)
                                          ELSE Transition(t, acts[i], FALSE)]
<1>1. work[c] # <<>> /\ Head(work[c]).op = "rules"
  BY DEF evaluateRules, Doing
<1>2. t \in Tasks
  BY <1>1, HeadIsSound, OpTypes DEF TaskOps
<1>3. acts \in Seq(Statuses \cup {"assign_user"})
  BY <1>2, TaskAssumption
<1>4. \A i \in DOMAIN acts : acts[i] \in Statuses \cup {"assign_user"}
  BY <1>3, ElementOfSeq, LenProperties
<1>5. \A i \in DOMAIN acts : ops[i] \in SoundOps
  BY <1>2, <1>4, SoundByName
<1>6. ops \in Seq(SoundOps)
  BY <1>3, <1>5, MapIsSeq
<1>7. GoesOn(c)
  BY <1>1, <1>6, Continue DEF evaluateRules
<1>. QED BY <1>7 DEF evaluateRules, Tables, CompletedNeverStored

LEMMA assignUserInv ==
    ASSUME Tables, NEW c \in Callers, SoundHead(c), assignUser(c) PROVE Tables' /\ GoesOn(c)
<1>. DEFINE t == Head(work[c]).task
<1>1. work[c] # <<>> /\ Head(work[c]).op = "unassign"
  BY DEF assignUser, Doing
<1>2. t \in Tasks
  BY <1>1, HeadIsSound, OpTypes DEF TaskOps
<1>3. task' \in [Tasks -> Rows] /\ CompletedNeverStored'
  <2>1. task[t] \in Rows /\ task \in [Tasks -> Rows]
    BY <1>2 DEF Tables
  <2>2. [task[t] EXCEPT !.assignee = NoAgent] \in Rows
    BY <2>1 DEF Rows
  <2>3. task' = [task EXCEPT ![t].assignee = NoAgent]
    BY DEF assignUser
  <2>4. \A x \in Tasks : task'[x].status = task[x].status
    BY <2>1, <2>3 DEF Rows
  <2>. QED BY <1>2, <2>1, <2>2, <2>3, <2>4 DEF Tables, CompletedNeverStored
<1>4. GoesOn(c)
  BY <1>1, ShortSeqs, Continue DEF assignUser
<1>. QED BY <1>3, <1>4 DEF assignUser, Tables

LEMMA StepHasHead ==
    ASSUME NEW c \in Callers, ServiceStep(c) PROVE work[c] # <<>> /\ Head(work[c]).op \in OpNames
BY DEF ServiceStep, Doing, OpNames, readTaskSnapshot, resolveCompletionTarget, writeStatus,
       tryAutoDispatch, createReviewQueue, insertQueueEntry, bumpLoad, readPendingActions,
       processPendingActions, dropLoadOfTask, failEntriesOfTask, countLoop, enterOnTaskCompleted,
       gatherDAGTransitions, checkDependents, checkSiblings, readParent, applyDAGTransitions,
       leaveOnTaskCompleted, evaluateRules, assignUser

LEMMA ServiceStepInv ==
    ASSUME Tables, NEW c \in Callers, SoundHead(c), ServiceStep(c) PROVE Tables' /\ GoesOn(c)
BY readTaskSnapshotInv, resolveCompletionTargetInv, writeStatusInv, tryAutoDispatchInv,
   insertQueueEntryInv, bumpLoadInv, readPendingActionsInv, processPendingActionsInv,
   dropLoadOfTaskInv, failEntriesOfTaskInv, countLoopInv, enterOnTaskCompletedInv,
   GathersInv, applyDAGTransitionsInv, leaveOnTaskCompletedInv,
   evaluateRulesInv, assignUserInv
   DEF ServiceStep, Gathers

-----------------------------------------------------------------------------
(* So do the requests.                                                     *)

\* A request that starts a transition.
LEMMA StartInv ==
    ASSUME Tables, NEW c \in Callers, NEW kind, Request(c, kind),
           NEW t \in Tasks, NEW to \in Statuses, NEW summary \in BOOLEAN,
           Start(c, <<Transition(t, to, summary)>>)
    PROVE  Tables' /\ Begins
<1>1. <<Transition(t, to, summary)>> \in Seq(SoundOps)
  BY SoundByName, ShortSeqs
<1>2. Begins
  BY <1>1 DEF Start, Request, Begins
<1>. QED BY <1>2 DEF Start, Request, Tables, CompletedNeverStored

LEMMA RequestsInv ==
    ASSUME Tables, Requests PROVE Tables' /\ (Begins \/ UNCHANGED work)
<1>1. ASSUME NEW c \in Callers, NEW t \in Tasks, NEW to \in UserStatuses, SetStatus(c, t, to)
      PROVE  Tables' /\ Begins
  BY <1>1, StartInv DEF SetStatus, UserStatuses, Statuses
<1>2. ASSUME NEW c \in Callers, NEW t \in Tasks, HandleReview(c, t)
      PROVE  Tables' /\ Begins
  <2>1. "done" \in Statuses /\ "in_progress" \in Statuses
    BY DEF Statuses
  <2>. QED BY <1>2, <2>1, StartInv DEF HandleReview
<1>3. ASSUME NEW c \in Callers, NEW t \in Tasks, NEW summary \in BOOLEAN,
             MarkCompleted(c, t, summary)
      PROVE  Tables' /\ Begins
  BY <1>3, StartInv DEF MarkCompleted, Statuses
<1>4. ASSUME NEW c \in Callers, NEW t \in Tasks, checkStuckTasks(c, t)
      PROVE  Tables' /\ Begins
  BY <1>4, StartInv DEF checkStuckTasks, Statuses
<1>5. ASSUME NEW c \in Callers, NEW t \in Tasks, Delete(c, t) \/ Restore(c, t)
      PROVE  Tables' /\ UNCHANGED work
  <2>1. PICK b \in BOOLEAN : task' = [task EXCEPT ![t].deleted = b]
    BY <1>5 DEF Delete, Restore
  <2>2. task \in [Tasks -> Rows] /\ task[t] \in Rows
    BY DEF Tables
  <2>3. [task[t] EXCEPT !.deleted = b] \in Rows
    BY <2>2 DEF Rows
  <2>4. \A x \in Tasks : task'[x].status = task[x].status
    BY <2>1, <2>2 DEF Rows
  <2>5. UNCHANGED <<queue, load, enabled, guard, work>> /\ calls' = calls + 1
    BY <1>5 DEF Delete, Restore, Request
  <2>6. task' \in [Tasks -> Rows] /\ CompletedNeverStored'
    BY <2>1, <2>2, <2>3, <2>4 DEF Tables, CompletedNeverStored
  <2>. QED BY <2>5, <2>6 DEF Tables
<1>. QED BY <1>1, <1>2, <1>3, <1>4, <1>5 DEF Requests

LEMMA RestartInv ==
    ASSUME Tables, Restart PROVE Tables' /\ work' = [c \in Callers |-> <<>>]
<1>. DEFINE of(a) == {i \in DOMAIN queue : queue[i].agent = a /\ Active(queue[i])}
<1>1. \A a \in Agents : Cardinality(of(a)) \in Nat
  <2>1. IsFiniteSet(DOMAIN queue)
    BY LenProperties, FS_Interval DEF Tables
  <2>. QED BY <2>1, FS_Subset, FS_CardinalityType
<1>2. load' = [a \in Agents |-> IF load[a] > 0 THEN Cardinality(of(a)) ELSE load[a]]
  BY DEF Restart
<1>3. load' \in [Agents -> Nat]
  <2>1. load \in [Agents -> Nat]
    BY DEF Tables
  <2>. HIDE DEF of
  <2>. QED BY <1>1, <1>2, <2>1
<1>. QED BY <1>3 DEF Restart, Tables, CompletedNeverStored

-----------------------------------------------------------------------------
(* The theorems.                                                           *)

LEMMA InitInv == Init => IInv
<1>. SUFFICES ASSUME Init PROVE IInv
  OBVIOUS
<1>1. work \in [Callers -> Seq(SoundOps)] /\ queue \in Seq(Entries)
  BY EmptySeq DEF Init
<1>. QED BY <1>1, InitAssumption, AgentAssumption, BoundAssumption DEF Init, IInv, Tables, CompletedNeverStored

LEMMA NextInv == IInv /\ [Next]_vars => IInv'
<1>. SUFFICES ASSUME IInv, [Next]_vars PROVE IInv'
  OBVIOUS
<1>1. CASE Requests
  <2>1. Tables' /\ (Begins \/ UNCHANGED work)
    BY <1>1, RequestsInv DEF IInv
  <2>. QED BY <2>1 DEF IInv, Begins
<1>2. CASE Restart
  <2>1. Tables' /\ work' = [c \in Callers |-> <<>>]
    BY <1>2, RestartInv DEF IInv
  <2>. QED BY <2>1, EmptySeq DEF IInv
<1>3. ASSUME NEW c \in Callers, ServiceStep(c) PROVE IInv'
  <2>1. work[c] # <<>>
    BY <1>3, StepHasHead
  <2>2. Tables' /\ GoesOn(c)
    BY <1>3, <2>1, HeadsAreSound, ServiceStepInv DEF IInv
  <2>. QED BY <2>2, GoesOnType DEF IInv
<1>4. CASE UNCHANGED vars
  BY <1>4 DEF vars, IInv, Tables, CompletedNeverStored
<1>. QED BY <1>1, <1>2, <1>3, <1>4 DEF Next, Environment

LEMMA SpecInv == Spec => []IInv
BY InitInv, NextInv, PTL DEF Spec

LEMMA InvTypeOK == IInv => TypeOK
<1>. SUFFICES ASSUME IInv PROVE TypeOK
  OBVIOUS
<1>1. ASSUME NEW c \in Callers PROVE work[c] \in Seq(Ops)
  <2>1. work[c] \in Seq(SoundOps)
    BY DEF IInv
  <2>. QED BY <2>1, SeqMonotonic DEF SoundOps
<1>2. work \in [Callers -> Seq(Ops)]
  BY <1>1 DEF IInv
<1>. QED BY <1>2 DEF IInv, Tables, TypeOK

\* The rows, the queue, the loads, the guard and every operation a goroutine
\* may hold keep their types: no load goes below zero, and no goroutine is left
\* with an operation the code has no case for.
THEOREM TypeCorrect == Spec => []TypeOK
BY SpecInv, InvTypeOK, PTL

\* Whatever the requests, the rules and the graph, and however the goroutines
\* interleave, crash and retry, "completed" is never written to the status
\* column: TransitionStatus resolves it first.
THEOREM NeverCompleted == Spec => []CompletedNeverStored
<1>1. IInv => CompletedNeverStored
  BY DEF IInv, Tables
<1>. QED BY <1>1, SpecInv, PTL

-----------------------------------------------------------------------------
(* TaskService implements TaskBoard.                                       *)

\* What the board shows.
column == [t \in Tasks |-> task[t].status]
trash == {t \in Tasks : task[t].deleted}

\* An operation of a goroutine moves at most one task, and moves it as the
\* snapshot it carries was validated for.
LEMMA ServiceStepMoves ==
    ASSUME Tables, NEW c \in Callers, SoundHead(c), ServiceStep(c)
    PROVE  \/ UNCHANGED <<column, trash>>
           \/ \E t \in Tasks, to \in Statuses :
                /\ t \notin trash /\ StatusMove(column[t], to)
                /\ column' = [column EXCEPT ![t] = to] /\ trash' = trash
<1>. DEFINE o == Head(work[c])
<1>1. task \in [Tasks -> Rows]
  BY DEF Tables
<1>2. CASE writeStatus(c) /\ Unmodified(o.task, o.snap)
  <2>1. o \in WriteOps /\ StatusMove(o.snap.status, o.to)
    BY <1>2, HeadIsSound, OpTypes DEF writeStatus, Doing, Sound
  <2>2. o.task \in Tasks /\ o.to \in Statuses
    BY <2>1 DEF WriteOps
  <2>3. task' = [task EXCEPT ![o.task].status = o.to]
    BY <1>2 DEF writeStatus
  <2>4. o.task \notin trash /\ StatusMove(column[o.task], o.to)
    BY <1>2, <2>1, <2>2 DEF Unmodified, column, trash
  <2>5. column' = [column EXCEPT ![o.task] = o.to]
    BY <1>1, <2>2, <2>3 DEF column, Rows
  <2>6. trash' = trash
    <3>1. \A t \in Tasks : task'[t].deleted = task[t].deleted
      BY <1>1, <2>3 DEF Rows
    <3>. QED BY <3>1 DEF trash
  <2>. QED BY <2>2, <2>4, <2>5, <2>6
<1>3. ASSUME \A t \in Tasks : task'[t].status = task[t].status /\ task'[t].deleted = task[t].deleted
      PROVE  UNCHANGED <<column, trash>>
  BY <1>3 DEF column, trash
<1>4. CASE \/ readTaskSnapshot(c) \/ resolveCompletionTarget(c)
           \/ tryAutoDispatch(c) \/ createReviewQueue(c) \/ insertQueueEntry(c) \/ bumpLoad(c)
           \/ readPendingActions(c) \/ dropLoadOfTask(c) \/ failEntriesOfTask(c)
           \/ enterOnTaskCompleted(c) \/ Gathers(c) \/ applyDAGTransitions(c)
           \/ leaveOnTaskCompleted(c) \/ evaluateRules(c)
           \/ writeStatus(c) /\ ~Unmodified(o.task, o.snap)
  <2>1. UNCHANGED task
    BY <1>4 DEF readTaskSnapshot, resolveCompletionTarget, tryAutoDispatch, createReviewQueue,
       insertQueueEntry, bumpLoad, readPendingActions, dropLoadOfTask, failEntriesOfTask,
       enterOnTaskCompleted, Gathers, gatherDAGTransitions, checkDependents, checkSiblings,
       readParent, applyDAGTransitions, leaveOnTaskCompleted, evaluateRules, writeStatus
  <2>. QED BY <1>3, <2>1
<1>5. CASE processPendingActions(c)
  <2>1. task' = [task EXCEPT ![o.task].pending = <<>>, ![o.task].assignee = NoAgent]
    BY <1>5 DEF processPendingActions
  <2>. QED BY <1>1, <1>3, <2>1 DEF Rows
<1>6. CASE countLoop(c)
  <2>1. task' = [task EXCEPT ![o.task].loops = o.count]
    BY <1>6 DEF countLoop
  <2>. QED BY <1>1, <1>3, <2>1 DEF Rows
<1>7. CASE assignUser(c)
  <2>1. task' = [task EXCEPT ![o.task].assignee = NoAgent]
    BY <1>7 DEF assignUser
  <2>. QED BY <1>1, <1>3, <2>1 DEF Rows
<1>. QED BY <1>2, <1>4, <1>5, <1>6, <1>7 DEF ServiceStep, Gathers

\* A request changes no status: it starts a goroutine, or trashes or restores a task.
LEMMA EnvironmentMoves ==
    ASSUME Tables, Environment
    PROVE  /\ UNCHANGED column
           /\ \/ UNCHANGED trash
              \/ \E t \in Tasks : t \notin trash /\ trash' = trash \cup {t}
              \/ \E t \in Tasks : trash' = trash \ {t}
<1>1. task \in [Tasks -> Rows]
  BY DEF Tables
<1>2. CASE UNCHANGED task
  BY <1>2 DEF column, trash
<1>3. ASSUME NEW c \in Callers, NEW t \in Tasks, Delete(c, t)
      PROVE  UNCHANGED column /\ t \notin trash /\ trash' = trash \cup {t}
  <2>1. task' = [task EXCEPT ![t].deleted = TRUE] /\ ~task[t].deleted
    BY <1>3 DEF Delete
  <2>2. UNCHANGED column
    BY <1>1, <2>1 DEF column, Rows
  <2>3. \A x \in Tasks : task'[x].deleted = (task[x].deleted \/ x = t)
    BY <1>1, <2>1 DEF Rows
  <2>. QED BY <2>1, <2>2, <2>3 DEF trash
<1>4. ASSUME NEW c \in Callers, NEW t \in Tasks, Restore(c, t)
      PROVE  UNCHANGED column /\ trash' = trash \ {t}
  <2>1. task' = [task EXCEPT ![t].deleted = FALSE]
    BY <1>4 DEF Restore
  <2>2. UNCHANGED column
    BY <1>1, <2>1 DEF column, Rows
  <2>3. \A x \in Tasks : task'[x].deleted = (task[x].deleted /\ x # t)
    BY <1>1, <2>1 DEF Rows
  <2>. QED BY <2>2, <2>3 DEF trash
<1>. QED BY <1>2, <1>3, <1>4
       DEF Environment, Requests, SetStatus, HandleReview, MarkCompleted, checkStuckTasks, Restart, Start

LEMMA InitIsBoard == Init => Board!BoardInit
<1>. SUFFICES ASSUME Init PROVE Board!BoardInit
  OBVIOUS
<1>1. task \in [Tasks -> Rows] /\ \A t \in Tasks : task[t].status # "completed"
  BY InitAssumption DEF Init
<1>. QED BY <1>1 DEF Board!BoardInit, Board!Statuses, Rows, Statuses

LEMMA ServiceStepIsBoard ==
    ASSUME Tables, NEW c \in Callers, SoundHead(c), ServiceStep(c)
    PROVE  [Board!BoardNext]_(Board!boardVars)
BY ServiceStepMoves
   DEF Board!BoardNext, Board!boardVars, Board!Move, Board!Statuses, Board!StatusMove,
       Board!transitionValid, Board!Transitions, column, trash,
       Statuses, StatusMove, transitionValid, Transitions

LEMMA EnvironmentIsBoard ==
    ASSUME Tables, Environment PROVE [Board!BoardNext]_(Board!boardVars)
BY EnvironmentMoves
   DEF Board!BoardNext, Board!boardVars, Board!Trash, Board!Untrash, column, trash

\* Every task moves along the table of transitionValid, one task and one
\* transition at a time, and never while it is in the trash, for any number of
\* racing requests, tasks, rules and dependencies.
THEOREM Implementation == Spec => ImplementsBoard
<1>1. IInv /\ [Next]_vars => [Board!BoardNext]_(Board!boardVars)
  <2>. SUFFICES ASSUME IInv, [Next]_vars PROVE [Board!BoardNext]_(Board!boardVars)
    OBVIOUS
  <2>1. ASSUME NEW c \in Callers, ServiceStep(c) PROVE [Board!BoardNext]_(Board!boardVars)
    <3>1. SoundHead(c)
      BY <2>1, StepHasHead, HeadsAreSound
    <3>. QED BY <2>1, <3>1, ServiceStepIsBoard DEF IInv
  <2>2. CASE Environment
    BY <2>2, EnvironmentIsBoard DEF IInv
  <2>3. CASE UNCHANGED vars
    BY <2>3 DEF vars, Board!boardVars
  <2>. QED BY <2>1, <2>2, <2>3 DEF Next
<1>. QED BY <1>1, InitIsBoard, SpecInv, PTL DEF Spec, ImplementsBoard, Board!BoardSpec
=============================================================================
