----------------------- MODULE TaskServiceGuard_proofs -----------------------
(***************************************************************************)
(* What holds of any number of goroutines because of what they have still  *)
(* to do, and how many of them have it to do.                              *)
(*                                                                         *)
(* First, the re-entrancy guard of the DAG engine, for every depth of the  *)
(* recursion: a task is in guard exactly while one goroutine, and only     *)
(* one, has the unlock of its OnTaskCompleted before it.  The unlocks are  *)
(* positions in the continuations.  A step of a goroutine puts new         *)
(* operations in the place of the first one, which moves every position of *)
(* that goroutine by the same distance (Positions); a step that neither    *)
(* enters nor leaves OnTaskCompleted therefore keeps the unlocks of every  *)
(* task, and how many there are (KeepsUnlocks).                            *)
(*                                                                         *)
(* Then, the dispatches held back by a review: one goroutine at most is on *)
(* its way to release them (OneRelease), and whichever is was put there by *)
(* the write that moved their task to done (HeldInv).                      *)
(*                                                                         *)
(* Last, what the DAG engine owes the tasks that wait: once all that a     *)
(* task waits for is ready, some goroutine has the transition of that      *)
(* task, or what leads to it, before it (Honoured).                        *)
(***************************************************************************)
EXTENDS MCTaskService, TaskService_proofs

\* Position i of goroutine d is the unlock of t.
Unlock(t, d, i) == i \in DOMAIN work[d] /\ work[d][i] = On("leave", t)

\* GuardHeld for one task, by position.
GuardOf(t) ==
    /\ t \in guard <=> \E d \in Callers : \E i \in DOMAIN work[d] : Unlock(t, d, i)
    /\ \A d, e \in Callers : \A i \in DOMAIN work[d], j \in DOMAIN work[e] :
         Unlock(t, d, i) /\ Unlock(t, e, j) => d = e /\ i = j

\* The invariant that is inductive with IInv.
GInv == \A t \in Tasks : GuardOf(t)

\* The operations that are not an unlock.
Plain == {o \in SoundOps : o.op # "leave"}

-----------------------------------------------------------------------------
(* Positions.                                                              *)

\* Where the operations of a goroutine are after its step; the others stay where they are.
LEMMA Positions ==
    ASSUME IInv, NEW c \in Callers, work[c] # <<>>, NEW ops \in Seq(SoundOps), Then(c, ops)
    PROVE  /\ Len(work[c]) \in Nat /\ Len(work[c]) >= 1 /\ Len(ops) \in Nat
           /\ DOMAIN work[c] = 1 .. Len(work[c]) /\ DOMAIN ops = 1 .. Len(ops)
           /\ DOMAIN (work'[c]) = 1 .. (Len(ops) + Len(work[c]) - 1)
           /\ \A i \in 1 .. Len(ops) : work'[c][i] = ops[i]
           /\ \A i \in 2 .. Len(work[c]) : work'[c][i + Len(ops) - 1] = work[c][i]
           /\ Head(work[c]) = work[c][1]
           /\ \A d \in Callers : d # c => work'[d] = work[d]
<1>1. work \in [Callers -> Seq(SoundOps)]
  BY DEF IInv
<1>2. work' = [work EXCEPT ![c] = ops \o Tail(work[c])]
  BY DEF Then
<1>3. work'[c] = ops \o Tail(work[c]) /\ \A d \in Callers : d # c => work'[d] = work[d]
  BY <1>1, <1>2
<1>4. work[c] \in Seq(SoundOps)
  BY <1>1
<1>. QED BY <1>3, <1>4, ReplaceHead

\* A step that neither removes nor adds an unlock of t keeps GuardOf(t).
LEMMA KeepsUnlocks ==
    ASSUME IInv, NEW c \in Callers, work[c] # <<>>, NEW ops \in Seq(SoundOps), Then(c, ops),
           NEW t \in Tasks, Head(work[c]) # On("leave", t),
           \A i \in DOMAIN ops : ops[i] # On("leave", t),
           t \in guard' <=> t \in guard, GuardOf(t)
    PROVE  GuardOf(t)'
<1>. DEFINE n == Len(work[c])
            k == Len(ops)
<1>1. /\ n \in Nat /\ n >= 1 /\ k \in Nat
      /\ DOMAIN work[c] = 1 .. n /\ DOMAIN ops = 1 .. k
      /\ DOMAIN (work'[c]) = 1 .. (k + n - 1)
      /\ \A i \in 1 .. k : work'[c][i] = ops[i]
      /\ \A i \in 2 .. n : work'[c][i + k - 1] = work[c][i]
      /\ Head(work[c]) = work[c][1]
      /\ \A d \in Callers : d # c => work'[d] = work[d]
  BY Positions
<1>. HIDE DEF n, k
\* Every unlock was there before the step, at a place told by the new one.
<1>2. ASSUME NEW d \in Callers, NEW j \in DOMAIN (work'[d]), work'[d][j] = On("leave", t)
      PROVE  LET i == IF d = c THEN j - k + 1 ELSE j
             IN  i \in DOMAIN work[d] /\ Unlock(t, d, i)
  <2>1. CASE d # c
    BY <1>1, <1>2, <2>1 DEF Unlock
  <2>2. CASE d = c
    <3>1. j \in 1 .. (k + n - 1)
      BY <1>1, <1>2, <2>2
    <3>2. j \notin 1 .. k
      BY <1>1, <1>2, <2>2
    <3>3. j - k + 1 \in 2 .. n /\ (j - k + 1) + k - 1 = j
      BY <1>1, <3>1, <3>2
    <3>4. PICK i \in 2 .. n : i = j - k + 1 /\ i + k - 1 = j
      BY <3>3
    <3>5. work'[c][j] = work[c][i]
      BY <1>1, <3>4
    <3>. QED BY <1>1, <1>2, <2>2, <3>4, <3>5 DEF Unlock
  <2>. QED BY <2>1, <2>2
\* Every unlock is still there.
<1>3. ASSUME NEW d \in Callers, NEW i \in DOMAIN work[d], Unlock(t, d, i)
      PROVE  \E j \in DOMAIN (work'[d]) : work'[d][j] = On("leave", t)
  <2>1. CASE d # c
    BY <1>1, <1>3, <2>1 DEF Unlock
  <2>2. CASE d = c
    <3>1. i \in 1 .. n /\ work[c][i] = On("leave", t)
      BY <1>1, <1>3, <2>2 DEF Unlock
    <3>2. i # 1
      BY <1>1, <3>1
    <3>3. i \in 2 .. n /\ i + k - 1 \in 1 .. (k + n - 1)
      BY <1>1, <3>1, <3>2
    <3>4. work'[c][i + k - 1] = On("leave", t)
      BY <1>1, <3>1, <3>3
    <3>. QED BY <1>1, <2>2, <3>3, <3>4
  <2>. QED BY <2>1, <2>2
<1>4. \A d, e \in Callers : \A i \in DOMAIN work[d], j \in DOMAIN work[e] :
        Unlock(t, d, i) /\ Unlock(t, e, j) => d = e /\ i = j
  BY DEF GuardOf
<1>5. ASSUME NEW d \in Callers, NEW e \in Callers,
             NEW i \in DOMAIN (work'[d]), NEW j \in DOMAIN (work'[e]),
             work'[d][i] = On("leave", t), work'[e][j] = On("leave", t)
      PROVE  d = e /\ i = j
  <2>1. d = e /\ (IF d = c THEN i - k + 1 ELSE i) = (IF e = c THEN j - k + 1 ELSE j)
    BY <1>2, <1>4, <1>5
  <2>2. CASE d # c
    BY <2>1, <2>2
  <2>3. CASE d = c
    <3>1. i \in 1 .. (k + n - 1) /\ j \in 1 .. (k + n - 1) /\ i - k + 1 = j - k + 1
      BY <1>1, <2>1, <2>3
    <3>. QED BY <1>1, <2>1, <3>1
  <2>. QED BY <2>2, <2>3
<1>6. t \in guard' <=> \E d \in Callers : \E i \in DOMAIN (work'[d]) : work'[d][i] = On("leave", t)
  <2>1. t \in guard <=> \E d \in Callers : \E i \in DOMAIN work[d] : Unlock(t, d, i)
    BY DEF GuardOf
  <2>2. (\E d \in Callers : \E i \in DOMAIN work[d] : Unlock(t, d, i))
          <=> \E d \in Callers : \E i \in DOMAIN (work'[d]) : work'[d][i] = On("leave", t)
    BY <1>2, <1>3
  <2>. QED BY <2>1, <2>2
<1>. QED BY <1>5, <1>6 DEF GuardOf, Unlock

-----------------------------------------------------------------------------
(* The steps that neither enter nor leave OnTaskCompleted.                 *)

\* What is plain, by name.
LEMMA PlainByName ==
    /\ \A t \in Tasks, to \in Statuses, s \in BOOLEAN : Transition(t, to, s) \in Plain
    /\ \A t \in Tasks, to \in Statuses, s \in BOOLEAN, n \in 0 .. maxRetries - 1 :
         [Transition(t, to, s) EXCEPT !.attempt = n] \in Plain
    /\ \A t \in Tasks : \A name \in {"pending", "dag", "gather", "rules", "dropLoad",
                                     "failActive", "unassign"} : On(name, t) \in Plain
    /\ \A t \in Tasks, a \in Agents : \A name \in {"dispatch", "reviewQueue", "insert"} :
         ForAgent(name, t, a) \in Plain
    /\ \A a \in Agents : [op |-> "bump", agent |-> a] \in Plain
    /\ \A o \in ReleaseOps \cup Gathered \cup LoopOps : o \in Plain
    /\ \A o \in SoundOps : o \in ResolveOps \cup WriteOps => o \in Plain
<1>1. \A t \in Tasks, to \in Statuses, s \in BOOLEAN : Transition(t, to, s) \in Plain
  BY SoundByName DEF Plain, Transition
<1>2. \A t \in Tasks, to \in Statuses, s \in BOOLEAN, n \in 0 .. maxRetries - 1 :
         [Transition(t, to, s) EXCEPT !.attempt = n] \in Plain
  BY SoundByName DEF Plain, Transition
<1>3. \A t \in Tasks : \A name \in {"pending", "dag", "gather", "rules", "dropLoad",
                                     "failActive", "unassign"} : On(name, t) \in Plain
  BY SoundByName DEF Plain, On
<1>4. \A t \in Tasks, a \in Agents : \A name \in {"dispatch", "reviewQueue", "insert"} :
         ForAgent(name, t, a) \in Plain
  BY SoundByName DEF Plain, ForAgent
<1>5. \A a \in Agents : [op |-> "bump", agent |-> a] \in Plain
  BY SoundByName DEF Plain
<1>6. \A o \in ReleaseOps \cup Gathered \cup LoopOps : o \in Plain
  BY SoundByName DEF Plain, Gathered, ReleaseOps, CheckOps, ParentOps, AdvanceOps, LoopOps
<1>7. \A o \in SoundOps : o \in ResolveOps \cup WriteOps => o \in Plain
  BY DEF Plain, ResolveOps, WriteOps
<1>. QED BY <1>1, <1>2, <1>3, <1>4, <1>5, <1>6, <1>7

\* A step that goes on with plain operations keeps the guard of every task.
LEMMA PlainStep ==
    ASSUME IInv, GInv, NEW c \in Callers, work[c] # <<>>, Head(work[c]).op # "leave",
           NEW ops \in Seq(Plain), Then(c, ops), UNCHANGED guard
    PROVE  GInv'
<1>1. ops \in Seq(SoundOps)
  BY SeqMonotonic DEF Plain
<1>2. \A i \in DOMAIN ops : ops[i] \in Plain
  BY ElementOfSeq, LenProperties
<1>3. ASSUME NEW t \in Tasks PROVE GuardOf(t)'
  <2>1. Head(work[c]) # On("leave", t) /\ \A i \in DOMAIN ops : ops[i] # On("leave", t)
    BY <1>2 DEF Plain, On
  <2>2. GuardOf(t)
    BY DEF GInv
  <2>. QED BY <1>1, <2>1, <2>2, KeepsUnlocks
<1>. QED BY <1>3 DEF GInv

LEMMA readTaskSnapshotGuard ==
    ASSUME IInv, GInv, NEW c \in Callers, readTaskSnapshot(c) PROVE GInv'
<1>. DEFINE o == Head(work[c])
            row == task[o.task]
            s == [status |-> row.status, assignee |-> row.assignee, loops |-> row.loops]
            resolve == [op |-> "resolve", task |-> o.task, snap |-> s,
                        summary |-> o.summary, attempt |-> o.attempt]
            write == [op |-> "write", task |-> o.task, snap |-> s, to |-> o.to, asked |-> o.to,
                      summary |-> o.summary, attempt |-> o.attempt]
            ops == IF row.deleted \/ row.status = o.to \/ ~transitionValid(row.status, o.to)
                   THEN <<>> ELSE IF o.to = "completed" THEN <<resolve>> ELSE <<write>>
<1>1. work[c] # <<>> /\ o.op = "transition" /\ Then(c, ops) /\ UNCHANGED guard
  BY DEF readTaskSnapshot, Doing
<1>2. o \in TransitionOps
  BY <1>1, HeadsAreSound, HeadIsSound, OpTypes
<1>3. s \in Snapshots /\ row.status = s.status
  BY <1>2 DEF IInv, Tables, Rows, Snapshots, TransitionOps
<1>4. o.to = "completed" /\ transitionValid(row.status, o.to) => resolve \in Plain
  <2>1. resolve \in ResolveOps
    BY <1>2, <1>3 DEF TransitionOps, ResolveOps
  <2>2. o.to = "completed" /\ transitionValid(row.status, o.to) => Sound(resolve)
    BY <1>3 DEF Sound
  <2>. QED BY <2>1, <2>2, PlainByName DEF SoundOps, Ops
<1>5. o.to # "completed" /\ transitionValid(row.status, o.to) => write \in Plain
  <2>1. write \in WriteOps
    BY <1>2, <1>3 DEF TransitionOps, WriteOps
  <2>2. o.to # "completed" /\ transitionValid(row.status, o.to) => Sound(write)
    BY <1>3 DEF Sound, StatusMove
  <2>. QED BY <2>1, <2>2, PlainByName DEF SoundOps, Ops
<1>6. ops \in Seq(Plain)
  BY <1>4, <1>5, ShortSeqs
<1>. QED BY <1>1, <1>6, PlainStep

LEMMA resolveCompletionTargetGuard ==
    ASSUME IInv, GInv, NEW c \in Callers, resolveCompletionTarget(c) PROVE GInv'
<1>. DEFINE o == Head(work[c])
            write(to) == [op |-> "write", task |-> o.task, snap |-> o.snap, to |-> to,
                          asked |-> "completed", summary |-> o.summary, attempt |-> o.attempt]
<1>1. work[c] # <<>> /\ o.op = "resolve" /\ UNCHANGED guard
  BY DEF resolveCompletionTarget, Doing
<1>2. o \in ResolveOps /\ transitionValid(o.snap.status, "completed")
  BY <1>1, HeadsAreSound, HeadIsSound, OpTypes DEF Sound
<1>3. PICK to \in CompletionTargets(o.task, o.summary) : Then(c, <<write(to)>>)
  BY DEF resolveCompletionTarget
<1>4. to \in {"review", "done"}
  BY <1>2, <1>3, CompletionTargetsType DEF ResolveOps
<1>5. write(to) \in Plain
  <2>1. write(to) \in WriteOps
    BY <1>2, <1>4 DEF ResolveOps, WriteOps, Statuses
  <2>2. Sound(write(to))
    BY <1>2, <1>4 DEF Sound, StatusMove
  <2>. QED BY <2>1, <2>2, PlainByName DEF SoundOps, Ops
<1>. QED BY <1>1, <1>3, <1>5, ShortSeqs, PlainStep

\* No handler of dispatchSideEffects unlocks.
LEMMA SideEffectsPlain ==
    ASSUME NEW t \in Tasks, NEW s \in Snapshots, NEW to \in Statuses
    PROVE  SideEffects(t, s, to) \in Seq(Plain)
<1>. DEFINE assigned == s.assignee # NoAgent
            first == IF assigned /\ Behavior[t] = "auto_review"
                     THEN <<ForAgent("reviewQueue", t, s.assignee)>> ELSE <<>>
            count == [op |-> "loops", task |-> t, agent |-> s.assignee, count |-> s.loops + 1]
<1>1. /\ On("pending", t) \in Plain /\ On("dag", t) \in Plain /\ On("rules", t) \in Plain
      /\ On("dropLoad", t) \in Plain /\ On("failActive", t) \in Plain
  BY PlainByName
<1>2. assigned => /\ ForAgent("reviewQueue", t, s.assignee) \in Plain
                  /\ ForAgent("dispatch", t, s.assignee) \in Plain
  BY PlainByName DEF Snapshots
<1>3. count \in Plain
  <2>1. count \in LoopOps
    BY DEF LoopOps, Snapshots
  <2>. QED BY <2>1, PlainByName
<1>4. first \o <<On("dag", t), On("rules", t)>> \in Seq(Plain)
  <2>1. first \in Seq(Plain) /\ <<On("dag", t), On("rules", t)>> \in Seq(Plain)
    BY <1>1, <1>2, ShortSeqs
  <2>. QED BY <2>1, ConcatProperties
<1>5. <<On("pending", t), On("dag", t), On("rules", t)>> \in Seq(Plain)
  BY <1>1, ShortSeqs
<1>6. <<On("pending", t), On("dag", t)>> \o FreeAgents(t) \o <<On("rules", t)>> \in Seq(Plain)
  <2>1. /\ <<On("pending", t), On("dag", t)>> \in Seq(Plain)
        /\ FreeAgents(t) \in Seq(Plain)
        /\ <<On("rules", t)>> \in Seq(Plain)
    BY <1>1, ShortSeqs DEF FreeAgents
  <2>2. <<On("pending", t), On("dag", t)>> \o FreeAgents(t) \in Seq(Plain)
    BY <2>1, ConcatProperties
  <2>. QED BY <2>1, <2>2, ConcatProperties
<1>7. <<count>> \in Seq(Plain) /\ <<>> \in Seq(Plain)
  BY <1>3, ShortSeqs
<1>8. assigned => <<ForAgent("dispatch", t, s.assignee)>> \in Seq(Plain)
  BY <1>2, ShortSeqs
<1>. QED BY <1>4, <1>5, <1>6, <1>7, <1>8 DEF SideEffects

LEMMA writeStatusGuard ==
    ASSUME IInv, GInv, NEW c \in Callers, writeStatus(c) PROVE GInv'
<1>. DEFINE o == Head(work[c])
            retry == [Transition(o.task, o.asked, o.summary) EXCEPT !.attempt = o.attempt + 1]
<1>1. work[c] # <<>> /\ o.op = "write" /\ UNCHANGED guard
  BY DEF writeStatus, Doing
<1>2. o \in WriteOps
  BY <1>1, HeadsAreSound, HeadIsSound, OpTypes
<1>3. CASE Then(c, SideEffects(o.task, o.snap, o.to))
  <2>1. SideEffects(o.task, o.snap, o.to) \in Seq(Plain)
    BY <1>2, SideEffectsPlain DEF WriteOps
  <2>. QED BY <1>1, <1>3, <2>1, PlainStep
<1>4. CASE Then(c, IF o.attempt < maxRetries - 1 THEN <<retry>> ELSE <<>>)
  <2>1. o.attempt < maxRetries - 1 => o.attempt + 1 \in 0 .. maxRetries - 1
    BY <1>2 DEF WriteOps, maxRetries
  <2>2. o.attempt < maxRetries - 1 => retry \in Plain
    BY <1>2, <2>1, PlainByName DEF WriteOps
  <2>3. (IF o.attempt < maxRetries - 1 THEN <<retry>> ELSE <<>>) \in Seq(Plain)
    BY <2>2, ShortSeqs
  <2>. QED BY <1>1, <1>4, <2>3, PlainStep
<1>. QED BY <1>3, <1>4 DEF writeStatus

\* The steps of the queue, of the held-back dispatches and of the loads.
LEMMA QueueGuard ==
    ASSUME IInv, GInv, NEW c \in Callers,
           \/ tryAutoDispatch(c) \/ createReviewQueue(c) \/ insertQueueEntry(c) \/ bumpLoad(c)
           \/ readPendingActions(c) \/ processPendingActions(c)
           \/ dropLoadOfTask(c) \/ failEntriesOfTask(c) \/ assignUser(c)
    PROVE  GInv'
<1>. DEFINE o == Head(work[c])
            insert == <<ForAgent("insert", o.task, o.agent), [op |-> "bump", agent |-> o.agent]>>
            release == [op |-> "release", task |-> o.task, actions |-> task[o.task].pending]
<1>1. CASE tryAutoDispatch(c) \/ createReviewQueue(c)
  <2>1. work[c] # <<>> /\ o.op \in {"dispatch", "reviewQueue"} /\ UNCHANGED guard
    BY <1>1 DEF tryAutoDispatch, createReviewQueue, Doing
  <2>2. o \in AgentOps
    BY <2>1, HeadsAreSound, HeadIsSound, OpTypes
  <2>3. insert \in Seq(Plain)
    BY <2>2, PlainByName, ShortSeqs DEF AgentOps
  <2>4. Then(c, <<>>) \/ Then(c, insert)
    BY <1>1 DEF tryAutoDispatch, createReviewQueue
  <2>. QED BY <2>1, <2>3, <2>4, ShortSeqs, PlainStep
<1>2. CASE readPendingActions(c)
  <2>1. work[c] # <<>> /\ o.op = "pending" /\ UNCHANGED guard
    BY <1>2 DEF readPendingActions, Doing
  <2>2. o.task \in Tasks
    BY <2>1, HeadsAreSound, HeadIsSound, OpTypes DEF TaskOps
  <2>3. release \in ReleaseOps
    BY <2>2 DEF ReleaseOps, IInv, Tables, Rows
  <2>4. Then(c, <<>>) \/ Then(c, <<release>>)
    BY <1>2 DEF readPendingActions
  <2>. QED BY <2>1, <2>3, <2>4, PlainByName, ShortSeqs, PlainStep
<1>3. CASE \/ insertQueueEntry(c) \/ bumpLoad(c) \/ processPendingActions(c)
           \/ dropLoadOfTask(c) \/ failEntriesOfTask(c) \/ assignUser(c)
  <2>1. work[c] # <<>> /\ o.op # "leave" /\ Then(c, <<>>) /\ UNCHANGED guard
    BY <1>3 DEF insertQueueEntry, bumpLoad, processPendingActions, dropLoadOfTask,
                failEntriesOfTask, assignUser, Doing
  <2>. QED BY <2>1, ShortSeqs, PlainStep
<1>. QED BY <1>1, <1>2, <1>3

LEMMA countLoopGuard ==
    ASSUME IInv, GInv, NEW c \in Callers, countLoop(c) PROVE GInv'
<1>. DEFINE o == Head(work[c])
            ops == IF AtLimit(o.count) THEN <<Transition(o.task, "stuck", FALSE)>>
                   ELSE IF o.agent # NoAgent THEN <<ForAgent("reviewQueue", o.task, o.agent)>>
                   ELSE <<>>
<1>1. work[c] # <<>> /\ o.op = "loops" /\ Then(c, ops) /\ UNCHANGED guard
  BY DEF countLoop, Doing
<1>2. o \in LoopOps
  BY <1>1, HeadsAreSound, HeadIsSound, OpTypes
<1>3. Transition(o.task, "stuck", FALSE) \in Plain
  BY <1>2, PlainByName DEF LoopOps, Statuses
<1>4. o.agent # NoAgent => ForAgent("reviewQueue", o.task, o.agent) \in Plain
  BY <1>2, PlainByName DEF LoopOps
<1>5. ops \in Seq(Plain)
  BY <1>3, <1>4, ShortSeqs
<1>. QED BY <1>1, <1>5, PlainStep

LEMMA evaluateRulesGuard ==
    ASSUME IInv, GInv, NEW c \in Callers, evaluateRules(c) PROVE GInv'
<1>. DEFINE t == Head(work[c]).task
            acts == RuleActions[t]
            ops == [i \in DOMAIN acts |-> IF acts[i] = "assign_user" THEN On("unassign", t)
                                          ELSE Transition(t, acts[i], FALSE)]
<1>1. work[c] # <<>> /\ Head(work[c]).op = "rules" /\ Then(c, ops) /\ UNCHANGED guard
  BY DEF evaluateRules, Doing
<1>2. t \in Tasks
  BY <1>1, HeadsAreSound, HeadIsSound, OpTypes DEF TaskOps
<1>3. acts \in Seq(Statuses \cup {"assign_user"})
  BY <1>2, TaskAssumption
<1>4. \A i \in DOMAIN acts : acts[i] \in Statuses \cup {"assign_user"}
  BY <1>3, ElementOfSeq, LenProperties
<1>5. \A i \in DOMAIN acts : ops[i] \in Plain
  BY <1>2, <1>4, PlainByName
<1>6. ops \in Seq(Plain)
  BY <1>3, <1>5, MapIsSeq
<1>. QED BY <1>1, <1>6, PlainStep

LEMMA GathersGuard ==
    ASSUME IInv, GInv, NEW c \in Callers, Gathers(c) PROVE GInv'
<1>1. work[c] # <<>>
  BY DEF Gathers, gatherDAGTransitions, checkDependents, checkSiblings, readParent, Doing
<1>2. SoundHead(c)
  BY <1>1, HeadsAreSound DEF SoundHead
<1>3. PICK o \in Gathered : Then(c, <<o>>)
  BY <1>2, GathersOn
<1>4. Head(work[c]).op # "leave" /\ UNCHANGED guard
  BY <1>2, GathersOn
<1>5. <<o>> \in Seq(Plain)
  BY PlainByName, ShortSeqs
<1>. QED BY <1>1, <1>3, <1>4, <1>5, PlainStep

LEMMA applyDAGTransitionsGuard ==
    ASSUME IInv, GInv, NEW c \in Callers, applyDAGTransitions(c) PROVE GInv'
<1>. DEFINE o == Head(work[c])
            close == IF o.parent = NoTask THEN <<>> ELSE <<Transition(o.parent, o.to, FALSE)>>
<1>1. work[c] # <<>> /\ o.op = "advance" /\ UNCHANGED guard
  BY DEF applyDAGTransitions, Doing
<1>2. o \in AdvanceOps
  BY <1>1, HeadsAreSound, HeadIsSound, OpTypes
<1>3. ASSUME NEW d \in o.unblock,
             Then(c, <<Transition(d, "todo", FALSE), After(o, d)>>)
      PROVE  GInv'
  <2>1. After(o, d) \in AdvanceOps
    BY <1>2 DEF AdvanceOps, After
  <2>2. Transition(d, "todo", FALSE) \in Plain
    BY <1>2, PlainByName DEF AdvanceOps, Statuses
  <2>3. After(o, d) \in Plain
    BY <2>1, PlainByName DEF Gathered
  <2>4. <<Transition(d, "todo", FALSE), After(o, d)>> \in Seq(Plain)
    BY <2>2, <2>3, ShortSeqs
  <2>. QED BY <1>1, <1>3, <2>4, PlainStep
<1>4. CASE Then(c, close)
  <2>1. o.parent # NoTask => Transition(o.parent, o.to, FALSE) \in Plain
    BY <1>2, PlainByName DEF AdvanceOps, Statuses
  <2>2. close \in Seq(Plain)
    BY <2>1, ShortSeqs
  <2>. QED BY <1>1, <1>4, <2>2, PlainStep
<1>. QED BY <1>3, <1>4 DEF applyDAGTransitions

-----------------------------------------------------------------------------
(* Entering and leaving OnTaskCompleted.                                   *)

\* A completion that is let in is the only one of its task, since none had an
\* unlock before it; one that finds the guard taken goes away.
LEMMA enterOnTaskCompletedGuard ==
    ASSUME IInv, GInv, NEW c \in Callers, enterOnTaskCompleted(c) PROVE GInv'
<1>1. work[c] # <<>> /\ Head(work[c]).op = "dag"
  BY DEF enterOnTaskCompleted, Doing
<1>2. PICK x \in Tasks : x = Head(work[c]).task
  BY <1>1, HeadsAreSound, HeadIsSound, OpTypes DEF TaskOps
<1>. DEFINE ops == <<On("gather", x), On("leave", x)>>
<1>3. CASE Then(c, <<>>) /\ UNCHANGED guard
  BY <1>1, <1>3, ShortSeqs, PlainStep
<1>4. CASE x \notin guard /\ guard' = guard \cup {x} /\ Then(c, ops)
  <2>1. ops \in Seq(SoundOps)
    BY <1>2, SoundByName, ShortSeqs
  <2>2. DOMAIN ops = 1 .. 2 /\ Len(ops) = 2 /\ ops[1] = On("gather", x) /\ ops[2] = On("leave", x)
    OBVIOUS
  <2>3. ASSUME NEW t \in Tasks, t # x PROVE GuardOf(t)'
    <3>1. Head(work[c]) # On("leave", t)
      BY <1>1 DEF On
    <3>2. \A i \in DOMAIN ops : ops[i] # On("leave", t)
      BY <2>2, <2>3 DEF On
    <3>3. GuardOf(t) /\ (t \in guard' <=> t \in guard)
      BY <1>4, <2>3 DEF GInv
    <3>. QED BY <1>1, <1>4, <2>1, <3>1, <3>2, <3>3, KeepsUnlocks
  <2>4. GuardOf(x)'
    <3>. DEFINE n == Len(work[c])
    <3>1. /\ n \in Nat /\ n >= 1
          /\ DOMAIN work[c] = 1 .. n
          /\ DOMAIN (work'[c]) = 1 .. (n + 1)
          /\ \A i \in 1 .. 2 : work'[c][i] = ops[i]
          /\ \A i \in 2 .. n : work'[c][i + 1] = work[c][i]
          /\ \A d \in Callers : d # c => work'[d] = work[d]
      <4>. HIDE DEF ops
      <4>1. /\ n \in Nat /\ n >= 1
            /\ DOMAIN work[c] = 1 .. n
            /\ DOMAIN (work'[c]) = 1 .. (Len(ops) + n - 1)
            /\ \A i \in 1 .. Len(ops) : work'[c][i] = ops[i]
            /\ \A i \in 2 .. n : work'[c][i + Len(ops) - 1] = work[c][i]
            /\ \A d \in Callers : d # c => work'[d] = work[d]
        BY <1>1, <1>4, <2>1, Positions
      <4>2. 2 + n - 1 = n + 1 /\ \A i \in 2 .. n : i + 2 - 1 = i + 1
        BY <4>1
      <4>. QED BY <2>2, <4>1, <4>2
    <3>. HIDE DEF n
    <3>2. \A d \in Callers : \A i \in DOMAIN work[d] : work[d][i] # On("leave", x)
      BY <1>2, <1>4 DEF GInv, GuardOf, Unlock
    <3>3. 2 \in DOMAIN (work'[c]) /\ work'[c][2] = On("leave", x)
      BY <2>2, <3>1
    <3>4. ASSUME NEW d \in Callers, NEW j \in DOMAIN (work'[d]), work'[d][j] = On("leave", x)
          PROVE  d = c /\ j = 2
      <4>1. d = c
        BY <3>1, <3>2, <3>4
      <4>2. j \in 1 .. (n + 1) /\ work'[c][j] = On("leave", x)
        BY <3>1, <3>4, <4>1
      <4>3. j # 1
        BY <2>2, <3>1, <4>2 DEF On
      <4>4. ~(j > 2)
        <5>1. SUFFICES ASSUME j > 2 PROVE FALSE
          OBVIOUS
        <5>2. j - 1 \in 2 .. n /\ (j - 1) + 1 = j
          BY <3>1, <4>2, <5>1
        <5>3. PICK i \in 2 .. n : i + 1 = j
          BY <5>2
        <5>4. work[c][i] = On("leave", x) /\ i \in DOMAIN work[c]
          BY <3>1, <4>2, <5>3
        <5>. QED BY <3>2, <5>4
      <4>. QED BY <3>1, <4>1, <4>2, <4>3, <4>4
    <3>. QED BY <1>4, <3>3, <3>4 DEF GuardOf, Unlock
  <2>. QED BY <2>3, <2>4 DEF GInv
<1>. QED BY <1>2, <1>3, <1>4 DEF enterOnTaskCompleted, Busy

\* The unlock that runs is the only one of its task: none is left after it.
LEMMA leaveOnTaskCompletedGuard ==
    ASSUME IInv, GInv, NEW c \in Callers, leaveOnTaskCompleted(c) PROVE GInv'
<1>. DEFINE n == Len(work[c])
<1>1. work[c] # <<>> /\ Head(work[c]).op = "leave" /\ Then(c, <<>>)
  BY DEF leaveOnTaskCompleted, Doing
<1>2. PICK x \in Tasks : x = Head(work[c]).task
  BY <1>1, HeadsAreSound, HeadIsSound, OpTypes DEF TaskOps
<1>3. Head(work[c]) = On("leave", x) /\ guard' = guard \ {x}
  <2>1. Head(work[c]) \in TaskOps
    BY <1>1, HeadsAreSound, HeadIsSound, OpTypes
  <2>. QED BY <1>1, <1>2, <2>1 DEF On, TaskOps, leaveOnTaskCompleted
<1>4. ASSUME NEW t \in Tasks, t # x PROVE GuardOf(t)'
  <2>1. Head(work[c]) # On("leave", t)
    BY <1>3, <1>4 DEF On
  <2>2. GuardOf(t) /\ (t \in guard' <=> t \in guard)
    BY <1>3, <1>4 DEF GInv
  <2>3. <<>> \in Seq(SoundOps) /\ \A i \in DOMAIN <<>> : <<>>[i] # On("leave", t)
    BY ShortSeqs
  <2>. QED BY <1>1, <2>1, <2>2, <2>3, KeepsUnlocks
<1>5. GuardOf(x)'
  <2>1. /\ n \in Nat /\ n >= 1
        /\ DOMAIN work[c] = 1 .. n
        /\ DOMAIN (work'[c]) = 1 .. (n - 1)
        /\ \A i \in 2 .. n : work'[c][i - 1] = work[c][i]
        /\ Head(work[c]) = work[c][1]
        /\ \A d \in Callers : d # c => work'[d] = work[d]
    <3>1. <<>> \in Seq(SoundOps) /\ Len(<<>>) = 0
      BY ShortSeqs
    <3>2. /\ n \in Nat /\ n >= 1
          /\ DOMAIN work[c] = 1 .. n
          /\ DOMAIN (work'[c]) = 1 .. (Len(<<>>) + n - 1)
          /\ \A i \in 2 .. n : work'[c][i + Len(<<>>) - 1] = work[c][i]
          /\ Head(work[c]) = work[c][1]
          /\ \A d \in Callers : d # c => work'[d] = work[d]
      BY <1>1, <3>1, Positions
    <3>3. 0 + n - 1 = n - 1 /\ \A i \in 2 .. n : i + 0 - 1 = i - 1
      BY <3>2
    <3>. QED BY <3>1, <3>2, <3>3
  <2>. HIDE DEF n
  <2>2. 1 \in DOMAIN work[c] /\ Unlock(x, c, 1)
    BY <1>3, <2>1 DEF Unlock
  <2>3. \A d \in Callers : \A i \in DOMAIN work[d] :
          Unlock(x, d, i) => d = c /\ i = 1
    BY <1>2, <2>2 DEF GInv, GuardOf
  <2>4. ASSUME NEW d \in Callers, NEW j \in DOMAIN (work'[d]), work'[d][j] = On("leave", x)
        PROVE  FALSE
    <3>1. CASE d # c
      BY <2>1, <2>3, <2>4, <3>1 DEF Unlock
    <3>2. CASE d = c
      <4>1. j + 1 \in 2 .. n /\ (j + 1) - 1 = j
        BY <2>1, <2>4, <3>2
      <4>2. PICK i \in 2 .. n : i - 1 = j
        BY <4>1
      <4>3. i \in DOMAIN work[c] /\ work[c][i] = On("leave", x) /\ i # 1
        BY <2>1, <2>4, <3>2, <4>2
      <4>. QED BY <2>3, <4>3 DEF Unlock
    <3>. QED BY <3>1, <3>2
  <2>5. x \notin guard'
    BY <1>3
  <2>. QED BY <2>4, <2>5 DEF GuardOf, Unlock
<1>. QED BY <1>4, <1>5 DEF GInv

-----------------------------------------------------------------------------
(* The theorem.                                                            *)

LEMMA ServiceStepGuard ==
    ASSUME IInv, GInv, NEW c \in Callers, ServiceStep(c) PROVE GInv'
BY readTaskSnapshotGuard, resolveCompletionTargetGuard, writeStatusGuard, QueueGuard,
   countLoopGuard, enterOnTaskCompletedGuard, GathersGuard, applyDAGTransitionsGuard,
   leaveOnTaskCompletedGuard, evaluateRulesGuard
   DEF ServiceStep, Gathers

\* A request starts in an idle goroutine, and a restart empties all of them.
LEMMA EnvironmentGuard ==
    ASSUME IInv, GInv, Environment PROVE GInv'
<1>1. ASSUME NEW c \in Callers, NEW kind, Request(c, kind),
             NEW t \in Tasks, NEW to, NEW summary, Start(c, <<Transition(t, to, summary)>>)
      PROVE  GInv'
  <2>1. /\ work[c] = <<>> /\ guard' = guard
        /\ work' = [work EXCEPT ![c] = <<Transition(t, to, summary)>>]
    BY <1>1 DEF Request, Start
  <2>2. /\ work'[c] = <<Transition(t, to, summary)>>
        /\ \A d \in Callers : d # c => work'[d] = work[d]
    BY <2>1 DEF IInv
  <2>3. ASSUME NEW x \in Tasks PROVE GuardOf(x)'
    <3>1. \A i \in DOMAIN work[c] : FALSE
      BY <2>1
    <3>2. \A i \in DOMAIN (work'[c]) : work'[c][i] # On("leave", x)
      BY <2>2 DEF Transition, On
    <3>3. GuardOf(x)
      BY DEF GInv
    <3>. QED BY <2>1, <2>2, <3>1, <3>2, <3>3 DEF GuardOf, Unlock
  <2>. QED BY <2>3 DEF GInv
<1>2. ASSUME NEW c \in Callers, NEW t \in Tasks, NEW to \in UserStatuses, SetStatus(c, t, to)
      PROVE  GInv'
  BY <1>1, <1>2 DEF SetStatus
<1>3. ASSUME NEW c \in Callers, NEW t \in Tasks, HandleReview(c, t) \/ checkStuckTasks(c, t)
      PROVE  GInv'
  BY <1>1, <1>3 DEF HandleReview, checkStuckTasks
<1>4. ASSUME NEW c \in Callers, NEW t \in Tasks, NEW summary \in BOOLEAN,
             MarkCompleted(c, t, summary)
      PROVE  GInv'
  BY <1>1, <1>4 DEF MarkCompleted
<1>5. ASSUME NEW c \in Callers, NEW t \in Tasks, Delete(c, t) \/ Restore(c, t)
      PROVE  GInv'
  BY <1>5 DEF Delete, Restore, GInv, GuardOf, Unlock
<1>6. CASE Restart
  <2>1. guard' = {} /\ \A d \in Callers : work'[d] = <<>>
    BY <1>6 DEF Restart
  <2>. QED BY <2>1 DEF GInv, GuardOf, Unlock
<1>. QED BY <1>2, <1>3, <1>4, <1>5, <1>6 DEF Environment, Requests

LEMMA GuardInvariant == Spec => []GInv
<1>1. Init => GInv
  BY DEF Init, GInv, GuardOf, Unlock
<1>2. IInv /\ GInv /\ [Next]_vars => GInv'
  <2>. SUFFICES ASSUME IInv, GInv, [Next]_vars PROVE GInv'
    OBVIOUS
  <2>1. CASE UNCHANGED vars
    BY <2>1 DEF vars, GInv, GuardOf, Unlock
  <2>. QED BY <2>1, EnvironmentGuard, ServiceStepGuard DEF Next
<1>. QED BY <1>1, <1>2, SpecInv, PTL DEF Spec

\* However deep OnTaskCompleted, TransitionStatus and the rules recurse, and
\* however many goroutines complete tasks, fail, retry or die: a task is in the
\* re-entrancy guard exactly while one deferred unlock of it is pending, so the
\* guard is never leaked and never released under another goroutine.
THEOREM GuardIsHeld == Spec => []GuardHeld
<1>1. GInv => GuardHeld
  <2>. SUFFICES ASSUME GInv, NEW t \in Tasks
                PROVE  /\ t \in guard <=> Leaves(t) # {}
                       /\ \A x, y \in Leaves(t) : x = y
    BY DEF GuardHeld
  <2>1. GuardOf(t)
    BY DEF GInv
  <2>2. \A x : x \in Leaves(t) <=>
               \E d \in Callers : \E i \in DOMAIN work[d] : Unlock(t, d, i) /\ x = <<d, i>>
    BY DEF Leaves, Unlock
  <2>3. t \in guard <=> Leaves(t) # {}
    BY <2>1, <2>2 DEF GuardOf
  <2>4. \A x, y \in Leaves(t) : x = y
    BY <2>1, <2>2 DEF GuardOf
  <2>. QED BY <2>3, <2>4
<1>. QED BY <1>1, GuardInvariant, PTL

-----------------------------------------------------------------------------
(* The dispatches held back by a review.                                   *)

\* The tasks that hold a dispatch back, and with them the ones held back.
Holders == {p \in Tasks : InitRow[p].pending # <<>>}
Special == Holders \cup Gated
HolderOf(s) ==
    CHOOSE p \in Tasks : \E i \in DOMAIN InitRow[p].pending : InitRow[p].pending[i].sub = s

\* What is assumed of an instance: humans approve, the safety guard stops tasks, tasks are
\* deleted and restored, the server dies; no rule is about a special task; the
\* holders wait for their review and the held-back tasks for their dispatch,
\* each in one action of one holder.
Gate ==
    /\ Kinds \subseteq {"approve", "safety", "delete", "restore", "restart"}
    /\ \A t \in Special : RuleActions[t] = <<>>
    /\ \A p \in Holders : InitRow[p].status = "review"
    /\ \A s \in Gated : InitRow[s].status = "todo"
    /\ \A p, q \in Tasks : \A i \in DOMAIN InitRow[p].pending, j \in DOMAIN InitRow[q].pending :
         InitRow[p].pending[i].sub \in Tasks /\ InitRow[p].pending[i].sub = InitRow[q].pending[j].sub
           => p = q /\ i = j

\* What an operation still to be run may do to a special task, in a table tk and
\* with the approvals appr.
GateOp(o, tk, appr) ==
    /\ o.op = "transition" => (o.task \in Special => o.to \in {"done", "review"})
    /\ o.op \in {"resolve", "loops"} => o.task \notin Special
    /\ o.op = "write" =>
         /\ o.task \notin Gated
         /\ o.task \in Holders => o.snap.status = "review" /\ o.to = "done" /\ o.asked = "done"
    /\ o.op \in {"dispatch", "reviewQueue", "insert"} => o.task \notin Gated
    /\ o.op = "pending" => (o.task \in Holders => o.task \in appr)
    /\ o.op = "release" => /\ o.task \in Holders /\ o.task \in appr
                           /\ o.actions = InitRow[o.task].pending /\ tk[o.task].pending # <<>>
    /\ o.op \in {"check", "siblings", "parent", "advance"} => Listed(o) \cap Special = {}

\* An operation on its way to release what p holds back.
Releases(p, o) == o.op \in {"pending", "release"} /\ o.task = p

NoneFor(p, w) == \A d \in Callers : \A i \in DOMAIN w[d] : ~Releases(p, w[d][i])
AtMostOneFor(p, w) ==
    \A d, e \in Callers : \A i \in DOMAIN w[d], j \in DOMAIN w[e] :
       Releases(p, w[d][i]) /\ Releases(p, w[e][j]) => d = e /\ i = j

OpsGated(w, tk, appr) == \A d \in Callers : \A i \in DOMAIN w[d] : GateOp(w[d][i], tk, appr)

RowsGated(tk) ==
    /\ \A t \in Tasks : tk[t].pending \in {<<>>, InitRow[t].pending}
    /\ \A p \in Holders : tk[p].status \in {"review", "done"}
    /\ \A s \in Gated : tk[s].status = "todo"

\* As long as a holder has its actions, one operation at most is on its way to
\* release them, and none while it is in review.
OneRelease(w, tk) ==
    \A p \in Holders : tk[p].pending # <<>> =>
       /\ AtMostOneFor(p, w)
       /\ tk[p].status = "review" => NoneFor(p, w)

\* The entry of a held-back task is its only one, and was released.
QueueGated(q, tk, appr) ==
    \A i \in DOMAIN q : q[i].task \in Gated =>
       /\ HolderOf(q[i].task) \in appr
       /\ tk[HolderOf(q[i].task)].pending = <<>>
       /\ \A j \in DOMAIN q : q[j].task = q[i].task => i = j

GateInv == /\ Gate
           /\ RowsGated(task)
           /\ OpsGated(work, task, finished)
           /\ OneRelease(work, task)
           /\ QueueGated(queue, task, finished)

\* How a step records the approvals.
Approving == finished' = finished \cup {t \in Tasks : \/ Moved(t, "review", "done")
                                                    \/ Moved(t, "in_progress", "done")}

LEMMA GateFacts ==
    ASSUME Gate
    PROVE  /\ Holders \subseteq Tasks /\ Gated \subseteq Tasks /\ Special \subseteq Tasks
           /\ Holders \cap Gated = {}
           /\ \A p \in Tasks : \A i \in DOMAIN InitRow[p].pending :
                InitRow[p].pending[i].sub \in Tasks => HolderOf(InitRow[p].pending[i].sub) = p
           /\ \A s \in Gated : HolderOf(s) \in Holders
<1>1. Holders \subseteq Tasks /\ Gated \subseteq Tasks /\ Special \subseteq Tasks
  BY DEF Holders, Gated, Special
<1>2. Holders \cap Gated = {}
  BY DEF Gate, Holders, Gated
<1>3. \A p \in Tasks : \A i \in DOMAIN InitRow[p].pending :
        InitRow[p].pending[i].sub \in Tasks => HolderOf(InitRow[p].pending[i].sub) = p
  <2>. SUFFICES ASSUME NEW p \in Tasks, NEW i \in DOMAIN InitRow[p].pending,
                       NEW s, s = InitRow[p].pending[i].sub, s \in Tasks
                PROVE  HolderOf(s) = p
    OBVIOUS
  <2>1. \E q \in Tasks : \E j \in DOMAIN InitRow[q].pending : InitRow[q].pending[j].sub = s
    OBVIOUS
  <2>2. PICK j \in DOMAIN InitRow[HolderOf(s)].pending : InitRow[HolderOf(s)].pending[j].sub = s
    BY <2>1 DEF HolderOf
  <2>3. HolderOf(s) \in Tasks
    BY <2>1 DEF HolderOf
  <2>. QED BY <2>2, <2>3 DEF Gate
<1>4. \A s \in Gated : HolderOf(s) \in Holders
  <2>. SUFFICES ASSUME NEW s \in Gated PROVE HolderOf(s) \in Holders
    OBVIOUS
  <2>1. PICK p \in Tasks : \E i \in DOMAIN InitRow[p].pending : InitRow[p].pending[i].sub = s
    BY DEF Gated
  <2>2. PICK i \in DOMAIN InitRow[p].pending : InitRow[p].pending[i].sub = s
    BY <2>1
  <2>3. HolderOf(s) = p
    BY <1>1, <1>3, <2>2
  <2>4. InitRow[p].pending # <<>>
    <3>1. DOMAIN <<>> = {}
      OBVIOUS
    <3>. QED BY <2>2, <3>1
  <2>. QED BY <2>3, <2>4 DEF Holders
<1>. QED BY <1>1, <1>2, <1>3, <1>4

\* Where the operations after a step come from.
LEMMA Origins ==
    ASSUME IInv, NEW c \in Callers, work[c] # <<>>, NEW ops \in Seq(SoundOps), Then(c, ops)
    PROVE  \A d \in Callers : \A j \in DOMAIN (work'[d]) :
             \/ d = c /\ j \in DOMAIN ops /\ work'[d][j] = ops[j]
             \/ \E i \in DOMAIN work[d] : /\ work'[d][j] = work[d][i]
                                          /\ d = c => i # 1 /\ i = j - Len(ops) + 1
                                          /\ d # c => i = j
<1>. DEFINE n == Len(work[c])
            k == Len(ops)
<1>1. /\ n \in Nat /\ n >= 1 /\ k \in Nat
      /\ DOMAIN work[c] = 1 .. n /\ DOMAIN ops = 1 .. k
      /\ DOMAIN (work'[c]) = 1 .. (k + n - 1)
      /\ \A i \in 1 .. k : work'[c][i] = ops[i]
      /\ \A i \in 2 .. n : work'[c][i + k - 1] = work[c][i]
      /\ \A d \in Callers : d # c => work'[d] = work[d]
  BY Positions
<1>. HIDE DEF n, k
<1>. SUFFICES ASSUME NEW d \in Callers, NEW j \in DOMAIN (work'[d])
              PROVE  \/ d = c /\ j \in DOMAIN ops /\ work'[d][j] = ops[j]
                     \/ \E i \in DOMAIN work[d] : /\ work'[d][j] = work[d][i]
                                                  /\ d = c => i # 1 /\ i = j - k + 1
                                                  /\ d # c => i = j
  BY DEF k
<1>2. CASE d # c
  BY <1>1, <1>2
<1>3. CASE d = c /\ j \in 1 .. k
  BY <1>1, <1>3
<1>4. CASE d = c /\ j \notin 1 .. k
  <2>1. j \in 1 .. (k + n - 1)
    BY <1>1, <1>4
  <2>2. j - k + 1 \in 2 .. n /\ (j - k + 1) + k - 1 = j
    BY <1>1, <1>4, <2>1
  <2>3. PICK i \in 2 .. n : i = j - k + 1 /\ i + k - 1 = j
    BY <2>2
  <2>4. work'[c][i + k - 1] = work[c][i]
    BY <1>1
  <2>5. i \in DOMAIN work[c] /\ i # 1
    BY <1>1
  <2>. QED BY <1>4, <2>3, <2>4, <2>5
<1>. QED BY <1>2, <1>3, <1>4

\* Every operation was there, or is one of the new ones.
LEMMA OpsKept ==
    ASSUME IInv, NEW c \in Callers, work[c] # <<>>, NEW ops \in Seq(SoundOps), Then(c, ops),
           \A i \in DOMAIN ops : GateOp(ops[i], task', finished'),
           \A d \in Callers : \A i \in DOMAIN work[d] :
             (d = c => i # 1) => GateOp(work[d][i], task', finished')
    PROVE  OpsGated(work', task', finished')
<1>. SUFFICES ASSUME NEW d \in Callers, NEW j \in DOMAIN (work'[d])
              PROVE  GateOp(work'[d][j], task', finished')
  BY DEF OpsGated
<1>. QED BY Origins

\* A release that comes up is the only one, if there was none or it takes the place of one.
LEMMA ReleaseKept ==
    ASSUME IInv, NEW c \in Callers, work[c] # <<>>, NEW ops \in Seq(SoundOps), Then(c, ops),
           NEW p, AtMostOneFor(p, work),
           \A i, j \in DOMAIN ops : Releases(p, ops[i]) /\ Releases(p, ops[j]) => i = j,
           (\E i \in DOMAIN ops : Releases(p, ops[i]))
              => NoneFor(p, work) \/ Releases(p, work[c][1])
    PROVE  AtMostOneFor(p, work')
<1>1. 1 \in DOMAIN work[c] /\ Len(ops) \in Nat
  BY Positions
<1>2. \A d \in Callers : \A j \in DOMAIN (work'[d]) :
        \/ d = c /\ j \in DOMAIN ops /\ work'[d][j] = ops[j]
        \/ \E i \in DOMAIN work[d] : /\ work'[d][j] = work[d][i]
                                     /\ d = c => i # 1 /\ i = j - Len(ops) + 1
                                     /\ d # c => i = j
  BY Origins
<1>3. \A d \in Callers : DOMAIN (work'[d]) \subseteq Nat
  <2>. SUFFICES ASSUME NEW d \in Callers PROVE DOMAIN (work'[d]) \subseteq Nat
    OBVIOUS
  <2>1. CASE d = c
    <3>1. DOMAIN (work'[c]) = 1 .. (Len(ops) + Len(work[c]) - 1)
      BY Positions
    <3>. QED BY <2>1, <3>1
  <2>2. CASE d # c
    <3>1. work'[d] = work[d] /\ work[d] \in Seq(SoundOps)
      BY <2>2, Positions DEF IInv
    <3>. QED BY <3>1, LenProperties
  <2>. QED BY <2>1, <2>2
<1>. SUFFICES ASSUME NEW d \in Callers, NEW e \in Callers,
                     NEW i \in DOMAIN (work'[d]), NEW j \in DOMAIN (work'[e]),
                     Releases(p, work'[d][i]), Releases(p, work'[e][j])
              PROVE  d = e /\ i = j
  BY DEF AtMostOneFor
<1>. DEFINE New(b, x) == b = c /\ x \in DOMAIN ops /\ work'[b][x] = ops[x]
            Old(b, x) == \E y \in DOMAIN work[b] : /\ work'[b][x] = work[b][y]
                                                   /\ b = c => y # 1 /\ y = x - Len(ops) + 1
                                                   /\ b # c => y = x
<1>4. (New(d, i) \/ Old(d, i)) /\ (New(e, j) \/ Old(e, j))
  BY <1>2
<1>5. CASE New(d, i) /\ New(e, j)
  BY <1>5
\* An old release and a new one cannot be.
<1>6. ASSUME NEW b \in Callers, NEW x \in DOMAIN (work'[b]), NEW y \in DOMAIN ops,
             Old(b, x), Releases(p, work'[b][x]), Releases(p, ops[y])
      PROVE  FALSE
  <2>1. PICK z \in DOMAIN work[b] : work'[b][x] = work[b][z] /\ (b = c => z # 1)
    BY <1>6
  <2>2. ~NoneFor(p, work)
    BY <1>6, <2>1 DEF NoneFor
  <2>3. Releases(p, work[c][1])
    BY <1>6, <2>2
  <2>. QED BY <1>1, <1>6, <2>1, <2>3 DEF AtMostOneFor
<1>7. CASE Old(d, i) /\ Old(e, j)
  <2>1. PICK x \in DOMAIN work[d] : /\ work'[d][i] = work[d][x]
                                    /\ d = c => x = i - Len(ops) + 1
                                    /\ d # c => x = i
    BY <1>7
  <2>2. PICK y \in DOMAIN work[e] : /\ work'[e][j] = work[e][y]
                                    /\ e = c => y = j - Len(ops) + 1
                                    /\ e # c => y = j
    BY <1>7
  <2>3. d = e /\ x = y
    BY <2>1, <2>2 DEF AtMostOneFor
  <2>4. i \in Nat /\ j \in Nat
    BY <1>3
  <2>. QED BY <1>1, <2>1, <2>2, <2>3, <2>4
<1>. HIDE DEF Old
<1>. QED BY <1>4, <1>5, <1>6, <1>7

\* None comes up where none was and none is new.
LEMMA NoneKept ==
    ASSUME IInv, NEW c \in Callers, work[c] # <<>>, NEW ops \in Seq(SoundOps), Then(c, ops),
           NEW p, NoneFor(p, work), \A i \in DOMAIN ops : ~Releases(p, ops[i])
    PROVE  NoneFor(p, work')
<1>. SUFFICES ASSUME NEW d \in Callers, NEW j \in DOMAIN (work'[d])
              PROVE  ~Releases(p, work'[d][j])
  BY DEF NoneFor
<1>. QED BY Origins DEF NoneFor

\* What an operation may do does not become less, where approvals only come and no
\* actions go.
LEMMA GateOpStays ==
    ASSUME NEW o, NEW tk, NEW tk2, NEW appr, NEW appr2, GateOp(o, tk, appr), appr \subseteq appr2,
           o.op = "release" => tk2[o.task].pending = tk[o.task].pending
    PROVE  GateOp(o, tk2, appr2)
BY DEF GateOp

\* The entries of held-back tasks after a step that adds none.
QueueKept(q, r) == \A i \in DOMAIN r : r[i].task \in Gated => i \in DOMAIN q /\ r[i].task = q[i].task

\* What a step that clears no actions and adds no entry of a held-back task keeps,
\* whatever it writes and puts on the way.
LEMMA GateRest ==
    ASSUME IInv, GateInv, NEW c \in Callers, work[c] # <<>>, NEW ops \in Seq(SoundOps), Then(c, ops),
           Approving,
           \A i \in DOMAIN ops : GateOp(ops[i], task', finished'),
           \A t \in Tasks : task'[t].pending = task[t].pending,
           QueueKept(queue, queue')
    PROVE  Gate' /\ OpsGated(work', task', finished') /\ QueueGated(queue', task', finished')
<1>1. Holders \subseteq Tasks /\ Gated \subseteq Tasks /\ \A s \in Gated : HolderOf(s) \in Holders
  BY GateFacts DEF GateInv
<1>2. Gate'
  BY DEF GateInv, Gate, Holders, Special, Gated
<1>3. finished \subseteq finished'
  BY DEF Approving
<1>4. OpsGated(work', task', finished')
  <2>1. ASSUME NEW d \in Callers, NEW i \in DOMAIN work[d] PROVE GateOp(work[d][i], task', finished')
    <3>1. GateOp(work[d][i], task, finished)
      BY DEF GateInv, OpsGated
    <3>2. work[d][i].op = "release" => task'[work[d][i].task].pending = task[work[d][i].task].pending
      BY <1>1, <3>1 DEF GateOp
    <3>. QED BY <1>3, <3>1, <3>2, GateOpStays
  <2>. QED BY <2>1, OpsKept
<1>5. QueueGated(queue', task', finished')
  <2>. SUFFICES ASSUME NEW i \in DOMAIN queue', queue'[i].task \in Gated
                PROVE  /\ HolderOf(queue'[i].task) \in finished'
                       /\ task'[HolderOf(queue'[i].task)].pending = <<>>
                       /\ \A j \in DOMAIN queue' : queue'[j].task = queue'[i].task => i = j
    BY DEF QueueGated
  <2>1. i \in DOMAIN queue /\ queue'[i].task = queue[i].task
    BY DEF QueueKept
  <2>2. /\ HolderOf(queue[i].task) \in finished
        /\ task[HolderOf(queue[i].task)].pending = <<>>
        /\ \A j \in DOMAIN queue : queue[j].task = queue[i].task => i = j
    BY <2>1 DEF GateInv, QueueGated
  <2>3. HolderOf(queue[i].task) \in Tasks
    BY <1>1, <2>1
  <2>. QED BY <1>3, <2>1, <2>2, <2>3 DEF QueueKept
<1>. QED BY <1>2, <1>4, <1>5

\* A holder that a step neither releases nor reviews.
LEMMA HolderKept ==
    ASSUME IInv, GateInv, NEW c \in Callers, work[c] # <<>>, NEW ops \in Seq(SoundOps), Then(c, ops),
           NEW p \in Holders, \A i \in DOMAIN ops : ~Releases(p, ops[i]),
           task'[p].pending = task[p].pending, task'[p].status = task[p].status,
           task'[p].pending # <<>>
    PROVE  /\ AtMostOneFor(p, work')
           /\ task'[p].status = "review" => NoneFor(p, work')
<1>1. AtMostOneFor(p, work) /\ (task[p].status = "review" => NoneFor(p, work))
  BY DEF GateInv, OneRelease
<1>2. AtMostOneFor(p, work')
  BY <1>1, ReleaseKept
<1>. QED BY <1>1, <1>2, NoneKept

\* A step that moves no special task, releases nothing and adds no entry of a
\* held-back task.
LEMMA GateStep ==
    ASSUME IInv, GateInv, NEW c \in Callers, work[c] # <<>>, NEW ops \in Seq(SoundOps), Then(c, ops),
           Approving,
           \A i \in DOMAIN ops : GateOp(ops[i], task', finished'),
           \A i \in DOMAIN ops : \A p \in Holders : ~Releases(p, ops[i]),
           \A t \in Tasks : task'[t].pending = task[t].pending,
           \A t \in Special : task'[t].status = task[t].status,
           QueueKept(queue, queue')
    PROVE  GateInv'
<1>1. Gate' /\ OpsGated(work', task', finished') /\ QueueGated(queue', task', finished')
  BY GateRest
<1>2. Holders \subseteq Tasks
  BY DEF Holders
<1>3. RowsGated(task')
  BY DEF GateInv, RowsGated, Special
<1>4. OneRelease(work', task')
  <2>. SUFFICES ASSUME NEW p \in Holders, task'[p].pending # <<>>
                PROVE  /\ AtMostOneFor(p, work')
                       /\ task'[p].status = "review" => NoneFor(p, work')
    BY DEF OneRelease
  <2>. QED BY <1>2, HolderKept DEF Special
<1>. QED BY <1>1, <1>3, <1>4 DEF GateInv

\* Most steps read, and so keep the table and the queue.
LEMMA ReadingStep ==
    ASSUME IInv, GateInv, NEW c \in Callers, work[c] # <<>>, NEW ops \in Seq(SoundOps), Then(c, ops),
           Approving,
           \A i \in DOMAIN ops : GateOp(ops[i], task, finished),
           \A i \in DOMAIN ops : ops[i].op \notin {"pending", "release"},
           UNCHANGED <<task, queue>>
    PROVE  GateInv'
<1>1. finished \subseteq finished' /\ task' = task /\ queue' = queue
  BY DEF Approving
<1>2. \A i \in DOMAIN ops : GateOp(ops[i], task', finished')
  BY <1>1, GateOpStays
<1>3. \A i \in DOMAIN ops : \A p \in Holders : ~Releases(p, ops[i])
  BY DEF Releases
<1>4. QueueKept(queue, queue')
  BY <1>1 DEF QueueKept
<1>. QED BY <1>1, <1>2, <1>3, <1>4, GateStep

\* The operation at the head of a goroutine.
LEMMA HeadGate ==
    ASSUME IInv, GateInv, NEW c \in Callers, work[c] # <<>>
    PROVE  /\ Head(work[c]) = work[c][1] /\ 1 \in DOMAIN work[c]
           /\ GateOp(Head(work[c]), task, finished)
           /\ Head(work[c]) \in Ops
<1>1. work[c] \in Seq(SoundOps)
  BY DEF IInv
<1>2. Head(work[c]) = work[c][1] /\ 1 \in DOMAIN work[c]
  BY <1>1, EmptySeq, LenProperties
<1>3. GateOp(Head(work[c]), task, finished)
  BY <1>2 DEF GateInv, OpsGated
<1>. QED BY <1>2, <1>3, HeadsAreSound, HeadIsSound

\* A goroutine that goes on with what it had to do.
LEMMA NoStep ==
    ASSUME IInv, GateInv, NEW c \in Callers, work[c] # <<>>, Then(c, <<>>), Approving,
           \A t \in Tasks : task'[t].pending = task[t].pending,
           \A t \in Special : task'[t].status = task[t].status,
           QueueKept(queue, queue')
    PROVE  GateInv'
<1>1. <<>> \in Seq(SoundOps) /\ DOMAIN <<>> = {}
  BY ShortSeqs
<1>. QED BY <1>1, GateStep

LEMMA readTaskSnapshotGate ==
    ASSUME IInv, GateInv, NEW c \in Callers, readTaskSnapshot(c), Approving PROVE GateInv'
<1>. DEFINE o == Head(work[c])
            row == task[o.task]
            s == [status |-> row.status, assignee |-> row.assignee, loops |-> row.loops]
            resolve == [op |-> "resolve", task |-> o.task, snap |-> s,
                        summary |-> o.summary, attempt |-> o.attempt]
            write == [op |-> "write", task |-> o.task, snap |-> s, to |-> o.to, asked |-> o.to,
                      summary |-> o.summary, attempt |-> o.attempt]
            ops == IF row.deleted \/ row.status = o.to \/ ~transitionValid(row.status, o.to)
                   THEN <<>> ELSE IF o.to = "completed" THEN <<resolve>> ELSE <<write>>
<1>1. work[c] # <<>> /\ o.op = "transition" /\ Then(c, ops) /\ UNCHANGED <<task, queue>>
  BY DEF readTaskSnapshot, Doing
<1>2. o \in TransitionOps /\ (o.task \in Special => o.to \in {"done", "review"})
  BY <1>1, HeadGate, OpTypes DEF GateOp
<1>3. s \in Snapshots /\ row.status = s.status
  BY <1>2 DEF IInv, Tables, Rows, Snapshots, TransitionOps
<1>4. o.to = "completed" /\ transitionValid(row.status, o.to) => resolve \in SoundOps
  <2>1. resolve \in ResolveOps
    BY <1>2, <1>3 DEF TransitionOps, ResolveOps
  <2>2. o.to = "completed" /\ transitionValid(row.status, o.to) => Sound(resolve)
    BY <1>3 DEF Sound
  <2>. QED BY <2>1, <2>2 DEF SoundOps, Ops
<1>5. o.to # "completed" /\ transitionValid(row.status, o.to) => write \in SoundOps
  <2>1. write \in WriteOps
    BY <1>2, <1>3 DEF TransitionOps, WriteOps
  <2>2. o.to # "completed" /\ transitionValid(row.status, o.to) => Sound(write)
    BY <1>3 DEF Sound, StatusMove
  <2>. QED BY <2>1, <2>2 DEF SoundOps, Ops
<1>6. ops \in Seq(SoundOps)
  BY <1>4, <1>5, ShortSeqs
<1>7. /\ o.task \in Gated => ~transitionValid(row.status, o.to)
      /\ o.task \in Holders /\ row.status # o.to /\ transitionValid(row.status, o.to)
           => row.status = "review" /\ o.to = "done"
  <2>1. o.task \in Gated => row.status = "todo" /\ o.to \in {"done", "review"}
    BY <1>2 DEF GateInv, RowsGated, Special
  <2>2. o.task \in Holders => row.status \in {"review", "done"} /\ o.to \in {"done", "review"}
    BY <1>2 DEF GateInv, RowsGated, Special
  <2>. QED BY <2>1, <2>2 DEF transitionValid, Transitions
<1>8. o.to = "completed" => GateOp(resolve, task, finished)
  BY <1>2 DEF GateOp
<1>9. row.status # o.to /\ transitionValid(row.status, o.to) => GateOp(write, task, finished)
  BY <1>7 DEF GateOp
<1>10. \A i \in DOMAIN ops : GateOp(ops[i], task, finished) /\ ops[i].op \notin {"pending", "release"}
  <2>. HIDE DEF resolve, write
  <2>1. resolve.op = "resolve" /\ write.op = "write"
    BY DEF resolve, write
  <2>2. \A x : DOMAIN <<x>> = {1} /\ <<x>>[1] = x
    OBVIOUS
  <2>3. DOMAIN <<>> = {}
    OBVIOUS
  <2>. QED BY <1>8, <1>9, <2>1, <2>2, <2>3
<1>. QED BY <1>1, <1>6, <1>10, ReadingStep

LEMMA resolveCompletionTargetGate ==
    ASSUME IInv, GateInv, NEW c \in Callers, resolveCompletionTarget(c), Approving PROVE GateInv'
<1>. DEFINE o == Head(work[c])
            write(to) == [op |-> "write", task |-> o.task, snap |-> o.snap, to |-> to,
                          asked |-> "completed", summary |-> o.summary, attempt |-> o.attempt]
<1>1. work[c] # <<>> /\ o.op = "resolve" /\ UNCHANGED <<task, queue>>
  BY DEF resolveCompletionTarget, Doing
<1>2. o \in ResolveOps /\ transitionValid(o.snap.status, "completed") /\ o.task \notin Special
  BY <1>1, HeadsAreSound, HeadIsSound, OpTypes, HeadGate DEF Sound, GateOp
<1>3. PICK to \in CompletionTargets(o.task, o.summary) : Then(c, <<write(to)>>)
  BY DEF resolveCompletionTarget
<1>4. to \in {"review", "done"}
  BY <1>2, <1>3, CompletionTargetsType DEF ResolveOps
<1>5. write(to) \in SoundOps
  <2>1. write(to) \in WriteOps
    BY <1>2, <1>4 DEF ResolveOps, WriteOps, Statuses
  <2>2. Sound(write(to))
    BY <1>2, <1>4 DEF Sound, StatusMove
  <2>. QED BY <2>1, <2>2 DEF SoundOps, Ops
<1>6. GateOp(write(to), task, finished)
  BY <1>2 DEF GateOp, Special
<1>7. <<write(to)>> \in Seq(SoundOps) /\ \A i \in DOMAIN <<write(to)>> : <<write(to)>>[i] = write(to)
  BY <1>5, ShortSeqs
<1>8. write(to).op = "write"
  OBVIOUS
<1>. HIDE DEF write
<1>. QED BY <1>1, <1>3, <1>6, <1>7, <1>8, ReadingStep

\* The dispatch of a task that is not held back.
LEMMA tryAutoDispatchGate ==
    ASSUME IInv, GateInv, NEW c \in Callers, tryAutoDispatch(c) \/ createReviewQueue(c), Approving
    PROVE  GateInv'
<1>. DEFINE o == Head(work[c])
            insert == ForAgent("insert", o.task, o.agent)
            bump == [op |-> "bump", agent |-> o.agent]
<1>1. work[c] # <<>> /\ o.op \in {"dispatch", "reviewQueue"} /\ UNCHANGED <<task, queue>>
  BY DEF tryAutoDispatch, createReviewQueue, Doing
<1>2. o \in AgentOps /\ o.task \notin Gated
  BY <1>1, HeadGate, OpTypes DEF GateOp
<1>3. insert \in SoundOps /\ bump \in SoundOps
  BY <1>2, SoundByName DEF AgentOps
<1>4. GateOp(insert, task, finished) /\ GateOp(bump, task, finished)
  BY <1>2 DEF GateOp, ForAgent
<1>5. insert.op = "insert" /\ bump.op = "bump"
  BY DEF ForAgent
<1>6. CASE Then(c, <<insert, bump>>)
  <2>. HIDE DEF insert, bump
  <2>1. <<insert, bump>> \in Seq(SoundOps)
    BY <1>3, ShortSeqs
  <2>2. \A i \in DOMAIN <<insert, bump>> : <<insert, bump>>[i] \in {insert, bump}
    OBVIOUS
  <2>. QED BY <1>1, <1>4, <1>5, <1>6, <2>1, <2>2, ReadingStep
<1>7. CASE Then(c, <<>>)
  <2>1. QueueKept(queue, queue')
    BY <1>1 DEF QueueKept
  <2>. QED BY <1>1, <1>7, <2>1, NoStep
<1>. QED BY <1>6, <1>7 DEF tryAutoDispatch, createReviewQueue

\* The steps that only write the queue, the loads and the guard, or the assignee of a task.
LEMMA insertQueueEntryGate ==
    ASSUME IInv, GateInv, NEW c \in Callers, insertQueueEntry(c), Approving PROVE GateInv'
<1>. DEFINE o == Head(work[c])
            e == [task |-> o.task, agent |-> o.agent, status |-> "queued"]
<1>1. work[c] # <<>> /\ o.op = "insert" /\ UNCHANGED task /\ Then(c, <<>>) /\ queue' = Append(queue, e)
  BY DEF insertQueueEntry, Doing
<1>2. o \in AgentOps /\ o.task \notin Gated
  BY <1>1, HeadGate, OpTypes DEF GateOp
<1>3. e \in Entries /\ e.task = o.task
  BY <1>2 DEF AgentOps, Entries, QueueStatuses
<1>4. QueueKept(queue, queue')
  <2>. HIDE DEF e
  <2>1. queue \in Seq(Entries) /\ Len(queue) \in Nat /\ DOMAIN queue = 1 .. Len(queue)
    BY LenProperties DEF IInv, Tables
  <2>2. /\ queue' \in Seq(Entries) /\ Len(queue') = Len(queue) + 1
        /\ \A i \in 1 .. Len(queue) : queue'[i] = queue[i]
        /\ queue'[Len(queue) + 1] = e
    BY <1>1, <1>3, <2>1, AppendProperties
  <2>3. DOMAIN queue' = 1 .. (Len(queue) + 1)
    BY <2>2, LenProperties
  <2>. QED BY <1>2, <1>3, <2>1, <2>2, <2>3 DEF QueueKept
<1>. QED BY <1>1, <1>4, NoStep

LEMMA FailingKeeps == ASSUME NEW q, NEW t PROVE QueueKept(q, FailActive(q, t))
<1>. SUFFICES ASSUME NEW i \in DOMAIN q PROVE FailActive(q, t)[i].task = q[i].task
  BY DEF QueueKept, FailActive
<1>1. CASE q[i].task = t /\ Active(q[i])
  <2>1. FailActive(q, t)[i] = [q[i] EXCEPT !.status = "failed"]
    BY <1>1 DEF FailActive
  <2>. QED BY <2>1
<1>. QED BY <1>1 DEF FailActive

LEMMA SmallStepsGate ==
    ASSUME IInv, GateInv, NEW c \in Callers, Approving,
           bumpLoad(c) \/ dropLoadOfTask(c) \/ leaveOnTaskCompleted(c) \/ failEntriesOfTask(c)
             \/ assignUser(c)
    PROVE  GateInv'
<1>1. work[c] # <<>> /\ Then(c, <<>>)
  BY DEF bumpLoad, dropLoadOfTask, leaveOnTaskCompleted, failEntriesOfTask, assignUser, Doing
<1>2. QueueKept(queue, queue')
  <2>1. CASE failEntriesOfTask(c)
    BY <2>1, FailingKeeps DEF failEntriesOfTask
  <2>2. CASE ~failEntriesOfTask(c)
    <3>1. queue' = queue
      BY <2>2 DEF bumpLoad, dropLoadOfTask, leaveOnTaskCompleted, assignUser
    <3>. QED BY <3>1 DEF QueueKept
  <2>. QED BY <2>1, <2>2
<1>3. \A t \in Tasks : task'[t].pending = task[t].pending /\ task'[t].status = task[t].status
  <2>1. CASE assignUser(c)
    <3>1. task' = [task EXCEPT ![Head(work[c]).task].assignee = NoAgent]
      BY <2>1 DEF assignUser
    <3>2. task \in [Tasks -> Rows]
      BY DEF IInv, Tables
    <3>. QED BY <3>1, <3>2 DEF Rows
  <2>2. CASE ~assignUser(c)
    <3>1. task' = task
      BY <2>2 DEF bumpLoad, dropLoadOfTask, leaveOnTaskCompleted, failEntriesOfTask
    <3>. QED BY <3>1
  <2>. QED BY <2>1, <2>2
<1>4. Special \subseteq Tasks
  BY GateFacts DEF GateInv
<1>. QED BY <1>1, <1>2, <1>3, <1>4, NoStep

LEMMA enterOnTaskCompletedGate ==
    ASSUME IInv, GateInv, NEW c \in Callers, enterOnTaskCompleted(c), Approving PROVE GateInv'
<1>. DEFINE t == Head(work[c]).task
            a == On("gather", t)
            b == On("leave", t)
<1>1. work[c] # <<>> /\ Head(work[c]).op = "dag" /\ UNCHANGED <<task, queue>>
  BY DEF enterOnTaskCompleted, Doing
<1>2. t \in Tasks
  BY <1>1, HeadsAreSound, HeadIsSound, OpTypes DEF TaskOps
<1>3. CASE Then(c, <<>>)
  <2>1. QueueKept(queue, queue')
    BY <1>1 DEF QueueKept
  <2>. QED BY <1>1, <1>3, <2>1, NoStep
<1>4. CASE Then(c, <<a, b>>)
  <2>1. a \in SoundOps /\ b \in SoundOps /\ a.op = "gather" /\ b.op = "leave"
    BY <1>2, SoundByName DEF On
  <2>2. GateOp(a, task, finished) /\ GateOp(b, task, finished)
    BY DEF GateOp, On
  <2>. HIDE DEF a, b
  <2>3. <<a, b>> \in Seq(SoundOps) /\ \A i \in DOMAIN <<a, b>> : <<a, b>>[i] \in {a, b}
    BY <2>1, ShortSeqs
  <2>. QED BY <1>1, <1>4, <2>1, <2>2, <2>3, ReadingStep
<1>. QED BY <1>3, <1>4 DEF enterOnTaskCompleted

\* The blocked dependents are not special, and no more are listed later.
LEMMA GathersGate ==
    ASSUME IInv, GateInv, NEW c \in Callers, Gathers(c), Approving PROVE GateInv'
<1>. DEFINE h == Head(work[c])
<1>1. work[c] # <<>>
  BY DEF Gathers, gatherDAGTransitions, checkDependents, checkSiblings, readParent, Doing
<1>2. SoundHead(c)
  BY <1>1, HeadsAreSound
<1>3. PICK o \in Gathered : Then(c, <<o>>) /\ Listed(o) \subseteq LeftBy(h)
  BY <1>2, GathersOn
<1>4. h.op \in {"gather", "check", "siblings", "parent"} /\ UNCHANGED <<task, queue>>
  BY <1>2, GathersOn
<1>5. LeftBy(h) \cap Special = {}
  <2>1. CASE h.op = "gather"
    <3>1. \A s \in Special : task[s].status \in {"todo", "review", "done"}
      BY DEF GateInv, RowsGated, Special
    <3>2. \A d \in Dependents(h.task) : task[d].status = "blocked"
      BY DEF Dependents
    <3>. QED BY <2>1, <3>1, <3>2 DEF LeftBy
  <2>2. CASE h.op # "gather"
    BY <1>1, <1>4, <2>2, HeadGate DEF GateOp, LeftBy
  <2>. QED BY <2>1, <2>2
<1>6. o.op \in {"check", "siblings", "parent", "advance"} /\ o \in SoundOps
  <2>1. o.op \in {"check", "siblings", "parent", "advance"}
    BY DEF Gathered, CheckOps, ParentOps, AdvanceOps
  <2>. QED BY <2>1, SoundByName DEF Gathered
<1>7. GateOp(o, task, finished)
  BY <1>3, <1>5, <1>6 DEF GateOp
<1>8. <<o>> \in Seq(SoundOps) /\ \A i \in DOMAIN <<o>> : <<o>>[i] = o
  BY <1>6, ShortSeqs
<1>. QED BY <1>1, <1>3, <1>4, <1>6, <1>7, <1>8, ReadingStep

LEMMA applyDAGTransitionsGate ==
    ASSUME IInv, GateInv, NEW c \in Callers, applyDAGTransitions(c), Approving PROVE GateInv'
<1>. DEFINE o == Head(work[c])
<1>1. work[c] # <<>> /\ o.op = "advance" /\ UNCHANGED <<task, queue>>
  BY DEF applyDAGTransitions, Doing
<1>2. o \in AdvanceOps /\ o.unblock \cap Special = {}
  BY <1>1, HeadGate, OpTypes DEF GateOp, Listed
<1>3. ASSUME NEW d \in o.unblock, Then(c, <<Transition(d, "todo", FALSE), After(o, d)>>)
      PROVE  GateInv'
  <2>. DEFINE a == Transition(d, "todo", FALSE)
              b == After(o, d)
  <2>1. b \in AdvanceOps /\ b.op = "advance" /\ b.unblock \subseteq o.unblock
    BY <1>2 DEF AdvanceOps, After
  <2>2. a \in SoundOps /\ b \in SoundOps
    BY <1>2, <2>1, SoundByName DEF AdvanceOps, Statuses
  <2>3. a.op = "transition" /\ a.task = d
    BY DEF Transition
  <2>4. GateOp(a, task, finished) /\ GateOp(b, task, finished)
    BY <1>2, <2>1, <2>3 DEF GateOp, Listed
  <2>5. Then(c, <<a, b>>)
    BY <1>3
  <2>. HIDE DEF a, b
  <2>6. <<a, b>> \in Seq(SoundOps) /\ \A i \in DOMAIN <<a, b>> : <<a, b>>[i] \in {a, b}
    BY <2>2, ShortSeqs
  <2>. QED BY <1>1, <2>1, <2>3, <2>4, <2>5, <2>6, ReadingStep
<1>4. CASE Then(c, <<>>)
  <2>1. QueueKept(queue, queue')
    BY <1>1 DEF QueueKept
  <2>. QED BY <1>1, <1>4, <2>1, NoStep
<1>5. CASE o.parent # NoTask /\ Then(c, <<Transition(o.parent, o.to, FALSE)>>)
  <2>. DEFINE a == Transition(o.parent, o.to, FALSE)
  <2>1. a \in SoundOps
    BY <1>2, <1>5, SoundByName DEF AdvanceOps, Statuses
  <2>2. a.op = "transition" /\ a.to \in {"done", "review"}
    BY <1>2 DEF Transition, AdvanceOps
  <2>3. GateOp(a, task, finished)
    BY <2>2 DEF GateOp
  <2>4. Then(c, <<a>>)
    BY <1>5
  <2>. HIDE DEF a
  <2>5. <<a>> \in Seq(SoundOps) /\ \A i \in DOMAIN <<a>> : <<a>>[i] = a
    BY <2>1, ShortSeqs
  <2>. QED BY <1>1, <2>2, <2>3, <2>4, <2>5, ReadingStep
<1>. QED BY <1>3, <1>4, <1>5 DEF applyDAGTransitions

LEMMA evaluateRulesGate ==
    ASSUME IInv, GateInv, NEW c \in Callers, evaluateRules(c), Approving PROVE GateInv'
<1>. DEFINE t == Head(work[c]).task
            acts == RuleActions[t]
            ops == [i \in DOMAIN acts |-> IF acts[i] = "assign_user" THEN On("unassign", t)
                                          ELSE Transition(t, acts[i], FALSE)]
<1>1. /\ work[c] # <<>> /\ Head(work[c]).op = "rules"
      /\ Then(c, ops) /\ UNCHANGED <<task, queue>>
  BY DEF evaluateRules, Doing
<1>2. t \in Tasks
  BY <1>1, HeadsAreSound, HeadIsSound, OpTypes DEF TaskOps
<1>3. acts \in Seq(Statuses \cup {"assign_user"})
  BY <1>2, TaskAssumption
<1>4. \A i \in DOMAIN acts : acts[i] \in Statuses \cup {"assign_user"}
  BY <1>3, ElementOfSeq, LenProperties
<1>5. \A i \in DOMAIN acts : ops[i] \in SoundOps
  BY <1>2, <1>4, SoundByName
<1>6. ops \in Seq(SoundOps)
  BY <1>3, <1>5, MapIsSeq
<1>7. ASSUME NEW i \in DOMAIN ops
      PROVE  GateOp(ops[i], task, finished) /\ ops[i].op \notin {"pending", "release"}
  <2>1. t \notin Special
    <3>1. t \in Special => acts = <<>>
      BY DEF GateInv, Gate
    <3>2. DOMAIN <<>> = {}
      OBVIOUS
    <3>. QED BY <1>7, <3>1, <3>2
  <2>2. \/ ops[i] = On("unassign", t)
        \/ ops[i] = Transition(t, acts[i], FALSE)
    OBVIOUS
  <2>. HIDE DEF ops
  <2>3. ops[i].op \in {"unassign", "transition"} /\ ops[i].task = t
    BY <2>2 DEF On, Transition
  <2>. HIDE DEF t
  <2>. QED BY <2>1, <2>3 DEF GateOp
<1>. HIDE DEF ops
<1>. QED BY <1>1, <1>6, <1>7, ReadingStep

\* The count of a task that is not special; at the limit it is stopped.
LEMMA countLoopGate ==
    ASSUME IInv, GateInv, NEW c \in Callers, countLoop(c), Approving PROVE GateInv'
<1>. DEFINE o == Head(work[c])
            stop == Transition(o.task, "stuck", FALSE)
            again == ForAgent("reviewQueue", o.task, o.agent)
            ops == IF AtLimit(o.count) THEN <<stop>> ELSE IF o.agent # NoAgent THEN <<again>> ELSE <<>>
<1>1. work[c] # <<>> /\ o.op = "loops" /\ Then(c, ops) /\ UNCHANGED queue
      /\ task' = [task EXCEPT ![o.task].loops = o.count]
  BY DEF countLoop, Doing
<1>2. o \in LoopOps /\ o.task \notin Special
  BY <1>1, HeadGate, OpTypes DEF GateOp
<1>3. stop \in SoundOps /\ (o.agent # NoAgent => again \in SoundOps)
  BY <1>2, SoundByName DEF LoopOps, Statuses
<1>4. stop.op = "transition" /\ stop.task = o.task /\ again.op = "reviewQueue" /\ again.task = o.task
  BY DEF Transition, ForAgent
<1>5. GateOp(stop, task', finished') /\ GateOp(again, task', finished')
  BY <1>2, <1>4 DEF GateOp, Special
<1>6. \A t \in Tasks : task'[t].pending = task[t].pending /\ task'[t].status = task[t].status
  <2>1. task \in [Tasks -> Rows]
    BY DEF IInv, Tables
  <2>. QED BY <1>1, <2>1 DEF Rows
<1>7. Special \subseteq Tasks /\ QueueKept(queue, queue')
  BY <1>1, GateFacts DEF GateInv, QueueKept
<1>. HIDE DEF stop, again
<1>8. ops \in Seq(SoundOps)
  BY <1>3, ShortSeqs
<1>9. \A i \in DOMAIN ops : ops[i] \in {stop, again}
  <2>1. \A x : DOMAIN <<x>> = {1} /\ <<x>>[1] = x
    OBVIOUS
  <2>2. DOMAIN <<>> = {}
    OBVIOUS
  <2>. QED BY <2>1, <2>2
<1>10. \A i \in DOMAIN ops : GateOp(ops[i], task', finished') /\ \A p \in Holders : ~Releases(p, ops[i])
  BY <1>4, <1>5, <1>9 DEF Releases
<1>. QED BY <1>1, <1>6, <1>7, <1>8, <1>10, GateStep

\* What dispatchSideEffects leaves behind is about the task that was written.
About(t) == {o \in SoundOps : o.op \in {"pending", "dag", "rules", "dropLoad", "failActive", "dispatch",
                                        "reviewQueue", "loops"} /\ o.task = t}

LEMMA SideEffectsAbout ==
    ASSUME NEW t \in Tasks, NEW s \in Snapshots, NEW to \in Statuses
    PROVE  SideEffects(t, s, to) \in Seq(About(t))
<1>. DEFINE assigned == s.assignee # NoAgent
            first == IF assigned /\ Behavior[t] = "auto_review"
                     THEN <<ForAgent("reviewQueue", t, s.assignee)>> ELSE <<>>
            count == [op |-> "loops", task |-> t, agent |-> s.assignee, count |-> s.loops + 1]
<1>1. /\ On("pending", t) \in About(t) /\ On("dag", t) \in About(t) /\ On("rules", t) \in About(t)
      /\ On("dropLoad", t) \in About(t) /\ On("failActive", t) \in About(t)
  BY SoundByName DEF About, On
<1>2. assigned => /\ ForAgent("reviewQueue", t, s.assignee) \in About(t)
                  /\ ForAgent("dispatch", t, s.assignee) \in About(t)
  BY SoundByName DEF Snapshots, About, ForAgent
<1>3. count \in About(t)
  <2>1. count \in LoopOps
    BY DEF LoopOps, Snapshots
  <2>. QED BY <2>1, SoundByName DEF About
<1>4. first \o <<On("dag", t), On("rules", t)>> \in Seq(About(t))
  <2>1. first \in Seq(About(t)) /\ <<On("dag", t), On("rules", t)>> \in Seq(About(t))
    BY <1>1, <1>2, ShortSeqs
  <2>. QED BY <2>1, ConcatProperties
<1>5. <<On("pending", t), On("dag", t), On("rules", t)>> \in Seq(About(t))
  BY <1>1, ShortSeqs
<1>6. <<On("pending", t), On("dag", t)>> \o FreeAgents(t) \o <<On("rules", t)>> \in Seq(About(t))
  <2>1. /\ <<On("pending", t), On("dag", t)>> \in Seq(About(t))
        /\ FreeAgents(t) \in Seq(About(t))
        /\ <<On("rules", t)>> \in Seq(About(t))
    BY <1>1, ShortSeqs DEF FreeAgents
  <2>2. <<On("pending", t), On("dag", t)>> \o FreeAgents(t) \in Seq(About(t))
    BY <2>1, ConcatProperties
  <2>. QED BY <2>1, <2>2, ConcatProperties
<1>7. <<count>> \in Seq(About(t)) /\ <<>> \in Seq(About(t))
  BY <1>3, ShortSeqs
<1>8. assigned => <<ForAgent("dispatch", t, s.assignee)>> \in Seq(About(t))
  BY <1>2, ShortSeqs
<1>. QED BY <1>4, <1>5, <1>6, <1>7, <1>8 DEF SideEffects

\* An approval leaves one operation behind that releases.
LEMMA ApprovalEffects ==
    ASSUME NEW t \in Tasks, NEW s \in Snapshots, s.status = "review"
    PROVE  \A i \in DOMAIN SideEffects(t, s, "done") :
             /\ SideEffects(t, s, "done")[i].op = "pending" => i = 1
             /\ SideEffects(t, s, "done")[i].op # "loops"
<1>. DEFINE a == <<On("pending", t), On("dag", t)>>
            b == FreeAgents(t)
            r == <<On("rules", t)>>
<1>1. SideEffects(t, s, "done") = (a \o b) \o r
  BY DEF SideEffects
<1>2. a \in Seq(SoundOps) /\ b \in Seq(SoundOps) /\ r \in Seq(SoundOps)
  BY SoundByName, ShortSeqs DEF FreeAgents
<1>3. Len(a) = 2 /\ Len(b) = 2 /\ Len(r) = 1
  BY DEF FreeAgents
<1>4. /\ a[1].op = "pending" /\ a[2].op = "dag"
      /\ b[1].op = "dropLoad" /\ b[2].op = "failActive" /\ r[1].op = "rules"
  BY DEF On, FreeAgents
<1>. HIDE DEF a, b, r
<1>5. /\ a \o b \in Seq(SoundOps) /\ Len(a \o b) = 4
      /\ \A i \in 1 .. 4 : (a \o b)[i] = IF i <= 2 THEN a[i] ELSE b[i - 2]
  BY <1>2, <1>3, ConcatProperties
<1>6. /\ (a \o b) \o r \in Seq(SoundOps) /\ Len((a \o b) \o r) = 5
      /\ \A i \in 1 .. 5 : ((a \o b) \o r)[i] = IF i <= 4 THEN (a \o b)[i] ELSE r[i - 4]
  BY <1>2, <1>3, <1>5, ConcatProperties
<1>. DEFINE all == (a \o b) \o r
<1>7. /\ all[1] = a[1] /\ all[2] = a[2] /\ all[3] = b[1] /\ all[4] = b[2] /\ all[5] = r[1]
      /\ DOMAIN all = 1 .. 5
  BY <1>5, <1>6, LenProperties
<1>8. all = SideEffects(t, s, "done")
  BY <1>1
<1>. HIDE DEF all
<1>9. ASSUME NEW i \in 1 .. 5
      PROVE  (all[i].op = "pending" => i = 1) /\ all[i].op # "loops"
  <2>1. i = 1 \/ i = 2 \/ i = 3 \/ i = 4 \/ i = 5
    BY <1>9
  <2>. QED BY <1>7, <1>4, <2>1
<1>. QED BY <1>7, <1>8, <1>9

\* A write that a race was lost for is tried again, with what was asked for.
LEMMA retryGate ==
    ASSUME IInv, GateInv, NEW c \in Callers, Doing(c, "write"), Approving, UNCHANGED <<task, queue>>,
           NEW o, o = Head(work[c]),
           Then(c, IF o.attempt < maxRetries - 1
                   THEN <<[Transition(o.task, o.asked, o.summary) EXCEPT !.attempt = o.attempt + 1]>>
                   ELSE <<>>)
    PROVE  GateInv'
<1>. DEFINE retry == [Transition(o.task, o.asked, o.summary) EXCEPT !.attempt = o.attempt + 1]
<1>1. work[c] # <<>> /\ o.op = "write"
  BY DEF Doing
<1>2. o \in WriteOps /\ o.task \notin Gated /\ (o.task \in Holders => o.asked = "done")
  BY <1>1, HeadGate, OpTypes DEF GateOp
<1>3. CASE ~(o.attempt < maxRetries - 1)
  <2>1. Then(c, <<>>)
    BY <1>3
  <2>2. QueueKept(queue, queue')
    BY DEF QueueKept
  <2>. QED BY <1>1, <2>1, <2>2, NoStep
<1>4. CASE o.attempt < maxRetries - 1
  <2>1. o.attempt + 1 \in 0 .. maxRetries - 1
    BY <1>2, <1>4 DEF WriteOps, maxRetries
  <2>2. retry \in SoundOps
    BY <1>2, <2>1, SoundByName DEF WriteOps
  <2>3. retry.op = "transition" /\ retry.task = o.task /\ retry.to = o.asked
    BY DEF Transition
  <2>4. Then(c, <<retry>>)
    BY <1>4
  <2>. HIDE DEF retry
  <2>5. GateOp(retry, task, finished)
    BY <1>2, <2>3 DEF GateOp, Special
  <2>6. <<retry>> \in Seq(SoundOps) /\ \A i \in DOMAIN <<retry>> : <<retry>>[i] = retry
    BY <2>2, ShortSeqs
  <2>. QED BY <1>1, <2>3, <2>4, <2>5, <2>6, ReadingStep
<1>. QED BY <1>3, <1>4

\* A write to a holder is its approval: its actions are about to be released by
\* this goroutine and by no other. A write to another task is not about special ones.
LEMMA writeStatusGate ==
    ASSUME IInv, GateInv, NEW c \in Callers, writeStatus(c), Approving PROVE GateInv'
<1>. DEFINE o == Head(work[c])
            ops == SideEffects(o.task, o.snap, o.to)
<1>1. Doing(c, "write") /\ work[c] # <<>> /\ o.op = "write" /\ UNCHANGED queue
  BY DEF writeStatus, Doing
<1>2. o \in WriteOps /\ GateOp(o, task, finished)
  BY <1>1, HeadGate, OpTypes
<1>3. CASE /\ ~Unmodified(o.task, o.snap)
           /\ Then(c, IF o.attempt < maxRetries - 1
                      THEN <<[Transition(o.task, o.asked, o.summary)
                                EXCEPT !.attempt = o.attempt + 1]>>
                      ELSE <<>>)
           /\ UNCHANGED task
  <2>. HIDE DEF o
  <2>1. \E x : x = o
    OBVIOUS
  <2>. QED BY <1>1, <1>3, retryGate DEF o
<1>4. CASE /\ Unmodified(o.task, o.snap)
           /\ task' = [task EXCEPT ![o.task].status = o.to]
           /\ Then(c, ops)
  <2>1. o.task \in Tasks /\ o.snap \in Snapshots /\ o.to \in Statuses
    BY <1>2 DEF WriteOps
  <2>2. ops \in Seq(About(o.task)) /\ Seq(About(o.task)) \subseteq Seq(SoundOps)
    BY <2>1, SideEffectsAbout, SeqMonotonic DEF About
  <2>3. \A i \in DOMAIN ops : ops[i] \in About(o.task)
    BY <2>2, ElementOfSeq, LenProperties
  <2>4. /\ \A t \in Tasks : task'[t].pending = task[t].pending
        /\ \A t \in Tasks : t # o.task => task'[t].status = task[t].status
        /\ task'[o.task].status = o.to
    <3>1. task \in [Tasks -> Rows]
      BY DEF IInv, Tables
    <3>. QED BY <1>4, <2>1, <3>1 DEF Rows
  <2>5. QueueKept(queue, queue')
    BY <1>1 DEF QueueKept
  <2>6. Special \subseteq Tasks /\ Holders \subseteq Special /\ Holders \cap Gated = {}
    BY GateFacts DEF GateInv, Special
  <2>7. o.task \notin Gated
    BY <1>1, <1>2 DEF GateOp
  <2>8. CASE o.task \notin Holders
    <3>1. ASSUME NEW i \in DOMAIN ops
          PROVE  GateOp(ops[i], task', finished') /\ \A p \in Holders : ~Releases(p, ops[i])
      BY <2>3, <2>7, <2>8 DEF GateOp, Releases, About, Special
    <3>2. \A t \in Special : task'[t].status = task[t].status
      BY <2>4, <2>6, <2>7, <2>8 DEF Special
    <3>. QED BY <1>1, <1>4, <2>2, <2>4, <2>5, <3>1, <3>2, GateStep
  <2>9. CASE o.task \in Holders
    <3>1. o.snap.status = "review" /\ o.to = "done" /\ task[o.task].status = "review"
      BY <1>1, <1>2, <1>4, <2>9 DEF GateOp, Unmodified
    <3>2. o.task \in finished'
      BY <2>1, <2>4, <3>1 DEF Approving, Moved
    <3>3. \A i \in DOMAIN ops : (ops[i].op = "pending" => i = 1) /\ ops[i].op # "loops"
      BY <2>1, <3>1, ApprovalEffects
    <3>4. \A i \in DOMAIN ops :
            /\ ops[i].task = o.task
            /\ ops[i].op \notin {"release", "transition", "resolve", "write", "insert", "check",
                             "siblings", "parent", "advance"}
      BY <2>3 DEF About
    <3>5. ASSUME NEW i \in DOMAIN ops PROVE GateOp(ops[i], task', finished')
      BY <2>7, <3>2, <3>3, <3>4 DEF GateOp
    <3>6. Gate' /\ OpsGated(work', task', finished') /\ QueueGated(queue', task', finished')
      BY <1>1, <1>4, <2>2, <2>4, <2>5, <3>5, GateRest
    <3>7. RowsGated(task')
      <4>1. \A s \in Gated : task'[s].status = "todo"
        BY <2>4, <2>6, <2>7 DEF GateInv, RowsGated, Special
      <4>2. \A p \in Holders : task'[p].status \in {"review", "done"}
        BY <2>4, <2>6, <3>1 DEF GateInv, RowsGated
      <4>. QED BY <2>4, <4>1, <4>2 DEF GateInv, RowsGated
    <3>8. ASSUME NEW p \in Holders, task'[p].pending # <<>>
          PROVE  /\ AtMostOneFor(p, work')
                 /\ task'[p].status = "review" => NoneFor(p, work')
      <4>1. CASE p # o.task
        <5>1. \A i \in DOMAIN ops : ~Releases(p, ops[i])
          BY <3>4, <4>1 DEF Releases
        <5>2. task'[p].status = task[p].status /\ task'[p].pending = task[p].pending
          BY <2>4, <2>6, <4>1
        <5>. QED BY <1>1, <1>4, <2>2, <3>8, <5>1, <5>2, HolderKept
      <4>2. CASE p = o.task
        <5>1. AtMostOneFor(p, work) /\ NoneFor(p, work)
          BY <2>1, <2>4, <3>1, <3>8, <4>2 DEF GateInv, OneRelease
        <5>2. \A i, j \in DOMAIN ops : Releases(p, ops[i]) /\ Releases(p, ops[j]) => i = j
          BY <3>3, <3>4 DEF Releases
        <5>3. AtMostOneFor(p, work')
          BY <1>1, <1>4, <2>2, <5>1, <5>2, ReleaseKept
        <5>. QED BY <2>4, <3>1, <4>2, <5>3
      <4>. QED BY <4>1, <4>2
    <3>. QED BY <3>6, <3>7, <3>8 DEF GateInv, OneRelease
  <2>. QED BY <2>8, <2>9
<1>. QED BY <1>3, <1>4 DEF writeStatus

\* The release that is read takes the place of the operation that reads it.
LEMMA readPendingActionsGate ==
    ASSUME IInv, GateInv, NEW c \in Callers, readPendingActions(c), Approving PROVE GateInv'
<1>. DEFINE t == Head(work[c]).task
            release == [op |-> "release", task |-> t, actions |-> task[t].pending]
<1>1. work[c] # <<>> /\ Head(work[c]).op = "pending" /\ UNCHANGED <<task, queue>>
  BY DEF readPendingActions, Doing
<1>2. /\ t \in Tasks /\ Head(work[c]) = work[c][1] /\ 1 \in DOMAIN work[c]
      /\ t \in Holders => t \in finished
  BY <1>1, HeadGate, OpTypes DEF TaskOps, GateOp
<1>3. QueueKept(queue, queue')
  BY <1>1 DEF QueueKept
<1>4. CASE Then(c, <<>>)
  BY <1>1, <1>3, <1>4, NoStep
<1>5. CASE task[t].pending # <<>> /\ Then(c, <<release>>)
  <2>1. t \in Holders /\ task[t].pending = InitRow[t].pending
    BY <1>2, <1>5 DEF GateInv, RowsGated, Holders
  <2>2. release \in SoundOps
    <3>1. release \in ReleaseOps
      BY <1>2 DEF ReleaseOps, IInv, Tables, Rows
    <3>. QED BY <3>1, SoundByName
  <2>3. finished \subseteq finished'
    BY DEF Approving
  <2>4. release.op = "release" /\ release.task = t /\ release.actions = task[t].pending
    OBVIOUS
  <2>. HIDE DEF release
  <2>5. GateOp(release, task', finished')
    BY <1>1, <1>2, <1>5, <2>1, <2>3, <2>4 DEF GateOp
  <2>. DEFINE ops == <<release>>
  <2>6. ops \in Seq(SoundOps) /\ (\A i \in DOMAIN ops : ops[i] = release /\ i = 1) /\ Then(c, ops)
    BY <1>5, <2>2, ShortSeqs
  <2>. HIDE DEF ops
  <2>7. Gate' /\ OpsGated(work', task', finished') /\ QueueGated(queue', task', finished')
    BY <1>1, <1>3, <2>5, <2>6, GateRest
  <2>8. RowsGated(task')
    BY <1>1 DEF GateInv
  <2>9. ASSUME NEW p \in Holders, task'[p].pending # <<>>
        PROVE  /\ AtMostOneFor(p, work')
               /\ task'[p].status = "review" => NoneFor(p, work')
    <3>1. CASE p # t
      <4>1. \A i \in DOMAIN ops : ~Releases(p, ops[i])
        BY <2>4, <2>6, <3>1 DEF Releases
      <4>. QED BY <1>1, <2>6, <2>9, <4>1, HolderKept
    <3>2. CASE p = t
      <4>1. AtMostOneFor(p, work) /\ (task[p].status = "review" => NoneFor(p, work))
        BY <1>1, <2>9 DEF GateInv, OneRelease
      <4>2. Releases(p, work[c][1])
        BY <1>1, <1>2, <3>2 DEF Releases
      <4>3. task'[p].status # "review"
        BY <1>1, <1>2, <4>1, <4>2 DEF NoneFor
      <4>4. AtMostOneFor(p, work')
        BY <1>1, <2>6, <4>1, <4>2, ReleaseKept
      <4>. QED BY <4>3, <4>4
    <3>. QED BY <3>1, <3>2
  <2>. QED BY <2>7, <2>8, <2>9 DEF GateInv, OneRelease
<1>. QED BY <1>4, <1>5 DEF readPendingActions

\* The release: an entry for each action, after those that were there. The
\* holder's actions are cleared with it, and no other operation was on its way to them.
LEMMA processPendingActionsGate ==
    ASSUME IInv, GateInv, NEW c \in Callers, processPendingActions(c), Approving PROVE GateInv'
<1>. DEFINE o == Head(work[c])
            t == o.task
            acts == o.actions
            entry(x) == [task |-> IF x.type = "create_sub_task" THEN x.sub ELSE t,
                         agent |-> x.agent, status |-> "queued"]
            new == [i \in DOMAIN acts |-> entry(acts[i])]
<1>1. /\ work[c] # <<>> /\ o.op = "release" /\ Then(c, <<>>)
      /\ queue' = FailActive(queue \o new, t)
      /\ task' = [task EXCEPT ![t].pending = <<>>, ![t].assignee = NoAgent]
  BY DEF processPendingActions, Doing
<1>2. o \in ReleaseOps /\ GateOp(o, task, finished) /\ o = work[c][1] /\ 1 \in DOMAIN work[c]
  BY <1>1, HeadGate, OpTypes
<1>3. t \in Holders /\ t \in finished /\ acts = InitRow[t].pending /\ task[t].pending # <<>>
  BY <1>1, <1>2 DEF GateOp
<1>4. t \in Tasks /\ acts \in Seq(Actions)
  BY <1>2 DEF ReleaseOps
<1>5. \A i \in DOMAIN acts : acts[i] \in Actions /\ new[i] \in Entries
  <2>1. \A i \in DOMAIN acts : acts[i] \in Actions
    BY <1>4, ElementOfSeq, LenProperties
  <2>2. \A x \in Actions : entry(x) \in Entries
    BY <1>4 DEF Actions, Entries, QueueStatuses
  <2>. QED BY <2>1, <2>2
<1>6. new \in Seq(Entries) /\ DOMAIN new = DOMAIN acts /\ Len(new) \in Nat /\ DOMAIN new = 1 .. Len(new)
  <2>1. new \in Seq(Entries)
    BY <1>4, <1>5, MapIsSeq
  <2>. HIDE DEF entry
  <2>2. DOMAIN new = DOMAIN acts
    OBVIOUS
  <2>. QED BY <2>1, <2>2, LenProperties
\* What a new entry of a held-back task says.
<1>7. \A i \in DOMAIN new : new[i].task \in Gated => i \in DOMAIN acts /\ new[i].task = acts[i].sub
  <2>1. t \notin Gated
    BY <1>3, GateFacts DEF GateInv
  <2>. QED BY <1>6, <2>1
<1>. HIDE DEF new, acts, o
<1>. DEFINE n == Len(queue)
<1>8. /\ n \in Nat /\ DOMAIN queue = 1 .. n /\ queue \in Seq(Entries)
      /\ DOMAIN queue' = 1 .. (n + Len(new))
      /\ \A i \in DOMAIN queue' : queue'[i].task = IF i <= n THEN queue[i].task ELSE new[i - n].task
  <2>. DEFINE q == queue \o new
  <2>1. queue \in Seq(Entries) /\ n \in Nat /\ DOMAIN queue = 1 .. n
    BY LenProperties DEF IInv, Tables
  <2>2. /\ q \in Seq(Entries) /\ Len(q) = n + Len(new)
        /\ \A i \in 1 .. (n + Len(new)) : q[i] = IF i <= n THEN queue[i] ELSE new[i - n]
    BY <1>6, <2>1, ConcatProperties
  <2>3. DOMAIN q = 1 .. (n + Len(new))
    BY <2>2, LenProperties
  <2>4. queue' = FailActive(q, t)
    BY <1>1
  <2>. HIDE DEF q
  <2>5. DOMAIN queue' = DOMAIN q
    BY <2>4 DEF FailActive
  <2>6. \A i \in DOMAIN q : queue'[i].task = q[i].task
    BY <2>4 DEF FailActive
  <2>. QED BY <2>1, <2>2, <2>3, <2>5, <2>6
<1>. HIDE DEF n
<1>9. /\ \A x \in Tasks : task'[x].status = task[x].status
      /\ \A x \in Tasks : x # t => task'[x].pending = task[x].pending
      /\ task'[t].pending = <<>>
  <2>1. task \in [Tasks -> Rows]
    BY DEF IInv, Tables
  <2>2. t \in Tasks
    BY <1>4
  <2>. HIDE DEF t
  <2>. QED BY <1>1, <2>1, <2>2 DEF Rows
<1>10. /\ Holders \subseteq Tasks /\ Gated \subseteq Tasks /\ \A s \in Gated : HolderOf(s) \in Holders
       /\ \A i \in DOMAIN acts : acts[i].sub \in Tasks => HolderOf(acts[i].sub) = t
  BY <1>3, <1>4, GateFacts DEF GateInv
<1>11. finished \subseteq finished'
  BY DEF Approving
<1>12. Gate'
  BY DEF GateInv, Gate, Holders, Special, Gated
<1>13. RowsGated(task')
  BY <1>9, <1>10 DEF GateInv, RowsGated
<1>14. <<>> \in Seq(SoundOps) /\ DOMAIN <<>> = {}
  BY ShortSeqs
<1>15. OpsGated(work', task', finished')
  <2>1. AtMostOneFor(t, work)
    BY <1>3 DEF GateInv, OneRelease
  <2>2. ASSUME NEW d \in Callers, NEW i \in DOMAIN work[d], d = c => i # 1
        PROVE  GateOp(work[d][i], task', finished')
    <3>1. GateOp(work[d][i], task, finished)
      BY DEF GateInv, OpsGated
    <3>2. work[d][i].op = "release" => work[d][i].task \in Holders /\ work[d][i].task # t
      <4>1. Releases(t, work[c][1])
        BY <1>1, <1>2 DEF Releases
      <4>2. ~Releases(t, work[d][i])
        BY <1>2, <2>1, <2>2, <4>1 DEF AtMostOneFor
      <4>. QED BY <3>1, <4>2 DEF Releases, GateOp
    <3>3. work[d][i].op = "release" => task'[work[d][i].task].pending = task[work[d][i].task].pending
      BY <1>9, <1>10, <3>2
    <3>. QED BY <1>11, <3>1, <3>3, GateOpStays
  <2>. QED BY <1>1, <1>14, <2>2, OpsKept
<1>16. OneRelease(work', task')
  <2>. SUFFICES ASSUME NEW p \in Holders, task'[p].pending # <<>>
                PROVE  /\ AtMostOneFor(p, work')
                       /\ task'[p].status = "review" => NoneFor(p, work')
    BY DEF OneRelease
  <2>1. p # t /\ task'[p].pending = task[p].pending /\ task'[p].status = task[p].status
    BY <1>9, <1>10
  <2>2. \A i \in DOMAIN <<>> : ~Releases(p, <<>>[i])
    BY <1>14
  <2>. QED BY <1>1, <1>14, <2>1, <2>2, HolderKept
\* No entry of a task that t held back was there.
<1>17. \A i \in DOMAIN queue : queue[i].task \in Gated => HolderOf(queue[i].task) # t
  BY <1>3 DEF GateInv, QueueGated
<1>18. \A i \in DOMAIN queue' : queue'[i].task \in Gated =>
         IF i <= n THEN i \in DOMAIN queue /\ queue'[i].task = queue[i].task
         ELSE /\ i - n \in DOMAIN acts /\ queue'[i].task = acts[i - n].sub
              /\ HolderOf(queue'[i].task) = t
  <2>. SUFFICES ASSUME NEW i \in DOMAIN queue', queue'[i].task \in Gated
                PROVE  IF i <= n THEN i \in DOMAIN queue /\ queue'[i].task = queue[i].task
                       ELSE /\ i - n \in DOMAIN acts /\ queue'[i].task = acts[i - n].sub
                            /\ HolderOf(queue'[i].task) = t
    OBVIOUS
  <2>1. i \in 1 .. (n + Len(new)) /\ queue'[i].task = IF i <= n THEN queue[i].task ELSE new[i - n].task
    BY <1>8
  <2>2. CASE i <= n
    BY <1>8, <2>1, <2>2
  <2>3. CASE ~(i <= n)
    <3>1. i - n \in DOMAIN new
      BY <1>6, <1>8, <2>1, <2>3
    <3>. QED BY <1>7, <1>10, <2>1, <2>3, <3>1
  <2>. QED BY <2>2, <2>3
<1>19. QueueGated(queue', task', finished')
  <2>. SUFFICES ASSUME NEW i \in DOMAIN queue', queue'[i].task \in Gated
                PROVE  /\ HolderOf(queue'[i].task) \in finished'
                       /\ task'[HolderOf(queue'[i].task)].pending = <<>>
                       /\ \A j \in DOMAIN queue' : queue'[j].task = queue'[i].task => i = j
    BY DEF QueueGated
  <2>1. CASE i <= n
    <3>1. i \in DOMAIN queue /\ queue'[i].task = queue[i].task
      BY <1>18, <2>1
    <3>2. /\ HolderOf(queue[i].task) \in finished
          /\ task[HolderOf(queue[i].task)].pending = <<>>
          /\ \A j \in DOMAIN queue : queue[j].task = queue[i].task => i = j
      BY <3>1 DEF GateInv, QueueGated
    <3>3. HolderOf(queue[i].task) # t /\ HolderOf(queue[i].task) \in Tasks
      BY <1>10, <1>17, <3>1
    <3>4. ASSUME NEW j \in DOMAIN queue', queue'[j].task = queue'[i].task PROVE i = j
      BY <1>18, <3>1, <3>2, <3>3, <3>4
    <3>. QED BY <1>9, <1>11, <3>1, <3>2, <3>3, <3>4
  <2>2. CASE ~(i <= n)
    <3>1. i - n \in DOMAIN acts /\ queue'[i].task = acts[i - n].sub /\ HolderOf(queue'[i].task) = t
      BY <1>18, <2>2
    <3>2. ASSUME NEW j \in DOMAIN queue', queue'[j].task = queue'[i].task PROVE i = j
      <4>1. ~(j <= n)
        BY <1>17, <1>18, <3>1, <3>2
      <4>2. j - n \in DOMAIN acts /\ acts[j - n].sub = acts[i - n].sub
        BY <1>18, <3>1, <3>2, <4>1
      <4>3. acts[i - n].sub \in Tasks
        BY <1>10, <3>1
      <4>4. i - n = j - n
        BY <1>3, <1>4, <3>1, <4>2, <4>3 DEF GateInv, Gate
      <4>5. i \in Nat /\ j \in Nat /\ n \in Nat
        BY <1>6, <1>8
      <4>. QED BY <4>4, <4>5
    <3>. QED BY <1>3, <1>9, <1>11, <3>1, <3>2
  <2>. QED BY <2>1, <2>2
<1>. QED BY <1>12, <1>13, <1>15, <1>16, <1>19 DEF GateInv

-----------------------------------------------------------------------------
(* The theorems.                                                           *)

LEMMA ServiceStepGate ==
    ASSUME IInv, GateInv, NEW c \in Callers, ServiceStep(c), Approving PROVE GateInv'
BY readTaskSnapshotGate, resolveCompletionTargetGate, writeStatusGate, tryAutoDispatchGate,
   insertQueueEntryGate, SmallStepsGate, readPendingActionsGate, processPendingActionsGate,
   countLoopGate, enterOnTaskCompletedGate, GathersGate, applyDAGTransitionsGate,
   evaluateRulesGate
   DEF ServiceStep, Gathers

\* Approvals and the safety guard start transitions that are harmless; a restart
\* empties the goroutines, and the trash does not matter.
LEMMA EnvironmentGate ==
    ASSUME IInv, GateInv, Environment, Approving PROVE GateInv'
<1>1. finished \subseteq finished' /\ Gate' /\ Special \subseteq Tasks /\ Holders \subseteq Tasks
      /\ \A s \in Gated : HolderOf(s) \in Tasks
  BY GateFacts DEF Approving, GateInv, Gate, Holders, Special, Gated
<1>2. ASSUME \A t \in Tasks : task'[t].pending = task[t].pending /\ task'[t].status = task[t].status,
             UNCHANGED queue,
             \A d \in Callers : \/ work'[d] = work[d] \/ work'[d] = <<>>
                                \/ /\ work[d] = <<>>
                                   /\ \E x : /\ work'[d] = <<x>> /\ x.op = "transition"
                                             /\ x.task \in Special => x.to \in {"done", "review"}
      PROVE  GateInv'
  <2>1. RowsGated(task')
    BY <1>1, <1>2 DEF GateInv, RowsGated, Holders, Gated
  <2>2. \A d \in Callers : \A i \in DOMAIN (work'[d]) :
          \/ i \in DOMAIN work[d] /\ work'[d][i] = work[d][i]
          \/ /\ work'[d][i].op = "transition"
             /\ work'[d][i].task \in Special => work'[d][i].to \in {"done", "review"}
    <3>. SUFFICES ASSUME NEW d \in Callers, NEW i \in DOMAIN (work'[d])
                  PROVE  \/ i \in DOMAIN work[d] /\ work'[d][i] = work[d][i]
                         \/ /\ work'[d][i].op = "transition"
                            /\ work'[d][i].task \in Special => work'[d][i].to \in {"done", "review"}
      OBVIOUS
    <3>1. DOMAIN <<>> = {} /\ \A x : DOMAIN <<x>> = {1} /\ <<x>>[1] = x
      OBVIOUS
    <3>. QED BY <1>2, <3>1
  <2>3. OpsGated(work', task', finished')
    <3>. SUFFICES ASSUME NEW d \in Callers, NEW i \in DOMAIN (work'[d])
                  PROVE  GateOp(work'[d][i], task', finished')
      BY DEF OpsGated
    <3>1. CASE i \in DOMAIN work[d] /\ work'[d][i] = work[d][i]
      <4>1. GateOp(work[d][i], task, finished)
        BY <3>1 DEF GateInv, OpsGated
      <4>2. work[d][i].op = "release" => task'[work[d][i].task].pending = task[work[d][i].task].pending
        BY <1>1, <1>2, <4>1 DEF GateOp
      <4>. QED BY <1>1, <3>1, <4>1, <4>2, GateOpStays
    <3>2. CASE /\ work'[d][i].op = "transition"
               /\ work'[d][i].task \in Special => work'[d][i].to \in {"done", "review"}
      BY <3>2 DEF GateOp
    <3>. QED BY <2>2, <3>1, <3>2
  <2>4. OneRelease(work', task')
    <3>. SUFFICES ASSUME NEW p \in Holders, task'[p].pending # <<>>
                  PROVE  /\ AtMostOneFor(p, work')
                         /\ task'[p].status = "review" => NoneFor(p, work')
      BY DEF OneRelease
    <3>1. task[p].pending # <<>> /\ task'[p].status = task[p].status
      BY <1>1, <1>2
    <3>2. AtMostOneFor(p, work) /\ (task[p].status = "review" => NoneFor(p, work))
      BY <3>1 DEF GateInv, OneRelease
    <3>3. \A d \in Callers : \A i \in DOMAIN (work'[d]) :
            Releases(p, work'[d][i]) => i \in DOMAIN work[d] /\ Releases(p, work[d][i])
      BY <2>2 DEF Releases
    <3>4. AtMostOneFor(p, work')
      BY <3>2, <3>3 DEF AtMostOneFor
    <3>. QED BY <3>1, <3>2, <3>3, <3>4 DEF NoneFor
  <2>5. QueueGated(queue', task', finished')
    BY <1>1, <1>2 DEF GateInv, QueueGated
  <2>. QED BY <1>1, <2>1, <2>3, <2>4, <2>5 DEF GateInv
<1>3. ASSUME NEW c \in Callers, NEW t \in Tasks, NEW to, NEW kind, Request(c, kind),
             Start(c, <<Transition(t, to, FALSE)>>), t \in Special => to \in {"done", "review"}
      PROVE  GateInv'
  <2>. DEFINE x == Transition(t, to, FALSE)
  <2>1. x.op = "transition" /\ x.task = t /\ x.to = to
    BY DEF Transition
  <2>. HIDE DEF x
  <2>2. work[c] = <<>> /\ work' = [work EXCEPT ![c] = <<x>>] /\ UNCHANGED <<task, queue>>
    BY <1>3 DEF Request, Start, x
  <2>3. work'[c] = <<x>> /\ \A d \in Callers : d # c => work'[d] = work[d]
    BY <2>2 DEF IInv
  <2>. QED BY <1>2, <1>3, <2>1, <2>2, <2>3
<1>4. ASSUME NEW kind \in {"set", "reject", "complete"} PROVE kind \notin Kinds
  BY DEF GateInv, Gate
<1>5. ASSUME NEW c \in Callers, NEW t \in Tasks, HandleReview(c, t) PROVE GateInv'
  BY <1>3, <1>4, <1>5 DEF HandleReview, Request
<1>6. ASSUME NEW c \in Callers, NEW t \in Tasks, checkStuckTasks(c, t) PROVE GateInv'
  <2>1. task[t].status = "in_progress" /\ Request(c, "safety") /\ Start(c, <<Transition(t, "stuck", FALSE)>>)
    BY <1>6 DEF checkStuckTasks
  <2>2. t \notin Special
    BY <2>1 DEF GateInv, RowsGated, Special
  <2>. QED BY <1>3, <2>1, <2>2
<1>7. ASSUME NEW c \in Callers, NEW t \in Tasks, Delete(c, t) \/ Restore(c, t) PROVE GateInv'
  <2>1. PICK b \in BOOLEAN : task' = [task EXCEPT ![t].deleted = b]
    BY <1>7 DEF Delete, Restore
  <2>2. task \in [Tasks -> Rows]
    BY DEF IInv, Tables
  <2>3. \A x \in Tasks : task'[x].pending = task[x].pending /\ task'[x].status = task[x].status
    BY <2>1, <2>2 DEF Rows
  <2>4. UNCHANGED <<queue, work>>
    BY <1>7 DEF Delete, Restore
  <2>. QED BY <1>2, <2>3, <2>4
<1>8. CASE Restart
  <2>1. task' = task /\ queue' = queue /\ \A d \in Callers : work'[d] = <<>>
    BY <1>8 DEF Restart
  <2>. QED BY <1>2, <2>1
<1>9. ASSUME NEW c \in Callers, NEW t \in Tasks,
             \/ \E to \in UserStatuses : SetStatus(c, t, to)
             \/ \E summary \in BOOLEAN : MarkCompleted(c, t, summary)
      PROVE  FALSE
  BY <1>4, <1>9 DEF SetStatus, MarkCompleted, Request
<1>. QED BY <1>5, <1>6, <1>7, <1>8, <1>9 DEF Environment, Requests

LEMMA GateInit == Gate /\ MCInit => GateInv
<1>. SUFFICES ASSUME Gate, MCInit PROVE GateInv
  OBVIOUS
<1>1. task = InitRow /\ queue = <<>> /\ \A c \in Callers : work[c] = <<>>
  BY DEF MCInit, Init
<1>2. DOMAIN <<>> = {}
  OBVIOUS
<1>3. RowsGated(task)
  BY <1>1, GateFacts DEF RowsGated, Gate, Holders
<1>4. OpsGated(work, task, finished) /\ OneRelease(work, task) /\ QueueGated(queue, task, finished)
  BY <1>1, <1>2 DEF OpsGated, OneRelease, AtMostOneFor, NoneFor, QueueGated
<1>. QED BY <1>3, <1>4 DEF GateInv

LEMMA GateNext == IInv /\ GateInv /\ [MCNext]_mcVars => GateInv'
<1>. SUFFICES ASSUME IInv, GateInv, [MCNext]_mcVars PROVE GateInv'
  OBVIOUS
<1>1. CASE MCNext
  <2>1. Next /\ Approving
    BY <1>1 DEF MCNext, Approving
  <2>. QED BY <2>1, ServiceStepGate, EnvironmentGate DEF Next
<1>2. CASE UNCHANGED mcVars
  <2>1. task' = task /\ queue' = queue /\ work' = work /\ finished' = finished
    BY <1>2 DEF mcVars
  <2>. QED BY <2>1 DEF GateInv, Gate, Holders, Special, Gated
<1>. QED BY <1>1, <1>2

LEMMA GateInvariant == Gate /\ MCSpec => [](IInv /\ GateInv)
<1>1. MCInit => Init
  BY DEF MCInit
<1>2. [MCNext]_mcVars => [Next]_vars
  BY DEF MCNext, mcVars, vars
<1>. QED BY <1>1, <1>2, GateInit, GateNext, InitInv, NextInv, PTL DEF MCSpec

\* However many humans approve at once, and wherever the server dies or the task is thrown away
\* and restored, a held-back dispatch is released once: whoever wins the race of the approvals puts
\* the one release on its way, and the transaction that makes the entries clears what it was made from.
THEOREM DispatchIsReleasedOnce == Gate /\ MCSpec => []ReleasedAtMostOnce
<1>1. IInv /\ GateInv => ReleasedAtMostOnce
  <2>. SUFFICES ASSUME IInv, GateInv, NEW s \in Gated
                PROVE  Cardinality({i \in DOMAIN queue : queue[i].task = s}) <= 1
    BY DEF ReleasedAtMostOnce
  <2>. DEFINE X == {i \in DOMAIN queue : queue[i].task = s}
  <2>1. \A i, j \in X : i = j
    BY DEF GateInv, QueueGated
  <2>2. CASE X = {}
    BY <2>2, FS_EmptySet
  <2>3. CASE X # {}
    <3>1. PICK i : X = {i}
      BY <2>1, <2>3
    <3>. HIDE DEF X
    <3>2. Cardinality(X) = 1
      BY <3>1, FS_Singleton
    <3>. QED BY <3>2 DEF X
  <2>. QED BY <2>2, <2>3
<1>. QED BY <1>1, GateInvariant, PTL

-----------------------------------------------------------------------------
(* Nothing is released before its holder is done.                          *)

\* An operation on its way to release what a task holds back is about a task that was done.
AboutFinished(o, f) == o.op \in {"pending", "release"} => o.task \in f
HeldInv == /\ HeldUntilDone
           /\ \A d \in Callers : \A i \in DOMAIN work[d] : AboutFinished(work[d][i], finished)

LEMMA HeldStep ==
    ASSUME IInv, HeldInv, Approving, NEW c \in Callers, work[c] # <<>>,
           NEW ops \in Seq(SoundOps), Then(c, ops),
           \A i \in DOMAIN ops : AboutFinished(ops[i], finished'),
           \A t \in Tasks : task'[t].pending = <<>> => task[t].pending = <<>> \/ t \in finished
    PROVE  HeldInv'
<1>1. finished \subseteq finished'
  BY DEF Approving
<1>2. HeldUntilDone'
  BY <1>1 DEF HeldInv, HeldUntilDone
<1>3. ASSUME NEW d \in Callers, NEW j \in DOMAIN (work'[d])
      PROVE  AboutFinished(work'[d][j], finished')
  BY <1>1, Origins DEF HeldInv, AboutFinished
<1>. QED BY <1>2, <1>3 DEF HeldInv

\* What releases nothing.
Silent == {o \in SoundOps : o.op \notin {"pending", "release"}}

LEMMA SilentStep ==
    ASSUME IInv, HeldInv, Approving, NEW c \in Callers, work[c] # <<>>,
           NEW ops \in Seq(Silent), Then(c, ops),
           \A t \in Tasks : task'[t].pending = task[t].pending
    PROVE  HeldInv'
<1>1. ops \in Seq(SoundOps)
  BY SeqMonotonic DEF Silent
<1>2. \A i \in DOMAIN ops : ops[i] \in Silent
  BY ElementOfSeq, LenProperties
<1>. QED BY <1>1, <1>2, HeldStep DEF Silent, AboutFinished

LEMMA TransitionHeld ==
    ASSUME IInv, HeldInv, Approving, NEW c \in Callers,
           readTaskSnapshot(c) \/ resolveCompletionTarget(c)
    PROVE  HeldInv'
<1>. DEFINE o == Head(work[c])
            row == task[o.task]
            s == [status |-> row.status, assignee |-> row.assignee, loops |-> row.loops]
            resolve == [op |-> "resolve", task |-> o.task, snap |-> s,
                        summary |-> o.summary, attempt |-> o.attempt]
            write == [op |-> "write", task |-> o.task, snap |-> s, to |-> o.to, asked |-> o.to,
                      summary |-> o.summary, attempt |-> o.attempt]
            writeTo(to) == [op |-> "write", task |-> o.task, snap |-> o.snap, to |-> to,
                            asked |-> "completed", summary |-> o.summary, attempt |-> o.attempt]
<1>1. work[c] # <<>> /\ o.op \in {"transition", "resolve"} /\ UNCHANGED task
  BY DEF readTaskSnapshot, resolveCompletionTarget, Doing
<1>2. /\ o.op = "transition" => o \in TransitionOps
      /\ o.op = "resolve" => o \in ResolveOps /\ transitionValid(o.snap.status, "completed")
  BY <1>1, HeadsAreSound, HeadIsSound, OpTypes DEF Sound
<1>3. CASE readTaskSnapshot(c)
  <2>1. o \in TransitionOps
    BY <1>2, <1>3 DEF readTaskSnapshot, Doing
  <2>2. s \in Snapshots /\ row.status = s.status
    BY <2>1 DEF IInv, Tables, Rows, Snapshots, TransitionOps
  <2>3. o.to = "completed" /\ transitionValid(row.status, o.to) => resolve \in Silent
    <3>1. resolve \in ResolveOps
      BY <2>1, <2>2 DEF TransitionOps, ResolveOps
    <3>2. o.to = "completed" /\ transitionValid(row.status, o.to) => Sound(resolve)
      BY <2>2 DEF Sound
    <3>. QED BY <3>1, <3>2 DEF Silent, SoundOps, Ops
  <2>4. o.to # "completed" /\ transitionValid(row.status, o.to) => write \in Silent
    <3>1. write \in WriteOps
      BY <2>1, <2>2 DEF TransitionOps, WriteOps
    <3>2. o.to # "completed" /\ transitionValid(row.status, o.to) => Sound(write)
      BY <2>2 DEF Sound, StatusMove
    <3>. QED BY <3>1, <3>2 DEF Silent, SoundOps, Ops
  <2>5. \/ Then(c, <<>>)
        \/ transitionValid(row.status, o.to) /\ o.to = "completed" /\ Then(c, <<resolve>>)
        \/ transitionValid(row.status, o.to) /\ o.to # "completed" /\ Then(c, <<write>>)
    BY <1>3 DEF readTaskSnapshot
  <2>. HIDE DEF resolve, write
  <2>. QED BY <1>1, <2>3, <2>4, <2>5, ShortSeqs, SilentStep
<1>4. CASE resolveCompletionTarget(c)
  <2>1. o \in ResolveOps /\ transitionValid(o.snap.status, "completed")
    BY <1>2, <1>4 DEF resolveCompletionTarget, Doing
  <2>2. PICK to \in CompletionTargets(o.task, o.summary) : Then(c, <<writeTo(to)>>)
    BY <1>4 DEF resolveCompletionTarget
  <2>3. to \in {"review", "done"}
    BY <2>1, <2>2, CompletionTargetsType DEF ResolveOps
  <2>4. writeTo(to) \in Silent
    <3>1. writeTo(to) \in WriteOps
      BY <2>1, <2>3 DEF ResolveOps, WriteOps, Statuses
    <3>2. Sound(writeTo(to))
      BY <2>1, <2>3 DEF Sound, StatusMove
    <3>. QED BY <3>1, <3>2 DEF Silent, SoundOps, Ops
  <2>. HIDE DEF writeTo
  <2>. QED BY <1>1, <2>2, <2>4, ShortSeqs, SilentStep
<1>. QED BY <1>3, <1>4

LEMMA OtherEffects ==
    ASSUME NEW t \in Tasks, NEW s \in Snapshots, NEW to \in Statuses,
           ~(to = "done" /\ s.status \in {"review", "in_progress"})
    PROVE  SideEffects(t, s, to) \in Seq(Silent)
<1>. DEFINE assigned == s.assignee # NoAgent
            first == IF assigned /\ Behavior[t] = "auto_review"
                     THEN <<ForAgent("reviewQueue", t, s.assignee)>> ELSE <<>>
            count == [op |-> "loops", task |-> t, agent |-> s.assignee, count |-> s.loops + 1]
<1>1. On("dag", t) \in Silent /\ On("rules", t) \in Silent
  BY SoundByName DEF Silent, On
<1>2. assigned => /\ ForAgent("reviewQueue", t, s.assignee) \in Silent
                  /\ ForAgent("dispatch", t, s.assignee) \in Silent
  BY SoundByName DEF Snapshots, Silent, ForAgent
<1>3. count \in Silent
  <2>1. count \in LoopOps
    BY DEF LoopOps, Snapshots
  <2>. QED BY <2>1, SoundByName DEF Silent
<1>4. first \o <<On("dag", t), On("rules", t)>> \in Seq(Silent)
  <2>1. first \in Seq(Silent) /\ <<On("dag", t), On("rules", t)>> \in Seq(Silent)
    BY <1>1, <1>2, ShortSeqs
  <2>. QED BY <2>1, ConcatProperties
<1>5. <<count>> \in Seq(Silent) /\ <<>> \in Seq(Silent)
  BY <1>3, ShortSeqs
<1>6. assigned => <<ForAgent("dispatch", t, s.assignee)>> \in Seq(Silent)
  BY <1>2, ShortSeqs
<1>. QED BY <1>4, <1>5, <1>6 DEF SideEffects

\* The release is put on its way by the write that moved the task to done, and by no other.
LEMMA writeStatusHeld ==
    ASSUME IInv, HeldInv, Approving, NEW c \in Callers, writeStatus(c) PROVE HeldInv'
<1>. DEFINE retry(o) == [Transition(o.task, o.asked, o.summary) EXCEPT !.attempt = o.attempt + 1]
<1>1. work[c] # <<>> /\ Head(work[c]).op = "write"
  BY DEF writeStatus, Doing
<1>2. PICK o \in WriteOps : o = Head(work[c])
  BY <1>1, HeadsAreSound, HeadIsSound, OpTypes
<1>3. o.task \in Tasks /\ o.to \in Statuses /\ o.snap \in Snapshots /\ o.summary \in BOOLEAN
      /\ o.asked \in Statuses /\ o.attempt \in 0 .. maxRetries - 1
  BY DEF WriteOps
<1>4. CASE /\ Unmodified(o.task, o.snap)
           /\ Then(c, SideEffects(o.task, o.snap, o.to))
           /\ task' = [task EXCEPT ![o.task].status = o.to]
  <2>1. task[o.task].status = o.snap.status /\ task'[o.task].status = o.to
        /\ \A t \in Tasks : task'[t].pending = task[t].pending
    BY <1>3, <1>4 DEF IInv, Tables, Rows, Unmodified
  <2>2. PICK ops : ops = SideEffects(o.task, o.snap, o.to)
    OBVIOUS
  <2>3. ops \in Seq(About(o.task)) /\ ops \in Seq(SoundOps)
    BY <1>3, <2>2, SideEffectsAbout, SideEffectsType
  <2>4. \A i \in DOMAIN ops : ops[i] \in About(o.task)
    BY <2>3, ElementOfSeq, LenProperties
  <2>5. CASE o.to = "done" /\ o.snap.status \in {"review", "in_progress"}
    <3>1. o.task \in finished'
      BY <1>3, <2>1, <2>5 DEF Approving, Moved
    <3>. QED BY <1>1, <1>4, <2>1, <2>2, <2>3, <2>4, <3>1, HeldStep DEF About, AboutFinished
  <2>6. CASE ~(o.to = "done" /\ o.snap.status \in {"review", "in_progress"})
    <3>1. SideEffects(o.task, o.snap, o.to) \in Seq(Silent)
      BY <1>3, <2>6, OtherEffects
    <3>. QED BY <1>1, <1>4, <2>1, <3>1, SilentStep
  <2>. QED BY <2>5, <2>6
<1>5. CASE Then(c, <<>>) /\ UNCHANGED task
  BY <1>1, <1>5, ShortSeqs, SilentStep
<1>6. CASE o.attempt < maxRetries - 1 /\ Then(c, <<retry(o)>>) /\ UNCHANGED task
  <2>1. o.attempt + 1 \in 0 .. maxRetries - 1
    BY <1>3, <1>6 DEF maxRetries
  <2>2. retry(o) \in Silent
    BY <1>3, <2>1, SoundByName DEF Silent, Transition
  <2>. HIDE DEF retry
  <2>. QED BY <1>1, <1>6, <2>2, ShortSeqs, SilentStep
<1>. QED BY <1>2, <1>4, <1>5, <1>6 DEF writeStatus

\* A release is made from the task's own actions, and it clears them.
LEMMA ReleaseHeld ==
    ASSUME IInv, HeldInv, Approving, NEW c \in Callers,
           readPendingActions(c) \/ processPendingActions(c)
    PROVE  HeldInv'
<1>. DEFINE t == Head(work[c]).task
            release == [op |-> "release", task |-> t, actions |-> task[t].pending]
<1>1. work[c] # <<>> /\ Head(work[c]).op \in {"pending", "release"}
  BY DEF readPendingActions, processPendingActions, Doing
<1>2. t \in Tasks
  BY <1>1, HeadsAreSound, HeadIsSound, OpTypes DEF TaskOps, ReleaseOps
<1>3. t \in finished
  <2>1. 1 \in DOMAIN work[c] /\ Head(work[c]) = work[c][1]
    <3>1. work[c] \in Seq(SoundOps)
      BY DEF IInv
    <3>. QED BY <1>1, <3>1, EmptySeq, LenProperties
  <2>. QED BY <1>1, <2>1 DEF HeldInv, AboutFinished
<1>4. CASE readPendingActions(c)
  <2>1. UNCHANGED task /\ (Then(c, <<>>) \/ Then(c, <<release>>))
    BY <1>4 DEF readPendingActions
  <2>2. release \in SoundOps
    <3>1. release \in ReleaseOps
      BY <1>2 DEF ReleaseOps, IInv, Tables, Rows
    <3>. QED BY <3>1, SoundByName
  <2>3. release.task \in finished'
    BY <1>3 DEF Approving
  <2>. HIDE DEF release
  <2>4. CASE Then(c, <<release>>)
    <3>1. <<release>> \in Seq(SoundOps) /\ \A i \in DOMAIN <<release>> : <<release>>[i] = release
      BY <2>2, ShortSeqs
    <3>2. PICK ops \in Seq(SoundOps) : ops = <<release>>
      BY <3>1
    <3>. QED BY <1>1, <2>1, <2>3, <2>4, <3>1, <3>2, HeldStep DEF AboutFinished
  <2>5. CASE Then(c, <<>>)
    BY <1>1, <2>1, <2>5, ShortSeqs, SilentStep
  <2>. QED BY <2>1, <2>4, <2>5
<1>5. CASE processPendingActions(c)
  <2>1. Then(c, <<>>) /\ task' = [task EXCEPT ![t].pending = <<>>, ![t].assignee = NoAgent]
    BY <1>5 DEF processPendingActions
  <2>2. \A x \in Tasks : task'[x].pending = IF x = t THEN <<>> ELSE task[x].pending
    BY <1>2, <2>1 DEF IInv, Tables, Rows
  <2>3. <<>> \in Seq(SoundOps) /\ DOMAIN <<>> = {}
    BY ShortSeqs
  <2>. QED BY <1>1, <1>3, <2>1, <2>2, <2>3, HeldStep
<1>. QED BY <1>4, <1>5

LEMMA QueueHeld ==
    ASSUME IInv, HeldInv, Approving, NEW c \in Callers,
           \/ tryAutoDispatch(c) \/ createReviewQueue(c) \/ insertQueueEntry(c) \/ bumpLoad(c)
           \/ dropLoadOfTask(c) \/ failEntriesOfTask(c) \/ leaveOnTaskCompleted(c) \/ assignUser(c)
    PROVE  HeldInv'
<1>. DEFINE o == Head(work[c])
            insert == <<ForAgent("insert", o.task, o.agent), [op |-> "bump", agent |-> o.agent]>>
<1>1. CASE tryAutoDispatch(c) \/ createReviewQueue(c)
  <2>1. work[c] # <<>> /\ o.op \in {"dispatch", "reviewQueue"} /\ UNCHANGED task
    BY <1>1 DEF tryAutoDispatch, createReviewQueue, Doing
  <2>2. o \in AgentOps
    BY <2>1, HeadsAreSound, HeadIsSound, OpTypes
  <2>3. insert \in Seq(Silent)
    BY <2>2, SoundByName, ShortSeqs DEF AgentOps, Silent, ForAgent
  <2>4. Then(c, <<>>) \/ Then(c, insert)
    BY <1>1 DEF tryAutoDispatch, createReviewQueue
  <2>. QED BY <2>1, <2>3, <2>4, ShortSeqs, SilentStep
<1>2. CASE \/ insertQueueEntry(c) \/ bumpLoad(c) \/ dropLoadOfTask(c) \/ failEntriesOfTask(c)
           \/ leaveOnTaskCompleted(c) \/ assignUser(c)
  <2>1. work[c] # <<>> /\ Then(c, <<>>)
    BY <1>2 DEF insertQueueEntry, bumpLoad, dropLoadOfTask, failEntriesOfTask, assignUser,
                leaveOnTaskCompleted, Doing
  <2>2. \A t \in Tasks : task'[t].pending = task[t].pending
    <3>1. task' = task \/ task' = [task EXCEPT ![Head(work[c]).task].assignee = NoAgent]
      BY <1>2 DEF insertQueueEntry, bumpLoad, dropLoadOfTask, failEntriesOfTask, assignUser,
                  leaveOnTaskCompleted
    <3>2. CASE task' = task
      BY <3>2
    <3>3. CASE task' = [task EXCEPT ![o.task].assignee = NoAgent]
      <4>. HIDE DEF o
      <4>. QED BY <3>3 DEF IInv, Tables, Rows
    <3>. QED BY <3>1, <3>2, <3>3
  <2>. QED BY <2>1, <2>2, ShortSeqs, SilentStep
<1>. QED BY <1>1, <1>2

LEMMA countLoopHeld ==
    ASSUME IInv, HeldInv, Approving, NEW c \in Callers, countLoop(c) PROVE HeldInv'
<1>. DEFINE o == Head(work[c])
            ops == IF AtLimit(o.count) THEN <<Transition(o.task, "stuck", FALSE)>>
                   ELSE IF o.agent # NoAgent THEN <<ForAgent("reviewQueue", o.task, o.agent)>>
                   ELSE <<>>
<1>1. work[c] # <<>> /\ o.op = "loops" /\ Then(c, ops)
      /\ task' = [task EXCEPT ![o.task].loops = o.count]
  BY DEF countLoop, Doing
<1>2. o \in LoopOps
  BY <1>1, HeadsAreSound, HeadIsSound, OpTypes
<1>3. Transition(o.task, "stuck", FALSE) \in Silent
  BY <1>2, SoundByName DEF LoopOps, Statuses, Silent, Transition
<1>4. o.agent # NoAgent => ForAgent("reviewQueue", o.task, o.agent) \in Silent
  BY <1>2, SoundByName DEF LoopOps, Silent, ForAgent
<1>5. ops \in Seq(Silent)
  BY <1>3, <1>4, ShortSeqs
<1>6. \A t \in Tasks : task'[t].pending = task[t].pending
  BY <1>1, <1>2 DEF IInv, Tables, Rows, LoopOps
<1>. QED BY <1>1, <1>5, <1>6, SilentStep

\* The DAG engine and the rules.
LEMMA EngineHeld ==
    ASSUME IInv, HeldInv, Approving, NEW c \in Callers,
           enterOnTaskCompleted(c) \/ Gathers(c) \/ applyDAGTransitions(c) \/ evaluateRules(c)
    PROVE  HeldInv'
<1>. DEFINE o == Head(work[c])
            t == o.task
<1>1. CASE enterOnTaskCompleted(c)
  <2>1. work[c] # <<>> /\ o.op = "dag" /\ UNCHANGED task
        /\ (Then(c, <<>>) \/ Then(c, <<On("gather", t), On("leave", t)>>))
    BY <1>1 DEF enterOnTaskCompleted, Doing
  <2>2. t \in Tasks
    BY <2>1, HeadsAreSound, HeadIsSound, OpTypes DEF TaskOps
  <2>3. <<On("gather", t), On("leave", t)>> \in Seq(Silent)
    BY <2>2, SoundByName, ShortSeqs DEF Silent, On
  <2>. QED BY <2>1, <2>3, ShortSeqs, SilentStep
<1>2. CASE Gathers(c)
  <2>1. work[c] # <<>>
    BY <1>2 DEF Gathers, gatherDAGTransitions, checkDependents, checkSiblings, readParent, Doing
  <2>2. SoundHead(c)
    BY <2>1, HeadsAreSound
  <2>3. PICK g \in Gathered : Then(c, <<g>>)
    BY <1>2, <2>2, GathersOn
  <2>4. UNCHANGED task
    BY <1>2, <2>2, GathersOn
  <2>5. g \in Silent
    BY SoundByName DEF Silent, Gathered, CheckOps, ParentOps, AdvanceOps
  <2>. QED BY <2>1, <2>3, <2>4, <2>5, ShortSeqs, SilentStep
<1>3. CASE applyDAGTransitions(c)
  <2>. DEFINE close == IF o.parent = NoTask THEN <<>> ELSE <<Transition(o.parent, o.to, FALSE)>>
              unblock(d) == <<Transition(d, "todo", FALSE), After(o, d)>>
  <2>1. work[c] # <<>> /\ o.op = "advance" /\ UNCHANGED task
        /\ ((\E d \in o.unblock : Then(c, unblock(d))) \/ Then(c, close))
    BY <1>3 DEF applyDAGTransitions, Doing
  <2>2. o \in AdvanceOps
    BY <2>1, HeadsAreSound, HeadIsSound, OpTypes
  <2>3. ASSUME NEW d \in o.unblock PROVE unblock(d) \in Seq(Silent)
    <3>1. After(o, d) \in AdvanceOps
      BY <2>2 DEF AdvanceOps, After
    <3>2. After(o, d) \in Silent
      BY <3>1, SoundByName DEF Silent, AdvanceOps
    <3>3. Transition(d, "todo", FALSE) \in Silent
      BY <2>2, SoundByName DEF AdvanceOps, Statuses, Silent, Transition
    <3>. QED BY <3>2, <3>3, ShortSeqs
  <2>4. close \in Seq(Silent)
    <3>1. o.parent # NoTask => Transition(o.parent, o.to, FALSE) \in Silent
      BY <2>2, SoundByName DEF AdvanceOps, Statuses, Silent, Transition
    <3>. QED BY <3>1, ShortSeqs
  <2>. HIDE DEF close, unblock
  <2>. QED BY <2>1, <2>3, <2>4, SilentStep
<1>4. CASE evaluateRules(c)
  <2>. DEFINE acts == RuleActions[t]
              ops == [i \in DOMAIN acts |-> IF acts[i] = "assign_user" THEN On("unassign", t)
                                            ELSE Transition(t, acts[i], FALSE)]
  <2>1. work[c] # <<>> /\ o.op = "rules" /\ Then(c, ops) /\ UNCHANGED task
    BY <1>4 DEF evaluateRules, Doing
  <2>2. t \in Tasks
    BY <2>1, HeadsAreSound, HeadIsSound, OpTypes DEF TaskOps
  <2>3. acts \in Seq(Statuses \cup {"assign_user"})
    BY <2>2, TaskAssumption
  <2>4. \A i \in DOMAIN acts : acts[i] \in Statuses \cup {"assign_user"}
    BY <2>3, ElementOfSeq, LenProperties
  <2>5. /\ On("unassign", t) \in Silent
        /\ \A to \in Statuses : Transition(t, to, FALSE) \in Silent
    BY <2>2, SoundByName DEF Silent, On, Transition
  <2>6. \A i \in DOMAIN acts : ops[i] \in Silent
    BY <2>4, <2>5
  <2>7. ops \in Seq(Silent)
    BY <2>3, <2>6, MapIsSeq
  <2>. QED BY <2>1, <2>7, SilentStep
<1>. QED BY <1>1, <1>2, <1>3, <1>4

\* A request puts a transition on its way; the trash keeps what is held; a restart forgets what was
\* on its way, and clears nothing.
LEMMA EnvironmentHeld ==
    ASSUME IInv, HeldInv, Approving, Environment PROVE HeldInv'
<1>1. finished \subseteq finished'
  BY DEF Approving
<1>2. ASSUME \A t \in Tasks : task'[t].pending = task[t].pending,
             \A d \in Callers : \A i \in DOMAIN (work'[d]) :
                \/ i \in DOMAIN work[d] /\ work'[d][i] = work[d][i]
                \/ work'[d][i].op = "transition"
      PROVE  HeldInv'
  <2>1. HeldUntilDone'
    BY <1>1, <1>2 DEF HeldInv, HeldUntilDone
  <2>2. \A d \in Callers : \A i \in DOMAIN (work'[d]) : AboutFinished(work'[d][i], finished')
    BY <1>1, <1>2 DEF HeldInv, AboutFinished
  <2>. QED BY <2>1, <2>2 DEF HeldInv
<1>3. ASSUME NEW c \in Callers, NEW t \in Tasks, NEW to, NEW summary,
             Start(c, <<Transition(t, to, summary)>>)
      PROVE  HeldInv'
  <2>. DEFINE x == Transition(t, to, summary)
  <2>1. x.op = "transition"
    BY DEF Transition
  <2>2. work' = [work EXCEPT ![c] = <<x>>] /\ UNCHANGED task
    BY <1>3 DEF Start
  <2>. HIDE DEF x
  <2>3. DOMAIN <<x>> = {1} /\ <<x>>[1] = x
    OBVIOUS
  <2>4. work'[c] = <<x>> /\ \A d \in Callers : d # c => work'[d] = work[d]
    BY <2>2 DEF IInv
  <2>. QED BY <1>2, <2>1, <2>2, <2>3, <2>4
<1>4. ASSUME NEW c \in Callers, NEW t \in Tasks,
             \/ \E to \in UserStatuses : SetStatus(c, t, to)
             \/ \E summary \in BOOLEAN : MarkCompleted(c, t, summary)
             \/ HandleReview(c, t) \/ checkStuckTasks(c, t)
      PROVE  HeldInv'
  BY <1>3, <1>4 DEF SetStatus, MarkCompleted, HandleReview, checkStuckTasks
<1>5. ASSUME NEW c \in Callers, NEW t \in Tasks, Delete(c, t) \/ Restore(c, t) PROVE HeldInv'
  <2>1. PICK b \in BOOLEAN : task' = [task EXCEPT ![t].deleted = b]
    BY <1>5 DEF Delete, Restore
  <2>2. \A x \in Tasks : task'[x].pending = task[x].pending
    BY <2>1 DEF IInv, Tables, Rows
  <2>3. work' = work
    BY <1>5 DEF Delete, Restore
  <2>. QED BY <1>2, <2>2, <2>3
<1>6. CASE Restart
  <2>1. task' = task /\ \A d \in Callers : work'[d] = <<>>
    BY <1>6 DEF Restart
  <2>2. DOMAIN <<>> = {}
    OBVIOUS
  <2>. QED BY <1>2, <2>1, <2>2
<1>. QED BY <1>4, <1>5, <1>6 DEF Environment, Requests

\* Whatever is asked for at once, whichever goroutine loses the race for the status, and wherever
\* the server dies: what a task holds back stays held until a write moved the task to done.
THEOREM HeldUntilItsTaskIsDone == MCSpec => []HeldUntilDone
<1>1. MCInit => Init /\ HeldInv
  <2>1. DOMAIN <<>> = {}
    OBVIOUS
  <2>. QED BY <2>1 DEF MCInit, Init, HeldInv, HeldUntilDone
<1>2. [MCNext]_mcVars => [Next]_vars
  BY DEF MCNext, mcVars, vars
<1>3. IInv /\ HeldInv /\ [MCNext]_mcVars => HeldInv'
  <2>. SUFFICES ASSUME IInv, HeldInv, [MCNext]_mcVars PROVE HeldInv'
    OBVIOUS
  <2>1. CASE UNCHANGED mcVars
    BY <2>1 DEF mcVars, HeldInv, HeldUntilDone, AboutFinished
  <2>2. CASE MCNext
    <3>1. Next /\ Approving
      BY <2>2 DEF MCNext, Approving
    <3>2. ASSUME NEW c \in Callers, ServiceStep(c) PROVE HeldInv'
      BY <3>1, <3>2, TransitionHeld, writeStatusHeld, ReleaseHeld, QueueHeld, countLoopHeld,
         EngineHeld DEF ServiceStep, Gathers
    <3>. QED BY <3>1, <3>2, EnvironmentHeld DEF Next
  <2>. QED BY <2>1, <2>2
<1>4. HeldInv => HeldUntilDone
  BY DEF HeldInv
<1>. QED BY <1>1, <1>2, <1>3, <1>4, InitInv, NextInv, PTL DEF MCSpec

-----------------------------------------------------------------------------
(* What the DAG engine owes a task.                                        *)

\* What the engine may owe: to take a task out of the status it waits in, once
\* all the tasks it waits for are ready, by a transition to one of these.
Unblocking(t) == [task |-> t, waits |-> "blocked", sources |-> DependsOn[t], moves |-> {"todo"}]
Closing(p) == [task |-> p, waits |-> "in_progress", sources |-> Children(p), moves |-> {"review", "done"}]
Debts == {Unblocking(t) : t \in InWorkflow} \cup {Closing(p) : p \in Tasks}

Owed(k) == task[k.task].status = k.waits /\ k.sources # {} /\ \A s \in k.sources : ready(s)

\* An operation still to be run that leads to the transition owed: the completion of a
\* task waited for that will be let in, and what follows from it.
Pledge(k, o) ==
    \/ o.op = "dag" /\ o.task \in k.sources /\ o.task \notin guard
    \/ o.op = "gather" /\ o.task \in k.sources
    \/ /\ o.op \in {"check", "siblings", "parent"}
       /\ IF k.waits = "blocked" THEN k.task \in Listed(o) ELSE o.task \in k.sources
    \/ o.op = "advance" /\ IF k.waits = "blocked" THEN k.task \in o.unblock ELSE o.parent = k.task
    \/ o.op = "transition" /\ o.task = k.task /\ o.to \in k.moves
    \/ o.op = "write" /\ o.task = k.task /\ o.to \in k.moves /\ o.snap.status = k.waits

Pledged(k) == \E d \in Callers : \E i \in DOMAIN work[d] : Pledge(k, work[d][i])

\* The invariant: whatever is owed is on its way in some goroutine.
Honoured(k) == Owed(k) => Pledged(k)

\* Nothing is thrown away, and the server does not die.
Calm == /\ Kinds \cap {"delete", "restore", "restart"} = {}
        /\ \A t \in Tasks : ~InitRow[t].deleted
Untrashed == Calm /\ \A t \in Tasks : ~task[t].deleted

\* What a step must not do.  A task is not completed while its previous completion is still
\* being handled: its OnTaskCompleted would be turned away.
CompletesApart == \A t \in guard : task[t].status \notin Satisfied => task'[t].status \notin Satisfied

\* A task does not begin to wait when what it would wait for is ready already.
InTime(k) == task[k.task].status # k.waits /\ task'[k.task].status = k.waits => ~Owed(k)'
BlocksInTime == \A t \in Tasks : InTime(Unblocking(t))
StartsInTime == \A p \in Tasks : InTime(Closing(p))

LEMMA DebtFacts ==
    ASSUME NEW k \in Debts
    PROVE  /\ k.task \in Tasks /\ k.sources \subseteq Tasks /\ k.moves \subseteq Statuses
           /\ k.waits = "blocked" =>
                k.task \in InWorkflow /\ k.sources = DependsOn[k.task] /\ k.moves = {"todo"}
           /\ k.waits # "blocked" =>
                /\ k.waits = "in_progress" /\ k.sources = Children(k.task)
                /\ k.moves = {"review", "done"}
           /\ \A to \in k.moves : to # "completed" /\ to # k.waits /\ transitionValid(k.waits, to)
<1>1. CASE \E t \in InWorkflow : k = Unblocking(t)
  <2>1. PICK t \in InWorkflow : k = Unblocking(t)
    BY <1>1
  <2>2. k.task = t /\ k.waits = "blocked" /\ k.sources = DependsOn[t] /\ k.moves = {"todo"}
    BY <2>1 DEF Unblocking
  <2>. QED BY <2>2, TaskAssumption DEF transitionValid, Transitions, Statuses
<1>2. CASE \E p \in Tasks : k = Closing(p)
  <2>1. PICK p \in Tasks : k = Closing(p)
    BY <1>2
  <2>2. /\ k.task = p /\ k.waits = "in_progress" /\ k.sources = Children(p)
        /\ k.moves = {"review", "done"}
    BY <2>1 DEF Closing
  <2>. QED BY <2>2 DEF transitionValid, Transitions, Statuses, Children
<1>. QED BY <1>1, <1>2 DEF Debts

-----------------------------------------------------------------------------
(* Where a pledge is after a step.                                         *)

\* An operation that did not run is still there.
LEMMA Remains ==
    ASSUME IInv, NEW c \in Callers, work[c] # <<>>, NEW ops \in Seq(SoundOps), Then(c, ops),
           NEW d \in Callers, NEW i \in DOMAIN work[d], ~(d = c /\ i = 1)
    PROVE  \E j \in DOMAIN (work'[d]) : work'[d][j] = work[d][i]
<1>. DEFINE n == Len(work[c])
            m == Len(ops)
<1>1. /\ n \in Nat /\ n >= 1 /\ m \in Nat
      /\ DOMAIN work[c] = 1 .. n
      /\ DOMAIN (work'[c]) = 1 .. (m + n - 1)
      /\ \A j \in 2 .. n : work'[c][j + m - 1] = work[c][j]
      /\ \A e \in Callers : e # c => work'[e] = work[e]
  BY Positions
<1>. HIDE DEF n, m
<1>2. CASE d # c
  BY <1>1, <1>2
<1>3. CASE d = c
  <2>1. i \in 2 .. n /\ i + m - 1 \in 1 .. (m + n - 1)
    BY <1>1, <1>3
  <2>2. work'[c][i + m - 1] = work[c][i]
    BY <1>1, <2>1
  <2>. QED BY <1>1, <1>3, <2>1, <2>2
<1>. QED BY <1>2, <1>3

\* A pledge among the operations that come next is a pledge after the step.
LEMMA NewPledge ==
    ASSUME IInv, NEW c \in Callers, work[c] # <<>>, NEW ops \in Seq(SoundOps), Then(c, ops),
           NEW k, NEW i \in DOMAIN ops, Pledge(k, ops[i])'
    PROVE  Pledged(k)'
<1>. DEFINE n == Len(work[c])
            m == Len(ops)
<1>1. /\ n \in Nat /\ n >= 1 /\ m \in Nat
      /\ DOMAIN ops = 1 .. m
      /\ DOMAIN (work'[c]) = 1 .. (m + n - 1)
      /\ \A j \in 1 .. m : work'[c][j] = ops[j]
  BY Positions
<1>. HIDE DEF n, m
<1>2. i \in 1 .. m /\ i \in 1 .. (m + n - 1)
  BY <1>1
<1>3. work'[c][i] = ops[i] /\ i \in DOMAIN (work'[c])
  BY <1>1, <1>2
<1>. QED BY <1>3 DEF Pledged, Pledge

-----------------------------------------------------------------------------
(* What a step does to the statuses and to the guard.                      *)

\* The step that runs an operation is told by its name.
LEMMA StepByName ==
    ASSUME NEW c \in Callers, ServiceStep(c)
    PROVE  LET name == Head(work[c]).op IN
           /\ work[c] # <<>>
           /\ name = "dag" => enterOnTaskCompleted(c)
           /\ name = "gather" => gatherDAGTransitions(c)
           /\ name = "check" => checkDependents(c)
           /\ name = "siblings" => checkSiblings(c)
           /\ name = "parent" => readParent(c)
           /\ name = "advance" => applyDAGTransitions(c)
           /\ name = "transition" => readTaskSnapshot(c)
           /\ name = "write" => writeStatus(c)
BY DEF ServiceStep, Doing, readTaskSnapshot, resolveCompletionTarget, writeStatus,
       tryAutoDispatch, createReviewQueue, insertQueueEntry, bumpLoad, readPendingActions,
       processPendingActions, dropLoadOfTask, failEntriesOfTask, countLoop, enterOnTaskCompleted,
       gatherDAGTransitions, checkDependents, checkSiblings, readParent, applyDAGTransitions,
       leaveOnTaskCompleted, evaluateRules, assignUser

\* Only writeStatus changes a status, and only as the operation it runs says.
LEMMA OneWriter ==
    ASSUME IInv, NEW c \in Callers, ServiceStep(c), NEW t \in Tasks
    PROVE  /\ task'[t].deleted = task[t].deleted
           /\ \/ task'[t].status = task[t].status
              \/ LET o == Head(work[c]) IN
                 /\ writeStatus(c) /\ o.task = t /\ Unmodified(t, o.snap)
                 /\ task'[t].status = o.to
                 /\ Then(c, SideEffects(t, o.snap, o.to)) /\ UNCHANGED guard
<1>. DEFINE o == Head(work[c])
<1>1. task \in [Tasks -> Rows]
  BY DEF IInv, Tables
<1>2. CASE writeStatus(c) /\ Unmodified(o.task, o.snap)
  <2>1. o.task \in Tasks
    BY <1>2, HeadsAreSound, HeadIsSound, OpTypes DEF writeStatus, Doing, WriteOps
  <2>2. /\ task' = [task EXCEPT ![o.task].status = o.to]
        /\ Then(c, SideEffects(o.task, o.snap, o.to)) /\ UNCHANGED guard
    BY <1>2 DEF writeStatus
  <2>. QED BY <1>1, <1>2, <2>1, <2>2 DEF Rows
<1>3. CASE UNCHANGED task
  BY <1>3
<1>4. CASE \/ readTaskSnapshot(c) \/ resolveCompletionTarget(c)
           \/ tryAutoDispatch(c) \/ createReviewQueue(c) \/ insertQueueEntry(c) \/ bumpLoad(c)
           \/ readPendingActions(c) \/ dropLoadOfTask(c) \/ failEntriesOfTask(c)
           \/ enterOnTaskCompleted(c) \/ gatherDAGTransitions(c) \/ checkDependents(c)
           \/ checkSiblings(c) \/ readParent(c) \/ applyDAGTransitions(c)
           \/ leaveOnTaskCompleted(c) \/ evaluateRules(c)
           \/ writeStatus(c) /\ ~Unmodified(o.task, o.snap)
  <2>1. UNCHANGED task
    BY <1>4 DEF readTaskSnapshot, resolveCompletionTarget, tryAutoDispatch, createReviewQueue,
       insertQueueEntry, bumpLoad, readPendingActions, dropLoadOfTask, failEntriesOfTask,
       enterOnTaskCompleted, gatherDAGTransitions, checkDependents, checkSiblings, readParent,
       applyDAGTransitions, leaveOnTaskCompleted, evaluateRules, writeStatus
  <2>. QED BY <1>3, <2>1
<1>5. CASE processPendingActions(c)
  <2>1. task' = [task EXCEPT ![o.task].pending = <<>>, ![o.task].assignee = NoAgent]
    BY <1>5 DEF processPendingActions
  <2>. QED BY <1>1, <2>1 DEF Rows
<1>6. CASE countLoop(c)
  <2>1. task' = [task EXCEPT ![o.task].loops = o.count]
    BY <1>6 DEF countLoop
  <2>. QED BY <1>1, <2>1 DEF Rows
<1>7. CASE assignUser(c)
  <2>1. task' = [task EXCEPT ![o.task].assignee = NoAgent]
    BY <1>7 DEF assignUser
  <2>. QED BY <1>1, <2>1 DEF Rows
<1>. QED BY <1>2, <1>4, <1>5, <1>6, <1>7 DEF ServiceStep

\* A task enters the guard by the completion that is let in.
LEMMA GuardGrows ==
    ASSUME IInv, NEW c \in Callers, ServiceStep(c), NEW x \in Tasks, x \in guard', x \notin guard
    PROVE  Then(c, <<On("gather", x), On("leave", x)>>)
<1>1. CASE enterOnTaskCompleted(c)
  BY <1>1 DEF enterOnTaskCompleted
<1>2. CASE leaveOnTaskCompleted(c)
  BY <1>2 DEF leaveOnTaskCompleted
<1>3. CASE ~enterOnTaskCompleted(c) /\ ~leaveOnTaskCompleted(c)
  <2>1. UNCHANGED guard
    BY <1>3 DEF ServiceStep, readTaskSnapshot, resolveCompletionTarget, writeStatus,
       tryAutoDispatch, createReviewQueue, insertQueueEntry, bumpLoad, readPendingActions,
       processPendingActions, dropLoadOfTask, failEntriesOfTask, countLoop,
       gatherDAGTransitions, checkDependents, checkSiblings, readParent, applyDAGTransitions,
       evaluateRules, assignUser
  <2>. QED BY <2>1
<1>. QED BY <1>1, <1>2, <1>3

\* While nothing is thrown away, a request changes neither rows nor guard: it starts in an
\* idle goroutine.
LEMMA CalmRequests ==
    ASSUME IInv, Calm, Environment
    PROVE  /\ UNCHANGED <<task, guard>>
           /\ \E c \in Callers, ops \in Seq(SoundOps) :
                work[c] = <<>> /\ work' = [work EXCEPT ![c] = ops]
<1>1. ~Restart
  BY DEF Restart, Calm
<1>2. \A c \in Callers, t \in Tasks : ~Delete(c, t) /\ ~Restore(c, t)
  BY DEF Delete, Restore, Request, Calm
<1>3. Requests
  BY <1>1 DEF Environment
<1>4. UNCHANGED <<task, guard>>
  BY <1>2, <1>3 DEF Requests, SetStatus, HandleReview, MarkCompleted, checkStuckTasks, Start
<1>5. ASSUME NEW c \in Callers, NEW kind, Request(c, kind), NEW t \in Tasks, NEW to \in Statuses,
             NEW summary \in BOOLEAN, Start(c, <<Transition(t, to, summary)>>)
      PROVE  \E d \in Callers, ops \in Seq(SoundOps) :
                work[d] = <<>> /\ work' = [work EXCEPT ![d] = ops]
  <2>1. <<Transition(t, to, summary)>> \in Seq(SoundOps)
    BY SoundByName, ShortSeqs
  <2>. QED BY <1>5, <2>1 DEF Request, Start
<1>6. UserStatuses \subseteq Statuses /\ {"done", "in_progress", "completed", "stuck"} \subseteq Statuses
  BY DEF UserStatuses, Statuses
<1>7. PICK c \in Callers, t \in Tasks :
        \/ \E to \in UserStatuses : SetStatus(c, t, to)
        \/ HandleReview(c, t)
        \/ \E summary \in BOOLEAN : MarkCompleted(c, t, summary)
        \/ checkStuckTasks(c, t)
  BY <1>2, <1>3 DEF Requests
<1>. QED BY <1>4, <1>5, <1>6, <1>7 DEF SetStatus, HandleReview, MarkCompleted, checkStuckTasks

LEMMA StaysUntrashed ==
    ASSUME IInv, Untrashed, [Next]_vars PROVE Untrashed'
<1>1. CASE UNCHANGED task
  BY <1>1 DEF Untrashed, Calm
<1>2. ASSUME NEW c \in Callers, ServiceStep(c) PROVE Untrashed'
  BY <1>2, OneWriter DEF Untrashed, Calm
<1>3. CASE Environment
  BY <1>1, <1>3, CalmRequests DEF Untrashed
<1>. QED BY <1>1, <1>2, <1>3 DEF Next, vars

-----------------------------------------------------------------------------
(* A pledge is kept.                                                       *)

\* The handling that is let in goes on to look for what is owed.
LEMMA enterPledge ==
    ASSUME IInv, NEW c \in Callers, enterOnTaskCompleted(c), NEW k, Pledge(k, Head(work[c]))
    PROVE  Pledged(k)'
<1>1. work[c] # <<>> /\ Head(work[c]).op = "dag"
  BY DEF enterOnTaskCompleted, Doing
<1>2. PICK x \in Tasks : x = Head(work[c]).task
  BY <1>1, HeadsAreSound, HeadIsSound, OpTypes DEF TaskOps
<1>. DEFINE ops == <<On("gather", x), On("leave", x)>>
<1>3. x \in k.sources /\ x \notin guard
  BY <1>1, <1>2 DEF Pledge
<1>4. Then(c, ops)
  BY <1>2, <1>3 DEF enterOnTaskCompleted, Busy
<1>5. ops \in Seq(SoundOps)
  BY <1>2, SoundByName, ShortSeqs
<1>6. 1 \in DOMAIN ops /\ ops[1] = On("gather", x)
  OBVIOUS
<1>7. Pledge(k, ops[1])'
  BY <1>3, <1>6 DEF Pledge, On
<1>. HIDE DEF ops
<1>. QED BY <1>1, <1>4, <1>5, <1>6, <1>7, NewPledge

\* One operation in the place of the head.
LEMMA OnePledge ==
    ASSUME IInv, NEW c \in Callers, work[c] # <<>>, NEW e \in SoundOps, Then(c, <<e>>),
           NEW k, Pledge(k, e)'
    PROVE  Pledged(k)'
<1>. DEFINE ops == <<e>>
<1>1. ops \in Seq(SoundOps) /\ Then(c, ops) /\ 1 \in DOMAIN ops /\ ops[1] = e
  BY ShortSeqs
<1>. HIDE DEF ops
<1>. QED BY <1>1, NewPledge

\* What is owed when the engine lists the dependents is on its list.
LEMMA gatherPledge ==
    ASSUME IInv, Untrashed, NEW c \in Callers, gatherDAGTransitions(c),
           NEW k \in Debts, Owed(k), Pledge(k, Head(work[c]))
    PROVE  Pledged(k)'
<1>. DEFINE x == Head(work[c]).task
            o == [op |-> "check", task |-> x, left |-> Dependents(x), unblock |-> {}]
<1>1. work[c] # <<>> /\ Head(work[c]).op = "gather" /\ Then(c, <<o>>)
  BY DEF gatherDAGTransitions, Doing
<1>2. x \in Tasks
  BY <1>1, HeadsAreSound, HeadIsSound, OpTypes DEF TaskOps
<1>3. x \in k.sources
  BY <1>1 DEF Pledge
<1>4. Dependents(x) \subseteq Tasks
  BY TaskAssumption DEF Dependents
<1>5. k.waits = "blocked" => k.task \in Dependents(x)
  BY <1>3, DebtFacts DEF Owed, Untrashed, Dependents
<1>6. PICK e \in CheckOps : e = o
  BY <1>2, <1>4 DEF CheckOps
<1>7. e.op = "check" /\ e.left = Dependents(x) /\ e.task = x
  BY <1>6
<1>8. Pledge(k, e)'
  BY <1>3, <1>5, <1>7 DEF Pledge, Listed
<1>. QED BY <1>1, <1>6, <1>8, SoundByName, OnePledge

\* All that an owed task waits for is ready when its dependencies are counted, and a child that is
\* not deleted leads to its parent.
LEMMA checkPledge ==
    ASSUME IInv, Untrashed, NEW c \in Callers, checkDependents(c),
           NEW k \in Debts, Owed(k), Pledge(k, Head(work[c]))
    PROVE  Pledged(k)'
<1>1. work[c] # <<>> /\ Head(work[c]).op = "check"
  BY DEF checkDependents, Doing
<1>2. PICK o \in CheckOps : o = Head(work[c])
  BY <1>1, HeadsAreSound, HeadIsSound, OpTypes
<1>3. o.op = "check" /\ o.task \in Tasks /\ o.left \subseteq Tasks /\ o.unblock \subseteq Tasks
  BY DEF CheckOps
<1>4. IF k.waits = "blocked" THEN k.task \in o.left \cup o.unblock ELSE o.task \in k.sources
  BY <1>2, <1>3 DEF Pledge, Listed
<1>5. ~task[o.task].deleted
  BY <1>3 DEF Untrashed
<1>6. ASSUME NEW d \in o.left,
             Then(c, <<[o EXCEPT !.left = @ \ {d},
                                 !.unblock = IF AllDone(d) THEN @ \cup {d} ELSE @]>>)
      PROVE  Pledged(k)'
  <2>1. PICK u \in SUBSET Tasks : u = IF AllDone(d) THEN o.unblock \cup {d} ELSE o.unblock
    BY <1>3
  <2>2. PICK e : e = [o EXCEPT !.left = @ \ {d}, !.unblock = IF AllDone(d) THEN @ \cup {d} ELSE @]
    OBVIOUS
  <2>3. /\ e \in CheckOps /\ e.op = "check" /\ e.task = o.task
        /\ e.left = o.left \ {d} /\ e.unblock = u
    BY <2>1, <2>2 DEF CheckOps
  <2>4. k.waits = "blocked" /\ d = k.task => AllDone(d)
    BY DebtFacts DEF Owed, AllDone
  <2>5. k.waits = "blocked" => k.task \in e.left \cup e.unblock
    BY <1>4, <2>1, <2>3, <2>4
  <2>6. Pledge(k, e)'
    BY <1>4, <2>3, <2>5 DEF Pledge, Listed
  <2>. QED BY <1>1, <1>6, <2>2, <2>3, <2>6, SoundByName, OnePledge
<1>7. CASE o.left = {} /\ Parent[o.task] = NoTask /\ Then(c, <<Advance(o.task, o.unblock, NoTask, "done")>>)
  <2>1. k.waits = "blocked"
    BY <1>4, <1>7, DebtFacts, TaskAssumption DEF Children
  <2>2. PICK e \in AdvanceOps : e = Advance(o.task, o.unblock, NoTask, "done")
    BY <1>3 DEF Advance, AdvanceOps
  <2>3. e.op = "advance" /\ e.unblock = o.unblock
    BY <2>2 DEF Advance
  <2>4. Pledge(k, e)'
    BY <1>4, <1>7, <2>1, <2>3 DEF Pledge
  <2>. QED BY <1>1, <1>7, <2>2, <2>4, SoundByName, OnePledge
<1>8. CASE o.left = {} /\ Then(c, <<[op |-> "siblings", task |-> o.task, unblock |-> o.unblock]>>)
  <2>1. PICK e \in ParentOps : e = [op |-> "siblings", task |-> o.task, unblock |-> o.unblock]
    BY <1>3 DEF ParentOps
  <2>2. e.op = "siblings" /\ e.task = o.task /\ e.unblock = o.unblock
    BY <2>1
  <2>3. Pledge(k, e)'
    BY <1>4, <1>8, <2>2 DEF Pledge, Listed
  <2>. QED BY <1>1, <1>8, <2>1, <2>3, SoundByName, OnePledge
<1>. QED BY <1>2, <1>5, <1>6, <1>7, <1>8 DEF checkDependents

\* All children of an owed parent are ready, and the parent is in progress.
LEMMA parentPledge ==
    ASSUME IInv, Untrashed, NEW c \in Callers, checkSiblings(c) \/ readParent(c),
           NEW k \in Debts, Owed(k), Pledge(k, Head(work[c]))
    PROVE  Pledged(k)'
<1>1. work[c] # <<>> /\ Head(work[c]).op \in {"siblings", "parent"}
  BY DEF checkSiblings, readParent, Doing
<1>2. PICK o \in ParentOps : o = Head(work[c])
  BY <1>1, HeadsAreSound, HeadIsSound, OpTypes
<1>3. o.op \in {"siblings", "parent"} /\ o.task \in Tasks /\ o.unblock \subseteq Tasks
  BY DEF ParentOps
<1>4. IF k.waits = "blocked" THEN k.task \in o.unblock ELSE o.task \in k.sources
  BY <1>2, <1>3 DEF Pledge, Listed
<1>5. PICK p \in Tasks \cup {NoTask} : p = Parent[o.task]
  BY <1>3, TaskAssumption
<1>6. k.waits # "blocked" =>
        p = k.task /\ SiblingsDone(p) /\ task[p].status \notin Satisfied
  BY <1>3, <1>4, <1>5, DebtFacts DEF Owed, Children, SiblingsDone, Satisfied
\* The end of the reading, with the parent to be closed if one is owed.
<1>7. ASSUME NEW q \in Tasks \cup {NoTask}, NEW to \in {"review", "done"},
             k.waits # "blocked" => q = p, Then(c, <<Advance(o.task, o.unblock, q, to)>>)
      PROVE  Pledged(k)'
  <2>1. PICK e \in AdvanceOps : e = Advance(o.task, o.unblock, q, to)
    BY <1>3 DEF Advance, AdvanceOps
  <2>2. e.op = "advance" /\ e.unblock = o.unblock /\ e.parent = q
    BY <2>1 DEF Advance
  <2>3. Pledge(k, e)'
    BY <1>4, <1>6, <1>7, <2>2 DEF Pledge
  <2>. QED BY <1>1, <1>7, <2>1, <2>3, SoundByName, OnePledge
<1>8. CASE checkSiblings(c)
  <2>1. CASE SiblingsDone(p)
    <3>1. PICK e \in ParentOps : e = [op |-> "parent", task |-> o.task, unblock |-> o.unblock]
      BY <1>3 DEF ParentOps
    <3>2. e.op = "parent" /\ e.task = o.task /\ e.unblock = o.unblock
      BY <3>1
    <3>3. Then(c, <<e>>)
      BY <1>2, <1>5, <1>8, <2>1, <3>1 DEF checkSiblings
    <3>4. Pledge(k, e)'
      BY <1>4, <3>2 DEF Pledge, Listed
    <3>. QED BY <1>1, <3>1, <3>3, <3>4, SoundByName, OnePledge
  <2>2. CASE ~SiblingsDone(p)
    <3>1. Then(c, <<Advance(o.task, o.unblock, NoTask, "done")>>)
      BY <1>2, <1>5, <1>8, <2>2 DEF checkSiblings
    <3>. QED BY <1>6, <1>7, <2>2, <3>1
  <2>. QED BY <2>1, <2>2
<1>9. CASE readParent(c)
  <2>1. CASE ~task[p].deleted /\ task[p].status \in Satisfied
    <3>1. Then(c, <<Advance(o.task, o.unblock, NoTask, "done")>>)
      BY <1>2, <1>5, <1>9, <2>1 DEF readParent
    <3>. QED BY <1>6, <1>7, <2>1, <3>1
  <2>2. CASE ~(~task[p].deleted /\ task[p].status \in Satisfied)
    <3>1. PICK to \in {"review", "done"} : to = IF "approved" \in task[p].plans THEN "review" ELSE "done"
      OBVIOUS
    <3>2. Then(c, <<Advance(o.task, o.unblock, p, to)>>)
      BY <1>2, <1>5, <1>9, <2>2, <3>1 DEF readParent
    <3>. QED BY <1>7, <3>2
  <2>. QED BY <2>1, <2>2
<1>. QED BY <1>8, <1>9

\* The list is worked off one transition at a time, and the parent comes last.
LEMMA advancePledge ==
    ASSUME IInv, NEW c \in Callers, applyDAGTransitions(c),
           NEW k \in Debts, Pledge(k, Head(work[c]))
    PROVE  Pledged(k)'
<1>1. work[c] # <<>> /\ Head(work[c]).op = "advance"
  BY DEF applyDAGTransitions, Doing
<1>2. PICK o \in AdvanceOps : o = Head(work[c])
  BY <1>1, HeadsAreSound, HeadIsSound, OpTypes
<1>3. /\ o.op = "advance" /\ o.unblock \subseteq Tasks /\ o.parent \in Tasks \cup {NoTask}
      /\ o.to \in {"review", "done"}
  BY <1>2 DEF AdvanceOps
<1>4. IF k.waits = "blocked" THEN k.task \in o.unblock ELSE o.parent = k.task
  BY <1>2, <1>3 DEF Pledge
<1>5. k.task \in Tasks /\ k.task # NoTask
  BY DebtFacts, TaskAssumption
<1>6. ASSUME NEW d \in o.unblock, Then(c, <<Transition(d, "todo", FALSE), After(o, d)>>)
      PROVE  Pledged(k)'
  <2>. DEFINE first == Transition(d, "todo", FALSE)
              ops == <<first, After(o, d)>>
  <2>1. first \in SoundOps
    BY <1>3, SoundByName DEF Statuses
  <2>2. /\ After(o, d) \in AdvanceOps /\ After(o, d).op = "advance"
        /\ After(o, d).unblock = o.unblock \ {d} /\ After(o, d).parent = o.parent
    BY <1>2 DEF After, AdvanceOps
  <2>3. ops \in Seq(SoundOps)
    BY <2>1, <2>2, SoundByName, ShortSeqs
  <2>4. 1 \in DOMAIN ops /\ 2 \in DOMAIN ops /\ ops[1] = first /\ ops[2] = After(o, d)
    OBVIOUS
  <2>5. CASE k.waits = "blocked" /\ d = k.task
    <3>1. first.op = "transition" /\ first.task = k.task /\ first.to = "todo"
      BY <2>5 DEF Transition
    <3>2. "todo" \in k.moves
      BY <2>5, DebtFacts
    <3>3. Pledge(k, ops[1])'
      BY <2>4, <3>1, <3>2 DEF Pledge
    <3>. HIDE DEF ops
    <3>. QED BY <1>1, <1>6, <2>3, <2>4, <3>3, NewPledge DEF ops
  <2>6. CASE ~(k.waits = "blocked" /\ d = k.task)
    <3>1. Pledge(k, ops[2])'
      BY <1>4, <2>2, <2>4, <2>6 DEF Pledge
    <3>. HIDE DEF ops
    <3>. QED BY <1>1, <1>6, <2>3, <2>4, <3>1, NewPledge DEF ops
  <2>. QED BY <2>5, <2>6
<1>7. CASE o.unblock = {} /\ Then(c, IF o.parent = NoTask THEN <<>>
                                     ELSE <<Transition(o.parent, o.to, FALSE)>>)
  <2>1. k.waits # "blocked" /\ o.parent = k.task
    BY <1>4, <1>7
  <2>. DEFINE ops == <<Transition(o.parent, o.to, FALSE)>>
  <2>2. Then(c, ops) /\ 1 \in DOMAIN ops /\ ops[1] = Transition(o.parent, o.to, FALSE)
    BY <1>5, <1>7, <2>1
  <2>3. ops \in Seq(SoundOps)
    BY <1>3, <1>5, <2>1, SoundByName, ShortSeqs DEF Statuses
  <2>4. o.to \in k.moves
    BY <1>3, <2>1, DebtFacts
  <2>5. Pledge(k, ops[1])'
    BY <2>1, <2>2, <2>4 DEF Pledge, Transition
  <2>. HIDE DEF ops
  <2>. QED BY <1>1, <2>2, <2>3, <2>5, NewPledge
<1>. QED BY <1>2, <1>6, <1>7 DEF applyDAGTransitions

\* The transition owed is one the table allows, and the snapshot it takes is of a task that
\* waits.
LEMMA readPledge ==
    ASSUME IInv, Untrashed, NEW c \in Callers, readTaskSnapshot(c),
           NEW k \in Debts, Owed(k), Pledge(k, Head(work[c]))
    PROVE  Pledged(k)'
<1>. DEFINE o == Head(work[c])
            row == task[o.task]
            s == [status |-> row.status, assignee |-> row.assignee, loops |-> row.loops]
            write == [op |-> "write", task |-> o.task, snap |-> s, to |-> o.to, asked |-> o.to,
                      summary |-> o.summary, attempt |-> o.attempt]
<1>1. work[c] # <<>> /\ o.op = "transition"
  BY DEF readTaskSnapshot, Doing
<1>2. o \in TransitionOps
  BY <1>1, HeadsAreSound, HeadIsSound, OpTypes
<1>3. o.task = k.task /\ o.to \in k.moves
  BY <1>1 DEF Pledge
<1>4. o.to # "completed" /\ o.to # k.waits /\ transitionValid(k.waits, o.to)
  BY <1>3, DebtFacts
<1>5. ~row.deleted /\ row.status = k.waits
  BY <1>3, DebtFacts DEF Owed, Untrashed
<1>6. Then(c, <<write>>)
  BY <1>4, <1>5 DEF readTaskSnapshot
<1>7. s \in Snapshots /\ s.status = k.waits
  BY <1>2, <1>5 DEF IInv, Tables, Rows, Snapshots, TransitionOps
<1>8. write \in SoundOps
  <2>1. write \in WriteOps
    BY <1>2, <1>7 DEF TransitionOps, WriteOps
  <2>2. Sound(write)
    BY <1>4, <1>7 DEF Sound, StatusMove
  <2>. QED BY <2>1, <2>2 DEF SoundOps, Ops
<1>9. PICK e : e = write
  OBVIOUS
<1>. DEFINE ops == <<e>>
<1>10. ops \in Seq(SoundOps) /\ Then(c, ops) /\ 1 \in DOMAIN ops /\ ops[1] = e
  BY <1>6, <1>8, <1>9, ShortSeqs
<1>11. e.op = "write" /\ e.task = k.task /\ e.to \in k.moves /\ e.snap.status = k.waits
  BY <1>3, <1>7, <1>9
<1>12. Pledge(k, ops[1])'
  BY <1>10, <1>11 DEF Pledge
<1>. HIDE DEF ops
<1>. QED BY <1>1, <1>10, <1>12, NewPledge

\* The write of the transition owed pays the debt: the row is as the snapshot says.
LEMMA writePays ==
    ASSUME IInv, Untrashed, NEW c \in Callers, writeStatus(c),
           NEW k \in Debts, Owed(k), Pledge(k, Head(work[c]))
    PROVE  ~Owed(k)'
<1>. DEFINE o == Head(work[c])
<1>1. o.op = "write"
  BY DEF writeStatus, Doing
<1>2. o.task = k.task /\ o.to \in k.moves /\ o.snap.status = k.waits
  BY <1>1 DEF Pledge
<1>3. Unmodified(o.task, o.snap)
  BY <1>2, DebtFacts DEF Owed, Untrashed, Unmodified
<1>4. task' = [task EXCEPT ![k.task].status = o.to]
  BY <1>2, <1>3 DEF writeStatus
<1>5. task'[k.task].status = o.to /\ o.to # k.waits
  BY <1>2, <1>4, DebtFacts DEF IInv, Tables, Rows
<1>. QED BY <1>5 DEF Owed

\* So whatever the goroutine runs, a pledge at its head is followed by another.
LEMMA HeadPledge ==
    ASSUME IInv, Untrashed, NEW c \in Callers, ServiceStep(c),
           NEW k \in Debts, Owed(k), Owed(k)', Pledge(k, Head(work[c]))
    PROVE  Pledged(k)'
<1>1. Head(work[c]).op \in {"dag", "gather", "check", "siblings", "parent", "advance", "transition",
                            "write"}
  BY DEF Pledge
<1>. QED BY <1>1, StepByName, enterPledge, gatherPledge, checkPledge, parentPledge, advancePledge,
            readPledge, writePays

-----------------------------------------------------------------------------
(* A new debt comes with its pledge.                                       *)

\* The write that completes a task hands it to the engine.
LEMMA CompletionEffects ==
    ASSUME NEW t \in Tasks, NEW s \in Snapshots, s.status = "in_progress", NEW to \in Satisfied
    PROVE  \E i \in DOMAIN SideEffects(t, s, to) : SideEffects(t, s, to)[i] = On("dag", t)
<1>. DEFINE first == IF s.assignee # NoAgent /\ Behavior[t] = "auto_review"
                     THEN <<ForAgent("reviewQueue", t, s.assignee)>> ELSE <<>>
            rest == <<On("dag", t), On("rules", t)>>
<1>1. CASE to = "done"
  <2>1. SideEffects(t, s, to) = <<On("pending", t), On("dag", t), On("rules", t)>>
    BY <1>1 DEF SideEffects
  <2>2. DOMAIN SideEffects(t, s, to) = 1 .. 3 /\ SideEffects(t, s, to)[2] = On("dag", t)
    BY <2>1
  <2>. QED BY <2>2
<1>2. CASE to = "review"
  <2>1. SideEffects(t, s, to) = first \o rest
    BY <1>2 DEF SideEffects
  <2>2. first \in Seq(SoundOps) /\ rest \in Seq(SoundOps)
    <3>1. s.assignee # NoAgent => ForAgent("reviewQueue", t, s.assignee) \in SoundOps
      BY SoundByName DEF Snapshots
    <3>2. On("dag", t) \in SoundOps /\ On("rules", t) \in SoundOps
      BY SoundByName
    <3>. QED BY <3>1, <3>2, ShortSeqs
  <2>3. Len(rest) = 2 /\ rest[1] = On("dag", t) /\ Len(first) \in Nat
    BY <2>2, LenProperties
  <2>. DEFINE n == Len(first)
  <2>4. (first \o rest)[1 + n] = rest[1] /\ 1 + n \in DOMAIN (first \o rest)
    <3>. HIDE DEF first, rest
    <3>1. /\ first \o rest \in Seq(SoundOps) /\ Len(first \o rest) = n + 2
          /\ \A i \in 1 .. 2 : (first \o rest)[i + n] = rest[i]
      <4>1. /\ first \o rest \in Seq(SoundOps) /\ Len(first \o rest) = Len(first) + Len(rest)
            /\ \A i \in 1 .. Len(rest) : (first \o rest)[i + Len(first)] = rest[i]
        BY <2>2, ConcatProperties
      <4>. QED BY <2>3, <4>1
    <3>2. 1 + n \in 1 .. (n + 2) /\ DOMAIN (first \o rest) = 1 .. (n + 2)
      BY <2>3, <3>1, LenProperties
    <3>. QED BY <3>1, <3>2
  <2>. HIDE DEF first, rest, n
  <2>. QED BY <2>1, <2>3, <2>4
<1>. QED BY <1>1, <1>2 DEF Satisfied

\* A task becomes ready when it is completed, and its completion is let in.
LEMMA NewDebt ==
    ASSUME IInv, Untrashed, NEW c \in Callers, ServiceStep(c), CompletesApart,
           NEW k \in Debts, InTime(k), ~Owed(k), Owed(k)'
    PROVE  Pledged(k)'
<1>1. task'[k.task].status = k.waits /\ k.sources # {} /\ \A s \in k.sources : ready(s)'
  BY DEF Owed
<1>2. task[k.task].status = k.waits
  BY <1>1 DEF InTime
<1>3. PICK x \in k.sources : ~ready(x)
  BY <1>1, <1>2 DEF Owed
<1>4. x \in Tasks
  BY DebtFacts
<1>5. task[x].status \notin Satisfied /\ task'[x].status \in Satisfied
  <2>1. ready(x)'
    BY <1>1
  <2>. QED BY <1>3, <1>4, <2>1, OneWriter DEF ready
<1>. DEFINE o == Head(work[c])
<1>6. /\ writeStatus(c) /\ o.task = x /\ Unmodified(x, o.snap) /\ task'[x].status = o.to
      /\ Then(c, SideEffects(x, o.snap, o.to)) /\ UNCHANGED guard
  BY <1>4, <1>5, OneWriter
<1>7. work[c] # <<>> /\ o \in WriteOps /\ Sound(o) /\ o.op = "write"
  <2>1. work[c] # <<>> /\ o.op = "write"
    BY <1>6 DEF writeStatus, Doing
  <2>. QED BY <2>1, HeadsAreSound, HeadIsSound, OpTypes
<1>8. o.snap \in Snapshots /\ o.to \in Satisfied /\ o.snap.status = task[x].status
  BY <1>5, <1>6, <1>7 DEF WriteOps, Unmodified
<1>9. o.snap.status = "in_progress"
  <2>1. StatusMove(o.snap.status, o.to) /\ o.snap.status \in Statuses
    BY <1>7, <1>8 DEF Sound, Snapshots
  <2>2. o.snap.status \notin {"review", "done", "completed"}
    BY <1>4, <1>5, <1>8 DEF Satisfied, IInv, Tables, CompletedNeverStored
  <2>. QED BY <1>8, <2>1, <2>2 DEF StatusMove, transitionValid, Transitions, Statuses, Satisfied
<1>10. PICK ops \in Seq(SoundOps) : ops = SideEffects(x, o.snap, o.to)
  BY <1>4, <1>7, <1>8, SideEffectsType DEF WriteOps
<1>11. PICK i \in DOMAIN ops : ops[i] = On("dag", x)
  BY <1>4, <1>8, <1>9, <1>10, CompletionEffects
<1>12. x \notin guard'
  BY <1>5, <1>6 DEF CompletesApart
<1>13. Pledge(k, ops[i])'
  BY <1>11, <1>12 DEF Pledge, On
<1>. QED BY <1>6, <1>7, <1>10, <1>13, NewPledge

-----------------------------------------------------------------------------
(* Whatever is owed stays on its way.                                      *)

\* A pledge that is not run stays one, unless it is a completion that would be turned away now:
\* then another completion of the same task has just been let in.
LEMMA OtherPledge ==
    ASSUME IInv, NEW c \in Callers, ServiceStep(c), NEW k \in Debts,
           NEW d \in Callers, NEW i \in DOMAIN work[d], Pledge(k, work[d][i]), ~(d = c /\ i = 1)
    PROVE  Pledged(k)'
<1>1. work[c] # <<>> /\ SoundHead(c)
  BY StepByName, HeadsAreSound
<1>2. PICK ops \in Seq(SoundOps) : Then(c, ops)
  BY <1>1, ServiceStepInv DEF GoesOn, IInv
<1>3. PICK j \in DOMAIN (work'[d]) : work'[d][j] = work[d][i]
  BY <1>1, <1>2, Remains
<1>4. PICK o : o = work[d][i]
  OBVIOUS
<1>5. CASE Pledge(k, o)'
  BY <1>3, <1>4, <1>5 DEF Pledged, Pledge
<1>6. CASE ~Pledge(k, o)'
  <2>1. o.op = "dag" /\ o.task \in k.sources /\ o.task \notin guard /\ o.task \in guard'
    BY <1>4, <1>6 DEF Pledge
  <2>2. PICK x \in Tasks : x = o.task
    BY <2>1, DebtFacts
  <2>. DEFINE next == <<On("gather", x), On("leave", x)>>
  <2>3. Then(c, next)
    BY <2>1, <2>2, GuardGrows
  <2>4. next \in Seq(SoundOps) /\ 1 \in DOMAIN next /\ next[1] = On("gather", x)
    BY SoundByName, ShortSeqs
  <2>5. Pledge(k, next[1])'
    BY <2>1, <2>2, <2>4 DEF Pledge, On
  <2>. HIDE DEF next
  <2>. QED BY <1>1, <2>3, <2>4, <2>5, NewPledge
<1>. QED BY <1>5, <1>6

LEMMA ServiceStepHonours ==
    ASSUME IInv, Untrashed, NEW c \in Callers, ServiceStep(c), CompletesApart,
           NEW k \in Debts, InTime(k), Honoured(k)
    PROVE  Honoured(k)'
<1>. SUFFICES ASSUME Owed(k)' PROVE Pledged(k)'
  BY DEF Honoured
<1>1. CASE Owed(k)
  <2>1. PICK d \in Callers : \E i \in DOMAIN work[d] : Pledge(k, work[d][i])
    BY <1>1 DEF Honoured, Pledged
  <2>2. PICK i \in DOMAIN work[d] : Pledge(k, work[d][i])
    BY <2>1
  <2>3. CASE d = c /\ i = 1
    <3>1. work[c] \in Seq(SoundOps) /\ work[c] # <<>>
      BY StepByName DEF IInv
    <3>2. Head(work[c]) = work[c][1]
      BY <3>1, HeadTailProperties
    <3>. QED BY <1>1, <2>2, <2>3, <3>2, HeadPledge
  <2>4. CASE ~(d = c /\ i = 1)
    BY <2>2, <2>4, OtherPledge
  <2>. QED BY <2>3, <2>4
<1>2. CASE ~Owed(k)
  BY <1>2, NewDebt
<1>. QED BY <1>1, <1>2

\* A request takes an idle goroutine: no operation is lost.
LEMMA EnvironmentHonours ==
    ASSUME IInv, Untrashed, Environment, NEW k \in Debts, Honoured(k) PROVE Honoured(k)'
<1>1. UNCHANGED <<task, guard>>
  BY CalmRequests DEF Untrashed
<1>2. PICK c \in Callers, ops \in Seq(SoundOps) :
        work[c] = <<>> /\ work' = [work EXCEPT ![c] = ops]
  BY CalmRequests DEF Untrashed
<1>3. \A d \in Callers : d # c => work'[d] = work[d]
  BY <1>2 DEF IInv
<1>4. \A i \in DOMAIN work[c] : FALSE
  BY <1>2
<1>5. Owed(k)' <=> Owed(k)
  BY <1>1 DEF Owed, ready
<1>6. Pledged(k) => Pledged(k)'
  BY <1>1, <1>3, <1>4 DEF Pledged, Pledge
<1>. QED BY <1>5, <1>6 DEF Honoured

LEMMA NextHonours ==
    ASSUME IInv, Untrashed, [Next]_vars, [CompletesApart]_vars,
           NEW k \in Debts, [InTime(k)]_vars, Honoured(k)
    PROVE  Honoured(k)'
<1>1. CASE UNCHANGED vars
  BY <1>1 DEF vars, Honoured, Owed, ready, Pledged, Pledge
<1>2. CASE ~UNCHANGED vars
  <2>1. Next /\ CompletesApart /\ InTime(k)
    BY <1>2
  <2>. QED BY <2>1, ServiceStepHonours, EnvironmentHonours DEF Next
<1>. QED BY <1>1, <1>2

\* When no goroutine has anything left to do, nothing is owed.
LEMMA NothingOwed ==
    ASSUME Quiet, NEW k, Honoured(k) PROVE ~Owed(k)
BY DEF Quiet, Honoured, Pledged

\* Every task that depends on others is in a workflow: gatherDAGTransitions skips the rest.
InFlow == \A t \in Tasks : DependsOn[t] # {} => t \in InWorkflow

\* What is inductive, for the dependents and for the parents.
UnblockInv == IInv /\ Untrashed /\ InFlow /\ \A t \in InWorkflow : Honoured(Unblocking(t))
CloseInv == IInv /\ Untrashed /\ \A p \in Tasks : Honoured(Closing(p))

LEMMA CalmInit == Init /\ Calm => IInv /\ Untrashed /\ Quiet
<1>1. Init => IInv
  BY InitInv
<1>2. Init /\ Calm => Untrashed /\ Quiet
  BY DEF Init, Untrashed, Quiet, Calm
<1>. QED BY <1>1, <1>2

\* While no task is thrown away and the server lives, no task is completed again while its
\* previous completion is being handled, and none is blocked for dependencies that are ready
\* already: however the completions of its dependencies interleave, fail and recurse,
\* a blocked task is not left behind when all of them are ready.
THEOREM LastDependencyUnblocks ==
    Calm /\ InFlow /\ NoLostUnblock /\ Spec /\ [][CompletesApart /\ BlocksInTime]_vars
      => []NoLostUnblock
<1>1. Calm /\ InFlow /\ NoLostUnblock /\ Init => UnblockInv
  <2>. SUFFICES ASSUME Calm, InFlow, NoLostUnblock, Init, NEW t \in InWorkflow
                PROVE  Honoured(Unblocking(t))
    BY CalmInit DEF UnblockInv
  <2>1. t \in Tasks
    BY TaskAssumption
  <2>2. ~Owed(Unblocking(t))
    BY <2>1, CalmInit DEF NoLostUnblock, Untrashed, Owed, Unblocking
  <2>. QED BY <2>2 DEF Honoured
<1>2. UnblockInv /\ [Next]_vars /\ [CompletesApart /\ BlocksInTime]_vars => UnblockInv'
  <2>. SUFFICES ASSUME UnblockInv, [Next]_vars, [CompletesApart /\ BlocksInTime]_vars
                PROVE  UnblockInv'
    OBVIOUS
  <2>1. IInv' /\ Untrashed' /\ InFlow
    BY NextInv, StaysUntrashed DEF UnblockInv
  <2>2. ASSUME NEW t \in InWorkflow PROVE Honoured(Unblocking(t))'
    <3>1. PICK k \in Debts : k = Unblocking(t)
      BY DEF Debts
    <3>2. [CompletesApart]_vars /\ [InTime(k)]_vars
      BY <3>1, TaskAssumption DEF BlocksInTime
    <3>3. Honoured(k)
      BY <3>1 DEF UnblockInv
    <3>4. Honoured(k)'
      BY <3>2, <3>3, NextHonours DEF UnblockInv
    <3>. QED BY <3>1, <3>4
  <2>. QED BY <2>1, <2>2 DEF UnblockInv, InFlow
<1>3. UnblockInv => NoLostUnblock
  <2>. SUFFICES ASSUME UnblockInv, Quiet, NEW t \in Tasks, task[t].status = "blocked", DependsOn[t] # {}
                PROVE  \E d \in DependsOn[t] : ~ready(d)
    BY DEF NoLostUnblock
  <2>1. t \in InWorkflow /\ Honoured(Unblocking(t))
    BY DEF UnblockInv, InFlow
  <2>2. ~Owed(Unblocking(t))
    BY <2>1, NothingOwed
  <2>. QED BY <2>2 DEF Owed, Unblocking
<1>. QED BY <1>1, <1>2, <1>3, PTL DEF Spec

\* Under the same assumptions, with no parent started when all its children are ready already:
\* however the completions of the children interleave, a parent is not left in progress
\* when all of them are ready.
THEOREM LastChildCloses ==
    Calm /\ ParentCloses /\ Spec /\ [][CompletesApart /\ StartsInTime]_vars => []ParentCloses
<1>1. Calm /\ ParentCloses /\ Init => CloseInv
  <2>. SUFFICES ASSUME Calm, ParentCloses, Init, NEW p \in Tasks PROVE Honoured(Closing(p))
    BY CalmInit DEF CloseInv
  <2>1. ~Owed(Closing(p))
    BY CalmInit DEF ParentCloses, Owed, Closing
  <2>. QED BY <2>1 DEF Honoured
<1>2. CloseInv /\ [Next]_vars /\ [CompletesApart /\ StartsInTime]_vars => CloseInv'
  <2>. SUFFICES ASSUME CloseInv, [Next]_vars, [CompletesApart /\ StartsInTime]_vars
                PROVE  CloseInv'
    OBVIOUS
  <2>1. IInv' /\ Untrashed'
    BY NextInv, StaysUntrashed DEF CloseInv
  <2>2. ASSUME NEW p \in Tasks PROVE Honoured(Closing(p))'
    <3>1. PICK k \in Debts : k = Closing(p)
      BY DEF Debts
    <3>2. [CompletesApart]_vars /\ [InTime(k)]_vars
      BY <3>1 DEF StartsInTime
    <3>3. Honoured(k)
      BY <3>1 DEF CloseInv
    <3>4. Honoured(k)'
      BY <3>2, <3>3, NextHonours DEF CloseInv
    <3>. QED BY <3>1, <3>4
  <2>. QED BY <2>1, <2>2 DEF CloseInv
<1>3. CloseInv => ParentCloses
  <2>. SUFFICES ASSUME CloseInv, Quiet, NEW p \in Tasks, Children(p) # {},
                       \A s \in Children(p) : ready(s)
                PROVE  task[p].status # "in_progress"
    BY DEF ParentCloses
  <2>1. ~Owed(Closing(p))
    BY NothingOwed DEF CloseInv
  <2>. QED BY <2>1 DEF Owed, Closing
<1>. QED BY <1>1, <1>2, <1>3, PTL DEF Spec

-----------------------------------------------------------------------------
(* When the requests only finish what is in progress.                      *)

\* No request and no rule starts, restarts or blocks a task.
Again == {"in_progress", "blocked"}
Finishing ==
    /\ "reject" \notin Kinds
    /\ SetTargets \cap Again = {}
    /\ \A t \in Tasks : \A i \in DOMAIN RuleActions[t] : RuleActions[t][i] \notin Again

\* Nothing on its way starts or blocks a task, and a completion still to be handled is of a task
\* that is no longer in progress.
Forward(o, tk) ==
    /\ o.op \in {"transition", "write"} => o.to \notin Again
    /\ o.op = "write" => o.asked \notin Again
    /\ o.op = "dag" => tk[o.task].status # "in_progress"

FinishInv ==
    /\ Finishing
    /\ \A t \in guard : task[t].status # "in_progress"
    /\ \A d \in Callers : \A i \in DOMAIN work[d] : Forward(work[d][i], task)

\* So a step changes a status to none of the two.
LEMMA NoneAgain ==
    ASSUME IInv, FinishInv, NEW c \in Callers, ServiceStep(c), NEW t \in Tasks
    PROVE  task'[t].status = task[t].status \/ task'[t].status \notin Again
<1>1. CASE task'[t].status # task[t].status
  <2>1. writeStatus(c) /\ task'[t].status = Head(work[c]).to
    BY <1>1, OneWriter
  <2>2. work[c] # <<>> /\ Head(work[c]).op = "write"
    BY <2>1 DEF writeStatus, Doing
  <2>3. 1 \in DOMAIN work[c] /\ Head(work[c]) = work[c][1]
    <3>1. work[c] \in Seq(SoundOps)
      BY DEF IInv
    <3>. QED BY <2>2, <3>1, HeadTailProperties, EmptySeq, LenProperties
  <2>. QED BY <2>1, <2>2, <2>3 DEF FinishInv, Forward
<1>. QED BY <1>1

\* A step that goes on with operations that go forward, and lets in no completion of a task in
\* progress.
LEMMA ForwardStep ==
    ASSUME IInv, FinishInv, NEW c \in Callers, ServiceStep(c), NEW ops \in Seq(SoundOps), Then(c, ops),
           \A i \in DOMAIN ops : Forward(ops[i], task'),
           \A t \in guard' : t \in guard \/ task[t].status # "in_progress"
    PROVE  FinishInv'
<1>1. work[c] # <<>>
  BY StepByName
<1>2. \A t \in Tasks : task[t].status # "in_progress" => task'[t].status # "in_progress"
  BY NoneAgain DEF Again
<1>3. guard' \subseteq Tasks
  BY NextInv DEF IInv, Tables, Next
<1>4. \A t \in guard' : task'[t].status # "in_progress"
  BY <1>2, <1>3 DEF FinishInv
<1>5. ASSUME NEW d \in Callers, NEW i \in DOMAIN work[d] PROVE Forward(work[d][i], task')
  <2>1. work[d][i] \in SoundOps
    <3>1. work[d] \in Seq(SoundOps)
      BY DEF IInv
    <3>. QED BY <3>1, ElementOfSeq, LenProperties
  <2>2. work[d][i].op = "dag" => work[d][i].task \in Tasks
    BY <2>1, OpTypes DEF SoundOps, TaskOps
  <2>. QED BY <1>2, <2>2 DEF FinishInv, Forward
<1>6. ASSUME NEW d \in Callers, NEW j \in DOMAIN (work'[d]) PROVE Forward(work'[d][j], task')
  BY <1>1, <1>5, Origins
<1>. QED BY <1>4, <1>6 DEF FinishInv, Finishing

\* What goes forward whatever the table.
Harmless == {o \in SoundOps : o.op \notin {"transition", "write", "dag"}}

LEMMA HarmlessByName ==
    /\ \A t \in Tasks : \A name \in {"pending", "gather", "leave", "rules", "dropLoad",
                                     "failActive", "unassign"} : On(name, t) \in Harmless
    /\ \A t \in Tasks, a \in Agents : \A name \in {"dispatch", "reviewQueue", "insert"} :
         ForAgent(name, t, a) \in Harmless
    /\ \A a \in Agents : [op |-> "bump", agent |-> a] \in Harmless
    /\ \A o \in ReleaseOps \cup Gathered : o \in Harmless
    /\ \A o \in SoundOps : o \in ResolveOps => o \in Harmless
<1>1. \A t \in Tasks : \A name \in {"pending", "gather", "leave", "rules", "dropLoad",
                                     "failActive", "unassign"} : On(name, t) \in Harmless
  BY SoundByName DEF Harmless, On
<1>2. \A t \in Tasks, a \in Agents : \A name \in {"dispatch", "reviewQueue", "insert"} :
         ForAgent(name, t, a) \in Harmless
  BY SoundByName DEF Harmless, ForAgent
<1>3. \A a \in Agents : [op |-> "bump", agent |-> a] \in Harmless
  BY SoundByName DEF Harmless
<1>4. \A o \in ReleaseOps \cup Gathered : o \in Harmless
  BY SoundByName DEF Harmless, Gathered, ReleaseOps, CheckOps, ParentOps, AdvanceOps
<1>5. \A o \in SoundOps : o \in ResolveOps => o \in Harmless
  BY DEF Harmless, ResolveOps
<1>. QED BY <1>1, <1>2, <1>3, <1>4, <1>5

LEMMA HarmlessStep ==
    ASSUME IInv, FinishInv, NEW c \in Callers, ServiceStep(c), NEW ops \in Seq(Harmless), Then(c, ops),
           \A t \in guard' : t \in guard \/ task[t].status # "in_progress"
    PROVE  FinishInv'
<1>1. ops \in Seq(SoundOps)
  BY SeqMonotonic DEF Harmless
<1>2. \A i \in DOMAIN ops : ops[i] \in Harmless
  BY ElementOfSeq, LenProperties
<1>. QED BY <1>1, <1>2, ForwardStep DEF Harmless, Forward

\* The operation at the head goes forward.
LEMMA HeadForward ==
    ASSUME IInv, FinishInv, NEW c \in Callers, work[c] # <<>>
    PROVE  Head(work[c]) \in SoundOps /\ Head(work[c]) \in Ops /\ Forward(Head(work[c]), task)
<1>1. work[c] \in Seq(SoundOps)
  BY DEF IInv
<1>2. 1 \in DOMAIN work[c] /\ Head(work[c]) = work[c][1]
  BY <1>1, HeadTailProperties, EmptySeq, LenProperties
<1>. QED BY <1>1, <1>2, HeadTailProperties DEF FinishInv, SoundOps

\* One operation.
LEMMA OneForward ==
    ASSUME IInv, FinishInv, NEW c \in Callers, ServiceStep(c), NEW o \in SoundOps,
           Then(c, <<>>) \/ Then(c, <<o>>), Forward(o, task'), UNCHANGED guard
    PROVE  FinishInv'
<1>1. CASE Then(c, <<>>)
  BY <1>1, ShortSeqs, HarmlessStep
<1>2. CASE Then(c, <<o>>)
  <2>1. <<o>> \in Seq(SoundOps) /\ \A i \in DOMAIN <<o>> : <<o>>[i] = o
    BY ShortSeqs
  <2>2. PICK ops \in Seq(SoundOps) : ops = <<o>>
    BY <2>1
  <2>. QED BY <1>2, <2>1, <2>2, ForwardStep
<1>. QED BY <1>1, <1>2

LEMMA readTaskSnapshotForward ==
    ASSUME IInv, FinishInv, NEW c \in Callers, ServiceStep(c), readTaskSnapshot(c) PROVE FinishInv'
<1>. DEFINE o == Head(work[c])
            row == task[o.task]
            s == [status |-> row.status, assignee |-> row.assignee, loops |-> row.loops]
            resolve == [op |-> "resolve", task |-> o.task, snap |-> s,
                        summary |-> o.summary, attempt |-> o.attempt]
            write == [op |-> "write", task |-> o.task, snap |-> s, to |-> o.to, asked |-> o.to,
                      summary |-> o.summary, attempt |-> o.attempt]
<1>1. work[c] # <<>> /\ o.op = "transition" /\ UNCHANGED <<task, guard>>
  BY DEF readTaskSnapshot, Doing
<1>2. o \in TransitionOps /\ o.to \notin Again
  BY <1>1, HeadForward, OpTypes DEF Forward
<1>3. s \in Snapshots /\ row.status = s.status
  BY <1>2 DEF IInv, Tables, Rows, Snapshots, TransitionOps
<1>4. CASE Then(c, <<>>)
  BY <1>1, <1>4, ShortSeqs, HarmlessStep
<1>5. CASE transitionValid(row.status, o.to) /\ o.to = "completed" /\ Then(c, <<resolve>>)
  <2>1. resolve \in ResolveOps
    BY <1>2, <1>3 DEF TransitionOps, ResolveOps
  <2>2. Sound(resolve)
    BY <1>3, <1>5 DEF Sound
  <2>3. resolve \in Harmless
    BY <2>1, <2>2, HarmlessByName DEF SoundOps, Ops
  <2>. HIDE DEF resolve
  <2>. QED BY <1>1, <1>5, <2>3, ShortSeqs, HarmlessStep
<1>6. CASE transitionValid(row.status, o.to) /\ o.to # "completed" /\ Then(c, <<write>>)
  <2>1. write \in WriteOps
    BY <1>2, <1>3 DEF TransitionOps, WriteOps
  <2>2. Sound(write)
    BY <1>3, <1>6 DEF Sound, StatusMove
  <2>3. write \in SoundOps
    BY <2>1, <2>2 DEF SoundOps, Ops
  <2>4. PICK e \in SoundOps : e = write
    BY <2>3
  <2>5. e.op = "write" /\ e.to \notin Again /\ e.asked \notin Again
    BY <1>2, <2>4
  <2>6. Forward(e, task')
    BY <2>5 DEF Forward
  <2>. QED BY <1>1, <1>6, <2>4, <2>6, OneForward
<1>7. \/ Then(c, <<>>)
      \/ transitionValid(row.status, o.to) /\ o.to = "completed" /\ Then(c, <<resolve>>)
      \/ transitionValid(row.status, o.to) /\ o.to # "completed" /\ Then(c, <<write>>)
  BY DEF readTaskSnapshot
<1>. QED BY <1>4, <1>5, <1>6, <1>7

LEMMA resolveCompletionTargetForward ==
    ASSUME IInv, FinishInv, NEW c \in Callers, ServiceStep(c), resolveCompletionTarget(c)
    PROVE  FinishInv'
<1>. DEFINE o == Head(work[c])
            write(to) == [op |-> "write", task |-> o.task, snap |-> o.snap, to |-> to,
                          asked |-> "completed", summary |-> o.summary, attempt |-> o.attempt]
<1>1. work[c] # <<>> /\ o.op = "resolve" /\ UNCHANGED guard
  BY DEF resolveCompletionTarget, Doing
<1>2. o \in ResolveOps /\ transitionValid(o.snap.status, "completed")
  BY <1>1, HeadsAreSound, HeadIsSound, OpTypes DEF Sound
<1>3. PICK to \in CompletionTargets(o.task, o.summary) : Then(c, <<write(to)>>)
  BY DEF resolveCompletionTarget
<1>4. to \in {"review", "done"}
  BY <1>2, <1>3, CompletionTargetsType DEF ResolveOps
<1>5. write(to) \in SoundOps
  <2>1. write(to) \in WriteOps
    BY <1>2, <1>4 DEF ResolveOps, WriteOps, Statuses
  <2>2. Sound(write(to))
    BY <1>2, <1>4 DEF Sound, StatusMove
  <2>. QED BY <2>1, <2>2 DEF SoundOps, Ops
<1>6. PICK e \in SoundOps : e = write(to)
  BY <1>5
<1>7. e.op = "write" /\ e.to \notin Again /\ e.asked \notin Again
  BY <1>4, <1>6 DEF Again
<1>8. Forward(e, task')
  BY <1>7 DEF Forward
<1>. QED BY <1>1, <1>3, <1>6, <1>8, OneForward

\* The write: the task is not in progress any more when its completion is put on the way, and a
\* write that lost the race asks for the same again.
LEMMA writeStatusForward ==
    ASSUME IInv, FinishInv, NEW c \in Callers, ServiceStep(c), writeStatus(c) PROVE FinishInv'
<1>. DEFINE retry(o) == [Transition(o.task, o.asked, o.summary) EXCEPT !.attempt = o.attempt + 1]
<1>1. work[c] # <<>> /\ Head(work[c]).op = "write" /\ UNCHANGED guard
  BY DEF writeStatus, Doing
<1>2. PICK o \in WriteOps : o = Head(work[c])
  BY <1>1, HeadsAreSound, HeadIsSound, OpTypes
<1>3. o.to \notin Again /\ o.asked \notin Again
  BY <1>1, <1>2, HeadForward DEF Forward
<1>4. o.task \in Tasks /\ o.to \in Statuses /\ o.snap \in Snapshots /\ o.summary \in BOOLEAN
      /\ o.asked \in Statuses /\ o.attempt \in 0 .. maxRetries - 1
  BY DEF WriteOps
<1>5. CASE /\ Then(c, SideEffects(o.task, o.snap, o.to))
           /\ task' = [task EXCEPT ![o.task].status = o.to]
  <2>1. task'[o.task].status = o.to
    BY <1>4, <1>5 DEF IInv, Tables, Rows
  <2>2. PICK ops : ops = SideEffects(o.task, o.snap, o.to)
    OBVIOUS
  <2>3. ops \in Seq(About(o.task)) /\ ops \in Seq(SoundOps)
    BY <1>4, <2>2, SideEffectsAbout, SideEffectsType
  <2>4. \A i \in DOMAIN ops : ops[i] \in About(o.task)
    BY <2>3, ElementOfSeq, LenProperties
  <2>5. \A i \in DOMAIN ops : Forward(ops[i], task')
    BY <1>3, <2>1, <2>4 DEF About, Forward, Again
  <2>. QED BY <1>1, <1>5, <2>2, <2>3, <2>5, ForwardStep
<1>6. CASE Then(c, <<>>)
  BY <1>1, <1>6, ShortSeqs, HarmlessStep
<1>7. CASE o.attempt < maxRetries - 1 /\ Then(c, <<retry(o)>>)
  <2>1. o.attempt + 1 \in 0 .. maxRetries - 1
    BY <1>4, <1>7 DEF maxRetries
  <2>2. retry(o) \in SoundOps
    BY <1>4, <2>1, SoundByName
  <2>3. retry(o).op = "transition" /\ retry(o).to = o.asked
    BY DEF Transition
  <2>4. Forward(retry(o), task')
    BY <1>3, <2>3 DEF Forward
  <2>. HIDE DEF retry
  <2>. QED BY <1>1, <1>7, <2>2, <2>4, OneForward
<1>. QED BY <1>2, <1>5, <1>6, <1>7 DEF writeStatus

\* The steps of the queue, of the held-back dispatches and of the loads.
LEMMA SmallStepsForward ==
    ASSUME IInv, FinishInv, NEW c \in Callers, ServiceStep(c),
           \/ tryAutoDispatch(c) \/ createReviewQueue(c) \/ insertQueueEntry(c) \/ bumpLoad(c)
           \/ readPendingActions(c) \/ processPendingActions(c)
           \/ dropLoadOfTask(c) \/ failEntriesOfTask(c) \/ assignUser(c)
    PROVE  FinishInv'
<1>. DEFINE o == Head(work[c])
            insert == <<ForAgent("insert", o.task, o.agent), [op |-> "bump", agent |-> o.agent]>>
            release == [op |-> "release", task |-> o.task, actions |-> task[o.task].pending]
<1>1. CASE tryAutoDispatch(c) \/ createReviewQueue(c)
  <2>1. work[c] # <<>> /\ o.op \in {"dispatch", "reviewQueue"} /\ UNCHANGED guard
    BY <1>1 DEF tryAutoDispatch, createReviewQueue, Doing
  <2>2. o \in AgentOps
    BY <2>1, HeadsAreSound, HeadIsSound, OpTypes
  <2>3. insert \in Seq(Harmless)
    BY <2>2, HarmlessByName, ShortSeqs DEF AgentOps
  <2>4. Then(c, <<>>) \/ Then(c, insert)
    BY <1>1 DEF tryAutoDispatch, createReviewQueue
  <2>. QED BY <2>1, <2>3, <2>4, ShortSeqs, HarmlessStep
<1>2. CASE readPendingActions(c)
  <2>1. work[c] # <<>> /\ o.op = "pending" /\ UNCHANGED guard
    BY <1>2 DEF readPendingActions, Doing
  <2>2. o.task \in Tasks
    BY <2>1, HeadsAreSound, HeadIsSound, OpTypes DEF TaskOps
  <2>3. release \in ReleaseOps
    BY <2>2 DEF ReleaseOps, IInv, Tables, Rows
  <2>4. Then(c, <<>>) \/ Then(c, <<release>>)
    BY <1>2 DEF readPendingActions
  <2>5. release \in Harmless
    BY <2>3, HarmlessByName
  <2>. HIDE DEF release
  <2>. QED BY <2>1, <2>4, <2>5, ShortSeqs, HarmlessStep
<1>3. CASE \/ insertQueueEntry(c) \/ bumpLoad(c) \/ processPendingActions(c)
           \/ dropLoadOfTask(c) \/ failEntriesOfTask(c) \/ assignUser(c)
  <2>1. Then(c, <<>>) /\ UNCHANGED guard
    BY <1>3 DEF insertQueueEntry, bumpLoad, processPendingActions, dropLoadOfTask,
       failEntriesOfTask, assignUser
  <2>. QED BY <2>1, ShortSeqs, HarmlessStep
<1>. QED BY <1>1, <1>2, <1>3

\* The loop limit stops a task, and a rule does what rules do.
LEMMA countLoopForward ==
    ASSUME IInv, FinishInv, NEW c \in Callers, ServiceStep(c), countLoop(c) PROVE FinishInv'
<1>1. work[c] # <<>> /\ Head(work[c]).op = "loops" /\ UNCHANGED guard
  BY DEF countLoop, Doing
<1>2. PICK o \in LoopOps : o = Head(work[c])
  BY <1>1, HeadsAreSound, HeadIsSound, OpTypes
<1>. DEFINE stop == Transition(o.task, "stuck", FALSE)
            again == ForAgent("reviewQueue", o.task, o.agent)
<1>3. \/ Then(c, <<>>) \/ Then(c, <<stop>>)
      \/ o.agent # NoAgent /\ Then(c, <<again>>)
  BY <1>2 DEF countLoop
<1>4. stop \in SoundOps /\ Forward(stop, task')
  BY <1>2, SoundByName DEF LoopOps, Statuses, Transition, Forward, Again
<1>5. o.agent # NoAgent => again \in Harmless
  BY <1>2, HarmlessByName DEF LoopOps
<1>. HIDE DEF stop, again
<1>. QED BY <1>1, <1>3, <1>4, <1>5, ShortSeqs, OneForward, HarmlessStep

LEMMA evaluateRulesForward ==
    ASSUME IInv, FinishInv, NEW c \in Callers, ServiceStep(c), evaluateRules(c) PROVE FinishInv'
<1>1. work[c] # <<>> /\ Head(work[c]).op = "rules" /\ UNCHANGED guard
  BY DEF evaluateRules, Doing
<1>2. PICK t \in Tasks : t = Head(work[c]).task
  BY <1>1, HeadsAreSound, HeadIsSound, OpTypes DEF TaskOps
<1>. DEFINE acts == RuleActions[t]
            ops == [i \in DOMAIN acts |-> IF acts[i] = "assign_user" THEN On("unassign", t)
                                          ELSE Transition(t, acts[i], FALSE)]
<1>3. acts \in Seq(Statuses \cup {"assign_user"})
  BY TaskAssumption
<1>4. \A i \in DOMAIN acts : acts[i] \in Statuses \cup {"assign_user"}
  BY <1>3, ElementOfSeq, LenProperties
<1>5. \A i \in DOMAIN acts : ops[i] \in SoundOps
  BY <1>4, SoundByName
<1>6. ops \in Seq(SoundOps)
  BY <1>3, <1>5, MapIsSeq
<1>7. ASSUME NEW i \in DOMAIN ops PROVE Forward(ops[i], task')
  <2>1. acts[i] \notin Again
    BY DEF FinishInv, Finishing
  <2>2. ops[i] = On("unassign", t) \/ ops[i] = Transition(t, acts[i], FALSE)
    OBVIOUS
  <2>. HIDE DEF ops, acts
  <2>. QED BY <2>1, <2>2 DEF On, Transition, Forward
<1>8. Then(c, ops)
  BY <1>2 DEF evaluateRules
<1>. HIDE DEF ops
<1>. QED BY <1>1, <1>6, <1>7, <1>8, ForwardStep

\* The engine: what it lets in is not in progress, and it asks for "todo", "review" or "done".
LEMMA EngineForward ==
    ASSUME IInv, FinishInv, NEW c \in Callers, ServiceStep(c),
           enterOnTaskCompleted(c) \/ Gathers(c) \/ leaveOnTaskCompleted(c)
    PROVE  FinishInv'
<1>. DEFINE x == Head(work[c]).task
            enter == <<On("gather", x), On("leave", x)>>
<1>1. CASE enterOnTaskCompleted(c)
  <2>1. work[c] # <<>> /\ Head(work[c]).op = "dag"
    BY <1>1 DEF enterOnTaskCompleted, Doing
  <2>2. x \in Tasks /\ task[x].status # "in_progress"
    BY <2>1, HeadForward, OpTypes DEF TaskOps, Forward
  <2>3. enter \in Seq(Harmless)
    BY <2>2, HarmlessByName, ShortSeqs
  <2>4. (Then(c, <<>>) /\ UNCHANGED guard) \/ (Then(c, enter) /\ guard' = guard \cup {x})
    BY <1>1 DEF enterOnTaskCompleted
  <2>5. \A t \in guard' : t \in guard \/ task[t].status # "in_progress"
    BY <2>2, <2>4
  <2>. HIDE DEF enter
  <2>. QED BY <2>3, <2>4, <2>5, ShortSeqs, HarmlessStep
<1>2. CASE Gathers(c)
  <2>1. SoundHead(c)
    BY StepByName, HeadsAreSound
  <2>2. PICK o \in Gathered : Then(c, <<o>>)
    BY <1>2, <2>1, GathersOn
  <2>3. UNCHANGED guard
    BY <1>2, <2>1, GathersOn
  <2>4. o \in Harmless
    BY HarmlessByName
  <2>. QED BY <2>2, <2>3, <2>4, ShortSeqs, HarmlessStep
<1>3. CASE leaveOnTaskCompleted(c)
  <2>1. Then(c, <<>>) /\ guard' \subseteq guard
    BY <1>3 DEF leaveOnTaskCompleted
  <2>. QED BY <2>1, ShortSeqs, HarmlessStep
<1>. QED BY <1>1, <1>2, <1>3

LEMMA applyDAGTransitionsForward ==
    ASSUME IInv, FinishInv, NEW c \in Callers, ServiceStep(c), applyDAGTransitions(c)
    PROVE  FinishInv'
<1>1. work[c] # <<>> /\ Head(work[c]).op = "advance" /\ UNCHANGED guard
  BY DEF applyDAGTransitions, Doing
<1>2. PICK o \in AdvanceOps : o = Head(work[c])
  BY <1>1, HeadsAreSound, HeadIsSound, OpTypes
<1>3. /\ o.op = "advance" /\ o.unblock \subseteq Tasks /\ o.parent \in Tasks \cup {NoTask}
      /\ o.to \in {"review", "done"}
  BY <1>2 DEF AdvanceOps
<1>4. ASSUME NEW t \in Tasks, NEW to \in {"todo", "review", "done"}
      PROVE  Transition(t, to, FALSE) \in SoundOps /\ Forward(Transition(t, to, FALSE), task')
  BY SoundByName DEF Statuses, Transition, Forward, Again
<1>5. ASSUME NEW d \in o.unblock, Then(c, <<Transition(d, "todo", FALSE), After(o, d)>>)
      PROVE  FinishInv'
  <2>1. After(o, d) \in AdvanceOps
    BY <1>2 DEF After, AdvanceOps
  <2>2. After(o, d) \in SoundOps /\ Forward(After(o, d), task')
    BY <2>1, SoundByName DEF AdvanceOps, Forward
  <2>3. PICK first \in SoundOps : first = Transition(d, "todo", FALSE)
    BY <1>3, <1>4
  <2>4. PICK next \in SoundOps : next = After(o, d)
    BY <2>2
  <2>. DEFINE ops == <<first, next>>
  <2>5. ops \in Seq(SoundOps) /\ \A i \in DOMAIN ops : ops[i] \in {first, next}
    BY ShortSeqs
  <2>6. Then(c, ops)
    BY <1>5, <2>3, <2>4
  <2>7. Forward(first, task') /\ Forward(next, task')
    BY <1>3, <1>4, <2>2, <2>3, <2>4
  <2>. HIDE DEF ops
  <2>. QED BY <1>1, <2>5, <2>6, <2>7, ForwardStep
<1>6. CASE Then(c, <<>>)
  BY <1>1, <1>6, ShortSeqs, HarmlessStep
<1>7. CASE o.parent # NoTask /\ Then(c, <<Transition(o.parent, o.to, FALSE)>>)
  BY <1>1, <1>3, <1>4, <1>7, OneForward
<1>. QED BY <1>2, <1>5, <1>6, <1>7 DEF applyDAGTransitions

LEMMA ServiceStepForward ==
    ASSUME IInv, FinishInv, NEW c \in Callers, ServiceStep(c) PROVE FinishInv'
BY readTaskSnapshotForward, resolveCompletionTargetForward, writeStatusForward, SmallStepsForward,
   countLoopForward, evaluateRulesForward, EngineForward, applyDAGTransitionsForward
   DEF ServiceStep, Gathers

\* No request asks for a start.
LEMMA EnvironmentForward ==
    ASSUME IInv, FinishInv, Calm, Environment PROVE FinishInv'
<1>1. UNCHANGED <<task, guard>>
  BY CalmRequests
<1>2. ASSUME NEW c \in Callers, work[c] = <<>>, NEW t \in Tasks, NEW to \in Statuses \ Again,
             NEW summary \in BOOLEAN, Start(c, <<Transition(t, to, summary)>>)
      PROVE  FinishInv'
  <2>1. /\ work'[c] = <<Transition(t, to, summary)>>
        /\ \A d \in Callers : d # c => work'[d] = work[d]
    BY <1>2 DEF Start, IInv
  <2>2. Forward(Transition(t, to, summary), task)
    BY <1>2 DEF Transition, Forward
  <2>3. \A i \in DOMAIN (work'[c]) : work'[c][i] = Transition(t, to, summary)
    BY <2>1
  <2>4. \A d \in Callers : \A i \in DOMAIN (work'[d]) : Forward(work'[d][i], task)
    BY <2>1, <2>2, <2>3 DEF FinishInv
  <2>. QED BY <1>1, <2>4 DEF FinishInv, Finishing
<1>3. PICK c \in Callers, t \in Tasks :
        \/ \E to \in UserStatuses : SetStatus(c, t, to)
        \/ HandleReview(c, t)
        \/ \E summary \in BOOLEAN : MarkCompleted(c, t, summary)
        \/ checkStuckTasks(c, t)
  BY DEF Environment, Requests, Restart, Delete, Restore, Request, Calm
<1>4. work[c] = <<>>
  BY <1>3 DEF SetStatus, HandleReview, MarkCompleted, checkStuckTasks, Request
<1>5. {"done", "completed", "stuck"} \subseteq Statuses \ Again
  BY DEF Statuses, Again
<1>6. \A to \in SetTargets : to \in Statuses \ Again
  BY BoundAssumption DEF UserStatuses, Statuses, FinishInv, Finishing
<1>7. "reject" \notin Kinds
  BY DEF FinishInv, Finishing
<1>8. CASE \E to \in UserStatuses : SetStatus(c, t, to)
  BY <1>2, <1>4, <1>6, <1>8 DEF SetStatus
<1>9. CASE HandleReview(c, t)
  BY <1>2, <1>4, <1>5, <1>7, <1>9 DEF HandleReview, Request
<1>10. CASE \E summary \in BOOLEAN : MarkCompleted(c, t, summary)
  BY <1>2, <1>4, <1>5, <1>10 DEF MarkCompleted
<1>11. CASE checkStuckTasks(c, t)
  BY <1>2, <1>4, <1>5, <1>11 DEF checkStuckTasks
<1>. QED BY <1>3, <1>8, <1>9, <1>10, <1>11

\* So no step does what a step must not do.
LEMMA FinishingIsOrderly ==
    ASSUME IInv, FinishInv, Calm, [Next]_vars
    PROVE  [CompletesApart /\ BlocksInTime /\ StartsInTime]_vars
<1>1. CASE UNCHANGED vars
  BY <1>1
<1>2. CASE UNCHANGED task
  <2>1. CompletesApart
    BY <1>2 DEF CompletesApart
  <2>2. BlocksInTime /\ StartsInTime
    BY <1>2 DEF BlocksInTime, StartsInTime, InTime
  <2>. QED BY <2>1, <2>2
<1>3. ASSUME NEW c \in Callers, ServiceStep(c)
      PROVE  CompletesApart /\ BlocksInTime /\ StartsInTime
  <2>1. ASSUME NEW t \in guard, task[t].status \notin Satisfied, task'[t].status \in Satisfied
        PROVE  FALSE
    <3>1. t \in Tasks /\ task[t].status # "in_progress"
      BY <2>1 DEF IInv, Tables, FinishInv
    <3>2. LET o == Head(work[c]) IN
            /\ writeStatus(c) /\ Unmodified(t, o.snap) /\ task'[t].status = o.to
      BY <1>3, <2>1, <3>1, OneWriter
    <3>. DEFINE o == Head(work[c])
    <3>3. o \in WriteOps /\ StatusMove(o.snap.status, o.to)
      BY <3>2, HeadsAreSound, HeadIsSound, OpTypes DEF writeStatus, Doing, Sound
    <3>4. /\ o.snap.status \in Statuses \ {"in_progress", "review", "done", "completed"}
          /\ o.to \in Satisfied
      BY <2>1, <3>1, <3>2, <3>3 DEF WriteOps, Snapshots, Unmodified, Satisfied, IInv, Tables,
         CompletedNeverStored
    <3>. HIDE DEF o
    <3>. QED BY <3>3, <3>4 DEF StatusMove, transitionValid, Transitions, Statuses, Satisfied
  <2>2. CompletesApart
    BY <2>1 DEF CompletesApart
  <2>3. \A t \in Tasks : task'[t].status = task[t].status \/ task'[t].status \notin Again
    BY <1>3, NoneAgain
  <2>4. BlocksInTime /\ StartsInTime
    BY <2>3 DEF BlocksInTime, StartsInTime, InTime, Unblocking, Closing, Again
  <2>. QED BY <2>2, <2>4
<1>4. CASE Environment
  BY <1>2, <1>4, CalmRequests
<1>. QED BY <1>1, <1>3, <1>4 DEF Next

LEMMA FinishingSpec ==
    Calm /\ Finishing /\ Spec => [][CompletesApart /\ BlocksInTime /\ StartsInTime]_vars
<1>. DEFINE Inv == IInv /\ Calm /\ FinishInv
<1>1. Calm /\ Finishing /\ Init => Inv
  <2>. SUFFICES ASSUME Calm, Finishing, Init PROVE Inv
    OBVIOUS
  <2>1. FinishInv
    BY DEF FinishInv, Init
  <2>. QED BY <2>1, InitInv
<1>2. Inv /\ [Next]_vars => Inv'
  <2>. SUFFICES ASSUME Inv, [Next]_vars PROVE Inv'
    OBVIOUS
  <2>1. IInv' /\ Calm'
    BY NextInv DEF Calm
  <2>2. FinishInv'
    <3>1. CASE UNCHANGED vars
      BY <3>1 DEF vars, FinishInv, Finishing
    <3>. QED BY <3>1, ServiceStepForward, EnvironmentForward DEF Next
  <2>. QED BY <2>1, <2>2
<1>3. Inv /\ [Next]_vars => [CompletesApart /\ BlocksInTime /\ StartsInTime]_vars
  BY FinishingIsOrderly
<1>. QED BY <1>1, <1>2, <1>3, PTL DEF Spec

\* Where the requests and the rules only finish what is in progress (they complete, approve or stop
\* tasks), nothing else need be assumed: from a board where no task is left behind, none ever
\* is, however many completions race and recurse.
THEOREM FinishingLeavesNoneBehind ==
    Calm /\ Finishing /\ InFlow /\ NoLostUnblock /\ ParentCloses /\ Spec
      => [](NoLostUnblock /\ ParentCloses)
<1>1. [CompletesApart /\ BlocksInTime /\ StartsInTime]_vars
        => [CompletesApart /\ BlocksInTime]_vars /\ [CompletesApart /\ StartsInTime]_vars
  OBVIOUS
<1>. QED BY <1>1, FinishingSpec, LastDependencyUnblocks, LastChildCloses, PTL
=============================================================================
