-------------------------- MODULE AgentTools_proofs --------------------------
(***************************************************************************)
(* Proofs about AgentTools, for every number of profiles, callers, titles  *)
(* and plans.                                                              *)
(*                                                                         *)
(* Typed says that what the tables and the calls refer to exists, and what *)
(* each call has in its fields when its next step reads them.  With it     *)
(* every step makes the tables grow (Grown), and is one of SpecialStep, a  *)
(* crash, or Plain: nothing the safety properties are about.               *)
(*                                                                         *)
(* On top of Typed, each property has the invariant it needs:              *)
(*   BreakerHolds     Breaker: who counted to three is on its way          *)
(*   PendingBounded   Bounded: the calls about to insert count as plans    *)
(*   QueuedIsReady    Provenance: a sub-task has an item, and a call works *)
(*   GraphsApart      on a copy of items that do not change                *)
(*   OneTaskPerItem   Singles, with Provenance: one approval at a time, it *)
(*                    begins on a plan without sub-tasks and has those it  *)
(*                    makes in hand                                        *)
(***************************************************************************)
EXTENDS AgentTools, SequenceTheorems, FiniteSetTheorems, TLAPS

\* Of a sequence of rows, one is appended or one is replaced.
LEMMA AppendRow ==
    ASSUME NEW S, NEW s \in Seq(S), NEW e \in S
    PROVE  /\ Append(s, e) \in Seq(S) /\ Len(s) + 1 \in Nat \ {0}
           /\ DOMAIN Append(s, e) = DOMAIN s \cup {Len(s) + 1} /\ Len(s) + 1 \notin DOMAIN s
           /\ \A i \in DOMAIN s : Append(s, e)[i] = s[i]
           /\ Append(s, e)[Len(s) + 1] = e
<1>1. Len(s) \in Nat /\ DOMAIN s = 1..Len(s)
  BY LenProperties
<1>2. /\ Append(s, e) \in Seq(S) /\ Len(Append(s, e)) = Len(s) + 1
      /\ \A i \in 1..Len(s) : Append(s, e)[i] = s[i]
      /\ Append(s, e)[Len(s) + 1] = e
  BY AppendProperties
<1>3. DOMAIN Append(s, e) = 1..(Len(s) + 1)
  BY <1>2, LenProperties
<1> QED BY <1>1, <1>2, <1>3

LEMMA SetRow ==
    ASSUME NEW S, NEW s \in Seq(S), NEW i \in DOMAIN s, NEW e \in S
    PROVE  /\ [s EXCEPT ![i] = e] \in Seq(S) /\ DOMAIN [s EXCEPT ![i] = e] = DOMAIN s
           /\ Len([s EXCEPT ![i] = e]) = Len(s)
           /\ \A j \in DOMAIN s : [s EXCEPT ![i] = e][j] = IF j = i THEN e ELSE s[j]
<1>1. i \in 1..Len(s)
  BY LenProperties
<1>2. /\ [s EXCEPT ![i] = e] \in Seq(S) /\ Len([s EXCEPT ![i] = e]) = Len(s)
      /\ \A j \in 1..Len(s) : [s EXCEPT ![i] = e][j] = IF j = i THEN e ELSE s[j]
  BY <1>1, ExceptSeq
<1> QED BY <1>2, LenProperties

-----------------------------------------------------------------------------
(* What a call refers to exists, and its fields are those its next step    *)
(* reads.                                                                  *)

Making == {"makeTask", "linkItem", "holdItem", "markItem", "approvePlan"}
Choosing == {"readItems"} \cup Making
OnPlan == {"insertItem", "validate", "countError", "readErrors", "failPlan",
           "rejectPlan", "rejectItems"} \cup Choosing
Early == {"cancel", "insertPlan", "insertItem", "findPlan", "validate", "countError",
          "readErrors", "readItems"}

References(c, tasks, ps) ==
    /\ c.task \in {0} \cup DOMAIN tasks /\ (c.pc \notin {"idle", "unload"} => c.task # 0)
    /\ c.plan \in {0} \cup DOMAIN ps /\ (c.pc \in OnPlan => c.plan # 0)
    /\ c.sub \in {0} \cup DOMAIN tasks
    /\ c.pc \in {"link", "hold", "gate", "attachEdge"} => c.sub # 0
    /\ \A x \in Titles : c.made[x] \in {0} \cup DOMAIN tasks

AgentNamed(c) == /\ c.pc = "unload" => c.agent \in Agents
                 /\ c.pc \in {"assign", "gateAssign"} => c.to \in Agents

TitlesNamed(c) ==
    /\ c.pc \in {"insertItem", "validate", "countError", "readErrors", "makeTask"} => c.todo \subseteq DOMAIN c.items
    /\ c.pc \in {"findPlan", "validate", "countError", "readErrors"} => c.title \in DOMAIN c.items
    /\ c.pc = "cancel" => c.title = NoTitle
    /\ c.pc = "insertPlan" => c.title = NoTitle \/ c.title \in DOMAIN c.items
    /\ c.pc \in {"holdItem", "markItem"} => c.title \in c.todo
    /\ c.pc \in {"linkItem", "holdItem", "markItem"} => c.todo \subseteq Made(c)
    /\ c.pc = "makeTask" => c.todo \cap Made(c) = {}
    /\ c.pc \in Making => Made(c) \subseteq DOMAIN c.items
    /\ c.pc \in Early => Made(c) = {}
    /\ c.pc = "approvePlan" => c.todo = {}

TasksNamed(c, tasks) ==
    /\ c.pc \in {"insertTask", "link", "attach", "checkCycle", "attachEdge"} => c.todo \subseteq DOMAIN tasks
    /\ c.pc \in {"link", "hold"} => tasks[c.sub].plan = 0
    /\ c.pc \in {"checkCycle", "attachEdge"} => tasks[c.task].inWorkflow

Fits(c, tasks, ps) ==
    References(c, tasks, ps) /\ AgentNamed(c) /\ TitlesNamed(c) /\ TasksNamed(c, tasks)

TasksTyped(tasks) ==
    /\ tasks \in Seq(TaskRows)
    /\ \A t \in DOMAIN tasks : /\ tasks[t].parent \in 0..(t - 1)
                               /\ tasks[t].gate.sub \in {0} \cup DOMAIN tasks
PlansTyped(ps, tasks) ==
    /\ ps \in Seq(PlanRows)
    /\ \A p \in DOMAIN ps :
         /\ ps[p].task \in DOMAIN tasks
         /\ \A x \in Titles : /\ ps[p].items[x].real \in {0} \cup DOMAIN tasks
                              /\ ps[p].items[x].approved = "yes" => ps[p].items[x].real # 0
CallsTyped == call \in [Callers -> Calls] /\ \A g \in Callers : Fits(call[g], task, plans)
OthersTyped ==
    /\ edges \subseteq Rows \X Rows /\ queue \in Seq([task : Rows, agent : Agents])
    /\ load \in [Agents -> Nat] /\ spent \in BOOLEAN
    /\ calls \in 0..MaxCalls /\ faults \in 0..MaxFaults /\ astray \subseteq 0..Len(plans)

Typed == TasksTyped(task) /\ PlansTyped(plans, task) /\ CallsTyped /\ OthersTyped

LEMMA TypedIsType == Typed => PlanTypeOK
BY DEF Typed, PlanTypeOK, TasksTyped, PlansTyped, CallsTyped, OthersTyped, Rows

-----------------------------------------------------------------------------
(* What every step keeps: a task stays the sub-task it was made as, and an *)
(* item stays what it was proposed as.                                     *)

TasksGrow(old, new) ==
    /\ DOMAIN old \subseteq DOMAIN new
    /\ \A t \in DOMAIN old : /\ new[t].parent = old[t].parent /\ new[t].plan = old[t].plan
                             /\ new[t].title = old[t].title /\ new[t].by = old[t].by
                             /\ old[t].inWorkflow => new[t].inWorkflow
KeptItem(old, new) ==
    old.approved # "absent" => /\ new.approved # "absent" /\ new.deps = old.deps
                               /\ old.approved = "yes" => new.approved = "yes"
PlansGrow(old, new) ==
    /\ DOMAIN old \subseteq DOMAIN new /\ Len(old) <= Len(new)
    /\ \A p \in DOMAIN old : /\ new[p].task = old[p].task
                             /\ \A x \in Titles : KeptItem(old[p].items[x], new[p].items[x])
Grown == TasksGrow(task, task') /\ PlansGrow(plans, plans')

LEMMA FitsKept ==
    ASSUME NEW c \in Calls, NEW tasks, NEW tasks2, NEW ps, NEW ps2,
           Fits(c, tasks, ps), TasksGrow(tasks, tasks2), PlansGrow(ps, ps2),
           0 \notin DOMAIN tasks
    PROVE  Fits(c, tasks2, ps2)
<1>1. References(c, tasks2, ps2)
  BY DEF Fits, References, TasksGrow, PlansGrow
<1>2. TasksNamed(c, tasks2)
  <2>1. c.pc \in {"link", "hold"} => c.sub \in DOMAIN tasks
    BY DEF Fits, References
  <2>2. c.pc \in {"checkCycle", "attachEdge"} => c.task \in DOMAIN tasks
    BY DEF Fits, References
  <2> QED BY <2>1, <2>2 DEF Fits, TasksNamed, TasksGrow
<1> QED BY <1>1, <1>2 DEF Fits

LEMMA IdleFits ==
    /\ Idle \in Calls
    /\ \A tasks, ps : Fits(Idle, tasks, ps)
<1>1. Idle \in Calls
  <2>1. [x \in {} |-> NoItem] \in Lists
    BY DEF Lists
  <2> QED BY <2>1 DEF Idle, Calls, Pcs
<1>2. Made(Idle) = {}
  BY DEF Made, Idle
<1>3. \A tasks, ps : Fits(Idle, tasks, ps)
  BY <1>2 DEF Fits, References, AgentNamed, TitlesNamed, TasksNamed, Idle, OnPlan, Choosing, Making, Early
<1> QED BY <1>1, <1>3

-----------------------------------------------------------------------------
(* A statement on the tables: one row is changed, or one is inserted.      *)

LEMMA GrowsSame ==
    /\ \A tasks : TasksGrow(tasks, tasks)
    /\ \A ps \in Seq(PlanRows) : PlansGrow(ps, ps)
<1>1. \A ps \in Seq(PlanRows) : Len(ps) <= Len(ps)
  BY LenProperties
<1> QED BY <1>1 DEF TasksGrow, PlansGrow, KeptItem

LEMMA NoRowZero ==
    /\ \A tasks : TasksTyped(tasks) => 0 \notin DOMAIN tasks /\ DOMAIN tasks \subseteq Nat
    /\ \A ps, tasks : PlansTyped(ps, tasks) => 0 \notin DOMAIN ps /\ DOMAIN ps \subseteq Nat
BY LenProperties DEF TasksTyped, PlansTyped

LEMMA SetTask ==
    ASSUME NEW tasks, TasksTyped(tasks), NEW t \in DOMAIN tasks, NEW r \in TaskRows,
           r.parent = tasks[t].parent, r.plan = tasks[t].plan,
           r.title = tasks[t].title, r.by = tasks[t].by,
           tasks[t].inWorkflow => r.inWorkflow, r.gate.sub \in {0} \cup DOMAIN tasks
    PROVE  /\ TasksTyped([tasks EXCEPT ![t] = r]) /\ TasksGrow(tasks, [tasks EXCEPT ![t] = r])
           /\ DOMAIN [tasks EXCEPT ![t] = r] = DOMAIN tasks
           /\ [tasks EXCEPT ![t] = r][t] = r
<1> DEFINE new == [tasks EXCEPT ![t] = r]
<1>1. /\ new \in Seq(TaskRows) /\ DOMAIN new = DOMAIN tasks
      /\ \A j \in DOMAIN tasks : new[j] = IF j = t THEN r ELSE tasks[j]
  BY SetRow DEF TasksTyped
<1> HIDE DEF new
<1>2. TasksTyped(new)
  BY <1>1 DEF TasksTyped
<1>3. TasksGrow(tasks, new)
  BY <1>1 DEF TasksGrow
<1>4. new[t] = r
  BY <1>1
<1> QED BY <1>1, <1>2, <1>3, <1>4 DEF new

LEMMA AddTask ==
    ASSUME NEW tasks, TasksTyped(tasks), NEW r \in TaskRows,
           r.parent \in {0} \cup DOMAIN tasks, r.gate.sub \in {0} \cup DOMAIN tasks
    PROVE  /\ TasksTyped(Append(tasks, r)) /\ TasksGrow(tasks, Append(tasks, r))
           /\ DOMAIN Append(tasks, r) = DOMAIN tasks \cup {Len(tasks) + 1}
           /\ Len(tasks) + 1 \in Nat \ {0} /\ Len(tasks) + 1 \notin DOMAIN tasks
           /\ Append(tasks, r)[Len(tasks) + 1] = r
           /\ \A t \in DOMAIN tasks : Append(tasks, r)[t] = tasks[t]
<1> DEFINE new == Append(tasks, r)
           n == Len(tasks) + 1
<1>1. /\ new \in Seq(TaskRows) /\ n \in Nat \ {0}
      /\ DOMAIN new = DOMAIN tasks \cup {n} /\ n \notin DOMAIN tasks
      /\ \A i \in DOMAIN tasks : new[i] = tasks[i]
      /\ new[n] = r
  BY AppendRow DEF TasksTyped
<1>2. r.parent \in 0..(n - 1)
  BY LenProperties DEF TasksTyped
<1> HIDE DEF new, n
<1>3. TasksTyped(new)
  <2> SUFFICES ASSUME NEW t \in DOMAIN new
               PROVE  new[t].parent \in 0..(t - 1) /\ new[t].gate.sub \in {0} \cup DOMAIN new
    BY <1>1 DEF TasksTyped
  <2>1. CASE t \in DOMAIN tasks
    BY <1>1, <2>1 DEF TasksTyped
  <2>2. CASE t = n
    BY <1>1, <1>2, <2>2
  <2> QED BY <1>1, <2>1, <2>2
<1>4. TasksGrow(tasks, new)
  BY <1>1 DEF TasksGrow
<1> QED BY <1>1, <1>3, <1>4 DEF new, n

LEMMA PlansOfMore ==
    ASSUME NEW ps, NEW tasks, NEW tasks2, PlansTyped(ps, tasks), TasksGrow(tasks, tasks2)
    PROVE  PlansTyped(ps, tasks2)
BY DEF PlansTyped, TasksGrow

LEMMA SetPlan ==
    ASSUME NEW ps, NEW tasks, PlansTyped(ps, tasks), NEW p \in DOMAIN ps, NEW r \in PlanRows,
           r.task = ps[p].task,
           \A x \in Titles : /\ r.items[x].real \in {0} \cup DOMAIN tasks
                             /\ r.items[x].approved = "yes" => r.items[x].real # 0
                             /\ KeptItem(ps[p].items[x], r.items[x])
    PROVE  /\ PlansTyped([ps EXCEPT ![p] = r], tasks) /\ PlansGrow(ps, [ps EXCEPT ![p] = r])
           /\ DOMAIN [ps EXCEPT ![p] = r] = DOMAIN ps
           /\ \A q \in DOMAIN ps : [ps EXCEPT ![p] = r][q] = IF q = p THEN r ELSE ps[q]
<1> DEFINE new == [ps EXCEPT ![p] = r]
<1>1. /\ new \in Seq(PlanRows) /\ DOMAIN new = DOMAIN ps /\ Len(new) = Len(ps)
      /\ \A j \in DOMAIN ps : new[j] = IF j = p THEN r ELSE ps[j]
  BY SetRow DEF PlansTyped
<1>2. Len(ps) \in Nat
  BY LenProperties DEF PlansTyped
<1> HIDE DEF new
<1>3. PlansTyped(new, tasks)
  BY <1>1 DEF PlansTyped
<1>4. PlansGrow(ps, new)
  BY <1>1, <1>2 DEF PlansGrow, KeptItem
<1> QED BY <1>1, <1>3, <1>4 DEF new

LEMMA AddPlan ==
    ASSUME NEW ps, NEW tasks, PlansTyped(ps, tasks), NEW t \in DOMAIN tasks, t \in Nat
    PROVE  /\ PlansTyped(Append(ps, NewPlan(t)), tasks) /\ PlansGrow(ps, Append(ps, NewPlan(t)))
           /\ DOMAIN Append(ps, NewPlan(t)) = DOMAIN ps \cup {Len(ps) + 1}
           /\ Len(ps) + 1 \in Nat \ {0} /\ Len(ps) + 1 \notin DOMAIN ps
           /\ Append(ps, NewPlan(t))[Len(ps) + 1] = NewPlan(t)
           /\ \A p \in DOMAIN ps : Append(ps, NewPlan(t))[p] = ps[p]
<1> DEFINE r == NewPlan(t)
           new == Append(ps, r)
           n == Len(ps) + 1
<1>1. NoItem \in ItemRows /\ NoItem.real = 0 /\ NoItem.approved = "absent"
  BY DEF NoItem, ItemRows
<1>2. r \in PlanRows /\ r.task = t /\ \A x \in Titles : r.items[x] = NoItem
  BY <1>1 DEF NewPlan, PlanRows
<1> HIDE DEF r
<1>3. /\ new \in Seq(PlanRows) /\ n \in Nat \ {0}
      /\ DOMAIN new = DOMAIN ps \cup {n} /\ n \notin DOMAIN ps
      /\ \A i \in DOMAIN ps : new[i] = ps[i]
      /\ new[n] = r
  BY <1>2, AppendRow DEF PlansTyped
<1>4. Len(ps) <= Len(new)
  BY <1>2, AppendProperties, LenProperties DEF PlansTyped
<1> HIDE DEF new, n
<1>5. PlansTyped(new, tasks)
  <2> SUFFICES ASSUME NEW p \in DOMAIN new
               PROVE  /\ new[p].task \in DOMAIN tasks
                      /\ \A x \in Titles : /\ new[p].items[x].real \in {0} \cup DOMAIN tasks
                                           /\ new[p].items[x].approved = "yes" => new[p].items[x].real # 0
    BY <1>3 DEF PlansTyped
  <2>1. CASE p \in DOMAIN ps
    BY <1>3, <2>1 DEF PlansTyped
  <2>2. CASE p = n
    BY <1>1, <1>2, <1>3, <2>2
  <2> QED BY <1>3, <2>1, <2>2
<1>6. PlansGrow(ps, new)
  BY <1>3, <1>4 DEF PlansGrow, KeptItem
<1> QED BY <1>3, <1>5, <1>6 DEF new, n, r

LEMMA TaskFields ==
    ASSUME NEW r \in TaskRows
    PROVE  /\ \A s \in Statuses \ {"completed"} : [r EXCEPT !.status = s] \in TaskRows
           /\ \A a \in Agents \cup {NoAgent}, s \in Statuses \ {"completed"} :
                [r EXCEPT !.agent = a, !.status = s] \in TaskRows
           /\ \A a \in Agents \cup {NoAgent} : [r EXCEPT !.agent = a] \in TaskRows
           /\ \A n \in Nat, a \in Agents \cup {NoAgent} :
                [r EXCEPT !.gate = [sub |-> n, agent |-> a]] \in TaskRows
           /\ \A n \in Nat : [r EXCEPT !.inWorkflow = TRUE, !.depth = n] \in TaskRows
           /\ r.gate.sub \in Nat
BY DEF TaskRows

LEMMA PlanFields ==
    ASSUME NEW r \in PlanRows
    PROVE  /\ \A s \in {"pending", "approved", "rejected", "failed"} : [r EXCEPT !.status = s] \in PlanRows
           /\ [r EXCEPT !.errors = @ + 1] \in PlanRows
           /\ \A f \in [Titles -> ItemRows] : [r EXCEPT !.items = f] \in PlanRows
BY DEF PlanRows

LEMMA CallFields ==
    ASSUME NEW c \in Calls
    PROVE  /\ \A v \in Pcs : [c EXCEPT !.pc = v] \in Calls
           /\ \A v \in Pcs, n \in Nat : [c EXCEPT !.pc = v, !.sub = n] \in Calls
           /\ \A v \in Pcs, s \in SUBSET (Titles \cup Nat) : [c EXCEPT !.pc = v, !.todo = s] \in Calls
           /\ \A v \in Pcs, x \in Titles : [c EXCEPT !.pc = v, !.title = x] \in Calls
           /\ \A s \in SUBSET (Titles \cup Nat) : [c EXCEPT !.todo = s] \in Calls
           /\ \A v \in Pcs, n \in Nat, s \in SUBSET (Titles \cup Nat) :
                [c EXCEPT !.plan = n, !.pc = v, !.todo = s] \in Calls
           /\ \A v \in Pcs, l \in Lists, s \in SUBSET (Titles \cup Nat) :
                [c EXCEPT !.pc = v, !.items = l, !.todo = s] \in Calls
           /\ \A x \in Titles, n \in Nat, s \in SUBSET (Titles \cup Nat) :
                [c EXCEPT !.todo = s, !.made[x] = n] \in Calls
BY DEF Calls

LEMMA ListTypes ==
    ASSUME NEW l \in Lists
    PROVE  DOMAIN l \in SUBSET Titles /\ \A x \in DOMAIN l : l[x] \in Items
BY DEF Lists

-----------------------------------------------------------------------------
(* The step of a call.                                                     *)

Becomes(g, d) == call' = [call EXCEPT ![g] = d]

LEMMA CallsMove ==
    ASSUME Typed, Grown, NEW g \in Callers, NEW d \in Calls,
           Becomes(g, d), Fits(d, task', plans')
    PROVE  CallsTyped'
<1>1. \A h \in Callers : Fits(call[h], task', plans')
  BY NoRowZero, FitsKept DEF Typed, CallsTyped, Grown
<1>2. call' \in [Callers -> Calls] /\ \A h \in Callers : call'[h] = IF h = g THEN d ELSE call[h]
  BY DEF Becomes, Typed, CallsTyped
<1> QED BY <1>1, <1>2 DEF CallsTyped

LEMMA CallsStay ==
    ASSUME Typed, Grown, UNCHANGED call
    PROVE  CallsTyped'
<1>1. \A h \in Callers : Fits(call[h], task', plans')
  BY NoRowZero, FitsKept DEF Typed, CallsTyped, Grown
<1> QED BY <1>1 DEF Typed, CallsTyped

LEMMA ReturnMoves ==
    ASSUME Typed, Grown, NEW g \in Callers, Return(g)
    PROVE  CallsTyped' /\ Becomes(g, Idle)
BY IdleFits, CallsMove DEF Return, Becomes

\* What a step leaves alone is typed as before.
LEMMA OthersStay ==
    ASSUME Typed, Grown, UNCHANGED <<edges, queue, load, spent, astray>>,
           calls' \in 0..MaxCalls, faults' \in 0..MaxFaults
    PROVE  OthersTyped'
<1>1. DOMAIN task \subseteq DOMAIN task' /\ 0..Len(plans) \subseteq 0..Len(plans')
  BY LenProperties DEF Grown, TasksGrow, PlansGrow, Typed, PlansTyped
<1>2. Seq([task : DOMAIN task, agent : Agents]) \subseteq Seq([task : DOMAIN task', agent : Agents])
  <2>1. [task : DOMAIN task, agent : Agents] \subseteq [task : DOMAIN task', agent : Agents]
    BY <1>1
  <2> QED BY <2>1, SeqMonotonic
<1> QED BY <1>1, <1>2 DEF Typed, OthersTyped, Rows

\* How many requests and faults there have been.
LEMMA Counted ==
    ASSUME Typed
    PROVE  /\ calls \in 0..MaxCalls /\ faults \in 0..MaxFaults
           /\ Request => calls' \in 0..MaxCalls /\ calls' \in Nat
           /\ faults < MaxFaults => faults + 1 \in 0..MaxFaults
           /\ Step => calls' \in 0..MaxCalls /\ faults' \in 0..MaxFaults
BY ToolsAssumption DEF Typed, OthersTyped, Request, Step

-----------------------------------------------------------------------------
(* Most steps are Plain: they neither begin nor end anything that the      *)
(* safety properties are about.                                            *)

Special == {"insertPlan", "readErrors", "failPlan"} \cup Choosing

\* What happens to the tables: no sub-task of a plan is made, no plan, no entry, no
\* error is counted, and a plan that waits waited before.
Aside ==
    /\ \A t \in DOMAIN task' \ DOMAIN task : task'[t].plan = 0
    /\ DOMAIN plans' = DOMAIN plans /\ UNCHANGED <<queue, astray>>
    /\ \A p \in DOMAIN plans :
         /\ plans'[p].status = "pending" => plans[p].status = "pending"
         /\ plans'[p].errors = plans[p].errors
         /\ \A x \in Titles : plans[p].items[x].approved # "absent"
                                => plans'[p].items[x].real = plans[p].items[x].real
Apart(e) == task[e[1]].plan # 0 /\ task[e[2]].plan # 0 /\ ~task[e[1]].inWorkflow
               => task[e[1]].by = task[e[2]].by
Unmixed == \A e \in edges' \ edges : e \in Rows \X Rows /\ Apart(e)

Plain == /\ Aside /\ Unmixed
         /\ \A h \in Callers : call'[h] = call[h] \/ (call[h].pc \notin Special /\ call'[h].pc \notin Special)

LEMMA AsideSame ==
    ASSUME UNCHANGED <<task, plans, queue, astray>> PROVE Aside
BY DEF Aside

LEMMA PlainMove ==
    ASSUME Typed, NEW g \in Callers, NEW d, Becomes(g, d), Aside, Unmixed,
           call[g].pc \notin Special, d.pc \notin Special
    PROVE  Plain
BY DEF Plain, Typed, CallsTyped, Becomes

\* A step that leaves the tables alone, and one that changes only tasks or only plans.
LEMMA MovesOnly ==
    ASSUME Typed, NEW g \in Callers, NEW d \in Calls, Becomes(g, d), Fits(d, task, plans),
           UNCHANGED <<tables, astray>>, calls' \in 0..MaxCalls, faults' \in 0..MaxFaults
    PROVE  Typed' /\ Grown /\ Aside /\ Unmixed
<1>1. Grown
  BY GrowsSame DEF tables, Grown, Typed, PlansTyped
<1>2. Aside /\ Unmixed
  BY AsideSame DEF tables, Unmixed
<1>3. CallsTyped' /\ OthersTyped'
  BY <1>1, CallsMove, OthersStay DEF tables
<1> QED BY <1>1, <1>2, <1>3 DEF tables, Typed

LEMMA MovesTask ==
    ASSUME Typed, NEW g \in Callers, NEW d \in Calls, Becomes(g, d), Fits(d, task', plans),
           TasksTyped(task'), TasksGrow(task, task'),
           \A t \in DOMAIN task' \ DOMAIN task : task'[t].plan = 0,
           UNCHANGED <<edges, plans, queue, load, spent, astray>>,
           calls' \in 0..MaxCalls, faults' \in 0..MaxFaults
    PROVE  Typed' /\ Grown /\ Aside /\ Unmixed
<1>1. Grown
  BY GrowsSame DEF Grown, Typed, PlansTyped
<1>2. Aside /\ Unmixed
  BY DEF Aside, Unmixed
<1>3. CallsTyped' /\ OthersTyped' /\ PlansTyped(plans', task')
  BY <1>1, CallsMove, OthersStay, PlansOfMore DEF Typed
<1> QED BY <1>1, <1>2, <1>3 DEF Typed

LEMMA MovesPlans ==
    ASSUME Typed, NEW g \in Callers, NEW d \in Calls, Becomes(g, d), Fits(d, task, plans'),
           PlansTyped(plans', task), PlansGrow(plans, plans'),
           UNCHANGED <<task, edges, queue, load, spent, astray>>,
           calls' \in 0..MaxCalls, faults' \in 0..MaxFaults
    PROVE  Typed' /\ Grown /\ Unmixed
<1>1. Grown
  BY GrowsSame DEF Grown
<1>2. Unmixed
  BY DEF Unmixed
<1>3. CallsTyped' /\ OthersTyped'
  BY <1>1, CallsMove, OthersStay
<1> QED BY <1>1, <1>2, <1>3 DEF Typed

LEMMA MovesEdges ==
    ASSUME Typed, NEW g \in Callers, NEW d \in Calls, Becomes(g, d), Fits(d, task, plans),
           edges' \subseteq Rows \X Rows, UNCHANGED <<task, plans, queue, load, spent, astray>>, Step
    PROVE  Typed' /\ Grown /\ Aside
<1>1. Grown
  BY GrowsSame DEF Grown, Typed, PlansTyped
<1>2. Aside
  BY AsideSame
<1>3. CallsTyped'
  BY <1>1, CallsMove
<1>4. OthersTyped'
  BY Counted DEF OthersTyped, Typed, Rows
<1> QED BY <1>1, <1>2, <1>3, <1>4 DEF Typed

\* A call begins.
LEMMA RunMoves ==
    ASSUME Typed, NEW g \in Callers, NEW d, Run(g, d)
    PROVE  /\ Becomes(g, d) /\ call[g].pc = "idle"
           /\ calls' \in 0..MaxCalls /\ calls' \in Nat
BY Counted DEF Run, At, Becomes

LEMMA StartsPlain ==
    ASSUME Typed, NEW g \in Callers, NEW d \in Calls, Run(g, d), Fits(d, task, plans),
           d.pc \notin Special, UNCHANGED <<tables, faults, astray>>
    PROVE  Typed' /\ Grown /\ Plain
<1>1. Becomes(g, d) /\ call[g].pc = "idle" /\ calls' \in 0..MaxCalls /\ faults' \in 0..MaxFaults
  BY RunMoves, Counted
<1>2. Typed' /\ Grown /\ Aside /\ Unmixed
  BY <1>1, MovesOnly
<1>3. "idle" \notin Special
  BY DEF Special, Choosing, Making
<1> QED BY <1>1, <1>2, <1>3, PlainMove

LEMMA IdleCall ==
    /\ Idle.pc = "idle" /\ Idle.agent = NoAgent /\ Idle.task = 0 /\ Idle.depth = 0 /\ Idle.plan = 0
    /\ Idle.title = NoTitle /\ Idle.to = NoAgent /\ Idle.items = [x \in {} |-> NoItem] /\ Idle.todo = {}
    /\ Idle.made = [x \in Titles |-> 0] /\ Idle.sub = 0 /\ Idle.by = 0
    /\ Idle.items \in Lists
BY IdleFits DEF Idle, Calls

LEMMA proposePlanOK ==
    ASSUME Typed, NEW g \in Callers, NEW a \in Agents, NEW t \in Rows, NEW items \in Proposals,
           proposePlan(g, a, t, items)
    PROVE  Typed' /\ Grown /\ Plain
<1> DEFINE d == [Idle EXCEPT !.pc = "cancel", !.agent = a, !.task = t, !.items = items]
<1>1. items \in Lists /\ t \in Nat
  BY ToolsAssumption, NoRowZero DEF Lists, Rows, Typed
<1>2. d \in Calls
  BY <1>1, IdleFits DEF Calls, Pcs
<1>3. /\ d.pc = "cancel" /\ d.task = t /\ d.plan = 0 /\ d.sub = 0 /\ d.title = NoTitle
      /\ d.made = [x \in Titles |-> 0]
  BY DEF Idle
<1>4. Run(g, d) /\ UNCHANGED <<tables, faults, astray>>
  BY DEF proposePlan
<1> HIDE DEF d
<1>5. Made(d) = {}
  BY <1>3 DEF Made
<1>6. Fits(d, task, plans)
  BY <1>3, <1>5, NoRowZero DEF Fits, References, AgentNamed, TitlesNamed, TasksNamed, OnPlan, Choosing, Making,
     Early, Rows, Typed
<1>7. d.pc \notin Special
  BY <1>3 DEF Special, Choosing, Making
<1> QED BY <1>2, <1>4, <1>6, <1>7, StartsPlain

\* A call that begins with a task, and has made nothing yet.
LEMMA BeginFits ==
    ASSUME Typed, NEW d \in Calls, d.task \in Rows, d.plan \in {0} \cup DOMAIN plans,
           d.plan # 0 \/ d.pc \notin OnPlan, d.sub = 0, d.made = [x \in Titles |-> 0],
           d.pc \in {"findPlan", "insertTask", "assign", "readItems", "rejectPlan", "attach"},
           d.pc = "assign" => d.to \in Agents,
           d.pc = "findPlan" => d.title \in DOMAIN d.items,
           d.pc \in {"insertTask", "attach"} => d.todo \subseteq Rows
    PROVE  Fits(d, task, plans)
<1>1. Made(d) = {}
  BY DEF Made
<1> QED
  BY <1>1, NoRowZero DEF Fits, References, AgentNamed, TitlesNamed, TasksNamed, Choosing, Making,
     Early, Rows, Typed

LEMMA planSubTaskOK ==
    ASSUME Typed, NEW g \in Callers, NEW a \in Agents, NEW t \in Rows,
           NEW items \in Proposals, NEW x \in DOMAIN items, planSubTask(g, a, t, x, items[x])
    PROVE  Typed' /\ Grown /\ Plain
<1> DEFINE list == [y \in {x} |-> items[x]]
           d == [Idle EXCEPT !.pc = "findPlan", !.agent = a, !.task = t, !.title = x, !.items = list]
<1>1. x \in Titles /\ items[x] \in Items /\ t \in Nat
  BY ToolsAssumption, NoRowZero DEF Rows, Typed
<1>2. list \in Lists /\ DOMAIN list = {x}
  <2>1. list \in [{x} -> Items]
    BY <1>1
  <2>2. {x} \in SUBSET Titles
    BY <1>1
  <2> QED BY <2>1, <2>2 DEF Lists
<1>3. Run(g, d) /\ UNCHANGED <<tables, faults, astray>>
  BY DEF planSubTask
<1> HIDE DEF list
<1>4. d \in Calls
  BY <1>1, <1>2, IdleFits DEF Calls, Pcs
<1>5. /\ d.pc = "findPlan" /\ d.task = t /\ d.title = x /\ d.items = list
      /\ d.plan = 0 /\ d.sub = 0 /\ d.made = [y \in Titles |-> 0]
  BY DEF Idle
<1> HIDE DEF d
<1>6. Fits(d, task, plans)
  BY <1>2, <1>4, <1>5, BeginFits DEF OnPlan, Choosing, Making
<1>7. d.pc \notin Special
  BY <1>5 DEF Special, Choosing, Making
<1> QED BY <1>3, <1>4, <1>6, <1>7, StartsPlain

LEMMA createSubTaskOK ==
    ASSUME Typed, NEW g \in Callers, NEW a \in Agents, NEW t \in Rows,
           NEW to \in Agents \cup {NoAgent}, NEW deps \in {{}} \cup {{u} : u \in Rows \ {t}},
           createSubTask(g, a, t, to, deps)
    PROVE  Typed' /\ Grown /\ Plain
<1> DEFINE d == [Idle EXCEPT !.pc = "insertTask", !.agent = a, !.task = t, !.depth = task[t].depth,
                             !.to = to, !.todo = deps, !.by = calls + 1]
<1>1. /\ t \in Nat /\ deps \subseteq Rows /\ Rows \subseteq Nat /\ calls + 1 \in Nat
      /\ task[t].depth \in Nat
  <2>1. deps \subseteq Rows
    OBVIOUS
  <2>2. task[t] \in TaskRows
    BY ElementOfSeq, LenProperties DEF Typed, TasksTyped, Rows
  <2> QED BY <2>1, <2>2, NoRowZero, Counted, ToolsAssumption DEF Rows, Typed, TaskRows
<1>2. d \in Calls
  BY <1>1, IdleFits DEF Calls, Pcs
<1>3. /\ d.pc = "insertTask" /\ d.task = t /\ d.todo = deps
      /\ d.plan = 0 /\ d.sub = 0 /\ d.made = [x \in Titles |-> 0]
  BY DEF Idle
<1>4. Run(g, d) /\ UNCHANGED <<tables, faults, astray>>
  BY DEF createSubTask
<1> HIDE DEF d
<1>5. Fits(d, task, plans)
  BY <1>1, <1>2, <1>3, BeginFits DEF OnPlan, Choosing, Making
<1>6. d.pc \notin Special
  BY <1>3 DEF Special, Choosing, Making
<1> QED BY <1>2, <1>4, <1>5, <1>6, StartsPlain

LEMMA assignTaskOK ==
    ASSUME Typed, NEW g \in Callers, NEW a \in Agents, NEW t \in Rows, NEW to \in Agents,
           assignTask(g, a, t, to)
    PROVE  Typed' /\ Grown /\ Plain
<1> DEFINE d == [Idle EXCEPT !.pc = "assign", !.agent = a, !.task = t, !.to = to]
<1>1. t \in Nat
  BY NoRowZero DEF Rows, Typed
<1>2. d \in Calls
  BY <1>1, IdleFits DEF Calls, Pcs
<1>3. /\ d.pc = "assign" /\ d.task = t /\ d.to = to
      /\ d.plan = 0 /\ d.sub = 0 /\ d.made = [x \in Titles |-> 0]
  BY DEF Idle
<1>4. Run(g, d) /\ UNCHANGED <<tables, faults, astray>>
  BY DEF assignTask
<1> HIDE DEF d
<1>5. Fits(d, task, plans)
  BY <1>2, <1>3, BeginFits DEF OnPlan, Choosing, Making
<1>6. d.pc \notin Special
  BY <1>3 DEF Special, Choosing, Making
<1> QED BY <1>2, <1>4, <1>5, <1>6, StartsPlain

LEMMA RejectPlanOK ==
    ASSUME Typed, NEW g \in Callers, NEW t \in Rows, RejectPlan(g, t)
    PROVE  Typed' /\ Grown /\ Plain
<1>1. PICK p \in Pending(t) : Run(g, [Idle EXCEPT !.pc = "rejectPlan", !.task = t, !.plan = p])
  BY DEF RejectPlan
<1> DEFINE d == [Idle EXCEPT !.pc = "rejectPlan", !.task = t, !.plan = p]
<1>2. t \in Nat /\ p \in Nat /\ p # 0 /\ p \in DOMAIN plans
  BY NoRowZero DEF Rows, Typed, Pending
<1>3. d \in Calls
  BY <1>2, IdleFits DEF Calls, Pcs
<1>4. /\ d.pc = "rejectPlan" /\ d.task = t /\ d.plan = p
      /\ d.sub = 0 /\ d.made = [x \in Titles |-> 0]
  BY DEF Idle
<1>5. Run(g, d) /\ UNCHANGED <<tables, faults, astray>>
  BY <1>1 DEF RejectPlan
<1> HIDE DEF d
<1>6. Fits(d, task, plans)
  BY <1>2, <1>3, <1>4, BeginFits
<1>7. d.pc \notin Special
  BY <1>4 DEF Special, Choosing, Making
<1> QED BY <1>3, <1>5, <1>6, <1>7, StartsPlain

LEMMA AttachToWorkflowOK ==
    ASSUME Typed, NEW g \in Callers, NEW t \in Rows, NEW depth \in {0, MaxDepth},
           NEW deps \in {{}} \cup {{u} : u \in Rows}, AttachToWorkflow(g, t, depth, deps)
    PROVE  Typed' /\ Grown /\ Plain
<1> DEFINE d == [Idle EXCEPT !.pc = "attach", !.task = t, !.depth = depth, !.todo = deps]
<1>1. t \in Nat /\ deps \subseteq Rows /\ Rows \subseteq Nat /\ depth \in Nat
  <2>1. deps \subseteq Rows
    OBVIOUS
  <2> QED BY <2>1, NoRowZero, ToolsAssumption DEF Rows, Typed
<1>2. d \in Calls
  BY <1>1, IdleFits DEF Calls, Pcs
<1>3. /\ d.pc = "attach" /\ d.task = t /\ d.todo = deps
      /\ d.plan = 0 /\ d.sub = 0 /\ d.made = [x \in Titles |-> 0]
  BY DEF Idle
<1>4. Run(g, d) /\ UNCHANGED <<tables, faults, astray>>
  BY DEF AttachToWorkflow
<1> HIDE DEF d
<1>5. Fits(d, task, plans)
  BY <1>1, <1>2, <1>3, BeginFits DEF OnPlan, Choosing, Making
<1>6. d.pc \notin Special
  BY <1>3 DEF Special, Choosing, Making
<1> QED BY <1>2, <1>4, <1>5, <1>6, StartsPlain

LEMMA CallAt ==
    ASSUME Typed, NEW g \in Callers
    PROVE  /\ call[g] \in Calls /\ Fits(call[g], task, plans)
           /\ call[g].task \in Nat /\ call[g].plan \in Nat /\ call[g].sub \in Nat
           /\ DOMAIN task \subseteq Nat /\ DOMAIN plans \subseteq Nat
           /\ 0 \notin DOMAIN task /\ 0 \notin DOMAIN plans
BY NoRowZero DEF Typed, CallsTyped, Calls

SameButPc(c, d) ==
    /\ d.agent = c.agent /\ d.task = c.task /\ d.depth = c.depth /\ d.plan = c.plan /\ d.title = c.title
    /\ d.to = c.to /\ d.items = c.items /\ d.todo = c.todo /\ d.made = c.made /\ d.sub = c.sub
    /\ d.by = c.by /\ Made(d) = Made(c)

LEMMA PcChange ==
    ASSUME NEW c \in Calls, NEW v \in Pcs
    PROVE  /\ [c EXCEPT !.pc = v] \in Calls /\ [c EXCEPT !.pc = v].pc = v
           /\ SameButPc(c, [c EXCEPT !.pc = v])
<1>1. [c EXCEPT !.pc = v] \in Calls
  BY CallFields
<1> QED BY <1>1 DEF SameButPc, Made, Calls

LEMMA GotoMoves ==
    ASSUME Typed, NEW g \in Callers, NEW v \in Pcs, Goto(g, v)
    PROVE  /\ Becomes(g, [call[g] EXCEPT !.pc = v]) /\ [call[g] EXCEPT !.pc = v] \in Calls
           /\ [call[g] EXCEPT !.pc = v].pc = v
           /\ SameButPc(call[g], [call[g] EXCEPT !.pc = v])
<1>1. call[g] \in Calls
  BY CallAt
<1>2. Becomes(g, [call[g] EXCEPT !.pc = v])
  BY DEF Goto, Becomes
<1> QED BY <1>1, <1>2, PcChange

\* Where a call may go with what it has.
LEMMA GotoFits ==
    ASSUME NEW c \in Calls, NEW d, NEW tasks, NEW ps, Fits(c, tasks, ps), SameButPc(c, d),
           \/ c.pc = "cancel" /\ d.pc = "insertPlan"
           \/ c.pc = "findPlan" /\ d.pc = "insertPlan"
           \/ c.pc = "validate" /\ d.pc \in {"insertItem", "countError"}
           \/ c.pc = "countError" /\ d.pc = "readErrors"
           \/ c.pc = "readErrors" /\ d.pc \in {"failPlan", "insertItem"}
           \/ c.pc = "rejectPlan" /\ d.pc = "rejectItems"
           \/ c.pc = "attach" /\ d.pc = "checkCycle" /\ tasks[c.task].inWorkflow
           \/ c.pc = "holdItem" /\ d.pc = "markItem"
           \/ c.pc = "hold" /\ d.pc = "gate"
           \/ c.pc \notin {"idle", "unload"} /\ d.pc \in {"blockParent", "continue", "review"}
           \/ c.pc = "assign" /\ d.pc = "gateAssign"
    PROVE  Fits(d, tasks, ps)
<1> USE DEF SameButPc
<1>1. References(d, tasks, ps)
  BY DEF Fits, References, OnPlan, Choosing, Making
<1>2. AgentNamed(d)
  BY DEF Fits, AgentNamed
<1>3. TitlesNamed(d)
  BY DEF Fits, TitlesNamed, Making, Early
<1>4. TasksNamed(d, tasks)
  BY DEF Fits, TasksNamed
<1> QED BY <1>1, <1>2, <1>3, <1>4 DEF Fits

LEMMA ReturnFits ==
    ASSUME Typed, NEW g \in Callers, Return(g)
    PROVE  /\ Becomes(g, Idle) /\ Idle \in Calls /\ Idle.pc = "idle" /\ Idle.pc \notin Special
           /\ \A tasks, ps : Fits(Idle, tasks, ps)
BY IdleFits, IdleCall DEF Return, Becomes, Special, Choosing, Making

LEMMA FitsInPlans ==
    ASSUME Typed, NEW g \in Callers, PlansGrow(plans, plans')
    PROVE  Fits(call[g], task, plans')
<1>1. call[g] \in Calls /\ Fits(call[g], task, plans) /\ 0 \notin DOMAIN task
  BY CallAt
<1>2. TasksGrow(task, task)
  BY GrowsSame
<1> QED BY <1>1, <1>2, FitsKept

LEMMA FitsInTasks ==
    ASSUME Typed, NEW g \in Callers, TasksGrow(task, task')
    PROVE  Fits(call[g], task', plans)
<1>1. call[g] \in Calls /\ Fits(call[g], task, plans) /\ 0 \notin DOMAIN task
  BY CallAt
<1>2. PlansGrow(plans, plans)
  BY GrowsSame DEF Typed, PlansTyped
<1> QED BY <1>1, <1>2, FitsKept

LEMMA PlanAt ==
    ASSUME Typed, NEW g \in Callers, call[g].pc \in OnPlan
    PROVE  /\ call[g].plan \in DOMAIN plans /\ plans[call[g].plan] \in PlanRows
           /\ plans[call[g].plan].items \in [Titles -> ItemRows]
           /\ \A x \in Titles : /\ plans[call[g].plan].items[x] \in ItemRows
                                /\ plans[call[g].plan].items[x].real \in {0} \cup DOMAIN task
                                /\ plans[call[g].plan].items[x].approved = "yes"
                                     => plans[call[g].plan].items[x].real # 0
<1> DEFINE p == call[g].plan
<1>1. p \in DOMAIN plans
  BY CallAt DEF Fits, References
<1>2. plans[p] \in PlanRows
  BY <1>1, ElementOfSeq, LenProperties DEF Typed, PlansTyped
<1>3. plans[p].items \in [Titles -> ItemRows]
  BY <1>2 DEF PlanRows
<1> HIDE DEF p
<1>4. \A x \in Titles : /\ plans[p].items[x] \in ItemRows
                        /\ plans[p].items[x].real \in {0} \cup DOMAIN task
                        /\ plans[p].items[x].approved = "yes" => plans[p].items[x].real # 0
  BY <1>1, <1>3 DEF Typed, PlansTyped
<1> QED BY <1>1, <1>2, <1>3, <1>4 DEF p

\* A plan whose status or count of errors changes keeps its items.
LEMMA SetHead ==
    ASSUME Typed, NEW p \in DOMAIN plans, NEW r \in PlanRows, r.task = plans[p].task,
           r.items = plans[p].items, plans' = [plans EXCEPT ![p] = r]
    PROVE  /\ PlansTyped(plans', task) /\ PlansGrow(plans, plans') /\ DOMAIN plans' = DOMAIN plans
           /\ \A q \in DOMAIN plans : plans'[q] = IF q = p THEN r ELSE plans[q]
<1>1. \A x \in Titles : /\ r.items[x].real \in {0} \cup DOMAIN task
                        /\ r.items[x].approved = "yes" => r.items[x].real # 0
                        /\ KeptItem(plans[p].items[x], r.items[x])
  BY DEF Typed, PlansTyped, KeptItem
<1> QED BY <1>1, SetPlan DEF Typed

LEMMA RejectedAll ==
    ASSUME Typed, NEW some \in SUBSET DOMAIN plans,
           plans' = [p \in DOMAIN plans |-> IF p \in some THEN [plans[p] EXCEPT !.status = "rejected"] ELSE plans[p]]
    PROVE  /\ PlansTyped(plans', task) /\ PlansGrow(plans, plans') /\ DOMAIN plans' = DOMAIN plans
           /\ \A p \in DOMAIN plans : /\ plans'[p].task = plans[p].task /\ plans'[p].errors = plans[p].errors
                                      /\ plans'[p].items = plans[p].items
                                      /\ plans'[p].status = IF p \in some THEN "rejected" ELSE plans[p].status
<1>1. plans \in Seq(PlanRows) /\ Len(plans) \in Nat /\ DOMAIN plans = 1..Len(plans)
  BY LenProperties DEF Typed, PlansTyped
<1>2. \A p \in DOMAIN plans : plans[p] \in PlanRows
  BY <1>1, ElementOfSeq
<1>3. \A p \in DOMAIN plans : /\ plans'[p] \in PlanRows
                              /\ plans'[p].task = plans[p].task /\ plans'[p].errors = plans[p].errors
                              /\ plans'[p].items = plans[p].items
                              /\ plans'[p].status = IF p \in some THEN "rejected" ELSE plans[p].status
  <2> TAKE p \in DOMAIN plans
  <2>1. [plans[p] EXCEPT !.status = "rejected"] \in PlanRows
    BY <1>2, PlanFields
  <2> QED BY <1>2, <2>1 DEF PlanRows
<1>4. plans' \in [1..Len(plans) -> PlanRows]
  BY <1>1, <1>3
<1>5. plans' \in Seq(PlanRows) /\ Len(plans') = Len(plans) /\ DOMAIN plans' = DOMAIN plans
  BY <1>1, <1>4, SeqDef, LenProperties
<1>6. PlansTyped(plans', task)
  BY <1>3, <1>5 DEF Typed, PlansTyped
<1>7. PlansGrow(plans, plans')
  BY <1>1, <1>3, <1>5 DEF PlansGrow, KeptItem
<1> QED BY <1>3, <1>5, <1>6, <1>7

\* The other calls stay where they are.
Alone(g) == \A h \in Callers \ {g} : call'[h] = call[h]

LEMMA BecomesAlone ==
    ASSUME Typed, NEW g \in Callers, NEW d, Becomes(g, d)
    PROVE  call'[g] = d /\ Alone(g)
BY DEF Typed, CallsTyped, Becomes, Alone

LEMMA cancelPendingOK ==
    ASSUME Typed, NEW g \in Callers, cancelPending(g)
    PROVE  /\ Typed' /\ Grown /\ Unmixed /\ Aside /\ Alone(g) /\ UNCHANGED <<task, edges>>
           /\ call[g].pc = "cancel" /\ call'[g].pc = "insertPlan" /\ call'[g].task = call[g].task
           /\ \A p \in Pending(call[g].task) : plans'[p].status # "pending"
<1> DEFINE c == call[g]
           d == [c EXCEPT !.pc = "insertPlan"]
           some == Pending(c.task)
<1>1. some \in SUBSET DOMAIN plans
  BY DEF Pending
<1>2. /\ PlansTyped(plans', task) /\ PlansGrow(plans, plans') /\ DOMAIN plans' = DOMAIN plans
      /\ \A p \in DOMAIN plans : /\ plans'[p].task = plans[p].task /\ plans'[p].errors = plans[p].errors
                                 /\ plans'[p].items = plans[p].items
                                 /\ plans'[p].status = IF p \in some THEN "rejected" ELSE plans[p].status
  BY <1>1, RejectedAll DEF cancelPending
<1>8. \A p \in Pending(c.task) : plans'[p].status # "pending"
  BY <1>1, <1>2
<1> HIDE DEF some
<1>3. Becomes(g, d) /\ d \in Calls /\ d.pc = "insertPlan" /\ SameButPc(c, d) /\ c.pc = "cancel"
  BY GotoMoves DEF cancelPending, Pcs, At
<1>9. call'[g] = d /\ Alone(g)
  BY <1>3, BecomesAlone
<1> HIDE DEF d
<1>4. Fits(c, task, plans')
  BY <1>2, CallAt, FitsKept, GrowsSame DEF Typed
<1>5. Fits(d, task, plans')
  BY <1>3, <1>4, CallAt, GotoFits
<1>6. Typed' /\ Grown /\ Unmixed
  BY <1>2, <1>3, <1>5, MovesPlans, Counted DEF cancelPending
<1>7. Aside
  BY <1>2 DEF Aside, cancelPending
<1> QED BY <1>3, <1>6, <1>7, <1>8, <1>9 DEF SameButPc, cancelPending

LEMMA insertPlanOK ==
    ASSUME Typed, NEW g \in Callers, insertPlan(g)
    PROVE  /\ Typed' /\ Grown /\ Unmixed
           /\ plans' = Append(plans, NewPlan(call[g].task)) /\ call[g].task \in Rows
           /\ call[g].pc = "insertPlan" /\ call'[g].pc \in {"insertItem", "validate"}
           /\ Alone(g) /\ UNCHANGED <<task, edges, queue, astray>>
<1> DEFINE c == call[g]
           n == Len(plans) + 1
           v == IF c.title = NoTitle THEN "insertItem" ELSE "validate"
           d == [c EXCEPT !.plan = n, !.pc = v, !.todo = DOMAIN c.items]
<1>1. c \in Calls /\ Fits(c, task, plans) /\ c.pc = "insertPlan" /\ c.task \in DOMAIN task /\ c.task \in Nat
  BY CallAt DEF Fits, References, insertPlan, At
<1>2. /\ plans' = Append(plans, NewPlan(c.task)) /\ PlansTyped(plans', task) /\ PlansGrow(plans, plans')
      /\ n \in DOMAIN plans' /\ n \in Nat /\ n # 0
  BY <1>1, AddPlan DEF insertPlan, Typed
<1>3. Becomes(g, d)
  BY DEF insertPlan, Becomes
<1> HIDE DEF n
<1>4. v \in Pcs /\ v \in {"insertItem", "validate"} /\ (v = "validate" => c.title # NoTitle)
  BY DEF Pcs
<1> HIDE DEF v
<1>5. DOMAIN c.items \in SUBSET (Titles \cup Nat)
  BY <1>1, ListTypes DEF Calls
<1>6. d \in Calls
  BY <1>1, <1>2, <1>4, <1>5, CallFields
<1>7. /\ d.pc = v /\ d.plan = n /\ d.todo = DOMAIN c.items /\ d.task = c.task /\ d.sub = c.sub
      /\ d.made = c.made /\ d.items = c.items /\ d.title = c.title /\ Made(d) = Made(c)
  BY <1>1 DEF Calls, Made
<1> HIDE DEF d, c
<1>8. Fits(c, task, plans')
  BY <1>1, <1>2, CallAt, FitsKept, GrowsSame DEF Typed
<1>9. Fits(d, task, plans')
  <2>1. References(d, task, plans') /\ AgentNamed(d) /\ TasksNamed(d, task)
    BY <1>1, <1>2, <1>4, <1>7, <1>8 DEF Fits, References, AgentNamed, TasksNamed
  <2>2. TitlesNamed(d)
    BY <1>1, <1>4, <1>7 DEF Fits, TitlesNamed, Making, Early
  <2> QED BY <2>1, <2>2 DEF Fits
<1>10. Typed' /\ Grown /\ Unmixed
  BY <1>2, <1>3, <1>6, <1>9, MovesPlans, Counted DEF insertPlan
<1>11. call'[g] = d /\ Alone(g)
  BY <1>3, BecomesAlone
<1> QED BY <1>1, <1>2, <1>4, <1>7, <1>10, <1>11 DEF c, Rows, insertPlan

LEMMA findPlanOK ==
    ASSUME Typed, NEW g \in Callers, findPlan(g)
    PROVE  /\ Typed' /\ Grown /\ Unmixed /\ Aside /\ Alone(g) /\ UNCHANGED <<task, edges, plans>>
           /\ call[g].pc = "findPlan" /\ call'[g].pc \in {"insertPlan", "validate"}
           /\ call'[g].task = call[g].task
           /\ call'[g].pc = "insertPlan" => Pending(call[g].task) = {}
<1> DEFINE c == call[g]
<1>1. c \in Calls /\ Fits(c, task, plans) /\ c.pc = "findPlan" /\ c.title \in DOMAIN c.items
  BY CallAt DEF Fits, TitlesNamed, findPlan, At
<1>2. calls' \in 0..MaxCalls /\ faults' \in 0..MaxFaults /\ UNCHANGED <<tables, astray>>
  BY Counted DEF findPlan
<1>3. CASE Pending(c.task) = {} /\ Goto(g, "insertPlan")
  <2> DEFINE d == [c EXCEPT !.pc = "insertPlan"]
  <2>1. Becomes(g, d) /\ d \in Calls /\ d.pc = "insertPlan" /\ SameButPc(c, d)
    BY <1>3, GotoMoves DEF Pcs
  <2> HIDE DEF d
  <2>2. Fits(d, task, plans)
    BY <1>1, <2>1, GotoFits
  <2>3. call'[g] = d /\ Alone(g)
    BY <2>1, BecomesAlone
  <2> QED BY <1>1, <1>2, <1>3, <2>1, <2>2, <2>3, MovesOnly DEF SameButPc, tables
<1>4. CASE \E p \in Pending(c.task) :
             call' = [call EXCEPT ![g].plan = p, ![g].pc = "validate", ![g].todo = {c.title}]
  <2>1. PICK p \in Pending(c.task) :
              call' = [call EXCEPT ![g].plan = p, ![g].pc = "validate", ![g].todo = {c.title}]
    BY <1>4
  <2> DEFINE d == [c EXCEPT !.plan = p, !.pc = "validate", !.todo = {c.title}]
  <2>2. Becomes(g, d) /\ p \in DOMAIN plans /\ p \in Nat /\ p # 0
    BY <2>1, NoRowZero DEF Becomes, Pending, Typed
  <2>3. {c.title} \in SUBSET (Titles \cup Nat)
    BY <1>1, ListTypes DEF Calls
  <2>4. d \in Calls
    BY <1>1, <2>2, <2>3, CallFields DEF Pcs
  <2>5. /\ d.pc = "validate" /\ d.plan = p /\ d.todo = {c.title} /\ d.task = c.task /\ d.sub = c.sub
        /\ d.made = c.made /\ d.items = c.items /\ d.title = c.title /\ Made(d) = Made(c)
    BY <1>1 DEF Calls, Made
  <2> HIDE DEF d, c
  <2>6. References(d, task, plans) /\ AgentNamed(d) /\ TasksNamed(d, task)
    BY <1>1, <2>2, <2>5 DEF Fits, References, AgentNamed, TasksNamed
  <2>7. TitlesNamed(d)
    BY <1>1, <2>5 DEF Fits, TitlesNamed, Making, Early
  <2>8. call'[g] = d /\ Alone(g)
    BY <2>2, BecomesAlone
  <2> QED BY <1>1, <1>2, <2>2, <2>4, <2>5, <2>6, <2>7, <2>8, MovesOnly DEF Fits, c, tables
<1> QED BY <1>3, <1>4 DEF findPlan

LEMMA validateItemOK ==
    ASSUME Typed, NEW g \in Callers, validateItem(g)
    PROVE  Typed' /\ Grown /\ Plain
<1> DEFINE c == call[g]
<1>1. c \in Calls /\ Fits(c, task, plans) /\ c.pc = "validate" /\ c.pc \notin Special
  BY CallAt DEF validateItem, At, Special, Choosing, Making
<1>2. calls' \in 0..MaxCalls /\ faults' \in 0..MaxFaults /\ UNCHANGED <<tables, astray>>
  BY Counted DEF validateItem
<1>3. CASE Return(g)
  BY <1>1, <1>2, <1>3, ReturnFits, MovesOnly, PlainMove
<1>4. ASSUME NEW v \in {"insertItem", "countError"}, Goto(g, v)
      PROVE  Typed' /\ Grown /\ Plain
  <2> DEFINE d == [c EXCEPT !.pc = v]
  <2> v \in Pcs
    BY DEF Pcs
  <2>1. Becomes(g, d) /\ d \in Calls /\ d.pc = v /\ SameButPc(c, d)
    BY <1>4, GotoMoves
  <2> HIDE DEF d
  <2>2. Fits(d, task, plans)
    BY <1>1, <2>1, GotoFits
  <2>3. d.pc \notin Special
    BY <2>1 DEF Special, Choosing, Making
  <2> QED BY <1>1, <1>2, <2>1, <2>2, <2>3, MovesOnly, PlainMove
<1> QED BY <1>3, <1>4 DEF validateItem

LEMMA insertItemOK ==
    ASSUME Typed, NEW g \in Callers, insertItem(g)
    PROVE  Typed' /\ Grown /\ Plain
<1> DEFINE c == call[g]
           p == c.plan
<1>1. c \in Calls /\ Fits(c, task, plans) /\ c.pc = "insertItem" /\ c.todo \subseteq DOMAIN c.items
  BY CallAt DEF insertItem, At, Fits, TitlesNamed
<1>2. p \in DOMAIN plans /\ plans[p] \in PlanRows /\ plans[p].items \in [Titles -> ItemRows]
  BY <1>1, PlanAt DEF OnPlan
<1>3. PICK x \in c.todo :
        /\ plans' = IF x \in ItemsOf(p) THEN plans
                    ELSE [plans EXCEPT ![p].items[x] = [agent |-> c.items[x].agent, deps |-> c.items[x].deps,
                                                        approved |-> "undecided", real |-> 0]]
        /\ IF c.todo = {x} THEN Return(g) ELSE call' = [call EXCEPT ![g].todo = @ \ {x}]
  BY DEF insertItem
<1>4. x \in Titles /\ c.items[x] \in Items
  BY <1>1, ListTypes DEF Calls
<1> DEFINE item == [agent |-> c.items[x].agent, deps |-> c.items[x].deps,
                    approved |-> "undecided", real |-> 0]
           f == [plans[p].items EXCEPT ![x] = item]
           r == [plans[p] EXCEPT !.items = f]
<1>5. item \in ItemRows /\ item.approved = "undecided" /\ item.real = 0
  BY <1>4 DEF Items, ItemRows
<1> HIDE DEF item
<1>6. f \in [Titles -> ItemRows] /\ \A y \in Titles : f[y] = IF y = x THEN item ELSE plans[p].items[y]
  BY <1>2, <1>5
<1> HIDE DEF f
<1>7. r \in PlanRows /\ r.task = plans[p].task /\ r.items = f
      /\ r.status = plans[p].status /\ r.errors = plans[p].errors
  BY <1>2, <1>6, PlanFields DEF PlanRows
<1>8. x \notin ItemsOf(p) => plans' = [plans EXCEPT ![p] = r]
  BY <1>3 DEF r, f, item
<1> HIDE DEF r
<1>9. PlansTyped(plans', task) /\ PlansGrow(plans, plans') /\ Aside
  <2>1. CASE x \in ItemsOf(p)
    BY <1>3, <2>1, GrowsSame, AsideSame DEF Typed, PlansTyped, insertItem
  <2>2. CASE x \notin ItemsOf(p)
    <3>1. plans[p].items[x].approved = "absent"
      BY <1>4, <2>2 DEF ItemsOf
    <3>2. \A y \in Titles : /\ r.items[y].real \in {0} \cup DOMAIN task
                            /\ r.items[y].approved = "yes" => r.items[y].real # 0
                            /\ KeptItem(plans[p].items[y], r.items[y])
      BY <1>1, <1>2, <1>5, <1>6, <1>7, <3>1, PlanAt DEF KeptItem, OnPlan
    <3>3. /\ PlansTyped(plans', task) /\ PlansGrow(plans, plans') /\ DOMAIN plans' = DOMAIN plans
          /\ \A q \in DOMAIN plans : plans'[q] = IF q = p THEN r ELSE plans[q]
      BY <1>2, <1>7, <1>8, <2>2, <3>2, SetPlan DEF Typed
    <3>4. Aside
      BY <1>6, <1>7, <3>1, <3>3 DEF Aside, insertItem
    <3> QED BY <3>3, <3>4
  <2> QED BY <2>1, <2>2
<1>10. Fits(c, task, plans')
  BY <1>1, <1>9, CallAt, FitsKept, GrowsSame DEF Typed
<1>11. "insertItem" \notin Special
  BY DEF Special, Choosing, Making
<1>12. CASE c.todo = {x}
  <2>1. Return(g)
    BY <1>3, <1>12
  <2>2. Becomes(g, Idle) /\ Idle \in Calls /\ Idle.pc \notin Special /\ Fits(Idle, task, plans')
    BY <2>1, ReturnFits
  <2> QED BY <1>1, <1>9, <1>11, <2>2, MovesPlans, PlainMove, Counted DEF insertItem
<1>13. CASE c.todo # {x}
  <2> DEFINE d == [c EXCEPT !.todo = c.todo \ {x}]
  <2>1. Becomes(g, d)
    BY <1>3, <1>13 DEF Becomes
  <2>2. d \in Calls
    <3>1. c.todo \ {x} \in SUBSET (Titles \cup Nat)
      BY <1>1 DEF Calls
    <3> QED BY <1>1, <3>1, CallFields
  <2>3. /\ d.pc = "insertItem" /\ d.plan = c.plan /\ d.todo = c.todo \ {x} /\ d.task = c.task /\ d.sub = c.sub
        /\ d.made = c.made /\ d.items = c.items /\ d.title = c.title /\ Made(d) = Made(c)
    BY <1>1 DEF Calls, Made
  <2> HIDE DEF d, c
  <2>4. References(d, task, plans') /\ AgentNamed(d) /\ TasksNamed(d, task)
    BY <1>1, <1>10, <2>3 DEF Fits, References, AgentNamed, TasksNamed
  <2>5. TitlesNamed(d)
    BY <1>1, <2>3 DEF Fits, TitlesNamed, Making, Early
  <2> QED BY <1>1, <1>9, <1>11, <2>1, <2>2, <2>3, <2>4, <2>5, MovesPlans, PlainMove, Counted
          DEF insertItem, Fits, c
<1> QED BY <1>12, <1>13

\* A call at c may go to v with what it has.
MayGo(c, v) ==
    \A d, ps : /\ d \in Calls /\ d.pc = v /\ SameButPc(c, d) /\ Fits(c, task, ps)
               => Fits(d, task, ps)

\* The step of a call that changes the head of its plan.
LEMMA HeadMoves ==
    ASSUME Typed, NEW g \in Callers, call[g].pc \in OnPlan, NEW v \in Pcs, Goto(g, v),
           NEW r \in PlanRows, r.task = plans[call[g].plan].task, r.items = plans[call[g].plan].items,
           plans' = [plans EXCEPT ![call[g].plan] = r],
           UNCHANGED <<task, edges, queue, load, spent, astray>>, Step, MayGo(call[g], v)
    PROVE  /\ Typed' /\ Grown /\ Unmixed
           /\ DOMAIN plans' = DOMAIN plans /\ call[g].plan \in DOMAIN plans
           /\ \A q \in DOMAIN plans : plans'[q] = IF q = call[g].plan THEN r ELSE plans[q]
           /\ call'[g].pc = v /\ call'[g].plan = call[g].plan
           /\ Alone(g)
           /\ v \notin Special /\ call[g].pc \notin Special /\ Aside => Plain
<1> DEFINE c == call[g]
           d == [c EXCEPT !.pc = v]
<1>1. c.plan \in DOMAIN plans /\ c \in Calls /\ Fits(c, task, plans)
  BY PlanAt, CallAt
<1>2. /\ PlansTyped(plans', task) /\ PlansGrow(plans, plans') /\ DOMAIN plans' = DOMAIN plans
      /\ \A q \in DOMAIN plans : plans'[q] = IF q = c.plan THEN r ELSE plans[q]
  BY <1>1, SetHead
<1>3. Becomes(g, d) /\ d \in Calls /\ d.pc = v /\ SameButPc(c, d)
  BY GotoMoves
<1> HIDE DEF d
<1>4. Fits(c, task, plans')
  BY <1>2, FitsInPlans
<1>5. Fits(d, task, plans')
  BY <1>3, <1>4 DEF MayGo
<1>6. Typed' /\ Grown /\ Unmixed
  BY <1>2, <1>3, <1>5, MovesPlans, Counted
<1>7. v \notin Special /\ c.pc \notin Special /\ Aside => Plain
  BY <1>3, <1>6, PlainMove
<1>8. call'[g] = d /\ Alone(g)
  BY <1>3, BecomesAlone
<1>9. call'[g].pc = v /\ call'[g].plan = c.plan
  BY <1>3, <1>8 DEF SameButPc
<1> QED BY <1>1, <1>2, <1>6, <1>7, <1>8, <1>9

LEMMA countErrorOK ==
    ASSUME Typed, NEW g \in Callers, countError(g)
    PROVE  /\ Typed' /\ Grown /\ Unmixed /\ UNCHANGED <<task, edges, queue, astray>>
           /\ call[g].pc = "countError"
           /\ DOMAIN plans' = DOMAIN plans /\ call[g].plan \in DOMAIN plans
           /\ \A q \in DOMAIN plans : /\ plans'[q].status = plans[q].status /\ plans'[q].items = plans[q].items
                                      /\ q # call[g].plan => plans'[q] = plans[q]
           /\ call'[g].pc = "readErrors" /\ call'[g].plan = call[g].plan
           /\ Alone(g)
<1> DEFINE c == call[g]
           r == [plans[c.plan] EXCEPT !.errors = @ + 1]
<1>1. c \in Calls /\ c.pc = "countError" /\ c.pc \in OnPlan
  BY CallAt DEF countError, At, OnPlan
<1>2. plans[c.plan] \in PlanRows /\ c.plan \in DOMAIN plans
  BY <1>1, PlanAt
<1>3. r \in PlanRows /\ r.task = plans[c.plan].task /\ r.items = plans[c.plan].items
      /\ r.status = plans[c.plan].status
  BY <1>2, PlanFields DEF PlanRows
<1>4. plans' = [plans EXCEPT ![c.plan] = r] /\ Goto(g, "readErrors")
      /\ UNCHANGED <<task, edges, queue, load, spent, astray>> /\ Step
  BY DEF countError
<1> HIDE DEF r
<1>5. MayGo(c, "readErrors")
  BY <1>1, GotoFits DEF MayGo
<1>6. "readErrors" \in Pcs
  BY DEF Pcs
<1>7. /\ Typed' /\ Grown /\ Unmixed
      /\ DOMAIN plans' = DOMAIN plans
      /\ \A q \in DOMAIN plans : plans'[q] = IF q = c.plan THEN r ELSE plans[q]
      /\ call'[g].pc = "readErrors" /\ call'[g].plan = c.plan
      /\ Alone(g)
  BY <1>1, <1>3, <1>4, <1>5, <1>6, HeadMoves
<1> QED BY <1>1, <1>2, <1>3, <1>4, <1>7

\* A step that gives a plan a status other than "pending".
LEMMA StatusMoves ==
    ASSUME Typed, NEW g \in Callers, call[g].pc \in OnPlan, NEW v \in Pcs, Goto(g, v),
           NEW s \in {"approved", "rejected", "failed"},
           plans' = [plans EXCEPT ![call[g].plan].status = s],
           UNCHANGED <<task, edges, queue, load, spent, astray>>, Step,
           v = "blockParent" \/ (call[g].pc = "rejectPlan" /\ v = "rejectItems")
    PROVE  /\ Typed' /\ Grown /\ Unmixed /\ Aside
           /\ DOMAIN plans' = DOMAIN plans /\ plans'[call[g].plan].status = s
           /\ \A q \in DOMAIN plans : plans'[q].items = plans[q].items
           /\ call'[g].pc = v /\ call'[g].plan = call[g].plan
           /\ Alone(g)
           /\ v \notin Special /\ call[g].pc \notin Special => Plain
<1> DEFINE c == call[g]
           r == [plans[c.plan] EXCEPT !.status = s]
<1>1. c \in Calls /\ c.pc \notin {"idle", "unload"}
  BY CallAt DEF OnPlan, Choosing, Making
<1>2. plans[c.plan] \in PlanRows /\ c.plan \in DOMAIN plans
  BY PlanAt
<1>3. r \in PlanRows /\ r.task = plans[c.plan].task /\ r.items = plans[c.plan].items
      /\ r.errors = plans[c.plan].errors /\ r.status = s
  BY <1>2, PlanFields DEF PlanRows
<1>4. plans' = [plans EXCEPT ![c.plan] = r]
  OBVIOUS
<1> HIDE DEF r
<1>5. MayGo(c, v)
  BY <1>1, GotoFits DEF MayGo
<1>6. /\ Typed' /\ Grown /\ Unmixed
      /\ DOMAIN plans' = DOMAIN plans
      /\ \A q \in DOMAIN plans : plans'[q] = IF q = c.plan THEN r ELSE plans[q]
      /\ call'[g].pc = v /\ call'[g].plan = c.plan
      /\ Alone(g)
      /\ v \notin Special /\ c.pc \notin Special /\ Aside => Plain
  <2>1. /\ Typed /\ g \in Callers /\ c.pc \in OnPlan /\ v \in Pcs /\ Goto(g, v)
        /\ UNCHANGED <<task, edges, queue, load, spent, astray>> /\ Step
    OBVIOUS
  <2> QED BY ONLY <2>1, <1>3, <1>4, <1>5, HeadMoves
<1>7. Aside
  BY <1>2, <1>3, <1>6 DEF Aside
<1> QED BY <1>2, <1>3, <1>6, <1>7

LEMMA failPlanOK ==
    ASSUME Typed, NEW g \in Callers, failPlan(g)
    PROVE  /\ Typed' /\ Grown /\ Unmixed /\ Aside
           /\ UNCHANGED <<task, edges>> /\ call[g].plan \in DOMAIN plans
           /\ \A p \in DOMAIN plans : plans'[p].items = plans[p].items
           /\ plans'[call[g].plan].status = "failed"
           /\ call[g].pc = "failPlan" /\ call'[g].pc = "blockParent"
           /\ Alone(g)
<1>1. call[g].pc \in OnPlan /\ "blockParent" \in Pcs
  BY DEF failPlan, At, OnPlan, Pcs
<1>2. call[g].plan \in DOMAIN plans
  BY <1>1, PlanAt
<1> QED BY <1>1, <1>2, StatusMoves DEF failPlan, At

LEMMA rejectPlanOK ==
    ASSUME Typed, NEW g \in Callers, rejectPlan(g)
    PROVE  Typed' /\ Grown /\ Plain
<1>1. call[g].pc \in OnPlan /\ "rejectItems" \in Pcs /\ call[g].pc = "rejectPlan"
      /\ call[g].pc \notin Special /\ "rejectItems" \notin Special
  BY DEF rejectPlan, At, OnPlan, Pcs, Special, Choosing, Making
<1> QED BY <1>1, StatusMoves DEF rejectPlan

LEMMA approvePlanOK ==
    ASSUME Typed, NEW g \in Callers, approvePlan(g)
    PROVE  /\ Typed' /\ Grown /\ Unmixed /\ Aside
           /\ UNCHANGED <<task, edges>> /\ call[g].plan \in DOMAIN plans
           /\ \A p \in DOMAIN plans : plans'[p].items = plans[p].items
           /\ plans'[call[g].plan].status = "approved"
           /\ call[g].pc = "approvePlan" /\ call'[g].pc = "blockParent"
           /\ Alone(g)
<1>1. call[g].pc \in OnPlan /\ "blockParent" \in Pcs
  BY DEF approvePlan, At, OnPlan, Choosing, Making, Pcs
<1>2. call[g].plan \in DOMAIN plans
  BY <1>1, PlanAt
<1> QED BY <1>1, <1>2, StatusMoves DEF approvePlan, At

LEMMA readErrorsOK ==
    ASSUME Typed, NEW g \in Callers, readErrors(g)
    PROVE  /\ Typed' /\ Grown /\ Unmixed /\ Aside /\ Alone(g) /\ UNCHANGED <<task, edges, plans>>
           /\ call[g].pc = "readErrors" /\ call'[g].pc \in {"failPlan", "insertItem"}
           /\ call'[g].plan = call[g].plan
           /\ plans[call[g].plan].errors >= 3 => call'[g].pc = "failPlan"
<1> DEFINE c == call[g]
           v == IF plans[c.plan].errors >= 3 THEN "failPlan" ELSE "insertItem"
           d == [c EXCEPT !.pc = v]
<1>1. c \in Calls /\ Fits(c, task, plans) /\ c.pc = "readErrors"
  BY CallAt DEF readErrors, At
<1>2. v \in Pcs /\ v \in {"failPlan", "insertItem"} /\ Goto(g, v)
      /\ (plans[c.plan].errors >= 3 => v = "failPlan")
  BY DEF Pcs, readErrors
<1> HIDE DEF v
<1>3. Becomes(g, d) /\ d \in Calls /\ d.pc = v /\ SameButPc(c, d)
  BY <1>2, GotoMoves
<1> HIDE DEF d
<1>4. Fits(d, task, plans)
  BY <1>1, <1>2, <1>3, GotoFits
<1>5. call'[g] = d /\ Alone(g)
  BY <1>3, BecomesAlone
<1>6. Typed' /\ Grown /\ Unmixed /\ Aside
  BY <1>3, <1>4, MovesOnly, Counted DEF readErrors
<1> QED BY <1>1, <1>2, <1>3, <1>5, <1>6 DEF SameButPc, readErrors, tables

\* A task is written, and stays the sub-task it is.
TaskSet == TasksTyped(task') /\ TasksGrow(task, task') /\ DOMAIN task' = DOMAIN task

LEMMA RowAt ==
    ASSUME Typed, NEW t \in Rows
    PROVE  /\ task[t] \in TaskRows /\ task[t].gate.sub \in {0} \cup DOMAIN task
           /\ task[t].depth \in Nat /\ task[t].inWorkflow \in BOOLEAN /\ t \in Nat /\ t # 0
<1>1. task[t] \in TaskRows /\ task[t].gate.sub \in {0} \cup DOMAIN task
  BY ElementOfSeq, LenProperties DEF Typed, TasksTyped, Rows
<1>2. task[t].depth \in Nat /\ task[t].inWorkflow \in BOOLEAN
  BY <1>1 DEF TaskRows
<1>3. t \in Nat /\ t # 0
  BY NoRowZero DEF Typed, Rows
<1> QED BY <1>1, <1>2, <1>3

LEMMA TaskSame ==
    ASSUME Typed, UNCHANGED task PROVE TaskSet
BY GrowsSame DEF TaskSet, Typed

LEMMA RowSet ==
    ASSUME Typed, NEW t \in Rows, NEW r \in TaskRows,
           r.parent = task[t].parent, r.plan = task[t].plan, r.title = task[t].title,
           r.by = task[t].by, task[t].inWorkflow => r.inWorkflow,
           r.gate.sub \in {0} \cup DOMAIN task, task' = [task EXCEPT ![t] = r]
    PROVE  TaskSet
BY SetTask DEF TaskSet, Typed, Rows

LEMMA StatusSet ==
    ASSUME Typed, NEW t \in Rows, NEW s \in Statuses \ {"completed"},
           task' = [task EXCEPT ![t].status = s]
    PROVE  TaskSet
<1> DEFINE r == [task[t] EXCEPT !.status = s]
<1>1. r \in TaskRows
  BY RowAt, TaskFields
<1>2. /\ r.parent = task[t].parent /\ r.plan = task[t].plan /\ r.title = task[t].title
      /\ r.by = task[t].by /\ r.inWorkflow = task[t].inWorkflow /\ r.gate = task[t].gate
  BY RowAt DEF TaskRows
<1>3. Typed /\ t \in Rows /\ task' = [task EXCEPT ![t] = r]
  OBVIOUS
<1> HIDE DEF r
<1> QED BY ONLY <1>1, <1>2, <1>3, RowAt, RowSet

LEMMA Marked ==
    ASSUME Typed, NEW t \in Rows
    PROVE  /\ \A s \in Statuses \ {"completed"} : task' = Mark(t, s) => TaskSet
           /\ task' = SetTaskBlocked(t) => TaskSet
<1>1. "blocked" \in Statuses \ {"completed"}
  BY DEF Statuses
<1> QED BY <1>1, StatusSet, TaskSame DEF Mark, SetTaskBlocked

\* The step of a call that writes a task, and is Plain.
LEMMA TaskMoves ==
    ASSUME Typed, NEW g \in Callers, NEW d \in Calls, Becomes(g, d), Fits(d, task', plans), TaskSet,
           UNCHANGED <<edges, plans, queue, load, spent, astray>>,
           calls' \in 0..MaxCalls, faults' \in 0..MaxFaults
    PROVE  Typed' /\ Grown /\ Aside /\ Unmixed
           /\ (call[g].pc \notin Special /\ d.pc \notin Special => Plain)
<1>1. Typed' /\ Grown /\ Aside /\ Unmixed
  BY MovesTask DEF TaskSet
<1> QED BY <1>1, PlainMove

LEMMA MarkReturns ==
    ASSUME Typed, NEW g \in Callers, call[g].pc \notin Special, TaskSet, Return(g),
           UNCHANGED <<edges, plans, queue, load, spent, astray>>, Step
    PROVE  Typed' /\ Grown /\ Plain
BY ReturnFits, TaskMoves, Counted

LEMMA OnTask ==
    ASSUME Typed, NEW g \in Callers, call[g].pc \notin {"idle", "unload"}
    PROVE  call[g].task \in Rows
BY CallAt DEF Fits, References, Rows

LEMMA blockParentOK ==
    ASSUME Typed, NEW g \in Callers, blockParent(g) PROVE Typed' /\ Grown /\ Plain
<1>1. call[g].pc = "blockParent" /\ call[g].pc \notin Special /\ "blocked" \in Statuses \ {"completed"}
  BY DEF blockParent, At, Special, Choosing, Making, Statuses
<1>2. TaskSet
  BY <1>1, OnTask, Marked DEF blockParent
<1> QED BY <1>1, <1>2, MarkReturns DEF blockParent

LEMMA reviewParentOK ==
    ASSUME Typed, NEW g \in Callers, reviewParent(g) PROVE Typed' /\ Grown /\ Plain
<1>1. call[g].pc = "review" /\ call[g].pc \notin Special /\ "review" \in Statuses \ {"completed"}
  BY DEF reviewParent, At, Special, Choosing, Making, Statuses
<1>2. TaskSet
  BY <1>1, OnTask, Marked DEF reviewParent
<1> QED BY <1>1, <1>2, MarkReturns DEF reviewParent

LEMMA continueParentOK ==
    ASSUME Typed, NEW g \in Callers, continueParent(g) PROVE Typed' /\ Grown /\ Plain
<1>1. call[g].pc = "continue" /\ call[g].pc \notin Special /\ "in_progress" \in Statuses \ {"completed"}
  BY DEF continueParent, At, Special, Choosing, Making, Statuses
<1>2. TaskSet
  BY <1>1, OnTask, Marked DEF continueParent
<1> QED BY <1>1, <1>2, MarkReturns DEF continueParent

LEMMA blockAttachedOK ==
    ASSUME Typed, NEW g \in Callers, blockAttached(g) PROVE Typed' /\ Grown /\ Plain
<1>1. call[g].pc = "blockAttached" /\ call[g].pc \notin Special
  BY DEF blockAttached, At, Special, Choosing, Making
<1>2. TaskSet
  BY <1>1, OnTask, Marked DEF blockAttached
<1> QED BY <1>1, <1>2, MarkReturns DEF blockAttached

LEMMA holdTaskOK ==
    ASSUME Typed, NEW g \in Callers, holdTask(g) PROVE Typed' /\ Grown /\ Plain
<1> DEFINE c == call[g]
           d == [c EXCEPT !.pc = "gate"]
<1>1. c \in Calls /\ c.pc = "hold" /\ c.pc \notin Special /\ c.sub \in {0} \cup DOMAIN task
  BY CallAt DEF holdTask, At, Special, Choosing, Making, Fits, References
<1>2. Becomes(g, d) /\ d \in Calls /\ d.pc = "gate" /\ SameButPc(c, d) /\ "gate" \notin Special
  BY GotoMoves DEF holdTask, Pcs, Special, Choosing, Making
<1> HIDE DEF d
<1>3. TaskSet
  <2>1. c.sub # 0
    BY <1>1, CallAt DEF Fits, References
  <2> QED BY <1>1, <2>1, Marked DEF holdTask, Rows
<1>4. Fits(c, task', plans)
  BY <1>3, FitsInTasks DEF TaskSet
<1>5. Fits(d, task', plans)
  BY <1>1, <1>2, <1>4, GotoFits
<1> QED BY <1>1, <1>2, <1>3, <1>5, TaskMoves, Counted DEF holdTask

LEMMA insertTaskOK ==
    ASSUME Typed, NEW g \in Callers, insertTask(g) PROVE Typed' /\ Grown /\ Plain
<1> DEFINE c == call[g]
           n == Len(task) + 1
           r == [NewTask(c.task, c.to, c.depth + 1, 0, NoTitle, c.by) EXCEPT !.inWorkflow = task[c.task].inWorkflow]
           v == IF c.todo = {} THEN "gate" ELSE "link"
           d == [c EXCEPT !.pc = v, !.sub = n]
<1>1. c \in Calls /\ Fits(c, task, plans) /\ c.pc = "insertTask" /\ c.pc \notin Special /\ c.task \in Rows
      /\ c.task \in Nat
  BY CallAt, OnTask DEF insertTask, At, Special, Choosing, Making
<1>2. r \in TaskRows /\ r.parent = c.task /\ r.gate.sub = 0 /\ r.plan = 0
  <2>1. NewTask(c.task, c.to, c.depth + 1, 0, NoTitle, c.by) \in TaskRows
    BY <1>1 DEF NewTask, NoGate, TaskRows, Calls, Statuses
  <2>2. task[c.task].inWorkflow \in BOOLEAN
    BY <1>1, RowAt
  <2>3. r \in TaskRows
    BY <2>1, <2>2 DEF TaskRows
  <2>4. r.parent = c.task /\ r.gate.sub = 0 /\ r.plan = 0
    BY DEF NewTask, NoGate
  <2> QED BY <2>3, <2>4
<1>3. task' = Append(task, r) /\ Becomes(g, d) /\ UNCHANGED <<edges, plans, queue, load, spent, astray>> /\ Step
  BY DEF insertTask, Becomes
<1> HIDE DEF r
<1>4. /\ TasksTyped(task') /\ TasksGrow(task, task') /\ DOMAIN task' = DOMAIN task \cup {n}
      /\ n \in Nat \ {0} /\ n \notin DOMAIN task /\ task'[n] = r
  BY <1>1, <1>2, <1>3, AddTask DEF Rows, Typed
<1>5. v \in {"gate", "link"} /\ v \in Pcs /\ v \notin Special /\ (v = "gate" => c.todo = {})
  BY DEF Pcs, Special, Choosing, Making
<1> HIDE DEF v, n
<1>6. d \in Calls
  BY <1>1, <1>4, <1>5, CallFields
<1>7. /\ d.pc = v /\ d.plan = c.plan /\ d.todo = c.todo /\ d.task = c.task /\ d.sub = n
      /\ d.made = c.made /\ d.items = c.items /\ d.title = c.title /\ Made(d) = Made(c)
  BY <1>1 DEF Calls, Made
<1>8. Fits(c, task', plans)
  BY <1>4, FitsInTasks
<1>9. Fits(d, task', plans)
  <2> HIDE DEF d, c
  <2>1. References(d, task', plans) /\ AgentNamed(d) /\ TasksNamed(d, task')
    BY <1>1, <1>2, <1>4, <1>5, <1>7, <1>8
       DEF Fits, References, AgentNamed, TasksNamed, OnPlan, Choosing, Making
  <2>2. TitlesNamed(d)
    BY <1>1, <1>5, <1>7 DEF Fits, TitlesNamed, Making, Early
  <2> QED BY <2>1, <2>2 DEF Fits
<1> HIDE DEF d
<1>10. Typed' /\ Grown /\ Aside /\ Unmixed
  <2>1. \A t \in DOMAIN task' \ DOMAIN task : task'[t].plan = 0
    BY <1>2, <1>4
  <2> QED BY <2>1, <1>3, <1>4, <1>6, <1>9, MovesTask, Counted
<1> QED BY <1>1, <1>3, <1>5, <1>7, <1>10, PlainMove

LEMMA linkTaskOK ==
    ASSUME Typed, NEW g \in Callers, linkTask(g) PROVE Typed' /\ Grown /\ Plain
<1> DEFINE c == call[g]
<1>1. c \in Calls /\ Fits(c, task, plans) /\ c.pc = "link" /\ c.pc \notin Special
  BY CallAt DEF linkTask, At, Special, Choosing, Making
<1>2. /\ c.sub \in Rows /\ c.todo \subseteq Rows /\ task[c.sub].plan = 0
  BY <1>1 DEF Fits, References, TasksNamed, Rows
<1>3. PICK u \in c.todo :
        /\ edges' = CreateDependency(c.sub, u)
        /\ call' = [call EXCEPT ![g].todo = @ \ {u}, ![g].pc = IF c.todo = {u} THEN "hold" ELSE @]
  BY DEF linkTask
<1> DEFINE v == IF c.todo = {u} THEN "hold" ELSE "link"
           d == [c EXCEPT !.pc = v, !.todo = c.todo \ {u}]
<1>4. Becomes(g, d)
  BY <1>1, <1>3 DEF Becomes
<1>5. v \in {"hold", "link"} /\ v \in Pcs /\ v \notin Special
  BY DEF Pcs, Special, Choosing, Making
<1> HIDE DEF v
<1>6. d \in Calls
  <2>1. c.todo \ {u} \in SUBSET (Titles \cup Nat)
    BY <1>1 DEF Calls
  <2> QED BY <1>1, <1>5, <2>1, CallFields
<1>7. /\ d.pc = v /\ d.plan = c.plan /\ d.todo = c.todo \ {u} /\ d.task = c.task /\ d.sub = c.sub
      /\ d.made = c.made /\ d.items = c.items /\ d.title = c.title /\ Made(d) = Made(c)
  BY <1>1 DEF Calls, Made
<1>8. edges' \subseteq Rows \X Rows /\ \A e \in edges' \ edges : e[1] = c.sub
  BY <1>2, <1>3 DEF CreateDependency, Typed, OthersTyped
<1>9. Unmixed
  BY <1>2, <1>8 DEF Unmixed, Apart
<1> HIDE DEF d, c
<1>10. Fits(d, task, plans)
  <2>1. References(d, task, plans) /\ AgentNamed(d) /\ TasksNamed(d, task)
    BY <1>1, <1>2, <1>5, <1>7
       DEF Fits, References, AgentNamed, TasksNamed, OnPlan, Choosing, Making, Rows
  <2>2. TitlesNamed(d)
    BY <1>1, <1>5, <1>7 DEF Fits, TitlesNamed, Making, Early
  <2> QED BY <2>1, <2>2 DEF Fits
<1>11. Typed' /\ Grown /\ Aside
  BY <1>4, <1>6, <1>8, <1>10, MovesEdges DEF linkTask
<1> QED BY <1>1, <1>4, <1>5, <1>7, <1>9, <1>11, PlainMove DEF c

LEMMA gateSubTaskOK ==
    ASSUME Typed, NEW g \in Callers, gateSubTask(g) PROVE Typed' /\ Grown /\ Plain
<1> DEFINE c == call[g]
<1>1. c \in Calls /\ Fits(c, task, plans) /\ c.pc = "gate" /\ c.pc \notin Special /\ c.task \in Rows
      /\ c.sub \in DOMAIN task /\ c.sub \in Nat
  BY CallAt, OnTask DEF gateSubTask, At, Special, Choosing, Making, Fits, References
<1>2. UNCHANGED <<edges, plans, queue, load, spent, astray>> /\ Step
  BY DEF gateSubTask
<1>3. CASE Return(g) /\ UNCHANGED task
  BY <1>1, <1>2, <1>3, TaskSame, MarkReturns
<1>4. CASE /\ c.to # NoAgent
           /\ task' = [task EXCEPT ![c.task].gate = [sub |-> c.sub, agent |-> c.to]]
           /\ Goto(g, "review")
  <2> DEFINE d == [c EXCEPT !.pc = "review"]
             r == [task[c.task] EXCEPT !.gate = [sub |-> c.sub, agent |-> c.to]]
  <2>1. Becomes(g, d) /\ d \in Calls /\ d.pc = "review" /\ SameButPc(c, d) /\ "review" \notin Special
    BY <1>4, GotoMoves DEF Pcs, Special, Choosing, Making
  <2> HIDE DEF d
  <2>2. TaskSet
    <3>1. c.to \in Agents \cup {NoAgent}
      BY <1>1 DEF Calls
    <3>2. r \in TaskRows
      BY <1>1, <3>1, RowAt, TaskFields
    <3>3. /\ r.parent = task[c.task].parent /\ r.plan = task[c.task].plan /\ r.title = task[c.task].title
          /\ r.by = task[c.task].by /\ r.inWorkflow = task[c.task].inWorkflow /\ r.gate.sub = c.sub
      BY <1>1, RowAt DEF TaskRows
    <3>4. Typed /\ c.task \in Rows /\ task' = [task EXCEPT ![c.task] = r]
      BY <1>1, <1>4
    <3> HIDE DEF r
    <3> QED BY ONLY <1>1, <3>2, <3>3, <3>4, RowSet
  <2>3. Fits(d, task', plans)
    BY <1>1, <2>1, <2>2, FitsInTasks, GotoFits DEF TaskSet
  <2> QED BY <1>1, <1>2, <2>1, <2>2, <2>3, TaskMoves, Counted
<1> QED BY <1>3, <1>4 DEF gateSubTask

LEMMA assignAgentOK ==
    ASSUME Typed, NEW g \in Callers, assignAgent(g) PROVE Typed' /\ Grown /\ Plain
<1> DEFINE c == call[g]
           d == [c EXCEPT !.pc = "gateAssign"]
           r == [task[c.task] EXCEPT !.agent = c.to, !.status = "review"]
<1>1. c \in Calls /\ Fits(c, task, plans) /\ c.pc = "assign" /\ c.pc \notin Special /\ c.task \in Rows
      /\ c.to \in Agents
  BY CallAt, OnTask DEF assignAgent, At, Special, Choosing, Making, Fits, AgentNamed
<1>2. Becomes(g, d) /\ d \in Calls /\ d.pc = "gateAssign" /\ SameButPc(c, d) /\ "gateAssign" \notin Special
  BY GotoMoves DEF Pcs, Special, Choosing, Making, assignAgent
<1> HIDE DEF d
<1>3. TaskSet
  <2>1. r \in TaskRows
    <3>1. "review" \in Statuses \ {"completed"}
      BY DEF Statuses
    <3> QED BY <1>1, <3>1, RowAt, TaskFields
  <2>2. /\ r.parent = task[c.task].parent /\ r.plan = task[c.task].plan /\ r.title = task[c.task].title
        /\ r.by = task[c.task].by /\ r.inWorkflow = task[c.task].inWorkflow /\ r.gate = task[c.task].gate
    BY <1>1, RowAt DEF TaskRows
  <2>3. Typed /\ c.task \in Rows /\ task' = [task EXCEPT ![c.task] = r]
    BY <1>1 DEF assignAgent
  <2>4. task[c.task].gate.sub \in {0} \cup DOMAIN task
    BY <1>1, RowAt
  <2> HIDE DEF r
  <2> QED BY ONLY <2>1, <2>2, <2>3, <2>4, RowSet
<1>4. Fits(d, task', plans)
  BY <1>1, <1>2, <1>3, FitsInTasks, GotoFits DEF TaskSet
<1> QED BY <1>1, <1>2, <1>3, <1>4, TaskMoves, Counted DEF assignAgent

LEMMA gateAssignOK ==
    ASSUME Typed, NEW g \in Callers, gateAssign(g) PROVE Typed' /\ Grown /\ Plain
<1> DEFINE c == call[g]
           r == [task[c.task] EXCEPT !.gate = [sub |-> 0, agent |-> c.to]]
<1>1. c \in Calls /\ c.pc = "gateAssign" /\ c.pc \notin Special /\ c.task \in Rows /\ c.to \in Agents
  BY CallAt, OnTask DEF gateAssign, At, Special, Choosing, Making, Fits, AgentNamed
<1>2. TaskSet
  <2>1. r \in TaskRows
    BY <1>1, RowAt, TaskFields
  <2>2. /\ r.parent = task[c.task].parent /\ r.plan = task[c.task].plan /\ r.title = task[c.task].title
        /\ r.by = task[c.task].by /\ r.inWorkflow = task[c.task].inWorkflow /\ r.gate.sub = 0
    BY <1>1, RowAt DEF TaskRows
  <2>3. Typed /\ c.task \in Rows /\ task' = [task EXCEPT ![c.task] = r]
    BY <1>1 DEF gateAssign
  <2> HIDE DEF r
  <2> QED BY ONLY <2>1, <2>2, <2>3, RowSet
<1> QED BY <1>1, <1>2, MarkReturns DEF gateAssign

\* A step of nobody's call.
LEMMA NobodyMoves ==
    ASSUME Typed, TaskSet, UNCHANGED <<edges, plans, queue, load, call, faults, astray>>, Request,
           spent' \in BOOLEAN
    PROVE  Typed' /\ Grown /\ Plain
<1>1. Grown
  BY GrowsSame DEF Grown, TaskSet, Typed, PlansTyped
<1>2. Plain
  BY DEF Plain, Aside, Unmixed, TaskSet
<1>3. CallsTyped' /\ PlansTyped(plans', task')
  BY <1>1, CallsStay, PlansOfMore DEF Typed, TaskSet
<1>4. OthersTyped'
  BY Counted DEF Typed, OthersTyped, TaskSet, Rows
<1> QED BY <1>1, <1>2, <1>3, <1>4 DEF Typed, TaskSet

LEMMA assignUserOK ==
    ASSUME Typed, NEW a \in Agents, NEW t \in Rows, assignUser(a, t) PROVE Typed' /\ Grown /\ Plain
<1> DEFINE r == [task[t] EXCEPT !.agent = NoAgent]
<1>1. TaskSet
  <2>1. r \in TaskRows
    BY RowAt, TaskFields
  <2>2. /\ r.parent = task[t].parent /\ r.plan = task[t].plan /\ r.title = task[t].title
        /\ r.by = task[t].by /\ r.inWorkflow = task[t].inWorkflow /\ r.gate = task[t].gate
    BY RowAt DEF TaskRows
  <2>3. Typed /\ t \in Rows /\ task' = [task EXCEPT ![t] = r] /\ task[t].gate.sub \in {0} \cup DOMAIN task
    BY RowAt DEF assignUser
  <2> HIDE DEF r
  <2> QED BY ONLY <2>1, <2>2, <2>3, RowSet
<1> QED BY <1>1, NobodyMoves DEF assignUser, Typed, OthersTyped

LEMMA BoardOK ==
    ASSUME Typed, NEW t \in Rows, Board(t) PROVE Typed' /\ Grown /\ Plain
<1>1. PICK to \in Statuses : StatusMove(task[t].status, to) /\ task' = [task EXCEPT ![t].status = to]
  BY DEF Board
<1>2. to \in Statuses \ {"completed"}
  BY <1>1 DEF StatusMove
<1>3. TaskSet
  BY <1>1, <1>2, StatusSet
<1> QED BY <1>3, NobodyMoves DEF Board, Typed, OthersTyped

LEMMA ReportTokenUsageOK ==
    ASSUME Typed, NEW t \in Rows, ReportTokenUsage(t) PROVE Typed' /\ Grown /\ Plain
BY TaskSame, NobodyMoves DEF ReportTokenUsage

LEMMA updateStatusOK ==
    ASSUME Typed, NEW g \in Callers, NEW a \in Agents, NEW t \in Rows,
           NEW status \in Statuses \ {"stuck"}, updateStatus(g, a, t, status)
    PROVE  Typed' /\ Grown /\ Plain
<1> DEFINE asked == IF status = "done" THEN "completed" ELSE status
           ends == asked \in {"completed", "blocked", "review"}
           d == IF ends THEN [Idle EXCEPT !.pc = "unload", !.agent = a] ELSE Idle
<1>1. Run(g, d) /\ UNCHANGED <<edges, plans, queue, load, spent, faults, astray>>
  BY DEF updateStatus
<1>2. PICK to \in IF asked = "completed" THEN {"done", "review"} ELSE {asked} :
         task' = [task EXCEPT ![t].status = to]
  BY DEF updateStatus
<1>3. to \in Statuses \ {"completed"}
  BY DEF Statuses
<1>4. TaskSet
  BY <1>2, <1>3, StatusSet
<1>5. d \in Calls /\ d.pc \in {"idle", "unload"} /\ (\A tasks, ps : Fits(d, tasks, ps))
  <2>1. CASE ~ends
    BY <2>1, IdleFits, IdleCall
  <2>2. CASE ends
    <3> DEFINE e == [Idle EXCEPT !.pc = "unload", !.agent = a]
    <3>1. e \in Calls
      BY IdleFits DEF Calls, Pcs
    <3>2. /\ e.pc = "unload" /\ e.agent = a /\ e.task = 0 /\ e.plan = 0 /\ e.sub = 0
          /\ e.made = [x \in Titles |-> 0]
      BY DEF Idle
    <3>3. d = e
      BY <2>2
    <3> HIDE DEF e, d
    <3>4. \A tasks, ps : Fits(e, tasks, ps)
      BY <3>2 DEF Fits, References, AgentNamed, TitlesNamed, TasksNamed, OnPlan, Choosing, Making, Early
    <3> QED BY <3>1, <3>2, <3>3, <3>4
  <2> QED BY <2>1, <2>2
<1> HIDE DEF d
<1>6. Becomes(g, d) /\ call[g].pc = "idle" /\ calls' \in 0..MaxCalls
  BY <1>1, RunMoves
<1>7. call[g].pc \notin Special /\ d.pc \notin Special
  BY <1>5, <1>6 DEF Special, Choosing, Making
<1> QED BY <1>1, <1>4, <1>5, <1>6, <1>7, TaskMoves, Counted

LEMMA unloadAgentOK ==
    ASSUME Typed, NEW g \in Callers, unloadAgent(g) PROVE Typed' /\ Grown /\ Plain
<1>1. call[g].pc = "unload" /\ call[g].pc \notin Special /\ call[g].agent \in Agents
  BY CallAt DEF unloadAgent, At, Special, Choosing, Making, Fits, AgentNamed
<1>2. Becomes(g, Idle) /\ Idle \in Calls /\ Idle.pc \notin Special /\ Fits(Idle, task', plans')
  BY ReturnFits DEF unloadAgent
<1>3. UNCHANGED <<task, edges, plans, queue, spent, astray>> /\ Step
  BY DEF unloadAgent
<1>4. Grown /\ Aside /\ Unmixed
  BY <1>3, GrowsSame, AsideSame DEF Grown, Unmixed, Typed, PlansTyped
<1>5. load' \in [Agents -> Nat]
  BY <1>1 DEF unloadAgent, Typed, OthersTyped
<1>6. OthersTyped'
  BY <1>3, <1>5, Counted DEF Typed, OthersTyped, Rows
<1>7. CallsTyped'
  BY <1>2, <1>4, CallsMove
<1> QED BY <1>1, <1>2, <1>3, <1>4, <1>6, <1>7, PlainMove DEF Typed

LEMMA attachTaskOK ==
    ASSUME Typed, NEW g \in Callers, attachTask(g) PROVE Typed' /\ Grown /\ Plain
<1> DEFINE c == call[g]
           r == [task[c.task] EXCEPT !.inWorkflow = TRUE, !.depth = c.depth]
<1>1. c \in Calls /\ c.pc = "attach" /\ c.pc \notin Special /\ c.task \in Rows
  BY CallAt, OnTask DEF attachTask, At, Special, Choosing, Making
<1>2. TaskSet /\ task'[c.task].inWorkflow
  <2>1. r \in TaskRows
    BY <1>1, RowAt, TaskFields DEF Calls
  <2>2. /\ r.parent = task[c.task].parent /\ r.plan = task[c.task].plan /\ r.title = task[c.task].title
        /\ r.by = task[c.task].by /\ r.inWorkflow /\ r.gate = task[c.task].gate
    BY <1>1, RowAt DEF TaskRows
  <2>3. Typed /\ c.task \in Rows /\ task' = [task EXCEPT ![c.task] = r]
        /\ task[c.task].gate.sub \in {0} \cup DOMAIN task
    BY <1>1, RowAt DEF attachTask
  <2> HIDE DEF r
  <2>4. TaskSet
    BY ONLY <2>1, <2>2, <2>3, RowSet
  <2>5. task'[c.task] = r
    BY ONLY <2>1, <2>3, SetRow DEF Typed, TasksTyped, Rows
  <2> QED BY <2>2, <2>4, <2>5
<1>3. CASE Return(g)
  BY <1>1, <1>2, <1>3, MarkReturns DEF attachTask
<1>4. CASE Goto(g, "checkCycle")
  <2> DEFINE d == [c EXCEPT !.pc = "checkCycle"]
  <2>1. Becomes(g, d) /\ d \in Calls /\ d.pc = "checkCycle" /\ SameButPc(c, d) /\ "checkCycle" \notin Special
    BY <1>4, GotoMoves DEF Pcs, Special, Choosing, Making
  <2> HIDE DEF d
  <2>2. Fits(d, task', plans)
    BY <1>1, <1>2, <2>1, FitsInTasks, GotoFits DEF TaskSet
  <2> QED BY <1>1, <1>2, <2>1, <2>2, TaskMoves, Counted DEF attachTask
<1> QED BY <1>3, <1>4 DEF attachTask

LEMMA checkCycleOK ==
    ASSUME Typed, NEW g \in Callers, checkCycle(g) PROVE Typed' /\ Grown /\ Plain
<1> DEFINE c == call[g]
<1>1. c \in Calls /\ Fits(c, task, plans) /\ c.pc = "checkCycle" /\ c.pc \notin Special
      /\ c.todo \subseteq DOMAIN task
  BY CallAt DEF checkCycle, At, Special, Choosing, Making, Fits, TasksNamed
<1>2. UNCHANGED <<tables, astray>> /\ Step /\ UNCHANGED task
  BY DEF checkCycle, tables
<1>3. CASE Return(g)
  BY <1>1, <1>2, <1>3, TaskSame, MarkReturns DEF tables
<1>4. ASSUME NEW u \in c.todo, call' = [call EXCEPT ![g].pc = "attachEdge", ![g].sub = u]
      PROVE  Typed' /\ Grown /\ Plain
  <2> DEFINE d == [c EXCEPT !.pc = "attachEdge", !.sub = u]
  <2>1. Becomes(g, d) /\ u \in DOMAIN task /\ u \in Nat /\ u # 0
    BY <1>1, <1>4, CallAt DEF Becomes
  <2>2. d \in Calls /\ d.pc \notin Special
    BY <1>1, <2>1 DEF Calls, Pcs, Special, Choosing, Making
  <2>3. /\ d.pc = "attachEdge" /\ d.plan = c.plan /\ d.todo = c.todo /\ d.task = c.task /\ d.sub = u
        /\ d.made = c.made /\ d.items = c.items /\ d.title = c.title /\ Made(d) = Made(c)
    BY <1>1 DEF Calls, Made
  <2> HIDE DEF d, c
  <2>4. Fits(d, task, plans)
    <3>1. References(d, task, plans) /\ AgentNamed(d) /\ TasksNamed(d, task)
      BY <1>1, <2>1, <2>3 DEF Fits, References, AgentNamed, TasksNamed, OnPlan, Choosing, Making
    <3>2. TitlesNamed(d)
      BY <1>1, <2>3 DEF Fits, TitlesNamed, Making, Early
    <3> QED BY <3>1, <3>2 DEF Fits
  <2> QED BY <1>1, <1>2, <2>1, <2>2, <2>4, MovesOnly, PlainMove, Counted DEF c
<1> QED BY <1>3, <1>4 DEF checkCycle

LEMMA attachEdgeOK ==
    ASSUME Typed, NEW g \in Callers, attachEdge(g) PROVE Typed' /\ Grown /\ Plain
<1> DEFINE c == call[g]
           v == IF c.todo = {c.sub} THEN "blockAttached" ELSE "checkCycle"
           d == [c EXCEPT !.pc = v, !.todo = c.todo \ {c.sub}]
<1>1. c \in Calls /\ Fits(c, task, plans) /\ c.pc = "attachEdge" /\ c.pc \notin Special
  BY CallAt DEF attachEdge, At, Special, Choosing, Making
<1>2. c.task \in Rows /\ c.sub \in Rows /\ task[c.task].inWorkflow
  BY <1>1 DEF Fits, References, TasksNamed, Rows
<1>3. Becomes(g, d)
  BY <1>1 DEF Becomes, attachEdge
<1>4. v \in {"blockAttached", "checkCycle"} /\ v \in Pcs /\ v \notin Special
  BY DEF Pcs, Special, Choosing, Making
<1> HIDE DEF v
<1>5. d \in Calls
  <2>1. c.todo \ {c.sub} \in SUBSET (Titles \cup Nat)
    BY <1>1 DEF Calls
  <2> QED BY <1>1, <1>4, <2>1, CallFields
<1>6. /\ d.pc = v /\ d.plan = c.plan /\ d.todo = c.todo \ {c.sub} /\ d.task = c.task /\ d.sub = c.sub
      /\ d.made = c.made /\ d.items = c.items /\ d.title = c.title /\ Made(d) = Made(c)
  BY <1>1 DEF Calls, Made
<1>7. edges' \subseteq Rows \X Rows /\ \A e \in edges' \ edges : e[1] = c.task
  BY <1>2 DEF CreateDependency, Typed, OthersTyped, attachEdge
<1>8. Unmixed
  BY <1>2, <1>7 DEF Unmixed, Apart
<1> HIDE DEF d, c
<1>9. Fits(d, task, plans)
  <2>1. References(d, task, plans) /\ AgentNamed(d) /\ TasksNamed(d, task)
    BY <1>1, <1>2, <1>4, <1>6
       DEF Fits, References, AgentNamed, TasksNamed, OnPlan, Choosing, Making, Rows
  <2>2. TitlesNamed(d)
    BY <1>1, <1>4, <1>6 DEF Fits, TitlesNamed, Making, Early
  <2> QED BY <2>1, <2>2 DEF Fits
<1>10. Typed' /\ Grown /\ Aside
  BY <1>3, <1>5, <1>7, <1>9, MovesEdges DEF attachEdge
<1> QED BY <1>1, <1>3, <1>4, <1>6, <1>8, <1>10, PlainMove DEF c

-----------------------------------------------------------------------------
(* The steps of an approval, and what the safety properties need of each.  *)

LEMMA ApprovePlanOK ==
    ASSUME Typed, NEW g \in Callers, NEW t \in Rows, NEW sel \in {{}} \cup {{x} : x \in Titles},
           ApprovePlan(g, t, sel)
    PROVE  /\ Typed' /\ Grown /\ Unmixed /\ Alone(g)
           /\ UNCHANGED <<task, edges, plans, queue>>
           /\ call[g].pc = "idle" /\ call'[g].pc = "readItems"
           /\ call'[g].plan \in DOMAIN plans /\ plans[call'[g].plan].status = "pending"
           /\ astray \subseteq astray'
           /\ (\E h \in Callers : Approving(h) /\ call[h].plan = call'[g].plan)
                => call'[g].plan \in astray'
<1>1. PICK p \in Pending(t) :
        /\ Run(g, [Idle EXCEPT !.pc = "readItems", !.task = t, !.plan = p, !.todo = sel, !.by = calls + 1])
        /\ astray' = IF \E h \in Callers : Approving(h) /\ call[h].plan = p THEN astray \cup {p} ELSE astray
  BY DEF ApprovePlan
<1> DEFINE d == [Idle EXCEPT !.pc = "readItems", !.task = t, !.plan = p, !.todo = sel, !.by = calls + 1]
<1>2. t \in Nat /\ p \in Nat /\ p # 0 /\ p \in DOMAIN plans /\ plans[p].status = "pending"
      /\ calls + 1 \in Nat
  BY NoRowZero, Counted, ToolsAssumption DEF Rows, Typed, Pending
<1>3. sel \subseteq Titles
  OBVIOUS
<1>4. d \in Calls
  BY <1>2, <1>3, IdleFits DEF Calls, Pcs
<1>5. /\ d.pc = "readItems" /\ d.task = t /\ d.plan = p
      /\ d.sub = 0 /\ d.made = [x \in Titles |-> 0]
  BY DEF Idle
<1>6. Run(g, d) /\ UNCHANGED <<tables, faults>>
  BY <1>1 DEF ApprovePlan
<1> HIDE DEF d
<1>7. Fits(d, task, plans)
  BY <1>2, <1>4, <1>5, BeginFits
<1>8. Becomes(g, d) /\ call[g].pc = "idle" /\ calls' \in 0..MaxCalls
  BY <1>6, RunMoves
<1>9. Grown /\ Unmixed
  BY <1>6, GrowsSame DEF tables, Grown, Unmixed, Typed, PlansTyped
<1>10. CallsTyped'
  BY <1>4, <1>6, <1>7, <1>8, <1>9, CallsMove DEF tables
<1>11. OthersTyped'
  <2>1. p \in 0..Len(plans)
    BY <1>2, LenProperties DEF Typed, PlansTyped
  <2>2. astray' \subseteq 0..Len(plans)
    BY <1>1, <2>1 DEF Typed, OthersTyped
  <2> QED BY <1>6, <1>8, <2>2 DEF Typed, OthersTyped, tables, Rows
<1>12. Typed'
  BY <1>6, <1>10, <1>11 DEF Typed, tables
<1>13. call'[g] = d /\ Alone(g)
  BY <1>8, BecomesAlone
<1> QED BY <1>1, <1>2, <1>5, <1>6, <1>8, <1>9, <1>12, <1>13 DEF tables

LEMMA readItemsOK ==
    ASSUME Typed, NEW g \in Callers, readItems(g)
    PROVE  /\ Typed' /\ Grown /\ Unmixed /\ Aside /\ Alone(g)
           /\ UNCHANGED <<task, edges, plans, queue>>
           /\ call[g].pc = "readItems"
           /\ call'[g].pc \in {"idle", "failPlan", "makeTask"}
           /\ call'[g].pc # "idle" =>
                /\ call'[g].plan = call[g].plan /\ call'[g].made = call[g].made /\ Made(call[g]) = {}
                /\ \A x \in DOMAIN call'[g].items :
                     /\ x \in Titles
                     /\ plans[call[g].plan].items[x].approved # "absent"
                     /\ plans[call[g].plan].items[x].deps = call'[g].items[x].deps
<1> DEFINE c == call[g]
           items == plans[c.plan].items
           chosen == IF c.todo # {} THEN c.todo \cap ItemsOf(c.plan)
                     ELSE {x \in Titles : items[x].approved = "undecided"}
           sound == \A x \in chosen : items[x].deps \subseteq chosen
           list == [x \in chosen |-> [agent |-> items[x].agent, deps |-> items[x].deps]]
           v == IF sound THEN "makeTask" ELSE "failPlan"
           d == [c EXCEPT !.pc = v, !.items = list, !.todo = chosen]
<1>1. c \in Calls /\ Fits(c, task, plans) /\ c.pc = "readItems" /\ c.pc \in OnPlan
  BY CallAt DEF readItems, At, OnPlan, Choosing
<1>2. UNCHANGED <<tables, astray>> /\ Step
  BY DEF readItems
<1>3. \/ Return(g)
      \/ call' = [call EXCEPT ![g].pc = v, ![g].items = list, ![g].todo = chosen]
  BY DEF readItems
<1>4. chosen \in SUBSET Titles /\ \A x \in chosen : items[x].approved # "absent"
  BY DEF ItemsOf
<1>5. \A x \in Titles : items[x] \in ItemRows
  BY <1>1, PlanAt
<1> HIDE DEF chosen
<1>6. list \in Lists /\ DOMAIN list = chosen /\ \A x \in chosen : list[x].deps = items[x].deps
  <2>1. list \in [chosen -> Items]
    BY <1>4, <1>5 DEF Items, ItemRows
  <2> QED BY <1>4, <2>1 DEF Lists
<1>7. v \in {"makeTask", "failPlan"} /\ v \in Pcs
  BY DEF Pcs
<1> HIDE DEF list, v
<1>8. CASE Return(g)
  <2>1. Becomes(g, Idle) /\ Idle \in Calls /\ Idle.pc = "idle" /\ Fits(Idle, task, plans)
    BY <1>8, ReturnFits
  <2>2. call'[g] = Idle /\ Alone(g)
    BY <2>1, BecomesAlone
  <2> QED BY <1>1, <1>2, <2>1, <2>2, MovesOnly, Counted DEF tables
<1>9. CASE call' = [call EXCEPT ![g].pc = v, ![g].items = list, ![g].todo = chosen]
  <2>1. Becomes(g, d)
    BY <1>9 DEF Becomes
  <2>2. d \in Calls
    <3>1. chosen \in SUBSET (Titles \cup Nat)
      BY <1>4
    <3> QED BY <1>1, <1>6, <1>7, <3>1, CallFields
  <2>3. /\ d.pc = v /\ d.plan = c.plan /\ d.todo = chosen /\ d.task = c.task /\ d.sub = c.sub
        /\ d.made = c.made /\ d.items = list /\ Made(d) = Made(c)
    BY <1>1 DEF Calls, Made
  <2>4. call'[g] = d /\ Alone(g)
    BY <2>1, BecomesAlone
  <2> HIDE DEF d
  <2>5. Made(c) = {}
    BY <1>1 DEF Fits, TitlesNamed, Early
  <2>6. Fits(d, task, plans)
    <3> HIDE DEF c, items
    <3>1. References(d, task, plans) /\ AgentNamed(d) /\ TasksNamed(d, task)
      BY <1>1, <1>7, <2>3 DEF Fits, References, AgentNamed, TasksNamed, OnPlan, Choosing, Making
    <3>2. TitlesNamed(d)
      BY <1>1, <1>6, <1>7, <2>3, <2>5 DEF TitlesNamed, Making, Early
    <3> QED BY <3>1, <3>2 DEF Fits
  <2>7. Typed' /\ Grown /\ Unmixed /\ Aside
    BY <1>2, <2>1, <2>2, <2>6, MovesOnly, Counted
  <2>8. \A x \in DOMAIN call'[g].items :
           /\ x \in Titles
           /\ plans[c.plan].items[x].approved # "absent"
           /\ plans[c.plan].items[x].deps = call'[g].items[x].deps
    BY <1>4, <1>6, <2>3, <2>4
  <2> QED BY <1>1, <1>2, <1>7, <2>3, <2>4, <2>5, <2>7, <2>8 DEF tables
<1> QED BY <1>3, <1>8, <1>9

\* The call goes on with its plan, its list and its mark.
SameWork(g) == /\ call'[g].plan = call[g].plan /\ call'[g].items = call[g].items
               /\ call'[g].by = call[g].by

LEMMA makeTaskOK ==
    ASSUME Typed, NEW g \in Callers, makeTask(g)
    PROVE  /\ Typed' /\ Grown /\ Unmixed /\ Alone(g) /\ SameWork(g)
           /\ UNCHANGED <<edges, plans, queue, astray>>
           /\ call[g].pc = "makeTask" /\ call'[g].pc = "makeTask"
           /\ \E x \in call[g].todo :
                /\ x \in Titles /\ x \in DOMAIN call[g].items
                /\ call'[g].todo = call[g].todo \ {x}
                /\ \/ call'[g].made = call[g].made /\ UNCHANGED task
                   \/ \E n \in Nat \ {0} :
                        /\ n \notin DOMAIN task /\ DOMAIN task' = DOMAIN task \cup {n}
                        /\ \A t \in DOMAIN task : task'[t] = task[t]
                        /\ task'[n].plan = call[g].plan /\ task'[n].title = x /\ task'[n].by = call[g].by
                        /\ \A y \in Titles : call'[g].made[y] = IF y = x THEN n ELSE call[g].made[y]
<1> DEFINE c == call[g]
           n == Len(task) + 1
<1>1. c \in Calls /\ Fits(c, task, plans) /\ c.pc = "makeTask" /\ c.pc \in OnPlan /\ c.task \in Rows
      /\ c.task \in Nat
  BY CallAt, OnTask DEF makeTask, At, OnPlan, Choosing, Making
<1>2. UNCHANGED <<edges, plans, queue, load, spent, calls, astray>>
  BY DEF makeTask
<1>3. PICK x \in c.todo :
             \/ /\ task' = Append(task, NewTask(c.task, c.items[x].agent, task[c.task].depth + 1, c.plan, x, c.by))
                /\ call' = [call EXCEPT ![g].todo = @ \ {x}, ![g].made[x] = n]
                /\ UNCHANGED faults
             \/ /\ faults < MaxFaults /\ faults' = faults + 1
                /\ call' = [call EXCEPT ![g].todo = @ \ {x}]
                /\ UNCHANGED task
  BY DEF makeTask
<1>4. c.todo \subseteq DOMAIN c.items /\ DOMAIN c.items \subseteq Titles /\ c.items[x] \in Items
      /\ Made(c) \subseteq DOMAIN c.items /\ c.todo \cap Made(c) = {} /\ x \in Titles
  BY <1>1, ListTypes DEF Fits, TitlesNamed, Calls, Making
<1>5. c.todo \ {x} \in SUBSET (Titles \cup Nat)
  BY <1>1 DEF Calls
<1>6. CASE /\ task' = Append(task, NewTask(c.task, c.items[x].agent, task[c.task].depth + 1, c.plan, x, c.by))
           /\ call' = [call EXCEPT ![g].todo = @ \ {x}, ![g].made[x] = n]
           /\ UNCHANGED faults
  <2> DEFINE r == NewTask(c.task, c.items[x].agent, task[c.task].depth + 1, c.plan, x, c.by)
             d == [c EXCEPT !.todo = c.todo \ {x}, !.made[x] = n]
  <2>1. r \in TaskRows /\ r.parent = c.task /\ r.gate.sub = 0 /\ r.plan = c.plan /\ r.title = x /\ r.by = c.by
    <3>1. task[c.task].depth + 1 \in Nat
      BY <1>1, RowAt
    <3>2. c.items[x].agent \in Agents \cup {NoAgent}
      BY <1>4 DEF Items
    <3> QED BY <1>1, <1>4, <3>1, <3>2 DEF NewTask, NoGate, TaskRows, Calls, Statuses
  <2>2. task' = Append(task, r) /\ Becomes(g, d)
    BY <1>6 DEF Becomes
  <2> HIDE DEF r
  <2>3. /\ TasksTyped(task') /\ TasksGrow(task, task') /\ DOMAIN task' = DOMAIN task \cup {n}
        /\ n \in Nat \ {0} /\ n \notin DOMAIN task /\ task'[n] = r
        /\ \A t \in DOMAIN task : task'[t] = task[t]
    BY <1>1, <2>1, <2>2, AddTask DEF Rows, Typed
  <2> HIDE DEF n
  <2>4. d \in Calls
    BY <1>1, <1>4, <1>5, <2>3, CallFields
  <2>5. /\ d.pc = c.pc /\ d.plan = c.plan /\ d.todo = c.todo \ {x} /\ d.task = c.task /\ d.sub = c.sub
        /\ d.items = c.items /\ d.by = c.by
        /\ \A y \in Titles : d.made[y] = IF y = x THEN n ELSE c.made[y]
    BY <1>1, <1>4 DEF Calls
  <2>6. call'[g] = d /\ Alone(g)
    BY <2>2, BecomesAlone
  <2>7. Made(d) = Made(c) \cup {x}
    BY <1>4, <2>3, <2>5 DEF Made
  <2> HIDE DEF d
  <2>8. Fits(c, task', plans)
    BY <2>3, FitsInTasks
  <2>9. Fits(d, task', plans)
    <3> HIDE DEF c
    <3>1. References(d, task', plans)
      BY <1>1, <2>3, <2>5, <2>8 DEF Fits, References
    <3>2. AgentNamed(d) /\ TasksNamed(d, task')
      BY <1>1, <2>5 DEF AgentNamed, TasksNamed
    <3>3. TitlesNamed(d)
      BY <1>1, <1>4, <2>5, <2>7 DEF TitlesNamed, Making, Early
    <3> QED BY <3>1, <3>2, <3>3 DEF Fits
  <2>10. Grown /\ Unmixed
    BY <1>2, <2>3, GrowsSame DEF Grown, Unmixed, Typed, PlansTyped
  <2>11. Typed'
    <3>1. calls' \in 0..MaxCalls /\ faults' \in 0..MaxFaults
      BY <1>2, <1>6, Counted
    <3>2. CallsTyped' /\ OthersTyped' /\ PlansTyped(plans', task')
      BY <1>2, <2>2, <2>3, <2>4, <2>9, <2>10, <3>1, CallsMove, OthersStay, PlansOfMore DEF Typed
    <3> QED BY <2>3, <3>2 DEF Typed
  <2> QED BY <1>1, <1>2, <1>4, <2>1, <2>3, <2>5, <2>6, <2>10, <2>11 DEF SameWork
<1>7. CASE /\ faults < MaxFaults /\ faults' = faults + 1
           /\ call' = [call EXCEPT ![g].todo = @ \ {x}]
           /\ UNCHANGED task
  <2> DEFINE d == [c EXCEPT !.todo = c.todo \ {x}]
  <2>1. Becomes(g, d)
    BY <1>7 DEF Becomes
  <2>2. d \in Calls
    BY <1>1, <1>5, CallFields
  <2>3. /\ d.pc = c.pc /\ d.plan = c.plan /\ d.todo = c.todo \ {x} /\ d.task = c.task /\ d.sub = c.sub
        /\ d.items = c.items /\ d.by = c.by /\ d.made = c.made /\ Made(d) = Made(c)
    BY <1>1 DEF Calls, Made
  <2>4. call'[g] = d /\ Alone(g)
    BY <2>1, BecomesAlone
  <2> HIDE DEF d
  <2>5. Fits(d, task, plans)
    <3> HIDE DEF c
    <3>1. References(d, task, plans) /\ AgentNamed(d) /\ TasksNamed(d, task)
      BY <1>1, <2>3 DEF Fits, References, AgentNamed, TasksNamed
    <3>2. TitlesNamed(d)
      BY <1>1, <1>4, <2>3 DEF TitlesNamed, Making, Early
    <3> QED BY <3>1, <3>2 DEF Fits
  <2>6. Typed' /\ Grown /\ Unmixed
    <3>1. calls' \in 0..MaxCalls /\ faults' \in 0..MaxFaults
      BY <1>2, <1>7, Counted
    <3> QED BY <1>2, <1>7, <2>1, <2>2, <2>5, <3>1, MovesOnly DEF tables
  <2> QED BY <1>1, <1>2, <1>4, <1>7, <2>3, <2>4, <2>6 DEF SameWork
<1> QED BY <1>3, <1>6, <1>7

LEMMA phaseTwoOK ==
    ASSUME Typed, NEW g \in Callers, phaseTwo(g)
    PROVE  /\ Typed' /\ Grown /\ Unmixed /\ Aside /\ Alone(g) /\ SameWork(g)
           /\ UNCHANGED <<task, edges, plans, queue>>
           /\ call[g].pc = "makeTask" /\ call'[g].pc \in {"approvePlan", "linkItem"}
           /\ call'[g].made = call[g].made /\ call'[g].todo = Made(call[g])
<1> DEFINE c == call[g]
           v == IF Made(c) = {} THEN "approvePlan" ELSE "linkItem"
           d == [c EXCEPT !.pc = v, !.todo = Made(c)]
<1>1. c \in Calls /\ Fits(c, task, plans) /\ c.pc = "makeTask" /\ c.task \in Rows
  BY CallAt, OnTask DEF phaseTwo, At
<1>2. UNCHANGED <<tables, astray>> /\ Step /\ Becomes(g, d)
  BY DEF phaseTwo, Becomes
<1>3. v \in {"approvePlan", "linkItem"} /\ v \in Pcs /\ (v = "approvePlan" => Made(c) = {})
  BY DEF Pcs
<1> HIDE DEF v
<1>4. d \in Calls
  <2>1. Made(c) \in SUBSET (Titles \cup Nat)
    BY DEF Made
  <2> QED BY <1>1, <1>3, <2>1, CallFields
<1>5. /\ d.pc = v /\ d.plan = c.plan /\ d.todo = Made(c) /\ d.task = c.task /\ d.sub = c.sub
      /\ d.items = c.items /\ d.by = c.by /\ d.made = c.made /\ Made(d) = Made(c)
  BY <1>1 DEF Calls, Made
<1>6. call'[g] = d /\ Alone(g)
  BY <1>2, BecomesAlone
<1> HIDE DEF d
<1>7. Fits(d, task, plans)
  <2> HIDE DEF c
  <2>1. References(d, task, plans) /\ AgentNamed(d) /\ TasksNamed(d, task)
    BY <1>1, <1>3, <1>5 DEF Fits, References, AgentNamed, TasksNamed, OnPlan, Choosing, Making
  <2>2. TitlesNamed(d)
    BY <1>1, <1>3, <1>5 DEF Fits, TitlesNamed, Making, Early
  <2> QED BY <2>1, <2>2 DEF Fits
<1>8. Typed' /\ Grown /\ Unmixed /\ Aside
  BY <1>2, <1>4, <1>7, MovesOnly, Counted
<1> QED BY <1>1, <1>2, <1>3, <1>5, <1>6, <1>8 DEF SameWork, tables

LEMMA MadeAt ==
    ASSUME Typed, NEW g \in Callers, call[g].pc \in {"linkItem", "holdItem", "markItem"}
    PROVE  /\ call[g].todo \subseteq Made(call[g]) /\ Made(call[g]) \subseteq DOMAIN call[g].items
           /\ DOMAIN call[g].items \subseteq Titles
           /\ \A x \in Made(call[g]) : call[g].made[x] \in Rows /\ call[g].made[x] # 0
           /\ call[g].pc # "linkItem" => call[g].title \in call[g].todo
BY CallAt, ListTypes DEF Fits, TitlesNamed, References, Calls, Making, Rows, Made

LEMMA linkItemOK ==
    ASSUME Typed, NEW g \in Callers, linkItem(g)
    PROVE  /\ Typed' /\ Grown /\ Aside /\ Alone(g) /\ SameWork(g)
           /\ UNCHANGED <<task, plans, queue>>
           /\ call[g].pc = "linkItem" /\ call'[g].pc = "holdItem"
           /\ call'[g].made = call[g].made /\ call'[g].todo = call[g].todo
           /\ \A e \in edges' \ edges :
                \E x, y \in Made(call[g]) : e = <<call[g].made[x], call[g].made[y]>>
<1> DEFINE c == call[g]
<1>1. c \in Calls /\ Fits(c, task, plans) /\ c.pc = "linkItem" /\ c.task \in Rows
  BY CallAt, OnTask DEF linkItem, At
<1>2. PICK x \in c.todo :
        /\ edges' = edges \cup UNION {CreateDependency(c.made[x], c.made[y]) : y \in c.items[x].deps \cap Made(c)}
        /\ call' = [call EXCEPT ![g].pc = "holdItem", ![g].title = x]
  BY DEF linkItem
<1>3. /\ x \in Made(c) /\ x \in Titles /\ c.todo \subseteq Made(c)
      /\ \A y \in Made(c) : c.made[y] \in Rows
  BY <1>1, MadeAt
<1>4. \A e \in edges' \ edges : \E y \in Made(c) : e = <<c.made[x], c.made[y]>>
  BY <1>2 DEF CreateDependency
<1>5. edges' \subseteq Rows \X Rows
  BY <1>3, <1>4 DEF Typed, OthersTyped
<1> DEFINE d == [c EXCEPT !.pc = "holdItem", !.title = x]
<1>6. Becomes(g, d)
  BY <1>2 DEF Becomes
<1>7. d \in Calls
  BY <1>1, <1>3, CallFields DEF Pcs
<1>8. /\ d.pc = "holdItem" /\ d.plan = c.plan /\ d.todo = c.todo /\ d.task = c.task /\ d.sub = c.sub
      /\ d.items = c.items /\ d.by = c.by /\ d.made = c.made /\ Made(d) = Made(c) /\ d.title = x
  BY <1>1 DEF Calls, Made
<1>9. call'[g] = d /\ Alone(g)
  BY <1>6, BecomesAlone
<1> HIDE DEF d
<1>10. Fits(d, task, plans)
  <2> HIDE DEF c
  <2>1. References(d, task, plans) /\ AgentNamed(d) /\ TasksNamed(d, task)
    BY <1>1, <1>8 DEF Fits, References, AgentNamed, TasksNamed, OnPlan, Choosing, Making
  <2>2. TitlesNamed(d)
    BY <1>1, <1>2, <1>8 DEF Fits, TitlesNamed, Making, Early
  <2> QED BY <2>1, <2>2 DEF Fits
<1>11. Typed' /\ Grown /\ Aside
  BY <1>5, <1>6, <1>7, <1>10, MovesEdges DEF linkItem
<1> QED BY <1>1, <1>3, <1>4, <1>8, <1>9, <1>11 DEF SameWork, linkItem

LEMMA holdItemOK ==
    ASSUME Typed, NEW g \in Callers, holdItem(g)
    PROVE  /\ Typed' /\ Grown /\ Unmixed /\ Alone(g) /\ SameWork(g)
           /\ UNCHANGED <<edges, plans, astray>> /\ DOMAIN task' = DOMAIN task
           /\ call[g].pc = "holdItem" /\ call'[g].pc = "markItem"
           /\ call'[g].made = call[g].made /\ call'[g].todo = call[g].todo
           /\ \/ queue' = queue
              \/ \E x \in Made(call[g]), a \in Agents :
                    /\ queue' = Append(queue, [task |-> call[g].made[x], agent |-> a])
                    /\ call[g].items[x].deps = {}
<1> DEFINE c == call[g]
           sub == c.made[c.title]
           item == c.items[c.title]
           d == [c EXCEPT !.pc = "markItem"]
<1>1. c \in Calls /\ Fits(c, task, plans) /\ c.pc = "holdItem"
  BY CallAt DEF holdItem, At
<1>2. c.title \in Made(c) /\ sub \in Rows /\ item \in Items
  BY <1>1, MadeAt, ListTypes DEF Calls
<1>3. Becomes(g, d) /\ d \in Calls /\ d.pc = "markItem" /\ SameButPc(c, d)
  BY GotoMoves DEF holdItem, Pcs
<1>4. UNCHANGED <<edges, plans, spent, astray>> /\ Step
  BY DEF holdItem
<1>5. task' = IF item.deps # {} THEN SetTaskBlocked(sub) ELSE task
  BY DEF holdItem
<1>6. \/ item.deps = {} /\ item.agent # NoAgent /\ Enqueue(sub, item.agent)
      \/ UNCHANGED <<queue, load>>
  BY DEF holdItem
<1>7. call'[g] = d /\ Alone(g)
  BY <1>3, BecomesAlone
<1> HIDE DEF d, sub, item
<1>8. TaskSet
  BY <1>2, <1>5, Marked, TaskSame
<1>9. Fits(d, task', plans)
  BY <1>1, <1>3, <1>8, FitsInTasks, GotoFits DEF TaskSet
<1>10. Grown /\ Unmixed
  BY <1>4, <1>8, GrowsSame DEF Grown, Unmixed, TaskSet, Typed, PlansTyped
<1>11. CallsTyped' /\ PlansTyped(plans', task')
  BY <1>3, <1>4, <1>8, <1>9, <1>10, CallsMove, PlansOfMore DEF Typed, TaskSet
<1>12. /\ queue' \in Seq([task : Rows, agent : Agents]) /\ load' \in [Agents -> Nat]
       /\ queue' = queue \/ (item.deps = {} /\ \E a \in Agents : queue' = Append(queue, [task |-> sub, agent |-> a]))
  <2>1. CASE item.deps = {} /\ item.agent # NoAgent /\ Enqueue(sub, item.agent)
    <3>1. item.agent \in Agents
      BY <1>2, <2>1 DEF Items
    <3>2. [task |-> sub, agent |-> item.agent] \in [task : Rows, agent : Agents]
      BY <1>2, <3>1
    <3>3. Append(queue, [task |-> sub, agent |-> item.agent]) \in Seq([task : Rows, agent : Agents])
      BY <3>2, AppendProperties DEF Typed, OthersTyped
    <3>4. load' \in [Agents -> Nat]
      BY <2>1, <3>1 DEF Enqueue, Typed, OthersTyped
    <3> QED BY <2>1, <3>1, <3>3, <3>4 DEF Enqueue
  <2>2. CASE UNCHANGED <<queue, load>>
    BY <2>2 DEF Typed, OthersTyped
  <2> QED BY <1>6, <2>1, <2>2
<1>13. OthersTyped'
  BY <1>4, <1>8, <1>12, Counted DEF Typed, OthersTyped, TaskSet, Rows
<1>14. Typed'
  BY <1>8, <1>11, <1>13 DEF Typed, TaskSet
<1>15. \/ queue' = queue
       \/ \E x \in Made(c), a \in Agents :
             queue' = Append(queue, [task |-> c.made[x], agent |-> a]) /\ c.items[x].deps = {}
  BY <1>2, <1>12 DEF sub, item
<1> QED BY <1>1, <1>3, <1>4, <1>7, <1>8, <1>10, <1>14, <1>15 DEF SameWork, SameButPc, TaskSet

LEMMA markItemOK ==
    ASSUME Typed, NEW g \in Callers, markItem(g)
    PROVE  /\ Typed' /\ Grown /\ Unmixed /\ Alone(g) /\ SameWork(g)
           /\ UNCHANGED <<task, edges, queue, astray>> /\ DOMAIN plans' = DOMAIN plans
           /\ call[g].pc = "markItem" /\ call'[g].pc \in {"approvePlan", "linkItem"}
           /\ call'[g].made = call[g].made /\ call[g].plan \in DOMAIN plans
           /\ call[g].title \in Titles /\ call'[g].todo = call[g].todo \ {call[g].title}
           /\ \A p \in DOMAIN plans :
                /\ plans'[p].status = plans[p].status /\ plans'[p].errors = plans[p].errors
                /\ \A x \in Titles :
                     plans'[p].items[x].real = IF p = call[g].plan /\ x = call[g].title
                                               THEN call[g].made[x] ELSE plans[p].items[x].real
<1> DEFINE c == call[g]
           p == c.plan
           x == c.title
           item == [plans[p].items[x] EXCEPT !.approved = "yes", !.real = c.made[x]]
           f == [plans[p].items EXCEPT ![x] = item]
           r == [plans[p] EXCEPT !.items = f]
           v == IF c.todo = {x} THEN "approvePlan" ELSE "linkItem"
           d == [c EXCEPT !.todo = c.todo \ {x}, !.pc = v]
<1>1. c \in Calls /\ Fits(c, task, plans) /\ c.pc = "markItem" /\ c.task \in Rows /\ c.pc \in OnPlan
  BY CallAt, OnTask DEF markItem, At, OnPlan, Choosing, Making
<1>2. /\ x \in c.todo /\ c.todo \subseteq Made(c) /\ x \in Titles
      /\ c.made[x] \in DOMAIN task /\ c.made[x] # 0 /\ c.made[x] \in Nat
  BY <1>1, MadeAt, CallAt DEF Rows
<1>3. p \in DOMAIN plans /\ plans[p] \in PlanRows /\ plans[p].items \in [Titles -> ItemRows]
  BY <1>1, PlanAt
<1>4. UNCHANGED <<task, edges, queue, load, spent, astray>> /\ Step /\ Becomes(g, d)
  BY DEF markItem, NextItem, Becomes
<1>5. plans' = [plans EXCEPT ![p] = r]
  BY DEF markItem
<1>6. item \in ItemRows /\ item.approved = "yes" /\ item.real = c.made[x]
      /\ item.deps = plans[p].items[x].deps
  BY <1>2, <1>3 DEF ItemRows
<1> HIDE DEF item
<1>7. f \in [Titles -> ItemRows] /\ \A y \in Titles : f[y] = IF y = x THEN item ELSE plans[p].items[y]
  BY <1>3, <1>6
<1> HIDE DEF f
<1>8. r \in PlanRows /\ r.task = plans[p].task /\ r.items = f
      /\ r.status = plans[p].status /\ r.errors = plans[p].errors
  BY <1>3, <1>7, PlanFields DEF PlanRows
<1> HIDE DEF r
<1>9. /\ PlansTyped(plans', task) /\ PlansGrow(plans, plans') /\ DOMAIN plans' = DOMAIN plans
      /\ \A q \in DOMAIN plans : plans'[q] = IF q = p THEN r ELSE plans[q]
  <2>1. \A y \in Titles : /\ r.items[y].real \in {0} \cup DOMAIN task
                          /\ r.items[y].approved = "yes" => r.items[y].real # 0
                          /\ KeptItem(plans[p].items[y], r.items[y])
    BY <1>1, <1>2, <1>6, <1>7, <1>8, PlanAt DEF KeptItem
  <2> QED BY <1>3, <1>5, <1>8, <2>1, SetPlan DEF Typed
<1>10. v \in {"approvePlan", "linkItem"} /\ v \in Pcs /\ (v = "approvePlan" => c.todo \ {x} = {})
  BY DEF Pcs
<1> HIDE DEF v
<1>11. d \in Calls
  <2>1. c.todo \ {x} \in SUBSET (Titles \cup Nat)
    BY <1>1 DEF Calls
  <2> QED BY <1>1, <1>10, <2>1, CallFields DEF Calls
<1>12. /\ d.pc = v /\ d.plan = c.plan /\ d.todo = c.todo \ {x} /\ d.task = c.task /\ d.sub = c.sub
       /\ d.items = c.items /\ d.by = c.by /\ d.made = c.made /\ Made(d) = Made(c)
  BY <1>1 DEF Calls, Made
<1>13. call'[g] = d /\ Alone(g)
  BY <1>4, BecomesAlone
<1> HIDE DEF d
<1>14. Fits(c, task, plans')
  BY <1>9, FitsInPlans
<1>15. Fits(d, task, plans')
  <2> HIDE DEF c, x, p
  <2>1. References(d, task, plans') /\ AgentNamed(d) /\ TasksNamed(d, task)
    BY <1>1, <1>10, <1>12, <1>14 DEF Fits, References, AgentNamed, TasksNamed, OnPlan, Choosing, Making
  <2>2. TitlesNamed(d)
    BY <1>1, <1>10, <1>12 DEF Fits, TitlesNamed, Making, Early
  <2> QED BY <2>1, <2>2 DEF Fits
<1>16. Typed' /\ Grown /\ Unmixed
  BY <1>4, <1>9, <1>11, <1>15, MovesPlans, Counted
<1>17. \A q \in DOMAIN plans :
          /\ plans'[q].status = plans[q].status /\ plans'[q].errors = plans[q].errors
          /\ \A y \in Titles : plans'[q].items[y].real = IF q = p /\ y = x THEN c.made[y] ELSE plans[q].items[y].real
  BY <1>6, <1>7, <1>8, <1>9
<1> QED BY <1>1, <1>2, <1>3, <1>4, <1>9, <1>10, <1>12, <1>13, <1>16, <1>17 DEF SameWork

LEMMA rejectItemsOK ==
    ASSUME Typed, NEW g \in Callers, rejectItems(g)
    PROVE  Typed' /\ Grown /\ Plain
<1> DEFINE c == call[g]
           p == c.plan
           items == plans[p].items
           refused(x) == IF items[x].approved = "undecided" THEN [items[x] EXCEPT !.approved = "no"] ELSE items[x]
           f == [x \in Titles |-> refused(x)]
           r == [plans[p] EXCEPT !.items = f]
           d == [c EXCEPT !.pc = "continue"]
<1>1. c \in Calls /\ Fits(c, task, plans) /\ c.pc = "rejectItems" /\ c.pc \in OnPlan /\ c.pc \notin Special
  BY CallAt DEF rejectItems, At, OnPlan, Special, Choosing, Making
<1>2. p \in DOMAIN plans /\ plans[p] \in PlanRows /\ items \in [Titles -> ItemRows]
  BY <1>1, PlanAt
<1>3. UNCHANGED <<task, edges, queue, load, spent, astray>> /\ Step
      /\ Becomes(g, d) /\ d \in Calls /\ d.pc = "continue" /\ SameButPc(c, d) /\ "continue" \notin Special
  BY GotoMoves DEF rejectItems, Pcs, Special, Choosing, Making
<1>4. plans' = [plans EXCEPT ![p] = r]
  BY DEF rejectItems
<1>5. /\ f \in [Titles -> ItemRows]
      /\ \A x \in Titles : /\ f[x].real = items[x].real /\ KeptItem(items[x], f[x])
                           /\ f[x].approved = "yes" => items[x].approved = "yes"
  <2>1. \A x \in Titles : items[x] \in ItemRows
    BY <1>2
  <2> HIDE DEF items
  <2>2. \A x \in Titles : /\ refused(x) \in ItemRows /\ refused(x).real = items[x].real
                          /\ refused(x).deps = items[x].deps
                          /\ refused(x).approved = IF items[x].approved = "undecided" THEN "no" ELSE items[x].approved
    BY <2>1 DEF ItemRows
  <2> HIDE DEF refused
  <2> QED BY <2>2 DEF KeptItem
<1> HIDE DEF f
<1>6. r \in PlanRows /\ r.task = plans[p].task /\ r.items = f
      /\ r.status = plans[p].status /\ r.errors = plans[p].errors
  BY <1>2, <1>5, PlanFields DEF PlanRows
<1> HIDE DEF r
<1>7. /\ PlansTyped(plans', task) /\ PlansGrow(plans, plans') /\ DOMAIN plans' = DOMAIN plans
      /\ \A q \in DOMAIN plans : plans'[q] = IF q = p THEN r ELSE plans[q]
  <2>1. \A x \in Titles : /\ r.items[x].real \in {0} \cup DOMAIN task
                          /\ r.items[x].approved = "yes" => r.items[x].real # 0
                          /\ KeptItem(plans[p].items[x], r.items[x])
    BY <1>1, <1>5, <1>6, PlanAt
  <2> QED BY <1>2, <1>4, <1>6, <2>1, SetPlan DEF Typed
<1>8. Aside
  BY <1>3, <1>5, <1>6, <1>7 DEF Aside
<1> HIDE DEF d
<1>9. Fits(d, task, plans')
  BY <1>1, <1>3, <1>7, FitsInPlans, GotoFits
<1>10. Typed' /\ Grown /\ Unmixed
  BY <1>3, <1>7, <1>9, MovesPlans, Counted
<1> QED BY <1>1, <1>3, <1>8, <1>10, PlainMove

LEMMA CrashOK ==
    ASSUME Typed, Crash
    PROVE  /\ Typed' /\ Grown /\ Unmixed /\ UNCHANGED <<task, edges, plans, queue>>
           /\ \A g \in Callers : call'[g].pc = "idle" /\ call'[g].plan = 0
           /\ astray' = astray \cup {call[g].plan : g \in Callers}
<1>1. UNCHANGED tables /\ calls' = calls /\ faults' \in 0..MaxFaults
      /\ call' = [g \in Callers |-> Idle] /\ astray' = astray \cup {call[g].plan : g \in Callers}
  BY Counted DEF Crash
<1>2. Grown /\ Unmixed
  BY <1>1, GrowsSame DEF tables, Grown, Unmixed, Typed, PlansTyped
<1>3. CallsTyped'
  BY <1>1, IdleFits DEF CallsTyped
<1>4. \A g \in Callers : call[g].plan \in 0..Len(plans)
  BY CallAt, LenProperties DEF Fits, References, Typed, PlansTyped
<1>5. OthersTyped'
  BY <1>1, <1>4 DEF Typed, OthersTyped, tables, Rows
<1>6. \A g \in Callers : call'[g].pc = "idle" /\ call'[g].plan = 0
  BY <1>1, IdleCall
<1> QED BY <1>1, <1>2, <1>3, <1>5, <1>6 DEF Typed, tables

LEMMA InitTyped == Init => Typed
<1> SUFFICES ASSUME Init PROVE Typed
  OBVIOUS
<1> USE DEF Init
<1>1. TasksTyped(task)
  BY ToolsAssumption DEF InitTasksOK, TasksTyped
<1>2. PlansTyped(plans, task)
  BY ToolsAssumption DEF InitPlansOK, PlansTyped
<1>3. CallsTyped
  BY IdleFits DEF CallsTyped
<1>4. OthersTyped
  <2>1. queue \in Seq([task : Rows, agent : Agents])
    OBVIOUS
  <2>2. 0 \in 0..MaxCalls /\ 0 \in 0..MaxFaults
    BY ToolsAssumption
  <2>3. edges \subseteq Rows \X Rows /\ load \in [Agents -> Nat] /\ astray \subseteq 0..Len(plans)
    OBVIOUS
  <2>4. calls \in 0..MaxCalls /\ faults \in 0..MaxFaults /\ spent \in BOOLEAN
    BY <2>2
  <2> QED BY ONLY <2>1, <2>3, <2>4 DEF OthersTyped
<1> QED BY <1>1, <1>2, <1>3, <1>4 DEF Typed

\* The steps that are not Plain.
SpecialStep(g) ==
    \/ cancelPending(g) \/ insertPlan(g) \/ findPlan(g) \/ countError(g) \/ readErrors(g) \/ failPlan(g)
    \/ \E t \in Rows, sel \in {{}} \cup {{x} : x \in Titles} : ApprovePlan(g, t, sel)
    \/ readItems(g) \/ makeTask(g) \/ phaseTwo(g) \/ linkItem(g) \/ holdItem(g) \/ markItem(g)
    \/ approvePlan(g)

LEMMA NextSteps ==
    ASSUME Typed, Next
    PROVE  (Typed' /\ Grown /\ Plain) \/ Crash \/ \E g \in Callers : SpecialStep(g)
<1>1. ASSUME NEW g \in Callers, ToolStep(g)
      PROVE  (Typed' /\ Grown /\ Plain) \/ SpecialStep(g)
  BY <1>1, insertItemOK, validateItemOK, blockParentOK, insertTaskOK, linkTaskOK, holdTaskOK,
     gateSubTaskOK, reviewParentOK, assignAgentOK, gateAssignOK, unloadAgentOK
     DEF ToolStep, SpecialStep
<1>2. ASSUME NEW g \in Callers, DecompositionStep(g)
      PROVE  (Typed' /\ Grown /\ Plain) \/ SpecialStep(g)
  BY <1>2, rejectPlanOK, rejectItemsOK, continueParentOK, attachTaskOK, checkCycleOK, attachEdgeOK,
     blockAttachedOK
     DEF DecompositionStep, SpecialStep
<1>3. ASSUME NEW g \in Callers, NEW t \in Rows, UserCall(g, t)
      PROVE  (Typed' /\ Grown /\ Plain) \/ SpecialStep(g)
  BY <1>3, RejectPlanOK, AttachToWorkflowOK DEF UserCall, SpecialStep
<1>4. ASSUME NEW g \in Callers, NEW t \in Rows, NEW a \in Agents, ToolCall(g, a, t)
      PROVE  Typed' /\ Grown /\ Plain
  BY <1>4, proposePlanOK, planSubTaskOK, createSubTaskOK, assignTaskOK, updateStatusOK DEF ToolCall
<1>5. ASSUME NEW t \in Rows, Board(t) \/ ReportTokenUsage(t) \/ \E a \in Agents : assignUser(a, t)
      PROVE  Typed' /\ Grown /\ Plain
  BY <1>5, BoardOK, ReportTokenUsageOK, assignUserOK
<1> QED BY <1>1, <1>2, <1>3, <1>4, <1>5 DEF Next

LEMMA SpecialTyped ==
    ASSUME Typed, NEW g \in Callers, SpecialStep(g)
    PROVE  Typed' /\ Grown
BY cancelPendingOK, insertPlanOK, findPlanOK, countErrorOK, readErrorsOK, failPlanOK, ApprovePlanOK,
   readItemsOK, makeTaskOK, phaseTwoOK, linkItemOK, holdItemOK, markItemOK, approvePlanOK
   DEF SpecialStep

LEMMA StepTyped == Typed /\ [Next]_vars => Typed' /\ Grown
<1> SUFFICES ASSUME Typed, [Next]_vars PROVE Typed' /\ Grown
  OBVIOUS
<1>1. CASE Next
  BY <1>1, NextSteps, SpecialTyped, CrashOK
<1>2. CASE UNCHANGED vars
  BY <1>2, GrowsSame DEF vars, tables, Typed, CallsTyped, OthersTyped, Grown, TasksTyped, PlansTyped, Rows
<1> QED BY <1>1, <1>2

\* What the tables and the calls hold has its type, and what they refer to exists.
THEOREM PlanTypeCorrect == Spec => []PlanTypeOK
<1>1. Typed /\ [Next]_vars => Typed'
  BY StepTyped
<1> QED BY <1>1, InitTyped, TypedIsType, PTL DEF Spec

\* An item that was approved stays approved, and keeps a sub-task.
THEOREM ApprovalsAreFinal == Spec => ApprovedIsFinal
<1>1. Typed /\ [Next]_vars => [\A p \in DOMAIN plans, x \in Titles :
         plans[p].items[x].approved = "yes" => /\ plans'[p].items[x].approved = "yes"
                                               /\ plans'[p].items[x].real # 0]_plans
  BY StepTyped DEF Grown, PlansGrow, KeptItem, Typed, PlansTyped
<1>2. Typed /\ [Next]_vars => Typed'
  BY StepTyped
<1> QED BY <1>1, <1>2, InitTyped, PTL DEF Spec, ApprovedIsFinal

-----------------------------------------------------------------------------
(* BreakerHolds: while a plan waits with three errors, a call is on its    *)
(* way to look at them, or to fail the plan.                               *)

Looking(p) == \E g \in Callers : call[g].plan = p /\ call[g].pc \in {"readErrors", "failPlan"}
Breaker ==
    \A p \in DOMAIN plans :
       plans[p].errors >= 3 /\ p \notin astray /\ plans[p].status = "pending" => Looking(p)

LEMMA BreakerQuiet == Breaker => BreakerHolds
BY DEF Breaker, BreakerHolds, Quiet, At, Looking

LEMMA BreakerInit == Init => Breaker
<1> SUFFICES ASSUME Init, NEW p \in DOMAIN plans PROVE ~(plans[p].errors >= 3)
  BY DEF Breaker
<1>1. InitPlansOK(plans)
  BY ToolsAssumption DEF Init
<1>2. plans[p] \in PlanRows /\ plans[p].errors < 3
  BY <1>1, ElementOfSeq, LenProperties DEF InitPlansOK
<1>3. plans[p].errors \in Nat
  BY <1>2 DEF PlanRows
<1> QED BY <1>2, <1>3

\* A step that counts no error and after which the same calls are looking.
LEMMA BreakerKept ==
    ASSUME Breaker, DOMAIN plans' = DOMAIN plans, astray \subseteq astray',
           \A p \in DOMAIN plans : /\ plans'[p].errors = plans[p].errors
                                   /\ plans'[p].status = "pending" => plans[p].status = "pending"
                                   /\ Looking(p) => Looking(p)'
    PROVE  Breaker'
BY DEF Breaker

LEMMA LookingStays ==
    ASSUME NEW g \in Callers, Alone(g), call[g].pc \notin {"readErrors", "failPlan"}, NEW p
    PROVE  Looking(p) => Looking(p)'
BY DEF Looking, Alone

LEMMA BreakerSpecial ==
    ASSUME Typed, Breaker, NEW g \in Callers, SpecialStep(g)
    PROVE  Breaker'
<1>1. CASE cancelPending(g) \/ findPlan(g) \/ readItems(g) \/ phaseTwo(g) \/ linkItem(g) \/ approvePlan(g)
  <2>1. Aside /\ Alone(g) /\ call[g].pc \notin {"readErrors", "failPlan"}
    BY <1>1, cancelPendingOK, findPlanOK, readItemsOK, phaseTwoOK, linkItemOK, approvePlanOK
  <2> QED BY <2>1, LookingStays, BreakerKept DEF Aside
<1>2. CASE \/ \E t \in Rows, sel \in {{}} \cup {{x} : x \in Titles} : ApprovePlan(g, t, sel)
           \/ makeTask(g) \/ holdItem(g) \/ markItem(g)
  <2>1. /\ DOMAIN plans' = DOMAIN plans /\ astray \subseteq astray' /\ Alone(g)
        /\ \A p \in DOMAIN plans : plans'[p].errors = plans[p].errors /\ plans'[p].status = plans[p].status
        /\ call[g].pc \notin {"readErrors", "failPlan"}
    <3>1. CASE makeTask(g) \/ holdItem(g)
      BY <3>1, makeTaskOK, holdItemOK
    <3>2. CASE markItem(g)
      BY <3>2, markItemOK
    <3>3. CASE \E t \in Rows, sel \in {{}} \cup {{x} : x \in Titles} : ApprovePlan(g, t, sel)
      BY <3>3, ApprovePlanOK
    <3> QED BY <1>2, <3>1, <3>2, <3>3
  <2> QED BY <2>1, LookingStays, BreakerKept
<1>3. CASE insertPlan(g)
  <2> DEFINE n == Len(plans) + 1
  <2>1. /\ plans' = Append(plans, NewPlan(call[g].task)) /\ call[g].task \in Rows
        /\ call[g].pc = "insertPlan" /\ Alone(g) /\ UNCHANGED astray
    BY <1>3, insertPlanOK
  <2>2. call[g].task \in Nat
    BY <2>1, NoRowZero DEF Typed, Rows
  <2>3. /\ DOMAIN plans' = DOMAIN plans \cup {n}
        /\ plans'[n] = NewPlan(call[g].task)
        /\ \A p \in DOMAIN plans : plans'[p] = plans[p]
    BY <2>1, <2>2, AddPlan DEF Typed, Rows
  <2>4. plans'[n].errors = 0
    BY <2>3 DEF NewPlan
  <2> HIDE DEF n
  <2> SUFFICES ASSUME NEW p \in DOMAIN plans', plans'[p].errors >= 3, p \notin astray',
                      plans'[p].status = "pending"
               PROVE  Looking(p)'
    BY DEF Breaker
  <2>5. p \in DOMAIN plans /\ plans[p].errors >= 3 /\ p \notin astray /\ plans[p].status = "pending"
    BY <2>1, <2>3, <2>4
  <2> QED BY <2>1, <2>5, LookingStays DEF Breaker
<1>4. CASE countError(g)
  <2>1. /\ UNCHANGED astray /\ DOMAIN plans' = DOMAIN plans /\ Alone(g)
        /\ \A p \in DOMAIN plans : p # call[g].plan => plans'[p] = plans[p]
        /\ call[g].pc = "countError" /\ call'[g].pc = "readErrors" /\ call'[g].plan = call[g].plan
    BY <1>4, countErrorOK
  <2>2. Looking(call[g].plan)'
    BY <2>1 DEF Looking
  <2>3. \A p : Looking(p) => Looking(p)'
    BY <2>1, LookingStays
  <2> SUFFICES ASSUME NEW p \in DOMAIN plans', p # call[g].plan, plans'[p].errors >= 3, p \notin astray',
                      plans'[p].status = "pending"
               PROVE  Looking(p)'
    BY <2>1, <2>2 DEF Breaker
  <2> QED BY <2>1, <2>3 DEF Breaker
<1>5. CASE readErrors(g)
  <2>1. /\ Aside /\ Alone(g) /\ UNCHANGED plans
        /\ call[g].pc = "readErrors" /\ call'[g].plan = call[g].plan
        /\ plans[call[g].plan].errors >= 3 => call'[g].pc = "failPlan"
    BY <1>5, readErrorsOK
  <2> SUFFICES ASSUME NEW p \in DOMAIN plans', plans'[p].errors >= 3, p \notin astray',
                      plans'[p].status = "pending"
               PROVE  Looking(p)'
    BY DEF Breaker
  <2>2. PICK h \in Callers : call[h].plan = p /\ call[h].pc \in {"readErrors", "failPlan"}
    BY <2>1 DEF Aside, Breaker, Looking
  <2>3. CASE h = g
    BY <2>1, <2>2, <2>3 DEF Looking
  <2>4. CASE h # g
    BY <2>1, <2>2, <2>4 DEF Looking, Alone
  <2> QED BY <2>3, <2>4
<1>6. CASE failPlan(g)
  <2>1. Aside /\ Alone(g) /\ plans'[call[g].plan].status = "failed"
    BY <1>6, failPlanOK
  <2> SUFFICES ASSUME NEW p \in DOMAIN plans', plans'[p].errors >= 3, p \notin astray',
                      plans'[p].status = "pending"
               PROVE  Looking(p)'
    BY DEF Breaker
  <2>2. PICK h \in Callers : call[h].plan = p /\ call[h].pc \in {"readErrors", "failPlan"}
    BY <2>1 DEF Aside, Breaker, Looking
  <2>3. h # g
    BY <2>1, <2>2
  <2> QED BY <2>1, <2>2, <2>3 DEF Looking, Alone
<1> QED BY <1>1, <1>2, <1>3, <1>4, <1>5, <1>6 DEF SpecialStep

LEMMA BreakerStep ==
    ASSUME Typed, Breaker, [Next]_vars
    PROVE  Breaker'
<1>1. CASE Plain
  <2>1. \A p : Looking(p) => Looking(p)'
    BY <1>1 DEF Plain, Looking, Special
  <2> QED BY <1>1, <2>1, BreakerKept DEF Plain, Aside
<1>2. CASE Crash
  <2>1. UNCHANGED plans /\ astray' = astray \cup {call[g].plan : g \in Callers}
    BY <1>2, CrashOK
  <2> QED BY <2>1 DEF Breaker, Looking
<1>3. CASE UNCHANGED vars
  BY <1>3 DEF Breaker, Looking, vars, tables
<1> QED BY <1>1, <1>2, <1>3, NextSteps, BreakerSpecial

\* Three calls with invalid dependencies end a plan, whatever the calls that overlap do.
THEOREM BreakerIsEnforced == Spec => []BreakerHolds
<1>1. Typed /\ Breaker /\ [Next]_vars => (Typed /\ Breaker)'
  BY StepTyped, BreakerStep
<1>2. Init => Typed /\ Breaker
  BY InitTyped, BreakerInit
<1> QED BY <1>1, <1>2, BreakerQuiet, PTL DEF Spec

-----------------------------------------------------------------------------
(* PendingBounded: a call that is about to insert a plan counts as one     *)
(* that waits; a task that does not exist has neither.                     *)

Inserting(t) == {g \in Callers : At(g, "insertPlan") /\ call[g].task = t}
Bound(t) == Cardinality(Pending(t)) + Cardinality(Inserting(t)) <= Cardinality(Callers)
Bounded == \A t \in Nat : Bound(t)

LEMMA BoundedIsPending == Typed /\ Bounded => PendingBounded
BY NoRowZero DEF Typed, Bounded, Bound, Inserting, PendingBounded, Rows

LEMMA Counts ==
    ASSUME Typed, NEW t
    PROVE  /\ IsFiniteSet(Pending(t)) /\ Cardinality(Pending(t)) \in Nat
           /\ IsFiniteSet(Inserting(t)) /\ Cardinality(Inserting(t)) \in Nat
           /\ Cardinality(Inserting(t)) <= Cardinality(Callers)
           /\ IsFiniteSet(Callers) /\ Cardinality(Callers) \in Nat /\ Cardinality(Callers) >= 1
<1>1. IsFiniteSet(DOMAIN plans)
  <2>1. Len(plans) \in Nat /\ DOMAIN plans = 1..Len(plans)
    BY LenProperties DEF Typed, PlansTyped
  <2> QED BY <2>1, FS_Interval
<1>2. Pending(t) \subseteq DOMAIN plans
  BY DEF Pending
<1>3. Inserting(t) \subseteq Callers
  BY DEF Inserting
<1>4. IsFiniteSet(Callers) /\ Callers # {}
  BY ToolsAssumption
<1>5. Cardinality(Callers) \in Nat /\ Cardinality(Callers) # 0
  BY <1>4, FS_CardinalityType, FS_EmptySet
<1> QED BY <1>1, <1>2, <1>3, <1>4, <1>5, FS_Subset, FS_CardinalityType

LEMMA BoundShrinks ==
    ASSUME Typed, Typed', NEW t, Bound(t),
           Pending(t)' \subseteq Pending(t), Inserting(t)' \subseteq Inserting(t)
    PROVE  Bound(t)'
<1>1. Cardinality(Pending(t)') <= Cardinality(Pending(t))
  BY Counts, FS_Subset
<1>2. Cardinality(Inserting(t)') <= Cardinality(Inserting(t))
  BY Counts, FS_Subset
<1>3. Cardinality(Pending(t)') \in Nat /\ Cardinality(Inserting(t)') \in Nat
  <2>1. IsFiniteSet(Pending(t)) /\ IsFiniteSet(Inserting(t))
    BY Counts
  <2> QED BY <2>1, FS_Subset, FS_CardinalityType
<1>4. Cardinality(Pending(t)) \in Nat /\ Cardinality(Inserting(t)) \in Nat /\ Cardinality(Callers) \in Nat
  BY Counts
<1>5. Cardinality(Pending(t)') + Cardinality(Inserting(t)') <= Cardinality(Callers)
  BY <1>1, <1>2, <1>3, <1>4 DEF Bound
<1> QED BY <1>5 DEF Bound

\* Where no plan waits, all the calls may be about to insert one.
LEMMA BoundOfNone ==
    ASSUME Typed, NEW t, Pending(t)' = {}, Inserting(t)' \subseteq Callers
    PROVE  Bound(t)'
<1>1. Cardinality(Pending(t)') = 0
  BY FS_EmptySet
<1>2. IsFiniteSet(Callers) /\ Cardinality(Callers) \in Nat
  BY Counts
<1>3. Cardinality(Inserting(t)') <= Cardinality(Callers) /\ Cardinality(Inserting(t)') \in Nat
  BY <1>2, FS_Subset, FS_CardinalityType
<1>4. Cardinality(Pending(t)') + Cardinality(Inserting(t)') <= Cardinality(Callers)
  BY <1>1, <1>2, <1>3
<1> QED BY <1>4 DEF Bound

LEMMA PendingShrinks ==
    ASSUME Typed, Grown, DOMAIN plans' = DOMAIN plans,
           \A p \in DOMAIN plans : plans'[p].status = "pending" => plans[p].status = "pending",
           NEW t
    PROVE  Pending(t)' \subseteq Pending(t)
BY DEF Pending, Grown, PlansGrow

LEMMA InsertingShrinks ==
    ASSUME NEW g \in Callers, Alone(g), NEW t, call'[g].pc # "insertPlan" \/ call'[g].task # t
    PROVE  Inserting(t)' \subseteq Inserting(t)
BY DEF Inserting, At, Alone

LEMMA BoundedInit == Init => Bounded
<1> SUFFICES ASSUME Init, NEW t \in Nat PROVE Bound(t)
  BY DEF Bounded
<1>1. Inserting(t) = {} /\ Cardinality(Inserting(t)) = 0
  <2>1. Inserting(t) = {}
    BY DEF Init, Inserting, At, Idle
  <2> QED BY <2>1, FS_EmptySet
<1>2. \A p, q \in Pending(t) : p = q
  <2>1. InitPlansOK(plans)
    BY ToolsAssumption DEF Init
  <2> QED BY <2>1 DEF InitPlansOK, Pending
<1>3. Cardinality(Pending(t)) \in {0, 1}
  <2>1. CASE Pending(t) = {}
    BY <2>1, FS_EmptySet
  <2>2. CASE \E p \in Pending(t) : TRUE
    <3>1. PICK p \in Pending(t) : Pending(t) = {p}
      BY <1>2, <2>2
    <3> QED BY <3>1, FS_Singleton
  <2> QED BY <2>1, <2>2
<1>4. Cardinality(Callers) \in Nat /\ Cardinality(Callers) >= 1
  BY InitTyped, Counts
<1> QED BY <1>1, <1>3, <1>4 DEF Bound

LEMMA BoundedInsert ==
    ASSUME Typed, Bounded, NEW g \in Callers, insertPlan(g)
    PROVE  Bounded'
<1> DEFINE n == Len(plans) + 1
<1>1. /\ Typed' /\ Grown /\ plans' = Append(plans, NewPlan(call[g].task)) /\ call[g].task \in Rows
      /\ call[g].pc = "insertPlan" /\ call'[g].pc # "insertPlan" /\ Alone(g)
  BY insertPlanOK
<1>2. call[g].task \in Nat
  BY <1>1, NoRowZero DEF Typed, Rows
<1>3. /\ DOMAIN plans' = DOMAIN plans \cup {n} /\ n \notin DOMAIN plans
      /\ plans'[n] = NewPlan(call[g].task)
      /\ \A p \in DOMAIN plans : plans'[p] = plans[p]
  BY <1>1, <1>2, AddPlan DEF Typed, Rows
<1> HIDE DEF n
<1> SUFFICES ASSUME NEW t \in Nat PROVE Bound(t)'
  BY DEF Bounded
<1>4. Bound(t)
  BY DEF Bounded
<1>5. CASE t # call[g].task
  <2>1. Pending(t)' \subseteq Pending(t)
    BY <1>3, <1>5 DEF Pending, NewPlan
  <2> QED BY <1>1, <1>4, <2>1, InsertingShrinks, BoundShrinks
<1>6. CASE t = call[g].task
  <2>1. Pending(t)' = Pending(t) \cup {n} /\ n \notin Pending(t)
    BY <1>3, <1>6 DEF Pending, NewPlan
  <2>2. Inserting(t)' = Inserting(t) \ {g} /\ g \in Inserting(t)
    BY <1>1, <1>6 DEF Inserting, At, Alone
  <2>3. Cardinality(Pending(t)') = Cardinality(Pending(t)) + 1
    BY <2>1, Counts, FS_AddElement
  <2>4. Cardinality(Inserting(t)') = Cardinality(Inserting(t)) - 1
    BY <2>2, Counts, FS_RemoveElement
  <2>5. Cardinality(Pending(t)') + Cardinality(Inserting(t)') <= Cardinality(Callers)
    BY <1>4, <2>3, <2>4, Counts DEF Bound
  <2> QED BY <2>5 DEF Bound
<1> QED BY <1>5, <1>6

LEMMA BoundedSpecial ==
    ASSUME Typed, Bounded, NEW g \in Callers, SpecialStep(g), ~insertPlan(g)
    PROVE  Bounded'
<1> SUFFICES ASSUME NEW t \in Nat PROVE Bound(t)'
  BY DEF Bounded
<1>1. Typed' /\ Grown /\ Bound(t)
  BY SpecialTyped DEF Bounded
<1>2. DOMAIN plans' = DOMAIN plans /\ Alone(g)
  BY cancelPendingOK, findPlanOK, countErrorOK, readErrorsOK, failPlanOK, ApprovePlanOK,
     readItemsOK, makeTaskOK, phaseTwoOK, linkItemOK, holdItemOK, markItemOK, approvePlanOK
     DEF SpecialStep, Aside
<1>3. Pending(t)' \subseteq Pending(t)
  <2>1. \A p \in DOMAIN plans : plans'[p].status = "pending" => plans[p].status = "pending"
    BY cancelPendingOK, findPlanOK, countErrorOK, readErrorsOK, failPlanOK, ApprovePlanOK,
       readItemsOK, makeTaskOK, phaseTwoOK, linkItemOK, holdItemOK, markItemOK, approvePlanOK
       DEF SpecialStep, Aside
  <2> QED BY <1>1, <1>2, <2>1, PendingShrinks
<1>4. Inserting(t)' \subseteq Callers
  BY DEF Inserting
<1>5. CASE cancelPending(g) \/ findPlan(g)
  <2>1. call'[g].task = call[g].task
    BY <1>5, cancelPendingOK, findPlanOK
  <2>2. CASE call'[g].pc = "insertPlan" /\ t = call[g].task
    <3>1. Pending(t)' = {}
      <4>1. CASE cancelPending(g)
        BY <1>3, <2>2, <4>1, cancelPendingOK DEF Pending
      <4>2. CASE findPlan(g)
        BY <1>3, <2>2, <4>2, findPlanOK
      <4> QED BY <1>5, <4>1, <4>2
    <3> QED BY <1>4, <3>1, BoundOfNone
  <2>3. CASE ~(call'[g].pc = "insertPlan" /\ t = call[g].task)
    BY <1>1, <1>2, <1>3, <2>1, <2>3, InsertingShrinks, BoundShrinks
  <2> QED BY <2>2, <2>3
<1>6. CASE ~(cancelPending(g) \/ findPlan(g))
  <2>1. call'[g].pc # "insertPlan"
    BY <1>6, countErrorOK, readErrorsOK, failPlanOK, ApprovePlanOK,
       readItemsOK, makeTaskOK, phaseTwoOK, linkItemOK, holdItemOK, markItemOK, approvePlanOK
       DEF SpecialStep
  <2> QED BY <1>1, <1>2, <1>3, <2>1, InsertingShrinks, BoundShrinks
<1> QED BY <1>5, <1>6

LEMMA BoundedStep ==
    ASSUME Typed, Bounded, [Next]_vars
    PROVE  Bounded'
<1>1. Typed' /\ Grown
  BY StepTyped
<1> SUFFICES ASSUME NEW t \in Nat, ~\E g \in Callers : SpecialStep(g)
             PROVE  Bound(t)'
  BY BoundedSpecial, BoundedInsert DEF Bounded
<1>2. Bound(t)
  BY DEF Bounded
<1>3. CASE Plain
  <2>1. Inserting(t)' \subseteq Inserting(t)
    BY <1>3 DEF Plain, Inserting, At, Special
  <2> QED BY <1>1, <1>2, <1>3, <2>1, PendingShrinks, BoundShrinks DEF Plain, Aside
<1>4. CASE Crash
  <2>1. Pending(t)' \subseteq Pending(t) /\ Inserting(t)' \subseteq Inserting(t)
    BY <1>4, CrashOK DEF Pending, Inserting, At
  <2> QED BY <1>1, <1>2, <2>1, BoundShrinks
<1>5. CASE UNCHANGED vars
  BY <1>2, <1>5 DEF Bound, Pending, Inserting, At, vars, tables
<1> QED BY <1>3, <1>4, <1>5, NextSteps

\* As many plans of a task wait as calls overlapped, for every number of callers.
THEOREM PendingIsBounded == Spec => []PendingBounded
<1>1. Typed /\ Bounded /\ [Next]_vars => (Typed /\ Bounded)'
  BY StepTyped, BoundedStep
<1>2. Init => Typed /\ Bounded
  BY InitTyped, BoundedInit
<1>3. Typed /\ Bounded => PendingBounded
  BY BoundedIsPending
<1> QED BY <1>1, <1>2, <1>3, PTL DEF Spec

-----------------------------------------------------------------------------
(* QueuedIsReady and GraphsApart: a sub-task of a plan has an item it was  *)
(* made for, and an approval works on a copy of items that do not change.  *)

Origins ==
    \A t \in Rows : task[t].plan # 0 =>
       /\ task[t].plan \in DOMAIN plans /\ task[t].title \in Titles
       /\ plans[task[t].plan].items[task[t].title].approved # "absent"
Copied(c, tasks, ps) ==
    c.pc \in Making =>
       /\ \A x \in DOMAIN c.items : /\ ps[c.plan].items[x].approved # "absent"
                                    /\ ps[c.plan].items[x].deps = c.items[x].deps
       /\ \A x \in Made(c) : /\ tasks[c.made[x]].plan = c.plan /\ tasks[c.made[x]].title = x
                             /\ tasks[c.made[x]].by = c.by
Copies == \A g \in Callers : Copied(call[g], task, plans)
AllApart == \A e \in edges : Apart(e)
Provenance == Origins /\ Copies /\ QueuedIsReady /\ AllApart

LEMMA ApartIsGraphs == Typed /\ AllApart => GraphsApart
<1> SUFFICES ASSUME Typed, AllApart, NEW t \in Rows, NEW s \in listSubTasks(t),
                    NEW u \in GetDependencies(s),
                    task[s].plan # 0, task[u].plan # 0, ~task[s].inWorkflow
             PROVE  task[s].by = task[u].by
  BY DEF GraphsApart
<1>1. PICK e \in edges : e[1] = s /\ e[2] = u
  BY DEF GetDependencies
<1> QED BY <1>1 DEF AllApart, Apart

LEMMA ProvenanceInit == Init => Provenance
<1> SUFFICES ASSUME Init PROVE Provenance
  OBVIOUS
<1>1. Origins
  <2>1. \A t \in Rows : task[t].plan = 0
    BY ToolsAssumption DEF Init, Rows, InitTasksOK
  <2> QED BY <2>1 DEF Origins
<1>2. Copies
  BY DEF Init, Copies, Copied, Idle, Making
<1>3. QueuedIsReady
  BY EmptySeq DEF Init, QueuedIsReady
<1>4. AllApart
  BY DEF Init, AllApart
<1> QED BY <1>1, <1>2, <1>3, <1>4 DEF Provenance

\* What a call and the fields of a row refer to.
LEMMA MakingAt ==
    ASSUME Typed, NEW g \in Callers, call[g].pc \in Making
    PROVE  /\ call[g].plan \in DOMAIN plans /\ call[g].plan # 0
           /\ DOMAIN call[g].items \subseteq Titles
           /\ Made(call[g]) \subseteq DOMAIN call[g].items
           /\ \A x \in Made(call[g]) : call[g].made[x] \in Rows /\ call[g].made[x] # 0
<1>1. call[g] \in Calls /\ Fits(call[g], task, plans)
  BY DEF Typed, CallsTyped
<1>2. DOMAIN call[g].items \subseteq Titles
  BY <1>1, ListTypes DEF Calls
<1>3. call[g].pc \in OnPlan
  BY DEF OnPlan, Choosing
<1> QED BY <1>1, <1>2, <1>3 DEF Fits, References, TitlesNamed, Made, Rows

\* The tables only grow: what a copy says of them stays so.
LEMMA CopiedKept ==
    ASSUME Typed, Grown, NEW g \in Callers, Copied(call[g], task, plans)
    PROVE  Copied(call[g], task', plans')
<1> SUFFICES ASSUME call[g].pc \in Making
             PROVE  /\ \A x \in DOMAIN call[g].items :
                          /\ plans'[call[g].plan].items[x].approved # "absent"
                          /\ plans'[call[g].plan].items[x].deps = call[g].items[x].deps
                    /\ \A x \in Made(call[g]) : /\ task'[call[g].made[x]].plan = call[g].plan
                                                /\ task'[call[g].made[x]].title = x
                                                /\ task'[call[g].made[x]].by = call[g].by
  BY DEF Copied
<1>1. /\ \A x \in DOMAIN call[g].items : /\ plans[call[g].plan].items[x].approved # "absent"
                                         /\ plans[call[g].plan].items[x].deps = call[g].items[x].deps
      /\ \A x \in Made(call[g]) : /\ task[call[g].made[x]].plan = call[g].plan
                                  /\ task[call[g].made[x]].title = x
                                  /\ task[call[g].made[x]].by = call[g].by
  BY DEF Copied
<1>2. \A x \in DOMAIN call[g].items : KeptItem(plans[call[g].plan].items[x], plans'[call[g].plan].items[x])
  BY MakingAt DEF Grown, PlansGrow
<1>3. \A x \in DOMAIN call[g].items :
         /\ plans'[call[g].plan].items[x].approved # "absent"
         /\ plans'[call[g].plan].items[x].deps = call[g].items[x].deps
  BY <1>1, <1>2 DEF KeptItem
<1>4. \A x \in Made(call[g]) : /\ task'[call[g].made[x]].plan = call[g].plan
                               /\ task'[call[g].made[x]].title = x
                               /\ task'[call[g].made[x]].by = call[g].by
  BY <1>1, MakingAt DEF Grown, TasksGrow, Rows
<1> QED BY <1>3, <1>4

\* A call that goes on with the same work, and the others that stay where they are.
LEMMA CopiesKept ==
    ASSUME Typed, Grown, Copies, NEW g \in Callers, Alone(g),
           Copied(call'[g], task', plans')
    PROVE  Copies'
BY CopiedKept DEF Copies, Alone

LEMMA WorkGoesOn ==
    ASSUME Typed, Grown, Copies, NEW g \in Callers, Alone(g), SameWork(g),
           call'[g].made = call[g].made, call[g].pc \in Making
    PROVE  Copies'
<1>1. Copied(call[g], task', plans')
  BY CopiedKept DEF Copies
<1>2. Made(call'[g]) = Made(call[g])
  BY DEF Made
<1>3. Copied(call'[g], task', plans')
  BY <1>1, <1>2 DEF Copied, SameWork
<1> QED BY <1>3, CopiesKept

LEMMA OriginsKept ==
    ASSUME Typed, Grown, Origins,
           \A t \in DOMAIN task' \ DOMAIN task : task'[t].plan = 0
    PROVE  Origins'
<1> SUFFICES ASSUME NEW t \in DOMAIN task', task'[t].plan # 0
             PROVE  /\ task'[t].plan \in DOMAIN plans' /\ task'[t].title \in Titles
                    /\ plans'[task'[t].plan].items[task'[t].title].approved # "absent"
  BY DEF Origins, Rows
<1>1. t \in Rows /\ task'[t].plan = task[t].plan /\ task'[t].title = task[t].title
  BY DEF Grown, TasksGrow, Rows
<1> DEFINE p == task[t].plan
           x == task[t].title
<1>2. p \in DOMAIN plans /\ x \in Titles /\ plans[p].items[x].approved # "absent"
  BY <1>1 DEF Origins
<1>3. p \in DOMAIN plans' /\ KeptItem(plans[p].items[x], plans'[p].items[x])
  BY <1>2 DEF Grown, PlansGrow
<1> QED BY <1>1, <1>2, <1>3 DEF KeptItem

LEMMA ReadyKept ==
    ASSUME Typed, Grown, Origins, QueuedIsReady, NEW i \in DOMAIN queue,
           task'[queue[i].task].plan # 0
    PROVE  plans'[task'[queue[i].task].plan].items[task'[queue[i].task].title].deps = {}
<1> DEFINE t == queue[i].task
           p == task[t].plan
           x == task[t].title
<1>1. t \in Rows
  <2>1. queue \in Seq([task : Rows, agent : Agents])
    BY DEF Typed, OthersTyped
  <2>2. queue[i] \in [task : Rows, agent : Agents]
    BY <2>1, ElementOfSeq, LenProperties
  <2> QED BY <2>2
<1>2. task'[t].plan = p /\ task'[t].title = x
  BY <1>1 DEF Grown, TasksGrow, Rows
<1>3. /\ p \in DOMAIN plans /\ x \in Titles /\ plans[p].items[x].approved # "absent"
      /\ plans[p].items[x].deps = {}
  BY <1>1, <1>2 DEF Origins, QueuedIsReady
<1>4. KeptItem(plans[p].items[x], plans'[p].items[x])
  BY <1>3 DEF Grown, PlansGrow
<1> QED BY <1>2, <1>3, <1>4 DEF KeptItem

LEMMA ApartKept ==
    ASSUME Typed, Grown, AllApart, Unmixed
    PROVE  AllApart'
<1> SUFFICES ASSUME NEW e \in edges' PROVE Apart(e)'
  BY DEF AllApart
<1>1. e[1] \in Rows /\ e[2] \in Rows /\ Apart(e)
  BY DEF Typed, OthersTyped, AllApart, Unmixed
<1> QED BY <1>1 DEF Apart, Grown, TasksGrow, Rows

LEMMA ProvenanceKept ==
    ASSUME Typed, Grown, Provenance, Unmixed, Copies', UNCHANGED queue,
           \A t \in DOMAIN task' \ DOMAIN task : task'[t].plan = 0
    PROVE  Provenance'
<1>1. Origins' /\ AllApart'
  BY OriginsKept, ApartKept DEF Provenance
<1>2. QueuedIsReady'
  BY ReadyKept DEF Provenance, QueuedIsReady
<1> QED BY <1>1, <1>2 DEF Provenance

LEMMA ProvenanceSpecial ==
    ASSUME Typed, Provenance, NEW g \in Callers, SpecialStep(g)
    PROVE  Provenance'
<1>0. Typed' /\ Grown /\ Copies /\ Copied(call[g], task, plans)
  BY SpecialTyped DEF Provenance, Copies
<1>1. CASE \/ cancelPending(g) \/ insertPlan(g) \/ findPlan(g) \/ countError(g) \/ readErrors(g)
           \/ failPlan(g) \/ approvePlan(g)
           \/ \E t \in Rows, sel \in {{}} \cup {{x} : x \in Titles} : ApprovePlan(g, t, sel)
  <2>1. Unmixed /\ Alone(g) /\ UNCHANGED <<task, queue>> /\ call'[g].pc \notin Making
    BY <1>1, cancelPendingOK, insertPlanOK, findPlanOK, countErrorOK, readErrorsOK, failPlanOK,
       approvePlanOK, ApprovePlanOK DEF Aside, Making
  <2>2. Copies'
    BY <1>0, <2>1, CopiesKept DEF Copied
  <2> QED BY <1>0, <2>1, <2>2, ProvenanceKept
<1>2. CASE readItems(g)
  <2>1. Unmixed /\ Alone(g) /\ UNCHANGED <<task, plans, queue>>
    BY <1>2, readItemsOK
  <2>2. Copied(call'[g], task', plans')
    <3> SUFFICES ASSUME call'[g].pc \in Making
                 PROVE  /\ \A x \in DOMAIN call'[g].items :
                             /\ plans[call'[g].plan].items[x].approved # "absent"
                             /\ plans[call'[g].plan].items[x].deps = call'[g].items[x].deps
                        /\ Made(call'[g]) = {}
      BY <2>1 DEF Copied
    <3>1. call'[g].pc # "idle"
      BY DEF Making
    <3> QED BY <1>2, <3>1, readItemsOK DEF Made
  <2> QED BY <1>0, <2>1, <2>2, CopiesKept, ProvenanceKept
<1>3. CASE phaseTwo(g) \/ markItem(g)
  <2>1. /\ Unmixed /\ Alone(g) /\ UNCHANGED <<task, queue>> /\ SameWork(g)
        /\ call'[g].made = call[g].made /\ call[g].pc \in Making
    BY <1>3, phaseTwoOK, markItemOK DEF Making
  <2> QED BY <1>0, <2>1, WorkGoesOn, ProvenanceKept
<1>4. CASE linkItem(g)
  <2>1. /\ Alone(g) /\ UNCHANGED <<task, plans, queue>> /\ SameWork(g)
        /\ call'[g].made = call[g].made /\ call[g].pc \in Making
        /\ \A e \in edges' \ edges : \E x, y \in Made(call[g]) : e = <<call[g].made[x], call[g].made[y]>>
    BY <1>4, linkItemOK DEF Making
  <2>2. Unmixed
    <3> SUFFICES ASSUME NEW x \in Made(call[g]), NEW y \in Made(call[g])
                 PROVE  /\ <<call[g].made[x], call[g].made[y]>> \in Rows \X Rows
                        /\ task[call[g].made[x]].by = task[call[g].made[y]].by
      BY <2>1 DEF Unmixed, Apart
    <3> QED BY <1>0, <2>1, MakingAt DEF Copied
  <2> QED BY <1>0, <2>1, <2>2, WorkGoesOn, ProvenanceKept
<1>5. CASE makeTask(g)
  <2>1. /\ Unmixed /\ Alone(g) /\ SameWork(g) /\ UNCHANGED <<edges, plans, queue, astray>>
        /\ call[g].pc = "makeTask" /\ call'[g].pc = "makeTask"
    BY <1>5, makeTaskOK
  <2>2. call[g].pc \in Making
    BY <2>1 DEF Making
  <2>3. PICK x \in call[g].todo :
          /\ x \in Titles /\ x \in DOMAIN call[g].items
          /\ \/ call'[g].made = call[g].made /\ UNCHANGED task
             \/ \E n \in Nat \ {0} :
                  /\ n \notin DOMAIN task /\ DOMAIN task' = DOMAIN task \cup {n}
                  /\ \A t \in DOMAIN task : task'[t] = task[t]
                  /\ task'[n].plan = call[g].plan /\ task'[n].title = x /\ task'[n].by = call[g].by
                  /\ \A y \in Titles : call'[g].made[y] = IF y = x THEN n ELSE call[g].made[y]
    BY <1>5, makeTaskOK
  <2>4. CASE call'[g].made = call[g].made /\ UNCHANGED task
    BY <1>0, <2>1, <2>2, <2>4, WorkGoesOn, ProvenanceKept
  <2>5. CASE \E n \in Nat \ {0} :
               /\ n \notin DOMAIN task /\ DOMAIN task' = DOMAIN task \cup {n}
               /\ \A t \in DOMAIN task : task'[t] = task[t]
               /\ task'[n].plan = call[g].plan /\ task'[n].title = x /\ task'[n].by = call[g].by
               /\ \A y \in Titles : call'[g].made[y] = IF y = x THEN n ELSE call[g].made[y]
    <3>1. PICK n \in Nat \ {0} :
            /\ n \notin DOMAIN task /\ DOMAIN task' = DOMAIN task \cup {n}
            /\ \A t \in DOMAIN task : task'[t] = task[t]
            /\ task'[n].plan = call[g].plan /\ task'[n].title = x /\ task'[n].by = call[g].by
            /\ \A y \in Titles : call'[g].made[y] = IF y = x THEN n ELSE call[g].made[y]
      BY <2>5
    <3>2. /\ \A y \in DOMAIN call[g].items : /\ plans[call[g].plan].items[y].approved # "absent"
                                             /\ plans[call[g].plan].items[y].deps = call[g].items[y].deps
          /\ \A y \in Made(call[g]) : /\ task[call[g].made[y]].plan = call[g].plan
                                      /\ task[call[g].made[y]].title = y
                                      /\ task[call[g].made[y]].by = call[g].by
      BY <1>0, <2>2 DEF Copied
    <3>3. \A y \in Made(call'[g]) : y = x \/ (y \in Made(call[g]) /\ call'[g].made[y] = call[g].made[y])
      BY <3>1 DEF Made
    <3>4. \A y \in Made(call'[g]) : /\ task'[call'[g].made[y]].plan = call'[g].plan
                                    /\ task'[call'[g].made[y]].title = y
                                    /\ task'[call'[g].made[y]].by = call'[g].by
      <4> SUFFICES ASSUME NEW y \in Made(call'[g])
                   PROVE  /\ task'[call'[g].made[y]].plan = call'[g].plan
                          /\ task'[call'[g].made[y]].title = y
                          /\ task'[call'[g].made[y]].by = call'[g].by
        OBVIOUS
      <4>1. CASE y = x
        BY <2>1, <2>3, <3>1, <4>1 DEF SameWork
      <4>2. CASE y # x
        <5>1. y \in Made(call[g]) /\ call'[g].made[y] = call[g].made[y]
          BY <3>3, <4>2
        <5>2. call[g].made[y] \in DOMAIN task
          BY <2>2, <5>1, MakingAt DEF Rows
        <5> QED BY <2>1, <3>1, <3>2, <5>1, <5>2 DEF SameWork
      <4> QED BY <4>1, <4>2
    <3>5. Copied(call'[g], task', plans')
      BY <2>1, <3>2, <3>4 DEF Copied, SameWork
    <3>6. Copies'
      BY <1>0, <2>1, <3>5, CopiesKept
    <3>7. Origins'
      <4> SUFFICES ASSUME NEW t \in DOMAIN task', task'[t].plan # 0
                   PROVE  /\ task'[t].plan \in DOMAIN plans' /\ task'[t].title \in Titles
                          /\ plans'[task'[t].plan].items[task'[t].title].approved # "absent"
        BY DEF Origins, Rows
      <4>1. CASE t \in DOMAIN task
        BY <2>1, <3>1, <4>1 DEF Provenance, Origins, Rows
      <4>2. CASE t = n
        BY <2>1, <2>2, <2>3, <3>1, <3>2, <4>2, MakingAt
      <4> QED BY <3>1, <4>1, <4>2
    <3>8. QueuedIsReady'
      BY <1>0, <2>1, ReadyKept DEF Provenance, QueuedIsReady
    <3> QED BY <1>0, <2>1, <3>6, <3>7, <3>8, ApartKept DEF Provenance
  <2> QED BY <2>3, <2>4, <2>5
<1>6. CASE holdItem(g)
  <2>1. /\ Unmixed /\ Alone(g) /\ SameWork(g) /\ UNCHANGED <<edges, plans>> /\ DOMAIN task' = DOMAIN task
        /\ call'[g].made = call[g].made /\ call[g].pc \in Making
    BY <1>6, holdItemOK DEF Making
  <2>2. Copies'
    BY <1>0, <2>1, WorkGoesOn
  <2>3. CASE queue' = queue
    BY <1>0, <2>1, <2>2, <2>3, ProvenanceKept
  <2>4. CASE \E x \in Made(call[g]), a \in Agents :
               /\ queue' = Append(queue, [task |-> call[g].made[x], agent |-> a])
               /\ call[g].items[x].deps = {}
    <3>1. PICK x \in Made(call[g]), a \in Agents :
               /\ queue' = Append(queue, [task |-> call[g].made[x], agent |-> a])
               /\ call[g].items[x].deps = {}
      BY <2>4
    <3> DEFINE s == call[g].made[x]
               e == [task |-> s, agent |-> a]
    <3>2. s \in Rows /\ x \in DOMAIN call[g].items
      BY <2>1, MakingAt
    <3>3. task'[s].plan = call[g].plan /\ task'[s].title = x
      <4>1. task[s].plan = call[g].plan /\ task[s].title = x
        BY <1>0, <2>1 DEF Copied
      <4> QED BY <1>0, <3>2, <4>1 DEF Grown, TasksGrow, Rows
    <3>4. plans[call[g].plan].items[x].deps = {}
      BY <1>0, <2>1, <3>1, <3>2 DEF Copied
    <3>5. queue \in Seq([task : Rows, agent : Agents]) /\ e \in [task : Rows, agent : Agents]
      BY <3>2 DEF Typed, OthersTyped
    <3>6. /\ DOMAIN queue' = DOMAIN queue \cup {Len(queue) + 1}
          /\ \A i \in DOMAIN queue : queue'[i] = queue[i]
          /\ queue'[Len(queue) + 1] = e
      BY <3>1, <3>5, AppendRow
    <3>7. QueuedIsReady'
      <4> SUFFICES ASSUME NEW i \in DOMAIN queue', task'[queue'[i].task].plan # 0
                   PROVE  plans'[task'[queue'[i].task].plan].items[task'[queue'[i].task].title].deps = {}
        BY DEF QueuedIsReady
      <4>1. CASE i \in DOMAIN queue
        BY <1>0, <3>6, <4>1, ReadyKept DEF Provenance
      <4>2. CASE i = Len(queue) + 1
        <5>1. queue'[i].task = s
          BY <3>6, <4>2
        <5> QED BY <2>1, <3>3, <3>4, <5>1
      <4> QED BY <3>6, <4>1, <4>2
    <3>8. Origins'
      BY <1>0, <2>1, OriginsKept DEF Provenance
    <3> QED BY <1>0, <2>1, <2>2, <3>7, <3>8, ApartKept DEF Provenance
  <2> QED BY <1>6, <2>3, <2>4, holdItemOK
<1> QED BY <1>1, <1>2, <1>3, <1>4, <1>5, <1>6 DEF SpecialStep

LEMMA ProvenanceStep ==
    ASSUME Typed, Provenance, [Next]_vars
    PROVE  Provenance'
<1>1. Typed' /\ Grown /\ Copies
  BY StepTyped DEF Provenance
<1>2. CASE Plain
  <2>1. Copies'
    <3> SUFFICES ASSUME NEW h \in Callers PROVE Copied(call'[h], task', plans')
      BY DEF Copies
    <3>1. CASE call'[h] = call[h]
      BY <1>1, <3>1, CopiedKept DEF Copies
    <3>2. CASE call'[h].pc \notin Special
      BY <3>2 DEF Copied, Special, Choosing
    <3> QED BY <1>2, <3>1, <3>2 DEF Plain
  <2> QED BY <1>1, <1>2, <2>1, ProvenanceKept DEF Plain, Aside
<1>3. CASE Crash
  <2>1. Copies'
    BY <1>3, CrashOK DEF Copies, Copied, Making
  <2>2. Unmixed /\ UNCHANGED <<task, queue>>
    BY <1>3, CrashOK
  <2> QED BY <1>1, <2>1, <2>2, ProvenanceKept
<1>4. CASE UNCHANGED vars
  BY <1>4 DEF Provenance, Origins, Copies, Copied, QueuedIsReady, AllApart, Apart, Rows, vars, tables
<1> QED BY <1>2, <1>3, <1>4, NextSteps, ProvenanceSpecial

\* The approval gives no sub-task to its agent whose item has dependencies.
THEOREM QueuedTasksAreReady == Spec => []QueuedIsReady
<1>1. Typed /\ Provenance /\ [Next]_vars => (Typed /\ Provenance)'
  BY StepTyped, ProvenanceStep
<1>2. Init => Typed /\ Provenance
  BY InitTyped, ProvenanceInit
<1>3. Provenance => QueuedIsReady
  BY DEF Provenance
<1> QED BY <1>1, <1>2, <1>3, PTL DEF Spec

\* However approvals overlap, each builds a graph of its own.
THEOREM GraphsStayApart == Spec => []GraphsApart
<1>1. Typed /\ Provenance /\ [Next]_vars => (Typed /\ Provenance)'
  BY StepTyped, ProvenanceStep
<1>2. Init => Typed /\ Provenance
  BY InitTyped, ProvenanceInit
<1>3. Typed /\ Provenance => GraphsApart
  BY ApartIsGraphs DEF Provenance
<1> QED BY <1>1, <1>2, <1>3, PTL DEF Spec

-----------------------------------------------------------------------------
(* OneTaskPerItem: one call at a time approves a plan, it finds no         *)
(* sub-task of the plan, and it has those it makes in hand until their     *)
(* items name them.                                                        *)

Chooses(c, p) == c.plan = p /\ c.pc \in Choosing
Makes(c, p) == c.plan = p /\ c.pc \in Making
SubTasks(p) == {t \in Rows : task[t].plan = p}
Named(t) == plans[task[t].plan].items[task[t].title].real = t
InHand(c, t) == /\ c.made[task[t].title] = t
                /\ c.pc = "makeTask" \/ task[t].title \in c.todo \/ Named(t)

OneApproval(p) == \A g, h \in Callers : Chooses(call[g], p) /\ Chooses(call[h], p) => g = h
Settled(p) ==
    SubTasks(p) # {} => plans[p].status # "pending" \/ \E g \in Callers : Makes(call[g], p)
Owned(p) ==
    \A t \in SubTasks(p) : \/ Named(t) /\ ~\E g \in Callers : Makes(call[g], p)
                           \/ \E g \in Callers : Makes(call[g], p) /\ InHand(call[g], t)
Fresh(p) ==
    (\E g \in Callers : call[g].plan = p /\ call[g].pc = "readItems") => SubTasks(p) = {}
Single(p) == OneApproval(p) /\ Settled(p) /\ Owned(p) /\ Fresh(p)
Singles == \A p \in DOMAIN plans : p \in astray \/ Single(p)

LEMMA SinglesQuiet == Typed /\ Provenance /\ Singles => OneTaskPerItem
<1> SUFFICES ASSUME Provenance, Singles, Quiet, NEW s \in Rows, task[s].plan \notin astray \cup {0}
             PROVE  plans[task[s].plan].items[task[s].title].real = s
  BY DEF OneTaskPerItem, listSubTasks
<1>1. task[s].plan \in DOMAIN plans
  BY DEF Provenance, Origins
<1>2. ~\E g \in Callers : Makes(call[g], task[s].plan)
  BY DEF Quiet, At, Makes, Making
<1> QED BY <1>1, <1>2 DEF Singles, Single, Owned, SubTasks, Named

LEMMA SinglesInit == Init => Singles
<1> SUFFICES ASSUME Init, NEW p \in DOMAIN plans PROVE Single(p)
  BY DEF Singles
<1>1. InitPlansOK(plans)
  BY ToolsAssumption DEF Init
<1>2. p # 0
  BY <1>1, LenProperties DEF InitPlansOK
<1>3. SubTasks(p) = {}
  BY <1>2, ToolsAssumption DEF Init, SubTasks, Rows, InitTasksOK
<1>4. \A g \in Callers : call[g].pc = "idle"
  BY DEF Init, Idle
<1> QED BY <1>3, <1>4 DEF Single, OneApproval, Settled, Owned, Fresh, Chooses, Choosing, Making

\* The sub-tasks a plan had stay what they were.
LEMMA SubTasksKept ==
    ASSUME Typed, Grown, NEW p
    PROVE  /\ \A t \in SubTasks(p) : /\ t \in Rows /\ t \in SubTasks(p)'
                                     /\ task'[t].plan = task[t].plan /\ task'[t].title = task[t].title
           /\ \A t \in SubTasks(p)' : t \in SubTasks(p) \/ (t \in DOMAIN task' \ DOMAIN task /\ task'[t].plan = p)
BY DEF SubTasks, Rows, Grown, TasksGrow

\* A step that is not about plan p: no sub-task, no approval of it.
LEMMA SingleAside ==
    ASSUME Typed, Grown, Origins, NEW p \in DOMAIN plans, Single(p),
           \A t \in DOMAIN task' \ DOMAIN task : task'[t].plan # p,
           plans'[p].status = "pending" => plans[p].status = "pending",
           \A x \in Titles : plans[p].items[x].approved # "absent"
                               => plans'[p].items[x].real = plans[p].items[x].real,
           \A h \in Callers : \/ call'[h] = call[h]
                              \/ ~Chooses(call[h], p) /\ ~Chooses(call'[h], p)
    PROVE  Single(p)'
<1>1. SubTasks(p)' = SubTasks(p)
  BY SubTasksKept
<1>2. p # 0
  BY NoRowZero DEF Typed
<1>3. \A t \in SubTasks(p) : task'[t].plan = p /\ task[t].plan = p /\ task'[t].title = task[t].title
  BY SubTasksKept DEF SubTasks
<1>4. \A t \in SubTasks(p) : Named(t)' <=> Named(t)
  <2> SUFFICES ASSUME NEW t \in SubTasks(p)
               PROVE  plans'[p].items[task[t].title].real = plans[p].items[task[t].title].real
    BY <1>3 DEF Named
  <2>1. task[t].title \in Titles /\ plans[p].items[task[t].title].approved # "absent"
    BY <1>2, <1>3 DEF Origins, SubTasks
  <2> QED BY <2>1
<1>5. \A h \in Callers : \/ call'[h] = call[h]
                         \/ ~Makes(call[h], p) /\ ~Makes(call'[h], p)
  BY DEF Chooses, Makes, Choosing
<1>6. OneApproval(p)'
  BY DEF Single, OneApproval, Chooses
<1>7. \A h \in Callers : Makes(call'[h], p) <=> Makes(call[h], p)
  BY <1>5
<1>8. Settled(p)'
  BY <1>1, <1>7 DEF Single, Settled
<1>9. Fresh(p)'
  <2>1. \A h \in Callers : call'[h].plan = p /\ call'[h].pc = "readItems"
                             => call[h].plan = p /\ call[h].pc = "readItems"
    BY DEF Chooses, Choosing
  <2> QED BY <1>1, <2>1 DEF Single, Fresh
<1>10. Owned(p)'
  <2> SUFFICES ASSUME NEW t \in SubTasks(p)
               PROVE  \/ Named(t)' /\ ~\E g \in Callers : Makes(call'[g], p)
                      \/ \E g \in Callers : Makes(call'[g], p) /\ InHand(call[g], t)'
    BY <1>1 DEF Owned
  <2>1. CASE Named(t) /\ ~\E g \in Callers : Makes(call[g], p)
    BY <1>4, <1>7, <2>1
  <2>2. CASE \E g \in Callers : Makes(call[g], p) /\ InHand(call[g], t)
    <3>1. PICK g \in Callers : Makes(call[g], p) /\ InHand(call[g], t)
      BY <2>2
    <3>2. call'[g] = call[g]
      BY <1>5, <3>1
    <3>3. InHand(call[g], t)'
      BY <1>3, <1>4, <3>1, <3>2 DEF InHand
    <3> QED BY <3>1, <3>2, <3>3
  <2> QED BY <2>1, <2>2 DEF Single, Owned
<1> QED BY <1>6, <1>8, <1>9, <1>10 DEF Single

\* A step of the call that approves p, which stays the only one.
LEMMA SingleWork ==
    ASSUME Typed, Grown, NEW g \in Callers, NEW p \in DOMAIN plans, Single(p), Alone(g),
           Makes(call[g], p), Makes(call'[g], p),
           \A t \in DOMAIN task' \ DOMAIN task : task'[t].plan = p => InHand(call[g], t)',
           \A t \in SubTasks(p) : InHand(call[g], t) => InHand(call[g], t)'
    PROVE  Single(p)'
<1>1. \A h \in Callers : Chooses(call[h], p) => h = g
  BY DEF Single, OneApproval, Makes, Chooses, Choosing
<1>2. \A h \in Callers : Chooses(call'[h], p) => h = g
  BY <1>1 DEF Alone
<1>3. OneApproval(p)'
  BY <1>2 DEF OneApproval
<1>4. Settled(p)'
  BY DEF Settled
<1>5. Fresh(p)'
  <2>1. \A h \in Callers : call'[h].plan = p /\ call'[h].pc = "readItems" => h = g
    BY <1>2 DEF Chooses, Choosing
  <2>2. call'[g].pc # "readItems"
    BY DEF Makes, Making
  <2> QED BY <2>1, <2>2 DEF Fresh
<1>6. Owned(p)'
  <2> SUFFICES ASSUME NEW t \in SubTasks(p)' PROVE InHand(call[g], t)'
    BY DEF Owned
  <2>1. CASE t \in SubTasks(p)
    <3>1. PICK h \in Callers : Makes(call[h], p) /\ InHand(call[h], t)
      BY <2>1 DEF Single, Owned
    <3>2. h = g
      BY <1>1, <3>1 DEF Makes, Chooses, Choosing
    <3> QED BY <2>1, <3>1, <3>2
  <2>2. CASE t \in DOMAIN task' \ DOMAIN task /\ task'[t].plan = p
    BY <2>2
  <2> QED BY <2>1, <2>2, SubTasksKept
<1> QED BY <1>3, <1>4, <1>5, <1>6 DEF Single

\* The approval of another plan changes nothing for this one.
LEMMA SingleOfOthers ==
    ASSUME Typed, Grown, Origins, NEW g \in Callers, NEW p \in DOMAIN plans, Single(p), Alone(g),
           ~Chooses(call[g], p), ~Chooses(call'[g], p),
           \A t \in DOMAIN task' \ DOMAIN task : task'[t].plan # p,
           plans'[p].status = "pending" => plans[p].status = "pending",
           \A x \in Titles : plans[p].items[x].approved # "absent"
                               => plans'[p].items[x].real = plans[p].items[x].real
    PROVE  Single(p)'
BY SingleAside DEF Alone

LEMMA SinglesAside ==
    ASSUME Typed, Provenance, NEW g \in Callers, NEW p \in DOMAIN plans, Single(p),
           cancelPending(g) \/ findPlan(g) \/ countError(g) \/ readErrors(g) \/ failPlan(g)
    PROVE  Single(p)'
<1>1. Grown /\ Origins /\ Alone(g) /\ UNCHANGED task
  BY cancelPendingOK, findPlanOK, countErrorOK, readErrorsOK, failPlanOK DEF Provenance
<1>2. call[g].pc \notin Choosing /\ call'[g].pc \notin Choosing
  BY cancelPendingOK, findPlanOK, countErrorOK, readErrorsOK, failPlanOK DEF Choosing, Making
<1>3. /\ plans'[p].status = "pending" => plans[p].status = "pending"
      /\ \A x \in Titles : plans[p].items[x].approved # "absent"
                             => plans'[p].items[x].real = plans[p].items[x].real
  <2>1. CASE countError(g)
    BY <2>1, countErrorOK
  <2>2. CASE cancelPending(g) \/ findPlan(g) \/ readErrors(g) \/ failPlan(g)
    <3>1. Aside
      BY <2>2, cancelPendingOK, findPlanOK, readErrorsOK, failPlanOK
    <3> QED BY <3>1 DEF Aside
  <2> QED BY <2>1, <2>2
<1> QED BY <1>1, <1>2, <1>3, SingleOfOthers DEF Chooses

LEMMA SinglesInsert ==
    ASSUME Typed, Provenance, Singles, NEW g \in Callers, insertPlan(g)
    PROVE  Singles'
<1>1. /\ Grown /\ Origins /\ plans' = Append(plans, NewPlan(call[g].task)) /\ call[g].task \in Rows
      /\ call[g].pc \notin Choosing /\ call'[g].pc \notin Choosing
      /\ Alone(g) /\ UNCHANGED <<task, astray>>
  BY insertPlanOK DEF Provenance, Choosing, Making
<1>2. call[g].task \in Nat
  BY <1>1, NoRowZero DEF Typed, Rows
<1>3. PICK n \in Nat \ {0} : /\ DOMAIN plans' = DOMAIN plans \cup {n} /\ n \notin DOMAIN plans
                             /\ \A p \in DOMAIN plans : plans'[p] = plans[p]
  BY <1>1, <1>2, AddPlan DEF Typed, Rows
<1>4. ASSUME NEW p \in DOMAIN plans, Single(p) PROVE Single(p)'
  BY <1>1, <1>3, <1>4, SingleOfOthers DEF Chooses
<1>5. Single(n)'
  <2>1. \A h \in Callers : call[h].plan # n
    BY <1>3 DEF Typed, CallsTyped, Fits, References
  <2>2. \A h \in Callers : ~Chooses(call'[h], n)
    BY <1>1, <2>1 DEF Alone, Chooses
  <2>3. \A h \in Callers : ~Makes(call'[h], n) /\ ~(call'[h].plan = n /\ call'[h].pc = "readItems")
    BY <2>2 DEF Chooses, Makes, Choosing
  <2>4. SubTasks(n)' = {}
    BY <1>1, <1>3 DEF SubTasks, Origins, Rows
  <2>5. OneApproval(n)'
    BY <1>1, <2>2 DEF OneApproval
  <2>6. Settled(n)' /\ Owned(n)' /\ Fresh(n)'
    BY <2>4 DEF Settled, Owned, Fresh
  <2> QED BY <2>5, <2>6 DEF Single
<1> QED BY <1>1, <1>3, <1>4, <1>5 DEF Singles

\* An approval begins: of a plan that waits and that nobody approves, so that it has no
\* sub-task; or the plan goes astray.
LEMMA SinglesApprove ==
    ASSUME Typed, Provenance, NEW g \in Callers, NEW p \in DOMAIN plans, Single(p), p \notin astray',
           NEW t \in Rows, NEW sel \in {{}} \cup {{x} : x \in Titles}, ApprovePlan(g, t, sel)
    PROVE  Single(p)'
<1>1. /\ Grown /\ Origins /\ Alone(g) /\ UNCHANGED <<task, plans>>
      /\ call[g].pc = "idle" /\ call'[g].pc = "readItems"
      /\ plans[call'[g].plan].status = "pending"
      /\ (\E h \in Callers : Approving(h) /\ call[h].plan = call'[g].plan) => call'[g].plan \in astray'
  BY ApprovePlanOK DEF Provenance
<1>2. CASE call'[g].plan # p
  BY <1>1, <1>2, SingleOfOthers DEF Chooses, Choosing, Making
<1>3. CASE call'[g].plan = p
  <2>1. \A h \in Callers : ~Chooses(call[h], p)
    BY <1>1, <1>3 DEF Approving, Chooses, Choosing, Making
  <2>2. \A h \in Callers : Chooses(call'[h], p) => h = g
    BY <2>1, <1>1 DEF Alone
  <2>3. SubTasks(p) = {}
    <3>1. ~\E h \in Callers : Makes(call[h], p)
      BY <2>1 DEF Chooses, Makes, Choosing
    <3> QED BY <1>1, <1>3, <3>1 DEF Single, Settled
  <2>4. SubTasks(p)' = {}
    BY <1>1, <2>3 DEF SubTasks, Rows
  <2>5. OneApproval(p)'
    BY <2>2 DEF OneApproval
  <2>6. Settled(p)' /\ Owned(p)' /\ Fresh(p)'
    BY <2>4 DEF Settled, Owned, Fresh
  <2> QED BY <2>5, <2>6 DEF Single
<1> QED BY <1>2, <1>3

LEMMA SinglesRead ==
    ASSUME Typed, Provenance, NEW g \in Callers, NEW p \in DOMAIN plans, Single(p), readItems(g)
    PROVE  Single(p)'
<1>1. /\ Grown /\ Origins /\ Alone(g) /\ UNCHANGED <<task, plans>> /\ call[g].pc = "readItems"
      /\ call'[g].pc \in {"idle", "failPlan", "makeTask"}
      /\ call'[g].pc # "idle" => call'[g].plan = call[g].plan
  BY readItemsOK DEF Provenance
<1>2. call'[g].pc \in Choosing => call'[g].plan = call[g].plan
  BY <1>1 DEF Choosing, Making
<1>3. CASE call[g].plan # p
  BY <1>1, <1>2, <1>3, SingleOfOthers DEF Chooses
<1>4. CASE call[g].plan = p
  <2>1. SubTasks(p) = {}
    BY <1>1, <1>4 DEF Single, Fresh
  <2>2. \A h \in Callers : Chooses(call[h], p) => h = g
    BY <1>1, <1>4 DEF Single, OneApproval, Chooses, Choosing
  <2>3. \A h \in Callers : Chooses(call'[h], p) => h = g
    BY <1>1, <2>2 DEF Alone
  <2>4. SubTasks(p)' = {}
    BY <1>1, <2>1 DEF SubTasks, Rows
  <2>5. OneApproval(p)'
    BY <2>3 DEF OneApproval
  <2>6. Settled(p)' /\ Owned(p)' /\ Fresh(p)'
    BY <2>4 DEF Settled, Owned, Fresh
  <2> QED BY <2>5, <2>6 DEF Single
<1> QED BY <1>3, <1>4

LEMMA SinglesMake ==
    ASSUME Typed, Provenance, NEW g \in Callers, NEW p \in DOMAIN plans, Single(p), makeTask(g)
    PROVE  Single(p)'
<1>1. /\ Grown /\ Origins /\ Alone(g) /\ SameWork(g) /\ UNCHANGED plans
      /\ call[g].pc = "makeTask" /\ call'[g].pc = "makeTask"
  BY makeTaskOK DEF Provenance
<1>2. PICK x \in call[g].todo :
        /\ x \in Titles
        /\ \/ call'[g].made = call[g].made /\ UNCHANGED task
           \/ \E n \in Nat \ {0} :
                /\ n \notin DOMAIN task /\ DOMAIN task' = DOMAIN task \cup {n}
                /\ task'[n].plan = call[g].plan /\ task'[n].title = x
                /\ \A y \in Titles : call'[g].made[y] = IF y = x THEN n ELSE call[g].made[y]
  BY makeTaskOK
<1>3. \A t \in DOMAIN task' \ DOMAIN task : /\ task'[t].plan = call[g].plan /\ task'[t].title = x
                                            /\ call'[g].made[x] = t
  BY <1>2
<1>4. \A y \in Titles \ {x} : call'[g].made[y] = call[g].made[y]
  BY <1>2
<1>5. CASE call[g].plan # p
  BY <1>1, <1>3, <1>5, SingleOfOthers DEF Chooses, SameWork
<1>6. CASE call[g].plan = p
  <2>1. Makes(call[g], p) /\ Makes(call'[g], p)
    BY <1>1, <1>6 DEF Makes, Making, SameWork
  <2>2. \A t \in DOMAIN task' \ DOMAIN task : task'[t].plan = p => InHand(call[g], t)'
    BY <1>1, <1>3 DEF InHand
  <2>3. ASSUME NEW t \in SubTasks(p), InHand(call[g], t) PROVE InHand(call[g], t)'
    <3>1. t \in Rows /\ task'[t].title = task[t].title /\ task[t].plan = p
      BY <1>1, <2>3, SubTasksKept DEF SubTasks
    <3>2. task[t].title \in Titles
      BY <1>1, <3>1, NoRowZero DEF Origins, Typed
    <3>3. t # 0
      BY <3>1, NoRowZero DEF Typed, Rows
    <3>4. task[t].title \in Made(call[g])
      BY <2>3, <3>2, <3>3 DEF InHand, Made
    <3>5. call[g].todo \cap Made(call[g]) = {}
      BY <1>1 DEF Typed, CallsTyped, Fits, TitlesNamed
    <3>6. task[t].title # x
      BY <3>4, <3>5, <1>2
    <3> QED BY <1>1, <1>4, <2>3, <3>1, <3>2, <3>6 DEF InHand
  <2> QED BY <1>1, <2>1, <2>2, <2>3, SingleWork
<1> QED BY <1>5, <1>6

LEMMA SinglesGoOn ==
    ASSUME Typed, Provenance, NEW g \in Callers, NEW p \in DOMAIN plans, Single(p),
           phaseTwo(g) \/ linkItem(g) \/ holdItem(g)
    PROVE  Single(p)'
<1>1. /\ Grown /\ Origins /\ Alone(g) /\ SameWork(g) /\ UNCHANGED plans /\ DOMAIN task' = DOMAIN task
      /\ call'[g].made = call[g].made /\ call[g].pc \in Making /\ call'[g].pc \in Making
  BY phaseTwoOK, linkItemOK, holdItemOK DEF Provenance, Making
<1>2. CASE call[g].plan # p
  BY <1>1, <1>2, SingleOfOthers DEF Chooses, SameWork
<1>3. CASE call[g].plan = p
  <2>1. Makes(call[g], p) /\ Makes(call'[g], p)
    BY <1>1, <1>3 DEF Makes, SameWork
  <2>2. ASSUME NEW t \in SubTasks(p), InHand(call[g], t) PROVE InHand(call[g], t)'
    <3>1. t \in Rows /\ task'[t].title = task[t].title /\ task'[t].plan = task[t].plan /\ task[t].plan = p
      BY <1>1, <2>2, SubTasksKept DEF SubTasks
    <3>2. task[t].title \in Titles
      BY <1>1, <3>1, NoRowZero DEF Origins, Typed
    <3>3. task[t].title \in Made(call[g])
      BY <2>2, <3>1, <3>2, NoRowZero DEF InHand, Made, Typed, Rows
    <3>4. Named(t)' <=> Named(t)
      BY <1>1, <3>1 DEF Named
    <3>5. CASE phaseTwo(g)
      BY <1>1, <2>2, <3>1, <3>3, <3>5, phaseTwoOK DEF InHand
    <3>6. CASE linkItem(g) \/ holdItem(g)
      <4>1. call'[g].todo = call[g].todo /\ call[g].pc # "makeTask"
        BY <3>6, linkItemOK, holdItemOK
      <4> QED BY <1>1, <2>2, <3>1, <3>4, <4>1 DEF InHand
    <3> QED BY <3>5, <3>6
  <2> QED BY <1>1, <2>1, <2>2, SingleWork
<1> QED BY <1>2, <1>3

LEMMA SinglesMark ==
    ASSUME Typed, Provenance, NEW g \in Callers, NEW p \in DOMAIN plans, Single(p), markItem(g)
    PROVE  Single(p)'
<1>1. /\ Grown /\ Origins /\ Alone(g) /\ SameWork(g) /\ UNCHANGED task
      /\ call'[g].made = call[g].made /\ call[g].pc \in Making /\ call'[g].pc \in Making
      /\ call[g].pc = "markItem" /\ call'[g].todo = call[g].todo \ {call[g].title}
      /\ plans'[p].status = plans[p].status
      /\ \A x \in Titles : plans'[p].items[x].real = IF p = call[g].plan /\ x = call[g].title
                                                     THEN call[g].made[x] ELSE plans[p].items[x].real
  BY markItemOK DEF Provenance, Making
<1>2. CASE call[g].plan # p
  BY <1>1, <1>2, SingleOfOthers DEF Chooses, SameWork
<1>3. CASE call[g].plan = p
  <2>1. Makes(call[g], p) /\ Makes(call'[g], p)
    BY <1>1, <1>3 DEF Makes, SameWork
  <2>2. ASSUME NEW t \in SubTasks(p), InHand(call[g], t) PROVE InHand(call[g], t)'
    <3>1. t \in Rows /\ task[t].plan = p
      BY <2>2 DEF SubTasks
    <3>2. task[t].title \in Titles
      BY <1>1, <3>1, NoRowZero DEF Origins, Typed
    <3>3. CASE task[t].title = call[g].title
      BY <1>1, <1>3, <2>2, <3>1, <3>2, <3>3 DEF InHand, Named
    <3>4. CASE task[t].title # call[g].title
      <4>1. Named(t)' <=> Named(t)
        BY <1>1, <3>1, <3>2, <3>4 DEF Named
      <4> QED BY <1>1, <2>2, <3>4, <4>1 DEF InHand
    <3> QED BY <3>3, <3>4
  <2> QED BY <1>1, <2>1, <2>2, SingleWork
<1> QED BY <1>2, <1>3

\* The approval is over: every sub-task it made is named by its item.
LEMMA SinglesEnd ==
    ASSUME Typed, Provenance, NEW g \in Callers, NEW p \in DOMAIN plans, Single(p), approvePlan(g)
    PROVE  Single(p)'
<1>1. /\ Grown /\ Origins /\ Aside /\ Alone(g) /\ UNCHANGED task
      /\ \A q \in DOMAIN plans : plans'[q].items = plans[q].items
      /\ plans'[call[g].plan].status = "approved"
      /\ call[g].pc = "approvePlan" /\ call'[g].pc = "blockParent"
  BY approvePlanOK DEF Provenance
<1>2. ~Chooses(call'[g], p)
  BY <1>1 DEF Chooses, Choosing, Making
<1>3. CASE call[g].plan # p
  BY <1>1, <1>2, <1>3, SingleOfOthers DEF Chooses, Aside
<1>4. CASE call[g].plan = p
  <2>1. Makes(call[g], p) /\ Chooses(call[g], p)
    BY <1>1, <1>4 DEF Makes, Chooses, Choosing, Making
  <2>2. \A h \in Callers : Chooses(call[h], p) => h = g
    BY <2>1 DEF Single, OneApproval
  <2>3. \A h \in Callers : ~Chooses(call'[h], p)
    BY <1>1, <1>2, <2>2 DEF Alone
  <2>4. \A h \in Callers : ~Makes(call'[h], p) /\ ~(call'[h].plan = p /\ call'[h].pc = "readItems")
    BY <2>3 DEF Chooses, Makes, Choosing
  <2>5. call[g].todo = {}
    BY <1>1 DEF Typed, CallsTyped, Fits, TitlesNamed
  <2>6. Owned(p)'
    <3> SUFFICES ASSUME NEW t \in Rows, task[t].plan = p PROVE Named(t)'
      BY <1>1, <2>4 DEF Owned, SubTasks, Rows
    <3>1. PICK h \in Callers : Makes(call[h], p) /\ InHand(call[h], t)
      BY <2>1 DEF Single, Owned, SubTasks
    <3>2. h = g
      BY <2>2, <3>1 DEF Makes, Chooses, Choosing
    <3>3. Named(t)
      BY <1>1, <2>5, <3>1, <3>2 DEF InHand
    <3> QED BY <1>1, <3>3 DEF Named
  <2>7. OneApproval(p)' /\ Settled(p)' /\ Fresh(p)'
    BY <1>1, <1>4, <2>3, <2>4 DEF OneApproval, Settled, Fresh
  <2> QED BY <2>6, <2>7 DEF Single
<1> QED BY <1>3, <1>4

LEMMA SinglesSpecial ==
    ASSUME Typed, Provenance, Singles, NEW g \in Callers, SpecialStep(g)
    PROVE  Singles'
<1>1. CASE insertPlan(g)
  BY <1>1, SinglesInsert
<1>2. CASE ~insertPlan(g)
  <2>1. DOMAIN plans' = DOMAIN plans /\ astray \subseteq astray'
    BY <1>2, cancelPendingOK, findPlanOK, countErrorOK, readErrorsOK, failPlanOK, ApprovePlanOK,
       readItemsOK, makeTaskOK, phaseTwoOK, linkItemOK, holdItemOK, markItemOK, approvePlanOK
       DEF SpecialStep, Aside
  <2> SUFFICES ASSUME NEW p \in DOMAIN plans, p \notin astray', Single(p) PROVE Single(p)'
    BY <2>1 DEF Singles
  <2> QED BY <1>2, SinglesAside, SinglesApprove, SinglesRead, SinglesMake, SinglesGoOn, SinglesMark,
             SinglesEnd
             DEF SpecialStep
<1> QED BY <1>1, <1>2

LEMMA SinglesStep ==
    ASSUME Typed, Provenance, Singles, [Next]_vars
    PROVE  Singles'
<1>1. Typed' /\ Grown /\ Origins
  BY StepTyped DEF Provenance
<1>2. CASE Plain
  <2>1. Aside /\ DOMAIN plans' = DOMAIN plans /\ UNCHANGED astray
    BY <1>2 DEF Plain, Aside
  <2> SUFFICES ASSUME NEW p \in DOMAIN plans, Single(p) PROVE Single(p)'
    BY <2>1 DEF Singles
  <2>2. \A h \in Callers : \/ call'[h] = call[h]
                           \/ ~Chooses(call[h], p) /\ ~Chooses(call'[h], p)
    BY <1>2 DEF Plain, Chooses, Special
  <2>3. p # 0
    BY NoRowZero DEF Typed
  <2> QED BY <1>1, <2>1, <2>2, <2>3, SingleAside DEF Aside
<1>3. CASE Crash
  <2>1. /\ UNCHANGED <<task, plans>> /\ \A h \in Callers : call'[h].pc = "idle"
        /\ astray' = astray \cup {call[h].plan : h \in Callers}
    BY <1>3, CrashOK
  <2> SUFFICES ASSUME NEW p \in DOMAIN plans, Single(p), \A h \in Callers : call[h].plan # p
               PROVE  Single(p)'
    BY <2>1 DEF Singles
  <2>2. \A h \in Callers : ~Chooses(call[h], p) /\ ~Chooses(call'[h], p)
    BY <2>1 DEF Chooses, Choosing, Making
  <2> QED BY <1>1, <2>1, <2>2, SingleAside
<1>4. CASE UNCHANGED vars
  <2>1. DOMAIN plans' = DOMAIN plans /\ UNCHANGED <<task, plans, call, astray>>
    BY <1>4 DEF vars, tables
  <2> SUFFICES ASSUME NEW p \in DOMAIN plans, Single(p) PROVE Single(p)'
    BY <2>1 DEF Singles
  <2> QED BY <1>1, <2>1, SingleAside
<1> QED BY <1>2, <1>3, <1>4, NextSteps, SinglesSpecial

\* When no call is running, every sub-task that an approval made is the one its item
\* names, unless the approval was repeated while it ran, or a crash cut it short.
THEOREM OneTaskForEachItem == Spec => []OneTaskPerItem
<1>1. Typed /\ Provenance /\ Singles /\ [Next]_vars => (Typed /\ Provenance /\ Singles)'
  BY StepTyped, ProvenanceStep, SinglesStep
<1>2. Init => Typed /\ Provenance /\ Singles
  BY InitTyped, ProvenanceInit, SinglesInit
<1>3. Typed /\ Provenance /\ Singles => OneTaskPerItem
  BY SinglesQuiet
<1> QED BY <1>1, <1>2, <1>3, PTL DEF Spec

=============================================================================
