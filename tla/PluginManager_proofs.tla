------------------------ MODULE PluginManager_proofs ------------------------
(***************************************************************************)
(* The plugin manager, for every finite set of names, every set of         *)
(* versions and every number of requests and restarts: the types, that     *)
(* what lives of a plugin is what its state says, and that a running       *)
(* plugin is served.                                                       *)
(*                                                                         *)
(* For the type, a request in the middle of a Start has the instance it    *)
(* starts, and later the process it launched (Fits).  For the rest, each   *)
(* registered instance whose state is not mistaken has one starter at      *)
(* most, while its state is "starting", and what lives of it is what the   *)
(* starter launched or the process at its port (Known).  A step that is    *)
(* about another instance leaves this as it is (Elsewhere, StaysKnown); a  *)
(* step that says the plugin has stopped or failed leaves it idle, or is   *)
(* mistaken (IdleKnown).                                                   *)
(***************************************************************************)
EXTENDS PluginManager, SequenceTheorems, FiniteSetTheorems, TLAPS

Starting == {"launch", "handshake", "init"}

\* A request in the middle of a Start has the instance it starts, and later its process.
Fits(k) ==
    /\ work[k].inst \in DOMAIN inst /\ inst[work[k].inst].name = work[k].name
    /\ work[k].pc \in {"handshake", "init"} =>
          work[k].proc \in DOMAIN proc /\ proc[work[k].proc].inst = work[k].inst
    /\ work[k].pc = "init" => inst[work[k].inst].port \in DOMAIN proc

Typed == /\ PluginTypeOK
         /\ \A p \in DOMAIN proc : proc[p].inst \in DOMAIN inst
         /\ \A k \in DOMAIN work : work[k].pc \in Starting => Fits(k)

-----------------------------------------------------------------------------
(* The sequences.                                                          *)

LEMMA Vars ==
    ASSUME Typed
    PROVE  /\ inst \in Seq(Instances) /\ DOMAIN inst = 1 .. Len(inst) /\ Len(inst) \in Nat
           /\ \A i \in DOMAIN inst : inst[i] \in Instances
           /\ proc \in Seq(Processes) /\ DOMAIN proc = 1 .. Len(proc) /\ Len(proc) \in Nat
           /\ \A p \in DOMAIN proc : proc[p] \in Processes
           /\ work \in Seq(Requests) /\ DOMAIN work = 1 .. Len(work) /\ Len(work) \in Nat
           /\ \A k \in DOMAIN work : work[k] \in Requests
           /\ plugins \in [Names -> 0 .. Len(inst)]
           /\ \A n \in Names : plugins[n] # 0 => plugins[n] \in DOMAIN inst /\ inst[plugins[n]].name = n
<1>1. /\ inst \in Seq(Instances) /\ proc \in Seq(Processes) /\ work \in Seq(Requests)
      /\ plugins \in [Names -> 0 .. Len(inst)]
      /\ \A n \in Names : plugins[n] # 0 => inst[plugins[n]].name = n
  BY DEF Typed, PluginTypeOK
<1>2. inst \in [1 .. Len(inst) -> Instances] /\ Len(inst) \in Nat
  BY <1>1, LenProperties
<1>3. proc \in [1 .. Len(proc) -> Processes] /\ Len(proc) \in Nat
  BY <1>1, LenProperties
<1>4. work \in [1 .. Len(work) -> Requests] /\ Len(work) \in Nat
  BY <1>1, LenProperties
<1> QED BY <1>1, <1>2, <1>3, <1>4

\* The request of step k becomes r.
LEMMA SetWork ==
    ASSUME Typed, NEW k \in DOMAIN work, NEW r \in Requests, work' = [work EXCEPT ![k] = r]
    PROVE  /\ work' \in Seq(Requests) /\ DOMAIN work' = DOMAIN work /\ Len(work') = Len(work)
           /\ work'[k] = r /\ \A l \in DOMAIN work : l # k => work'[l] = work[l]
<1>1. work \in Seq(Requests) /\ k \in 1 .. Len(work) /\ DOMAIN work = 1 .. Len(work)
  BY Vars
<1>2. work' \in Seq(Requests) /\ Len(work') = Len(work)
  BY <1>1, ExceptSeq
<1> QED BY <1>1, <1>2, LenProperties

\* What Go makes of it.
Gone(k, pc) ==
    \E r \in Requests :
       /\ work' = [work EXCEPT ![k] = r]
       /\ r.pc = pc /\ r.name = work[k].name /\ r.op = work[k].op /\ r.version = work[k].version
       /\ pc \notin {"next", "done"} => r.inst = work[k].inst /\ r.proc = work[k].proc

LEMMA GoType ==
    ASSUME Typed, NEW k \in DOMAIN work, NEW pc \in Steps, Go(k, pc)
    PROVE  Gone(k, pc)
<1> DEFINE r == IF pc \in {"next", "done"} THEN [work[k] EXCEPT !.pc = pc, !.inst = 0, !.proc = 0]
                ELSE [work[k] EXCEPT !.pc = pc]
<1>1. work[k] \in Requests
  BY Vars
<1>2. r \in Requests
  BY <1>1 DEF Requests
<1>3. work' = [work EXCEPT ![k] = r]
  BY DEF Go
<1>4. /\ r.pc = pc /\ r.name = work[k].name /\ r.op = work[k].op /\ r.version = work[k].version
      /\ pc \notin {"next", "done"} => r.inst = work[k].inst /\ r.proc = work[k].proc
  BY <1>1 DEF Requests
<1> HIDE DEF r
<1> QED BY <1>2, <1>3, <1>4 DEF Gone

\* The state or the port of an instance is written.
SameButState(i, j) == inst'[j].name = inst[j].name /\ inst'[j].port = inst[j].port
                        /\ inst'[j].version = inst[j].version /\ (j # i => inst'[j] = inst[j])

LEMMA WriteState ==
    ASSUME Typed, NEW i \in DOMAIN inst, NEW state \in States, inst' = [inst EXCEPT ![i].state = state]
    PROVE  /\ inst' \in Seq(Instances) /\ Len(inst') = Len(inst) /\ DOMAIN inst' = DOMAIN inst
           /\ inst'[i].state = state /\ \A j \in DOMAIN inst : SameButState(i, j)
<1> DEFINE new == [inst[i] EXCEPT !.state = state]
<1>1. inst[i] \in Instances /\ inst \in Seq(Instances) /\ DOMAIN inst = 1 .. Len(inst)
  BY Vars
<1>2. /\ new \in Instances /\ new.state = state /\ new.name = inst[i].name
      /\ new.port = inst[i].port /\ new.version = inst[i].version
  BY <1>1 DEF Instances
<1>3. inst' = [inst EXCEPT ![i] = new]
  OBVIOUS
<1> HIDE DEF new
<1>4. inst' \in Seq(Instances) /\ Len(inst') = Len(inst)
  BY <1>1, <1>2, <1>3, ExceptSeq
<1>5. DOMAIN inst' = DOMAIN inst /\ inst'[i] = new /\ \A j \in DOMAIN inst : j # i => inst'[j] = inst[j]
  BY <1>1, <1>3
<1> QED BY <1>2, <1>4, <1>5 DEF SameButState

\* SetState writes to the instance the map has, if it has one.
LEMMA SetStateType ==
    ASSUME Typed, NEW n \in Names, NEW state \in States, SetState(n, state)
    PROVE  /\ inst' \in Seq(Instances) /\ Len(inst') = Len(inst) /\ DOMAIN inst' = DOMAIN inst
           /\ plugins[n] # 0 => plugins[n] \in DOMAIN inst /\ inst'[plugins[n]].state = state
           /\ \A j \in DOMAIN inst : SameButState(plugins[n], j)
<1>1. CASE plugins[n] = 0
  BY <1>1, Vars DEF SetState, SameButState
<1>2. CASE plugins[n] # 0
  <2>1. plugins[n] \in DOMAIN inst /\ inst' = [inst EXCEPT ![plugins[n]].state = state]
    BY <1>2, Vars DEF SetState
  <2> QED BY <2>1, WriteState
<1> QED BY <1>1, <1>2

\* Where a step leaves the type: names, ports and processes are never taken away, and a
\* request that is in the middle of a Start was there before, or fits.
LEMMA StaysTyped ==
    ASSUME Typed, plugins' \in [Names -> 0 .. Len(inst')], disk' \subseteq Names \X Versions,
           inst' \in Seq(Instances), proc' \in Seq(Processes), work' \in Seq(Requests),
           \A n \in Names : plugins'[n] # 0 => inst'[plugins'[n]].name = n,
           DOMAIN inst \subseteq DOMAIN inst', DOMAIN proc \subseteq DOMAIN proc',
           \A i \in DOMAIN inst : /\ inst'[i].name = inst[i].name
                                  /\ inst[i].port \in DOMAIN proc => inst'[i].port \in DOMAIN proc',
           \A i \in DOMAIN inst' : inst'[i].state = "running" => inst'[i].port \in DOMAIN proc',
           \A p \in DOMAIN proc : proc'[p].inst = proc[p].inst,
           \A p \in DOMAIN proc' : proc'[p].inst \in DOMAIN inst',
           \A k \in DOMAIN work' : work'[k].pc \in Starting =>
              Fits(k)' \/ (k \in DOMAIN work /\ work'[k] = work[k])
    PROVE  Typed'
<1>1. PluginTypeOK'
  BY DEF PluginTypeOK
<1>2. ASSUME NEW k \in DOMAIN work, work'[k] = work[k], work'[k].pc \in Starting PROVE Fits(k)'
  <2>1. Fits(k)
    BY <1>2 DEF Typed
  <2>2. work[k].inst \in DOMAIN inst
    BY <2>1 DEF Fits
  <2> QED BY <1>2, <2>1, <2>2 DEF Fits
<1> QED BY <1>1, <1>2 DEF Typed

\* The steps that concern one request and, it may be, a directory.
LEMMA WorkTypes ==
    ASSUME Typed, NEW k \in DOMAIN work, NEW r \in Requests, work' = [work EXCEPT ![k] = r],
           r.pc \notin Starting, UNCHANGED <<plugins, inst, proc>>, disk' \subseteq Names \X Versions
    PROVE  Typed'
<1>1. /\ work' \in Seq(Requests) /\ DOMAIN work' = DOMAIN work
      /\ work'[k] = r /\ \A l \in DOMAIN work : l # k => work'[l] = work[l]
  BY SetWork
<1>2. /\ plugins' \in [Names -> 0 .. Len(inst')] /\ inst' \in Seq(Instances) /\ proc' \in Seq(Processes)
      /\ \A n \in Names : plugins'[n] # 0 => inst'[plugins'[n]].name = n
      /\ \A i \in DOMAIN inst' : inst'[i].state = "running" => inst'[i].port \in DOMAIN proc'
      /\ \A p \in DOMAIN proc' : proc'[p].inst \in DOMAIN inst'
  BY DEF Typed, PluginTypeOK
<1> QED BY <1>1, <1>2, StaysTyped

\* ... and the state of an instance; only the one that has been started runs.
LEMMA StateTypes ==
    ASSUME Typed, NEW k \in DOMAIN work, NEW r \in Requests, work' = [work EXCEPT ![k] = r],
           r.pc \notin Starting \/ Fits(k)',
           UNCHANGED <<plugins, disk>>, proc' \in Seq(Processes), DOMAIN proc \subseteq DOMAIN proc',
           \A p \in DOMAIN proc : proc'[p].inst = proc[p].inst,
           \A p \in DOMAIN proc' : proc'[p].inst \in DOMAIN inst,
           inst' \in Seq(Instances), Len(inst') = Len(inst),
           NEW i, \A j \in DOMAIN inst : SameButState(i, j),
           i \in DOMAIN inst => inst'[i].state # "running" \/ inst[i].port \in DOMAIN proc
    PROVE  Typed'
<1>1. /\ work' \in Seq(Requests) /\ DOMAIN work' = DOMAIN work
      /\ work'[k] = r /\ \A l \in DOMAIN work : l # k => work'[l] = work[l]
  BY SetWork
<1>2. DOMAIN inst' = DOMAIN inst
  BY LenProperties, Vars
<1>3. \A j \in DOMAIN inst : inst'[j].name = inst[j].name /\ inst'[j].port = inst[j].port
                               /\ (j # i => inst'[j] = inst[j])
  BY DEF SameButState
<1>4. /\ plugins' \in [Names -> 0 .. Len(inst')] /\ disk' \subseteq Names \X Versions
      /\ \A j \in DOMAIN inst : inst[j].state = "running" => inst[j].port \in DOMAIN proc
  BY DEF Typed, PluginTypeOK
<1>5. \A n \in Names : plugins'[n] # 0 => inst'[plugins'[n]].name = n
  BY <1>3, Vars
<1>6. \A j \in DOMAIN inst' : inst'[j].state = "running" => inst'[j].port \in DOMAIN proc'
  BY <1>2, <1>3, <1>4
<1>7. \A l \in DOMAIN work' : work'[l].pc \in Starting => Fits(l)' \/ (l \in DOMAIN work /\ work'[l] = work[l])
  BY <1>1 DEF Fits
<1>8. \A j \in DOMAIN inst : inst[j].port \in DOMAIN proc => inst'[j].port \in DOMAIN proc'
  BY <1>3
<1> QED BY <1>1, <1>2, <1>3, <1>4, <1>5, <1>6, <1>7, <1>8, StaysTyped

LEMMA RequestFields ==
    ASSUME NEW w \in Requests
    PROVE  /\ w.pc \in Steps /\ w.name \in Names /\ w.inst \in Nat /\ w.proc \in Nat
           /\ w.version \in Versions /\ w.rest \in SUBSET Names
           /\ \A n \in Names, s \in SUBSET Names :
                [w EXCEPT !.pc = "start", !.name = n, !.rest = s] \in Requests
           /\ \A i \in Nat : [w EXCEPT !.pc = "launch", !.inst = i] \in Requests
           /\ \A p \in Nat : [w EXCEPT !.pc = "handshake", !.proc = p] \in Requests
           /\ \A v \in Versions : /\ [w EXCEPT !.pc = "erase", !.version = v] \in Requests
                                  /\ [w EXCEPT !.pc = "register", !.version = v] \in Requests
BY DEF Requests, Steps

LEMMA AfterTypes ==
    ASSUME NEW k
    PROVE  /\ AfterStart(k) \in Steps \ Starting
           /\ AfterStop(k) \in Steps \ Starting
BY DEF AfterStart, AfterStop, Steps, Starting

LEMMA QuietTypes ==
    ASSUME Typed, NEW k \in DOMAIN work,
           StartNext(k) \/ (Remove(k) /\ plugins' = plugins) \/ Erase(k) \/ Reload(k) \/ Scan(k) \/ Install(k)
    PROVE  Typed'
<1>1. work[k] \in Requests
  BY Vars
<1>2. disk \subseteq Names \X Versions
  BY DEF Typed, PluginTypeOK
<1>3. ASSUME NEW pc \in Steps \ Starting, Go(k, pc), UNCHANGED <<plugins, inst, proc>>,
             disk' \subseteq Names \X Versions
      PROVE  Typed'
  BY <1>3, GoType, WorkTypes DEF Gone
<1>4. CASE StartNext(k)
  <2>1. CASE work[k].rest = {}
    BY <1>2, <1>3, <1>4, <2>1 DEF StartNext, Steps, Starting
  <2>2. CASE work[k].rest # {}
    <3>1. PICK n \in work[k].rest :
             work' = [work EXCEPT ![k] = [work[k] EXCEPT !.pc = "start", !.name = n,
                                                         !.rest = work[k].rest \ {n}]]
      BY <1>4, <2>2 DEF StartNext
    <3> DEFINE r == [work[k] EXCEPT !.pc = "start", !.name = n, !.rest = work[k].rest \ {n}]
    <3>2. r \in Requests /\ r.pc \notin Starting
      BY <1>1, RequestFields DEF Requests, Starting
    <3> HIDE DEF r
    <3> QED BY <1>2, <1>4, <3>1, <3>2, WorkTypes DEF StartNext, r
  <2> QED BY <2>1, <2>2
<1>5. CASE Remove(k) /\ plugins' = plugins
  <2>1. CASE Go(k, "done") \/ Go(k, "stop")
    BY <1>2, <1>3, <1>5, <2>1 DEF Remove, Steps, Starting
  <2>2. CASE /\ plugins[work[k].name] # 0
             /\ work' = [work EXCEPT ![k].pc = "erase", ![k].version = inst[plugins[work[k].name]].version]
    <3> DEFINE v == inst[plugins[work[k].name]].version
               r == [work[k] EXCEPT !.pc = "erase", !.version = v]
    <3>1. v \in Versions
      BY <1>1, <2>2, Vars, RequestFields DEF Instances
    <3>2. r \in Requests /\ r.pc \notin Starting /\ work' = [work EXCEPT ![k] = r]
      BY <1>1, <2>2, <3>1, RequestFields DEF Requests, Starting
    <3> HIDE DEF r
    <3> QED BY <1>2, <1>5, <3>2, WorkTypes DEF Remove
  <2> QED BY <1>5, <2>1, <2>2 DEF Remove
<1>6. CASE Erase(k)
  BY <1>2, <1>3, <1>6 DEF Erase, Steps, Starting
<1>7. CASE Reload(k)
  BY <1>2, <1>3, <1>7 DEF Reload, Steps, Starting
<1>8. CASE Scan(k)
  <2>1. CASE Go(k, "done")
    BY <1>2, <1>3, <1>8, <2>1 DEF Scan, Steps, Starting
  <2>2. ASSUME NEW v \in Versions, work' = [work EXCEPT ![k].pc = "register", ![k].version = v]
        PROVE  Typed'
    <3> DEFINE r == [work[k] EXCEPT !.pc = "register", !.version = v]
    <3>1. r \in Requests /\ r.pc \notin Starting /\ work' = [work EXCEPT ![k] = r]
      BY <1>1, <2>2, RequestFields DEF Requests, Starting
    <3> HIDE DEF r
    <3> QED BY <1>2, <1>8, <3>1, WorkTypes DEF Scan
  <2> QED BY <1>8, <2>1, <2>2 DEF Scan
<1>9. CASE Install(k)
  <2>1. disk \cup {<<work[k].name, work[k].version>>} \subseteq Names \X Versions
    <3>1. <<work[k].name, work[k].version>> \in Names \X Versions
      BY <1>1, RequestFields
    <3> QED BY <1>2, <3>1
  <2> QED BY <1>2, <1>3, <1>9, <2>1 DEF Install, Steps, Starting
<1> QED BY <1>4, <1>5, <1>6, <1>7, <1>8, <1>9

-----------------------------------------------------------------------------
(* Processes.                                                              *)

\* The fields of the process p become those of new.
LEMMA SetProc ==
    ASSUME Typed, NEW p \in DOMAIN proc, NEW new \in Processes, proc' = [proc EXCEPT ![p] = new],
           new.inst = proc[p].inst
    PROVE  /\ proc' \in Seq(Processes) /\ DOMAIN proc' = DOMAIN proc /\ Len(proc') = Len(proc)
           /\ proc'[p] = new /\ \A q \in DOMAIN proc : q # p => proc'[q] = proc[q]
           /\ \A q \in DOMAIN proc : proc'[q].inst = proc[q].inst /\ proc'[q].inst \in DOMAIN inst
<1>1. proc \in Seq(Processes) /\ DOMAIN proc = 1 .. Len(proc)
  BY Vars
<1>2. proc' \in Seq(Processes) /\ Len(proc') = Len(proc)
  BY <1>1, ExceptSeq
<1>3. \A q \in DOMAIN proc : proc[q].inst \in DOMAIN inst
  BY DEF Typed
<1> QED BY <1>1, <1>2, <1>3, LenProperties

LEMMA KillType ==
    ASSUME Typed, NEW p \in DOMAIN proc, Kill(p)
    PROVE  /\ proc' \in Seq(Processes) /\ DOMAIN proc' = DOMAIN proc
           /\ ~proc'[p].live /\ \A q \in DOMAIN proc : q # p => proc'[q] = proc[q]
           /\ \A q \in DOMAIN proc : /\ proc'[q].inst = proc[q].inst /\ proc'[q].inst \in DOMAIN inst
                                     /\ proc'[q].watch = proc[q].watch
<1> DEFINE new == [proc[p] EXCEPT !.live = FALSE]
<1>1. proc[p] \in Processes
  BY Vars
<1>2. /\ new \in Processes /\ ~new.live /\ new.inst = proc[p].inst /\ new.watch = proc[p].watch
      /\ proc' = [proc EXCEPT ![p] = new]
  BY <1>1 DEF Kill, Processes
<1> HIDE DEF new
<1> QED BY <1>2, SetProc

LEMMA WatchType ==
    ASSUME Typed, NEW p \in DOMAIN proc, NEW watch \in {"pending", "done"},
           proc' = [proc EXCEPT ![p].watch = watch]
    PROVE  /\ proc' \in Seq(Processes) /\ DOMAIN proc' = DOMAIN proc
           /\ proc'[p].watch = watch /\ proc'[p].live = proc[p].live
           /\ \A q \in DOMAIN proc : q # p => proc'[q] = proc[q]
           /\ \A q \in DOMAIN proc : proc'[q].inst = proc[q].inst /\ proc'[q].inst \in DOMAIN inst
<1> DEFINE new == [proc[p] EXCEPT !.watch = watch]
<1>1. proc[p] \in Processes
  BY Vars
<1>2. /\ new \in Processes /\ new.live = proc[p].live /\ new.inst = proc[p].inst /\ new.watch = watch
      /\ proc' = [proc EXCEPT ![p] = new]
  BY <1>1 DEF Processes
<1> HIDE DEF new
<1> QED BY <1>2, SetProc

LEMMA ProcsKept ==
    ASSUME Typed, UNCHANGED proc
    PROVE  /\ proc' \in Seq(Processes)
           /\ \A p \in DOMAIN proc : proc'[p].inst = proc[p].inst
           /\ \A p \in DOMAIN proc' : proc'[p].inst \in DOMAIN inst
BY DEF Typed, PluginTypeOK

\* The instances and processes of requests that start a plugin.
LEMMA StarterFits ==
    ASSUME Typed, NEW k \in DOMAIN work, work[k].pc \in Starting
    PROVE  /\ work[k].name \in Names
           /\ work[k].inst \in DOMAIN inst /\ inst[work[k].inst].name = work[k].name
           /\ work[k].pc # "launch" => work[k].proc \in DOMAIN proc /\ proc[work[k].proc].inst = work[k].inst
           /\ work[k].pc = "init" => inst[work[k].inst].port \in DOMAIN proc
<1>1. Fits(k)
  BY DEF Typed
<1>2. work[k].name \in Names
  BY Vars, RequestFields
<1> QED BY <1>1, <1>2 DEF Fits, Starting

LEMMA FailTypes ==
    ASSUME Typed, NEW k \in DOMAIN work, work[k].pc \in Starting, FailStart(k),
           UNCHANGED <<plugins, disk>>,
           UNCHANGED proc \/ (work[k].pc # "launch" /\ Kill(work[k].proc))
    PROVE  Typed'
<1>1. work[k].name \in Names
  BY StarterFits
<1>2. PICK r \in Requests : work' = [work EXCEPT ![k] = r] /\ r.pc = AfterStart(k)
  BY GoType, AfterTypes DEF FailStart, Gone
<1>3. r.pc \notin Starting
  BY <1>2, AfterTypes
<1>4. /\ inst' \in Seq(Instances) /\ Len(inst') = Len(inst)
      /\ plugins[work[k].name] # 0 => inst'[plugins[work[k].name]].state = "error"
      /\ \A j \in DOMAIN inst : SameButState(plugins[work[k].name], j)
  BY <1>1, SetStateType DEF FailStart, States
<1>5. 0 \notin DOMAIN inst
  BY Vars
<1>6. /\ proc' \in Seq(Processes) /\ DOMAIN proc' = DOMAIN proc
      /\ \A p \in DOMAIN proc : proc'[p].inst = proc[p].inst
      /\ \A p \in DOMAIN proc' : proc'[p].inst \in DOMAIN inst
  <2>1. CASE UNCHANGED proc
    BY <2>1, ProcsKept
  <2>2. CASE work[k].pc # "launch" /\ Kill(work[k].proc)
    BY <2>2, StarterFits, KillType
  <2> QED BY <2>1, <2>2
<1> QED BY <1>2, <1>3, <1>4, <1>5, <1>6, StateTypes

LEMMA StartTypes ==
    ASSUME Typed, NEW k \in DOMAIN work, Start(k)
    PROVE  Typed'
<1> DEFINE i == plugins[work[k].name]
<1>1. work[k] \in Requests /\ work[k].name \in Names
  BY Vars, RequestFields
<1>2. CASE Go(k, AfterStart(k)) /\ UNCHANGED inst
  <2>1. PICK r \in Requests : work' = [work EXCEPT ![k] = r] /\ r.pc = AfterStart(k)
    BY <1>2, GoType, AfterTypes DEF Gone
  <2>2. r.pc \notin Starting /\ disk' \subseteq Names \X Versions
    BY <2>1, AfterTypes DEF Start, Typed, PluginTypeOK
  <2> QED BY <1>2, <2>1, <2>2, WorkTypes DEF Start
<1>3. CASE /\ i # 0 /\ inst' = [inst EXCEPT ![i].state = "starting"]
           /\ work' = [work EXCEPT ![k].pc = "launch", ![k].inst = i]
  <2> DEFINE r == [work[k] EXCEPT !.pc = "launch", !.inst = i]
  <2>1. i \in DOMAIN inst /\ inst[i].name = work[k].name /\ i \in Nat
    BY <1>1, <1>3, Vars
  <2>2. /\ r \in Requests /\ r.pc = "launch" /\ r.inst = i /\ r.name = work[k].name
        /\ work' = [work EXCEPT ![k] = r]
    BY <1>1, <1>3, <2>1, RequestFields DEF Requests
  <2> HIDE DEF r, i
  <2>3. /\ inst' \in Seq(Instances) /\ Len(inst') = Len(inst) /\ DOMAIN inst' = DOMAIN inst
        /\ inst'[i].state = "starting" /\ \A j \in DOMAIN inst : SameButState(i, j)
    BY <1>3, <2>1, WriteState DEF States
  <2>4. Fits(k)'
    BY <2>1, <2>2, <2>3, SetWork DEF Fits, SameButState
  <2>5. /\ proc' \in Seq(Processes) /\ DOMAIN proc' = DOMAIN proc
        /\ \A p \in DOMAIN proc : proc'[p].inst = proc[p].inst
        /\ \A p \in DOMAIN proc' : proc'[p].inst \in DOMAIN inst
    BY ProcsKept DEF Start
  <2> QED BY <2>2, <2>3, <2>4, <2>5, StateTypes DEF Start
<1> QED BY <1>2, <1>3 DEF Start

LEMMA LaunchTypes ==
    ASSUME Typed, NEW k \in DOMAIN work, Launch(k)
    PROVE  Typed'
<1>1. work[k] \in Requests /\ work[k].pc = "launch" /\ work[k].pc \in Starting
  BY Vars DEF Launch, Starting
<1>2. CASE FailStart(k) /\ UNCHANGED proc
  BY <1>1, <1>2, FailTypes DEF Launch
<1>3. CASE /\ proc' = Append(proc, [inst |-> work[k].inst, live |-> TRUE, watch |-> "none"])
           /\ work' = [work EXCEPT ![k].pc = "handshake", ![k].proc = Len(proc) + 1]
           /\ UNCHANGED <<inst, mistaken>>
  <2> DEFINE new == [inst |-> work[k].inst, live |-> TRUE, watch |-> "none"]
             q == Len(proc) + 1
             r == [work[k] EXCEPT !.pc = "handshake", !.proc = q]
  <2>1. work[k].inst \in DOMAIN inst /\ inst[work[k].inst].name = work[k].name
    BY <1>1, StarterFits
  <2>2. proc \in Seq(Processes) /\ DOMAIN proc = 1 .. Len(proc) /\ Len(proc) \in Nat
    BY Vars
  <2>3. new \in Processes /\ new.inst = work[k].inst
    BY <1>1, RequestFields DEF Processes
  <2>4. /\ r \in Requests /\ r.pc = "handshake" /\ r.proc = q /\ r.inst = work[k].inst
        /\ r.name = work[k].name /\ work' = [work EXCEPT ![k] = r]
    <3>1. q \in Nat /\ work' = [work EXCEPT ![k].pc = "handshake", ![k].proc = q]
      BY <1>3, <2>2
    <3> HIDE DEF q
    <3> QED BY <1>1, <3>1, RequestFields DEF Requests
  <2> HIDE DEF new, r
  <2>5. /\ proc' \in Seq(Processes) /\ DOMAIN proc' = 1 .. q
        /\ proc'[q] = new /\ \A p \in DOMAIN proc : proc'[p] = proc[p]
    <3>1. proc' = Append(proc, new)
      BY <1>3 DEF new
    <3>2. proc' \in Seq(Processes) /\ Len(proc') = q
          /\ proc'[q] = new /\ \A p \in 1 .. Len(proc) : proc'[p] = proc[p]
      BY <2>2, <2>3, <3>1, AppendProperties
    <3> QED BY <2>2, <3>2, LenProperties
  <2>6. q \in DOMAIN proc' /\ DOMAIN proc' = DOMAIN proc \cup {q}
    BY <2>2, <2>5
  <2>7. Fits(k)'
    BY <1>3, <2>1, <2>3, <2>4, <2>5, <2>6, SetWork DEF Fits
  <2>8. /\ \A p \in DOMAIN proc : proc'[p].inst = proc[p].inst
        /\ \A p \in DOMAIN proc' : proc'[p].inst \in DOMAIN inst
    BY <2>1, <2>3, <2>5, <2>6 DEF Typed
  <2>9. /\ inst' \in Seq(Instances) /\ Len(inst') = Len(inst)
        /\ \A j \in DOMAIN inst : SameButState(0, j)
        /\ 0 \notin DOMAIN inst
    BY <1>3, Vars DEF SameButState
  <2> QED BY <1>1, <1>3, <2>4, <2>5, <2>6, <2>7, <2>8, <2>9, StateTypes DEF Launch
<1> QED BY <1>2, <1>3 DEF Launch

\* The port of an instance is the process that has just been launched for it.
LEMMA WritePort ==
    ASSUME Typed, NEW i \in DOMAIN inst, NEW p \in DOMAIN proc, inst' = [inst EXCEPT ![i].port = p]
    PROVE  /\ inst' \in Seq(Instances) /\ DOMAIN inst' = DOMAIN inst /\ Len(inst') = Len(inst)
           /\ inst'[i].port = p /\ inst'[i].state = inst[i].state /\ inst'[i].name = inst[i].name
           /\ \A j \in DOMAIN inst : j # i => inst'[j] = inst[j]
<1> DEFINE new == [inst[i] EXCEPT !.port = p]
<1>1. inst[i] \in Instances /\ inst \in Seq(Instances) /\ DOMAIN inst = 1 .. Len(inst) /\ p \in Nat
  BY Vars
<1>2. /\ new \in Instances /\ new.state = inst[i].state /\ new.name = inst[i].name /\ new.port = p
      /\ inst' = [inst EXCEPT ![i] = new]
  BY <1>1 DEF Instances
<1> HIDE DEF new
<1>3. inst' \in Seq(Instances) /\ Len(inst') = Len(inst)
  BY <1>1, <1>2, ExceptSeq
<1> QED BY <1>1, <1>2, <1>3

LEMMA HandshakeTypes ==
    ASSUME Typed, NEW k \in DOMAIN work, Handshake(k)
    PROVE  Typed'
<1>1. work[k].pc = "handshake" /\ work[k].pc \in Starting
  BY DEF Handshake, Starting
<1>2. CASE FailStart(k) /\ Kill(work[k].proc)
  BY <1>1, <1>2, FailTypes DEF Handshake
<1>3. CASE inst' = [inst EXCEPT ![work[k].inst].port = work[k].proc] /\ Go(k, "init") /\ UNCHANGED <<proc, mistaken>>
  <2> DEFINE i == work[k].inst
  <2>1. /\ i \in DOMAIN inst /\ inst[i].name = work[k].name
        /\ work[k].proc \in DOMAIN proc /\ proc[work[k].proc].inst = i
    BY <1>1, StarterFits
  <2>2. PICK r \in Requests : /\ work' = [work EXCEPT ![k] = r] /\ r.pc = "init"
                              /\ r.name = work[k].name /\ r.inst = i /\ r.proc = work[k].proc
    BY <1>3, GoType DEF Gone, Steps
  <2>3. /\ work' \in Seq(Requests) /\ DOMAIN work' = DOMAIN work
        /\ work'[k] = r /\ \A l \in DOMAIN work : l # k => work'[l] = work[l]
    BY <2>2, SetWork
  <2>4. /\ inst' \in Seq(Instances) /\ DOMAIN inst' = DOMAIN inst /\ Len(inst') = Len(inst)
        /\ inst'[i].port = work[k].proc /\ inst'[i].state = inst[i].state /\ inst'[i].name = inst[i].name
        /\ \A j \in DOMAIN inst : j # i => inst'[j] = inst[j]
    BY <1>3, <2>1, WritePort
  <2> HIDE DEF i
  <2>5. Fits(k)'
    BY <1>3, <2>1, <2>2, <2>3, <2>4 DEF Fits
  <2>6. \A l \in DOMAIN work' : work'[l].pc \in Starting => Fits(l)' \/ (l \in DOMAIN work /\ work'[l] = work[l])
    BY <2>3, <2>5 DEF Fits
  <2>7. /\ plugins' \in [Names -> 0 .. Len(inst')] /\ disk' \subseteq Names \X Versions
        /\ \A j \in DOMAIN inst : inst[j].state = "running" => inst[j].port \in DOMAIN proc
    BY <2>4 DEF Handshake, Typed, PluginTypeOK
  <2>8. \A n \in Names : plugins'[n] # 0 => inst'[plugins'[n]].name = n
    BY <2>4, Vars DEF Handshake
  <2>9. \A j \in DOMAIN inst : /\ inst'[j].name = inst[j].name
                               /\ inst[j].port \in DOMAIN proc => inst'[j].port \in DOMAIN proc'
                               /\ inst'[j].state = "running" => inst'[j].port \in DOMAIN proc'
    BY <1>3, <2>1, <2>4, <2>7
  <2>10. /\ proc' \in Seq(Processes) /\ \A p \in DOMAIN proc : proc'[p].inst = proc[p].inst
         /\ \A p \in DOMAIN proc' : proc'[p].inst \in DOMAIN inst'
    BY <1>3, <2>4, ProcsKept
  <2> QED BY <1>3, <2>3, <2>4, <2>6, <2>7, <2>8, <2>9, <2>10, StaysTyped
<1> QED BY <1>2, <1>3 DEF Handshake

LEMMA CallInitTypes ==
    ASSUME Typed, NEW k \in DOMAIN work, CallInit(k)
    PROVE  Typed'
<1>1. work[k].pc = "init" /\ work[k].pc \in Starting
  BY DEF CallInit, Starting
<1>2. CASE FailInit(k)
  BY <1>1, <1>2, FailTypes DEF CallInit, FailInit
<1>3. CASE BecomeRunning(k)
  <2> DEFINE i == work[k].inst
  <2>1. /\ i \in DOMAIN inst /\ work[k].proc \in DOMAIN proc /\ inst[i].port \in DOMAIN proc
    BY <1>1, StarterFits
  <2>2. PICK r \in Requests : work' = [work EXCEPT ![k] = r] /\ r.pc = AfterStart(k)
    BY <1>3, GoType, AfterTypes DEF BecomeRunning, Gone
  <2>3. r.pc \notin Starting
    BY <2>2, AfterTypes
  <2>4. inst' = [inst EXCEPT ![i].state = "running"] /\ proc' = [proc EXCEPT ![work[k].proc].watch = "pending"]
    BY <1>3 DEF BecomeRunning
  <2> HIDE DEF i
  <2>5. inst' \in Seq(Instances) /\ Len(inst') = Len(inst) /\ \A j \in DOMAIN inst : SameButState(i, j)
    BY <2>1, <2>4, WriteState DEF States
  <2>6. /\ proc' \in Seq(Processes) /\ DOMAIN proc' = DOMAIN proc
        /\ \A q \in DOMAIN proc : proc'[q].inst = proc[q].inst /\ proc'[q].inst \in DOMAIN inst
    BY <2>1, <2>4, WatchType
  <2> QED BY <2>1, <2>2, <2>3, <2>5, <2>6, StateTypes DEF CallInit
<1> QED BY <1>2, <1>3 DEF CallInit

\* The steps of Stop.
LEMMA StopTypes ==
    ASSUME Typed, NEW k \in DOMAIN work, Stop(k) \/ MarkStopped(k)
    PROVE  Typed'
<1>1. work[k].name \in Names
  BY Vars, RequestFields
<1>2. PICK r \in Requests : work' = [work EXCEPT ![k] = r] /\ r.pc \notin Starting
  <2>1. \E pc \in Steps \ Starting : Go(k, pc)
    BY AfterTypes DEF Stop, MarkStopped, Steps, Starting
  <2> QED BY <2>1, GoType DEF Gone
<1>3. disk' \subseteq Names \X Versions
  BY DEF Stop, MarkStopped, Typed, PluginTypeOK
<1>4. CASE UNCHANGED inst
  BY <1>2, <1>3, <1>4, WorkTypes DEF Stop, MarkStopped
<1>5. ASSUME NEW i \in DOMAIN inst, NEW state \in States \ {"running"}, inst' = [inst EXCEPT ![i].state = state]
      PROVE  Typed'
  <2>1. /\ inst' \in Seq(Instances) /\ Len(inst') = Len(inst) /\ inst'[i].state = state
        /\ \A j \in DOMAIN inst : SameButState(i, j)
    BY <1>5, WriteState
  <2>2. /\ proc' \in Seq(Processes) /\ DOMAIN proc' = DOMAIN proc
        /\ \A p \in DOMAIN proc : proc'[p].inst = proc[p].inst
        /\ \A p \in DOMAIN proc' : proc'[p].inst \in DOMAIN inst
    BY ProcsKept DEF Stop, MarkStopped
  <2> QED BY <1>2, <2>1, <2>2, StateTypes DEF Stop, MarkStopped
<1>6. UNCHANGED inst \/ \E i \in DOMAIN inst, state \in States \ {"running"} : inst' = [inst EXCEPT ![i].state = state]
  BY <1>1, Vars DEF Stop, MarkStopped, SetState, States
<1> QED BY <1>4, <1>5, <1>6

LEMMA RemoveTypes ==
    ASSUME Typed, NEW k \in DOMAIN work, Remove(k)
    PROVE  Typed'
<1>1. CASE plugins' = plugins
  BY <1>1, QuietTypes
<1>2. CASE /\ plugins[work[k].name] # 0 /\ plugins' = [plugins EXCEPT ![work[k].name] = 0]
           /\ work' = [work EXCEPT ![k].pc = "erase", ![k].version = inst[plugins[work[k].name]].version]
  <2> DEFINE v == inst[plugins[work[k].name]].version
             r == [work[k] EXCEPT !.pc = "erase", !.version = v]
  <2>1. work[k] \in Requests /\ work[k].name \in Names
    BY Vars, RequestFields
  <2>2. v \in Versions
    BY <1>2, <2>1, Vars DEF Instances
  <2>3. r \in Requests /\ r.pc \notin Starting /\ work' = [work EXCEPT ![k] = r]
    BY <1>2, <2>1, <2>2, RequestFields DEF Requests, Starting
  <2> HIDE DEF r
  <2>4. /\ work' \in Seq(Requests) /\ DOMAIN work' = DOMAIN work
        /\ work'[k] = r /\ \A l \in DOMAIN work : l # k => work'[l] = work[l]
    BY <2>3, SetWork
  <2>5. /\ disk' \subseteq Names \X Versions /\ inst' \in Seq(Instances) /\ proc' \in Seq(Processes)
        /\ \A i \in DOMAIN inst' : inst'[i].state = "running" => inst'[i].port \in DOMAIN proc'
        /\ \A p \in DOMAIN proc' : proc'[p].inst \in DOMAIN inst'
    BY DEF Remove, Typed, PluginTypeOK
  <2>6. /\ plugins' \in [Names -> 0 .. Len(inst')]
        /\ \A n \in Names : plugins'[n] # 0 => inst'[plugins'[n]].name = n
    <3> DEFINE range == 0 .. Len(inst)
    <3>1. 0 \in range /\ plugins \in [Names -> range] /\ inst' = inst
      BY Vars DEF Remove
    <3> HIDE DEF range
    <3>2. plugins' \in [Names -> range]
      BY <1>2, <3>1
    <3>3. \A n \in Names : plugins'[n] # 0 => plugins'[n] = plugins[n]
      BY <1>2, <3>1
    <3>4. \A n \in Names : plugins'[n] # 0 => inst'[plugins'[n]].name = n
      BY <3>1, <3>3, Vars
    <3> QED BY <3>1, <3>2, <3>4 DEF range
  <2>7. UNCHANGED <<inst, proc>>
    BY DEF Remove
  <2> QED BY <2>3, <2>4, <2>5, <2>6, <2>7, StaysTyped
<1> QED BY <1>1, <1>2 DEF Remove

\* A plugin that is registered is discovered, under a name that was free.
LEMMA RegisterInst ==
    ASSUME Typed, NEW n \in Names, NEW v \in Versions, plugins[n] = 0, RegisterPlugin(n, v)
    PROVE  /\ inst' \in Seq(Instances) /\ DOMAIN inst' = DOMAIN inst \cup {Len(inst) + 1}
           /\ \A i \in DOMAIN inst : inst'[i] = inst[i]
           /\ inst'[Len(inst) + 1].name = n /\ inst'[Len(inst) + 1].state = "discovered"
           /\ Len(inst) + 1 \notin DOMAIN inst /\ Len(inst') = Len(inst) + 1
           /\ plugins' = [plugins EXCEPT ![n] = Len(inst) + 1]
<1> DEFINE new == [name |-> n, version |-> v, state |-> "discovered", port |-> 0]
<1>1. new \in Instances /\ new.name = n /\ new.state = "discovered"
  BY DEF Instances, States
<1>2. inst' = Append(inst, new) /\ plugins' = [plugins EXCEPT ![n] = Len(inst) + 1]
  BY DEF RegisterPlugin
<1> HIDE DEF new
<1>3. inst \in Seq(Instances) /\ DOMAIN inst = 1 .. Len(inst) /\ Len(inst) \in Nat
  BY Vars
<1>4. /\ inst' \in Seq(Instances) /\ Len(inst') = Len(inst) + 1
      /\ \A i \in 1 .. Len(inst) : inst'[i] = inst[i]
      /\ inst'[Len(inst) + 1] = new
  BY <1>1, <1>2, <1>3, AppendProperties
<1>5. DOMAIN inst' = 1 .. Len(inst) + 1
  BY <1>4, LenProperties
<1> QED BY <1>1, <1>2, <1>3, <1>4, <1>5

LEMMA RegisterTypes ==
    ASSUME Typed, NEW k \in DOMAIN work, Register(k)
    PROVE  Typed'
<1> DEFINE n == work[k].name
           v == work[k].version
<1>1. n \in Names /\ v \in Versions
  BY Vars, RequestFields
<1>2. PICK r \in Requests : work' = [work EXCEPT ![k] = r] /\ r.pc \notin Starting
  <2>1. \E pc \in Steps \ Starting : Go(k, pc)
    BY DEF Register, Steps, Starting
  <2> QED BY <2>1, GoType DEF Gone
<1>3. RegisterPlugin(n, v) /\ UNCHANGED <<proc, disk>>
  BY DEF Register
<1>4. disk' \subseteq Names \X Versions /\ proc' \in Seq(Processes)
      /\ \A p \in DOMAIN proc : proc'[p].inst = proc[p].inst /\ proc'[p].inst \in DOMAIN inst
  BY <1>3 DEF Typed, PluginTypeOK
<1>5. CASE plugins[n] # 0
  BY <1>2, <1>3, <1>4, <1>5, WorkTypes DEF RegisterPlugin
<1>6. CASE plugins[n] = 0
  <2> HIDE DEF n, v
  <2> DEFINE new == Len(inst) + 1
  <2>1. /\ inst' \in Seq(Instances) /\ DOMAIN inst' = DOMAIN inst \cup {new}
        /\ \A i \in DOMAIN inst : inst'[i] = inst[i]
        /\ inst'[new].name = n /\ inst'[new].state = "discovered"
        /\ new \notin DOMAIN inst /\ Len(inst') = new
        /\ plugins' = [plugins EXCEPT ![n] = new]
    BY <1>1, <1>3, <1>6, RegisterInst
  <2>2. /\ work' \in Seq(Requests) /\ DOMAIN work' = DOMAIN work
        /\ work'[k] = r /\ \A l \in DOMAIN work : l # k => work'[l] = work[l]
    BY <1>2, SetWork
  <2>3. plugins \in [Names -> 0 .. Len(inst)] /\ Len(inst) \in Nat
        /\ \A m \in Names : plugins[m] # 0 => plugins[m] \in DOMAIN inst /\ inst[plugins[m]].name = m
    BY Vars
  <2>4. plugins' \in [Names -> 0 .. Len(inst')]
    <3> DEFINE range == 0 .. new
    <3>1. new \in range /\ plugins \in [Names -> range]
      BY <2>3
    <3> HIDE DEF range, new
    <3>2. plugins' \in [Names -> range]
      BY <2>1, <3>1
    <3> QED BY <2>1, <3>2 DEF range
  <2> HIDE DEF new
  <2>5. \A m \in Names : plugins'[m] # 0 => inst'[plugins'[m]].name = m
    BY <1>1, <2>1, <2>3
  <2>6. \A i \in DOMAIN inst' : inst'[i].state = "running" => inst'[i].port \in DOMAIN proc'
    BY <1>3, <2>1 DEF Typed, PluginTypeOK
  <2> QED BY <1>2, <1>3, <1>4, <2>1, <2>2, <2>4, <2>5, <2>6, StaysTyped
<1> QED BY <1>5, <1>6

LEMMA ProcessTypes ==
    ASSUME Typed, NEW p \in DOMAIN proc, ProcessEnds(p) \/ Monitor(p)
    PROVE  Typed'
<1>1. /\ proc' \in Seq(Processes) /\ DOMAIN proc' = DOMAIN proc
      /\ \A q \in DOMAIN proc : proc'[q].inst = proc[q].inst /\ proc'[q].inst \in DOMAIN inst
  BY KillType, WatchType DEF ProcessEnds, Monitor
<1>2. UNCHANGED <<plugins, disk, work>>
  BY DEF ProcessEnds, Monitor
<1>3. disk' \subseteq Names \X Versions /\ work' \in Seq(Requests) /\ plugins \in [Names -> 0 .. Len(inst)]
      /\ inst \in Seq(Instances)
      /\ \A j \in DOMAIN inst : inst[j].state = "running" => inst[j].port \in DOMAIN proc
  BY <1>2 DEF Typed, PluginTypeOK
<1>4. /\ inst' \in Seq(Instances) /\ Len(inst') = Len(inst) /\ DOMAIN inst' = DOMAIN inst
      /\ \A j \in DOMAIN inst : /\ inst'[j].name = inst[j].name /\ inst'[j].port = inst[j].port
                                /\ inst'[j].state = "running" => inst[j].port \in DOMAIN proc
  <2>1. CASE UNCHANGED inst
    BY <1>3, <2>1
  <2>2. CASE Monitor(p)
    <3> DEFINE n == inst[proc[p].inst].name
    <3>1. n \in Names
      BY Vars DEF Typed, Instances
    <3>2. SetState(n, "stopped")
      BY <2>2 DEF Monitor
    <3> HIDE DEF n
    <3>3. /\ inst' \in Seq(Instances) /\ Len(inst') = Len(inst) /\ DOMAIN inst' = DOMAIN inst
          /\ plugins[n] # 0 => plugins[n] \in DOMAIN inst /\ inst'[plugins[n]].state = "stopped"
          /\ \A j \in DOMAIN inst : SameButState(plugins[n], j)
      BY <3>1, <3>2, SetStateType DEF States
    <3>4. 0 \notin DOMAIN inst
      BY Vars
    <3> QED BY <1>3, <3>3, <3>4 DEF SameButState
  <2> QED BY <2>1, <2>2 DEF ProcessEnds
<1>5. \A n \in Names : plugins'[n] # 0 => inst'[plugins'[n]].name = n
  BY <1>2, <1>4, Vars
<1> QED BY <1>1, <1>2, <1>3, <1>4, <1>5, StaysTyped

-----------------------------------------------------------------------------
(* Requests, and the start of the server.                                  *)

LEMMA RequestTypes ==
    ASSUME Typed, NEW op \in {"start", "stop", "remove", "reload", "install"},
           NEW n \in Names, NEW v \in Versions, Request(op, n, v)
    PROVE  Typed'
<1> DEFINE r == [op |-> op, pc |-> op, name |-> n, inst |-> 0, proc |-> 0, version |-> v, rest |-> {}]
<1>1. r \in Requests /\ r.pc \notin Starting
  BY DEF Requests, Steps, Starting
<1>2. work' = Append(work, r) /\ UNCHANGED <<plugins, inst, proc, disk>>
  BY DEF Request
<1> HIDE DEF r
<1>3. work \in Seq(Requests) /\ DOMAIN work = 1 .. Len(work) /\ Len(work) \in Nat
  BY Vars
<1>4. /\ work' \in Seq(Requests) /\ Len(work') = Len(work) + 1
      /\ \A l \in 1 .. Len(work) : work'[l] = work[l]
      /\ work'[Len(work) + 1] = r
  BY <1>1, <1>2, <1>3, AppendProperties
<1>5. DOMAIN work' = 1 .. Len(work) + 1
  BY <1>4, LenProperties
<1>6. \A l \in DOMAIN work' : work'[l].pc \in Starting => l \in DOMAIN work /\ work'[l] = work[l]
  BY <1>1, <1>3, <1>4, <1>5
<1>7. /\ plugins' \in [Names -> 0 .. Len(inst')] /\ inst' \in Seq(Instances) /\ proc' \in Seq(Processes)
      /\ \A m \in Names : plugins'[m] # 0 => inst'[plugins'[m]].name = m
      /\ \A i \in DOMAIN inst' : inst'[i].state = "running" => inst'[i].port \in DOMAIN proc'
      /\ \A p \in DOMAIN proc' : proc'[p].inst \in DOMAIN inst'
      /\ disk' \subseteq Names \X Versions
  BY <1>2 DEF Typed, PluginTypeOK
<1> QED BY <1>2, <1>4, <1>6, <1>7, StaysTyped

\* A numbering of a finite set reaches all of it.
LEMMA NumberingType ==
    ASSUME NEW S, IsFiniteSet(S)
    PROVE  /\ Cardinality(S) \in Nat /\ Numbering(S) \in [1 .. Cardinality(S) -> S]
           /\ \A x \in S : \E i \in 1 .. Cardinality(S) : Numbering(S)[i] = x
<1> DEFINE n == Cardinality(S)
           f == Numbering(S)
<1>1. n \in Nat /\ ExistsBijection(1 .. n, S)
  BY FS_CardinalityType
<1>2. f \in [1 .. n -> S] /\ \A i, j \in DOMAIN f : f[i] = f[j] => i = j
  <2>1. \E g \in [1 .. n -> S] : \A i, j \in DOMAIN g : g[i] = g[j] => i = j
    BY <1>1 DEF ExistsBijection, Bijection, Injection, IsInjective
  <2> QED BY <2>1 DEF Numbering
<1>3. f \in Injection(1 .. n, S)
  BY <1>2 DEF Injection, IsInjective
<1>4. Cardinality(1 .. n) = n
  BY <1>1, FS_Interval
<1>5. f \in Surjection(1 .. n, S)
  BY <1>3, <1>4, FS_Injection
<1> HIDE DEF f
<1>6. \A x \in S : \E i \in 1 .. n : f[i] = x
  BY <1>5 DEF Surjection
<1> QED BY <1>1, <1>2, <1>6 DEF f

LEMMA LoadedTypes ==
    ASSUME disk \subseteq Names \X Versions, NEW first \in Firsts
    PROVE  /\ LoadedInst(first) \in Seq(Instances)
           /\ \A i \in DOMAIN LoadedInst(first) : LoadedInst(first)[i].state = "discovered"
           /\ LoadedPlugins \in [Names -> 0 .. Len(LoadedInst(first))]
           /\ \A n \in Names : LoadedPlugins[n] # 0 => LoadedInst(first)[LoadedPlugins[n]].name = n
<1> DEFINE c == Cardinality(Found)
           f == Numbering(Found)
           new == LoadedInst(first)
<1>1. IsFiniteSet(Found)
  BY PluginsAssumption, FS_Subset DEF Found
<1>2. /\ c \in Nat /\ f \in [1 .. c -> Found]
      /\ \A n \in Found : \E i \in 1 .. c : f[i] = n
  BY <1>1, NumberingType
<1>3. first \in [Found -> Versions] /\ Found \subseteq Names
  BY DEF Firsts, Found
<1> HIDE DEF f, c
<1>4. new = [i \in 1 .. c |-> [name |-> f[i], version |-> first[f[i]], state |-> "discovered", port |-> 0]]
  BY DEF LoadedInst, f, c
<1>5. \A i \in 1 .. c : [name |-> f[i], version |-> first[f[i]], state |-> "discovered", port |-> 0] \in Instances
  BY <1>2, <1>3 DEF Instances, States
<1>6. new \in [1 .. c -> Instances]
  BY <1>4, <1>5
<1>7. new \in Seq(Instances) /\ Len(new) = c /\ DOMAIN new = 1 .. c
  BY <1>2, <1>6, LenProperties
<1>8. \A i \in 1 .. c : new[i].state = "discovered" /\ new[i].name = f[i]
  BY <1>4
<1>9. LoadedPlugins = [n \in Names |-> IF n \in Found THEN CHOOSE i \in 1 .. c : f[i] = n ELSE 0]
  BY DEF LoadedPlugins, f, c
<1>10. \A n \in Found : (CHOOSE i \in 1 .. c : f[i] = n) \in 1 .. c /\ f[CHOOSE i \in 1 .. c : f[i] = n] = n
  BY <1>2
<1>11. \A n \in Names : IF n \in Found THEN LoadedPlugins[n] \in 1 .. c /\ f[LoadedPlugins[n]] = n
                        ELSE LoadedPlugins[n] = 0
  BY <1>9, <1>10
<1>12. LoadedPlugins \in [Names -> 0 .. c]
  <2>1. \A n \in Names : LoadedPlugins[n] \in 0 .. c
    BY <1>2, <1>11
  <2> QED BY <1>9, <2>1
<1> HIDE DEF new
<1>13. \A n \in Names : LoadedPlugins[n] # 0 => new[LoadedPlugins[n]].name = n
  BY <1>8, <1>11
<1> QED BY <1>7, <1>8, <1>12, <1>13 DEF new

LEMMA BootType == <<StartAll(Found)>> \in Seq(Requests) /\ StartAll(Found).pc = "next"
<1>1. (CHOOSE n \in Names : TRUE) \in Names /\ (CHOOSE v \in Versions : TRUE) \in Versions
  BY PluginsAssumption
<1>2. StartAll(Found) \in Requests
  BY <1>1 DEF StartAll, Requests, Steps, Found
<1> QED BY <1>2 DEF StartAll

LEMMA InitTyped == Init => Typed
<1> SUFFICES ASSUME Init PROVE Typed
  OBVIOUS
<1>1. PICK first \in Firsts : inst = LoadedInst(first)
  BY DEF Init
<1>2. /\ disk \subseteq Names \X Versions /\ plugins = LoadedPlugins /\ proc = <<>>
      /\ work = <<StartAll(Found)>>
  BY DEF Init
<1>3. /\ inst \in Seq(Instances) /\ \A i \in DOMAIN inst : inst[i].state = "discovered"
      /\ plugins \in [Names -> 0 .. Len(inst)]
      /\ \A n \in Names : plugins[n] # 0 => inst[plugins[n]].name = n
  BY <1>1, <1>2, LoadedTypes
<1>4. work \in Seq(Requests) /\ \A k \in DOMAIN work : work[k].pc \notin Starting
  BY <1>2, BootType DEF Starting
<1>5. proc \in Seq(Processes) /\ DOMAIN proc = {}
  BY <1>2, EmptySeq
<1> QED BY <1>2, <1>3, <1>4, <1>5 DEF Typed, PluginTypeOK

LEMMA RestartTypes == Typed /\ Restart => Typed'
<1> SUFFICES ASSUME Typed, Restart PROVE Typed'
  OBVIOUS
<1>1. PICK first \in Firsts : inst' = LoadedInst(first)
  BY DEF Restart
<1>2. /\ disk \subseteq Names \X Versions /\ disk' = disk /\ plugins' = LoadedPlugins /\ proc' = <<>>
      /\ work' = <<StartAll(Found)>>
  BY DEF Restart, Typed, PluginTypeOK
<1>3. /\ inst' \in Seq(Instances) /\ \A i \in DOMAIN inst' : inst'[i].state = "discovered"
      /\ plugins' \in [Names -> 0 .. Len(inst')]
      /\ \A n \in Names : plugins'[n] # 0 => inst'[plugins'[n]].name = n
  BY <1>1, <1>2, LoadedTypes
<1>4. work' \in Seq(Requests) /\ \A k \in DOMAIN work' : work'[k].pc \notin Starting
  BY <1>2, BootType DEF Starting
<1>5. proc' \in Seq(Processes) /\ DOMAIN proc' = {}
  BY <1>2, EmptySeq
<1> QED BY <1>2, <1>3, <1>4, <1>5 DEF Typed, PluginTypeOK

LEMMA StepTyped == Typed /\ [Next]_vars => Typed'
<1> SUFFICES ASSUME Typed, [Next]_vars PROVE Typed'
  OBVIOUS
<1>1. CASE UNCHANGED vars
  BY <1>1 DEF vars, Typed, PluginTypeOK, Fits
<1>2. ASSUME NEW k \in DOMAIN work, Step(k) PROVE Typed'
  BY <1>2, QuietTypes, StartTypes, LaunchTypes, HandshakeTypes, CallInitTypes, StopTypes, RemoveTypes,
     RegisterTypes DEF Step
<1>3. ASSUME NEW p \in DOMAIN proc, ProcessEnds(p) \/ Monitor(p) PROVE Typed'
  BY <1>3, ProcessTypes
<1>4. ASSUME NEW n \in Names, NEW op \in {"start", "stop", "remove", "reload"}, Request(op, n, Anything)
      PROVE  Typed'
  BY <1>4, RequestTypes, PluginsAssumption DEF Anything
<1>5. ASSUME NEW n \in Names, NEW v \in Versions, Request("install", n, v) PROVE Typed'
  BY <1>5, RequestTypes
<1> QED BY <1>1, <1>2, <1>3, <1>4, <1>5, RestartTypes DEF Next

\* The tables, the instances, the processes and the requests keep their types, a request
\* refers to an instance of its plugin, and a running plugin has a port (PluginTypeOK).
THEOREM PluginTypeCorrect == Spec => []PluginTypeOK
<1>1. Typed => PluginTypeOK
  BY DEF Typed
<1> QED BY <1>1, InitTyped, StepTyped, PTL DEF Spec

-----------------------------------------------------------------------------
(* The processes of a plugin whose state nobody else's news has replaced.  *)

StartedBy(k, i) == work[k].inst = i /\ work[k].pc \in Starting
Launched(k, p) == work[k].pc # "launch" /\ work[k].proc = p

\* One request at most starts the plugin, while its state says so; a process that lives is
\* the one this request launched, or, once it runs, the one at the plugin's port.
Known(i) ==
    /\ \A k, l \in DOMAIN work : StartedBy(k, i) /\ StartedBy(l, i) => k = l
    /\ \A k \in DOMAIN work : StartedBy(k, i) => inst[i].state = "starting"
    /\ \A k \in DOMAIN work : StartedBy(k, i) /\ work[k].pc = "init" => inst[i].port = work[k].proc
    /\ \A p \in Live(i) : \/ \E k \in DOMAIN work : StartedBy(k, i) /\ Launched(k, p)
                          \/ inst[i].state \in {"running", "stopping"} /\ p = inst[i].port
    /\ inst[i].state = "running" => /\ proc[inst[i].port].inst = i
                                    /\ proc[inst[i].port].watch = "pending"

Safe == \A i \in Registered \ mistaken : Known(i)

\* The invariant is what the properties say, and more.
LEMMA SafeShows == Typed /\ Safe => LiveIsKnown /\ RunningIsServed
<1> SUFFICES ASSUME Typed, Safe PROVE LiveIsKnown /\ RunningIsServed
  OBVIOUS
<1>1. ASSUME NEW i \in Registered \ mistaken
      PROVE  /\ Cardinality(Live(i)) <= 1
             /\ Live(i) # {} => inst[i].state \in {"starting", "running", "stopping"}
  <2>1. Known(i)
    BY <1>1 DEF Safe
  <2>2. \A p, q \in Live(i) : p = q
    BY <2>1 DEF Known, Launched
  <2>3. Cardinality(Live(i)) <= 1
    <3>1. CASE Live(i) = {}
      BY <3>1, FS_EmptySet
    <3>2. ASSUME NEW p \in Live(i) PROVE Cardinality(Live(i)) <= 1
      <4>1. Live(i) = {p}
        BY <2>2, <3>2
      <4> QED BY <4>1, FS_Singleton
    <3> QED BY <3>1, <3>2
  <2> QED BY <2>1, <2>3 DEF Known
<1>2. RunningIsServed
  BY DEF Safe, Known, RunningIsServed
<1> QED BY <1>1, <1>2 DEF LiveIsKnown

\* A step that does not concern instance i: it is written nothing, its starter does not move,
\* and its processes go on, or end.
Elsewhere(i) ==
    /\ inst'[i].state = inst[i].state /\ inst'[i].port = inst[i].port
    /\ \A k \in DOMAIN work' : work'[k].pc \in Starting /\ work'[k].inst = i
                                  => k \in DOMAIN work /\ work'[k] = work[k]
    /\ \A k \in DOMAIN work : StartedBy(k, i) => k \in DOMAIN work' /\ work'[k] = work[k]
    /\ \A p \in DOMAIN proc' : proc'[p].inst = i /\ proc'[p].live
                                  => p \in DOMAIN proc /\ proc[p].inst = i /\ proc[p].live
    /\ \A p \in DOMAIN proc : proc[p].inst = i => proc'[p].inst = i /\ proc'[p].watch = proc[p].watch

LEMMA StaysKnown ==
    ASSUME Typed, NEW i \in DOMAIN inst, Known(i), Elsewhere(i)
    PROVE  Known(i)'
<1>1. /\ inst'[i].state = inst[i].state /\ inst'[i].port = inst[i].port
      /\ \A k \in DOMAIN work' : work'[k].pc \in Starting /\ work'[k].inst = i
                                    => k \in DOMAIN work /\ work'[k] = work[k] /\ StartedBy(k, i)
      /\ \A k \in DOMAIN work : StartedBy(k, i) => k \in DOMAIN work' /\ work'[k] = work[k]
  BY DEF Elsewhere, StartedBy
<1>2. /\ \A k, l \in DOMAIN work' : StartedBy(k, i)' /\ StartedBy(l, i)' => k = l
      /\ \A k \in DOMAIN work' : StartedBy(k, i)' => inst'[i].state = "starting"
      /\ \A k \in DOMAIN work' : StartedBy(k, i)' /\ work'[k].pc = "init" => inst'[i].port = work'[k].proc
  BY <1>1 DEF StartedBy, Known
<1>3. ASSUME NEW p \in Live(i)'
      PROVE  \/ \E k \in DOMAIN work' : StartedBy(k, i)' /\ Launched(k, p)'
             \/ inst'[i].state \in {"running", "stopping"} /\ p = inst'[i].port
  <2>1. p \in Live(i)
    BY <1>3 DEF Elsewhere, Live
  <2>2. CASE inst[i].state \in {"running", "stopping"} /\ p = inst[i].port
    BY <1>1, <2>2
  <2>3. ASSUME NEW k \in DOMAIN work, StartedBy(k, i), Launched(k, p)
        PROVE  \E l \in DOMAIN work' : StartedBy(l, i)' /\ Launched(l, p)'
    BY <1>1, <2>3 DEF StartedBy, Launched
  <2> QED BY <2>1, <2>2, <2>3 DEF Known
<1>4. inst'[i].state = "running" => proc'[inst'[i].port].inst = i /\ proc'[inst'[i].port].watch = "pending"
  <2>1. inst[i].state = "running" => inst[i].port \in DOMAIN proc
    BY DEF Typed, PluginTypeOK
  <2> QED BY <1>1, <2>1 DEF Known, Elsewhere
<1> QED BY <1>2, <1>3, <1>4 DEF Known

\* An instance that nobody starts and that has no process.
LEMMA IdleKnown ==
    ASSUME NEW i, \A k \in DOMAIN work' : work'[k].pc \in Starting => work'[k].inst # i,
           \A p \in DOMAIN proc' : proc'[p].inst = i => ~proc'[p].live,
           inst'[i].state # "running"
    PROVE  Known(i)'
BY DEF Known, StartedBy, Live

LEMMA RegisteredType ==
    ASSUME Typed, NEW i \in Registered
    PROVE  i \in DOMAIN inst /\ inst[i].name \in Names /\ plugins[inst[i].name] = i
<1>1. PICK n \in Names : plugins[n] = i /\ i # 0
  BY DEF Registered
<1> QED BY <1>1, Vars

\* Whoever is not said to be mistaken has nothing that lives and nobody who starts it.
LEMMA NotMistaken ==
    ASSUME Typed, NEW n \in Names, Mistake(n), plugins[n] # 0, plugins[n] \notin mistaken'
    PROVE  /\ \A k \in DOMAIN work : work[k].pc \in Starting => work[k].inst # plugins[n]
           /\ \A p \in DOMAIN proc : proc[p].inst = plugins[n] => ~proc[p].live
BY DEF Mistake, Live, BeingStarted, Starting

\* Request k goes from a step where it starts nothing to another such step.
LEMMA Passing ==
    ASSUME Typed, NEW k \in DOMAIN work, NEW r \in Requests, work' = [work EXCEPT ![k] = r],
           work[k].pc \notin Starting, r.pc \notin Starting, NEW i
    PROVE  /\ \A l \in DOMAIN work' : work'[l].pc \in Starting /\ work'[l].inst = i
                                         => l \in DOMAIN work /\ work'[l] = work[l]
           /\ \A l \in DOMAIN work : StartedBy(l, i) => l \in DOMAIN work' /\ work'[l] = work[l]
BY SetWork DEF StartedBy

LEMMA QuietSafe ==
    ASSUME Typed, Safe, NEW k \in DOMAIN work, NEW r \in Requests, work' = [work EXCEPT ![k] = r],
           work[k].pc \notin Starting, r.pc \notin Starting, UNCHANGED <<inst, proc, mistaken>>,
           Registered' \subseteq Registered
    PROVE  Safe'
<1> SUFFICES ASSUME NEW i \in Registered' \ mistaken' PROVE Known(i)'
  BY DEF Safe
<1>1. i \in DOMAIN inst /\ Known(i)
  BY RegisteredType DEF Safe
<1>2. Elsewhere(i)
  BY Passing DEF Elsewhere
<1> QED BY <1>1, <1>2, StaysKnown

LEMMA QuietStepsSafe ==
    ASSUME Typed, Safe, NEW k \in DOMAIN work,
           StartNext(k) \/ Remove(k) \/ Erase(k) \/ Reload(k) \/ Scan(k) \/ Install(k)
    PROVE  Safe'
<1>1. work[k] \in Requests /\ work[k].name \in Names
  BY Vars, RequestFields
<1>2. work[k].pc \notin Starting /\ UNCHANGED <<inst, proc, mistaken>>
  BY DEF StartNext, Remove, Erase, Reload, Scan, Install, Starting
<1>3. Registered' \subseteq Registered
  <2>1. plugins' = plugins \/ plugins' = [plugins EXCEPT ![work[k].name] = 0]
    BY DEF StartNext, Remove, Erase, Reload, Scan, Install
  <2>2. plugins \in [Names -> 0 .. Len(inst)]
    BY Vars
  <2>3. \A n \in Names : plugins'[n] = plugins[n] \/ plugins'[n] = 0
    BY <2>1, <2>2
  <2> QED BY <2>3 DEF Registered
<1>4. ASSUME NEW pc \in Steps \ Starting, Go(k, pc) PROVE Safe'
  BY <1>2, <1>3, <1>4, GoType, QuietSafe DEF Gone
<1>5. ASSUME NEW n \in Names, NEW rest \in SUBSET Names,
             work' = [work EXCEPT ![k] = [work[k] EXCEPT !.pc = "start", !.name = n, !.rest = rest]]
      PROVE  Safe'
  <2> DEFINE r == [work[k] EXCEPT !.pc = "start", !.name = n, !.rest = rest]
  <2>1. r \in Requests /\ r.pc \notin Starting /\ work' = [work EXCEPT ![k] = r]
    BY <1>1, <1>5, RequestFields DEF Requests, Starting
  <2> HIDE DEF r
  <2> QED BY <1>2, <1>3, <2>1, QuietSafe
<1>6. ASSUME NEW v \in Versions, NEW pc \in {"erase", "register"},
             work' = [work EXCEPT ![k].pc = pc, ![k].version = v]
      PROVE  Safe'
  <2> DEFINE r == [work[k] EXCEPT !.pc = pc, !.version = v]
  <2>1. r \in Requests /\ r.pc \notin Starting /\ work' = [work EXCEPT ![k] = r]
    BY <1>1, <1>6, RequestFields DEF Requests, Starting
  <2> HIDE DEF r
  <2> QED BY <1>2, <1>3, <2>1, QuietSafe
<1>7. CASE StartNext(k)
  <2>1. CASE Go(k, "done")
    BY <1>4, <2>1 DEF Steps, Starting
  <2>2. ASSUME NEW n \in work[k].rest,
               work' = [work EXCEPT ![k].pc = "start", ![k].name = n, ![k].rest = work[k].rest \ {n}]
        PROVE  Safe'
    <3>1. n \in Names /\ work[k].rest \ {n} \in SUBSET Names
      BY <1>1, RequestFields
    <3> QED BY <1>5, <2>2, <3>1
  <2> QED BY <1>7, <2>1, <2>2 DEF StartNext
<1>8. CASE Remove(k)
  <2>1. CASE Go(k, "done") \/ Go(k, "stop")
    BY <1>4, <2>1 DEF Steps, Starting
  <2>2. CASE /\ plugins[work[k].name] # 0
             /\ work' = [work EXCEPT ![k].pc = "erase", ![k].version = inst[plugins[work[k].name]].version]
    <3> DEFINE v == inst[plugins[work[k].name]].version
    <3>1. v \in Versions
      BY <1>1, <2>2, Vars DEF Instances
    <3> QED BY <1>6, <2>2, <3>1
  <2> QED BY <1>8, <2>1, <2>2 DEF Remove
<1>9. CASE Erase(k)
  BY <1>4, <1>9 DEF Erase, Steps, Starting
<1>10. CASE Reload(k)
  BY <1>4, <1>10 DEF Reload, Steps, Starting
<1>11. CASE Scan(k)
  BY <1>4, <1>6, <1>11 DEF Scan, Steps, Starting
<1>12. CASE Install(k)
  BY <1>4, <1>12 DEF Install, Steps, Starting
<1> QED BY <1>7, <1>8, <1>9, <1>10, <1>11, <1>12

LEMMA StartSafe ==
    ASSUME Typed, Safe, NEW k \in DOMAIN work, Start(k)
    PROVE  Safe'
<1> DEFINE n == work[k].name
           j == plugins[n]
<1>1. work[k] \in Requests /\ n \in Names /\ work[k].pc \notin Starting
  BY Vars, RequestFields DEF Start, Starting
<1>2. UNCHANGED <<plugins, proc, mistaken>> /\ Registered' = Registered
  BY DEF Start, Registered
<1>3. CASE Go(k, AfterStart(k)) /\ UNCHANGED inst
  BY <1>1, <1>2, <1>3, GoType, AfterTypes, QuietSafe DEF Gone
<1>4. CASE /\ j # 0 /\ inst[j].state \in Startable /\ inst' = [inst EXCEPT ![j].state = "starting"]
           /\ work' = [work EXCEPT ![k].pc = "launch", ![k].inst = j]
  <2> DEFINE r == [work[k] EXCEPT !.pc = "launch", !.inst = j]
  <2>1. j \in DOMAIN inst /\ j \in Nat /\ j \in Registered
    BY <1>1, <1>4, Vars DEF Registered
  <2>2. r \in Requests /\ r.pc = "launch" /\ r.inst = j /\ work' = [work EXCEPT ![k] = r]
    BY <1>1, <1>4, <2>1, RequestFields DEF Requests
  <2> HIDE DEF r, n, j
  <2>3. /\ DOMAIN work' = DOMAIN work
        /\ work'[k] = r /\ \A l \in DOMAIN work : l # k => work'[l] = work[l]
    BY <2>2, SetWork
  <2>4. /\ inst'[j].state = "starting" /\ \A l \in DOMAIN inst : SameButState(j, l)
    BY <1>4, <2>1, WriteState DEF States
  <2> SUFFICES ASSUME NEW i \in Registered' \ mistaken' PROVE Known(i)'
    BY DEF Safe
  <2>5. i \in DOMAIN inst /\ Known(i)
    BY <1>2, RegisteredType DEF Safe
  <2>6. CASE i # j
    <3>1. Elsewhere(i)
      BY <1>1, <1>2, <2>2, <2>3, <2>4, <2>5, <2>6 DEF Elsewhere, SameButState, StartedBy
    <3> QED BY <2>5, <3>1, StaysKnown
  <2>7. CASE i = j
    <3>1. \A l \in DOMAIN work : ~StartedBy(l, i)
      BY <1>4, <2>5, <2>7 DEF Known, Startable
    <3>2. Live(i) = {}
      BY <1>4, <2>5, <2>7, <3>1 DEF Known, Startable
    <3>3. \A l \in DOMAIN work' : StartedBy(l, i)' => l = k
      BY <2>3, <3>1 DEF StartedBy
    <3>4. Live(i)' = {}
      BY <1>2, <3>2 DEF Live
    <3> QED BY <2>2, <2>3, <2>4, <2>7, <3>3, <3>4 DEF Known, StartedBy
  <2> QED BY <2>6, <2>7
<1> QED BY <1>3, <1>4 DEF Start

\* The request that starts plugin i is the only one, and before it launches a process there is none.
LEMMA Starter ==
    ASSUME Typed, NEW k \in DOMAIN work, StartedBy(k, work[k].inst), Known(work[k].inst)
    PROVE  /\ inst[work[k].inst].state = "starting"
           /\ \A l \in DOMAIN work : StartedBy(l, work[k].inst) => l = k
           /\ \A p \in DOMAIN proc : proc[p].inst = work[k].inst /\ proc[p].live => Launched(k, p)
BY DEF Known, Live

LEMMA LaunchedSafe ==
    ASSUME Typed, Typed', Safe, NEW k \in DOMAIN work, Launch(k), UNCHANGED <<inst, mistaken>>,
           proc' = Append(proc, [inst |-> work[k].inst, live |-> TRUE, watch |-> "none"]),
           work' = [work EXCEPT ![k].pc = "handshake", ![k].proc = Len(proc) + 1]
    PROVE  Safe'
<1> DEFINE j == work[k].inst
           q == Len(proc) + 1
           new == [inst |-> j, live |-> TRUE, watch |-> "none"]
           r == [work[k] EXCEPT !.pc = "handshake", !.proc = q]
<1>1. /\ work[k] \in Requests /\ work[k].pc = "launch"
      /\ UNCHANGED <<inst, plugins, mistaken>> /\ Registered' = Registered
      /\ proc' = Append(proc, new) /\ work' = [work EXCEPT ![k] = r]
  BY Vars DEF Launch, Registered
<1>2. proc \in Seq(Processes) /\ DOMAIN proc = 1 .. Len(proc) /\ Len(proc) \in Nat
  BY Vars
<1>3. /\ r \in Requests /\ r.pc = "handshake" /\ r.proc = q /\ r.inst = j
  <2>1. q \in Nat
    BY <1>2
  <2> HIDE DEF q
  <2> QED BY <1>1, <2>1, RequestFields DEF Requests
<1>4. new \in Processes /\ new.inst = j
  BY <1>1, RequestFields DEF Processes
<1> HIDE DEF new, r
<1>5. DOMAIN proc' = DOMAIN proc \cup {q} /\ proc'[q] = new /\ \A p \in DOMAIN proc : proc'[p] = proc[p]
  <2>1. /\ proc' \in Seq(Processes) /\ Len(proc') = q
        /\ proc'[q] = new /\ \A p \in 1 .. Len(proc) : proc'[p] = proc[p]
    BY <1>1, <1>2, <1>4, AppendProperties
  <2> QED BY <1>2, <2>1, LenProperties
<1>6. /\ DOMAIN work' = DOMAIN work
      /\ work'[k] = r /\ \A l \in DOMAIN work : l # k => work'[l] = work[l]
  BY <1>1, <1>3, SetWork
<1> HIDE DEF q, j
<1> SUFFICES ASSUME NEW i \in Registered' \ mistaken' PROVE Known(i)'
  BY DEF Safe
<1>7. i \in DOMAIN inst /\ Known(i)
  BY <1>1, RegisteredType DEF Safe
<1>8. CASE i # j
  <2>1. Elsewhere(i)
    BY <1>1, <1>3, <1>4, <1>5, <1>6, <1>8 DEF Elsewhere, StartedBy, j
  <2> QED BY <1>7, <2>1, StaysKnown
<1>9. CASE i = j
  <2>1. StartedBy(k, i)
    BY <1>1, <1>9 DEF StartedBy, Starting, j
  <2>2. inst[i].state = "starting" /\ \A l \in DOMAIN work : StartedBy(l, i) => l = k
    BY <1>7, <2>1 DEF Known
  <2>3. \A p \in DOMAIN proc : proc[p].inst = i => ~proc[p].live
    BY <1>1, <1>7, <2>2 DEF Known, Live, Launched
  <2>4. \A l \in DOMAIN work' : StartedBy(l, i)' => l = k
    BY <1>6, <2>2 DEF StartedBy
  <2>5. PICK p : p = q
    OBVIOUS
  <2>6. work'[k].inst = i /\ work'[k].pc = "handshake" /\ work'[k].proc = p
    BY <1>3, <1>6, <1>9, <2>5
  <2>7. StartedBy(k, i)' /\ Launched(k, p)'
    BY <2>6 DEF StartedBy, Launched, Starting
  <2>8. \A o \in Live(i)' : o = p
    BY <1>5, <2>3, <2>5 DEF Live
  <2> QED BY <1>1, <1>6, <2>2, <2>4, <2>6, <2>7, <2>8 DEF Known
<1> QED BY <1>8, <1>9

\* A Start that fails leaves no process of its own, and writes to its plugin or to one whose
\* state nobody can rely on.
LEMMA FailSafe ==
    ASSUME Typed, Safe, NEW k \in DOMAIN work, work[k].pc \in Starting, FailStart(k),
           UNCHANGED plugins,
           IF work[k].pc = "launch" THEN UNCHANGED proc ELSE Kill(work[k].proc)
    PROVE  Safe'
<1> DEFINE n == work[k].name
           j == work[k].inst
           f == plugins[n]
<1>1. /\ n \in Names /\ j \in DOMAIN inst /\ inst[j].name = n
      /\ work[k].pc # "launch" => work[k].proc \in DOMAIN proc /\ proc[work[k].proc].inst = j
  BY StarterFits
<1>2. PICK r \in Requests : work' = [work EXCEPT ![k] = r] /\ r.pc = AfterStart(k)
  BY GoType, AfterTypes DEF FailStart, Gone
<1>3. r.pc \notin Starting
  BY <1>2, AfterTypes
<1>4. /\ DOMAIN work' = DOMAIN work
      /\ work'[k] = r /\ \A l \in DOMAIN work : l # k => work'[l] = work[l]
  BY <1>2, SetWork
<1>5. /\ f # 0 => inst'[f].state = "error"
      /\ \A l \in DOMAIN inst : SameButState(f, l)
  BY <1>1, SetStateType DEF FailStart, States
<1>6. /\ DOMAIN proc' = DOMAIN proc
      /\ \A p \in DOMAIN proc : /\ proc'[p].inst = proc[p].inst /\ proc'[p].watch = proc[p].watch
                                /\ proc'[p].live => proc[p].live
      /\ work[k].pc # "launch" => ~proc'[work[k].proc].live
  <2>1. CASE work[k].pc = "launch"
    BY <2>1
  <2>2. CASE work[k].pc # "launch"
    <3>1. proc' = [proc EXCEPT ![work[k].proc].live = FALSE] /\ Kill(work[k].proc)
      BY <2>2 DEF Kill
    <3>2. /\ DOMAIN proc' = DOMAIN proc
          /\ ~proc'[work[k].proc].live /\ \A q \in DOMAIN proc : q # work[k].proc => proc'[q] = proc[q]
          /\ \A q \in DOMAIN proc : proc'[q].inst = proc[q].inst /\ proc'[q].watch = proc[q].watch
      BY <1>1, <2>2, <3>1, KillType
    <3> QED BY <3>2
  <2> QED BY <2>1, <2>2
<1> HIDE DEF n, j, f
<1> SUFFICES ASSUME NEW i \in Registered' \ mistaken' PROVE Known(i)'
  BY DEF Safe
<1>7. i \in DOMAIN inst /\ inst[i].name \in Names /\ plugins[inst[i].name] = i /\ i # 0
  <2>1. i \in Registered
    BY DEF Registered
  <2> QED BY <2>1, RegisteredType, Vars DEF Registered
<1>8. mistaken \subseteq mistaken'
  BY DEF FailStart, Mistake
<1>9. Known(i)
  BY <1>8 DEF Safe, Registered
<1>10. CASE i # f
  <2>1. i # j
    BY <1>1, <1>7, <1>10 DEF f
  <2>2. Elsewhere(i)
    BY <1>3, <1>4, <1>5, <1>6, <1>7, <1>10, <2>1 DEF Elsewhere, SameButState, StartedBy, j
  <2> QED BY <1>7, <1>9, <2>2, StaysKnown
<1>11. CASE i = f /\ f = j
  <2>1. StartedBy(k, i)
    BY <1>11 DEF StartedBy, j
  <2>2. /\ \A l \in DOMAIN work : StartedBy(l, i) => l = k
        /\ \A p \in DOMAIN proc : proc[p].inst = i /\ proc[p].live => Launched(k, p)
    BY <1>9, <2>1 DEF Known, Live
  <2>3. \A l \in DOMAIN work' : work'[l].pc \in Starting => work'[l].inst # i
    BY <1>3, <1>4, <2>2 DEF StartedBy
  <2>4. \A p \in DOMAIN proc' : proc'[p].inst = i => ~proc'[p].live
    BY <1>6, <2>2 DEF Launched
  <2> QED BY <1>5, <1>7, <1>11, <2>3, <2>4, IdleKnown
<1>12. CASE i = f /\ f # j
  <2>1. Mistake(n)
    BY <1>12 DEF FailStart, f, j, n
  <2>2. /\ \A l \in DOMAIN work : work[l].pc \in Starting => work[l].inst # i
        /\ \A p \in DOMAIN proc : proc[p].inst = i => ~proc[p].live
    BY <1>1, <1>7, <1>12, <2>1, NotMistaken DEF f
  <2>3. \A l \in DOMAIN work' : work'[l].pc \in Starting => work'[l].inst # i
    BY <1>3, <1>4, <2>2
  <2>4. \A p \in DOMAIN proc' : proc'[p].inst = i => ~proc'[p].live
    BY <1>6, <2>2
  <2> QED BY <1>5, <1>7, <1>12, <2>3, <2>4, IdleKnown
<1> QED BY <1>10, <1>11, <1>12

LEMMA LaunchSafe ==
    ASSUME Typed, Typed', Safe, NEW k \in DOMAIN work, Launch(k)
    PROVE  Safe'
<1>1. CASE FailStart(k) /\ UNCHANGED proc
  BY <1>1, FailSafe DEF Launch, Starting
<1>2. CASE ~(FailStart(k) /\ UNCHANGED proc)
  BY <1>2, LaunchedSafe DEF Launch
<1> QED BY <1>1, <1>2

LEMMA HandshakeSafe ==
    ASSUME Typed, Safe, NEW k \in DOMAIN work, Handshake(k)
    PROVE  Safe'
<1> DEFINE j == work[k].inst
           q == work[k].proc
<1>1. work[k].pc = "handshake" /\ work[k].pc \in Starting /\ UNCHANGED plugins
  BY DEF Handshake, Starting
<1>2. j \in DOMAIN inst /\ q \in DOMAIN proc
  BY <1>1, StarterFits
<1>3. CASE FailStart(k) /\ Kill(q)
  BY <1>1, <1>3, FailSafe
<1>4. CASE inst' = [inst EXCEPT ![j].port = q] /\ Go(k, "init") /\ UNCHANGED <<proc, mistaken>>
  <2>1. PICK r \in Requests : /\ work' = [work EXCEPT ![k] = r] /\ r.pc = "init"
                              /\ r.inst = j /\ r.proc = q
    BY <1>4, GoType DEF Gone, Steps
  <2>2. /\ DOMAIN work' = DOMAIN work
        /\ work'[k] = r /\ \A l \in DOMAIN work : l # k => work'[l] = work[l]
    BY <2>1, SetWork
  <2>3. /\ inst'[j].port = q /\ inst'[j].state = inst[j].state
        /\ \A l \in DOMAIN inst : l # j => inst'[l] = inst[l]
    BY <1>2, <1>4, WritePort
  <2> SUFFICES ASSUME NEW i \in Registered' \ mistaken' PROVE Known(i)'
    BY DEF Safe
  <2>4. i \in DOMAIN inst /\ Known(i)
    BY <1>1, <1>4, RegisteredType DEF Safe, Registered
  <2>5. CASE i # j
    <3>1. Elsewhere(i)
      BY <1>4, <2>1, <2>2, <2>3, <2>4, <2>5 DEF Elsewhere, StartedBy
    <3> QED BY <2>4, <3>1, StaysKnown
  <2>6. CASE i = j
    <3>1. StartedBy(k, i)
      BY <1>1, <2>6 DEF StartedBy
    <3>2. /\ inst[i].state = "starting" /\ \A l \in DOMAIN work : StartedBy(l, i) => l = k
          /\ \A p \in Live(i) : p = q
      BY <2>4, <3>1 DEF Known, Launched
    <3>3. work'[k].inst = i /\ work'[k].pc = "init" /\ work'[k].proc = q
      BY <2>1, <2>2, <2>6
    <3>4. \A l \in DOMAIN work' : StartedBy(l, i)' => l = k
      BY <2>2, <3>2 DEF StartedBy
    <3>5. \A p \in Live(i)' : p = q
      BY <1>4, <3>2 DEF Live
    <3>6. inst'[i].port = q /\ inst'[i].state = "starting"
      BY <2>3, <2>6, <3>2
    <3>7. \A p \in Live(i)' : StartedBy(k, i)' /\ Launched(k, p)'
      BY <3>3, <3>5 DEF StartedBy, Launched, Starting
    <3> HIDE DEF q, j
    <3> QED BY <2>2, <3>3, <3>4, <3>6, <3>7 DEF Known
  <2> QED BY <2>5, <2>6
<1> QED BY <1>3, <1>4 DEF Handshake

LEMMA CallInitSafe ==
    ASSUME Typed, Safe, NEW k \in DOMAIN work, CallInit(k)
    PROVE  Safe'
<1> DEFINE j == work[k].inst
           q == work[k].proc
<1>1. work[k].pc = "init" /\ work[k].pc \in Starting /\ UNCHANGED plugins
  BY DEF CallInit, Starting
<1>2. /\ j \in DOMAIN inst /\ q \in DOMAIN proc /\ proc[q].inst = j
  BY <1>1, StarterFits
<1>3. CASE FailInit(k)
  BY <1>1, <1>3, FailSafe DEF FailInit
<1>4. CASE BecomeRunning(k)
  <2>1. PICK r \in Requests : work' = [work EXCEPT ![k] = r] /\ r.pc = AfterStart(k)
    BY <1>4, GoType, AfterTypes DEF BecomeRunning, Gone
  <2>2. r.pc \notin Starting
    BY <2>1, AfterTypes
  <2>3. /\ DOMAIN work' = DOMAIN work
        /\ work'[k] = r /\ \A l \in DOMAIN work : l # k => work'[l] = work[l]
    BY <2>1, SetWork
  <2>4. /\ inst' = [inst EXCEPT ![j].state = "running"]
        /\ proc' = [proc EXCEPT ![q].watch = "pending"] /\ UNCHANGED mistaken
    BY <1>4 DEF BecomeRunning
  <2> HIDE DEF j, q
  <2>5. inst'[j].state = "running" /\ \A l \in DOMAIN inst : SameButState(j, l)
    BY <1>2, <2>4, WriteState DEF States
  <2>6. /\ DOMAIN proc' = DOMAIN proc
        /\ proc'[q].watch = "pending" /\ proc'[q].live = proc[q].live
        /\ \A p \in DOMAIN proc : p # q => proc'[p] = proc[p]
        /\ \A p \in DOMAIN proc : proc'[p].inst = proc[p].inst
    BY <1>2, <2>4, WatchType
  <2> SUFFICES ASSUME NEW i \in Registered' \ mistaken' PROVE Known(i)'
    BY DEF Safe
  <2>7. i \in DOMAIN inst /\ Known(i)
    BY <1>1, <2>4, RegisteredType DEF Safe, Registered
  <2>8. CASE i # j
    <3>1. Elsewhere(i)
      BY <1>2, <2>2, <2>3, <2>5, <2>6, <2>7, <2>8 DEF Elsewhere, StartedBy, SameButState, j
    <3> QED BY <2>7, <3>1, StaysKnown
  <2>9. CASE i = j
    <3>1. StartedBy(k, i)
      BY <1>1, <2>9 DEF StartedBy, j
    <3>2. /\ inst[i].port = q /\ \A l \in DOMAIN work : StartedBy(l, i) => l = k
          /\ \A p \in Live(i) : p = q
      BY <1>1, <2>7, <3>1 DEF Known, Launched, Starting, q
    <3>3. \A l \in DOMAIN work' : ~StartedBy(l, i)'
      BY <2>2, <2>3, <3>2 DEF StartedBy
    <3>4. inst'[i].state = "running" /\ inst'[i].port = q
      BY <1>2, <2>5, <2>9, <3>2 DEF SameButState
    <3>5. \A p \in Live(i)' : p = inst'[i].port
      BY <2>6, <3>2, <3>4 DEF Live
    <3>6. proc'[inst'[i].port].inst = i /\ proc'[inst'[i].port].watch = "pending"
      BY <1>2, <2>6, <2>9, <3>4
    <3> QED BY <3>3, <3>4, <3>5, <3>6 DEF Known
  <2> QED BY <2>8, <2>9
<1> QED BY <1>3, <1>4 DEF CallInit

\* News for the plugin that is registered as n: it does not run any more.
LEMMA NewsSafe ==
    ASSUME Typed, Safe, NEW n \in Names, SetState(n, "stopped"), Mistake(n), UNCHANGED plugins,
           \A l \in DOMAIN work' : work'[l].pc \in Starting => l \in DOMAIN work /\ work'[l] = work[l],
           \A l \in DOMAIN work : work[l].pc \in Starting => l \in DOMAIN work' /\ work'[l] = work[l],
           DOMAIN proc' = DOMAIN proc,
           \A p \in DOMAIN proc : proc'[p].inst = proc[p].inst /\ proc'[p].live = proc[p].live,
           \A p \in DOMAIN proc : inst[proc[p].inst].name # n => proc'[p].watch = proc[p].watch
    PROVE  Safe'
<1>1. /\ plugins[n] # 0 => inst'[plugins[n]].state = "stopped"
      /\ \A j \in DOMAIN inst : SameButState(plugins[n], j)
  BY SetStateType DEF States
<1> SUFFICES ASSUME NEW i \in Registered' \ mistaken' PROVE Known(i)'
  BY DEF Safe
<1>2. i \in DOMAIN inst /\ plugins[inst[i].name] = i /\ inst[i].name \in Names /\ i # 0
  <2>1. i \in Registered
    BY DEF Registered
  <2> QED BY <2>1, RegisteredType DEF Registered
<1>3. Known(i)
  BY DEF Safe, Registered, Mistake
<1>4. CASE i # plugins[n]
  <2>1. \A p \in DOMAIN proc : proc[p].inst = i => proc'[p].watch = proc[p].watch
    BY <1>2, <1>4
  <2>2. Elsewhere(i)
    BY <1>1, <1>2, <1>4, <2>1 DEF Elsewhere, SameButState, StartedBy
  <2> QED BY <1>2, <1>3, <2>2, StaysKnown
<1>5. CASE i = plugins[n]
  <2>1. /\ \A k \in DOMAIN work : work[k].pc \in Starting => work[k].inst # i
        /\ \A p \in DOMAIN proc : proc[p].inst = i => ~proc[p].live
    BY <1>2, <1>5, NotMistaken
  <2> QED BY <1>1, <1>2, <1>5, <2>1, IdleKnown
<1> QED BY <1>4, <1>5

LEMMA StopSafe ==
    ASSUME Typed, Safe, NEW k \in DOMAIN work, Stop(k) \/ MarkStopped(k)
    PROVE  Safe'
<1> DEFINE n == work[k].name
           j == plugins[n]
<1>1. n \in Names /\ work[k].pc \notin Starting /\ UNCHANGED <<plugins, proc>>
  BY Vars, RequestFields DEF Stop, MarkStopped, Starting
<1>2. PICK r \in Requests : work' = [work EXCEPT ![k] = r] /\ r.pc \notin Starting
  <2>1. \E pc \in Steps \ Starting : Go(k, pc)
    BY AfterTypes DEF Stop, MarkStopped, Steps, Starting
  <2> QED BY <2>1, GoType DEF Gone
<1>3. /\ DOMAIN work' = DOMAIN work
      /\ work'[k] = r /\ \A l \in DOMAIN work : l # k => work'[l] = work[l]
  BY <1>2, SetWork
<1>4. CASE UNCHANGED <<inst, mistaken>>
  BY <1>1, <1>2, <1>4, QuietSafe DEF Registered
<1>5. CASE MarkStopped(k)
  BY <1>1, <1>2, <1>3, <1>5, NewsSafe DEF MarkStopped
<1>6. CASE /\ j # 0 /\ inst[j].state = "running" /\ inst' = [inst EXCEPT ![j].state = "stopping"]
           /\ UNCHANGED mistaken
  <2>1. j \in DOMAIN inst
    BY <1>1, <1>6, Vars
  <2> HIDE DEF j
  <2>2. inst'[j].state = "stopping" /\ \A l \in DOMAIN inst : SameButState(j, l)
    BY <1>6, <2>1, WriteState DEF States
  <2> SUFFICES ASSUME NEW i \in Registered' \ mistaken' PROVE Known(i)'
    BY DEF Safe
  <2>3. i \in DOMAIN inst /\ Known(i)
    BY <1>1, <1>6, RegisteredType DEF Safe, Registered
  <2>4. CASE i # j
    <3>1. Elsewhere(i)
      BY <1>1, <1>2, <1>3, <2>2, <2>3, <2>4 DEF Elsewhere, StartedBy, SameButState
    <3> QED BY <2>3, <3>1, StaysKnown
  <2>5. CASE i = j
    <3>1. /\ \A l \in DOMAIN work : ~StartedBy(l, i)
          /\ \A p \in Live(i) : p = inst[i].port
      BY <1>6, <2>3, <2>5 DEF Known
    <3>2. \A l \in DOMAIN work' : ~StartedBy(l, i)'
      BY <1>2, <1>3, <3>1 DEF StartedBy
    <3>3. inst'[i].state = "stopping" /\ inst'[i].port = inst[i].port
      BY <2>2, <2>3, <2>5 DEF SameButState
    <3>4. \A p \in Live(i)' : p = inst'[i].port
      BY <1>1, <3>1, <3>3 DEF Live
    <3> QED BY <3>2, <3>3, <3>4 DEF Known
  <2> QED BY <2>4, <2>5
<1> QED BY <1>4, <1>5, <1>6 DEF Stop

LEMMA RegisterSafe ==
    ASSUME Typed, Safe, NEW k \in DOMAIN work, Register(k)
    PROVE  Safe'
<1> DEFINE n == work[k].name
           v == work[k].version
<1>1. n \in Names /\ v \in Versions /\ work[k].pc \notin Starting
  BY Vars, RequestFields DEF Register, Starting
<1>2. PICK r \in Requests : work' = [work EXCEPT ![k] = r] /\ r.pc \notin Starting
  <2>1. \E pc \in Steps \ Starting : Go(k, pc)
    BY DEF Register, Steps, Starting
  <2> QED BY <2>1, GoType DEF Gone
<1>3. RegisterPlugin(n, v) /\ UNCHANGED <<proc, disk, mistaken>>
  BY DEF Register
<1>4. CASE plugins[n] # 0
  BY <1>1, <1>2, <1>3, <1>4, QuietSafe DEF RegisterPlugin, Registered
<1>5. CASE plugins[n] = 0
  <2> HIDE DEF n, v
  <2>1. PICK new : new = Len(inst) + 1
    OBVIOUS
  <2>2. /\ \A i \in DOMAIN inst : inst'[i] = inst[i]
        /\ inst'[new].state = "discovered" /\ new \notin DOMAIN inst
        /\ plugins' = [plugins EXCEPT ![n] = new]
    BY <1>1, <1>3, <1>5, <2>1, RegisterInst
  <2>3. /\ DOMAIN work' = DOMAIN work
        /\ work'[k] = r /\ \A l \in DOMAIN work : l # k => work'[l] = work[l]
    BY <1>2, SetWork
  <2> SUFFICES ASSUME NEW i \in Registered' \ mistaken' PROVE Known(i)'
    BY DEF Safe
  <2>4. CASE i = new
    <3>1. \A l \in DOMAIN work : work[l].pc \in Starting => work[l].inst # i
      BY <2>2, <2>4, StarterFits
    <3>2. \A l \in DOMAIN work' : work'[l].pc \in Starting => work'[l].inst # i
      BY <1>2, <2>3, <3>1
    <3>3. \A p \in DOMAIN proc' : proc'[p].inst # i
      BY <1>3, <2>2, <2>4 DEF Typed
    <3> QED BY <2>2, <2>4, <3>2, <3>3, IdleKnown
  <2>5. CASE i # new
    <3>1. i \in Registered
      BY <2>2, <2>5, Vars DEF Registered
    <3>2. i \in DOMAIN inst /\ Known(i)
      BY <1>3, <3>1, RegisteredType DEF Safe
    <3>3. Elsewhere(i)
      BY <1>1, <1>2, <1>3, <2>2, <2>3, <3>2 DEF Elsewhere, StartedBy
    <3> QED BY <3>2, <3>3, StaysKnown
  <2> QED BY <2>4, <2>5
<1> QED BY <1>4, <1>5

LEMMA ProcessSafe ==
    ASSUME Typed, Safe, NEW p \in DOMAIN proc, ProcessEnds(p) \/ Monitor(p)
    PROVE  Safe'
<1>1. CASE ProcessEnds(p)
  <2>1. /\ DOMAIN proc' = DOMAIN proc
        /\ ~proc'[p].live /\ \A q \in DOMAIN proc : q # p => proc'[q] = proc[q]
        /\ \A q \in DOMAIN proc : proc'[q].inst = proc[q].inst /\ proc'[q].watch = proc[q].watch
    BY <1>1, KillType DEF ProcessEnds
  <2> SUFFICES ASSUME NEW i \in Registered' \ mistaken' PROVE Known(i)'
    BY DEF Safe
  <2>2. i \in DOMAIN inst /\ Known(i)
    BY <1>1, RegisteredType DEF Safe, Registered, ProcessEnds
  <2>3. Elsewhere(i)
    BY <1>1, <2>1 DEF Elsewhere, ProcessEnds
  <2> QED BY <2>2, <2>3, StaysKnown
<1>2. CASE Monitor(p)
  <2> DEFINE n == inst[proc[p].inst].name
  <2>1. n \in Names
    BY Vars DEF Typed, Instances
  <2>2. /\ DOMAIN proc' = DOMAIN proc /\ proc'[p].live = proc[p].live
        /\ \A q \in DOMAIN proc : q # p => proc'[q] = proc[q]
        /\ \A q \in DOMAIN proc : proc'[q].inst = proc[q].inst
    BY <1>2, WatchType DEF Monitor
  <2>3. SetState(n, "stopped") /\ Mistake(n) /\ UNCHANGED <<plugins, work>>
    BY <1>2 DEF Monitor
  <2> QED BY <2>1, <2>2, <2>3, NewsSafe
<1> QED BY <1>1, <1>2

LEMMA RequestSafe ==
    ASSUME Typed, Safe, NEW op \in {"start", "stop", "remove", "reload", "install"},
           NEW n \in Names, NEW v \in Versions, Request(op, n, v)
    PROVE  Safe'
<1> DEFINE r == [op |-> op, pc |-> op, name |-> n, inst |-> 0, proc |-> 0, version |-> v, rest |-> {}]
<1>1. r \in Requests /\ r.pc \notin Starting
  BY DEF Requests, Steps, Starting
<1>2. work' = Append(work, r) /\ UNCHANGED <<plugins, inst, proc, mistaken>>
  BY DEF Request
<1> HIDE DEF r
<1>3. work \in Seq(Requests) /\ DOMAIN work = 1 .. Len(work) /\ Len(work) \in Nat
  BY Vars
<1>4. /\ work' \in Seq(Requests) /\ Len(work') = Len(work) + 1
      /\ \A l \in 1 .. Len(work) : work'[l] = work[l]
      /\ work'[Len(work) + 1] = r
  BY <1>1, <1>2, <1>3, AppendProperties
<1>5. DOMAIN work' = 1 .. Len(work) + 1
  BY <1>4, LenProperties
<1>6. /\ \A l \in DOMAIN work' : work'[l].pc \in Starting => l \in DOMAIN work /\ work'[l] = work[l]
      /\ \A l \in DOMAIN work : l \in DOMAIN work' /\ work'[l] = work[l]
  BY <1>1, <1>3, <1>4, <1>5
<1> SUFFICES ASSUME NEW i \in Registered' \ mistaken' PROVE Known(i)'
  BY DEF Safe
<1>7. i \in DOMAIN inst /\ Known(i)
  BY <1>2, RegisteredType DEF Safe, Registered
<1>8. Elsewhere(i)
  BY <1>2, <1>6 DEF Elsewhere
<1> QED BY <1>7, <1>8, StaysKnown

\* Right after a start of the server nothing has been started.
LEMMA InitSafe == Init => Safe
<1> SUFFICES ASSUME Init, NEW i \in Registered \ mistaken PROVE Known(i)
  BY DEF Safe
<1>1. PICK first \in Firsts : inst = LoadedInst(first)
  BY DEF Init
<1>2. proc = <<>> /\ disk \subseteq Names \X Versions
  BY DEF Init
<1>3. \A k \in DOMAIN work : work[k].pc = "next"
  BY BootType DEF Init
<1>4. inst[i].state = "discovered"
  BY <1>1, <1>2, InitTyped, RegisteredType, LoadedTypes
<1> QED BY <1>2, <1>3, <1>4 DEF Known, StartedBy, Starting, Live

LEMMA RestartSafe == Typed /\ Restart => Safe'
<1> SUFFICES ASSUME Typed, Restart, NEW i \in Registered' \ mistaken' PROVE Known(i)'
  BY DEF Safe
<1>1. PICK first \in Firsts : inst' = LoadedInst(first)
  BY DEF Restart
<1>2. proc' = <<>> /\ disk \subseteq Names \X Versions /\ plugins' = LoadedPlugins
  BY DEF Restart, Typed, PluginTypeOK
<1>3. \A k \in DOMAIN work' : work'[k].pc \notin Starting
  BY BootType DEF Restart, Starting
<1>4. i \in DOMAIN inst'
  <2>1. PICK n \in Names : plugins'[n] = i /\ i # 0
    BY DEF Registered
  <2>2. /\ inst' \in Seq(Instances) /\ plugins' \in [Names -> 0 .. Len(inst')]
    BY <1>1, <1>2, LoadedTypes
  <2>3. DOMAIN inst' = 1 .. Len(inst') /\ Len(inst') \in Nat
    BY <2>2, LenProperties
  <2> QED BY <2>1, <2>2, <2>3
<1>5. inst'[i].state = "discovered"
  BY <1>1, <1>2, <1>4, LoadedTypes
<1> QED BY <1>2, <1>3, <1>5, IdleKnown

LEMMA StepSafe == Typed /\ Safe /\ [Next]_vars => Safe'
<1> SUFFICES ASSUME Typed, Safe, [Next]_vars PROVE Safe'
  OBVIOUS
<1>1. Typed'
  BY StepTyped
<1>2. CASE UNCHANGED vars
  BY <1>2 DEF vars, Safe, Known, Registered, Live, StartedBy, Launched
<1>3. ASSUME NEW k \in DOMAIN work, Step(k) PROVE Safe'
  BY <1>1, <1>3, QuietStepsSafe, StartSafe, LaunchSafe, HandshakeSafe, CallInitSafe, StopSafe, RegisterSafe
     DEF Step
<1>4. ASSUME NEW p \in DOMAIN proc, ProcessEnds(p) \/ Monitor(p) PROVE Safe'
  BY <1>4, ProcessSafe
<1>5. ASSUME NEW n \in Names, NEW op \in {"start", "stop", "remove", "reload"}, Request(op, n, Anything)
      PROVE  Safe'
  BY <1>5, RequestSafe, PluginsAssumption DEF Anything
<1>6. ASSUME NEW n \in Names, NEW v \in Versions, Request("install", n, v) PROVE Safe'
  BY <1>6, RequestSafe
<1> QED BY <1>2, <1>3, <1>4, <1>5, <1>6, RestartSafe DEF Next

LEMMA SafeAlways == Spec => [](Typed /\ Safe)
<1>1. Init => Typed /\ Safe
  BY InitTyped, InitSafe
<1>2. Typed /\ Safe /\ [Next]_vars => (Typed /\ Safe)'
  BY StepTyped, StepSafe
<1> QED BY <1>1, <1>2, PTL DEF Spec

\* Of the processes of a registered plugin at most one lives, and never behind the back of
\* its state, however the requests that start, stop, reload, remove and install it interleave
\* (LiveIsKnown).
THEOREM LiveProcessesAreKnown == Spec => []LiveIsKnown
BY SafeAlways, SafeShows, PTL

\* The requests of a running plugin go to its last process, whose end somebody waits for
\* (RunningIsServed).
THEOREM RunningPluginsAreServed == Spec => []RunningIsServed
BY SafeAlways, SafeShows, PTL
=============================================================================
