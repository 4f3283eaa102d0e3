--------------------------- MODULE PluginManager ---------------------------
(***************************************************************************)
(* The plugin manager: the registered plugins, the processes it launches   *)
(* for them, the directories they are installed in, and the HTTP requests  *)
(* that start, stop, reload, remove and install them, each a goroutine of  *)
(* its own.  A request is a record in work; a step is what it does under   *)
(* one lock, or one call that may fail or time out.                        *)
(*                                                                         *)
(* An instance is the object behind a pointer: a request keeps the one it  *)
(* found, and the map of plugins may have another one under the name since.*)
(* setState writes to the one the map has.                                 *)
(***************************************************************************)
EXTENDS Integers, Sequences, FiniteSets

CONSTANTS
    Names,      \* the names of plugins
    Versions,   \* the versions of a plugin
    MaxCalls    \* bound: requests, and restarts of the server

\* The plugins found on disk can be numbered.
ASSUME PluginsAssumption == Names # {} /\ IsFiniteSet(Names) /\ Versions # {} /\ MaxCalls \in Nat

VARIABLES
    plugins,   \* plugins[n]: the instance registered as n, or 0
    inst,      \* the instances, by the order of their registration
    proc,      \* the processes, by the order of their launch
    disk,      \* the plugin directories, one for each name and version
    work,      \* the goroutines: StartAll at the start of the server, then the requests
    calls,
    mistaken   \* history: the instances whose state somebody else's news has replaced

vars == <<plugins, inst, proc, disk, work, calls, mistaken>>

States == {"discovered", "starting", "running", "stopping", "stopped", "error"}
Instances == [name : Names, version : Versions, state : States, port : Nat]
Processes == [inst : Nat, live : BOOLEAN, watch : {"none", "pending", "done"}]
Steps == {"start", "launch", "handshake", "init", "stop", "shutdown", "remove", "delete",
          "erase", "reload", "scan", "register", "install", "next", "done"}
Requests == [op : {"boot", "start", "stop", "remove", "reload", "install"}, pc : Steps,
             name : Names, inst : Nat, proc : Nat, version : Versions, rest : SUBSET Names]

Registered == {plugins[n] : n \in Names} \ {0}
Live(i) == {p \in DOMAIN proc : proc[p].live /\ proc[p].inst = i}
BeingStarted(i) == \E k \in DOMAIN work : /\ work[k].inst = i
                                          /\ work[k].pc \in {"launch", "handshake", "init"}
\* The server answers requests once the plugins have been started.
Serving == \A k \in DOMAIN work : work[k].op = "boot" => work[k].pc = "done"

\* A request that is done keeps only what it was.
Go(k, pc) == work' = [work EXCEPT ![k] = IF pc \in {"next", "done"} THEN [@ EXCEPT !.pc = pc, !.inst = 0, !.proc = 0]
                                         ELSE [@ EXCEPT !.pc = pc]]
\* The end of a Start: the handler answers, StartAll takes the next plugin.
AfterStart(k) == IF work[k].op = "boot" THEN "next" ELSE "done"
\* The end of a Stop: the handler answers, or goes on with what it stopped the plugin for.
AfterStop(k) == CASE work[k].op = "remove" -> "delete"
                  [] work[k].op = "reload" -> "scan"
                  [] OTHER -> "done"

\* setState finds the instance by name, whichever it is by now.
SetState(n, state) ==
    inst' = IF plugins[n] = 0 THEN inst ELSE [inst EXCEPT ![plugins[n]].state = state]
\* The news that goes with the write is not about what the instance is doing.
Mistake(n) ==
    mistaken' = IF plugins[n] # 0 /\ (Live(plugins[n]) # {} \/ BeingStarted(plugins[n]))
                THEN mistaken \cup {plugins[n]} ELSE mistaken

\* Register refuses a name that is taken; its callers go on without the new manifest.
RegisterPlugin(n, v) ==
    IF plugins[n] # 0 THEN UNCHANGED <<plugins, inst>>
    ELSE /\ inst' = Append(inst, [name |-> n, version |-> v, state |-> "discovered", port |-> 0])
         /\ plugins' = [plugins EXCEPT ![n] = Len(inst) + 1]

----------------------------------------------------------------------------
(* The server starts *)

\* LoadAndRegister: of the versions a name has on disk, the first directory counts.
Found == {n \in Names : \E v \in Versions : <<n, v>> \in disk}
Numbering(S) == CHOOSE f \in [1..Cardinality(S) -> S] : \A i, j \in DOMAIN f : f[i] = f[j] => i = j
Firsts == {f \in [Found -> Versions] : \A n \in Found : <<n, f[n]>> \in disk}
LoadedInst(first) == [i \in 1..Cardinality(Found) |->
    [name |-> Numbering(Found)[i], version |-> first[Numbering(Found)[i]],
     state |-> "discovered", port |-> 0]]
LoadedPlugins == [n \in Names |-> IF n \in Found THEN CHOOSE i \in 1..Cardinality(Found) :
                                                          Numbering(Found)[i] = n
                                 ELSE 0]

StartAll(names) ==
    [op |-> "boot", pc |-> "next", name |-> CHOOSE n \in Names : TRUE, inst |-> 0, proc |-> 0,
     version |-> CHOOSE v \in Versions : TRUE, rest |-> names]

\* The server ends and starts again. The processes it launched go on, but without their
\* instances no step of the server concerns them any more: they are left out.
Restart ==
    /\ calls < MaxCalls
    /\ \E first \in Firsts : inst' = LoadedInst(first)
    /\ plugins' = LoadedPlugins
    /\ work' = <<StartAll(Found)>>
    /\ proc' = <<>>
    /\ calls' = calls + 1
    /\ mistaken' = {}
    /\ UNCHANGED disk

\* StartAll takes the names in the order of a Go map.
StartNext(k) ==
    /\ work[k].pc = "next"
    /\ IF work[k].rest = {} THEN Go(k, "done")
       ELSE \E n \in work[k].rest :
                work' = [work EXCEPT ![k].pc = "start", ![k].name = n, ![k].rest = @ \ {n}]
    /\ UNCHANGED <<plugins, inst, proc, disk, calls, mistaken>>

----------------------------------------------------------------------------
(* Start *)

Startable == {"discovered", "stopped", "error"}

Start(k) ==
    LET i == plugins[work[k].name]
    IN /\ work[k].pc = "start"
       /\ IF i # 0 /\ inst[i].state \in Startable
          THEN /\ inst' = [inst EXCEPT ![i].state = "starting"]
               /\ work' = [work EXCEPT ![k].pc = "launch", ![k].inst = i]
          ELSE Go(k, AfterStart(k)) /\ UNCHANGED inst
       /\ UNCHANGED <<plugins, proc, disk, calls, mistaken>>

Kill(p) == proc' = [proc EXCEPT ![p].live = FALSE]

\* Mutant: another word is written.
FailStartOtherwise(k) ==
    /\ SetState(work[k].name, "failed")
    /\ Go(k, AfterStart(k))
    /\ UNCHANGED mistaken

\* What Start does when a step of it fails; the state goes to whom the map has now.
FailStart(k) ==
    /\ SetState(work[k].name, "error")
    /\ IF plugins[work[k].name] = work[k].inst THEN UNCHANGED mistaken
       ELSE Mistake(work[k].name)
    /\ Go(k, AfterStart(k))

\* findBinary finds the binary, or builds it, in the directory of the registered version.
HasBinary(n) == plugins[n] # 0 /\ <<n, inst[plugins[n]].version>> \in disk

Launch(k) ==
    /\ work[k].pc = "launch"
    /\ \/ /\ HasBinary(work[k].name)
          /\ proc' = Append(proc, [inst |-> work[k].inst, live |-> TRUE, watch |-> "none"])
          /\ work' = [work EXCEPT ![k].pc = "handshake", ![k].proc = Len(proc) + 1]
          /\ UNCHANGED <<inst, mistaken>>
       \/ FailStart(k) /\ UNCHANGED proc
    /\ UNCHANGED <<plugins, disk, calls>>

\* The port the process writes first; or it writes something else, ends, or takes too long.
Handshake(k) ==
    /\ work[k].pc = "handshake"
    /\ \/ /\ inst' = [inst EXCEPT ![work[k].inst].port = work[k].proc]
          /\ Go(k, "init")
          /\ UNCHANGED <<proc, mistaken>>
       \/ FailStart(k) /\ Kill(work[k].proc)
    /\ UNCHANGED <<plugins, disk, calls>>

\* Mutant: nobody waits for the process.
BecomeUnwatched(k) ==
    /\ proc[inst[work[k].inst].port].live
    /\ inst' = [inst EXCEPT ![work[k].inst].state = "running"]
    /\ Go(k, AfterStart(k))
    /\ UNCHANGED <<proc, mistaken>>

\* callInit calls the port of the instance. The state is written by the pointer, without the lock.
BecomeRunning(k) ==
    /\ proc[inst[work[k].inst].port].live
    /\ inst' = [inst EXCEPT ![work[k].inst].state = "running"]
    /\ proc' = [proc EXCEPT ![work[k].proc].watch = "pending"]
    /\ Go(k, AfterStart(k))
    /\ UNCHANGED mistaken

\* Mutant: the process is left alone.
FailInitOnly(k) == FailStart(k) /\ UNCHANGED proc

FailInit(k) == FailStart(k) /\ Kill(work[k].proc)

CallInit(k) ==
    /\ work[k].pc = "init"
    /\ BecomeRunning(k) \/ FailInit(k)
    /\ UNCHANGED <<plugins, disk, calls>>

\* A process ends of itself, or because it was asked to.
ProcessEnds(p) ==
    /\ proc[p].live
    /\ Kill(p)
    /\ UNCHANGED <<plugins, inst, disk, work, calls, mistaken>>

\* cmd.Wait returns in the goroutine that watches the process.
Monitor(p) ==
    /\ ~proc[p].live /\ proc[p].watch = "pending"
    /\ proc' = [proc EXCEPT ![p].watch = "done"]
    /\ SetState(inst[proc[p].inst].name, "stopped")
    /\ Mistake(inst[proc[p].inst].name)
    /\ UNCHANGED <<plugins, disk, work, calls>>

----------------------------------------------------------------------------
(* Stop, Remove, Reload and the installation *)

Stop(k) ==
    LET i == plugins[work[k].name]
    IN /\ work[k].pc = "stop"
       /\ IF i = 0 THEN Go(k, "done") /\ UNCHANGED inst
          ELSE IF inst[i].state # "running" THEN Go(k, AfterStop(k)) /\ UNCHANGED inst
          ELSE inst' = [inst EXCEPT ![i].state = "stopping"] /\ Go(k, "shutdown")
       /\ UNCHANGED <<plugins, proc, disk, calls, mistaken>>

\* Mutant: the state is left when the shutdown request fails.
MarkStoppedIfEnded(k) ==
    /\ work[k].pc = "shutdown"
    /\ \/ Live(plugins[work[k].name]) = {} /\ SetState(work[k].name, "stopped")
       \/ Live(plugins[work[k].name]) # {} /\ UNCHANGED inst
    /\ Mistake(work[k].name)
    /\ Go(k, AfterStop(k))
    /\ UNCHANGED <<plugins, proc, disk, calls>>

\* The shutdown request and the pause are over, whether or not the process has ended.
MarkStopped(k) ==
    /\ work[k].pc = "shutdown"
    /\ SetState(work[k].name, "stopped")
    /\ Mistake(work[k].name)
    /\ Go(k, AfterStop(k))
    /\ UNCHANGED <<plugins, proc, disk, calls>>

\* Remove takes the plugin out of the map, after a Stop if it runs.
Remove(k) ==
    LET n == work[k].name
        i == plugins[n]
    IN /\ work[k].pc \in {"remove", "delete"}
       /\ IF i = 0 THEN Go(k, "done") /\ UNCHANGED plugins
          ELSE IF work[k].pc = "remove" /\ inst[i].state = "running"
          THEN Go(k, "stop") /\ UNCHANGED plugins
          ELSE /\ plugins' = [plugins EXCEPT ![n] = 0]
               /\ work' = [work EXCEPT ![k].pc = "erase", ![k].version = inst[i].version]
       /\ UNCHANGED <<inst, proc, disk, calls, mistaken>>

Erase(k) ==
    /\ work[k].pc = "erase"
    /\ disk' = disk \ {<<work[k].name, work[k].version>>}
    /\ Go(k, "done")
    /\ UNCHANGED <<plugins, inst, proc, calls, mistaken>>

Reload(k) ==
    LET i == plugins[work[k].name]
    IN /\ work[k].pc = "reload"
       /\ Go(k, IF i = 0 THEN "done" ELSE IF inst[i].state = "running" THEN "stop" ELSE "scan")
       /\ UNCHANGED <<plugins, inst, proc, disk, calls, mistaken>>

\* The manifest on disk; the plugin may be gone from the map when it is registered.
Scan(k) ==
    /\ work[k].pc = "scan"
    /\ IF work[k].name \in Found
       THEN \E v \in Versions : /\ <<work[k].name, v>> \in disk
                                /\ work' = [work EXCEPT ![k].pc = "register", ![k].version = v]
       ELSE Go(k, "done")
    /\ UNCHANGED <<plugins, inst, proc, disk, calls, mistaken>>

\* The installation stops at a plugin that is registered; then it replaces the directory.
Install(k) ==
    /\ work[k].pc = "install"
    /\ \/ plugins[work[k].name] # 0 /\ Go(k, "done") /\ UNCHANGED disk
       \/ /\ plugins[work[k].name] = 0
          /\ disk' = disk \cup {<<work[k].name, work[k].version>>}
          /\ Go(k, "register")
    /\ UNCHANGED <<plugins, inst, proc, calls, mistaken>>

\* A reload starts the plugin next; an installation builds its binary and answers.
Register(k) ==
    /\ work[k].pc = "register"
    /\ RegisterPlugin(work[k].name, work[k].version)
    /\ Go(k, IF work[k].op = "reload" THEN "start" ELSE "done")
    /\ UNCHANGED <<proc, disk, calls, mistaken>>

----------------------------------------------------------------------------
\* combinedHandler dispatches a request.
Request(op, n, v) ==
    /\ calls < MaxCalls /\ Serving
    /\ calls' = calls + 1
    /\ work' = Append(work, [op |-> op, pc |-> op, name |-> n, inst |-> 0, proc |-> 0,
                             version |-> v, rest |-> {}])
    /\ UNCHANGED <<plugins, inst, proc, disk, mistaken>>

Step(k) == \/ StartNext(k) \/ Start(k) \/ Launch(k) \/ Handshake(k) \/ CallInit(k)
           \/ Stop(k) \/ MarkStopped(k) \/ Remove(k) \/ Erase(k)
           \/ Reload(k) \/ Scan(k) \/ Install(k) \/ Register(k)

\* Only an installation brings a version of its own.
Anything == CHOOSE v \in Versions : TRUE

Init ==
    /\ disk \in SUBSET (Names \X Versions)
    /\ \E first \in Firsts : inst = LoadedInst(first)
    /\ plugins = LoadedPlugins
    /\ proc = <<>> /\ work = <<StartAll(Found)>>
    /\ calls = 0 /\ mistaken = {}

Next ==
    \/ \E k \in DOMAIN work : Step(k)
    \/ \E p \in DOMAIN proc : ProcessEnds(p) \/ Monitor(p)
    \/ \E n \in Names : \/ \E op \in {"start", "stop", "remove", "reload"} : Request(op, n, Anything)
                        \/ \E v \in Versions : Request("install", n, v)
    \/ Restart

Spec == Init /\ [][Next]_vars

\* Every call a request makes has a timeout, and the server's goroutines run. Nothing is
\* assumed of the plugins' processes, of the users, or of when the server stops.
\* (A sequence has no more than these requests and processes.)
Fairness ==
    /\ \A k \in 1..(MaxCalls + 1) : WF_vars(k \in DOMAIN work /\ Step(k))
    /\ \A p \in 1..((MaxCalls + 1) * (Cardinality(Names) + 1)) : WF_vars(p \in DOMAIN proc /\ Monitor(p))

FairSpec == Spec /\ Fairness

----------------------------------------------------------------------------
(* Properties *)

\* Every variable has its type; a request or a process that refers to an instance refers to
\* one that exists, and a running plugin has a port somebody opened.
PluginTypeOK ==
    /\ plugins \in [Names -> 0..Len(inst)]
    /\ inst \in Seq(Instances) /\ proc \in Seq(Processes) /\ work \in Seq(Requests)
    /\ disk \subseteq Names \X Versions
    /\ \A n \in Names : plugins[n] # 0 => inst[plugins[n]].name = n
    /\ \A i \in DOMAIN inst : inst[i].state = "running" => inst[i].port \in DOMAIN proc

\* Of the processes of a registered plugin at most one lives, and while one lives the plugin
\* is not taken for stopped, so a further Start is refused (manager.go 123-250): two requests
\* never launch it twice, and no failed start leaves a process. Except where a Stop's or a
\* monitor's news was about another life of the plugin.
LiveIsKnown ==
    \A i \in Registered \ mistaken :
        /\ Cardinality(Live(i)) <= 1
        /\ Live(i) # {} => inst[i].state \in {"starting", "running", "stopping"}

\* The port of a running plugin, to which its requests are forwarded, is the port of its last
\* process, and somebody will notice when that process ends (ProxyURL, manager.go 503-511).
RunningIsServed ==
    \A i \in Registered \ mistaken :
        inst[i].state = "running" =>
            /\ proc[inst[i].port].inst = i
            /\ proc[inst[i].port].watch = "pending"

\* A plugin does not stay in starting or stopping, where nothing but a restart of the server
\* could free it (Start and Stop refuse it), and one whose process has ended does not go on
\* as running: whatever fails, the state is written.
Unsettled(n) ==
    /\ plugins[n] # 0
    /\ \/ inst[plugins[n]].state \in {"starting", "stopping"}
       \/ inst[plugins[n]].state = "running" /\ Live(plugins[n]) = {}
Settles == \A n \in Names : Unsettled(n) ~> ~Unsettled(n)
============================================================================
