------------------------------ MODULE BusNodes ------------------------------
(***************************************************************************)
(* Nodes and their connections to the message bus: how a machine registers *)
(* with a token and reconnects with a secret, what the goroutine of a      *)
(* connection does to the bus and to the tables, and the sessions that the *)
(* server, a user interface and a runtime open and join.                   *)
(*                                                                         *)
(* A connection has a goroutine in the server (conn) and, until the client *)
(* notices that it is gone (lost), a client.  The server may notice much   *)
(* later, when the same node has connected again.  A statement on the      *)
(* database, or an operation of the bus, is a step.                        *)
(***************************************************************************)
EXTENDS MessageBus, Sequences

CONSTANTS
    UiSids,           \* the ids under which user interfaces create sessions
    Procs,            \* the machines that run the agent runtime
    Tokens,           \* the join tokens
    NoProc, NoToken, NoNode,
    TokenNodeColumn,  \* node_join_tokens has the column node_id
    MaxSessions,      \* max_sessions of a node
    MaxCalls          \* bound: requests, lost connections and crashes

ASSUME NodesAssumption == /\ UiSids \subseteq Sids
                          /\ NoProc \notin Procs /\ NoToken \notin Tokens
                          /\ NoNode \notin Addrs
                          /\ TokenNodeColumn \in BOOLEAN
                          /\ MaxSessions \in Nat \ {0} /\ MaxCalls \in Nat

VARIABLES
    token,     \* the table node_join_tokens
    node,      \* the table nodes; secret is what the hash is of
    row,       \* the table sessions
    proc,      \* proc[p]: the runtime of machine p, and its configuration file
    conn,      \* conn[c]: the goroutine of connection c
    inbox,     \* inbox[c]: what the client sent and the goroutine has not read
    lost,      \* the connections whose client is gone
    creating,  \* creating[s]: the request that creates session s
    removing,  \* the nodes between the two steps of RemoveNode
    secrets,   \* how many secrets have been generated
    calls,
    astray     \* history: how node n lost its endpoint without its connection ending,
               \* since the server was started

tables == <<token, node, row>>
server == <<conn, inbox, creating, removing>>
clients == <<proc, lost>>
counters == <<secrets, calls>>
vars == <<busVars, tables, server, clients, counters, astray>>

TokenRows == [status : {"none", "pending", "used", "expired"}, node : Nodes \cup {NoNode}]
NodeRows == [status : {"none", "online", "offline"}, secret : Nat]
SessionRows == [status : {"none", "pending", "running", "failed"}, node : Nodes \cup {NoNode}]
Runtimes == [up : BOOLEAN, token : Tokens \cup {NoToken}, secret : Nat, file : Nat,
             conn : Conns \cup {NoConn}]
Steps == {"free", "lookup", "online", "expire", "use", "insert", "save", "reissue", "answer",
          "register", "deliver", "serve", "fail", "unregister", "offline"}
Goroutines == [pc : Steps, proc : Procs \cup {NoProc}, addr : Addrs \cup {NoNode},
               secret : Nat, token : Tokens \cup {NoToken}, todo : SUBSET Sids]
Messages == [type : {"join", "running", "invite", "create", "forward"}, session : Sids]
Hello == [type |-> "hello"]

NotInstalled == [up |-> FALSE, token |-> NoToken, secret |-> 0, file |-> 0, conn |-> NoConn]
Idle == [pc |-> "free", proc |-> NoProc, addr |-> NoNode, secret |-> 0, token |-> NoToken,
         todo |-> {}]
NoRequest == [step |-> "idle", node |-> NoNode]
IsRuntime(c) == conn[c].addr \in Nodes
Exists(n) == node[n].status # "none"
Active(s) == row[s].status \in {"pending", "running"}

Request == calls < MaxCalls /\ calls' = calls + 1 /\ UNCHANGED secrets
Secret == secrets' = secrets + 1

At(c, pc) == conn[c].pc = pc
Goto(c, pc) == conn' = [conn EXCEPT ![c].pc = pc]

\* The client of connection c, if there still is one, loses it.
Dropped(c) == [p \in Procs |-> IF proc[p].conn = c THEN [proc[p] EXCEPT !.conn = NoConn] ELSE proc[p]]

\* The goroutine of c is over; conn.Close() tells the client.
Closed(c) == /\ conn' = [conn EXCEPT ![c] = Idle]
             /\ inbox' = [inbox EXCEPT ![c] = <<>>]
             /\ lost' = lost \ {c}
             /\ proc' = Dropped(c)

-----------------------------------------------------------------------------
(* The machine: installation, the process of the runtime, its connection.  *)

GenerateToken(t) ==
    /\ Request /\ token[t].status = "none"
    /\ token' = [token EXCEPT ![t].status = "pending"]
    /\ UNCHANGED <<busVars, node, row, server, clients, astray>>

\* The script refuses a token that is not pending, and a machine that has a
\* configuration file; it starts the runtime.
InstallScript(p, t) ==
    /\ token[t].status = "pending" /\ proc[p].token = NoToken
    /\ proc' = [proc EXCEPT ![p] = [NotInstalled EXCEPT !.up = TRUE, !.token = t]]
    /\ UNCHANGED <<busVars, tables, server, lost, counters, astray>>

\* The service manager starts the process again: the secret of the file goes first.
runStart(p) ==
    /\ proc[p].token # NoToken /\ ~proc[p].up
    /\ proc' = [proc EXCEPT ![p].up = TRUE, ![p].secret = proc[p].file]
    /\ UNCHANGED <<busVars, tables, server, lost, counters, astray>>

\* Run dials with the secret it has in memory, else with the token, and says hello.
Run(p, c) ==
    /\ proc[p].up /\ proc[p].conn = NoConn /\ At(c, "free")
    /\ proc' = [proc EXCEPT ![p].conn = c]
    /\ conn' = [conn EXCEPT ![c] = [Idle EXCEPT !.pc = "lookup", !.proc = p,
                  !.secret = proc[p].secret,
                  !.token = IF proc[p].secret = 0 THEN proc[p].token ELSE NoToken]]
    /\ inbox' = [inbox EXCEPT ![c] = <<Hello>>]
    /\ UNCHANGED <<busVars, tables, lost, creating, removing, counters, astray>>

\* A user interface connects.  Its address has the next value of a counter that no
\* lock protects: two that connect at once may get the same.
DialUi(c, u) ==
    /\ Request /\ At(c, "free")
    /\ \A d \in Conns : conn[d].addr = u => At(d, "register")
    /\ \A s \in Sids : u \notin members[s]
    /\ conn' = [conn EXCEPT ![c] = [Idle EXCEPT !.pc = "register", !.addr = u]]
    /\ inbox' = [inbox EXCEPT ![c] = <<Hello>>]
    /\ UNCHANGED <<busVars, tables, creating, removing, clients, astray>>

\* The client notices that the connection is gone, and dials again; the server does
\* not know yet.
Lose(c) ==
    /\ Request /\ ~At(c, "free") /\ c \notin lost
    /\ lost' = lost \cup {c}
    /\ proc' = Dropped(c)
    /\ UNCHANGED <<busVars, tables, server, astray>>

ExitOf(p) == /\ proc' = [proc EXCEPT ![p].up = FALSE, ![p].conn = NoConn]
             /\ lost' = lost \cup ({proc[p].conn} \ {NoConn})

Shutdown(p) ==
    /\ Request /\ proc[p].up
    /\ ExitOf(p)
    /\ UNCHANGED <<busVars, tables, server, astray>>

-----------------------------------------------------------------------------
(* HandleWS: the goroutine of a connection.                                *)

\* Path A: the node of the secret.
lookupSecret(c) ==
    /\ At(c, "lookup") /\ conn[c].secret # 0
    /\ LET known == {n \in Nodes : Exists(n) /\ node[n].secret = conn[c].secret} IN
         \/ \E n \in known : conn' = [conn EXCEPT ![c].addr = n, ![c].pc = "online"]
                             /\ UNCHANGED <<inbox, clients>>
         \/ known = {} /\ Closed(c)
    /\ UNCHANGED <<busVars, tables, creating, removing, counters, astray>>

SetStatus(n, status) ==
    node' = IF Exists(n) THEN [node EXCEPT ![n].status = status] ELSE node

markOnline(c) ==
    /\ At(c, "online")
    /\ SetStatus(conn[c].addr, "online")
    /\ Goto(c, "register")
    /\ UNCHANGED <<busVars, token, row, inbox, creating, removing, clients, counters, astray>>

\* Path B: the status of the token, and whether it is past its time.  A used token
\* is taken only for a node that is offline.
lookupToken(c) ==
    /\ At(c, "lookup") /\ conn[c].secret = 0
    /\ LET r == token[conn[c].token]
           offline == r.node # NoNode /\ node[r.node].status = "offline"
       IN  \/ /\ r.status = "pending"
              /\ \E pc \in {"use", "expire"} : Goto(c, pc)
              /\ UNCHANGED <<inbox, clients>>
           \/ /\ r.status = "used" /\ offline
              /\ conn' = [conn EXCEPT ![c].addr = r.node, ![c].pc = "reissue"]
              /\ UNCHANGED <<inbox, clients>>
           \/ /\ r.status # "pending" /\ ~(r.status = "used" /\ offline)
              /\ Closed(c)
    /\ UNCHANGED <<busVars, tables, creating, removing, counters, astray>>

expireToken(c) ==
    /\ At(c, "expire")
    /\ token' = [token EXCEPT ![conn[c].token].status = "expired"]
    /\ Closed(c)
    /\ UNCHANGED <<busVars, node, row, creating, removing, counters, astray>>

useToken(c) ==
    /\ At(c, "use")
    /\ token' = [token EXCEPT ![conn[c].token].status = "used"]
    /\ Goto(c, "insert")
    /\ UNCHANGED <<busVars, node, row, inbox, creating, removing, clients, counters, astray>>

\* A new node with a new secret.  Bound: there are Nodes ids.
insertNode(c) ==
    /\ At(c, "insert") /\ Secret /\ UNCHANGED calls
    /\ \E n \in Nodes :
         /\ ~Exists(n) /\ \A t \in Tokens : token[t].node # n
         /\ \A d \in Conns : conn[d].addr # n
         /\ node' = [node EXCEPT ![n] = [status |-> "online", secret |-> secrets + 1]]
         /\ conn' = [conn EXCEPT ![c].pc = "save", ![c].addr = n, ![c].secret = secrets + 1]
    /\ UNCHANGED <<busVars, token, row, inbox, creating, removing, clients, astray>>

saveNode(c) ==
    /\ At(c, "save")
    /\ token' = IF TokenNodeColumn THEN [token EXCEPT ![conn[c].token].node = conn[c].addr]
                ELSE token
    /\ Goto(c, "answer")
    /\ UNCHANGED <<busVars, node, row, inbox, creating, removing, clients, counters, astray>>

reissueSecret(c) ==
    /\ At(c, "reissue") /\ Secret /\ UNCHANGED calls
    /\ LET n == conn[c].addr
       IN  node' = IF Exists(n) THEN [node EXCEPT ![n] = [status |-> "online", secret |-> secrets + 1]]
                   ELSE node
    /\ conn' = [conn EXCEPT ![c].pc = "answer", ![c].secret = secrets + 1]
    /\ UNCHANGED <<busVars, token, row, inbox, creating, removing, clients, astray>>

\* The registration message: the runtime saves the secret in its file, and goes on
\* without one in memory.
answer(c) ==
    /\ At(c, "answer")
    /\ proc' = [p \in Procs |-> IF proc[p].conn = c THEN [proc[p] EXCEPT !.file = conn[c].secret]
                                ELSE proc[p]]
    /\ Goto(c, "register")
    /\ UNCHANGED <<busVars, tables, inbox, creating, removing, lost, counters, astray>>

\* astray: the entry that goes is of another connection than c.
Overlaps(c, a) == astray' = [n \in Nodes |-> IF n = a /\ endpoints[a].conn \notin {NoConn, c}
                                             THEN astray[n] \cup {"overlap"} ELSE astray[n]]

register(c) ==
    /\ At(c, "register")
    /\ Register(conn[c].addr, c)
    /\ Overlaps(c, conn[c].addr)
    /\ Goto(c, "deliver")
    /\ UNCHANGED <<tables, inbox, creating, removing, clients, counters>>

setDeliver(c) ==
    /\ At(c, "deliver")
    /\ SetEndpointDeliver(c)
    /\ Goto(c, "serve")
    /\ UNCHANGED <<tables, inbox, creating, removing, clients, counters, astray>>

\* The read loop ends; the sessions of the runtime's address are to be failed.
endOfRead(c) ==
    /\ At(c, "serve") /\ c \in lost
    /\ conn' = IF IsRuntime(c)
               THEN [conn EXCEPT ![c].pc = "fail", ![c].todo = GetEndpointSessions(conn[c].addr)]
               ELSE [conn EXCEPT ![c].pc = "unregister"]
    /\ inbox' = [inbox EXCEPT ![c] = <<>>]
    /\ UNCHANGED <<busVars, tables, creating, removing, clients, counters, astray>>

\* Mutant: the sessions of the runtime are forgotten.
skipFailed(c) ==
    /\ At(c, "fail")
    /\ conn' = [conn EXCEPT ![c].todo = {}, ![c].pc = "unregister"]
    /\ UNCHANGED <<busVars, tables, inbox, creating, removing, clients, counters, astray>>

MarkFailed(c) ==
    /\ At(c, "fail")
    /\ \/ /\ conn[c].todo = {}
          /\ Goto(c, "unregister") /\ UNCHANGED row
       \/ \E s \in conn[c].todo :
            /\ row' = IF row[s].status = "none" THEN row ELSE [row EXCEPT ![s].status = "failed"]
            /\ conn' = [conn EXCEPT ![c].todo = @ \ {s}]
    /\ UNCHANGED <<busVars, token, node, inbox, creating, removing, clients, counters, astray>>

unregister(c) ==
    /\ At(c, "unregister")
    /\ Unregister(conn[c].addr)
    /\ Overlaps(c, conn[c].addr)
    /\ IF IsRuntime(c) THEN Goto(c, "offline") /\ UNCHANGED <<inbox, clients>> ELSE Closed(c)
    /\ UNCHANGED <<tables, creating, removing, counters>>

\* Mutant: the status is not written.
leaveOnline(c) ==
    /\ At(c, "offline")
    /\ Closed(c)
    /\ UNCHANGED <<busVars, tables, creating, removing, counters, astray>>

markOffline(c) ==
    /\ At(c, "offline")
    /\ SetStatus(conn[c].addr, "offline")
    /\ Closed(c)
    /\ UNCHANGED <<busVars, token, row, creating, removing, counters, astray>>

-----------------------------------------------------------------------------
(* handleEnvelope: what a client says.                                     *)

Says(c, type) == At(c, "serve") /\ inbox[c] # <<>> /\ Head(inbox[c]).type = type
Said(c) == Head(inbox[c]).session

\* The inboxes when session.create for s is delivered to the endpoints in as, and
\* the runtime that gets it joins; ib is what they are otherwise.
Invited(ib, as, s) ==
    LET to == {endpoints[a].conn : a \in {b \in as : Reachable(b)}} \ lost
    IN  [c \in Conns |-> IF c \in to THEN Append(ib[c], [type |-> "join", session |-> s]) ELSE ib[c]]

Read(c, then) == [inbox EXCEPT ![c] = then \o Tail(@)]

hello(c) ==
    /\ Says(c, "hello")
    /\ endpoints' = IF Registered(conn[c].addr) /\ IsRuntime(c)
                    THEN [endpoints EXCEPT ![conn[c].addr].capable = TRUE] ELSE endpoints
    /\ inbox' = Read(c, <<>>)
    /\ UNCHANGED <<members, tables, conn, creating, removing, clients, counters, astray>>

\* A session the bus does not have is answered with an error.
handleSessionJoin(c) ==
    /\ Says(c, "join")
    /\ JoinSession(Said(c), conn[c].addr)
    /\ inbox' = Read(c, IF ~HasSession(Said(c)) THEN <<>>
                        ELSE <<[type |-> IF IsRuntime(c) THEN "running" ELSE "invite",
                                session |-> Said(c)]>>)
    /\ UNCHANGED <<tables, conn, creating, removing, clients, counters, astray>>

\* Mutant: without the condition on the status.
MarkRunningAlways(c) ==
    /\ Says(c, "running")
    /\ row' = [row EXCEPT ![Said(c)].status = IF @ = "none" THEN @ ELSE "running"]
    /\ inbox' = Read(c, <<>>)
    /\ UNCHANGED <<busVars, token, node, conn, creating, removing, clients, counters, astray>>

\* Mutant: the status of a node in the table of the sessions.
MarkOnline(c) ==
    /\ Says(c, "running")
    /\ row' = [row EXCEPT ![Said(c)].status = IF @ = "pending" THEN "online" ELSE @]
    /\ inbox' = Read(c, <<>>)
    /\ UNCHANGED <<busVars, token, node, conn, creating, removing, clients, counters, astray>>

MarkRunning(c) ==
    /\ Says(c, "running")
    /\ row' = [row EXCEPT ![Said(c)].status = IF @ = "pending" THEN "running" ELSE @]
    /\ inbox' = Read(c, <<>>)
    /\ UNCHANGED <<busVars, token, node, conn, creating, removing, clients, counters, astray>>

\* A user interface that joins a session without a runtime invites them all.
inviteRuntimes(c) ==
    /\ Says(c, "invite")
    /\ inbox' = IF members[Said(c)] \cap Nodes = {}
                THEN Invited(Read(c, <<>>), EndpointsByType(Nodes), Said(c)) ELSE Read(c, <<>>)
    /\ UNCHANGED <<busVars, tables, conn, creating, removing, clients, counters, astray>>

handleSessionCreate(c) ==
    /\ Says(c, "create")
    /\ CreateSession(Said(c), {conn[c].addr})
    /\ inbox' = Read(c, <<[type |-> "forward", session |-> Said(c)]>>)
    /\ UNCHANGED <<tables, conn, creating, removing, clients, counters, astray>>

forwardCreate(c) ==
    /\ Says(c, "forward")
    /\ inbox' = Invited(Read(c, <<>>), FindRuntimesForAgent, Said(c))
    /\ UNCHANGED <<busVars, tables, conn, creating, removing, clients, counters, astray>>

\* A user interface joins a session it knows of, or creates one under an id of its own.
UiSends(c, s) ==
    /\ Request /\ conn[c].addr \in Uis /\ c \notin lost
    /\ \E type \in {"join", "create"} :
         /\ IF type = "create" THEN s \in UiSids ELSE HasSession(s) \/ row[s].status # "none"
         /\ inbox' = [inbox EXCEPT ![c] = Append(@, [type |-> type, session |-> s])]
    /\ UNCHANGED <<busVars, tables, conn, creating, removing, clients, astray>>

-----------------------------------------------------------------------------
(* Requests: sessions, and the management of nodes.                        *)

Counted(n) == Cardinality({s \in Sids : Active(s) /\ row[s].node = n})

\* SessionHandler.Create checks the endpoint and the limit, and goes on later.
CreateRequest(s, n) ==
    /\ Request /\ creating[s] = NoRequest /\ row[s].status = "none" /\ s \notin UiSids
    /\ Registered(n)
    /\ Exists(n) => Counted(n) < MaxSessions
    /\ creating' = [creating EXCEPT ![s] = [step |-> "bus", node |-> n]]
    /\ UNCHANGED <<busVars, tables, conn, inbox, removing, clients, astray>>

createOnBus(s) ==
    /\ creating[s].step = "bus"
    /\ CreateSession(s, {Api})
    /\ creating' = [creating EXCEPT ![s].step = "insert"]
    /\ UNCHANGED <<tables, conn, inbox, removing, clients, counters, astray>>

\* The row refers to the node: without it, the session is ended on the bus.
insertSession(s) ==
    /\ creating[s].step = "insert"
    /\ LET n == creating[s].node IN
         \/ /\ Exists(n)
            /\ row' = [row EXCEPT ![s] = [status |-> "pending", node |-> n]]
            /\ creating' = [creating EXCEPT ![s].step = "deliver"]
            /\ UNCHANGED busVars
         \/ /\ ~Exists(n)
            /\ EndSession(s)
            /\ creating' = [creating EXCEPT ![s] = NoRequest]
            /\ UNCHANGED row
    /\ UNCHANGED <<token, node, conn, inbox, removing, clients, counters, astray>>

deliverCreate(s) ==
    /\ creating[s].step = "deliver"
    /\ inbox' = Invited(inbox, {creating[s].node}, s)
    /\ creating' = [creating EXCEPT ![s] = NoRequest]
    /\ UNCHANGED <<busVars, tables, conn, removing, clients, counters, astray>>

\* Of the open rows, those that have not changed for long enough.
CleanStaleDBSessions ==
    \E old \in SUBSET {s \in Sids : Active(s)} :
       /\ old # {}
       /\ row' = [s \in Sids |-> IF s \in old THEN [row[s] EXCEPT !.status = "failed"] ELSE row[s]]
       /\ UNCHANGED <<busVars, token, node, server, clients, counters, astray>>

\* RemoveNode takes the endpoint from the bus; the connection stays as it is.
RemoveNode(n) ==
    /\ Request /\ Exists(n) /\ n \notin removing
    /\ Unregister(n)
    /\ removing' = removing \cup {n}
    /\ astray' = [astray EXCEPT ![n] = @ \cup {"removal"}]
    /\ UNCHANGED <<tables, conn, inbox, creating, clients>>

\* ... and deletes the row, which fails while a session refers to it.
deleteNode(n) ==
    /\ n \in removing
    /\ removing' = removing \ {n}
    /\ node' = IF \E s \in Sids : row[s].node = n THEN node
               ELSE [node EXCEPT ![n] = [status |-> "none", secret |-> 0]]
    /\ UNCHANGED <<busVars, token, row, conn, inbox, creating, clients, counters, astray>>

\* StartNode makes a new secret; the user runs the command with it, or does not.
StartNode(n, p) ==
    /\ calls < MaxCalls /\ calls' = calls + 1 /\ Secret
    /\ Exists(n)
    /\ node' = [node EXCEPT ![n].secret = secrets + 1]
    /\ \/ /\ proc[p].token # NoToken /\ ~proc[p].up
          /\ proc' = [proc EXCEPT ![p].up = TRUE, ![p].secret = secrets + 1]
       \/ UNCHANGED proc
    /\ UNCHANGED <<busVars, token, row, server, lost, astray>>

\* The message makes the runtime exit.  The profiles and entries of the node: see AgentQueue.
StopNode(n) ==
    /\ Request /\ Reachable(n)
    /\ \E p \in Procs : proc[p].conn = endpoints[n].conn /\ ExitOf(p)
    /\ UNCHANGED <<busVars, tables, server, astray>>

\* What the list of nodes shows of a node.
List(n) == [status |-> node[n].status, canManage |-> Registered(n)]

\* Mutant: the schema only.
MigrateSchema == UNCHANGED row

\* At every start, the sessions that the last server left open have failed.
Migrate == row' = [s \in Sids |-> IF Active(s) THEN [row[s] EXCEPT !.status = "failed"] ELSE row[s]]

\* The server dies and starts again: it knows no connection, no session of the bus and
\* no request, and nodes are listed as before.
Restart ==
    /\ Request
    /\ endpoints' = [a \in Addrs |-> NoEndpoint]
    /\ members' = [s \in Sids |-> {}]
    /\ conn' = [c \in Conns |-> Idle]
    /\ inbox' = [c \in Conns |-> <<>>]
    /\ creating' = [s \in Sids |-> NoRequest]
    /\ removing' = {}
    /\ lost' = {}
    /\ proc' = [p \in Procs |-> [proc[p] EXCEPT !.conn = NoConn]]
    /\ Migrate
    /\ astray' = [n \in Nodes |-> {"restart"}]
    /\ UNCHANGED <<token, node>>

-----------------------------------------------------------------------------
HandleWS(c) ==
    \/ lookupSecret(c) \/ markOnline(c) \/ lookupToken(c) \/ expireToken(c) \/ useToken(c)
    \/ insertNode(c) \/ saveNode(c) \/ reissueSecret(c) \/ answer(c) \/ register(c)
    \/ setDeliver(c) \/ endOfRead(c) \/ MarkFailed(c) \/ unregister(c) \/ markOffline(c)
    \/ hello(c) \/ handleSessionJoin(c) \/ MarkRunning(c) \/ inviteRuntimes(c)
    \/ handleSessionCreate(c) \/ forwardCreate(c)

CreateStep(s) == createOnBus(s) \/ insertSession(s) \/ deliverCreate(s)

Init ==
    /\ BusInit
    /\ token = [t \in Tokens |-> [status |-> "none", node |-> NoNode]]
    /\ node = [n \in Nodes |-> [status |-> "none", secret |-> 0]]
    /\ row = [s \in Sids |-> [status |-> "none", node |-> NoNode]]
    /\ proc = [p \in Procs |-> NotInstalled]
    /\ conn = [c \in Conns |-> Idle]
    /\ inbox = [c \in Conns |-> <<>>]
    /\ lost = {} /\ removing = {}
    /\ creating = [s \in Sids |-> NoRequest]
    /\ secrets = 0 /\ calls = 0
    /\ astray = [n \in Nodes |-> {}]

Next ==
    \/ \E t \in Tokens : GenerateToken(t)
    \/ \E p \in Procs, t \in Tokens : InstallScript(p, t)
    \/ \E p \in Procs : runStart(p) \/ Shutdown(p) \/ \E c \in Conns : Run(p, c)
    \/ \E c \in Conns : \/ Lose(c) \/ HandleWS(c)
                        \/ \E u \in Uis : DialUi(c, u)
                        \/ \E s \in Sids : UiSends(c, s)
    \/ \E s \in Sids : CreateStep(s) \/ \E n \in Nodes : CreateRequest(s, n)
    \/ \E n \in Nodes : \/ RemoveNode(n) \/ deleteNode(n) \/ StopNode(n)
                        \/ \E p \in Procs : StartNode(n, p)
    \/ CleanStaleDBSessions
    \/ cleanStaleSessions /\ UNCHANGED <<tables, server, clients, counters, astray>>
    \/ Restart

Spec == Init /\ [][Next]_vars

\* Goroutines run, the runtime dials again after three seconds.
Fairness ==
    /\ \A c \in Conns : WF_vars(HandleWS(c))
    /\ \A p \in Procs : WF_vars(\E c \in Conns : Run(p, c))
FairSpec == Spec /\ Fairness

-----------------------------------------------------------------------------
(* Properties.                                                             *)

\* The type of the tables, the goroutines, the runtimes and the bus.
BusTypeOK ==
    /\ endpoints \in [Addrs -> Endpoints]
    /\ members \in [Sids -> SUBSET (Addrs \cup {Api})]
    /\ token \in [Tokens -> TokenRows]
    /\ node \in [Nodes -> NodeRows]
    /\ row \in [Sids -> SessionRows]
    /\ proc \in [Procs -> Runtimes]
    /\ conn \in [Conns -> Goroutines]
    /\ inbox \in [Conns -> Seq(Messages \cup {Hello})]
    /\ lost \in SUBSET Conns
    /\ creating \in [Sids -> [step : {"idle", "bus", "insert", "deliver"}, node : Nodes \cup {NoNode}]]
    /\ removing \in SUBSET Nodes
    /\ secrets \in Nat /\ calls \in Nat
    /\ astray \in [Nodes -> SUBSET {"overlap", "removal", "restart"}]

Quiet == /\ \A c \in Conns : conn[c].pc \in {"free", "serve"} /\ inbox[c] = <<>> /\ c \notin lost
         /\ removing = {}

\* An endpoint is always of a connection whose goroutine will still unregister it,
\* however the connections of an address overlap: a message is never taken for
\* delivered to a connection that is over, and no endpoint stays for ever.
NoDeadEndpoint ==
    \A a \in Addrs : Registered(a) =>
       LET c == endpoints[a].conn
       IN  conn[c].addr = a /\ conn[c].pc \in {"deliver", "serve", "fail", "unregister"}

\* When nothing is under way, a node that is listed as online has its endpoint:
\* HandleWS writes online before it registers and unregisters before it writes
\* offline, so that this survives connections that overlap.  It does not survive a
\* restart of the server, nor a RemoveNode whose DELETE fails.
OnlineIsRegistered ==
    Quiet => \A n \in Nodes :
               List(n).status = "online" /\ astray[n] \cap {"removal", "restart"} = {}
                 => List(n).canManage

\* When nothing is under way, a session that is running has a runtime that joined
\* it and is connected: the end of a connection fails the sessions of its runtime,
\* and the start of the server those of the server before.  Since that start, no
\* connection may have taken the endpoint of another, nor a removal one in use.
RunningIsServed ==
    Quiet /\ (\A n \in Nodes : astray[n] \subseteq {"restart"}) =>
       \A s \in Sids : row[s].status = "running" =>
          \E n \in members[s] \cap Nodes : Registered(n)

\* A session that has failed does not run again, whether its runtime was lost, it was
\* stale or the server was restarted: a runtime that joins late finds it as it is.
NeverRunningAgain ==
    [][\A s \in Sids : row[s].status = "failed" => row'[s].status # "running"]_row

\* A machine that has registered connects again after every interruption: its
\* runtime, while its process lives, is in the end served again and again.
Reconnects ==
    \A p \in Procs :
       <>[](proc[p].up /\ proc[p].file # 0) =>
         []<>(proc[p].conn # NoConn /\ At(proc[p].conn, "serve"))
=============================================================================
