--------------------------- MODULE BusNodes_proofs ---------------------------
(***************************************************************************)
(* The types of the bus, its tables and its goroutines, and the owner of   *)
(* every endpoint, for every number of nodes, machines, connections and    *)
(* sessions, with the column node_id and without it.                       *)
(*                                                                         *)
(* NoDeadEndpoint is inductive together with the type once it is said that *)
(* a registered endpoint has a connection at all (Owned).  Only register   *)
(* makes an owner, and moves its goroutine to where it will unregister;    *)
(* every other step of a goroutine that owns an endpoint leaves it its     *)
(* address and one of the steps in Serving, until it unregisters.          *)
(*                                                                         *)
(* The two properties of quiet states follow from SInv, which says what    *)
(* they become while goroutines are under way.  OnlineIsRegistered: who    *)
(* is to register, or to write offline (Backed).  RunningIsServed: which   *)
(* connection serves the session or has it on its list to fail (Served),   *)
(* and, for the answer that sets it running, that whoever is told that it  *)
(* joined is a member (Answered), that a session is made new on the bus    *)
(* only before anyone can know of it (Unborn), and that no other           *)
(* connection can take its endpoint (Own).                                 *)
(***************************************************************************)
EXTENDS BusNodes, SequenceTheorems, TLAPS

AllMessages == Messages \cup {Hello}

\* Where a goroutine is while the endpoint of its address may be its own.
Serving == {"deliver", "serve", "fail", "unregister"}

\* Every registered endpoint has a connection, and its goroutine will unregister it.
Owner(a) == /\ endpoints[a].conn \in Conns
            /\ conn[endpoints[a].conn].addr = a
            /\ conn[endpoints[a].conn].pc \in Serving
Owned == \A a \in Addrs : Registered(a) => Owner(a)

\* The steps before a goroutine knows its address.
Unnamed == {"free", "lookup", "expire", "use", "insert"}

\* A runtime that is up was installed with a token.
Installed == \A p \in Procs : proc[p].up => proc[p].token \in Tokens

\* A goroutine looks up a token or a secret, saves the token for a node, and has an address
\* at all later steps.
Known == \A c \in Conns :
            /\ At(c, "lookup") /\ conn[c].secret = 0 => conn[c].token \in Tokens
            /\ At(c, "save") => conn[c].addr \in Nodes
            /\ conn[c].pc \notin Unnamed => conn[c].addr \in Addrs

Handshake == Installed /\ Known

\* The inductive invariant.
BInv == BusTypeOK /\ Handshake /\ Owned

-----------------------------------------------------------------------------
(* The helpers have the types of what they are assigned to.                *)

LEMMA IdleType == Idle \in Goroutines /\ NotInstalled \in Runtimes /\ NoEndpoint \in Endpoints
BY DEF Idle, Goroutines, Steps, NotInstalled, Runtimes, NoEndpoint, Endpoints

\* A record with another value in a field.
LEMMA RuntimeFields ==
    ASSUME NEW r \in Runtimes
    PROVE  /\ \A x \in Conns \cup {NoConn} : [r EXCEPT !.conn = x] \in Runtimes
           /\ \A x \in Nat : [r EXCEPT !.file = x] \in Runtimes
           /\ \A x \in Nat, b \in BOOLEAN : [r EXCEPT !.up = b, !.secret = x] \in Runtimes
           /\ \A x \in Conns \cup {NoConn}, b \in BOOLEAN :
                [r EXCEPT !.up = b, !.conn = x] \in Runtimes
           /\ \A t \in Tokens : [NotInstalled EXCEPT !.up = TRUE, !.token = t] \in Runtimes
BY DEF Runtimes, NotInstalled

LEMMA RuntimeKeeps ==
    ASSUME NEW r \in Runtimes
    PROVE  /\ \A x : [r EXCEPT !.conn = x].token = r.token /\ [r EXCEPT !.conn = x].up = r.up
           /\ \A x : [r EXCEPT !.file = x].token = r.token /\ [r EXCEPT !.file = x].up = r.up
BY DEF Runtimes

LEMMA GoroutineFields ==
    ASSUME NEW r \in Goroutines
    PROVE  /\ \A x \in Steps : [r EXCEPT !.pc = x] \in Goroutines
           /\ \A x \in Steps, a \in Addrs \cup {NoNode} : [r EXCEPT !.addr = a, !.pc = x] \in Goroutines
           /\ \A x \in Steps, k \in Nat : [r EXCEPT !.pc = x, !.secret = k] \in Goroutines
           /\ \A x \in Steps, a \in Addrs \cup {NoNode}, k \in Nat :
                [r EXCEPT !.pc = x, !.addr = a, !.secret = k] \in Goroutines
           /\ \A x \in Steps, ss \in SUBSET Sids : [r EXCEPT !.pc = x, !.todo = ss] \in Goroutines
           /\ \A ss \in SUBSET Sids : [r EXCEPT !.todo = ss] \in Goroutines
BY DEF Goroutines

LEMMA TokenFields ==
    ASSUME NEW r \in TokenRows
    PROVE  /\ \A x \in {"used", "expired", "pending"} : [r EXCEPT !.status = x] \in TokenRows
           /\ \A n \in Nodes : [r EXCEPT !.node = n] \in TokenRows
BY DEF TokenRows

LEMMA EndpointFields ==
    ASSUME NEW r \in Endpoints
    PROVE  [r EXCEPT !.deliver = TRUE] \in Endpoints /\ [r EXCEPT !.capable = TRUE] \in Endpoints
BY DEF Endpoints

LEMMA EndpointKeeps ==
    ASSUME NEW r \in Endpoints
    PROVE  /\ [r EXCEPT !.deliver = TRUE].conn = r.conn
           /\ [r EXCEPT !.capable = TRUE].conn = r.conn
BY DEF Endpoints

LEMMA RowFields ==
    ASSUME NEW r \in SessionRows
    PROVE  /\ \A x \in {"pending", "running", "failed"} : [r EXCEPT !.status = x] \in SessionRows
           /\ r.status \in {"none", "pending", "running", "failed"}
           /\ [r EXCEPT !.status = r.status] \in SessionRows
BY DEF SessionRows

LEMMA NodeFields ==
    ASSUME NEW r \in NodeRows
    PROVE  \A x \in Nat : [r EXCEPT !.secret = x] \in NodeRows
BY DEF NodeRows

LEMMA UnregisterType ==
    ASSUME BusTypeOK, NEW a, Unregister(a)
    PROVE  endpoints' \in [Addrs -> Endpoints] /\ members' \in [Sids -> SUBSET (Addrs \cup {Api})]
BY IdleType DEF BusTypeOK, Unregister

LEMMA GotoType ==
    ASSUME BusTypeOK, NEW c \in Conns, NEW pc \in Steps, Goto(c, pc)
    PROVE  conn' \in [Conns -> Goroutines]
<1>1. conn \in [Conns -> Goroutines] /\ conn[c] \in Goroutines
  BY DEF BusTypeOK
<1>2. [conn[c] EXCEPT !.pc = pc] \in Goroutines
  BY <1>1 DEF Goroutines
<1> QED
  BY <1>1, <1>2 DEF Goto

LEMMA DroppedType ==
    ASSUME BusTypeOK, NEW c \in Conns
    PROVE  Dropped(c) \in [Procs -> Runtimes]
<1>1. \A p \in Procs : [proc[p] EXCEPT !.conn = NoConn] \in Runtimes
  BY RuntimeFields DEF BusTypeOK
<1> QED
  BY <1>1 DEF BusTypeOK, Dropped

LEMMA ClosedType ==
    ASSUME BusTypeOK, NEW c \in Conns, Closed(c)
    PROVE  /\ conn' \in [Conns -> Goroutines]
           /\ inbox' \in [Conns -> Seq(AllMessages)]
           /\ lost' \in SUBSET Conns
           /\ proc' \in [Procs -> Runtimes]
<1>1. <<>> \in Seq(AllMessages)
  BY EmptySeq
<1>2. inbox \in [Conns -> Seq(AllMessages)]
  BY DEF BusTypeOK, AllMessages
<1>3. inbox' \in [Conns -> Seq(AllMessages)]
  BY <1>1, <1>2 DEF Closed
<1>4. conn' \in [Conns -> Goroutines]
  BY IdleType DEF BusTypeOK, Closed
<1> QED
  BY <1>3, <1>4, DroppedType DEF BusTypeOK, Closed

LEMMA SetStatusType ==
    ASSUME BusTypeOK, NEW n, NEW status \in {"online", "offline"}, SetStatus(n, status)
    PROVE  node' \in [Nodes -> NodeRows]
BY DEF BusTypeOK, SetStatus, NodeRows

\* A message that is read is replaced by at most what follows from it.
LEMMA ReadType ==
    ASSUME BusTypeOK, NEW c \in Conns, inbox[c] # <<>>, NEW then \in Seq(AllMessages)
    PROVE  Read(c, then) \in [Conns -> Seq(AllMessages)]
<1>1. inbox \in [Conns -> Seq(AllMessages)]
  BY DEF BusTypeOK, AllMessages
<1>2. Tail(inbox[c]) \in Seq(AllMessages)
  BY <1>1, HeadTailProperties
<1>3. then \o Tail(inbox[c]) \in Seq(AllMessages)
  BY <1>2, ConcatProperties
<1> QED
  BY <1>1, <1>3 DEF Read

LEMMA InvitedType ==
    ASSUME NEW ib \in [Conns -> Seq(AllMessages)], NEW as, NEW s \in Sids
    PROVE  Invited(ib, as, s) \in [Conns -> Seq(AllMessages)]
<1>1. [type |-> "join", session |-> s] \in AllMessages
  BY DEF AllMessages, Messages
<1>2. \A c \in Conns : Append(ib[c], [type |-> "join", session |-> s]) \in Seq(AllMessages)
  BY <1>1, AppendProperties
<1> QED
  BY <1>2 DEF Invited

\* Whoever is said to, the session of the message is one.
LEMMA SaidType ==
    ASSUME BusTypeOK, NEW c \in Conns, NEW type \in {"join", "running", "invite", "create", "forward"},
           Says(c, type)
    PROVE  Said(c) \in Sids /\ inbox[c] # <<>>
<1>1. inbox[c] \in Seq(AllMessages) /\ inbox[c] # <<>>
  BY DEF BusTypeOK, AllMessages, Says
<1>2. Head(inbox[c]) \in AllMessages /\ Head(inbox[c]).type = type
  BY <1>1, HeadTailProperties DEF Says
<1>3. Head(inbox[c]) \in Messages
  BY <1>2 DEF AllMessages, Hello
<1> QED
  BY <1>1, <1>3 DEF Said, Messages

LEMMA OverlapsType ==
    ASSUME BusTypeOK, NEW c, NEW a, Overlaps(c, a)
    PROVE  astray' \in [Nodes -> SUBSET {"overlap", "removal", "restart"}]
BY DEF BusTypeOK, Overlaps

-----------------------------------------------------------------------------
(* The machines.                                                           *)

LEMMA TypeOfMachines ==
    ASSUME BusTypeOK,
           \/ \E t \in Tokens : GenerateToken(t)
           \/ \E p \in Procs, t \in Tokens : InstallScript(p, t)
           \/ \E p \in Procs : runStart(p) \/ Shutdown(p) \/ \E c \in Conns : Run(p, c)
           \/ \E c \in Conns : Lose(c)
    PROVE  BusTypeOK'
<1> USE DEF busVars, tables, server, clients, counters
<1>1. proc \in [Procs -> Runtimes] /\ (\A p \in Procs : proc[p] \in Runtimes) /\ conn \in [Conns -> Goroutines]
  BY DEF BusTypeOK
<1>2. ASSUME NEW t \in Tokens, GenerateToken(t)
      PROVE  BusTypeOK'
  <2>1. token' \in [Tokens -> TokenRows]
    BY <1>2 DEF BusTypeOK, GenerateToken, TokenRows
  <2> QED
    BY <1>2, <2>1 DEF BusTypeOK, GenerateToken, Request
<1>3. ASSUME NEW p \in Procs, NEW t \in Tokens, InstallScript(p, t)
      PROVE  BusTypeOK'
  <2>1. proc' \in [Procs -> Runtimes]
    BY <1>1, <1>3, RuntimeFields DEF InstallScript
  <2> QED
    BY <1>3, <2>1 DEF BusTypeOK, InstallScript
<1>4. ASSUME NEW p \in Procs, runStart(p)
      PROVE  BusTypeOK'
  <2>1. [proc[p] EXCEPT !.up = TRUE, !.secret = proc[p].file] \in Runtimes
    <3>1. proc[p].file \in Nat
      BY <1>1 DEF Runtimes
    <3> QED
      BY <1>1, <3>1, RuntimeFields
  <2>2. proc' \in [Procs -> Runtimes]
    BY <1>1, <1>4, <2>1 DEF runStart
  <2> QED
    BY <1>4, <2>2 DEF BusTypeOK, runStart
<1>5. ASSUME NEW p \in Procs, NEW c \in Conns, Run(p, c)
      PROVE  BusTypeOK'
  <2>1. [Idle EXCEPT !.pc = "lookup", !.proc = p, !.secret = proc[p].secret,
           !.token = IF proc[p].secret = 0 THEN proc[p].token ELSE NoToken] \in Goroutines
    BY <1>1 DEF Runtimes, Goroutines, Steps, Idle
  <2>2. conn' \in [Conns -> Goroutines]
    BY <1>1, <1>5, <2>1 DEF Run
  <2>3. proc' \in [Procs -> Runtimes]
    <3>1. [proc[p] EXCEPT !.conn = c] \in Runtimes
      BY <1>1, RuntimeFields
    <3> QED
      BY <1>1, <1>5, <3>1 DEF Run
  <2>4. inbox' \in [Conns -> Seq(AllMessages)]
    <3>1. <<Hello>> \in Seq(AllMessages)
      BY DEF AllMessages
    <3> QED
      BY <1>5, <3>1 DEF BusTypeOK, AllMessages, Run
  <2> QED
    BY <1>5, <2>2, <2>3, <2>4 DEF BusTypeOK, AllMessages, Run
<1>6. ASSUME NEW c \in Conns, Lose(c)
      PROVE  BusTypeOK'
  BY <1>6, DroppedType DEF BusTypeOK, Lose, Request
<1>7. ASSUME NEW p \in Procs, Shutdown(p)
      PROVE  BusTypeOK'
  <2>1. proc' \in [Procs -> Runtimes] /\ lost' \in SUBSET Conns
    <3>1. [proc[p] EXCEPT !.up = FALSE, !.conn = NoConn] \in Runtimes
      BY <1>1, RuntimeFields
    <3>2. proc[p].conn \in Conns \cup {NoConn}
      BY <1>1 DEF Runtimes
    <3> QED
      BY <1>1, <1>7, <3>1, <3>2 DEF BusTypeOK, Shutdown, ExitOf
  <2> QED
    BY <1>7, <2>1 DEF BusTypeOK, Shutdown, Request
<1> QED
  BY <1>2, <1>3, <1>4, <1>5, <1>6, <1>7

LEMMA TypeOfUis ==
    ASSUME BusTypeOK, NEW c \in Conns,
           (\E u \in Uis : DialUi(c, u)) \/ (\E s \in Sids : UiSends(c, s))
    PROVE  BusTypeOK'
<1> USE DEF busVars, tables, server, clients, counters
<1>1. ASSUME NEW u \in Uis, DialUi(c, u)
      PROVE  BusTypeOK'
  <2>1. [Idle EXCEPT !.pc = "register", !.addr = u] \in Goroutines
    BY IdleType DEF Goroutines, Steps, Idle, Addrs
  <2>2. conn' \in [Conns -> Goroutines]
    BY <1>1, <2>1 DEF BusTypeOK, DialUi
  <2>3. <<Hello>> \in Seq(AllMessages)
    BY DEF AllMessages
  <2>4. inbox' \in [Conns -> Seq(AllMessages)]
    BY <1>1, <2>3 DEF BusTypeOK, AllMessages, DialUi
  <2>5. calls' \in Nat /\ UNCHANGED secrets
    <3>1. Request
      BY <1>1 DEF DialUi
    <3> QED
      BY <3>1 DEF BusTypeOK, Request
  <2> QED
    BY <1>1, <2>2, <2>4, <2>5 DEF BusTypeOK, AllMessages, DialUi
<1>2. ASSUME NEW s \in Sids, UiSends(c, s)
      PROVE  BusTypeOK'
  <2>1. PICK type \in {"join", "create"} :
          inbox' = [inbox EXCEPT ![c] = Append(@, [type |-> type, session |-> s])]
    BY <1>2 DEF UiSends
  <2>2. inbox \in [Conns -> Seq(AllMessages)] /\ [type |-> type, session |-> s] \in AllMessages
    BY DEF BusTypeOK, AllMessages, Messages
  <2>3. inbox' \in [Conns -> Seq(AllMessages)]
    BY <2>1, <2>2, AppendProperties
  <2> QED
    BY <1>2, <2>3 DEF BusTypeOK, AllMessages, UiSends, Request
<1> QED
  BY <1>1, <1>2

-----------------------------------------------------------------------------
(* The goroutine of a connection, from the handshake to the end.           *)

LEMMA TypeOfHandshake ==
    ASSUME BusTypeOK, Handshake, NEW c \in Conns,
           \/ lookupSecret(c) \/ markOnline(c) \/ lookupToken(c) \/ expireToken(c) \/ useToken(c)
           \/ insertNode(c) \/ saveNode(c) \/ reissueSecret(c) \/ answer(c)
    PROVE  BusTypeOK'
<1> USE DEF busVars, tables, server, clients, counters
<1>1. conn \in [Conns -> Goroutines] /\ conn[c] \in Goroutines
  BY DEF BusTypeOK
<1>2. conn[c].secret \in Nat /\ conn[c].addr \in Addrs \cup {NoNode} /\ Nodes \subseteq Addrs
  BY <1>1 DEF Goroutines, Addrs
<1>3. CASE lookupSecret(c)
  <2>1. CASE Closed(c)
    BY <1>3, <2>1, ClosedType DEF BusTypeOK, AllMessages, lookupSecret
  <2>2. ASSUME NEW n \in Nodes, conn' = [conn EXCEPT ![c].addr = n, ![c].pc = "online"],
               UNCHANGED <<inbox, clients>>
        PROVE  BusTypeOK'
    <3>1. [conn[c] EXCEPT !.addr = n, !.pc = "online"] \in Goroutines
      BY <1>1, <1>2, GoroutineFields DEF Steps
    <3>2. conn' \in [Conns -> Goroutines]
      BY <1>1, <2>2, <3>1
    <3> QED
      BY <1>3, <2>2, <3>2 DEF BusTypeOK, lookupSecret
  <2> QED
    BY <1>3, <2>1, <2>2 DEF lookupSecret
<1>4. CASE markOnline(c)
  <2>1. conn' \in [Conns -> Goroutines]
    BY <1>4, GotoType DEF markOnline, Steps
  <2>2. node' \in [Nodes -> NodeRows]
    BY <1>4, SetStatusType DEF markOnline
  <2> QED
    BY <1>4, <2>1, <2>2 DEF BusTypeOK, markOnline
<1>5. CASE lookupToken(c)
  <2>1. CASE Closed(c)
    BY <1>5, <2>1, ClosedType DEF BusTypeOK, AllMessages, lookupToken
  <2>2. CASE (\E pc \in {"use", "expire"} : Goto(c, pc)) /\ UNCHANGED <<inbox, clients>>
    <3>1. conn' \in [Conns -> Goroutines]
      BY <2>2, GotoType DEF Steps
    <3> QED
      BY <1>5, <2>2, <3>1 DEF BusTypeOK, lookupToken
  <2>3. CASE /\ token[conn[c].token].status = "used"
             /\ node[token[conn[c].token].node].status = "offline"
             /\ token[conn[c].token].node # NoNode
             /\ conn' = [conn EXCEPT ![c].addr = token[conn[c].token].node, ![c].pc = "reissue"]
             /\ UNCHANGED <<inbox, clients>>
    <3>1. conn[c].token \in Tokens
      BY <1>5 DEF Handshake, Known, lookupToken
    <3>2. token[conn[c].token].node \in Addrs
      BY <1>2, <2>3, <3>1 DEF BusTypeOK, TokenRows
    <3>3. [conn[c] EXCEPT !.addr = token[conn[c].token].node, !.pc = "reissue"] \in Goroutines
      BY <1>1, <3>2, GoroutineFields DEF Steps
    <3>4. conn' \in [Conns -> Goroutines]
      BY <1>1, <2>3, <3>3
    <3> QED
      BY <1>5, <2>3, <3>4 DEF BusTypeOK, lookupToken
  <2> QED
    BY <1>5, <2>1, <2>2, <2>3 DEF lookupToken
<1>6. CASE expireToken(c)
  <2>1. token' \in [Tokens -> TokenRows]
    BY <1>6, TokenFields DEF BusTypeOK, expireToken
  <2> QED
    BY <1>6, <2>1, ClosedType DEF BusTypeOK, AllMessages, expireToken
<1>7. CASE useToken(c)
  <2>1. token' \in [Tokens -> TokenRows]
    BY <1>7, TokenFields DEF BusTypeOK, useToken
  <2>2. conn' \in [Conns -> Goroutines]
    BY <1>7, GotoType DEF useToken, Steps
  <2> QED
    BY <1>7, <2>1, <2>2 DEF BusTypeOK, useToken
<1>8. CASE insertNode(c)
  <2>1. PICK n \in Nodes :
          /\ node' = [node EXCEPT ![n] = [status |-> "online", secret |-> secrets + 1]]
          /\ conn' = [conn EXCEPT ![c].pc = "save", ![c].addr = n, ![c].secret = secrets + 1]
    BY <1>8 DEF insertNode
  <2>2. secrets + 1 \in Nat /\ secrets' = secrets + 1
    <3>1. Secret
      BY <1>8 DEF insertNode
    <3> QED
      BY <3>1 DEF BusTypeOK, Secret
  <2>3. [status |-> "online", secret |-> secrets + 1] \in NodeRows
    BY <2>2 DEF NodeRows
  <2>4. [conn[c] EXCEPT !.pc = "save", !.addr = n, !.secret = secrets + 1] \in Goroutines
    BY <1>1, <1>2, <2>2, GoroutineFields DEF Steps
  <2>5. conn' \in [Conns -> Goroutines]
    BY <1>1, <2>1, <2>4
  <2>6. node' \in [Nodes -> NodeRows]
    BY <2>1, <2>3 DEF BusTypeOK
  <2> QED
    BY <1>8, <2>2, <2>5, <2>6 DEF BusTypeOK, insertNode
<1>9. CASE saveNode(c)
  <2>1. token' \in [Tokens -> TokenRows]
    <3>1. conn[c].addr \in Nodes
      BY <1>9 DEF Handshake, Known, saveNode
    <3> QED
      BY <1>9, <3>1, TokenFields DEF BusTypeOK, saveNode
  <2>2. conn' \in [Conns -> Goroutines]
    BY <1>9, GotoType DEF saveNode, Steps
  <2> QED
    BY <1>9, <2>1, <2>2 DEF BusTypeOK, saveNode
<1>10. CASE reissueSecret(c)
  <2>1. secrets + 1 \in Nat /\ secrets' = secrets + 1
    BY <1>10 DEF BusTypeOK, reissueSecret, Secret
  <2>2. node' \in [Nodes -> NodeRows]
    BY <1>10, <2>1 DEF BusTypeOK, reissueSecret, NodeRows
  <2>3. [conn[c] EXCEPT !.pc = "answer", !.secret = secrets + 1] \in Goroutines
    BY <1>1, <2>1, GoroutineFields DEF Steps
  <2>4. conn' \in [Conns -> Goroutines]
    BY <1>1, <1>10, <2>3 DEF reissueSecret
  <2> QED
    BY <1>10, <2>1, <2>2, <2>4 DEF BusTypeOK, reissueSecret
<1>11. CASE answer(c)
  <2>1. \A p \in Procs : [proc[p] EXCEPT !.file = conn[c].secret] \in Runtimes
    BY <1>2, RuntimeFields DEF BusTypeOK
  <2>2. proc' \in [Procs -> Runtimes]
    BY <1>11, <2>1 DEF BusTypeOK, answer
  <2>3. conn' \in [Conns -> Goroutines]
    BY <1>11, GotoType DEF answer, Steps
  <2> QED
    BY <1>11, <2>2, <2>3 DEF BusTypeOK, answer
<1> QED
  BY <1>3, <1>4, <1>5, <1>6, <1>7, <1>8, <1>9, <1>10, <1>11

LEMMA TypeOfConnection ==
    ASSUME BusTypeOK, NEW c \in Conns,
           \/ register(c) \/ setDeliver(c) \/ endOfRead(c) \/ MarkFailed(c) \/ unregister(c)
           \/ markOffline(c)
    PROVE  BusTypeOK'
<1> USE DEF busVars, tables, server, clients, counters
<1>1. conn \in [Conns -> Goroutines] /\ conn[c] \in Goroutines
  BY DEF BusTypeOK
<1>2. inbox \in [Conns -> Seq(AllMessages)]
  BY DEF BusTypeOK, AllMessages
<1>3. CASE register(c)
  <2>1. [NoEndpoint EXCEPT !.conn = c] \in Endpoints
    BY DEF NoEndpoint, Endpoints
  <2>2. endpoints' \in [Addrs -> Endpoints] /\ UNCHANGED members
    BY <1>3, <2>1 DEF BusTypeOK, register, Register
  <2>3. conn' \in [Conns -> Goroutines]
    BY <1>3, GotoType DEF register, Steps
  <2> QED
    BY <1>3, <2>2, <2>3, OverlapsType DEF BusTypeOK, register
<1>4. CASE setDeliver(c)
  <2>1. \A a \in Addrs : [endpoints[a] EXCEPT !.deliver = TRUE] \in Endpoints
    BY EndpointFields DEF BusTypeOK
  <2>2. endpoints' \in [Addrs -> Endpoints] /\ UNCHANGED members
    BY <1>4, <2>1 DEF BusTypeOK, setDeliver, SetEndpointDeliver
  <2>3. conn' \in [Conns -> Goroutines]
    BY <1>4, GotoType DEF setDeliver, Steps
  <2> QED
    BY <1>4, <2>2, <2>3 DEF BusTypeOK, setDeliver
<1>5. CASE endOfRead(c)
  <2>1. [conn[c] EXCEPT !.pc = "fail", !.todo = GetEndpointSessions(conn[c].addr)] \in Goroutines
    <3>1. GetEndpointSessions(conn[c].addr) \in SUBSET Sids
      BY DEF GetEndpointSessions
    <3> QED
      BY <1>1, <3>1, GoroutineFields DEF Steps
  <2>2. [conn[c] EXCEPT !.pc = "unregister"] \in Goroutines
    BY <1>1, GoroutineFields DEF Steps
  <2>3. conn' \in [Conns -> Goroutines]
    BY <1>1, <1>5, <2>1, <2>2 DEF endOfRead
  <2>4. inbox' \in [Conns -> Seq(AllMessages)]
    BY <1>2, <1>5, EmptySeq DEF endOfRead
  <2> QED
    BY <1>5, <2>3, <2>4 DEF BusTypeOK, AllMessages, endOfRead
<1>6. CASE MarkFailed(c)
  <2>1. CASE Goto(c, "unregister") /\ UNCHANGED row
    <3>1. conn' \in [Conns -> Goroutines]
      BY <2>1, GotoType DEF Steps
    <3> QED
      BY <1>6, <2>1, <3>1 DEF BusTypeOK, MarkFailed
  <2>2. ASSUME NEW s \in conn[c].todo,
               row' = IF row[s].status = "none" THEN row ELSE [row EXCEPT ![s].status = "failed"],
               conn' = [conn EXCEPT ![c].todo = @ \ {s}]
        PROVE  BusTypeOK'
    <3>1. conn[c].todo \in SUBSET Sids
      BY <1>1 DEF Goroutines
    <3>2. [conn[c] EXCEPT !.todo = @ \ {s}] \in Goroutines
      BY <1>1, <3>1, GoroutineFields
    <3>3. conn' \in [Conns -> Goroutines]
      BY <1>1, <2>2, <3>2
    <3>4. row' \in [Sids -> SessionRows]
      BY <2>2, <3>1, RowFields DEF BusTypeOK
    <3> QED
      BY <1>6, <3>3, <3>4 DEF BusTypeOK, MarkFailed
  <2> QED
    BY <1>6, <2>1, <2>2 DEF MarkFailed
<1>7. CASE unregister(c)
  <2>1. endpoints' \in [Addrs -> Endpoints] /\ members' \in [Sids -> SUBSET (Addrs \cup {Api})]
    BY <1>7, UnregisterType DEF unregister
  <2>2. CASE Goto(c, "offline") /\ UNCHANGED <<inbox, clients>>
    <3>1. conn' \in [Conns -> Goroutines]
      BY <2>2, GotoType DEF Steps
    <3> QED
      BY <1>7, <2>1, <2>2, <3>1, OverlapsType DEF BusTypeOK, unregister
  <2>3. CASE Closed(c)
    BY <1>7, <2>1, <2>3, ClosedType, OverlapsType DEF BusTypeOK, AllMessages, unregister
  <2> QED
    BY <1>7, <2>2, <2>3 DEF unregister
<1>8. CASE markOffline(c)
  <2>1. node' \in [Nodes -> NodeRows]
    BY <1>8, SetStatusType DEF markOffline
  <2> QED
    BY <1>8, <2>1, ClosedType DEF BusTypeOK, AllMessages, markOffline
<1> QED
  BY <1>3, <1>4, <1>5, <1>6, <1>7, <1>8

-----------------------------------------------------------------------------
(* What a client says.                                                     *)

LEMMA TypeOfMessages ==
    ASSUME BusTypeOK, Handshake, NEW c \in Conns,
           \/ hello(c) \/ handleSessionJoin(c) \/ MarkRunning(c) \/ inviteRuntimes(c)
           \/ handleSessionCreate(c) \/ forwardCreate(c)
    PROVE  BusTypeOK'
<1> USE DEF busVars, tables, server, clients, counters
<1>1. inbox \in [Conns -> Seq(AllMessages)]
  BY DEF BusTypeOK, AllMessages
<1>2. <<>> \in Seq(AllMessages)
  BY EmptySeq
<1>3. CASE hello(c)
  <2>1. inbox[c] # <<>>
    BY <1>3 DEF hello, Says
  <2>2. inbox' \in [Conns -> Seq(AllMessages)]
    BY <1>2, <1>3, <2>1, ReadType DEF hello
  <2>3. endpoints' \in [Addrs -> Endpoints]
    BY <1>3, EndpointFields DEF BusTypeOK, hello
  <2> QED
    BY <1>3, <2>2, <2>3 DEF BusTypeOK, AllMessages, hello
<1>4. CASE handleSessionJoin(c)
  <2>1. Said(c) \in Sids /\ inbox[c] # <<>>
    BY <1>4, SaidType DEF handleSessionJoin
  <2>2. \A type \in {"running", "invite"} :
          <<[type |-> type, session |-> Said(c)]>> \in Seq(AllMessages)
    BY <2>1 DEF AllMessages, Messages
  <2>3. inbox' \in [Conns -> Seq(AllMessages)]
    BY <1>2, <1>4, <2>1, <2>2, ReadType DEF handleSessionJoin
  <2>4. conn[c].addr \in Addrs
    BY <1>4 DEF Handshake, Known, Unnamed, handleSessionJoin, Says, At
  <2>5. members' \in [Sids -> SUBSET (Addrs \cup {Api})]
    BY <1>4, <2>1, <2>4 DEF BusTypeOK, handleSessionJoin, JoinSession
  <2> QED
    BY <1>4, <2>3, <2>5 DEF BusTypeOK, AllMessages, handleSessionJoin, JoinSession
<1>5. CASE MarkRunning(c)
  <2>1. Said(c) \in Sids /\ inbox[c] # <<>>
    BY <1>5, SaidType DEF MarkRunning
  <2>2. inbox' \in [Conns -> Seq(AllMessages)]
    BY <1>2, <1>5, <2>1, ReadType DEF MarkRunning
  <2>3. row' \in [Sids -> SessionRows]
    BY <1>5, <2>1, RowFields DEF BusTypeOK, MarkRunning
  <2> QED
    BY <1>5, <2>2, <2>3 DEF BusTypeOK, AllMessages, MarkRunning
<1>6. CASE inviteRuntimes(c)
  <2>1. Said(c) \in Sids /\ inbox[c] # <<>>
    BY <1>6, SaidType DEF inviteRuntimes
  <2>2. inbox' \in [Conns -> Seq(AllMessages)]
    BY <1>2, <1>6, <2>1, ReadType, InvitedType DEF inviteRuntimes
  <2> QED
    BY <1>6, <2>2 DEF BusTypeOK, AllMessages, inviteRuntimes
<1>7. CASE handleSessionCreate(c)
  <2>1. Said(c) \in Sids /\ inbox[c] # <<>>
    BY <1>7, SaidType DEF handleSessionCreate
  <2>2. <<[type |-> "forward", session |-> Said(c)]>> \in Seq(AllMessages)
    BY <2>1 DEF AllMessages, Messages
  <2>3. inbox' \in [Conns -> Seq(AllMessages)]
    BY <1>7, <2>1, <2>2, ReadType DEF handleSessionCreate
  <2>4. conn[c].addr \in Addrs
    BY <1>7 DEF Handshake, Known, Unnamed, handleSessionCreate, Says, At
  <2>5. members' \in [Sids -> SUBSET (Addrs \cup {Api})]
    BY <1>7, <2>1, <2>4 DEF BusTypeOK, handleSessionCreate, CreateSession
  <2> QED
    BY <1>7, <2>3, <2>5 DEF BusTypeOK, AllMessages, handleSessionCreate, CreateSession
<1>8. CASE forwardCreate(c)
  <2>1. Said(c) \in Sids /\ inbox[c] # <<>>
    BY <1>8, SaidType DEF forwardCreate
  <2>2. inbox' \in [Conns -> Seq(AllMessages)]
    BY <1>2, <1>8, <2>1, ReadType, InvitedType DEF forwardCreate
  <2> QED
    BY <1>8, <2>2 DEF BusTypeOK, AllMessages, forwardCreate
<1> QED
  BY <1>3, <1>4, <1>5, <1>6, <1>7, <1>8

-----------------------------------------------------------------------------
(* Requests, cleaning and the restart.                                     *)

LEMMA TypeOfRequests ==
    ASSUME BusTypeOK,
           \/ \E s \in Sids : CreateStep(s) \/ \E n \in Nodes : CreateRequest(s, n)
           \/ \E n \in Nodes : \/ RemoveNode(n) \/ deleteNode(n) \/ StopNode(n)
                              \/ \E p \in Procs : StartNode(n, p)
    PROVE  BusTypeOK'
<1> USE DEF busVars, tables, server, clients, counters
<1> DEFINE Creating == [step : {"idle", "bus", "insert", "deliver"}, node : Nodes \cup {NoNode}]
<1>1. creating \in [Sids -> Creating] /\ (\A s \in Sids : creating[s] \in Creating) /\ NoRequest \in Creating
  BY DEF BusTypeOK, NoRequest
<1>2. ASSUME NEW s \in Sids, NEW n \in Nodes, CreateRequest(s, n)
      PROVE  BusTypeOK'
  <2>1. [step |-> "bus", node |-> n] \in Creating
    OBVIOUS
  <2>2. creating' \in [Sids -> Creating]
    BY <1>1, <1>2, <2>1 DEF CreateRequest
  <2> QED
    BY <1>2, <2>2 DEF BusTypeOK, CreateRequest, Request
<1>3. ASSUME NEW s \in Sids, createOnBus(s)
      PROVE  BusTypeOK'
  <2>1. [creating[s] EXCEPT !.step = "insert"] \in Creating
    BY <1>1
  <2>2. creating' \in [Sids -> Creating]
    BY <1>1, <1>3, <2>1 DEF createOnBus
  <2>3. members' \in [Sids -> SUBSET (Addrs \cup {Api})]
    BY <1>3 DEF BusTypeOK, createOnBus, CreateSession
  <2> QED
    BY <1>3, <2>2, <2>3 DEF BusTypeOK, createOnBus, CreateSession
<1>4. ASSUME NEW s \in Sids, insertSession(s)
      PROVE  BusTypeOK'
  <2>1. [creating[s] EXCEPT !.step = "deliver"] \in Creating
    BY <1>1
  <2>2. creating' \in [Sids -> Creating]
    BY <1>1, <1>4, <2>1 DEF insertSession
  <2>3. creating[s].node \in Nodes \cup {NoNode}
    BY <1>1
  <2>4. [status |-> "pending", node |-> creating[s].node] \in SessionRows
    BY <2>3 DEF SessionRows
  <2>5. row' \in [Sids -> SessionRows]
    BY <1>4, <2>4 DEF BusTypeOK, insertSession
  <2>6. members' \in [Sids -> SUBSET (Addrs \cup {Api})] /\ UNCHANGED endpoints
    BY <1>4 DEF BusTypeOK, insertSession, EndSession
  <2> QED
    BY <1>4, <2>2, <2>5, <2>6 DEF BusTypeOK, insertSession
<1>5. ASSUME NEW s \in Sids, deliverCreate(s)
      PROVE  BusTypeOK'
  <2>1. creating' \in [Sids -> Creating]
    BY <1>1, <1>5 DEF deliverCreate
  <2>2. inbox' \in [Conns -> Seq(AllMessages)]
    BY <1>5, InvitedType DEF BusTypeOK, AllMessages, deliverCreate
  <2> QED
    BY <1>5, <2>1, <2>2 DEF BusTypeOK, AllMessages, deliverCreate
<1>6. ASSUME NEW n \in Nodes, RemoveNode(n)
      PROVE  BusTypeOK'
  <2>1. endpoints' \in [Addrs -> Endpoints] /\ members' \in [Sids -> SUBSET (Addrs \cup {Api})]
    BY <1>6, UnregisterType DEF RemoveNode
  <2>2. astray' \in [Nodes -> SUBSET {"overlap", "removal", "restart"}]
    BY <1>6 DEF BusTypeOK, RemoveNode
  <2> QED
    BY <1>6, <2>1, <2>2 DEF BusTypeOK, RemoveNode, Request
<1>7. ASSUME NEW n \in Nodes, deleteNode(n)
      PROVE  BusTypeOK'
  <2>1. [status |-> "none", secret |-> 0] \in NodeRows
    BY DEF NodeRows
  <2>2. node' \in [Nodes -> NodeRows]
    BY <1>7, <2>1 DEF BusTypeOK, deleteNode
  <2> QED
    BY <1>7, <2>2 DEF BusTypeOK, deleteNode
<1>8. ASSUME NEW n \in Nodes, StopNode(n)
      PROVE  BusTypeOK'
  <2>1. PICK q \in Procs : ExitOf(q)
    BY <1>8 DEF StopNode
  <2>2. proc' \in [Procs -> Runtimes] /\ lost' \in SUBSET Conns
    <3>1. [proc[q] EXCEPT !.up = FALSE, !.conn = NoConn] \in Runtimes
      BY RuntimeFields DEF BusTypeOK
    <3>2. proc[q].conn \in Conns \cup {NoConn}
      BY DEF BusTypeOK, Runtimes
    <3> QED
      BY <2>1, <3>1, <3>2 DEF BusTypeOK, ExitOf
  <2> QED
    BY <1>8, <2>2 DEF BusTypeOK, StopNode, Request
<1>9. ASSUME NEW n \in Nodes, NEW p \in Procs, StartNode(n, p)
      PROVE  BusTypeOK'
  <2>1. secrets + 1 \in Nat /\ secrets' = secrets + 1 /\ calls' \in Nat
    <3>1. Secret /\ calls' = calls + 1
      BY <1>9 DEF StartNode
    <3> QED
      BY <3>1 DEF BusTypeOK, Secret
  <2>2. [node[n] EXCEPT !.secret = secrets + 1] \in NodeRows
    BY <2>1, NodeFields DEF BusTypeOK
  <2>3. node' \in [Nodes -> NodeRows]
    BY <1>9, <2>2 DEF BusTypeOK, StartNode
  <2>4. [proc[p] EXCEPT !.up = TRUE, !.secret = secrets + 1] \in Runtimes
    BY <2>1, RuntimeFields DEF BusTypeOK
  <2>5. proc' \in [Procs -> Runtimes]
    BY <1>9, <2>4 DEF BusTypeOK, StartNode
  <2> QED
    BY <1>9, <2>1, <2>3, <2>5 DEF BusTypeOK, StartNode
<1> QED
  BY <1>2, <1>3, <1>4, <1>5, <1>6, <1>7, <1>8, <1>9 DEF CreateStep

LEMMA TypeOfCleaning ==
    ASSUME BusTypeOK,
           \/ CleanStaleDBSessions
           \/ cleanStaleSessions /\ UNCHANGED <<tables, server, clients, counters, astray>>
           \/ Restart
    PROVE  BusTypeOK'
<1> USE DEF busVars, tables, server, clients, counters
<1>1. CASE CleanStaleDBSessions
  <2>1. \A s \in Sids : [row[s] EXCEPT !.status = "failed"] \in SessionRows
    BY RowFields DEF BusTypeOK
  <2>2. row' \in [Sids -> SessionRows]
    BY <1>1, <2>1 DEF BusTypeOK, CleanStaleDBSessions
  <2> QED
    BY <1>1, <2>2 DEF BusTypeOK, CleanStaleDBSessions
<1>2. CASE cleanStaleSessions /\ UNCHANGED <<tables, server, clients, counters, astray>>
  <2>1. members' \in [Sids -> SUBSET (Addrs \cup {Api})] /\ UNCHANGED endpoints
    BY <1>2 DEF BusTypeOK, cleanStaleSessions
  <2> QED
    BY <1>2, <2>1 DEF BusTypeOK
<1>3. CASE Restart
  <2>1. \A p \in Procs : [proc[p] EXCEPT !.conn = NoConn] \in Runtimes
    BY RuntimeFields DEF BusTypeOK
  <2>2. proc' \in [Procs -> Runtimes]
    BY <1>3, <2>1 DEF Restart
  <2>3. inbox' \in [Conns -> Seq(AllMessages)] /\ conn' \in [Conns -> Goroutines]
    BY <1>3, EmptySeq, IdleType DEF Restart
  <2>4. endpoints' \in [Addrs -> Endpoints] /\ members' \in [Sids -> SUBSET (Addrs \cup {Api})]
    BY <1>3, IdleType DEF Restart
  <2>5. creating' \in [Sids -> [step : {"idle", "bus", "insert", "deliver"}, node : Nodes \cup {NoNode}]]
    BY <1>3 DEF Restart, NoRequest
  <2>6. astray' \in [Nodes -> SUBSET {"overlap", "removal", "restart"}]
    BY <1>3 DEF BusTypeOK, Restart
  <2>7. row' \in [Sids -> SessionRows]
    BY <1>3, RowFields DEF BusTypeOK, Restart, Migrate
  <2> QED
    BY <1>3, <2>2, <2>3, <2>4, <2>5, <2>6, <2>7 DEF BusTypeOK, AllMessages, Restart, Request
<1> QED
  BY <1>1, <1>2, <1>3

LEMMA TypeStep ==
    ASSUME BusTypeOK, Handshake, [Next]_vars
    PROVE  BusTypeOK'
<1>1. CASE UNCHANGED vars
  BY <1>1 DEF vars, busVars, tables, server, clients, counters, BusTypeOK
<1>2. ASSUME NEW c \in Conns, HandleWS(c)
      PROVE  BusTypeOK'
  BY <1>2, TypeOfHandshake, TypeOfConnection, TypeOfMessages DEF HandleWS
<1> QED
  BY <1>1, <1>2, TypeOfMachines, TypeOfUis, TypeOfRequests, TypeOfCleaning DEF Next

-----------------------------------------------------------------------------
(* What the goroutines know.                                               *)

\* The other goroutines stay where they are.
Alone(c) == \A d \in Conns \ {c} : conn'[d] = conn[d]

LEMMA GotoMoves ==
    ASSUME BusTypeOK, NEW c \in Conns, NEW pc \in Steps, Goto(c, pc)
    PROVE  Alone(c) /\ conn'[c] = [conn[c] EXCEPT !.pc = pc]
           /\ conn'[c].pc = pc /\ conn'[c].addr = conn[c].addr
<1>1. Alone(c) /\ conn'[c] = [conn[c] EXCEPT !.pc = pc]
  BY DEF BusTypeOK, Goto, Alone
<1>2. conn[c] \in Goroutines
  BY DEF BusTypeOK
<1> QED
  BY <1>1, <1>2 DEF Goroutines

LEMMA ClosedMoves ==
    ASSUME BusTypeOK, NEW c \in Conns, Closed(c)
    PROVE  Alone(c) /\ conn'[c] = Idle
BY DEF BusTypeOK, Closed, Alone

LEMMA InstalledStep ==
    ASSUME BusTypeOK, Installed, [Next]_vars
    PROVE  Installed'
<1> USE DEF busVars, tables, server, clients, counters
<1>1. proc \in [Procs -> Runtimes] /\ \A p \in Procs : proc[p] \in Runtimes
  BY DEF BusTypeOK
<1>2. CASE UNCHANGED proc
  BY <1>2 DEF Installed
<1>3. ASSUME NEW p \in Procs, NEW t \in Tokens, InstallScript(p, t)
      PROVE  Installed'
  <2>1. [NotInstalled EXCEPT !.up = TRUE, !.token = t].token = t
    BY DEF NotInstalled
  <2> QED
    BY <1>1, <1>3, <2>1 DEF Installed, InstallScript
<1>4. ASSUME NEW p \in Procs, NEW r, r.token = proc[p].token, proc[p].token # NoToken,
             proc' = [proc EXCEPT ![p] = r]
      PROVE  Installed'
  <2>1. proc[p].token \in Tokens
    BY <1>1, <1>4 DEF Runtimes
  <2> QED
    BY <1>1, <1>4, <2>1 DEF Installed
<1>5. ASSUME NEW p \in Procs, runStart(p)
      PROVE  Installed'
  <2>1. [proc[p] EXCEPT !.up = TRUE, !.secret = proc[p].file].token = proc[p].token
    BY <1>1 DEF Runtimes
  <2> QED
    BY <1>4, <1>5, <2>1 DEF runStart
<1>6. ASSUME NEW n \in Nodes, NEW p \in Procs, StartNode(n, p)
      PROVE  Installed'
  <2>1. [proc[p] EXCEPT !.up = TRUE, !.secret = secrets + 1].token = proc[p].token
    BY <1>1 DEF Runtimes
  <2>2. CASE UNCHANGED proc
    BY <1>2, <2>2
  <2>3. CASE /\ proc[p].token # NoToken
             /\ proc' = [proc EXCEPT ![p].up = TRUE, ![p].secret = secrets + 1]
    BY <1>4, <2>1, <2>3
  <2> QED
    BY <1>6, <2>2, <2>3 DEF StartNode
\* The steps that change neither the token nor, but to FALSE, whether the runtime is up.
<1>7. ASSUME \A p \in Procs : /\ proc'[p].token = proc[p].token
                              /\ proc'[p].up => proc[p].up
      PROVE  Installed'
  BY <1>7 DEF Installed
<1>8. ASSUME NEW c \in Conns, proc' = Dropped(c)
      PROVE  Installed'
  <2>1. \A p \in Procs : /\ [proc[p] EXCEPT !.conn = NoConn].token = proc[p].token
                        /\ [proc[p] EXCEPT !.conn = NoConn].up = proc[p].up
    BY RuntimeKeeps DEF BusTypeOK
  <2> QED
    BY <1>7, <1>8, <2>1 DEF Dropped
<1>9. ASSUME NEW p \in Procs, ExitOf(p)
      PROVE  Installed'
  <2>1. proc'[p] = [proc[p] EXCEPT !.up = FALSE, !.conn = NoConn]
        /\ \A q \in Procs \ {p} : proc'[q] = proc[q]
    BY <1>1, <1>9 DEF ExitOf
  <2>2. proc'[p].token = proc[p].token /\ proc'[p].up = FALSE
    BY <1>1, <2>1 DEF Runtimes
  <2> QED
    BY <1>7, <2>1, <2>2
<1>10. ASSUME NEW p \in Procs, NEW c \in Conns, Run(p, c)
       PROVE  Installed'
  <2>1. proc'[p] = [proc[p] EXCEPT !.conn = c] /\ \A q \in Procs \ {p} : proc'[q] = proc[q]
    BY <1>1, <1>10 DEF Run
  <2>2. proc'[p].token = proc[p].token /\ proc'[p].up = proc[p].up
    BY <1>1, <2>1 DEF Runtimes
  <2> QED
    BY <1>7, <2>1, <2>2
<1>11. ASSUME NEW c \in Conns, answer(c)
       PROVE  Installed'
  <2>1. \A p \in Procs : proc'[p] \in {proc[p], [proc[p] EXCEPT !.file = conn[c].secret]}
    BY <1>11 DEF answer
  <2>2. \A p \in Procs : /\ [proc[p] EXCEPT !.file = conn[c].secret].token = proc[p].token
                        /\ [proc[p] EXCEPT !.file = conn[c].secret].up = proc[p].up
    BY RuntimeKeeps DEF BusTypeOK
  <2> QED
    BY <1>7, <2>1, <2>2
<1>12. CASE Restart
  <2>1. \A p \in Procs : /\ [proc[p] EXCEPT !.conn = NoConn].token = proc[p].token
                        /\ [proc[p] EXCEPT !.conn = NoConn].up = proc[p].up
    BY RuntimeKeeps DEF BusTypeOK
  <2> QED
    BY <1>7, <1>12, <2>1 DEF Restart
<1>13. ASSUME NEW c \in Conns, HandleWS(c)
       PROVE  UNCHANGED proc \/ proc' = Dropped(c) \/ answer(c)
  BY <1>13 DEF HandleWS, lookupSecret, markOnline, lookupToken, expireToken, useToken, insertNode,
       saveNode, reissueSecret, register, setDeliver, endOfRead, MarkFailed, unregister,
       markOffline, hello, handleSessionJoin, MarkRunning, inviteRuntimes, handleSessionCreate,
       forwardCreate, Closed
<1>14. CASE \/ \E t \in Tokens : GenerateToken(t)
            \/ \E c \in Conns : \/ \E u \in Uis : DialUi(c, u)
                               \/ \E s \in Sids : UiSends(c, s)
            \/ \E s \in Sids : CreateStep(s) \/ \E n \in Nodes : CreateRequest(s, n)
            \/ \E n \in Nodes : RemoveNode(n) \/ deleteNode(n)
            \/ CleanStaleDBSessions
            \/ cleanStaleSessions /\ UNCHANGED <<tables, server, clients, counters, astray>>
            \/ UNCHANGED vars
  BY <1>2, <1>14 DEF GenerateToken, DialUi, UiSends, CreateStep, createOnBus, insertSession,
       deliverCreate, CreateRequest, RemoveNode, deleteNode, CleanStaleDBSessions, vars
<1> QED
  BY <1>2, <1>3, <1>5, <1>6, <1>8, <1>9, <1>10, <1>11, <1>12, <1>13, <1>14
  DEF Next, Lose, Shutdown, StopNode

\* A step of one goroutine that leaves it where it knows enough.
LEMMA KnownMoves ==
    ASSUME BusTypeOK, Known, NEW c \in Conns, Alone(c),
           conn'[c].pc = "lookup" /\ conn'[c].secret = 0 => conn'[c].token \in Tokens,
           conn'[c].pc = "save" => conn'[c].addr \in Nodes,
           conn'[c].pc \notin Unnamed => conn'[c].addr \in Addrs
    PROVE  Known'
BY DEF Known, Alone, At

\* A step of one goroutine that keeps its address, to a step that is not one of the first.
LEMMA KnownGoto ==
    ASSUME BusTypeOK, Known, NEW c \in Conns, Alone(c), conn'[c].pc \notin {"lookup", "save"},
           conn'[c].addr = conn[c].addr,
           conn[c].pc \notin Unnamed \/ conn'[c].pc \in Unnamed
    PROVE  Known'
<1>1. conn'[c].pc \notin Unnamed => conn'[c].addr \in Addrs
  BY DEF Known
<1> QED
  BY <1>1, KnownMoves

LEMMA KnownClosed ==
    ASSUME BusTypeOK, Known, NEW c \in Conns, Closed(c)
    PROVE  Known'
<1>1. Alone(c) /\ conn'[c].pc = "free"
  BY ClosedMoves DEF Idle
<1> QED
  BY <1>1, KnownMoves DEF Unnamed

LEMMA KnownHandshake ==
    ASSUME BusTypeOK, Handshake, NEW c \in Conns,
           \/ lookupSecret(c) \/ markOnline(c) \/ lookupToken(c) \/ expireToken(c) \/ useToken(c)
           \/ insertNode(c) \/ saveNode(c) \/ reissueSecret(c) \/ answer(c)
    PROVE  Known'
<1> USE DEF Handshake, Unnamed
<1>1. conn \in [Conns -> Goroutines] /\ conn[c] \in Goroutines /\ Nodes \subseteq Addrs
  BY DEF BusTypeOK, Addrs
<1>2. CASE Closed(c)
  BY <1>2, KnownClosed
<1>3. ASSUME NEW n \in Nodes, NEW x \in {"online", "reissue"},
             conn' = [conn EXCEPT ![c].addr = n, ![c].pc = x]
      PROVE  Known'
  <2>1. Alone(c) /\ conn'[c] = [conn[c] EXCEPT !.addr = n, !.pc = x]
    BY <1>1, <1>3 DEF Alone
  <2>2. conn'[c].pc = x /\ conn'[c].addr = n
    BY <1>1, <2>1 DEF Goroutines
  <2> QED
    BY <1>1, <2>1, <2>2, KnownMoves
<1>4. ASSUME NEW pc \in {"use", "expire", "insert"}, Goto(c, pc)
      PROVE  Known'
  <2>1. Alone(c) /\ conn'[c].pc = pc
    BY <1>4, GotoMoves DEF Steps
  <2> QED
    BY <2>1, KnownMoves
<1>5. ASSUME NEW pc \in {"register", "answer"}, Goto(c, pc), conn[c].pc \notin Unnamed
      PROVE  Known'
  <2>1. Alone(c) /\ conn'[c].pc = pc /\ conn'[c].addr = conn[c].addr
    BY <1>5, GotoMoves DEF Steps
  <2> QED
    BY <1>5, <2>1, KnownGoto
<1>6. CASE lookupSecret(c)
  BY <1>2, <1>3, <1>6 DEF lookupSecret
<1>7. CASE lookupToken(c)
  <2>1. CASE conn' = [conn EXCEPT ![c].addr = token[conn[c].token].node, ![c].pc = "reissue"]
             /\ token[conn[c].token].node # NoNode
    <3>1. conn[c].token \in Tokens
      BY <1>7 DEF Known, lookupToken
    <3>2. token[conn[c].token].node \in Nodes
      BY <2>1, <3>1 DEF BusTypeOK, TokenRows
    <3> QED
      BY <1>3, <2>1, <3>2
  <2>2. CASE \E pc \in {"use", "expire"} : Goto(c, pc)
    BY <1>4, <2>2
  <2> QED
    BY <1>2, <1>7, <2>1, <2>2 DEF lookupToken
<1>8. CASE insertNode(c)
  <2>1. PICK n \in Nodes :
          conn' = [conn EXCEPT ![c].pc = "save", ![c].addr = n, ![c].secret = secrets + 1]
    BY <1>8 DEF insertNode
  <2>2. Alone(c) /\ conn'[c] = [conn[c] EXCEPT !.pc = "save", !.addr = n, !.secret = secrets + 1]
    BY <1>1, <2>1 DEF Alone
  <2>3. conn'[c].pc = "save" /\ conn'[c].addr = n
    BY <1>1, <2>2 DEF Goroutines
  <2> QED
    BY <1>1, <2>2, <2>3, KnownMoves
<1>9. CASE reissueSecret(c)
  <2>1. Alone(c) /\ conn'[c] = [conn[c] EXCEPT !.pc = "answer", !.secret = secrets + 1]
    BY <1>1, <1>9 DEF reissueSecret, Alone
  <2>2. conn'[c].pc = "answer" /\ conn'[c].addr = conn[c].addr
    BY <1>1, <2>1 DEF Goroutines
  <2> QED
    BY <1>9, <2>1, <2>2, KnownGoto DEF reissueSecret, At
<1>10. CASE markOnline(c) \/ saveNode(c) \/ answer(c)
  BY <1>5, <1>10 DEF markOnline, saveNode, answer, At
<1>11. CASE useToken(c)
  BY <1>4, <1>11 DEF useToken
<1>12. CASE expireToken(c)
  BY <1>2, <1>12 DEF expireToken
<1> QED
  BY <1>6, <1>7, <1>8, <1>9, <1>10, <1>11, <1>12

LEMMA KnownConnection ==
    ASSUME BusTypeOK, Known, NEW c \in Conns,
           \/ register(c) \/ setDeliver(c) \/ endOfRead(c) \/ MarkFailed(c) \/ unregister(c)
           \/ markOffline(c)
    PROVE  Known'
<1>1. conn \in [Conns -> Goroutines] /\ conn[c] \in Goroutines
  BY DEF BusTypeOK
<1>2. CASE Closed(c)
  BY <1>2, KnownClosed
<1>3. ASSUME NEW pc \in {"deliver", "serve", "unregister", "offline"}, Goto(c, pc),
             conn[c].pc \notin Unnamed
      PROVE  Known'
  <2>1. Alone(c) /\ conn'[c].pc = pc /\ conn'[c].addr = conn[c].addr
    BY <1>3, GotoMoves DEF Steps
  <2> QED
    BY <1>3, <2>1, KnownGoto
<1>4. CASE endOfRead(c)
  <2>1. /\ Alone(c)
        /\ \/ conn'[c] = [conn[c] EXCEPT !.pc = "fail", !.todo = GetEndpointSessions(conn[c].addr)]
           \/ conn'[c] = [conn[c] EXCEPT !.pc = "unregister"]
    BY <1>1, <1>4 DEF endOfRead, Alone
  <2>2. conn'[c].pc \in {"fail", "unregister"} /\ conn'[c].addr = conn[c].addr
    BY <1>1, <2>1 DEF Goroutines
  <2> QED
    BY <1>4, <2>1, <2>2, KnownGoto DEF endOfRead, At, Unnamed
<1>5. CASE MarkFailed(c)
  <2>1. ASSUME NEW s, conn' = [conn EXCEPT ![c].todo = @ \ {s}]
        PROVE  Known'
    <3>1. Alone(c) /\ conn'[c] = [conn[c] EXCEPT !.todo = @ \ {s}]
      BY <1>1, <2>1 DEF Alone
    <3>2. conn'[c].pc = conn[c].pc /\ conn'[c].addr = conn[c].addr
      BY <1>1, <3>1 DEF Goroutines
    <3> QED
      BY <1>5, <3>1, <3>2, KnownGoto DEF MarkFailed, At
  <2>2. CASE Goto(c, "unregister")
    BY <1>3, <1>5, <2>2 DEF MarkFailed, At, Unnamed
  <2> QED
    BY <1>5, <2>1, <2>2 DEF MarkFailed
<1>6. CASE register(c) \/ setDeliver(c) \/ unregister(c)
  BY <1>2, <1>3, <1>6 DEF register, setDeliver, unregister, At, Unnamed
<1>7. CASE markOffline(c)
  BY <1>2, <1>7 DEF markOffline
<1> QED
  BY <1>4, <1>5, <1>6, <1>7

LEMMA KnownStep ==
    ASSUME BusTypeOK, Handshake, [Next]_vars
    PROVE  Known'
<1> USE DEF busVars, tables, server, clients, counters
<1>1. conn \in [Conns -> Goroutines]
  BY DEF BusTypeOK
<1>2. CASE UNCHANGED conn
  BY <1>2 DEF Handshake, Known, At
<1>3. ASSUME NEW p \in Procs, NEW c \in Conns, Run(p, c)
      PROVE  Known'
  <2>1. Alone(c) /\ conn'[c] = [Idle EXCEPT !.pc = "lookup", !.proc = p, !.secret = proc[p].secret,
                  !.token = IF proc[p].secret = 0 THEN proc[p].token ELSE NoToken]
    BY <1>1, <1>3 DEF Run, Alone
  <2>2. conn'[c].pc = "lookup" /\ conn'[c].secret = proc[p].secret
        /\ conn'[c].token = IF proc[p].secret = 0 THEN proc[p].token ELSE NoToken
    BY <2>1 DEF Idle
  <2>3. proc[p].token \in Tokens
    BY <1>3 DEF Handshake, Installed, Run
  <2> QED
    BY <2>1, <2>2, <2>3, KnownMoves DEF Handshake, Unnamed
<1>4. ASSUME NEW c \in Conns, NEW u \in Uis, DialUi(c, u)
      PROVE  Known'
  <2>1. Alone(c) /\ conn'[c] = [Idle EXCEPT !.pc = "register", !.addr = u]
    BY <1>1, <1>4 DEF DialUi, Alone
  <2>2. conn'[c].pc = "register" /\ conn'[c].addr = u
    BY <2>1 DEF Idle
  <2> QED
    BY <2>1, <2>2, KnownMoves DEF Handshake, Addrs
<1>5. CASE Restart
  BY <1>5 DEF Restart, Idle, Known, Unnamed, At
<1>6. ASSUME NEW c \in Conns, HandleWS(c)
      PROVE  Known'
  <2>1. CASE hello(c) \/ handleSessionJoin(c) \/ MarkRunning(c) \/ inviteRuntimes(c)
             \/ handleSessionCreate(c) \/ forwardCreate(c)
    BY <1>2, <2>1 DEF hello, handleSessionJoin, MarkRunning, inviteRuntimes, handleSessionCreate,
         forwardCreate
  <2> QED
    BY <1>6, <2>1, KnownHandshake, KnownConnection DEF HandleWS, Handshake
<1>7. CASE \/ \E t \in Tokens : GenerateToken(t)
           \/ \E p \in Procs, t \in Tokens : InstallScript(p, t)
           \/ \E p \in Procs : runStart(p) \/ Shutdown(p)
           \/ \E c \in Conns : Lose(c) \/ \E s \in Sids : UiSends(c, s)
           \/ \E s \in Sids : CreateStep(s) \/ \E n \in Nodes : CreateRequest(s, n)
           \/ \E n \in Nodes : \/ RemoveNode(n) \/ deleteNode(n) \/ StopNode(n)
                              \/ \E p \in Procs : StartNode(n, p)
           \/ CleanStaleDBSessions
           \/ cleanStaleSessions /\ UNCHANGED <<tables, server, clients, counters, astray>>
           \/ UNCHANGED vars
  BY <1>2, <1>7 DEF GenerateToken, InstallScript, runStart, Shutdown, Lose, UiSends, CreateStep,
       createOnBus, insertSession, deliverCreate, CreateRequest, RemoveNode, deleteNode, StopNode,
       StartNode, CleanStaleDBSessions, vars
<1> QED
  BY <1>3, <1>4, <1>5, <1>6, <1>7 DEF Next

-----------------------------------------------------------------------------
(* The owners of the endpoints.                                            *)

\* A step of a goroutine that owns no endpoint, or that stays where it will unregister it.
LEMMA OwnerStays ==
    ASSUME Owned, NEW c \in Conns, Alone(c), NEW a \in Addrs, Registered(a),
           endpoints'[a].conn = endpoints[a].conn,
           \/ conn[c].pc \notin Serving
           \/ conn'[c].pc \in Serving /\ conn'[c].addr = conn[c].addr
    PROVE  Owner(a)'
<1>1. Owner(a)
  BY DEF Owned
<1>2. CASE endpoints[a].conn = c
  BY <1>1, <1>2 DEF Owner
<1>3. CASE endpoints[a].conn # c
  <2>1. conn'[endpoints[a].conn] = conn[endpoints[a].conn]
    BY <1>1, <1>3 DEF Alone, Owner
  <2> QED
    BY <1>1, <2>1 DEF Owner
<1> QED
  BY <1>2, <1>3

LEMMA OwnedMoves ==
    ASSUME BusTypeOK, Owned, NEW c \in Conns, Alone(c), UNCHANGED endpoints,
           \/ conn[c].pc \notin Serving
           \/ conn'[c].pc \in Serving /\ conn'[c].addr = conn[c].addr
    PROVE  Owned'
<1> SUFFICES ASSUME NEW a \in Addrs, Registered(a)'
             PROVE  Owner(a)'
  BY DEF Owned
<1> QED
  BY OwnerStays DEF Registered

LEMMA OwnedHandshake ==
    ASSUME BusTypeOK, Owned, NEW c \in Conns,
           \/ lookupSecret(c) \/ markOnline(c) \/ lookupToken(c) \/ expireToken(c) \/ useToken(c)
           \/ insertNode(c) \/ saveNode(c) \/ reissueSecret(c) \/ answer(c) \/ markOffline(c)
    PROVE  Owned'
<1> USE DEF busVars
<1>1. conn \in [Conns -> Goroutines]
  BY DEF BusTypeOK
<1>2. UNCHANGED endpoints /\ conn[c].pc \notin Serving
  BY DEF lookupSecret, markOnline, lookupToken, expireToken, useToken, insertNode, saveNode,
     reissueSecret, answer, markOffline, At, Serving
<1>3. Alone(c)
  <2>1. CASE Closed(c)
    BY <2>1, ClosedMoves
  <2>2. ASSUME NEW pc \in Steps, Goto(c, pc)
        PROVE  Alone(c)
    BY <2>2, GotoMoves
  <2>3. CASE lookupSecret(c)
    BY <1>1, <2>1, <2>3 DEF lookupSecret, Alone
  <2>4. CASE lookupToken(c)
    BY <1>1, <2>1, <2>2, <2>4 DEF lookupToken, Alone, Steps
  <2>5. CASE insertNode(c) \/ reissueSecret(c)
    BY <1>1, <2>5 DEF insertNode, reissueSecret, Alone
  <2>6. CASE markOnline(c) \/ useToken(c) \/ saveNode(c) \/ answer(c)
    BY <2>2, <2>6 DEF markOnline, useToken, saveNode, answer, Steps
  <2> QED
    BY <2>1, <2>3, <2>4, <2>5, <2>6 DEF expireToken, markOffline
<1> QED
  BY <1>2, <1>3, OwnedMoves

LEMMA OwnedConnection ==
    ASSUME BusTypeOK, Handshake, Owned, NEW c \in Conns,
           \/ register(c) \/ setDeliver(c) \/ endOfRead(c) \/ MarkFailed(c) \/ unregister(c)
           \/ hello(c)
    PROVE  Owned'
<1>1. conn \in [Conns -> Goroutines] /\ conn[c] \in Goroutines
      /\ endpoints \in [Addrs -> Endpoints] /\ NoConn \notin Conns
  BY BusAssumption DEF BusTypeOK
<1>2. CASE register(c)
  <2>1. Alone(c) /\ conn'[c].pc = "deliver" /\ conn'[c].addr = conn[c].addr
    BY <1>2, GotoMoves DEF register, Steps
  <2>2. /\ endpoints'[conn[c].addr] = [NoEndpoint EXCEPT !.conn = c]
        /\ \A b \in Addrs \ {conn[c].addr} : endpoints'[b] = endpoints[b]
    BY <1>1, <1>2 DEF register, Register, Handshake, Known, Unnamed, At
  <2>3. conn[c].pc \notin Serving /\ [NoEndpoint EXCEPT !.conn = c].conn = c
    BY <1>2 DEF register, At, Serving, NoEndpoint
  <2>4. ASSUME NEW a \in Addrs, Registered(a)'
        PROVE  Owner(a)'
    <3>1. CASE a = conn[c].addr
      BY <2>1, <2>2, <2>3, <3>1 DEF Owner, Serving
    <3>2. CASE a # conn[c].addr
      BY <2>1, <2>2, <2>3, <2>4, <3>2, OwnerStays DEF Registered
    <3> QED
      BY <3>1, <3>2
  <2> QED
    BY <2>4 DEF Owned
<1>3. CASE setDeliver(c)
  <2>1. Alone(c) /\ conn'[c].pc = "serve" /\ conn'[c].addr = conn[c].addr
    BY <1>3, GotoMoves DEF setDeliver, Steps
  <2>2. \A a \in Addrs : /\ endpoints'[a].conn = endpoints[a].conn
                         /\ Registered(a)' => Registered(a)
    <3>1. ASSUME NEW a \in Addrs
          PROVE  /\ [endpoints[a] EXCEPT !.deliver = TRUE].conn = endpoints[a].conn
                 /\ endpoints[a].conn = c => endpoints[a] # NoEndpoint
      BY <1>1, EndpointKeeps DEF NoEndpoint
    <3> QED
      BY <1>3, <3>1 DEF setDeliver, SetEndpointDeliver, Registered
  <2>3. ASSUME NEW a \in Addrs, Registered(a)'
        PROVE  Owner(a)'
    BY <2>1, <2>2, <2>3, OwnerStays DEF Serving, Registered
  <2> QED
    BY <2>3 DEF Owned
<1>4. CASE hello(c)
  <2>1. UNCHANGED conn
    BY <1>4 DEF hello
  <2>2. \A a \in Addrs : /\ endpoints'[a].conn = endpoints[a].conn
                         /\ Registered(a)' => Registered(a)
    <3>1. \A a \in Addrs : [endpoints[a] EXCEPT !.capable = TRUE].conn = endpoints[a].conn
      BY <1>1, EndpointKeeps
    <3>2. CASE UNCHANGED endpoints
      BY <3>2 DEF Registered
    <3>3. CASE /\ Registered(conn[c].addr)
               /\ endpoints' = [endpoints EXCEPT ![conn[c].addr].capable = TRUE]
      BY <1>1, <3>1, <3>3 DEF Registered
    <3> QED
      BY <1>4, <3>2, <3>3 DEF hello
  <2>3. ASSUME NEW a \in Addrs, Registered(a)'
        PROVE  Owner(a)'
    <3>1. Owner(a)
      BY <2>2, <2>3 DEF Owned, Registered
    <3> QED
      BY <2>1, <2>2, <3>1 DEF Owner, Registered
  <2> QED
    BY <2>3 DEF Owned
<1>5. CASE endOfRead(c)
  <2>1. /\ Alone(c) /\ UNCHANGED endpoints
        /\ \/ conn'[c] = [conn[c] EXCEPT !.pc = "fail", !.todo = GetEndpointSessions(conn[c].addr)]
           \/ conn'[c] = [conn[c] EXCEPT !.pc = "unregister"]
    BY <1>1, <1>5 DEF endOfRead, Alone, busVars
  <2>2. conn'[c].pc \in Serving /\ conn'[c].addr = conn[c].addr
    BY <1>1, <2>1 DEF Goroutines, Serving
  <2> QED
    BY <2>1, <2>2, OwnedMoves
<1>6. CASE MarkFailed(c)
  <2>1. UNCHANGED endpoints
    BY <1>6 DEF MarkFailed, busVars
  <2>2. ASSUME NEW s, conn' = [conn EXCEPT ![c].todo = @ \ {s}]
        PROVE  Owned'
    <3>1. Alone(c) /\ conn'[c] = [conn[c] EXCEPT !.todo = @ \ {s}]
      BY <1>1, <2>2 DEF Alone
    <3>2. conn'[c].pc = conn[c].pc /\ conn'[c].addr = conn[c].addr
      BY <1>1, <3>1 DEF Goroutines
    <3> QED
      BY <1>6, <2>1, <3>1, <3>2, OwnedMoves DEF MarkFailed, At, Serving
  <2>3. CASE Goto(c, "unregister")
    <3>1. Alone(c) /\ conn'[c].pc = "unregister" /\ conn'[c].addr = conn[c].addr
      BY <2>3, GotoMoves DEF Steps
    <3> QED
      BY <2>1, <3>1, OwnedMoves DEF Serving
  <2> QED
    BY <1>6, <2>2, <2>3 DEF MarkFailed
<1>7. CASE unregister(c)
  <2>1. Alone(c)
    BY <1>7, GotoMoves, ClosedMoves DEF unregister, Steps
  <2>2. \A b \in Addrs : Registered(b)' => b # conn[c].addr /\ endpoints'[b] = endpoints[b]
    BY <1>1, <1>7 DEF unregister, Unregister, Registered
  <2>3. ASSUME NEW b \in Addrs, Registered(b)'
        PROVE  Owner(b)'
    <3>1. endpoints'[b] = endpoints[b] /\ Registered(b) /\ b # conn[c].addr
      BY <2>2, <2>3 DEF Registered
    <3>2. Owner(b) /\ endpoints[b].conn # c
      BY <3>1 DEF Owned, Owner
    <3> QED
      BY <2>1, <3>1, <3>2 DEF Owner, Alone
  <2> QED
    BY <2>3 DEF Owned
<1> QED
  BY <1>2, <1>3, <1>4, <1>5, <1>6, <1>7

LEMMA OwnedStep ==
    ASSUME BusTypeOK, Handshake, Owned, [Next]_vars
    PROVE  Owned'
<1> USE DEF busVars, tables, server, clients, counters
<1>1. conn \in [Conns -> Goroutines] /\ endpoints \in [Addrs -> Endpoints]
  BY DEF BusTypeOK
<1>2. CASE UNCHANGED <<conn, endpoints>>
  BY <1>2 DEF Owned, Owner, Registered
<1>3. ASSUME NEW c \in Conns, (\E p \in Procs : Run(p, c)) \/ (\E u \in Uis : DialUi(c, u))
      PROVE  Owned'
  <2>1. Alone(c) /\ UNCHANGED endpoints /\ conn[c].pc = "free"
    BY <1>1, <1>3 DEF Run, DialUi, Alone, At
  <2> QED
    BY <2>1, OwnedMoves DEF Serving
<1>4. ASSUME NEW n \in Nodes, RemoveNode(n)
      PROVE  Owned'
  <2>1. UNCHANGED conn
    BY <1>4 DEF RemoveNode
  <2>2. \A b \in Addrs : Registered(b)' => endpoints'[b] = endpoints[b]
    BY <1>1, <1>4 DEF RemoveNode, Unregister, Registered
  <2> QED
    BY <2>1, <2>2 DEF Owned, Owner, Registered
<1>5. CASE Restart
  BY <1>5 DEF Restart, Owned, Registered
<1>6. ASSUME NEW c \in Conns, HandleWS(c)
      PROVE  Owned'
  <2>1. CASE handleSessionJoin(c) \/ MarkRunning(c) \/ inviteRuntimes(c)
             \/ handleSessionCreate(c) \/ forwardCreate(c)
    BY <1>2, <2>1 DEF handleSessionJoin, MarkRunning, inviteRuntimes, handleSessionCreate,
         forwardCreate, JoinSession, CreateSession
  <2> QED
    BY <1>6, <2>1, OwnedHandshake, OwnedConnection DEF HandleWS
<1>7. CASE \/ \E t \in Tokens : GenerateToken(t)
           \/ \E p \in Procs, t \in Tokens : InstallScript(p, t)
           \/ \E p \in Procs : runStart(p) \/ Shutdown(p)
           \/ \E c \in Conns : Lose(c) \/ \E s \in Sids : UiSends(c, s)
           \/ \E s \in Sids : CreateStep(s) \/ \E n \in Nodes : CreateRequest(s, n)
           \/ \E n \in Nodes : \/ deleteNode(n) \/ StopNode(n)
                              \/ \E p \in Procs : StartNode(n, p)
           \/ CleanStaleDBSessions
           \/ cleanStaleSessions /\ UNCHANGED <<tables, server, clients, counters, astray>>
           \/ UNCHANGED vars
  BY <1>2, <1>7 DEF GenerateToken, InstallScript, runStart, Shutdown, Lose, UiSends, CreateStep,
       createOnBus, insertSession, deliverCreate, CreateRequest, deleteNode, StopNode, StartNode,
       CreateSession, EndSession, CleanStaleDBSessions, cleanStaleSessions, vars
<1> QED
  BY <1>3, <1>4, <1>5, <1>6, <1>7 DEF Next

-----------------------------------------------------------------------------
(* A node that is online is registered, or a goroutine is on its way.      *)

\* Where a goroutine of node n is when it has written, or may have written, online and has not
\* registered yet, or has unregistered and has not written offline yet.
Backing == {"save", "answer", "register", "offline"}

Backed(n) == Registered(n) \/ \E c \in Conns : conn[c].addr = n /\ conn[c].pc \in Backing

\* OnlineIsRegistered in every state, not only in the quiet ones.
Online == \A n \in Nodes : node[n].status = "online" /\ astray[n] \cap {"removal", "restart"} = {}
                             => Backed(n)

\* A step of one goroutine: what it no longer backs is registered, or not online.
LEMMA OnlineMoves ==
    ASSUME Online, NEW c \in Conns, Alone(c),
           \A n \in Nodes : astray[n] \subseteq astray'[n],
           \A n \in Nodes : node'[n].status = "online" => node[n].status = "online" \/ Backed(n)',
           \A n \in Nodes : Registered(n) => Backed(n)',
           \A n \in Nodes : conn[c].pc \in Backing /\ conn[c].addr = n
                            => node'[n].status # "online" \/ Backed(n)'
    PROVE  Online'
<1> SUFFICES ASSUME NEW n \in Nodes, node'[n].status = "online",
                    astray'[n] \cap {"removal", "restart"} = {}
             PROVE  Backed(n)'
  BY DEF Online
<1>1. CASE Backed(n)'
  BY <1>1
<1>2. CASE node[n].status = "online" /\ ~Registered(n)
  <2>1. PICK d \in Conns : conn[d].addr = n /\ conn[d].pc \in Backing
    BY <1>2 DEF Online, Backed
  <2>2. CASE d = c
    BY <2>1, <2>2
  <2>3. CASE d # c
    <3>1. conn'[d] = conn[d]
      BY <2>3 DEF Alone
    <3> QED
      BY <2>1, <3>1 DEF Backed
  <2> QED
    BY <2>2, <2>3
<1> QED
  BY <1>1, <1>2

\* A step that moves no goroutine.
LEMMA OnlineRests ==
    ASSUME Online, UNCHANGED conn,
           \A n \in Nodes : astray[n] \subseteq astray'[n],
           \A n \in Nodes : node'[n].status = "online" => node[n].status = "online",
           \A n \in Nodes : Registered(n) => Registered(n)' \/ "removal" \in astray'[n]
    PROVE  Online'
<1> SUFFICES ASSUME NEW n \in Nodes, node'[n].status = "online",
                    astray'[n] \cap {"removal", "restart"} = {}
             PROVE  Backed(n)'
  BY DEF Online
<1>1. Backed(n)
  BY DEF Online
<1> QED
  BY <1>1 DEF Backed

\* A goroutine that does nothing but to go on, within the steps that back its node.
LEMMA OnlineGoto ==
    ASSUME Online, NEW c \in Conns, Alone(c), UNCHANGED <<endpoints, node, astray>>,
           \/ conn[c].pc \notin Backing
           \/ conn'[c].pc \in Backing /\ conn'[c].addr = conn[c].addr
    PROVE  Online'
<1>1. \A n : Registered(n)' = Registered(n)
  BY DEF Registered
<1> QED
  BY <1>1, OnlineMoves DEF Backed

LEMMA SetStatusWrites ==
    ASSUME BusTypeOK, NEW n \in Nodes, NEW status, SetStatus(n, status)
    PROVE  /\ \A m \in Nodes \ {n} : node'[m] = node[m]
           /\ node'[n].status \in {"none", status}
<1>1. node[n] \in NodeRows /\ [node[n] EXCEPT !.status = status].status = status
  BY DEF BusTypeOK, NodeRows
<1> QED
  BY <1>1 DEF BusTypeOK, SetStatus, Exists

LEMMA OnlineHandshake ==
    ASSUME BusTypeOK, Handshake, Online, NEW c \in Conns,
           \/ lookupSecret(c) \/ markOnline(c) \/ lookupToken(c) \/ expireToken(c) \/ useToken(c)
           \/ insertNode(c) \/ saveNode(c) \/ reissueSecret(c) \/ answer(c)
    PROVE  Online'
<1> USE DEF busVars
<1>1. conn \in [Conns -> Goroutines] /\ conn[c] \in Goroutines /\ node \in [Nodes -> NodeRows]
  BY DEF BusTypeOK
<1>2. UNCHANGED <<endpoints, astray>> /\ \A n : Registered(n)' = Registered(n)
  BY DEF lookupSecret, markOnline, lookupToken, expireToken, useToken, insertNode, saveNode,
     reissueSecret, answer, Registered
<1>3. ASSUME NEW pc \in {"use", "expire", "insert", "answer", "register"}, Goto(c, pc), UNCHANGED node,
             conn[c].pc \notin Backing \/ pc \in Backing
      PROVE  Online'
  <2>1. Alone(c) /\ conn'[c].pc = pc /\ conn'[c].addr = conn[c].addr
    BY <1>3, GotoMoves DEF Steps
  <2> QED
    BY <1>2, <1>3, <2>1, OnlineGoto
<1>4. CASE Closed(c) /\ UNCHANGED node /\ conn[c].pc \notin Backing
  BY <1>2, <1>4, ClosedMoves, OnlineGoto
<1>5. ASSUME NEW n, NEW x, conn' = [conn EXCEPT ![c].addr = n, ![c].pc = x], UNCHANGED node,
             conn[c].pc \notin Backing
      PROVE  Online'
  <2>1. Alone(c)
    BY <1>1, <1>5 DEF Alone
  <2> QED
    BY <1>2, <1>5, <2>1, OnlineGoto
\* A step that writes the row of the node of c, which backs it from then on.
<1>6. ASSUME NEW n \in Nodes, \A m \in Nodes \ {n} : node'[m] = node[m],
             Alone(c), conn'[c].addr = n, conn'[c].pc \in Backing,
             conn[c].pc \notin Backing \/ conn[c].addr = n
      PROVE  Online'
  <2>1. Backed(n)'
    BY <1>6 DEF Backed
  <2>2. \A m \in Nodes : node'[m].status = "online" => node[m].status = "online" \/ Backed(m)'
    BY <1>6, <2>1
  <2> QED
    BY <1>2, <1>6, <2>1, <2>2, OnlineMoves DEF Backed
<1>7. CASE lookupSecret(c)
  BY <1>4, <1>5, <1>7 DEF lookupSecret, tables, At, Backing
<1>8. CASE markOnline(c)
  <2>1. Alone(c) /\ conn'[c].pc = "register" /\ conn'[c].addr = conn[c].addr
    BY <1>8, GotoMoves DEF markOnline, Steps
  <2>2. CASE conn[c].addr \in Nodes
    <3>1. \A m \in Nodes \ {conn[c].addr} : node'[m] = node[m]
      BY <1>8, <2>2, SetStatusWrites DEF markOnline
    <3> QED
      BY <1>6, <1>8, <2>1, <2>2, <3>1 DEF markOnline, At, Backing
  <2>3. CASE conn[c].addr \notin Nodes
    <3>1. UNCHANGED node
      BY <1>1, <1>8, <2>3 DEF markOnline, SetStatus
    <3> QED
      BY <1>2, <1>8, <2>1, <3>1, OnlineGoto DEF markOnline, At, Backing
  <2> QED
    BY <2>2, <2>3
<1>9. CASE lookupToken(c)
  <2>1. UNCHANGED node /\ conn[c].pc = "lookup"
    BY <1>9 DEF lookupToken, tables, At
  <2> QED
    BY <1>3, <1>4, <1>5, <1>9, <2>1 DEF lookupToken, Backing
<1>10. CASE expireToken(c)
  BY <1>4, <1>10 DEF expireToken, At, Backing
<1>11. CASE useToken(c)
  BY <1>3, <1>11 DEF useToken, At, Backing
<1>12. CASE insertNode(c)
  <2>1. PICK n \in Nodes :
          /\ node' = [node EXCEPT ![n] = [status |-> "online", secret |-> secrets + 1]]
          /\ conn' = [conn EXCEPT ![c].pc = "save", ![c].addr = n, ![c].secret = secrets + 1]
    BY <1>12 DEF insertNode
  <2>2. Alone(c) /\ conn'[c] = [conn[c] EXCEPT !.pc = "save", !.addr = n, !.secret = secrets + 1]
    BY <1>1, <2>1 DEF Alone
  <2>3. conn'[c].pc = "save" /\ conn'[c].addr = n
    BY <1>1, <2>2 DEF Goroutines
  <2> QED
    BY <1>1, <1>6, <1>12, <2>1, <2>2, <2>3 DEF insertNode, At, Backing
<1>13. CASE saveNode(c) \/ answer(c)
  BY <1>3, <1>13 DEF saveNode, answer, tables, Backing
<1>14. CASE reissueSecret(c)
  <2>1. Alone(c) /\ conn'[c] = [conn[c] EXCEPT !.pc = "answer", !.secret = secrets + 1]
    BY <1>1, <1>14 DEF reissueSecret, Alone
  <2>2. conn'[c].pc = "answer" /\ conn'[c].addr = conn[c].addr
    BY <1>1, <2>1 DEF Goroutines
  <2>3. \A m \in Nodes \ {conn[c].addr} : node'[m] = node[m]
    BY <1>1, <1>14 DEF reissueSecret
  <2>4. CASE conn[c].addr \in Nodes
    BY <1>6, <1>14, <2>1, <2>2, <2>3, <2>4 DEF reissueSecret, At, Backing
  <2>5. CASE conn[c].addr \notin Nodes
    <3>1. UNCHANGED node
      BY <1>1, <1>14, <2>5 DEF reissueSecret
    <3> QED
      BY <1>2, <1>14, <2>1, <3>1, OnlineGoto DEF reissueSecret, At, Backing
  <2> QED
    BY <2>4, <2>5
<1> QED
  BY <1>7, <1>8, <1>9, <1>10, <1>11, <1>12, <1>13, <1>14

LEMMA OnlineConnection ==
    ASSUME BusTypeOK, Handshake, Online, NEW c \in Conns,
           \/ register(c) \/ setDeliver(c) \/ endOfRead(c) \/ MarkFailed(c) \/ unregister(c)
           \/ markOffline(c) \/ hello(c)
    PROVE  Online'
<1> USE DEF busVars, tables
<1>1. conn \in [Conns -> Goroutines] /\ conn[c] \in Goroutines /\ astray \in [Nodes -> SUBSET {"overlap", "removal", "restart"}]
      /\ endpoints \in [Addrs -> Endpoints] /\ NoConn \notin Conns /\ Nodes \subseteq Addrs
  BY BusAssumption DEF BusTypeOK, Addrs
<1>2. \A n \in Nodes : astray[n] \subseteq astray'[n]
  BY DEF register, setDeliver, endOfRead, MarkFailed, unregister, markOffline, hello, Overlaps
<1>3. CASE register(c)
  <2>1. Alone(c) /\ conn'[c].pc = "deliver" /\ conn'[c].addr = conn[c].addr
    BY <1>3, GotoMoves DEF register, Steps
  <2>2. /\ endpoints'[conn[c].addr] = [NoEndpoint EXCEPT !.conn = c]
        /\ \A b \in Addrs \ {conn[c].addr} : endpoints'[b] = endpoints[b]
    BY <1>1, <1>3 DEF register, Register, Handshake, Known, Unnamed, At
  <2>3. [NoEndpoint EXCEPT !.conn = c].conn = c /\ NoEndpoint.conn = NoConn
    BY DEF NoEndpoint
  <2>4. \A a \in Addrs : a = conn[c].addr \/ Registered(a) => Registered(a)'
    BY <1>1, <2>2, <2>3 DEF Registered
  <2>5. UNCHANGED node
    BY <1>3 DEF register
  <2>6. \A n \in Nodes : n = conn[c].addr \/ Registered(n) => Backed(n)'
    BY <1>1, <2>4 DEF Backed
  <2> QED
    BY <1>2, <2>1, <2>5, <2>6, OnlineMoves
<1>4. CASE setDeliver(c)
  <2>1. Alone(c) /\ UNCHANGED node /\ conn[c].pc = "deliver"
    BY <1>4, GotoMoves DEF setDeliver, Steps, At
  <2>2. \A a \in Addrs : Registered(a) => Registered(a)'
    <3>1. ASSUME NEW a \in Addrs
          PROVE  [endpoints[a] EXCEPT !.deliver = TRUE] # NoEndpoint
      BY <1>1 DEF NoEndpoint, Endpoints
    <3> QED
      BY <1>4, <3>1 DEF setDeliver, SetEndpointDeliver, Registered
  <2> QED
    BY <1>1, <1>2, <2>1, <2>2, OnlineMoves DEF Backed, Backing
<1>5. CASE endOfRead(c)
  <2>1. Alone(c) /\ UNCHANGED <<endpoints, node, astray>> /\ conn[c].pc = "serve"
    BY <1>1, <1>5 DEF endOfRead, Alone, At
  <2> QED
    BY <2>1, OnlineGoto DEF Backing
<1>6. CASE MarkFailed(c)
  <2>1. Alone(c) /\ UNCHANGED <<endpoints, node, astray>> /\ conn[c].pc = "fail"
    BY <1>1, <1>6 DEF MarkFailed, Goto, Alone, At
  <2> QED
    BY <2>1, OnlineGoto DEF Backing
<1>7. CASE unregister(c)
  <2>1. UNCHANGED node /\ conn[c].pc = "unregister"
        /\ \A a \in Addrs : Registered(a) => Registered(a)' \/ a = conn[c].addr
    BY <1>1, <1>7 DEF unregister, Unregister, Registered, At
  <2>2. Alone(c) /\ (IsRuntime(c) => conn'[c].pc = "offline" /\ conn'[c].addr = conn[c].addr)
    BY <1>7, GotoMoves, ClosedMoves DEF unregister, Steps
  <2>3. \A n \in Nodes : Registered(n) => Backed(n)'
    BY <1>1, <2>1, <2>2 DEF Backed, Backing, IsRuntime
  <2> QED
    BY <1>2, <2>1, <2>2, <2>3, OnlineMoves DEF Backing
<1>8. CASE markOffline(c)
  <2>1. Alone(c) /\ UNCHANGED endpoints /\ conn[c].pc = "offline"
    BY <1>8, ClosedMoves DEF markOffline, At
  <2>2. /\ \A n \in Nodes : node'[n].status = "online" => node[n].status = "online"
        /\ conn[c].addr \in Nodes => node'[conn[c].addr].status # "online"
    <3>1. CASE conn[c].addr \in Nodes
      BY <1>8, <3>1, SetStatusWrites DEF markOffline
    <3>2. CASE conn[c].addr \notin Nodes
      BY <1>8, <3>2 DEF markOffline, SetStatus, BusTypeOK
    <3> QED
      BY <3>1, <3>2
  <2>3. \A n : Registered(n) => Backed(n)'
    BY <2>1 DEF Backed, Registered
  <2> QED
    BY <1>2, <2>1, <2>2, <2>3, OnlineMoves
<1>9. CASE hello(c)
  <2>1. UNCHANGED <<conn, node>>
    BY <1>9 DEF hello
  <2>2. \A a \in Addrs : Registered(a) => Registered(a)'
    <3>1. \A a \in Addrs : [endpoints[a] EXCEPT !.capable = TRUE] # NoEndpoint
      BY <1>1 DEF NoEndpoint, Endpoints
    <3> QED
      BY <1>1, <1>9, <3>1 DEF hello, Registered
  <2> QED
    BY <1>1, <1>2, <2>1, <2>2, OnlineRests
<1> QED
  BY <1>3, <1>4, <1>5, <1>6, <1>7, <1>8, <1>9

LEMMA OnlineStep ==
    ASSUME BusTypeOK, Handshake, Online, [Next]_vars
    PROVE  Online'
<1> USE DEF busVars, tables, server, clients, counters
<1>1. conn \in [Conns -> Goroutines] /\ node \in [Nodes -> NodeRows] /\ Nodes \subseteq Addrs
      /\ astray \in [Nodes -> SUBSET {"overlap", "removal", "restart"}]
      /\ endpoints \in [Addrs -> Endpoints]
  BY DEF BusTypeOK, Addrs
<1>2. CASE UNCHANGED <<conn, endpoints, node, astray>>
  BY <1>2, OnlineRests DEF Registered
<1>3. ASSUME NEW c \in Conns, (\E p \in Procs : Run(p, c)) \/ (\E u \in Uis : DialUi(c, u))
      PROVE  Online'
  <2>1. Alone(c) /\ UNCHANGED <<endpoints, node, astray>> /\ conn[c].pc = "free"
    BY <1>1, <1>3 DEF Run, DialUi, Alone, At
  <2> QED
    BY <2>1, OnlineGoto DEF Backing
<1>4. ASSUME NEW n \in Nodes, RemoveNode(n)
      PROVE  Online'
  <2>1. UNCHANGED <<conn, node>> /\ \A m \in Nodes : astray[m] \subseteq astray'[m]
    BY <1>1, <1>4 DEF RemoveNode
  <2>2. \A m \in Nodes : Registered(m) => Registered(m)' \/ "removal" \in astray'[m]
    BY <1>1, <1>4 DEF RemoveNode, Unregister, Registered
  <2> QED
    BY <2>1, <2>2, OnlineRests
<1>5. ASSUME NEW n \in Nodes, deleteNode(n) \/ \E p \in Procs : StartNode(n, p)
      PROVE  Online'
  <2>1. UNCHANGED <<conn, endpoints, astray>>
    BY <1>5 DEF deleteNode, StartNode
  <2>2. [node[n] EXCEPT !.secret = secrets + 1].status = node[n].status
        /\ [status |-> "none", secret |-> 0].status = "none"
    BY <1>1 DEF NodeRows
  <2>3. \A m \in Nodes : node'[m].status = "online" => node[m].status = "online"
    BY <1>1, <1>5, <2>2 DEF deleteNode, StartNode
  <2> QED
    BY <2>1, <2>3, OnlineRests DEF Registered
<1>6. CASE Restart
  <2>1. \A n \in Nodes : "restart" \in astray'[n]
    BY <1>1, <1>6 DEF Restart
  <2> QED
    BY <2>1 DEF Online
<1>7. ASSUME NEW c \in Conns, HandleWS(c)
      PROVE  Online'
  <2>1. CASE handleSessionJoin(c) \/ MarkRunning(c) \/ inviteRuntimes(c)
             \/ handleSessionCreate(c) \/ forwardCreate(c)
    BY <1>2, <2>1 DEF handleSessionJoin, MarkRunning, inviteRuntimes, handleSessionCreate,
         forwardCreate, JoinSession, CreateSession
  <2> QED
    BY <1>7, <2>1, OnlineHandshake, OnlineConnection DEF HandleWS
<1>8. CASE \/ \E t \in Tokens : GenerateToken(t)
           \/ \E p \in Procs, t \in Tokens : InstallScript(p, t)
           \/ \E p \in Procs : runStart(p) \/ Shutdown(p)
           \/ \E c \in Conns : Lose(c) \/ \E s \in Sids : UiSends(c, s)
           \/ \E s \in Sids : CreateStep(s) \/ \E n \in Nodes : CreateRequest(s, n)
           \/ \E n \in Nodes : StopNode(n)
           \/ CleanStaleDBSessions
           \/ cleanStaleSessions /\ UNCHANGED <<tables, server, clients, counters, astray>>
           \/ UNCHANGED vars
  BY <1>2, <1>8 DEF GenerateToken, InstallScript, runStart, Shutdown, Lose, UiSends, CreateStep,
       createOnBus, insertSession, deliverCreate, CreateRequest, StopNode,
       CreateSession, EndSession, CleanStaleDBSessions, cleanStaleSessions, vars
<1> QED
  BY <1>3, <1>4, <1>5, <1>6, <1>7, <1>8 DEF Next

-----------------------------------------------------------------------------
(* A session that is running has a runtime that serves it, or that will    *)
(* fail it, as long as no endpoint was lost but by the end of its own      *)
(* connection.                                                             *)

Contents(q) == {q[i] : i \in 1 .. Len(q)}

\* A message of connection c is about session s.
About(s, c) == \E m \in Contents(inbox[c]) : m # Hello /\ m.session = s

Straight == \A n \in Nodes : astray[n] \subseteq {"restart"}

\* The ids of user interfaces have no rows, and nobody else creates a session by a message.
Foreign == \A s \in UiSids : row[s].status = "none" /\ creating[s] = NoRequest
Creates == \A c \in Conns : \A m \in Contents(inbox[c]) :
              m # Hello /\ m.type = "create" => m.session \in UiSids

\* The row of a session comes after the session on the bus and before its delivery.
Wanted == \A s \in Sids : /\ creating[s].step = "bus" => row[s].status = "none"
                          /\ creating[s].step = "deliver" => row[s].status # "none"

\* The endpoint of a node is of the only connection that serves it.
Own == \A c \in Conns : conn[c].addr \in Nodes /\ conn[c].pc \in Serving
                          => endpoints[conn[c].addr].conn = c

\* A session that was not created is nowhere.
Unborn == \A s \in Sids \ UiSids :
             row[s].status = "none" /\ creating[s].step \in {"idle", "bus"}
               => members[s] = {} /\ \A c \in Conns : ~About(s, c)

\* No node that a request or a connection is about is removed.
Kept == /\ removing = {}
        /\ \A s \in Sids : creating[s].step # "idle"
                             => creating[s].node \in Nodes /\ Exists(creating[s].node)
        /\ \A c \in Conns : conn[c].addr \in Nodes => Exists(conn[c].addr)

\* A runtime that was told that it joined is a member of the session.
Answered == \A c \in Conns : \A m \in Contents(inbox[c]) :
               m # Hello /\ m.type = "running" /\ m.session \notin UiSids
                 => At(c, "serve") /\ conn[c].addr \in Nodes \cap members[m.session]

\* RunningIsServed in every state: a member serves the session or has yet to fail it.
ServedBy(c, s) == /\ conn[c].addr \in Nodes \cap members[s]
                  /\ At(c, "serve") \/ (At(c, "fail") /\ s \in conn[c].todo)
Served == \A s \in Sids : row[s].status = "running" => \E c \in Conns : ServedBy(c, s)

Requested == Foreign /\ Creates /\ Wanted
Attended == Own /\ Unborn /\ Kept /\ Answered /\ Served

\* The strengthening of BInv.
SInv == BInv /\ Online /\ Requested /\ (Straight => Attended)

-----------------------------------------------------------------------------
(* What the inboxes contain.                                               *)

LEMMA ContentsOf ==
    ASSUME NEW S, NEW q \in Seq(S)
    PROVE  /\ \A e \in S : Contents(Append(q, e)) = Contents(q) \cup {e}
           /\ Contents(<<>>) = {}
           /\ \A m : Contents(<<m>>) = {m}
           /\ q # <<>> => /\ Contents(Tail(q)) \subseteq Contents(q)
                          /\ Head(q) \in Contents(q)
<1>1. Len(q) \in Nat
  BY LenProperties
<1>2. ASSUME NEW e \in S
      PROVE  Contents(Append(q, e)) = Contents(q) \cup {e}
  <2>1. /\ Len(Append(q, e)) = Len(q) + 1
        /\ \A i \in 1 .. Len(q) : Append(q, e)[i] = q[i]
        /\ Append(q, e)[Len(q) + 1] = e
    BY AppendProperties
  <2>2. 1 .. (Len(q) + 1) = (1 .. Len(q)) \cup {Len(q) + 1}
    BY <1>1
  <2> QED
    BY <2>1, <2>2 DEF Contents
<1>3. Contents(<<>>) = {} /\ \A m : Contents(<<m>>) = {m}
  BY DEF Contents
<1>4. ASSUME q # <<>>
      PROVE  /\ Contents(Tail(q)) \subseteq Contents(q)
             /\ Head(q) \in Contents(q)
  <2>1. /\ Len(q) # 0 /\ Head(q) = q[1]
        /\ Len(Tail(q)) = Len(q) - 1
        /\ \A i \in 1 .. Len(Tail(q)) : Tail(q)[i] = q[i + 1]
    BY <1>4, EmptySeq, HeadTailProperties
  <2>2. 1 \in 1 .. Len(q) /\ \A i \in 1 .. (Len(q) - 1) : i + 1 \in 1 .. Len(q)
    BY <1>1, <2>1
  <2> QED
    BY <2>1, <2>2 DEF Contents
<1> QED
  BY <1>2, <1>3, <1>4

\* The messages after one is read.
LEMMA ContentsRead ==
    ASSUME BusTypeOK, NEW c \in Conns, inbox[c] # <<>>, NEW d \in Conns
    PROVE  /\ Contents(Read(c, <<>>)[d]) \subseteq Contents(inbox[d])
           /\ \A m \in AllMessages : Contents(Read(c, <<m>>)[d]) \subseteq
                Contents(inbox[d]) \cup (IF d = c THEN {m} ELSE {})
<1>1. inbox \in [Conns -> Seq(AllMessages)] /\ inbox[c] \in Seq(AllMessages)
  BY DEF BusTypeOK, AllMessages
<1>2. Tail(inbox[c]) \in Seq(AllMessages) /\ Contents(Tail(inbox[c])) \subseteq Contents(inbox[c])
  BY <1>1, HeadTailProperties, ContentsOf
<1>3. <<>> \o Tail(inbox[c]) = Tail(inbox[c])
  BY <1>2, ConcatEmptySeq
<1>4. ASSUME NEW m \in AllMessages
      PROVE  Contents(<<m>> \o Tail(inbox[c])) \subseteq Contents(inbox[c]) \cup {m}
  <2>1. PICK t \in Seq(AllMessages) : t = Tail(inbox[c])
    BY <1>2
  <2>2. Contents(<<m>> \o t) \subseteq Contents(t) \cup {m}
    <3>1. /\ Len(<<m>> \o t) = Len(t) + 1 /\ Len(t) \in Nat
          /\ (<<m>> \o t)[1] = m
          /\ \A i \in 2 .. (Len(t) + 1) : (<<m>> \o t)[i] = t[i - 1]
      BY ConcatProperties, LenProperties
    <3>2. \A i \in 1 .. (Len(t) + 1) : i = 1 \/ (i - 1 \in 1 .. Len(t) /\ i \in 2 .. (Len(t) + 1))
      BY <3>1
    <3> QED
      BY <3>1, <3>2 DEF Contents
  <2> QED
    BY <1>2, <2>1, <2>2
<1> QED
  BY <1>1, <1>2, <1>3, <1>4 DEF Read

LEMMA ContentsInvited ==
    ASSUME NEW ib \in [Conns -> Seq(AllMessages)], NEW as, NEW s \in Sids, NEW d \in Conns
    PROVE  Contents(Invited(ib, as, s)[d]) \subseteq
             Contents(ib[d]) \cup {[type |-> "join", session |-> s]}
<1>1. [type |-> "join", session |-> s] \in AllMessages
  BY DEF AllMessages, Messages
<1>2. Invited(ib, as, s)[d] \in {ib[d], Append(ib[d], [type |-> "join", session |-> s])}
  BY DEF Invited
<1>3. ib[d] \in Seq(AllMessages)
  OBVIOUS
<1>4. Contents(Append(ib[d], [type |-> "join", session |-> s])) =
        Contents(ib[d]) \cup {[type |-> "join", session |-> s]}
  BY <1>1, <1>3, ContentsOf
<1> QED
  BY <1>2, <1>4

\* The message that is read is about its session.
LEMMA SaidAbout ==
    ASSUME BusTypeOK, NEW c \in Conns, NEW type \in {"join", "running", "invite", "create", "forward"},
           Says(c, type)
    PROVE  \E m \in Contents(inbox[c]) : m # Hello /\ m.type = type /\ m.session = Said(c)
<1>1. inbox[c] \in Seq(AllMessages) /\ inbox[c] # <<>> /\ Head(inbox[c]).type = type
  BY DEF BusTypeOK, AllMessages, Says
<1>2. Head(inbox[c]) \in Contents(inbox[c]) /\ Head(inbox[c]) # Hello
  BY <1>1, ContentsOf DEF Hello
<1> QED
  BY <1>1, <1>2 DEF Said

-----------------------------------------------------------------------------
(* What a step does to a row, to a request and to the messages.            *)

\* What a step may do to the status of the row of s.
RowMoves(s) ==
    \/ row'[s].status = row[s].status
    \/ row[s].status # "none" /\ row'[s].status = "failed"
    \/ /\ row[s].status = "pending" /\ row'[s].status = "running"
       /\ \E c \in Conns : MarkRunning(c) /\ Said(c) = s
    \/ /\ creating[s].step = "insert" /\ creating'[s].step = "deliver"
       /\ row'[s].status = "pending"

LEMMA RowStep ==
    ASSUME BusTypeOK, [Next]_vars, NEW s \in Sids
    PROVE  RowMoves(s)
<1> USE DEF busVars, tables, server, clients, counters
<1>1. row \in [Sids -> SessionRows] /\ \A r \in Sids : row[r] \in SessionRows
  BY DEF BusTypeOK
<1>2. \A r \in Sids : [row[r] EXCEPT !.status = "failed"].status = "failed"
                      /\ [row[r] EXCEPT !.status = "running"].status = "running"
                      /\ [row[r] EXCEPT !.status = row[r].status].status = row[r].status
  BY <1>1 DEF SessionRows
<1>3. CASE UNCHANGED row
  BY <1>3 DEF RowMoves
<1>4. ASSUME NEW c \in Conns, MarkRunning(c)
      PROVE  RowMoves(s)
  <2>1. \/ row'[s].status = row[s].status
        \/ row[s].status = "pending" /\ row'[s].status = "running" /\ Said(c) = s
    BY <1>1, <1>2, <1>4 DEF MarkRunning
  <2> QED
    BY <1>4, <2>1 DEF RowMoves
<1>5. ASSUME NEW c \in Conns, MarkFailed(c)
      PROVE  RowMoves(s)
  <2>1. UNCHANGED row \/ \E r \in Sids : /\ row[r].status # "none"
                                          /\ row' = [row EXCEPT ![r].status = "failed"]
    BY <1>1, <1>5 DEF MarkFailed, BusTypeOK, Goroutines
  <2> QED
    BY <1>1, <1>2, <2>1 DEF RowMoves
<1>6. CASE CleanStaleDBSessions
  <2>1. row'[s] \in {row[s], [row[s] EXCEPT !.status = "failed"]}
        /\ (row'[s] # row[s] => Active(s))
    BY <1>6 DEF CleanStaleDBSessions
  <2> QED
    BY <1>2, <2>1 DEF Active, RowMoves
<1>7. ASSUME NEW r \in Sids, insertSession(r)
      PROVE  RowMoves(s)
  <2>1. CASE /\ row' = [row EXCEPT ![r] = [status |-> "pending", node |-> creating[r].node]]
             /\ creating' = [creating EXCEPT ![r].step = "deliver"]
    BY <1>1, <1>7, <2>1 DEF insertSession, BusTypeOK, RowMoves
  <2> QED
    BY <1>3, <1>7, <2>1 DEF insertSession
<1>8. ASSUME NEW c \in Conns, HandleWS(c), ~MarkRunning(c), ~MarkFailed(c)
      PROVE  UNCHANGED row
  BY <1>8 DEF HandleWS, lookupSecret, markOnline, lookupToken, expireToken, useToken, insertNode,
       saveNode, reissueSecret, answer, register, setDeliver, endOfRead, unregister,
       markOffline, hello, handleSessionJoin, inviteRuntimes, handleSessionCreate, forwardCreate
<1>9. CASE \/ \E t \in Tokens : GenerateToken(t)
           \/ \E p \in Procs, t \in Tokens : InstallScript(p, t)
           \/ \E p \in Procs : runStart(p) \/ Shutdown(p) \/ \E c \in Conns : Run(p, c)
           \/ \E c \in Conns : \/ Lose(c)
                               \/ \E u \in Uis : DialUi(c, u)
                               \/ \E r \in Sids : UiSends(c, r)
           \/ \E r \in Sids : \/ createOnBus(r) \/ deliverCreate(r)
                              \/ \E n \in Nodes : CreateRequest(r, n)
           \/ \E n \in Nodes : \/ RemoveNode(n) \/ deleteNode(n) \/ StopNode(n)
                               \/ \E p \in Procs : StartNode(n, p)
           \/ cleanStaleSessions /\ UNCHANGED <<tables, server, clients, counters, astray>>
           \/ UNCHANGED vars
  BY <1>3, <1>9 DEF GenerateToken, InstallScript, runStart, Shutdown, Run, Lose, DialUi, UiSends,
       createOnBus, deliverCreate, CreateRequest, RemoveNode, deleteNode, StopNode, StartNode, vars
<1>10. ASSUME NEW c \in Conns, HandleWS(c)
       PROVE  RowMoves(s)
  <2>1. CASE MarkRunning(c)
    BY <1>4, <2>1
  <2>2. CASE MarkFailed(c)
    BY <1>5, <2>2
  <2> QED
    BY <1>3, <1>8, <1>10, <2>1, <2>2
<1>11. CASE Restart
  <2>1. row'[s] = IF Active(s) THEN [row[s] EXCEPT !.status = "failed"] ELSE row[s]
    BY <1>11 DEF Restart, Migrate
  <2> QED
    BY <1>2, <2>1 DEF Active, RowMoves
<1> QED
  BY <1>6, <1>7, <1>9, <1>10, <1>11 DEF Next, CreateStep

\* What a step of a server that lives may do to the request that creates s.
RequestMoves(s) ==
    \/ creating'[s] = creating[s]
    \/ /\ creating[s] = NoRequest /\ creating'[s].step = "bus" /\ s \notin UiSids
       /\ creating'[s].node \in Nodes /\ Registered(creating'[s].node)
       /\ row[s].status = "none" /\ UNCHANGED <<row, members, inbox>>
    \/ /\ creating[s].step = "bus" /\ creating'[s].step = "insert"
       /\ creating'[s].node = creating[s].node
       /\ UNCHANGED row
    \/ /\ creating[s].step = "insert" /\ creating'[s].step = "deliver"
       /\ creating'[s].node = creating[s].node
       /\ row'[s].status = "pending"
    \/ creating[s].step = "insert" /\ ~Exists(creating[s].node) /\ creating'[s] = NoRequest
    \/ creating[s].step = "deliver" /\ creating'[s] = NoRequest

LEMMA CreatingStep ==
    ASSUME BusTypeOK, [Next]_vars, ~Restart, NEW s \in Sids
    PROVE  RequestMoves(s)
<1> USE DEF busVars, tables, server, clients, counters
<1>1. /\ creating \in [Sids -> [step : {"idle", "bus", "insert", "deliver"}, node : Nodes \cup {NoNode}]]
      /\ row \in [Sids -> SessionRows]
  BY DEF BusTypeOK
<1>2. \A r \in Sids : \A x : /\ [creating[r] EXCEPT !.step = x].step = x
                             /\ [creating[r] EXCEPT !.step = x].node = creating[r].node
  BY <1>1
<1>3. CASE UNCHANGED creating
  BY <1>3 DEF RequestMoves
<1>4. ASSUME NEW r \in Sids, NEW n \in Nodes, CreateRequest(r, n)
      PROVE  RequestMoves(s)
  <2>1. CASE r = s
    <3>1. creating'[s] = [step |-> "bus", node |-> n]
      BY <1>1, <1>4, <2>1 DEF CreateRequest, RequestMoves
    <3> QED
      BY <1>4, <2>1, <3>1 DEF CreateRequest, RequestMoves
  <2>2. CASE r # s
    BY <1>1, <1>4, <2>2 DEF CreateRequest, RequestMoves
  <2> QED
    BY <2>1, <2>2
<1>5. ASSUME NEW r \in Sids, createOnBus(r)
      PROVE  RequestMoves(s)
  BY <1>1, <1>2, <1>5 DEF createOnBus, RequestMoves
<1>6. ASSUME NEW r \in Sids, insertSession(r)
      PROVE  RequestMoves(s)
  <2>1. CASE r = s
    BY <1>1, <1>2, <1>6, <2>1 DEF insertSession, RequestMoves
  <2>2. CASE r # s
    BY <1>1, <1>6, <2>2 DEF insertSession, RequestMoves
  <2> QED
    BY <2>1, <2>2
<1>7. ASSUME NEW r \in Sids, deliverCreate(r)
      PROVE  RequestMoves(s)
  BY <1>1, <1>7 DEF deliverCreate, RequestMoves
<1>8. ASSUME NEW c \in Conns, HandleWS(c)
      PROVE  UNCHANGED creating
  BY <1>8 DEF HandleWS, lookupSecret, markOnline, lookupToken, expireToken, useToken, insertNode,
       saveNode, reissueSecret, answer, register, setDeliver, endOfRead, MarkFailed, unregister,
       markOffline, hello, handleSessionJoin, MarkRunning, inviteRuntimes, handleSessionCreate,
       forwardCreate
<1>9. CASE \/ \E t \in Tokens : GenerateToken(t)
           \/ \E p \in Procs, t \in Tokens : InstallScript(p, t)
           \/ \E p \in Procs : runStart(p) \/ Shutdown(p) \/ \E c \in Conns : Run(p, c)
           \/ \E c \in Conns : \/ Lose(c)
                               \/ \E u \in Uis : DialUi(c, u)
                               \/ \E r \in Sids : UiSends(c, r)
           \/ \E n \in Nodes : \/ RemoveNode(n) \/ deleteNode(n) \/ StopNode(n)
                               \/ \E p \in Procs : StartNode(n, p)
           \/ CleanStaleDBSessions
           \/ cleanStaleSessions /\ UNCHANGED <<tables, server, clients, counters, astray>>
           \/ UNCHANGED vars
  BY <1>3, <1>9 DEF GenerateToken, InstallScript, runStart, Shutdown, Run, Lose, DialUi, UiSends,
       RemoveNode, deleteNode, StopNode, StartNode, CleanStaleDBSessions, vars
<1>10. ASSUME NEW r \in Sids, CreateStep(r)
       PROVE  RequestMoves(s)
  BY <1>5, <1>6, <1>7, <1>10 DEF CreateStep
<1>11. ASSUME NEW c \in Conns, HandleWS(c)
       PROVE  RequestMoves(s)
  BY <1>3, <1>8, <1>11
<1> QED
  BY <1>4, <1>9, <1>10, <1>11 DEF Next

\* A message that a step adds to the inbox of connection d.
NewMail(d, m) ==
    \/ m = Hello
    \/ m # Hello /\ m.type = "create" /\ m.session \in UiSids
    \/ /\ m # Hello /\ m.type = "running"
       /\ handleSessionJoin(d) /\ Said(d) = m.session /\ IsRuntime(d) /\ HasSession(m.session)
    \/ /\ m # Hello /\ m.type \in {"join", "invite", "forward"}
       /\ \/ HasSession(m.session)
          \/ row[m.session].status # "none"
          \/ \E c \in Conns : About(m.session, c)

LEMMA MailStep ==
    ASSUME BusTypeOK, Wanted, [Next]_vars, NEW d \in Conns, NEW m \in Contents(inbox'[d])
    PROVE  m \in Contents(inbox[d]) \/ NewMail(d, m)
<1> USE DEF busVars, tables, server, clients, counters
<1>1. inbox \in [Conns -> Seq(AllMessages)] /\ \A c \in Conns : inbox[c] \in Seq(AllMessages)
  BY DEF BusTypeOK, AllMessages
<1>2. /\ \A type \in {"join", "running", "invite", "create", "forward"}, s \in Sids :
             /\ [type |-> type, session |-> s] \in AllMessages
             /\ [type |-> type, session |-> s] # Hello
      /\ Hello \in AllMessages
  BY DEF AllMessages, Messages, Hello
<1>3. CASE UNCHANGED inbox
  BY <1>3
<1>4. ASSUME NEW c \in Conns, inbox' = [inbox EXCEPT ![c] = <<>>]
      PROVE  m \in Contents(inbox[d])
  BY <1>1, <1>4, ContentsOf
<1>5. ASSUME NEW c \in Conns, inbox' = [inbox EXCEPT ![c] = <<Hello>>]
      PROVE  m \in Contents(inbox[d]) \/ NewMail(d, m)
  <2>1. Contents(<<Hello>>) = {Hello}
    BY <1>1, ContentsOf
  <2> QED
    BY <1>1, <1>5, <2>1 DEF NewMail
<1>6. ASSUME NEW c \in Conns, inbox[c] # <<>>, inbox' = Read(c, <<>>)
      PROVE  m \in Contents(inbox[d])
  BY <1>6, ContentsRead
<1>7. ASSUME NEW c \in Conns, inbox[c] # <<>>, NEW x \in AllMessages, inbox' = Read(c, <<x>>)
       PROVE  m \in Contents(inbox[d]) \/ (d = c /\ m = x)
  <2>1. Contents(Read(c, <<x>>)[d]) \subseteq Contents(inbox[d]) \cup (IF d = c THEN {x} ELSE {})
    BY <1>7, ContentsRead
  <2> QED
    BY <1>7, <2>1
<1>8. ASSUME NEW c \in Conns, NEW s \in Sids, UiSends(c, s)
      PROVE  m \in Contents(inbox[d]) \/ NewMail(d, m)
  <2>1. PICK type \in {"join", "create"} :
          /\ IF type = "create" THEN s \in UiSids ELSE HasSession(s) \/ row[s].status # "none"
          /\ inbox' = [inbox EXCEPT ![c] = Append(@, [type |-> type, session |-> s])]
    BY <1>8 DEF UiSends
  <2>2. Contents(Append(inbox[c], [type |-> type, session |-> s])) =
          Contents(inbox[c]) \cup {[type |-> type, session |-> s]}
    BY <1>1, <1>2, ContentsOf
  <2>3. m \in Contents(inbox[d]) \/ m = [type |-> type, session |-> s]
    BY <1>1, <2>1, <2>2
  <2> QED
    BY <1>2, <2>1, <2>3 DEF NewMail
\* A session that is announced is known to someone.
<1>9. ASSUME NEW ib \in [Conns -> Seq(AllMessages)], Contents(ib[d]) \subseteq Contents(inbox[d]),
             NEW as, NEW s \in Sids, inbox' = Invited(ib, as, s),
             row[s].status # "none" \/ \E c \in Conns : About(s, c)
      PROVE  m \in Contents(inbox[d]) \/ NewMail(d, m)
  <2>1. m \in Contents(inbox[d]) \/ m = [type |-> "join", session |-> s]
    BY <1>9, ContentsInvited
  <2> QED
    BY <1>2, <1>9, <2>1 DEF NewMail
<1>10. ASSUME NEW c \in Conns, handleSessionJoin(c)
      PROVE  m \in Contents(inbox[d]) \/ NewMail(d, m)
  <2>1. Said(c) \in Sids /\ inbox[c] # <<>>
    BY <1>10, SaidType DEF handleSessionJoin
  <2>2. CASE ~HasSession(Said(c))
    BY <1>6, <1>10, <2>1, <2>2 DEF handleSessionJoin
  <2>3. CASE HasSession(Said(c))
    <3>1. PICK type \in {"running", "invite"} : type = IF IsRuntime(c) THEN "running" ELSE "invite"
      OBVIOUS
    <3>2. inbox' = Read(c, <<[type |-> type, session |-> Said(c)]>>)
      BY <1>10, <2>3, <3>1 DEF handleSessionJoin
    <3>3. m \in Contents(inbox[d]) \/ (d = c /\ m = [type |-> type, session |-> Said(c)])
      BY <1>2, <1>7, <2>1, <3>2
    <3> QED
      BY <1>2, <1>10, <2>1, <2>3, <3>1, <3>3 DEF NewMail
  <2> QED
    BY <2>2, <2>3
<1>11. ASSUME NEW c \in Conns, handleSessionCreate(c)
       PROVE  m \in Contents(inbox[d]) \/ NewMail(d, m)
  <2>1. Said(c) \in Sids /\ inbox[c] # <<>> /\ About(Said(c), c)
    BY <1>11, SaidType, SaidAbout DEF handleSessionCreate, About
  <2>2. inbox' = Read(c, <<[type |-> "forward", session |-> Said(c)]>>)
    BY <1>11 DEF handleSessionCreate
  <2>3. m \in Contents(inbox[d]) \/ m = [type |-> "forward", session |-> Said(c)]
    BY <1>2, <1>7, <2>1, <2>2
  <2> QED
    BY <1>2, <2>1, <2>3 DEF NewMail
<1>12. ASSUME NEW c \in Conns, inviteRuntimes(c) \/ forwardCreate(c)
       PROVE  m \in Contents(inbox[d]) \/ NewMail(d, m)
  <2>1. Said(c) \in Sids /\ inbox[c] # <<>> /\ About(Said(c), c)
    BY <1>12, SaidType, SaidAbout DEF inviteRuntimes, forwardCreate, About
  <2>2. <<>> \in Seq(AllMessages)
    BY EmptySeq
  <2>3. Read(c, <<>>) \in [Conns -> Seq(AllMessages)]
        /\ Contents(Read(c, <<>>)[d]) \subseteq Contents(inbox[d])
    BY <2>1, <2>2, ReadType, ContentsRead
  <2>4. CASE inbox' = Read(c, <<>>)
    BY <1>6, <2>1, <2>4
  <2>5. ASSUME NEW as, inbox' = Invited(Read(c, <<>>), as, Said(c))
        PROVE  m \in Contents(inbox[d]) \/ NewMail(d, m)
    BY <1>9, <2>1, <2>3, <2>5
  <2> QED
    BY <1>12, <2>4, <2>5 DEF inviteRuntimes, forwardCreate
<1>13. ASSUME NEW s \in Sids, deliverCreate(s)
       PROVE  m \in Contents(inbox[d]) \/ NewMail(d, m)
  BY <1>1, <1>9, <1>13 DEF deliverCreate, Wanted
<1>14. CASE Restart
  BY <1>1, <1>14, ContentsOf DEF Restart
<1>15. ASSUME NEW c \in Conns, HandleWS(c)
       PROVE  m \in Contents(inbox[d]) \/ NewMail(d, m)
  <2>1. CASE \/ lookupSecret(c) \/ markOnline(c) \/ lookupToken(c) \/ expireToken(c) \/ useToken(c)
             \/ insertNode(c) \/ saveNode(c) \/ reissueSecret(c) \/ answer(c) \/ register(c)
             \/ setDeliver(c) \/ endOfRead(c) \/ MarkFailed(c) \/ unregister(c) \/ markOffline(c)
    <3>1. UNCHANGED inbox \/ inbox' = [inbox EXCEPT ![c] = <<>>]
      BY <2>1 DEF lookupSecret, markOnline, lookupToken, expireToken, useToken, insertNode, saveNode,
         reissueSecret, answer, register, setDeliver, endOfRead, MarkFailed, unregister, markOffline,
         Closed
    <3> QED
      BY <1>3, <1>4, <3>1
  <2>2. CASE hello(c) \/ MarkRunning(c)
    BY <1>6, <2>2 DEF hello, MarkRunning, Says
  <2> QED
    BY <1>10, <1>11, <1>12, <1>15, <2>1, <2>2 DEF HandleWS
<1>16. ASSUME NEW c \in Conns, (\E p \in Procs : Run(p, c)) \/ \E u \in Uis : DialUi(c, u)
       PROVE  m \in Contents(inbox[d]) \/ NewMail(d, m)
  BY <1>5, <1>16 DEF Run, DialUi
<1>17. CASE \/ \E t \in Tokens : GenerateToken(t)
            \/ \E p \in Procs, t \in Tokens : InstallScript(p, t)
            \/ \E p \in Procs : runStart(p) \/ Shutdown(p)
            \/ \E c \in Conns : Lose(c)
            \/ \E s \in Sids : createOnBus(s) \/ insertSession(s) \/ \E n \in Nodes : CreateRequest(s, n)
            \/ \E n \in Nodes : RemoveNode(n) \/ deleteNode(n) \/ StopNode(n) \/ \E p \in Procs : StartNode(n, p)
            \/ CleanStaleDBSessions
            \/ cleanStaleSessions /\ UNCHANGED <<tables, server, clients, counters, astray>>
            \/ UNCHANGED vars
  BY <1>3, <1>17 DEF GenerateToken, InstallScript, runStart, Shutdown, Lose, createOnBus,
       insertSession, CreateRequest, RemoveNode, deleteNode, StopNode, StartNode,
       CleanStaleDBSessions, vars
<1> QED
  BY <1>8, <1>13, <1>14, <1>15, <1>16, <1>17 DEF Next, CreateStep

\* Who is a member of a session that no user interface created.  A step may end a session
\* without members, or make a new one of it in createOnBus; a member leaves when its address
\* is unregistered.
Leaves(s, n) ==
    \/ creating[s].step = "bus"
    \/ creating[s].step = "insert" /\ ~Exists(creating[s].node)
    \/ \E c \in Conns : unregister(c) /\ conn[c].addr = n
    \/ RemoveNode(n)

LEMMA MembersStep ==
    ASSUME BusTypeOK, Creates, [Next]_vars, ~Restart, NEW s \in Sids \ UiSids
    PROVE  /\ members[s] = {} => \/ members'[s] = {}
                                 \/ creating[s].step = "bus" /\ creating'[s].step = "insert"
           /\ \A n \in members[s] \cap Nodes : n \in members'[s] \/ Leaves(s, n)
<1> USE DEF busVars, tables, server, clients, counters
<1> DEFINE Step == /\ members[s] = {} => \/ members'[s] = {}
                                         \/ creating[s].step = "bus" /\ creating'[s].step = "insert"
                   /\ \A n \in members[s] \cap Nodes : n \in members'[s] \/ Leaves(s, n)
<1> SUFFICES Step
  OBVIOUS
<1>1. members \in [Sids -> SUBSET (Addrs \cup {Api})] /\ Api \notin Nodes /\ Nodes \subseteq Addrs
  BY ApiAssumption DEF BusTypeOK, Addrs
<1>2. CASE members'[s] = members[s]
  BY <1>2
<1>3. ASSUME NEW a, Unregister(a)
      PROVE  /\ members[s] = {} => members'[s] = {}
             /\ \A n \in members[s] \cap Nodes : n \in members'[s] \/ n = a
  BY <1>1, <1>3 DEF Unregister, onlySystemMembers
<1>4. ASSUME NEW c \in Conns, unregister(c)
      PROVE  Step
  <2>1. Unregister(conn[c].addr)
    BY <1>4 DEF unregister
  <2> QED
    BY <1>3, <1>4, <2>1 DEF Leaves
<1>5. ASSUME NEW n \in Nodes, RemoveNode(n)
      PROVE  Step
  <2>1. Unregister(n)
    BY <1>5 DEF RemoveNode
  <2> QED
    BY <1>3, <1>5, <2>1 DEF Leaves
<1>6. ASSUME NEW c \in Conns, handleSessionJoin(c)
      PROVE  Step
  <2>1. JoinSession(Said(c), conn[c].addr)
    BY <1>6 DEF handleSessionJoin
  <2> QED
    BY <1>1, <2>1 DEF JoinSession, HasSession
<1>7. ASSUME NEW c \in Conns, handleSessionCreate(c)
      PROVE  Step
  <2>1. Said(c) \in UiSids
    BY <1>7, SaidAbout DEF handleSessionCreate, Creates
  <2> QED
    BY <1>1, <1>2, <1>7, <2>1 DEF handleSessionCreate, CreateSession
<1>8. ASSUME NEW r \in Sids, createOnBus(r)
      PROVE  Step
  <2>1. CASE r = s
    BY <1>1, <1>8, <2>1 DEF createOnBus, Leaves, BusTypeOK
  <2>2. CASE r # s
    BY <1>1, <1>2, <1>8, <2>2 DEF createOnBus, CreateSession
  <2> QED
    BY <2>1, <2>2
<1>9. ASSUME NEW r \in Sids, insertSession(r)
      PROVE  Step
  <2>1. CASE r = s
    BY <1>1, <1>2, <1>9, <2>1 DEF insertSession, EndSession, Leaves
  <2>2. CASE r # s
    BY <1>1, <1>2, <1>9, <2>2 DEF insertSession, EndSession
  <2> QED
    BY <2>1, <2>2
<1>10. CASE cleanStaleSessions
  <2>1. PICK old \in SUBSET {r \in Sids : HasSession(r) /\ onlySystemMembers(members[r])} :
          members' = [r \in Sids |-> IF r \in old THEN {} ELSE members[r]]
    BY <1>10 DEF cleanStaleSessions
  <2> QED
    BY <1>1, <2>1 DEF onlySystemMembers
<1>11. ASSUME NEW c \in Conns, HandleWS(c)
       PROVE  Step
  <2>1. CASE \/ lookupSecret(c) \/ markOnline(c) \/ lookupToken(c) \/ expireToken(c) \/ useToken(c)
             \/ insertNode(c) \/ saveNode(c) \/ reissueSecret(c) \/ answer(c) \/ register(c)
             \/ setDeliver(c) \/ endOfRead(c) \/ MarkFailed(c) \/ markOffline(c)
             \/ hello(c) \/ MarkRunning(c) \/ inviteRuntimes(c) \/ forwardCreate(c)
    <3>1. UNCHANGED members
      BY <2>1 DEF lookupSecret, markOnline, lookupToken, expireToken, useToken, insertNode, saveNode,
         reissueSecret, answer, register, setDeliver, endOfRead, MarkFailed, markOffline, hello,
         MarkRunning, inviteRuntimes, forwardCreate, Register, SetEndpointDeliver
    <3> QED
      BY <1>2, <3>1
  <2> QED
    BY <1>4, <1>6, <1>7, <1>11, <2>1 DEF HandleWS
<1>12. CASE \/ \E t \in Tokens : GenerateToken(t)
            \/ \E p \in Procs, t \in Tokens : InstallScript(p, t)
            \/ \E p \in Procs : runStart(p) \/ Shutdown(p) \/ \E c \in Conns : Run(p, c)
            \/ \E c \in Conns : \/ Lose(c)
                                \/ \E u \in Uis : DialUi(c, u)
                                \/ \E r \in Sids : UiSends(c, r)
            \/ \E r \in Sids : deliverCreate(r) \/ \E n \in Nodes : CreateRequest(r, n)
            \/ \E n \in Nodes : deleteNode(n) \/ StopNode(n) \/ \E p \in Procs : StartNode(n, p)
            \/ CleanStaleDBSessions
            \/ UNCHANGED vars
  BY <1>2, <1>12 DEF GenerateToken, InstallScript, runStart, Shutdown, Run, Lose, DialUi, UiSends,
       deliverCreate, CreateRequest, deleteNode, StopNode, StartNode, CleanStaleDBSessions, vars
<1> HIDE DEF Step
<1> QED
  BY <1>5, <1>8, <1>9, <1>10, <1>11, <1>12 DEF Next, CreateStep

-----------------------------------------------------------------------------
(* What a step does to a goroutine and to an endpoint.                     *)

\* The actions that move goroutine c.
Connects(c) == (\E p \in Procs : Run(p, c)) \/ \E u \in Uis : DialUi(c, u)
Shakes(c) == \/ lookupSecret(c) \/ markOnline(c) \/ lookupToken(c) \/ expireToken(c) \/ useToken(c)
             \/ insertNode(c) \/ saveNode(c) \/ reissueSecret(c) \/ answer(c)
Serves(c) == setDeliver(c) \/ endOfRead(c) \/ MarkFailed(c)
Goes(c) == Connects(c) \/ Shakes(c) \/ register(c) \/ Serves(c) \/ unregister(c) \/ markOffline(c)

LEMMA OneGoes ==
    ASSUME BusTypeOK, [Next]_vars, ~Restart
    PROVE  UNCHANGED conn \/ \E c \in Conns : Alone(c) /\ Goes(c)
<1> USE DEF busVars, tables, server, clients, counters
<1>1. conn \in [Conns -> Goroutines]
  BY DEF BusTypeOK
<1>2. ASSUME NEW c \in Conns, Goes(c)
      PROVE  Alone(c)
  <2>1. CASE Closed(c)
    BY <2>1, ClosedMoves
  <2>2. ASSUME NEW pc \in Steps, Goto(c, pc)
        PROVE  Alone(c)
    BY <2>2, GotoMoves
  <2>3. CASE Connects(c)
    BY <1>1, <2>3 DEF Connects, Run, DialUi, Alone
  <2>4. CASE lookupSecret(c)
    BY <1>1, <2>1, <2>4 DEF lookupSecret, Alone
  <2>5. CASE lookupToken(c)
    BY <1>1, <2>1, <2>2, <2>5 DEF lookupToken, Alone, Steps
  <2>6. CASE insertNode(c) \/ reissueSecret(c) \/ endOfRead(c)
    BY <1>1, <2>6 DEF insertNode, reissueSecret, endOfRead, Alone
  <2>7. CASE markOnline(c) \/ useToken(c) \/ saveNode(c) \/ answer(c) \/ register(c) \/ setDeliver(c)
    BY <2>2, <2>7 DEF markOnline, useToken, saveNode, answer, register, setDeliver, Steps
  <2>8. CASE MarkFailed(c)
    BY <1>1, <2>8 DEF MarkFailed, Goto, Alone
  <2>9. CASE unregister(c)
    BY <2>1, <2>2, <2>9 DEF unregister, Steps
  <2> QED
    BY <1>2, <2>1, <2>3, <2>4, <2>5, <2>6, <2>7, <2>8, <2>9
    DEF Goes, Shakes, Serves, expireToken, markOffline
<1>3. CASE \/ \E t \in Tokens : GenerateToken(t)
           \/ \E p \in Procs, t \in Tokens : InstallScript(p, t)
           \/ \E p \in Procs : runStart(p) \/ Shutdown(p)
           \/ \E c \in Conns : Lose(c) \/ \E s \in Sids : UiSends(c, s)
           \/ \E s \in Sids : CreateStep(s) \/ \E n \in Nodes : CreateRequest(s, n)
           \/ \E n \in Nodes : \/ RemoveNode(n) \/ deleteNode(n) \/ StopNode(n)
                               \/ \E p \in Procs : StartNode(n, p)
           \/ CleanStaleDBSessions
           \/ cleanStaleSessions /\ UNCHANGED <<tables, server, clients, counters, astray>>
           \/ UNCHANGED vars
  BY <1>3 DEF GenerateToken, InstallScript, runStart, Shutdown, Lose, UiSends, CreateStep,
       createOnBus, insertSession, deliverCreate, CreateRequest, RemoveNode, deleteNode, StopNode,
       StartNode, CleanStaleDBSessions, vars
<1>4. ASSUME NEW c \in Conns, HandleWS(c)
      PROVE  UNCHANGED conn \/ Goes(c)
  BY <1>4 DEF HandleWS, Goes, Shakes, Serves, hello, handleSessionJoin, MarkRunning, inviteRuntimes,
       handleSessionCreate, forwardCreate
<1>5. ASSUME NEW c \in Conns, Connects(c)
      PROVE  Goes(c)
  BY <1>5 DEF Goes
<1> QED
  BY <1>2, <1>3, <1>4, <1>5 DEF Next, Connects

\* How a goroutine that serves an address goes on.
LEMMA ServesStep ==
    ASSUME BusTypeOK, NEW c \in Conns, Serves(c)
    PROVE  /\ conn[c].pc \in {"deliver", "serve", "fail"} /\ conn'[c].pc \in {"serve", "fail", "unregister"}
           /\ conn'[c].addr = conn[c].addr
           /\ conn[c].pc = "serve" => /\ endOfRead(c)
                                      /\ IsRuntime(c) => /\ conn'[c].pc = "fail"
                                                         /\ conn'[c].todo = GetEndpointSessions(conn[c].addr)
           /\ conn[c].pc = "fail" => \/ conn[c].todo = {}
                                     \/ \E s \in conn[c].todo :
                                          /\ conn'[c].pc = "fail" /\ conn'[c].todo = conn[c].todo \ {s}
                                          /\ row'[s].status # "running"
<1>1. conn \in [Conns -> Goroutines] /\ conn[c] \in Goroutines /\ row \in [Sids -> SessionRows]
  BY DEF BusTypeOK
<1>2. CASE setDeliver(c)
  <2>1. conn[c].pc = "deliver" /\ conn'[c].pc = "serve" /\ conn'[c].addr = conn[c].addr
    BY <1>2, GotoMoves DEF setDeliver, Steps, At
  <2> QED
    BY <2>1
<1>3. CASE endOfRead(c)
  <2>1. conn'[c] = IF IsRuntime(c)
                   THEN [conn[c] EXCEPT !.pc = "fail", !.todo = GetEndpointSessions(conn[c].addr)]
                   ELSE [conn[c] EXCEPT !.pc = "unregister"]
    BY <1>1, <1>3 DEF endOfRead
  <2>2. conn[c].pc = "serve"
    BY <1>3 DEF endOfRead, At
  <2> QED
    BY <1>1, <1>3, <2>1, <2>2 DEF Goroutines
<1>4. CASE MarkFailed(c)
  <2>1. conn[c].pc = "fail"
    BY <1>4 DEF MarkFailed, At
  <2>2. CASE conn[c].todo = {} /\ Goto(c, "unregister")
    BY <2>1, <2>2, GotoMoves DEF Steps
  <2>3. ASSUME NEW s \in conn[c].todo,
               row' = IF row[s].status = "none" THEN row ELSE [row EXCEPT ![s].status = "failed"],
               conn' = [conn EXCEPT ![c].todo = @ \ {s}]
        PROVE  /\ conn'[c].pc = "fail" /\ conn'[c].todo = conn[c].todo \ {s}
               /\ conn'[c].addr = conn[c].addr
               /\ row'[s].status # "running"
    <3>1. s \in Sids /\ conn'[c] = [conn[c] EXCEPT !.todo = conn[c].todo \ {s}]
      BY <1>1, <2>3 DEF Goroutines
    <3>2. row[s] \in SessionRows /\ [row[s] EXCEPT !.status = "failed"].status = "failed"
      BY <1>1, <3>1 DEF SessionRows
    <3> QED
      BY <1>1, <2>1, <2>3, <3>1, <3>2 DEF Goroutines
  <2>4. \/ conn[c].todo = {} /\ Goto(c, "unregister")
        \/ \E s \in conn[c].todo :
             /\ conn'[c].pc = "fail" /\ conn'[c].todo = conn[c].todo \ {s}
             /\ conn'[c].addr = conn[c].addr
             /\ row'[s].status # "running"
    BY <1>4, <2>3 DEF MarkFailed
  <2> QED
    BY <2>1, <2>2, <2>4
<1> QED
  BY <1>2, <1>3, <1>4 DEF Serves

\* The other steps of a goroutine: it serves only after register; the node that it finds or
\* makes exists.
LEMMA GoesStep ==
    ASSUME BusTypeOK, Handshake, NEW c \in Conns, Goes(c), ~Serves(c)
    PROVE  /\ conn[c].pc \notin {"deliver", "serve", "fail"}
           /\ conn'[c].pc \in Serving => /\ register(c) /\ conn'[c].pc = "deliver"
                                         /\ conn'[c].addr = conn[c].addr
           /\ \/ conn'[c].addr = conn[c].addr
              \/ conn'[c].addr \notin Nodes
              \/ node'[conn'[c].addr].status # "none"
<1> USE DEF busVars, tables
<1> DEFINE Step == /\ conn[c].pc \notin {"deliver", "serve", "fail"}
                   /\ conn'[c].pc \in Serving => /\ register(c) /\ conn'[c].pc = "deliver"
                                                 /\ conn'[c].addr = conn[c].addr
                   /\ \/ conn'[c].addr = conn[c].addr
                      \/ conn'[c].addr \notin Nodes
                      \/ node'[conn'[c].addr].status # "none"
<1> SUFFICES Step
  OBVIOUS
<1>1. conn \in [Conns -> Goroutines] /\ conn[c] \in Goroutines /\ node \in [Nodes -> NodeRows]
      /\ NoNode \notin Nodes
  BY NodesAssumption DEF BusTypeOK, Addrs
<1>2. CASE conn[c].pc \notin {"deliver", "serve", "fail"} /\ Closed(c)
  <2>1. conn'[c].pc = "free" /\ conn'[c].addr \notin Nodes
    BY <1>1, <1>2, ClosedMoves DEF Idle
  <2> QED
    BY <1>2, <2>1 DEF Serving
<1>3. ASSUME NEW pc \in Steps \ Serving, conn[c].pc \notin {"deliver", "serve", "fail"}, Goto(c, pc)
      PROVE  Step
  BY <1>3, GotoMoves
<1>4. ASSUME NEW n \in Nodes, NEW pc \in {"online", "reissue"},
             conn' = [conn EXCEPT ![c].addr = n, ![c].pc = pc],
             node'[n].status # "none", conn[c].pc = "lookup"
      PROVE  Step
  <2>1. conn'[c] = [conn[c] EXCEPT !.addr = n, !.pc = pc]
    BY <1>1, <1>4
  <2>2. conn'[c].pc = pc /\ conn'[c].addr = n
    BY <1>1, <2>1 DEF Goroutines
  <2> QED
    BY <1>4, <2>2 DEF Serving
<1>5. ASSUME NEW p \in Procs, Run(p, c)
      PROVE  Step
  <2>1. conn'[c] = [Idle EXCEPT !.pc = "lookup", !.proc = p, !.secret = proc[p].secret,
                  !.token = IF proc[p].secret = 0 THEN proc[p].token ELSE NoToken]
    BY <1>1, <1>5 DEF Run
  <2>2. conn'[c].pc = "lookup" /\ conn'[c].addr = NoNode
    BY <2>1 DEF Idle
  <2> QED
    BY <1>1, <1>5, <2>2 DEF Run, At, Serving
<1>6. ASSUME NEW u \in Uis, DialUi(c, u)
      PROVE  Step
  <2>1. conn'[c] = [Idle EXCEPT !.pc = "register", !.addr = u]
    BY <1>1, <1>6 DEF DialUi
  <2>2. conn'[c].pc = "register" /\ conn'[c].addr = u /\ u \notin Nodes
    BY <2>1, BusAssumption DEF Idle
  <2> QED
    BY <1>6, <2>2 DEF DialUi, At, Serving
<1>7. CASE lookupSecret(c)
  <2>1. conn[c].pc = "lookup" /\ UNCHANGED node
    BY <1>7 DEF lookupSecret, At
  <2>2. \/ \E n \in Nodes : /\ node[n].status # "none"
                            /\ conn' = [conn EXCEPT ![c].addr = n, ![c].pc = "online"]
        \/ Closed(c)
    BY <1>7 DEF lookupSecret, Exists
  <2> QED
    BY <1>2, <1>4, <2>1, <2>2
<1>8. CASE lookupToken(c)
  <2>1. conn[c].pc = "lookup" /\ UNCHANGED node
    BY <1>8 DEF lookupToken, At
  <2>2. \/ \E n : /\ n # NoNode /\ n = token[conn[c].token].node /\ node[n].status = "offline"
                  /\ conn' = [conn EXCEPT ![c].addr = n, ![c].pc = "reissue"]
        \/ \E pc \in {"use", "expire"} : Goto(c, pc)
        \/ Closed(c)
    BY <1>8 DEF lookupToken
  <2>3. token[conn[c].token].node \in Nodes \cup {NoNode}
    BY <1>8, <2>1 DEF lookupToken, BusTypeOK, Handshake, Known, At, TokenRows
  <2> QED
    BY <1>2, <1>3, <1>4, <2>1, <2>2, <2>3 DEF Steps, Serving
<1>9. CASE insertNode(c)
  <2>1. PICK n \in Nodes :
          /\ node' = [node EXCEPT ![n] = [status |-> "online", secret |-> secrets + 1]]
          /\ conn' = [conn EXCEPT ![c].pc = "save", ![c].addr = n, ![c].secret = secrets + 1]
    BY <1>9 DEF insertNode
  <2>2. conn'[c] = [conn[c] EXCEPT !.pc = "save", !.addr = n, !.secret = secrets + 1]
    BY <1>1, <2>1
  <2>3. conn'[c].pc = "save" /\ conn'[c].addr = n /\ node'[n].status = "online"
    BY <1>1, <2>1, <2>2 DEF Goroutines
  <2> QED
    BY <1>9, <2>3 DEF insertNode, At, Serving
<1>10. CASE reissueSecret(c)
  <2>1. conn'[c] = [conn[c] EXCEPT !.pc = "answer", !.secret = secrets + 1]
    BY <1>1, <1>10 DEF reissueSecret
  <2>2. conn'[c].pc = "answer" /\ conn'[c].addr = conn[c].addr
    BY <1>1, <2>1 DEF Goroutines
  <2> QED
    BY <1>10, <2>2 DEF reissueSecret, At, Serving
<1>11. CASE markOnline(c) \/ useToken(c) \/ saveNode(c) \/ answer(c)
  BY <1>3, <1>11 DEF markOnline, useToken, saveNode, answer, At, Steps, Serving
<1>12. CASE expireToken(c) \/ markOffline(c)
  BY <1>2, <1>12 DEF expireToken, markOffline, At
<1>13. CASE register(c)
  <2>1. conn'[c].pc = "deliver" /\ conn'[c].addr = conn[c].addr
    BY <1>13, GotoMoves DEF register, Steps
  <2> QED
    BY <1>13, <2>1 DEF register, At
<1>14. CASE unregister(c)
  BY <1>2, <1>3, <1>14 DEF unregister, At, Steps, Serving
<1> HIDE DEF Step
<1> QED
  BY <1>5, <1>6, <1>7, <1>8, <1>9, <1>10, <1>11, <1>12, <1>13, <1>14 DEF Goes, Connects, Shakes

\* The connection of an endpoint changes only when one of its address registers or unregisters.
LEMMA EndpointStep ==
    ASSUME BusTypeOK, [Next]_vars, ~Restart, NEW n \in Nodes
    PROVE  \/ endpoints'[n].conn = endpoints[n].conn
           \/ RemoveNode(n)
           \/ \E c \in Conns : (register(c) \/ unregister(c)) /\ conn[c].addr = n
<1> USE DEF busVars, tables, server, clients, counters
<1> DEFINE Step == \/ endpoints'[n].conn = endpoints[n].conn
                   \/ RemoveNode(n)
                   \/ \E c \in Conns : (register(c) \/ unregister(c)) /\ conn[c].addr = n
<1> SUFFICES Step
  OBVIOUS
<1>1. endpoints \in [Addrs -> Endpoints] /\ n \in Addrs /\ Nodes \subseteq Addrs
  BY DEF BusTypeOK, Addrs
<1>2. CASE UNCHANGED endpoints
  BY <1>2
<1>3. ASSUME NEW c \in Conns, register(c) \/ unregister(c)
      PROVE  Step
  <2>1. CASE conn[c].addr = n
    BY <1>3, <2>1
  <2>2. CASE conn[c].addr # n
    BY <1>1, <1>3, <2>2 DEF register, unregister, Register, Unregister
  <2> QED
    BY <2>1, <2>2
<1>4. ASSUME NEW c \in Conns, setDeliver(c) \/ hello(c)
      PROVE  Step
  <2>1. \A a \in Addrs : /\ [endpoints[a] EXCEPT !.deliver = TRUE].conn = endpoints[a].conn
                         /\ [endpoints[a] EXCEPT !.capable = TRUE].conn = endpoints[a].conn
    BY <1>1, EndpointKeeps
  <2> QED
    BY <1>1, <1>4, <2>1 DEF setDeliver, hello, SetEndpointDeliver
<1>5. ASSUME NEW m \in Nodes, RemoveNode(m)
      PROVE  Step
  BY <1>1, <1>5 DEF RemoveNode, Unregister
<1>6. ASSUME NEW c \in Conns, HandleWS(c)
      PROVE  Step
  <2>1. CASE \/ lookupSecret(c) \/ markOnline(c) \/ lookupToken(c) \/ expireToken(c) \/ useToken(c)
             \/ insertNode(c) \/ saveNode(c) \/ reissueSecret(c) \/ answer(c)
             \/ endOfRead(c) \/ MarkFailed(c) \/ markOffline(c)
             \/ handleSessionJoin(c) \/ MarkRunning(c) \/ inviteRuntimes(c)
             \/ handleSessionCreate(c) \/ forwardCreate(c)
    <3>1. UNCHANGED endpoints
      BY <2>1 DEF lookupSecret, markOnline, lookupToken, expireToken, useToken, insertNode, saveNode,
         reissueSecret, answer, endOfRead, MarkFailed, markOffline, handleSessionJoin, MarkRunning,
         inviteRuntimes, handleSessionCreate, forwardCreate, JoinSession, CreateSession
    <3> QED
      BY <1>2, <3>1
  <2> QED
    BY <1>3, <1>4, <1>6, <2>1 DEF HandleWS
<1>7. CASE \/ \E t \in Tokens : GenerateToken(t)
           \/ \E p \in Procs, t \in Tokens : InstallScript(p, t)
           \/ \E p \in Procs : runStart(p) \/ Shutdown(p) \/ \E c \in Conns : Run(p, c)
           \/ \E c \in Conns : \/ Lose(c)
                               \/ \E u \in Uis : DialUi(c, u)
                               \/ \E s \in Sids : UiSends(c, s)
           \/ \E s \in Sids : CreateStep(s) \/ \E m \in Nodes : CreateRequest(s, m)
           \/ \E m \in Nodes : deleteNode(m) \/ StopNode(m) \/ \E p \in Procs : StartNode(m, p)
           \/ CleanStaleDBSessions
           \/ cleanStaleSessions /\ UNCHANGED <<tables, server, clients, counters, astray>>
           \/ UNCHANGED vars
  BY <1>2, <1>7 DEF GenerateToken, InstallScript, runStart, Shutdown, Run, Lose, DialUi, UiSends,
       CreateStep, createOnBus, insertSession, deliverCreate, CreateRequest, deleteNode, StopNode,
       StartNode, CreateSession, EndSession, CleanStaleDBSessions, cleanStaleSessions, vars
<1> HIDE DEF Step
<1> QED
  BY <1>5, <1>6, <1>7 DEF Next

-----------------------------------------------------------------------------
(* Each part of the invariant is kept.                                     *)

LEMMA AstrayStep ==
    ASSUME BusTypeOK, [Next]_vars, ~Restart, NEW n \in Nodes
    PROVE  astray[n] \subseteq astray'[n]
<1> USE DEF busVars, tables, server, clients, counters
<1>1. astray \in [Nodes -> SUBSET {"overlap", "removal", "restart"}]
  BY DEF BusTypeOK
<1>2. CASE UNCHANGED astray
  BY <1>2
<1>3. CASE \/ \E c \in Conns : register(c) \/ unregister(c)
           \/ \E m \in Nodes : RemoveNode(m)
  BY <1>1, <1>3 DEF register, unregister, Overlaps, RemoveNode
<1>4. ASSUME NEW c \in Conns, HandleWS(c)
      PROVE  astray[n] \subseteq astray'[n]
  <2>1. UNCHANGED astray \/ register(c) \/ unregister(c)
    BY <1>4 DEF HandleWS, lookupSecret, markOnline, lookupToken, expireToken, useToken, insertNode,
       saveNode, reissueSecret, answer, setDeliver, endOfRead, MarkFailed, markOffline, hello,
       handleSessionJoin, MarkRunning, inviteRuntimes, handleSessionCreate, forwardCreate
  <2> QED
    BY <1>2, <1>3, <2>1
<1>5. CASE \/ \E t \in Tokens : GenerateToken(t)
           \/ \E p \in Procs, t \in Tokens : InstallScript(p, t)
           \/ \E p \in Procs : runStart(p) \/ Shutdown(p) \/ \E c \in Conns : Run(p, c)
           \/ \E c \in Conns : \/ Lose(c)
                               \/ \E u \in Uis : DialUi(c, u)
                               \/ \E s \in Sids : UiSends(c, s)
           \/ \E s \in Sids : CreateStep(s) \/ \E m \in Nodes : CreateRequest(s, m)
           \/ \E m \in Nodes : deleteNode(m) \/ StopNode(m) \/ \E p \in Procs : StartNode(m, p)
           \/ CleanStaleDBSessions
           \/ cleanStaleSessions /\ UNCHANGED <<tables, server, clients, counters, astray>>
           \/ UNCHANGED vars
  BY <1>2, <1>5 DEF GenerateToken, InstallScript, runStart, Shutdown, Run, Lose, DialUi, UiSends,
       CreateStep, createOnBus, insertSession, deliverCreate, CreateRequest, deleteNode, StopNode,
       StartNode, CleanStaleDBSessions, vars
<1> QED
  BY <1>3, <1>4, <1>5 DEF Next

\* While nothing goes astray: no node is removed, and an endpoint that is registered or
\* unregistered is of no other connection.
LEMMA StraightStep ==
    ASSUME BusTypeOK, [Next]_vars, ~Restart, Straight'
    PROVE  /\ Straight
           /\ \A n \in Nodes : ~RemoveNode(n)
           /\ \A c \in Conns : \A n \in Nodes :
                (register(c) \/ unregister(c)) /\ conn[c].addr = n => endpoints[n].conn \in {NoConn, c}
<1>1. Straight
  BY AstrayStep DEF Straight
<1>2. ASSUME NEW n \in Nodes, RemoveNode(n)
      PROVE  FALSE
  <2>1. "removal" \in astray'[n]
    BY <1>2 DEF RemoveNode, BusTypeOK
  <2> QED
    BY <2>1 DEF Straight
<1>3. ASSUME NEW c \in Conns, NEW n \in Nodes, register(c) \/ unregister(c), conn[c].addr = n,
             endpoints[n].conn \notin {NoConn, c}
      PROVE  FALSE
  <2>1. "overlap" \in astray'[n]
    BY <1>3 DEF register, unregister, Overlaps
  <2> QED
    BY <2>1 DEF Straight
<1> QED
  BY <1>1, <1>2, <1>3

\* A row of nodes goes only when its node is being removed.
LEMMA NodeStays ==
    ASSUME BusTypeOK, [Next]_vars, NEW n \in Nodes, n \notin removing, Exists(n)
    PROVE  node'[n].status # "none"
<1> USE DEF busVars, tables, server, clients, counters, Exists
<1>1. node \in [Nodes -> NodeRows] /\ \A m \in Nodes : node[m] \in NodeRows
  BY DEF BusTypeOK
<1>2. CASE UNCHANGED node
  BY <1>2
<1>3. ASSUME NEW a, NEW status \in {"online", "offline"}, SetStatus(a, status)
      PROVE  node'[n].status # "none"
  <2>1. [node[n] EXCEPT !.status = status].status = status
    BY <1>1 DEF NodeRows
  <2> QED
    BY <1>1, <1>3, <2>1 DEF SetStatus
<1>4. ASSUME NEW c \in Conns, HandleWS(c)
      PROVE  node'[n].status # "none"
  <2>1. \/ UNCHANGED node \/ markOnline(c) \/ markOffline(c) \/ insertNode(c) \/ reissueSecret(c)
    BY <1>4 DEF HandleWS, lookupSecret, lookupToken, expireToken, useToken,
       saveNode, answer, register, setDeliver, endOfRead, MarkFailed, unregister, hello,
       handleSessionJoin, MarkRunning, inviteRuntimes, handleSessionCreate, forwardCreate
  <2>2. ASSUME NEW m, node' = [node EXCEPT ![m] = [status |-> "online", secret |-> secrets + 1]]
        PROVE  node'[n].status # "none"
    BY <1>1, <2>2
  <2> QED
    BY <1>2, <1>3, <2>1, <2>2 DEF markOnline, markOffline, insertNode, reissueSecret
<1>5. ASSUME NEW m \in Nodes, deleteNode(m) \/ \E p \in Procs : StartNode(m, p)
      PROVE  node'[n].status # "none"
  <2>1. [node[n] EXCEPT !.secret = secrets + 1].status = node[n].status
    BY <1>1 DEF NodeRows
  <2>2. CASE deleteNode(m)
    BY <1>1, <2>2 DEF deleteNode
  <2>3. CASE \E p \in Procs : StartNode(m, p)
    <3>1. node' = [node EXCEPT ![m].secret = secrets + 1]
      BY <2>3 DEF StartNode
    <3> QED
      BY <1>1, <2>1, <3>1
  <2> QED
    BY <1>5, <2>2, <2>3
<1>6. CASE \/ \E t \in Tokens : GenerateToken(t)
           \/ \E p \in Procs, t \in Tokens : InstallScript(p, t)
           \/ \E p \in Procs : runStart(p) \/ Shutdown(p) \/ \E c \in Conns : Run(p, c)
           \/ \E c \in Conns : \/ Lose(c)
                               \/ \E u \in Uis : DialUi(c, u)
                               \/ \E s \in Sids : UiSends(c, s)
           \/ \E s \in Sids : CreateStep(s) \/ \E m \in Nodes : CreateRequest(s, m)
           \/ \E m \in Nodes : RemoveNode(m) \/ StopNode(m)
           \/ CleanStaleDBSessions
           \/ cleanStaleSessions /\ UNCHANGED <<tables, server, clients, counters, astray>>
           \/ Restart \/ UNCHANGED vars
  BY <1>2, <1>6 DEF GenerateToken, InstallScript, runStart, Shutdown, Run, Lose, DialUi, UiSends,
       CreateStep, createOnBus, insertSession, deliverCreate, CreateRequest, RemoveNode, StopNode,
       CleanStaleDBSessions, Restart, vars
<1> QED
  BY <1>4, <1>5, <1>6 DEF Next

LEMMA RemovingStep ==
    ASSUME [Next]_vars, \A n \in Nodes : ~RemoveNode(n), removing = {}
    PROVE  removing' = {}
<1> USE DEF busVars, tables, server, clients, counters
<1>1. ASSUME NEW c \in Conns, HandleWS(c)
      PROVE  UNCHANGED removing
  BY <1>1 DEF HandleWS, lookupSecret, markOnline, lookupToken, expireToken, useToken, insertNode,
       saveNode, reissueSecret, answer, register, setDeliver, endOfRead, MarkFailed, unregister,
       markOffline, hello, handleSessionJoin, MarkRunning, inviteRuntimes, handleSessionCreate,
       forwardCreate
<1>2. CASE \/ \E t \in Tokens : GenerateToken(t)
           \/ \E p \in Procs, t \in Tokens : InstallScript(p, t)
           \/ \E p \in Procs : runStart(p) \/ Shutdown(p) \/ \E c \in Conns : Run(p, c)
           \/ \E c \in Conns : \/ Lose(c)
                               \/ \E u \in Uis : DialUi(c, u)
                               \/ \E s \in Sids : UiSends(c, s)
           \/ \E s \in Sids : CreateStep(s) \/ \E m \in Nodes : CreateRequest(s, m)
           \/ \E m \in Nodes : deleteNode(m) \/ StopNode(m) \/ \E p \in Procs : StartNode(m, p)
           \/ CleanStaleDBSessions
           \/ cleanStaleSessions /\ UNCHANGED <<tables, server, clients, counters, astray>>
           \/ Restart \/ UNCHANGED vars
  BY <1>2 DEF GenerateToken, InstallScript, runStart, Shutdown, Run, Lose, DialUi, UiSends,
       CreateStep, createOnBus, insertSession, deliverCreate, CreateRequest, deleteNode, StopNode,
       StartNode, CleanStaleDBSessions, Restart, vars
<1> QED
  BY <1>1, <1>2 DEF Next

LEMMA RequestedStep ==
    ASSUME BusTypeOK, Requested, [Next]_vars
    PROVE  Requested'
<1> USE DEF Requested
<1>1. UiSids \subseteq Sids
  BY NodesAssumption
<1>2. CASE Restart
  <2>1. /\ \A s \in Sids : creating'[s] = NoRequest
        /\ \A c \in Conns : inbox'[c] = <<>>
        /\ \A s \in Sids : row[s].status = "none" => row'[s] = row[s]
    BY <1>2 DEF Restart, Migrate, Active
  <2>2. \A c \in Conns : Contents(inbox'[c]) = {}
    BY <2>1 DEF Contents
  <2> QED
    BY <1>1, <2>1, <2>2 DEF Foreign, Creates, Wanted, NoRequest
<1>3. CASE ~Restart
  <2>1. Foreign'
    BY <1>1, <1>3, RowStep, CreatingStep DEF Foreign, RowMoves, RequestMoves, NoRequest
  <2>2. Creates'
    BY MailStep DEF Creates, NewMail
  <2>3. ASSUME NEW s \in Sids
        PROVE  /\ creating'[s].step = "bus" => row'[s].status = "none"
               /\ creating'[s].step = "deliver" => row'[s].status # "none"
    BY <1>3, RowStep, CreatingStep DEF Wanted, RowMoves, RequestMoves, NoRequest
  <2> QED
    BY <2>1, <2>2, <2>3 DEF Wanted
<1> QED
  BY <1>2, <1>3

LEMMA OwnStep ==
    ASSUME BusTypeOK, Handshake, Own, [Next]_vars, ~Restart, Straight'
    PROVE  Own'
<1> SUFFICES ASSUME NEW c \in Conns, NEW n \in Nodes, conn'[c].addr = n, conn'[c].pc \in Serving
             PROVE  endpoints'[n].conn = c
  BY DEF Own
<1>1. /\ endpoints \in [Addrs -> Endpoints] /\ n \in Addrs /\ NoConn # c
      /\ conn \in [Conns -> Goroutines]
  BY BusAssumption DEF BusTypeOK, Addrs
<1>2. CASE register(c) /\ conn[c].addr = n
  <2>1. endpoints'[n] = [NoEndpoint EXCEPT !.conn = c]
    BY <1>1, <1>2 DEF register, Register
  <2> QED
    BY <2>1 DEF NoEndpoint
<1>3. CASE conn[c].addr = n /\ conn[c].pc \in Serving
  <2>1. endpoints[n].conn = c
    BY <1>3 DEF Own
  <2>2. ASSUME NEW d \in Conns, register(d) \/ unregister(d), conn[d].addr = n
        PROVE  FALSE
    <3>1. d = c
      BY <1>1, <2>1, <2>2, StraightStep
    <3>2. unregister(c) /\ IsRuntime(c)
      BY <1>3, <2>2, <3>1 DEF register, At, Serving, IsRuntime
    <3>3. conn'[c].pc = "offline"
      BY <3>2, GotoMoves DEF unregister, Steps
    <3> QED
      BY <3>3 DEF Serving
  <2> QED
    BY <2>1, <2>2, EndpointStep, StraightStep
<1>4. CASE UNCHANGED conn
  BY <1>3, <1>4
<1>5. ASSUME NEW d \in Conns, Alone(d), Goes(d)
      PROVE  endpoints'[n].conn = c
  <2>1. CASE d # c
    <3>1. conn'[c] = conn[c]
      BY <1>5, <2>1 DEF Alone
    <3> QED
      BY <1>3, <3>1
  <2>2. CASE d = c /\ Serves(c)
    BY <1>3, <2>2, ServesStep DEF Serving
  <2>3. CASE d = c /\ ~Serves(c)
    BY <1>2, <1>5, <2>3, GoesStep
  <2> QED
    BY <2>1, <2>2, <2>3
<1> QED
  BY <1>4, <1>5, OneGoes

LEMMA KeptStep ==
    ASSUME BusTypeOK, Handshake, Owned, Kept, [Next]_vars, ~Restart, Straight'
    PROVE  Kept'
<1>1. removing' = {}
  BY StraightStep, RemovingStep DEF Kept
<1>2. \A n \in Nodes : Exists(n) => node'[n].status # "none"
  BY NodeStays DEF Kept
<1>3. ASSUME NEW s \in Sids, creating'[s].step # "idle"
      PROVE  creating'[s].node \in Nodes /\ node'[creating'[s].node].status # "none"
  <2>1. PICK n : n = creating'[s].node
    OBVIOUS
  <2>2. CASE creating[s].step # "idle" /\ creating[s].node = n
    BY <1>2, <2>1, <2>2 DEF Kept
  <2>3. CASE creating'[s].node \in Nodes /\ Registered(creating'[s].node)
    <3>1. n \in Nodes /\ Registered(n) /\ n \in Addrs
      BY <2>1, <2>3 DEF Addrs
    <3>2. endpoints[n].conn \in Conns /\ conn[endpoints[n].conn].addr = n
      BY <3>1 DEF Owned, Owner
    <3>3. Exists(n)
      BY <3>1, <3>2 DEF Kept
    <3> QED
      BY <1>2, <2>1, <3>1, <3>3
  <2> QED
    BY <1>3, <2>1, <2>2, <2>3, CreatingStep DEF RequestMoves, NoRequest
<1>4. ASSUME NEW c \in Conns, NEW n \in Nodes, conn'[c].addr = n
      PROVE  node'[n].status # "none"
  <2>1. CASE conn[c].addr = n
    BY <1>2, <2>1 DEF Kept
  <2>2. ASSUME NEW d \in Conns, Alone(d), Goes(d)
        PROVE  node'[n].status # "none"
    <3>1. CASE d # c
      <4>1. conn'[c] = conn[c]
        BY <2>2, <3>1 DEF Alone
      <4> QED
        BY <1>4, <2>1, <4>1
    <3>2. CASE d = c /\ Serves(c)
      BY <1>4, <2>1, <3>2, ServesStep
    <3>3. CASE d = c /\ ~Serves(c)
      BY <1>4, <2>1, <2>2, <3>3, GoesStep
    <3> QED
      BY <3>1, <3>2, <3>3
  <2>3. CASE UNCHANGED conn
    BY <1>4, <2>1, <2>3
  <2> QED
    BY <2>2, <2>3, OneGoes
<1> QED
  BY <1>1, <1>3, <1>4 DEF Kept, Exists

LEMMA UnbornStep ==
    ASSUME BusTypeOK, Requested, Kept, Unborn, [Next]_vars, ~Restart
    PROVE  Unborn'
<1> SUFFICES ASSUME NEW s \in Sids \ UiSids,
                    row'[s].status = "none", creating'[s].step \in {"idle", "bus"}
             PROVE  members'[s] = {} /\ \A c \in Conns : \A m \in Contents(inbox'[c]) :
                                           m = Hello \/ m.session # s
  BY DEF Unborn, About
<1>1. row[s].status = "none" /\ creating[s].step # "deliver"
  BY RowStep DEF RowMoves, Requested, Wanted
<1>2. creating[s].step \in {"idle", "bus"}
  BY <1>1, CreatingStep DEF RequestMoves, Kept, NoRequest
<1>3. members[s] = {} /\ \A c \in Conns : ~About(s, c)
  BY <1>1, <1>2 DEF Unborn
<1>4. members'[s] = {}
  BY <1>3, MembersStep DEF Requested
<1>5. ASSUME NEW c \in Conns, NEW m \in Contents(inbox'[c]), m # Hello, m.session = s
      PROVE  FALSE
  BY <1>1, <1>3, <1>5, MailStep DEF Requested, NewMail, HasSession, About
<1> QED
  BY <1>4, <1>5

\* A runtime that serves a session, or has yet to fail its sessions, stays a member.
LEMMA MemberStays ==
    ASSUME BusTypeOK, Requested, Own, Kept, [Next]_vars, ~Restart, Straight',
           NEW s \in Sids \ UiSids, creating[s].step # "bus",
           NEW c \in Conns, conn[c].pc \in {"serve", "fail"}, conn[c].addr \in Nodes \cap members[s]
    PROVE  conn[c].addr \in members'[s]
<1>1. PICK n \in Nodes \cap members[s] : n = conn[c].addr
  OBVIOUS
<1>2. endpoints[n].conn = c /\ NoConn # c
  BY <1>1, BusAssumption DEF Own, Serving
<1>3. ASSUME NEW d \in Conns, unregister(d), conn[d].addr = n
      PROVE  FALSE
  <2>1. d = c
    BY <1>1, <1>2, <1>3, StraightStep
  <2> QED
    BY <1>3, <2>1 DEF unregister, At
<1>4. ~Leaves(s, n)
  BY <1>1, <1>3, StraightStep DEF Leaves, Kept
<1> QED
  BY <1>1, <1>4, MembersStep DEF Requested

LEMMA AnsweredStep ==
    ASSUME BusTypeOK, Handshake, BusTypeOK', Requested, Own, Kept, Unborn, Answered,
           [Next]_vars, ~Restart, Straight'
    PROVE  Answered'
<1> SUFFICES ASSUME NEW c \in Conns, NEW m \in Contents(inbox'[c]), m # Hello,
                    m.type = "running", m.session \notin UiSids
             PROVE  /\ conn'[c].pc = "serve"
                    /\ conn'[c].addr \in Nodes \cap members'[m.session]
  BY DEF Answered, At
<1>1. m.session \in Sids /\ members \in [Sids -> SUBSET (Addrs \cup {Api})]
  <2>1. inbox'[c] \in Seq(AllMessages)
    BY DEF BusTypeOK, AllMessages
  <2>2. m \in AllMessages
    BY <2>1, ElementOfSeq DEF Contents
  <2> QED
    BY <2>2 DEF AllMessages, Messages, BusTypeOK
<1>2. CASE m \in Contents(inbox[c])
  <2>1. conn[c].pc = "serve" /\ conn[c].addr \in Nodes \cap members[m.session]
    BY <1>2 DEF Answered, At
  <2>2. creating[m.session].step # "bus"
    BY <1>1, <2>1 DEF Unborn, Requested, Wanted
  <2>3. conn[c].addr \in members'[m.session]
    BY <1>1, <2>1, <2>2, MemberStays
  <2>4. ASSUME Goes(c)
        PROVE  FALSE
    <3>1. endOfRead(c)
      BY <2>1, <2>4, GoesStep, ServesStep
    <3>2. Contents(inbox'[c]) = {}
      BY <3>1 DEF endOfRead, Contents, BusTypeOK
    <3> QED
      BY <3>2
  <2>5. conn'[c] = conn[c]
    BY <2>4, OneGoes DEF Alone
  <2> QED
    BY <2>1, <2>3, <2>5
<1>3. CASE /\ handleSessionJoin(c) /\ Said(c) = m.session
           /\ IsRuntime(c) /\ HasSession(m.session)
  <2>1. conn'[c] = conn[c] /\ conn[c].pc = "serve"
    BY <1>3 DEF handleSessionJoin, Says, At
  <2>2. members'[m.session] = members[m.session] \cup {conn[c].addr}
    BY <1>1, <1>3 DEF handleSessionJoin, JoinSession
  <2> QED
    BY <1>3, <2>1, <2>2 DEF IsRuntime
<1> QED
  BY <1>2, <1>3, MailStep DEF NewMail, Requested

LEMMA ServedStep ==
    ASSUME BusTypeOK, Handshake, Requested, Own, Kept, Answered, Served,
           [Next]_vars, ~Restart, Straight'
    PROVE  Served'
<1> SUFFICES ASSUME NEW s \in Sids, row'[s].status = "running"
             PROVE  \E c \in Conns : ServedBy(c, s)'
  BY DEF Served
<1>1. /\ row[s].status = "running" \/ (row[s].status = "pending" /\ \E c \in Conns : MarkRunning(c) /\ Said(c) = s)
      /\ s \in Sids \ UiSids /\ creating[s].step # "bus"
  BY RowStep DEF RowMoves, Requested, Foreign, Wanted
<1>2. CASE row[s].status = "running"
  <2>1. PICK c \in Conns : ServedBy(c, s)
    BY <1>2 DEF Served
  <2>2. conn[c].addr \in Nodes \cap members[s] /\ conn[c].pc \in {"serve", "fail"}
        /\ (conn[c].pc = "fail" => s \in conn[c].todo)
    BY <2>1 DEF ServedBy, At
  <2>3. conn[c].addr \in members'[s]
    BY <1>1, <2>2, MemberStays
  <2>4. CASE conn'[c] = conn[c]
    BY <2>2, <2>3, <2>4 DEF ServedBy, At
  <2>5. CASE Goes(c)
    <3>1. Serves(c)
      BY <2>2, <2>5, GoesStep
    <3>2. conn'[c].addr = conn[c].addr
      BY <3>1, ServesStep
    <3>3. conn'[c].pc = "fail" /\ s \in conn'[c].todo
      <4>1. CASE conn[c].pc = "serve"
        BY <2>2, <3>1, <4>1, ServesStep DEF IsRuntime, GetEndpointSessions
      <4>2. CASE conn[c].pc = "fail"
        BY <2>2, <3>1, <4>2, ServesStep
      <4> QED
        BY <2>2, <4>1, <4>2
    <3> QED
      BY <2>2, <2>3, <3>2, <3>3 DEF ServedBy, At
  <2> QED
    BY <2>4, <2>5, OneGoes DEF Alone
<1>3. ASSUME NEW c \in Conns, MarkRunning(c), Said(c) = s
      PROVE  \E d \in Conns : ServedBy(d, s)'
  <2>1. At(c, "serve") /\ conn[c].addr \in Nodes \cap members[s]
    BY <1>1, <1>3, SaidAbout DEF MarkRunning, Answered
  <2>2. UNCHANGED <<conn, members>>
    BY <1>3 DEF MarkRunning, busVars
  <2> QED
    BY <2>1, <2>2 DEF ServedBy, At
<1> QED
  BY <1>1, <1>2, <1>3

\* A server that starts has nothing to attend to: no connection, no member, no request, and
\* no session that runs.
LEMMA AttendedRestart ==
    ASSUME BusTypeOK, Restart
    PROVE  Attended'
<1>1. /\ \A s \in Sids : members'[s] = {} /\ creating'[s] = NoRequest
      /\ \A c \in Conns : inbox'[c] = <<>> /\ conn'[c] = Idle
      /\ removing' = {}
  BY DEF Restart
<1>2. \A c \in Conns : Contents(inbox'[c]) = {}
  BY <1>1 DEF Contents
<1>3. ASSUME NEW s \in Sids
      PROVE  row'[s].status # "running"
  <2>1. row'[s] = (IF Active(s) THEN [row[s] EXCEPT !.status = "failed"] ELSE row[s])
        /\ row[s] \in SessionRows
    BY DEF Restart, Migrate, BusTypeOK
  <2>2. [row[s] EXCEPT !.status = "failed"].status = "failed"
    BY <2>1 DEF SessionRows
  <2> QED
    BY <2>1, <2>2 DEF Active
<1>4. Own' /\ Kept'
  BY <1>1, NodesAssumption DEF Own, Kept, NoRequest, Idle, Serving, Addrs
<1>5. Answered' /\ Unborn'
  BY <1>1, <1>2 DEF Answered, Unborn, About
<1>6. Served'
  BY <1>3 DEF Served
<1> QED
  BY <1>4, <1>5, <1>6 DEF Attended

-----------------------------------------------------------------------------
(* The theorems.                                                           *)

LEMMA Invariant == Spec => []BInv
<1>1. Init => BInv
  <2> SUFFICES ASSUME Init PROVE BInv
    OBVIOUS
  <2>1. BusTypeOK
    <3>1. inbox \in [Conns -> Seq(AllMessages)]
      BY EmptySeq DEF Init
    <3>2. endpoints \in [Addrs -> Endpoints] /\ members \in [Sids -> SUBSET (Addrs \cup {Api})]
      BY IdleType DEF Init, BusInit
    <3>3. /\ [status |-> "none", node |-> NoNode] \in TokenRows \cap SessionRows
          /\ [status |-> "none", secret |-> 0] \in NodeRows
          /\ NoRequest \in [step : {"idle", "bus", "insert", "deliver"}, node : Nodes \cup {NoNode}]
      BY DEF TokenRows, SessionRows, NodeRows, NoRequest
    <3> QED
      BY <3>1, <3>2, <3>3, IdleType DEF Init, BusTypeOK, AllMessages
  <2>2. Handshake
    BY DEF Init, Handshake, Installed, Known, NotInstalled, Idle, At, Unnamed
  <2>3. Owned
    BY DEF Init, BusInit, Owned, Registered
  <2> QED
    BY <2>1, <2>2, <2>3 DEF BInv
<1>2. BInv /\ [Next]_vars => BInv'
  BY TypeStep, InstalledStep, KnownStep, OwnedStep DEF BInv, Handshake
<1> QED
  BY <1>1, <1>2, PTL DEF Spec

\* The tables, the goroutines, the runtimes and the bus keep their types in every
\* interleaving of connections, requests, restarts and losses (HandleWS, bus.go).
THEOREM BusTypeCorrect == Spec => []BusTypeOK
<1>1. BInv => BusTypeOK
  BY DEF BInv
<1> QED
  BY <1>1, Invariant, PTL

\* Every registered endpoint belongs to a connection of its address whose goroutine has
\* still to unregister it, whatever connections of one address overlap (bus.go 97-136,
\* bus_handler.go 253-331).
THEOREM EndpointsAreAlive == Spec => []NoDeadEndpoint
<1>1. BInv => NoDeadEndpoint
  BY DEF BInv, Owned, Owner, NoDeadEndpoint, Serving
<1> QED
  BY <1>1, Invariant, PTL

LEMMA Strengthened == Spec => []SInv
<1>1. Init => Online /\ Requested /\ Attended
  <2> SUFFICES ASSUME Init PROVE Online /\ Requested /\ Attended
    OBVIOUS
  <2>1. /\ \A s \in Sids : members[s] = {} /\ creating[s] = NoRequest /\ row[s].status = "none"
        /\ \A c \in Conns : inbox[c] = <<>> /\ conn[c] = Idle
        /\ \A n \in Nodes : node[n].status = "none"
        /\ removing = {}
    BY DEF Init, BusInit
  <2>2. \A c \in Conns : Contents(inbox[c]) = {}
    BY <2>1 DEF Contents
  <2>3. Online
    BY <2>1 DEF Online
  <2>4. Requested
    BY <2>1, <2>2, NodesAssumption DEF Requested, Foreign, Creates, Wanted, NoRequest
  <2>5. Own /\ Kept
    BY <2>1, NodesAssumption DEF Own, Kept, Idle, Serving, NoRequest, Addrs
  <2>6. Unborn /\ Answered /\ Served
    BY <2>1, <2>2 DEF Unborn, About, Answered, Served
  <2> QED
    BY <2>3, <2>4, <2>5, <2>6 DEF Attended
<1>2. BInv /\ BInv' /\ SInv /\ [Next]_vars => SInv'
  <2> SUFFICES ASSUME BInv, BInv', SInv, [Next]_vars
               PROVE  SInv'
    OBVIOUS
  <2>1. BusTypeOK /\ Handshake /\ Owned /\ BusTypeOK' /\ Online /\ Requested
    BY DEF BInv, SInv
  <2>2. Online' /\ Requested'
    BY <2>1, OnlineStep, RequestedStep
  <2>3. ASSUME Straight'
        PROVE  Attended'
    <3>1. CASE Restart
      BY <2>1, <3>1, AttendedRestart
    <3>2. CASE ~Restart
      <4>1. Straight /\ Attended
        BY <2>1, <2>3, <3>2, StraightStep DEF SInv
      <4> QED
        BY <2>1, <2>3, <3>2, <4>1, OwnStep, KeptStep, UnbornStep, AnsweredStep, ServedStep DEF Attended
    <3> QED
      BY <3>1, <3>2
  <2> QED
    BY <2>2, <2>3 DEF SInv
<1>3. BInv /\ Online /\ Requested /\ Attended => SInv
  BY DEF SInv
<1> QED
  BY <1>1, <1>2, <1>3, Invariant, PTL DEF Spec

\* When no goroutine is between two steps, a node that is listed as online can be reached:
\* HandleWS writes online before it registers, and unregisters before it writes offline.  Only
\* RemoveNode and a restart of the server break it (bus_handler.go 138-141, 253-331).
THEOREM OnlineNodesAreRegistered == Spec => []OnlineIsRegistered
<1>1. SInv => OnlineIsRegistered
  <2> SUFFICES ASSUME SInv, Quiet, NEW n \in Nodes, node[n].status = "online",
                      astray[n] \cap {"removal", "restart"} = {}
               PROVE  Registered(n)
    BY DEF OnlineIsRegistered, List
  <2>1. Backed(n)
    BY DEF SInv, Online
  <2>2. \A c \in Conns : conn[c].pc \notin Backing
    BY DEF Quiet, Backing
  <2> QED
    BY <2>1, <2>2 DEF Backed
<1> QED
  BY <1>1, Strengthened, PTL

\* When no goroutine is between two steps, a session that is running has a member that is a
\* runtime with an endpoint, as long as every endpoint was lost by the end of its own connection
\* since the server was started: what a goroutine reads last, before it fails the sessions of its
\* address, covers every session that its client has been told it joined, and the start of the
\* server fails the sessions of the one before (bus_handler.go 287-318, 417-441; database.go 801-823).
THEOREM RunningSessionsAreServed == Spec => []RunningIsServed
<1>1. SInv => RunningIsServed
  <2> SUFFICES ASSUME SInv, Quiet, Straight, NEW s \in Sids, row[s].status = "running"
               PROVE  \E n \in members[s] \cap Nodes : Registered(n)
    BY DEF RunningIsServed, Straight
  <2>1. Own /\ Served
    BY DEF SInv, Attended
  <2>2. PICK c \in Conns : ServedBy(c, s)
    BY <2>1 DEF Served
  <2>3. conn[c].addr \in Nodes \cap members[s] /\ conn[c].pc = "serve"
    BY <2>2 DEF ServedBy, Quiet, At
  <2>4. endpoints[conn[c].addr].conn = c
    BY <2>1, <2>3 DEF Own, Serving
  <2>5. Registered(conn[c].addr)
    BY <2>4, BusAssumption DEF Registered, NoEndpoint
  <2> QED
    BY <2>3, <2>5
<1> QED
  BY <1>1, Strengthened, PTL

\* A session that has failed is not set running again: MarkRunning writes only over pending,
\* whenever the runtime's answer comes, and a restart writes failed (session_service.go 23-33).
THEOREM FailedStaysFailed == Spec => NeverRunningAgain
<1>1. BInv /\ [Next]_vars => [\A s \in Sids : row[s].status = "failed" => row'[s].status # "running"]_row
  BY RowStep DEF BInv, RowMoves
<1> QED
  BY <1>1, Invariant, PTL DEF Spec, NeverRunningAgain
=============================================================================
