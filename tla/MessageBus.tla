---------------------------- MODULE MessageBus ----------------------------
(***************************************************************************)
(* The message bus: the endpoints that are registered and the members of   *)
(* the sessions, and the operations on them.  One mutex makes each         *)
(* operation a step; what a handler does between two of them is not        *)
(* protected, and is in BusNodes.                                          *)
(*                                                                         *)
(* An endpoint is found by its address.  A connection is what a message    *)
(* to the endpoint is written to, once its delivery function is set.       *)
(***************************************************************************)
EXTENDS Naturals, FiniteSets

CONSTANTS
    Nodes,    \* the ids of nodes, which are also the addresses of runtimes
    Uis,      \* the addresses of user interfaces
    Sids,     \* the ids of sessions
    Conns,    \* the connections made to the server in a behaviour
    NoConn

ASSUME BusAssumption == /\ NoConn \notin Conns
                        /\ Nodes \cap Uis = {}

VARIABLES
    endpoints,  \* endpoints[a]: the entry of address a
    members     \* members[s]: the members of session s; {} when there is none

busVars == <<endpoints, members>>

Addrs == Nodes \cup Uis
Api == "system://api"
ASSUME ApiAssumption == Api \notin Addrs

Endpoints == [conn : Conns \cup {NoConn}, deliver : BOOLEAN, capable : BOOLEAN]
NoEndpoint == [conn |-> NoConn, deliver |-> FALSE, capable |-> FALSE]

Registered(a) == endpoints[a] # NoEndpoint
Reachable(a) == endpoints[a].deliver

BusInit == /\ endpoints = [a \in Addrs |-> NoEndpoint]
           /\ members = [s \in Sids |-> {}]

\* An entry of the same address is overwritten.
Register(a, c) ==
    /\ endpoints' = [endpoints EXCEPT ![a] = [NoEndpoint EXCEPT !.conn = c]]
    /\ UNCHANGED members

SetEndpointDeliver(c) ==
    /\ endpoints' = [a \in Addrs |-> IF endpoints[a].conn = c
                                     THEN [endpoints[a] EXCEPT !.deliver = TRUE]
                                     ELSE endpoints[a]]
    /\ UNCHANGED members

onlySystemMembers(ms) == ms \subseteq {Api}

\* Mutant: the entry is kept, and only cannot deliver any more.
UnregisterMute(a) ==
    /\ endpoints' = [endpoints EXCEPT ![a].deliver = FALSE]
    /\ UNCHANGED members

\* The entry of the address is removed, whichever connection it is of; then every
\* session that is left with no one but the server is deleted, even one the
\* endpoint was not a member of.
Unregister(a) ==
    /\ endpoints' = [endpoints EXCEPT ![a] = NoEndpoint]
    /\ members' = [s \in Sids |->
         LET rest == members[s] \ {a}
         IN  IF Registered(a) /\ onlySystemMembers(rest) THEN {}
             ELSE IF Registered(a) THEN rest ELSE members[s]]

CreateSession(s, ms) == members' = [members EXCEPT ![s] = ms] /\ UNCHANGED endpoints

GetEndpointSessions(a) == {s \in Sids : a \in members[s]}

FindRuntimesForAgent == {n \in Nodes : endpoints[n].capable}
EndpointsByType(type) == {a \in type : Registered(a)}

HasSession(s) == members[s] # {}

JoinSession(s, a) ==
    /\ members' = [members EXCEPT ![s] = IF HasSession(s) THEN @ \cup {a} ELSE {}]
    /\ UNCHANGED endpoints

EndSession(s) == members' = [members EXCEPT ![s] = {}] /\ UNCHANGED endpoints

\* Of the sessions that only the server is a member of, those that are old enough.
cleanStaleSessions ==
    \E old \in SUBSET {s \in Sids : HasSession(s) /\ onlySystemMembers(members[s])} :
       /\ old # {}
       /\ members' = [s \in Sids |-> IF s \in old THEN {} ELSE members[s]]
       /\ UNCHANGED endpoints
=============================================================================
