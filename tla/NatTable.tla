------------------------------- MODULE NatTable -------------------------------
(***************************************************************************)
(* AtewayNatTable (rateway/nat.rs): static routes and an LRU cache of the  *)
(* other ports of a range.  A flow is an (address, port) or (address, echo *)
(* identifier) pair of a station behind the gateway.  receive_daemon       *)
(* translates what a flow sends (`forward`), send_daemon what the Internet *)
(* sends to a port of the gateway (`backward`); each holds the lock of the *)
(* table for one translation.                                              *)
(***************************************************************************)
EXTENDS Naturals, Sequences, FiniteSets

CONSTANTS
    Flow,      \* the flows of the stations
    PortRange, \* NAT_PORT_RANGE
    Static,    \* route_config: a function from ports to flows
    Scanned,   \* the ports that packets nobody asked for are sent to
    NoFlow     \* None

\* The ports of the cache.
Pool == PortRange \ DOMAIN Static

\* Without a port in the cache `pop_lru().unwrap()` panics.
ASSUME PoolAssumption == PortRange \subseteq Nat /\ IsFiniteSet(PortRange) /\ Pool # {}
ASSUME StaticAssumption == Static \in [DOMAIN Static -> Flow]
ASSUME NoFlowAssumption == NoFlow \notin Flow

VARIABLES
    lru,       \* the ports of the cache, the least recently used first
    entry,     \* what the cache maps each of its ports to
    expected,  \* the answers that may come: <<port, flow>> for each packet sent
    since      \* history: for a port, the ports touched after it last was

vars == <<lru, entry, expected, since>>

\* Mutant: the static routes stay in the cache.
InitNoExclude ==
    /\ lru \in [1 .. Cardinality(PortRange) -> PortRange]
    /\ \A i, j \in DOMAIN lru : i < j => lru[i] < lru[j]
    /\ entry = [p \in Pool |-> NoFlow]
    /\ expected = {}
    /\ since = [p \in Pool |-> {q \in Pool : p < q}]

\* `new` puts the ports into the cache in increasing order.
Init ==
    /\ lru \in [1 .. Cardinality(Pool) -> Pool]
    /\ \A i, j \in DOMAIN lru : i < j => lru[i] < lru[j]
    /\ entry = [p \in Pool |-> NoFlow]
    /\ expected = {}
    /\ since = [p \in Pool |-> {q \in Pool : p < q}]

-----------------------------------------------------------------------------
\* Mutant: the port is put in again and not taken out.
PromotedTwice(s, p) == Append(s, p)

\* The sequence s with p moved to its end, the place of the most recently used.
Promoted(s, p) ==
    LET at == CHOOSE i \in DOMAIN s : s[i] = p IN
    [i \in DOMAIN s |-> IF i < at THEN s[i] ELSE IF i < Len(s) THEN s[i + 1] ELSE p]

Touch(p) ==
    /\ lru' = Promoted(lru, p)
    /\ since' = [q \in Pool |-> IF q = p THEN {} ELSE since[q] \cup {p}]

StaticPorts(f) == {p \in DOMAIN Static : Static[p] = f}
PortsOf(f) == {p \in Pool : entry[p] = f}

\* `static_table.forward`: any of the ports routed to the flow.
ForwardStatic(f, p) ==
    /\ p \in StaticPorts(f)
    /\ UNCHANGED <<lru, entry, since>>

\* Mutant: the port is found and not promoted.
ForwardKnownUnpromoted(f, p) ==
    /\ StaticPorts(f) = {} /\ p \in PortsOf(f)
    /\ since' = [q \in Pool |-> IF q = p THEN {} ELSE since[q] \cup {p}]
    /\ UNCHANGED <<lru, entry>>

\* `dyn_table.forward`: the flow has a port, which is promoted.
ForwardKnown(f, p) ==
    /\ StaticPorts(f) = {} /\ p \in PortsOf(f)
    /\ Touch(p)
    /\ UNCHANGED entry

\* Mutants: the flow's port is not looked for, and the wrong end is popped.
ForwardNewAlways(f, p) ==
    /\ StaticPorts(f) = {} /\ p = Head(lru)
    /\ Touch(p)
    /\ entry' = [entry EXCEPT ![p] = f]

ForwardNewLatest(f, p) ==
    /\ StaticPorts(f) = {} /\ PortsOf(f) = {} /\ p = lru[Len(lru)]
    /\ Touch(p)
    /\ entry' = [entry EXCEPT ![p] = f]

\* `dyn_table.forward`: the flow gets the port used least recently.
ForwardNew(f, p) ==
    /\ StaticPorts(f) = {} /\ PortsOf(f) = {} /\ p = Head(lru)
    /\ Touch(p)
    /\ entry' = [entry EXCEPT ![p] = f]

\* A flow sends a packet; the answers to it will go to port p.
Outbound(f) ==
    \E p \in Pool \cup DOMAIN Static :
        /\ ForwardStatic(f, p) \/ ForwardKnown(f, p) \/ ForwardNew(f, p)
        /\ expected' = expected \cup {<<p, f>>}

\* `backward`: the static route of the port, or else its entry.
RouteOf(p) ==
    IF p \in DOMAIN Static THEN Static[p]
    ELSE IF p \in Pool THEN entry[p] ELSE NoFlow

\* To look an entry up touches its port, also one that is free.
Backward(p) ==
    /\ IF p \in Pool THEN Touch(p) ELSE UNCHANGED <<lru, since>>
    /\ UNCHANGED <<entry, expected>>

\* An answer arrives to a packet sent, at any time and any number of times.
Answer == \E a \in expected : Backward(a[1])

\* A packet nobody asked for arrives.
Scan == \E p \in Scanned : Backward(p)

Next == (\E f \in Flow : Outbound(f)) \/ Answer \/ Scan

Spec == Init /\ [][Next]_vars

-----------------------------------------------------------------------------
(* Properties.                                                             *)

\* The type of every variable.
TypeOK ==
    /\ lru \in Seq(Pool)
    /\ entry \in [Pool -> Flow \cup {NoFlow}]
    /\ expected \subseteq (Pool \cup DOMAIN Static) \X Flow
    /\ since \in [Pool -> SUBSET Pool]

\* No port is lost by the cache or is in it twice.
EveryPortOnce ==
    /\ {lru[i] : i \in 1 .. Len(lru)} = Pool
    /\ \A i, j \in 1 .. Len(lru) : lru[i] = lru[j] => i = j

\* A flow has one port at most, and a flow with a static route takes none.
OnePortEach ==
    \A p, q \in Pool :
        entry[p] # NoFlow => StaticPorts(entry[p]) = {} /\ (entry[p] = entry[q] => p = q)

\* The port of a flow is taken from it only after every other port was touched.
RecycledLast ==
    [][\A p \in Pool : entry[p] # NoFlow /\ entry'[p] # entry[p] => since[p] = Pool \ {p}]_vars

DynFlows == {f \in Flow : StaticPorts(f) = {}}

\* Every answer reaches the flow that sent the packet it answers, however late.
\* This takes as many ports as flows, and that nobody scans the ports of the cache.
AnswersGoHome == \A a \in expected : RouteOf(a[1]) = a[2]

Undisturbed ==
    /\ IsFiniteSet(DynFlows) /\ Cardinality(DynFlows) <= Cardinality(Pool)
    /\ Scanned \cap Pool = {}

-----------------------------------------------------------------------------
(* The inductive invariants.                                               *)

\* The order of the cache is the order in which its ports were last touched.
OrderInv ==
    /\ lru \in [1 .. Cardinality(Pool) -> Pool]
    /\ EveryPortOnce
    /\ since \in [Pool -> SUBSET Pool]
    /\ \A i, j \in DOMAIN lru : lru[j] \in since[lru[i]] <=> i < j

EntryInv ==
    /\ entry \in [Pool -> Flow \cup {NoFlow}]
    /\ OnePortEach

\* While nobody scans, the free ports of the cache come before the others, and
\* the port each answer will come to is still mapped to its flow.
HomeInv ==
    /\ \A i, j \in DOMAIN lru : i < j /\ entry[lru[j]] = NoFlow => entry[lru[i]] = NoFlow
    /\ \A a \in expected :
          \/ a[1] \in DOMAIN Static /\ Static[a[1]] = a[2]
          \/ a[1] \in Pool /\ entry[a[1]] = a[2] /\ a[2] # NoFlow
=============================================================================
