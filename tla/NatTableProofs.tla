---------------------------- MODULE NatTableProofs ----------------------------
(***************************************************************************)
(* Theorems about NatTable, for every range of ports, every set of flows   *)
(* and every static route.                                                 *)
(***************************************************************************)
EXTENDS NatTable, FiniteSetTheorems, SequenceTheorems, TLAPS

N == Cardinality(Pool)

\* There are finitely many ports in the cache, and there is one.
LEMMA PoolSize == IsFiniteSet(Pool) /\ N \in Nat \ {0}
<1>1. IsFiniteSet(Pool)
  BY PoolAssumption, FS_Subset DEF Pool
<1>2. N \in Nat /\ N # 0
  BY <1>1, PoolAssumption, FS_CardinalityType, FS_EmptySet DEF N
<1>3. QED
  BY <1>1, <1>2

\* The order of the cache is a sequence as long as there are ports.
LEMMA OrderIsSeq ==
    ASSUME NEW s \in [1 .. N -> Pool]
    PROVE  s \in Seq(Pool) /\ Len(s) = N /\ DOMAIN s = 1 .. N /\ Head(s) = s[1]
<1>1. s \in Seq(Pool)
  BY PoolSize, SeqDef
<1>2. Len(s) = N
  BY <1>1, PoolSize, LenProperties
<1>3. QED
  BY <1>1, <1>2, PoolSize, HeadTailProperties

-----------------------------------------------------------------------------
\* Where the places of the promoted order come from.
From(at, i) == IF i < at THEN i ELSE i + 1

\* Promoting a port moves it to the end and keeps the order of the others.
LEMMA PromotedOrder ==
    ASSUME OrderInv, NEW p \in Pool
    PROVE  LET s == Promoted(lru, p) IN
           \E at \in 1 .. N :
              /\ lru[at] = p /\ s \in [1 .. N -> Pool] /\ s[N] = p
              /\ \A i \in 1 .. N - 1 : s[i] = lru[From(at, i)]
<1>1. lru \in [1 .. N -> Pool] /\ Len(lru) = N /\ DOMAIN lru = 1 .. N /\ N \in Nat \ {0}
  BY PoolSize, OrderIsSeq DEF OrderInv, N
<1> DEFINE at == CHOOSE i \in DOMAIN lru : lru[i] = p
           s  == Promoted(lru, p)
<1>2. \E i \in DOMAIN lru : lru[i] = p
  BY <1>1 DEF OrderInv, EveryPortOnce
<1>3. at \in 1 .. N /\ lru[at] = p
  BY <1>1, <1>2
<1>4. s = [i \in 1 .. N |-> IF i < at THEN lru[i] ELSE IF i < N THEN lru[i + 1] ELSE p]
  BY <1>1 DEF Promoted
<1>5. \A i \in 1 .. N : (IF i < at THEN lru[i] ELSE IF i < N THEN lru[i + 1] ELSE p) \in Pool
  BY <1>1, <1>3
<1>6. s \in [1 .. N -> Pool]
  BY <1>4, <1>5
<1>7. s[N] = p
  BY <1>1, <1>3, <1>4
<1>8. \A i \in 1 .. N - 1 : s[i] = lru[From(at, i)]
  BY <1>1, <1>3, <1>4 DEF From
<1>9. QED
  BY <1>3, <1>6, <1>7, <1>8

\* Touching a port keeps the recency order and the history that witnesses it.
LEMMA TouchKeeps ==
    ASSUME OrderInv, NEW p \in Pool, Touch(p)
    PROVE  OrderInv'
<1>1. /\ lru \in [1 .. N -> Pool] /\ Len(lru) = N /\ DOMAIN lru = 1 .. N
      /\ N \in Nat \ {0} /\ N = Cardinality(Pool)
  BY PoolSize, OrderIsSeq DEF OrderInv, N
<1>2. PICK at \in 1 .. N :
        /\ lru[at] = p /\ lru' \in [1 .. N -> Pool] /\ lru'[N] = p
        /\ \A i \in 1 .. N - 1 : lru'[i] = lru[From(at, i)]
  BY PromotedOrder DEF Touch
<1>3. Len(lru') = N /\ DOMAIN lru' = 1 .. N
  BY <1>2, OrderIsSeq
<1>4. \A i, j \in 1 .. N : lru[i] = lru[j] => i = j
  BY <1>1 DEF OrderInv, EveryPortOnce
<1>5. \A i \in 1 .. N - 1 : From(at, i) \in 1 .. N /\ From(at, i) # at /\ lru'[i] # p
  <2>1. \A i \in 1 .. N - 1 : From(at, i) \in 1 .. N /\ From(at, i) # at
    BY <1>1 DEF From
  <2>2. QED
    BY <1>2, <1>4, <2>1
<1>6. \A i, j \in 1 .. N - 1 : (From(at, i) < From(at, j) <=> i < j) /\ (From(at, i) = From(at, j) => i = j)
  BY <1>1 DEF From
<1>7. \A q \in Pool : \E i \in 1 .. N : lru'[i] = q
  <2> SUFFICES ASSUME NEW q \in Pool, q # p PROVE \E i \in 1 .. N : lru'[i] = q
    BY <1>1, <1>2
  <2>1. PICK k \in 1 .. N : lru[k] = q
    BY <1>1 DEF OrderInv, EveryPortOnce
  <2>2. k # at
    BY <1>2, <2>1
  <2>3. PICK i \in 1 .. N - 1 : From(at, i) = k
    <3>1. CASE k < at
      BY <1>1, <3>1 DEF From
    <3>2. CASE k > at
      <4>1. k - 1 \in 1 .. N - 1 /\ From(at, k - 1) = k
        BY <1>1, <3>2 DEF From
      <4>2. QED
        BY <4>1
    <3>3. QED
      BY <2>2, <3>1, <3>2
  <2>4. QED
    BY <1>1, <1>2, <2>1, <2>3
<1>8. \A i, j \in 1 .. N : lru'[i] = lru'[j] => i = j
  <2> SUFFICES ASSUME NEW i \in 1 .. N, NEW j \in 1 .. N, lru'[i] = lru'[j] PROVE i = j
    OBVIOUS
  <2>1. CASE i = N \/ j = N
    BY <1>1, <1>2, <1>5, <2>1
  <2>2. CASE i # N /\ j # N
    <3>1. i \in 1 .. N - 1 /\ j \in 1 .. N - 1
      BY <1>1, <2>2
    <3>2. From(at, i) = From(at, j)
      BY <1>2, <1>4, <1>5, <3>1
    <3>3. QED
      BY <1>6, <3>1, <3>2
  <2>3. QED
    BY <2>1, <2>2
<1>9. EveryPortOnce'
  <2>1. {lru'[i] : i \in 1 .. N} = Pool
    BY <1>2, <1>7
  <2>2. QED
    BY <1>3, <1>8, <2>1 DEF EveryPortOnce
<1>10. since' \in [Pool -> SUBSET Pool]
  BY DEF OrderInv, Touch
<1>11. \A i, j \in 1 .. N : lru'[j] \in since'[lru'[i]] <=> i < j
  <2> SUFFICES ASSUME NEW i \in 1 .. N, NEW j \in 1 .. N
               PROVE  lru'[j] \in since'[lru'[i]] <=> i < j
    OBVIOUS
  <2>1. CASE i = N
    BY <1>1, <1>2, <2>1 DEF Touch
  <2>2. CASE i # N
    <3>1. i \in 1 .. N - 1 /\ lru'[i] # p /\ lru'[i] \in Pool
      BY <1>1, <1>2, <1>5, <2>2
    <3>2. since'[lru'[i]] = since[lru'[i]] \cup {p}
      BY <3>1 DEF Touch
    <3>3. CASE j = N
      BY <1>1, <1>2, <3>1, <3>2, <3>3
    <3>4. CASE j # N
      <4>1. j \in 1 .. N - 1 /\ lru'[j] # p
        BY <1>1, <1>5, <3>4
      <4>2. lru'[j] \in since[lru'[i]] <=> From(at, i) < From(at, j)
        BY <1>1, <1>2, <1>5, <3>1, <4>1 DEF OrderInv
      <4>3. QED
        BY <1>6, <3>1, <3>2, <4>1, <4>2
    <3>5. QED
      BY <3>3, <3>4
  <2>3. QED
    BY <2>1, <2>2
<1>12. QED
  BY <1>1, <1>2, <1>3, <1>9, <1>10, <1>11 DEF OrderInv

\* The ports put in increasing order are each put once.
LEMMA OrderInit ==
    ASSUME Init
    PROVE  OrderInv
<1>1. /\ lru \in [1 .. N -> Pool] /\ Len(lru) = N /\ DOMAIN lru = 1 .. N
      /\ N \in Nat \ {0} /\ N = Cardinality(Pool) /\ IsFiniteSet(Pool) /\ Pool \subseteq Nat
  BY PoolSize, OrderIsSeq, PoolAssumption DEF Init, N, Pool
<1>2. \A i, j \in 1 .. N : i < j => lru[i] < lru[j]
  BY <1>1 DEF Init
<1>3. \A i, j \in 1 .. N : lru[i] = lru[j] => i = j
  <2> SUFFICES ASSUME NEW i \in 1 .. N, NEW j \in 1 .. N, lru[i] = lru[j] PROVE i = j
    OBVIOUS
  <2>1. lru[i] \in Nat /\ lru[j] \in Nat
    BY <1>1
  <2>2. (i < j => lru[i] < lru[j]) /\ (j < i => lru[j] < lru[i])
    BY <1>2
  <2>3. QED
    BY <1>1, <2>1, <2>2
<1>4. lru \in Injection(1 .. N, Pool)
  BY <1>1, <1>3 DEF Injection, IsInjective
<1>5. Cardinality(1 .. N) = Cardinality(Pool) /\ IsFiniteSet(1 .. N)
  BY <1>1, FS_Interval
<1>6. lru \in Surjection(1 .. N, Pool)
  BY <1>1, <1>4, <1>5, FS_Injection
<1>7. {lru[i] : i \in 1 .. N} = Pool
  BY <1>1, <1>6 DEF Surjection
<1>8. \A i, j \in 1 .. N : lru[j] \in since[lru[i]] <=> i < j
  <2>1. \A i, j \in 1 .. N : lru[j] \in since[lru[i]] <=> lru[i] < lru[j]
    BY <1>1 DEF Init
  <2>2. \A i, j \in 1 .. N : lru[i] < lru[j] <=> i < j
    <3> SUFFICES ASSUME NEW i \in 1 .. N, NEW j \in 1 .. N PROVE lru[i] < lru[j] <=> i < j
      OBVIOUS
    <3>1. lru[i] \in Nat /\ lru[j] \in Nat
      BY <1>1
    <3>2. (i < j => lru[i] < lru[j]) /\ (j < i => lru[j] < lru[i]) /\ (i = j => lru[i] = lru[j])
      BY <1>2
    <3>3. QED
      BY <1>1, <3>1, <3>2
  <2>3. QED
    BY <2>1, <2>2
<1>9. QED
  BY <1>1, <1>3, <1>7, <1>8 DEF OrderInv, EveryPortOnce, Init

\* Every step keeps the recency order.
LEMMA OrderStep ==
    ASSUME OrderInv, [Next]_vars
    PROVE  OrderInv'
<1>1. CASE UNCHANGED <<lru, since>>
  BY <1>1 DEF OrderInv, EveryPortOnce
<1>2. CASE \E p \in Pool : Touch(p)
  BY <1>2, TouchKeeps
<1>3. ASSUME NEW f \in Flow, Outbound(f)
      PROVE  UNCHANGED <<lru, since>> \/ \E p \in Pool : Touch(p)
  <2>1. PICK p \in Pool \cup DOMAIN Static : ForwardStatic(f, p) \/ ForwardKnown(f, p) \/ ForwardNew(f, p)
    BY <1>3 DEF Outbound
  <2>2. CASE ForwardStatic(f, p)
    BY <2>2 DEF ForwardStatic
  <2>3. CASE ForwardKnown(f, p)
    BY <2>3 DEF ForwardKnown, PortsOf
  <2>4. CASE ForwardNew(f, p)
    <3>1. Head(lru) \in Pool
      BY PoolSize, OrderIsSeq DEF OrderInv, N
    <3>2. QED
      BY <2>4, <3>1 DEF ForwardNew
  <2>5. QED
    BY <2>1, <2>2, <2>3, <2>4
<1>4. CASE Answer
  BY <1>1, <1>2, <1>4 DEF Answer, Backward
<1>5. CASE Scan
  BY <1>1, <1>2, <1>5 DEF Scan, Backward
<1>6. CASE UNCHANGED vars
  BY <1>1, <1>6 DEF vars
<1>7. QED
  BY <1>1, <1>2, <1>3, <1>4, <1>5, <1>6 DEF Next

\* The recency order is kept by the table whatever comes from either side.
LEMMA OrderAlways == Spec => []OrderInv
  BY OrderInit, OrderStep, PTL DEF Spec

\* The cache never loses a port and never holds one twice.
THEOREM PortsAreKept == Spec => []EveryPortOnce
<1>1. OrderInv => EveryPortOnce
  BY DEF OrderInv
<1>2. QED
  BY <1>1, OrderAlways, PTL

\* A flow loses its port only when every other port was touched after it.
THEOREM RecycledLastHolds == Spec => RecycledLast
<1>1. ASSUME OrderInv, [Next]_vars, NEW p \in Pool, entry'[p] # entry[p]
      PROVE  since[p] = Pool \ {p}
  <2>1. \E f \in Flow, q \in Pool \cup DOMAIN Static : ForwardNew(f, q)
    BY <1>1 DEF Next, vars, Outbound, ForwardStatic, ForwardKnown, Answer, Scan, Backward
  <2>2. lru \in [1 .. N -> Pool] /\ DOMAIN lru = 1 .. N /\ N \in Nat \ {0} /\ Head(lru) = lru[1]
    BY <1>1, PoolSize, OrderIsSeq DEF OrderInv, N
  <2>4. p = lru[1]
    BY <1>1, <2>1, <2>2 DEF ForwardNew
  <2>5. \A q \in Pool : q # p => q \in since[p]
    <3> SUFFICES ASSUME NEW q \in Pool, q # p PROVE q \in since[p]
      OBVIOUS
    <3>1. PICK j \in DOMAIN lru : lru[j] = q
      BY <1>1, <2>2, OrderIsSeq DEF OrderInv, EveryPortOnce
    <3>2. 1 \in DOMAIN lru /\ 1 < j
      BY <2>2, <2>4, <3>1
    <3>3. QED
      BY <1>1, <2>4, <3>1, <3>2 DEF OrderInv
  <2>6. p \notin since[p] /\ since[p] \subseteq Pool
    <3>1. 1 \in DOMAIN lru /\ ~(1 < 1)
      BY <2>2
    <3>2. QED
      BY <1>1, <2>4, <3>1 DEF OrderInv
  <2>7. QED
    BY <2>5, <2>6
<1>2. OrderInv /\ [Next]_vars =>
        [\A p \in Pool : entry[p] # NoFlow /\ entry'[p] # entry[p] => since[p] = Pool \ {p}]_vars
  BY <1>1
<1>3. QED
  BY <1>2, OrderAlways, PTL DEF Spec, RecycledLast

-----------------------------------------------------------------------------
\* Every step keeps the mapping one to one.
LEMMA EntryStep ==
    ASSUME OrderInv, EntryInv, [Next]_vars
    PROVE  EntryInv'
<1>1. CASE UNCHANGED entry
  BY <1>1 DEF EntryInv, OnePortEach
<1>2. ASSUME NEW f \in Flow, NEW p \in Pool \cup DOMAIN Static, ForwardNew(f, p)
      PROVE  EntryInv'
  <2>1. p \in Pool
    BY <1>2, PoolSize, OrderIsSeq DEF OrderInv, N, ForwardNew
  <2>2. \A q \in Pool : entry'[q] = IF q = p THEN f ELSE entry[q]
    BY <1>2, <2>1 DEF EntryInv, ForwardNew
  <2>3. StaticPorts(f) = {} /\ \A q \in Pool : entry[q] # f
    BY <1>2 DEF ForwardNew, PortsOf
  <2>4. entry' \in [Pool -> Flow \cup {NoFlow}]
    BY <1>2, <2>1 DEF EntryInv, ForwardNew
  <2>5. OnePortEach'
    BY <2>2, <2>3 DEF EntryInv, OnePortEach, StaticPorts
  <2>6. QED
    BY <2>4, <2>5 DEF EntryInv
<1>3. CASE UNCHANGED vars
  BY <1>1, <1>3 DEF vars
<1>4. QED
  BY <1>1, <1>2, <1>3 DEF Next, Outbound, ForwardStatic, ForwardKnown, Answer, Scan, Backward

\* The mapping starts empty.
LEMMA EntryInit ==
    ASSUME Init
    PROVE  EntryInv
BY DEF Init, EntryInv, OnePortEach

\* The order and the mapping are kept together.
LEMMA EntryAlways == Spec => [](OrderInv /\ EntryInv)
  BY OrderInit, OrderStep, EntryInit, EntryStep, PTL DEF Spec

\* No two ports of the cache lead to one flow, and none to a flow with a route.
THEOREM MappingIsOneToOne == Spec => []OnePortEach
<1>1. EntryInv => OnePortEach
  BY DEF EntryInv
<1>2. QED
  BY <1>1, EntryAlways, PTL

-----------------------------------------------------------------------------
\* An answer is expected at a port of the gateway, for a flow.
LEMMA ExpectedStep ==
    ASSUME OrderInv, expected \subseteq (Pool \cup DOMAIN Static) \X Flow, [Next]_vars
    PROVE  expected' \subseteq (Pool \cup DOMAIN Static) \X Flow
<1>1. ASSUME NEW f \in Flow, Outbound(f)
      PROVE  expected' \subseteq (Pool \cup DOMAIN Static) \X Flow
  <2>1. PICK p \in Pool \cup DOMAIN Static : expected' = expected \cup {<<p, f>>}
    BY <1>1 DEF Outbound
  <2>2. QED
    BY <2>1
<1>2. CASE Answer \/ Scan \/ UNCHANGED vars
  BY <1>2 DEF Answer, Scan, Backward, vars
<1>3. QED
  BY <1>1, <1>2 DEF Next

\* The table keeps its types: its sequence of ports too, which is a function that
\* every promotion builds anew.
THEOREM NatTypesHold == Spec => []TypeOK
<1> DEFINE ExpectedInv == expected \subseteq (Pool \cup DOMAIN Static) \X Flow
<1>1. Init => ExpectedInv
  BY DEF Init
<1>2. ExpectedInv /\ OrderInv /\ [Next]_vars => ExpectedInv'
  BY ExpectedStep
<1>3. OrderInv /\ EntryInv /\ ExpectedInv => TypeOK
  BY OrderIsSeq DEF OrderInv, EntryInv, TypeOK, N
<1> HIDE DEF ExpectedInv
<1>4. QED
  BY <1>1, <1>2, <1>3, EntryAlways, PTL DEF Spec

-----------------------------------------------------------------------------
\* With as many ports as flows, a flow without a port finds one that is free.
LEMMA FreePort ==
    ASSUME Undisturbed, EntryInv, NEW f \in Flow, StaticPorts(f) = {}, PortsOf(f) = {}
    PROVE  \E p \in Pool : entry[p] = NoFlow
<1> SUFFICES ASSUME \A p \in Pool : entry[p] # NoFlow PROVE FALSE
  OBVIOUS
<1>1. f \in DynFlows
  BY DEF DynFlows
<1>2. IsFiniteSet(DynFlows \ {f}) /\ Cardinality(DynFlows \ {f}) < Cardinality(Pool)
  <2>1. IsFiniteSet(DynFlows \ {f}) /\ Cardinality(DynFlows \ {f}) = Cardinality(DynFlows) - 1
    BY <1>1, FS_RemoveElement DEF Undisturbed
  <2>2. Cardinality(DynFlows) \in Nat /\ Cardinality(Pool) \in Nat
    BY PoolSize, FS_CardinalityType DEF Undisturbed, N
  <2>3. QED
    BY <2>1, <2>2 DEF Undisturbed
<1>3. entry \in [Pool -> DynFlows \ {f}]
  <2>1. \A p \in Pool : entry[p] \in DynFlows \ {f}
    BY DEF EntryInv, OnePortEach, DynFlows, PortsOf
  <2>2. QED
    BY <2>1 DEF EntryInv
<1>4. \E p, q \in Pool : p # q /\ entry[p] = entry[q]
  BY <1>2, <1>3, PoolSize, FS_PigeonHole
<1>5. QED
  BY <1>4 DEF EntryInv, OnePortEach

\* Touching a port that leads to a flow leaves the free ports first.
LEMMA TouchKeepsFree ==
    ASSUME OrderInv, NEW p \in Pool, Touch(p), entry'[p] # NoFlow,
           \A q \in Pool : q # p => entry'[q] = entry[q],
           \A i, j \in DOMAIN lru : i < j /\ entry[lru[j]] = NoFlow => entry[lru[i]] = NoFlow
    PROVE  \A i, j \in DOMAIN lru' : i < j /\ entry'[lru'[j]] = NoFlow => entry'[lru'[i]] = NoFlow
<1>1. /\ lru \in [1 .. N -> Pool] /\ DOMAIN lru = 1 .. N /\ N \in Nat \ {0}
  BY PoolSize, OrderIsSeq DEF OrderInv, N
<1>2. PICK at \in 1 .. N :
        /\ lru[at] = p /\ lru' \in [1 .. N -> Pool] /\ lru'[N] = p
        /\ \A i \in 1 .. N - 1 : lru'[i] = lru[From(at, i)]
  BY PromotedOrder DEF Touch
<1> SUFFICES ASSUME NEW i \in 1 .. N, NEW j \in 1 .. N, i < j, entry'[lru'[j]] = NoFlow
             PROVE  entry'[lru'[i]] = NoFlow
  BY <1>2
<1>3. i \in 1 .. N - 1 /\ j \in 1 .. N - 1
  BY <1>1, <1>2
<1>4. /\ From(at, i) \in 1 .. N /\ From(at, j) \in 1 .. N /\ From(at, i) < From(at, j)
      /\ From(at, i) # at
  BY <1>1, <1>3 DEF From
<1>5. lru'[j] # p /\ lru'[j] \in Pool /\ lru'[i] \in Pool
  BY <1>1, <1>2
<1>6. lru[From(at, i)] # p
  <2>1. \A k \in 1 .. N : lru[k] = lru[at] => k = at
    BY <1>1, OrderIsSeq DEF OrderInv, EveryPortOnce
  <2>2. QED
    BY <1>2, <1>4, <2>1
<1>7. QED
  BY <1>1, <1>2, <1>3, <1>4, <1>5, <1>6

\* Every step leaves the free ports first and the answers routed.
LEMMA HomeStep ==
    ASSUME Undisturbed, OrderInv, EntryInv, HomeInv, [Next]_vars
    PROVE  HomeInv'
<1>1. CASE UNCHANGED vars
  BY <1>1 DEF HomeInv, vars
<1>2. ASSUME NEW f \in Flow, NEW p \in Pool \cup DOMAIN Static,
             expected' = expected \cup {<<p, f>>}, ForwardStatic(f, p)
      PROVE  HomeInv'
  BY <1>2 DEF HomeInv, ForwardStatic, StaticPorts
<1>3. ASSUME NEW f \in Flow, NEW p \in Pool \cup DOMAIN Static,
             expected' = expected \cup {<<p, f>>}, ForwardKnown(f, p)
      PROVE  HomeInv'
  <2>1. p \in Pool /\ entry[p] = f /\ f # NoFlow /\ Touch(p) /\ UNCHANGED entry
    BY <1>3, NoFlowAssumption DEF ForwardKnown, PortsOf
  <2>2. \A i, j \in DOMAIN lru' : i < j /\ entry'[lru'[j]] = NoFlow => entry'[lru'[i]] = NoFlow
    BY <2>1, TouchKeepsFree DEF HomeInv
  <2>3. QED
    BY <1>3, <2>1, <2>2 DEF HomeInv
<1>4. ASSUME NEW f \in Flow, NEW p \in Pool \cup DOMAIN Static,
             expected' = expected \cup {<<p, f>>}, ForwardNew(f, p)
      PROVE  HomeInv'
  <2>1. /\ lru \in [1 .. N -> Pool] /\ DOMAIN lru = 1 .. N /\ N \in Nat \ {0}
        /\ p = lru[1] /\ p \in Pool
    BY <1>4, PoolSize, OrderIsSeq DEF OrderInv, N, ForwardNew
  <2>2. entry[p] = NoFlow
    <3>1. PICK q \in Pool : entry[q] = NoFlow
      BY <1>4, FreePort DEF ForwardNew
    <3>2. PICK k \in 1 .. N : lru[k] = q
      BY <2>1, <3>1, OrderIsSeq DEF OrderInv, EveryPortOnce
    <3>3. QED
      BY <2>1, <3>1, <3>2 DEF HomeInv
  <2>3. /\ f # NoFlow /\ entry'[p] = f /\ Touch(p)
        /\ \A q \in Pool : q # p => entry'[q] = entry[q]
    BY <1>4, <2>1, NoFlowAssumption DEF ForwardNew, EntryInv
  <2>4. \A i, j \in DOMAIN lru' : i < j /\ entry'[lru'[j]] = NoFlow => entry'[lru'[i]] = NoFlow
    BY <2>1, <2>3, TouchKeepsFree DEF HomeInv
  <2>5. QED
    BY <1>4, <2>1, <2>2, <2>3, <2>4 DEF HomeInv
<1>5. ASSUME NEW p \in Scanned \cup {a[1] : a \in expected}, Backward(p)
      PROVE  HomeInv'
  <2>1. CASE p \notin Pool
    BY <1>5, <2>1 DEF HomeInv, Backward
  <2>2. CASE p \in Pool
    <3>1. PICK a \in expected : p = a[1]
      BY <1>5, <2>2 DEF Undisturbed
    <3>2. entry[p] # NoFlow /\ Touch(p) /\ UNCHANGED <<entry, expected>>
      BY <1>5, <2>2, <3>1 DEF HomeInv, Pool, Backward
    <3>3. \A i, j \in DOMAIN lru' : i < j /\ entry'[lru'[j]] = NoFlow => entry'[lru'[i]] = NoFlow
      BY <2>2, <3>2, TouchKeepsFree DEF HomeInv
    <3>4. QED
      BY <3>2, <3>3 DEF HomeInv
  <2>3. QED
    BY <2>1, <2>2
<1>6. QED
  BY <1>1, <1>2, <1>3, <1>4, <1>5 DEF Next, Outbound, Answer, Scan

\* While the gateway has as many ports as flows and nobody scans the ports of its
\* cache, every answer reaches the flow it is for, however late it comes.
THEOREM AnswersReachTheirFlow ==
    ASSUME Undisturbed
    PROVE  Spec => []AnswersGoHome
<1>1. Init => HomeInv
  BY DEF Init, HomeInv
<1>2. HomeInv => AnswersGoHome
  BY DEF HomeInv, AnswersGoHome, RouteOf, Pool
<1>3. Spec => []HomeInv
  BY <1>1, HomeStep, EntryAlways, PTL DEF Spec
<1>4. QED
  BY <1>2, <1>3, PTL
=============================================================================
