--------------------------- MODULE ConvCodeProofs ---------------------------
(***************************************************************************)
(* The Viterbi decoder of ConvCode, for every code, message and error      *)
(* pattern: it loses nothing, it returns the nearest message, and fewer    *)
(* errors than half of the distance of the code are corrected.             *)
(***************************************************************************)
EXTENDS ConvCode, FiniteSetTheorems, SequenceTheorems, WellFoundedInduction, TLAPS

\* The register stays within its bits.
LEMMA ShiftType ==
    ASSUME NEW now \in State, NEW bit \in B
    PROVE  Shift(now, bit) \in State
<1>1. CASE bit = 0
  BY <1>1, HalfAssumption, SMT DEF Shift, State
<1>2. CASE bit = 1
  BY <1>2, HalfAssumption, SMT DEF Shift, State
<1> QED BY <1>1, <1>2 DEF B

\* A state is reached from two states at most, from each by one bit.
LEMMA TwoMeet ==
    ASSUME NEW a \in State, NEW b \in State, NEW x \in B, NEW y \in B,
           Shift(a, x) = Shift(b, y)
    PROVE  x = y /\ a \div 2 = b \div 2
<1> DEFINE u == a \div 2
           v == b \div 2
<1>1. u \in 0 .. Half - 1 /\ v \in 0 .. Half - 1
  BY HalfAssumption, SMT DEF State
<1>2. x * Half + u = y * Half + v
  BY DEF Shift
<1> HIDE DEF u, v
<1>3. x = y /\ u = v
  <2>1. CASE x = 0 /\ y = 0
    BY <2>1, <1>1, <1>2, HalfAssumption, SMT
  <2>2. CASE x = 1 /\ y = 1
    BY <2>2, <1>1, <1>2, HalfAssumption, SMT
  <2>3. CASE x = 0 /\ y = 1
    BY <2>3, <1>1, <1>2, HalfAssumption, SMT
  <2>4. CASE x = 1 /\ y = 0
    BY <2>4, <1>1, <1>2, HalfAssumption, SMT
  <2> QED BY <2>1, <2>2, <2>3, <2>4 DEF B
<1> QED BY <1>3 DEF u, v

LEMMA ThreeMeet ==
    ASSUME NEW a \in State, NEW b \in State, NEW c \in State,
           NEW x \in B, NEW y \in B, NEW z \in B,
           Shift(a, x) = Shift(b, y), Shift(b, y) = Shift(c, z)
    PROVE  a = b \/ b = c \/ a = c
<1>1. a \div 2 = b \div 2 /\ b \div 2 = c \div 2
  BY TwoMeet
<1> QED BY <1>1, HalfAssumption, SMT DEF State

\* The bits in which a word differs can be counted.
LEMMA DistanceType ==
    ASSUME NEW output, NEW word \in Seq(B)
    PROVE  Distance(output, word) \in Nat
<1>1. IsFiniteSet(DOMAIN word)
  <2>1. Len(word) \in Nat /\ DOMAIN word = 1 .. Len(word)
    OBVIOUS
  <2> QED BY <2>1, FS_Interval
<1>2. IsFiniteSet({i \in DOMAIN word : output[i] # word[i]})
  BY <1>1, FS_Subset
<1> QED BY <1>2, FS_CardinalityType DEF Distance

LEMMA ExtensionOf ==
    ASSUME NEW P, NEW word, NEW p \in P, NEW b \in B
    PROVE  [last |-> Shift(p.last, b), from |-> p.last, bits |-> Append(p.bits, b),
            score |-> Distance(Output(p.last, b), word) + p.score] \in Extensions(P, word)
<1> DEFINE e(q, c) == [last |-> Shift(q.last, c), from |-> q.last, bits |-> Append(q.bits, c),
                       score |-> Distance(Output(q.last, c), word) + q.score]
<1>1. Extensions(P, word) = {e(q, c) : q \in P, c \in B}
  BY DEF Extensions
<1> HIDE DEF e
<1>2. e(p, b) \in {e(q, c) : q \in P, c \in B}
  OBVIOUS
<1>3. e(p, b) \in Extensions(P, word)
  BY <1>1, <1>2
<1> QED BY <1>3 DEF e

LEMMA ExtensionsType ==
    ASSUME NEW P \in SUBSET Path, NEW word \in Seq(B)
    PROVE  Extensions(P, word) \subseteq Path
<1> SUFFICES ASSUME NEW p \in P, NEW b \in B
    PROVE [last |-> Shift(p.last, b), from |-> p.last, bits |-> Append(p.bits, b),
           score |-> Distance(Output(p.last, b), word) + p.score] \in Path
  BY DEF Extensions
<1>1. p.last \in State /\ p.bits \in Seq(B) /\ p.score \in Nat
  BY DEF Path
<1>2. Shift(p.last, b) \in State
  BY <1>1, ShiftType
<1>3. Distance(Output(p.last, b), word) + p.score \in Nat
  BY <1>1, DistanceType
<1>4. Append(p.bits, b) \in Seq(B)
  BY <1>1
<1> QED BY <1>1, <1>2, <1>3, <1>4 DEF Path

\* Where one path ends in each state, an extension is known by the state it
\* comes from.
LEMMA ExtensionsApart ==
    ASSUME NEW P \in SUBSET Path, NEW word \in Seq(B),
           \A p, q \in P : p.last = q.last => p = q,
           NEW e \in Extensions(P, word), NEW f \in Extensions(P, word),
           e.last = f.last, e.from = f.from
    PROVE  e = f
<1>1. PICK p \in P, b \in B :
        e = [last |-> Shift(p.last, b), from |-> p.last, bits |-> Append(p.bits, b),
             score |-> Distance(Output(p.last, b), word) + p.score]
  BY DEF Extensions
<1>2. PICK q \in P, c \in B :
        f = [last |-> Shift(q.last, c), from |-> q.last, bits |-> Append(q.bits, c),
             score |-> Distance(Output(q.last, c), word) + q.score]
  BY DEF Extensions
<1>3. p = q
  BY <1>1, <1>2
<1>4. p.last \in State /\ q.last \in State /\ Shift(p.last, b) = Shift(q.last, c)
  BY <1>1, <1>2 DEF Path
<1>5. b = c
  BY <1>4, TwoMeet
<1> QED BY <1>1, <1>2, <1>3, <1>5

\* Of the extensions that meet in a state one survives, and none is nearer.
LEMMA OneSurvives ==
    ASSUME NEW P \in SUBSET Path, NEW word \in Seq(B),
           \A p, q \in P : p.last = q.last => p = q,
           NEW e \in Extensions(P, word)
    PROVE  \E s \in Survivors(Extensions(P, word)) : s.last = e.last /\ s.score <= e.score
<1> DEFINE E == Extensions(P, word)
           Beats(s, t) == t.score < s.score \/ (t.score = s.score /\ t.from > s.from)
<1>1. E \subseteq Path
  BY ExtensionsType
<1>2. \A s \in E : s.score \in Nat /\ s.from \in Int
  BY <1>1, HalfAssumption DEF Path, State
<1>3. \A s \in E : \E p \in State, b \in B : s.from = p /\ s.last = Shift(p, b)
  <2> SUFFICES ASSUME NEW s \in E
               PROVE \E p \in State, b \in B : s.from = p /\ s.last = Shift(p, b)
    OBVIOUS
  <2>1. PICK p \in P, b \in B :
          s = [last |-> Shift(p.last, b), from |-> p.last, bits |-> Append(p.bits, b),
               score |-> Distance(Output(p.last, b), word) + p.score]
    BY DEF Extensions
  <2>2. p.last \in State /\ s.from = p.last /\ s.last = Shift(p.last, b)
    BY <2>1 DEF Path
  <2> QED BY <2>2
<1>4. \A s, t, r \in E : s.last = t.last /\ t.last = r.last =>
          s.from = t.from \/ t.from = r.from \/ s.from = r.from
  <2> SUFFICES ASSUME NEW s \in E, NEW t \in E, NEW r \in E,
                      s.last = t.last, t.last = r.last
               PROVE  s.from = t.from \/ t.from = r.from \/ s.from = r.from
    OBVIOUS
  <2>1. PICK a \in State, x \in B : s.from = a /\ s.last = Shift(a, x)
    BY <1>3
  <2>2. PICK b \in State, y \in B : t.from = b /\ t.last = Shift(b, y)
    BY <1>3
  <2>3. PICK c \in State, z \in B : r.from = c /\ r.last = Shift(c, z)
    BY <1>3
  <2>4. Shift(a, x) = Shift(b, y) /\ Shift(b, y) = Shift(c, z)
    BY <2>1, <2>2, <2>3
  <2>5. a = b \/ b = c \/ a = c
    BY <2>4, ThreeMeet
  <2> QED BY <2>1, <2>2, <2>3, <2>5
<1>5. \A s, t \in E : s.last = t.last /\ s.from = t.from => s = t
  BY ExtensionsApart
<1>6. CASE e \in Survivors(E)
  BY <1>6, <1>2
<1>7. CASE e \notin Survivors(E)
  <2>1. PICK s \in E : s.last = e.last /\ Beats(e, s)
    BY <1>7, <1>2 DEF Survivors
  <2>2. s.from # e.from
    BY <2>1, <1>5, <1>2
  <2>3. \A t \in E : t.last = s.last => t = s \/ t = e
    BY <2>1, <2>2, <1>4, <1>5
  <2>4. s \in Survivors(E)
    BY <2>1, <2>3, <1>2 DEF Survivors
  <2> QED BY <2>1, <2>4, <1>2
<1> HIDE DEF E
<1> QED BY <1>6, <1>7 DEF E

\* Two survivors never meet.
LEMMA SurvivorsApart ==
    ASSUME NEW P \in SUBSET Path, NEW word \in Seq(B),
           \A p, q \in P : p.last = q.last => p = q,
           NEW s \in Survivors(Extensions(P, word)), NEW t \in Survivors(Extensions(P, word)),
           s.last = t.last
    PROVE  s = t
<1>1. s \in Extensions(P, word) /\ t \in Extensions(P, word)
  BY DEF Survivors
<1>2. s \in Path /\ t \in Path
  BY <1>1, ExtensionsType
<1>3. s.score \in Nat /\ t.score \in Nat /\ s.from \in Int /\ t.from \in Int
  BY <1>2, HalfAssumption DEF Path, State
<1>4. /\ s.score < t.score \/ (s.score = t.score /\ s.from >= t.from)
      /\ t.score < s.score \/ (t.score = s.score /\ t.from >= s.from)
  BY <1>1 DEF Survivors
<1>5. s.from = t.from
  BY <1>3, <1>4
<1> QED BY <1>1, <1>5, ExtensionsApart

-----------------------------------------------------------------------------
(* The invariant.                                                          *)

ConvInv == TypeOK /\ SurvivorsAreNearest

\* The words of any message are bits.
LEMMA TurnedType ==
    ASSUME NEW m \in Message, NEW errors
    PROVE  Turned(m, errors) \in Seq(Seq(B))
<1> DEFINE bits == Padded(m)
<1>1. Len(Generators) \in Nat
  BY GeneratorsAssumption
<1>2. PICK n \in 0 .. MaxLen : m \in [1 .. n -> B]
  BY DEF Message
<1>3. m \in Seq(B)
  BY <1>2, SMT
<1>4. [i \in 1 .. Order |-> 0] \in Seq(B)
  BY OrderAssumption DEF B
<1>5. Padded(m) \in Seq(B)
  BY <1>3, <1>4 DEF Padded
<1>6. Len(Padded(m)) \in Nat
  BY <1>5
<1>7. \A now, bit : Output(now, bit) \in [1 .. Len(Generators) -> B]
  <2> SUFFICES ASSUME NEW now, NEW bit, NEW i \in 1 .. Len(Generators)
      PROVE Cardinality({k \in 0 .. Order : /\ Bit(Generators[i], Order - k) = 1
                                            /\ Bit(bit * 2 * Half + now, k) = 1}) % 2 \in B
    BY DEF Output
  <2> DEFINE S == {k \in 0 .. Order : /\ Bit(Generators[i], Order - k) = 1
                                      /\ Bit(bit * 2 * Half + now, k) = 1}
  <2>1. IsFiniteSet(0 .. Order)
    BY OrderAssumption, FS_Interval
  <2>2. IsFiniteSet(S)
    BY <2>1, FS_Subset
  <2>3. Cardinality(S) \in Nat
    BY <2>2, FS_CardinalityType
  <2> HIDE DEF S
  <2>4. Cardinality(S) % 2 \in B
    BY <2>3, SMT DEF B
  <2> QED BY <2>4 DEF S
<1>8. /\ Len(Encode(m)) = Len(Padded(m))
      /\ \A k \in 1 .. Len(Padded(m)) : Encode(m)[k] \in [1 .. Len(Generators) -> B]
  BY <1>6, <1>7 DEF Encode
<1>9. \A k \in 1 .. Len(Encode(m)) :
        [i \in 1 .. Len(Generators) |->
          IF <<k, i>> \in errors THEN 1 - Encode(m)[k][i] ELSE Encode(m)[k][i]] \in Seq(B)
  <2> SUFFICES ASSUME NEW k \in 1 .. Len(Encode(m))
      PROVE [i \in 1 .. Len(Generators) |->
              IF <<k, i>> \in errors THEN 1 - Encode(m)[k][i] ELSE Encode(m)[k][i]]
                \in [1 .. Len(Generators) -> B]
    BY <1>1
  <2>1. \A i \in 1 .. Len(Generators) : Encode(m)[k][i] \in B
    BY <1>8
  <2>2. \A i \in 1 .. Len(Generators) :
          (IF <<k, i>> \in errors THEN 1 - Encode(m)[k][i] ELSE Encode(m)[k][i]) \in B
    BY <2>1 DEF B
  <2> QED BY <2>2
<1> QED BY <1>6, <1>8, <1>9 DEF Turned

LEMMA ConvInit == Init => ConvInv
<1> SUFFICES ASSUME Init PROVE ConvInv
  OBVIOUS
<1>1. received \in Seq(Seq(B))
  BY TurnedType DEF Init
<1>2. Start \in Path
  BY HalfAssumption DEF Start, Path, State
<1>3. TypeOK
  BY <1>1, <1>2 DEF Init, TypeOK
<1>4. SurvivorsAreNearest
  BY <1>2 DEF Init, SurvivorsAreNearest, Start
<1> QED BY <1>3, <1>4 DEF ConvInv

LEMMA TakeWordKeeps == ConvInv /\ TakeWord => ConvInv'
<1> SUFFICES ASSUME ConvInv, TakeWord PROVE ConvInv'
  OBVIOUS
<1> DEFINE word == received[at + 1]
<1>1. /\ received \in Seq(Seq(B)) /\ at \in 0 .. Len(received)
      /\ paths \in SUBSET Path /\ walks \in SUBSET Path
      /\ \A p, q \in paths : p.last = q.last => p = q
  BY DEF ConvInv, TypeOK
<1>2. word \in Seq(B) /\ at' \in 0 .. Len(received')
  BY <1>1 DEF TakeWord
<1>3. /\ paths' = Survivors(Extensions(paths, word))
      /\ walks' = Extensions(walks, word)
      /\ received' = received
  BY DEF TakeWord
<1> HIDE DEF word
<1>4. TypeOK'
  <2>1. Extensions(paths, word) \subseteq Path /\ walks' \subseteq Path
    BY <1>1, <1>2, <1>3, ExtensionsType
  <2>2. paths' \subseteq Path
    BY <2>1, <1>3 DEF Survivors
  <2>3. \A p, q \in paths' : p.last = q.last => p = q
    BY <1>1, <1>2, <1>3, SurvivorsApart
  <2> QED BY <2>1, <2>2, <2>3, <1>1, <1>2, <1>3 DEF TypeOK
<1>5. paths' \subseteq walks'
  <2>1. paths \subseteq walks
    BY DEF ConvInv, SurvivorsAreNearest
  <2>2. Extensions(paths, word) \subseteq Extensions(walks, word)
    BY <2>1 DEF Extensions
  <2> QED BY <2>2, <1>3 DEF Survivors
<1>6. ASSUME NEW p \in paths, NEW b \in B
      PROVE  \E s \in paths' : /\ s.last = Shift(p.last, b)
                               /\ s.score <= Distance(Output(p.last, b), word) + p.score
  <2> DEFINE e == [last |-> Shift(p.last, b), from |-> p.last, bits |-> Append(p.bits, b),
                   score |-> Distance(Output(p.last, b), word) + p.score]
  <2>1. e \in Extensions(paths, word)
    BY ExtensionOf
  <2>2. PICK s \in Survivors(Extensions(paths, word)) : s.last = e.last /\ s.score <= e.score
    BY <2>1, <1>1, <1>2, OneSurvives
  <2> QED BY <2>2, <1>3
<1>7. \A w \in walks' : \E s \in paths' : s.last = w.last /\ s.score <= w.score
  <2> SUFFICES ASSUME NEW w \in walks'
               PROVE \E s \in paths' : s.last = w.last /\ s.score <= w.score
    OBVIOUS
  <2>1. PICK v \in walks, b \in B :
          w = [last |-> Shift(v.last, b), from |-> v.last, bits |-> Append(v.bits, b),
               score |-> Distance(Output(v.last, b), word) + v.score]
    BY <1>3 DEF Extensions
  <2>2. PICK p \in paths : p.last = v.last /\ p.score <= v.score
    BY DEF ConvInv, SurvivorsAreNearest
  <2>3. PICK s \in paths' : /\ s.last = Shift(p.last, b)
                            /\ s.score <= Distance(Output(p.last, b), word) + p.score
    BY <1>6
  <2> DEFINE d == Distance(Output(p.last, b), word)
  <2>4. d \in Nat
    BY <1>2, DistanceType
  <2>5. p.score \in Nat /\ v.score \in Nat /\ s.score \in Nat
    BY <1>1, <1>4 DEF TypeOK, Path
  <2>6. w.last = s.last /\ w.score = d + v.score /\ s.score <= d + p.score
    BY <2>1, <2>2, <2>3
  <2> HIDE DEF d
  <2>7. s.score <= w.score
    BY <2>2, <2>4, <2>5, <2>6
  <2> QED BY <2>6, <2>7
<1>8. \E s \in paths' : s.last = 0
  <2>1. PICK p \in paths : p.last = 0
    BY DEF ConvInv, SurvivorsAreNearest
  <2>2. Shift(0, 0) = 0
    BY HalfAssumption DEF Shift
  <2> QED BY <2>1, <2>2, <1>6 DEF B
<1> QED BY <1>4, <1>5, <1>7, <1>8 DEF ConvInv, SurvivorsAreNearest

LEMMA ConvStep == ConvInv /\ [Next]_vars => ConvInv'
<1> SUFFICES ASSUME ConvInv, [Next]_vars PROVE ConvInv'
  OBVIOUS
<1>1. CASE TakeWord
  BY <1>1, TakeWordKeeps
<1>2. CASE Finish
  BY <1>2 DEF Finish, ConvInv, TypeOK, SurvivorsAreNearest
<1>3. CASE UNCHANGED vars
  BY <1>3 DEF vars, ConvInv, TypeOK, SurvivorsAreNearest
<1> QED BY <1>1, <1>2, <1>3 DEF Next

\* One path for each state is enough: whatever the code, the message and the
\* errors, every walk through the trellis meets a survivor that is as near, and
\* decode finds a path that ends with an empty register.
THEOREM ViterbiLosesNothing == Spec => []SurvivorsAreNearest
<1>1. Spec => []ConvInv
  BY ConvInit, ConvStep, PTL DEF Spec
<1>2. ConvInv => SurvivorsAreNearest
  BY DEF ConvInv
<1> QED BY <1>1, <1>2, PTL

-----------------------------------------------------------------------------
(* Induction.  The library's theorems of induction take the property as an *)
(* operator; as a set it can be handed over.                               *)

\* A set of naturals that is not empty has a least one.
LEMMA Least ==
    ASSUME NEW T, T \subseteq Nat, T # {}
    PROVE  \E n \in T : \A m \in T : n <= m
<1> DEFINE R == OpToRel(<, Nat)
<1>1. IsWellFoundedOn(R, Nat)
  BY NatLessThanWellFounded
<1>2. \A x, y \in Nat : x < y => <<x, y>> \in R
  BY DEF OpToRel
<1> HIDE DEF R
<1>3. PICK n \in T : \A m \in T : ~ (<<m, n>> \in R)
  BY <1>1, WFMin
<1>4. ASSUME NEW m \in T PROVE n <= m
  <2>1. ~ (m < n)
    BY <1>2, <1>3
  <2>2. QED
    BY <2>1
<1>5. QED
  BY <1>4

\* A set with 0, and with each number below n the next, has all of them up to n.
LEMMA Induction ==
    ASSUME NEW n \in Nat, NEW S, 0 \in S, \A k \in 0 .. n - 1 : k \in S => k + 1 \in S
    PROVE  \A k \in 0 .. n : k \in S
<1> DEFINE T == {k \in 0 .. n : k \notin S}
<1> SUFFICES ASSUME T # {} PROVE FALSE
  OBVIOUS
<1>1. PICK k \in T : \A j \in T : k <= j
  <2>1. T \subseteq Nat
    OBVIOUS
  <2> HIDE DEF T
  <2>2. QED
    BY <2>1, Least
<1>2. k # 0 /\ k - 1 \in 0 .. n - 1 /\ k - 1 \in 0 .. n /\ (k - 1) + 1 = k
  OBVIOUS
<1>3. k - 1 \in S
  BY <1>1, <1>2
<1>4. QED
  BY <1>2, <1>3

-----------------------------------------------------------------------------
(* The register.                                                           *)

\* The registers are defined for every sequence of bits.
LEMMA RegistersAre ==
    ASSUME NEW bits \in Seq(B)
    PROVE  Registers(bits) = [k \in 0 .. Len(bits) |->
                                IF k = 0 THEN 0 ELSE Shift(Registers(bits)[k - 1], bits[k])]
<1> DEFINE n == Len(bits)
           Run(f, m) == f = [k \in 0 .. m |-> IF k = 0 THEN 0 ELSE Shift(f[k - 1], bits[k])]
           S == {m \in 0 .. n : \E f : Run(f, m)}
<1>1. n \in Nat
  OBVIOUS
<1>2. 0 \in S
  <2> DEFINE f == [k \in 0 .. 0 |-> 0]
  <2>1. f = [k \in 0 .. 0 |-> IF k = 0 THEN 0 ELSE Shift(f[k - 1], bits[k])]
    OBVIOUS
  <2>2. Run(f, 0)
    BY <2>1
  <2>3. 0 \in 0 .. n
    BY <1>1
  <2> HIDE DEF Run, f, n
  <2>4. QED
    BY <2>2, <2>3
<1>3. ASSUME NEW m \in 0 .. n - 1, m \in S PROVE m + 1 \in S
  <2>1. PICK f : Run(f, m)
    BY <1>3
  <2> DEFINE g == [k \in 0 .. m + 1 |-> IF k <= m THEN f[k] ELSE Shift(f[m], bits[m + 1])]
  <2>2. \A k \in 0 .. m : g[k] = f[k] /\ f[k] = IF k = 0 THEN 0 ELSE Shift(f[k - 1], bits[k])
    BY <1>1, <2>1
  <2>3. g[m + 1] = Shift(f[m], bits[m + 1])
    BY <1>1
  <2>4. ASSUME NEW k \in 0 .. m + 1
        PROVE  g[k] = IF k = 0 THEN 0 ELSE Shift(g[k - 1], bits[k])
    <3> HIDE DEF g
    <3>1. CASE k = m + 1
      <4>1. k - 1 = m /\ k # 0 /\ m \in 0 .. m
        BY <1>1, <3>1
      <4>2. g[k - 1] = f[m]
        BY <2>2, <4>1
      <4>3. QED
        BY <2>3, <3>1, <4>1, <4>2
    <3>2. CASE k = 0
      BY <1>1, <2>2, <3>2
    <3>3. CASE k \in 1 .. m
      <4>1. k \in 0 .. m /\ k - 1 \in 0 .. m /\ k # 0
        BY <1>1, <3>3
      <4>2. g[k] = f[k] /\ g[k - 1] = f[k - 1] /\ f[k] = Shift(f[k - 1], bits[k])
        BY <2>2, <4>1
      <4>3. QED
        BY <4>1, <4>2
    <3>4. QED
      BY <1>1, <3>1, <3>2, <3>3
  <2>5. g = [k \in 0 .. m + 1 |-> g[k]]
    OBVIOUS
  <2>6. Run(g, m + 1)
    <3>1. g = [k \in 0 .. m + 1 |-> IF k = 0 THEN 0 ELSE Shift(g[k - 1], bits[k])]
      <4> HIDE DEF g
      <4>1. QED
        BY <2>4, <2>5
    <3>2. QED
      BY <3>1
  <2>7. m + 1 \in 0 .. n
    BY <1>1
  <2> HIDE DEF Run, g
  <2>8. QED
    BY <2>6, <2>7
<1>4. n \in S
  <2> HIDE DEF S
  <2>1. \A k \in 0 .. n : k \in S
    BY <1>1, <1>2, <1>3, Induction
  <2>2. QED
    BY <1>1, <2>1
<1>5. PICK f : Run(f, n)
  BY <1>4
<1>6. Registers(bits) = CHOOSE h : h = [k \in 0 .. Len(bits) |->
                                          IF k = 0 THEN 0 ELSE Shift(h[k - 1], bits[k])]
  BY DEF Registers
<1>7. QED
  BY <1>5, <1>6

\* Each register comes from the one before and a bit (encode).
LEMMA RegisterStep ==
    ASSUME NEW bits \in Seq(B)
    PROVE  /\ DOMAIN Registers(bits) = 0 .. Len(bits)
           /\ Registers(bits)[0] = 0
           /\ \A k \in 1 .. Len(bits) : Registers(bits)[k] = Shift(Registers(bits)[k - 1], bits[k])
<1> DEFINE r == Registers(bits)
<1>1. r = [k \in 0 .. Len(bits) |-> IF k = 0 THEN 0 ELSE Shift(r[k - 1], bits[k])]
  BY RegistersAre
<1>2. Len(bits) \in Nat
  OBVIOUS
<1> HIDE DEF r
<1>3. DOMAIN r = 0 .. Len(bits)
  BY <1>1
<1>4. r[0] = 0
  BY <1>1, <1>2
<1>5. ASSUME NEW k \in 1 .. Len(bits) PROVE r[k] = Shift(r[k - 1], bits[k])
  <2>1. k \in 0 .. Len(bits) /\ k # 0
    BY <1>2
  <2>2. QED
    BY <1>1, <2>1
<1>6. QED
  BY <1>3, <1>4, <1>5 DEF r

\* None holds more than its bits.
LEMMA RegistersType ==
    ASSUME NEW bits \in Seq(B), NEW k \in 0 .. Len(bits)
    PROVE  Registers(bits)[k] \in State
<1> DEFINE n == Len(bits)
           S == {j \in 0 .. n : Registers(bits)[j] \in State}
<1>1. n \in Nat
  OBVIOUS
<1>2. 0 \in S
  BY <1>1, RegisterStep, HalfAssumption DEF State
<1>3. ASSUME NEW j \in 0 .. n - 1, j \in S PROVE j + 1 \in S
  <2>1. j + 1 \in 1 .. n /\ j + 1 \in 0 .. n /\ (j + 1) - 1 = j
    BY <1>1
  <2>2. bits[j + 1] \in B
    BY <2>1
  <2>3. Registers(bits)[j + 1] = Shift(Registers(bits)[j], bits[j + 1])
    BY <2>1, RegisterStep
  <2>4. QED
    BY <1>3, <2>1, <2>2, <2>3, ShiftType
<1>4. \A j \in 0 .. n : j \in S
  <2> HIDE DEF S, n
  <2>1. QED
    BY <1>1, <1>2, <1>3, Induction
<1>5. QED
  BY <1>4

\* Sequences that begin alike lead through the same registers.
LEMMA RegistersAgree ==
    ASSUME NEW a \in Seq(B), NEW b \in Seq(B), NEW n \in Nat, n <= Len(a), n <= Len(b),
           \A k \in 1 .. n : a[k] = b[k]
    PROVE  \A k \in 0 .. n : Registers(a)[k] = Registers(b)[k]
<1> DEFINE S == {j \in 0 .. n : Registers(a)[j] = Registers(b)[j]}
<1>1. 0 \in S
  BY RegisterStep
<1>2. ASSUME NEW j \in 0 .. n - 1, j \in S PROVE j + 1 \in S
  <2>1. /\ j + 1 \in 1 .. Len(a) /\ j + 1 \in 1 .. Len(b) /\ j + 1 \in 1 .. n
        /\ j + 1 \in 0 .. n /\ (j + 1) - 1 = j
    OBVIOUS
  <2>2. Registers(a)[j + 1] = Shift(Registers(a)[j], a[j + 1])
    BY <2>1, RegisterStep
  <2>3. Registers(b)[j + 1] = Shift(Registers(b)[j], b[j + 1])
    BY <2>1, RegisterStep
  <2>4. QED
    BY <1>2, <2>1, <2>2, <2>3
<1>3. \A j \in 0 .. n : j \in S
  <2> HIDE DEF S
  <2>1. QED
    BY <1>1, <1>2, Induction
<1>4. QED
  BY <1>3

\* One more bit leads one register on.
LEMMA RegistersAppend ==
    ASSUME NEW bits \in Seq(B), NEW c \in B
    PROVE  /\ \A k \in 0 .. Len(bits) : Registers(Append(bits, c))[k] = Registers(bits)[k]
           /\ Registers(Append(bits, c))[Len(bits) + 1] = Shift(Registers(bits)[Len(bits)], c)
<1> DEFINE a == Append(bits, c)
           n == Len(bits)
<1>1. /\ n \in Nat /\ a \in Seq(B) /\ Len(a) = n + 1
      /\ a[n + 1] = c /\ \A k \in 1 .. n : a[k] = bits[k]
  OBVIOUS
<1>2. n <= Len(bits)
  BY <1>1
<1> HIDE DEF a, n
<1>3. \A k \in 0 .. n : Registers(a)[k] = Registers(bits)[k]
  BY <1>1, <1>2, RegistersAgree
<1>4. n + 1 \in 1 .. Len(a) /\ (n + 1) - 1 = n /\ n \in 0 .. n
  BY <1>1
<1>5. Registers(a)[n + 1] = Shift(Registers(bits)[n], c)
  BY <1>1, <1>3, <1>4, RegisterStep
<1>6. QED
  BY <1>3, <1>5 DEF a, n

-----------------------------------------------------------------------------
(* The end of a walk.                                                      *)

\* A power of two smaller than the number of states is at most half of it.
LEMMA SmallPowers ==
    \A k \in 0 .. Order - 1 : 2^k \in Nat /\ 2^k <= Half
<1> DEFINE n == Order - 1
           S == {i \in 0 .. n : 2^(n - i) \in Nat /\ 2^(n - i) <= Half}
<1>1. n \in Nat
  BY OrderAssumption
<1>2. 0 \in S
  <2>1. n - 0 = Order - 1 /\ 0 \in 0 .. n
    BY <1>1, OrderAssumption
  <2>2. 2^(n - 0) = Half
    BY <2>1, HalfAssumption
  <2>3. QED
    BY <2>1, <2>2, HalfAssumption
<1>3. ASSUME NEW i \in 0 .. n - 1, i \in S PROVE i + 1 \in S
  <2> DEFINE a == n - i
             b == n - (i + 1)
  <2>1. a \in 1 .. Order /\ b = a - 1 /\ i + 1 \in 0 .. n
    BY <1>1, OrderAssumption
  <2>2. b = 0 \/ b \in 1 .. Order
    BY <2>1, OrderAssumption
  <2>3. 2^a \in Nat /\ 2^a <= Half
    BY <1>3
  <2> HIDE DEF a, b, n
  <2>4. 2^a = 2 * 2^b
    BY <2>1, PowersAssumption
  <2>5. 2^b \in Nat
    <3>1. CASE b = 0
      <4>1. 2^0 \in Nat
        BY PowersAssumption
      <4>2. QED
        BY <3>1, <4>1, Zenon
    <3>2. CASE b \in 1 .. Order
      BY <3>2, PowersAssumption
    <3>3. QED
      BY <2>2, <3>1, <3>2
  <2>6. 2^b <= Half
    <3> DEFINE x == 2^a
               y == 2^b
    <3>1. x \in Nat /\ y \in Nat /\ x = 2 * y /\ x <= Half
      BY <2>3, <2>4, <2>5
    <3> HIDE DEF x, y
    <3>2. y <= Half
      BY <3>1, HalfAssumption
    <3>3. QED
      BY <3>2 DEF y
  <2>7. QED
    BY <2>1, <2>5, <2>6 DEF b
<1>4. \A i \in 0 .. n : i \in S
  <2> HIDE DEF S, n
  <2>1. QED
    BY <1>1, <1>2, <1>3, Induction
<1>5. ASSUME NEW k \in 0 .. n PROVE 2^k \in Nat /\ 2^k <= Half
  <2>1. n - k \in 0 .. n /\ n - (n - k) = k
    BY <1>1
  <2> HIDE DEF n
  <2>2. QED
    BY <1>4, <2>1
<1>6. QED
  BY <1>5

\* Shifting in a zero halves what a register holds, and nothing else halves it.
LEMMA ShiftBound ==
    ASSUME NEW now \in State, NEW bit \in B, NEW k \in 0 .. Order - 1
    PROVE  /\ Shift(now, bit) < 2^k => bit = 0 /\ now < 2^(k + 1)
           /\ now < 2^(k + 1) => Shift(now, 0) < 2^k
<1> DEFINE p == 2^k
           q == 2^(k + 1)
<1>1. p \in Nat /\ p <= Half
  BY SmallPowers
<1>2. q = 2 * p
  <2>1. k + 1 \in 1 .. Order /\ (k + 1) - 1 = k
    BY OrderAssumption
  <2>2. QED
    BY <2>1, PowersAssumption
<1>3. now \in Nat /\ now \div 2 \in Nat /\ (now \div 2 < p <=> now < 2 * p)
  <2> HIDE DEF p
  <2>1. now \in Nat
    BY HalfAssumption DEF State
  <2>2. QED
    BY <2>1, <1>1
<1> DEFINE h == now \div 2
<1>4. Shift(now, 0) = h /\ Shift(now, 1) = Half + h
  BY <1>3, HalfAssumption DEF Shift
<1>5. h \in Nat /\ (h < p <=> now < q)
  BY <1>2, <1>3
<1> HIDE DEF p, q, h
<1>6. bit = 0 \/ bit = 1
  BY DEF B
<1>7. CASE bit = 0
  BY <1>4, <1>5, <1>7 DEF p, q
<1>8. CASE bit = 1
  <2>1. ~ (Half + h < p)
    BY <1>1, <1>5, HalfAssumption
  <2>2. QED
    BY <1>4, <1>5, <1>8, <2>1 DEF p, q
<1>9. QED
  BY <1>6, <1>7, <1>8

\* A padded message is the message and as many zeroes as the register has bits.
LEMMA PaddedIs ==
    ASSUME NEW m \in Seq(B)
    PROVE  /\ Padded(m) \in Seq(B)
           /\ Len(Padded(m)) = Len(m) + Order
           /\ \A i \in 1 .. Len(m) : Padded(m)[i] = m[i]
           /\ \A i \in Len(m) + 1 .. Len(m) + Order : Padded(m)[i] = 0
<1> DEFINE z == [i \in 1 .. Order |-> 0]
<1>1. z \in Seq(B) /\ Len(z) = Order /\ \A i \in 1 .. Order : z[i] = 0
  BY OrderAssumption DEF B
<1>2. Padded(m) = m \o z
  BY DEF Padded
<1> HIDE DEF z
<1>3. Padded(m) \in Seq(B) /\ Len(Padded(m)) = Len(m) + Order
  BY <1>1, <1>2
<1>4. \A i \in 1 .. Len(m) : Padded(m)[i] = m[i]
  BY <1>1, <1>2
<1>5. ASSUME NEW i \in Len(m) + 1 .. Len(m) + Order PROVE Padded(m)[i] = 0
  <2>1. i - Len(m) \in 1 .. Order
    BY OrderAssumption
  <2>2. (m \o z)[i] = z[i - Len(m)]
    BY <1>1, OrderAssumption
  <2>3. QED
    BY <1>1, <1>2, <2>1, <2>2
<1>6. QED
  BY <1>3, <1>4, <1>5

\* An empty register has been emptied: the last bits of the walk are zeroes.
LEMMA EmptiedByZeroes ==
    ASSUME NEW bits \in Seq(B), Len(bits) >= Order, Registers(bits)[Len(bits)] = 0
    PROVE  \A i \in Len(bits) - Order + 1 .. Len(bits) : bits[i] = 0
<1> DEFINE n == Len(bits)
           r == Registers(bits)
           S == {j \in 0 .. Order : r[n - j] < 2^j /\ \A i \in n - j + 1 .. n : bits[i] = 0}
<1>1. n \in Nat /\ Order \in Nat /\ Order <= n /\ r[n] = 0
  BY OrderAssumption
<1>2. \A k \in 0 .. n : r[k] \in State
  BY RegistersType
<1>3. \A k \in 1 .. n : r[k] = Shift(r[k - 1], bits[k]) /\ bits[k] \in B
  BY RegisterStep
<1> HIDE DEF n, r
<1>4. 0 \in S
  <2>1. n - 0 = n /\ 0 \in 0 .. Order
    BY <1>1
  <2>2. r[n - 0] < 2^0
    <3>1. 2^0 = 1
      BY PowersAssumption
    <3> DEFINE p == 2^0
    <3>2. p = 1
      BY <3>1
    <3> HIDE DEF p
    <3>3. r[n - 0] < p
      BY <1>1, <2>1, <3>2
    <3>4. QED
      BY <3>3 DEF p
  <2>3. \A i \in n - 0 + 1 .. n : bits[i] = 0
    BY <1>1
  <2>4. QED
    BY <2>1, <2>2, <2>3
<1>5. ASSUME NEW j \in 0 .. Order - 1, j \in S PROVE j + 1 \in S
  <2> DEFINE k == n - j
  <2>1. k \in 1 .. n /\ k - 1 \in 0 .. n /\ n - (j + 1) = k - 1 /\ n - (j + 1) + 1 = k
        /\ j + 1 \in 0 .. Order
    BY <1>1
  <2>2. Shift(r[k - 1], bits[k]) < 2^j
    BY <1>3, <1>5, <2>1
  <2>3. r[k - 1] \in State /\ bits[k] \in B
    BY <1>2, <1>3, <2>1
  <2>4. bits[k] = 0 /\ r[k - 1] < 2^(j + 1)
    BY <2>2, <2>3, ShiftBound
  <2>5. \A i \in k .. n : i = k \/ i \in n - j + 1 .. n
    BY <1>1, <2>1
  <2>6. \A i \in n - j + 1 .. n : bits[i] = 0
    BY <1>5
  <2> HIDE DEF k
  <2>7. \A i \in k .. n : bits[i] = 0
    BY <2>4, <2>5, <2>6
  <2>8. QED
    BY <2>1, <2>4, <2>7
<1>6. \A j \in 0 .. Order : j \in S
  <2> HIDE DEF S
  <2>1. QED
    BY <1>1, <1>4, <1>5, Induction
<1>7. Order \in S
  <2> HIDE DEF S
  <2>1. QED
    BY <1>1, <1>6
<1>8. QED
  BY <1>7 DEF n

\* And the zeroes that follow a message empty it.
LEMMA ZeroesEmpty ==
    ASSUME NEW bits \in Seq(B), Len(bits) >= Order,
           \A i \in Len(bits) - Order + 1 .. Len(bits) : bits[i] = 0
    PROVE  Registers(bits)[Len(bits)] = 0
<1> DEFINE n == Len(bits)
           r == Registers(bits)
           S == {d \in 0 .. Order : r[n - Order + d] < 2^(Order - d)}
<1>1. n \in Nat /\ Order \in Nat /\ Order >= 1 /\ Order <= n
      /\ \A i \in n - Order + 1 .. n : bits[i] = 0
  BY OrderAssumption
<1>2. \A k \in 0 .. n : r[k] \in State
  BY RegistersType
<1>3. \A k \in 1 .. n : r[k] = Shift(r[k - 1], bits[k])
  BY RegisterStep
<1> HIDE DEF n, r
<1>4. 0 \in S
  <2> DEFINE p == 2^Order
             h == 2^(Order - 1)
  <2>1. n - Order + 0 \in 0 .. n /\ Order - 0 = Order /\ 0 \in 0 .. Order /\ Order \in 1 .. Order
    BY <1>1
  <2>2. p = 2 * h /\ h = Half
    BY <2>1, PowersAssumption, HalfAssumption
  <2>3. r[n - Order + 0] \in State
    BY <1>2, <2>1
  <2> HIDE DEF p, h
  <2>4. r[n - Order + 0] < p
    BY <2>2, <2>3, HalfAssumption DEF State
  <2>5. QED
    BY <2>1, <2>4 DEF p
<1>5. ASSUME NEW d \in 0 .. Order - 1, d \in S PROVE d + 1 \in S
  <2> DEFINE k == n - Order + (d + 1)
             e == Order - (d + 1)
  <2>1. /\ k \in 1 .. n /\ k - 1 \in 0 .. n /\ k - 1 = n - Order + d /\ k \in n - Order + 1 .. n
        /\ e \in 0 .. Order - 1 /\ e + 1 = Order - d /\ d + 1 \in 0 .. Order
    BY <1>1
  <2>2. bits[k] = 0 /\ r[k - 1] \in State /\ r[k] = Shift(r[k - 1], bits[k])
    BY <1>1, <1>2, <1>3, <2>1
  <2>3. r[k - 1] < 2^(e + 1)
    BY <1>5, <2>1
  <2>4. 0 \in B
    BY DEF B
  <2> HIDE DEF k, e
  <2>5. Shift(r[k - 1], 0) < 2^e
    BY <2>1, <2>2, <2>3, <2>4, ShiftBound
  <2>6. r[k] < 2^e
    BY <2>2, <2>5
  <2>7. QED
    BY <2>1, <2>6 DEF k, e
<1>6. \A d \in 0 .. Order : d \in S
  <2> HIDE DEF S
  <2>1. QED
    BY <1>1, <1>4, <1>5, Induction
<1>7. r[n - Order + Order] < 2^(Order - Order)
  <2>1. Order \in S
    <3> HIDE DEF S
    <3>1. QED
      BY <1>1, <1>6
  <2>2. QED
    BY <2>1
<1>8. r[n] < 1
  <2>1. n - Order + Order = n /\ Order - Order = 0
    BY <1>1
  <2>2. r[n] < 2^0
    BY <1>7, <2>1
  <2>3. 2^0 = 1
    BY PowersAssumption
  <2>4. QED
    BY <2>2, <2>3
<1>9. r[n] \in Nat
  BY <1>1, <1>2, HalfAssumption DEF State
<1>10. QED
  BY <1>8, <1>9 DEF n, r

-----------------------------------------------------------------------------
(* The score.                                                              *)

\* The places up to the k-th word in which what the bits give differs from words.
Errs(bits, words, k) ==
    {x \in (1 .. k) \X (1 .. Len(Generators)) :
        Output(Registers(bits)[x[1] - 1], bits[x[1]])[x[2]] # words[x[1]][x[2]]}

\* They can be counted.
LEMMA ErrsFinite ==
    ASSUME NEW bits, NEW words, NEW k \in Nat
    PROVE  IsFiniteSet(Errs(bits, words, k)) /\ Cardinality(Errs(bits, words, k)) \in Nat
<1> DEFINE P == (1 .. k) \X (1 .. Len(Generators))
<1>1. Len(Generators) \in Nat
  BY GeneratorsAssumption
<1>2. IsFiniteSet(1 .. k) /\ IsFiniteSet(1 .. Len(Generators))
  BY <1>1, FS_Interval
<1>3. IsFiniteSet(P)
  BY <1>2, FS_Product
<1>4. Errs(bits, words, k) \in SUBSET P
  BY DEF Errs
<1> HIDE DEF P
<1>5. QED
  BY <1>3, <1>4, FS_Subset, FS_CardinalityType

\* One more word adds its distance.
LEMMA ErrsAppend ==
    ASSUME NEW bits \in Seq(B), NEW c \in B, NEW words \in Seq(Seq(B)),
           Len(bits) + 1 \in DOMAIN words,
           Len(words[Len(bits) + 1]) = Len(Generators)
    PROVE  Cardinality(Errs(Append(bits, c), words, Len(bits) + 1)) =
             Distance(Output(Registers(bits)[Len(bits)], c), words[Len(bits) + 1])
               + Cardinality(Errs(bits, words, Len(bits)))
<1> DEFINE a == Append(bits, c)
           n == Len(bits)
           L == Len(Generators)
           word == words[n + 1]
           out == Output(Registers(bits)[n], c)
           D == {i \in 1 .. L : out[i] # word[i]}
           New == {n + 1} \X D
           Old == Errs(bits, words, n)
           All == Errs(a, words, n + 1)
<1>1. /\ n \in Nat /\ a[n + 1] = c /\ \A k \in 1 .. n : a[k] = bits[k]
  OBVIOUS
<1>2. /\ \A k \in 0 .. n : Registers(a)[k] = Registers(bits)[k]
  BY RegistersAppend
<1>3. L \in Nat /\ word \in Seq(B) /\ Len(word) = L /\ DOMAIN word = 1 .. L
  <2>1. word \in Seq(B)
    OBVIOUS
  <2>2. QED
    BY <2>1, GeneratorsAssumption
<1>4. Distance(out, word) = Cardinality(D)
  BY <1>3 DEF Distance
<1>5. IsFiniteSet(D)
  <2>1. IsFiniteSet(1 .. L)
    BY <1>3, FS_Interval
  <2>2. D \in SUBSET (1 .. L)
    OBVIOUS
  <2> HIDE DEF D, L
  <2>3. QED
    BY <2>1, <2>2, FS_Subset
<1> HIDE DEF D
<1>6. IsFiniteSet(New) /\ Cardinality(New) = Cardinality(D)
  <2>1. IsFiniteSet({n + 1}) /\ Cardinality({n + 1}) = 1
    BY FS_Singleton
  <2>2. Cardinality(D) \in Nat
    BY <1>5, FS_CardinalityType
  <2>3. IsFiniteSet(New) /\ Cardinality(New) = Cardinality({n + 1}) * Cardinality(D)
    BY <1>5, <2>1, FS_Product
  <2>4. QED
    BY <2>1, <2>2, <2>3
<1>7. IsFiniteSet(Old) /\ Cardinality(Old) \in Nat
  BY <1>1, ErrsFinite
<1>8. Old \cap New = {}
  BY <1>1 DEF Errs
<1>9. All = Old \cup New
  <2> HIDE DEF n, a, L
  <2>1. ASSUME NEW k \in 1 .. n, NEW i \in 1 .. L
        PROVE  <<k, i>> \in All <=> <<k, i>> \in Old
    <3>1. k - 1 \in 0 .. n /\ k \in 1 .. n + 1
      BY <1>1
    <3>2. a[k] = bits[k] /\ Registers(a)[k - 1] = Registers(bits)[k - 1]
      BY <1>1, <1>2, <3>1
    <3>3. QED
      BY <3>1, <3>2 DEF Errs, L
  <2>2. ASSUME NEW i \in 1 .. L
        PROVE  <<n + 1, i>> \in All <=> <<n + 1, i>> \in New
    <3>1. (n + 1) - 1 = n /\ n \in 0 .. n /\ n + 1 \in 1 .. n + 1
      BY <1>1
    <3>2. a[n + 1] = c /\ Registers(a)[(n + 1) - 1] = Registers(bits)[n]
      BY <1>1, <1>2, <3>1
    <3>3. <<n + 1, i>> \in All <=> out[i] # word[i]
      BY <3>1, <3>2 DEF Errs, L
    <3>4. QED
      BY <3>3 DEF D
  <2>3. \A x : x \in All => \E k \in 1 .. n + 1 : \E i \in 1 .. L : x = <<k, i>>
    BY DEF Errs, L
  <2>4. \A x : x \in Old \cup New => \E k \in 1 .. n + 1 : \E i \in 1 .. L : x = <<k, i>>
    <3>1. \A x \in Old : \E k \in 1 .. n + 1 : \E i \in 1 .. L : x = <<k, i>>
      <4>1. \A x \in Old : \E k \in 1 .. n : \E i \in 1 .. L : x = <<k, i>>
        BY DEF Errs, L
      <4>2. \A k \in 1 .. n : k \in 1 .. n + 1
        BY <1>1
      <4> HIDE DEF Old
      <4>3. QED
        BY <4>1, <4>2
    <3>2. \A x \in New : \E i \in 1 .. L : x = <<n + 1, i>>
      BY DEF D
    <3>3. n + 1 \in 1 .. n + 1
      BY <1>1
    <3> HIDE DEF Old, New
    <3>4. QED
      BY <3>1, <3>2, <3>3
  <2>5. \A k \in 1 .. n + 1 : k \in 1 .. n \/ k = n + 1
    BY <1>1
  <2>6. \A k \in 1 .. n : \A i : <<k, i>> \notin New
    BY <1>1
  <2>7. \A i : <<n + 1, i>> \notin Old
    BY <1>1 DEF Errs
  <2> HIDE DEF All, Old, New
  <2>8. ASSUME NEW k \in 1 .. n + 1, NEW i \in 1 .. L
        PROVE  <<k, i>> \in All <=> <<k, i>> \in Old \cup New
    BY <2>1, <2>2, <2>5, <2>6, <2>7
  <2>9. QED
    BY <2>3, <2>4, <2>8
<1>10. Cardinality(All) = Cardinality(Old) + Cardinality(New)
  <2>1. Cardinality(New) \in Nat
    BY <1>6, FS_CardinalityType
  <2>2. Cardinality(Old \cup New) = Cardinality(Old) + Cardinality(New) - Cardinality(Old \cap New)
    BY <1>6, <1>7, FS_Union
  <2>3. Cardinality(Old \cap New) = 0
    BY <1>8, FS_EmptySet
  <2>4. Cardinality(Old) \in Nat /\ All = Old \cup New
    BY <1>7, <1>9
  <2> HIDE DEF Old, New, All, n, a, L
  <2>5. QED
    BY <2>1, <2>2, <2>3, <2>4
<1>11. QED
  <2>1. Cardinality(D) \in Nat
    BY <1>5, FS_CardinalityType
  <2> HIDE DEF Old, New, All, out, word
  <2>2. Cardinality(All) = Distance(out, word) + Cardinality(Old)
    BY <1>4, <1>6, <1>7, <1>10, <2>1
  <2>3. QED
    BY <2>2 DEF All, out, word, Old, n, a

\* The distance of an encoding is what its walk has missed.
LEMMA EncodeDistance ==
    ASSUME NEW m \in Seq(B), NEW words
    PROVE  WordDistance(Encode(m), words) =
             Cardinality(Errs(Padded(m), words, Len(m) + Order))
<1> DEFINE n == Len(m) + Order
<1>1. Padded(m) \in Seq(B) /\ Len(Padded(m)) = n
  BY PaddedIs
<1>2. Encode(m) = [k \in 1 .. n |-> Output(Registers(Padded(m))[k - 1], Padded(m)[k])]
  BY <1>1 DEF Encode
<1>3. Len(Encode(m)) = n
  BY <1>2, OrderAssumption
<1> HIDE DEF n
<1>4. {x \in (1 .. n) \X (1 .. Len(Generators)) : Encode(m)[x[1]][x[2]] # words[x[1]][x[2]]}
        = Errs(Padded(m), words, n)
  BY <1>2 DEF Errs
<1>5. QED
  BY <1>3, <1>4 DEF WordDistance, n

-----------------------------------------------------------------------------
(* The invariant of the decoder that keeps every walk.                     *)

\* What was received has as many words, of as many bits, as what was sent.
WordsInv ==
    /\ sent \in Seq(B)
    /\ Len(received) = Len(sent) + Order
    /\ \A k \in 1 .. Len(received) : Len(received[k]) = Len(Generators)

\* There is a walk for every sequence of bits; it ends where they lead, and its
\* score counts the bits in which they differ from what was received.
WalksInv ==
    /\ \A w \in walks : /\ Len(w.bits) = at
                        /\ w.last = Registers(w.bits)[at]
                        /\ w.score = Cardinality(Errs(w.bits, received, at))
    /\ \A bits \in [1 .. at -> B] : \E w \in walks : w.bits = bits

\* decode returns the nearest of the walks that end with an empty register.
DecodedInv ==
    decoded # Undecoded =>
        /\ at = Len(received)
        /\ \E p \in walks :
              /\ p.last = 0
              /\ decoded = [bits |-> SubSeq(p.bits, 1, Len(p.bits) - Order), score |-> p.score]
              /\ \A w \in walks : w.last = 0 => p.score <= w.score

DecoderInv == ConvInv /\ WordsInv /\ WalksInv /\ DecodedInv

\* The channel loses and adds nothing.
LEMMA TurnedLen ==
    ASSUME NEW m \in Message, NEW errors
    PROVE  /\ m \in Seq(B)
           /\ Len(Turned(m, errors)) = Len(m) + Order
           /\ \A k \in 1 .. Len(Turned(m, errors)) : Len(Turned(m, errors)[k]) = Len(Generators)
<1>1. m \in Seq(B)
  <2>1. PICK n \in 0 .. MaxLen : m \in [1 .. n -> B]
    BY DEF Message
  <2>2. QED
    BY <2>1, SMT
<1> DEFINE n == Len(Padded(m))
<1>2. n = Len(m) + Order /\ n \in Nat
  BY <1>1, PaddedIs, OrderAssumption
<1>3. Len(Encode(m)) = n
  BY <1>2 DEF Encode
<1> DEFINE L == Len(Generators)
           word(k) == [i \in 1 .. L |->
                         IF <<k, i>> \in errors THEN 1 - Encode(m)[k][i] ELSE Encode(m)[k][i]]
<1>4. Turned(m, errors) = [k \in 1 .. n |-> word(k)]
  BY <1>3 DEF Turned
<1>5. \A k : Len(word(k)) = L
  <2>1. L \in Nat
    BY GeneratorsAssumption
  <2>2. QED
    BY <2>1
<1> HIDE DEF word, n
<1>6. Len(Turned(m, errors)) = n /\ \A k \in 1 .. n : Turned(m, errors)[k] = word(k)
  BY <1>2, <1>4
<1>7. QED
  BY <1>1, <1>2, <1>5, <1>6

LEMMA DecoderInit == Init => DecoderInv
<1> SUFFICES ASSUME Init PROVE DecoderInv
  OBVIOUS
<1>1. ConvInv
  BY ConvInit
<1>2. WordsInv
  <2>1. sent \in Message
    BY DEF Init
  <2>2. PICK errors : received = Turned(sent, errors)
    BY DEF Init
  <2>3. QED
    BY <2>1, <2>2, TurnedLen DEF WordsInv
<1>3. WalksInv
  <2>1. at = 0 /\ walks = {Start}
    BY DEF Init
  <2>2. Errs(<<>>, received, 0) = {}
    BY DEF Errs
  <2>3. Cardinality({}) = 0
    BY FS_EmptySet
  <2>4. Registers(<<>>)[0] = 0
    <3>1. <<>> \in Seq(B)
      OBVIOUS
    <3>2. QED
      BY <3>1, RegisterStep
  <2>5. \A w \in walks : w.bits = <<>> /\ Len(w.bits) = 0 /\ w.last = 0 /\ w.score = 0
    BY <2>1 DEF Start
  <2>6. \A bits \in [1 .. 0 -> B] : bits = <<>>
    OBVIOUS
  <2>7. QED
    BY <2>1, <2>2, <2>3, <2>4, <2>5, <2>6 DEF WalksInv, Start
<1>4. DecodedInv
  BY DEF Init, DecodedInv
<1>5. QED
  BY <1>1, <1>2, <1>3, <1>4 DEF DecoderInv

LEMMA TakeWordWalks == DecoderInv /\ TakeWord => WalksInv'
<1> SUFFICES ASSUME DecoderInv, TakeWord PROVE WalksInv'
  OBVIOUS
<1> DEFINE n == at + 1
           word == received[n]
<1>1. /\ received \in Seq(Seq(B)) /\ at \in Nat /\ n \in DOMAIN received /\ word \in Seq(B)
      /\ walks \subseteq Path /\ Len(word) = Len(Generators)
  <2>1. received \in Seq(Seq(B)) /\ at \in 0 .. Len(received) /\ walks \subseteq Path
    BY DEF DecoderInv, ConvInv, TypeOK
  <2>2. at < Len(received)
    BY DEF TakeWord
  <2>3. QED
    BY <2>1, <2>2 DEF DecoderInv, WordsInv
<1>2. at' = n /\ received' = received /\ walks' = Extensions(walks, word)
  BY DEF TakeWord
<1>3. /\ \A w \in walks : /\ Len(w.bits) = at
                          /\ w.last = Registers(w.bits)[at]
                          /\ w.score = Cardinality(Errs(w.bits, received, at))
      /\ \A bits \in [1 .. at -> B] : \E w \in walks : w.bits = bits
  BY DEF DecoderInv, WalksInv
<1>4. ASSUME NEW w \in walks'
      PROVE  /\ Len(w.bits) = n
             /\ w.last = Registers(w.bits)[n]
             /\ w.score = Cardinality(Errs(w.bits, received, n))
  <2>1. PICK v \in walks, b \in B :
          w = [last |-> Shift(v.last, b), from |-> v.last, bits |-> Append(v.bits, b),
               score |-> Distance(Output(v.last, b), word) + v.score]
    BY <1>2 DEF Extensions
  <2>2. v.bits \in Seq(B) /\ Len(v.bits) = at
    BY <1>1, <1>3 DEF Path
  <2>3. Len(w.bits) = n
    BY <2>1, <2>2
  <2>4. w.last = Registers(w.bits)[n]
    BY <1>3, <2>1, <2>2, RegistersAppend
  <2>5. Cardinality(Errs(Append(v.bits, b), received, Len(v.bits) + 1)) =
             Distance(Output(Registers(v.bits)[Len(v.bits)], b), received[Len(v.bits) + 1])
               + Cardinality(Errs(v.bits, received, Len(v.bits)))
    BY <1>1, <2>2, ErrsAppend
  <2>6. w.score = Cardinality(Errs(w.bits, received, n))
    BY <1>3, <2>1, <2>2, <2>5
  <2>7. QED
    BY <2>3, <2>4, <2>6
<1>5. ASSUME NEW bits \in [1 .. n -> B] PROVE \E w \in walks' : w.bits = bits
  <2> DEFINE a == [k \in 1 .. at |-> bits[k]]
             c == bits[n]
  <2>1. c \in B /\ a \in [1 .. at -> B]
    BY <1>1
  <2>2. PICK v \in walks : v.bits = a
    BY <1>3, <2>1
  <2>3. v.bits \in Seq(B)
    BY <1>1 DEF Path
  <2>4. Append(a, c) = bits
    <3>1. a \in Seq(B) /\ Len(a) = at
      BY <1>1, <2>2, <2>3
    <3>2. bits \in Seq(B) /\ Len(bits) = n
      BY <1>1, SMT
    <3>3. \A k \in 1 .. at : a[k] = bits[k]
      OBVIOUS
    <3> HIDE DEF a
    <3>4. Append(a, c) \in Seq(B) /\ Len(Append(a, c)) = n
      BY <2>1, <3>1
    <3>5. \A k \in 1 .. n : Append(a, c)[k] = bits[k]
      BY <1>1, <2>1, <3>1, <3>3
    <3> HIDE DEF c
    <3>6. QED
      BY <3>2, <3>4, <3>5, SeqEqual
  <2> DEFINE w == [last |-> Shift(v.last, c), from |-> v.last, bits |-> Append(v.bits, c),
                   score |-> Distance(Output(v.last, c), word) + v.score]
  <2>5. w \in walks'
    BY <1>2, <2>1, ExtensionOf
  <2>6. w.bits = bits
    BY <2>2, <2>4
  <2>7. QED
    BY <2>5, <2>6
<1> HIDE DEF n
<1>6. QED
  BY <1>2, <1>4, <1>5 DEF WalksInv

LEMMA FinishDecoded == DecoderInv /\ Finish => DecodedInv'
<1> SUFFICES ASSUME DecoderInv, Finish PROVE DecodedInv'
  OBVIOUS
<1>1. PICK p \in paths :
        /\ p.last = 0
        /\ decoded' = [bits |-> SubSeq(p.bits, 1, Len(p.bits) - Order), score |-> p.score]
  BY DEF Finish
<1>2. p \in walks
  BY DEF DecoderInv, ConvInv, SurvivorsAreNearest
<1>3. ASSUME NEW w \in walks, w.last = 0 PROVE p.score <= w.score
  <2>1. PICK q \in paths : q.last = w.last /\ q.score <= w.score
    BY DEF DecoderInv, ConvInv, SurvivorsAreNearest
  <2>2. q = p
    BY <1>1, <1>3, <2>1 DEF DecoderInv, ConvInv, TypeOK
  <2>3. QED
    BY <2>1, <2>2
<1>4. at' = Len(received') /\ walks' = walks
  BY DEF Finish
<1>5. QED
  BY <1>1, <1>2, <1>3, <1>4 DEF DecodedInv

LEMMA DecoderStep == DecoderInv /\ [Next]_vars => DecoderInv'
<1> SUFFICES ASSUME DecoderInv, [Next]_vars PROVE DecoderInv'
  OBVIOUS
<1>1. ConvInv'
  BY ConvStep DEF DecoderInv
<1>2. WordsInv'
  BY DEF DecoderInv, WordsInv, Next, TakeWord, Finish, vars
<1>3. CASE TakeWord
  <2>1. DecodedInv'
    <3>1. decoded = Undecoded
      BY <1>3, OrderAssumption DEF DecoderInv, DecodedInv, TakeWord, ConvInv, TypeOK
    <3>2. QED
      BY <1>3, <3>1 DEF TakeWord, DecodedInv
  <2>2. QED
    BY <1>1, <1>2, <1>3, <2>1, TakeWordWalks DEF DecoderInv
<1>4. CASE Finish
  <2>1. WalksInv'
    <3>1. at' = at /\ walks' = walks /\ received' = received
      BY <1>4 DEF Finish
    <3>2. QED
      BY <3>1 DEF DecoderInv, WalksInv, Errs
  <2>2. QED
    BY <1>1, <1>2, <1>4, <2>1, FinishDecoded DEF DecoderInv
<1>5. CASE UNCHANGED vars
  <2>1. WalksInv' /\ DecodedInv'
    BY <1>5 DEF vars, DecoderInv, WalksInv, DecodedInv, Errs
  <2>2. QED
    BY <1>1, <1>2, <2>1 DEF DecoderInv
<1>6. QED
  BY <1>3, <1>4, <1>5 DEF Next

-----------------------------------------------------------------------------
(* What decode returns.                                                    *)

\* A walk that ends with an empty register is a message and the zeroes that
\* emptied it.
LEMMA CutAndPadded ==
    ASSUME NEW bits \in Seq(B), Len(bits) >= Order, Registers(bits)[Len(bits)] = 0
    PROVE  LET m == SubSeq(bits, 1, Len(bits) - Order)
           IN  m \in Seq(B) /\ Len(m) = Len(bits) - Order /\ Padded(m) = bits
<1> DEFINE m == SubSeq(bits, 1, Len(bits) - Order)
           n == Len(bits)
<1>1. n \in Nat /\ Order \in Nat /\ Order <= n
  BY OrderAssumption
<1>2. m \in Seq(B) /\ Len(m) = n - Order /\ \A i \in 1 .. n - Order : m[i] = bits[i]
  <2>1. \A i \in 1 .. n - Order : bits[i] \in B
    BY <1>1
  <2>2. QED
    BY <1>1, <2>1, SubSeqProperties
<1> HIDE DEF m
<1>3. /\ Padded(m) \in Seq(B) /\ Len(Padded(m)) = n
      /\ \A i \in 1 .. n - Order : Padded(m)[i] = m[i]
      /\ \A i \in n - Order + 1 .. n : Padded(m)[i] = 0
  <2>1. Len(m) + Order = n
    BY <1>1, <1>2
  <2>2. QED
    BY <1>2, <2>1, PaddedIs
<1>4. \A i \in n - Order + 1 .. n : bits[i] = 0
  BY EmptiedByZeroes
<1>5. \A i \in 1 .. n : Padded(m)[i] = bits[i]
  <2>1. \A i \in 1 .. n : i \in 1 .. n - Order \/ i \in n - Order + 1 .. n
    BY <1>1
  <2>2. QED
    BY <1>2, <1>3, <1>4, <2>1
<1>6. Padded(m) = bits
  BY <1>3, <1>5, SeqEqual
<1>7. QED
  BY <1>2, <1>6 DEF m

\* A padded message ends with one.
LEMMA PaddedEmpties ==
    ASSUME NEW m \in Seq(B)
    PROVE  Registers(Padded(m))[Len(Padded(m))] = 0
<1> DEFINE bits == Padded(m)
<1>1. /\ bits \in Seq(B) /\ Len(bits) = Len(m) + Order
      /\ \A i \in Len(m) + 1 .. Len(m) + Order : bits[i] = 0
  BY PaddedIs
<1> HIDE DEF bits
<1>2. Len(bits) >= Order /\ \A i \in Len(bits) - Order + 1 .. Len(bits) : bits[i] = 0
  BY <1>1, OrderAssumption
<1>3. QED
  BY <1>1, <1>2, ZeroesEmpty DEF bits

\* What decode returned is as far as it says from what was received, and no
\* message is nearer.
LEMMA NearestMessage ==
    ASSUME DecoderInv, decoded # Undecoded
    PROVE  /\ decoded = [bits |-> decoded.bits, score |-> decoded.score]
           /\ decoded.bits \in [1 .. Len(sent) -> B]
           /\ WordDistance(Encode(decoded.bits), received) = decoded.score
           /\ \A m \in [1 .. Len(sent) -> B] :
                 decoded.score <= WordDistance(Encode(m), received)
<1> DEFINE n == Len(received)
<1>1. at = n /\ n = Len(sent) + Order /\ Len(sent) \in Nat /\ Order \in Nat
  BY OrderAssumption DEF DecoderInv, DecodedInv, WordsInv
<1>2. PICK p \in walks :
        /\ p.last = 0
        /\ decoded = [bits |-> SubSeq(p.bits, 1, Len(p.bits) - Order), score |-> p.score]
        /\ \A w \in walks : w.last = 0 => p.score <= w.score
  BY DEF DecoderInv, DecodedInv
<1>3. /\ p.bits \in Seq(B) /\ Len(p.bits) = n /\ Registers(p.bits)[n] = 0
      /\ p.score = Cardinality(Errs(p.bits, received, n))
  <2>1. p.bits \in Seq(B)
    BY DEF DecoderInv, ConvInv, TypeOK, Path
  <2>2. QED
    BY <1>1, <1>2, <2>1 DEF DecoderInv, WalksInv
<1> DEFINE d == SubSeq(p.bits, 1, Len(p.bits) - Order)
<1>4. d \in Seq(B) /\ Len(d) = Len(sent) /\ Padded(d) = p.bits
  <2>1. Len(p.bits) >= Order /\ Len(p.bits) - Order = Len(sent)
    BY <1>1, <1>3
  <2>2. d \in Seq(B) /\ Len(d) = Len(p.bits) - Order /\ Padded(d) = p.bits
    BY <1>3, <2>1, CutAndPadded
  <2> HIDE DEF d
  <2>3. QED
    BY <2>1, <2>2
<1> HIDE DEF d
<1>5. decoded.bits = d /\ decoded.score = p.score /\ decoded = [bits |-> d, score |-> p.score]
  BY <1>2 DEF d
<1>6. WordDistance(Encode(d), received) = p.score
  BY <1>1, <1>3, <1>4, EncodeDistance
<1>7. ASSUME NEW m \in [1 .. Len(sent) -> B]
      PROVE  p.score <= WordDistance(Encode(m), received)
  <2>1. m \in Seq(B) /\ Len(m) = Len(sent)
    BY <1>1, SMT
  <2>2. Padded(m) \in Seq(B) /\ Len(Padded(m)) = n
    BY <1>1, <2>1, PaddedIs
  <2>3. Padded(m) \in [1 .. at -> B]
    BY <1>1, <2>2
  <2>4. PICK w \in walks : w.bits = Padded(m)
    BY <2>3 DEF DecoderInv, WalksInv
  <2>5. w.last = Registers(Padded(m))[n] /\ w.score = Cardinality(Errs(Padded(m), received, n))
    BY <1>1, <2>4 DEF DecoderInv, WalksInv
  <2>6. w.last = 0
    BY <2>1, <2>2, <2>5, PaddedEmpties
  <2>7. w.score = WordDistance(Encode(m), received)
    BY <1>1, <2>1, <2>5, EncodeDistance
  <2>8. QED
    BY <1>2, <2>4, <2>6, <2>7
<1>8. d \in [1 .. Len(sent) -> B]
  BY <1>4
<1>9. QED
  BY <1>5, <1>6, <1>7, <1>8

LEMMA NearestDecoded == DecoderInv => DecodedIsNearest
<1> SUFFICES ASSUME DecoderInv, decoded # Undecoded
    PROVE /\ WordDistance(Encode(decoded.bits), received) = decoded.score
          /\ \A m \in [1 .. Len(received) - Order -> B] :
               decoded.score <= WordDistance(Encode(m), received)
  BY DEF DecodedIsNearest
<1>1. Len(received) - Order = Len(sent)
  BY OrderAssumption DEF DecoderInv, WordsInv
<1>2. QED
  BY <1>1, NearestMessage

\* The distance of two encodings is at most that of each to a third word.
LEMMA DistanceTriangle ==
    ASSUME NEW u, NEW v, NEW w, Len(u) \in Nat, Len(v) = Len(u)
    PROVE  /\ WordDistance(u, v) <= WordDistance(u, w) + WordDistance(v, w)
           /\ WordDistance(u, v) \in Nat /\ WordDistance(u, w) \in Nat
           /\ WordDistance(v, w) \in Nat
<1> DEFINE P == (1 .. Len(u)) \X (1 .. Len(Generators))
           Diff(s, t) == {x \in P : s[x[1]][x[2]] # t[x[1]][x[2]]}
           UV == Diff(u, v)
           UW == Diff(u, w)
           VW == Diff(v, w)
<1>1. IsFiniteSet(P)
  <2>1. IsFiniteSet(1 .. Len(u)) /\ IsFiniteSet(1 .. Len(Generators))
    BY GeneratorsAssumption, FS_Interval
  <2>2. QED
    BY <2>1, FS_Product
<1>2. WordDistance(u, v) = Cardinality(UV) /\ WordDistance(u, w) = Cardinality(UW)
      /\ WordDistance(v, w) = Cardinality(VW)
  BY DEF WordDistance
<1>3. UV \subseteq UW \cup VW
  OBVIOUS
<1>4. UV \in SUBSET P /\ UW \in SUBSET P /\ VW \in SUBSET P
  OBVIOUS
<1> HIDE DEF P, UV, UW, VW
<1>5. IsFiniteSet(UV) /\ IsFiniteSet(UW) /\ IsFiniteSet(VW)
  BY <1>1, <1>4, FS_Subset
<1>6. Cardinality(UV) \in Nat /\ Cardinality(UW) \in Nat /\ Cardinality(VW) \in Nat
  BY <1>5, FS_CardinalityType
<1>7. IsFiniteSet(UW \cup VW)
      /\ Cardinality(UW \cup VW) = Cardinality(UW) + Cardinality(VW) - Cardinality(UW \cap VW)
  BY <1>5, FS_Union
<1>8. Cardinality(UV) <= Cardinality(UW \cup VW)
  BY <1>3, <1>7, FS_Subset
<1>9. Cardinality(UW \cap VW) \in Nat
  BY <1>5, FS_Intersection, FS_CardinalityType
<1>10. Cardinality(UV) <= Cardinality(UW) + Cardinality(VW)
  BY <1>6, <1>7, <1>8, <1>9
<1>11. QED
  BY <1>2, <1>6, <1>10

\* Another message is further from what was received than the one sent.
LEMMA CorrectedDecoded == DecoderInv => ErrorsCorrected
<1> DEFINE errors == WordDistance(Encode(sent), received)
<1> SUFFICES ASSUME DecoderInv, decoded # Undecoded,
                    \A m \in [1 .. Len(sent) -> B] \ {sent} :
                        2 * errors < WordDistance(Encode(m), Encode(sent))
             PROVE  decoded = [bits |-> sent, score |-> errors]
  BY DEF ErrorsCorrected
<1> DEFINE d == decoded.bits
           score == decoded.score
<1>1. /\ decoded = [bits |-> d, score |-> score]
      /\ d \in [1 .. Len(sent) -> B]
      /\ WordDistance(Encode(d), received) = score
      /\ \A m \in [1 .. Len(sent) -> B] : score <= WordDistance(Encode(m), received)
  BY NearestMessage
<1>2. sent \in Seq(B) /\ sent \in [1 .. Len(sent) -> B] /\ Len(sent) \in Nat
  BY DEF DecoderInv, WordsInv
<1>3. score <= errors
  BY <1>1, <1>2
<1>4. d \in Seq(B) /\ Len(d) = Len(sent)
  BY <1>1, <1>2, SMT
<1> DEFINE far == WordDistance(Encode(d), Encode(sent))
<1>5. Len(Encode(d)) \in Nat /\ Len(Encode(sent)) = Len(Encode(d))
  <2>1. /\ Len(Padded(d)) = Len(sent) + Order /\ Len(Padded(sent)) = Len(sent) + Order
        /\ Len(sent) + Order \in Nat
    <3> HIDE DEF d
    <3>1. Len(Padded(d)) = Len(sent) + Order
      BY <1>4, PaddedIs
    <3>2. Len(Padded(sent)) = Len(sent) + Order
      BY <1>2, PaddedIs
    <3>3. QED
      BY <1>2, <3>1, <3>2, OrderAssumption
  <2>2. QED
    BY <2>1 DEF Encode
<1>6. far <= score + errors /\ far \in Nat /\ score \in Nat /\ errors \in Nat
  BY <1>1, <1>5, DistanceTriangle
<1>7. d = sent
  <2>1. d # sent => 2 * errors < far
    BY <1>1
  <2> HIDE DEF d, score, errors, far
  <2>2. QED
    BY <1>3, <1>6, <2>1
<1>8. QED
  BY <1>1, <1>7

\* Whatever the code, message and errors, the decoder's paths go through states
\* of the trellis and at most one of them ends in each (ConvCode::new, decode).
THEOREM DecoderTypesHold == Spec => []TypeOK
<1>1. Spec => []ConvInv
  BY ConvInit, ConvStep, PTL DEF Spec
<1>2. ConvInv => TypeOK
  BY DEF ConvInv
<1> QED BY <1>1, <1>2, PTL

\* Whatever the code, message and errors, what decode returns is a message whose
\* encoding is at the distance it returns from what was received, and no message
\* of that length is nearer.
THEOREM NearestIsDecoded == Spec => []DecodedIsNearest
<1>1. Spec => []DecoderInv
  BY DecoderInit, DecoderStep, PTL DEF Spec
<1> QED BY <1>1, NearestDecoded, PTL

\* Whatever the code, decode returns the message that encode was given, and
\* counts its errors, when they are fewer than half of the distance between that
\* encoding and any other.
THEOREM ErrorsAreCorrected == Spec => []ErrorsCorrected
<1>1. Spec => []DecoderInv
  BY DecoderInit, DecoderStep, PTL DEF Spec
<1> QED BY <1>1, CorrectedDecoded, PTL
=============================================================================
