------------------------------ MODULE ConvCode ------------------------------
(***************************************************************************)
(* The convolutional code of Rather (rather/conv.rs): the encoder as a     *)
(* function, and the Viterbi decoder as a machine that takes a word, the   *)
(* output bits of one input bit, in each step of its loop.                 *)
(*                                                                         *)
(* Beside the decoder runs the one it stands for, which keeps every walk   *)
(* through the trellis in `walks`.                                         *)
(***************************************************************************)
EXTENDS Integers, Sequences, FiniteSets

CONSTANTS
    Generators,   \* the generator polynomials
    Order,        \* how many bits the register has: the degree of the largest
    Half,         \* half the number of its states
    MaxLen,       \* the longest message
    MaxErrors     \* how many bits the channel may turn

ASSUME GeneratorsAssumption == Generators \in Seq(Nat)

\* `new` panics or overflows without a generator of 2 or more.
ASSUME OrderAssumption ==
    /\ Order \in Nat \ {0}
    /\ \E i \in DOMAIN Generators : Generators[i] >= 2^Order
    /\ \A i \in DOMAIN Generators : Generators[i] < 2^(Order + 1)

ASSUME HalfAssumption == Half \in Nat \ {0} /\ Half = 2^(Order - 1)

\* The powers of two up to the number of states, of which the provers know nothing.
ASSUME PowersAssumption ==
    2^0 = 1 /\ \A k \in 1 .. Order : 2^k \in Nat /\ 2^k = 2 * 2^(k - 1)

VARIABLES
    sent,         \* the message
    received,     \* its words as the channel left them
    at,           \* how many of them the decoder has taken
    paths,        \* the survivors
    walks,        \* what they were chosen from: every walk through the trellis
    decoded       \* what decode returned

vars == <<sent, received, at, paths, walks, decoded>>

-----------------------------------------------------------------------------
(* The code.                                                               *)

B == {0, 1}

State == 0 .. 2 * Half - 1

Bit(n, i) == (n \div 2^i) % 2

\* The register after one more bit, which enters at the top.
Shift(now, bit) == bit * Half + now \div 2

\* One bit for each generator: the parity of the places, read backwards, in
\* which it and the register with the new bit both have a 1.
Output(now, bit) ==
    [i \in 1 .. Len(Generators) |->
        Cardinality({k \in 0 .. Order : /\ Bit(Generators[i], Order - k) = 1
                                        /\ Bit(bit * 2 * Half + now, k) = 1}) % 2]

Padded(m) == m \o [i \in 1 .. Order |-> 0]

\* What the register holds before each of the bits, and after the last.
Registers(bits) ==
    LET reg[k \in 0 .. Len(bits)] == IF k = 0 THEN 0 ELSE Shift(reg[k - 1], bits[k])
    IN  reg

\* encode, a word for each bit.
Encode(m) ==
    LET bits == Padded(m)
        reg  == Registers(bits)
    IN  [k \in 1 .. Len(bits) |-> Output(reg[k - 1], bits[k])]

\* A last word that is cut short is compared as far as it goes.
Distance(output, word) == Cardinality({i \in DOMAIN word : output[i] # word[i]})

-----------------------------------------------------------------------------
(* The decoder.                                                            *)

\* The paths that extend those of P by a bit; `from` is the state before.
Extensions(P, word) ==
    {[last |-> Shift(p.last, b), from |-> p.last, bits |-> Append(p.bits, b),
      score |-> Distance(Output(p.last, b), word) + p.score] : p \in P, b \in B}

\* Mutants: two paths as near go on both; of the paths that meet, the far one
\* goes on.
SurvivorsTied(E) ==
    {e \in E : \A f \in E : f.last = e.last => e.score <= f.score}

SurvivorsFar(E) ==
    {e \in E : \A f \in E : f.last = e.last =>
        e.score > f.score \/ (e.score = f.score /\ e.from >= f.from)}

\* Of the paths that meet in a state the nearest goes on, of two as near the
\* one that `fold` meets last.
Survivors(E) ==
    {e \in E : \A f \in E : f.last = e.last =>
        e.score < f.score \/ (e.score = f.score /\ e.from >= f.from)}

Start == [last |-> 0, from |-> 0, bits |-> <<>>, score |-> 0]
Undecoded == [bits |-> <<>>, score |-> -1]

Message == UNION {[1 .. n -> B] : n \in 0 .. MaxLen}

\* The words of m with the bits at the places of `errors` turned.
Turned(m, errors) ==
    [k \in 1 .. Len(Encode(m)) |->
        [i \in 1 .. Len(Generators) |->
            IF <<k, i>> \in errors THEN 1 - Encode(m)[k][i] ELSE Encode(m)[k][i]]]

Places(m) == (1 .. Len(m) + Order) \X (1 .. Len(Generators))

Init ==
    /\ sent \in Message
    /\ \E n \in 0 .. MaxErrors : \E errors \in {E \in SUBSET Places(sent) : Cardinality(E) = n} :
         received = Turned(sent, errors)
    /\ at = 0
    /\ paths = {Start}
    /\ walks = {Start}
    /\ decoded = Undecoded

TakeWord ==
    /\ at < Len(received)
    /\ at' = at + 1
    /\ paths' = Survivors(Extensions(paths, received[at + 1]))
    /\ walks' = Extensions(walks, received[at + 1])
    /\ UNCHANGED <<sent, received, decoded>>

\* Mutants: the bits that emptied the register stay; the nearest path wins,
\* wherever it ends.
FinishUncut ==
    /\ at = Len(received) /\ decoded = Undecoded
    /\ \E p \in paths :
         /\ p.last = 0
         /\ decoded' = [bits |-> p.bits, score |-> p.score]
    /\ UNCHANGED <<sent, received, at, paths, walks>>

FinishAnywhere ==
    /\ at = Len(received) /\ decoded = Undecoded
    /\ \E p \in paths :
         /\ \A q \in paths : p.score <= q.score
         /\ decoded' = [bits |-> SubSeq(p.bits, 1, Len(p.bits) - Order), score |-> p.score]
    /\ UNCHANGED <<sent, received, at, paths, walks>>

\* The path that ends with an empty register, without the bits that emptied it.
Finish ==
    /\ at = Len(received) /\ decoded = Undecoded
    /\ \E p \in paths :
         /\ p.last = 0
         /\ decoded' = [bits |-> SubSeq(p.bits, 1, Len(p.bits) - Order), score |-> p.score]
    /\ UNCHANGED <<sent, received, at, paths, walks>>

Next == TakeWord \/ Finish

Spec == Init /\ [][Next]_vars

-----------------------------------------------------------------------------
(* Properties.                                                             *)

Path == [last : State, from : State, bits : Seq(B), score : Nat]

\* The paths go through states of the trellis, and at most one of them ends in
\* each (ConvCode::new, decode).
TypeOK ==
    /\ received \in Seq(Seq(B))
    /\ at \in 0 .. Len(received)
    /\ paths \subseteq Path
    /\ walks \subseteq Path
    /\ \A p, q \in paths : p.last = q.last => p = q

\* Viterbi's principle: to keep one path for each state loses nothing.  Every
\* walk of an exhaustive search meets a survivor that ends in the same state
\* and is at least as near to what was received; and one survivor ends with an
\* empty register, so that the last `unwrap` finds it (decode).
SurvivorsAreNearest ==
    /\ paths \subseteq walks
    /\ \A w \in walks : \E p \in paths : p.last = w.last /\ p.score <= w.score
    /\ \E p \in paths : p.last = 0

WordDistance(v, w) ==
    Cardinality({x \in (1 .. Len(v)) \X (1 .. Len(Generators)) :
                    v[x[1]][x[2]] # w[x[1]][x[2]]})

\* What decode returns is a message whose encoding is at the distance it
\* returns from what was received, and no message of that length is nearer.
DecodedIsNearest ==
    decoded # Undecoded =>
        LET distance(m) == WordDistance(Encode(m), received) IN
        /\ distance(decoded.bits) = decoded.score
        /\ \A m \in [1 .. Len(received) - Order -> B] : decoded.score <= distance(m)

\* Fewer errors than half of the distance between any two encodings are
\* corrected and counted (test_correction).
ErrorsCorrected ==
    LET errors == WordDistance(Encode(sent), received)
        others == [1 .. Len(sent) -> B] \ {sent}
    IN  decoded # Undecoded
            /\ (\A m \in others : 2 * errors < WordDistance(Encode(m), Encode(sent)))
        => decoded = [bits |-> sent, score |-> errors]
=============================================================================
