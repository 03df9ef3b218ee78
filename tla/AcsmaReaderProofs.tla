-------------------------- MODULE AcsmaReaderProofs --------------------------
(***************************************************************************)
(* Proofs about what reaches a reader: that a station's requests reach it  *)
(* once and in order, that what was acknowledged has been passed on, and   *)
(* that a packet read is a packet written, for any scripts, bounds, loss   *)
(* and failure within the hypotheses each theorem names.                   *)
(***************************************************************************)
EXTENDS AcsmaReader, AcsmaSocketProofs, FiniteSetTheorems

-----------------------------------------------------------------------------
(* Requests on the way to a station, as sequences.                         *)

IsData(f) == f.type = "DATA"

\* One caller's frames are written in the order of their identities; those of
\* different callers are not compared.
Less(x, y) == x[1] = y[1] => x[2] < y[2] \/ (x[2] = y[2] /\ x[3] < y[3])

\* Two data frames in Q are in order, or are copies with no other request
\* between them.
Lined(Q) ==
    \A i, j \in 1 .. Len(Q) : i < j /\ IsData(Q[i]) /\ IsData(Q[j]) =>
       \/ Less(Q[i].body, Q[j].body)
       \/ Q[i].body = Q[j].body /\ \A k \in i .. j : Q[k].type \in NonAck => Q[k] = Q[i]

\* A data frame in Q comes after those in the box, or is a copy whose number
\* the jar still knows and before which no other request arrives.
Fits(Q, box, j) ==
    \A i \in 1 .. Len(Q) : \A f \in Elems(box) : IsData(Q[i]) /\ IsData(f) =>
       \/ Less(f.body, Q[i].body)
       \/ /\ f.body = Q[i].body /\ Q[i].seq \in Elems(j)
          /\ \A k \in 1 .. i : Q[k].type \in NonAck => Q[k] = Q[i]

Tidy(Q, box, j) == Lined(Q) /\ Fits(Q, box, j)

Ordered(box) ==
    \A i, j \in 1 .. Len(box) :
       i < j /\ IsData(box[i]) /\ IsData(box[j]) => Less(box[i].body, box[j].body)

\* The requests of P are requests of Q in the order of Q, each any number of
\* times.
Within(P, Q) ==
    \E h \in [1 .. Len(P) -> Nat] :
       /\ \A i \in 1 .. Len(P) :
            P[i].type \in NonAck => h[i] \in 1 .. Len(Q) /\ P[i] = Q[h[i]]
       /\ \A i, j \in 1 .. Len(P) :
            i <= j /\ P[i].type \in NonAck /\ P[j].type \in NonAck => h[i] <= h[j]

\* What is tidy stays tidy when requests are lost or repeated.
LEMMA TidyWithin ==
    ASSUME NEW P \in Seq(Frames), NEW Q \in Seq(Frames), NEW box, NEW j,
           Within(P, Q), Tidy(Q, box, j)
    PROVE  Tidy(P, box, j)
<1>1. PICK h \in [1 .. Len(P) -> Nat] :
         /\ \A i \in 1 .. Len(P) :
              P[i].type \in NonAck => h[i] \in 1 .. Len(Q) /\ P[i] = Q[h[i]]
         /\ \A i, k \in 1 .. Len(P) :
              i <= k /\ P[i].type \in NonAck /\ P[k].type \in NonAck => h[i] <= h[k]
  BY DEF Within
<1>2. Lined(Q) /\ Fits(Q, box, j) /\ "DATA" \in NonAck /\ Len(P) \in Nat /\ Len(Q) \in Nat
  BY DEF Tidy, NonAck
<1>3. ASSUME NEW i \in 1 .. Len(P), NEW k \in 1 .. Len(P), i < k, IsData(P[i]), IsData(P[k])
      PROVE  \/ Less(P[i].body, P[k].body)
             \/ P[i].body = P[k].body /\ \A l \in i .. k : P[l].type \in NonAck => P[l] = P[i]
  <2>1. /\ h[i] \in 1 .. Len(Q) /\ P[i] = Q[h[i]]
        /\ h[k] \in 1 .. Len(Q) /\ P[k] = Q[h[k]] /\ h[i] <= h[k]
    BY <1>1, <1>2, <1>3 DEF IsData
  <2>2. ASSUME NEW l \in i .. k, P[l].type \in NonAck
        PROVE  h[l] \in h[i] .. h[k] /\ P[l] = Q[h[l]]
    <3>1. l \in 1 .. Len(P) /\ i <= l /\ l <= k
      BY <1>2
    <3>2. h[i] <= h[l] /\ h[l] <= h[k] /\ h[l] \in 1 .. Len(Q) /\ P[l] = Q[h[l]]
      BY <1>1, <1>2, <1>3, <2>2, <3>1 DEF IsData
    <3>3. QED
      BY <2>1, <3>2
  <2>3. CASE h[i] = h[k]
    <3>1. ASSUME NEW l \in i .. k, P[l].type \in NonAck PROVE P[l] = P[i]
      <4>1. h[l] = h[i]
        BY <2>1, <2>2, <2>3, <3>1
      <4>2. QED
        BY <2>1, <2>2, <3>1, <4>1
    <3>2. QED
      BY <2>1, <2>3, <3>1
  <2>4. CASE h[i] < h[k]
    <3>1. \/ Less(P[i].body, P[k].body)
          \/ /\ P[i].body = P[k].body
             /\ \A l \in h[i] .. h[k] : Q[l].type \in NonAck => Q[l] = P[i]
      BY <1>2, <1>3, <2>1, <2>4 DEF Lined
    <3>2. QED
      BY <2>2, <3>1
  <2>5. QED
    BY <2>1, <2>3, <2>4
<1>4. ASSUME NEW i \in 1 .. Len(P), NEW f \in Elems(box), IsData(P[i]), IsData(f)
      PROVE  \/ Less(f.body, P[i].body)
             \/ /\ f.body = P[i].body /\ P[i].seq \in Elems(j)
                /\ \A k \in 1 .. i : P[k].type \in NonAck => P[k] = P[i]
  <2>1. h[i] \in 1 .. Len(Q) /\ P[i] = Q[h[i]]
    BY <1>1, <1>2, <1>4 DEF IsData
  <2>2. \/ Less(f.body, P[i].body)
        \/ /\ f.body = P[i].body /\ P[i].seq \in Elems(j)
           /\ \A k \in 1 .. h[i] : Q[k].type \in NonAck => Q[k] = P[i]
    BY <1>2, <1>4, <2>1 DEF Fits
  <2>3. ASSUME NEW k \in 1 .. i, P[k].type \in NonAck
        PROVE  h[k] \in 1 .. h[i] /\ P[k] = Q[h[k]]
    <3>1. k \in 1 .. Len(P) /\ k <= i
      BY <1>2
    <3>2. h[k] <= h[i] /\ h[k] \in 1 .. Len(Q) /\ P[k] = Q[h[k]]
      BY <1>1, <1>2, <1>4, <2>3, <3>1 DEF IsData
    <3>3. QED
      BY <2>1, <3>2
  <2>4. QED
    BY <2>2, <2>3
<1>5. QED
  BY <1>3, <1>4 DEF Tidy, Lined, Fits

\* The ways in which a step changes what is on the way.
LEMMA WithinSelf == ASSUME NEW P \in Seq(Frames) PROVE Within(P, P)
<1> DEFINE h == [i \in 1 .. Len(P) |-> i]
<1>1. h \in [1 .. Len(P) -> Nat] /\ \A i \in 1 .. Len(P) : h[i] = i
  OBVIOUS
<1> HIDE DEF h
<1>2. QED
  BY <1>1 DEF Within

LEMMA WithinNothing == ASSUME NEW Q PROVE Within(<<>>, Q)
<1> DEFINE P == <<>>
           h == [i \in 1 .. Len(P) |-> 0]
<1>1. h \in [1 .. Len(P) -> Nat] /\ 1 .. Len(P) = {}
  OBVIOUS
<1> HIDE DEF h, P
<1>2. Within(P, Q)
  BY <1>1 DEF Within
<1>3. QED
  BY <1>2 DEF P

LEMMA WithinTail == ASSUME NEW Q \in Seq(Frames), Q # <<>> PROVE Within(Tail(Q), Q)
<1> DEFINE P == Tail(Q)
           h == [i \in 1 .. Len(P) |-> i + 1]
<1>1. Len(Q) \in Nat /\ Len(P) = Len(Q) - 1 /\ \A i \in 1 .. Len(P) : P[i] = Q[i + 1]
  OBVIOUS
<1>2. h \in [1 .. Len(P) -> Nat] /\ \A i \in 1 .. Len(P) : h[i] = i + 1
  BY <1>1
<1> HIDE DEF h, P
<1>3. Within(P, Q)
  BY <1>1, <1>2 DEF Within
<1>4. QED
  BY <1>3 DEF P

\* An answer behind what is on the way changes nothing.
LEMMA WithinAnswer ==
    ASSUME NEW P \in Seq(Frames), NEW Q \in Seq(Frames), NEW a \in Frames,
           Within(P, Q), a.type \notin NonAck
    PROVE  Within(Append(P, a), Q)
<1> DEFINE R == Append(P, a)
<1>1. PICK h \in [1 .. Len(P) -> Nat] :
         /\ \A i \in 1 .. Len(P) :
              P[i].type \in NonAck => h[i] \in 1 .. Len(Q) /\ P[i] = Q[h[i]]
         /\ \A i, k \in 1 .. Len(P) :
              i <= k /\ P[i].type \in NonAck /\ P[k].type \in NonAck => h[i] <= h[k]
  BY DEF Within
<1>2. /\ Len(P) \in Nat /\ Len(R) = Len(P) + 1 /\ R[Len(P) + 1] = a
      /\ \A i \in 1 .. Len(P) : R[i] = P[i]
  OBVIOUS
<1> DEFINE e == [i \in 1 .. Len(R) |-> IF i \in 1 .. Len(P) THEN h[i] ELSE 0]
<1>3. e \in [1 .. Len(R) -> Nat] /\ \A i \in 1 .. Len(P) : e[i] = h[i]
  BY <1>2
<1> HIDE DEF e, R
<1>4. \A i \in 1 .. Len(R) : R[i].type \in NonAck => i \in 1 .. Len(P) /\ R[i] = P[i] /\ e[i] = h[i]
  BY <1>2, <1>3
<1>5. \A i \in 1 .. Len(R) : R[i].type \in NonAck => e[i] \in 1 .. Len(Q) /\ R[i] = Q[e[i]]
  BY <1>1, <1>4
<1>6. \A i, k \in 1 .. Len(R) :
         i <= k /\ R[i].type \in NonAck /\ R[k].type \in NonAck => e[i] <= e[k]
  BY <1>1, <1>4
<1>7. Within(R, Q)
  BY <1>3, <1>5, <1>6 DEF Within
<1>8. QED
  BY <1>7 DEF R

\* A request behind both.
LEMMA WithinAppend ==
    ASSUME NEW P \in Seq(Frames), NEW Q \in Seq(Frames), NEW u \in Frames, Within(P, Q)
    PROVE  Within(Append(P, u), Append(Q, u))
<1> DEFINE R == Append(P, u)
           S == Append(Q, u)
<1>1. PICK h \in [1 .. Len(P) -> Nat] :
         /\ \A i \in 1 .. Len(P) :
              P[i].type \in NonAck => h[i] \in 1 .. Len(Q) /\ P[i] = Q[h[i]]
         /\ \A i, k \in 1 .. Len(P) :
              i <= k /\ P[i].type \in NonAck /\ P[k].type \in NonAck => h[i] <= h[k]
  BY DEF Within
<1>2. /\ Len(P) \in Nat /\ Len(R) = Len(P) + 1 /\ R[Len(P) + 1] = u
      /\ \A i \in 1 .. Len(P) : R[i] = P[i]
  OBVIOUS
<1>3. /\ Len(Q) \in Nat /\ Len(S) = Len(Q) + 1 /\ S[Len(Q) + 1] = u
      /\ \A i \in 1 .. Len(Q) : S[i] = Q[i]
  OBVIOUS
<1> DEFINE e == [i \in 1 .. Len(R) |-> IF i \in 1 .. Len(P) THEN h[i] ELSE Len(Q) + 1]
<1>4. e \in [1 .. Len(R) -> Nat] /\ (\A i \in 1 .. Len(P) : e[i] = h[i])
      /\ e[Len(P) + 1] = Len(Q) + 1
  BY <1>2, <1>3
<1> HIDE DEF e, R, S
<1>5. \A i \in 1 .. Len(R) : i \in 1 .. Len(P) \/ i = Len(P) + 1
  BY <1>2
<1>6. ASSUME NEW i \in 1 .. Len(P), R[i].type \in NonAck
      PROVE  e[i] \in 1 .. Len(Q) /\ e[i] \in 1 .. Len(S) /\ R[i] = S[e[i]]
  <2>1. R[i] = P[i] /\ e[i] = h[i]
    BY <1>2, <1>4
  <2>2. e[i] \in 1 .. Len(Q) /\ P[i] = Q[e[i]]
    BY <1>1, <1>6, <2>1
  <2>3. e[i] \in 1 .. Len(S) /\ S[e[i]] = Q[e[i]]
    BY <1>3, <2>2
  <2>4. QED
    BY <2>1, <2>2, <2>3
<1>7. e[Len(P) + 1] \in 1 .. Len(S) /\ R[Len(P) + 1] = S[e[Len(P) + 1]]
  BY <1>2, <1>3, <1>4
<1>8. \A i \in 1 .. Len(R) : R[i].type \in NonAck => e[i] \in 1 .. Len(S) /\ R[i] = S[e[i]]
  BY <1>5, <1>6, <1>7
<1>9. ASSUME NEW i \in 1 .. Len(R), NEW k \in 1 .. Len(R), i <= k,
             R[i].type \in NonAck, R[k].type \in NonAck
      PROVE  e[i] <= e[k]
  <2>1. CASE i \in 1 .. Len(P) /\ k \in 1 .. Len(P)
    <3>1. P[i].type \in NonAck /\ P[k].type \in NonAck
      BY <1>2, <1>9, <2>1
    <3>2. QED
      BY <1>1, <1>4, <1>9, <2>1, <3>1
  <2>2. CASE i \in 1 .. Len(P) /\ k = Len(P) + 1
    <3>1. e[i] \in 1 .. Len(Q) /\ e[k] = Len(Q) + 1
      BY <1>4, <1>6, <1>9, <2>2
    <3>2. QED
      BY <1>3, <3>1
  <2>3. CASE i = Len(P) + 1
    <3>1. k = Len(P) + 1
      BY <1>2, <1>9, <2>3
    <3>2. QED
      BY <1>3, <1>4, <2>3, <3>1
  <2>4. QED
    BY <1>5, <2>1, <2>2, <2>3
<1>10. Within(R, S)
  BY <1>4, <1>8, <1>9 DEF Within
<1>11. QED
  BY <1>10 DEF R, S

\* A request that is behind already may come again.
LEMMA WithinAgain ==
    ASSUME NEW Q \in Seq(Frames), NEW u \in Frames
    PROVE  Within(Append(Append(Q, u), u), Append(Q, u))
<1> DEFINE S == Append(Q, u)
           R == Append(S, u)
           h == [i \in 1 .. Len(R) |-> IF i \in 1 .. Len(S) THEN i ELSE Len(S)]
<1>1. /\ Len(Q) \in Nat /\ S \in Seq(Frames) /\ Len(S) = Len(Q) + 1 /\ S[Len(S)] = u
  OBVIOUS
<1>2. /\ Len(S) \in Nat /\ Len(R) = Len(S) + 1 /\ R[Len(S) + 1] = u
      /\ \A i \in 1 .. Len(S) : R[i] = S[i]
  BY <1>1
<1>3. /\ h \in [1 .. Len(R) -> Nat]
      /\ \A i \in 1 .. Len(R) : h[i] = IF i \in 1 .. Len(S) THEN i ELSE Len(S)
  BY <1>2
<1> HIDE DEF h, S, R
<1>4. \A i \in 1 .. Len(R) : h[i] \in 1 .. Len(S) /\ R[i] = S[h[i]]
  BY <1>1, <1>2, <1>3
<1>5. \A i, k \in 1 .. Len(R) : i <= k => h[i] <= h[k]
  BY <1>1, <1>2, <1>3
<1>6. Within(R, S)
  BY <1>3, <1>4, <1>5 DEF Within
<1>7. QED
  BY <1>6 DEF R, S

\* A request newer than all that is on the way or passed on comes behind it.
LEMMA TidyFresh ==
    ASSUME NEW Q \in Seq(Frames), NEW box, NEW j, NEW u \in Frames, Tidy(Q, box, j),
           IsData(u) => \A f \in Elems(Q) \cup Elems(box) : IsData(f) => Less(f.body, u.body)
    PROVE  Tidy(Append(Q, u), box, j)
<1> DEFINE R == Append(Q, u)
<1>1. /\ Len(Q) \in Nat /\ Len(R) = Len(Q) + 1 /\ R[Len(Q) + 1] = u
      /\ \A i \in 1 .. Len(Q) : R[i] = Q[i]
  OBVIOUS
<1>2. Lined(Q) /\ Fits(Q, box, j) /\ \A i \in 1 .. Len(Q) : Q[i] \in Elems(Q)
  BY DEF Tidy, Elems
<1> HIDE DEF R
<1>3. \A i \in 1 .. Len(R) : i \in 1 .. Len(Q) \/ i = Len(Q) + 1
  BY <1>1
<1>4. ASSUME NEW i \in 1 .. Len(R), NEW k \in 1 .. Len(R), i < k, IsData(R[i]), IsData(R[k])
      PROVE  \/ Less(R[i].body, R[k].body)
             \/ R[i].body = R[k].body /\ \A l \in i .. k : R[l].type \in NonAck => R[l] = R[i]
  <2>1. i \in 1 .. Len(Q)
    BY <1>1, <1>4
  <2>2. CASE k \in 1 .. Len(Q)
    <3>1. \/ Less(Q[i].body, Q[k].body)
          \/ Q[i].body = Q[k].body /\ \A l \in i .. k : Q[l].type \in NonAck => Q[l] = Q[i]
      BY <1>1, <1>2, <1>4, <2>1, <2>2 DEF Lined
    <3>2. \A l \in i .. k : R[l] = Q[l]
      BY <1>1, <2>1, <2>2
    <3>3. R[i] = Q[i] /\ R[k] = Q[k]
      BY <1>1, <2>1, <2>2
    <3>4. QED
      BY <3>1, <3>2, <3>3
  <2>3. CASE k = Len(Q) + 1
    <3>1. R[k] = u /\ R[i] = Q[i] /\ Q[i] \in Elems(Q)
      BY <1>1, <1>2, <2>1, <2>3
    <3>2. QED
      BY <1>4, <3>1
  <2>4. QED
    BY <1>3, <2>2, <2>3
<1>5. ASSUME NEW i \in 1 .. Len(R), NEW f \in Elems(box), IsData(R[i]), IsData(f)
      PROVE  \/ Less(f.body, R[i].body)
             \/ /\ f.body = R[i].body /\ R[i].seq \in Elems(j)
                /\ \A k \in 1 .. i : R[k].type \in NonAck => R[k] = R[i]
  <2>1. CASE i \in 1 .. Len(Q)
    <3>1. R[i] = Q[i] /\ \A k \in 1 .. i : R[k] = Q[k]
      BY <1>1, <2>1
    <3>2. \/ Less(f.body, Q[i].body)
          \/ /\ f.body = Q[i].body /\ Q[i].seq \in Elems(j)
             /\ \A k \in 1 .. i : Q[k].type \in NonAck => Q[k] = Q[i]
      BY <1>2, <1>5, <2>1, <3>1 DEF Fits
    <3>3. QED
      BY <3>1, <3>2
  <2>2. CASE i = Len(Q) + 1
    BY <1>1, <1>5, <2>2
  <2>3. QED
    BY <1>3, <2>1, <2>2
<1>6. Tidy(R, box, j)
  BY <1>4, <1>5 DEF Tidy, Lined, Fits
<1>7. QED
  BY <1>6 DEF R

\* The jar knows the number it was given last, since it holds at least one.
LEMMA RememberElems ==
    ASSUME NEW S, NEW j \in Seq(S), NEW s \in S
    PROVE  /\ s \in Elems(Remember(j, s))
           /\ Elems(Remember(j, s)) \subseteq Elems(j) \cup {s}
<1>1. CASE Len(j) < JarCapacity
  <2>1. Remember(j, s) = Append(j, s)
    BY <1>1 DEF Remember
  <2>2. Elems(Append(j, s)) = Elems(j) \cup {s}
    BY AppendElems
  <2>3. QED
    BY <2>1, <2>2
<1>2. CASE ~(Len(j) < JarCapacity)
  <2>1. Remember(j, s) = Append(Tail(j), s) /\ j # <<>>
    BY <1>2, NumberAssumption DEF Remember
  <2>2. Tail(j) \in Seq(S) /\ Elems(Tail(j)) \subseteq Elems(j)
    BY <2>1, TailElems
  <2> DEFINE k == Tail(j)
  <2>3. k \in Seq(S)
    BY <2>2
  <2> HIDE DEF k
  <2>4. Elems(Append(k, s)) = Elems(k) \cup {s}
    BY <2>3, AppendElems
  <2>5. QED
    BY <2>1, <2>2, <2>4 DEF k
<1>3. QED
  BY <1>1, <1>2

\* A request whose number the jar does not know is passed on behind all that
\* was, and what follows it on the way stays tidy.
LEMMA DeliverTidy ==
    ASSUME NEW Q \in Seq(Frames), Q # <<>>, NEW box \in Seq(Frames),
           NEW j \in Seq(0 .. SeqCount - 1), Tidy(Q, box, j), Ordered(box),
           Head(Q).type \in NonAck, Head(Q).seq \notin Elems(j)
    PROVE  /\ Ordered(Append(box, Head(Q)))
           /\ Tidy(Tail(Q), Append(box, Head(Q)), Remember(j, Head(Q).seq))
           /\ Tidy(Tail(Q), box, Remember(j, Head(Q).seq))
<1> DEFINE f == Head(Q)
           R == Tail(Q)
           full == Append(box, f)
           known == Remember(j, f.seq)
<1>1. /\ R \in Seq(Frames) /\ f \in Frames /\ Len(R) \in Nat /\ Len(Q) = Len(R) + 1
      /\ f = Q[1] /\ \A i \in 1 .. Len(R) : R[i] = Q[i + 1]
  OBVIOUS
<1>2. f.seq \in 0 .. SeqCount - 1
  BY <1>1 DEF Frames, Frame
<1>3. f.seq \in Elems(known)
  <2> DEFINE S == 0 .. SeqCount - 1
  <2>1. j \in Seq(S) /\ f.seq \in S
    BY <1>2
  <2> HIDE DEF S, f
  <2>2. QED
    BY <2>1, RememberElems
<1>4. Elems(full) = Elems(box) \cup {f}
  BY <1>1, AppendElems
<1>5. /\ Len(box) \in Nat /\ Len(full) = Len(box) + 1 /\ full[Len(box) + 1] = f
      /\ \A i \in 1 .. Len(box) : full[i] = box[i] /\ box[i] \in Elems(box)
  BY <1>1 DEF Elems
<1>6. f.type \in NonAck /\ f.seq \notin Elems(j) /\ Lined(Q) /\ Fits(Q, box, j) /\ Within(R, Q)
  BY WithinTail DEF Tidy
<1> HIDE DEF f, R, full, known
<1>7. Lined(R)
  BY <1>1, <1>6, TidyWithin DEF Tidy
\* Of the frames passed on before, none comes again behind f.
<1>8. ASSUME NEW i \in 1 .. Len(Q), NEW g \in Elems(box), IsData(Q[i]), IsData(g)
      PROVE  Less(g.body, Q[i].body)
  <2>1. SUFFICES ASSUME /\ Q[i].seq \in Elems(j)
                        /\ \A k \in 1 .. i : Q[k].type \in NonAck => Q[k] = Q[i]
                 PROVE FALSE
    BY <1>6, <1>8 DEF Fits
  <2>2. 1 \in 1 .. i
    BY <1>1
  <2>3. Q[1] = Q[i]
    BY <1>1, <1>6, <2>1, <2>2
  <2>4. QED
    BY <1>1, <1>6, <2>1, <2>3
<1>9. ASSUME NEW i \in 1 .. Len(full), NEW k \in 1 .. Len(full), i < k,
             IsData(full[i]), IsData(full[k])
      PROVE  Less(full[i].body, full[k].body)
  <2>1. i \in 1 .. Len(box) /\ (k \in 1 .. Len(box) \/ k = Len(box) + 1)
    BY <1>5, <1>9
  <2>2. CASE k \in 1 .. Len(box)
    BY <1>5, <1>9, <2>1, <2>2 DEF Ordered
  <2>3. CASE k = Len(box) + 1
    <3>1. full[k] = Q[1] /\ full[i] = box[i] /\ box[i] \in Elems(box) /\ 1 \in 1 .. Len(Q)
      BY <1>1, <1>5, <2>1, <2>3
    <3>2. QED
      BY <1>8, <1>9, <3>1
  <2>4. QED
    BY <2>1, <2>2, <2>3
<1>10. ASSUME NEW i \in 1 .. Len(R), NEW g \in Elems(box), IsData(R[i]), IsData(g)
       PROVE  Less(g.body, R[i].body)
  <2>1. i + 1 \in 1 .. Len(Q) /\ R[i] = Q[i + 1]
    BY <1>1
  <2>2. QED
    BY <1>8, <1>10, <2>1
<1>11. ASSUME NEW i \in 1 .. Len(R), IsData(R[i]), IsData(f)
       PROVE  \/ Less(f.body, R[i].body)
              \/ /\ f.body = R[i].body /\ R[i].seq \in Elems(known)
                 /\ \A k \in 1 .. i : R[k].type \in NonAck => R[k] = R[i]
  <2>1. i + 1 \in 1 .. Len(Q) /\ R[i] = Q[i + 1] /\ 1 \in 1 .. Len(Q) /\ 1 < i + 1
    BY <1>1
  <2>2. \/ Less(Q[1].body, Q[i + 1].body)
        \/ /\ Q[1].body = Q[i + 1].body
           /\ \A k \in 1 .. i + 1 : Q[k].type \in NonAck => Q[k] = Q[1]
    <3> DEFINE m == i + 1
    <3>1. m \in 1 .. Len(Q) /\ 1 \in 1 .. Len(Q) /\ 1 < m /\ IsData(Q[1]) /\ IsData(Q[m])
      BY <1>1, <1>11, <2>1
    <3> HIDE DEF m
    <3>2. \/ Less(Q[1].body, Q[m].body)
          \/ Q[1].body = Q[m].body /\ \A k \in 1 .. m : Q[k].type \in NonAck => Q[k] = Q[1]
      BY <1>6, <3>1 DEF Lined
    <3>3. QED
      BY <3>2 DEF m
  <2>3. ASSUME Q[1].body = Q[i + 1].body,
               \A k \in 1 .. i + 1 : Q[k].type \in NonAck => Q[k] = Q[1]
        PROVE  /\ f.body = R[i].body /\ R[i].seq \in Elems(known)
               /\ \A k \in 1 .. i : R[k].type \in NonAck => R[k] = R[i]
    <3>1. \A k \in 1 .. i : R[k] = Q[k + 1] /\ k + 1 \in 1 .. i + 1
      BY <1>1
    <3>2. i \in 1 .. i /\ R[i].type \in NonAck
      BY <1>1, <1>11 DEF IsData, NonAck
    <3>3. \A k \in 1 .. i : R[k].type \in NonAck => R[k] = f
      BY <1>1, <2>3, <3>1
    <3>4. R[i] = f
      BY <3>2, <3>3
    <3>5. QED
      BY <1>3, <3>3, <3>4
  <2>4. QED
    BY <1>1, <2>1, <2>2, <2>3
<1>12. Ordered(full)
  BY <1>9 DEF Ordered
<1>13. Fits(R, full, known) /\ Fits(R, box, known)
  BY <1>4, <1>10, <1>11 DEF Fits
<1>14. QED
  BY <1>7, <1>12, <1>13 DEF Tidy, f, R, full, known

-----------------------------------------------------------------------------
(* What a step does to the requests on their way.                          *)

\* What station n has heard and not yet looked up in its jar.
Way(n) == IF phase[n] = "deliver" THEN <<held[n]>> \o air[n] ELSE air[n]

\* The data frames that have reached station n.
Passed(n) == {f \in Elems(Way(n)) \cup Elems(inbox[n]) : IsData(f)}

LEMMA ConsTail ==
    ASSUME NEW S, NEW s \in Seq(S), s # <<>>
    PROVE  <<Head(s)>> \o Tail(s) = s
OBVIOUS

LEMMA ConsAppend ==
    ASSUME NEW S, NEW s \in Seq(S), NEW x \in S, NEW y \in S
    PROVE  /\ <<x>> \o s \in Seq(S)
           /\ <<x>> \o Append(s, y) = Append(<<x>> \o s, y)
           /\ Head(<<x>> \o s) = x /\ Tail(<<x>> \o s) = s /\ <<x>> \o s # <<>>
OBVIOUS

LEMMA AppendTail ==
    ASSUME NEW S, NEW s \in Seq(S), s # <<>>, NEW x \in S
    PROVE  /\ Append(s, x) \in Seq(S) /\ Append(s, x) # <<>>
           /\ Head(Append(s, x)) = Head(s) /\ Tail(Append(s, x)) = Append(Tail(s), x)
<1>1. Append(s, x) \in Seq(S) /\ Append(s, x) # <<>> /\ Head(Append(s, x)) = Head(s)
  OBVIOUS
<1>2. Tail(Append(s, x)) = Append(Tail(s), x)
  OBVIOUS
<1>3. QED
  BY <1>1, <1>2

LEMMA ReaderSeqs ==
    ASSUME TypeOK, NEW n \in Station
    PROVE  /\ Way(n) \in Seq(Frames) /\ air[n] \in Seq(Frames) /\ inbox[n] \in Seq(Frames)
           /\ jar[n] \in Seq(0 .. SeqCount - 1)
           /\ phase[n] = "deliver" => held[n] \in Frames
<1>1. /\ air[n] \in Seq(Frames) /\ inbox[n] \in Seq(Frames)
      /\ jar[n] \in Seq(0 .. SeqCount - 1)
      /\ phase[n] = "deliver" => held[n] \in Frames
  BY DEF TypeOK, DaemonTypeOK, MediumTypeOK
<1>2. Way(n) \in Seq(Frames)
  BY <1>1, ConsAppend DEF Way
<1>3. QED
  BY <1>1, <1>2

\* Each station takes the transmitted frame or does not.
LEMMA TransmitWay ==
    ASSUME NEW a \in [Station -> Seq(Frames)], NEW f \in Frames, Transmit(a, f)
    PROVE  \A m \in Station :
             \/ air'[m] = a[m]
             \/ IsForSelf(m, f) /\ air'[m] = Append(a[m], f)
BY DEF Transmit, Hearers

\* Where the daemon stays on the same side of the delivery, its way changes as
\* its air does.
LEMMA WaySame ==
    ASSUME TypeOK, NEW m \in Station,
           (phase'[m] = "deliver") <=> (phase[m] = "deliver"),
           phase[m] = "deliver" => held'[m] = held[m]
    PROVE  /\ air'[m] = air[m] => Way(m)' = Way(m)
           /\ \A f \in Frames : air'[m] = Append(air[m], f) => Way(m)' = Append(Way(m), f)
<1>1. air'[m] = air[m] => Way(m)' = Way(m)
  BY DEF Way
<1>2. ASSUME NEW f \in Frames, air'[m] = Append(air[m], f) PROVE Way(m)' = Append(Way(m), f)
  <2>1. CASE phase[m] = "deliver"
    <3>1. held[m] \in Frames /\ air[m] \in Seq(Frames)
      BY <2>1, ReaderSeqs
    <3>2. <<held[m]>> \o Append(air[m], f) = Append(<<held[m]>> \o air[m], f)
      BY <3>1, ConsAppend
    <3>3. QED
      BY <1>2, <2>1, <3>2 DEF Way
  <2>2. CASE phase[m] # "deliver"
    BY <1>2, <2>2 DEF Way
  <2>3. QED
    BY <2>1, <2>2
<1>3. QED
  BY <1>1, <1>2

\* The daemon of n puts a task under its timer, or finds it there, and may
\* transmit its frame.
Sending(n) ==
    /\ UNCHANGED <<inbox, jar>>
    /\ \E u \in Tasks :
         /\ \/ u = timer[n].task /\ UNCHANGED writeQ
            \/ /\ writeQ[n] # <<>> /\ u = Head(writeQ[n])
               /\ writeQ' = [writeQ EXCEPT ![n] = Tail(@)]
         /\ timer'[n].task = u
         /\ \A m \in Station \ {n} : timer'[m].task = timer[m].task
         /\ \A m \in Station :
              \/ Way(m)' = Way(m)
              \/ IsForSelf(m, u.frame) /\ Way(m)' = Append(Way(m), u.frame)

\* No request is added to any way, and no task to any timer.
Resting ==
    /\ UNCHANGED <<inbox, jar>>
    /\ \A m \in Station :
         /\ writeQ'[m] \in {writeQ[m], <<>>}
         /\ timer'[m].task \in {timer[m].task, NoTask}
         /\ Within(Way(m)', Way(m))

LEMMA DaemonWay ==
    ASSUME TypeOK, NEW n \in Station, DaemonStep(n)
    PROVE  Deliver(n) \/ Sending(n) \/ Resting
<1>0. /\ phase \in [Station -> {"receive", "deliver", "tick", "stopped", "failed"}]
      /\ timer \in [Station -> Timers] /\ writeQ \in [Station -> Seq(Tasks)]
      /\ held \in [Station -> Frames \cup {NoFrame}] /\ air \in [Station -> Seq(Frames)]
  BY DEF TypeOK, DaemonTypeOK, MediumTypeOK
<1>1. \A m \in Station : Way(m) \in Seq(Frames) /\ Within(Way(m), Way(m))
  BY ReaderSeqs, WithinSelf
\* Nothing is heard and nothing looked up.
<1>2. ASSUME UNCHANGED <<inbox, jar, writeQ, held, air>>,
             \A m \in Station : timer'[m].task \in {timer[m].task, NoTask},
             phase[n] # "deliver", NEW p \in {"receive", "tick"}, Enter(n, p)
      PROVE  Resting
  <2>1. ASSUME NEW m \in Station PROVE Way(m)' = Way(m)
    <3>1. (phase'[m] = "deliver") <=> (phase[m] = "deliver")
      BY <1>0, <1>2 DEF Enter
    <3>2. QED
      BY <1>2, <3>1, WaySame
  <2>2. QED
    BY <1>1, <1>2, <2>1 DEF Resting
\* The daemon ends with all it has heard.
<1>3. ASSUME NEW p \in {"stopped", "failed"}, End(n, p)
      PROVE  Resting
  <2>1. /\ UNCHANGED <<inbox, jar>> /\ phase' = [phase EXCEPT ![n] = p]
        /\ writeQ' = [writeQ EXCEPT ![n] = <<>>] /\ timer' = [timer EXCEPT ![n] = NoTimer]
        /\ held' = [held EXCEPT ![n] = NoFrame] /\ air' = [air EXCEPT ![n] = <<>>]
    BY <1>3 DEF End, Enter, SetTimer
  <2>2. ASSUME NEW m \in Station PROVE Within(Way(m)', Way(m))
    <3>1. CASE m = n
      <4>1. Way(m)' = <<>>
        BY <1>0, <2>1, <3>1 DEF Way
      <4>2. QED
        BY <4>1, WithinNothing
    <3>2. CASE m # n
      <4>1. Way(m)' = Way(m)
        BY <1>0, <2>1, <3>2 DEF Way
      <4>2. QED
        BY <1>1, <4>1
    <3>3. QED
      BY <3>1, <3>2
  <2>3. \A m \in Station : writeQ'[m] \in {writeQ[m], <<>>}
                            /\ timer'[m].task \in {timer[m].task, NoTask}
    BY <1>0, <2>1 DEF NoTimer
  <2>4. QED
    BY <2>1, <2>2, <2>3 DEF Resting
\* A task is transmitted, or backs off.
<1>4. ASSUME NEW u \in Tasks, NEW tm, tm.task = u, SetTimer(n, tm),
             UNCHANGED <<inbox, jar, held>>, phase[n] = "tick", Enter(n, "receive"),
             air' = air \/ Transmit(air, u.frame),
             \/ u = timer[n].task /\ UNCHANGED writeQ
             \/ /\ writeQ[n] # <<>> /\ u = Head(writeQ[n])
                /\ writeQ' = [writeQ EXCEPT ![n] = Tail(@)]
      PROVE  Sending(n)
  <2>1. u.frame \in Frames
    BY <1>4 DEF Tasks, Requests
  <2>2. ASSUME NEW m \in Station
        PROVE  \/ Way(m)' = Way(m)
               \/ IsForSelf(m, u.frame) /\ Way(m)' = Append(Way(m), u.frame)
    <3>1. (phase'[m] = "deliver") <=> (phase[m] = "deliver")
      BY <1>0, <1>4 DEF Enter
    <3>2. \/ air'[m] = air[m]
          \/ IsForSelf(m, u.frame) /\ air'[m] = Append(air[m], u.frame)
      BY <1>0, <1>4, <2>1, TransmitWay
    <3>3. QED
      BY <1>4, <2>1, <3>1, <3>2, WaySame
  <2>3. timer'[n].task = u /\ \A m \in Station \ {n} : timer'[m].task = timer[m].task
    BY <1>0, <1>4 DEF SetTimer
  <2>4. QED
    BY <1>4, <2>2, <2>3 DEF Sending
<1>5. CASE ReceiveNothing(n)
  BY <1>2, <1>5 DEF ReceiveNothing
<1>6. CASE ReceiveRequest(n)
  <2> DEFINE f == Head(air[n])
             a == [air EXCEPT ![n] = Tail(@)]
             r == CreateResp(n, IpOf[n], f)
  <2>1. /\ f \in Frames /\ a \in [Station -> Seq(Frames)] /\ air[n] \in Seq(Frames)
        /\ air[n] # <<>> /\ phase[n] = "receive"
    BY <1>0, <1>6, HeadOfAir DEF ReceiveRequest, TypeOK
  <2>2. /\ UNCHANGED <<inbox, jar, writeQ, timer>>
        /\ held' = [held EXCEPT ![n] = f] /\ phase' = [phase EXCEPT ![n] = "deliver"]
        /\ IF Answers(IpOf[n], f) THEN Transmit(a, r) ELSE air' = a
    BY <1>6 DEF ReceiveRequest, Enter
  <2>3. ASSUME NEW m \in Station
        PROVE  air'[m] = a[m] \/ \E g \in Frames : g.type \notin NonAck /\ air'[m] = Append(a[m], g)
    <3>1. CASE Answers(IpOf[n], f)
      <4>1. r \in Frames /\ r.type \in Answer
        BY <2>1, <3>1, CreateRespType
      <4>2. r.type \notin NonAck
        BY <4>1 DEF Answer, NonAck
      <4>3. \/ air'[m] = a[m]
            \/ IsForSelf(m, r) /\ air'[m] = Append(a[m], r)
        BY <2>1, <2>2, <3>1, <4>1, TransmitWay
      <4>4. QED
        BY <4>1, <4>2, <4>3
    <3>2. CASE ~Answers(IpOf[n], f)
      BY <2>2, <3>2
    <3>3. QED
      BY <3>1, <3>2
  <2>4. ASSUME NEW m \in Station
        PROVE  \/ Way(m)' = Way(m)
               \/ \E g \in Frames : g.type \notin NonAck /\ Way(m)' = Append(Way(m), g)
    <3>1. CASE m # n
      <4>1. (phase'[m] = "deliver") <=> (phase[m] = "deliver")
        BY <1>0, <2>2, <3>1
      <4>2. held'[m] = held[m] /\ a[m] = air[m]
        BY <1>0, <2>2, <3>1
      <4>3. QED
        BY <2>3, <4>1, <4>2, WaySame
    <3>2. CASE m = n
      <4>1. Way(n) = air[n] /\ Way(n)' = <<f>> \o air'[n] /\ a[n] = Tail(air[n])
        BY <1>0, <2>1, <2>2 DEF Way
      <4>2. <<f>> \o Tail(air[n]) = air[n] /\ Tail(air[n]) \in Seq(Frames)
        BY <2>1, ConsTail, TailElems
      <4>3. \A g \in Frames : <<f>> \o Append(Tail(air[n]), g) = Append(air[n], g)
        BY <2>1, <4>2, ConsAppend
      <4>4. \/ air'[n] = Tail(air[n])
            \/ \E g \in Frames : g.type \notin NonAck /\ air'[n] = Append(Tail(air[n]), g)
        BY <2>3, <4>1
      <4>5. CASE air'[n] = Tail(air[n])
        BY <3>2, <4>1, <4>2, <4>5
      <4>6. CASE \E g \in Frames : g.type \notin NonAck /\ air'[n] = Append(Tail(air[n]), g)
        <5>1. PICK g \in Frames : g.type \notin NonAck /\ air'[n] = Append(Tail(air[n]), g)
          BY <4>6
        <5>2. Way(n)' = Append(air[n], g)
          BY <4>1, <4>3, <5>1
        <5>3. QED
          BY <3>2, <4>1, <5>1, <5>2
      <4>7. QED
        BY <4>4, <4>5, <4>6
    <3>3. QED
      BY <3>1, <3>2
  <2>5. ASSUME NEW m \in Station PROVE Within(Way(m)', Way(m))
    BY <1>1, <2>4, WithinAnswer
  <2>6. QED
    BY <2>2, <2>5 DEF Resting
<1>7. CASE ReceiveAnswer(n)
  <2>1. /\ UNCHANGED <<inbox, jar, writeQ, held>> /\ air[n] # <<>> /\ phase[n] = "receive"
        /\ air' = [air EXCEPT ![n] = Tail(@)] /\ phase' = [phase EXCEPT ![n] = "tick"]
        /\ timer' = timer \/ timer' = [timer EXCEPT ![n] = Cooldown]
    BY <1>7 DEF ReceiveAnswer, Enter, SetTimer
  <2>2. ASSUME NEW m \in Station PROVE Within(Way(m)', Way(m))
    <3>1. CASE m = n
      <4>1. Way(m) = air[n] /\ Way(m)' = Tail(air[n])
        BY <1>0, <2>1, <3>1 DEF Way
      <4>2. QED
        BY <1>0, <2>1, <4>1, WithinTail
    <3>2. CASE m # n
      <4>1. Way(m)' = Way(m)
        BY <1>0, <2>1, <3>2 DEF Way
      <4>2. QED
        BY <1>1, <4>1
    <3>3. QED
      BY <3>1, <3>2
  <2>3. ASSUME NEW m \in Station PROVE timer'[m].task \in {timer[m].task, NoTask}
    <3>1. CASE timer' = timer
      BY <3>1
    <3>2. CASE timer' = [timer EXCEPT ![n] = Cooldown]
      BY <1>0, <3>2 DEF Cooldown
    <3>3. QED
      BY <2>1, <3>1, <3>2
  <2>4. QED
    BY <2>1, <2>2, <2>3 DEF Resting
<1>8. CASE KeepTimer(n)
  BY <1>2, <1>8 DEF KeepTimer
<1>9. CASE AckTimeout(n)
  <2>1. \A m \in Station : timer'[m].task = timer[m].task
    BY <1>0, <1>9 DEF AckTimeout, SetTimer, Backoff
  <2>2. QED
    BY <1>2, <1>9, <2>1 DEF AckTimeout
<1>10. CASE LinkError(n) \/ CooldownEnds(n)
  <2>1. SetTimer(n, NoTimer) /\ UNCHANGED <<inbox, jar, writeQ, held, air>>
        /\ phase[n] = "tick" /\ Enter(n, "receive")
    BY <1>10 DEF LinkError, CooldownEnds
  <2>2. \A m \in Station : timer'[m].task \in {timer[m].task, NoTask}
    BY <1>0, <2>1 DEF SetTimer, NoTimer
  <2>3. QED
    BY <1>2, <2>1, <2>2
<1>11. CASE Resend(n)
  <2>1. timer[n].task \in Tasks
    BY <1>11, PendingType DEF Resend, CanResend, TypeOK
  <2>2. Timeout(timer[n].task, timer[n].resends + 1).task = timer[n].task
    BY DEF Timeout
  <2>3. QED
    BY <1>4, <1>11, <2>1, <2>2 DEF Resend
<1>12. CASE AcceptBusy(n) \/ AcceptFree(n)
  <2> DEFINE u == Head(writeQ[n])
  <2>1. writeQ[n] \in Seq(Tasks) /\ writeQ[n] # <<>>
    BY <1>0, <1>12 DEF AcceptBusy, AcceptFree, CanAccept
  <2>2. u \in Tasks /\ Backoff(u, 0).task = u /\ Timeout(u, 0).task = u
    BY <2>1 DEF Backoff, Timeout
  <2> HIDE DEF u
  <2>3. \E tm : tm.task = u /\ SetTimer(n, tm)
    BY <1>12, <2>2 DEF AcceptBusy, AcceptFree, u
  <2>4. /\ UNCHANGED <<inbox, jar, held>> /\ phase[n] = "tick" /\ Enter(n, "receive")
        /\ air' = air \/ Transmit(air, u.frame)
        /\ writeQ' = [writeQ EXCEPT ![n] = Tail(@)]
    BY <1>12 DEF AcceptBusy, AcceptFree, u
  <2>5. QED
    BY <1>4, <2>1, <2>2, <2>3, <2>4 DEF u
<1>13. CASE Idle(n)
  <2>1. CASE WriterGone(n) /\ ~reader[n]
    BY <1>3, <1>13, <2>1 DEF Idle
  <2>2. CASE ~(WriterGone(n) /\ ~reader[n])
    BY <1>2, <1>13, <2>2 DEF Idle
  <2>3. QED
    BY <2>1, <2>2
<1>14. CASE OutputFails(n)
  BY <1>3, <1>14 DEF OutputFails
<1>15. QED
  BY <1>5, <1>6, <1>7, <1>8, <1>9, <1>10, <1>11, <1>12, <1>13, <1>14
     DEF DaemonStep, ReceivePhase, TimerPhase

-----------------------------------------------------------------------------
(* Who is told apart from whom: the identities of tasks and frames.        *)

\* A caller of this script has a frame that station n takes.
Sends(c, n) == \E k \in 1 .. Len(Script[c]) : IsForSelf(n, FrameOf(c, k, 0, 0))

\* The hypothesis of the theorem: what a station takes comes from one station.
\* Requests of two sources share the jar, so one may drive out the number of a
\* frame of the other whose copy is still to come.
OneSource ==
    \A n \in Station : \A c, d \in Caller : Sends(c, n) /\ Sends(d, n) => Home[c] = Home[d]

Shaped(t) ==
    /\ t.id[2] \in 1 .. Len(Script[t.id[1]])
    /\ \E b \in 0 .. SeqCount - 1 : t.frame = FrameOf(t.id[1], t.id[2], t.id[3], b)

\* x is the identity of a frame that its caller has handed over.
Made(x) == LET c == x[1] IN Less(x, TaskId(c)) \/ (x = TaskId(c) /\ status[c] # "idle")

TasksShaped == \A n \in Station : \A t \in Pending(n) : Shaped(t)

QueueInOrder ==
    \A n \in Station :
       /\ \A i, j \in 1 .. Len(writeQ[n]) : i < j => Less(writeQ[n][i].id, writeQ[n][j].id)
       /\ timer[n].task # NoTask =>
            \A i \in 1 .. Len(writeQ[n]) : Less(timer[n].task.id, writeQ[n][i].id)

AllMade ==
    \A n \in Station :
       /\ \A t \in Pending(n) : Made(t.id)
       /\ \A f \in Passed(n) : f.body \in TaskIds /\ Made(f.body)

\* Whatever has reached a station was written before what still waits in a queue.
QueueBehind ==
    \A n, m \in Station : \A f \in Passed(n) : \A i \in 1 .. Len(writeQ[m]) :
       Less(f.body, writeQ[m][i].id)

\* A frame carries the identity of its task and is addressed by its operation.
LEMMA FrameOfShape ==
    ASSUME NEW c \in Caller, NEW k \in 1 .. Len(Script[c]), NEW i \in Nat, NEW b \in Nat
    PROVE  /\ IsData(FrameOf(c, k, i, b)) => FrameOf(c, k, i, b).body = <<c, k, i>>
           /\ IsData(FrameOf(c, k, i, b)) <=> Script[c][k].kind \in {"write", "perf"}
           /\ FrameOf(c, k, i, b).dest = FrameOf(c, k, 0, 0).dest
           /\ FrameOf(c, k, i, b).src = FrameOf(c, k, 0, 0).src
<1> DEFINE o == Script[c][k]
<1>1. o.kind \in OpKind
  <2>1. Script[c] \in Seq(Ops)
    BY ScriptAssumption
  <2>2. o \in Ops
    BY <2>1
  <2>3. QED
    BY <2>2 DEF Ops
<1>2. CASE o.kind = "write"
  <2>1. FrameOf(c, k, i, b) = DataFrame(o.dest, Home[c], b + i, i = o.len - 1, <<c, k, i>>)
        /\ FrameOf(c, k, 0, 0) = DataFrame(o.dest, Home[c], 0 + 0, 0 = o.len - 1, <<c, k, 0>>)
    BY <1>2 DEF FrameOf
  <2>2. QED
    BY <1>2, <2>1 DEF DataFrame, IsData
<1>3. CASE o.kind = "perf"
  BY <1>3 DEF FrameOf, DataFrame, IsData
<1>4. CASE o.kind = "ping"
  BY <1>4 DEF FrameOf, MacPingReqFrame, IsData
<1>5. CASE o.kind = "arp"
  BY <1>5 DEF FrameOf, MacArpReqFrame, IsData
<1>6. QED
  BY <1>1, <1>2, <1>3, <1>4, <1>5 DEF OpKind

LEMMA ShapedTask ==
    ASSUME NEW t \in Tasks, Shaped(t)
    PROVE  /\ t.id \in TaskIds /\ t.id[1] \in Caller
           /\ t.frame \in Frames /\ t.frame.type \in NonAck
           /\ IsData(t.frame) => t.frame.body = t.id
           /\ \A n \in Station : IsForSelf(n, t.frame) => Sends(t.id[1], n)
<1>1. t.id \in TaskIds /\ t.frame \in Requests
  BY DEF Tasks
<1>2. t.id[1] \in Caller /\ t.id[2] \in Nat /\ t.id[3] \in Nat
      /\ t.id = <<t.id[1], t.id[2], t.id[3]>>
  BY <1>1 DEF TaskIds
<1>3. PICK b \in 0 .. SeqCount - 1 : t.frame = FrameOf(t.id[1], t.id[2], t.id[3], b)
  BY DEF Shaped
<1>4. b \in Nat /\ t.id[2] \in 1 .. Len(Script[t.id[1]])
  BY SeqCountAssumption DEF Shaped
<1>5. /\ IsData(t.frame) => t.frame.body = t.id
      /\ t.frame.dest = FrameOf(t.id[1], t.id[2], 0, 0).dest
      /\ t.frame.src = FrameOf(t.id[1], t.id[2], 0, 0).src
  <2> DEFINE c == t.id[1]
             k == t.id[2]
             i == t.id[3]
  <2>1. c \in Caller /\ k \in 1 .. Len(Script[c]) /\ i \in Nat /\ t.id = <<c, k, i>>
        /\ t.frame = FrameOf(c, k, i, b)
    BY <1>2, <1>3, <1>4
  <2> HIDE DEF c, k, i
  <2>2. /\ IsData(FrameOf(c, k, i, b)) => FrameOf(c, k, i, b).body = <<c, k, i>>
        /\ FrameOf(c, k, i, b).dest = FrameOf(c, k, 0, 0).dest
        /\ FrameOf(c, k, i, b).src = FrameOf(c, k, 0, 0).src
    BY <1>4, <2>1, FrameOfShape
  <2>3. QED
    BY <2>1, <2>2 DEF c, k, i
<1>6. \A n \in Station : IsForSelf(n, t.frame) => Sends(t.id[1], n)
  BY <1>4, <1>5 DEF IsForSelf, Sends
<1>7. QED
  BY <1>1, <1>2, <1>5, <1>6 DEF Requests

LEMMA CallerQuiet ==
    ASSUME NEW c \in Caller, CallerStep(c)
    PROVE  /\ UNCHANGED <<inbox, jar, held, phase, air, timer, heard, settled, reader>>
           /\ \A n \in Station : Way(n)' = Way(n)
           /\ ~UNCHANGED writeQ => status[c] = "idle"
<1>1. UNCHANGED <<inbox, jar, held, phase, air, timer, heard, settled, reader>>
  BY DEF CallerStep, WriteNothing, Submit, Resume, GiveUpWaiting, daemonVars
<1>2. ~UNCHANGED writeQ => status[c] = "idle"
  BY DEF CallerStep, WriteNothing, Submit, Resume, GiveUpWaiting, daemonVars
<1>3. QED
  BY <1>1, <1>2 DEF Way

\* What was handed over stays handed over.
LEMMA MadeKept ==
    ASSUME TypeOK, [Next]_vars, NEW x \in TaskIds, Made(x)
    PROVE  Made(x)'
<1> DEFINE c == x[1]
<1>0. /\ op \in [Caller -> Nat \ {0}] /\ idx \in [Caller -> Nat]
      /\ status \in [Caller -> {"idle", "waiting", "ok", "link_error", "closed"}]
      /\ c \in Caller /\ x[2] \in Nat /\ x[3] \in Nat /\ x = <<c, x[2], x[3]>>
  BY DEF TypeOK, CallTypeOK, TaskIds
<1>1. ASSUME op'[c] = op[c], idx'[c] = idx[c], status[c] # "idle" => status'[c] # "idle"
      PROVE  Made(x)'
  <2>1. TaskId(c)' = TaskId(c)
    BY <1>1 DEF TaskId
  <2>2. QED
    BY <1>1, <2>1 DEF Made
<1>2. ASSUME op'[c] = op[c] + 1 \/ (op'[c] = op[c] /\ idx'[c] = idx[c] + 1)
      PROVE  Made(x)'
  <2>1. x[2] < op[c] \/ (x[2] = op[c] /\ x[3] < idx[c]) \/ (x[2] = op[c] /\ x[3] = idx[c])
    <3>1. TaskId(c)[1] = c /\ TaskId(c)[2] = op[c] /\ TaskId(c)[3] = idx[c]
      BY DEF TaskId
    <3>2. QED
      BY <1>0, <3>1 DEF Made, Less
  <2>2. x[2] < op'[c] \/ (x[2] = op'[c] /\ x[3] < idx'[c])
    <3>1. op[c] \in Nat /\ idx[c] \in Nat
      BY <1>0
    <3>2. QED
      BY <1>0, <1>2, <2>1, <3>1
  <2>3. TaskId(c)'[1] = c /\ TaskId(c)'[2] = op'[c] /\ TaskId(c)'[3] = idx'[c]
    BY DEF TaskId
  <2>4. Less(x, TaskId(c)')
    BY <2>2, <2>3 DEF Less
  <2>5. QED
    BY <2>4 DEF Made, Less
<1>3. ASSUME NEW d \in Caller, CallerStep(d) PROVE Made(x)'
  <2>1. CASE c # d
    BY <1>0, <1>1, <1>3, <2>1
       DEF CallerStep, WriteNothing, Submit, Resume, GiveUpWaiting, NextFrame, Return
  <2>2. CASE c = d
    <3>1. ASSUME NEW r, Return(c, r) PROVE op'[c] = op[c] + 1
      BY <1>0, <3>1 DEF Return
    <3>2. ASSUME NextFrame(c)
          PROVE  op'[c] = op[c] + 1 \/ (op'[c] = op[c] /\ idx'[c] = idx[c] + 1)
      BY <1>0, <3>1, <3>2 DEF NextFrame
    <3>3. CASE Submit(c)
      <4>1. CASE Alive(Home[c])
        <5>1. UNCHANGED <<op, idx>> /\ status'[c] = "waiting"
          BY <1>0, <3>3, <4>1 DEF Submit
        <5>2. QED
          BY <1>1, <5>1
      <4>2. CASE ~Alive(Home[c])
        BY <1>2, <3>1, <3>3, <4>2 DEF Submit
      <4>3. QED
        BY <4>1, <4>2
    <3>4. CASE WriteNothing(c) \/ Resume(c) \/ GiveUpWaiting(c)
      BY <1>2, <3>1, <3>2, <3>4 DEF WriteNothing, Resume, GiveUpWaiting
    <3>5. QED
      BY <1>3, <2>2, <3>3, <3>4 DEF CallerStep
  <2>3. QED
    BY <2>1, <2>2
<1>4. ASSUME NEW n \in Station, DaemonStep(n) PROVE Made(x)'
  <2>1. ASSUME NEW t, NEW r \in {"ok", "link_error"}, NEW src, Reply(t, r, src)
        PROVE  status[c] # "idle" => status'[c] # "idle"
    BY <1>0, <2>1 DEF Reply
  <2>2. ASSUME NEW p, End(n, p)
        PROVE  UNCHANGED <<op, idx>> /\ (status[c] # "idle" => status'[c] # "idle")
    BY <1>0, <2>2 DEF End
  <2>3. CASE ReceiveAnswer(n) \/ LinkError(n)
    <3>1. UNCHANGED <<op, idx>>
      BY <2>3 DEF ReceiveAnswer, LinkError
    <3>2. status[c] # "idle" => status'[c] # "idle"
      BY <2>1, <2>3 DEF ReceiveAnswer, LinkError
    <3>3. QED
      BY <1>1, <3>1, <3>2
  <2>4. CASE OutputFails(n) \/ Idle(n)
    BY <1>1, <2>2, <2>4 DEF OutputFails, Idle, callVars
  <2>5. CASE ReceiveNothing(n) \/ ReceiveRequest(n) \/ Deliver(n) \/ KeepTimer(n)
              \/ AckTimeout(n) \/ Resend(n) \/ CooldownEnds(n) \/ AcceptBusy(n) \/ AcceptFree(n)
    BY <1>1, <2>5 DEF ReceiveNothing, ReceiveRequest, Deliver, KeepTimer, AckTimeout, Resend,
                      CooldownEnds, AcceptBusy, AcceptFree, callVars
  <2>6. QED
    BY <1>4, <2>3, <2>4, <2>5 DEF DaemonStep, ReceivePhase, TimerPhase
<1>5. ASSUME NEW n \in Station, DropReader(n) PROVE Made(x)'
  BY <1>1, <1>5 DEF DropReader, callVars
<1>6. CASE UNCHANGED vars
  BY <1>1, <1>6 DEF vars, callVars
<1>7. QED
  BY <1>3, <1>4, <1>5, <1>6 DEF Next

\* A frame not yet handed over comes after all that were.
LEMMA MadeBefore ==
    ASSUME NEW c \in Caller, status[c] = "idle", NEW x, Made(x)
    PROVE  Less(x, TaskId(c))
BY DEF Made, Less, TaskId

\* The delivery takes the first frame off the way.
LEMMA DeliverWay ==
    ASSUME TypeOK, NEW n \in Station, Deliver(n)
    PROVE  /\ Way(n) # <<>> /\ Head(Way(n)) = held[n] /\ Way(n)' = Tail(Way(n))
           /\ held[n] \in Frames /\ UNCHANGED <<timer, writeQ>>
           /\ \A m \in Station \ {n} :
                Way(m)' = Way(m) /\ inbox'[m] = inbox[m] /\ jar'[m] = jar[m]
           /\ IF held[n].seq \in Elems(jar[n])
              THEN inbox'[n] = inbox[n] /\ jar'[n] = jar[n]
              ELSE /\ jar'[n] = Remember(jar[n], held[n].seq)
                   /\ inbox'[n] = inbox[n] \/ inbox'[n] = Append(inbox[n], held[n])
<1>0. /\ phase \in [Station -> {"receive", "deliver", "tick", "stopped", "failed"}]
      /\ held \in [Station -> Frames \cup {NoFrame}] /\ jar \in [Station -> Seq(0 .. SeqCount - 1)]
      /\ inbox \in [Station -> Seq(Frames)]
  BY DEF TypeOK, DaemonTypeOK
<1>1. /\ phase[n] = "deliver" /\ phase' = [phase EXCEPT ![n] = "tick"]
      /\ held' = [held EXCEPT ![n] = NoFrame] /\ UNCHANGED <<air, timer, writeQ>>
      /\ IF held[n].seq \in Elems(jar[n])
         THEN UNCHANGED <<jar, inbox>>
         ELSE /\ jar' = [jar EXCEPT ![n] = Remember(@, held[n].seq)]
              /\ inbox' = inbox \/ inbox' = [inbox EXCEPT ![n] = Append(@, held[n])]
  BY DEF Deliver, Enter
<1>2. held[n] \in Frames /\ air[n] \in Seq(Frames)
  BY <1>1, ReaderSeqs
<1>3. Way(n) = <<held[n]>> \o air[n] /\ Way(n)' = air[n]
  BY <1>0, <1>1 DEF Way
<1>4. Way(n) # <<>> /\ Head(Way(n)) = held[n] /\ Way(n)' = Tail(Way(n))
  BY <1>2, <1>3, ConsAppend
<1>5. ASSUME NEW m \in Station \ {n}
      PROVE  Way(m)' = Way(m) /\ inbox'[m] = inbox[m] /\ jar'[m] = jar[m]
  <2>1. Way(m)' = Way(m)
    BY <1>0, <1>1 DEF Way
  <2>2. inbox'[m] = inbox[m] /\ jar'[m] = jar[m]
    BY <1>0, <1>1
  <2>3. QED
    BY <2>1, <2>2
<1>6. IF held[n].seq \in Elems(jar[n])
      THEN inbox'[n] = inbox[n] /\ jar'[n] = jar[n]
      ELSE /\ jar'[n] = Remember(jar[n], held[n].seq)
           /\ inbox'[n] = inbox[n] \/ inbox'[n] = Append(inbox[n], held[n])
  BY <1>0, <1>1
<1>7. QED
  BY <1>1, <1>2, <1>4, <1>5, <1>6

\* A data frame new to a station is that of the task under a timer.
LEMMA PassedStep ==
    ASSUME TypeOK, [Next]_vars, NEW n \in Station, NEW f \in Passed(n)'
    PROVE  \/ f \in Passed(n)
           \/ \E m \in Station :
                /\ timer'[m].task \in Pending(m) /\ timer'[m].task # NoTask
                /\ f = timer'[m].task.frame
<1>0. f \in Elems(Way(n)') \cup Elems(inbox'[n]) /\ IsData(f)
  BY DEF Passed
<1>1. Way(n) \in Seq(Frames) /\ inbox[n] \in Seq(Frames)
  BY ReaderSeqs
<1>2. ASSUME Elems(Way(n)') \subseteq Elems(Way(n)), Elems(inbox'[n]) \subseteq Elems(inbox[n])
      PROVE  f \in Passed(n)
  BY <1>0, <1>2 DEF Passed
<1>3. ASSUME NEW m \in Station, DaemonStep(m)
      PROVE  \/ f \in Passed(n)
             \/ \E k \in Station :
                  /\ timer'[k].task \in Pending(k) /\ timer'[k].task # NoTask
                  /\ f = timer'[k].task.frame
  <2>1. CASE Deliver(m)
    <3>1. CASE m # n
      BY <1>2, <2>1, <3>1, DeliverWay
    <3>2. CASE m = n
      <4>1. /\ Way(n) # <<>> /\ Head(Way(n)) = held[n] /\ Way(n)' = Tail(Way(n))
            /\ held[n] \in Frames
            /\ inbox'[n] = inbox[n] \/ inbox'[n] = Append(inbox[n], held[n])
        BY <2>1, <3>2, DeliverWay
      <4>2. Elems(Way(n)) = Elems(Tail(Way(n))) \cup {held[n]}
        BY <1>1, <4>1, TailElems
      <4>3. Elems(Append(inbox[n], held[n])) = Elems(inbox[n]) \cup {held[n]}
        BY <1>1, <4>1, AppendElems
      <4>4. QED
        BY <1>0, <4>1, <4>2, <4>3 DEF Passed
    <3>3. QED
      BY <3>1, <3>2
  <2>2. CASE Resting
    <3>1. inbox'[n] = inbox[n] /\ Within(Way(n)', Way(n))
      BY <2>2 DEF Resting
    <3>2. \A i \in 1 .. Len(Way(n)') :
             Way(n)'[i].type \in NonAck => Way(n)'[i] \in Elems(Way(n))
      <4> DEFINE P == Way(n)'
                 Q == Way(n)
      <4>1. Within(P, Q)
        BY <3>1
      <4> HIDE DEF P, Q
      <4>2. \A i \in 1 .. Len(P) : P[i].type \in NonAck => P[i] \in Elems(Q)
        BY <4>1 DEF Within, Elems
      <4>3. QED
        BY <4>2 DEF P, Q
    <3>3. f \in Elems(Way(n)') => f \in Elems(Way(n))
      BY <1>0, <3>2 DEF Elems, IsData, NonAck
    <3>4. QED
      BY <1>0, <3>1, <3>3 DEF Passed
  <2>3. CASE Sending(m)
    <3>1. PICK u \in Tasks :
            /\ \/ u = timer[m].task
               \/ writeQ[m] # <<>> /\ u = Head(writeQ[m])
            /\ timer'[m].task = u
            /\ Way(n)' = Way(n) \/ Way(n)' = Append(Way(n), u.frame)
      BY <2>3 DEF Sending
    <3>2. u \in Pending(m) /\ u # NoTask /\ u.frame \in Frames
      <4>1. writeQ[m] \in Seq(Tasks)
        BY PendingType DEF TypeOK
      <4>2. writeQ[m] # <<>> => Head(writeQ[m]) \in Elems(writeQ[m])
        BY <4>1, TailElems
      <4>3. QED
        BY <3>1, <4>2, NoTaskAssumption DEF Pending, Tasks, Requests
    <3>3. Elems(Append(Way(n), u.frame)) = Elems(Way(n)) \cup {u.frame}
      BY <1>1, <3>2, AppendElems
    <3>4. inbox'[n] = inbox[n]
      BY <2>3 DEF Sending
    <3>5. f \in Elems(Way(n)) \cup Elems(inbox[n]) \/ f = u.frame
      BY <1>0, <3>1, <3>3, <3>4
    <3>6. QED
      BY <1>0, <3>1, <3>2, <3>5 DEF Passed
  <2>4. QED
    BY <1>3, <2>1, <2>2, <2>3, DaemonWay
<1>4. ASSUME NEW c \in Caller, CallerStep(c) PROVE f \in Passed(n)
  BY <1>2, <1>4, CallerQuiet
<1>5. ASSUME NEW m \in Station, DropReader(m) PROVE f \in Passed(n)
  <2>1. Way(n)' = Way(n) /\ inbox' = inbox
    BY <1>5 DEF DropReader, Way
  <2>2. QED
    BY <1>2, <2>1
<1>6. CASE UNCHANGED vars
  <2>1. Way(n)' = Way(n) /\ inbox' = inbox
    BY <1>6 DEF vars, daemonVars, Way
  <2>2. QED
    BY <1>2, <2>1
<1>7. QED
  BY <1>3, <1>4, <1>5, <1>6 DEF Next

\* A task new to a daemon is one that a caller of its station hands over.
LEMMA NewTask ==
    ASSUME TypeOK, [Next]_vars, NEW n \in Station, NEW t \in Pending(n)', t \notin Pending(n)
    PROVE  \E c \in Caller :
             /\ Home[c] = n /\ status[c] = "idle" /\ status'[c] = "waiting"
             /\ t.id = TaskId(c) /\ TaskId(c)' = TaskId(c) /\ Shaped(t)
<1>1. ASSUME NEW c \in Caller, CallerStep(c)
      PROVE  /\ Home[c] = n /\ status[c] = "idle" /\ status'[c] = "waiting"
             /\ t.id = TaskId(c) /\ TaskId(c)' = TaskId(c) /\ Shaped(t)
  <2>1. UNCHANGED timer /\ ~UNCHANGED writeQ
    BY <1>1, CallerQuiet DEF Pending
  <2>2. PICK b \in 0 .. SeqCount - 1 :
          LET s == [frame |-> FrameOf(c, op[c], idx[c], b), id |-> TaskId(c)]
          IN  s \in Tasks /\ writeQ' = [writeQ EXCEPT ![Home[c]] = Append(@, s)]
    BY <1>1, <2>1, CallerPending
  <2> DEFINE s == [frame |-> FrameOf(c, op[c], idx[c], b), id |-> TaskId(c)]
  <2>3. op[c] \in 1 .. Len(Script[c]) /\ TaskId(c)' = TaskId(c) /\ status'[c] = "waiting"
    BY <1>1, <2>1, CallerPending
  <2>4. n = Home[c] /\ t = s
    BY <2>1, <2>2, AppendPending, HomeAssumption
  <2>5. Shaped(s)
    BY <2>3 DEF Shaped, TaskId
  <2>6. QED
    BY <1>1, <2>1, <2>3, <2>4, <2>5, CallerQuiet
<1>2. ASSUME NEW m \in Station, DaemonStep(m) PROVE FALSE
  BY <1>2, DaemonPending
<1>3. ASSUME NEW m \in Station, DropReader(m) PROVE FALSE
  BY <1>3 DEF DropReader, Pending
<1>4. CASE UNCHANGED vars
  BY <1>4 DEF vars, daemonVars, Pending
<1>5. QED
  BY <1>1, <1>2, <1>3, <1>4 DEF Next

LEMMA TasksShapedStep ==
    ASSUME TypeOK, TasksShaped, [Next]_vars
    PROVE  TasksShaped'
<1>1. ASSUME NEW n \in Station, NEW t \in Pending(n)' PROVE Shaped(t)
  BY <1>1, NewTask DEF TasksShaped
<1>2. QED
  BY <1>1 DEF TasksShaped, Shaped

LEMMA AllMadeStep ==
    ASSUME TypeOK, TasksShaped, AllMade, [Next]_vars
    PROVE  AllMade'
<1>1. ASSUME NEW n \in Station, NEW t \in Pending(n) PROVE t.id \in TaskIds /\ Made(t.id)'
  <2>1. t.id \in TaskIds /\ Made(t.id)
    BY PendingRequests DEF AllMade, Tasks
  <2>2. QED
    BY <2>1, MadeKept
<1>2. ASSUME NEW n \in Station, NEW t \in Pending(n)' PROVE Made(t.id)'
  <2>1. CASE t \in Pending(n)
    BY <1>1, <2>1
  <2>2. CASE t \notin Pending(n)
    <3>1. PICK c \in Caller :
            t.id = TaskId(c) /\ TaskId(c)' = TaskId(c) /\ status'[c] = "waiting"
      BY <2>2, NewTask
    <3>2. t.id[1] = c
      BY <3>1 DEF TaskId
    <3>3. QED
      BY <3>1, <3>2 DEF Made
  <2>3. QED
    BY <2>1, <2>2
<1>3. ASSUME NEW n \in Station, NEW f \in Passed(n)' PROVE f.body \in TaskIds /\ Made(f.body)'
  <2>1. CASE f \in Passed(n)
    BY <2>1, MadeKept DEF AllMade
  <2>2. CASE f \notin Passed(n)
    <3>1. PICK m \in Station : timer'[m].task \in Pending(m) /\ f = timer'[m].task.frame
      BY <2>2, PassedStep
    <3> DEFINE t == timer'[m].task
    <3>2. t \in Pending(m) /\ t \in Tasks /\ Shaped(t) /\ f = t.frame /\ IsData(f)
      BY <1>3, <3>1, PendingRequests DEF TasksShaped, Passed
    <3> HIDE DEF t
    <3>3. f.body = t.id
      BY <3>2, ShapedTask
    <3>4. QED
      BY <1>1, <3>2, <3>3
  <2>3. QED
    BY <2>1, <2>2
<1>4. QED
  BY <1>2, <1>3 DEF AllMade

\* What a step makes of a queue: the same, the rest, nothing, or one task more.
LEMMA QueueStep ==
    ASSUME TypeOK, [Next]_vars, NEW n \in Station
    PROVE  \/ writeQ'[n] = writeQ[n] /\ timer'[n].task \in {timer[n].task, NoTask}
           \/ writeQ'[n] = <<>> /\ timer'[n].task \in {timer[n].task, NoTask}
           \/ /\ writeQ[n] # <<>> /\ writeQ'[n] = Tail(writeQ[n])
              /\ timer'[n].task = Head(writeQ[n])
           \/ /\ timer'[n].task = timer[n].task
              /\ \E t \in Tasks : t \in Pending(n)' /\ writeQ'[n] = Append(writeQ[n], t)
                   /\ \E c \in Caller : status[c] = "idle" /\ t.id = TaskId(c)
<1>0. writeQ \in [Station -> Seq(Tasks)]
  BY DEF TypeOK, DaemonTypeOK
<1>1. ASSUME NEW c \in Caller, CallerStep(c), ~UNCHANGED writeQ
      PROVE  \/ writeQ'[n] = writeQ[n]
             \/ \E t \in Tasks : t \in Pending(n)' /\ writeQ'[n] = Append(writeQ[n], t)
                   /\ \E d \in Caller : status[d] = "idle" /\ t.id = TaskId(d)
  <2>1. PICK b \in 0 .. SeqCount - 1 :
          LET s == [frame |-> FrameOf(c, op[c], idx[c], b), id |-> TaskId(c)]
          IN  s \in Tasks /\ writeQ' = [writeQ EXCEPT ![Home[c]] = Append(@, s)]
    BY <1>1, CallerPending
  <2> DEFINE s == [frame |-> FrameOf(c, op[c], idx[c], b), id |-> TaskId(c)]
  <2>2. s \in Tasks /\ s.id = TaskId(c) /\ status[c] = "idle" /\ UNCHANGED timer
    BY <1>1, <2>1, CallerQuiet
  <2>3. writeQ' = [writeQ EXCEPT ![Home[c]] = Append(@, s)]
    BY <2>1
  <2> HIDE DEF s
  <2>4. CASE n = Home[c]
    <3>1. writeQ'[n] = Append(writeQ[n], s)
      BY <1>0, <2>3, <2>4
    <3>2. s \in Pending(n)'
      <4>1. writeQ' = [writeQ EXCEPT ![n] = Append(@, s)]
        BY <2>3, <2>4
      <4>2. Pending(n)' = Pending(n) \cup {s}
        BY <2>2, <4>1, AppendPending
      <4>3. QED
        BY <4>2
    <3>3. QED
      BY <2>2, <3>1, <3>2
  <2>5. CASE n # Home[c]
    BY <1>0, <2>3, <2>5
  <2>6. QED
    BY <2>4, <2>5
<1>2. ASSUME NEW c \in Caller, CallerStep(c) PROVE UNCHANGED timer
  BY <1>2, CallerQuiet
<1>3. ASSUME NEW m \in Station, DaemonStep(m)
      PROVE  \/ writeQ'[n] = writeQ[n] /\ timer'[n].task \in {timer[n].task, NoTask}
             \/ writeQ'[n] = <<>> /\ timer'[n].task \in {timer[n].task, NoTask}
             \/ /\ writeQ[n] # <<>> /\ writeQ'[n] = Tail(writeQ[n])
                /\ timer'[n].task = Head(writeQ[n])
  <2>1. CASE Deliver(m)
    BY <2>1, DeliverWay
  <2>2. CASE Resting
    BY <2>2 DEF Resting
  <2>3. CASE Sending(m)
    BY <1>0, <2>3 DEF Sending
  <2>4. QED
    BY <1>3, <2>1, <2>2, <2>3, DaemonWay
<1>4. ASSUME NEW m \in Station, DropReader(m) PROVE UNCHANGED <<writeQ, timer>>
  BY <1>4 DEF DropReader
<1>5. CASE UNCHANGED vars
  BY <1>5 DEF vars, daemonVars
<1>6. ASSUME UNCHANGED <<writeQ, timer>>
      PROVE  writeQ'[n] = writeQ[n] /\ timer'[n].task \in {timer[n].task, NoTask}
  BY <1>6
<1>7. QED
  BY <1>1, <1>2, <1>3, <1>4, <1>5, <1>6 DEF Next

LEMMA QueueInOrderStep ==
    ASSUME TypeOK, AllMade, QueueInOrder, [Next]_vars
    PROVE  QueueInOrder'
<1>1. ASSUME NEW n \in Station
      PROVE  /\ \A i, j \in 1 .. Len(writeQ'[n]) :
                  i < j => Less(writeQ'[n][i].id, writeQ'[n][j].id)
             /\ timer'[n].task # NoTask =>
                  \A i \in 1 .. Len(writeQ'[n]) : Less(timer'[n].task.id, writeQ'[n][i].id)
  <2> DEFINE Q == writeQ[n]
             R == writeQ'[n]
             u == timer[n].task
             v == timer'[n].task
  <2>1. /\ \A i, j \in 1 .. Len(Q) : i < j => Less(Q[i].id, Q[j].id)
        /\ u # NoTask => \A i \in 1 .. Len(Q) : Less(u.id, Q[i].id)
    BY DEF QueueInOrder
  <2>2. Q \in Seq(Tasks) /\ \A i \in 1 .. Len(Q) : Made(Q[i].id)
    <3>1. Q \in Seq(Tasks)
      BY PendingType DEF TypeOK
    <3>2. \A i \in 1 .. Len(Q) : Q[i] \in Pending(n)
      BY DEF Pending, Elems
    <3>3. QED
      BY <3>1, <3>2 DEF AllMade
  <2>3. u # NoTask => Made(u.id)
    BY DEF AllMade, Pending
  <2>4. \/ R = Q /\ v \in {u, NoTask}
        \/ R = <<>>
        \/ Q # <<>> /\ R = Tail(Q) /\ v = Head(Q)
        \/ v = u /\ \E t \in Tasks : R = Append(Q, t)
                      /\ \E c \in Caller : status[c] = "idle" /\ t.id = TaskId(c)
    BY QueueStep
  <2> HIDE DEF Q, R, u, v
  <2> SUFFICES /\ \A i, j \in 1 .. Len(R) : i < j => Less(R[i].id, R[j].id)
               /\ v # NoTask => \A i \in 1 .. Len(R) : Less(v.id, R[i].id)
    BY DEF R, v
  <2>5. CASE R = Q /\ v \in {u, NoTask}
    BY <2>1, <2>5
  <2>6. CASE R = <<>>
    BY <2>6
  <2>7. CASE Q # <<>> /\ R = Tail(Q) /\ v = Head(Q)
    <3>1. /\ Len(Q) \in Nat /\ Len(R) = Len(Q) - 1 /\ v = Q[1] /\ 1 \in 1 .. Len(Q)
          /\ \A i \in 1 .. Len(R) : R[i] = Q[i + 1]
      BY <2>2, <2>7
    <3>2. \A i \in 1 .. Len(R) : i + 1 \in 1 .. Len(Q) /\ 1 < i + 1
      BY <3>1
    <3>3. \A i, j \in 1 .. Len(R) : i < j => i + 1 < j + 1
      BY <3>1
    <3>4. \A i \in 1 .. Len(R) : Less(v.id, R[i].id)
      BY <2>1, <3>1, <3>2
    <3>5. \A i, j \in 1 .. Len(R) : i < j => Less(R[i].id, R[j].id)
      BY <2>1, <3>1, <3>2, <3>3
    <3>6. QED
      BY <3>4, <3>5
  <2>8. CASE v = u /\ \E t \in Tasks : R = Append(Q, t)
                        /\ \E c \in Caller : status[c] = "idle" /\ t.id = TaskId(c)
    <3>1. PICK t \in Tasks, c \in Caller :
            R = Append(Q, t) /\ status[c] = "idle" /\ t.id = TaskId(c)
      BY <2>8
    <3>2. /\ Len(Q) \in Nat /\ Len(R) = Len(Q) + 1 /\ R[Len(Q) + 1] = t
          /\ \A i \in 1 .. Len(Q) : R[i] = Q[i]
      BY <2>2, <3>1
    <3>3. \A i \in 1 .. Len(Q) : Less(Q[i].id, t.id)
      BY <2>2, <3>1, MadeBefore
    <3>4. v # NoTask => Less(v.id, t.id)
      BY <2>3, <2>8, <3>1, MadeBefore
    <3>5. \A i \in 1 .. Len(R) : i \in 1 .. Len(Q) \/ i = Len(Q) + 1
      BY <3>2
    <3>6. v # NoTask => \A i \in 1 .. Len(R) : Less(v.id, R[i].id)
      BY <2>1, <2>8, <3>2, <3>4, <3>5
    <3>7. ASSUME NEW i \in 1 .. Len(R), NEW j \in 1 .. Len(R), i < j
          PROVE  Less(R[i].id, R[j].id)
      <4>1. i \in 1 .. Len(Q)
        BY <3>2, <3>7
      <4>2. CASE j \in 1 .. Len(Q)
        BY <2>1, <3>2, <3>7, <4>1, <4>2
      <4>3. CASE j = Len(Q) + 1
        BY <3>2, <3>3, <4>1, <4>3
      <4>4. QED
        BY <3>5, <4>2, <4>3
    <3>8. QED
      BY <3>6, <3>7
  <2>9. QED
    BY <2>4, <2>5, <2>6, <2>7, <2>8
<1>2. QED
  BY <1>1 DEF QueueInOrder

LEMMA QueueBehindStep ==
    ASSUME TypeOK, TasksShaped, TasksOwned, TasksOwned', AllMade, QueueInOrder',
           QueueBehind, [Next]_vars
    PROVE  QueueBehind'
<1>0. TypeOK'
  BY TypeStep
<1>1. ASSUME NEW n \in Station, NEW m \in Station, NEW f \in Passed(n)',
             NEW i \in 1 .. Len(writeQ'[m])
      PROVE  Less(f.body, writeQ'[m][i].id)
  <2> DEFINE Q == writeQ[m]
             R == writeQ'[m]
             t == R[i]
  <2>1. Q \in Seq(Tasks) /\ R \in Seq(Tasks)
    BY <1>0 DEF TypeOK, DaemonTypeOK
  <2>2. CASE f \in Passed(n)
    <3>1. /\ \A k \in 1 .. Len(Q) : Less(f.body, Q[k].id)
          /\ Made(f.body)
      BY <2>2 DEF QueueBehind, AllMade
    <3>2. \/ R = Q \/ R = <<>> \/ (Q # <<>> /\ R = Tail(Q))
          \/ \E s \in Tasks : R = Append(Q, s)
                /\ \E c \in Caller : status[c] = "idle" /\ s.id = TaskId(c)
      BY QueueStep
    <3> HIDE DEF Q, R
    <3>3. CASE R = Q \/ R = <<>> \/ (Q # <<>> /\ R = Tail(Q))
      <4>1. \E k \in 1 .. Len(Q) : R[i] = Q[k]
        BY <2>1, <3>3 DEF R
      <4>2. QED
        BY <3>1, <4>1 DEF R
    <3>4. CASE \E s \in Tasks : R = Append(Q, s)
                  /\ \E c \in Caller : status[c] = "idle" /\ s.id = TaskId(c)
      <4>1. PICK s \in Tasks, c \in Caller :
              R = Append(Q, s) /\ status[c] = "idle" /\ s.id = TaskId(c)
        BY <3>4
      <4>2. i \in 1 .. Len(R)
        BY DEF R
      <4>3. R[i] = s \/ \E k \in 1 .. Len(Q) : R[i] = Q[k]
        BY <2>1, <4>1, <4>2
      <4>4. Less(f.body, s.id)
        BY <3>1, <4>1, MadeBefore
      <4>5. QED
        BY <3>1, <4>3, <4>4 DEF R
    <3>5. QED
      BY <3>2, <3>3, <3>4
  <2>3. CASE f \notin Passed(n)
    <3>1. PICK k \in Station : /\ timer'[k].task \in Pending(k) /\ timer'[k].task # NoTask
                               /\ f = timer'[k].task.frame
      BY <2>3, PassedStep
    <3> DEFINE u == timer'[k].task
    <3>2. u \in Tasks /\ Shaped(u) /\ f = u.frame /\ IsData(f) /\ Home[u.id[1]] = k
      BY <1>1, <3>1, PendingRequests DEF TasksShaped, TasksOwned, Passed
    <3>3. f.body = u.id
      BY <3>2, ShapedTask
    <3>4. CASE k = m
      BY <3>1, <3>3, <3>4 DEF QueueInOrder
    <3>5. CASE k # m
      <4>1. t \in Pending(m)'
        BY DEF Pending, Elems
      <4>2. Home[t.id[1]] = m
        BY <4>1 DEF TasksOwned
      <4>3. u.id[1] # t.id[1]
        BY <3>2, <3>5, <4>2
      <4>4. QED
        BY <3>3, <4>3 DEF Less
    <3>6. QED
      BY <3>4, <3>5
  <2>4. QED
    BY <2>2, <2>3
<1>2. QED
  BY <1>1 DEF QueueBehind

-----------------------------------------------------------------------------
(* The inductive invariant of the order in which requests reach a reader.  *)

HeldRequests == \A n \in Station : phase[n] = "deliver" => held[n].type \in NonAck

\* What is on the way to a station fits what was passed on there, and so it
\* does with the frame under a timer, which may be sent again, behind it.
WayInv ==
    \A n \in Station :
       /\ Tidy(Way(n), inbox[n], jar[n]) /\ Ordered(inbox[n])
       /\ \A m \in Station :
            timer[m].task # NoTask /\ IsForSelf(n, timer[m].task.frame) =>
              Tidy(Append(Way(n), timer[m].task.frame), inbox[n], jar[n])

OrderInv ==
    HeldRequests /\ TasksShaped /\ QueueInOrder /\ AllMade /\ QueueBehind /\ WayInv

LEMMA HeldRequestsStep ==
    ASSUME TypeOK, HeldRequests, [Next]_vars
    PROVE  HeldRequests'
<1>0. /\ phase \in [Station -> {"receive", "deliver", "tick", "stopped", "failed"}]
      /\ held \in [Station -> Frames \cup {NoFrame}]
  BY DEF TypeOK, DaemonTypeOK
<1>1. ASSUME UNCHANGED <<phase, held>> PROVE HeldRequests'
  BY <1>1 DEF HeldRequests
<1>2. ASSUME NEW n \in Station, NEW p \in {"receive", "tick", "stopped", "failed"},
             Enter(n, p), NEW h, held' = held \/ held' = [held EXCEPT ![n] = h]
      PROVE  HeldRequests'
  <2>1. ASSUME NEW m \in Station, phase'[m] = "deliver"
        PROVE  m # n /\ phase[m] = "deliver" /\ held'[m] = held[m]
    BY <1>0, <1>2, <2>1 DEF Enter
  <2>2. QED
    BY <2>1 DEF HeldRequests
<1>3. ASSUME NEW n \in Station, ReceiveRequest(n) PROVE HeldRequests'
  <2>1. /\ Head(air[n]).type \in NonAck /\ held' = [held EXCEPT ![n] = Head(air[n])]
        /\ phase' = [phase EXCEPT ![n] = "deliver"]
    BY <1>3 DEF ReceiveRequest, Enter
  <2>2. QED
    BY <1>0, <2>1 DEF HeldRequests
<1>4. ASSUME NEW n \in Station, NEW p \in {"stopped", "failed"}, End(n, p) PROVE HeldRequests'
  BY <1>2, <1>4 DEF End
<1>5. ASSUME NEW n \in Station, DaemonStep(n) PROVE HeldRequests'
  <2>1. CASE ReceiveNothing(n) \/ ReceiveAnswer(n) \/ Deliver(n) \/ KeepTimer(n)
              \/ AckTimeout(n) \/ Resend(n) \/ LinkError(n) \/ CooldownEnds(n)
              \/ AcceptBusy(n) \/ AcceptFree(n)
    BY <1>2, <2>1 DEF ReceiveNothing, ReceiveAnswer, Deliver, KeepTimer, AckTimeout, Resend,
                      LinkError, CooldownEnds, AcceptBusy, AcceptFree
  <2>2. CASE Idle(n)
    BY <1>2, <1>4, <2>2 DEF Idle
  <2>3. CASE OutputFails(n)
    BY <1>4, <2>3 DEF OutputFails
  <2>4. QED
    BY <1>3, <1>5, <2>1, <2>2, <2>3 DEF DaemonStep, ReceivePhase, TimerPhase
<1>6. ASSUME NEW c \in Caller, CallerStep(c) PROVE HeldRequests'
  BY <1>1, <1>6, CallerQuiet
<1>7. ASSUME NEW n \in Station, DropReader(n) PROVE HeldRequests'
  BY <1>1, <1>7 DEF DropReader
<1>8. CASE UNCHANGED vars
  BY <1>1, <1>8 DEF vars, daemonVars
<1>9. QED
  BY <1>5, <1>6, <1>7, <1>8 DEF Next

LEMMA WayInvStep ==
    ASSUME OneSource, TypeOK, TypeOK', TasksShaped, TasksOwned, QueueBehind, HeldRequests,
           WayInv, [Next]_vars
    PROVE  WayInv'
<1> DEFINE Ready(n) ==
             /\ Tidy(Way(n), inbox[n], jar[n]) /\ Ordered(inbox[n])
             /\ \A m \in Station :
                  timer[m].task # NoTask /\ IsForSelf(n, timer[m].task.frame) =>
                    Tidy(Append(Way(n), timer[m].task.frame), inbox[n], jar[n])
<1>0. \A n \in Station : Ready(n) /\ Way(n) \in Seq(Frames) /\ Way(n)' \in Seq(Frames)
  <2>1. ASSUME NEW n \in Station PROVE Way(n)' \in Seq(Frames)
    <3>1. air'[n] \in Seq(Frames) /\ (phase'[n] = "deliver" => held'[n] \in Frames)
      BY DEF TypeOK, DaemonTypeOK, MediumTypeOK
    <3>2. CASE phase'[n] = "deliver"
      BY <3>1, <3>2, ConsAppend DEF Way
    <3>3. CASE phase'[n] # "deliver"
      BY <3>1, <3>3 DEF Way
    <3>4. QED
      BY <3>2, <3>3
  <2>2. QED
    BY <2>1, ReaderSeqs DEF WayInv
<1>1. ASSUME NEW m \in Station, timer[m].task # NoTask
      PROVE  /\ timer[m].task \in Tasks /\ timer[m].task.frame \in Frames
             /\ Shaped(timer[m].task) /\ Home[timer[m].task.id[1]] = m
  <2>1. timer[m].task \in Pending(m)
    BY <1>1 DEF Pending
  <2>2. QED
    BY <2>1, PendingRequests DEF TasksShaped, TasksOwned
\* A station whose way gains nothing and loses no timer's frame.
<1>2. ASSUME NEW n \in Station, Within(Way(n)', Way(n)),
             inbox'[n] = inbox[n], jar'[n] = jar[n],
             \A m \in Station : timer'[m].task \in {timer[m].task, NoTask}
      PROVE  Ready(n)'
  <2> DEFINE P == Way(n)'
             Q == Way(n)
  <2>1. P \in Seq(Frames) /\ Q \in Seq(Frames) /\ Within(P, Q)
    BY <1>0, <1>2
  <2>2. Tidy(Q, inbox[n], jar[n]) /\ Ordered(inbox[n])
    BY <1>0
  <2>3. ASSUME NEW m \in Station, timer'[m].task # NoTask, IsForSelf(n, timer'[m].task.frame)
        PROVE  Tidy(Append(P, timer'[m].task.frame), inbox[n], jar[n])
    <3> DEFINE u == timer'[m].task.frame
    <3>1. u \in Frames /\ Tidy(Append(Q, u), inbox[n], jar[n])
      <4>1. timer'[m].task = timer[m].task
        BY <1>2, <2>3
      <4>2. QED
        BY <1>0, <1>1, <2>3, <4>1
    <3> HIDE DEF P, Q, u
    <3>2. Append(P, u) \in Seq(Frames) /\ Append(Q, u) \in Seq(Frames)
          /\ Within(Append(P, u), Append(Q, u))
      BY <2>1, <3>1, WithinAppend
    <3>3. Tidy(Append(P, u), inbox[n], jar[n])
      BY <3>1, <3>2, TidyWithin
    <3>4. QED
      BY <3>3 DEF u
  <2>4. Tidy(P, inbox[n], jar[n])
    <3> HIDE DEF P, Q
    <3>1. QED
      BY <2>1, <2>2, TidyWithin
  <2>5. QED
    BY <1>2, <2>2, <2>3, <2>4
\* A station that nothing happens to.
<1>3. ASSUME NEW n \in Station, Way(n)' = Way(n), inbox'[n] = inbox[n], jar'[n] = jar[n],
             \A m \in Station : timer'[m].task = timer[m].task
      PROVE  Ready(n)'
  BY <1>0, <1>2, <1>3, WithinSelf
\* The request at the head of the way is passed on or is a copy.
<1>4. ASSUME NEW n \in Station, Deliver(n) PROVE Ready(n)'
  <2> DEFINE Q == Way(n)
             f == held[n]
             box == inbox[n]
             j == jar[n]
  <2>1. /\ Q \in Seq(Frames) /\ Q # <<>> /\ Head(Q) = f /\ Way(n)' = Tail(Q) /\ f \in Frames
        /\ UNCHANGED timer
        /\ IF f.seq \in Elems(j) THEN inbox'[n] = box /\ jar'[n] = j
           ELSE jar'[n] = Remember(j, f.seq) /\ (inbox'[n] = box \/ inbox'[n] = Append(box, f))
    BY <1>0, <1>4, DeliverWay
  <2>2. f.type \in NonAck
    BY <1>4 DEF Deliver, HeldRequests
  <2>3. box \in Seq(Frames) /\ j \in Seq(0 .. SeqCount - 1)
        /\ Tidy(Q, box, j) /\ Ordered(box)
    BY <1>0, ReaderSeqs
  <2>4. CASE f.seq \in Elems(j)
    <3>1. Within(Way(n)', Way(n))
      BY <2>1, WithinTail
    <3>2. QED
      BY <1>2, <2>1, <2>4, <3>1
  <2>5. CASE f.seq \notin Elems(j)
    <3>1. /\ Ordered(Append(box, f))
          /\ Tidy(Tail(Q), Append(box, f), Remember(j, f.seq))
          /\ Tidy(Tail(Q), box, Remember(j, f.seq))
      <4> HIDE DEF Q, f, box, j
      <4>1. QED
        BY <2>1, <2>2, <2>3, <2>5, DeliverTidy
    <3>2. ASSUME NEW u \in Frames, Tidy(Append(Q, u), box, j)
          PROVE  /\ Tidy(Append(Tail(Q), u), Append(box, f), Remember(j, f.seq))
                 /\ Tidy(Append(Tail(Q), u), box, Remember(j, f.seq))
      <4> DEFINE R == Append(Q, u)
      <4>1. R \in Seq(Frames) /\ R # <<>> /\ Head(R) = f /\ Tail(R) = Append(Tail(Q), u)
        <5> HIDE DEF Q, f
        <5>1. QED
          BY <2>1, AppendTail
      <4>2. Tidy(R, box, j)
        BY <3>2
      <4> HIDE DEF R, Q, f, box, j
      <4>3. /\ Tidy(Tail(R), Append(box, f), Remember(j, f.seq))
            /\ Tidy(Tail(R), box, Remember(j, f.seq))
        BY <2>2, <2>3, <2>5, <4>1, <4>2, DeliverTidy
      <4>4. QED
        BY <4>1, <4>3
    <3>3. Tidy(Way(n)', inbox'[n], jar'[n]) /\ Ordered(inbox'[n])
      BY <2>1, <2>3, <2>5, <3>1
    <3>4. ASSUME NEW m \in Station, timer'[m].task # NoTask,
                 IsForSelf(n, timer'[m].task.frame)
          PROVE  Tidy(Append(Way(n)', timer'[m].task.frame), inbox'[n], jar'[n])
      <4> DEFINE u == timer[m].task.frame
      <4>1. u = timer'[m].task.frame /\ u \in Frames /\ Tidy(Append(Q, u), box, j)
        BY <1>0, <1>1, <2>1, <3>4
      <4>2. QED
        BY <2>1, <2>5, <3>2, <4>1
    <3>5. QED
      BY <3>3, <3>4
  <2>6. QED
    BY <2>4, <2>5
\* A frame is sent, for the first time or again.
<1>5. ASSUME NEW d \in Station, Sending(d), NEW n \in Station PROVE Ready(n)'
  <2>1. PICK t \in Tasks :
          /\ t = timer[d].task \/ (writeQ[d] # <<>> /\ t = Head(writeQ[d]))
          /\ timer'[d].task = t
          /\ \A m \in Station \ {d} : timer'[m].task = timer[m].task
          /\ \/ Way(n)' = Way(n)
             \/ IsForSelf(n, t.frame) /\ Way(n)' = Append(Way(n), t.frame)
    BY <1>5 DEF Sending
  <2> DEFINE Q == Way(n)
             P == Way(n)'
             u == t.frame
             box == inbox[n]
             j == jar[n]
  <2>2. UNCHANGED <<inbox, jar>> /\ Q \in Seq(Frames) /\ P \in Seq(Frames)
        /\ Tidy(Q, box, j) /\ Ordered(box)
    BY <1>0, <1>5 DEF Sending
  <2>3. Shaped(t) /\ Home[t.id[1]] = d /\ u \in Frames /\ (IsData(u) => u.body = t.id)
        /\ (IsForSelf(n, u) => Sends(t.id[1], n)) /\ t.id[1] \in Caller
    <3>1. t \in Pending(d)
      <4>1. writeQ[d] \in Seq(Tasks)
        BY PendingType DEF TypeOK
      <4>2. writeQ[d] # <<>> => Head(writeQ[d]) \in Elems(writeQ[d])
        BY <4>1, TailElems
      <4>3. QED
        BY <2>1, <4>2, NoTaskAssumption DEF Pending
    <3>2. Shaped(t) /\ Home[t.id[1]] = d
      BY <3>1 DEF TasksShaped, TasksOwned
    <3>3. QED
      BY <3>2, ShapedTask
  <2>4. ASSUME IsForSelf(n, u) PROVE Tidy(Append(Q, u), box, j)
    <3>1. CASE t = timer[d].task
      <4>1. t # NoTask
        BY NoTaskAssumption
      <4>2. QED
        BY <1>0, <2>4, <3>1, <4>1
    <3>2. CASE writeQ[d] # <<>> /\ t = Head(writeQ[d])
      <4>1. 1 \in 1 .. Len(writeQ[d]) /\ t = writeQ[d][1]
        <5>1. writeQ[d] \in Seq(Tasks)
          BY PendingType DEF TypeOK
        <5>2. QED
          BY <3>2, <5>1
      <4>2. \A f \in Passed(n) : Less(f.body, t.id)
        BY <4>1 DEF QueueBehind
      <4>3. IsData(u) => \A f \in Elems(Q) \cup Elems(box) : IsData(f) => Less(f.body, u.body)
        BY <2>3, <4>2 DEF Passed
      <4> HIDE DEF Q, u, box, j
      <4>4. QED
        BY <2>2, <2>3, <4>3, TidyFresh
    <3>3. QED
      BY <2>1, <3>1, <3>2
  <2>5. Tidy(P, box, j)
    BY <2>1, <2>2, <2>4
  <2>6. ASSUME NEW m \in Station, timer'[m].task # NoTask, IsForSelf(n, timer'[m].task.frame)
        PROVE  Tidy(Append(P, timer'[m].task.frame), box, j)
    <3>1. CASE m = d
      <4>1. timer'[m].task.frame = u /\ IsForSelf(n, u)
        BY <2>1, <2>6, <3>1
      <4>2. CASE P = Q
        BY <2>4, <4>1, <4>2
      <4>3. CASE P = Append(Q, u)
        <5>1. Tidy(Append(Q, u), box, j)
          BY <2>4, <4>1
        <5> HIDE DEF P, Q, u, box, j
        <5>2. Append(Q, u) \in Seq(Frames) /\ Append(Append(Q, u), u) \in Seq(Frames)
              /\ Within(Append(Append(Q, u), u), Append(Q, u))
          BY <2>2, <2>3, WithinAgain
        <5>3. Tidy(Append(Append(Q, u), u), box, j)
          BY <5>1, <5>2, TidyWithin
        <5>4. QED
          BY <4>1, <4>3, <5>3
      <4>4. QED
        BY <2>1, <4>2, <4>3
    <3>2. CASE m # d
      <4> DEFINE v == timer[m].task
      <4>1. timer'[m].task = v /\ v # NoTask /\ IsForSelf(n, v.frame)
        BY <2>1, <2>6, <3>2
      <4>2. v \in Tasks /\ Shaped(v) /\ Home[v.id[1]] = m
        BY <1>1, <4>1
      <4>3. Sends(v.id[1], n) /\ v.id[1] \in Caller
        BY <4>1, <4>2, ShapedTask
      \* Two stations with a frame for n: against the hypothesis.
      <4>4. ~IsForSelf(n, u)
        BY <2>3, <3>2, <4>2, <4>3 DEF OneSource
      <4>5. P = Q
        BY <2>1, <4>4
      <4>6. QED
        BY <1>0, <4>1, <4>5
    <3>3. QED
      BY <3>1, <3>2
  <2>7. QED
    BY <2>2, <2>5, <2>6
<1>6. ASSUME NEW d \in Station, DaemonStep(d), NEW n \in Station PROVE Ready(n)'
  <2>1. CASE Deliver(d)
    <3>1. CASE d = n
      BY <1>4, <2>1, <3>1
    <3>2. CASE d # n
      BY <1>3, <2>1, <3>2, DeliverWay
    <3>3. QED
      BY <3>1, <3>2
  <2>2. CASE Resting
    BY <1>2, <2>2 DEF Resting
  <2>3. CASE Sending(d)
    BY <1>5, <2>3
  <2>4. QED
    BY <1>6, <2>1, <2>2, <2>3, DaemonWay
<1>7. ASSUME NEW c \in Caller, CallerStep(c), NEW n \in Station PROVE Ready(n)'
  BY <1>3, <1>7, CallerQuiet
<1>8. ASSUME NEW m \in Station, DropReader(m), NEW n \in Station PROVE Ready(n)'
  <2>1. UNCHANGED <<inbox, jar, timer>> /\ Way(n)' = Way(n)
    BY <1>8 DEF DropReader, Way
  <2>2. QED
    BY <1>3, <2>1
<1>9. ASSUME UNCHANGED vars, NEW n \in Station PROVE Ready(n)'
  <2>1. UNCHANGED <<inbox, jar, timer>> /\ Way(n)' = Way(n)
    BY <1>9 DEF vars, daemonVars, Way
  <2>2. QED
    BY <1>3, <2>1
<1>10. \A n \in Station : Ready(n)'
  BY <1>6, <1>7, <1>8, <1>9 DEF Next
<1>11. QED
  BY <1>10 DEF WayInv

LEMMA OrderInvInit == Init => OrderInv
<1> SUFFICES ASSUME Init PROVE OrderInv
  OBVIOUS
<1>1. Elems(<<>>) = {} /\ Len(<<>>) = 0
  BY DEF Elems
<1>2. \A n \in Station :
        /\ Way(n) = <<>> /\ inbox[n] = <<>> /\ writeQ[n] = <<>> /\ timer[n].task = NoTask
        /\ phase[n] # "deliver"
  BY DEF Init, Way, NoTimer
<1>3. \A n \in Station : Pending(n) = {} /\ Passed(n) = {}
  BY <1>1, <1>2 DEF Pending, Passed
<1>4. HeldRequests /\ TasksShaped /\ AllMade /\ QueueBehind
  BY <1>2, <1>3 DEF HeldRequests, TasksShaped, AllMade, QueueBehind
<1>5. QueueInOrder
  BY <1>1, <1>2 DEF QueueInOrder
<1>6. WayInv
  BY <1>1, <1>2 DEF WayInv, Tidy, Lined, Fits, Ordered
<1>7. QED
  BY <1>4, <1>5, <1>6 DEF OrderInv

LEMMA OrderInvStep ==
    ASSUME OneSource, SocketInv, OrderInv, [Next]_vars
    PROVE  OrderInv'
<1>1. TypeOK /\ TasksOwned
  BY DEF SocketInv
<1>2. TypeOK' /\ TasksOwned'
  BY <1>1, TypeStep, TasksOwnedStep
<1>3. HeldRequests' /\ TasksShaped' /\ QueueInOrder' /\ AllMade'
  BY <1>1, HeldRequestsStep, TasksShapedStep, QueueInOrderStep, AllMadeStep DEF OrderInv
<1>4. QueueBehind'
  BY <1>1, <1>2, <1>3, QueueBehindStep DEF OrderInv
<1>5. WayInv'
  BY <1>1, <1>2, WayInvStep DEF OrderInv
<1>6. QED
  BY <1>3, <1>4, <1>5 DEF OrderInv

LEMMA OrderInvariant ==
    ASSUME OneSource
    PROVE  Spec => [](SocketInv /\ OrderInv)
<1>1. Init => SocketInv /\ OrderInv
  BY SocketInvInit, OrderInvInit
<1>2. SocketInv /\ OrderInv /\ [Next]_vars => (SocketInv /\ OrderInv)'
  BY SocketInvStep, OrderInvStep
<1>3. QED
  BY <1>1, <1>2, PTL DEF Spec

\* Where what a station takes comes from one station, the frames of an
\* operation reach its reader in the order they were written and none twice,
\* for any scripts and bounds, a jar of one number included, however often
\* the frames are sent and whatever is lost.
THEOREM DeliveredInOrder ==
    ASSUME OneSource
    PROVE  Spec => []DeliveredOnceInOrder
<1>1. ASSUME AllMade, WayInv PROVE DeliveredOnceInOrder
  <2>1. ASSUME NEW n \in Station, NEW i \in 1 .. Len(inbox[n]), NEW k \in 1 .. Len(inbox[n]),
               i < k, IsData(inbox[n][i]), IsData(inbox[n][k]),
               inbox[n][i].body[1] = inbox[n][k].body[1],
               inbox[n][i].body[2] = inbox[n][k].body[2]
        PROVE  inbox[n][i].body[3] < inbox[n][k].body[3]
    <3>1. inbox[n][k] \in Passed(n)
      BY <2>1 DEF Passed, Elems
    <3>2. inbox[n][k].body[2] \in Nat
      BY <1>1, <3>1 DEF AllMade, TaskIds
    <3>3. Less(inbox[n][i].body, inbox[n][k].body)
      BY <1>1, <2>1 DEF WayInv, Ordered
    <3>4. QED
      BY <2>1, <3>2, <3>3 DEF Less
  <2>2. QED
    BY <2>1 DEF DeliveredOnceInOrder, IsData
<1>2. QED
  BY <1>1, OrderInvariant, PTL DEF OrderInv

-----------------------------------------------------------------------------
(* What was acknowledged has been passed on.                               *)

\* The hypothesis of the theorems: a number tells a data frame from every other
\* request.  Of what a station has handled no request shares the number of a
\* data frame, and none that any station has handled from n that of the data
\* frame under the timer of n.
NumbersApart ==
    /\ \A n \in Station : \A f, g \in heard[n] : IsData(f) /\ f.seq = g.seq => f = g
    /\ \A n, m \in Station : \A g \in heard[m] :
         LET t == timer[n].task
         IN  t # NoTask /\ IsData(t.frame) /\ IsData(g) /\ g.src = n /\ g.seq = t.frame.seq
               => g = t.frame

\* What station n has heard is for it, and what it has handled is passed on,
\* about to be, or not data; the jar knows only what was passed on.
HeardAt(n) ==
    /\ Elems(inbox[n]) \subseteq heard[n]
    /\ phase[n] = "deliver" => held[n] \in heard[n]
    /\ \A f \in Elems(air[n]) \cup heard[n] : IsForSelf(n, f)
    /\ reader[n] =>
         /\ \A f \in heard[n] : IsData(f) =>
              (phase[n] = "deliver" /\ held[n] = f) \/ f \in Elems(inbox[n])
         /\ \A s \in Elems(jar[n]) : \E g \in Elems(inbox[n]) : g.seq = s

HeardInv == \A n \in Station : HeardAt(n)

\* A data frame that was acknowledged has been handled where the answer says.
SettledHeard == \A p \in settled : IsData(p[1]) => p[1] \in heard[p[2]]

LEMMA HeardInvStep ==
    ASSUME TypeOK, HeardInv, NumbersApart, [Next]_vars
    PROVE  HeardInv'
<1>0. /\ phase \in [Station -> {"receive", "deliver", "tick", "stopped", "failed"}]
      /\ held \in [Station -> Frames \cup {NoFrame}] /\ reader \in [Station -> BOOLEAN]
      /\ inbox \in [Station -> Seq(Frames)] /\ jar \in [Station -> Seq(0 .. SeqCount - 1)]
      /\ air \in [Station -> Seq(Frames)] /\ heard \in [Station -> SUBSET Frames]
  BY DEF TypeOK, DaemonTypeOK, MediumTypeOK
\* A station that handles nothing.
<1>1. ASSUME NEW n \in Station, inbox'[n] = inbox[n], jar'[n] = jar[n], heard'[n] = heard[n],
             reader'[n] => reader[n], (phase'[n] = "deliver") <=> (phase[n] = "deliver"),
             phase[n] = "deliver" => held'[n] = held[n],
             \A f \in Elems(air'[n]) : f \in Elems(air[n]) \/ IsForSelf(n, f)
      PROVE  HeardAt(n)'
  <2>1. HeardAt(n)
    BY DEF HeardInv
  <2>2. QED
    BY <1>1, <2>1 DEF HeardAt
<1>2. ASSUME NEW d \in Station, ReceiveRequest(d), NEW n \in Station PROVE HeardAt(n)'
  <2> DEFINE f == Head(air[d])
             a == [air EXCEPT ![d] = Tail(@)]
  <2>1. /\ air[d] # <<>> /\ phase[d] = "receive" /\ UNCHANGED <<inbox, jar, reader>>
        /\ held' = [held EXCEPT ![d] = f] /\ phase' = [phase EXCEPT ![d] = "deliver"]
        /\ heard' = [heard EXCEPT ![d] = @ \cup {f}]
        /\ IF Answers(IpOf[d], f) THEN Transmit(a, CreateResp(d, IpOf[d], f)) ELSE air' = a
    BY <1>2 DEF ReceiveRequest, Enter
  <2>2. f \in Frames /\ a \in [Station -> Seq(Frames)]
        /\ Elems(air[d]) = Elems(Tail(air[d])) \cup {f}
    BY <2>1, HeadOfAir DEF TypeOK
  <2>3. Elems(a[n]) \subseteq Elems(air[n])
    BY <1>0, <2>2
  <2>4. ASSUME NEW g \in Elems(air'[n]) PROVE g \in Elems(air[n]) \/ IsForSelf(n, g)
    <3>1. CASE Answers(IpOf[d], f)
      <4> DEFINE r == CreateResp(d, IpOf[d], f)
      <4>1. r \in Frames /\ Transmit(a, r)
        BY <2>1, <2>2, <3>1, CreateRespType
      <4>2. Elems(air'[n]) = Elems(a[n])
              \/ (IsForSelf(n, r) /\ Elems(air'[n]) = Elems(a[n]) \cup {r})
        BY <2>2, <4>1, TransmitType
      <4>3. QED
        BY <2>3, <4>2
    <3>2. CASE ~Answers(IpOf[d], f)
      BY <2>1, <2>3, <3>2
    <3>3. QED
      BY <3>1, <3>2
  <2>5. CASE n # d
    BY <1>0, <1>1, <2>1, <2>4, <2>5
  <2>6. CASE n = d
    <3>1. /\ held'[n] = f /\ phase'[n] = "deliver" /\ heard'[n] = heard[n] \cup {f}
          /\ inbox'[n] = inbox[n] /\ jar'[n] = jar[n] /\ reader'[n] = reader[n]
          /\ phase[n] # "deliver" /\ f \in Elems(air[n])
      BY <1>0, <2>1, <2>2, <2>6
    <3>2. HeardAt(n)
      BY DEF HeardInv
    <3> HIDE DEF f
    <3>3. QED
      BY <2>4, <3>1, <3>2 DEF HeardAt
  <2>7. QED
    BY <2>5, <2>6
<1>3. ASSUME NEW d \in Station, Deliver(d), NEW n \in Station PROVE HeardAt(n)'
  <2>1. /\ phase[d] = "deliver" /\ phase' = [phase EXCEPT ![d] = "tick"]
        /\ held' = [held EXCEPT ![d] = NoFrame] /\ UNCHANGED <<air, heard, reader>>
        /\ IF held[d].seq \in Elems(jar[d])
           THEN UNCHANGED <<jar, inbox>>
           ELSE /\ jar' = [jar EXCEPT ![d] = Remember(@, held[d].seq)]
                /\ inbox' = IF reader[d] THEN [inbox EXCEPT ![d] = Append(@, held[d])] ELSE inbox
    BY <1>3 DEF Deliver, Enter
  <2>2. CASE n # d
    BY <1>0, <1>1, <2>1, <2>2
  <2>3. CASE n = d
    <3> DEFINE f == held[n]
               box == inbox[n]
               j == jar[n]
               S == 0 .. SeqCount - 1
    <3>1. HeardAt(n) /\ f \in Frames /\ f.seq \in S /\ box \in Seq(Frames) /\ j \in Seq(S)
      <4>1. f \in Frames
        BY <1>0, <2>1, <2>3 DEF TypeOK, DaemonTypeOK
      <4>2. QED
        BY <1>0, <4>1 DEF HeardInv, Frames, Frame
    <3>2. /\ phase[n] = "deliver" /\ phase'[n] = "tick" /\ air'[n] = air[n]
          /\ heard'[n] = heard[n] /\ reader'[n] = reader[n]
          /\ IF f.seq \in Elems(j)
             THEN jar'[n] = j /\ inbox'[n] = box
             ELSE /\ jar'[n] = Remember(j, f.seq)
                  /\ inbox'[n] = IF reader[n] THEN Append(box, f) ELSE box
      BY <1>0, <2>1, <2>3
    <3>3. \A g, h \in heard[n] : IsData(g) /\ g.seq = h.seq => g = h
      BY DEF NumbersApart
    <3> HIDE DEF f, box, j, S
    <3>4. /\ Elems(box) \subseteq heard[n] /\ f \in heard[n]
          /\ \A g \in Elems(air[n]) \cup heard[n] : IsForSelf(n, g)
          /\ reader[n] => /\ \A g \in heard[n] : IsData(g) => f = g \/ g \in Elems(box)
                          /\ \A s \in Elems(j) : \E g \in Elems(box) : g.seq = s
      BY <3>1, <3>2 DEF HeardAt, f, box, j
    <3>5. Elems(Append(box, f)) = Elems(box) \cup {f}
      BY <3>1, AppendElems
    <3>6. Elems(Remember(j, f.seq)) \subseteq Elems(j) \cup {f.seq}
      <4> DEFINE s == f.seq
      <4>1. s \in S
        BY <3>1
      <4> HIDE DEF s
      <4>2. Elems(Remember(j, s)) \subseteq Elems(j) \cup {s}
        BY <3>1, <4>1, RememberElems
      <4>3. QED
        BY <4>2 DEF s
    <3>7. /\ Elems(inbox'[n]) \subseteq heard[n]
          /\ reader[n] =>
               /\ \A g \in heard[n] : IsData(g) => g \in Elems(inbox'[n])
               /\ \A s \in Elems(jar'[n]) : \E g \in Elems(inbox'[n]) : g.seq = s
      <4>1. CASE f.seq \in Elems(j)
        <5>1. reader[n] => \E g \in Elems(box) : g \in heard[n] /\ g.seq = f.seq
          BY <3>4, <4>1
        <5>2. reader[n] /\ IsData(f) => f \in Elems(box)
          BY <3>3, <3>4, <5>1
        <5>3. QED
          BY <3>2, <3>4, <4>1, <5>2
      <4>2. CASE f.seq \notin Elems(j)
        BY <3>2, <3>4, <3>5, <3>6, <4>2
      <4>3. QED
        BY <4>1, <4>2
    <3>8. QED
      BY <3>2, <3>4, <3>7 DEF HeardAt
  <2>4. QED
    BY <2>2, <2>3
\* The steps of a daemon that handle no request.
<1>4. ASSUME NEW d \in Station, NEW p \in {"receive", "tick", "stopped", "failed"},
             Enter(d, p), phase[d] # "deliver", UNCHANGED <<inbox, jar, heard, reader>>,
             \A n \in Station \ {d} : held'[n] = held[n],
             \A n \in Station : \A f \in Elems(air'[n]) :
                f \in Elems(air[n]) \/ IsForSelf(n, f),
             NEW n \in Station
      PROVE  HeardAt(n)'
  <2>1. (phase'[n] = "deliver") <=> (phase[n] = "deliver")
    BY <1>0, <1>4 DEF Enter
  <2>2. phase[n] = "deliver" => held'[n] = held[n]
    BY <1>4
  <2>3. QED
    BY <1>1, <1>4, <2>1, <2>2
<1>5. ASSUME NEW d \in Station, DaemonStep(d), ~ReceiveRequest(d), ~Deliver(d),
             NEW n \in Station
      PROVE  HeardAt(n)'
  <2>1. ASSUME NEW f \in Frames, Transmit(air, f), NEW m \in Station, NEW g \in Elems(air'[m])
        PROVE  g \in Elems(air[m]) \/ IsForSelf(m, g)
    <3>1. \/ Elems(air'[m]) = Elems(air[m])
          \/ IsForSelf(m, f) /\ Elems(air'[m]) = Elems(air[m]) \cup {f}
      BY <1>0, <2>1, TransmitType
    <3>2. QED
      BY <2>1, <3>1
  <2>2. ASSUME NEW p \in {"stopped", "failed"}, End(d, p), phase[d] # "deliver"
        PROVE  HeardAt(n)'
    <3>1. /\ held' = [held EXCEPT ![d] = NoFrame] /\ air' = [air EXCEPT ![d] = <<>>]
          /\ UNCHANGED <<inbox, jar, heard, reader>> /\ Enter(d, p)
      BY <2>2 DEF End
    <3>2. Elems(<<>>) = {}
      BY DEF Elems
    <3>3. \A m \in Station : Elems(air'[m]) \subseteq Elems(air[m])
      BY <1>0, <3>1, <3>2
    <3>4. \A m \in Station \ {d} : held'[m] = held[m]
      BY <1>0, <3>1
    <3>5. QED
      BY <1>4, <2>2, <3>1, <3>3, <3>4
  <2>3. CASE ReceiveNothing(d) \/ KeepTimer(d) \/ AckTimeout(d) \/ LinkError(d)
              \/ CooldownEnds(d) \/ AcceptBusy(d)
    BY <1>4, <2>3 DEF ReceiveNothing, KeepTimer, AckTimeout, LinkError, CooldownEnds, AcceptBusy
  <2>4. CASE ReceiveAnswer(d)
    <3>1. /\ air[d] # <<>> /\ air' = [air EXCEPT ![d] = Tail(@)] /\ phase[d] = "receive"
          /\ Enter(d, "tick") /\ UNCHANGED <<inbox, jar, heard, reader, held>>
      BY <2>4 DEF ReceiveAnswer
    <3>2. Elems(air[d]) = Elems(Tail(air[d])) \cup {Head(air[d])}
      BY <3>1, HeadOfAir DEF TypeOK
    <3>3. \A m \in Station : Elems(air'[m]) \subseteq Elems(air[m])
      BY <1>0, <3>1, <3>2
    <3>4. QED
      BY <1>4, <3>1, <3>3
  <2>5. CASE Resend(d)
    <3>1. timer[d].task.frame \in Frames
      BY <2>5, PendingType DEF Resend, CanResend, TypeOK, Tasks, Requests
    <3>2. Transmit(air, timer[d].task.frame) /\ phase[d] = "tick" /\ Enter(d, "receive")
          /\ UNCHANGED <<inbox, jar, heard, reader, held>>
      BY <2>5 DEF Resend
    <3>3. QED
      BY <1>4, <2>1, <3>1, <3>2
  <2>6. CASE AcceptFree(d)
    <3>1. Head(writeQ[d]).frame \in Frames
      <4>1. writeQ[d] \in Seq(Tasks) /\ writeQ[d] # <<>>
        BY <2>6, PendingType DEF AcceptFree, CanAccept, TypeOK
      <4>2. Head(writeQ[d]) \in Tasks
        BY <4>1
      <4>3. QED
        BY <4>2 DEF Tasks, Requests
    <3>2. Transmit(air, Head(writeQ[d]).frame) /\ phase[d] = "tick" /\ Enter(d, "receive")
          /\ UNCHANGED <<inbox, jar, heard, reader, held>>
      BY <2>6 DEF AcceptFree
    <3>3. QED
      BY <1>4, <2>1, <3>1, <3>2
  <2>7. CASE Idle(d)
    <3>1. phase[d] = "tick"
      BY <2>7 DEF Idle
    <3>2. CASE WriterGone(d) /\ ~reader[d]
      BY <2>2, <2>7, <3>1, <3>2 DEF Idle
    <3>3. CASE ~(WriterGone(d) /\ ~reader[d])
      BY <1>4, <2>7, <3>1, <3>3 DEF Idle
    <3>4. QED
      BY <3>2, <3>3
  <2>8. CASE OutputFails(d)
    BY <2>2, <2>8 DEF OutputFails
  <2>9. QED
    BY <1>5, <2>3, <2>4, <2>5, <2>6, <2>7, <2>8 DEF DaemonStep, ReceivePhase, TimerPhase
<1>6. ASSUME NEW c \in Caller, CallerStep(c), NEW n \in Station PROVE HeardAt(n)'
  BY <1>1, <1>6, CallerQuiet
<1>7. ASSUME NEW d \in Station, DropReader(d), NEW n \in Station PROVE HeardAt(n)'
  <2>1. UNCHANGED <<inbox, jar, heard, phase, held, air>> /\ (reader'[n] => reader[n])
    BY <1>0, <1>7 DEF DropReader
  <2>2. QED
    BY <1>1, <2>1
<1>8. ASSUME UNCHANGED vars, NEW n \in Station PROVE HeardAt(n)'
  BY <1>1, <1>8 DEF vars, daemonVars
<1>9. QED
  BY <1>2, <1>3, <1>5, <1>6, <1>7, <1>8 DEF Next, HeardInv

\* An acknowledgement settles the frame it is for: its source has handled a
\* data frame of that number from here, and there is no other.
LEMMA SettledHeardStep ==
    ASSUME SocketInv, SettledHeard, NumbersApart, [Next]_vars
    PROVE  SettledHeard'
<1>0. /\ TypeOK /\ TasksOwned /\ AirIsGenuine
      /\ heard \in [Station -> SUBSET Frames] /\ settled \subseteq Frames \X Station
  BY DEF SocketInv, TypeOK, MediumTypeOK
<1>1. ASSUME \A m \in Station : heard[m] \subseteq heard'[m],
             NEW p \in settled, IsData(p[1])
      PROVE  p[1] \in heard'[p[2]]
  BY <1>0, <1>1 DEF SettledHeard
<1>2. ASSUME NEW n \in Station, ReceiveAnswer(n) PROVE SettledHeard'
  <2> DEFINE f == Head(air[n])
             t == timer[n].task
  <2>1. heard' = heard
    BY <1>2 DEF ReceiveAnswer
  <2>2. CASE t # NoTask /\ Settles(f, t.frame)
    <3>1. settled' = settled \cup {<<t.frame, f.src>>}
      BY <1>2, <2>2 DEF ReceiveAnswer
    <3>2. f \in Frames /\ f \in Elems(air[n]) /\ f.type \in Answer
      BY <1>0, <1>2, HeadOfAir DEF ReceiveAnswer, TypeOK
    <3>3. f.src \in Station
      BY <3>2 DEF Frames, Frame
    <3>4. PICK g \in heard[f.src] : Corresponds(g, f) /\ g.src = n /\ g.seq = f.seq
      BY <1>0, <3>2 DEF AirIsGenuine, GenuineAnswer
    <3>5. ASSUME IsData(t.frame) PROVE t.frame \in heard[f.src]
      <4>1. Corresponds(t.frame, f) /\ t.frame.seq = f.seq
        BY <2>2 DEF Settles
      <4>2. IsData(g)
        BY <3>4, <3>5, <4>1 DEF Corresponds, IsData
      <4>3. g = t.frame
        BY <2>2, <3>3, <3>4, <3>5, <4>1, <4>2 DEF NumbersApart
      <4>4. QED
        BY <3>4, <4>3
    <3>6. ASSUME NEW p \in settled', IsData(p[1]) PROVE p[1] \in heard'[p[2]]
      <4>1. CASE p \in settled
        BY <1>1, <2>1, <3>6, <4>1
      <4>2. CASE p = <<t.frame, f.src>>
        BY <2>1, <3>5, <3>6, <4>2
      <4>3. QED
        BY <3>1, <3>6, <4>1, <4>2
    <3>7. QED
      BY <3>6 DEF SettledHeard
  <2>3. CASE ~(t # NoTask /\ Settles(f, t.frame))
    <3>1. settled' = settled
      BY <1>2, <2>3 DEF ReceiveAnswer
    <3>2. QED
      BY <2>1, <3>1 DEF SettledHeard
  <2>4. QED
    BY <2>2, <2>3
<1>3. ASSUME NEW n \in Station, ReceiveRequest(n) PROVE SettledHeard'
  <2>1. heard' = [heard EXCEPT ![n] = @ \cup {Head(air[n])}] /\ settled' = settled
    BY <1>3 DEF ReceiveRequest
  <2>2. \A m \in Station : heard[m] \subseteq heard'[m]
    BY <1>0, <2>1
  <2>3. QED
    BY <1>1, <2>1, <2>2 DEF SettledHeard
<1>4. ASSUME UNCHANGED <<heard, settled>> PROVE SettledHeard'
  BY <1>4 DEF SettledHeard
<1>5. ASSUME NEW n \in Station, DaemonStep(n), ~ReceiveAnswer(n), ~ReceiveRequest(n)
      PROVE  UNCHANGED <<heard, settled>>
  BY <1>5 DEF DaemonStep, ReceivePhase, ReceiveNothing, Deliver, TimerPhase, KeepTimer,
              AckTimeout, Resend, LinkError, CooldownEnds, AcceptBusy, AcceptFree, Idle,
              OutputFails, End
<1>6. ASSUME NEW c \in Caller, CallerStep(c) PROVE SettledHeard'
  BY <1>4, <1>6, CallerQuiet
<1>7. ASSUME NEW n \in Station, DropReader(n) PROVE SettledHeard'
  BY <1>4, <1>7 DEF DropReader
<1>8. CASE UNCHANGED vars
  BY <1>4, <1>8 DEF vars
<1>9. QED
  BY <1>2, <1>3, <1>4, <1>5, <1>6, <1>7, <1>8 DEF Next

LEMMA HeardInvInit == Init => HeardInv /\ SettledHeard
<1> SUFFICES ASSUME Init PROVE HeardInv /\ SettledHeard
  OBVIOUS
<1>1. Elems(<<>>) = {}
  BY DEF Elems
<1>2. ASSUME NEW n \in Station PROVE HeardAt(n)
  <2>1. Elems(inbox[n]) = {} /\ Elems(air[n]) = {} /\ Elems(jar[n]) = {} /\ heard[n] = {}
        /\ phase[n] # "deliver"
    BY <1>1 DEF Init
  <2>2. QED
    BY <2>1 DEF HeardAt
<1>3. SettledHeard
  BY DEF Init, SettledHeard
<1>4. QED
  BY <1>2, <1>3 DEF HeardInv

LEMMA HeardInvariant == Spec /\ []NumbersApart => [](SocketInv /\ HeardInv /\ SettledHeard)
<1>1. SocketInv => TypeOK
  BY DEF SocketInv
<1>2. SocketInv /\ HeardInv /\ SettledHeard /\ NumbersApart /\ [Next]_vars
        => (SocketInv /\ HeardInv /\ SettledHeard)'
  BY <1>1, SocketInvStep, HeardInvStep, SettledHeardStep
<1>3. QED
  BY <1>2, SocketInvInit, HeardInvInit, PTL DEF Spec

\* As long as a number tells the data frames of a station apart, a data frame
\* that was acknowledged has reached, or is about to reach, the reader of the
\* station that acknowledged it, for any scripts and bounds and any loss.
THEOREM SettledDelivered == Spec /\ []NumbersApart => []SettledIsDelivered
<1>1. ASSUME TypeOK, HeardInv, SettledHeard PROVE SettledIsDelivered
  <2>1. ASSUME NEW p \in settled, IsData(p[1]), reader[p[2]]
        PROVE  held[p[2]] = p[1] \/ p[1] \in Elems(inbox[p[2]])
    <3>1. p[2] \in Station /\ p[1] \in heard[p[2]]
      BY <1>1, <2>1 DEF SettledHeard, TypeOK, MediumTypeOK
    <3>2. QED
      BY <1>1, <2>1, <3>1 DEF HeardInv, HeardAt
  <2>2. QED
    BY <2>1 DEF SettledIsDelivered, IsData
<1>2. QED
  BY <1>1, HeardInvariant, PTL DEF SocketInv

-----------------------------------------------------------------------------
(* The frames kept for a packet, put together.                             *)

\* A finite set of frames, no two with one sequence number: a BTreeMap.
Map(b) ==
    /\ IsFiniteSet(b) /\ b \subseteq Frames
    /\ \A f, g \in b : f.seq = g.seq => f = g

LEMMA FrameSeq == ASSUME NEW f \in Frames PROVE f.seq \in Nat
BY SeqCountAssumption DEF Frames, Frame

LEMMA OrInsertMap == ASSUME NEW b, Map(b), NEW f \in Frames PROVE Map(OrInsert(b, f))
<1>1. IsFiniteSet(b \cup {f})
  BY FS_AddElement DEF Map
<1>2. QED
  BY <1>1 DEF Map, OrInsert

\* Every place from 1 to the number of frames is the place of one of them: the
\* places are distinct and not greater than that number.
LEMMA PlaceTaken ==
    ASSUME NEW b, Map(b), NEW i \in 1 .. Cardinality(b)
    PROVE  FrameIn(b, i) \in b /\ Place(b, FrameIn(b, i)) = i
<1> DEFINE Below(f) == {g \in b : g.seq < f.seq}
<1>1. Cardinality(b) \in Nat
  BY FS_CardinalityType DEF Map
<1>2. ASSUME NEW f \in b
      PROVE  /\ IsFiniteSet(Below(f)) /\ Cardinality(Below(f)) \in Nat
             /\ Place(b, f) \in 1 .. Cardinality(b)
  <2>1. Below(f) \in SUBSET b /\ f \notin Below(f)
    BY FrameSeq DEF Map
  <2> HIDE DEF Below
  <2>2. IsFiniteSet(Below(f)) /\ Cardinality(Below(f)) <= Cardinality(b)
        /\ Cardinality(Below(f)) # Cardinality(b)
    BY <2>1, FS_Subset DEF Map
  <2>3. Cardinality(Below(f)) \in Nat
    BY <2>2, FS_CardinalityType
  <2>4. Place(b, f) = Cardinality(Below(f)) + 1
    BY DEF Place, Below
  <2>5. QED
    BY <2>2, <2>3, <2>4, <1>1
<1>3. ASSUME NEW f \in b, NEW g \in b, f.seq < g.seq
      PROVE  Place(b, f) # Place(b, g)
  <2>1. Below(f) \in SUBSET Below(g) /\ f \notin Below(f) /\ f \in Below(g)
    BY <1>3, FrameSeq DEF Map
  <2>2. IsFiniteSet(Below(g)) /\ Cardinality(Below(f)) \in Nat /\ Cardinality(Below(g)) \in Nat
    BY <1>2
  <2>3. Place(b, f) = Cardinality(Below(f)) + 1 /\ Place(b, g) = Cardinality(Below(g)) + 1
    BY DEF Place
  <2> HIDE DEF Below
  <2>4. Cardinality(Below(f)) # Cardinality(Below(g))
    BY <2>1, <2>2, FS_Subset
  <2>5. QED
    BY <2>2, <2>3, <2>4
<1> DEFINE r == [f \in b |-> Place(b, f)]
<1>4. r \in Injection(b, 1 .. Cardinality(b))
  <2>1. r \in [b -> 1 .. Cardinality(b)]
    BY <1>2
  <2>2. ASSUME NEW f \in b, NEW g \in b, r[f] = r[g] PROVE f = g
    <3>1. f.seq \in Nat /\ g.seq \in Nat
      BY FrameSeq DEF Map
    <3>2. ~(f.seq < g.seq) /\ ~(g.seq < f.seq)
      BY <2>2, <1>3
    <3>3. f.seq = g.seq
      BY <3>1, <3>2
    <3>4. QED
      BY <3>3 DEF Map
  <2>3. QED
    BY <2>1, <2>2 DEF Injection, IsInjective
<1>5. IsFiniteSet(1 .. Cardinality(b)) /\ Cardinality(1 .. Cardinality(b)) = Cardinality(b)
  BY <1>1, FS_Interval
<1>6. r \in Surjection(b, 1 .. Cardinality(b))
  <2> HIDE DEF r
  <2>1. QED
    BY <1>4, <1>5, FS_Injection
<1>7. \E f \in b : Place(b, f) = i
  BY <1>6 DEF Surjection
<1>8. QED
  BY <1>7 DEF FrameIn

\* What is put together is a sequence of payloads.
LEMMA AssembleType == ASSUME NEW b, Map(b) PROVE Assemble(b) \in Seq(Body)
<1>1. Cardinality(b) \in Nat
  BY FS_CardinalityType DEF Map
<1>2. ASSUME NEW i \in 1 .. Cardinality(b) PROVE FrameIn(b, i).body \in Body
  BY <1>2, PlaceTaken DEF Map, Frames, Frame
<1>3. QED
  BY <1>1, <1>2 DEF Assemble

-----------------------------------------------------------------------------
(* The reader's own variables.                                             *)

\* The strengthening the type needs: a packet is put together from a map.
ReaderInv == ReaderTypeOK /\ \A n \in Station : Map(bucket[n])

LEMMA ReaderInvInit == ReaderInit => ReaderInv
<1>1. Map({})
  BY FS_EmptySet DEF Map
<1>2. QED
  BY <1>1 DEF ReaderInit, Init, ReaderInv, ReaderTypeOK

\* What goes into an inbox stays there.
LEMMA InboxGrows ==
    ASSUME TypeOK, [Next]_vars, NEW n \in Station
    PROVE  Len(inbox[n]) <= Len(inbox'[n])
           /\ \A i \in 1 .. Len(inbox[n]) : inbox'[n][i] = inbox[n][i]
<1>1. inbox[n] \in Seq(Frames) /\ inbox \in [Station -> Seq(Frames)]
  BY DEF TypeOK, DaemonTypeOK
<1>2. CASE UNCHANGED inbox
  BY <1>1, <1>2
<1>3. ASSUME NEW m \in Station, Deliver(m), inbox' # inbox
      PROVE  inbox' = [inbox EXCEPT ![m] = Append(@, held[m])] /\ held[m] \in Frames
  BY <1>3 DEF Deliver, TypeOK, DaemonTypeOK
<1>4. ASSUME NEW m \in Station, Deliver(m), inbox' # inbox
      PROVE  Len(inbox[n]) <= Len(inbox'[n])
             /\ \A i \in 1 .. Len(inbox[n]) : inbox'[n][i] = inbox[n][i]
  <2>1. CASE m = n
    <3>1. inbox'[n] = Append(inbox[n], held[n]) /\ held[n] \in Frames
      BY <2>1, <1>1, <1>3, <1>4
    <3>2. QED
      BY <3>1, <1>1
  <2>2. CASE m # n
    BY <2>2, <1>1, <1>3, <1>4
  <2>3. QED
    BY <2>1, <2>2
<1>5. UNCHANGED inbox \/ \E m \in Station : Deliver(m)
  <2>1. ASSUME NEW c \in Caller, CallerStep(c) PROVE UNCHANGED inbox
    BY <2>1 DEF CallerStep, WriteNothing, Submit, Resume, GiveUpWaiting, daemonVars
  <2>2. ASSUME NEW m \in Station, ReceivePhase(m) \/ TimerPhase(m) \/ OutputFails(m) \/ DropReader(m)
        PROVE  UNCHANGED inbox
    BY <2>2 DEF ReceivePhase, ReceiveNothing, ReceiveRequest, ReceiveAnswer, TimerPhase,
         KeepTimer, AckTimeout, Resend, LinkError, CooldownEnds, AcceptBusy, AcceptFree, Idle,
         End, OutputFails, DropReader
  <2>3. ASSUME UNCHANGED vars PROVE UNCHANGED inbox
    BY <2>3 DEF vars, daemonVars
  <2>4. QED
    BY <2>1, <2>2, <2>3 DEF Next, DaemonStep
<1>6. QED
  BY <1>2, <1>4, <1>5

LEMMA ReaderInvStep ==
    TypeOK /\ TypeOK' /\ ReaderInv /\ [ReaderNext]_<<vars, readerVars>> => ReaderInv'
<1> SUFFICES ASSUME TypeOK, TypeOK', ReaderInv, [ReaderNext]_<<vars, readerVars>>
             PROVE  ReaderInv'
  OBVIOUS
<1>1. inbox \in [Station -> Seq(Frames)] /\ inbox' \in [Station -> Seq(Frames)]
  BY DEF TypeOK, DaemonTypeOK
<1>2. CASE [Next]_vars /\ UNCHANGED readerVars
  <2>1. ASSUME NEW n \in Station PROVE taken[n] <= Len(inbox'[n])
    <3>1. taken[n] \in Nat /\ taken[n] <= Len(inbox[n])
      BY DEF ReaderInv, ReaderTypeOK
    <3>2. Len(inbox[n]) \in Nat /\ Len(inbox'[n]) \in Nat
      BY <1>1
    <3>3. QED
      BY <1>2, <3>1, <3>2, InboxGrows
  <2>2. QED
    BY <1>2, <2>1 DEF ReaderInv, ReaderTypeOK, readerVars
<1>3. ASSUME NEW n \in Station, TakeFrame(n), UNCHANGED vars PROVE ReaderInv'
  <2> DEFINE f == inbox[n][taken[n] + 1]
             b == OrInsert(bucket[n], f)
  <2>1. UNCHANGED inbox
    BY <1>3 DEF vars, daemonVars
  <2>2. taken[n] \in Nat /\ taken[n] + 1 \in 1 .. Len(inbox[n])
    BY <1>1, <1>3 DEF TakeFrame, ReaderInv, ReaderTypeOK
  <2>3. f \in Frames
    BY <1>1, <2>2
  <2>4. Map(b) /\ Map({}) /\ b \in SUBSET Frames
    <3> HIDE DEF f
    <3>1. Map(b)
      BY <2>3, OrInsertMap DEF ReaderInv
    <3>2. Map({})
      BY FS_EmptySet DEF Map
    <3> QED
      BY <3>1, <3>2 DEF Map
  <2>5. Assemble(b) \in Seq(Body)
    BY <2>4, AssembleType
  <2>6. taken' = [taken EXCEPT ![n] = @ + 1]
    BY <1>3 DEF TakeFrame
  <2>7. \/ UNCHANGED <<bucket, packets>>
        \/ bucket' = [bucket EXCEPT ![n] = b] /\ UNCHANGED packets
        \/ /\ bucket' = [bucket EXCEPT ![n] = {}]
           /\ packets' = [packets EXCEPT ![n] = Append(@, Assemble(b))]
    BY <1>3 DEF TakeFrame
  <2> HIDE DEF b, f
  <2>8. taken' \in [Station -> Nat] /\ \A m \in Station : taken'[m] <= Len(inbox'[m])
    BY <2>1, <2>2, <2>6 DEF ReaderInv, ReaderTypeOK
  <2>9. bucket' \in [Station -> SUBSET Frames] /\ \A m \in Station : Map(bucket'[m])
    BY <2>4, <2>7 DEF ReaderInv, ReaderTypeOK
  <2>10. packets' \in [Station -> Seq(Seq(Body))]
    <3> DEFINE a == Assemble(b)
    <3>1. a \in Seq(Body)
      BY <2>5
    <3>2. UNCHANGED packets \/ packets' = [packets EXCEPT ![n] = Append(@, a)]
      BY <2>7
    <3> HIDE DEF a
    <3>3. packets[n] \in Seq(Seq(Body)) /\ packets \in [Station -> Seq(Seq(Body))]
      BY DEF ReaderInv, ReaderTypeOK
    <3>4. Append(packets[n], a) \in Seq(Seq(Body))
      BY <3>1, <3>3
    <3>5. QED
      BY <3>2, <3>3, <3>4
  <2>11. QED
    BY <2>8, <2>9, <2>10 DEF ReaderInv, ReaderTypeOK
<1>4. ASSUME NEW n \in Station, TakeNone(n), UNCHANGED vars PROVE ReaderInv'
  <2>1. UNCHANGED inbox
    BY <1>4 DEF vars, daemonVars
  <2>2. Map({}) /\ Assemble(bucket[n]) \in Seq(Body)
    BY FS_EmptySet, AssembleType DEF Map, ReaderInv
  <2>3. QED
    BY <1>4, <2>1, <2>2 DEF TakeNone, ReaderInv, ReaderTypeOK
<1>5. QED
  BY <1>2, <1>3, <1>4 DEF ReaderNext, ReaderStep, vars

\* A step of a reader is none of a daemon, a caller or the medium.
LEMMA ReaderIsSpec == ReaderSpec => Spec
<1>1. ReaderInit => Init
  BY DEF ReaderInit
<1>2. [ReaderNext]_<<vars, readerVars>> => [Next]_vars
  BY DEF ReaderNext
<1>3. QED
  BY <1>1, <1>2, PTL DEF ReaderSpec, Spec

LEMMA ReaderInvariant == ReaderSpec => []ReaderInv
<1>1. TypeOK /\ ReaderInv /\ [ReaderNext]_<<vars, readerVars>> /\ TypeOK' => ReaderInv'
  BY ReaderInvStep
<1>2. QED
  BY <1>1, ReaderInvInit, ReaderIsSpec, TypeCorrect, PTL DEF ReaderSpec

\* The reader's variables keep their types: a reader never takes more frames
\* than were sent to it, and what `read` returns is a sequence of payloads
\* whichever of a packet's frames it was sent and however they are numbered.
THEOREM ReaderTypesHold == ReaderSpec => []ReaderTypeOK
<1>1. ReaderInv => ReaderTypeOK
  BY DEF ReaderInv
<1>2. QED
  BY <1>1, ReaderInvariant, PTL

-----------------------------------------------------------------------------
(* What is on its way from a writer to a reader.                           *)

\* The data frames handed over: in a queue, under a timer, on the way, in an
\* inbox, or handled.
SentAt(n) == Passed(n) \cup heard[n] \cup {t.frame : t \in Pending(n)}

Sent == {f \in UNION {SentAt(n) : n \in Station} : IsData(f)}

\* Among the pairs of S is an acknowledgement of the data frame of identity x.
Acked(S, x) == \E p \in S : IsData(p[1]) /\ p[1].body = x

IsWrite(c, k) == Script[c][k].kind = "write"

\* A data frame is a frame of an operation, and all frames before it of the
\* same packet are acknowledged.
SentFrame(f) ==
    LET c == f.body[1]
        k == f.body[2]
        i == f.body[3]
    IN  /\ f.body \in TaskIds /\ Made(f.body)
        /\ k \in 1 .. Len(Script[c]) /\ i < Script[c][k].len
        /\ \E b \in 0 .. SeqCount - 1 : f = FrameOf(c, k, i, b)
        /\ IsWrite(c, k) => \A j \in Nat : j < i => Acked(settled, <<c, k, j>>)

SentInv == \A f \in Sent : SentFrame(f)

\* The frames of write k of caller c are numbered from b.
Begun(c, k) == op[c] > k \/ (op[c] = k /\ (idx[c] > 0 \/ status[c] # "idle"))

NumberedFrom(c, k, b) ==
    /\ \A f \in Sent : f.body[1] = c /\ f.body[2] = k =>
         b \in Bases[c] /\ f = FrameOf(c, k, f.body[3], b)
    /\ op[c] = k /\ Begun(c, k) => b = base[c] /\ b \in Bases[c]

BaseInv ==
    \A c \in Caller : \A k \in 1 .. Len(Script[c]) :
       IsWrite(c, k) => \E b \in 0 .. SeqCount - 1 : NumberedFrom(c, k, b)

\* A caller goes on with a packet, and returns ok from it, when every frame so
\* far is acknowledged.
AckedBy(c) ==
    /\ More(c) /\ IsWrite(c, op[c]) =>
         /\ \A j \in Nat : j < idx[c] => Acked(settled, <<c, op[c], j>>)
         /\ status[c] = "ok" => Acked(settled, <<c, op[c], idx[c]>>)
    /\ \A k \in 1 .. Len(result[c]) : IsWrite(c, k) /\ result[c][k] = "ok" =>
         \A j \in Nat : j < Script[c][k].len => Acked(settled, <<c, k, j>>)

AckedInv == \A c \in Caller : AckedBy(c)

\* The hypotheses.  Station n takes, and its reader keeps, the frames of
\* operation k of caller c.
Reads(n, c, k) ==
    LET f == FrameOf(c, k, 0, 0)
    IN  IsForSelf(n, f) /\ ForReader(n, f)

\* What a reader keeps is of one caller, which writes to that station alone and
\* not from a first number so high that the numbers start again within the
\* packet, and measures no throughput to it before a write.
OneWriter ==
    \A n \in Station : \A c \in Caller : \A k \in 1 .. Len(Script[c]) : Reads(n, c, k) =>
       /\ \A d \in Caller : \A l \in 1 .. Len(Script[d]) : Reads(n, d, l) =>
            d = c /\ (k < l /\ IsWrite(c, l) => IsWrite(c, k))
       /\ IsWrite(c, k) =>
            /\ Script[c][k].dest = n
            /\ \A b \in Bases[c] : b + Script[c][k].len <= SeqCount

\* A caller begins no write to a station to which it failed an earlier one.
GivesUp ==
    \A c \in Caller : \A k \in 1 .. Len(result[c]) : \A l \in k + 1 .. Len(Script[c]) :
       (IsWrite(c, k) /\ IsWrite(c, l) /\ Script[c][k].dest = Script[c][l].dest
          /\ Script[c][l].len > 0 /\ Begun(c, l)) => result[c][k] = "ok"

\* Of the first t frames of a box, those a reader of station n still has in its
\* bucket: those it keeps after the last end of a packet.
Kept(n, box, t) ==
    {y \in 1 .. t :
       /\ ForReader(n, box[y])
       /\ \A z \in y .. t : ForReader(n, box[z]) => ~box[z].eop}

KeptFrames(n, box, t) == {box[y] : y \in Kept(n, box, t)}

BucketInv == \A n \in Station : Alive(n) => bucket[n] = KeptFrames(n, inbox[n], taken[n])

-----------------------------------------------------------------------------
(* What the callers do.                                                    *)

\* What a step of caller c is to the packets: it hands a frame over, goes on
\* to the next, or returns.
HandsOver(c) ==
    /\ status[c] = "idle" /\ op[c] \in 1 .. Len(Script[c]) /\ idx[c] < Op(c).len
    /\ op'[c] = op[c] /\ idx'[c] = idx[c] /\ status'[c] = "waiting" /\ result'[c] = result[c]
    /\ base'[c] \in IF IsWrite(c, op[c]) /\ idx[c] = 0 THEN Bases[c] ELSE {base[c]}
    /\ LET t == [frame |-> FrameOf(c, op[c], idx[c], base'[c]), id |-> TaskId(c)]
       IN  t \in Tasks /\ writeQ' = [writeQ EXCEPT ![Home[c]] = Append(@, t)]

GoesOn(c) ==
    /\ status[c] # "idle" /\ (IsWrite(c, op[c]) => status[c] = "ok")
    /\ op'[c] = op[c] /\ idx'[c] = idx[c] + 1 /\ status'[c] = "idle" /\ result'[c] = result[c]
    /\ base'[c] = base[c] /\ UNCHANGED writeQ

Returns(c) ==
    /\ op'[c] = op[c] + 1 /\ idx'[c] = 0 /\ status'[c] = "idle" /\ UNCHANGED writeQ
    /\ \E r \in {"ok", "error", NoPeer} \cup Station :
         /\ result'[c] = Append(result[c], r)
         /\ IsWrite(c, op[c]) /\ r = "ok" =>
              Op(c).len = 0 \/ (status[c] = "ok" /\ Op(c).len <= idx[c] + 1)

LEMMA OpType ==
    ASSUME NEW c \in Caller, NEW k \in 1 .. Len(Script[c])
    PROVE  Script[c][k].len \in Nat /\ Script[c][k].kind \in OpKind /\ Len(Script[c]) \in Nat
<1>1. Script[c] \in Seq(Ops)
  BY ScriptAssumption
<1>2. Script[c][k] \in Ops
  BY <1>1
<1>3. QED
  BY <1>1, <1>2 DEF Ops

LEMMA CallerMove ==
    ASSUME TypeOK, ResultsInStep, NEW c \in Caller, CallerStep(c)
    PROVE  /\ \A d \in Caller \ {c} : /\ op'[d] = op[d] /\ idx'[d] = idx[d]
                                     /\ status'[d] = status[d] /\ result'[d] = result[d]
                                     /\ base'[d] = base[d]
           /\ HandsOver(c) \/ GoesOn(c) \/ Returns(c)
<1>0. /\ op \in [Caller -> Nat \ {0}] /\ idx \in [Caller -> Nat]
      /\ base \in [Caller -> 0 .. SeqCount - 1]
      /\ status \in [Caller -> {"idle", "waiting", "ok", "link_error", "closed"}]
      /\ result \in [Caller -> Seq({"ok", "error", NoPeer} \cup Station)]
      /\ peer \in [Caller -> Station \cup {NoPeer}]
  BY DEF TypeOK, CallTypeOK
<1> DEFINE Rest == \A d \in Caller \ {c} :
                     /\ op'[d] = op[d] /\ idx'[d] = idx[d] /\ status'[d] = status[d]
                     /\ result'[d] = result[d] /\ base'[d] = base[d]
<1>1. More(c) => op[c] \in 1 .. Len(Script[c])
  <2>1. Len(Script[c]) \in Nat /\ op[c] \in Nat \ {0}
    BY <1>0, ScriptAssumption
  <2>2. QED
    BY <2>1 DEF More
<1>2. More(c) => Op(c).len \in Nat
  BY <1>1, OpType DEF Op
<1>3. status[c] # "idle" => More(c)
  BY DEF ResultsInStep
<1>4. ASSUME NEW r \in {"ok", "error", NoPeer} \cup Station, Return(c, r), UNCHANGED writeQ,
             IsWrite(c, op[c]) /\ r = "ok" =>
               Op(c).len = 0 \/ (status[c] = "ok" /\ Op(c).len <= idx[c] + 1),
             \A d \in Caller \ {c} : base'[d] = base[d]
      PROVE  Rest /\ Returns(c)
  <2>1. /\ op'[c] = op[c] + 1 /\ idx'[c] = 0 /\ status'[c] = "idle"
        /\ result'[c] = Append(result[c], r)
    BY <1>0, <1>4 DEF Return
  <2>2. Rest
    BY <1>0, <1>4 DEF Return
  <2>3. QED
    BY <1>4, <2>1, <2>2 DEF Returns
<1>5. ASSUME More(c), NextFrame(c), UNCHANGED <<base, writeQ>>,
             status[c] # "idle", IsWrite(c, op[c]) => status[c] = "ok"
      PROVE  Rest /\ (GoesOn(c) \/ Returns(c))
  <2>1. CASE idx[c] + 1 < Op(c).len
    <3>1. idx' = [idx EXCEPT ![c] = @ + 1] /\ status' = [status EXCEPT ![c] = "idle"]
          /\ UNCHANGED <<op, result>>
      BY <1>5, <2>1 DEF NextFrame
    <3>2. QED
      BY <1>0, <1>5, <3>1 DEF GoesOn
  <2>2. CASE ~(idx[c] + 1 < Op(c).len)
    <3>1. Op(c).len <= idx[c] + 1
      BY <1>0, <1>2, <1>5, <2>2
    <3>2. \E r \in {"ok", "error", NoPeer} \cup Station : Return(c, r)
      BY <1>0, <1>5, <2>2 DEF NextFrame
    <3>3. QED
      BY <1>4, <1>5, <3>1, <3>2
  <2>3. QED
    BY <2>1, <2>2
<1>6. CASE WriteNothing(c)
  <2>1. Return(c, "ok") /\ Op(c).len = 0 /\ UNCHANGED <<base, writeQ>>
    BY <1>6 DEF WriteNothing, daemonVars
  <2>2. QED
    BY <1>4, <2>1
<1>7. CASE Resume(c)
  <2>1. UNCHANGED <<base, writeQ>> /\ status[c] # "idle"
        /\ ((status[c] = "ok" /\ NextFrame(c)) \/ Return(c, "error"))
    BY <1>7 DEF Resume, daemonVars
  <2>2. QED
    BY <1>3, <1>4, <1>5, <2>1
<1>8. CASE GiveUpWaiting(c)
  <2>1. UNCHANGED <<base, writeQ>> /\ status[c] = "waiting" /\ ~IsWrite(c, op[c])
        /\ (NextFrame(c) \/ Return(c, "error"))
    BY <1>8 DEF GiveUpWaiting, daemonVars, IsWrite, Op
  <2>2. QED
    BY <1>3, <1>4, <1>5, <2>1
<1>9. CASE Submit(c)
  <2>1. PICK b \in IF Op(c).kind = "write" /\ idx[c] = 0 THEN Bases[c] ELSE {base[c]} :
         /\ base' = [base EXCEPT ![c] = b]
         /\ IF Alive(Home[c])
            THEN /\ writeQ' = [writeQ EXCEPT ![Home[c]] = Append(@,
                      [frame |-> FrameOf(c, op[c], idx[c], b), id |-> TaskId(c)])]
                 /\ status' = [status EXCEPT ![c] = "waiting"]
                 /\ UNCHANGED <<op, idx, peer, result>>
            ELSE Return(c, "error") /\ UNCHANGED writeQ
    BY <1>9 DEF Submit
  <2>2. base'[c] = b /\ \A d \in Caller \ {c} : base'[d] = base[d]
    BY <1>0, <2>1
  <2>3. status[c] = "idle" /\ More(c) /\ idx[c] < Op(c).len
    BY <1>9 DEF Submit
  <2>4. b \in 0 .. SeqCount - 1
    BY <1>0, <2>1, BasesAssumption
  <2>5. CASE Alive(Home[c])
    <3>1. FrameOf(c, op[c], idx[c], b) \in Requests
      BY <1>0, <1>1, <2>3, <2>4, FrameOfType
    <3>2. [frame |-> FrameOf(c, op[c], idx[c], b), id |-> TaskId(c)] \in Tasks
      BY <1>0, <3>1 DEF Tasks, TaskIds, TaskId
    <3>3. /\ op'[c] = op[c] /\ idx'[c] = idx[c] /\ status'[c] = "waiting"
          /\ result'[c] = result[c] /\ Rest
      BY <1>0, <2>1, <2>2, <2>5
    <3>4. HandsOver(c)
      BY <1>1, <2>1, <2>2, <2>3, <2>5, <3>2, <3>3 DEF HandsOver, IsWrite, Op
    <3>5. QED
      BY <3>3, <3>4
  <2>6. CASE ~Alive(Home[c])
    BY <1>4, <2>1, <2>2, <2>6
  <2>7. QED
    BY <2>5, <2>6
<1>10. QED
  BY <1>6, <1>7, <1>8, <1>9 DEF CallerStep

\* What a step of a daemon is to the callers of a packet.
LEMMA DaemonMove ==
    ASSUME TypeOK, NEW n \in Station, DaemonStep(n)
    PROVE  /\ UNCHANGED <<op, idx, base, result>>
           /\ settled \subseteq settled'
           /\ \A c \in Caller :
                /\ status[c] = "idle" <=> status'[c] = "idle"
                /\ status'[c] = "ok" => status[c] = "ok" \/
                     \E t \in Pending(n) : \E s : t.id = TaskId(c) /\ <<t.frame, s>> \in settled'
<1>0. /\ status \in [Caller -> {"idle", "waiting", "ok", "link_error", "closed"}]
  BY DEF TypeOK, CallTypeOK
<1>1. CASE ReceiveAnswer(n)
  <2> DEFINE t == timer[n].task
             f == Head(air[n])
  <2>1. UNCHANGED <<op, idx, base, result>>
        /\ IF t # NoTask /\ Settles(f, t.frame)
           THEN Reply(t, "ok", f.src) /\ settled' = settled \cup {<<t.frame, f.src>>}
           ELSE UNCHANGED <<status, settled>>
    BY <1>1 DEF ReceiveAnswer
  <2>2. CASE t # NoTask /\ Settles(f, t.frame)
    <3>1. t \in Pending(n) /\ <<t.frame, f.src>> \in settled' /\ settled \subseteq settled'
      BY <2>1, <2>2 DEF Pending
    <3>2. \A c \in Caller : status'[c] = status[c]
                              \/ (status[c] = "waiting" /\ TaskId(c) = t.id /\ status'[c] = "ok")
      BY <1>0, <2>1, <2>2 DEF Reply
    <3> HIDE DEF t, f
    <3>3. QED
      BY <2>1, <3>1, <3>2
  <2>3. CASE ~(t # NoTask /\ Settles(f, t.frame))
    BY <2>1, <2>3
  <2>4. QED
    BY <2>2, <2>3
<1>2. CASE LinkError(n)
  <2>1. Reply(timer[n].task, "link_error", NoPeer) /\ UNCHANGED <<op, idx, base, result, settled>>
    BY <1>2 DEF LinkError
  <2>2. \A c \in Caller : status'[c] = status[c]
                            \/ (status[c] = "waiting" /\ status'[c] = "link_error")
    BY <1>0, <2>1 DEF Reply
  <2>3. QED
    BY <2>1, <2>2
<1>3. ASSUME NEW p, End(n, p)
      PROVE  /\ UNCHANGED <<op, idx, base, result, settled>>
             /\ \A c \in Caller : status'[c] = status[c]
                                    \/ (status[c] = "waiting" /\ status'[c] = "closed")
  BY <1>0, <1>3 DEF End
<1>4. CASE OutputFails(n) \/ Idle(n)
  <2>1. (\E p : End(n, p)) \/ UNCHANGED <<op, idx, base, result, status, settled>>
    BY <1>4 DEF OutputFails, Idle, callVars
  <2>2. QED
    BY <1>3, <2>1
<1>5. CASE ReceiveNothing(n) \/ ReceiveRequest(n) \/ Deliver(n) \/ KeepTimer(n)
            \/ AckTimeout(n) \/ Resend(n) \/ CooldownEnds(n) \/ AcceptBusy(n) \/ AcceptFree(n)
  <2>1. UNCHANGED <<op, idx, base, result, status, settled>>
    BY <1>5 DEF ReceiveNothing, ReceiveRequest, Deliver, KeepTimer, AckTimeout, Resend,
                CooldownEnds, AcceptBusy, AcceptFree, callVars
  <2>2. QED
    BY <2>1
<1>6. QED
  BY <1>1, <1>2, <1>4, <1>5 DEF DaemonStep, ReceivePhase, TimerPhase

-----------------------------------------------------------------------------
(* The frames of a packet, from the caller to the reader.                  *)

LEMMA SentIs ==
    /\ \A f : f \in Sent <=>
         /\ IsData(f)
         /\ \E n \in Station : f \in Passed(n) \/ f \in heard[n] \/ \E t \in Pending(n) : f = t.frame
    /\ \A f : f \in Sent' <=>
         /\ IsData(f)
         /\ \E n \in Station :
              f \in Passed(n)' \/ f \in heard'[n] \/ \E t \in Pending(n)' : f = t.frame
<1>1. ASSUME NEW f
      PROVE  f \in Sent <=>
               /\ IsData(f)
               /\ \E n \in Station :
                    f \in Passed(n) \/ f \in heard[n] \/ \E t \in Pending(n) : f = t.frame
  <2>1. \A n \in Station : f \in SentAt(n) <=>
          f \in Passed(n) \/ f \in heard[n] \/ \E t \in Pending(n) : f = t.frame
    BY DEF SentAt
  <2>2. f \in Sent <=> IsData(f) /\ \E n \in Station : f \in SentAt(n)
    BY DEF Sent
  <2>3. QED
    BY <2>1, <2>2
<1>2. ASSUME NEW f
      PROVE  f \in Sent' <=>
               /\ IsData(f)
               /\ \E n \in Station :
                    f \in Passed(n)' \/ f \in heard'[n] \/ \E t \in Pending(n)' : f = t.frame
  <2>1. \A n \in Station : f \in SentAt(n)' <=>
          f \in Passed(n)' \/ f \in heard'[n] \/ \E t \in Pending(n)' : f = t.frame
    BY DEF SentAt
  <2>2. f \in Sent' <=> IsData(f) /\ \E n \in Station : f \in SentAt(n)'
    BY DEF Sent
  <2>3. QED
    BY <2>1, <2>2
<1>3. QED
  BY <1>1, <1>2

\* A data frame new to the system is one a caller hands over.
LEMMA SentStep ==
    ASSUME TypeOK, ResultsInStep, [Next]_vars, NEW f \in Sent'
    PROVE  \/ f \in Sent
           \/ \E c \in Caller : /\ CallerStep(c) /\ HandsOver(c)
                                /\ f = FrameOf(c, op[c], idx[c], base'[c])
<1>0. IsData(f)
  BY SentIs
<1>1. ASSUME NEW n \in Station, NEW t \in Pending(n)', f = t.frame
      PROVE  \/ f \in Sent
             \/ \E c \in Caller : /\ CallerStep(c) /\ HandsOver(c)
                                  /\ f = FrameOf(c, op[c], idx[c], base'[c])
  <2>1. CASE t \in Pending(n)
    BY <1>0, <1>1, <2>1, SentIs
  <2>2. CASE t \notin Pending(n)
    <3>1. ASSUME NEW c \in Caller, CallerStep(c)
          PROVE  HandsOver(c) /\ f = FrameOf(c, op[c], idx[c], base'[c])
      <4>1. UNCHANGED timer /\ ~UNCHANGED writeQ
        BY <2>2, <3>1, CallerQuiet DEF Pending
      <4>2. HandsOver(c)
        BY <3>1, <4>1, CallerMove DEF GoesOn, Returns
      <4> DEFINE s == [frame |-> FrameOf(c, op[c], idx[c], base'[c]), id |-> TaskId(c)]
      <4>3. s \in Tasks /\ writeQ' = [writeQ EXCEPT ![Home[c]] = Append(@, s)]
        BY <4>2 DEF HandsOver
      <4> HIDE DEF s
      <4>4. t = s
        <5>1. Home[c] \in Station
          BY HomeAssumption
        <5>2. /\ Pending(Home[c])' = Pending(Home[c]) \cup {s}
              /\ \A m \in Station \ {Home[c]} : Pending(m)' = Pending(m)
          BY <4>1, <4>3, <5>1, AppendPending
        <5>3. QED
          BY <1>1, <2>2, <5>2
      <4> USE DEF s
      <4>5. t.frame = FrameOf(c, op[c], idx[c], base'[c])
        BY <4>4
      <4>6. QED
        BY <1>1, <4>2, <4>5
    <3>2. ASSUME NEW m \in Station, DaemonStep(m) PROVE FALSE
      BY <2>2, <3>2, DaemonPending
    <3>3. ASSUME NEW m \in Station, DropReader(m) PROVE FALSE
      BY <2>2, <3>3 DEF DropReader, Pending
    <3>4. CASE UNCHANGED vars
      BY <2>2, <3>4 DEF vars, daemonVars, Pending
    <3>5. QED
      BY <3>1, <3>2, <3>3, <3>4 DEF Next
  <2>3. QED
    BY <2>1, <2>2
<1>2. ASSUME NEW n \in Station, f \in Passed(n)' PROVE f \in Sent
  <2>1. CASE f \in Passed(n)
    BY <1>0, <2>1, SentIs
  <2>2. CASE f \notin Passed(n)
    <3>1. PICK m \in Station : timer'[m].task \in Pending(m) /\ f = timer'[m].task.frame
      BY <1>2, <2>2, PassedStep
    <3>2. QED
      BY <1>0, <3>1, SentIs
  <2>3. QED
    BY <2>1, <2>2
<1>3. ASSUME NEW n \in Station, f \in heard'[n] PROVE f \in Sent
  <2>1. CASE f \in heard[n]
    BY <1>0, <2>1, SentIs
  <2>2. CASE f \notin heard[n]
    <3>1. ASSUME NEW m \in Station, DaemonStep(m) PROVE m = n /\ ReceiveRequest(n)
      <4>1. ReceiveRequest(m) \/ UNCHANGED heard
        BY <3>1 DEF DaemonStep, ReceivePhase, ReceiveNothing, ReceiveAnswer, Deliver, TimerPhase,
              KeepTimer, AckTimeout, Resend, LinkError, CooldownEnds, AcceptBusy, AcceptFree,
              Idle, OutputFails, End
      <4>2. ReceiveRequest(m)
        BY <1>3, <2>2, <4>1
      <4>3. heard' = [heard EXCEPT ![m] = @ \cup {Head(air[m])}]
        BY <4>2 DEF ReceiveRequest
      <4>4. QED
        BY <1>3, <2>2, <4>2, <4>3 DEF TypeOK, MediumTypeOK
    <3>2. UNCHANGED vars \/ (\E c \in Caller : CallerStep(c)) \/ (\E m \in Station : DropReader(m))
            => heard' = heard
      BY CallerQuiet DEF vars, DropReader
    <3>3. ReceiveRequest(n)
      BY <1>3, <2>2, <3>1, <3>2 DEF Next
    <3>4. heard' = [heard EXCEPT ![n] = @ \cup {Head(air[n])}] /\ air[n] # <<>>
          /\ phase[n] = "receive"
      BY <3>3 DEF ReceiveRequest
    <3>5. f = Head(air[n])
      BY <1>3, <2>2, <3>4 DEF TypeOK, MediumTypeOK
    <3>6. f \in Elems(air[n]) /\ Way(n) = air[n]
      BY <3>4, <3>5, HeadOfAir DEF TypeOK, Way
    <3>7. QED
      BY <1>0, <3>6, SentIs DEF Passed
  <2>3. QED
    BY <2>1, <2>2
<1>4. \E n \in Station : f \in Passed(n)' \/ f \in heard'[n] \/ \E t \in Pending(n)' : f = t.frame
  BY SentIs
<1>5. QED
  BY <1>1, <1>2, <1>3, <1>4

\* What is acknowledged stays acknowledged.
LEMMA AckedKept ==
    ASSUME TypeOK, [Next]_vars
    PROVE  settled \subseteq settled' /\ \A x : Acked(settled, x) => Acked(settled', x)
<1>1. settled \subseteq settled'
  <2>1. (\E c \in Caller : CallerStep(c)) => settled' = settled
    BY CallerQuiet
  <2>2. (\E n \in Station : DropReader(n)) \/ UNCHANGED vars => settled' = settled
    BY DEF DropReader, vars
  <2>3. QED
    BY <2>1, <2>2, DaemonMove DEF Next
<1>2. QED
  BY <1>1 DEF Acked

\* The frame handed over has the identity of the caller's next task.
LEMMA HandedFrame ==
    ASSUME TypeOK, NEW c \in Caller, op[c] \in 1 .. Len(Script[c]), NEW b \in 0 .. SeqCount - 1,
           NEW f, f = FrameOf(c, op[c], idx[c], b)
    PROVE  /\ IsData(f) => f.body = TaskId(c) /\ f.body = <<c, op[c], idx[c]>>
           /\ TaskId(c) \in TaskIds
<1>1. op[c] \in Nat \ {0} /\ idx[c] \in Nat /\ b \in Nat
  BY SeqCountAssumption DEF TypeOK, CallTypeOK
<1>2. QED
  BY <1>1, FrameOfShape DEF TaskId, TaskIds

LEMMA SentInvStep ==
    ASSUME TypeOK, TypeOK', ResultsInStep, SentInv, AckedInv, [Next]_vars
    PROVE  SentInv'
<1>1. ASSUME NEW f \in Sent' PROVE SentFrame(f)'
  <2>1. CASE f \in Sent
    <3>1. SentFrame(f)
      BY <2>1 DEF SentInv
    <3>2. Made(f.body)'
      BY <3>1, MadeKept DEF SentFrame
    <3>3. QED
      BY <3>1, <3>2, AckedKept DEF SentFrame
  <2>2. CASE f \notin Sent
    <3>1. PICK c \in Caller : CallerStep(c) /\ HandsOver(c)
                              /\ f = FrameOf(c, op[c], idx[c], base'[c])
      BY <1>1, <2>2, SentStep
    <3>2. base'[c] \in 0 .. SeqCount - 1 /\ op[c] \in 1 .. Len(Script[c]) /\ idx[c] < Op(c).len
          /\ idx[c] \in Nat /\ TaskId(c)' = TaskId(c) /\ status'[c] # "idle"
      BY <3>1 DEF TypeOK, CallTypeOK, HandsOver, TaskId
    <3>3. IsData(f)
      BY <1>1, SentIs
    <3>4. f.body = <<c, op[c], idx[c]>> /\ f.body = TaskId(c) /\ TaskId(c) \in TaskIds
      BY <3>1, <3>2, <3>3, HandedFrame
    <3>5. f.body[1] = c /\ f.body[2] = op[c] /\ f.body[3] = idx[c]
      BY <3>4
    <3>6. Made(f.body)'
      BY <3>2, <3>4, <3>5 DEF Made
    <3>7. IsWrite(c, op[c]) => \A j \in Nat : j < idx[c] => Acked(settled', <<c, op[c], j>>)
      <4>1. More(c)
        BY <3>2, OpType DEF More
      <4>2. QED
        BY <4>1, AckedKept DEF AckedInv, AckedBy
    <3>8. QED
      BY <3>1, <3>2, <3>4, <3>5, <3>6, <3>7 DEF SentFrame, Op
  <2>3. QED
    BY <2>1, <2>2
<1>2. QED
  BY <1>1 DEF SentInv

LEMMA AckedInvStep ==
    ASSUME TypeOK, TasksShaped, ResultsInStep, AckedInv, [Next]_vars
    PROVE  AckedInv'
<1>0. /\ op \in [Caller -> Nat \ {0}] /\ idx \in [Caller -> Nat]
      /\ result \in [Caller -> Seq({"ok", "error", NoPeer} \cup Station)]
  BY DEF TypeOK, CallTypeOK
<1>1. ASSUME NEW c \in Caller, op'[c] = op[c], idx'[c] = idx[c], result'[c] = result[c],
             status'[c] = "ok" /\ More(c) /\ IsWrite(c, op[c]) =>
               status[c] = "ok" \/ Acked(settled', <<c, op[c], idx[c]>>)
      PROVE  AckedBy(c)'
  <2>1. AckedBy(c)
    BY DEF AckedInv
  <2>2. More(c)' = More(c)
    BY <1>1 DEF More
  <2>3. QED
    BY <1>1, <2>1, <2>2, AckedKept DEF AckedBy
<1>2. ASSUME NEW c \in Caller, CallerStep(c), NEW d \in Caller PROVE AckedBy(d)'
  <2>1. CASE d # c
    <3>1. op'[d] = op[d] /\ idx'[d] = idx[d] /\ status'[d] = status[d] /\ result'[d] = result[d]
      BY <1>2, <2>1, CallerMove
    <3>2. QED
      BY <1>1, <3>1
  <2>2. CASE d = c /\ HandsOver(c)
    BY <1>1, <2>2 DEF HandsOver
  <2>3. CASE d = c /\ GoesOn(c)
    <3>1. /\ op'[c] = op[c] /\ idx'[c] = idx[c] + 1 /\ status'[c] = "idle"
          /\ result'[c] = result[c] /\ (IsWrite(c, op[c]) => status[c] = "ok")
      BY <2>3 DEF GoesOn
    <3>2. AckedBy(c)
      BY DEF AckedInv
    <3>3. ASSUME More(c)', IsWrite(c, op'[c]), NEW j \in Nat, j < idx'[c]
          PROVE  Acked(settled', <<c, op'[c], j>>)
      <4>1. More(c) /\ IsWrite(c, op[c]) /\ status[c] = "ok"
        BY <3>1, <3>3 DEF More
      <4>2. j < idx[c] \/ j = idx[c]
        BY <1>0, <3>1, <3>3
      <4>3. Acked(settled, <<c, op[c], j>>)
        BY <3>2, <4>1, <4>2 DEF AckedBy
      <4>4. QED
        BY <3>1, <4>3, AckedKept
    <3>4. QED
      BY <2>3, <3>1, <3>2, <3>3, AckedKept DEF AckedBy
  <2>4. CASE d = c /\ Returns(c)
    <3>1. op'[c] = op[c] + 1 /\ idx'[c] = 0 /\ status'[c] = "idle"
      BY <2>4 DEF Returns
    <3>2. PICK r \in {"ok", "error", NoPeer} \cup Station :
            /\ result'[c] = Append(result[c], r)
            /\ IsWrite(c, op[c]) /\ r = "ok" =>
                 Op(c).len = 0 \/ (status[c] = "ok" /\ Op(c).len <= idx[c] + 1)
      BY <2>4 DEF Returns
    <3>3. AckedBy(c)
      BY DEF AckedInv
    <3>4. Len(result[c]) = op[c] - 1 /\ op[c] <= Len(Script[c]) + 1 /\ Len(Script[c]) \in Nat
      BY ScriptAssumption DEF ResultsInStep
    <3>5. result[c] \in Seq({"ok", "error", NoPeer} \cup Station)
      BY <1>0
    <3>6. Len(result'[c]) = op[c] /\ result'[c][op[c]] = r
          /\ \A k \in 1 .. op[c] - 1 : k \in 1 .. Len(result[c]) /\ result'[c][k] = result[c][k]
      BY <1>0, <3>2, <3>4, <3>5
    <3>7. ASSUME NEW k \in 1 .. Len(result'[c]), IsWrite(c, k), result'[c][k] = "ok",
                 NEW j \in Nat, j < Script[c][k].len
          PROVE  Acked(settled', <<c, k, j>>)
      <4>1. CASE k # op[c]
        <5>1. k \in 1 .. op[c] - 1
          BY <1>0, <3>6, <3>7, <4>1
        <5>2. Acked(settled, <<c, k, j>>)
          BY <3>3, <3>6, <3>7, <5>1 DEF AckedBy
        <5>3. QED
          BY <5>2, AckedKept
      <4>2. CASE k = op[c]
        <5>0. op[c] \in 1 .. Len(Script[c])
          <6>1. More(c)
            BY <1>2, <2>4 DEF CallerStep, WriteNothing, Submit, Resume, GiveUpWaiting, ResultsInStep
          <6>2. QED
            BY <1>0, <3>4, <6>1 DEF More
        <5>1. Op(c).len \in Nat /\ Op(c).len = Script[c][k].len /\ More(c)
          BY <3>4, <4>2, <5>0, OpType DEF Op, More
        <5>2. status[c] = "ok" /\ (j < idx[c] \/ j = idx[c])
          BY <1>0, <3>2, <3>6, <3>7, <4>2, <5>1
        <5>3. Acked(settled, <<c, k, j>>)
          BY <3>3, <3>7, <4>2, <5>1, <5>2 DEF AckedBy
        <5>4. QED
          BY <5>3, AckedKept
      <4>3. QED
        BY <4>1, <4>2
    <3>8. \A j \in Nat : ~(j < idx'[c])
      BY <3>1
    <3>9. QED
      BY <2>4, <3>1, <3>7, <3>8 DEF AckedBy
  <2>5. QED
    BY <1>2, <2>1, <2>2, <2>3, <2>4, CallerMove
<1>3. ASSUME NEW n \in Station, DaemonStep(n), NEW c \in Caller PROVE AckedBy(c)'
  <2>1. UNCHANGED <<op, idx, result>>
    BY <1>3, DaemonMove
  <2>2. ASSUME status'[c] = "ok", status[c] # "ok", More(c), IsWrite(c, op[c])
        PROVE  Acked(settled', <<c, op[c], idx[c]>>)
    <3>1. PICK t \in Pending(n) : \E s : t.id = TaskId(c) /\ <<t.frame, s>> \in settled'
      BY <1>3, <2>2, DaemonMove
    <3>2. t \in Tasks /\ Shaped(t)
      BY PendingRequests DEF TasksShaped
    <3>3. PICK b \in 0 .. SeqCount - 1 : t.frame = FrameOf(c, op[c], idx[c], b)
      BY <3>1, <3>2 DEF Shaped, TaskId
    <3>4. op[c] \in 1 .. Len(Script[c])
      BY <3>1, <3>2 DEF Shaped, TaskId
    <3>5. b \in Nat /\ idx[c] \in Nat
      BY <1>0, SeqCountAssumption
    <3>6. IsData(t.frame)
      BY <2>2, <3>3, <3>4, <3>5, FrameOfShape DEF IsWrite
    <3>7. t.frame.body = <<c, op[c], idx[c]>>
      BY <3>3, <3>4, <3>6, HandedFrame
    <3>8. PICK s : <<t.frame, s>> \in settled'
      BY <3>1
    <3>9. <<t.frame, s>>[1] = t.frame
      OBVIOUS
    <3>10. QED
      BY <3>6, <3>7, <3>8, <3>9 DEF Acked
  <2>3. QED
    BY <1>1, <2>1, <2>2
<1>4. ASSUME NEW n \in Station, DropReader(n), NEW c \in Caller PROVE AckedBy(c)'
  BY <1>1, <1>4 DEF DropReader, callVars
<1>5. ASSUME UNCHANGED vars, NEW c \in Caller PROVE AckedBy(c)'
  BY <1>1, <1>5 DEF vars, callVars
<1>6. QED
  BY <1>2, <1>3, <1>4, <1>5 DEF AckedInv, Next

\* A caller has begun the operations whose frames it has handed over, and has
\* not handed over the frame it is about to.
LEMMA SentBegun ==
    ASSUME TypeOK, SentInv, NEW f \in Sent
    PROVE  /\ f.body[1] \in Caller /\ f.body[2] \in 1 .. Len(Script[f.body[1]])
           /\ f.body[3] \in Nat /\ f.body = <<f.body[1], f.body[2], f.body[3]>>
           /\ Begun(f.body[1], f.body[2])
           /\ \A c \in Caller : f.body[1] = c /\ f.body[2] = op[c] /\ status[c] = "idle"
                => f.body[3] < idx[c]
<1>1. SentFrame(f)
  BY DEF SentInv
<1>2. /\ f.body \in TaskIds /\ Made(f.body) /\ f.body[2] \in 1 .. Len(Script[f.body[1]])
  BY <1>1 DEF SentFrame
<1>3. /\ f.body[1] \in Caller /\ f.body[2] \in Nat /\ f.body[3] \in Nat
      /\ f.body = <<f.body[1], f.body[2], f.body[3]>>
  BY <1>2 DEF TaskIds
<1> DEFINE c == f.body[1]
<1>4. /\ TaskId(c)[1] = c /\ TaskId(c)[2] = op[c] /\ TaskId(c)[3] = idx[c]
      /\ op[c] \in Nat /\ idx[c] \in Nat
  BY <1>3 DEF TaskId, TypeOK, CallTypeOK
<1>5. \/ f.body[2] < op[c]
      \/ f.body[2] = op[c] /\ f.body[3] < idx[c]
      \/ f.body[2] = op[c] /\ f.body[3] = idx[c] /\ status[c] # "idle"
  <2>1. Less(f.body, TaskId(c)) \/ (f.body = TaskId(c) /\ status[c] # "idle")
    BY <1>2 DEF Made
  <2>2. QED
    BY <1>4, <2>1 DEF Less
<1>6. Begun(c, f.body[2])
  BY <1>3, <1>4, <1>5 DEF Begun
<1>7. QED
  BY <1>2, <1>3, <1>4, <1>5, <1>6

LEMMA BaseInvStep ==
    ASSUME TypeOK, TypeOK', ResultsInStep, SentInv, BaseInv, [Next]_vars
    PROVE  BaseInv'
<1>0. /\ op \in [Caller -> Nat \ {0}] /\ idx \in [Caller -> Nat]
      /\ base' \in [Caller -> 0 .. SeqCount - 1]
  BY DEF TypeOK, CallTypeOK
\* A step by which c hands nothing over and begins nothing.
<1>1. ASSUME NEW c \in Caller, NEW k \in 1 .. Len(Script[c]), IsWrite(c, k),
             \A f \in Sent' : f.body[1] = c /\ f.body[2] = k => f \in Sent,
             op'[c] = k /\ Begun(c, k)' => op[c] = k /\ Begun(c, k) /\ base'[c] = base[c]
      PROVE  \E b \in 0 .. SeqCount - 1 : NumberedFrom(c, k, b)'
  <2>1. PICK b \in 0 .. SeqCount - 1 : NumberedFrom(c, k, b)
    BY <1>1 DEF BaseInv
  <2>2. NumberedFrom(c, k, b)'
    BY <1>1, <2>1 DEF NumberedFrom
  <2>3. QED
    BY <2>2
<1>2. ASSUME NEW d \in Caller, CallerStep(d), NEW c \in Caller, NEW k \in 1 .. Len(Script[c]),
             IsWrite(c, k)
      PROVE  \E b \in 0 .. SeqCount - 1 : NumberedFrom(c, k, b)'
  <2>1. ASSUME NEW f \in Sent', f \notin Sent
        PROVE  /\ HandsOver(d) /\ f = FrameOf(d, op[d], idx[d], base'[d])
               /\ f.body = <<d, op[d], idx[d]>>
    <3>1. PICK e \in Caller : CallerStep(e) /\ HandsOver(e) /\ f = FrameOf(e, op[e], idx[e], base'[e])
      BY <2>1, SentStep
    <3>2. e = d
      <4>1. status[e] = "idle" /\ status'[e] = "waiting"
        BY <3>1 DEF HandsOver
      <4>2. QED
        BY <1>2, <4>1, CallerMove
    <3>3. IsData(f)
      BY <2>1, SentIs
    <3>4. QED
      BY <1>0, <3>1, <3>2, <3>3, HandedFrame DEF HandsOver
  <2>2. CASE c # d
    <3>1. op'[c] = op[c] /\ idx'[c] = idx[c] /\ status'[c] = status[c] /\ base'[c] = base[c]
      BY <1>2, <2>2, CallerMove
    <3>2. \A f \in Sent' : f.body[1] = c /\ f.body[2] = k => f \in Sent
      BY <2>1, <2>2
    <3>3. QED
      BY <1>1, <1>2, <3>1, <3>2 DEF Begun
  <2>3. CASE c = d /\ GoesOn(c)
    <3>1. ~HandsOver(c) /\ op'[c] = op[c] /\ base'[c] = base[c] /\ status[c] # "idle"
      BY <2>3 DEF GoesOn, HandsOver
    <3>2. QED
      BY <1>1, <1>2, <2>1, <2>3, <3>1 DEF Begun
  <2>4. CASE c = d /\ Returns(c)
    <3>1. ~HandsOver(c)
      BY <2>4 DEF Returns, HandsOver
    <3>2. op'[c] \in Nat /\ idx'[c] = 0 /\ status'[c] = "idle"
      BY <1>0, <2>4 DEF Returns
    <3>3. ~(op'[c] = k /\ Begun(c, k)')
      BY <3>2 DEF Begun
    <3>4. QED
      BY <1>1, <1>2, <2>1, <2>4, <3>1, <3>3
  <2>5. CASE c = d /\ HandsOver(c) /\ op[c] # k
    <3>1. op'[c] = op[c]
      BY <2>5 DEF HandsOver
    <3>2. QED
      BY <1>1, <1>2, <2>1, <2>5, <3>1
  <2>6. CASE c = d /\ HandsOver(c) /\ op[c] = k
    <3>1. /\ op'[c] = k /\ status[c] = "idle"
          /\ base'[c] \in IF idx[c] = 0 THEN Bases[c] ELSE {base[c]}
      BY <1>2, <2>6 DEF HandsOver
    <3>2. base'[c] \in 0 .. SeqCount - 1
      BY <1>0
    <3>3. CASE idx[c] = 0
      <4>0. PICK b \in 0 .. SeqCount - 1 : b = base'[c]
        BY <3>2
      <4>1. ASSUME NEW f \in Sent', f.body[1] = c, f.body[2] = k
            PROVE  f = FrameOf(c, k, f.body[3], b)
        <5>1. f \notin Sent
          BY <1>0, <2>6, <3>1, <3>3, <4>1, SentBegun
        <5>2. f = FrameOf(c, k, idx[c], base'[c]) /\ f.body = <<c, k, idx[c]>>
          BY <2>1, <2>6, <4>1, <5>1
        <5>3. f.body[3] = idx[c]
          BY <5>2
        <5>4. QED
          BY <4>0, <5>2, <5>3
      <4>2. NumberedFrom(c, k, b)'
        BY <3>1, <3>3, <4>0, <4>1 DEF NumberedFrom
      <4>3. QED
        BY <4>2
    <3>4. CASE idx[c] # 0
      <4>1. PICK b \in 0 .. SeqCount - 1 : NumberedFrom(c, k, b)
        BY <1>2 DEF BaseInv
      <4>2. b = base[c] /\ b \in Bases[c] /\ base'[c] = b
        BY <1>0, <2>6, <3>1, <3>4, <4>1 DEF NumberedFrom, Begun
      <4>3. ASSUME NEW f \in Sent', f.body[1] = c, f.body[2] = k
            PROVE  f = FrameOf(c, k, f.body[3], b)
        <5>1. CASE f \in Sent
          BY <4>1, <4>3, <5>1 DEF NumberedFrom
        <5>2. CASE f \notin Sent
          <6>1. f = FrameOf(c, k, idx[c], base'[c]) /\ f.body = <<c, k, idx[c]>>
            BY <2>1, <2>6, <4>3, <5>2
          <6>2. f.body[3] = idx[c]
            BY <6>1
          <6>3. QED
            BY <4>2, <6>1, <6>2
        <5>3. QED
          BY <5>1, <5>2
      <4>4. NumberedFrom(c, k, b)'
        BY <4>2, <4>3 DEF NumberedFrom
      <4>5. QED
        BY <4>4
    <3>5. QED
      BY <3>3, <3>4
  <2>7. QED
    BY <1>2, <2>2, <2>3, <2>4, <2>5, <2>6, CallerMove
<1>3. ASSUME ~\E d \in Caller : CallerStep(d) PROVE \A f \in Sent' : f \in Sent
  BY <1>3, SentStep
<1>4. ASSUME NEW c \in Caller, NEW k \in 1 .. Len(Script[c]), IsWrite(c, k),
             ~\E d \in Caller : CallerStep(d)
      PROVE  \E b \in 0 .. SeqCount - 1 : NumberedFrom(c, k, b)'
  <2>1. UNCHANGED <<op, idx, base>> /\ (status[c] = "idle" <=> status'[c] = "idle")
    <3>1. ASSUME NEW n \in Station, DaemonStep(n)
          PROVE  UNCHANGED <<op, idx, base>> /\ (status[c] = "idle" <=> status'[c] = "idle")
      BY <3>1, DaemonMove
    <3>2. (\E n \in Station : DropReader(n)) \/ UNCHANGED vars => UNCHANGED <<op, idx, base, status>>
      BY DEF DropReader, vars, callVars
    <3>3. QED
      BY <1>4, <3>1, <3>2 DEF Next
  <2>2. QED
    BY <1>1, <1>3, <1>4, <2>1 DEF Begun
<1>5. QED
  BY <1>2, <1>4 DEF BaseInv

-----------------------------------------------------------------------------
(* The invariant of the packets.                                           *)

PacketInv == SentInv /\ AckedInv /\ BaseInv

LEMMA PacketInvInit == Init => PacketInv
<1> SUFFICES ASSUME Init PROVE PacketInv
  OBVIOUS
<1>1. Elems(<<>>) = {} /\ Len(<<>>) = 0
  BY DEF Elems
<1>2. Sent = {}
  <2>1. ASSUME NEW n \in Station PROVE Passed(n) = {} /\ heard[n] = {} /\ Pending(n) = {}
    <3>1. /\ Way(n) = <<>> /\ inbox[n] = <<>> /\ writeQ[n] = <<>> /\ timer[n].task = NoTask
          /\ heard[n] = {}
      BY DEF Init, Way, NoTimer
    <3>2. QED
      BY <1>1, <3>1 DEF Passed, Pending
  <2>2. QED
    BY <2>1, SentIs
<1>3. SentInv
  BY <1>2 DEF SentInv
<1>4. AckedInv
  <2>1. ASSUME NEW c \in Caller
        PROVE  idx[c] = 0 /\ status[c] = "idle" /\ Len(result[c]) = 0
    BY <1>1 DEF Init
  <2>2. \A j \in Nat : ~(j < 0)
    OBVIOUS
  <2>3. QED
    BY <2>1, <2>2 DEF AckedInv, AckedBy
<1>5. BaseInv
  <2>1. ASSUME NEW c \in Caller, NEW k \in 1 .. Len(Script[c])
        PROVE  NumberedFrom(c, k, 0)
    <3>1. idx[c] = 0 /\ status[c] = "idle" /\ op[c] = 1
      BY DEF Init
    <3>2. ~(op[c] = k /\ Begun(c, k))
      BY <3>1 DEF Begun
    <3>3. QED
      BY <1>2, <3>2 DEF NumberedFrom
  <2>2. QED
    BY <2>1, SeqCountAssumption DEF BaseInv
<1>6. QED
  BY <1>3, <1>4, <1>5 DEF PacketInv

LEMMA PacketInvStep ==
    ASSUME SocketInv, OrderInv, PacketInv, [Next]_vars
    PROVE  PacketInv'
<1>1. TypeOK /\ TypeOK' /\ ResultsInStep /\ TasksShaped
  BY TypeStep DEF SocketInv, OrderInv
<1>2. QED
  BY <1>1, SentInvStep, AckedInvStep, BaseInvStep DEF PacketInv

-----------------------------------------------------------------------------
(* A whole packet, put together.                                           *)

\* The frames F[0] to F[n - 1] have rising numbers, and are those of s.
Rising(F, n) ==
    /\ \A j \in 0 .. n - 1 : F[j].seq \in Nat
    /\ \A i, j \in 0 .. n - 1 : i < j => F[i].seq < F[j].seq

Lists(F, n, s) ==
    /\ \A j \in 0 .. n - 1 : F[j] \in s
    /\ \A f \in s : \E j \in 0 .. n - 1 : f = F[j]

\* Frames with rising numbers are as many as their indices.
LEMMA RisingCount ==
    ASSUME NEW n \in Nat, NEW F, Rising(F, n), NEW s, Lists(F, n, s)
    PROVE  Cardinality(s) = n
<1> DEFINE h == [i \in 1 .. n |-> F[i - 1]]
<1>1. \A i \in 1 .. n : i - 1 \in 0 .. n - 1
  OBVIOUS
<1>2. h \in [1 .. n -> s]
  BY <1>1 DEF Lists
<1>3. ASSUME NEW i \in 1 .. n, NEW j \in 1 .. n, h[i] = h[j] PROVE i = j
  <2>1. F[i - 1] = F[j - 1] /\ i - 1 \in 0 .. n - 1 /\ j - 1 \in 0 .. n - 1
    BY <1>1, <1>3
  <2>2. F[i - 1].seq \in Nat /\ F[j - 1].seq = F[i - 1].seq
    BY <2>1 DEF Rising
  <2>3. ~(i - 1 < j - 1) /\ ~(j - 1 < i - 1)
    BY <2>1, <2>2 DEF Rising
  <2>4. QED
    BY <2>3
<1>4. ASSUME NEW t \in s PROVE \E i \in 1 .. n : h[i] = t
  <2>1. PICK j \in 0 .. n - 1 : t = F[j]
    BY DEF Lists
  <2>2. j + 1 \in 1 .. n /\ (j + 1) - 1 = j
    OBVIOUS
  <2>3. h[j + 1] = t
    BY <2>1, <2>2
  <2>4. QED
    BY <2>2, <2>3
<1>5. h \in Bijection(1 .. n, s)
  <2> HIDE DEF h
  <2>1. QED
    BY <1>2, <1>3, <1>4 DEF Bijection, Injection, Surjection, IsInjective
<1>6. ExistsBijection(1 .. n, s)
  BY <1>5 DEF ExistsBijection
<1>7. QED
  BY <1>6, FS_CountingElements

\* Each of them has the place of its index.
LEMMA RisingPlaces ==
    ASSUME NEW n \in Nat, NEW F, Rising(F, n), NEW s, Lists(F, n, s)
    PROVE  \A i \in 1 .. n : FrameIn(s, i) = F[i - 1]
<1>1. ASSUME NEW j \in 0 .. n - 1 PROVE Place(s, F[j]) = j + 1
  <2> DEFINE T == {f \in s : f.seq < F[j].seq}
  <2>1. j \in Nat /\ \A i \in 0 .. j - 1 : i \in 0 .. n - 1 /\ i < j
    OBVIOUS
  <2>2. Rising(F, j)
    BY <2>1 DEF Rising
  <2>3. Lists(F, j, T)
    <3>1. ASSUME NEW i \in 0 .. j - 1 PROVE F[i] \in T
      BY <2>1 DEF Lists, Rising
    <3>2. ASSUME NEW f \in T PROVE \E i \in 0 .. j - 1 : f = F[i]
      <4>1. PICK i \in 0 .. n - 1 : f = F[i]
        BY DEF Lists
      <4>2. F[i].seq \in Nat /\ F[j].seq \in Nat /\ F[i].seq < F[j].seq
        BY <4>1 DEF Rising
      <4>3. i # j /\ ~(j < i)
        BY <4>2 DEF Rising
      <4>4. i \in 0 .. j - 1
        BY <4>3
      <4>5. QED
        BY <4>1, <4>4
    <3>3. QED
      BY <3>1, <3>2 DEF Lists
  <2> HIDE DEF T
  <2>4. Cardinality(T) = j
    BY <2>1, <2>2, <2>3, RisingCount
  <2>5. QED
    BY <2>4 DEF Place, T
<1>2. ASSUME NEW i \in 1 .. n PROVE FrameIn(s, i) = F[i - 1]
  <2>1. i - 1 \in 0 .. n - 1 /\ (i - 1) + 1 = i
    OBVIOUS
  <2>2. F[i - 1] \in s /\ Place(s, F[i - 1]) = i
    BY <1>1, <2>1 DEF Lists
  <2>3. ASSUME NEW f \in s, Place(s, f) = i PROVE f = F[i - 1]
    <3>1. PICK j \in 0 .. n - 1 : f = F[j]
      BY DEF Lists
    <3>2. j + 1 = i
      BY <1>1, <2>3, <3>1
    <3>3. j = i - 1
      BY <3>2
    <3>4. QED
      BY <3>1, <3>3
  <2>4. \E f \in s : Place(s, f) = i
    BY <2>2
  <2>5. QED
    BY <2>3, <2>4 DEF FrameIn
<1>3. QED
  BY <1>2

LEMMA SmallMod == ASSUME NEW m \in Nat, NEW x \in Nat, x < m PROVE x % m = x
OBVIOUS

\* The frames of a write whose numbers do not start again make its packet.
LEMMA WholePacket ==
    ASSUME NEW c \in Caller, NEW k \in 1 .. Len(Script[c]), IsWrite(c, k),
           NEW b \in Nat, b + Script[c][k].len <= SeqCount,
           NEW s, s = {FrameOf(c, k, j, b) : j \in 0 .. Script[c][k].len - 1}
    PROVE  Assemble(s) = Packet(c, k)
<1> DEFINE n == Script[c][k].len
           F == [j \in 0 .. n - 1 |-> FrameOf(c, k, j, b)]
<1>1. n \in Nat
  BY OpType
<1>2. ASSUME NEW j \in 0 .. n - 1 PROVE F[j].seq = b + j /\ F[j].body = <<c, k, j>>
  <2>1. FrameOf(c, k, j, b)
          = DataFrame(Script[c][k].dest, Home[c], b + j, j = Script[c][k].len - 1, <<c, k, j>>)
    BY DEF IsWrite, FrameOf
  <2>2. (b + j) % SeqCount = b + j
    <3>1. b + j \in 0 .. SeqCount - 1
      BY <1>1, SeqCountAssumption
    <3>2. b + j \in Nat /\ b + j < SeqCount /\ SeqCount \in Nat
      BY <3>1, SeqCountAssumption
    <3>3. QED
      BY <3>2, SmallMod
  <2>3. QED
    BY <2>1, <2>2 DEF DataFrame
<1>3. Rising(F, n)
  <2>1. \A j \in 0 .. n - 1 : b + j \in Nat
    BY <1>1
  <2>2. \A i, j \in 0 .. n - 1 : i < j => b + i < b + j
    BY <1>1
  <2> HIDE DEF F
  <2>3. \A j \in 0 .. n - 1 : F[j].seq = b + j
    BY <1>2
  <2> HIDE DEF n
  <2>4. QED
    BY <2>1, <2>2, <2>3 DEF Rising
<1>4. Lists(F, n, s)
  BY DEF Lists
<1>5. \A i \in 1 .. n : i - 1 \in 0 .. n - 1
  BY <1>1
<1> HIDE DEF F, n
<1>6. Cardinality(s) = n /\ \A i \in 1 .. n : FrameIn(s, i) = F[i - 1]
  <2>1. Cardinality(s) = n
    BY <1>1, <1>3, <1>4, RisingCount
  <2>2. \A i \in 1 .. n : FrameIn(s, i) = F[i - 1]
    BY <1>1, <1>3, <1>4, RisingPlaces
  <2>3. QED
    BY <2>1, <2>2
<1>7. \A i \in 1 .. n : FrameIn(s, i).body = <<c, k, i - 1>>
  BY <1>2, <1>5, <1>6
<1>8. QED
  BY <1>6, <1>7 DEF Assemble, Packet, n

-----------------------------------------------------------------------------
(* From the inbox to the bucket.                                           *)

\* The state of the sockets as the reader's proof uses it.
PassingInv == SocketInv /\ OrderInv /\ HeardInv /\ SettledHeard /\ PacketInv

LEMMA PassingFacts ==
    ASSUME PassingInv
    PROVE  /\ TypeOK /\ SentInv /\ AckedInv /\ BaseInv /\ HeardInv /\ SettledHeard /\ WayInv
           /\ ResultsInStep
BY DEF PassingInv, SocketInv, OrderInv, PacketInv

\* A data frame in an inbox is one that was handed over, and has been handled.
LEMMA InboxSent ==
    ASSUME PassingInv, NEW n \in Station, NEW y \in 1 .. Len(inbox[n])
    PROVE  /\ inbox[n][y] \in Frames /\ inbox[n][y] \in heard[n] /\ IsForSelf(n, inbox[n][y])
           /\ IsData(inbox[n][y]) => inbox[n][y] \in Sent
<1>1. inbox[n] \in Seq(Frames) /\ inbox[n][y] \in Elems(inbox[n])
  BY PassingFacts DEF TypeOK, DaemonTypeOK, Elems
<1>2. inbox[n][y] \in heard[n] /\ IsForSelf(n, inbox[n][y])
  BY <1>1, PassingFacts DEF HeardInv, HeardAt
<1>3. QED
  BY <1>1, <1>2, SentIs

\* What a frame tells of its operation.
LEMMA SentOperation ==
    ASSUME PassingInv, NEW f \in Sent,
           NEW c, c = f.body[1], NEW k, k = f.body[2], NEW i, i = f.body[3]
    PROVE  /\ c \in Caller /\ k \in 1 .. Len(Script[c]) /\ i \in Nat /\ f.body = <<c, k, i>>
           /\ i < Script[c][k].len /\ IsData(f)
           /\ \A n \in Station : Reads(n, c, k) <=> IsForSelf(n, f) /\ ForReader(n, f)
           /\ f.eop <=> IsWrite(c, k) /\ i = Script[c][k].len - 1
           /\ f.dest = FrameOf(c, k, 0, 0).dest
           /\ IsWrite(c, k) => f.dest = Script[c][k].dest
<1>1. SentFrame(f) /\ IsData(f)
  BY PassingFacts, SentIs DEF SentInv
<1>2. c \in Caller /\ k \in 1 .. Len(Script[c]) /\ i \in Nat /\ f.body = <<c, k, i>>
  BY PassingFacts, SentBegun
<1>3. i < Script[c][k].len
  BY <1>1 DEF SentFrame
<1>4. PICK b \in 0 .. SeqCount - 1 : f = FrameOf(c, k, i, b)
  BY <1>1 DEF SentFrame
<1>5. b \in Nat /\ 0 \in Nat
  BY SeqCountAssumption
<1>6. /\ Script[c][k].kind \in {"write", "perf"}
      /\ f.dest = FrameOf(c, k, 0, 0).dest /\ f.src = FrameOf(c, k, 0, 0).src
  <2>1. IsData(FrameOf(c, k, i, b))
    BY <1>1, <1>4
  <2>2. /\ IsData(FrameOf(c, k, i, b)) <=> Script[c][k].kind \in {"write", "perf"}
        /\ FrameOf(c, k, i, b).dest = FrameOf(c, k, 0, 0).dest
        /\ FrameOf(c, k, i, b).src = FrameOf(c, k, 0, 0).src
    <3>1. b \in Nat /\ i \in Nat /\ k \in 1 .. Len(Script[c]) /\ c \in Caller
      BY <1>2, <1>5
    <3>2. QED
      BY SMTT(20), <3>1, FrameOfShape
  <2>3. QED
    BY <1>4, <2>1, <2>2
<1>7. IsData(FrameOf(c, k, 0, 0))
  BY <1>2, <1>5, <1>6, FrameOfShape
<1>8. \A n \in Station : Reads(n, c, k) <=> IsForSelf(n, f) /\ ForReader(n, f)
  BY <1>1, <1>6, <1>7 DEF Reads, IsForSelf, ForReader, IsData
<1>9. CASE IsWrite(c, k)
  <2>1. f = DataFrame(Script[c][k].dest, Home[c], b + i, i = Script[c][k].len - 1, <<c, k, i>>)
    BY <1>4, <1>9 DEF IsWrite, FrameOf
  <2>2. f.eop = (i = Script[c][k].len - 1) /\ f.dest = Script[c][k].dest
    BY <2>1 DEF DataFrame
  <2>3. QED
    BY <1>1, <1>2, <1>3, <1>6, <1>8, <1>9, <2>2
<1>10. CASE ~IsWrite(c, k)
  <2>1. f = DataFrame(Script[c][k].dest, Home[c], 0, FALSE, <<c, k, i>>)
    BY <1>4, <1>6, <1>10 DEF IsWrite, FrameOf
  <2>2. ~f.eop
    BY <2>1 DEF DataFrame
  <2>3. QED
    BY <1>1, <1>2, <1>3, <1>6, <1>8, <1>10, <2>2
<1>11. QED
  BY <1>9, <1>10

\* In place y of the inbox of n is a frame its reader keeps, number i of
\* operation k of caller c.
At(n, y, c, k, i) ==
    /\ y \in 1 .. Len(inbox[n]) /\ inbox[n][y].body = <<c, k, i>>
    /\ inbox[n][y] \in Sent /\ ForReader(n, inbox[n][y])

LEMMA WantedAt ==
    ASSUME PassingInv, NEW n \in Station, NEW y \in 1 .. Len(inbox[n]), ForReader(n, inbox[n][y])
    PROVE  \E c \in Caller : \E k \in Nat : \E i \in Nat : At(n, y, c, k, i)
<1>1. inbox[n][y] \in Sent
  BY InboxSent DEF ForReader, IsData
<1>2. PICK c, k, i : c = inbox[n][y].body[1] /\ k = inbox[n][y].body[2] /\ i = inbox[n][y].body[3]
  OBVIOUS
<1>3. c \in Caller /\ k \in 1 .. Len(Script[c]) /\ i \in Nat /\ inbox[n][y].body = <<c, k, i>>
  BY <1>1, <1>2, SentOperation
<1>4. QED
  BY <1>1, <1>3 DEF At

LEMMA AtFacts ==
    ASSUME PassingInv, NEW n \in Station, NEW y, NEW c, NEW k, NEW i, At(n, y, c, k, i)
    PROVE  /\ c \in Caller /\ k \in 1 .. Len(Script[c]) /\ k \in Nat /\ i \in Nat
           /\ Script[c][k].len \in Nat /\ i < Script[c][k].len /\ Reads(n, c, k)
           /\ inbox[n][y].eop <=> IsWrite(c, k) /\ i = Script[c][k].len - 1
           /\ IsWrite(c, k) => \A j \in Nat : j < i => Acked(settled, <<c, k, j>>)
           /\ Begun(c, k)
<1>1. PICK f : f = inbox[n][y]
  OBVIOUS
<1>2. /\ f \in Sent /\ y \in 1 .. Len(inbox[n]) /\ ForReader(n, f) /\ IsForSelf(n, f)
      /\ f.body = <<c, k, i>> /\ c = f.body[1] /\ k = f.body[2] /\ i = f.body[3]
  BY <1>1, InboxSent DEF At
<1>3. /\ c \in Caller /\ k \in 1 .. Len(Script[c]) /\ i \in Nat
      /\ i < Script[c][k].len /\ (f.eop <=> IsWrite(c, k) /\ i = Script[c][k].len - 1)
      /\ Reads(n, c, k)
  BY <1>2, SentOperation
<1>4. SentFrame(f) /\ Begun(c, k)
  BY <1>2, PassingFacts, SentBegun DEF SentInv
<1>5. IsWrite(c, k) => \A j \in Nat : j < i => Acked(settled, <<c, k, j>>)
  BY <1>2, <1>4 DEF SentFrame
<1>6. QED
  BY <1>1, <1>3, <1>4, <1>5, OpType

\* The frames of one caller are in order.
LEMMA AtOrder ==
    ASSUME PassingInv, NEW n \in Station, NEW y, NEW z, NEW c, NEW k, NEW i, NEW l, NEW j,
           At(n, y, c, k, i), At(n, z, c, l, j)
    PROVE  /\ y < z => k < l \/ (k = l /\ i < j)
           /\ y = z => k = l /\ i = j
<1>1. /\ y \in 1 .. Len(inbox[n]) /\ z \in 1 .. Len(inbox[n])
      /\ IsData(inbox[n][y]) /\ IsData(inbox[n][z])
      /\ inbox[n][y].body = <<c, k, i>> /\ inbox[n][z].body = <<c, l, j>>
  BY DEF At, ForReader, IsData
<1>2. y < z => Less(<<c, k, i>>, <<c, l, j>>)
  BY <1>1, PassingFacts DEF WayInv, Ordered
<1>3. y = z => <<c, k, i>> = <<c, l, j>>
  BY <1>1
<1>4. QED
  BY <1>2, <1>3 DEF Less

\* A reader keeps the frames of one caller, none of them, of a write, behind
\* those of another kind.
LEMMA AtSame ==
    ASSUME OneWriter, PassingInv, NEW n \in Station, NEW y, NEW z, NEW c, NEW k, NEW i,
           NEW d, NEW l, NEW j, At(n, y, c, k, i), At(n, z, d, l, j)
    PROVE  d = c /\ (k < l /\ IsWrite(c, l) => IsWrite(c, k))
<1>1. /\ c \in Caller /\ k \in 1 .. Len(Script[c]) /\ Reads(n, c, k)
      /\ d \in Caller /\ l \in 1 .. Len(Script[d]) /\ Reads(n, d, l)
  BY AtFacts
<1>2. QED
  BY <1>1 DEF OneWriter

\* With numbers apart, no two of them have the same.
LEMMA AtApart ==
    ASSUME OneWriter, PassingInv, NumbersApart, NEW n \in Station,
           NEW y \in 1 .. Len(inbox[n]), NEW z \in 1 .. Len(inbox[n]), y < z,
           ForReader(n, inbox[n][y]), ForReader(n, inbox[n][z])
    PROVE  inbox[n][y].seq # inbox[n][z].seq
<1>1. PICK c \in Caller, k \in Nat, i \in Nat : At(n, y, c, k, i)
  BY WantedAt
<1>2. PICK d \in Caller, l \in Nat, j \in Nat : At(n, z, d, l, j)
  BY WantedAt
<1>3. d = c
  BY <1>1, <1>2, AtSame
<1>4. k < l \/ (k = l /\ i < j)
  BY <1>1, <1>2, <1>3, AtOrder
<1>5. <<c, k, i>> # <<c, l, j>>
  BY <1>4
<1>6. inbox[n][y] # inbox[n][z]
  BY <1>1, <1>2, <1>3, <1>5 DEF At
<1>7. inbox[n][y] \in heard[n] /\ inbox[n][z] \in heard[n] /\ IsData(inbox[n][y])
  BY InboxSent DEF ForReader, IsData
<1>8. QED
  BY <1>6, <1>7 DEF NumbersApart

\* A frame written before one in the inbox, if acknowledged, lies before it.
LEMMA EarlierArrived ==
    ASSUME OneWriter, PassingInv, NEW n \in Station, reader[n],
           NEW c, NEW k, NEW i, NEW y, At(n, y, c, k, i),
           NEW l \in 1 .. Len(Script[c]), IsWrite(c, l), Reads(n, c, l),
           NEW j \in Nat, Acked(settled, <<c, l, j>>), l < k \/ (l = k /\ j < i)
    PROVE  \E z \in 1 .. Len(inbox[n]) : z < y /\ At(n, z, c, l, j)
<1>0. c \in Caller /\ k \in Nat /\ i \in Nat /\ l \in Nat
  BY AtFacts
<1>1. PICK p \in settled : IsData(p[1]) /\ p[1].body = <<c, l, j>>
  BY DEF Acked
<1>2. PICK g, m : g = p[1] /\ m = p[2]
  OBVIOUS
<1>3. m \in Station /\ g \in heard[m] /\ IsData(g) /\ g.body = <<c, l, j>>
  BY <1>1, <1>2, PassingFacts DEF SettledHeard, TypeOK, MediumTypeOK
<1>4. g \in Sent /\ c = g.body[1] /\ l = g.body[2] /\ j = g.body[3]
  BY <1>3, SentIs
<1>5. g.dest = n
  <2>1. g.dest = Script[c][l].dest
    BY <1>4, SentOperation
  <2>2. QED
    BY <1>0, <2>1 DEF OneWriter
<1>6. HeardAt(m) /\ HeardAt(n)
  BY <1>3, PassingFacts DEF HeardInv
<1>7. m = n
  BY <1>3, <1>5, <1>6, StationAssumption DEF HeardAt, IsForSelf
<1>8. IsForSelf(n, g) /\ ForReader(n, g)
  BY <1>4, SentOperation
<1>9. ~Less(<<c, k, i>>, g.body) /\ <<c, k, i>> # g.body
  <2>1. ~(k < l) /\ ~(k = l /\ i < j) /\ (k # l \/ i # j)
    BY <1>0
  <2>2. QED
    BY <1>3, <2>1 DEF Less
<1>10. y \in 1 .. Len(inbox[n]) /\ inbox[n][y] \in Elems(inbox[n]) /\ IsData(inbox[n][y])
       /\ inbox[n][y].body = <<c, k, i>>
  BY DEF At, ForReader, IsData, Elems
<1>11. ~(phase[n] = "deliver" /\ held[n] = g)
  <2> SUFFICES ASSUME phase[n] = "deliver", held[n] = g PROVE FALSE
    OBVIOUS
  <2>1. PICK Q : Q = Way(n)
    OBVIOUS
  <2>2. Fits(Q, inbox[n], jar[n])
    BY <2>1, PassingFacts DEF WayInv, Tidy
  <2>3. Q = <<g>> \o air[n] /\ air[n] \in Seq(Frames) /\ g \in Frames
    BY <2>1, PassingFacts, ReaderSeqs DEF Way
  <2>4. 1 \in 1 .. Len(Q) /\ Q[1] = g
    BY <2>3
  <2>5. Less(inbox[n][y].body, g.body) \/ inbox[n][y].body = g.body
    BY <1>3, <1>10, <2>2, <2>4 DEF Fits
  <2>6. QED
    BY <1>9, <1>10, <2>5
<1>12. g \in Elems(inbox[n])
  BY <1>3, <1>6, <1>7, <1>11 DEF HeardAt
<1>13. PICK z \in 1 .. Len(inbox[n]) : inbox[n][z] = g
  BY <1>12 DEF Elems
<1>14. At(n, z, c, l, j)
  BY <1>3, <1>4, <1>8, <1>13 DEF At
<1>15. z # y /\ ~(y < z)
  BY <1>0, <1>14, AtOrder
<1>16. z < y
  BY <1>10, <1>15
<1>17. QED
  BY <1>14, <1>16

\* The frames of the packet whose end lies behind the first t of the inbox are
\* in the bucket.
LEMMA AllCollected ==
    ASSUME OneWriter, PassingInv, NEW n \in Station, reader[n], NEW t \in Nat,
           NEW c, NEW k, NEW i, At(n, t + 1, c, k, i), IsWrite(c, k), i = Script[c][k].len - 1,
           NEW j \in Nat, j < i
    PROVE  \E y \in Kept(n, inbox[n], t) : At(n, y, c, k, j)
<1>1. /\ c \in Caller /\ k \in 1 .. Len(Script[c]) /\ k \in Nat /\ i \in Nat /\ Reads(n, c, k)
      /\ Acked(settled, <<c, k, j>>)
  BY AtFacts
<1>2. PICK y \in 1 .. Len(inbox[n]) : y < t + 1 /\ At(n, y, c, k, j)
  BY <1>1, EarlierArrived
<1>3. ASSUME NEW z \in y .. t, ForReader(n, inbox[n][z]), inbox[n][z].eop PROVE FALSE
  <2>1. z \in 1 .. Len(inbox[n]) /\ z < t + 1 /\ (z = y \/ y < z)
    BY <1>2 DEF At
  <2>2. PICK d \in Caller, l \in Nat, m \in Nat : At(n, z, d, l, m)
    BY <1>3, <2>1, WantedAt
  <2>3. d = c
    BY <1>2, <2>2, AtSame
  <2>4. l < k \/ (l = k /\ m < i)
    BY <2>1, <2>2, <2>3, AtOrder
  <2>5. k < l \/ (k = l /\ j < m) \/ (k = l /\ j = m)
    BY <1>2, <2>1, <2>2, <2>3, AtOrder
  <2>6. l = k
    BY <1>1, <2>4, <2>5
  <2>7. m = i
    BY <1>3, <2>2, <2>3, <2>6, AtFacts
  <2>8. QED
    BY <1>1, <2>4, <2>6, <2>7
<1>4. y \in Kept(n, inbox[n], t)
  <2>1. y \in 1 .. t /\ ForReader(n, inbox[n][y])
    BY <1>2 DEF At
  <2>2. QED
    BY <1>3, <2>1 DEF Kept
<1>5. QED
  BY <1>2, <1>4

\* Nothing else is: the packets before were acknowledged to their ends, for the
\* caller goes on, and the end of each has emptied the bucket.
LEMMA OnlyCollected ==
    ASSUME OneWriter, PassingInv, GivesUp, NEW n \in Station, reader[n],
           NEW t \in Nat, NEW c, NEW k, NEW i, At(n, t + 1, c, k, i), IsWrite(c, k),
           NEW y \in Kept(n, inbox[n], t)
    PROVE  \E j \in Nat : j < i /\ At(n, y, c, k, j)
<1>1. /\ y \in 1 .. t /\ ForReader(n, inbox[n][y])
      /\ \A z \in y .. t : ForReader(n, inbox[n][z]) => ~inbox[n][z].eop
  BY DEF Kept
<1>2. y \in 1 .. Len(inbox[n]) /\ y < t + 1
  BY <1>1 DEF At
<1>3. PICK d \in Caller, l \in Nat, j \in Nat : At(n, y, d, l, j)
  BY <1>1, <1>2, WantedAt
<1>4. d = c /\ (l < k => IsWrite(c, l))
  BY <1>3, AtSame
<1>5. l < k \/ (l = k /\ j < i)
  BY <1>2, <1>3, <1>4, AtOrder
<1>6. ASSUME l < k PROVE FALSE
  <2>1. /\ c \in Caller /\ l \in 1 .. Len(Script[c]) /\ Reads(n, c, l) /\ IsWrite(c, l)
        /\ Script[c][l].len \in Nat /\ j < Script[c][l].len
    BY <1>3, <1>4, <1>6, AtFacts
  <2>2. /\ k \in 1 .. Len(Script[c]) /\ k \in Nat /\ Begun(c, k) /\ Reads(n, c, k)
        /\ Script[c][k].len \in Nat /\ i \in Nat /\ i < Script[c][k].len
    BY AtFacts
  <2>3. PICK e \in Nat : e = Script[c][l].len - 1
    BY <2>1
  <2>4. Acked(settled, <<c, l, e>>)
    <3>1. l \in 1 .. Len(result[c])
      <4>1. Len(result[c]) = op[c] - 1 /\ op[c] \in Nat
        BY <2>1, PassingFacts DEF ResultsInStep, TypeOK, CallTypeOK
      <4>2. k <= op[c]
        BY <2>2, <4>1 DEF Begun
      <4>3. QED
        BY <1>6, <2>1, <2>2, <4>1, <4>2
    <3>2. k \in l + 1 .. Len(Script[c]) /\ Script[c][k].len > 0
      BY <1>6, <2>1, <2>2
    <3>3. Script[c][l].dest = n /\ Script[c][k].dest = n
      BY <2>1, <2>2 DEF OneWriter
    <3>4. result[c][l] = "ok"
      BY <2>1, <2>2, <3>1, <3>2, <3>3 DEF GivesUp
    <3>5. AckedBy(c)
      BY <2>1, PassingFacts DEF AckedInv
    <3>6. e < Script[c][l].len
      BY <2>1, <2>3
    <3>7. QED
      BY <2>1, <3>1, <3>4, <3>5, <3>6 DEF AckedBy
  <2>5. PICK z \in 1 .. Len(inbox[n]) : z < t + 1 /\ At(n, z, c, l, e)
    BY <1>6, <2>1, <2>4, EarlierArrived
  <2>6. inbox[n][z].eop /\ ForReader(n, inbox[n][z])
    <3>1. ForReader(n, inbox[n][z])
      BY <2>5 DEF At
    <3>2. inbox[n][z].eop
      BY <2>1, <2>3, <2>5, AtFacts
    <3>3. QED
      BY <3>1, <3>2
  <2>7. ~(z < y)
    <3> SUFFICES ASSUME z < y PROVE FALSE
      OBVIOUS
    <3>1. e < j
      BY <1>3, <1>4, <2>5, AtOrder
    <3>2. QED
      BY <2>1, <2>3, <3>1
  <2>8. z \in y .. t
    BY <1>1, <2>5, <2>7
  <2>9. QED
    BY <1>1, <2>6, <2>8
<1>7. QED
  BY <1>3, <1>4, <1>5, <1>6

\* What is in the bucket and the end of a packet are the frames of that packet.
LEMMA Collected ==
    ASSUME OneWriter, PassingInv, GivesUp, NEW n \in Station, reader[n],
           NEW t \in Nat, t + 1 \in 1 .. Len(inbox[n]),
           ForReader(n, inbox[n][t + 1]), inbox[n][t + 1].eop
    PROVE  \E c \in Caller : \E k \in 1 .. Len(Script[c]) : \E b \in Nat :
             /\ IsWrite(c, k) /\ b + Script[c][k].len <= SeqCount
             /\ KeptFrames(n, inbox[n], t) \cup {inbox[n][t + 1]}
                  = {FrameOf(c, k, j, b) : j \in 0 .. Script[c][k].len - 1}
<1>1. PICK c \in Caller, k \in Nat, i \in Nat : At(n, t + 1, c, k, i)
  BY WantedAt
<1>2. /\ k \in 1 .. Len(Script[c]) /\ IsWrite(c, k) /\ i = Script[c][k].len - 1
      /\ Script[c][k].len \in Nat /\ Reads(n, c, k)
  BY <1>1, AtFacts
<1>3. PICK b \in 0 .. SeqCount - 1 : NumberedFrom(c, k, b)
  BY <1>2, PassingFacts DEF BaseInv
<1>4. ASSUME NEW y, NEW j, At(n, y, c, k, j) PROVE b \in Bases[c] /\ inbox[n][y] = FrameOf(c, k, j, b)
  <2>1. PICK f : f = inbox[n][y]
    OBVIOUS
  <2>2. f \in Sent /\ f.body[1] = c /\ f.body[2] = k /\ f.body[3] = j
    BY <1>4, <2>1 DEF At
  <2>3. QED
    BY <1>3, <2>1, <2>2 DEF NumberedFrom
<1>5. b \in Nat /\ b + Script[c][k].len <= SeqCount
  <2>1. b \in Bases[c]
    BY <1>1, <1>4
  <2>2. QED
    BY <1>2, <2>1, SeqCountAssumption DEF OneWriter
<1> DEFINE s == KeptFrames(n, inbox[n], t) \cup {inbox[n][t + 1]}
<1>6. ASSUME NEW j \in 0 .. Script[c][k].len - 1 PROVE FrameOf(c, k, j, b) \in s
  <2>1. CASE j = i
    BY <1>1, <1>4, <2>1
  <2>2. CASE j # i
    <3>1. j \in Nat /\ j < i
      BY <1>2, <2>2
    <3>2. PICK y \in Kept(n, inbox[n], t) : At(n, y, c, k, j)
      BY <1>1, <1>2, <3>1, AllCollected
    <3>3. QED
      BY <1>4, <3>2 DEF KeptFrames
  <2>3. QED
    BY <2>1, <2>2
<1>7. ASSUME NEW f \in s PROVE \E j \in 0 .. Script[c][k].len - 1 : f = FrameOf(c, k, j, b)
  <2>1. CASE f = inbox[n][t + 1]
    <3>1. i \in 0 .. Script[c][k].len - 1
      BY <1>2
    <3>2. QED
      BY <1>1, <1>4, <2>1, <3>1
  <2>2. CASE f \in KeptFrames(n, inbox[n], t)
    <3>1. PICK y \in Kept(n, inbox[n], t) : f = inbox[n][y]
      BY <2>2 DEF KeptFrames
    <3>2. PICK j \in Nat : j < i /\ At(n, y, c, k, j)
      BY <1>1, <1>2, OnlyCollected
    <3>3. j \in 0 .. Script[c][k].len - 1
      BY <1>2, <3>2
    <3>4. QED
      BY <1>4, <3>1, <3>2, <3>3
  <2>3. QED
    BY <2>1, <2>2
<1>8. s = {FrameOf(c, k, j, b) : j \in 0 .. Script[c][k].len - 1}
  <2> HIDE DEF s
  <2>1. QED
    BY <1>6, <1>7
<1>9. QED
  BY <1>2, <1>5, <1>8

\* What is in the bucket depends on the frames taken alone.
LEMMA KeptSame ==
    ASSUME NEW n, NEW t \in Nat, NEW box, NEW other, \A y \in 1 .. t : other[y] = box[y]
    PROVE  KeptFrames(n, other, t) = KeptFrames(n, box, t)
<1>1. ASSUME NEW y \in 1 .. t, NEW z \in y .. t PROVE other[z] = box[z]
  OBVIOUS
<1>2. Kept(n, other, t) = Kept(n, box, t)
  BY <1>1 DEF Kept
<1>3. \A y \in Kept(n, box, t) : other[y] = box[y]
  BY DEF Kept
<1>4. QED
  BY <1>2, <1>3 DEF KeptFrames

\* How it changes with the next frame.
LEMMA KeptNext ==
    ASSUME NEW n, NEW t \in Nat, NEW box, NEW f, f = box[t + 1]
    PROVE  /\ ~ForReader(n, f) => KeptFrames(n, box, t + 1) = KeptFrames(n, box, t)
           /\ ForReader(n, f) /\ ~f.eop =>
                KeptFrames(n, box, t + 1) = KeptFrames(n, box, t) \cup {f}
           /\ ForReader(n, f) /\ f.eop => KeptFrames(n, box, t + 1) = {}
<1>1. ASSUME NEW y \in 1 .. t PROVE y .. t + 1 = (y .. t) \cup {t + 1}
  OBVIOUS
<1>2. t + 1 .. t + 1 = {t + 1} /\ 1 .. t + 1 = (1 .. t) \cup {t + 1}
  OBVIOUS
<1>3. CASE ~ForReader(n, f)
  <2>1. \A y \in 1 .. t : y \in Kept(n, box, t + 1) <=> y \in Kept(n, box, t)
    BY <1>1, <1>2, <1>3 DEF Kept
  <2>2. Kept(n, box, t + 1) = Kept(n, box, t)
    BY <1>2, <1>3, <2>1 DEF Kept
  <2>3. QED
    BY <1>3, <2>2 DEF KeptFrames
<1>4. CASE ForReader(n, f) /\ ~f.eop
  <2>1. \A y \in 1 .. t : y \in Kept(n, box, t + 1) <=> y \in Kept(n, box, t)
    BY <1>1, <1>2, <1>4 DEF Kept
  <2>2. Kept(n, box, t + 1) = Kept(n, box, t) \cup {t + 1}
    BY <1>2, <1>4, <2>1 DEF Kept
  <2>3. QED
    BY <1>4, <2>2 DEF KeptFrames
<1>5. CASE ForReader(n, f) /\ f.eop
  <2>1. \A y \in 1 .. t + 1 : t + 1 \in y .. t + 1
    OBVIOUS
  <2>2. Kept(n, box, t + 1) = {}
    BY <1>5, <2>1 DEF Kept
  <2>3. QED
    BY <1>5, <2>2 DEF KeptFrames
<1>6. QED
  BY <1>3, <1>4, <1>5

\* A daemon that is gone stays so.
LEMMA AliveBefore ==
    ASSUME TypeOK, [Next]_vars, NEW n \in Station, Alive(n)'
    PROVE  Alive(n)
<1>0. phase \in [Station -> {"receive", "deliver", "tick", "stopped", "failed"}]
  BY DEF TypeOK, DaemonTypeOK
<1>1. ASSUME UNCHANGED phase PROVE Alive(n)
  BY <1>1 DEF Alive
<1>2. ASSUME NEW c \in Caller, CallerStep(c) PROVE UNCHANGED phase
  BY <1>2 DEF CallerStep, WriteNothing, Submit, Resume, GiveUpWaiting, daemonVars
<1>3. ASSUME NEW m \in Station, DaemonStep(m) \/ DropReader(m), phase' # phase
      PROVE  Alive(m) /\ \E p : phase' = [phase EXCEPT ![m] = p]
  BY <1>0, <1>3 DEF DaemonStep, ReceivePhase, ReceiveNothing, ReceiveRequest, ReceiveAnswer,
       Deliver, TimerPhase, KeepTimer, AckTimeout, Resend, LinkError, CooldownEnds, AcceptBusy,
       AcceptFree, Idle, End, OutputFails, DropReader, Enter, Alive
<1>4. ASSUME NEW m \in Station, DaemonStep(m) \/ DropReader(m) PROVE Alive(n)
  <2>1. CASE m = n /\ phase' # phase
    BY <1>3, <1>4, <2>1
  <2>2. CASE m # n /\ phase' # phase
    BY <1>0, <1>3, <1>4, <2>2 DEF Alive
  <2>3. QED
    BY <1>1, <2>1, <2>2
<1>5. QED
  BY <1>1, <1>2, <1>4 DEF Next, vars, daemonVars

\* No frame in the bucket has the number of the next one.
LEMMA BucketTakes ==
    ASSUME OneWriter, PassingInv, NumbersApart, NEW n \in Station, NEW t \in Nat,
           t + 1 \in 1 .. Len(inbox[n]), ForReader(n, inbox[n][t + 1])
    PROVE  OrInsert(KeptFrames(n, inbox[n], t), inbox[n][t + 1])
             = KeptFrames(n, inbox[n], t) \cup {inbox[n][t + 1]}
<1>1. ASSUME NEW y \in Kept(n, inbox[n], t) PROVE inbox[n][y].seq # inbox[n][t + 1].seq
  <2>1. y \in 1 .. t /\ ForReader(n, inbox[n][y])
    BY DEF Kept
  <2>2. Len(inbox[n]) \in Nat
    BY PassingFacts DEF TypeOK, DaemonTypeOK
  <2>3. y \in 1 .. Len(inbox[n]) /\ y < t + 1
    BY <2>1, <2>2
  <2>4. QED
    BY <2>1, <2>3, AtApart
<1>2. QED
  BY <1>1 DEF OrInsert, KeptFrames

\* What a step of the sockets leaves of the readers' state.
LEMMA SocketStepReads ==
    ASSUME TypeOK, ReaderInv, BucketInv, PacketIntact, [Next]_vars, UNCHANGED readerVars
    PROVE  BucketInv' /\ PacketIntact'
<1>1. \A n \in Station : Alive(n)' => Alive(n)
  BY AliveBefore
<1>2. UNCHANGED <<taken, bucket, packets>>
  BY DEF readerVars
<1>3. PacketIntact'
  BY <1>1, <1>2 DEF PacketIntact
<1>4. ASSUME NEW n \in Station, Alive(n)'
      PROVE  bucket'[n] = KeptFrames(n, inbox'[n], taken'[n])
  <2>1. taken[n] \in Nat /\ taken[n] <= Len(inbox[n]) /\ Len(inbox[n]) \in Nat
    BY DEF ReaderInv, ReaderTypeOK, TypeOK, DaemonTypeOK
  <2>2. \A y \in 1 .. Len(inbox[n]) : inbox'[n][y] = inbox[n][y]
    BY InboxGrows
  <2>3. \A y \in 1 .. taken[n] : inbox'[n][y] = inbox[n][y]
    BY <2>1, <2>2
  <2>4. KeptFrames(n, inbox'[n], taken[n]) = KeptFrames(n, inbox[n], taken[n])
    BY <2>1, <2>3, KeptSame
  <2>5. QED
    BY <1>1, <1>2, <1>4, <2>4 DEF BucketInv
<1>5. BucketInv'
  <2>1. ASSUME NEW n \in Station PROVE Alive(n)' => (bucket[n] = KeptFrames(n, inbox[n], taken[n]))'
    BY <1>4
  <2>2. QED
    BY <2>1 DEF BucketInv
<1>6. QED
  BY <1>3, <1>5

\* A step of a reader.
LEMMA TakeFrameReads ==
    ASSUME OneWriter, PassingInv, NumbersApart, GivesUp, ReaderInv, BucketInv, PacketIntact,
           NEW n \in Station, TakeFrame(n), UNCHANGED vars
    PROVE  BucketInv' /\ PacketIntact'
<1>0. /\ taken \in [Station -> Nat] /\ bucket \in [Station -> SUBSET Frames]
      /\ packets \in [Station -> Seq(Seq(Body))]
  BY DEF ReaderInv, ReaderTypeOK
<1>1. UNCHANGED inbox /\ \A m \in Station : Alive(m)' = Alive(m)
  BY DEF vars, daemonVars, Alive
<1> DEFINE t == taken[n]
           f == inbox[n][t + 1]
           K == KeptFrames(n, inbox[n], t)
           b == OrInsert(bucket[n], f)
<1>2. /\ reader[n] /\ t \in Nat /\ t + 1 \in 1 .. Len(inbox[n])
      /\ taken' = [taken EXCEPT ![n] = t + 1]
  <2>1. Len(inbox[n]) \in Nat /\ t < Len(inbox[n])
    BY PassingFacts DEF TakeFrame, TypeOK, DaemonTypeOK
  <2>2. QED
    BY <1>0, <2>1 DEF TakeFrame, Reading
<1>3. \/ ~ForReader(n, f) /\ UNCHANGED <<bucket, packets>>
      \/ ForReader(n, f) /\ ~f.eop /\ bucket' = [bucket EXCEPT ![n] = b] /\ UNCHANGED packets
      \/ /\ ForReader(n, f) /\ f.eop /\ bucket' = [bucket EXCEPT ![n] = {}]
         /\ packets' = [packets EXCEPT ![n] = Append(@, Assemble(b))]
  BY DEF TakeFrame
<1>4. /\ ~ForReader(n, f) => KeptFrames(n, inbox[n], t + 1) = K
      /\ ForReader(n, f) /\ ~f.eop => KeptFrames(n, inbox[n], t + 1) = K \cup {f}
      /\ ForReader(n, f) /\ f.eop => KeptFrames(n, inbox[n], t + 1) = {}
  BY <1>2, KeptNext
<1>5. Alive(n) => bucket[n] = K
  BY DEF BucketInv
<1>6. Alive(n) /\ ForReader(n, f) => b = K \cup {f}
  BY <1>2, <1>5, BucketTakes
<1>7. Alive(n) /\ ForReader(n, f) /\ f.eop =>
        \E c \in Caller : \E k \in Writes(c) : Assemble(b) = Packet(c, k)
  <2> SUFFICES ASSUME Alive(n), ForReader(n, f), f.eop
               PROVE  \E c \in Caller : \E k \in Writes(c) : Assemble(b) = Packet(c, k)
    OBVIOUS
  <2>0. PICK c \in Caller : \E k \in 1 .. Len(Script[c]) : \E a \in Nat :
           /\ IsWrite(c, k) /\ a + Script[c][k].len <= SeqCount
           /\ K \cup {f} = {FrameOf(c, k, j, a) : j \in 0 .. Script[c][k].len - 1}
    BY <1>2, Collected
  <2>1. PICK k \in 1 .. Len(Script[c]), a \in Nat :
           /\ IsWrite(c, k) /\ a + Script[c][k].len <= SeqCount
           /\ K \cup {f} = {FrameOf(c, k, j, a) : j \in 0 .. Script[c][k].len - 1}
    BY <2>0
  <2>2. b = {FrameOf(c, k, j, a) : j \in 0 .. Script[c][k].len - 1}
    BY <1>6, <2>1
  <2> HIDE DEF b
  <2>3. Assemble(b) = Packet(c, k)
    BY <2>1, <2>2, WholePacket
  <2>4. QED
    BY <2>1, <2>3 DEF Writes, IsWrite
<1>8. \A m \in Station \ {n} :
         taken'[m] = taken[m] /\ bucket'[m] = bucket[m] /\ packets'[m] = packets[m]
  BY <1>0, <1>2, <1>3
<1>9. Alive(n) => bucket'[n] = KeptFrames(n, inbox[n], taken'[n])
  <2>1. taken'[n] = t + 1
    BY <1>0, <1>2
  <2> HIDE DEF t, f, K, b
  <2>2. QED
    BY <1>0, <1>3, <1>4, <1>5, <1>6, <2>1
<1>10. BucketInv'
  <2>1. ASSUME NEW m \in Station, Alive(m)
        PROVE  bucket'[m] = KeptFrames(m, inbox[m], taken'[m])
    <3>1. CASE m = n
      BY <1>9, <2>1, <3>1
    <3>2. CASE m # n
      BY <1>8, <2>1, <3>2 DEF BucketInv
    <3>3. QED
      BY <3>1, <3>2
  <2>2. QED
    BY <1>1, <2>1 DEF BucketInv
<1>11. ASSUME NEW m \in Station, Alive(m), NEW i \in 1 .. Len(packets'[m])
       PROVE  \E c \in Caller : \E k \in Writes(c) : packets'[m][i] = Packet(c, k)
  <2>1. CASE packets'[m] = packets[m]
    BY <1>11, <2>1 DEF PacketIntact
  <2>2. CASE m = n /\ ForReader(n, f) /\ f.eop /\ packets' = [packets EXCEPT ![n] = Append(@, Assemble(b))]
    <3> DEFINE a == Assemble(b)
    <3>1. PICK c \in Caller : \E k \in Writes(c) : a = Packet(c, k)
      BY <1>7, <1>11, <2>2
    <3>2. packets'[n] = Append(packets[n], a) /\ packets[n] \in Seq(Seq(Body))
      BY <1>0, <2>2
    <3> HIDE DEF a
    <3>3. \/ i \in 1 .. Len(packets[n]) /\ packets'[n][i] = packets[n][i]
          \/ packets'[n][i] = a
      BY <1>11, <2>2, <3>2
    <3>4. QED
      BY <1>11, <2>2, <3>1, <3>3 DEF PacketIntact
  <2>3. QED
    BY <1>0, <1>3, <1>8, <2>1, <2>2
<1>12. PacketIntact'
  BY <1>1, <1>11 DEF PacketIntact
<1>13. QED
  BY <1>10, <1>12

LEMMA TakeNoneReads ==
    ASSUME ReaderInv, BucketInv, PacketIntact, NEW n \in Station, TakeNone(n), UNCHANGED vars
    PROVE  BucketInv' /\ PacketIntact'
<1>1. UNCHANGED <<inbox, taken>> /\ \A m \in Station : Alive(m)' = Alive(m)
  BY DEF vars, daemonVars, Alive, TakeNone
<1>2. ~Alive(n) /\ \A m \in Station \ {n} : bucket'[m] = bucket[m] /\ packets'[m] = packets[m]
  BY DEF TakeNone, ReaderInv, ReaderTypeOK
<1>3. QED
  BY <1>1, <1>2 DEF BucketInv, PacketIntact

LEMMA ReadsStep ==
    ASSUME OneWriter, PassingInv, NumbersApart, GivesUp, ReaderInv, BucketInv, PacketIntact,
           [ReaderNext]_<<vars, readerVars>>
    PROVE  BucketInv' /\ PacketIntact'
<1>1. TypeOK
  BY PassingFacts
<1>2. CASE [Next]_vars /\ UNCHANGED readerVars
  BY <1>1, <1>2, SocketStepReads
<1>3. ASSUME NEW n \in Station, ReaderStep(n), UNCHANGED vars PROVE BucketInv' /\ PacketIntact'
  BY <1>3, TakeFrameReads, TakeNoneReads DEF ReaderStep
<1>4. QED
  BY <1>2, <1>3 DEF ReaderNext

LEMMA PassingInit == Init => PassingInv
BY SocketInvInit, OrderInvInit, HeardInvInit, PacketInvInit DEF PassingInv

LEMMA PassingStep ==
    ASSUME OneSource, PassingInv, NumbersApart, [Next]_vars
    PROVE  PassingInv'
<1>1. SocketInv /\ OrderInv /\ HeardInv /\ SettledHeard /\ PacketInv /\ TypeOK
  BY DEF PassingInv, SocketInv
<1>2. QED
  BY <1>1, SocketInvStep, OrderInvStep, HeardInvStep, SettledHeardStep, PacketInvStep
     DEF PassingInv

LEMMA ReadsInit == ReaderInit => BucketInv /\ PacketIntact
<1> SUFFICES ASSUME ReaderInit PROVE BucketInv /\ PacketIntact
  OBVIOUS
<1>1. ASSUME NEW n \in Station PROVE bucket[n] = KeptFrames(n, inbox[n], taken[n])
  BY DEF ReaderInit, KeptFrames, Kept
<1>2. ASSUME NEW n \in Station PROVE Len(packets[n]) = 0
  BY DEF ReaderInit
<1>3. QED
  BY <1>1, <1>2 DEF BucketInv, PacketIntact

\* What a reader returns while its daemon runs is a packet some station wrote,
\* whole and in order, for any number of stations, scripts and bounds and any
\* loss of frames and acknowledgements: where what a station takes comes from
\* one station and what its reader keeps from one caller, as long as numbers
\* tell data frames apart and no caller writes on after a failed write.
THEOREM PacketsAreIntact ==
    ASSUME OneSource, OneWriter
    PROVE  ReaderSpec /\ [](NumbersApart /\ GivesUp) => []PacketIntact
<1> DEFINE Inv == PassingInv /\ ReaderInv /\ BucketInv /\ PacketIntact
<1>1. ReaderInit => Inv
  BY PassingInit, ReaderInvInit, ReadsInit DEF ReaderInit
<1>2. Inv /\ NumbersApart /\ GivesUp /\ [ReaderNext]_<<vars, readerVars>> => Inv'
  <2> SUFFICES ASSUME Inv, NumbersApart, GivesUp, [ReaderNext]_<<vars, readerVars>> PROVE Inv'
    OBVIOUS
  <2>1. [Next]_vars
    BY DEF ReaderNext
  <2>2. TypeOK /\ TypeOK'
    BY <2>1, PassingFacts, TypeStep
  <2>3. PassingInv'
    BY <2>1, PassingStep
  <2>4. ReaderInv'
    BY <2>2, ReaderInvStep
  <2>5. QED
    BY <2>3, <2>4, ReadsStep
<1>3. QED
  BY <1>1, <1>2, PTL DEF ReaderSpec
=============================================================================
