---------------------------- MODULE MessagesProofs ----------------------------
(***************************************************************************)
(* Proofs about what becomes of messages: the duplicate detector of a      *)
(* message chain, the propagation to neighbours, and publishing with the   *)
(* exchange of keys, for every value of their constants.                   *)
(***************************************************************************)
EXTENDS DuplicateMessageDetector, Propagation, Publishing, FiniteSetTheorems,
        SequenceTheorems, WellFoundedInduction, TLAPS

-----------------------------------------------------------------------------
(***************************************************************************)
(* Proofs about the duplicate detector, for every set of numbers and       *)
(* messages and every limit on the number of gaps.                         *)
(*                                                                         *)
(* The argument: an update replaces one interval by sub-intervals of it    *)
(* that leave the accepted number out, so the covered numbers only shrink; *)
(* a number is reported unseen only while some interval covers it.         *)
(***************************************************************************)
-----------------------------------------------------------------------------
(* The order on pairs.                                                     *)

Pair == Int \X Int

\* The order is a strict total order on pairs of integers.
LEMMA LessOrder ==
  /\ \A p \in Pair : ~Less(p, p)
  /\ \A p, q \in Pair : Less(p, q) \/ Less(q, p) \/ p = q
  /\ \A p, q, r \in Pair : Less(p, q) /\ Less(q, r) => Less(p, r)
<1>1. \A p \in Pair : ~Less(p, p)
  BY DEF Pair, Less
<1>2. \A p, q \in Pair : Less(p, q) \/ Less(q, p) \/ p = q
  BY DEF Pair, Less
<1>3. \A p, q, r \in Pair : Less(p, q) /\ Less(q, r) => Less(p, r)
  BY DEF Pair, Less
<1> QED
  BY <1>1, <1>2, <1>3

\* The bounds of the intervals are pairs, and every number is below Top.
LEMMA BoundFacts ==
  /\ Bound \subseteq Pair
  /\ Number \subseteq Bound
  /\ Top \in Bound
  /\ \A n \in Number : Less(n, Top)
BY NumberAssumption DEF Bound, Pair, Top, Less

\* What splicing does: its length, and where each element comes from.
LEMMA SpliceFacts ==
  ASSUME NEW S, NEW s \in Seq(S), NEW i \in 1 .. Len(s), NEW new \in Seq(S)
  PROVE  /\ Splice(s, i, new) \in Seq(S)
         /\ Len(Splice(s, i, new)) = Len(s) - 1 + Len(new)
         /\ \A k \in 1 .. Len(s) - 1 + Len(new) :
              Splice(s, i, new)[k] =
                IF k < i THEN s[k]
                ELSE IF k < i + Len(new) THEN new[k - i + 1]
                ELSE s[k - Len(new) + 1]
<1> DEFINE n == Len(s) - 1 + Len(new)
<1>1. n \in Nat /\ Len(s) \in Nat /\ Len(new) \in Nat /\ i \in Nat
  OBVIOUS
<1>2. \A k \in 1 .. n : (IF k < i THEN s[k]
                         ELSE IF k < i + Len(new) THEN new[k - i + 1]
                         ELSE s[k - Len(new) + 1]) \in S
  OBVIOUS
<1>3. Splice(s, i, new) \in [1 .. n -> S]
  BY <1>1, <1>2 DEF Splice
<1> QED
  BY <1>1, <1>3 DEF Splice

-----------------------------------------------------------------------------
(* The accepting branch of the search, in isolation.                       *)

\* No number has been accepted before the first interval is opened.
Fresh == gaps = << >> => \A n \in Number : accepted[n] = 0

\* The inductive invariant.
IInv ==
  /\ TypeOK
  /\ GapsWellFormed
  /\ AcceptedNotCovered
  /\ AcceptedAtMostOnce
  /\ Fresh

\* The intervals that replace g are non-empty, ordered parts of g that leave
\* the number of m out; the upper end of g survives unless m reaches it.
LEMMA RemainderFacts ==
  ASSUME NEW g \in Gap, NEW m \in Messages,
         m.prev # NoRef, Less(m.prev, m.number),
         LessEq(g.lower, m.prev), LessEq(m.number, g.upper)
  PROVE  /\ Remainder(g, m) \in Seq(Gap)
         /\ Len(Remainder(g, m)) <= 2
         /\ \A k \in 1 .. Len(Remainder(g, m)) :
              /\ LessEq(g.lower, Remainder(g, m)[k].lower)
              /\ Less(Remainder(g, m)[k].lower, Remainder(g, m)[k].upper)
              /\ LessEq(Remainder(g, m)[k].upper, g.upper)
              /\ ~Covers(Remainder(g, m)[k], m.number)
         /\ Len(Remainder(g, m)) > 1 =>
              LessEq(Remainder(g, m)[1].upper, Remainder(g, m)[2].lower)
         /\ g.upper = Top =>
              /\ Len(Remainder(g, m)) > 0
              /\ Remainder(g, m)[Len(Remainder(g, m))].upper = Top
<1> DEFINE low == [lower |-> g.lower, upper |-> m.prev]
           high == [lower |-> m.number, upper |-> g.upper]
<1>1. /\ m.prev \in Number /\ m.number \in Number
      /\ g.lower \in Pair /\ g.upper \in Pair
      /\ m.prev \in Pair /\ m.number \in Pair
  BY MessagesAssumption, BoundFacts DEF Gap
<1>2. low \in Gap /\ high \in Gap
  BY <1>1, BoundFacts DEF Gap
<1>3. m.prev # g.lower => Less(g.lower, m.prev)
  BY <1>1 DEF LessEq
<1>4. m.number # g.upper => Less(m.number, g.upper)
  BY <1>1 DEF LessEq
<1>5. g.upper = Top => m.number # g.upper
  BY <1>1, BoundFacts, LessOrder
<1>6. LessEq(m.prev, g.upper) /\ LessEq(g.lower, m.number) /\ LessEq(m.prev, m.number)
  BY <1>1, LessOrder DEF LessEq
<1>7. ~Covers(low, m.number) /\ ~Covers(high, m.number)
  BY <1>1, LessOrder DEF Covers, LessEq
<1>8. LessEq(g.lower, g.lower) /\ LessEq(g.upper, g.upper)
  BY DEF LessEq
<1>9. CASE m.prev = g.lower /\ m.number = g.upper
  BY <1>9, <1>5 DEF Remainder
<1>10. CASE m.prev = g.lower /\ m.number # g.upper
  <2>1. Remainder(g, m) = <<high>>
    BY <1>10 DEF Remainder
  <2> QED
    BY <2>1, <1>2, <1>4, <1>6, <1>7, <1>8, <1>10
<1>11. CASE m.prev # g.lower /\ m.number = g.upper
  <2>1. Remainder(g, m) = <<low>>
    BY <1>11 DEF Remainder
  <2> QED
    BY <2>1, <1>2, <1>3, <1>5, <1>6, <1>7, <1>8, <1>11
<1>12. CASE m.prev # g.lower /\ m.number # g.upper
  <2>1. Remainder(g, m) = <<low, high>>
    BY <1>12 DEF Remainder
  <2> QED
    BY <2>1, <1>2, <1>3, <1>4, <1>6, <1>7, <1>8, <1>12
<1> QED
  BY <1>9, <1>10, <1>11, <1>12

\* A number covered by an interval has not been accepted.
LEMMA CoveredIsFresh ==
  ASSUME IInv, NEW n \in Number, NEW i \in 1 .. Len(gaps), Covers(gaps[i], n)
  PROVE  accepted[n] = 0
BY DEF IInv, TypeOK, AcceptedNotCovered, AcceptedAtMostOnce

\* What the documented shape of the intervals says of a sequence of them.
Shape(s) ==
  /\ s \in Seq(Gap) /\ Len(s) > 0
  /\ \A i \in 1 .. Len(s) : Less(s[i].lower, s[i].upper)
  /\ \A i, j \in 1 .. Len(s) : i < j => LessEq(s[i].upper, s[j].lower)
  /\ s[Len(s)].upper = Top

\* Splicing ordered parts of the i-th interval into a well-shaped sequence
\* keeps the shape, and every new interval lies within an old one.
LEMMA SpliceShape ==
  ASSUME NEW s, Shape(s), NEW i \in 1 .. Len(s), NEW n \in Bound,
         Covers(s[i], n),
         NEW parts \in Seq(Gap), Len(parts) <= 2,
         \A k \in 1 .. Len(parts) :
           /\ LessEq(s[i].lower, parts[k].lower)
           /\ Less(parts[k].lower, parts[k].upper)
           /\ LessEq(parts[k].upper, s[i].upper)
           /\ ~Covers(parts[k], n),
         Len(parts) > 1 => LessEq(parts[1].upper, parts[2].lower),
         s[i].upper = Top => Len(parts) > 0 /\ parts[Len(parts)].upper = Top
  PROVE  LET rest == Splice(s, i, parts)
         IN  /\ Shape(rest) /\ Len(rest) <= Len(s) + 1
             /\ \A k \in 1 .. Len(rest) : ~Covers(rest[k], n)
             /\ \A k \in 1 .. Len(rest) : \E j \in 1 .. Len(s) :
                  /\ LessEq(s[j].lower, rest[k].lower)
                  /\ LessEq(rest[k].upper, s[j].upper)
<1> DEFINE rest == Splice(s, i, parts)
<1>1. s \in Seq(Gap) /\ Len(s) \in Nat /\ Len(parts) \in Nat /\ i \in Nat
  BY DEF Shape
<1>2. /\ rest \in Seq(Gap)
      /\ Len(rest) = Len(s) - 1 + Len(parts)
      /\ \A k \in 1 .. Len(s) - 1 + Len(parts) :
           rest[k] = IF k < i THEN s[k]
                     ELSE IF k < i + Len(parts) THEN parts[k - i + 1]
                     ELSE s[k - Len(parts) + 1]
  BY <1>1, SpliceFacts
<1> HIDE DEF rest
<1>3. /\ \A j \in 1 .. Len(s) : s[j].lower \in Pair /\ s[j].upper \in Pair
      /\ \A k \in 1 .. Len(parts) : parts[k].lower \in Pair /\ parts[k].upper \in Pair
      /\ n \in Pair
  <2>1. \A h \in Gap : h.lower \in Pair /\ h.upper \in Pair
    BY BoundFacts DEF Gap
  <2> QED
    BY <2>1, <1>1, BoundFacts
<1>4. /\ \A j \in 1 .. Len(s) : Less(s[j].lower, s[j].upper)
      /\ \A j, k \in 1 .. Len(s) : j < k => LessEq(s[j].upper, s[k].lower)
      /\ s[Len(s)].upper = Top
  BY DEF Shape
\* The interval of s that the k-th new one comes from.
<1> DEFINE origin(k) == IF k < i THEN k
                        ELSE IF k < i + Len(parts) THEN i
                        ELSE k - Len(parts) + 1
<1>5. ASSUME NEW k \in 1 .. Len(rest)
      PROVE  \/ k < i /\ rest[k] = s[k] /\ k \in 1 .. Len(s)
             \/ /\ k >= i /\ k < i + Len(parts)
                /\ rest[k] = parts[k - i + 1] /\ k - i + 1 \in 1 .. Len(parts)
             \/ /\ k >= i + Len(parts) /\ rest[k] = s[k - Len(parts) + 1]
                /\ i < k - Len(parts) + 1 /\ k - Len(parts) + 1 \in 1 .. Len(s)
  <2>1. k \in Nat /\ k >= 1 /\ k <= Len(s) - 1 + Len(parts)
    BY <1>1, <1>2
  <2>2. rest[k] = IF k < i THEN s[k]
                  ELSE IF k < i + Len(parts) THEN parts[k - i + 1]
                  ELSE s[k - Len(parts) + 1]
    BY <1>1, <1>2, <2>1
  <2>3. CASE k < i
    BY <2>1, <2>2, <2>3, <1>1
  <2>4. CASE k >= i /\ k < i + Len(parts)
    <3>1. ~(k < i)
      BY <2>1, <2>4, <1>1
    <3>2. k - i + 1 \in 1 .. Len(parts)
      BY <2>1, <2>4, <1>1
    <3> QED
      BY <2>2, <2>4, <3>1, <3>2
  <2>5. CASE k >= i + Len(parts)
    <3>1. ~(k < i) /\ ~(k < i + Len(parts))
      BY <2>1, <2>5, <1>1
    <3>2. i < k - Len(parts) + 1 /\ k - Len(parts) + 1 \in 1 .. Len(s)
      BY <2>1, <2>5, <1>1
    <3> QED
      BY <2>2, <2>5, <3>1, <3>2
  <2> QED
    BY <2>1, <2>3, <2>4, <2>5, <1>1
<1>6. ASSUME NEW k \in 1 .. Len(rest)
      PROVE  /\ origin(k) \in 1 .. Len(s)
             /\ LessEq(s[origin(k)].lower, rest[k].lower)
             /\ LessEq(rest[k].upper, s[origin(k)].upper)
             /\ Less(rest[k].lower, rest[k].upper)
             /\ rest[k].lower \in Pair /\ rest[k].upper \in Pair
  <2>1. CASE k < i
    BY <2>1, <1>5, <1>1, <1>3, <1>4 DEF LessEq
  <2>2. CASE k >= i /\ k < i + Len(parts)
    <3>1. origin(k) = i
      BY <2>2
    <3>2. PICK h \in 1 .. Len(parts) : rest[k] = parts[h]
      BY <2>2, <1>5, <1>1
    <3> HIDE DEF origin
    <3> QED
      BY <3>1, <3>2, <1>1, <1>3
  <2>3. CASE k >= i + Len(parts)
    <3>1. /\ origin(k) = k - Len(parts) + 1 /\ rest[k] = s[origin(k)]
          /\ origin(k) \in 1 .. Len(s)
      <4>1. k \in Nat /\ ~(k < i) /\ ~(k < i + Len(parts))
        BY <2>3, <1>1, <1>2
      <4>2. rest[k] = s[k - Len(parts) + 1] /\ k - Len(parts) + 1 \in 1 .. Len(s)
        BY <4>1, <1>5
      <4> QED
        BY <4>1, <4>2
    <3> HIDE DEF origin
    <3> QED
      BY <3>1, <1>3, <1>4 DEF LessEq
  <2>4. k \in Nat
    BY <1>1, <1>2
  <2> QED
    BY <2>1, <2>2, <2>3, <2>4, <1>1
<1>7. ASSUME NEW j \in 1 .. Len(rest), NEW k \in 1 .. Len(rest), j < k
      PROVE  LessEq(rest[j].upper, rest[k].lower)
  <2>1. j \in Nat /\ k \in Nat
    BY <1>1, <1>2
  <2>2. CASE origin(j) < origin(k)
    <3> HIDE DEF origin
    <3>1. LessEq(s[origin(j)].upper, s[origin(k)].lower)
      BY <2>2, <1>4, <1>6
    <3>2. /\ LessEq(rest[j].upper, s[origin(j)].upper)
          /\ LessEq(s[origin(k)].lower, rest[k].lower)
          /\ rest[j].upper \in Pair /\ rest[k].lower \in Pair
          /\ s[origin(j)].upper \in Pair /\ s[origin(k)].lower \in Pair
      BY <1>3, <1>6
    <3> QED
      BY <3>1, <3>2, LessOrder DEF LessEq
  <2>3. CASE ~(origin(j) < origin(k))
    <3>1. j = i /\ k = i + 1 /\ Len(parts) > 1
      <4>1. \A h \in Nat :
              /\ h < i => origin(h) = h
              /\ h >= i /\ h < i + Len(parts) => origin(h) = i
              /\ h >= i + Len(parts) => origin(h) = h - Len(parts) + 1
        BY <1>1
      <4>2. origin(j) \in Nat /\ origin(k) \in Nat
        BY <1>6
      <4> HIDE DEF origin
      <4>3. ~(j < i)
        BY <4>1, <4>2, <2>1, <2>3, <1>1, <1>7
      <4>4. ~(k >= i + Len(parts))
        <5> SUFFICES ASSUME k >= i + Len(parts) PROVE FALSE
          OBVIOUS
        <5>1. origin(k) = k - Len(parts) + 1
          BY <4>1, <2>1
        <5>2. CASE j < i + Len(parts)
          BY <5>1, <5>2, <4>1, <4>3, <2>1, <2>3, <1>1
        <5>3. CASE j >= i + Len(parts)
          BY <5>1, <5>3, <4>1, <2>1, <2>3, <1>1, <1>7
        <5> QED
          BY <5>2, <5>3, <2>1, <1>1
      <4>5. Len(parts) <= 2 /\ j < k /\ j >= i /\ k < i + Len(parts)
        BY <4>3, <4>4, <2>1, <1>1, <1>7
      <4>6. j = i /\ k = i + 1
        BY <4>5, <2>1, <1>1
      <4> QED
        BY <4>5, <4>6, <1>1
    <3>2. rest[j] = parts[1] /\ rest[k] = parts[2]
      BY <3>1, <1>1, <1>2
    <3> QED
      BY <3>1, <3>2
  <2> QED
    BY <2>2, <2>3
<1>8. Len(rest) > 0 /\ rest[Len(rest)].upper = Top
  <2>1. CASE i < Len(s)
    <3>1. Len(rest) > 0 /\ Len(rest) >= i + Len(parts) /\ Len(rest) \in Nat
      BY <2>1, <1>1, <1>2
    <3>2. Len(rest) - Len(parts) + 1 = Len(s)
      BY <1>1, <1>2
    <3>3. ~(Len(rest) < i) /\ ~(Len(rest) < i + Len(parts))
      BY <3>1, <1>1
    <3>4. Len(rest) \in 1 .. Len(s) - 1 + Len(parts)
      BY <3>1, <1>1, <1>2
    <3>5. rest[Len(rest)] = s[Len(s)]
      BY <3>2, <3>3, <3>4, <1>2
    <3> QED
      BY <3>1, <3>5, <1>4
  <2>2. CASE i = Len(s)
    <3>1. Len(parts) > 0 /\ parts[Len(parts)].upper = Top
      BY <2>2, <1>4
    <3>2. Len(rest) > 0 /\ rest[Len(rest)] = parts[Len(parts)]
      BY <2>2, <3>1, <1>1, <1>2
    <3> QED
      BY <3>1, <3>2
  <2> QED
    BY <2>1, <2>2, <1>1
<1>9. ASSUME NEW k \in 1 .. Len(rest)
      PROVE  ~Covers(rest[k], n)
  <2>1. Less(s[i].lower, n) /\ LessEq(n, s[i].upper)
    BY DEF Covers
  <2>2. CASE k < i
    <3>1. rest[k] = s[k] /\ k \in 1 .. Len(s) /\ LessEq(s[k].upper, s[i].lower)
      BY <2>2, <1>1, <1>4, <1>5
    <3> QED
      BY <3>1, <2>1, <1>3, LessOrder DEF Covers, LessEq
  <2>3. CASE k >= i /\ k < i + Len(parts)
    <3>1. k \in Nat /\ ~(k < i) /\ ~(k >= i + Len(parts))
      BY <2>3, <1>1, <1>2
    <3>2. PICK h \in 1 .. Len(parts) : rest[k] = parts[h]
      BY <3>1, <1>5
    <3>3. ~Covers(parts[h], n)
      OBVIOUS
    <3> QED
      BY <3>2, <3>3
  <2>4. CASE k >= i + Len(parts)
    <3>1. PICK j \in 1 .. Len(s) : rest[k] = s[j] /\ i < j
      BY <2>4, <1>5, <1>1
    <3>2. LessEq(s[i].upper, s[j].lower)
      BY <3>1, <1>4
    <3> QED
      BY <3>1, <3>2, <2>1, <1>3, LessOrder DEF Covers, LessEq
  <2>5. k \in Nat
    BY <1>1, <1>2
  <2> QED
    BY <2>2, <2>3, <2>4, <2>5, <1>1
<1>10. Len(rest) <= Len(s) + 1
  BY <1>1, <1>2
<1>11. Shape(rest)
  BY <1>2, <1>6, <1>7, <1>8 DEF Shape
<1>12. ASSUME NEW k \in 1 .. Len(rest)
       PROVE  \E j \in 1 .. Len(s) :
                /\ LessEq(s[j].lower, rest[k].lower)
                /\ LessEq(rest[k].upper, s[j].upper)
  BY <1>6
<1> QED
  BY <1>9, <1>10, <1>11, <1>12 DEF rest

-----------------------------------------------------------------------------
(* The detector keeps its invariant.                                       *)

\* The detector starts with no interval and nothing accepted.
THEOREM InitInv == Init => IInv
<1> SUFFICES ASSUME Init PROVE IInv
  OBVIOUS
<1>1. gaps = << >> /\ \A n \in Number : accepted[n] = 0
  BY DEF Init
<1>2. TypeOK
  <2>1. gaps \in Seq(Gap)
    BY <1>1
  <2>2. accepted \in [Number -> 0 .. 2]
    BY DEF Init
  <2> QED
    BY <2>1, <2>2 DEF Init, TypeOK
<1>3. GapsWellFormed
  BY <1>1, MaxGapsAssumption DEF GapsWellFormed
<1>4. AcceptedNotCovered /\ AcceptedAtMostOnce /\ Fresh
  BY <1>1 DEF AcceptedNotCovered, AcceptedAtMostOnce, Fresh
<1> QED
  BY <1>2, <1>3, <1>4 DEF IInv

\* The effect of accepting number n when the intervals become s: s has the
\* documented shape, leaves n out and covers only what was covered.
LEMMA AcceptStep ==
  ASSUME IInv, NEW n \in Number, accepted[n] = 0, ReportUnseen(n),
         gaps' \in Seq(Gap), Len(gaps') <= MaxGaps, Shape(gaps'),
         forgotten' \in BOOLEAN, UNCHANGED forkless,
         \A k \in 1 .. Len(gaps') : ~Covers(gaps'[k], n),
         \A k \in 1 .. Len(gaps') : \A q \in Number \ {n} :
           Covers(gaps'[k], q) => accepted[q] = 0
  PROVE  IInv'
<1>1. TypeOK'
  BY DEF IInv, TypeOK, ReportUnseen
<1>2. GapsWellFormed'
  BY DEF GapsWellFormed, Shape
<1>3. \A q \in Number : accepted'[q] = IF q = n THEN 1 ELSE accepted[q]
  BY DEF IInv, TypeOK, ReportUnseen
<1>4. AcceptedNotCovered'
  BY <1>3 DEF AcceptedNotCovered
<1>5. AcceptedAtMostOnce'
  BY <1>3 DEF IInv, AcceptedAtMostOnce
<1>6. Fresh'
  BY DEF Fresh, Shape
<1> QED
  BY <1>1, <1>2, <1>4, <1>5, <1>6 DEF IInv

\* Opening the first interval.
LEMMA FirstStep ==
  ASSUME IInv, NEW m \in Messages, First(m), UNCHANGED forkless
  PROVE  IInv'
<1> DEFINE g == [lower |-> m.number, upper |-> Top]
<1>1. m.number \in Number /\ g \in Gap
  BY MessagesAssumption, BoundFacts DEF Gap
<1>2. gaps' = <<g>> /\ forgotten' = forgotten /\ ReportUnseen(m.number)
  BY DEF First
<1>3. accepted[m.number] = 0 /\ \A q \in Number : accepted[q] = 0
  BY <1>1 DEF First, IInv, Fresh
<1>4. Less(g.lower, g.upper) /\ ~Covers(g, m.number)
  BY <1>1, BoundFacts, LessOrder DEF Covers
<1>5. Len(gaps') = 1 /\ gaps'[1] = g /\ gaps' \in Seq(Gap)
  BY <1>1, <1>2
<1> HIDE DEF g
<1>6. Shape(gaps')
  BY <1>4, <1>5 DEF Shape, g
<1>7. Len(gaps') <= MaxGaps /\ forgotten' \in BOOLEAN
  BY <1>2, <1>5, MaxGapsAssumption DEF IInv, TypeOK
<1> QED
  BY <1>1, <1>2, <1>3, <1>4, <1>5, <1>6, <1>7, AcceptStep

\* A message without a reference, above the latest number.
LEMMA WithoutRefStep ==
  ASSUME IInv, NEW m \in Messages, WithoutRef(m), UNCHANGED forkless
  PROVE  IInv'
<1> DEFINE last == gaps[Len(gaps)]
           g == [last EXCEPT !.lower = m.number]
<1>1. /\ gaps \in Seq(Gap) /\ Len(gaps) \in Nat \ {0} /\ last \in Gap
      /\ m.number \in Number
      /\ \A i \in 1 .. Len(gaps) : gaps[i].lower \in Pair /\ gaps[i].upper \in Pair
  <2>1. \A h \in Gap : h.lower \in Pair /\ h.upper \in Pair
    BY BoundFacts DEF Gap
  <2>2. gaps \in Seq(Gap) /\ Len(gaps) \in Nat \ {0}
    BY DEF WithoutRef, IInv, TypeOK
  <2> QED
    BY <2>1, <2>2, MessagesAssumption
<1>2. CASE Less(last.lower, m.number)
  <2>1. /\ gaps' = [gaps EXCEPT ![Len(gaps)].lower = m.number]
        /\ ReportUnseen(m.number) /\ forgotten'
    BY <1>2 DEF WithoutRef
  <2>2. /\ gaps' \in Seq(Gap) /\ Len(gaps') = Len(gaps)
        /\ \A i \in 1 .. Len(gaps) : gaps'[i] = IF i = Len(gaps) THEN g ELSE gaps[i]
    BY <1>1, <2>1, BoundFacts DEF Gap
  <2>3. g.lower = m.number /\ g.upper = Top /\ last.upper = Top
    BY <1>1 DEF Gap, IInv, GapsWellFormed
  <2>4. m.number \in Pair /\ Top \in Pair /\ Less(m.number, Top)
    BY <1>1, BoundFacts
  <2>5. accepted[m.number] = 0
    BY <1>1, <1>2, <2>3, <2>4, CoveredIsFresh DEF Covers, LessEq
  <2> HIDE DEF g, last
  <2>6. \A i \in 1 .. Len(gaps) : Less(gaps'[i].lower, gaps'[i].upper)
    BY <2>2, <2>3, <2>4 DEF IInv, GapsWellFormed
  <2>7. ASSUME NEW i \in 1 .. Len(gaps), NEW j \in 1 .. Len(gaps), i < j
        PROVE  LessEq(gaps'[i].upper, gaps'[j].lower)
    <3>1. i # Len(gaps) /\ gaps'[i] = gaps[i] /\ LessEq(gaps[i].upper, gaps[j].lower)
      BY <1>1, <2>2, <2>7 DEF IInv, GapsWellFormed
    <3>2. CASE j = Len(gaps)
      <4>1. LessEq(gaps[i].upper, last.lower) /\ gaps'[j].lower = m.number
        BY <3>1, <3>2, <2>2, <2>3 DEF last
      <4>2. last.lower \in Pair /\ gaps[i].upper \in Pair
        BY <1>1 DEF last
      <4> QED
        BY <4>1, <4>2, <3>1, <1>2, <2>4, LessOrder DEF LessEq
    <3>3. CASE j # Len(gaps)
      BY <3>1, <3>3, <2>2
    <3> QED
      BY <3>2, <3>3
  <2>8. Shape(gaps')
    BY <1>1, <2>2, <2>3, <2>6, <2>7 DEF Shape
  <2>9. ASSUME NEW k \in 1 .. Len(gaps'), NEW q \in Bound, Covers(gaps'[k], q)
        PROVE  q # m.number /\ Covers(gaps[k], q)
    <3>1. q \in Pair /\ k \in 1 .. Len(gaps)
      BY <2>2, BoundFacts
    <3>2. CASE k = Len(gaps)
      <4>1. gaps'[k] = g /\ gaps[k] = last
        BY <3>1, <3>2, <2>2 DEF last
      <4> QED
        BY <4>1, <3>1, <1>1, <1>2, <2>3, <2>4, <2>9, LessOrder DEF Covers, LessEq
    <3>3. CASE k # Len(gaps)
      <4>1. gaps'[k] = gaps[k] /\ k < Len(gaps)
        BY <3>1, <3>3, <1>1, <2>2
      <4>2. LessEq(gaps[k].upper, last.lower)
        BY <4>1, <3>1, <1>1 DEF last, IInv, GapsWellFormed
      <4>3. last.lower \in Pair /\ gaps[k].upper \in Pair
        BY <3>1, <1>1 DEF last
      <4> QED
        BY <4>1, <4>2, <4>3, <3>1, <1>2, <2>4, <2>9, LessOrder DEF Covers, LessEq
    <3> QED
      BY <3>2, <3>3
  <2>10. \A k \in 1 .. Len(gaps') : ~Covers(gaps'[k], m.number)
    BY <2>9, <1>1, BoundFacts
  <2>11. \A k \in 1 .. Len(gaps') : \A q \in Number \ {m.number} :
           Covers(gaps'[k], q) => accepted[q] = 0
    BY <2>2, <2>9, BoundFacts, CoveredIsFresh
  <2>12. Len(gaps') <= MaxGaps /\ forgotten' \in BOOLEAN
    BY <2>1, <2>2 DEF IInv, GapsWellFormed, WithoutRef
  <2> QED
    BY <1>1, <2>1, <2>2, <2>5, <2>8, <2>10, <2>11, <2>12, AcceptStep
<1>3. CASE ~Less(last.lower, m.number)
  BY <1>3 DEF WithoutRef, Report, IInv, TypeOK, GapsWellFormed, AcceptedNotCovered,
     AcceptedAtMostOnce, Fresh
<1> QED
  BY <1>2, <1>3

\* Reporting anything but "unseen" keeps everything but the result.
LEMMA ReportStep ==
  ASSUME IInv, NEW verdict \in {"duplicate", "invalid", "mismatch"}, Report(verdict),
         UNCHANGED forkless
  PROVE  IInv'
BY DEF Report, IInv, TypeOK, GapsWellFormed, AcceptedNotCovered, AcceptedAtMostOnce, Fresh

\* A message with a reference that falls into an interval.
LEMMA SearchStep ==
  ASSUME IInv, NEW m \in Messages, m.prev # NoRef, ~InvalidNumbering(m), gaps # << >>,
         NEW i \in 1 .. Len(gaps), SearchAt(i, m), UNCHANGED forkless
  PROVE  IInv'
<1> DEFINE g == gaps[i]
           rem == Remainder(g, m)
           rest == Splice(gaps, i, rem)
<1>1. /\ m.prev \in Number /\ m.number \in Number /\ m.number \in Bound
      /\ m.prev \in Pair /\ m.number \in Pair
  BY MessagesAssumption, BoundFacts
<1>2. Less(m.prev, m.number)
  BY <1>1, LessOrder DEF InvalidNumbering, LessEq
<1>3. gaps \in Seq(Gap) /\ g \in Gap /\ Shape(gaps)
  BY DEF IInv, TypeOK, GapsWellFormed, Shape
<1>4. CASE Report("duplicate") \/ Report("mismatch")
  BY <1>4, ReportStep
<1>5. CASE /\ LessEq(g.lower, m.prev) /\ LessEq(m.number, g.upper)
           /\ gaps' = DropLowestGap(rest)
           /\ ReportUnseen(m.number)
           /\ forgotten' = (forgotten \/ Len(rest) > MaxGaps)
  <2>1. /\ rem \in Seq(Gap) /\ Len(rem) <= 2
        /\ \A k \in 1 .. Len(rem) :
             /\ LessEq(g.lower, rem[k].lower)
             /\ Less(rem[k].lower, rem[k].upper)
             /\ LessEq(rem[k].upper, g.upper)
             /\ ~Covers(rem[k], m.number)
        /\ Len(rem) > 1 => LessEq(rem[1].upper, rem[2].lower)
        /\ g.upper = Top => Len(rem) > 0 /\ rem[Len(rem)].upper = Top
    BY <1>2, <1>3, <1>5, RemainderFacts
  <2>2. Covers(g, m.number)
    <3>1. g.lower \in Pair
      BY <1>3, BoundFacts DEF Gap
    <3> QED
      BY <3>1, <1>1, <1>2, <1>5, LessOrder DEF Covers, LessEq
  <2> HIDE DEF rem
  <2>3. /\ Shape(rest) /\ Len(rest) <= Len(gaps) + 1
        /\ \A k \in 1 .. Len(rest) : ~Covers(rest[k], m.number)
        /\ \A k \in 1 .. Len(rest) : \E j \in 1 .. Len(gaps) :
             /\ LessEq(gaps[j].lower, rest[k].lower)
             /\ LessEq(rest[k].upper, gaps[j].upper)
    BY <1>1, <1>3, <2>1, <2>2, SpliceShape
  <2> HIDE DEF rest
  <2>4. ASSUME NEW k \in 1 .. Len(rest), NEW q \in Number, Covers(rest[k], q)
        PROVE  accepted[q] = 0
    <3>1. PICK j \in 1 .. Len(gaps) : /\ LessEq(gaps[j].lower, rest[k].lower)
                                      /\ LessEq(rest[k].upper, gaps[j].upper)
      BY <2>3
    <3>2. rest[k] \in Gap /\ gaps[j] \in Gap
      BY <1>3, <2>3 DEF Shape
    <3>3. /\ q \in Pair /\ rest[k].lower \in Pair /\ rest[k].upper \in Pair
          /\ gaps[j].lower \in Pair /\ gaps[j].upper \in Pair
      BY <3>2, BoundFacts DEF Gap
    <3>4. Covers(gaps[j], q)
      BY <3>1, <3>3, <2>4, LessOrder DEF Covers, LessEq
    <3> QED
      BY <3>4, CoveredIsFresh
  <2>5. \E h \in {0, 1} :
           /\ Shape(gaps') /\ Len(gaps') <= MaxGaps
           /\ \A k \in 1 .. Len(gaps') : k + h \in 1 .. Len(rest) /\ gaps'[k] = rest[k + h]
    <3>1. Len(gaps) <= MaxGaps /\ Len(gaps) \in Nat /\ Len(rest) \in Nat /\ MaxGaps \in Nat
      BY <1>3, <2>3, MaxGapsAssumption DEF Shape, IInv, GapsWellFormed
    <3>2. CASE Len(rest) <= MaxGaps
      <4>1. gaps' = rest
        BY <3>1, <3>2, <1>5 DEF DropLowestGap
      <4>2. \A k \in 1 .. Len(gaps') : k + 0 \in 1 .. Len(rest) /\ gaps'[k] = rest[k + 0]
        BY <4>1, <3>1
      <4> QED
        BY <4>1, <4>2, <2>3, <3>2
    <3>3. CASE Len(rest) > MaxGaps
      <4>1. gaps' = Tail(rest) /\ Len(rest) > 1 /\ Len(rest) <= MaxGaps + 1
        BY <3>1, <3>3, <1>5, <2>3, MaxGapsAssumption DEF DropLowestGap
      <4>2. rest \in Seq(Gap)
        BY <2>3 DEF Shape
      <4>3. /\ gaps' \in Seq(Gap) /\ Len(gaps') = Len(rest) - 1
            /\ \A k \in 1 .. Len(gaps') : k + 1 \in 1 .. Len(rest) /\ gaps'[k] = rest[k + 1]
        BY <4>1, <4>2
      <4>4. Shape(gaps')
        <5>1. Len(gaps') > 0
          BY <4>1, <4>3, <3>1
        <5>2. gaps'[Len(gaps')].upper = Top
          BY <4>3, <5>1, <2>3, <3>1 DEF Shape
        <5>3. \A k \in 1 .. Len(gaps') : Less(gaps'[k].lower, gaps'[k].upper)
          BY <4>3, <2>3 DEF Shape
        <5>4. ASSUME NEW j \in 1 .. Len(gaps'), NEW k \in 1 .. Len(gaps'), j < k
              PROVE  LessEq(gaps'[j].upper, gaps'[k].lower)
          <6>1. j + 1 < k + 1
            BY <5>4, <4>3, <3>1
          <6>2. /\ j + 1 \in 1 .. Len(rest) /\ gaps'[j] = rest[j + 1]
                /\ k + 1 \in 1 .. Len(rest) /\ gaps'[k] = rest[k + 1]
            BY <4>3
          <6> QED
            BY <6>1, <6>2, <2>3 DEF Shape
        <5> QED
          BY <4>3, <5>1, <5>2, <5>3, <5>4 DEF Shape
      <4>5. Len(gaps') <= MaxGaps
        BY <4>1, <4>3, <3>1
      <4> QED
        BY <4>3, <4>4, <4>5
    <3> QED
      BY <3>1, <3>2, <3>3
  <2>6. \A k \in 1 .. Len(gaps') : ~Covers(gaps'[k], m.number)
    BY <2>3, <2>5
  <2>7. \A k \in 1 .. Len(gaps') : \A q \in Number \ {m.number} :
          Covers(gaps'[k], q) => accepted[q] = 0
    BY <2>4, <2>5
  <2>8. accepted[m.number] = 0
    BY <1>1, <2>2, CoveredIsFresh
  <2>9. gaps' \in Seq(Gap) /\ Shape(gaps') /\ Len(gaps') <= MaxGaps
    BY <2>5 DEF Shape
  <2>10. forgotten' \in BOOLEAN
    BY <1>5 DEF IInv, TypeOK
  <2> QED
    BY <1>1, <1>5, <2>6, <2>7, <2>8, <2>9, <2>10, AcceptStep
<1> QED
  BY <1>4, <1>5 DEF SearchAt

\* Every branch of markAndCheck keeps the inductive invariant.
THEOREM NextInv == IInv /\ [Next]_vars => IInv'
<1> SUFFICES ASSUME IInv, [Next]_vars PROVE IInv'
  OBVIOUS
<1>1. ASSUME NEW m \in Messages, RejectInvalid(m), UNCHANGED forkless PROVE IInv'
  BY <1>1, ReportStep DEF RejectInvalid
<1>2. ASSUME NEW m \in Messages, First(m), UNCHANGED forkless PROVE IInv'
  BY <1>2, FirstStep
<1>3. ASSUME NEW m \in Messages, WithoutRef(m), UNCHANGED forkless PROVE IInv'
  BY <1>3, WithoutRefStep
<1>4. ASSUME NEW m \in Messages, WithRef(m), UNCHANGED forkless PROVE IInv'
  <2>1. CASE SearchExhausted(m)
    BY <2>1, <1>4, ReportStep DEF SearchExhausted
  <2>2. CASE \E i \in 1 .. Len(gaps) : SearchAt(i, m)
    BY <2>2, <1>4, SearchStep DEF WithRef
  <2> QED
    BY <2>1, <2>2, <1>4 DEF WithRef
<1>5. CASE UNCHANGED vars
  BY <1>5 DEF vars, IInv, TypeOK, GapsWellFormed, AcceptedNotCovered, AcceptedAtMostOnce, Fresh
<1> QED
  BY <1>1, <1>2, <1>3, <1>4, <1>5 DEF Next, Deliverable, MarkAndCheck

\* The state is always well-typed.
THEOREM TypeCorrect == Spec => []TypeOK
<1>1. IInv => TypeOK
  BY DEF IInv
<1> QED
  BY <1>1, InitInv, NextInv, PTL DEF Spec

\* After every update the intervals have the shape the code's comment states
\* and respect the limit on their number.
THEOREM WellFormedGaps == Spec => []GapsWellFormed
<1>1. IInv => GapsWellFormed
  BY DEF IInv
<1> QED
  BY <1>1, InitInv, NextInv, PTL DEF Spec

\* markAndCheck reports no message number unseen twice, whatever is delivered
\* in whatever order and whatever the limit on the number of gaps.
THEOREM AtMostOnce == Spec => []AcceptedAtMostOnce
<1>1. IInv => AcceptedAtMostOnce
  BY DEF IInv
<1> QED
  BY <1>1, InitInv, NextInv, PTL DEF Spec
\* Whatever references a node receives, the class comment's invariants hold and no
\* number is reported unseen twice.
THEOREM DetectorIsSafe == Spec => []DetectorInv
<1>1. IInv => DetectorInv
  BY DEF IInv, DetectorInv
<1> QED
  BY <1>1, InitInv, NextInv, PTL DEF Spec

-----------------------------------------------------------------------------
(* A chain without forks.  On top of the shape of the intervals, every      *)
(* lower end is an accepted number, so no message of the chain straddles an *)
(* interval's end, and an update uncovers its own number only.              *)

\* The lower end of every interval was reported unseen.
LowersAccepted == \A i \in 1 .. Len(gaps) : accepted[gaps[i].lower] > 0

\* What holds besides IInv on a chain without forks.
ForkInv == forkless => NoContradiction /\ UncoveredWasAccepted /\ LowersAccepted

\* The lower end of an interval is a number of the chain.
LEMMA LowersAreNumbers ==
  ASSUME IInv, NEW i \in 1 .. Len(gaps)
  PROVE  /\ gaps[i] \in Gap /\ gaps[i].lower \in Number /\ gaps[i].upper \in Bound
         /\ gaps[i].lower \in Pair /\ gaps[i].upper \in Pair
<1>1. gaps[i] \in Gap
  BY DEF IInv, TypeOK
<1>2. gaps[i].lower \in Bound /\ gaps[i].upper \in Bound
  BY <1>1 DEF Gap
<1>3. Less(gaps[i].lower, gaps[i].upper)
  BY DEF IInv, GapsWellFormed
<1>4. gaps[i].lower # Top
  <2> SUFFICES ASSUME gaps[i].lower = Top PROVE FALSE
    OBVIOUS
  <2>1. CASE gaps[i].upper = Top
    BY <2>1, <1>3, BoundFacts, LessOrder
  <2>2. CASE gaps[i].upper \in Number
    BY <2>2, <1>3, BoundFacts, LessOrder
  <2> QED
    BY <2>1, <2>2, <1>2 DEF Bound
<1> QED
  BY <1>1, <1>2, <1>4, BoundFacts DEF Bound

\* The sequence t is s with its i-th element replaced by those of new.
Spliced(t, s, i, new) ==
  /\ Len(s) \in Nat /\ Len(new) \in Nat /\ i \in 1 .. Len(s)
  /\ Len(t) = Len(s) - 1 + Len(new)
  /\ \A k \in 1 .. Len(s) - 1 + Len(new) :
       t[k] = IF k < i THEN s[k]
              ELSE IF k < i + Len(new) THEN new[k - i + 1]
              ELSE s[k - Len(new) + 1]

\* The sequence t has every element of s but the i-th, every one of new and no other.
Exchanges(t, s, i, new) ==
  /\ \A j \in 1 .. Len(s) : j # i => \E k \in 1 .. Len(t) : t[k] = s[j]
  /\ \A h \in 1 .. Len(new) : \E k \in 1 .. Len(t) : t[k] = new[h]
  /\ \A k \in 1 .. Len(t) : \/ \E j \in 1 .. Len(s) : t[k] = s[j]
                            \/ \E h \in 1 .. Len(new) : t[k] = new[h]

\* Splicing exchanges one element for the new ones and keeps the others.
LEMMA SpliceKeeps ==
  ASSUME NEW s, NEW new, NEW rest, NEW i, Spliced(rest, s, i, new)
  PROVE  Exchanges(rest, s, i, new)
<1>0. /\ Len(s) \in Nat /\ Len(new) \in Nat /\ i \in Nat /\ i >= 1 /\ i <= Len(s)
      /\ Len(rest) = Len(s) - 1 + Len(new)
      /\ \A k \in 1 .. Len(s) - 1 + Len(new) :
           rest[k] = IF k < i THEN s[k]
                     ELSE IF k < i + Len(new) THEN new[k - i + 1]
                     ELSE s[k - Len(new) + 1]
  BY DEF Spliced
<1>1. ASSUME NEW j \in 1 .. Len(s), j # i
      PROVE  \E k \in 1 .. Len(rest) : rest[k] = s[j]
  <2>1. CASE j < i
    <3>1. j \in 1 .. Len(rest)
      BY <1>0, <2>1
    <3>2. rest[j] = s[j]
      BY <1>0, <2>1, <3>1
    <3> QED
      BY <3>1, <3>2
  <2>2. CASE j > i
    <3> DEFINE k == j - 1 + Len(new)
    <3>1. k \in 1 .. Len(rest) /\ ~(k < i) /\ ~(k < i + Len(new)) /\ k - Len(new) + 1 = j
      BY <1>0, <2>2
    <3> HIDE DEF k
    <3>2. rest[k] = s[j]
      BY <1>0, <3>1
    <3> QED
      BY <3>1, <3>2
  <2> QED
    BY <1>0, <2>1, <2>2, <1>1
<1>2. ASSUME NEW h \in 1 .. Len(new)
      PROVE  \E k \in 1 .. Len(rest) : rest[k] = new[h]
  <2> DEFINE k == i - 1 + h
  <2>1. k \in 1 .. Len(rest) /\ ~(k < i) /\ k < i + Len(new) /\ k - i + 1 = h
    BY <1>0
  <2> HIDE DEF k
  <2>2. rest[k] = new[h]
    BY <1>0, <2>1
  <2> QED
    BY <2>1, <2>2
<1>3. ASSUME NEW k \in 1 .. Len(rest)
      PROVE  \/ \E j \in 1 .. Len(s) : rest[k] = s[j]
             \/ \E h \in 1 .. Len(new) : rest[k] = new[h]
  <2>1. k \in Nat /\ k >= 1 /\ k <= Len(s) - 1 + Len(new)
    BY <1>0
  <2>2. rest[k] = IF k < i THEN s[k]
                  ELSE IF k < i + Len(new) THEN new[k - i + 1]
                  ELSE s[k - Len(new) + 1]
    BY <1>0
  <2>3. CASE k < i
    <3>1. k \in 1 .. Len(s) /\ rest[k] = s[k]
      BY <1>0, <2>1, <2>2, <2>3
    <3> QED
      BY <3>1
  <2>4. CASE ~(k < i) /\ k < i + Len(new)
    <3>1. k - i + 1 \in 1 .. Len(new) /\ rest[k] = new[k - i + 1]
      BY <1>0, <2>1, <2>2, <2>4
    <3> QED
      BY <3>1
  <2>5. CASE ~(k < i) /\ ~(k < i + Len(new))
    <3>1. k - Len(new) + 1 \in 1 .. Len(s) /\ rest[k] = s[k - Len(new) + 1]
      BY <1>0, <2>1, <2>2, <2>5
    <3> QED
      BY <3>1
  <2> QED
    BY <2>3, <2>4, <2>5
<1> QED
  BY <1>1, <1>2, <1>3 DEF Exchanges

\* What remains of the interval g around the number of m.
LEMMA RemainderCovers ==
  ASSUME NEW g, NEW m
  PROVE  /\ m.prev # g.lower =>
              \E h \in 1 .. Len(Remainder(g, m)) :
                Remainder(g, m)[h] = [lower |-> g.lower, upper |-> m.prev]
         /\ m.number # g.upper =>
              \E h \in 1 .. Len(Remainder(g, m)) :
                Remainder(g, m)[h] = [lower |-> m.number, upper |-> g.upper]
         /\ \A h \in 1 .. Len(Remainder(g, m)) :
              Remainder(g, m)[h].lower \in {g.lower, m.number}
<1> DEFINE rest == [lower |-> g.lower, upper |-> m.prev]
           high == [lower |-> m.number, upper |-> g.upper]
<1>1. rest.lower = g.lower /\ high.lower = m.number
  OBVIOUS
<1>2. CASE m.prev = g.lower /\ m.number = g.upper
  BY <1>2 DEF Remainder
<1>3. CASE m.prev = g.lower /\ m.number # g.upper
  <2>1. Remainder(g, m) = <<high>>
    BY <1>3 DEF Remainder
  <2> HIDE DEF rest, high
  <2>2. Len(<<high>>) = 1 /\ <<high>>[1] = high
    OBVIOUS
  <2> QED
    BY <2>1, <2>2, <1>1, <1>3 DEF high
<1>4. CASE m.prev # g.lower /\ m.number = g.upper
  <2>1. Remainder(g, m) = <<rest>>
    BY <1>4 DEF Remainder
  <2> HIDE DEF rest, high
  <2>2. Len(<<rest>>) = 1 /\ <<rest>>[1] = rest
    OBVIOUS
  <2> QED
    BY <2>1, <2>2, <1>1, <1>4 DEF rest
<1>5. CASE m.prev # g.lower /\ m.number # g.upper
  <2>1. Remainder(g, m) = <<rest, high>>
    BY <1>5 DEF Remainder
  <2> HIDE DEF rest, high
  <2>2. Len(<<rest, high>>) = 2 /\ <<rest, high>>[1] = rest /\ <<rest, high>>[2] = high
    OBVIOUS
  <2>3. 1 \in 1 .. 2 /\ 2 \in 1 .. 2 /\ \A h \in 1 .. 2 : h = 1 \/ h = 2
    OBVIOUS
  <2>4. /\ \E h \in 1 .. Len(Remainder(g, m)) : Remainder(g, m)[h] = rest
        /\ \E h \in 1 .. Len(Remainder(g, m)) : Remainder(g, m)[h] = high
        /\ \A h \in 1 .. Len(Remainder(g, m)) : Remainder(g, m)[h].lower \in {g.lower, m.number}
    BY <2>1, <2>2, <2>3, <1>1
  <2> QED
    BY <2>4 DEF rest, high
<1> QED
  BY <1>2, <1>3, <1>4, <1>5

\* A message of the chain contradicts no interval: the one that decides the
\* search either holds the number or ends before it.
LEMMA ChainFits ==
  ASSUME IInv, NEW m \in Messages, InChain(m), m.prev # NoRef,
         NEW i \in 1 .. Len(gaps), Decides(gaps[i], m), Less(m.prev, gaps[i].upper)
  PROVE  LessEq(gaps[i].lower, m.prev) /\ LessEq(m.number, gaps[i].upper)
<1> DEFINE g == gaps[i]
<1>1. /\ g.lower \in Number /\ g.lower \in Pair
      /\ g.upper \in Bound /\ g.upper \in Pair
  BY LowersAreNumbers
<1>2. /\ m.prev \in Number /\ m.number \in Number
      /\ m.prev \in Pair /\ m.number \in Pair /\ Less(m.number, Top)
  BY MessagesAssumption, BoundFacts
<1>3. Less(m.prev, m.number) /\ \A n \in Number : ~(Less(m.prev, n) /\ Less(n, m.number))
  BY DEF InChain
<1>4. LessEq(g.lower, m.prev)
  <2> SUFFICES ASSUME ~LessEq(g.lower, m.prev) PROVE FALSE
    OBVIOUS
  <2>1. Less(m.prev, g.lower) /\ Less(g.lower, m.number)
    BY <1>1, <1>2, LessOrder DEF LessEq, Decides
  <2> QED
    BY <2>1, <1>1, <1>3
<1>5. LessEq(m.number, g.upper)
  <2>1. CASE g.upper = Top
    BY <2>1, <1>2 DEF LessEq
  <2>2. CASE g.upper \in Number
    <3>1. ~Less(g.upper, m.number)
      BY <2>2, <1>3
    <3> QED
      BY <3>1, <1>1, <1>2, LessOrder DEF LessEq
  <2> QED
    BY <2>1, <2>2, <1>1 DEF Bound
<1> QED
  BY <1>4, <1>5

\* The history of what was accepted after reporting n unseen.
LEMMA AcceptedNow ==
  ASSUME IInv, NEW n \in Number, ReportUnseen(n)
  PROVE  /\ accepted'[n] > 0
         /\ \A q \in Number : accepted[q] > 0 => accepted'[q] > 0
         /\ \A q \in Number : accepted'[q] > 0 => q = n \/ accepted[q] > 0
<1>1. \A q \in Number : accepted[q] \in 0 .. 2
  BY DEF IInv, TypeOK
<1>2. \A q \in Number :
        accepted'[q] = IF q = n THEN (IF accepted[q] = 0 THEN 1 ELSE 2) ELSE accepted[q]
  BY DEF IInv, TypeOK, ReportUnseen
<1> QED
  BY <1>1, <1>2

\* A number that the chain has between the ends of the interval taken by m is m's
\* own, or stays covered by what remains of the interval.
LEMMA OthersStayCovered ==
  ASSUME NEW g \in Gap, NEW m \in Messages, m.prev # NoRef, InChain(m),
         NEW n \in Number, Covers(g, n), n # m.number
  PROVE  \E h \in 1 .. Len(Remainder(g, m)) : Covers(Remainder(g, m)[h], n)
<1>1. /\ g.lower \in Pair /\ g.upper \in Pair /\ n \in Pair
      /\ m.prev \in Pair /\ m.number \in Pair
  BY MessagesAssumption, BoundFacts DEF Gap
<1>2. Less(g.lower, n) /\ LessEq(n, g.upper) /\ ~(Less(m.prev, n) /\ Less(n, m.number))
  BY DEF Covers, InChain
<1>3. CASE Less(n, m.number)
  <2>1. LessEq(n, m.prev)
    BY <1>1, <1>2, <1>3, LessOrder DEF LessEq
  <2>2. m.prev # g.lower
    BY <1>1, <1>2, <2>1, LessOrder DEF LessEq
  <2>3. Covers([lower |-> g.lower, upper |-> m.prev], n)
    BY <1>2, <2>1 DEF Covers
  <2>4. \E h \in 1 .. Len(Remainder(g, m)) :
          Remainder(g, m)[h] = [lower |-> g.lower, upper |-> m.prev]
    BY <2>2, RemainderCovers
  <2> QED
    BY <2>3, <2>4
<1>4. CASE Less(m.number, n)
  <2>1. m.number # g.upper
    BY <1>1, <1>2, <1>4, LessOrder DEF LessEq
  <2>2. Covers([lower |-> m.number, upper |-> g.upper], n)
    BY <1>2, <1>4 DEF Covers
  <2>3. \E h \in 1 .. Len(Remainder(g, m)) :
          Remainder(g, m)[h] = [lower |-> m.number, upper |-> g.upper]
    BY <2>1, RemainderCovers
  <2> QED
    BY <2>2, <2>3
<1> QED
  BY <1>1, <1>3, <1>4, LessOrder

\* Nothing but the result changes: the intervals and the history stay.
LEMMA ReportKeepsFork ==
  ASSUME ForkInv, NEW verdict, verdict \notin {"invalid", "mismatch"}, Report(verdict),
         UNCHANGED forkless
  PROVE  ForkInv'
BY DEF ForkInv, Report, NoContradiction, UncoveredWasAccepted, LowersAccepted

\* The first message of the chain to arrive: what is not covered then is older.
LEMMA FirstKeepsFork ==
  ASSUME IInv, NEW m \in Messages, First(m), UNCHANGED forkless
  PROVE  ForkInv'
<1> DEFINE g == [lower |-> m.number, upper |-> Top]
<1>1. m.number \in Number
  BY MessagesAssumption
<1>2. gaps' = <<g>> /\ ReportUnseen(m.number) /\ \A q \in Number : accepted[q] = 0
  BY DEF First, IInv, Fresh
<1>3. g.lower = m.number /\ g.upper = Top
  OBVIOUS
<1> HIDE DEF g
<1>4. Len(gaps') = 1 /\ gaps'[1] = g
  BY <1>2
<1>5. accepted'[m.number] > 0 /\ \A q \in Number : accepted'[q] > 0 => q = m.number
  BY <1>1, <1>2, AcceptedNow
<1>6. LowersAccepted'
  BY <1>3, <1>4, <1>5 DEF LowersAccepted
<1>7. ASSUME NEW n \in Number
      PROVE  \/ \E i \in 1 .. Len(gaps') : Covers(gaps'[i], n)
             \/ accepted'[n] > 0
             \/ \A q \in Number : accepted'[q] > 0 => Less(n, q)
  <2>1. CASE Less(m.number, n)
    <3>1. Covers(g, n) /\ 1 \in 1 .. Len(gaps')
      BY <2>1, <1>3, <1>4, BoundFacts DEF Covers, LessEq
    <3> QED
      BY <3>1, <1>4
  <2>2. CASE Less(n, m.number)
    BY <2>2, <1>5
  <2>3. CASE n = m.number
    BY <2>3, <1>5
  <2> QED
    BY <2>1, <2>2, <2>3, <1>1, BoundFacts, LessOrder
<1>8. NoContradiction'
  BY <1>2 DEF ReportUnseen, NoContradiction
<1> QED
  BY <1>6, <1>7, <1>8 DEF ForkInv, UncoveredWasAccepted

\* A message without a reference skips over whatever lies below it.
LEMMA WithoutRefKeepsFork ==
  ASSUME IInv, ForkInv, NEW m \in Messages, WithoutRef(m), UNCHANGED forkless
  PROVE  ForkInv'
<1>1. CASE Report("duplicate")
  BY <1>1, ReportKeepsFork
<1>2. CASE /\ gaps' = [gaps EXCEPT ![Len(gaps)].lower = m.number]
           /\ ReportUnseen(m.number)
           /\ forgotten' = TRUE
  <2>1. m.number \in Number /\ gaps \in Seq(Gap) /\ Len(gaps) \in Nat \ {0}
    BY MessagesAssumption DEF WithoutRef, IInv, TypeOK
  <2>2. /\ Len(gaps') = Len(gaps)
        /\ \A i \in 1 .. Len(gaps) :
             gaps'[i].lower = IF i = Len(gaps) THEN m.number ELSE gaps[i].lower
    BY <1>2, <2>1 DEF Gap
  <2>3. /\ accepted'[m.number] > 0
        /\ \A q \in Number : accepted[q] > 0 => accepted'[q] > 0
    BY <1>2, <2>1, AcceptedNow
  <2>4. LowersAccepted => LowersAccepted'
    BY <2>2, <2>3, LowersAreNumbers DEF LowersAccepted
  <2>5. UncoveredWasAccepted' /\ NoContradiction'
    BY <1>2 DEF UncoveredWasAccepted, NoContradiction, ReportUnseen
  <2> QED
    BY <2>4, <2>5 DEF ForkInv
<1> QED
  BY <1>1, <1>2 DEF WithoutRef

\* A message of the chain that falls into an interval splits it around itself.
LEMMA SearchKeepsFork ==
  ASSUME IInv, ForkInv, forkless, NEW m \in Messages, InChain(m), m.prev # NoRef,
         NEW i \in 1 .. Len(gaps), SearchAt(i, m), UNCHANGED forkless
  PROVE  ForkInv'
<1> DEFINE g == gaps[i]
           rem == Remainder(g, m)
           rest == Splice(gaps, i, rem)
<1>1. /\ gaps \in Seq(Gap) /\ Len(gaps) \in Nat /\ g \in Gap
      /\ m.prev \in Number /\ m.number \in Number
  BY MessagesAssumption DEF IInv, TypeOK
<1>2. CASE Report("duplicate")
  BY <1>2, ReportKeepsFork
<1>3. CASE /\ Less(m.prev, g.upper) /\ LessEq(g.lower, m.prev) /\ LessEq(m.number, g.upper)
           /\ gaps' = DropLowestGap(rest)
           /\ ReportUnseen(m.number)
           /\ forgotten' = (forgotten \/ Len(rest) > MaxGaps)
  <2>1. Less(m.prev, m.number)
    BY DEF InChain
  <2>2. rem \in Seq(Gap)
    BY <2>1, <1>1, <1>3, RemainderFacts
  <2>3. \A h \in 1 .. Len(rem) : rem[h].lower \in {g.lower, m.number}
    BY RemainderCovers
  <2>4. \A n \in Number : Covers(g, n) /\ n # m.number =>
          \E h \in 1 .. Len(rem) : Covers(rem[h], n)
    BY <1>1, OthersStayCovered
  <2> HIDE DEF rem
  <2>5. /\ rest \in Seq(Gap)
        /\ Len(rest) = Len(gaps) - 1 + Len(rem)
        /\ \A k \in 1 .. Len(gaps) - 1 + Len(rem) :
             rest[k] = IF k < i THEN gaps[k]
                       ELSE IF k < i + Len(rem) THEN rem[k - i + 1]
                       ELSE gaps[k - Len(rem) + 1]
    BY <1>1, <2>2, SpliceFacts
  <2> HIDE DEF rest
  <2>6. /\ \A j \in 1 .. Len(gaps) : j # i => \E k \in 1 .. Len(rest) : rest[k] = gaps[j]
        /\ \A h \in 1 .. Len(rem) : \E k \in 1 .. Len(rest) : rest[k] = rem[h]
        /\ \A k \in 1 .. Len(rest) : \/ \E j \in 1 .. Len(gaps) : rest[k] = gaps[j]
                                     \/ \E h \in 1 .. Len(rem) : rest[k] = rem[h]
    <3>1. Spliced(rest, gaps, i, rem)
      BY <1>1, <2>2, <2>5 DEF Spliced
    <3>2. Exchanges(rest, gaps, i, rem)
      BY <3>1, SpliceKeeps
    <3> QED
      BY <3>2 DEF Exchanges
  <2>7. /\ accepted'[m.number] > 0
        /\ \A q \in Number : accepted[q] > 0 => accepted'[q] > 0
        /\ \A q \in Number : accepted'[q] > 0 => q = m.number \/ accepted[q] > 0
    BY <1>1, <1>3, AcceptedNow
  <2>8. \A j \in 1 .. Len(gaps) : gaps[j].lower \in Number /\ accepted[gaps[j].lower] > 0
    BY LowersAreNumbers DEF ForkInv, LowersAccepted
  <2>9. \A k \in 1 .. Len(rest) : accepted'[rest[k].lower] > 0
    <3> TAKE k \in 1 .. Len(rest)
    <3>1. CASE \E j \in 1 .. Len(gaps) : rest[k] = gaps[j]
      BY <3>1, <2>7, <2>8
    <3>2. CASE \E h \in 1 .. Len(rem) : rest[k] = rem[h]
      BY <3>2, <2>3, <2>7, <2>8
    <3> QED
      BY <3>1, <3>2, <2>6
  <2>10. LowersAccepted'
    <3>1. CASE Len(rest) > MaxGaps
      <4>1. Len(rest) > 0 /\ Len(rest) \in Nat
        BY <3>1, <2>5, MaxGapsAssumption
      <4>2. gaps' = Tail(rest)
        BY <3>1, <1>3 DEF DropLowestGap
      <4>3. \A k \in 1 .. Len(gaps') : k + 1 \in 1 .. Len(rest) /\ gaps'[k] = rest[k + 1]
        BY <4>1, <4>2, <2>5
      <4> QED
        BY <4>3, <2>9 DEF LowersAccepted
    <3>2. CASE ~(Len(rest) > MaxGaps)
      <4>1. gaps' = rest
        BY <3>2, <1>3 DEF DropLowestGap
      <4> QED
        BY <4>1, <2>9 DEF LowersAccepted
    <3> QED
      BY <3>1, <3>2
  <2>11. ASSUME ~forgotten', NEW n \in Number
         PROVE  \/ \E k \in 1 .. Len(gaps') : Covers(gaps'[k], n)
                \/ accepted'[n] > 0
                \/ \A q \in Number : accepted'[q] > 0 => Less(n, q)
    <3>1. gaps' = rest /\ ~forgotten
      BY <2>11, <1>3 DEF DropLowestGap
    <3>2. \/ \E j \in 1 .. Len(gaps) : Covers(gaps[j], n)
          \/ accepted[n] > 0
          \/ \A q \in Number : accepted[q] > 0 => Less(n, q)
      BY <3>1, <1>1 DEF ForkInv, UncoveredWasAccepted
    <3>3. CASE \E j \in 1 .. Len(gaps) : Covers(gaps[j], n)
      <4>1. PICK j \in 1 .. Len(gaps) : Covers(gaps[j], n)
        BY <3>3
      <4>2. CASE j # i
        BY <4>1, <4>2, <3>1, <2>6
      <4>3. CASE j = i /\ n # m.number
        <5>1. PICK h \in 1 .. Len(rem) : Covers(rem[h], n)
          BY <4>1, <4>3, <2>4
        <5> QED
          BY <5>1, <3>1, <2>6
      <4>4. CASE n = m.number
        BY <4>4, <2>7
      <4> QED
        BY <4>2, <4>3, <4>4
    <3>4. CASE accepted[n] > 0
      BY <3>4, <2>7
    <3>5. CASE \A q \in Number : accepted[q] > 0 => Less(n, q)
      <4>1. Less(n, g.lower)
        BY <3>5, <2>8
      <4>2. Less(n, m.number)
        <5>1. /\ n \in Pair /\ g.lower \in Pair /\ m.prev \in Pair /\ m.number \in Pair
          BY <1>1, BoundFacts DEF Gap
        <5> QED
          BY <5>1, <4>1, <2>1, <1>3, LessOrder DEF LessEq
      <4> QED
        BY <3>5, <4>2, <2>7
    <3> QED
      BY <3>2, <3>3, <3>4, <3>5
  <2>12. NoContradiction'
    BY <1>3 DEF ReportUnseen, NoContradiction
  <2> QED
    BY <2>10, <2>11, <2>12 DEF ForkInv, UncoveredWasAccepted
<1>4. CASE Less(m.prev, g.upper) /\ (Less(m.prev, g.lower) \/ Less(g.upper, m.number))
  <2>1. LessEq(g.lower, m.prev) /\ LessEq(m.number, g.upper)
    BY <1>4, ChainFits DEF SearchAt
  <2>2. /\ g.lower \in Pair /\ g.upper \in Pair /\ m.prev \in Pair /\ m.number \in Pair
    BY <1>1, BoundFacts DEF Gap
  <2> QED
    BY <2>1, <2>2, <1>4, LessOrder DEF LessEq
<1> QED
  BY <1>2, <1>3, <1>4 DEF SearchAt

\* Every step of a detector keeps ForkInv.
THEOREM NextFork == IInv /\ ForkInv /\ [Next]_vars => ForkInv'
<1> SUFFICES ASSUME IInv, ForkInv, [Next]_vars PROVE ForkInv'
  OBVIOUS
<1>1. CASE UNCHANGED vars
  BY <1>1 DEF vars, ForkInv, NoContradiction, UncoveredWasAccepted, LowersAccepted
<1>2. CASE UNCHANGED forkless /\ ~forkless
  BY <1>2 DEF ForkInv
<1>3. CASE forkless /\ Next
  <2>1. PICK m \in Messages : InChain(m) /\ MarkAndCheck(m)
    BY <1>3 DEF Next, Deliverable
  <2>2. UNCHANGED forkless
    BY <1>3 DEF Next
  <2>3. ~InvalidNumbering(m)
    <3>1. m.prev # NoRef => m.prev \in Pair /\ m.number \in Pair /\ Less(m.prev, m.number)
      BY <2>1, MessagesAssumption, BoundFacts DEF InChain
    <3> QED
      BY <3>1, LessOrder DEF InvalidNumbering, LessEq
  <2>4. CASE First(m)
    BY <2>2, <2>4, FirstKeepsFork
  <2>5. CASE WithoutRef(m)
    BY <2>2, <2>5, WithoutRefKeepsFork
  <2>6. CASE WithRef(m) /\ SearchExhausted(m)
    BY <2>2, <2>6, ReportKeepsFork DEF SearchExhausted
  <2>7. CASE WithRef(m) /\ \E i \in 1 .. Len(gaps) : SearchAt(i, m)
    BY <2>1, <2>2, <2>7, <1>3, SearchKeepsFork DEF WithRef
  <2> QED
    BY <2>1, <2>3, <2>4, <2>5, <2>6, <2>7 DEF MarkAndCheck, RejectInvalid, WithRef
<1>4. forkless \in BOOLEAN
  BY DEF IInv, TypeOK
<1> QED
  BY <1>1, <1>2, <1>3, <1>4 DEF Next

\* On a chain that one publisher numbers without forks the detector throws no error,
\* and while it has not given a gap up it takes no unseen number for a duplicate:
\* every number past the first is either accepted or still inside an interval, in
\* whatever order and however often the messages are delivered.
THEOREM ForklessChain == Spec => []ForklessInv
<1>1. Init => ForkInv
  BY DEF Init, ForkInv, NoContradiction, UncoveredWasAccepted, LowersAccepted
<1>2. ForkInv => ForklessInv
  BY DEF ForkInv, ForklessInv
<1> QED
  BY <1>1, <1>2, InitInv, NextInv, NextFork, PTL DEF Spec

-----------------------------------------------------------------------------
(***************************************************************************)
(* Proofs about Propagation: its invariant and its action properties hold  *)
(* for any neighbours, messages, stream parts, limits and times to live.   *)
(*                                                                         *)
(* The invariant is nearly inductive.  What is missing is in QuietInv: the *)
(* store is finite, only what was fed is in flight, and the drop queue is  *)
(* in order also while messages are taken out of its middle.               *)
(***************************************************************************)
-----------------------------------------------------------------------------
(* The operators.                                                          *)

\* With adds one point to a function.
LEMMA WithAt ==
  ASSUME NEW f, NEW x, NEW v
  PROVE  /\ DOMAIN With(f, x, v) = DOMAIN f \cup {x}
         /\ With(f, x, v)[x] = v
         /\ \A y \in DOMAIN f \ {x} : With(f, x, v)[y] = f[y]
         /\ \A y \in DOMAIN f \cup {x} : With(f, x, v)[y] = IF y = x THEN v ELSE f[y]
BY DEF With

\* Taking messages out of the queue keeps the others in their order.
LEMMA QueueWithoutIsQueue ==
  ASSUME IsQueue(dropQueue), NEW ms
  PROVE  /\ IsQueue(QueueWithout(ms))
         /\ DOMAIN QueueWithout(ms) = DOMAIN dropQueue \ ms
BY DEF IsQueue, QueueWithout

\* A new message goes to the end of the queue.
LEMMA QueueWithNewIsQueue ==
  ASSUME NEW q, IsQueue(q), NEW m, m \notin DOMAIN q
  PROVE  IsQueue(With(q, m, DOMAIN q))
<1> DEFINE r == With(q, m, DOMAIN q)
<1>1. DOMAIN r = DOMAIN q \cup {m} /\ r[m] = DOMAIN q /\ \A y \in DOMAIN q : r[y] = q[y]
  BY DEF With
<1> HIDE DEF r
<1> SUFFICES ASSUME NEW x \in DOMAIN r, NEW y \in DOMAIN r
             PROVE  /\ x \in r[y] \/ y \in r[x] <=> x # y
                    /\ x \in r[y] => r[x] \subseteq r[y] /\ y \notin r[x]
                    /\ r[x] \subseteq DOMAIN r
  BY DEF IsQueue, r
<1>2. CASE x = m /\ y = m
  BY <1>1, <1>2
<1>3. CASE x = m /\ y # m
  BY <1>1, <1>3 DEF IsQueue
<1>4. CASE x # m /\ y = m
  BY <1>1, <1>4 DEF IsQueue
<1>5. CASE x # m /\ y # m
  BY <1>1, <1>5 DEF IsQueue
<1> QED
  BY <1>2, <1>3, <1>4, <1>5

\* A queue that is not empty has a first message.
LEMMA QueueHasFirst ==
  ASSUME NEW q, IsQueue(q), IsFiniteSet(DOMAIN q), DOMAIN q # {}
  PROVE  \E m \in DOMAIN q : q[m] = {}
<1>1. \A x \in DOMAIN q : IsFiniteSet(q[x]) /\ Cardinality(q[x]) \in Nat
  BY FS_Subset, FS_CardinalityType DEF IsQueue
<1> DEFINE sizes == {Cardinality(q[x]) : x \in DOMAIN q}
<1>2. sizes \subseteq Nat /\ sizes # {}
  BY <1>1
<1>3. PICK n \in sizes : \A k \in sizes : n <= k
  <2> DEFINE R == {ss \in Nat \X Nat : ss[1] < ss[2]}
  <2> HIDE DEF sizes
  <2>1. IsWellFoundedOn(R, Nat)
    BY NatLessThanWellFounded DEF OpToRel
  <2>2. PICK n \in sizes : \A k \in sizes : ~(<<k, n>> \in R)
    BY <1>2, <2>1, WFMin
  <2>3. \A k \in sizes : ~(k < n)
    BY <1>2, <2>2
  <2> QED
    BY <1>2, <2>3
<1>4. PICK m \in DOMAIN q : Cardinality(q[m]) = n
  BY <1>3
<1>5. ASSUME NEW x \in q[m]
      PROVE  FALSE
  <2>1. x \in DOMAIN q /\ q[x] \subseteq q[m] /\ x \notin q[x]
    BY <1>4, <1>5 DEF IsQueue
  <2>2. Cardinality(q[x]) < Cardinality(q[m])
    BY <1>1, <1>5, <2>1, <1>4, FS_Subset
  <2>3. Cardinality(q[x]) \in sizes
    BY <2>1
  <2> QED
    BY <1>1, <1>3, <1>4, <2>1, <2>2, <2>3
<1> QED
  BY <1>4, <1>5

\* What is found in a lookup without the messages ms.
LEMMA LookupWithoutAt ==
  ASSUME NEW l, NEW ms
  PROVE  LET r == LookupWithout(l, ms)
         IN  /\ DOMAIN r \subseteq DOMAIN l
             /\ \A p \in DOMAIN r : r[p] = l[p] \ ms /\ r[p] # {}
             /\ \A p \in DOMAIN l \ DOMAIN r : l[p] \ ms = {}
BY DEF LookupWithout

-----------------------------------------------------------------------------
(* The task store.                                                         *)

\* The three parts of the store.
StoreInv ==
  /\ DOMAIN dropQueue \subseteq Message /\ IsQueue(dropQueue)
  /\ left \in [DOMAIN left -> 0 .. Ttl] /\ IsFiniteSet(DOMAIN left)
  /\ DOMAIN lookup \subseteq Part /\ lookup \in [DOMAIN lookup -> SUBSET Message]
  /\ StoreAgrees /\ SoonestFirst

\* Deleting messages from the store.
LEMMA ForgetKeepsStore ==
  ASSUME StoreInv, NEW ms, Forget(ms)
  PROVE  /\ StoreInv'
         /\ DOMAIN left' = DOMAIN left \ ms
         /\ \A m \in DOMAIN left' : left'[m] = left[m]
<1>1. /\ DOMAIN left' = DOMAIN left \ ms
      /\ \A m \in DOMAIN left' : left'[m] = left[m]
      /\ left' \in [DOMAIN left' -> 0 .. Ttl]
  BY DEF Forget, StoreInv
<1>2. /\ IsFiniteSet(DOMAIN left \ ms)
      /\ Cardinality(DOMAIN left \ ms) <= Cardinality(DOMAIN left)
      /\ Cardinality(DOMAIN left) <= MaxTasks
      /\ Cardinality(DOMAIN left \ ms) \in Nat /\ Cardinality(DOMAIN left) \in Nat
  BY FS_Subset, FS_CardinalityType DEF StoreInv, StoreAgrees
<1>3. /\ IsQueue(dropQueue') /\ DOMAIN dropQueue' = DOMAIN dropQueue \ ms
      /\ \A m \in DOMAIN dropQueue' : dropQueue'[m] = dropQueue[m] \ ms
  BY QueueWithoutIsQueue DEF Forget, StoreInv, QueueWithout
<1>4. lookup' = LookupWithout(lookup, ms)
  BY DEF Forget
<1>5. /\ DOMAIN lookup' \subseteq DOMAIN lookup
      /\ \A p \in DOMAIN lookup' : lookup'[p] = lookup[p] \ ms /\ lookup'[p] # {}
      /\ \A p \in DOMAIN lookup \ DOMAIN lookup' : lookup[p] \ ms = {}
  BY <1>4, LookupWithoutAt
<1>6. lookup' \in [DOMAIN lookup' -> SUBSET Message]
  BY <1>4, <1>5 DEF LookupWithout, StoreInv
<1>7. \A p \in Part : LookedUp(p)' = {m \in DOMAIN left' : PartOf[m] = p}
  <2> SUFFICES ASSUME NEW p \in Part PROVE LookedUp(p)' = LookedUp(p) \ ms
    BY <1>1 DEF StoreInv, StoreAgrees
  <2> QED
    BY <1>5 DEF LookedUp
<1>8. StoreAgrees'
  BY <1>1, <1>2, <1>3, <1>5, <1>7, PropagationAssumption DEF StoreInv, StoreAgrees
<1>9. SoonestFirst'
  BY <1>1, <1>3, <1>8 DEF StoreInv, StoreAgrees, SoonestFirst, IsQueue
<1> QED
  BY <1>1, <1>2, <1>3, <1>5, <1>6, <1>8, <1>9 DEF StoreInv

\* Adding a message that is not in the store, with another one dropped if it is full.
LEMMA AddKeepsStore ==
  ASSUME StoreInv, NEW m \in Message, m \notin DOMAIN left, AddTask(m)
  PROVE  /\ StoreInv'
         /\ DOMAIN left' = (DOMAIN left \ Dropped) \cup {m}
         /\ left'[m] = Ttl /\ \A x \in DOMAIN left' \ {m} : left'[x] = left[x]
<1> DEFINE kept == DOMAIN left \ Dropped
<1>1. /\ DOMAIN left' = kept \cup {m} /\ left'[m] = Ttl
      /\ \A x \in kept : left'[x] = left[x]
      /\ left' \in [DOMAIN left' -> 0 .. Ttl]
  <2>1. /\ DOMAIN left' = kept \cup {m} /\ left'[m] = Ttl
        /\ \A x \in kept : left'[x] = left[x]
        /\ left' = [x \in DOMAIN left' |-> left'[x]]
    BY DEF AddTask, With
  <2> QED
    BY <2>1, PropagationAssumption DEF StoreInv
<1>2. Dropped \subseteq DOMAIN left /\ DOMAIN dropQueue = DOMAIN left
  BY DEF Dropped, StoreInv, StoreAgrees
<1>3. IsFiniteSet(DOMAIN left') /\ Cardinality(DOMAIN left') <= MaxTasks
  <2>1. /\ IsFiniteSet(DOMAIN left) /\ Cardinality(DOMAIN left) <= MaxTasks
        /\ MaxTasks \in Nat \ {0} /\ Cardinality(DOMAIN left) \in Nat
    BY PropagationAssumption, FS_CardinalityType DEF StoreInv, StoreAgrees
  <2>2. /\ IsFiniteSet(kept) /\ Cardinality(kept) \in Nat
        /\ Cardinality(kept) <= Cardinality(DOMAIN left)
        /\ Cardinality(kept) = Cardinality(DOMAIN left) => Dropped = {}
    BY <1>2, <2>1, FS_Subset, FS_CardinalityType
  <2>3. Cardinality(kept) < MaxTasks
    <3>1. CASE Cardinality(DOMAIN left) = MaxTasks
      <4>1. DOMAIN dropQueue # {}
        BY <1>2, <2>1, <3>1, FS_EmptySet
      <4>2. \E x \in DOMAIN dropQueue : dropQueue[x] = {}
        BY <1>2, <2>1, <4>1, QueueHasFirst DEF StoreInv
      <4>3. Dropped # {}
        BY <3>1, <4>2 DEF Dropped
      <4> QED
        BY <2>1, <2>2, <3>1, <4>3
    <3>2. CASE Cardinality(DOMAIN left) # MaxTasks
      BY <2>1, <2>2, <3>2
    <3> QED
      BY <3>1, <3>2
  <2>4. IsFiniteSet(kept \cup {m}) /\ Cardinality(kept \cup {m}) <= MaxTasks
    <3> HIDE DEF kept
    <3>1. /\ IsFiniteSet(kept \cup {m})
          /\ Cardinality(kept \cup {m}) \in {Cardinality(kept), Cardinality(kept) + 1}
      BY <2>2, FS_AddElement
    <3> QED
      BY <2>1, <2>2, <2>3, <3>1
  <2> QED
    BY <1>1, <2>4
<1>4. /\ IsQueue(dropQueue') /\ DOMAIN dropQueue' = DOMAIN left' /\ dropQueue'[m] = kept
      /\ \A x \in kept : dropQueue'[x] = dropQueue[x] \ Dropped
  <2> DEFINE q == QueueWithout(Dropped)
  <2>1. IsQueue(q) /\ DOMAIN q = kept /\ \A x \in kept : q[x] = dropQueue[x] \ Dropped
    BY <1>2, QueueWithoutIsQueue DEF StoreInv, QueueWithout
  <2>2. dropQueue' = With(q, m, DOMAIN q)
    BY <1>2, <2>1 DEF AddTask
  <2> HIDE DEF q
  <2>3. IsQueue(dropQueue')
    BY <2>1, <2>2, QueueWithNewIsQueue
  <2> QED
    BY <1>1, <2>1, <2>2, <2>3 DEF With
<1>5. /\ DOMAIN lookup' \subseteq Part /\ lookup' \in [DOMAIN lookup' -> SUBSET Message]
      /\ \A p \in DOMAIN lookup' : lookup'[p] # {}
      /\ \A p \in Part : LookedUp(p)' = {x \in DOMAIN left' : PartOf[x] = p}
  <2> DEFINE l == LookupWith(lookup, m)
  <2>1. /\ DOMAIN l = DOMAIN lookup \cup {PartOf[m]} /\ PartOf[m] \in Part
        /\ l[PartOf[m]] = {m} \cup LookedUp(PartOf[m])
        /\ \A p \in DOMAIN lookup \ {PartOf[m]} : l[p] = lookup[p]
    BY PropagationAssumption DEF LookupWith, With, LookedUp
  <2>2. lookup' = LookupWithout(l, Dropped)
    BY DEF AddTask
  <2> HIDE DEF l
  <2>3. /\ DOMAIN lookup' \subseteq DOMAIN l
        /\ \A p \in DOMAIN lookup' : lookup'[p] = l[p] \ Dropped /\ lookup'[p] # {}
        /\ \A p \in DOMAIN l \ DOMAIN lookup' : l[p] \ Dropped = {}
    BY <2>2, LookupWithoutAt
  <2>4. \A p \in DOMAIN l : l[p] = (IF p = PartOf[m] THEN {m} ELSE {}) \cup LookedUp(p)
    BY <2>1 DEF LookedUp
  <2>5. \A p \in DOMAIN l : l[p] \subseteq Message /\ p \in Part
    BY <2>1, <2>4 DEF LookedUp, StoreInv
  <2>6. lookup' = [p \in DOMAIN lookup' |-> lookup'[p]]
    BY <2>2 DEF LookupWithout
  <2>7. ASSUME NEW p \in Part
        PROVE  LookedUp(p)' = {x \in DOMAIN left' : PartOf[x] = p}
    <3>1. LookedUp(p) = {x \in DOMAIN left : PartOf[x] = p}
      BY DEF StoreInv, StoreAgrees
    <3>2. LookedUp(p)' = IF p \in DOMAIN l THEN l[p] \ Dropped ELSE {}
      BY <2>3 DEF LookedUp
    <3>3. p \notin DOMAIN l => LookedUp(p) = {} /\ p # PartOf[m]
      BY <2>1 DEF LookedUp
    <3>4. m \notin Dropped
      BY <1>2
    <3> QED
      BY <1>1, <2>4, <3>1, <3>2, <3>3, <3>4
  <2> QED
    BY <2>3, <2>5, <2>6, <2>7
<1>6. SoonestFirst'
  <2> SUFFICES ASSUME NEW x \in DOMAIN dropQueue', NEW y \in dropQueue'[x]
               PROVE  left'[y] <= left'[x]
    BY DEF SoonestFirst
  <2>1. y \in kept
    BY <1>1, <1>2, <1>4 DEF StoreInv, IsQueue
  <2>2. left'[y] = left[y] /\ left[y] \in 0 .. Ttl
    BY <1>1, <2>1 DEF StoreInv
  <2>3. CASE x = m
    BY <1>1, <2>2, <2>3, PropagationAssumption
  <2>4. CASE x # m
    BY <1>1, <1>2, <1>4, <2>2, <2>4 DEF StoreInv, SoonestFirst
  <2> QED
    BY <2>3, <2>4
<1>7. DOMAIN left' \subseteq Message
  BY <1>1, <1>2 DEF StoreInv
<1> QED
  BY <1>1, <1>3, <1>4, <1>5, <1>6, <1>7 DEF StoreInv, StoreAgrees

-----------------------------------------------------------------------------
(* Propagation.                                                            *)

\* What the steps of Propagation keep: beside the invariant itself, that the store is
\* finite and that nothing is in flight before it was fed.
QuietInv ==
  /\ PropagationInv
  /\ IsFiniteSet(DOMAIN left)
  /\ \A m \in Message \ Fed, n \in Node : inFlight[m][n] = 0

\* The other variables.
SendsTypeOK ==
  /\ DOMAIN left \subseteq Fed
  /\ Fed \subseteq Message /\ handled \in [Fed -> SUBSET Node]
  /\ source \in [Fed -> Node \cup {Local}]
  /\ failed \in [Fed -> SUBSET Node]
  /\ inFlight \in [Message -> [Node -> 0 .. MaxSends]]
  /\ consecutiveFailures \in [Node -> 0 .. MaxDeliveryFailures - 1]
  /\ DOMAIN neighbors \subseteq Part /\ neighbors \in [DOMAIN neighbors -> SUBSET Node]
  /\ \A m \in Message \ Fed, n \in Node : inFlight[m][n] = 0

\* The invariant in its parts.
LEMMA QuietParts ==
  QuietInv <=> StoreInv /\ SendsTypeOK /\ NoneForgotten /\ HandledAreDropped
BY DEF QuietInv, PropagationInv, PropagationTypeOK, StoreInv, SendsTypeOK

\* Everything is empty in the beginning.
LEMMA InitQuiet == PropagationInit => QuietInv
<1> SUFFICES ASSUME PropagationInit PROVE QuietInv
  OBVIOUS
<1>1. StoreInv
  <2>1. IsFiniteSet({}) /\ Cardinality({}) = 0
    BY FS_EmptySet
  <2>2. /\ DOMAIN dropQueue = {} /\ DOMAIN left = {} /\ DOMAIN lookup = {}
        /\ left \in [DOMAIN left -> 0 .. Ttl] /\ lookup \in [DOMAIN lookup -> SUBSET Message]
    BY DEF PropagationInit, Empty
  <2>3. StoreAgrees
    BY <2>1, <2>2, PropagationAssumption DEF StoreAgrees, LookedUp
  <2> QED
    BY <2>1, <2>2, <2>3 DEF StoreInv, IsQueue, SoonestFirst
<1>2. /\ DOMAIN left = {} /\ Fed = {} /\ DOMAIN source = {} /\ DOMAIN failed = {}
      /\ DOMAIN neighbors = {}
  BY DEF PropagationInit, Empty, Fed
<1>3. SendsTypeOK
  BY <1>2, PropagationAssumption DEF PropagationInit, Empty, Fed, SendsTypeOK
<1>4. NoneForgotten /\ HandledAreDropped
  BY <1>2 DEF NoneForgotten, HandledAreDropped
<1> QED
  BY <1>1, <1>3, <1>4, QuietParts

\* The sends that start, one for each message m and node in to[m].
LEMMA SendingAt ==
  ASSUME NEW to, Sending(to), SendsTypeOK
  PROVE  /\ inFlight' = [m \in Message |-> inFlight'[m]]
         /\ \A m \in Message : inFlight'[m] = [n \in Node |-> inFlight'[m][n]]
         /\ \A m \in Message, n \in Node :
              inFlight'[m][n] = inFlight[m][n] + (IF m \in DOMAIN to /\ n \in to[m] THEN 1 ELSE 0)
BY DEF Sending

\* A message is fed: it is sent to all neighbours but its source.
LEMMA FeedKeeps ==
  ASSUME QuietInv, NEW m \in Message, NEW src \in Node \cup {Local}, Feed(m, src)
  PROVE  QuietInv'
<1> DEFINE p == PartOf[m]
<1>1. StoreInv /\ SendsTypeOK /\ NoneForgotten /\ HandledAreDropped
  BY QuietParts
<1>2. m \notin DOMAIN left /\ AddTask(m) /\ m \notin Fed /\ p \in DOMAIN neighbors
  BY <1>1 DEF Feed, SendsTypeOK
<1>3. /\ StoreInv'
      /\ DOMAIN left' \subseteq DOMAIN left \cup {m}
      /\ left'[m] = Ttl /\ \A x \in DOMAIN left' \ {m} : left'[x] = left[x]
  BY <1>1, <1>2, AddKeepsStore
<1>4. /\ Fed' = Fed \cup {m} /\ DOMAIN source' = Fed' /\ DOMAIN failed' = Fed'
      /\ handled'[m] = {} /\ source'[m] = src /\ failed'[m] = {}
      /\ \A x \in Fed : handled'[x] = handled[x] /\ source'[x] = source[x] /\ failed'[x] = failed[x]
  BY <1>1, <1>2 DEF Feed, With, Fed, SendsTypeOK
<1>5. /\ handled' \in [Fed' -> SUBSET Node] /\ failed' \in [Fed' -> SUBSET Node]
      /\ source' \in [Fed' -> Node \cup {Local}]
  <2>1. /\ handled' = [x \in Fed' |-> handled'[x]] /\ failed' = [x \in Fed' |-> failed'[x]]
        /\ source' = [x \in Fed' |-> source'[x]]
    BY <1>4 DEF Feed, With, Fed
  <2> QED
    BY <1>1, <1>4, <2>1 DEF SendsTypeOK
<1>6. /\ \A x \in Message \ {m}, n \in Node : inFlight'[x][n] = inFlight[x][n]
      /\ \A n \in Node : inFlight'[m][n] = IF n \in neighbors[p] \ {src} THEN 1 ELSE 0
      /\ inFlight' \in [Message -> [Node -> 0 .. MaxSends]]
  <2> DEFINE to == [x \in {m} |-> ToSend(x, neighbors[PartOf[m]], src, {})]
  <2>1. Sending(to) /\ DOMAIN to = {m} /\ to[m] = neighbors[p] \ {src}
    BY DEF Feed, ToSend
  <2> HIDE DEF to
  <2>2. /\ inFlight' = [x \in Message |-> inFlight'[x]]
        /\ \A x \in Message : inFlight'[x] = [n \in Node |-> inFlight'[x][n]]
        /\ \A x \in Message, n \in Node :
              inFlight'[x][n] = inFlight[x][n] + (IF x \in DOMAIN to /\ n \in to[x] THEN 1 ELSE 0)
    BY <1>1, <2>1, SendingAt
  <2>3. \A x \in Message, n \in Node : inFlight[x][n] \in 0 .. MaxSends
    BY <1>1 DEF SendsTypeOK
  <2>4. \A n \in Node : inFlight[m][n] = 0
    BY <1>1, <1>2 DEF SendsTypeOK
  <2>5. \A x \in Message \ {m}, n \in Node : inFlight'[x][n] = inFlight[x][n]
    BY <2>1, <2>2, <2>3
  <2>6. \A n \in Node : inFlight'[m][n] = IF n \in neighbors[p] \ {src} THEN 1 ELSE 0
    BY <2>1, <2>2, <2>4
  <2>7. \A x \in Message, n \in Node : inFlight'[x][n] \in 0 .. MaxSends
    BY <2>3, <2>5, <2>6, PropagationAssumption
  <2> QED
    BY <2>2, <2>5, <2>6, <2>7
<1>7. UNCHANGED <<consecutiveFailures, neighbors>>
  BY DEF Feed
<1>8. SendsTypeOK'
  <2>1. DOMAIN left' \subseteq Fed' /\ Fed' \subseteq Message
    BY <1>1, <1>3, <1>4 DEF SendsTypeOK
  <2>2. \A x \in Message \ Fed', n \in Node : inFlight'[x][n] = 0
    BY <1>1, <1>4, <1>6 DEF SendsTypeOK
  <2> QED
    BY <1>1, <1>5, <1>6, <1>7, <2>1, <2>2 DEF SendsTypeOK
<1>9. NoneForgotten'
  <2> SUFFICES ASSUME NEW x \in DOMAIN left', left'[x] > 0, PartOf[x] \in DOMAIN neighbors',
                      NEW n \in neighbors'[PartOf[x]]
               PROVE  n = source'[x] \/ n \in handled'[x] \/ inFlight'[x][n] > 0 \/ n \in failed'[x]
    BY DEF NoneForgotten
  <2>1. n \in Node
    BY <1>1, <1>7 DEF SendsTypeOK
  <2>2. CASE x = m
    BY <1>4, <1>6, <1>7, <2>1, <2>2
  <2>3. CASE x # m
    BY <1>1, <1>3, <1>4, <1>6, <1>7, <2>1, <2>3 DEF NoneForgotten, SendsTypeOK
  <2> QED
    BY <2>2, <2>3
<1>10. HandledAreDropped'
  BY <1>1, <1>3, <1>4 DEF HandledAreDropped
<1> QED
  BY <1>3, <1>8, <1>9, <1>10, QuietParts DEF QuietInv, PropagationInv, PropagationTypeOK, StoreInv, SendsTypeOK

\* The invariant after a step, from its parts.
LEMMA QuietAfter ==
  ASSUME StoreInv', SendsTypeOK', NoneForgotten', HandledAreDropped'
  PROVE  QuietInv'
BY DEF QuietInv, PropagationInv, PropagationTypeOK, StoreInv, SendsTypeOK

\* A node joins: it is sent the active tasks of the stream part.
LEMMA JoinKeeps ==
  ASSUME QuietInv, NEW n \in Node, NEW p \in Part, Join(n, p)
  PROVE  QuietInv'
<1>1. StoreInv /\ SendsTypeOK /\ NoneForgotten /\ HandledAreDropped
  BY QuietParts
<1>2. /\ p \in DOMAIN neighbors /\ UNCHANGED <<source, handled, consecutiveFailures>>
      /\ DOMAIN neighbors' = DOMAIN neighbors /\ neighbors'[p] = neighbors[p] \cup {n}
      /\ \A q \in DOMAIN neighbors \ {p} : neighbors'[q] = neighbors[q]
      /\ neighbors' \in [DOMAIN neighbors -> SUBSET Node]
  BY <1>1 DEF Join, SendsTypeOK
<1>3. /\ StoreInv' /\ DOMAIN left' \subseteq DOMAIN left
      /\ \A m \in DOMAIN left' : left'[m] = left[m]
  <2>1. Forget(LookedUp(p) \ Tasks(p))
    BY DEF Join
  <2> QED
    BY <1>1, <2>1, ForgetKeepsStore
<1>4. /\ DOMAIN failed' = Fed /\ failed' \in [Fed -> SUBSET Node]
      /\ \A m \in Fed : failed'[m] = IF PartOf[m] = p THEN failed[m] \ {n} ELSE failed[m]
  BY <1>1 DEF Join, SendsTypeOK
<1>5. /\ inFlight' \in [Message -> [Node -> 0 .. MaxSends]]
      /\ \A m \in Message, k \in Node :
           inFlight'[m][k] = inFlight[m][k] +
             (IF m \in Tasks(p) /\ k = n /\ n # source[m] /\ n \notin handled[m] THEN 1 ELSE 0)
  <2> DEFINE to == [m \in Tasks(p) |-> ToSend(m, {n}, source[m], handled[m])]
  <2>1. Sending(to) /\ DOMAIN to = Tasks(p)
    BY DEF Join
  <2>2. \A m \in Tasks(p) : to[m] = {n} \ ({source[m]} \cup handled[m])
    BY DEF ToSend
  <2> HIDE DEF to
  <2>3. /\ inFlight' = [x \in Message |-> inFlight'[x]]
        /\ \A x \in Message : inFlight'[x] = [k \in Node |-> inFlight'[x][k]]
        /\ \A x \in Message, k \in Node :
              inFlight'[x][k] = inFlight[x][k] + (IF x \in DOMAIN to /\ k \in to[x] THEN 1 ELSE 0)
    BY <1>1, <2>1, SendingAt
  <2>4. \A x \in Message, k \in Node : inFlight[x][k] \in 0 .. MaxSends
    BY <1>1 DEF SendsTypeOK
  <2>5. \A x \in Message, k \in Node :
          inFlight'[x][k] = inFlight[x][k] +
             (IF x \in Tasks(p) /\ k = n /\ n # source[x] /\ n \notin handled[x] THEN 1 ELSE 0)
    BY <2>1, <2>2, <2>3
  <2>6. \A x \in Message : inFlight[x][n] < MaxSends
    BY DEF Join
  <2>7. \A x \in Message, k \in Node : inFlight'[x][k] \in 0 .. MaxSends
    BY <2>4, <2>5, <2>6, PropagationAssumption
  <2> QED
    BY <2>3, <2>5, <2>7
<1>6. Tasks(p) = {m \in DOMAIN left : PartOf[m] = p /\ left[m] > 0}
  BY <1>1 DEF StoreInv, StoreAgrees, Tasks
<1>7. SendsTypeOK'
  <2>1. Fed' = Fed
    BY <1>2 DEF Fed
  <2>2. \A m \in Message \ Fed, k \in Node : inFlight'[m][k] = 0
    BY <1>1, <1>5, <1>6 DEF SendsTypeOK
  <2> QED
    BY <1>1, <1>2, <1>3, <1>4, <1>5, <2>1, <2>2 DEF SendsTypeOK
<1>8. NoneForgotten'
  <2> SUFFICES ASSUME NEW x \in DOMAIN left', left'[x] > 0, PartOf[x] \in DOMAIN neighbors',
                      NEW k \in neighbors'[PartOf[x]]
               PROVE  k = source'[x] \/ k \in handled'[x] \/ inFlight'[x][k] > 0 \/ k \in failed'[x]
    BY DEF NoneForgotten
  <2>1. k \in Node /\ x \in DOMAIN left /\ x \in Fed /\ x \in Message /\ left[x] > 0
    BY <1>1, <1>2, <1>3 DEF SendsTypeOK
  <2>2. inFlight[x][k] \in Nat /\ inFlight'[x][k] \in Nat
    BY <1>1, <1>5, <2>1 DEF SendsTypeOK
  <2>3. CASE PartOf[x] = p /\ k = n
    BY <1>2, <1>5, <1>6, <2>1, <2>2, <2>3
  <2>4. CASE PartOf[x] # p \/ k # n
    <3>1. k \in neighbors[PartOf[x]]
      BY <1>2, <2>4
    <3>2. k = source[x] \/ k \in handled[x] \/ inFlight[x][k] > 0 \/ k \in failed[x]
      BY <1>1, <1>2, <2>1, <3>1 DEF NoneForgotten
    <3>3. inFlight'[x][k] >= inFlight[x][k]
      BY <1>5, <2>1, <2>2
    <3>4. k \in failed[x] => k \in failed'[x]
      BY <1>4, <2>1, <2>4
    <3> QED
      BY <1>2, <2>2, <3>2, <3>3, <3>4
  <2> QED
    BY <2>3, <2>4
<1>9. HandledAreDropped'
  BY <1>1, <1>2, <1>3 DEF HandledAreDropped, Fed
<1> QED
  BY <1>3, <1>7, <1>8, <1>9, QuietAfter

\* Neighbours go, or a stream part is set up or left: nothing is promised to them any more.
LEMMA FewerNeighborsKeep ==
  ASSUME QuietInv,
         UNCHANGED <<storeVars, source, handled, inFlight, failed>>,
         consecutiveFailures' \in [Node -> 0 .. MaxDeliveryFailures - 1],
         DOMAIN neighbors' \subseteq Part,
         neighbors' = [p \in DOMAIN neighbors' |-> neighbors'[p]],
         \A p \in DOMAIN neighbors' :
           neighbors'[p] \subseteq IF p \in DOMAIN neighbors THEN neighbors[p] ELSE {}
  PROVE  QuietInv'
<1>1. StoreInv /\ SendsTypeOK /\ NoneForgotten /\ HandledAreDropped
  BY QuietParts
<1>2. StoreInv'
  BY <1>1 DEF storeVars, StoreInv, StoreAgrees, SoonestFirst, LookedUp
<1>3. \A p \in DOMAIN neighbors' : neighbors'[p] \subseteq Node
  BY <1>1 DEF SendsTypeOK
<1>4. SendsTypeOK'
  BY <1>1, <1>3 DEF storeVars, SendsTypeOK, Fed
<1>5. NoneForgotten'
  BY <1>1 DEF storeVars, NoneForgotten
<1>6. HandledAreDropped'
  BY <1>1 DEF storeVars, HandledAreDropped, Fed
<1> QED
  BY <1>2, <1>4, <1>5, <1>6, QuietAfter

\* One send of m to n is settled.
LEMMA SettledAt ==
  ASSUME SendsTypeOK, NEW m \in Message, NEW n \in Node, inFlight[m][n] > 0,
         inFlight' = [inFlight EXCEPT ![m][n] = @ - 1]
  PROVE  /\ m \in Fed
         /\ inFlight' \in [Message -> [Node -> 0 .. MaxSends]]
         /\ \A x \in Message, k \in Node : x # m \/ k # n => inFlight'[x][k] = inFlight[x][k]
         /\ \A x \in Message \ Fed, k \in Node : inFlight'[x][k] = 0
<1>1. inFlight \in [Message -> [Node -> 0 .. MaxSends]] /\ MaxSends \in Nat
  BY PropagationAssumption DEF SendsTypeOK
<1>2. m \in Fed
  BY DEF SendsTypeOK
<1>3. \A x \in Message, k \in Node :
        inFlight'[x][k] = IF x = m /\ k = n THEN inFlight[m][n] - 1 ELSE inFlight[x][k]
  BY <1>1
<1>4. inFlight[m][n] - 1 \in 0 .. MaxSends
  BY <1>1
<1>5. inFlight' \in [Message -> [Node -> 0 .. MaxSends]]
  BY <1>1, <1>4
<1> QED
  BY <1>2, <1>3, <1>5 DEF SendsTypeOK

\* A send fulfils; a message that enough nodes have leaves the store.
LEMMA SendFulfilsKeeps ==
  ASSUME QuietInv, NEW m \in Message, NEW n \in Node, SendFulfils(m, n)
  PROVE  QuietInv'
<1>1. StoreInv /\ SendsTypeOK /\ NoneForgotten /\ HandledAreDropped
  BY QuietParts
<1>2. /\ m \in Fed
      /\ inFlight' \in [Message -> [Node -> 0 .. MaxSends]]
      /\ \A x \in Message, k \in Node : x # m \/ k # n => inFlight'[x][k] = inFlight[x][k]
      /\ \A x \in Message \ Fed, k \in Node : inFlight'[x][k] = 0
  BY <1>1, SettledAt DEF SendFulfils
<1>3. /\ Fed' = Fed /\ handled' \in [Fed -> SUBSET Node] /\ handled'[m] = handled[m] \cup {n}
      /\ \A x \in Fed \ {m} : handled'[x] = handled[x]
      /\ UNCHANGED <<source, neighbors, failed>>
      /\ consecutiveFailures' \in [Node -> 0 .. MaxDeliveryFailures - 1]
  BY <1>1, <1>2, PropagationAssumption DEF SendFulfils, SendsTypeOK, Fed
<1>4. /\ StoreInv' /\ DOMAIN left' \subseteq DOMAIN left
      /\ \A x \in DOMAIN left' : left'[x] = left[x]
      /\ Enough(m) => m \notin DOMAIN left'
  <2>1. CASE Enough(m)
    <3>1. Forget({m})
      BY <2>1 DEF SendFulfils
    <3> QED
      BY <1>1, <3>1, ForgetKeepsStore
  <2>2. CASE ~Enough(m)
    <3>1. UNCHANGED storeVars
      BY <2>2 DEF SendFulfils
    <3> QED
      BY <1>1, <2>2, <3>1 DEF storeVars, StoreInv, StoreAgrees, SoonestFirst, LookedUp
  <2> QED
    BY <2>1, <2>2
<1>5. SendsTypeOK'
  BY <1>1, <1>2, <1>3, <1>4 DEF SendsTypeOK
<1>6. NoneForgotten'
  <2> SUFFICES ASSUME NEW x \in DOMAIN left', left'[x] > 0, PartOf[x] \in DOMAIN neighbors',
                      NEW k \in neighbors'[PartOf[x]]
               PROVE  k = source'[x] \/ k \in handled'[x] \/ inFlight'[x][k] > 0 \/ k \in failed'[x]
    BY DEF NoneForgotten
  <2>1. k \in Node /\ x \in DOMAIN left /\ x \in Fed /\ x \in Message /\ left[x] > 0
    BY <1>1, <1>3, <1>4 DEF SendsTypeOK
  <2>2. k = source[x] \/ k \in handled[x] \/ inFlight[x][k] > 0 \/ k \in failed[x]
    BY <1>1, <1>3, <2>1 DEF NoneForgotten
  <2>3. CASE x = m /\ k = n
    BY <1>3, <2>3
  <2>4. CASE x # m \/ k # n
    <3>1. inFlight'[x][k] = inFlight[x][k]
      BY <1>2, <2>1, <2>4
    <3>2. handled[x] \subseteq handled'[x]
      BY <1>3, <2>1
    <3> QED
      BY <1>3, <2>2, <3>1, <3>2
  <2> QED
    BY <2>3, <2>4
<1>7. HandledAreDropped'
  BY <1>1, <1>3, <1>4 DEF HandledAreDropped, Enough
<1> QED
  BY <1>4, <1>5, <1>6, <1>7, QuietAfter

\* A send rejects, and the neighbour may be disconnected.
LEMMA SendFailsKeeps ==
  ASSUME QuietInv, NEW m \in Message, NEW n \in Node, SendFails(m, n)
  PROVE  QuietInv'
<1>1. StoreInv /\ SendsTypeOK /\ NoneForgotten /\ HandledAreDropped
  BY QuietParts
<1>2. /\ m \in Fed
      /\ inFlight' \in [Message -> [Node -> 0 .. MaxSends]]
      /\ \A x \in Message, k \in Node : x # m \/ k # n => inFlight'[x][k] = inFlight[x][k]
      /\ \A x \in Message \ Fed, k \in Node : inFlight'[x][k] = 0
  BY <1>1, SettledAt DEF SendFails
<1>3. /\ UNCHANGED <<storeVars, source, handled>> /\ failed' \in [Fed -> SUBSET Node]
      /\ failed'[m] = failed[m] \cup {n} /\ \A x \in Fed \ {m} : failed'[x] = failed[x]
  BY <1>1, <1>2 DEF SendFails, SendsTypeOK
<1>4. /\ neighbors' \in [DOMAIN neighbors -> SUBSET Node]
      /\ \A p \in DOMAIN neighbors : neighbors'[p] \subseteq neighbors[p]
      /\ consecutiveFailures' \in [Node -> 0 .. MaxDeliveryFailures - 1]
  BY <1>1, PropagationAssumption DEF SendFails, SendsTypeOK
<1>5. StoreInv'
  BY <1>1, <1>3 DEF storeVars, StoreInv, StoreAgrees, SoonestFirst, LookedUp
<1>6. SendsTypeOK'
  BY <1>1, <1>2, <1>3, <1>4 DEF storeVars, SendsTypeOK, Fed
<1>7. NoneForgotten'
  BY <1>1, <1>2, <1>3, <1>4 DEF storeVars, NoneForgotten, SendsTypeOK
<1>8. HandledAreDropped'
  BY <1>1, <1>3 DEF storeVars, HandledAreDropped, Fed
<1> QED
  BY <1>5, <1>6, <1>7, <1>8, QuietAfter

\* Time passes for all tasks alike.
LEMMA TickKeeps ==
  ASSUME QuietInv, Tick
  PROVE  QuietInv'
<1>1. StoreInv /\ SendsTypeOK /\ NoneForgotten /\ HandledAreDropped
  BY QuietParts
<1>2. /\ DOMAIN left' = DOMAIN left
      /\ \A m \in DOMAIN left : left'[m] = IF left[m] > 0 THEN left[m] - 1 ELSE 0
      /\ \A m \in DOMAIN left : left[m] \in 0 .. Ttl
      /\ left' \in [DOMAIN left -> 0 .. Ttl]
      /\ UNCHANGED <<dropQueue, lookup, source, handled, inFlight, consecutiveFailures, neighbors, failed>>
  BY <1>1, PropagationAssumption DEF Tick, StoreInv
<1>3. StoreAgrees'
  BY <1>1, <1>2 DEF StoreInv, StoreAgrees, LookedUp
<1>4. SoonestFirst'
  <2> SUFFICES ASSUME NEW m \in DOMAIN dropQueue, NEW x \in dropQueue[m]
               PROVE  left'[x] <= left'[m]
    BY <1>2 DEF SoonestFirst
  <2>1. x \in DOMAIN left /\ m \in DOMAIN left
    BY <1>1 DEF StoreInv, StoreAgrees, IsQueue
  <2>2. left[x] <= left[m] /\ left[x] \in Nat /\ left[m] \in Nat
    BY <1>1, <1>2, <2>1, PropagationAssumption DEF StoreInv, SoonestFirst
  <2> QED
    BY <1>2, <2>1, <2>2
<1>5. StoreInv'
  BY <1>1, <1>2, <1>3, <1>4 DEF StoreInv
<1>6. SendsTypeOK'
  BY <1>1, <1>2 DEF SendsTypeOK, Fed
<1>7. NoneForgotten'
  BY <1>1, <1>2, PropagationAssumption DEF NoneForgotten
<1>8. HandledAreDropped'
  BY <1>1, <1>2 DEF HandledAreDropped, Fed
<1> QED
  BY <1>5, <1>6, <1>7, <1>8, QuietAfter

\* Whatever happens, the invariant is kept.
THEOREM NextQuiet == QuietInv /\ [PropagationNext]_propagationVars => QuietInv'
<1> SUFFICES ASSUME QuietInv, [PropagationNext]_propagationVars PROVE QuietInv'
  OBVIOUS
<1>0. SendsTypeOK
  BY QuietParts
<1>1. ASSUME NEW p \in Part, SubscribeTo(p)
      PROVE  QuietInv'
  <2>1. /\ DOMAIN neighbors' = DOMAIN neighbors \cup {p} /\ neighbors'[p] = {}
        /\ \A q \in DOMAIN neighbors : neighbors'[q] = neighbors[q]
        /\ neighbors' = [q \in DOMAIN neighbors' |-> neighbors'[q]]
    BY <1>1 DEF SubscribeTo, With
  <2> QED
    BY <1>0, <1>1, <2>1, FewerNeighborsKeep DEF SubscribeTo, SendsTypeOK
<1>2. ASSUME NEW p \in Part, UnsubscribeFrom(p)
      PROVE  QuietInv'
  BY <1>0, <1>2, FewerNeighborsKeep DEF UnsubscribeFrom, SendsTypeOK
<1>3. ASSUME NEW m \in Message, NEW src \in Node \cup {Local}, Feed(m, src)
      PROVE  QuietInv'
  BY <1>3, FeedKeeps
<1>4. ASSUME NEW n \in Node, NEW p \in Part, Join(n, p)
      PROVE  QuietInv'
  BY <1>4, JoinKeeps
<1>5. ASSUME NEW n \in Node, NEW p \in Part, Leave(n, p)
      PROVE  QuietInv'
  <2>1. /\ DOMAIN neighbors' = DOMAIN neighbors
        /\ \A q \in DOMAIN neighbors : neighbors'[q] \subseteq neighbors[q]
        /\ neighbors' = [q \in DOMAIN neighbors' |-> neighbors'[q]]
    BY <1>0, <1>5 DEF Leave, SendsTypeOK
  <2> QED
    BY <1>0, <1>5, <2>1, FewerNeighborsKeep DEF Leave, SendsTypeOK
<1>6. ASSUME NEW n \in Node, Disconnect(n)
      PROVE  QuietInv'
  BY <1>0, <1>6, FewerNeighborsKeep DEF Disconnect, SendsTypeOK
<1>7. ASSUME NEW m \in Message, NEW n \in Node, SendFulfils(m, n)
      PROVE  QuietInv'
  BY <1>7, SendFulfilsKeeps
<1>8. ASSUME NEW m \in Message, NEW n \in Node, SendFails(m, n)
      PROVE  QuietInv'
  BY <1>8, SendFailsKeeps
<1>9. CASE Tick
  BY <1>9, TickKeeps
<1>10. CASE UNCHANGED propagationVars
  BY <1>0, <1>10, FewerNeighborsKeep DEF propagationVars, storeVars, SendsTypeOK
<1> QED
  BY <1>1, <1>2, <1>3, <1>4, <1>5, <1>6, <1>7, <1>8, <1>9, <1>10 DEF PropagationNext

\* The task store's parts agree, the message that makes room is one that would expire
\* first, no neighbour is forgotten and what enough nodes have is dropped, always.
THEOREM NothingForgotten == PropagationSpec => []PropagationInv
<1>1. QuietInv => PropagationInv
  BY DEF QuietInv
<1> QED
  BY <1>1, InitQuiet, NextQuiet, PTL DEF PropagationSpec

\* What ends a task is one of the three reasons.
LEMMA StepEndsForAReason ==
  ASSUME QuietInv, [PropagationNext]_propagationVars,
         NEW m \in DOMAIN left \ DOMAIN left'
  PROVE  \/ Cardinality(handled'[m]) >= MinTargets
         \/ left[m] = 0
         \/ Cardinality(DOMAIN left) = MaxTasks /\ dropQueue[m] = {} /\ Fed' # Fed
<1>1. StoreInv /\ SendsTypeOK
  BY QuietParts
<1>2. ASSUME NEW x \in Message, NEW src \in Node \cup {Local}, Feed(x, src)
      PROVE  Cardinality(DOMAIN left) = MaxTasks /\ dropQueue[m] = {} /\ Fed' # Fed
  <2>1. m \in Dropped
    BY <1>2 DEF Feed, AddTask, With
  <2>2. x \notin Fed /\ x \in Fed'
    BY <1>2 DEF Feed, With, Fed
  <2> QED
    BY <2>1, <2>2 DEF Dropped
<1>3. ASSUME NEW n \in Node, NEW p \in Part, Join(n, p)
      PROVE  left[m] = 0
  <2>1. m \in LookedUp(p) \ Tasks(p)
    BY <1>3 DEF Join, Forget
  <2>2. left[m] \in Nat /\ ~(left[m] > 0)
    BY <1>1, <2>1, PropagationAssumption DEF StoreInv, Tasks
  <2> QED
    BY <2>2
<1>4. ASSUME NEW x \in Message, NEW n \in Node, SendFulfils(x, n)
      PROVE  Cardinality(handled'[m]) >= MinTargets
  <2>1. Enough(x) /\ Forget({x})
    BY <1>4 DEF SendFulfils, storeVars
  <2>2. m = x
    BY <2>1 DEF Forget
  <2> QED
    BY <2>1, <2>2 DEF Enough
<1>5. ASSUME DOMAIN left' = DOMAIN left
      PROVE  FALSE
  BY <1>5
<1> QED
  BY <1>2, <1>3, <1>4, <1>5 DEF PropagationNext, SubscribeTo, UnsubscribeFrom, Leave, Disconnect,
     SendFails, Tick, storeVars, propagationVars

\* Whatever the order in which sends are settled, neighbours come and go, and messages
\* arrive, a task ends only because enough neighbours have it, its time is over, or it
\* is the oldest of a full store (Propagation.ts, FifoMapWithTtl.ts).
THEOREM TasksEndForAReason == PropagationSpec => EndedForAReason
<1>1. QuietInv /\ [PropagationNext]_propagationVars =>
        [\A m \in DOMAIN left \ DOMAIN left' :
           \/ Cardinality(handled'[m]) >= MinTargets
           \/ left[m] = 0
           \/ Cardinality(DOMAIN left) = MaxTasks /\ dropQueue[m] = {} /\ Fed' # Fed]_propagationVars
  BY StepEndsForAReason
<1> QED
  BY <1>1, InitQuiet, NextQuiet, PTL DEF PropagationSpec, EndedForAReason

\* A send that a step starts.
LEMMA StepSendsWhileActive ==
  ASSUME QuietInv, [PropagationNext]_propagationVars,
         NEW m \in Message, NEW n \in Node, inFlight'[m][n] > inFlight[m][n]
  PROVE  /\ n # source'[m]
         /\ m \in Fed => m \in DOMAIN left /\ left[m] > 0 /\ n \notin handled[m]
<1>1. StoreInv /\ SendsTypeOK /\ inFlight[m][n] \in Nat
  BY QuietParts DEF SendsTypeOK
<1>2. ASSUME NEW x \in Message, NEW src \in Node \cup {Local}, Feed(x, src)
      PROVE  m = x /\ m \notin Fed /\ n # source'[m]
  <2> DEFINE to == [y \in {x} |-> ToSend(y, neighbors[PartOf[x]], src, {})]
  <2>1. Sending(to) /\ DOMAIN to = {x} /\ to[x] = neighbors[PartOf[x]] \ {src}
    BY <1>2 DEF Feed, ToSend
  <2> HIDE DEF to
  <2>2. inFlight'[m][n] = inFlight[m][n] + (IF m \in DOMAIN to /\ n \in to[m] THEN 1 ELSE 0)
    BY <1>1, <2>1, SendingAt
  <2>3. m = x /\ n # src
    BY <1>1, <2>1, <2>2
  <2>4. source'[x] = src /\ x \notin Fed
    BY <1>2 DEF Feed, With
  <2> QED
    BY <2>3, <2>4
<1>3. ASSUME NEW k \in Node, NEW p \in Part, Join(k, p)
      PROVE  n # source'[m] /\ m \in DOMAIN left /\ left[m] > 0 /\ n \notin handled[m]
  <2> DEFINE to == [y \in Tasks(p) |-> ToSend(y, {k}, source[y], handled[y])]
  <2>1. Sending(to) /\ DOMAIN to = Tasks(p) /\ source' = source
    BY <1>3 DEF Join
  <2>2. \A y \in Tasks(p) : to[y] = {k} \ ({source[y]} \cup handled[y])
    BY DEF ToSend
  <2> HIDE DEF to
  <2>3. inFlight'[m][n] = inFlight[m][n] + (IF m \in DOMAIN to /\ n \in to[m] THEN 1 ELSE 0)
    BY <1>1, <2>1, SendingAt
  <2>4. m \in Tasks(p) /\ n \in to[m]
    BY <1>1, <2>1, <2>3
  <2> QED
    BY <1>1, <2>1, <2>2, <2>4 DEF Tasks, StoreInv, StoreAgrees
<1>4. ASSUME NEW x \in Message, NEW k \in Node, SendFulfils(x, k) \/ SendFails(x, k)
      PROVE  FALSE
  <2>1. inFlight'[m][n] = IF m = x /\ n = k THEN inFlight[x][k] - 1 ELSE inFlight[m][n]
    BY <1>1, <1>4 DEF SendFulfils, SendFails, SendsTypeOK
  <2> QED
    BY <1>1, <2>1
<1>5. ASSUME UNCHANGED inFlight
      PROVE  FALSE
  BY <1>1, <1>5
<1> QED
  BY <1>2, <1>3, <1>4, <1>5 DEF PropagationNext, SubscribeTo, UnsubscribeFrom, Leave, Disconnect,
     Tick, propagationVars

\* A send starts only to a node that is not known to have the message, and of a message
\* that is not new only while its task is active: nobody is sent a forgotten message.
THEOREM SendsAreForActiveTasks == PropagationSpec => SentWhileActive
<1>1. QuietInv /\ [PropagationNext]_propagationVars =>
        [\A m \in Message, n \in Node :
           inFlight'[m][n] > inFlight[m][n] =>
             /\ n # source'[m]
             /\ m \in Fed => m \in DOMAIN left /\ left[m] > 0 /\ n \notin handled[m]]_propagationVars
  BY StepSendsWhileActive
<1> QED
  BY <1>1, InitQuiet, NextQuiet, PTL DEF PropagationSpec, SentWhileActive

-----------------------------------------------------------------------------
(***************************************************************************)
(* Proofs about publishing, for any number of publishes, keys, failures    *)
(* and pipelines of the subscriber.                                        *)
(***************************************************************************)
-----------------------------------------------------------------------------
(* The invariant.                                                          *)

InPhase(phases) == task.phase \in phases

\* The publish that runs has its place in the chain.
Placed == InPhase({"key", "rekey", "sign"})

Above(a, b) == a[1] > b[1] \/ (a[1] = b[1] /\ a[2] > b[2])

Last == sent[Len(sent)]

\* The chain goes on above the last message, and behind it unless a publish failed.
PlaceInv ==
  /\ Placed => task.ref = ref
  /\ \A i \in 1 .. Len(sent) : sent[i].chain <= chainId
  /\ sent # <<>> /\ Last.chain = chainId =>
       IF Placed THEN Above(task.ref, Last.ref) ELSE ref = Last.ref \/ Above(ref, Last.ref)
  /\ sent # <<>> /\ failures = 0 => Last.ref = (IF Placed THEN task.prev ELSE ref)

\* A message has a factory, or its queue is being loaded.
FactoryInv ==
  /\ InPhase({"permission"}) \/ Placed => factory # 0
  /\ InPhase({"load"}) => factory = 0 /\ task.queue \in 1 .. Len(queue)

\* A queue that is loaded is nobody else's, and is still empty.
LoadInv ==
  /\ \A u \in updates : u.phase = "load" =>
       /\ u.queue \notin {factory, mapped} /\ queue[u.queue] = EmptyQueue
       /\ \A v \in updates \ {u} : v.queue # u.queue
  /\ InPhase({"load"}) =>
       /\ task.queue # mapped /\ queue[task.queue] = EmptyQueue
       /\ \A u \in updates : u.queue # task.queue

\* Every key that is taken up for use is stored.
StoredInv ==
  /\ \A i \in 1 .. Len(queue) : {queue[i].current, queue[i].queued} \subseteq stored \cup {NoKey}
  /\ latest \in stored \cup {NoKey}
  /\ InPhase({"sign"}) => task.key \in stored
  /\ \A i \in 1 .. Len(sent) : sent[i].key \in stored

\* Those who read the message m expect k after it, or have to ask for it.
Announced(m, k) == k \in {m.key, m.next} \cup rekeyed

\* The key in use is announced to those who read the message before.
UseInv ==
  /\ InPhase({"sign"}) => queue[factory].current # NoKey /\ Announced(task, queue[factory].current)
  /\ InPhase({"rekey"}) => task.key \in rekeyed
  /\ \A u \in updates : u.kind = "rekey" => u.key \in rekeyed
  /\ failures = 0 /\ sent # <<>> =>
       /\ factory # 0 /\ queue[factory].current # NoKey
       /\ Announced(Last, IF InPhase({"sign"}) THEN task.key ELSE queue[factory].current)

\* What the next publish will use, or announce.
Use(q) == IF q.queued # NoKey THEN q.queued ELSE q.current

\* Without an overlap there is one update, one queue, and its last key is the latest.
LatestInv ==
  ~overlap =>
    /\ \A u, v \in updates : u = v
    /\ InPhase({"load", "rekey"}) => updates = {}
    /\ factory # 0 => mapped = factory
    /\ \A u \in updates : mapped = IF u.phase = "load" THEN 0 ELSE u.queue
    /\ mapped # 0 => latest = Use(queue[mapped])

\* The requests of p for the message it is at.
Own(p) == {r \in pendingRequests : r.by = p /\ r.of = pipe[p].next}

\* A pipeline asks once for the key of a message, and is answered unless something fails.
AskInv(p) ==
  /\ pipe[p].phase # "idle" => pipe[p].next <= Len(sent)
  /\ pipe[p].phase = "idle" => \A r \in Own(p) : r.key \in known
  /\ pipe[p].phase = "request" => Own(p) = {}
  /\ pipe[p].phase = "wait" /\ failures = 0 => Own(p) \cap (requests \cup responses) # {}

\* What is under way is pending, once, and for the key of a message that was read.
RequestsInv ==
  /\ requests \cap responses = {} /\ requests \cup responses \subseteq pendingRequests
  /\ \A r \in pendingRequests : r.key = sent[r.of].key /\ r.of <= pipe[r.by].next

ExchangeInv ==
  RequestsInv /\ (\A p \in Pipeline : AskInv(p)) /\ (failures = 0 => failedMessages = {})

\* The inductive invariant.
KeyInv ==
  /\ PublishTypeOK /\ ChainIsLinear /\ NewKeysAreAnnounced
  /\ PlaceInv /\ FactoryInv /\ LoadInv /\ StoredInv /\ UseInv /\ LatestInv /\ ExchangeInv

-----------------------------------------------------------------------------
(* Types.                                                                  *)

\* What a publish has at hand.
LEMMA TaskTyped ==
  ASSUME task \in Task
  PROVE  /\ task.phase \in {"idle", "load", "permission", "key", "rekey", "sign"}
         /\ InPhase({"load", "permission"}) => task.time \in Timestamp
         /\ InPhase({"load"}) => task.queue \in Key
         /\ Placed => task.ref \in Ref /\ task.prev \in Ref
         /\ InPhase({"rekey", "sign"}) => task.key \in Key
         /\ InPhase({"sign"}) => task.next \in KeyOrNone
BY DEF Task, Idle, InPhase, Placed

\* The tasks there are.
LEMMA TaskKinds ==
  /\ Idle \in Task
  /\ \A time \in Timestamp : [phase |-> "permission", time |-> time] \in Task
  /\ \A time \in Timestamp, q \in Key : [phase |-> "load", time |-> time, queue |-> q] \in Task
  /\ \A a, b \in Ref : [phase |-> "key", ref |-> a, prev |-> b] \in Task
  /\ \A a, b \in Ref, k \in Key : [phase |-> "rekey", ref |-> a, prev |-> b, key |-> k] \in Task
  /\ \A a, b \in Ref, k \in Key, n \in KeyOrNone :
       [phase |-> "sign", ref |-> a, prev |-> b, key |-> k, next |-> n] \in Task
BY DEF Task

\* The parts of the type invariant.
LEMMA Typed ==
  PublishTypeOK <=>
    /\ waiting \in Seq(Timestamp) /\ task \in Task
    /\ ref \in Ref /\ calls \in Nat /\ chainId \in Nat /\ keys \in Nat /\ failures \in Nat
    /\ sent \in Seq(ChainMessage) /\ queue \in Seq(KeyQueue)
    /\ mapped \in 0 .. Len(queue) /\ factory \in 0 .. Len(queue)
    /\ updates \subseteq KeyUpdate
    /\ stored \subseteq Key /\ rekeyed \subseteq Key /\ known \subseteq Key
    /\ latest \in KeyOrNone /\ overlap \in BOOLEAN /\ pipe \in [Pipeline -> Place]
    /\ requests \subseteq KeyRequest /\ responses \subseteq KeyRequest
    /\ pendingRequests \subseteq KeyRequest
BY DEF PublishTypeOK

\* The sequences of the publisher.
LEMMA Sequences ==
  ASSUME PublishTypeOK
  PROVE  /\ Len(queue) \in Nat /\ Len(sent) \in Nat
         /\ \A i \in 1 .. Len(queue) :
              queue[i] \in KeyQueue /\ queue[i].current \in KeyOrNone /\ queue[i].queued \in KeyOrNone
         /\ \A i \in 1 .. Len(sent) :
              /\ sent[i] \in ChainMessage /\ sent[i].chain \in Nat /\ sent[i].ref \in Ref
              /\ sent[i].prev \in Ref /\ sent[i].key \in Key /\ sent[i].next \in KeyOrNone
         /\ sent # <<>> <=> Len(sent) > 0
<1>1. queue \in Seq(KeyQueue) /\ sent \in Seq(ChainMessage)
  BY Typed
<1>2. Len(queue) \in Nat /\ Len(sent) \in Nat
  BY <1>1, LenProperties
<1>3. ASSUME NEW i \in 1 .. Len(queue)
      PROVE  queue[i] \in KeyQueue
  BY <1>1, ElementOfSeq
<1>4. ASSUME NEW i \in 1 .. Len(sent)
      PROVE  sent[i] \in ChainMessage
  BY <1>1, ElementOfSeq
<1>5. sent # <<>> <=> Len(sent) > 0
  BY <1>1, <1>2, EmptySeq
<1> QED
  BY <1>2, <1>3, <1>4, <1>5 DEF KeyQueue, ChainMessage

\* A queue that is changed in one place, and one more queue.
LEMMA QueueSet ==
  ASSUME PublishTypeOK, NEW q \in 1 .. Len(queue), NEW e \in KeyQueue
  PROVE  LET new == [queue EXCEPT ![q] = e]
         IN  /\ new \in Seq(KeyQueue) /\ Len(new) = Len(queue) /\ new[q] = e
             /\ \A i \in 1 .. Len(queue) : i # q => new[i] = queue[i]
<1>1. queue \in Seq(KeyQueue)
  BY Typed
<1> QED
  BY <1>1, ExceptSeq

LEMMA QueueMore ==
  ASSUME PublishTypeOK
  PROVE  LET new == Append(queue, EmptyQueue)
         IN  /\ new \in Seq(KeyQueue) /\ Len(new) = Len(queue) + 1
             /\ new[Len(queue) + 1] = EmptyQueue
             /\ \A i \in 1 .. Len(queue) : new[i] = queue[i]
<1>1. queue \in Seq(KeyQueue) /\ EmptyQueue \in KeyQueue
  BY Typed DEF KeyQueue, EmptyQueue, KeyOrNone
<1> QED
  BY <1>1, AppendProperties

\* A message is published.
LEMMA SentMore ==
  ASSUME PublishTypeOK, NEW m \in ChainMessage
  PROVE  LET new == Append(sent, m)
         IN  /\ new \in Seq(ChainMessage) /\ Len(new) = Len(sent) + 1 /\ new # <<>>
             /\ new[Len(sent) + 1] = m
             /\ \A i \in 1 .. Len(sent) : new[i] = sent[i]
<1>1. sent \in Seq(ChainMessage)
  BY Typed
<1> QED
  BY <1>1, AppendProperties

\* What a publish that is being prepared becomes.
LEMMA QueueEntries ==
  ASSUME PublishTypeOK
  PROVE  /\ \A k, n \in KeyOrNone : [current |-> k, queued |-> n] \in KeyQueue
         /\ \A e \in KeyQueue, k \in KeyOrNone :
              [e EXCEPT !.current = k] \in KeyQueue /\ [e EXCEPT !.queued = k] \in KeyQueue
         /\ NoKey \in KeyOrNone /\ NoKey \notin Key /\ \A k \in Key : k \in KeyOrNone
BY PublishingAssumption DEF KeyQueue, KeyOrNone, Key

\* A queue that has been loaded.
LEMMA LoadedFacts ==
  ASSUME PublishTypeOK, NEW q \in 1 .. Len(queue), Loaded(q)
  PROVE  /\ queue' \in Seq(KeyQueue) /\ Len(queue') = Len(queue) /\ mapped' = q
         /\ queue'[q].current = latest /\ queue'[q].queued = queue[q].queued
         /\ \A i \in 1 .. Len(queue) : i # q => queue'[i] = queue[i]
<1> DEFINE e == [queue[q] EXCEPT !.current = latest]
<1>1. queue[q] \in KeyQueue /\ latest \in KeyOrNone
  BY Typed, Sequences
<1>2. e \in KeyQueue /\ e.current = latest /\ e.queued = queue[q].queued
  BY <1>1, QueueEntries DEF KeyQueue
<1>3. queue' = [queue EXCEPT ![q] = e] /\ mapped' = q
  BY DEF Loaded
<1> HIDE DEF e
<1> QED
  BY <1>2, <1>3, QueueSet

\* A key that is taken into use.
LEMMA TakenFacts ==
  ASSUME PublishTypeOK, NEW q \in 1 .. Len(queue), NEW k \in KeyOrNone,
         queue' = [queue EXCEPT ![q] = [current |-> k, queued |-> NoKey]]
  PROVE  /\ queue' \in Seq(KeyQueue) /\ Len(queue') = Len(queue)
         /\ queue'[q].current = k /\ queue'[q].queued = NoKey
         /\ \A i \in 1 .. Len(queue) : i # q => queue'[i] = queue[i]
<1> DEFINE e == [current |-> k, queued |-> NoKey]
<1>1. e \in KeyQueue /\ e.current = k /\ e.queued = NoKey
  BY QueueEntries
<1>2. queue' = [queue EXCEPT ![q] = e]
  OBVIOUS
<1> HIDE DEF e
<1> QED
  BY <1>1, <1>2, QueueSet

\* useGroupKey with a key at hand.
LEMMA UseFacts ==
  ASSUME PublishTypeOK, FactoryInv, UseGroupKey
  PROVE  \E k \in Key, key \in Key, next \in KeyOrNone :
           /\ InPhase({"key"}) /\ factory \in 1 .. Len(queue)
           /\ task' = [phase |-> "sign", ref |-> task.ref, prev |-> task.prev,
                       key |-> key, next |-> next]
           /\ queue' \in Seq(KeyQueue) /\ Len(queue') = Len(queue)
           /\ queue'[factory].current = k /\ queue'[factory].queued = NoKey
           /\ \A i \in 1 .. Len(queue) : i # factory => queue'[i] = queue[i]
           /\ k = (IF queue[factory].queued # NoKey THEN queue[factory].queued
                   ELSE queue[factory].current)
           /\ k \in {key, next}
           /\ key \in {queue[factory].current, queue[factory].queued}
           /\ queue[factory].current # NoKey => key = queue[factory].current
<1> DEFINE q == queue[factory]
           k == IF q.queued # NoKey THEN q.queued ELSE q.current
           key == IF q.current = NoKey THEN k ELSE q.current
           next == IF q.current = NoKey THEN NoKey ELSE q.queued
<1>1. InPhase({"key"}) /\ factory \in 1 .. Len(queue)
  BY Typed DEF UseGroupKey, FactoryInv, InPhase, Placed
<1>2. q.current \in KeyOrNone /\ q.queued \in KeyOrNone
  BY <1>1, Sequences
<1>3. k # NoKey
  BY DEF UseGroupKey
<1>4. k \in Key /\ key \in Key /\ next \in KeyOrNone
  BY <1>2, <1>3 DEF KeyOrNone
<1>5. queue' = [queue EXCEPT ![factory] = [current |-> k, queued |-> NoKey]]
  BY DEF UseGroupKey
<1>6. task' = [phase |-> "sign", ref |-> task.ref, prev |-> task.prev, key |-> key, next |-> next]
  BY DEF UseGroupKey, Ready
<1>7. /\ queue' \in Seq(KeyQueue) /\ Len(queue') = Len(queue)
      /\ queue'[factory].current = k /\ queue'[factory].queued = NoKey
      /\ \A i \in 1 .. Len(queue) : i # factory => queue'[i] = queue[i]
  <2> k \in KeyOrNone
    BY <1>4 DEF KeyOrNone
  <2> HIDE DEF k
  <2> QED
    BY <1>1, <1>5, TakenFacts
<1>8. k \in {key, next} /\ key \in {q.current, q.queued} /\ (q.current # NoKey => key = q.current)
  OBVIOUS
<1>9. k = (IF queue[factory].queued # NoKey THEN queue[factory].queued ELSE queue[factory].current)
  OBVIOUS
<1> HIDE DEF k, key, next
<1> QED
  BY <1>1, <1>4, <1>6, <1>7, <1>8, <1>9

\* A key that was made is stored, and queued or used.
LEMMA UpdatedFacts ==
  ASSUME PublishTypeOK, NEW u, UpdateStored(u)
  PROVE  /\ u \in updates /\ u \in KeyUpdate /\ u.key \in Key /\ u.queue \in 1 .. Len(queue)
         /\ u.phase = "store" /\ Store(u.key) /\ updates' = updates \ {u}
         /\ queue' \in Seq(KeyQueue) /\ Len(queue') = Len(queue)
         /\ queue'[u.queue].current = (IF u.kind = "rotate" THEN queue[u.queue].current ELSE u.key)
         /\ queue'[u.queue].queued = (IF u.kind = "rotate" THEN u.key ELSE NoKey)
         /\ \A i \in 1 .. Len(queue) : i # u.queue => queue'[i] = queue[i]
<1>1. u \in updates /\ u.phase = "store" /\ Store(u.key) /\ updates' = updates \ {u}
  BY DEF UpdateStored
<1>2. u \in KeyUpdate /\ u.key \in Key /\ u.queue \in 1 .. Len(queue)
  BY <1>1, Typed DEF KeyUpdate
<1> DEFINE old == queue[u.queue]
           e == IF u.kind = "rotate" THEN [old EXCEPT !.queued = u.key]
                ELSE [current |-> u.key, queued |-> NoKey]
<1>3. old \in KeyQueue /\ u.key \in KeyOrNone
  BY <1>2, Sequences, QueueEntries
<1>4. /\ e \in KeyQueue /\ e.current = (IF u.kind = "rotate" THEN old.current ELSE u.key)
      /\ e.queued = (IF u.kind = "rotate" THEN u.key ELSE NoKey)
  BY <1>3, QueueEntries DEF KeyQueue
<1>5. queue' = [queue EXCEPT ![u.queue] = e]
  BY DEF UpdateStored
<1> HIDE DEF e
<1> QED
  BY <1>1, <1>2, <1>4, <1>5, QueueSet

\* Waking changes only the phase of a pipeline that waits.
LEMMA WokenFacts ==
  ASSUME NEW f \in [Pipeline -> Place], NEW S
  PROVE  /\ Woken(f, S) \in [Pipeline -> Place]
         /\ \A p \in Pipeline :
              /\ Woken(f, S)[p].next = f[p].next
              /\ Woken(f, S)[p].phase =
                   IF f[p].phase = "wait" /\ sent[f[p].next].key \in S THEN "idle" ELSE f[p].phase
<1> DEFINE g(p) == IF f[p].phase = "wait" /\ sent[f[p].next].key \in S
                   THEN [f[p] EXCEPT !.phase = "idle"] ELSE f[p]
<1>1. ASSUME NEW p \in Pipeline
      PROVE  /\ g(p) \in Place /\ g(p).next = f[p].next
             /\ g(p).phase = IF f[p].phase = "wait" /\ sent[f[p].next].key \in S
                             THEN "idle" ELSE f[p].phase
  <2>1. f[p] \in Place
    OBVIOUS
  <2> QED
    BY <2>1 DEF Place
<1>2. Woken(f, S) = [p \in Pipeline |-> g(p)]
  BY DEF Woken
<1> HIDE DEF g
<1> QED
  BY <1>1, <1>2

\* A pipeline that goes on to the next message.
LEMMA AdvanceFacts ==
  ASSUME NEW f \in [Pipeline -> Place], NEW p \in Pipeline
  PROVE  /\ Advance(f, p) \in [Pipeline -> Place]
         /\ Advance(f, p)[p].next = f[p].next + 1 /\ Advance(f, p)[p].phase = "idle"
         /\ \A o \in Pipeline \ {p} : Advance(f, p)[o] = f[o]
<1>1. f[p] \in Place
  OBVIOUS
<1>2. [next |-> f[p].next + 1, phase |-> "idle"] \in Place
  BY <1>1 DEF Place, Key
<1> QED
  BY <1>2 DEF Advance

\* What the steps of the subscriber leave alone.
PublisherSame ==
  /\ waiting' = waiting /\ task' = task /\ calls' = calls /\ ref' = ref /\ chainId' = chainId
  /\ queue' = queue /\ mapped' = mapped /\ factory' = factory /\ updates' = updates
  /\ keys' = keys /\ stored' = stored /\ latest' = latest /\ overlap' = overlap
  /\ rekeyed' = rekeyed /\ sent' = sent
  /\ failures' \in Nat /\ (failures' = 0 => failures = 0)

\* What the steps of the publisher leave alone.
SubscriberSame ==
  /\ known' = known /\ pipe' = pipe /\ responses' = responses
  /\ pendingRequests' = pendingRequests /\ failedMessages' = failedMessages
  /\ failures' \in Nat /\ (failures' = 0 => failures = 0)
  /\ requests' = requests \/ (requests' = {} /\ failures' # 0)
  /\ Len(sent') \in Nat /\ Len(sent) <= Len(sent')
  /\ \A i \in 1 .. Len(sent) : sent'[i] = sent[i]

LEMMA SubscriberLeaves ==
  ASSUME PublishTypeOK, SubscriberNext
  PROVE  PublisherSame
<1> USE DEF PublisherSame, publisher
<1>0. failures \in Nat
  BY Typed
<1>1. ASSUME NEW p \in Pipeline, Decrypt(p) \/ NotInStore(p) \/ RequestGroupKey(p) \/ KeyRequestTimeout(p)
      PROVE  PublisherSame
  BY <1>0, <1>1 DEF Decrypt, NotInStore, RequestGroupKey, KeyRequestTimeout
<1>2. ASSUME NEW r, Answer(r) \/ Respond(r) \/ ExchangeLost(r)
      PROVE  PublisherSame
  BY <1>0, <1>2 DEF Answer, Respond, ExchangeLost
<1> QED
  BY <1>1, <1>2 DEF SubscriberNext

-----------------------------------------------------------------------------
(* The exchange of keys.                                                   *)

\* What the steps of the exchange may use.
LEMMA ExchangeTyped ==
  ASSUME PublishTypeOK, ExchangeInv
  PROVE  /\ \A p \in Pipeline :
              /\ pipe[p] \in Place /\ pipe[p].next \in Key
              /\ pipe[p].phase \in {"idle", "request", "wait"}
              /\ pipe[p].phase # "idle" => pipe[p].next \in 1 .. Len(sent)
         /\ \A r \in pendingRequests :
              r \in KeyRequest /\ r.by \in Pipeline /\ r.of \in 1 .. Len(sent) /\ r.key \in Key
         /\ pipe \in [Pipeline -> Place] /\ Len(sent) \in Nat /\ failures \in Nat
         /\ known \subseteq Key
<1>1. pipe \in [Pipeline -> Place] /\ Len(sent) \in Nat /\ failures \in Nat /\ known \subseteq Key
  BY Typed, Sequences
<1>2. ASSUME NEW p \in Pipeline
      PROVE  /\ pipe[p] \in Place /\ pipe[p].next \in Key
             /\ pipe[p].phase \in {"idle", "request", "wait"}
             /\ pipe[p].phase # "idle" => pipe[p].next \in 1 .. Len(sent)
  <2>1. pipe[p] \in Place /\ AskInv(p)
    BY <1>1 DEF ExchangeInv
  <2> QED
    BY <1>1, <2>1 DEF Place, AskInv, Key
<1>3. ASSUME NEW r \in pendingRequests
      PROVE  r \in KeyRequest /\ r.by \in Pipeline /\ r.of \in 1 .. Len(sent) /\ r.key \in Key
  BY Typed DEF KeyRequest
<1> QED
  BY <1>1, <1>2, <1>3

\* The parts of the type invariant that the exchange may change.
LEMMA ExchangeTypes ==
  ASSUME PublishTypeOK, PublisherSame, known' \subseteq Key, pipe' \in [Pipeline -> Place],
         requests' \subseteq KeyRequest, responses' \subseteq KeyRequest,
         pendingRequests' \subseteq KeyRequest
  PROVE  PublishTypeOK'
<1>1. KeyRequest' = KeyRequest /\ KeyUpdate' = KeyUpdate
  BY DEF PublisherSame, KeyRequest, KeyUpdate
<1> QED
  BY <1>1, Typed DEF PublishTypeOK, PublisherSame

LEMMA DecryptKeeps ==
  ASSUME PublishTypeOK, ExchangeInv, NEW p \in Pipeline, Decrypt(p)
  PROVE  PublishTypeOK' /\ ExchangeInv'
<1> DEFINE announced == {Current(p).next} \ {NoKey}
<1>0. PublisherSame
  BY SubscriberLeaves DEF SubscriberNext
<1>1. /\ pipe[p].phase = "idle" /\ pipe[p].next <= Len(sent) /\ Current(p).key \in known
      /\ known' = known \cup announced /\ pipe' = Woken(Advance(pipe, p), announced)
      /\ requests' = requests /\ responses' = responses /\ pendingRequests' = pendingRequests
      /\ failedMessages' = failedMessages /\ failures' = failures /\ sent' = sent
  BY DEF Decrypt
<1>2. announced \subseteq Key
  <2>1. pipe[p].next \in 1 .. Len(sent)
    BY <1>1, ExchangeTyped DEF Key
  <2> QED
    BY <2>1, Sequences DEF Current, KeyOrNone
<1> HIDE DEF announced
<1>3. /\ pipe' \in [Pipeline -> Place]
      /\ pipe'[p].next = pipe[p].next + 1 /\ pipe'[p].phase = "idle"
      /\ \A o \in Pipeline \ {p} :
           /\ pipe'[o].next = pipe[o].next
           /\ pipe'[o].phase = IF pipe[o].phase = "wait" /\ sent[pipe[o].next].key \in announced
                               THEN "idle" ELSE pipe[o].phase
  <2> DEFINE f == Advance(pipe, p)
  <2>1. /\ f \in [Pipeline -> Place] /\ f[p].next = pipe[p].next + 1 /\ f[p].phase = "idle"
        /\ \A o \in Pipeline \ {p} : f[o] = pipe[o]
    BY AdvanceFacts, ExchangeTyped
  <2> HIDE DEF f
  <2>2. pipe' = Woken(f, announced)
    BY <1>1 DEF f
  <2> QED
    BY <2>1, <2>2, WokenFacts
<1>4. PublishTypeOK'
  BY <1>0, <1>1, <1>2, <1>3, ExchangeTypes, ExchangeTyped, Typed
<1>5. RequestsInv'
  <2>1. ASSUME NEW r \in pendingRequests
        PROVE  r.key = sent[r.of].key /\ r.of <= pipe'[r.by].next
    <3>1. r.key = sent[r.of].key /\ r.of <= pipe[r.by].next
      BY DEF ExchangeInv, RequestsInv
    <3> QED
      BY <3>1, <1>3, ExchangeTyped DEF Key
  <2> QED
    BY <1>1, <2>1 DEF ExchangeInv, RequestsInv
<1>6. ASSUME NEW o \in Pipeline
      PROVE  AskInv(o)'
  <2>1. AskInv(o) /\ \A r \in pendingRequests : r.key = sent[r.of].key /\ r.of <= pipe[r.by].next
    BY DEF ExchangeInv, RequestsInv
  <2>2. CASE o = p
    <3>1. Own(o)' = {}
      BY <1>1, <1>3, <2>1, <2>2, ExchangeTyped DEF Own, Key
    <3> QED
      BY <1>3, <2>2, <3>1 DEF AskInv
  <2>3. CASE o # p
    <3>1. Own(o)' = Own(o)
      BY <1>1, <1>3, <2>3 DEF Own
    <3>2. \A r \in Own(o) : r.key = sent[pipe[o].next].key
      BY <2>1 DEF Own
    <3> QED
      BY <1>1, <1>3, <2>1, <2>3, <3>1, <3>2 DEF AskInv
  <2> QED
    BY <2>2, <2>3
<1> QED
  BY <1>1, <1>4, <1>5, <1>6 DEF ExchangeInv

LEMMA NotInStoreKeeps ==
  ASSUME PublishTypeOK, ExchangeInv, NEW p \in Pipeline, NotInStore(p)
  PROVE  PublishTypeOK' /\ ExchangeInv'
<1>0. PublisherSame
  BY SubscriberLeaves DEF SubscriberNext
<1>1. /\ pipe[p].phase = "idle" /\ pipe[p].next <= Len(sent) /\ sent[pipe[p].next].key \notin known
      /\ pipe' = [pipe EXCEPT ![p] = [pipe[p] EXCEPT !.phase = "request"]]
      /\ known' = known /\ requests' = requests /\ responses' = responses
      /\ pendingRequests' = pendingRequests /\ failedMessages' = failedMessages
      /\ failures' = failures /\ sent' = sent
  BY DEF NotInStore, Current
<1>2. /\ pipe' \in [Pipeline -> Place] /\ pipe'[p].phase = "request"
      /\ \A o \in Pipeline : pipe'[o].next = pipe[o].next
      /\ \A o \in Pipeline \ {p} : pipe'[o] = pipe[o]
  <2>1. [pipe[p] EXCEPT !.phase = "request"] \in Place
    BY ExchangeTyped DEF Place
  <2>2. [pipe[p] EXCEPT !.phase = "request"].next = pipe[p].next
    BY ExchangeTyped DEF Place
  <2>3. [pipe[p] EXCEPT !.phase = "request"].phase = "request"
    BY ExchangeTyped DEF Place
  <2> QED
    BY <1>1, <2>1, <2>2, <2>3, ExchangeTyped
<1>3. PublishTypeOK'
  BY <1>0, <1>1, <1>2, ExchangeTypes, Typed
<1>4. RequestsInv'
  BY <1>1, <1>2, ExchangeTyped DEF ExchangeInv, RequestsInv
<1>5. ASSUME NEW o \in Pipeline
      PROVE  AskInv(o)'
  <2>1. AskInv(o) /\ \A r \in pendingRequests : r.key = sent[r.of].key
    BY DEF ExchangeInv, RequestsInv
  <2>2. Own(o)' = Own(o)
    BY <1>1, <1>2 DEF Own
  <2>3. CASE o = p
    <3>1. \A r \in Own(p) : r.key = sent[pipe[p].next].key
      BY <2>1 DEF Own
    <3>2. Own(p) = {}
      BY <1>1, <2>1, <2>3, <3>1 DEF AskInv
    <3> QED
      BY <1>1, <1>2, <2>2, <2>3, <3>2 DEF AskInv
  <2>4. CASE o # p
    BY <1>1, <1>2, <2>1, <2>2, <2>4 DEF AskInv
  <2> QED
    BY <2>3, <2>4
<1> QED
  BY <1>1, <1>3, <1>4, <1>5 DEF ExchangeInv

LEMMA RequestKeeps ==
  ASSUME PublishTypeOK, ExchangeInv, NEW p \in Pipeline, RequestGroupKey(p)
  PROVE  PublishTypeOK' /\ ExchangeInv'
<1> DEFINE r == [by |-> p, of |-> pipe[p].next, key |-> sent[pipe[p].next].key]
<1>0. PublisherSame
  BY SubscriberLeaves DEF SubscriberNext
<1>1. /\ pipe[p].phase = "request"
      /\ pipe' = [pipe EXCEPT ![p] = [pipe[p] EXCEPT !.phase = "wait"]]
      /\ requests' = requests \cup {r} /\ pendingRequests' = pendingRequests \cup {r}
      /\ known' = known /\ responses' = responses /\ failedMessages' = failedMessages
      /\ failures' = failures /\ sent' = sent
  BY DEF RequestGroupKey, Current
<1>2. /\ pipe' \in [Pipeline -> Place] /\ pipe'[p].phase = "wait"
      /\ \A o \in Pipeline : pipe'[o].next = pipe[o].next
      /\ \A o \in Pipeline \ {p} : pipe'[o] = pipe[o]
  <2>1. [pipe[p] EXCEPT !.phase = "wait"] \in Place
    BY ExchangeTyped DEF Place
  <2>2. [pipe[p] EXCEPT !.phase = "wait"].next = pipe[p].next
    BY ExchangeTyped DEF Place
  <2>3. [pipe[p] EXCEPT !.phase = "wait"].phase = "wait"
    BY ExchangeTyped DEF Place
  <2> QED
    BY <1>1, <2>1, <2>2, <2>3, ExchangeTyped
<1>3. r \in KeyRequest
  BY <1>1, ExchangeTyped, Sequences DEF KeyRequest
<1>4. r.by = p /\ r.of = pipe[p].next /\ r.key = sent[pipe[p].next].key
  OBVIOUS
<1>5. r \notin pendingRequests
  BY <1>1 DEF ExchangeInv, AskInv, Own
<1> HIDE DEF r
<1>6. PublishTypeOK'
  BY <1>0, <1>1, <1>2, <1>3, ExchangeTypes, Typed
<1>7. RequestsInv'
  <2>1. \A s \in pendingRequests \cup {r} : s.key = sent[s.of].key /\ s.of <= pipe'[s.by].next
    <3>1. pipe[p].next <= pipe[p].next
      BY ExchangeTyped DEF Key
    <3> QED
      BY <1>2, <1>4, <3>1, ExchangeTyped DEF ExchangeInv, RequestsInv
  <2> QED
    BY <1>1, <1>5, <2>1 DEF ExchangeInv, RequestsInv
<1>8. ASSUME NEW o \in Pipeline
      PROVE  AskInv(o)'
  <2>1. AskInv(o)
    BY DEF ExchangeInv
  <2>2. CASE o = p
    <3>1. r \in Own(p)'
      BY <1>1, <1>2, <1>4 DEF Own
    <3>2. pipe'[p].next <= Len(sent)
      BY <1>1, <1>2, <2>1, <2>2 DEF AskInv
    <3> QED
      BY <1>1, <1>2, <2>2, <3>1, <3>2 DEF AskInv
  <2>3. CASE o # p
    <3>1. Own(o)' = Own(o)
      BY <1>1, <1>2, <1>4, <2>3 DEF Own
    <3> QED
      BY <1>1, <1>2, <2>1, <2>3, <3>1 DEF AskInv
  <2> QED
    BY <2>2, <2>3
<1> QED
  BY <1>1, <1>6, <1>7, <1>8 DEF ExchangeInv

LEMMA TimeoutKeeps ==
  ASSUME PublishTypeOK, ExchangeInv, NEW p \in Pipeline, KeyRequestTimeout(p)
  PROVE  PublishTypeOK' /\ ExchangeInv'
<1>0. PublisherSame
  BY SubscriberLeaves DEF SubscriberNext
<1>1. /\ pipe[p].phase = "wait" /\ (\A r \in requests \cup responses : r.by # p)
      /\ pipe' = Advance(pipe, p) /\ known' = known /\ requests' = requests /\ responses' = responses
      /\ pendingRequests' = pendingRequests /\ failures' = failures /\ sent' = sent
  BY DEF KeyRequestTimeout
<1>2. /\ pipe' \in [Pipeline -> Place]
      /\ pipe'[p].next = pipe[p].next + 1 /\ pipe'[p].phase = "idle"
      /\ \A o \in Pipeline \ {p} : pipe'[o] = pipe[o]
  BY <1>1, AdvanceFacts, ExchangeTyped
<1>3. failures # 0
  <2>1. AskInv(p) /\ (\A r \in Own(p) : r.by = p)
    BY DEF ExchangeInv, Own
  <2> QED
    BY <1>1, <2>1 DEF AskInv
<1>4. PublishTypeOK'
  BY <1>0, <1>1, <1>2, ExchangeTypes, Typed
<1>5. RequestsInv'
  <2>1. ASSUME NEW r \in pendingRequests
        PROVE  r.key = sent[r.of].key /\ r.of <= pipe'[r.by].next
    <3>1. r.key = sent[r.of].key /\ r.of <= pipe[r.by].next
      BY DEF ExchangeInv, RequestsInv
    <3> QED
      BY <3>1, <1>2, ExchangeTyped DEF Key
  <2> QED
    BY <1>1, <2>1 DEF ExchangeInv, RequestsInv
<1>6. ASSUME NEW o \in Pipeline
      PROVE  AskInv(o)'
  <2>1. AskInv(o) /\ \A r \in pendingRequests : r.of <= pipe[r.by].next
    BY DEF ExchangeInv, RequestsInv
  <2>2. CASE o = p
    <3>1. Own(o)' = {}
      BY <1>1, <1>2, <2>1, <2>2, ExchangeTyped DEF Own, Key
    <3> QED
      BY <1>2, <2>2, <3>1 DEF AskInv
  <2>3. CASE o # p
    <3>1. Own(o)' = Own(o)
      BY <1>1, <1>2, <2>3 DEF Own
    <3> QED
      BY <1>1, <1>2, <2>1, <2>3, <3>1 DEF AskInv
  <2> QED
    BY <2>2, <2>3
<1> QED
  BY <1>1, <1>3, <1>4, <1>5, <1>6 DEF ExchangeInv

LEMMA AnswerKeeps ==
  ASSUME PublishTypeOK, ExchangeInv, StoredInv, NEW r, Answer(r)
  PROVE  PublishTypeOK' /\ ExchangeInv'
<1>0. PublisherSame
  BY SubscriberLeaves DEF SubscriberNext, Answer
<1>1. /\ r \in requests /\ requests' = requests \ {r}
      /\ pipe' = pipe /\ known' = known /\ pendingRequests' = pendingRequests
      /\ failedMessages' = failedMessages /\ failures' = failures /\ sent' = sent
  BY DEF Answer
<1>2. responses' = responses \cup {r}
  <2>1. r \in pendingRequests
    BY <1>1 DEF ExchangeInv, RequestsInv
  <2>2. r.key = sent[r.of].key /\ r.of \in 1 .. Len(sent)
    BY <2>1, ExchangeTyped DEF ExchangeInv, RequestsInv
  <2> QED
    BY <2>2 DEF Answer, StoredInv
<1>3. PublishTypeOK'
  <2>1. requests' \subseteq KeyRequest /\ responses' \subseteq KeyRequest
    BY <1>1, <1>2, Typed
  <2> QED
    BY <1>0, <1>1, <2>1, ExchangeTypes, Typed
<1>4. RequestsInv'
  BY <1>1, <1>2 DEF ExchangeInv, RequestsInv
<1>5. ASSUME NEW o \in Pipeline
      PROVE  AskInv(o)'
  BY <1>1, <1>2 DEF ExchangeInv, AskInv, Own
<1> QED
  BY <1>1, <1>3, <1>4, <1>5 DEF ExchangeInv

LEMMA RespondKeeps ==
  ASSUME PublishTypeOK, ExchangeInv, NEW r, Respond(r)
  PROVE  PublishTypeOK' /\ ExchangeInv'
<1>0. PublisherSame
  BY SubscriberLeaves DEF SubscriberNext, Respond
<1>1. r \in responses /\ r \in pendingRequests /\ r \notin requests
  BY DEF Respond, ExchangeInv, RequestsInv
<1>2. /\ responses' = responses \ {r} /\ pendingRequests' = pendingRequests \ {r}
      /\ known' = known \cup {r.key} /\ pipe' = Woken(pipe, {r.key})
      /\ requests' = requests /\ failedMessages' = failedMessages
      /\ failures' = failures /\ sent' = sent
  BY <1>1 DEF Respond
<1>3. /\ pipe' \in [Pipeline -> Place]
      /\ \A o \in Pipeline :
           /\ pipe'[o].next = pipe[o].next
           /\ pipe'[o].phase = IF pipe[o].phase = "wait" /\ sent[pipe[o].next].key = r.key
                               THEN "idle" ELSE pipe[o].phase
  BY <1>2, WokenFacts, ExchangeTyped
<1>4. PublishTypeOK'
  <2>1. known' \subseteq Key /\ responses' \subseteq KeyRequest /\ pendingRequests' \subseteq KeyRequest
    BY <1>1, <1>2, ExchangeTyped, Typed
  <2> QED
    BY <1>0, <1>2, <1>3, <2>1, ExchangeTypes, Typed
<1>5. RequestsInv'
  BY <1>1, <1>2, <1>3, ExchangeTyped DEF ExchangeInv, RequestsInv
<1>6. ASSUME NEW o \in Pipeline
      PROVE  AskInv(o)'
  <2>1. AskInv(o) /\ \A s \in pendingRequests : s.key = sent[s.of].key
    BY DEF ExchangeInv, RequestsInv
  <2>2. Own(o)' = Own(o) \ {r}
    BY <1>2, <1>3 DEF Own
  <2>3. \A s \in Own(o) : s.key = sent[pipe[o].next].key
    BY <2>1 DEF Own
  <2>4. CASE pipe[o].phase = "wait" /\ sent[pipe[o].next].key = r.key
    BY <1>2, <1>3, <2>2, <2>3, <2>4 DEF AskInv
  <2>5. CASE ~(pipe[o].phase = "wait" /\ sent[pipe[o].next].key = r.key)
    <3>1. pipe'[o].phase = pipe[o].phase
      BY <1>3, <2>5
    <3>2. pipe[o].phase = "wait" => r \notin Own(o)
      BY <2>3, <2>5
    <3>3. pipe'[o].phase # "idle" => pipe'[o].next <= Len(sent)
      BY <1>3, <2>1, <3>1 DEF AskInv
    <3>4. pipe'[o].phase = "idle" => \A s \in Own(o)' : s.key \in known'
      BY <1>2, <2>1, <2>2, <3>1 DEF AskInv
    <3>5. pipe'[o].phase = "request" => Own(o)' = {}
      BY <2>1, <2>2, <3>1 DEF AskInv
    <3>6. pipe'[o].phase = "wait" /\ failures = 0 => Own(o)' \cap (requests' \cup responses') # {}
      <4>1. SUFFICES ASSUME pipe[o].phase = "wait", failures = 0
                     PROVE  Own(o)' \cap (requests' \cup responses') # {}
        BY <3>1
      <4>2. PICK s \in Own(o) : s \in requests \cup responses
        BY <2>1, <4>1 DEF AskInv
      <4> QED
        BY <1>2, <2>2, <3>2, <4>1, <4>2
    <3> QED
      BY <1>2, <3>3, <3>4, <3>5, <3>6 DEF AskInv
  <2> QED
    BY <2>4, <2>5
<1> QED
  BY <1>2, <1>4, <1>5, <1>6 DEF ExchangeInv

LEMMA LostKeeps ==
  ASSUME PublishTypeOK, ExchangeInv, NEW r, ExchangeLost(r)
  PROVE  PublishTypeOK' /\ ExchangeInv'
<1>0. PublisherSame
  BY SubscriberLeaves DEF SubscriberNext, ExchangeLost
<1>1. /\ requests' = requests \ {r} /\ responses' = responses \ {r}
      /\ pipe' = pipe /\ known' = known /\ pendingRequests' = pendingRequests
      /\ failedMessages' = failedMessages /\ failures' = failures + 1 /\ sent' = sent
  BY DEF ExchangeLost
<1>2. failures' # 0
  BY <1>1, Typed
<1>3. PublishTypeOK'
  <2>1. requests' \subseteq KeyRequest /\ responses' \subseteq KeyRequest
    BY <1>1, Typed
  <2> QED
    BY <1>0, <1>1, <2>1, ExchangeTypes, Typed
<1>4. RequestsInv'
  BY <1>1 DEF ExchangeInv, RequestsInv
<1>5. ASSUME NEW o \in Pipeline
      PROVE  AskInv(o)'
  BY <1>1, <1>2 DEF ExchangeInv, AskInv, Own
<1> QED
  BY <1>2, <1>3, <1>4, <1>5 DEF ExchangeInv

\* Every step of the subscriber keeps the exchange of keys in order.
LEMMA SubscriberKeeps ==
  ASSUME PublishTypeOK, ExchangeInv, StoredInv, SubscriberNext
  PROVE  PublishTypeOK' /\ ExchangeInv'
<1>1. ASSUME NEW p \in Pipeline,
             Decrypt(p) \/ NotInStore(p) \/ RequestGroupKey(p) \/ KeyRequestTimeout(p)
      PROVE  PublishTypeOK' /\ ExchangeInv'
  BY <1>1, DecryptKeeps, NotInStoreKeeps, RequestKeeps, TimeoutKeeps
<1>2. ASSUME NEW r, Answer(r) \/ Respond(r) \/ ExchangeLost(r)
      PROVE  PublishTypeOK' /\ ExchangeInv'
  BY <1>2, AnswerKeeps, RespondKeeps, LostKeeps
<1> QED
  BY <1>1, <1>2 DEF SubscriberNext

\* The publisher does not disturb the exchange, but by a restart.
LEMMA ExchangeStays ==
  ASSUME PublishTypeOK, ExchangeInv, SubscriberSame
  PROVE  ExchangeInv'
<1> USE DEF SubscriberSame
<1>1. RequestsInv'
  BY ExchangeTyped DEF ExchangeInv, RequestsInv
<1>2. ASSUME NEW o \in Pipeline
      PROVE  AskInv(o)'
  <2>1. AskInv(o) /\ Own(o)' = Own(o)
    BY DEF ExchangeInv, Own
  <2> QED
    BY <2>1, ExchangeTyped DEF AskInv, Key
<1> QED
  BY <1>1, <1>2 DEF ExchangeInv

-----------------------------------------------------------------------------
(* The publisher.                                                          *)

\* What every step of the publisher keeps, beside the chain.
PublisherInv ==
  /\ PublishTypeOK /\ PlaceInv /\ FactoryInv /\ LoadInv /\ StoredInv /\ UseInv /\ LatestInv

\* What has been published stays as it is, but by Sent.
ChainSame == sent' = sent /\ rekeyed \subseteq rekeyed' /\ (failures' = 0 => failures = 0)

\* The parts of the type invariant that the publisher may change.
LEMMA PublisherTypes ==
  ASSUME PublishTypeOK, SubscriberSame,
         waiting' \in Seq(Timestamp), task' \in Task, ref' \in Ref,
         calls' \in Nat, chainId' \in Nat, keys' \in Nat,
         sent' \in Seq(ChainMessage), queue' \in Seq(KeyQueue), Len(queue') \in Nat,
         mapped' \in 0 .. Len(queue'), factory' \in 0 .. Len(queue'), updates' \subseteq KeyUpdate',
         stored' \subseteq Key, rekeyed' \subseteq Key, latest' \in KeyOrNone, overlap' \in BOOLEAN
  PROVE  PublishTypeOK'
<1>1. KeyRequest \subseteq KeyRequest'
  BY Sequences DEF SubscriberSame, KeyRequest
<1>2. /\ requests' \subseteq KeyRequest' /\ responses' \subseteq KeyRequest'
      /\ pendingRequests' \subseteq KeyRequest'
  BY <1>1, Typed DEF SubscriberSame
<1>3. known' \subseteq Key /\ pipe' \in [Pipeline -> Place] /\ failures' \in Nat
  BY Typed DEF SubscriberSame
<1> QED
  BY <1>2, <1>3 DEF PublishTypeOK

\* Updates stay typed while no queue goes away.
LEMMA UpdatesTyped ==
  ASSUME PublishTypeOK, Len(queue') \in Nat, Len(queue) <= Len(queue')
  PROVE  updates \subseteq KeyUpdate' /\ KeyUpdate \subseteq KeyUpdate'
<1>1. KeyUpdate \subseteq KeyUpdate'
  BY Sequences DEF KeyUpdate
<1> QED
  BY <1>1, Typed

LEMMA PublisherLeaves ==
  ASSUME PublishTypeOK, PublisherNext
  PROVE  SubscriberSame
<1> USE DEF SubscriberSame, subscriber
<1>0. failures \in Nat /\ Len(sent) \in Nat
  BY Typed, Sequences
<1>1. ASSUME NEW time, Publish(time)
      PROVE  SubscriberSame
  BY <1>0, <1>1 DEF Publish
<1>2. CASE Start \/ FactoryMade \/ Permitted \/ NotPermitted
  BY <1>0, <1>2 DEF Start, FactoryMade, Permitted, NotPermitted
<1>3. CASE UseGroupKey \/ FirstKey \/ FirstKeyStored
  BY <1>0, <1>3 DEF UseGroupKey, FirstKey, FirstKeyStored
<1>4. CASE Sent
  <2>1. task \in Task /\ InPhase({"sign"})
    BY <1>4, Typed DEF Sent, InPhase
  <2> DEFINE m == [chain |-> chainId, ref |-> task.ref, prev |-> task.prev,
                   key |-> task.key, next |-> task.next]
  <2>2. m \in ChainMessage
    BY <2>1, TaskTyped, Typed DEF ChainMessage, InPhase, Placed
  <2>3. sent' = Append(sent, m)
    BY <1>4 DEF Sent
  <2> HIDE DEF m
  <2> QED
    BY <1>0, <1>4, <2>2, <2>3, SentMore DEF Sent
<1>5. CASE PublishFails \/ Restart
  BY <1>0, <1>5 DEF PublishFails, Restart
<1>6. ASSUME NEW kind, Update(kind)
      PROVE  SubscriberSame
  BY <1>0, <1>6 DEF Update
<1>7. ASSUME NEW u, UpdateLoaded(u) \/ UpdateStored(u)
      PROVE  SubscriberSame
  BY <1>0, <1>7 DEF UpdateLoaded, UpdateStored
<1> QED
  BY <1>1, <1>2, <1>3, <1>4, <1>5, <1>6, <1>7 DEF PublisherNext

LEMMA PublishKeeps ==
  ASSUME PublisherInv, NEW time \in Timestamp, Publish(time)
  PROVE  PublisherInv' /\ ChainSame
<1> USE DEF PublisherInv
<1>0. SubscriberSame
  BY PublisherLeaves DEF PublisherNext, Timestamp
<1>1. /\ waiting' = Append(waiting, time) /\ calls' = calls + 1
      /\ task' = task /\ ref' = ref /\ chainId' = chainId /\ sent' = sent /\ queue' = queue
      /\ mapped' = mapped /\ factory' = factory /\ updates' = updates /\ keys' = keys
      /\ stored' = stored /\ latest' = latest /\ overlap' = overlap /\ rekeyed' = rekeyed
      /\ failures' = failures
  BY DEF Publish
<1>2. PublishTypeOK'
  <2>1. waiting' \in Seq(Timestamp)
    BY <1>1, Typed, AppendProperties
  <2> QED
    BY <1>0, <1>1, <2>1, Typed, Sequences, UpdatesTyped, PublisherTypes
<1>3. PlaceInv' /\ FactoryInv'
  BY <1>1 DEF PlaceInv, FactoryInv, Placed, InPhase, Last, Above
<1>4. LoadInv' /\ StoredInv'
  BY <1>1 DEF LoadInv, StoredInv, InPhase
<1>5. UseInv' /\ LatestInv'
  BY <1>1 DEF UseInv, LatestInv, InPhase, Last, Announced, Use
<1> QED
  BY <1>1, <1>2, <1>3, <1>4, <1>5 DEF ChainSame

\* A publish that ends without a message, before it got its place or because of a failure.
LEMMA GivenUpKeeps ==
  ASSUME PublisherInv, SubscriberSame, task' = Idle, failures' # 0 \/ ~Placed,
         ref' = ref, chainId' = chainId, sent' = sent, queue' = queue, mapped' = mapped,
         factory' = factory, updates' = updates, keys' = keys, stored' = stored,
         latest' = latest, overlap' = overlap, rekeyed' = rekeyed, waiting' = waiting, calls' = calls
  PROVE  PublisherInv' /\ ChainSame
<1> USE DEF PublisherInv
<1>0. failures' = 0 => failures = 0
  BY DEF SubscriberSame
<1>1. PublishTypeOK'
  BY Typed, TaskKinds, Sequences, UpdatesTyped, PublisherTypes
<1>2. ~Placed' /\ ~InPhase({"permission"})' /\ ~InPhase({"load"})' /\ ~InPhase({"sign"})'
      /\ ~InPhase({"rekey"})' /\ ~InPhase({"load", "rekey"})'
  BY DEF InPhase, Placed, Idle
<1>3. PlaceInv'
  BY <1>0, <1>2 DEF PlaceInv, Last
<1>4. FactoryInv' /\ LoadInv' /\ StoredInv' /\ LatestInv'
  BY <1>2 DEF FactoryInv, LoadInv, StoredInv, LatestInv, Use
<1>5. UseInv'
  BY <1>0, <1>2 DEF UseInv, Last, Announced, Placed, InPhase
<1> QED
  BY <1>0, <1>1, <1>3, <1>4, <1>5 DEF ChainSame

LEMMA FailsKeeps ==
  ASSUME PublisherInv, NotPermitted \/ PublishFails
  PROVE  PublisherInv' /\ ChainSame
<1>1. SubscriberSame
  BY PublisherLeaves DEF PublisherNext, PublisherInv
<1>2. CASE NotPermitted
  BY <1>1, <1>2, GivenUpKeeps DEF NotPermitted, Placed, InPhase
<1>3. CASE PublishFails
  <2>1. failures' # 0
    BY <1>3, Typed DEF PublishFails, PublisherInv
  <2> QED
    BY <1>1, <1>3, <2>1, GivenUpKeeps DEF PublishFails
<1> QED
  BY <1>2, <1>3

\* The next publish begins to load a queue.
LEMMA StartLoads ==
  ASSUME PublisherInv, Start, factory = 0, mapped = 0
  PROVE  PublisherInv' /\ ChainSame
<1> USE DEF PublisherInv
<1> DEFINE new == Len(queue) + 1
<1>0. SubscriberSame
  BY PublisherLeaves DEF PublisherNext
<1>1. /\ task = Idle /\ waiting # <<>> /\ waiting' = Tail(waiting)
      /\ queue' = Append(queue, EmptyQueue) /\ factory' = 0
      /\ task' = [phase |-> "load", time |-> Head(waiting), queue |-> new]
      /\ calls' = calls /\ ref' = ref /\ chainId' = chainId /\ sent' = sent
      /\ mapped' = mapped /\ updates' = updates /\ keys' = keys
      /\ stored' = stored /\ latest' = latest /\ rekeyed' = rekeyed
      /\ failures' = failures
  BY DEF Start
<1>2. overlap' \in BOOLEAN /\ (~overlap' => ~overlap /\ updates = {})
  <2>1. overlap' = (overlap \/ (task'.phase = "load" /\ updates # {}))
    BY DEF Start
  <2>2. task'.phase = "load"
    BY <1>1
  <2> QED
    BY <2>1, <2>2
<1>3. /\ queue' \in Seq(KeyQueue) /\ Len(queue') = new /\ queue'[new] = EmptyQueue
      /\ \A i \in 1 .. Len(queue) : queue'[i] = queue[i]
      /\ Len(queue) \in Nat /\ new \in Key /\ new \notin 1 .. Len(queue)
  BY <1>1, QueueMore, Sequences DEF Key
<1>4. waiting' \in Seq(Timestamp) /\ Head(waiting) \in Timestamp
  BY <1>1, Typed, HeadTailProperties
<1>5. \A u \in updates : u.queue \in 1 .. Len(queue)
  BY Typed DEF KeyUpdate
<1> HIDE DEF new
<1>6. PublishTypeOK'
  <2>1. task' \in Task
    BY <1>1, <1>3, <1>4, TaskKinds
  <2>2. Len(queue') \in Nat /\ Len(queue) <= Len(queue')
    BY <1>3 DEF new
  <2>3. mapped' \in 0 .. Len(queue') /\ factory' \in 0 .. Len(queue')
    BY <1>1, <2>2
  <2> QED
    BY <1>0, <1>1, <1>2, <1>3, <1>4, <2>1, <2>2, <2>3, Typed, UpdatesTyped, PublisherTypes
<1>7. task'.phase = "load" /\ task'.queue = new /\ ~Placed /\ ~Placed'
  BY <1>1 DEF Placed, InPhase, Idle
<1>8. PlaceInv'
  BY <1>1, <1>7 DEF PlaceInv, Last
<1>9. FactoryInv'
  BY <1>1, <1>3, <1>7 DEF FactoryInv, InPhase, new
<1>10. LoadInv'
  <2>1. \A u \in updates : u.phase = "load" => queue'[u.queue] = EmptyQueue
    BY <1>3, <1>5 DEF LoadInv
  <2>2. \A u \in updates : u.queue # new
    BY <1>3, <1>5
  <2>3. new # 0
    BY <1>3 DEF Key
  <2> QED
    BY <1>1, <1>3, <1>7, <2>1, <2>2, <2>3 DEF LoadInv, InPhase
<1>11. StoredInv'
  <2>1. \A i \in 1 .. new : {queue'[i].current, queue'[i].queued} \subseteq stored \cup {NoKey}
    <3>1. \A i \in 1 .. new : i = new \/ i \in 1 .. Len(queue)
      BY <1>3 DEF new
    <3> QED
      BY <1>3, <3>1 DEF StoredInv, EmptyQueue
  <2> QED
    BY <1>1, <1>3, <1>7, <2>1 DEF StoredInv, InPhase
<1>12. UseInv'
  BY <1>1, <1>7 DEF UseInv, InPhase, Last, Announced
<1>13. LatestInv'
  BY <1>1, <1>2, <1>7 DEF LatestInv, InPhase
<1> QED
  BY <1>1, <1>6, <1>8, <1>9, <1>10, <1>11, <1>12, <1>13 DEF ChainSame

\* The next publish has its factory, or the queue for one.
LEMMA StartGoesOn ==
  ASSUME PublisherInv, Start, ~(factory = 0 /\ mapped = 0)
  PROVE  PublisherInv' /\ ChainSame
<1> USE DEF PublisherInv
<1>0. SubscriberSame
  BY PublisherLeaves DEF PublisherNext
<1>1. /\ task = Idle /\ waiting # <<>> /\ waiting' = Tail(waiting)
      /\ factory' = (IF factory = 0 THEN mapped ELSE factory)
      /\ task' = [phase |-> "permission", time |-> Head(waiting)]
      /\ calls' = calls /\ ref' = ref /\ chainId' = chainId /\ sent' = sent /\ queue' = queue
      /\ mapped' = mapped /\ updates' = updates /\ keys' = keys
      /\ stored' = stored /\ latest' = latest /\ rekeyed' = rekeyed
      /\ failures' = failures
  BY DEF Start
<1>2. overlap' \in BOOLEAN /\ (~overlap' => ~overlap)
  BY DEF Start
<1>3. waiting' \in Seq(Timestamp) /\ Head(waiting) \in Timestamp
  BY <1>1, Typed, HeadTailProperties
<1>4. PublishTypeOK'
  <2>1. task' \in Task
    BY <1>1, <1>3, TaskKinds
  <2>2. factory' \in 0 .. Len(queue')
    BY <1>1, Typed
  <2> QED
    BY <1>0, <1>1, <1>2, <1>3, <2>1, <2>2, Typed, Sequences, UpdatesTyped, PublisherTypes
<1>5. task'.phase = "permission" /\ ~Placed /\ ~Placed' /\ factory' # 0
  BY <1>1 DEF Placed, InPhase, Idle
<1>6. PlaceInv' /\ FactoryInv'
  BY <1>1, <1>5 DEF PlaceInv, FactoryInv, InPhase, Last
<1>7. LoadInv' /\ StoredInv'
  BY <1>1, <1>5 DEF LoadInv, StoredInv, InPhase
<1>8. UseInv'
  BY <1>1, <1>5 DEF UseInv, InPhase, Last, Announced, Idle
<1>9. LatestInv'
  BY <1>1, <1>2, <1>5 DEF LatestInv, InPhase, Use
<1> QED
  BY <1>1, <1>4, <1>6, <1>7, <1>8, <1>9 DEF ChainSame

LEMMA FactoryMadeKeeps ==
  ASSUME PublisherInv, FactoryMade
  PROVE  PublisherInv' /\ ChainSame
<1> USE DEF PublisherInv
<1>0. SubscriberSame
  BY PublisherLeaves DEF PublisherNext
<1>1. /\ task.phase = "load" /\ Loaded(task.queue) /\ factory' = task.queue
      /\ task' = [phase |-> "permission", time |-> task.time]
      /\ waiting' = waiting /\ calls' = calls /\ ref' = ref /\ chainId' = chainId /\ sent' = sent
      /\ updates' = updates /\ keys' = keys /\ stored' = stored /\ latest' = latest
      /\ overlap' = overlap /\ rekeyed' = rekeyed /\ failures' = failures
  BY DEF FactoryMade
<1>2. /\ factory = 0 /\ task.queue \in 1 .. Len(queue) /\ task.queue # mapped
      /\ queue[task.queue] = EmptyQueue /\ \A u \in updates : u.queue # task.queue
  BY <1>1 DEF FactoryInv, LoadInv, InPhase
<1> DEFINE q == task.queue
<1>3. /\ queue' \in Seq(KeyQueue) /\ Len(queue') = Len(queue) /\ mapped' = q
      /\ queue'[q].current = latest /\ queue'[q].queued = NoKey
      /\ \A i \in 1 .. Len(queue) : i # q => queue'[i] = queue[i]
  BY <1>1, <1>2, LoadedFacts DEF EmptyQueue
<1>4. \A u \in updates : u.queue \in 1 .. Len(queue)
  BY Typed DEF KeyUpdate
<1>5. task.time \in Timestamp
  BY <1>1, Typed, TaskTyped DEF InPhase
<1> HIDE DEF q
<1>6. PublishTypeOK'
  <2>1. task' \in Task
    BY <1>1, <1>5, TaskKinds
  <2>2. mapped' \in 0 .. Len(queue') /\ factory' \in 0 .. Len(queue')
    BY <1>1, <1>2, <1>3, Sequences DEF q
  <2> QED
    BY <1>0, <1>1, <1>3, <2>1, <2>2, Typed, Sequences, UpdatesTyped, PublisherTypes
<1>7. task'.phase = "permission" /\ ~Placed /\ ~Placed' /\ factory' # 0 /\ factory' = q /\ mapped' = q
  BY <1>1, <1>2, <1>3, Sequences DEF Placed, InPhase, q
<1>8. PlaceInv' /\ FactoryInv'
  BY <1>1, <1>7 DEF PlaceInv, FactoryInv, InPhase, Last
<1>9. LoadInv'
  <2>1. \A u \in updates : u.phase = "load" => queue'[u.queue] = EmptyQueue /\ u.queue # q
    BY <1>2, <1>3, <1>4 DEF LoadInv, q
  <2> QED
    BY <1>1, <1>7, <2>1 DEF LoadInv, InPhase
<1>10. StoredInv'
  <2>1. \A i \in 1 .. Len(queue) : {queue'[i].current, queue'[i].queued} \subseteq stored \cup {NoKey}
    BY <1>3 DEF StoredInv
  <2> QED
    BY <1>1, <1>3, <1>7, <2>1 DEF StoredInv, InPhase
<1>11. UseInv'
  BY <1>1, <1>2, <1>7 DEF UseInv, InPhase, Last, Announced
<1>12. LatestInv'
  BY <1>1, <1>2, <1>3, <1>7 DEF LatestInv, InPhase, Use
<1> QED
  BY <1>1, <1>6, <1>8, <1>9, <1>10, <1>11, <1>12 DEF ChainSame

\* The reference of a message is above the one before it.
LEMMA NextRefAbove ==
  ASSUME ref \in Ref, NEW time \in Timestamp, ~(time < ref[1])
  PROVE  NextRef(time) \in Ref /\ Above(NextRef(time), ref)
<1>1. ref[1] \in Nat /\ ref[2] \in Nat
  BY DEF Ref
<1>2. time \in Nat
  BY PublishingAssumption DEF Timestamp
<1> QED
  BY <1>1, <1>2 DEF NextRef, Above, Ref

LEMMA AboveAbove ==
  ASSUME NEW a \in Ref, NEW b \in Ref, NEW c \in Ref, Above(a, b), Above(b, c)
  PROVE  Above(a, c)
<1>1. {a[1], a[2], b[1], b[2], c[1], c[2]} \subseteq Nat
  BY DEF Ref
<1> QED
  BY <1>1 DEF Above

LEMMA PermittedKeeps ==
  ASSUME PublisherInv, Permitted
  PROVE  PublisherInv' /\ ChainSame
<1> USE DEF PublisherInv
<1>0. SubscriberSame
  BY PublisherLeaves DEF PublisherNext
<1>1. /\ task.phase = "permission"
      /\ waiting' = waiting /\ calls' = calls /\ chainId' = chainId /\ sent' = sent
      /\ queue' = queue /\ mapped' = mapped /\ factory' = factory
      /\ updates' = updates /\ keys' = keys /\ stored' = stored /\ latest' = latest
      /\ overlap' = overlap /\ rekeyed' = rekeyed /\ failures' = failures
  BY DEF Permitted
<1>2. CASE task.time < ref[1]
  <2>1. task' = Idle /\ ref' = ref
    BY <1>2 DEF Permitted
  <2> QED
    BY <1>0, <1>1, <2>1, GivenUpKeeps DEF Placed, InPhase
<1>3. CASE ~(task.time < ref[1])
  <2> DEFINE new == NextRef(task.time)
  <2>1. ref' = new /\ task' = [phase |-> "key", ref |-> new, prev |-> ref]
    BY <1>3 DEF Permitted
  <2>2. ref \in Ref /\ task.time \in Timestamp
    BY <1>1, Typed, TaskTyped DEF InPhase
  <2>3. new \in Ref /\ Above(new, ref)
    BY <1>3, <2>2, NextRefAbove
  <2> HIDE DEF new
  <2>4. PublishTypeOK'
    <3>1. task' \in Task
      BY <2>1, <2>2, <2>3, TaskKinds
    <3> QED
      BY <1>0, <1>1, <2>1, <2>3, <3>1, Typed, Sequences, UpdatesTyped, PublisherTypes
  <2>5. task'.phase = "key" /\ task'.ref = new /\ task'.prev = ref /\ ~Placed /\ Placed'
    BY <1>1, <2>1 DEF Placed, InPhase
  <2>6. PlaceInv'
    <3>1. ASSUME sent # <<>>, Last.chain = chainId
          PROVE  Above(new, Last.ref)
      <4>1. Last.ref \in Ref
        BY <3>1, Sequences DEF Last
      <4>2. ref = Last.ref \/ Above(ref, Last.ref)
        BY <2>5, <3>1 DEF PlaceInv
      <4> QED
        BY <2>2, <2>3, <4>1, <4>2, AboveAbove
    <3>2. sent # <<>> /\ failures = 0 => Last.ref = ref
      BY <2>5 DEF PlaceInv
    <3>3. Last' = Last
      BY <1>1 DEF Last
    <3>4. \A i \in 1 .. Len(sent) : sent[i].chain <= chainId
      BY DEF PlaceInv
    <3> QED
      BY <1>1, <2>1, <2>5, <3>1, <3>2, <3>3, <3>4 DEF PlaceInv
  <2>7. FactoryInv' /\ LoadInv' /\ StoredInv'
    BY <1>1, <2>5 DEF FactoryInv, LoadInv, StoredInv, InPhase
  <2>8. UseInv' /\ LatestInv'
    BY <1>1, <2>5 DEF UseInv, LatestInv, InPhase, Last, Announced, Use
  <2> QED
    BY <1>1, <2>4, <2>6, <2>7, <2>8 DEF ChainSame
<1> QED
  BY <1>2, <1>3

\* What holds of the entry of each update.
LEMMA UpdateTyped ==
  ASSUME PublishTypeOK
  PROVE  \A u \in updates :
           /\ u \in KeyUpdate /\ u.queue \in 1 .. Len(queue) /\ u.key \in Key
           /\ u.kind \in {"rotate", "rekey"} /\ u.phase \in {"load", "store"}
BY Typed DEF KeyUpdate

LEMMA UseGroupKeyKeeps ==
  ASSUME PublisherInv, UseGroupKey
  PROVE  PublisherInv' /\ ChainSame
<1> USE DEF PublisherInv
<1>0. SubscriberSame
  BY PublisherLeaves DEF PublisherNext
<1>1. /\ waiting' = waiting /\ calls' = calls /\ ref' = ref /\ chainId' = chainId /\ sent' = sent
      /\ mapped' = mapped /\ factory' = factory /\ updates' = updates /\ keys' = keys
      /\ stored' = stored /\ latest' = latest /\ overlap' = overlap /\ rekeyed' = rekeyed
      /\ failures' = failures
  BY DEF UseGroupKey
<1>2. PICK k \in Key, key \in Key, next \in KeyOrNone :
        /\ InPhase({"key"}) /\ factory \in 1 .. Len(queue)
        /\ task' = [phase |-> "sign", ref |-> task.ref, prev |-> task.prev,
                    key |-> key, next |-> next]
        /\ queue' \in Seq(KeyQueue) /\ Len(queue') = Len(queue)
        /\ queue'[factory].current = k /\ queue'[factory].queued = NoKey
        /\ \A i \in 1 .. Len(queue) : i # factory => queue'[i] = queue[i]
        /\ k = (IF queue[factory].queued # NoKey THEN queue[factory].queued
                ELSE queue[factory].current)
        /\ k \in {key, next}
        /\ key \in {queue[factory].current, queue[factory].queued}
        /\ queue[factory].current # NoKey => key = queue[factory].current
  BY UseFacts
<1>3. NoKey \notin Key
  BY QueueEntries
<1>4. /\ task'.phase = "sign" /\ task'.ref = task.ref /\ task'.prev = task.prev
      /\ task'.key = key /\ task'.next = next
      /\ Placed /\ Placed' /\ task.ref \in Ref /\ task.prev \in Ref
      /\ task.phase = "key" /\ factory # 0
  BY <1>2, Typed, TaskTyped DEF InPhase, Placed
<1>5. PublishTypeOK'
  <2>1. task' \in Task
    BY <1>2, <1>4, TaskKinds
  <2> QED
    BY <1>0, <1>1, <1>2, <2>1, Typed, Sequences, UpdatesTyped, PublisherTypes
<1>6. PlaceInv' /\ FactoryInv'
  BY <1>1, <1>4 DEF PlaceInv, FactoryInv, InPhase, Last
<1>7. LoadInv'
  <2>1. \A u \in updates : u.phase = "load" => u.queue # factory /\ queue'[u.queue] = EmptyQueue
    BY <1>2, UpdateTyped DEF LoadInv
  <2> QED
    BY <1>1, <1>4, <2>1 DEF LoadInv, InPhase
<1>8. key \in stored /\ k \in stored
  BY <1>2, <1>3 DEF StoredInv
<1>9. StoredInv'
  <2>1. \A i \in 1 .. Len(queue) : {queue'[i].current, queue'[i].queued} \subseteq stored \cup {NoKey}
    BY <1>2, <1>8 DEF StoredInv
  <2> QED
    BY <1>1, <1>2, <1>4, <1>8, <2>1 DEF StoredInv
<1>10. UseInv'
  <2>1. queue'[factory].current # NoKey /\ queue'[factory].current \in {key, next}
    BY <1>2, <1>3
  <2>2. ASSUME failures = 0, sent # <<>>
        PROVE  Announced(Last, key)
    BY <1>2, <1>4, <2>2 DEF UseInv, InPhase
  <2> QED
    BY <1>1, <1>4, <2>1, <2>2 DEF UseInv, InPhase, Last, Announced
<1>11. LatestInv'
  <2>1. ~overlap => mapped = factory /\ latest = Use(queue[factory])
    BY <1>4 DEF LatestInv
  <2>2. k = Use(queue[factory])
    BY <1>2 DEF Use
  <2>3. Use(queue'[factory]) = k
    BY <1>2 DEF Use
  <2> QED
    BY <1>1, <1>4, <2>1, <2>2, <2>3 DEF LatestInv, InPhase, Use
<1> QED
  BY <1>1, <1>5, <1>6, <1>7, <1>9, <1>10, <1>11 DEF ChainSame

LEMMA FirstKeyKeeps ==
  ASSUME PublisherInv, FirstKey
  PROVE  PublisherInv' /\ ChainSame
<1> USE DEF PublisherInv
<1>0. SubscriberSame
  BY PublisherLeaves DEF PublisherNext
<1>1. /\ task.phase = "key" /\ queue[factory] = EmptyQueue /\ keys' = keys + 1
      /\ task' = [phase |-> "rekey", ref |-> task.ref, prev |-> task.prev, key |-> keys']
      /\ rekeyed' = rekeyed \cup {keys'}
      /\ waiting' = waiting /\ calls' = calls /\ ref' = ref /\ chainId' = chainId /\ sent' = sent
      /\ queue' = queue /\ mapped' = mapped /\ factory' = factory
      /\ updates' = updates /\ stored' = stored /\ latest' = latest /\ failures' = failures
  BY DEF FirstKey
<1>2. overlap' \in BOOLEAN /\ (~overlap' => ~overlap /\ updates = {})
  BY DEF FirstKey
<1>3. keys' \in Key /\ task.ref \in Ref /\ task.prev \in Ref
  BY <1>1, Typed, TaskTyped DEF InPhase, Placed, Key
<1>4. /\ task'.phase = "rekey" /\ task'.ref = task.ref /\ task'.prev = task.prev
      /\ task'.key = keys' /\ Placed /\ Placed' /\ ~InPhase({"sign"}) /\ ~InPhase({"sign"})'
  BY <1>1 DEF InPhase, Placed
<1>5. PublishTypeOK'
  <2>1. task' \in Task
    BY <1>1, <1>3, TaskKinds
  <2>2. keys' \in Nat /\ rekeyed' \subseteq Key
    BY <1>1, <1>3, Typed DEF Key
  <2> QED
    BY <1>0, <1>1, <1>2, <2>1, <2>2, Typed, Sequences, UpdatesTyped, PublisherTypes
<1>6. PlaceInv' /\ FactoryInv'
  BY <1>1, <1>4 DEF PlaceInv, FactoryInv, InPhase, Last
<1>7. LoadInv' /\ StoredInv'
  BY <1>1, <1>4 DEF LoadInv, StoredInv, InPhase
<1>8. UseInv'
  BY <1>1, <1>4 DEF UseInv, InPhase, Last, Announced, EmptyQueue
<1>9. LatestInv'
  BY <1>1, <1>2, <1>4 DEF LatestInv, InPhase, Use
<1> QED
  BY <1>1, <1>5, <1>6, <1>7, <1>8, <1>9 DEF ChainSame

LEMMA FirstKeyStoredKeeps ==
  ASSUME PublisherInv, FirstKeyStored
  PROVE  PublisherInv' /\ ChainSame
<1> USE DEF PublisherInv
<1>0. SubscriberSame
  BY PublisherLeaves DEF PublisherNext
<1>1. /\ task.phase = "rekey" /\ latest' = task.key /\ stored' = stored \cup {task.key}
      /\ queue' = [queue EXCEPT ![factory] = [current |-> task.key, queued |-> NoKey]]
      /\ task' = [phase |-> "sign", ref |-> task.ref, prev |-> task.prev,
                  key |-> task.key, next |-> NoKey]
      /\ waiting' = waiting /\ calls' = calls /\ ref' = ref /\ chainId' = chainId /\ sent' = sent
      /\ mapped' = mapped /\ factory' = factory /\ updates' = updates /\ keys' = keys
      /\ overlap' = overlap /\ rekeyed' = rekeyed /\ failures' = failures
  BY DEF FirstKeyStored, Store, Ready
<1>2. /\ task.key \in Key /\ task.ref \in Ref /\ task.prev \in Ref
      /\ factory \in 1 .. Len(queue) /\ factory # 0 /\ task.key \in rekeyed
      /\ NoKey \in KeyOrNone /\ NoKey \notin Key /\ task.key \in KeyOrNone
  BY <1>1, Typed, TaskTyped, Sequences, QueueEntries DEF InPhase, Placed, FactoryInv, UseInv
<1>3. /\ queue' \in Seq(KeyQueue) /\ Len(queue') = Len(queue)
      /\ queue'[factory].current = task.key /\ queue'[factory].queued = NoKey
      /\ \A i \in 1 .. Len(queue) : i # factory => queue'[i] = queue[i]
  BY <1>1, <1>2, TakenFacts
<1>4. /\ task'.phase = "sign" /\ task'.ref = task.ref /\ task'.prev = task.prev
      /\ task'.key = task.key /\ Placed /\ Placed'
  BY <1>1 DEF InPhase, Placed
<1>5. PublishTypeOK'
  <2>1. task' \in Task
    BY <1>1, <1>2, TaskKinds
  <2>2. stored' \subseteq Key /\ latest' \in KeyOrNone
    BY <1>1, <1>2, Typed
  <2> QED
    BY <1>0, <1>1, <1>3, <2>1, <2>2, Typed, Sequences, UpdatesTyped, PublisherTypes
<1>6. PlaceInv' /\ FactoryInv'
  BY <1>1, <1>4 DEF PlaceInv, FactoryInv, InPhase, Last, Placed
<1>7. LoadInv'
  <2>1. \A u \in updates : u.phase = "load" => u.queue # factory /\ queue'[u.queue] = EmptyQueue
    BY <1>3, UpdateTyped DEF LoadInv
  <2> QED
    BY <1>1, <1>4, <2>1 DEF LoadInv, InPhase
<1>8. StoredInv'
  <2>1. \A i \in 1 .. Len(queue) : {queue'[i].current, queue'[i].queued} \subseteq stored' \cup {NoKey}
    BY <1>1, <1>3 DEF StoredInv
  <2> QED
    BY <1>1, <1>3, <1>4, <2>1 DEF StoredInv
<1>9. UseInv'
  BY <1>1, <1>2, <1>3, <1>4 DEF UseInv, InPhase, Last, Announced
<1>10. LatestInv'
  <2>1. ~overlap => mapped = factory
    BY <1>2 DEF LatestInv
  <2>2. Use(queue'[factory]) = task.key
    BY <1>3 DEF Use
  <2> QED
    BY <1>1, <1>2, <1>4, <2>1, <2>2 DEF LatestInv, InPhase, Use
<1> QED
  BY <1>1, <1>5, <1>6, <1>7, <1>8, <1>9, <1>10 DEF ChainSame

\* An update of the key begins, with a queue to be loaded.
LEMMA UpdateLoads ==
  ASSUME PublisherInv, NEW kind \in {"rotate", "rekey"}, Update(kind), mapped = 0
  PROVE  PublisherInv' /\ ChainSame
<1> USE DEF PublisherInv
<1> DEFINE new == Len(queue) + 1
           n == [key |-> keys', kind |-> kind, queue |-> new, phase |-> "load"]
<1>0. SubscriberSame
  BY PublisherLeaves DEF PublisherNext
<1>1. /\ keys' = keys + 1 /\ queue' = Append(queue, EmptyQueue) /\ updates' = updates \cup {n}
      /\ rekeyed' = (IF kind = "rekey" THEN rekeyed \cup {keys'} ELSE rekeyed)
      /\ waiting' = waiting /\ task' = task /\ calls' = calls /\ ref' = ref /\ chainId' = chainId
      /\ sent' = sent /\ mapped' = mapped /\ factory' = factory
      /\ stored' = stored /\ latest' = latest /\ failures' = failures
  BY DEF Update
<1>2. /\ overlap' \in BOOLEAN
      /\ ~overlap' => ~overlap /\ updates = {} /\ task.phase \notin {"load", "rekey"}
  BY DEF Update
<1>3. /\ queue' \in Seq(KeyQueue) /\ Len(queue') = new /\ queue'[new] = EmptyQueue
      /\ \A i \in 1 .. Len(queue) : queue'[i] = queue[i]
      /\ Len(queue) \in Nat /\ new \in 1 .. new /\ new \notin 1 .. Len(queue)
  BY <1>1, QueueMore, Sequences
<1>4. /\ keys' \in Key /\ keys' \in Nat
      /\ factory \in 0 .. Len(queue) /\ factory # new /\ mapped # new
      /\ factory # 0 => factory \in 1 .. Len(queue)
  BY <1>1, <1>3, Typed DEF Key
<1>5. n.key = keys' /\ n.kind = kind /\ n.queue = new /\ n.phase = "load"
  OBVIOUS
<1>6. PublishTypeOK'
  <2>1. Len(queue') \in Nat /\ Len(queue) <= Len(queue')
    BY <1>3
  <2>2. n \in KeyUpdate'
    BY <1>3, <1>4 DEF KeyUpdate
  <2> HIDE DEF n, new
  <2>3. updates' \subseteq KeyUpdate'
    BY <1>1, <2>1, <2>2, UpdatesTyped
  <2>4. mapped' \in 0 .. Len(queue') /\ factory' \in 0 .. Len(queue')
    BY <1>1, <1>4, <2>1, Typed
  <2>5. rekeyed' \subseteq Key
    BY <1>1, <1>4, Typed
  <2> QED
    BY <1>0, <1>1, <1>2, <1>3, <1>4, <2>1, <2>3, <2>4, <2>5, Typed, PublisherTypes
<1> HIDE DEF n, new
<1>7. PlaceInv'
  BY <1>1 DEF PlaceInv, InPhase, Placed, Last
<1>8. FactoryInv'
  <2>1. InPhase({"load"}) => task.queue \in 1 .. Len(queue')
    BY <1>3 DEF FactoryInv, new
  <2> QED
    BY <1>1, <2>1 DEF FactoryInv, InPhase, Placed
<1>9. LoadInv'
  <2>1. \A u \in updates : u.queue # new /\ (u.phase = "load" => queue'[u.queue] = EmptyQueue)
    BY <1>3, UpdateTyped DEF LoadInv
  <2>2. InPhase({"load"}) => task.queue # new /\ queue'[task.queue] = EmptyQueue
    BY <1>3 DEF LoadInv, FactoryInv
  <2> QED
    BY <1>1, <1>3, <1>4, <1>5, <2>1, <2>2 DEF LoadInv, InPhase
<1>10. StoredInv'
  <2>1. \A i \in 1 .. new : {queue'[i].current, queue'[i].queued} \subseteq stored \cup {NoKey}
    <3>1. \A i \in 1 .. new : i = new \/ i \in 1 .. Len(queue)
      BY <1>3 DEF new
    <3> QED
      BY <1>3, <3>1 DEF StoredInv, EmptyQueue
  <2> QED
    BY <1>1, <1>3, <2>1 DEF StoredInv, InPhase
<1>11. UseInv'
  <2>1. factory # 0 => queue'[factory] = queue[factory]
    BY <1>3, <1>4
  <2>2. InPhase({"sign"}) => factory # 0
    BY DEF FactoryInv, InPhase, Placed
  <2>3. \A u \in updates' : u.kind = "rekey" => u.key \in rekeyed'
    BY <1>1, <1>5 DEF UseInv
  <2> QED
    BY <1>1, <2>1, <2>2, <2>3 DEF UseInv, InPhase, Last, Announced
<1>12. LatestInv'
  BY <1>1, <1>2, <1>5 DEF LatestInv, InPhase
<1> QED
  BY <1>1, <1>6, <1>7, <1>8, <1>9, <1>10, <1>11, <1>12 DEF ChainSame

\* An update of the key begins, with the queue there is.
LEMMA UpdateStores ==
  ASSUME PublisherInv, NEW kind \in {"rotate", "rekey"}, Update(kind), mapped # 0
  PROVE  PublisherInv' /\ ChainSame
<1> USE DEF PublisherInv
<1> DEFINE n == [key |-> keys', kind |-> kind, queue |-> mapped, phase |-> "store"]
<1>0. SubscriberSame
  BY PublisherLeaves DEF PublisherNext
<1>1. /\ keys' = keys + 1 /\ queue' = queue /\ updates' = updates \cup {n}
      /\ rekeyed' = (IF kind = "rekey" THEN rekeyed \cup {keys'} ELSE rekeyed)
      /\ waiting' = waiting /\ task' = task /\ calls' = calls /\ ref' = ref /\ chainId' = chainId
      /\ sent' = sent /\ mapped' = mapped /\ factory' = factory
      /\ stored' = stored /\ latest' = latest /\ failures' = failures
  BY DEF Update
<1>2. /\ overlap' \in BOOLEAN
      /\ ~overlap' => ~overlap /\ updates = {} /\ task.phase \notin {"load", "rekey"}
  BY DEF Update
<1>3. keys' \in Key /\ keys' \in Nat /\ mapped \in 1 .. Len(queue) /\ Len(queue) \in Nat
  BY <1>1, Typed, Sequences DEF Key
<1>4. n.key = keys' /\ n.kind = kind /\ n.queue = mapped /\ n.phase = "store"
  OBVIOUS
<1>5. PublishTypeOK'
  <2>1. n \in KeyUpdate'
    BY <1>1, <1>3 DEF KeyUpdate
  <2> HIDE DEF n
  <2>2. updates' \subseteq KeyUpdate'
    BY <1>1, <1>3, <2>1, UpdatesTyped
  <2>3. rekeyed' \subseteq Key
    BY <1>1, <1>3, Typed
  <2> QED
    BY <1>0, <1>1, <1>2, <1>3, <2>2, <2>3, Typed, PublisherTypes
<1> HIDE DEF n
<1>6. PlaceInv' /\ FactoryInv'
  BY <1>1 DEF PlaceInv, FactoryInv, InPhase, Placed, Last
<1>7. LoadInv' /\ StoredInv'
  BY <1>1, <1>4 DEF LoadInv, StoredInv, InPhase
<1>8. UseInv'
  <2>1. \A u \in updates' : u.kind = "rekey" => u.key \in rekeyed'
    BY <1>1, <1>4 DEF UseInv
  <2> QED
    BY <1>1, <2>1 DEF UseInv, InPhase, Last, Announced
<1>9. LatestInv'
  BY <1>1, <1>2, <1>4 DEF LatestInv, InPhase, Use
<1> QED
  BY <1>1, <1>5, <1>6, <1>7, <1>8, <1>9 DEF ChainSame

LEMMA UpdateLoadedKeeps ==
  ASSUME PublisherInv, NEW u, UpdateLoaded(u)
  PROVE  PublisherInv' /\ ChainSame
<1> USE DEF PublisherInv
<1> DEFINE n == [u EXCEPT !.phase = "store"]
<1>0. SubscriberSame
  BY PublisherLeaves DEF PublisherNext, UpdateLoaded
<1>1. /\ u \in updates /\ u.phase = "load" /\ Loaded(u.queue)
      /\ updates' = (updates \ {u}) \cup {n}
      /\ waiting' = waiting /\ task' = task /\ calls' = calls /\ ref' = ref /\ chainId' = chainId
      /\ sent' = sent /\ factory' = factory /\ keys' = keys /\ stored' = stored
      /\ latest' = latest /\ overlap' = overlap /\ rekeyed' = rekeyed /\ failures' = failures
  BY DEF UpdateLoaded
<1>2. /\ u \in KeyUpdate /\ u.queue \in 1 .. Len(queue) /\ u.queue # 0
      /\ u.queue \notin {factory, mapped} /\ queue[u.queue] = EmptyQueue
      /\ \A v \in updates \ {u} : v.queue # u.queue
  BY <1>1, UpdateTyped, Sequences DEF LoadInv
<1>3. /\ queue' \in Seq(KeyQueue) /\ Len(queue') = Len(queue) /\ mapped' = u.queue
      /\ queue'[u.queue].current = latest /\ queue'[u.queue].queued = NoKey
      /\ \A i \in 1 .. Len(queue) : i # u.queue => queue'[i] = queue[i]
  BY <1>1, <1>2, LoadedFacts DEF EmptyQueue
<1>4. /\ n \in KeyUpdate /\ n.key = u.key /\ n.kind = u.kind /\ n.queue = u.queue
      /\ n.phase = "store"
  BY <1>2 DEF KeyUpdate
<1> HIDE DEF n
<1>5. PublishTypeOK'
  <2>1. updates' \subseteq KeyUpdate'
    BY <1>1, <1>3, <1>4, Sequences, UpdatesTyped
  <2>2. mapped' \in 0 .. Len(queue') /\ factory' \in 0 .. Len(queue')
    BY <1>1, <1>2, <1>3, Typed
  <2> QED
    BY <1>0, <1>1, <1>3, <2>1, <2>2, Typed, Sequences, PublisherTypes
<1>6. PlaceInv' /\ FactoryInv'
  BY <1>1, <1>3 DEF PlaceInv, FactoryInv, InPhase, Placed, Last
<1>7. LoadInv'
  <2>1. \A v \in updates \ {u} : v.phase = "load" => queue'[v.queue] = EmptyQueue
    BY <1>2, <1>3, UpdateTyped DEF LoadInv
  <2>2. InPhase({"load"}) => task.queue # u.queue /\ queue'[task.queue] = EmptyQueue
    BY <1>1, <1>2, <1>3 DEF LoadInv, FactoryInv
  <2> QED
    BY <1>1, <1>2, <1>3, <1>4, <2>1, <2>2 DEF LoadInv, InPhase
<1>8. StoredInv'
  <2>1. \A i \in 1 .. Len(queue) : {queue'[i].current, queue'[i].queued} \subseteq stored \cup {NoKey}
    BY <1>3 DEF StoredInv
  <2> QED
    BY <1>1, <1>3, <2>1 DEF StoredInv, InPhase
<1>9. UseInv'
  <2>1. factory # 0 => queue'[factory] = queue[factory]
    BY <1>2, <1>3, Typed, Sequences
  <2>2. InPhase({"sign"}) => factory # 0
    BY DEF FactoryInv, InPhase, Placed
  <2>3. \A v \in updates' : v.kind = "rekey" => v.key \in rekeyed
    BY <1>1, <1>4 DEF UseInv
  <2> QED
    BY <1>1, <2>1, <2>2, <2>3 DEF UseInv, InPhase, Last, Announced
<1>10. LatestInv'
  <2>1. SUFFICES ASSUME ~overlap
                 PROVE  LatestInv'
    BY <1>1 DEF LatestInv
  <2>2. updates = {u} /\ mapped = 0 /\ factory = 0
    BY <1>1, <2>1 DEF LatestInv
  <2>3. updates' = {n}
    BY <1>1, <2>2
  <2> QED
    BY <1>1, <1>2, <1>3, <1>4, <2>1, <2>2, <2>3 DEF LatestInv, InPhase, Use
<1> QED
  BY <1>1, <1>5, <1>6, <1>7, <1>8, <1>9, <1>10 DEF ChainSame

LEMMA UpdateStoredKeeps ==
  ASSUME PublisherInv, NEW u, UpdateStored(u)
  PROVE  PublisherInv' /\ ChainSame
<1> USE DEF PublisherInv
<1>0. SubscriberSame
  BY PublisherLeaves DEF PublisherNext, UpdateStored
<1>1. /\ waiting' = waiting /\ task' = task /\ calls' = calls /\ ref' = ref /\ chainId' = chainId
      /\ sent' = sent /\ mapped' = mapped /\ factory' = factory /\ keys' = keys
      /\ overlap' = overlap /\ rekeyed' = rekeyed /\ failures' = failures
  BY DEF UpdateStored
<1>2. /\ u \in updates /\ u.key \in Key /\ u.queue \in 1 .. Len(queue) /\ u.phase = "store"
      /\ latest' = u.key /\ stored' = stored \cup {u.key} /\ updates' = updates \ {u}
      /\ queue' \in Seq(KeyQueue) /\ Len(queue') = Len(queue)
      /\ queue'[u.queue].current = (IF u.kind = "rotate" THEN queue[u.queue].current ELSE u.key)
      /\ queue'[u.queue].queued = (IF u.kind = "rotate" THEN u.key ELSE NoKey)
      /\ \A i \in 1 .. Len(queue) : i # u.queue => queue'[i] = queue[i]
  BY UpdatedFacts DEF Store
<1>3. u.kind \in {"rotate", "rekey"} /\ NoKey \notin Key /\ u.key \in KeyOrNone /\ u.key # NoKey
  BY <1>2, UpdateTyped, QueueEntries
<1>4. PublishTypeOK'
  <2>1. stored' \subseteq Key /\ latest' \in KeyOrNone
    BY <1>2, <1>3, Typed
  <2>2. updates' \subseteq KeyUpdate'
    BY <1>2, Sequences, UpdatesTyped
  <2> QED
    BY <1>0, <1>1, <1>2, <2>1, <2>2, Typed, Sequences, PublisherTypes
<1>5. PlaceInv' /\ FactoryInv'
  BY <1>1, <1>2 DEF PlaceInv, FactoryInv, InPhase, Placed, Last
<1>6. LoadInv'
  <2>1. \A v \in updates : v.phase = "load" => v.queue # u.queue /\ queue'[v.queue] = EmptyQueue
    BY <1>2, UpdateTyped DEF LoadInv
  <2>2. InPhase({"load"}) => queue'[task.queue] = EmptyQueue
    BY <1>2 DEF LoadInv, FactoryInv
  <2> QED
    BY <1>1, <1>2, <2>1, <2>2 DEF LoadInv, InPhase
<1>7. StoredInv'
  <2>1. \A i \in 1 .. Len(queue) : {queue'[i].current, queue'[i].queued} \subseteq stored' \cup {NoKey}
    BY <1>2 DEF StoredInv
  <2> QED
    BY <1>1, <1>2, <2>1 DEF StoredInv, InPhase
<1>8. UseInv'
  <2>1. ASSUME factory # 0
        PROVE  \/ queue'[factory].current = queue[factory].current
               \/ queue'[factory].current \in rekeyed /\ queue'[factory].current # NoKey
    <3>1. CASE factory = u.queue
      BY <1>2, <1>3, <3>1 DEF UseInv
    <3>2. CASE factory # u.queue
      BY <1>2, <2>1, <3>2, Typed, Sequences
    <3> QED
      BY <3>1, <3>2
  <2>2. InPhase({"sign"}) => factory # 0
    BY DEF FactoryInv, InPhase, Placed
  <2> QED
    BY <1>1, <1>2, <2>1, <2>2 DEF UseInv, InPhase, Last, Announced
<1>9. LatestInv'
  <2>1. SUFFICES ASSUME ~overlap
                 PROVE  LatestInv'
    BY <1>1 DEF LatestInv
  <2>2. updates = {u} /\ mapped = u.queue /\ ~InPhase({"load", "rekey"})
    BY <1>2, <2>1 DEF LatestInv
  <2>3. updates' = {} /\ Use(queue'[u.queue]) = u.key
    BY <1>2, <1>3, <2>2 DEF Use
  <2> QED
    BY <1>1, <1>2, <2>1, <2>2, <2>3 DEF LatestInv, InPhase
<1> QED
  BY <1>1, <1>4, <1>5, <1>6, <1>7, <1>8, <1>9 DEF ChainSame

LEMMA RestartKeeps ==
  ASSUME PublisherInv, Restart
  PROVE  PublisherInv' /\ ChainSame
<1> USE DEF PublisherInv
<1>0. SubscriberSame
  BY PublisherLeaves DEF PublisherNext
<1>1. /\ failures' = failures + 1 /\ waiting' = <<>> /\ task' = Idle /\ ref' = NoMessageRef
      /\ chainId' = chainId + 1 /\ queue' = <<>> /\ mapped' = 0 /\ factory' = 0 /\ updates' = {}
      /\ calls' = calls /\ sent' = sent /\ keys' = keys /\ stored' = stored
      /\ latest' = latest /\ overlap' = overlap /\ rekeyed' = rekeyed
  BY DEF Restart
<1>2. failures' # 0
  BY <1>1, Typed
<1>3. Len(queue') = 0 /\ queue' \in Seq(KeyQueue) /\ waiting' \in Seq(Timestamp)
  BY <1>1, EmptySeq
<1>4. PublishTypeOK'
  <2>1. ref' \in Ref /\ task' \in Task /\ chainId' \in Nat
    BY <1>1, Typed, TaskKinds DEF NoMessageRef, Ref
  <2>2. mapped' \in 0 .. Len(queue') /\ factory' \in 0 .. Len(queue') /\ updates' \subseteq KeyUpdate'
    BY <1>1, <1>3
  <2> QED
    BY <1>0, <1>1, <1>3, <2>1, <2>2, Typed, PublisherTypes
<1>5. ~Placed' /\ task'.phase = "idle"
  BY <1>1 DEF Placed, InPhase, Idle
<1>6. PlaceInv'
  <2>1. \A i \in 1 .. Len(sent) : sent[i].chain <= chainId /\ sent[i].chain < chainId'
    BY <1>1, Typed, Sequences DEF PlaceInv
  <2>2. sent # <<>> => Last.chain < chainId'
    BY <2>1, Sequences DEF Last
  <2>3. sent # <<>> => Last.chain \in Nat
    BY Sequences DEF Last
  <2>4. ASSUME NEW i \in 1 .. Len(sent)
        PROVE  sent[i].chain <= chainId'
    <3>1. sent[i].chain \in Nat /\ chainId \in Nat /\ sent[i].chain <= chainId
      BY <2>1, Typed, Sequences
    <3> QED
      BY <1>1, <3>1
  <2>5. chainId' \in Nat
    BY <1>1, Typed
  <2>6. ~(sent # <<>> /\ Last.chain = chainId')
    BY <2>2, <2>3, <2>5
  <2> QED
    BY <1>1, <1>2, <1>5, <2>4, <2>6 DEF PlaceInv, Last
<1>7. FactoryInv' /\ LoadInv' /\ LatestInv'
  BY <1>1, <1>5 DEF FactoryInv, LoadInv, LatestInv, InPhase
<1>8. StoredInv' /\ UseInv'
  BY <1>1, <1>2, <1>3, <1>5 DEF StoredInv, UseInv, InPhase
<1> QED
  BY <1>1, <1>2, <1>4, <1>6, <1>7, <1>8 DEF ChainSame

\* A message joins the chain: above the last one, behind it, with a key that was announced.
LEMMA SentKeeps ==
  ASSUME PublisherInv, ChainIsLinear, NewKeysAreAnnounced, Sent
  PROVE  PublisherInv' /\ ChainIsLinear' /\ NewKeysAreAnnounced'
<1> USE DEF PublisherInv
<1> DEFINE m == [chain |-> chainId, ref |-> task.ref, prev |-> task.prev,
                 key |-> task.key, next |-> task.next]
           n == Len(sent)
<1>0. SubscriberSame
  BY PublisherLeaves DEF PublisherNext
<1>1. /\ task.phase = "sign" /\ sent' = Append(sent, m) /\ task' = Idle
      /\ waiting' = waiting /\ calls' = calls /\ ref' = ref /\ chainId' = chainId
      /\ queue' = queue /\ mapped' = mapped /\ factory' = factory /\ updates' = updates
      /\ keys' = keys /\ stored' = stored /\ latest' = latest /\ overlap' = overlap
      /\ rekeyed' = rekeyed /\ failures' = failures
  BY DEF Sent
<1>2. /\ task.ref \in Ref /\ task.prev \in Ref /\ task.key \in Key /\ task.next \in KeyOrNone
      /\ InPhase({"sign"}) /\ Placed
  BY <1>1, Typed, TaskTyped DEF InPhase, Placed
<1>3. m \in ChainMessage
  BY <1>2, Typed DEF ChainMessage
<1>4. /\ m.chain = chainId /\ m.ref = task.ref /\ m.prev = task.prev
      /\ m.key = task.key /\ m.next = task.next
  OBVIOUS
<1> HIDE DEF m
<1>5. /\ sent' \in Seq(ChainMessage) /\ Len(sent') = n + 1 /\ sent' # <<>>
      /\ sent'[n + 1] = m /\ (\A i \in 1 .. n : sent'[i] = sent[i]) /\ n \in Nat
  BY <1>1, <1>3, SentMore, Sequences
<1>6. Last' = m
  BY <1>5 DEF Last
<1>7. ~Placed' /\ task'.phase = "idle"
  BY <1>1 DEF Placed, InPhase, Idle
<1>8. \A i \in 1 .. n + 1 : i = n + 1 \/ i \in 1 .. n
  BY <1>5
<1>9. PublishTypeOK'
  BY <1>0, <1>1, <1>5, Typed, TaskKinds, Sequences, UpdatesTyped, PublisherTypes
<1>10. PlaceInv'
  <2>1. ASSUME NEW i \in 1 .. n + 1
        PROVE  sent'[i].chain <= chainId
    <3>1. CASE i = n + 1
      <4>1. chainId <= chainId
        BY Typed
      <4> QED
        BY <1>4, <1>5, <3>1, <4>1
    <3>2. CASE i \in 1 .. n
      <4>1. sent[i].chain <= chainId
        BY <3>2 DEF PlaceInv
      <4> QED
        BY <1>5, <3>2, <4>1
    <3> QED
      BY <1>8, <3>1, <3>2
  <2>2. task.ref = ref
    BY <1>2 DEF PlaceInv
  <2> QED
    BY <1>1, <1>4, <1>5, <1>6, <1>7, <2>1, <2>2 DEF PlaceInv
<1>11. FactoryInv' /\ LoadInv' /\ LatestInv'
  BY <1>1, <1>7 DEF FactoryInv, LoadInv, LatestInv, InPhase, Use
<1>12. StoredInv'
  <2>1. \A i \in 1 .. n + 1 : sent'[i].key \in stored
    BY <1>2, <1>4, <1>5, <1>8 DEF StoredInv
  <2> QED
    BY <1>1, <1>5, <1>7, <2>1 DEF StoredInv, InPhase
<1>13. UseInv'
  <2>1. factory # 0 /\ queue[factory].current # NoKey /\ Announced(m, queue[factory].current)
    BY <1>2, <1>4 DEF UseInv, FactoryInv, Announced
  <2> QED
    BY <1>1, <1>6, <1>7, <2>1 DEF UseInv, InPhase, Announced
<1>14. \A i \in 2 .. n + 1 : i = n + 1 \/ (i \in 2 .. n /\ i - 1 \in 1 .. n /\ i \in 1 .. n)
  BY <1>5
<1>15. n + 1 \in 2 .. n + 1 => n > 0 /\ sent # <<>> /\ sent'[n] = Last /\ Last \in ChainMessage
  <2>1. n + 1 \in 2 .. n + 1 => n > 0 /\ n \in 1 .. n
    BY <1>5
  <2> QED
    BY <1>5, <2>1, Sequences DEF Last
<1>16. ASSUME n + 1 \in 2 .. n + 1
       PROVE  /\ Last.chain = m.chain =>
                   Above(m.ref, Last.ref) /\ (failures = 0 => m.prev = Last.ref)
              /\ failures = 0 => Announced(Last, m.key)
  BY <1>2, <1>4, <1>15, <1>16 DEF PlaceInv, UseInv
<1>17. (n + 1) - 1 = n
  BY <1>5
<1>18. ChainIsLinear'
  <2>1. ASSUME NEW i \in 2 .. n + 1, sent'[i - 1].chain = sent'[i].chain
        PROVE  /\ Above(sent'[i].ref, sent'[i - 1].ref)
               /\ failures = 0 => sent'[i].prev = sent'[i - 1].ref
    <3>1. CASE i = n + 1
      BY <1>5, <1>15, <1>16, <1>17, <2>1, <3>1
    <3>2. CASE i # n + 1
      <4>1. /\ i \in 2 .. n /\ i - 1 \in 1 .. n /\ i \in 1 .. n
            /\ sent'[i] = sent[i] /\ sent'[i - 1] = sent[i - 1]
        BY <1>5, <1>14, <3>2
      <4> QED
        BY <2>1, <4>1 DEF ChainIsLinear, Above
    <3> QED
      BY <3>1, <3>2
  <2> QED
    BY <1>1, <1>5, <2>1 DEF ChainIsLinear, Above
<1>19. NewKeysAreAnnounced'
  <2>1. ASSUME NEW i \in 2 .. n + 1, sent'[i - 1].chain = sent'[i].chain,
               sent'[i - 1].key # sent'[i].key, failures = 0
        PROVE  sent'[i].key \in {sent'[i - 1].next} \cup rekeyed
    <3>1. CASE i = n + 1
      BY <1>5, <1>15, <1>16, <1>17, <2>1, <3>1 DEF Announced
    <3>2. CASE i # n + 1
      <4>1. /\ i \in 2 .. n /\ i - 1 \in 1 .. n /\ i \in 1 .. n
            /\ sent'[i] = sent[i] /\ sent'[i - 1] = sent[i - 1]
        BY <1>5, <1>14, <3>2
      <4> QED
        BY <2>1, <4>1 DEF NewKeysAreAnnounced
    <3> QED
      BY <3>1, <3>2
  <2> QED
    BY <1>1, <1>5, <2>1 DEF NewKeysAreAnnounced
<1> QED
  BY <1>9, <1>10, <1>11, <1>12, <1>13, <1>18, <1>19

-----------------------------------------------------------------------------
(* The theorems.                                                           *)

LEMMA PublisherKeeps ==
  ASSUME PublisherInv, PublisherNext, ~Sent
  PROVE  PublisherInv' /\ ChainSame
<1>1. ASSUME NEW time \in 1 .. MaxTimestamp, Publish(time)
      PROVE  PublisherInv' /\ ChainSame
  BY <1>1, PublishKeeps DEF Timestamp
<1>2. CASE Start
  BY <1>2, StartLoads, StartGoesOn
<1>3. CASE FactoryMade \/ Permitted \/ NotPermitted \/ PublishFails
  BY <1>3, FactoryMadeKeeps, PermittedKeeps, FailsKeeps
<1>4. CASE UseGroupKey \/ FirstKey \/ FirstKeyStored
  BY <1>4, UseGroupKeyKeeps, FirstKeyKeeps, FirstKeyStoredKeeps
<1>5. ASSUME NEW kind \in {"rotate", "rekey"}, Update(kind)
      PROVE  PublisherInv' /\ ChainSame
  BY <1>5, UpdateLoads, UpdateStores
<1>6. ASSUME NEW u, UpdateLoaded(u) \/ UpdateStored(u)
      PROVE  PublisherInv' /\ ChainSame
  BY <1>6, UpdateLoadedKeeps, UpdateStoredKeeps
<1>7. CASE Restart
  BY <1>7, RestartKeeps
<1> QED
  BY <1>1, <1>2, <1>3, <1>4, <1>5, <1>6, <1>7 DEF PublisherNext

\* What has been published stays in order.
LEMMA ChainStays ==
  ASSUME ChainIsLinear, NewKeysAreAnnounced, ChainSame
  PROVE  ChainIsLinear' /\ NewKeysAreAnnounced'
BY DEF ChainIsLinear, NewKeysAreAnnounced, ChainSame

\* The subscriber does not disturb the publisher.
LEMMA PublisherStays ==
  ASSUME PublisherInv, PublisherSame, PublishTypeOK'
  PROVE  PublisherInv' /\ ChainSame
<1> USE DEF PublisherInv, PublisherSame
<1>1. PlaceInv' /\ FactoryInv'
  BY DEF PlaceInv, FactoryInv, InPhase, Placed, Last
<1>2. LoadInv' /\ StoredInv' /\ LatestInv'
  BY DEF LoadInv, StoredInv, LatestInv, InPhase, Use
<1>3. UseInv'
  BY DEF UseInv, InPhase, Last, Announced
<1> QED
  BY <1>1, <1>2, <1>3 DEF ChainSame

\* Nothing is published, known or asked for in the beginning.
LEMMA InitKey == PublishInit => KeyInv
<1> SUFFICES ASSUME PublishInit
             PROVE  KeyInv
  OBVIOUS
<1>1. Len(sent) = 0 /\ Len(queue) = 0
  BY DEF PublishInit
<1>2. PublishTypeOK
  <2>1. /\ waiting \in Seq(Timestamp) /\ sent \in Seq(ChainMessage) /\ queue \in Seq(KeyQueue)
        /\ task \in Task /\ ref \in Ref
    BY TaskKinds, EmptySeq DEF PublishInit, NoMessageRef, Ref
  <2>2. pipe \in [Pipeline -> Place]
    BY DEF PublishInit, Place, Key
  <2>3. overlap \in BOOLEAN
    BY Zenon DEF PublishInit
  <2>4. /\ {calls, chainId, keys, failures} \subseteq Nat
        /\ {mapped, factory} \subseteq 0 .. Len(queue)
    BY <1>1 DEF PublishInit
  <2>5. /\ updates \subseteq KeyUpdate /\ stored \cup rekeyed \cup known \subseteq Key
        /\ latest \in KeyOrNone /\ requests \cup responses \cup pendingRequests \subseteq KeyRequest
    BY DEF PublishInit, KeyOrNone
  <2> QED
    BY <2>1, <2>2, <2>3, <2>4, <2>5 DEF PublishTypeOK
<1>3. ChainIsLinear /\ NewKeysAreAnnounced
  BY <1>1 DEF ChainIsLinear, NewKeysAreAnnounced
<1>4. PlaceInv /\ FactoryInv /\ LoadInv /\ LatestInv
  BY <1>1 DEF PublishInit, PlaceInv, FactoryInv, LoadInv, LatestInv, InPhase, Placed, Idle
<1>5. StoredInv /\ UseInv
  BY <1>1 DEF PublishInit, StoredInv, UseInv, InPhase, Idle
<1>6. ExchangeInv
  BY <1>1 DEF PublishInit, ExchangeInv, RequestsInv, AskInv, Own
<1> QED
  BY <1>2, <1>3, <1>4, <1>5, <1>6 DEF KeyInv

\* Every step of the publisher or the subscriber keeps keys, chain and requests in step.
THEOREM NextKey == KeyInv /\ [PublishNext]_publishVars => KeyInv'
<1> SUFFICES ASSUME KeyInv, [PublishNext]_publishVars
             PROVE  KeyInv'
  OBVIOUS
<1>0. PublisherInv /\ ExchangeInv /\ ChainIsLinear /\ NewKeysAreAnnounced /\ PublishTypeOK /\ StoredInv
  BY DEF KeyInv, PublisherInv
<1>1. SUFFICES PublisherInv' /\ ExchangeInv' /\ ChainIsLinear' /\ NewKeysAreAnnounced'
  BY DEF KeyInv, PublisherInv
<1>2. CASE PublisherNext
  <2>1. ExchangeInv'
    BY <1>0, <1>2, PublisherLeaves, ExchangeStays
  <2>2. CASE Sent
    BY <1>0, <2>1, <2>2, SentKeeps
  <2>3. CASE ~Sent
    BY <1>0, <1>2, <2>1, <2>3, PublisherKeeps, ChainStays
  <2> QED
    BY <2>2, <2>3
<1>3. CASE SubscriberNext
  BY <1>0, <1>3, SubscriberKeeps, SubscriberLeaves, PublisherStays, ChainStays
<1>4. CASE UNCHANGED publishVars
  <2>1. PublisherSame /\ SubscriberSame
    BY <1>0, <1>4, Typed, Sequences DEF publishVars, publisher, subscriber, PublisherSame, SubscriberSame
  <2>2. PublishTypeOK'
    <3>1. KeyRequest' = KeyRequest
      BY <2>1 DEF PublisherSame, KeyRequest
    <3>2. /\ known' = known /\ pipe' = pipe /\ requests' = requests /\ responses' = responses
          /\ pendingRequests' = pendingRequests
      BY <1>4 DEF publishVars, subscriber
    <3> QED
      BY <1>0, <2>1, <3>1, <3>2, Typed, ExchangeTypes
  <2> QED
    BY <1>0, <2>1, <2>2, PublisherStays, ChainStays, ExchangeStays
<1> QED
  BY <1>2, <1>3, <1>4 DEF PublishNext

\* What the invariant says of the chain, the keys and the messages that fail.
LEMMA KeyImplies == KeyInv => PublishingInv
<1> SUFFICES ASSUME KeyInv
             PROVE  PublishingInv
  OBVIOUS
<1>1. LatestIsUsed
  BY DEF KeyInv, LatestInv, LatestIsUsed, Use
<1>2. UsedKeysAreStored
  <2>1. DOMAIN sent = 1 .. Len(sent)
    BY Typed, LenProperties DEF KeyInv
  <2> QED
    BY <2>1 DEF KeyInv, StoredInv, UsedKeysAreStored
<1>3. FailsForAReason
  <2>1. failures \in Nat
    BY Typed DEF KeyInv
  <2> QED
    BY <2>1 DEF KeyInv, ExchangeInv, FailsForAReason
<1> QED
  BY <1>1, <1>2, <1>3 DEF KeyInv, PublishingInv, KeysInv

\* The messages of a publisher form a linear chain, their keys change in step with it and
\* are stored before they are used, and a subscriber that cannot decrypt a message has lost
\* a request or an answer, whatever publishes, rotations, rekeys, failures and restarts come
\* between (Publisher.ts, MessageFactory.ts, GroupKeyQueue.ts, GroupKeyManager.ts).
THEOREM KeysFollowTheChain == PublishSpec => []PublishingInv
<1>1. PublishSpec => []KeyInv
  BY InitKey, NextKey, PTL DEF PublishSpec
<1> QED
  BY <1>1, KeyImplies, PTL
=============================================================================
