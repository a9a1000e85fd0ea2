--------------------------- MODULE GapFillerProofs ---------------------------
(***************************************************************************)
(* Proofs about the ordering of a message chain and about gap filling, for *)
(* every set of messages, every order of arrivals and resolutions and      *)
(* every limit on the requests.                                            *)
(*                                                                         *)
(* Of the chain, everything follows from what a run of the consuming loop  *)
(* does (ConsumedFacts): it takes a prefix of the queue, and the head of   *)
(* what remains neither follows the latest message nor is to be given up.  *)
(* Of gap filling: that the chain under the tasks is used as its own       *)
(* specification says, so that what is proved of it carries over, and that *)
(* the open gap belongs to the current task.                               *)
(*                                                                         *)
(* And about the way of one message to its readers: what anybody holds is  *)
(* the message that was signed, but for the parts that are written in      *)
(* another way, and a reader changes only an object of its own.            *)
(***************************************************************************)
EXTENDS MCGapFiller, FiniteSetTheorems, FunctionTheorems, WellFoundedInduction, TLAPS

-----------------------------------------------------------------------------
(* Extrema.                                                                *)

\* A set of naturals that is not empty has a least element.
LEMMA MinExists ==
  ASSUME NEW S \in SUBSET Nat, S # {}
  PROVE  /\ Min(S) \in S
         /\ \A y \in S : Min(S) <= y
<1> DEFINE R == {ss \in Nat \X Nat : ss[1] < ss[2]}
<1>1. IsWellFoundedOn(R, Nat)
  BY NatLessThanWellFounded DEF OpToRel
<1>2. PICK x \in S : \A y \in S : ~(<<y, x>> \in R)
  BY <1>1, WFMin
<1>3. \A y \in S : ~(y < x)
  BY <1>2
<1>4. \A y \in S : x <= y
  BY <1>3
<1> QED
  BY <1>4 DEF Min

\* Higher elements do not change the least one.
LEMMA MinOfHigher ==
  ASSUME NEW S \in SUBSET Nat, S # {}, NEW T \in SUBSET Nat,
         \A k \in S, n \in T : k < n
  PROVE  Min(S \cup T) = Min(S)
<1> DEFINE a == Min(S)
           b == Min(S \cup T)
<1>1. a \in S /\ \A y \in S : a <= y
  BY MinExists
<1>2. b \in S \cup T /\ \A y \in S \cup T : b <= y
  <2>1. S \cup T \in SUBSET Nat /\ S \cup T # {}
    OBVIOUS
  <2> QED
    BY <2>1, MinExists
<1> HIDE DEF a, b
<1>3. a \in Nat /\ b \in Nat /\ b <= a
  BY <1>1, <1>2
<1>4. b \in S
  BY <1>1, <1>2, <1>3
<1>5. a = b
  BY <1>1, <1>3, <1>4
<1> QED
  BY <1>5 DEF a, b

\* A finite set of naturals has a greatest element: one of least cardinality
\* without any would lose no more than an element.
LEMMA MaxExists ==
  ASSUME NEW S \in SUBSET Nat, IsFiniteSet(S), S # {}
  PROVE  /\ Max(S) \in S
         /\ \A y \in S : y <= Max(S)
<1> DEFINE HasMax(T) == \E x \in T : \A y \in T : y <= x
           Bad == {T \in SUBSET Nat : IsFiniteSet(T) /\ T # {} /\ ~HasMax(T)}
           Sizes == {Cardinality(T) : T \in Bad}
<1>1. Sizes \in SUBSET Nat
  BY FS_CardinalityType
<1>2. Bad = {}
  <2> SUFFICES ASSUME Bad # {} PROVE FALSE
    OBVIOUS
  <2>1. /\ Min(Sizes) \in Sizes
        /\ \A k \in Sizes : Min(Sizes) <= k
    <3>1. Sizes # {}
      OBVIOUS
    <3> HIDE DEF Sizes
    <3> QED
      BY <3>1, <1>1, MinExists
  <2>2. PICK T \in Bad : Cardinality(T) = Min(Sizes)
    BY <2>1
  <2>3. PICK x \in T : TRUE
    OBVIOUS
  <2>4. /\ IsFiniteSet(T \ {x})
        /\ Cardinality(T \ {x}) = Cardinality(T) - 1
    BY <2>3, FS_RemoveElement
  <2>5. Cardinality(T) \in Nat
    BY FS_CardinalityType
  <2>6. T \ {x} \notin Bad
    <3>1. ASSUME T \ {x} \in Bad PROVE FALSE
      <4>1. Cardinality(T \ {x}) \in Sizes
        BY <3>1
      <4> HIDE DEF Sizes, Bad
      <4> QED
        BY <4>1, <2>1, <2>2, <2>4, <2>5
    <3> QED
      BY <3>1
  <2>7. CASE T \ {x} = {}
    <3>1. \A y \in T : y = x
      BY <2>7
    <3> QED
      BY <2>3, <3>1
  <2>8. CASE T \ {x} # {}
    <3>1. PICK z \in T \ {x} : \A y \in T \ {x} : y <= z
      BY <2>4, <2>6, <2>8
    <3>2. CASE x <= z
      BY <3>1, <3>2
    <3>3. CASE z <= x
      <4>1. \A y \in T : y <= x
        BY <3>1, <3>3
      <4> QED
        BY <2>3, <4>1
    <3> QED
      BY <3>1, <3>2, <3>3
  <2> QED
    BY <2>7, <2>8
<1>3. PICK x \in S : \A y \in S : y <= x
  BY <1>2
<1>4. \A y \in S : x >= y
  BY <1>3
<1> QED
  BY <1>4 DEF Max

-----------------------------------------------------------------------------
(* The consuming loop.                                                     *)

\* What the chain is in before a run of the loop over pool.
Consumable(pool) ==
  /\ last \in Nat
  /\ pool \subseteq Message /\ IsFiniteSet(pool)
  /\ \A m \in pool : m.number > last

\* The numbers of finitely many messages are finitely many naturals.
LEMMA NumbersFinite ==
  ASSUME NEW set \in SUBSET Message, IsFiniteSet(set)
  PROVE  Numbers(set) \in SUBSET Nat /\ IsFiniteSet(Numbers(set))
<1> DEFINE f == [m \in set |-> m.number]
<1>1. f \in Surjection(set, Numbers(set))
  BY DEF Surjection, Numbers
<1>2. \A m \in set : m.number \in Nat
  BY MessageAssumption
<1> QED
  BY <1>1, <1>2, FS_Surjection DEF Numbers

\* The number before m is the latest one or that of a lower message in pool.
LEMMA BeforeFacts ==
  ASSUME NEW pool, Consumable(pool), NEW m \in pool
  PROVE  /\ Before(pool, m) \in Nat
         /\ Before(pool, m) < m.number
         /\ Before(pool, m) >= last
         /\ Before(pool, m) = last \/ \E n \in pool : n.number = Before(pool, m)
         /\ \A n \in pool : n.number < m.number => n.number <= Before(pool, m)
<1> DEFINE below == {n \in Numbers(pool) : n < m.number}
<1>1. below \in SUBSET Nat /\ IsFiniteSet(below)
  BY NumbersFinite, FS_Subset DEF Consumable
<1>2. /\ {last} \cup below \in SUBSET Nat
      /\ IsFiniteSet({last} \cup below)
      /\ {last} \cup below # {}
  BY <1>1, FS_AddElement, FS_Union, FS_Singleton DEF Consumable
<1>3. /\ Before(pool, m) \in {last} \cup below
      /\ \A k \in {last} \cup below : k <= Before(pool, m)
  BY <1>2, MaxExists DEF Before
<1>4. last < m.number /\ m.number \in Nat
  BY MessageAssumption DEF Consumable
<1>5. Before(pool, m) \in Nat
  BY <1>2, <1>3
<1>6. Before(pool, m) < m.number
  BY <1>3, <1>4
<1>7. Before(pool, m) >= last
  BY <1>3, <1>5
<1>8. Before(pool, m) = last \/ \E n \in pool : n.number = Before(pool, m)
  BY <1>3 DEF Numbers
<1>9. \A n \in pool : n.number < m.number => n.number <= Before(pool, m)
  BY <1>3 DEF Numbers
<1> QED
  BY <1>5, <1>6, <1>7, <1>8, <1>9

\* The loop took a prefix of the queue up to the number prior, and stopped at a
\* head that does not follow prior and is not to be given up.
PrefixTaken(pool, to, taken, rest, prior) ==
  /\ taken \subseteq pool
  /\ prior \in Nat /\ prior >= last
  /\ \A m \in taken : m.number <= prior
  /\ prior = last \/ \E m \in taken : m.number = prior
  /\ \A m \in taken, n \in pool : n.number <= m.number => n \in taken
  /\ \A n \in rest : n.number > prior
  /\ \A h \in rest : (\A n \in rest : h.number <= n.number) =>
       ~IsNext(h, prior) /\ ~UpTo(h, to)

\* This is what a run of the loop does.
LEMMA ConsumedFacts ==
  ASSUME NEW pool, Consumable(pool), NEW to \in Nat \cup {NoRef}
  PROVE  PrefixTaken(pool, to, Consumed(pool, to), pool \ Consumed(pool, to),
                     Max({last} \cup Numbers(Consumed(pool, to))))
<1> DEFINE taken == Consumed(pool, to)
           rest  == pool \ taken
           prior == Max({last} \cup Numbers(taken))
<1>1. taken \subseteq pool /\ taken \subseteq Message /\ IsFiniteSet(taken)
  BY FS_Subset DEF Consumed, Consumable
<1>2. /\ {last} \cup Numbers(taken) \in SUBSET Nat
      /\ IsFiniteSet({last} \cup Numbers(taken))
      /\ {last} \cup Numbers(taken) # {}
  BY <1>1, NumbersFinite, FS_Union, FS_Singleton DEF Consumable
<1>3. /\ prior \in {last} \cup Numbers(taken)
      /\ \A k \in {last} \cup Numbers(taken) : k <= prior
  BY <1>2, MaxExists
<1>4. prior \in Nat /\ prior >= last
  BY <1>2, <1>3
<1>5. \A m \in taken : m.number <= prior
  BY <1>3 DEF Numbers
<1>6. prior = last \/ \E m \in taken : m.number = prior
  BY <1>3 DEF Numbers
<1>7. \A m \in pool : m.number \in Nat /\ m.number > last
  BY MessageAssumption DEF Consumable
<1>8. \A m \in taken, n \in pool : n.number <= m.number => n \in taken
  BY <1>1, <1>7 DEF Consumed
<1>9. \A n \in rest : n.number > prior
  <2>1. ASSUME NEW n \in rest PROVE n.number > prior
    <3>1. n \in pool /\ n \notin taken /\ n.number \in Nat /\ n.number > last
      BY <1>7
    <3>2. \A m \in taken : n.number > m.number
      BY <3>1, <1>8, <1>7, <1>1
    <3> HIDE DEF taken, rest, prior
    <3> QED
      BY <3>1, <3>2, <1>6
  <2> QED
    BY <2>1
<1>10. ASSUME NEW h \in rest, \A n \in rest : h.number <= n.number
       PROVE  ~IsNext(h, prior) /\ ~UpTo(h, to)
  <2>1. PICK n \in pool : n.number <= h.number /\ ~(IsNext(n, Before(pool, n)) \/ UpTo(n, to))
    BY DEF Consumed
  <2>2. n \in rest
    BY <2>1, <1>7 DEF Consumed
  <2>3. n = h
    BY <1>10, <2>1, <2>2, <1>7, MessageAssumption DEF Consumable
  <2>4. Before(pool, h) = prior
    <3> DEFINE below == {k \in Numbers(pool) : k < h.number}
    <3>1. below = Numbers(taken)
      <4>1. ASSUME NEW k \in below PROVE k \in Numbers(taken)
        <5>1. PICK m \in pool : m.number = k /\ m.number < h.number
          BY DEF Numbers
        <5>2. m \notin rest
          BY <1>10, <5>1, <1>7
        <5> QED
          BY <5>1, <5>2 DEF Numbers
      <4>2. ASSUME NEW m \in taken PROVE m.number \in below
        <5>1. m.number <= prior /\ prior < h.number
          BY <1>5, <1>9
        <5>2. m.number < h.number
          BY <5>1, <1>4, <1>7, <1>1
        <5> QED
          BY <5>2, <1>1 DEF Numbers
      <4> QED
        BY <4>1, <4>2 DEF Numbers
    <3> QED
      BY <3>1 DEF Before
  <2> QED
    BY <2>1, <2>3, <2>4
<1> HIDE DEF taken, rest, prior
<1>11. PrefixTaken(pool, to, taken, rest, prior)
  BY <1>1, <1>4, <1>5, <1>6, <1>8, <1>9, <1>10 DEF PrefixTaken
<1> QED
  BY <1>11 DEF taken, rest, prior

-----------------------------------------------------------------------------
(* The invariant.                                                          *)

\* The latest number is the highest that was delivered, and 0 before any.
LatestIsHighest ==
  /\ \A k \in delivered : 0 < k /\ k <= last
  /\ last # 0 => last \in delivered

\* The steps of the chain keep this: types, the latest number, and what waits.
ChainInv ==
  /\ ChainTypeOK
  /\ IsFiniteSet(pending)
  /\ LatestIsHighest
  /\ NothingDeliverableWaits
  /\ GapIsOpen
  /\ NoSilentLoss

\* A chain starts without messages.
THEOREM InitChain == ChainInit => ChainInv
BY FS_EmptySet DEF ChainInit, ChainInv, ChainTypeOK, LatestIsHighest,
   NothingDeliverableWaits, GapIsOpen, NoSilentLoss

\* The head of a set of messages: its number is the least.
LEMMA HeadExists ==
  ASSUME NEW set \in SUBSET Message, set # {}
  PROVE  \E h \in set : /\ h.number = Min(Numbers(set))
                        /\ \A n \in set : h.number <= n.number
<1>1. Numbers(set) \in SUBSET Nat /\ Numbers(set) # {}
  BY MessageAssumption DEF Numbers
<1>2. /\ Min(Numbers(set)) \in Numbers(set)
      /\ \A k \in Numbers(set) : Min(Numbers(set)) <= k
  BY <1>1, MinExists
<1> QED
  BY <1>2 DEF Numbers

\* What a step does to the chain: only newer messages are delivered, and a gap
\* that is no longer the current one has been passed.
StepsForward ==
  /\ \A n \in delivered' \ delivered : n > last
  /\ last' >= last
  /\ gap # NoRef /\ gap' # gap => gap.to <= last'
  /\ delivered \subseteq delivered' /\ unfillable \subseteq unfillable'
  /\ \A g \in unfillable' \ unfillable : g.to \in delivered' \ delivered

\* A run of the loop keeps the invariant, when pool is what was pending or one
\* message more, and the gap check is left out only if nothing can remain.
LEMMA ConsumeInv ==
  ASSUME ChainInv, NEW pool, pending \subseteq pool, Consumable(pool),
         NEW to \in Nat \cup {NoRef}, NEW check \in BOOLEAN, check \/ to = NoRef,
         Consume(pool, to, check)
  PROVE  ChainInv' /\ StepsForward
<1> DEFINE taken == Consumed(pool, to)
           rest  == pool \ taken
           prior == Max({last} \cup Numbers(taken))
           open  == GapAfter(Numbers(taken))
           skips == {[from |-> Before(pool, m), to |-> m.number] :
                       m \in {n \in taken : ~IsNext(n, Before(pool, n))}}
<1>0. rest = pool \ taken /\ PrefixTaken(pool, to, taken, rest, prior)
  BY ConsumedFacts
<1>2. /\ pending' = rest
      /\ last' = prior
      /\ delivered' = delivered \cup Numbers(taken)
      /\ gap' = IF check THEN GapFound(open, prior, rest) ELSE open
      /\ unfillable' = unfillable \cup skips
  BY DEF Consume
<1>3. /\ pool \subseteq Message
      /\ \A m \in pool : m.number \in Nat /\ m.number > 0 /\ m.number > last
      /\ last \in Nat
  BY MessageAssumption DEF Consumable
<1>4. \A m \in pool : /\ Before(pool, m) \in Nat
                      /\ Before(pool, m) = last \/ \E n \in pool : n.number = Before(pool, m)
                      /\ Before(pool, m) < m.number
                      /\ Before(pool, m) >= last
  BY BeforeFacts
<1>8. open = NoRef \/ (open = gap /\ gap # NoRef /\ gap.to \notin Numbers(taken))
  BY DEF GapAfter
<1> HIDE DEF taken, rest, prior, open
<1>1. /\ taken \subseteq pool
      /\ prior \in Nat /\ prior >= last
      /\ \A m \in taken : m.number <= prior
      /\ prior = last \/ \E m \in taken : m.number = prior
      /\ \A m \in taken, n \in pool : n.number <= m.number => n \in taken
      /\ \A n \in rest : n.number > prior
      /\ \A h \in rest : (\A n \in rest : h.number <= n.number) =>
           ~IsNext(h, prior) /\ ~UpTo(h, to)
  BY <1>0 DEF PrefixTaken
<1>r. rest \subseteq pool
  BY <1>0
<1>d. delivered \subseteq Nat
  BY MessageAssumption DEF ChainInv, ChainTypeOK, Numbers
<1>5. ~check => rest = {}
  <2>1. ASSUME to = NoRef, rest # {} PROVE FALSE
    <3>1. PICK h \in rest : \A n \in rest : h.number <= n.number
      BY <2>1, <1>3, <1>r, HeadExists
    <3> QED
      BY <3>1, <2>1, <1>1 DEF UpTo
  <2> QED
    BY <2>1
<1>6. IsFiniteSet(pending')
  BY <1>2, <1>r, FS_Subset DEF Consumable
<1>7. LatestIsHighest'
  <2>1. ASSUME NEW k \in delivered' PROVE 0 < k /\ k <= last'
    <3>1. CASE k \in delivered
      <4>1. k \in Nat /\ 0 < k /\ k <= last
        BY <3>1, <1>d DEF ChainInv, LatestIsHighest
      <4>2. last <= prior /\ last' = prior
        BY <1>1, <1>2
      <4> QED
        BY <4>1, <4>2, <1>1, <1>3
    <3>2. CASE k \in Numbers(taken)
      <4>1. PICK m \in taken : m.number = k
        BY <3>2 DEF Numbers
      <4>2. m \in pool /\ m.number <= prior
        BY <1>1
      <4> QED
        BY <4>1, <4>2, <1>2, <1>3
    <3> QED
      BY <3>1, <3>2, <1>2
  <2>2. last' # 0 => last' \in delivered'
    BY <1>1, <1>2 DEF ChainInv, LatestIsHighest, Numbers
  <2> QED
    BY <2>1, <2>2 DEF LatestIsHighest
<1>9. GapIsOpen' /\ gap' \in Gap \cup {NoRef}
  <2>1. CASE rest = {} \/ open # NoRef
    <3>1. gap' = open
      BY <1>2, <2>1 DEF GapFound
    <3>2. CASE open = NoRef
      BY <1>2, <2>1, <3>1, <3>2 DEF GapIsOpen
    <3>3. CASE open # NoRef
      <4>1. PICK m \in pending : m.number = gap.to /\ m.prev # NoRef /\ m.prev # gap.from
        BY <1>8, <3>3 DEF ChainInv, GapIsOpen
      <4>2. m \in rest
        BY <4>1, <1>0, <1>8, <3>3 DEF Numbers
      <4>3. gap.from \in Nat /\ gap.from <= last
        BY <1>8, <3>3 DEF ChainInv, GapIsOpen, ChainTypeOK, Gap
      <4>4. gap.from <= prior /\ prior < gap.to
        BY <4>1, <4>2, <4>3, <1>1, <1>3
      <4> QED
        BY <4>1, <4>2, <4>4, <3>1, <3>3, <1>2, <1>8 DEF ChainInv, ChainTypeOK, GapIsOpen
    <3> QED
      BY <3>2, <3>3
  <2>2. CASE rest # {} /\ open = NoRef
    <3>1. PICK h \in rest : /\ h.number = Min(Numbers(rest))
                           /\ \A n \in rest : h.number <= n.number
      BY <2>2, <1>r, <1>3, HeadExists
    <3>2. gap' = [from |-> prior, to |-> h.number]
      BY <1>2, <1>5, <2>2, <3>1 DEF GapFound
    <3>3. h.prev # NoRef /\ h.prev # prior
      BY <3>1, <1>1 DEF IsNext
    <3>4. prior < h.number /\ prior \in Nat /\ h.number \in Nat
      BY <1>1, <1>3, <1>r
    <3>5. gap' \in Gap /\ gap' # NoRef
      BY <3>2, <3>4, MessageAssumption DEF Gap
    <3> QED
      BY <3>1, <3>2, <3>3, <3>4, <3>5, <1>2 DEF GapIsOpen
  <2> QED
    BY <2>1, <2>2
<1>10. NothingDeliverableWaits'
  <2>1. ASSUME NEW m \in rest, m.number = Min(Numbers(rest)) PROVE ~IsNext(m, prior)
    <3>1. PICK h \in rest : /\ h.number = Min(Numbers(rest))
                           /\ \A n \in rest : h.number <= n.number
      BY <2>1, <1>r, <1>3, HeadExists
    <3>2. m = h
      BY <2>1, <3>1, <1>r, <1>3, MessageAssumption
    <3> QED
      BY <3>1, <3>2, <1>1
  <2> QED
    BY <2>1, <1>1, <1>2 DEF NothingDeliverableWaits, IsNext
<1>11. NoSilentLoss'
  <2> SUFFICES ASSUME NEW m \in Message, m.number \in delivered', m.prev # NoRef,
                      m.number # Min(delivered')
               PROVE  m.prev \in delivered' \/ \E g \in unfillable' : g.to = m.number
    BY DEF NoSilentLoss
  <2>1. delivered' \in SUBSET Nat
    BY <1>d, <1>1, <1>2, <1>3 DEF Numbers
  <2>2. /\ Min(delivered') \in delivered'
        /\ \A k \in delivered' : Min(delivered') <= k
    BY <2>1, MinExists
  <2>3. CASE m.number \in delivered
    <3>1. \A k \in delivered, n \in Numbers(taken) : k < n
      <4>1. \A k \in delivered : k <= last /\ k \in Nat
        BY <1>d DEF ChainInv, LatestIsHighest
      <4>2. \A n \in Numbers(taken) : n > last /\ n \in Nat
        BY <1>1, <1>3 DEF Numbers
      <4> QED
        BY <4>1, <4>2, <1>3
    <3>2. Numbers(taken) \in SUBSET Nat
      BY <2>1, <1>2
    <3>3. Min(delivered') = Min(delivered)
      BY <3>1, <3>2, <2>3, <1>2, <1>d, MinOfHigher
    <3> QED
      BY <3>3, <2>3, <1>2 DEF ChainInv, NoSilentLoss
  <2>4. CASE m.number \in Numbers(taken)
    <3>1. m \in taken
      BY <2>4, <1>1, <1>3, MessageAssumption DEF Numbers
    <3>2. CASE ~IsNext(m, Before(pool, m))
      <4>1. [from |-> Before(pool, m), to |-> m.number] \in skips
        BY <3>1, <3>2
      <4> HIDE DEF skips
      <4> QED
        BY <4>1, <1>2
    <3>3. CASE IsNext(m, Before(pool, m))
      <4> DEFINE b == Before(pool, m)
      <4>1. /\ b \in Nat /\ b < m.number /\ b >= last
            /\ b = last \/ \E n \in pool : n.number = b
            /\ \A n \in pool : n.number < m.number => n.number <= b
        BY <3>1, <1>1, BeforeFacts
      <4>2. m.prev = b \/ b = 0
        BY <3>3 DEF IsNext
      <4> HIDE DEF b
      <4>3. b # 0
        <5> SUFFICES ASSUME b = 0 PROVE FALSE
          OBVIOUS
        <5>1. delivered = {}
          BY <4>1, <1>3, <1>d DEF ChainInv, LatestIsHighest
        <5>2. PICK n \in taken : n.number = Min(delivered')
          BY <5>1, <2>2, <1>2 DEF Numbers
        <5>3. n.number < m.number
          BY <5>2, <2>2, <3>1, <1>1, <1>3
        <5> QED
          BY <5>3, <4>1, <1>1, <1>3
      <4>4. b \in delivered'
        <5>1. CASE b = last
          BY <5>1, <4>3, <1>2 DEF ChainInv, LatestIsHighest
        <5>2. CASE b # last
          <6>1. PICK n \in pool : n.number = b
            BY <5>2, <4>1
          <6>2. n \in taken
            BY <6>1, <4>1, <3>1, <1>1, <1>3
          <6> QED
            BY <6>1, <6>2, <1>2 DEF Numbers
        <5> QED
          BY <5>1, <5>2
      <4> QED
        BY <4>2, <4>3, <4>4
    <3> QED
      BY <3>2, <3>3
  <2> QED
    BY <2>3, <2>4, <1>2
<1>12. ChainTypeOK'
  <2>1. last' \in Nat /\ pending' \subseteq Message
    BY <1>1, <1>2, <1>3, <1>r
  <2>2. delivered' \subseteq Numbers(Message)
    BY <1>1, <1>2, <1>3 DEF ChainInv, ChainTypeOK, Numbers
  <2>3. unfillable' \subseteq Gap
    <3>1. skips \subseteq Gap
      BY <1>1, <1>3, <1>4 DEF Gap
    <3> QED
      BY <3>1, <1>2 DEF ChainInv, ChainTypeOK
  <2> QED
    BY <2>1, <2>2, <2>3, <1>9 DEF ChainTypeOK
<1>13. \A n \in delivered' \ delivered : n > last
  BY <1>1, <1>2, <1>3 DEF Numbers
<1>14. gap # NoRef /\ gap' # gap => gap.to <= last'
  <2>1. open = gap => gap' = gap \/ gap = NoRef
    BY <1>2 DEF GapFound
  <2>2. gap # NoRef /\ open # gap => gap.to \in Numbers(taken)
    BY DEF GapAfter, open
  <2> QED
    BY <2>1, <2>2, <1>1, <1>2 DEF Numbers
<1>15. \A g \in unfillable' \ unfillable : g.to \in delivered' \ delivered
  <2>1. ASSUME NEW m \in taken PROVE m.number \in delivered' \ delivered
    <3>1. m.number > last /\ m.number \in Nat /\ m.number \in delivered'
      BY <1>1, <1>2, <1>3 DEF Numbers
    <3>2. \A k \in delivered : k <= last
      BY DEF ChainInv, LatestIsHighest
    <3> QED
      BY <3>1, <3>2, <1>3
  <2>2. \A g \in skips : \E m \in taken : g.to = m.number
    OBVIOUS
  <2> HIDE DEF skips
  <2> QED
    BY <2>1, <2>2, <1>2
<1> QED
  BY <1>1, <1>2, <1>6, <1>7, <1>9, <1>10, <1>11, <1>12, <1>13, <1>14, <1>15
  DEF ChainInv, StepsForward

\* A message that arrives keeps the invariant, and delivers only newer ones.
LEMMA AddMessageInv ==
  ASSUME ChainInv, NEW m \in Message, AddMessage(m)
  PROVE  ChainInv' /\ StepsForward
<1>1. CASE UNCHANGED chainVars
  <2>1. ChainInv'
    BY <1>1 DEF ChainInv, chainVars, ChainTypeOK, LatestIsHighest, NothingDeliverableWaits,
       GapIsOpen, NoSilentLoss, IsNext
  <2> QED
    BY <1>1, <2>1 DEF chainVars, StepsForward, ChainInv, ChainTypeOK
<1>2. CASE ~IsStale(m) /\ Consume(pending \cup {m}, 0, TRUE)
  <2>1. Consumable(pending \cup {m})
    <3>1. m.number > last
      BY <1>2, MessageAssumption DEF IsStale, ChainInv, ChainTypeOK
    <3>2. IsFiniteSet(pending \cup {m})
      BY FS_AddElement DEF ChainInv
    <3> QED
      BY <3>1, <3>2 DEF Consumable, ChainInv, ChainTypeOK, NothingDeliverableWaits
  <2> QED
    BY <1>2, <2>1, ConsumeInv
<1> QED
  BY <1>1, <1>2 DEF AddMessage

\* So does a resolution, whichever gap it was meant for.
LEMMA ResolveMessagesInv ==
  ASSUME ChainInv, NEW to \in Nat \cup {NoRef}, NEW check \in BOOLEAN, check \/ to = NoRef,
         ResolveMessages(to, check)
  PROVE  ChainInv' /\ StepsForward
<1>1. Consumable(pending)
  BY DEF Consumable, ChainInv, ChainTypeOK, NothingDeliverableWaits
<1> QED
  BY <1>1, ConsumeInv DEF ResolveMessages

\* A resolution up to the end of the gap closes it.
LEMMA ResolveClosesGap ==
  ASSUME ChainInv, gap # NoRef, NEW to \in Nat \cup {NoRef}, to = NoRef \/ gap.to <= to,
         NEW check \in BOOLEAN, check \/ to = NoRef, ResolveMessages(to, check)
  PROVE  gap' # gap
<1>1. PICK m \in pending : m.number = gap.to
  BY DEF ChainInv, GapIsOpen
<1>2. pending \subseteq Message /\ \A n \in pending : n.number \in Nat
  BY MessageAssumption DEF ChainInv, ChainTypeOK
<1>3. \A n \in pending : n.number <= m.number => UpTo(n, to)
  BY <1>1, <1>2 DEF UpTo
<1>4. m \in Consumed(pending, to)
  BY <1>3 DEF Consumed
<1>5. m.number \in delivered'
  BY <1>4 DEF ResolveMessages, Consume, Numbers
<1>6. ChainInv' /\ StepsForward
  BY ResolveMessagesInv
<1>7. m.number <= last'
  BY <1>5, <1>6 DEF ChainInv, LatestIsHighest
<1>8. gap' # NoRef => last' < gap'.to
  BY <1>6 DEF ChainInv, GapIsOpen
<1>9. last' \in Nat
  BY <1>6 DEF ChainInv, ChainTypeOK
<1> QED
  BY <1>1, <1>2, <1>7, <1>8, <1>9

\* Every step of the chain keeps the invariant and delivers only newer messages.
LEMMA NextChain ==
  ASSUME ChainInv, [ChainNext]_chainVars
  PROVE  ChainInv' /\ StepsForward
<1>1. CASE UNCHANGED chainVars
  <2>1. ChainInv'
    BY <1>1 DEF ChainInv, chainVars, ChainTypeOK, LatestIsHighest, NothingDeliverableWaits,
       GapIsOpen, NoSilentLoss, IsNext
  <2> QED
    BY <1>1, <2>1 DEF chainVars, StepsForward, ChainInv, ChainTypeOK
<1>2. ASSUME NEW m \in Message, AddMessage(m)
      PROVE  ChainInv' /\ StepsForward
  BY <1>2, AddMessageInv
<1>3. ASSUME NEW m \in Message, ResolveMessages(m.number, TRUE)
      PROVE  ChainInv' /\ StepsForward
  <2>1. m.number \in Nat
    BY MessageAssumption
  <2> QED
    BY <1>3, <2>1, ResolveMessagesInv
<1>4. ASSUME ResolveMessages(NoRef, FALSE)
      PROVE  ChainInv' /\ StepsForward
  BY <1>4, ResolveMessagesInv
<1> QED
  BY <1>1, <1>2, <1>3, <1>4 DEF ChainNext, Resolve

\* The invariant holds in every behaviour of a chain.
THEOREM ChainInvariant == ChainSpec => []ChainInv
<1>1. ChainInv /\ [ChainNext]_chainVars => ChainInv'
  BY NextChain
<1> QED
  BY <1>1, InitChain, PTL DEF ChainSpec

\* The chain is well-typed at every point.
THEOREM ChainTypeCorrect == ChainSpec => []ChainTypeOK
<1>1. ChainInv => ChainTypeOK
  BY DEF ChainInv
<1> QED
  BY <1>1, ChainInvariant, PTL

\* While messages wait there is a gap, and the message at its end is one of
\* them, has a reference, and does not follow the message before the gap.
THEOREM GapAlwaysOpen == ChainSpec => []GapIsOpen
<1>1. ChainInv => GapIsOpen
  BY DEF ChainInv
<1> QED
  BY <1>1, ChainInvariant, PTL

\* No message is skipped without a report of the gap before its successor.
THEOREM NeverSilentLoss == ChainSpec => []NoSilentLoss
<1>1. ChainInv => NoSilentLoss
  BY DEF ChainInv
<1> QED
  BY <1>1, ChainInvariant, PTL

\* The loop leaves nothing behind that could be delivered.
THEOREM DeliverableNeverWaits == ChainSpec => []NothingDeliverableWaits
<1>1. ChainInv => NothingDeliverableWaits
  BY DEF ChainInv
<1> QED
  BY <1>1, ChainInvariant, PTL

\* Every step of the chain is a step of the delivery or leaves it alone.
LEMMA StepDelivers ==
  ASSUME ChainInv, [ChainNext]_chainVars
  PROVE  [Delivery!Deliver]_(Delivery!deliveryVars)
<1> DEFINE new == delivered' \ delivered
           skipped == {g.to : g \in unfillable}
<1>1. ChainInv' /\ StepsForward
  BY NextChain
<1>2. \A n \in delivered' \cup delivered : n \in Nat
  BY <1>1, MessageAssumption DEF ChainInv, ChainTypeOK, Numbers
<1>3. \A n \in new : \A k \in delivered : k < n
  <2>1. \A k \in delivered : k <= last
    BY DEF ChainInv, LatestIsHighest
  <2>2. last \in Nat
    BY DEF ChainInv, ChainTypeOK
  <2> QED
    BY <1>1, <1>2, <2>1, <2>2 DEF StepsForward
<1>4. skipped \subseteq skipped' /\ skipped' \ skipped \subseteq new
  BY <1>1 DEF StepsForward
<1>5. ASSUME NEW m \in Message, m.number \in new
      PROVE  \/ m.prev = NoRef \/ m.prev \in delivered' \/ m.number \in skipped'
             \/ \A k \in delivered' : m.number <= k
  <2>1. CASE m.number = Min(delivered')
    BY <2>1, <1>2, MinExists, <1>5
  <2>2. CASE m.number # Min(delivered')
    BY <2>2, <1>1, <1>5 DEF ChainInv, NoSilentLoss
  <2> QED
    BY <2>1, <2>2
<1>6. new \subseteq {m.number : m \in Message} /\ delivered \subseteq delivered'
  BY <1>1 DEF ChainInv, ChainTypeOK, Numbers, StepsForward
<1> QED
  BY <1>3, <1>4, <1>5, <1>6 DEF Delivery!Deliver, Delivery!Excused

\* The chain implements the ordered delivery.
THEOREM ChainDelivers == ChainSpec => DeliversInOrder
<1>1. ChainInit => Delivery!DeliveryInit
  BY DEF ChainInit, Delivery!DeliveryInit
<1>2. ChainInv /\ [ChainNext]_chainVars => [Delivery!Deliver]_(Delivery!deliveryVars)
  BY StepDelivers
<1> QED
  BY <1>1, <1>2, ChainInvariant, PTL DEF ChainSpec, DeliversInOrder, Delivery!DeliverySpec

-----------------------------------------------------------------------------
(* Gap filling.                                                            *)

\* Tasks are started for gaps of this chain, and those that are no longer
\* current are for gaps that have been passed: the number at which a new gap
\* ends is never the key of a task that still runs.
TasksAreBehind ==
  /\ DOMAIN tasks # {} => last # 0
  /\ \A t \in DOMAIN tasks : t # current => t <= last

\* A task that waits for a lookup or a retry may make a request.
RequestsLeft ==
  \A t \in DOMAIN tasks :
    /\ tasks[t].pc = "addresses" => MaxRequestsPerGap > 0
    /\ tasks[t].pc = "retryWait" => tasks[t].requests < MaxRequestsPerGap

FillerInv ==
  /\ TypeOK
  /\ ChainInv
  /\ CurrentTaskOwnsGap
  /\ TasksAreBehind
  /\ RequestsLeft

\* The numbers of messages are positive and none of them is NoRef.
LEMMA NumbersArePositive ==
  \A t \in Numbers(Message) : t \in Nat /\ t # 0 /\ t # NoRef
BY MessageAssumption DEF Numbers

\* A subscription starts without tasks.
THEOREM InitFiller == Init => FillerInv
BY InitChain DEF Init, FillerInv, TypeOK, ChainInit, ChainInv, CurrentTaskOwnsGap,
   TasksAreBehind, RequestsLeft

-----------------------------------------------------------------------------
(* The listeners.                                                          *)

\* Some of the tasks as they were, when the chain makes a step.
Remaining(set) ==
  /\ DOMAIN set \subseteq DOMAIN tasks
  /\ set = [t \in DOMAIN set |-> tasks[t]]

\* Aborting a task keeps the others, and marks it or ends it.
LEMMA AbortedFacts ==
  ASSUME NEW set, NEW cur, set \in [DOMAIN set -> Task]
  PROVE  LET left == Aborted(set, cur)
         IN  /\ DOMAIN left \subseteq DOMAIN set
             /\ left \in [DOMAIN left -> Task]
             /\ \A t \in DOMAIN left : t # cur => left[t] = set[t]
             /\ cur \in DOMAIN left =>
                  left[cur].aborted /\ left[cur].pc \in {"addresses", "resend"}
             /\ \A t \in DOMAIN left :
                  left[t].pc = set[t].pc /\ left[t].requests = set[t].requests
<1>1. CASE cur \notin DOMAIN set
  BY <1>1 DEF Aborted
<1>2. CASE cur \in DOMAIN set /\ set[cur].pc \in {"initialWait", "retryWait"}
  <2>1. Aborted(set, cur) = [t \in DOMAIN set \ {cur} |-> set[t]]
    BY <1>2 DEF Aborted, Restrict
  <2> QED
    BY <2>1
<1>3. CASE cur \in DOMAIN set /\ set[cur].pc \notin {"initialWait", "retryWait"}
  <2> DEFINE mark == [set[cur] EXCEPT !.aborted = TRUE]
  <2>1. Aborted(set, cur) = [t \in DOMAIN set |-> IF t = cur THEN mark ELSE set[t]]
    BY <1>3 DEF Aborted
  <2>2. /\ mark \in Task /\ mark.aborted
        /\ mark.pc = set[cur].pc /\ mark.requests = set[cur].requests
        /\ mark.pc \in {"addresses", "resend"}
    BY <1>3 DEF Task
  <2> HIDE DEF mark
  <2> QED
    BY <1>3, <2>1, <2>2
<1> QED
  BY <1>1, <1>2, <1>3

\* The listeners give every new gap to a new task, and abort the task of a gap
\* that is resolved.
LEMMA ReactInv ==
  ASSUME FillerInv, ChainInv', StepsForward, NEW set, Remaining(set), React(set),
         destroyed' = destroyed, lost' = (lost /\ gap' = gap),
         ~destroyed /\ gap' = gap /\ gap # NoRef => lost \/ current \in DOMAIN set
  PROVE  /\ DOMAIN tasks' \subseteq Numbers(Message)
         /\ tasks' \in [DOMAIN tasks' -> Task]
         /\ current' \in Numbers(Message) \cup {NoRef}
         /\ CurrentTaskOwnsGap'
         /\ TasksAreBehind'
         /\ RequestsLeft'
<1> DEFINE resolved == gap # NoRef /\ gap' # gap
           found    == gap' # NoRef /\ gap' # gap
           left     == IF resolved THEN Aborted(set, current) ELSE set
<1>1. /\ DOMAIN set \subseteq DOMAIN tasks
      /\ DOMAIN set \subseteq Numbers(Message)
      /\ set \in [DOMAIN set -> Task]
      /\ \A t \in DOMAIN set : set[t] = tasks[t]
  BY DEF Remaining, FillerInv, TypeOK
<1>2. /\ last \in Nat /\ last' \in Nat /\ last' >= last
      /\ \A t \in Numbers(Message) : t \in Nat /\ t # 0 /\ t # NoRef
  BY NumbersArePositive DEF StepsForward, FillerInv, ChainInv, ChainTypeOK
<1>3. ASSUME gap' # NoRef
      PROVE  gap' \in Gap /\ gap'.to \in Numbers(Message) /\ last' # 0 /\ last' < gap'.to
  <2>1. gap' \in Gap /\ last' < gap'.to /\ gap'.to \in Numbers(Message) /\ pending' # {}
    BY <1>3 DEF ChainInv, ChainTypeOK, GapIsOpen, Numbers
  <2>2. last' # 0
    <3>1. pending' \subseteq Message
      BY DEF ChainInv, ChainTypeOK
    <3>2. PICK h \in pending' : h.number = Min(Numbers(pending'))
      BY <2>1, <3>1, HeadExists
    <3> QED
      BY <3>2 DEF ChainInv, NothingDeliverableWaits, IsNext
  <2> QED
    BY <2>1, <2>2
<1>4. /\ DOMAIN left \subseteq DOMAIN set
      /\ left \in [DOMAIN left -> Task]
      /\ \A t \in DOMAIN left : t # current \/ ~resolved => left[t] = set[t]
      /\ resolved /\ current \in DOMAIN left =>
           left[current].aborted /\ left[current].pc \in {"addresses", "resend"}
      /\ \A t \in DOMAIN left : left[t].pc = set[t].pc /\ left[t].requests = set[t].requests
  BY <1>1, AbortedFacts
<1>5. /\ destroyed => tasks' = set /\ current' = current
      /\ ~destroyed /\ found =>
           /\ tasks' = [t \in DOMAIN left \cup {gap'.to} |->
                          IF t = gap'.to THEN NewTask(gap') ELSE left[t]]
           /\ current' = gap'.to
      /\ ~destroyed /\ ~found =>
           tasks' = left /\ current' = IF resolved THEN NoRef ELSE current
  BY DEF React, TasksAfter
<1> HIDE DEF left
<1>6. CASE destroyed
  <2>1. CurrentTaskOwnsGap'
    BY <1>6 DEF CurrentTaskOwnsGap
  <2>2. DOMAIN tasks' # {} => last' # 0
    BY <1>1, <1>2, <1>5, <1>6 DEF FillerInv, TasksAreBehind
  <2>3. \A t \in DOMAIN tasks' : t # current' => t <= last'
    BY <1>1, <1>2, <1>5, <1>6 DEF FillerInv, TasksAreBehind
  <2> QED
    BY <1>1, <1>5, <1>6, <2>1, <2>2, <2>3 DEF FillerInv, TypeOK, TasksAreBehind, RequestsLeft
<1>7. CASE ~destroyed /\ found
  <2>1. /\ gap' \in Gap /\ gap'.to \in Numbers(Message) /\ last' # 0
        /\ NewTask(gap') \in Task /\ ~NewTask(gap').aborted
        /\ NewTask(gap').pc = "initialWait"
    BY <1>3, <1>7, GapFillerAssumption DEF NewTask, Task, Gap
  <2>2. DOMAIN tasks' = DOMAIN left \cup {gap'.to} /\ current' = gap'.to
    BY <1>5, <1>7
  <2>3. \A t \in DOMAIN tasks' : tasks'[t] = IF t = gap'.to THEN NewTask(gap') ELSE left[t]
    BY <1>5, <1>7
  <2>4. ASSUME NEW t \in DOMAIN left
        PROVE  t <= last' /\ left[t].aborted
    <3>1. CASE t = current
      <4>1. gap # NoRef /\ current = gap.to
        BY <3>1, <1>1, <1>2, <1>4, <1>7 DEF FillerInv, CurrentTaskOwnsGap
      <4> QED
        BY <3>1, <4>1, <1>4, <1>7 DEF StepsForward
    <3>2. CASE t # current
      <4>1. t \in DOMAIN tasks /\ left[t] = tasks[t] /\ t \in Nat
        BY <3>2, <1>1, <1>2, <1>4
      <4> QED
        BY <3>2, <4>1, <1>2, <1>7 DEF FillerInv, CurrentTaskOwnsGap, TasksAreBehind
    <3> QED
      BY <3>1, <3>2
  <2>5. tasks' \in [DOMAIN tasks' -> Task] /\ DOMAIN tasks' \subseteq Numbers(Message)
    <3>1. \A t \in DOMAIN tasks' : tasks'[t] \in Task
      BY <2>1, <2>2, <2>3, <1>4
    <3>2. tasks' = [t \in DOMAIN tasks' |-> tasks'[t]]
      BY <1>5, <1>7
    <3> QED
      BY <3>1, <3>2, <2>1, <2>2, <1>1, <1>4
  <2>6. CurrentTaskOwnsGap'
    BY <1>2, <1>7, <2>1, <2>2, <2>3, <2>4 DEF CurrentTaskOwnsGap
  <2>7. TasksAreBehind'
    BY <2>1, <2>2, <2>4 DEF TasksAreBehind
  <2>8. RequestsLeft'
    BY <2>1, <2>2, <2>3, <1>1, <1>4 DEF RequestsLeft, FillerInv
  <2> QED
    BY <2>1, <2>2, <2>5, <2>6, <2>7, <2>8
<1>8. CASE ~destroyed /\ ~found /\ resolved
  <2>1. tasks' = left /\ current' = NoRef /\ gap' = NoRef
    BY <1>5, <1>8
  <2>2. ASSUME NEW t \in DOMAIN left
        PROVE  t <= last' /\ left[t].aborted /\ last' # 0
    <3>1. last # 0
      BY <1>1, <1>4 DEF FillerInv, TasksAreBehind
    <3>2. CASE t = current
      <4>1. current = gap.to
        BY <1>8 DEF FillerInv, CurrentTaskOwnsGap
      <4> QED
        BY <3>1, <3>2, <4>1, <1>2, <1>4, <1>8 DEF StepsForward
    <3>3. CASE t # current
      <4>1. t \in DOMAIN tasks /\ left[t] = tasks[t] /\ t \in Nat
        BY <3>3, <1>1, <1>2, <1>4
      <4> QED
        BY <3>1, <3>3, <4>1, <1>2, <1>8 DEF FillerInv, CurrentTaskOwnsGap, TasksAreBehind
    <3> QED
      BY <3>2, <3>3
  <2>3. CurrentTaskOwnsGap'
    BY <1>1, <1>2, <1>4, <2>1, <2>2 DEF CurrentTaskOwnsGap
  <2>4. TasksAreBehind' /\ RequestsLeft'
    BY <1>1, <1>4, <2>1, <2>2 DEF TasksAreBehind, RequestsLeft, FillerInv
  <2> QED
    BY <1>1, <1>4, <2>1, <2>3, <2>4
<1>9. CASE ~destroyed /\ ~found /\ ~resolved
  <2>1. tasks' = left /\ left = set /\ current' = current /\ gap' = gap /\ lost' = lost
    BY <1>5, <1>9 DEF left, FillerInv, TypeOK
  <2>2. CurrentTaskOwnsGap'
    BY <1>1, <1>9, <2>1 DEF CurrentTaskOwnsGap, FillerInv
  <2>3. TasksAreBehind' /\ RequestsLeft'
    BY <1>1, <1>2, <2>1 DEF TasksAreBehind, RequestsLeft, FillerInv
  <2> QED
    BY <1>1, <2>1, <2>2, <2>3 DEF FillerInv, TypeOK
<1> QED
  BY <1>6, <1>7, <1>8, <1>9

-----------------------------------------------------------------------------
(* The steps.                                                              *)

\* A message of the stream, or one that a resend brings.
LEMMA MessageInv ==
  ASSUME FillerInv, NEW m \in Message, AddMessage(m), React(tasks),
         lost' = (lost /\ gap' = gap), UNCHANGED <<full, destroyed>>
  PROVE  FillerInv'
<1>1. ChainInv' /\ StepsForward
  BY AddMessageInv DEF FillerInv
<1>2. Remaining(tasks)
  BY DEF Remaining, FillerInv, TypeOK
<1>3. ~destroyed /\ gap # NoRef => lost \/ current \in DOMAIN tasks
  BY DEF FillerInv, CurrentTaskOwnsGap
<1> HIDE DEF AddMessage
<1>4. /\ DOMAIN tasks' \subseteq Numbers(Message)
      /\ tasks' \in [DOMAIN tasks' -> Task]
      /\ current' \in Numbers(Message) \cup {NoRef}
      /\ CurrentTaskOwnsGap' /\ TasksAreBehind' /\ RequestsLeft'
  BY <1>1, <1>2, <1>3, ReactInv
<1>5. TypeOK'
  BY <1>1, <1>4 DEF TypeOK, FillerInv, ChainInv
<1> QED
  BY <1>1, <1>4, <1>5 DEF FillerInv

\* A task gives its gap up: its own if it is current, otherwise nothing that is
\* up to the end of its gap waits any more.
LEMMA GiveUpInv ==
  ASSUME FillerInv, NEW t \in DOMAIN tasks, GiveUp(t)
  PROVE  FillerInv'
<1> DEFINE set == Restrict(tasks, DOMAIN tasks \ {t})
<1>1. t \in Nat
  BY NumbersArePositive DEF FillerInv, TypeOK
<1>2. ResolveMessages(t, TRUE) \/ ResolveMessages(NoRef, FALSE)
  BY DEF GiveUp
<1>3. ChainInv' /\ StepsForward
  BY <1>1, <1>2, ResolveMessagesInv DEF FillerInv
<1>4. Remaining(set)
  BY DEF Remaining, Restrict
<1>5. ~destroyed /\ gap' = gap /\ gap # NoRef => lost \/ current \in DOMAIN set
  <2> SUFFICES ASSUME ~destroyed, gap' = gap, gap # NoRef PROVE lost \/ current \in DOMAIN set
    OBVIOUS
  <2>1. current = gap.to /\ (lost \/ current \in DOMAIN tasks)
    BY DEF FillerInv, CurrentTaskOwnsGap
  <2>2. t # current
    <3> SUFFICES ASSUME t = current PROVE FALSE
      OBVIOUS
    <3>1. gap.to <= t
      BY <1>1, <2>1
    <3> QED
      BY <1>1, <1>2, <3>1, ResolveClosesGap DEF FillerInv
  <2> QED
    BY <2>1, <2>2 DEF Restrict
<1>6. /\ React(set) /\ lost' = (lost /\ gap' = gap)
      /\ full' = full /\ destroyed' = destroyed
  BY DEF GiveUp, FillerInv, TypeOK
<1> HIDE DEF set
<1>7. /\ DOMAIN tasks' \subseteq Numbers(Message)
      /\ tasks' \in [DOMAIN tasks' -> Task]
      /\ current' \in Numbers(Message) \cup {NoRef}
      /\ CurrentTaskOwnsGap' /\ TasksAreBehind' /\ RequestsLeft'
  BY <1>3, <1>4, <1>5, <1>6, ReactInv
<1>8. TypeOK'
  BY <1>3, <1>6, <1>7 DEF TypeOK, FillerInv, ChainInv
<1> QED
  BY <1>3, <1>7, <1>8 DEF FillerInv

\* A task goes on without touching the chain.
LEMMA TaskStepInv ==
  ASSUME FillerInv, NEW t \in DOMAIN tasks, NEW task \in Task,
         task.aborted = tasks[t].aborted,
         task.pc = "addresses" => MaxRequestsPerGap > 0,
         task.pc = "retryWait" => task.requests < MaxRequestsPerGap,
         tasks' = [tasks EXCEPT ![t] = task],
         UNCHANGED <<chainVars, full, current, destroyed, lost>>
  PROVE  FillerInv'
<1>1. /\ DOMAIN tasks' = DOMAIN tasks
      /\ tasks' \in [DOMAIN tasks -> Task]
      /\ \A u \in DOMAIN tasks : tasks'[u] = IF u = t THEN task ELSE tasks[u]
  BY DEF FillerInv, TypeOK
<1>2. ChainInv'
  BY DEF FillerInv, ChainInv, chainVars, ChainTypeOK, LatestIsHighest,
     NothingDeliverableWaits, GapIsOpen, NoSilentLoss, IsNext
<1>3. TypeOK'
  BY <1>1, <1>2 DEF FillerInv, TypeOK, ChainInv
<1>4. CurrentTaskOwnsGap'
  BY <1>1 DEF FillerInv, CurrentTaskOwnsGap, chainVars
<1>5. TasksAreBehind' /\ RequestsLeft'
  BY <1>1 DEF FillerInv, TasksAreBehind, RequestsLeft, chainVars
<1> QED
  BY <1>2, <1>3, <1>4, <1>5 DEF FillerInv

\* A task ends without touching the chain: it was aborted, or its lookup threw.
LEMMA TaskEndInv ==
  ASSUME FillerInv, NEW t \in DOMAIN tasks,
         tasks' = Restrict(tasks, DOMAIN tasks \ {t}),
         lost' \in BOOLEAN, lost => lost', tasks[t].aborted \/ destroyed \/ lost',
         UNCHANGED <<chainVars, full, current, destroyed>>
  PROVE  FillerInv'
<1>1. /\ DOMAIN tasks' = DOMAIN tasks \ {t}
      /\ tasks' \in [DOMAIN tasks' -> Task]
      /\ \A u \in DOMAIN tasks' : tasks'[u] = tasks[u]
  BY DEF FillerInv, TypeOK, Restrict
<1>2. ChainInv'
  BY DEF FillerInv, ChainInv, chainVars, ChainTypeOK, LatestIsHighest,
     NothingDeliverableWaits, GapIsOpen, NoSilentLoss, IsNext
<1>3. TypeOK'
  BY <1>1, <1>2 DEF FillerInv, TypeOK, ChainInv
<1>4. CurrentTaskOwnsGap'
  BY <1>1 DEF FillerInv, CurrentTaskOwnsGap, chainVars
<1>5. TasksAreBehind' /\ RequestsLeft'
  BY <1>1 DEF FillerInv, TasksAreBehind, RequestsLeft, chainVars
<1> QED
  BY <1>2, <1>3, <1>4, <1>5 DEF FillerInv

\* What a task may do next keeps the invariant.
LEMMA ProgressInv ==
  ASSUME FillerInv, NEW t \in DOMAIN tasks, Progress(t)
  PROVE  FillerInv'
<1> DEFINE task == tasks[t]
<1>1. /\ task \in Task
      /\ task.pc = "addresses" => MaxRequestsPerGap > 0
      /\ task.pc = "retryWait" => task.requests < MaxRequestsPerGap
      /\ MaxRequestsPerGap \in Nat
  BY GapFillerAssumption DEF FillerInv, TypeOK, RequestsLeft
<1>2. ASSUME NEW pc \in {"addresses", "resend", "retryWait"}, MoveTo(t, pc),
             pc = "addresses" => MaxRequestsPerGap > 0,
             pc = "retryWait" => task.requests < MaxRequestsPerGap
      PROVE  FillerInv'
  <2> DEFINE moved == [task EXCEPT !.pc = pc]
  <2>1. /\ moved \in Task /\ moved.aborted = task.aborted
        /\ moved.pc = pc /\ moved.requests = task.requests
    BY <1>1 DEF Task
  <2>2. tasks' = [tasks EXCEPT ![t] = moved]
    BY <1>2 DEF MoveTo
  <2> HIDE DEF moved
  <2> QED
    BY <1>2, <2>1, <2>2, TaskStepInv DEF MoveTo
<1>3. ASSUME NEW k \in 0 .. MaxRequestsPerGap, Request(t, k)
      PROVE  FillerInv'
  <2> DEFINE moved == [[task EXCEPT !.pc = "resend"] EXCEPT !.requests = k]
  <2>1. moved \in Task /\ moved.aborted = task.aborted /\ moved.pc = "resend"
    BY <1>1 DEF Task
  <2>2. tasks' = [tasks EXCEPT ![t] = moved]
    BY <1>3, <1>1 DEF Request, Task, FillerInv, TypeOK
  <2> HIDE DEF moved
  <2> QED
    BY <1>3, <2>1, <2>2, TaskStepInv DEF Request
<1>4. CASE GiveUp(t)
  BY <1>4, GiveUpInv
<1>5. CASE InitialWaitOver(t)
  BY <1>1, <1>2, <1>4, <1>5 DEF InitialWaitOver
<1>6. CASE AddressesFound(t)
  BY <1>1, <1>3, <1>6 DEF AddressesFound
<1>7. CASE NoAddresses(t)
  BY <1>4, <1>7 DEF NoAddresses
<1>8. CASE ResendOver(t)
  <2>1. CASE End(t) /\ task.aborted
    BY <2>1, TaskEndInv DEF End, FillerInv, TypeOK
  <2>2. CASE MoveTo(t, "retryWait") /\ task.requests < MaxRequestsPerGap
    BY <1>2, <2>2
  <2> QED
    BY <1>4, <1>8, <2>1, <2>2 DEF ResendOver, AfterRequest
<1>9. CASE RetryWaitOver(t)
  <2>1. task.requests + 1 \in 0 .. MaxRequestsPerGap
    BY <1>1, <1>9 DEF RetryWaitOver, Task
  <2> QED
    BY <1>3, <1>9, <2>1 DEF RetryWaitOver
<1> QED
  BY <1>5, <1>6, <1>7, <1>8, <1>9 DEF Progress

\* Destroying the subscription aborts the current task.
LEMMA DestroyInv ==
  ASSUME FillerInv, Destroy
  PROVE  FillerInv'
<1>1. ChainInv'
  BY DEF Destroy, FillerInv, ChainInv, chainVars, ChainTypeOK, LatestIsHighest,
     NothingDeliverableWaits, GapIsOpen, NoSilentLoss, IsNext
<1>2. tasks \in [DOMAIN tasks -> Task]
  BY DEF FillerInv, TypeOK
<1>3. /\ DOMAIN tasks' \subseteq DOMAIN tasks
      /\ tasks' \in [DOMAIN tasks' -> Task]
      /\ \A t \in DOMAIN tasks' :
           tasks'[t].pc = tasks[t].pc /\ tasks'[t].requests = tasks[t].requests
  <2>1. CASE tasks' = tasks
    BY <1>2, <2>1
  <2>2. CASE tasks' = Aborted(tasks, current)
    BY <1>2, <2>2, AbortedFacts
  <2> QED
    BY <2>1, <2>2 DEF Destroy
<1>4. TypeOK'
  BY <1>1, <1>3 DEF Destroy, FillerInv, TypeOK, ChainInv
<1>5. CurrentTaskOwnsGap'
  BY DEF Destroy, CurrentTaskOwnsGap
<1>6. TasksAreBehind' /\ RequestsLeft'
  BY <1>3 DEF Destroy, FillerInv, TasksAreBehind, RequestsLeft, chainVars
<1> QED
  BY <1>1, <1>4, <1>5, <1>6 DEF FillerInv

\* Every step keeps the invariant.
THEOREM NextFiller == FillerInv /\ [Next]_vars => FillerInv'
<1> SUFFICES ASSUME FillerInv, [Next]_vars PROVE FillerInv'
  OBVIOUS
<1>1. ASSUME NEW m \in Message, Receive(m) PROVE FillerInv'
  BY <1>1, MessageInv DEF Receive
<1>2. ASSUME NEW t \in DOMAIN tasks, Progress(t) PROVE FillerInv'
  BY <1>2, ProgressInv
<1>3. ASSUME NEW t \in DOMAIN tasks, AddressesFailed(t) PROVE FillerInv'
  <2>1. t # current => tasks[t].aborted \/ destroyed
    BY DEF FillerInv, CurrentTaskOwnsGap
  <2> QED
    BY <1>3, <2>1, TaskEndInv DEF AddressesFailed, FillerInv, TypeOK
<1>4. ASSUME NEW t \in DOMAIN tasks, NEW m \in Message, ResendMessage(t, m) PROVE FillerInv'
  BY <1>4, MessageInv DEF ResendMessage
<1>5. CASE Destroy
  BY <1>5, DestroyInv
<1>6. CASE UNCHANGED vars
  <2>1. ChainInv'
    BY <1>6 DEF vars, FillerInv, ChainInv, chainVars, ChainTypeOK, LatestIsHighest,
       NothingDeliverableWaits, GapIsOpen, NoSilentLoss, IsNext
  <2> QED
    BY <1>6, <2>1 DEF vars, FillerInv, TypeOK, ChainInv, CurrentTaskOwnsGap,
       TasksAreBehind, RequestsLeft, chainVars
<1> QED
  BY <1>1, <1>2, <1>3, <1>4, <1>5, <1>6 DEF Next

\* The invariant holds in every behaviour.
THEOREM FillerInvariant == Spec => []FillerInv
BY InitFiller, NextFiller, PTL DEF Spec

\* Tasks, their limits and the chain are well-typed at every point.
THEOREM FillerTypeCorrect == Spec => []TypeOK
<1>1. FillerInv => TypeOK
  BY DEF FillerInv
<1> QED
  BY <1>1, FillerInvariant, PTL

\* The current gap always belongs to the current task, which was not aborted.
THEOREM GapIsOwned == Spec => []CurrentTaskOwnsGap
<1>1. FillerInv => CurrentTaskOwnsGap
  BY DEF FillerInv
<1> QED
  BY <1>1, FillerInvariant, PTL

-----------------------------------------------------------------------------
(* The chain under the tasks.                                              *)

\* Every step of the stream, the tasks and the subscription is a step of the
\* chain's own specification or leaves the chain alone.
LEMMA StepsOfChain ==
  ASSUME FillerInv, [Next]_vars
  PROVE  [ChainNext]_chainVars
<1>1. ASSUME NEW m \in Message, AddMessage(m) PROVE ChainNext
  BY <1>1 DEF ChainNext
<1>2. ASSUME NEW t \in DOMAIN tasks, GiveUp(t) PROVE ChainNext
  <2>1. PICK m \in Message : t = m.number
    BY DEF FillerInv, TypeOK, Numbers
  <2>2. last # 0
    BY DEF FillerInv, TasksAreBehind
  <2>3. ResolveMessages(m.number, TRUE) \/ ResolveMessages(NoRef, FALSE)
    BY <1>2, <2>1 DEF GiveUp
  <2> QED
    BY <2>2, <2>3 DEF ChainNext, Resolve
<1>3. ASSUME NEW m \in Message, Receive(m) PROVE ChainNext
  BY <1>1, <1>3 DEF Receive
<1>4. ASSUME NEW t \in DOMAIN tasks, Progress(t) PROVE ChainNext \/ UNCHANGED chainVars
  <2>1. GiveUp(t) \/ UNCHANGED chainVars
    BY <1>4 DEF Progress, InitialWaitOver, AddressesFound, NoAddresses, ResendOver,
       RetryWaitOver, MoveTo, Request, AfterRequest, End
  <2> QED
    BY <1>2, <2>1
<1>5. ASSUME NEW t \in DOMAIN tasks, AddressesFailed(t) PROVE UNCHANGED chainVars
  BY <1>5 DEF AddressesFailed
<1>6. ASSUME NEW t \in DOMAIN tasks, NEW m \in Message, ResendMessage(t, m) PROVE ChainNext
  BY <1>1, <1>6 DEF ResendMessage
<1>7. CASE Destroy
  BY <1>7 DEF Destroy
<1>8. CASE UNCHANGED vars
  BY <1>8 DEF vars
<1> QED
  BY <1>3, <1>4, <1>5, <1>6, <1>7, <1>8 DEF Next

\* Gap filling uses the chain as its specification says.
THEOREM ImplementsChain == Spec => ChainSpec
<1>1. Init => ChainInit
  BY DEF Init
<1>2. FillerInv /\ [Next]_vars => [ChainNext]_chainVars
  BY StepsOfChain
<1> QED
  BY <1>1, <1>2, FillerInvariant, PTL DEF Spec, ChainSpec

\* With gap filling on top, the reader of the chain gets what OrderedDelivery promises.
THEOREM FillerDelivers == Spec => DeliversInOrder
BY ImplementsChain, ChainDelivers, PTL

\* A gap is open while messages wait, one task owns it, and nothing deliverable waits.
THEOREM FillerAgrees == Spec => []TasksAndGapsAgree
<1>1. FillerInv => TasksAndGapsAgree
  BY DEF FillerInv, ChainInv, TasksAndGapsAgree
<1> QED
  BY <1>1, FillerInvariant, PTL

\* No message is skipped without a report.
THEOREM FillerNoSilentLoss == Spec => []NoSilentLoss
BY ImplementsChain, NeverSilentLoss, PTL

-----------------------------------------------------------------------------
(* Who drops a gap.                                                         *)

\* Adding a message declares no gap unfillable: what is taken off the queue then
\* follows the message before it.
LEMMA AddingDropsNothing ==
  ASSUME FillerInv, NEW m \in Message, AddMessage(m)
  PROVE  unfillable' = unfillable
<1>1. CASE IsStale(m)
  BY <1>1 DEF AddMessage, chainVars
<1>2. CASE ~IsStale(m)
  <2> DEFINE pool == pending \cup {m}
  <2>1. \A n \in pool : n \in Message /\ n.number \in Nat /\ n.number # 0
    BY NumbersArePositive DEF FillerInv, TypeOK, ChainTypeOK, Numbers
  <2>2. \A n \in pool : ~UpTo(n, 0)
    BY <2>1, MessageAssumption DEF UpTo
  <2>3. \A n \in Consumed(pool, 0) : n \in pool /\ IsNext(n, Before(pool, n))
    BY <2>1, <2>2 DEF Consumed
  <2>4. unfillable' = unfillable \cup
           {[from |-> Before(pool, n), to |-> n.number] :
              n \in {k \in Consumed(pool, 0) : ~IsNext(k, Before(pool, k))}}
    BY <1>2 DEF AddMessage, Consume
  <2> QED
    BY <2>3, <2>4
<1> QED
  BY <1>1, <1>2

\* A task that was aborted is behind: what is up to the end of its gap has been delivered,
\* and to resolve that drops nothing.
LEMMA StrayResolvesNothing ==
  ASSUME FillerInv, NEW t \in DOMAIN tasks, t # current, ResolveMessages(t, TRUE)
  PROVE  unfillable' = unfillable
<1>1. t \in Nat /\ t # NoRef /\ t <= last /\ last \in Nat
  BY NumbersArePositive DEF FillerInv, TypeOK, TasksAreBehind, ChainInv, ChainTypeOK
<1>2. pending \in SUBSET Message /\ \A m \in pending : m.number \in Nat /\ m.number > last
  BY MessageAssumption DEF FillerInv, ChainInv, ChainTypeOK, NothingDeliverableWaits
<1>3. \A m \in pending : ~UpTo(m, t)
  BY <1>1, <1>2 DEF UpTo
<1>4. \A m \in Consumed(pending, t) : IsNext(m, Before(pending, m))
  BY <1>2, <1>3 DEF Consumed
<1>5. unfillable' = unfillable \cup
         {[from |-> Before(pending, n), to |-> n.number] :
            n \in {k \in Consumed(pending, t) : ~IsNext(k, Before(pending, k))}}
  BY DEF ResolveMessages, Consume
<1> QED
  BY <1>4, <1>5

\* A task that gives up ends: a gap that is found by that is another one.
LEMMA GivingUpEnds ==
  ASSUME FillerInv, NEW t \in DOMAIN tasks, GiveUp(t), unfillable' # unfillable
  PROVE  t \notin DOMAIN tasks'
<1> DEFINE set == Restrict(tasks, DOMAIN tasks \ {t})
<1>1. t \notin DOMAIN set /\ React(set)
  BY DEF GiveUp, Restrict
<1> HIDE DEF set
<1>2. SUFFICES ASSUME ~destroyed, gap' # NoRef, gap' # gap, gap'.to = t PROVE FALSE
  BY <1>1 DEF React, TasksAfter, Aborted, Restrict
<1>3. t \in Nat /\ (ResolveMessages(t, TRUE) \/ ResolveMessages(NoRef, FALSE))
  BY NumbersArePositive DEF FillerInv, TypeOK, GiveUp
<1>4. ChainInv' /\ StepsForward
  BY <1>3, ResolveMessagesInv DEF FillerInv
<1>5. last' < t /\ last' >= last /\ last \in Nat /\ last' \in Nat
  BY <1>2, <1>4 DEF StepsForward, ChainInv, GapIsOpen, FillerInv, ChainTypeOK
<1>6. t = current /\ t # NoRef
  BY <1>3, <1>5, NumbersArePositive DEF FillerInv, TasksAreBehind, TypeOK
<1>7. gap # NoRef /\ gap.to = t
  BY <1>2, <1>6 DEF FillerInv, CurrentTaskOwnsGap
<1>8. t <= last'
  BY <1>2, <1>4, <1>7 DEF StepsForward
<1> QED
  BY <1>3, <1>5, <1>8

\* Who drops a gap, in a step from tasks: one that ends, after its last request or for
\* want of storage nodes, and with 'full' the gap's own.
Dropper(t) ==
  /\ t \in DOMAIN tasks \ DOMAIN tasks'
  /\ tasks[t].pc = "addresses" \/ tasks[t].requests = MaxRequestsPerGap
  /\ t = current \/ (~full /\ tasks[t].aborted)

\* What a task that gives up drops.
LEMMA GiveUpDropsOwnGap ==
  ASSUME FillerInv, NEW t \in DOMAIN tasks, GiveUp(t),
         tasks[t].pc = "addresses" \/ tasks[t].requests >= MaxRequestsPerGap
  PROVE  /\ unfillable' # unfillable /\ ~destroyed => Dropper(t)
         /\ destroyed => DOMAIN tasks' \subseteq DOMAIN tasks
<1>1. ASSUME unfillable' # unfillable, ~destroyed PROVE Dropper(t)
  <2>1. tasks[t].requests \in 0 .. MaxRequestsPerGap
    BY DEF FillerInv, TypeOK, Task
  <2>2. tasks[t].aborted <=> t # current
    BY <1>1 DEF FillerInv, CurrentTaskOwnsGap
  <2>3. t # current => ~full
    BY <1>1, StrayResolvesNothing DEF GiveUp
  <2>4. t \notin DOMAIN tasks'
    BY <1>1, GivingUpEnds
  <2> QED
    BY <2>1, <2>2, <2>3, <2>4, GapFillerAssumption DEF Dropper
<1>2. ASSUME destroyed PROVE DOMAIN tasks' \subseteq DOMAIN tasks
  BY <1>2 DEF GiveUp, React, Restrict
<1> QED
  BY <1>1, <1>2

\* A gap is declared unfillable only by a task that ends, after its last request or for
\* want of storage nodes; with 'full' by its own, with 'light' also by one that was aborted
\* meanwhile; and after destroy() no task starts.
THEOREM FillerDropsLast == Spec => DroppedAfterLastRequest
<1> DEFINE A == /\ unfillable' # unfillable /\ ~destroyed => \E t \in DOMAIN tasks \ DOMAIN tasks' :
                     /\ tasks[t].pc = "addresses" \/ tasks[t].requests = MaxRequestsPerGap
                     /\ t = current \/ (~full /\ tasks[t].aborted)
                /\ destroyed => DOMAIN tasks' \subseteq DOMAIN tasks
<1>1. ASSUME FillerInv, [Next]_vars PROVE [A]_vars
  <2>1. ASSUME NEW m \in Message, Receive(m) PROVE A
    <3>1. unfillable' = unfillable /\ ~destroyed
      BY <1>1, <2>1, AddingDropsNothing DEF Receive
    <3> QED
      BY <3>1
  <2>2. ASSUME NEW t \in DOMAIN tasks, NEW m \in Message, ResendMessage(t, m) PROVE A
    <3>1. unfillable' = unfillable
      BY <1>1, <2>2, AddingDropsNothing DEF ResendMessage
    <3>2. destroyed => tasks' = tasks
      BY <2>2 DEF ResendMessage, React
    <3> QED
      BY <3>1, <3>2
  <2>3. ASSUME NEW t \in DOMAIN tasks, Progress(t) PROVE A
    <3>1. tasks[t].requests \in 0 .. MaxRequestsPerGap /\ tasks \in [DOMAIN tasks -> Task]
      BY <1>1 DEF FillerInv, TypeOK, Task
    <3>2. CASE GiveUp(t) /\ (tasks[t].pc = "addresses" \/ tasks[t].requests >= MaxRequestsPerGap)
      BY <1>1, <3>2, GiveUpDropsOwnGap DEF Dropper
    <3>3. ASSUME NEW pc, MoveTo(t, pc) PROVE A
      BY <3>3 DEF MoveTo, chainVars
    <3>4. ASSUME NEW k, Request(t, k) PROVE A
      BY <3>4 DEF Request, chainVars
    <3>5. CASE End(t)
      BY <3>5 DEF End, chainVars, Restrict
    <3>6. CASE InitialWaitOver(t)
      BY <3>1, <3>2, <3>3, <3>6, GapFillerAssumption DEF InitialWaitOver
    <3>7. CASE AddressesFound(t)
      BY <3>4, <3>7 DEF AddressesFound
    <3>8. CASE NoAddresses(t)
      BY <3>2, <3>8 DEF NoAddresses
    <3>9. CASE ResendOver(t)
      BY <3>1, <3>2, <3>3, <3>5, <3>9, GapFillerAssumption DEF ResendOver, AfterRequest
    <3>10. CASE RetryWaitOver(t)
      BY <3>4, <3>10 DEF RetryWaitOver
    <3> QED
      BY <2>3, <3>6, <3>7, <3>8, <3>9, <3>10 DEF Progress
  <2>4. ASSUME NEW t \in DOMAIN tasks, AddressesFailed(t) PROVE A
    BY <2>4 DEF AddressesFailed, chainVars, Restrict
  <2>5. CASE Destroy
    <3>1. unfillable' = unfillable /\ ~destroyed
      BY <2>5 DEF Destroy, chainVars
    <3> QED
      BY <3>1
  <2> HIDE DEF A
  <2> QED
    BY <1>1, <2>1, <2>2, <2>3, <2>4, <2>5 DEF Next
<1>2. DroppedAfterLastRequest <=> [][A]_vars
  BY DEF DroppedAfterLastRequest
<1> HIDE DEF A
<1>3. FillerInv /\ [Next]_vars => [A]_vars
  BY <1>1
<1>4. Spec => [][A]_vars
  BY <1>3, FillerInvariant, PTL DEF Spec
<1> QED
  BY <1>2, <1>4

-----------------------------------------------------------------------------
(* The way of a message, from its publisher through other nodes to those   *)
(* who read it.                                                            *)

Fields == {"version", "signatureType", "partition", "ref", "publisher", "prev", "type", "enc",
           "keyId", "text", "newKey", "parsed", "signed"}

\* The message m is the original, but for its version, whether it was parsed, and how
\* the key is written that it announces.
IsOriginal(m) ==
  /\ DOMAIN m = Fields
  /\ m.partition = original.partition /\ m.ref = original.ref /\ m.prev = original.prev
  /\ m.publisher = original.publisher /\ m.type = original.type /\ m.text = original.text
  /\ m.enc = original.enc /\ m.keyId = original.keyId /\ m.signed = original.signed
  /\ DOMAIN m.newKey = {"id", "under", "text"}
  /\ m.newKey.id = original.newKey.id /\ m.newKey.under = original.newKey.under
  /\ KeyText(m.newKey) = KeyText(original.newKey)

\* A node has the message, that it could make, and nothing is on its way.
Reading == held # NoMessage /\ packet = NoPacket /\ \A l \in Layer : agreed[l] = 0

\* Where the message is: what a node could not make was not sent on by a node of this
\* code, and what is sent in agreed versions can be made.
WayInv ==
  /\ IsOriginal(original) /\ (original.newKey # NoNewKey => original.enc = "AES")
  /\ hops \in Nat /\ agreed = [l \in Layer |-> agreed[l]]
  /\ packet # NoPacket => IsOriginal(packet.array) /\ held = NoMessage
  /\ packet # NoPacket /\ hops > 0 => Decodes(packet, speaks["receiver"])
  /\ held # NoMessage => IsOriginal(held) /\ Constructible(held)
  /\ dropped => hops = 0 /\ held = NoMessage /\ packet = NoPacket
  /\ (\E l \in Layer : agreed[l] # 0) =>
       /\ held # NoMessage /\ packet = NoPacket
       /\ \A l \in Layer : agreed[l] # 0 => agreed[l] \in speaks["receiver"][l]

\* Messages of the same content are written and made alike.
LEMMA SameContent ==
  ASSUME NEW m, IsOriginal(m)
  PROVE  /\ Payload(m) = Payload(original)
         /\ Constructible(m) <=> Constructible(original)
         /\ m.newKey = NoNewKey <=> original.newKey = NoNewKey
<1>1. Payload(m) = Payload(original)
  BY DEF Payload, IsOriginal
<1>2. Constructible(m) <=> Constructible(original)
  BY DEF Constructible, IsOriginal, ValidType, ValidSequence
<1>3. \A k : KeyText(k) = "none" <=> k = NoNewKey
  BY DEF KeyText
<1> QED
  BY <1>1, <1>2, <1>3 DEF IsOriginal

\* The text of a key is the same when it has been written.
LEMMA KeyWritten ==
  ASSUME NEW k, DOMAIN k = {"id", "under", "text"}
  PROVE  LET w == IF k = NoNewKey THEN k ELSE [k EXCEPT !.text = KeyText(k)]
         IN  /\ DOMAIN w = {"id", "under", "text"} /\ w.id = k.id /\ w.under = k.under
             /\ KeyText(w) = KeyText(k)
<1>1. CASE k = NoNewKey
  BY <1>1
<1>2. CASE k # NoNewKey
  <2> DEFINE w == [k EXCEPT !.text = KeyText(k)]
  <2>1. DOMAIN w = {"id", "under", "text"} /\ w.id = k.id /\ w.under = k.under /\ w.text = KeyText(k)
    OBVIOUS
  <2>2. KeyText(k) # "none"
    BY <1>2 DEF KeyText
  <2> HIDE DEF w
  <2>3. w # NoNewKey
    BY <2>1, <2>2 DEF NoNewKey
  <2>4. KeyText(w) = KeyText(k)
    BY <2>1, <2>2, <2>3 DEF KeyText
  <2> QED
    BY <1>2, <2>1, <2>4 DEF w
<1> QED
  BY <1>1, <1>2

\* What is sent is the original.
Sent(m, v) == [ToArray(m) EXCEPT !.version = v]

LEMMA ArrayIsOriginal ==
  ASSUME NEW m, IsOriginal(m), NEW v
  PROVE  IsOriginal(Sent(m, v)) /\ Sent(m, v).version = v /\ Sent(m, v).signatureType = 2
<1> DEFINE a == Sent(m, v)
           k == IF m.newKey = NoNewKey THEN m.newKey ELSE [m.newKey EXCEPT !.text = KeyText(m.newKey)]
           b == [m EXCEPT !.version = 32, !.signatureType = 2, !.parsed = FALSE, !.newKey = k]
<1>1. ToArray(m) = b
  BY DEF ToArray
<1>2. /\ DOMAIN k = {"id", "under", "text"} /\ k.id = m.newKey.id /\ k.under = m.newKey.under
      /\ KeyText(k) = KeyText(m.newKey)
  BY KeyWritten DEF IsOriginal
<1> HIDE DEF k
<1>3. DOMAIN m = Fields
  BY DEF IsOriginal
<1>4. /\ DOMAIN b = Fields /\ b.signatureType = 2 /\ b.newKey = k
      /\ \A f \in Fields \ {"version", "signatureType", "parsed", "newKey"} : b[f] = m[f]
  BY <1>3 DEF Fields
<1> HIDE DEF b
<1>5. /\ DOMAIN a = Fields /\ a.version = v /\ a.signatureType = 2 /\ a.newKey = k
      /\ \A f \in Fields \ {"version", "signatureType", "parsed", "newKey"} : a[f] = m[f]
  BY <1>1, <1>4 DEF Fields, Sent
<1> HIDE DEF a
<1>6. /\ a.partition = m.partition /\ a.ref = m.ref /\ a.prev = m.prev
      /\ a.publisher = m.publisher /\ a.type = m.type /\ a.text = m.text
      /\ a.enc = m.enc /\ a.keyId = m.keyId /\ a.signed = m.signed
  BY <1>5 DEF Fields
<1>7. IsOriginal(a) /\ a.version = v /\ a.signatureType = 2
  BY <1>2, <1>5, <1>6 DEF IsOriginal
<1> QED
  BY <1>7 DEF a

\* What is made of it is the original.
LEMMA MadeIsOriginal ==
  ASSUME NEW a, IsOriginal(a), NEW m, m \in {FromArray(a), [a EXCEPT !.parsed = TRUE]}
  PROVE  IsOriginal(m) /\ m # NoMessage
<1>1. DOMAIN a = Fields
  BY DEF IsOriginal
<1>2. DOMAIN m = Fields /\ \A f \in Fields \ {"parsed"} : m[f] = a[f]
  BY <1>1 DEF FromArray, DeserializedKey, Fields
<1>3. /\ m.partition = a.partition /\ m.ref = a.ref /\ m.prev = a.prev
      /\ m.publisher = a.publisher /\ m.type = a.type /\ m.text = a.text
      /\ m.enc = a.enc /\ m.keyId = a.keyId /\ m.signed = a.signed /\ m.newKey = a.newKey
  BY <1>2 DEF Fields
<1>4. "ref" \in DOMAIN m /\ "ref" \notin DOMAIN NoMessage
  BY <1>2 DEF Fields, NoMessage
<1> QED
  BY <1>2, <1>3, <1>4 DEF IsOriginal

\* Two nodes agree on versions that both have.
LEMMA AgreedIsShared ==
  ASSUME NEW l \in Layer, NEW ours \in SUBSET Versions(l), NEW theirs \in SUBSET Versions(l)
  PROVE  Negotiated(l, ours, theirs) # 0 => Negotiated(l, ours, theirs) \in theirs
<1> DEFINE shared == ours \cap theirs
<1>1. CASE shared = {}
  BY <1>1 DEF Negotiated
<1>2. CASE shared # {}
  <2>1. \E v \in shared : \A w \in shared : w <= v
    <3>1. PICK low \in {1, 31}, high \in {2, 32} : shared \subseteq {low, high} /\ low < high
      <4>1. CASE l = "control"
        <5>1. shared \subseteq {1, 2} /\ 1 < 2
          BY <4>1 DEF Versions
        <5> QED
          BY <5>1
      <4>2. CASE l # "control"
        <5>1. shared \subseteq {31, 32} /\ 31 < 32
          BY <4>2 DEF Versions
        <5> QED
          BY <5>1
      <4> QED
        BY <4>1, <4>2
    <3>2. CASE high \in shared
      BY <3>1, <3>2
    <3>3. CASE high \notin shared
      BY <1>2, <3>1, <3>3
    <3> QED
      BY <3>2, <3>3
  <2>2. (CHOOSE v \in shared : \A w \in shared : w <= v) \in shared
    BY <2>1
  <2> QED
    BY <1>2, <2>2 DEF Negotiated
<1> QED
  BY <1>1, <1>2

\* What its publisher makes is a message; only an encrypted one announces a key.
LEMMA OriginalIsMessage ==
  ASSUME NEW kind \in Kinds, NEW quirk \in Quirks, original = Original(kind, quirk)
  PROVE  IsOriginal(original) /\ (original.newKey # NoNewKey => original.enc = "AES")
<1>1. DOMAIN original = Fields
  BY DEF Original, Fields
<1>2. /\ original.newKey = IF kind # "announcing" THEN NoNewKey
                           ELSE [id |-> "k2", under |-> IF quirk = "badKey" THEN "k0" ELSE "k1",
                                 text |-> IF quirk = "keyText" THEN "spaced" ELSE "none"]
      /\ kind = "announcing" => original.enc = "AES"
  BY DEF Original
<1>3. DOMAIN original.newKey = {"id", "under", "text"}
  BY <1>2 DEF NoNewKey
<1> QED
  BY <1>1, <1>2, <1>3 DEF IsOriginal

LEMMA WayStart ==
  ASSUME JourneyInit
  PROVE  WayInv
<1>1. IsOriginal(original) /\ (original.newKey # NoNewKey => original.enc = "AES")
  BY OriginalIsMessage DEF JourneyInit
<1>2. /\ packet.array = original /\ held = NoMessage /\ dropped = FALSE /\ hops = 0
      /\ agreed = [l \in Layer |-> 0]
  BY DEF JourneyInit
<1> QED
  BY <1>1, <1>2 DEF WayInv, IsOriginal

\* A node makes of the array what it can.
LEMMA OnMessageReceivedKeeps ==
  ASSUME WayInv, OnMessageReceived
  PROVE  WayInv'
<1>1. /\ packet # NoPacket /\ packet' = NoPacket
      /\ IF Decodes(packet, speaks["receiver"])
         THEN held' = FromArray(packet.array) /\ dropped' = dropped
         ELSE dropped' = TRUE /\ held' = held
      /\ original' = original /\ agreed' = agreed /\ hops' = hops
  BY DEF OnMessageReceived
<1>2. IsOriginal(packet.array) /\ ~dropped /\ \A l \in Layer : agreed[l] = 0
  BY <1>1 DEF WayInv
<1>3. \A m : IsOriginal(m)' <=> IsOriginal(m)
  BY <1>1 DEF IsOriginal
<1>4. CASE Decodes(packet, speaks["receiver"])
  <2>1. held' = FromArray(packet.array) /\ dropped' = dropped
    BY <1>1, <1>4
  <2>2. IsOriginal(held')
    BY <1>2, <2>1, MadeIsOriginal
  <2>3. Constructible(packet.array)
    BY <1>4 DEF Decodes, Deserializable
  <2>4. Constructible(held')
    BY <1>2, <2>2, <2>3, SameContent
  <2> QED
    BY <1>1, <1>2, <1>3, <2>1, <2>2, <2>4 DEF WayInv
<1>5. CASE ~Decodes(packet, speaks["receiver"])
  <2>1. dropped' = TRUE /\ held' = held /\ hops = 0
    BY <1>1, <1>5 DEF WayInv
  <2> QED
    BY <1>1, <1>2, <1>3, <2>1 DEF WayInv
<1> QED
  BY <1>4, <1>5

\* The two ends of a connection agree on versions that the receiver has.
LEMMA NegotiateKeeps ==
  ASSUME WayInv, NEW ours \in ReleasesOf, NEW theirs \in ReleasesOf, Negotiate(ours, theirs)
  PROVE  WayInv'
<1>1. /\ held # NoMessage /\ packet = NoPacket
      /\ speaks'["receiver"] = theirs
      /\ UNCHANGED <<original, packet, held, dropped, hops>>
  BY DEF Negotiate, Side
<1>2. /\ agreed' = [l \in Layer |-> agreed'[l]]
      /\ \A l \in Layer : agreed'[l] \in {0, Negotiated(l, ours[l], theirs[l])}
  BY DEF Negotiate
<1>3. \A l \in Layer : agreed'[l] # 0 => agreed'[l] \in theirs[l]
  <2>1. \A l \in Layer : ours[l] \subseteq Versions(l) /\ theirs[l] \subseteq Versions(l)
    BY DEF ReleasesOf
  <2> QED
    BY <1>2, <2>1, AgreedIsShared
<1>4. \A m : IsOriginal(m)' <=> IsOriginal(m)
  BY <1>1 DEF IsOriginal
<1> QED
  BY <1>1, <1>2, <1>3, <1>4 DEF WayInv

\* What is sent in agreed versions can be decoded.
LEMMA SendDataKeeps ==
  ASSUME WayInv, SendData
  PROVE  WayInv'
<1> DEFINE a == Sent(held, agreed["message"])
<1>1. /\ \A l \in Layer : agreed[l] # 0
      /\ packet' = [version |-> agreed["control"], array |-> a]
      /\ held' = NoMessage /\ hops' = hops + 1 /\ agreed' = [l \in Layer |-> 0]
      /\ UNCHANGED <<original, speaks, dropped>>
  BY DEF SendData, Broadcast, Sent
<1>2. /\ held # NoMessage /\ \A l \in Layer : agreed[l] \in speaks["receiver"][l]
      /\ IsOriginal(held) /\ Constructible(held) /\ ~dropped
  BY <1>1 DEF WayInv, Layer
<1>3. IsOriginal(a) /\ a.version = agreed["message"] /\ a.signatureType = 2
  BY <1>2, ArrayIsOriginal
<1> HIDE DEF a
<1>4. Constructible(a)
  BY <1>2, <1>3, SameContent
<1>5. Decodes(packet', speaks["receiver"])
  BY <1>1, <1>2, <1>3, <1>4 DEF Decodes, Deserializable, Layer
<1>6. IsOriginal(packet'.array)
  BY <1>1, <1>3
<1>7. \A m : IsOriginal(m)' <=> IsOriginal(m)
  BY <1>1 DEF IsOriginal
<1>8. original' = original /\ hops' \in Nat /\ hops' > 0
  BY <1>1 DEF WayInv
<1> QED
  BY <1>1, <1>2, <1>5, <1>6, <1>7, <1>8 DEF WayInv

\* A subscription parses at most what a node holds.
LEMMA WayFramed ==
  ASSUME WayInv, UNCHANGED <<original, packet, speaks, agreed, dropped, hops>>,
         held' = held \/ (held # NoMessage /\ held' = [held EXCEPT !.parsed = TRUE])
  PROVE  WayInv'
<1>1. \A m : IsOriginal(m)' <=> IsOriginal(m)
  BY DEF IsOriginal
<1>2. held' # NoMessage => held # NoMessage /\ IsOriginal(held') /\ Constructible(held')
  <2>1. CASE held' = held
    BY <2>1 DEF WayInv
  <2>2. CASE held # NoMessage /\ held' = [held EXCEPT !.parsed = TRUE]
    <3>1. IsOriginal(held')
      BY <2>2, MadeIsOriginal DEF WayInv
    <3>2. Constructible(held')
      BY <2>2, <3>1, SameContent DEF WayInv
    <3> QED
      BY <2>2, <3>1, <3>2
  <2> QED
    BY <2>1, <2>2
<1>3. held # NoMessage => held' # NoMessage
  BY MadeIsOriginal DEF WayInv
<1> QED
  BY <1>1, <1>2, <1>3 DEF WayInv

\* How far a subscription is with the message: what it has checked was so at some time
\* since it began, and what it hands on is readable.
Accepting == {"valid", "fetching", "storing", "parsing", "done"}

Receives(r) ==
  /\ receivers[r] = [step |-> receivers[r].step, object |-> receivers[r].object, own |-> receivers[r].own]
  /\ receivers[r] # Waiting => Reading /\ Says \in seen[r]
  /\ receivers[r].step \in {"stream", "publisher", "subscriber"} \cup Accepting =>
       held.signed = Payload(original)
  /\ receivers[r].step = "stream" => held.type = "message"
  /\ receivers[r].step \in {"publisher", "subscriber"} \cup Accepting /\ held.type = "message" =>
       \E s \in seen[r] : held.partition < s.partitions
  /\ receivers[r].step \in {"subscriber"} \cup Accepting =>
       \E s \in seen[r] : ExpectedPublisher \in s.publishers
  /\ receivers[r].step \in Accepting /\ held.type # "message" =>
       \E s \in seen[r] : ExpectedSubscriber \in s.subscribers
  /\ receivers[r].step = "fetching" => held.enc = "AES"
  /\ receivers[r].step = "storing" =>
       /\ receivers[r].own /\ receivers[r].object.parsed
       /\ receivers[r].object.newKey.id = original.newKey.id
  /\ receivers[r].step \in {"parsing", "done"} /\ ~over =>
       /\ original.enc = "AES" => receivers[r].own /\ receivers[r].object.parsed
       /\ original.newKey # NoNewKey => original.newKey.id \in store

JourneyInv ==
  /\ WayInv
  /\ receivers = [r \in Receiver |-> receivers[r]] /\ seen = [r \in Receiver |-> seen[r]]
  /\ \A r \in Receiver : Receives(r)

\* What others do to a subscription that goes on reading: the client may be destroyed,
\* keys get stored, and the registry may say something else.
LEMMA ReceivesFramed ==
  ASSUME NEW r \in Receiver, Receives(r), receivers'[r] = receivers[r], original' = original,
         receivers[r] # Waiting =>
           /\ Reading' /\ Says' \in seen'[r] /\ seen[r] \subseteq seen'[r]
           /\ held'.type = held.type /\ held'.partition = held.partition /\ held'.enc = held.enc
           /\ held'.publisher = held.publisher /\ held'.signed = held.signed,
         over => over', store \subseteq store'
  PROVE  Receives(r)'
<1>1. CASE receivers[r] = Waiting
  BY <1>1 DEF Receives, Waiting, Accepting
<1>2. CASE receivers[r] # Waiting
  <2>1. ExpectedPublisher' = ExpectedPublisher /\ ExpectedSubscriber' = ExpectedSubscriber
        /\ Payload(original)' = Payload(original)
    BY <1>2 DEF ExpectedPublisher, ExpectedSubscriber, Payload
  <2> QED
    BY <1>2, <2>1 DEF Receives
<1> QED
  BY <1>1, <1>2

\* The object that a node holds still says the same when somebody has parsed it.
LEMMA HeldSays ==
  ASSUME WayInv, original' = original, held # NoMessage,
         held' \in {held, [held EXCEPT !.parsed = TRUE]}
  PROVE  /\ held' # NoMessage /\ IsOriginal(held) /\ IsOriginal(held')
         /\ held'.type = held.type /\ held'.partition = held.partition /\ held'.enc = held.enc
         /\ held'.publisher = held.publisher /\ held'.signed = held.signed
<1>1. IsOriginal(held)
  BY DEF WayInv
<1>2. IsOriginal(held') /\ held' # NoMessage
  BY <1>1, MadeIsOriginal
<1> QED
  BY <1>1, <1>2 DEF IsOriginal

\* A subscription goes a step on: the others are not concerned.
LEMMA StepKeeps ==
  ASSUME JourneyInv, NEW r \in Receiver, receivers[r] # Waiting, NEW s, NEW o, NEW w,
         receivers' = [receivers EXCEPT ![r] = [step |-> s, object |-> o, own |-> w]],
         UNCHANGED <<original, packet, speaks, agreed, dropped, hops, publishers, subscribers,
                     partitions, over, seen>>,
         held' \in {held, [held EXCEPT !.parsed = TRUE]}, store \subseteq store',
         \/ s = "rejected"
         \/ /\ s \in {"publisher", "subscriber"} \cup Accepting
            /\ held.signed = Payload(original)
            /\ held.type = "message" => \E e \in seen[r] : held.partition < e.partitions
            /\ s # "publisher" => \E e \in seen[r] : ExpectedPublisher \in e.publishers
            /\ s \in Accepting /\ held.type # "message" =>
                 \E e \in seen[r] : ExpectedSubscriber \in e.subscribers
            /\ s = "fetching" => held.enc = "AES"
            /\ s = "storing" => w /\ o.parsed /\ o.newKey.id = original.newKey.id
            /\ s \in {"parsing", "done"} /\ ~over =>
                 /\ original.enc = "AES" => w /\ o.parsed
                 /\ original.newKey # NoNewKey => original.newKey.id \in store'
  PROVE  JourneyInv'
<1>1. Reading /\ Says \in seen[r] /\ WayInv
  BY DEF JourneyInv, Receives
<1>2. /\ held' # NoMessage
      /\ held'.type = held.type /\ held'.partition = held.partition /\ held'.enc = held.enc
      /\ held'.publisher = held.publisher /\ held'.signed = held.signed
  BY <1>1, HeldSays DEF Reading
<1>3. WayInv'
  BY <1>1, WayFramed DEF Reading
<1>4. Reading' /\ Says' = Says
  BY <1>1, <1>2 DEF Reading, Says
<1>5. /\ receivers' = [q \in Receiver |-> receivers'[q]] /\ seen' = [q \in Receiver |-> seen'[q]]
      /\ receivers'[r] = [step |-> s, object |-> o, own |-> w]
      /\ \A q \in Receiver : q # r => receivers'[q] = receivers[q]
  BY DEF JourneyInv
<1>6. ASSUME NEW q \in Receiver, q # r
      PROVE  Receives(q)'
  <2>1. Receives(q) /\ (receivers[q] # Waiting => Says \in seen[q])
    BY DEF JourneyInv, Receives
  <2> QED
    BY <1>2, <1>4, <1>5, <1>6, <2>1, ReceivesFramed
<1>7. Receives(r)'
  <2>1. ExpectedPublisher' = ExpectedPublisher /\ ExpectedSubscriber' = ExpectedSubscriber
        /\ Payload(original)' = Payload(original)
    BY <1>2 DEF ExpectedPublisher, ExpectedSubscriber, Payload
  <2>2. /\ receivers'[r].step = s /\ receivers'[r].object = o /\ receivers'[r].own = w
        /\ receivers'[r] = [step |-> s, object |-> o, own |-> w]
    BY <1>5
  <2>3. CASE s = "rejected"
    BY <1>1, <1>4, <2>2, <2>3 DEF Receives, Accepting
  <2>4. CASE s # "rejected"
    <3>1. s # "stream"
      BY <2>4 DEF Accepting
    <3>2. receivers'[r].step \in {"stream", "publisher", "subscriber"} \cup Accepting =>
            held'.signed = Payload(original)'
      BY <1>2, <2>1, <2>4
    <3>3. receivers'[r].step \in {"publisher", "subscriber"} \cup Accepting /\ held'.type = "message" =>
            \E e \in seen'[r] : held'.partition < e.partitions
      BY <1>2, <2>4
    <3>4. receivers'[r].step \in {"subscriber"} \cup Accepting =>
            \E e \in seen'[r] : ExpectedPublisher' \in e.publishers
      BY <2>1, <2>2, <2>4 DEF Accepting
    <3>5. receivers'[r].step \in Accepting /\ held'.type # "message" =>
            \E e \in seen'[r] : ExpectedSubscriber' \in e.subscribers
      BY <1>2, <2>1, <2>2, <2>4
    <3>6. receivers'[r].step = "fetching" => held'.enc = "AES"
      BY <1>2, <2>2, <2>4
    <3>7. receivers'[r].step = "storing" =>
            /\ receivers'[r].own /\ receivers'[r].object.parsed
            /\ receivers'[r].object.newKey.id = original'.newKey.id
      BY <2>2, <2>4
    <3>8. receivers'[r].step \in {"parsing", "done"} /\ ~over' =>
            /\ original'.enc = "AES" => receivers'[r].own /\ receivers'[r].object.parsed
            /\ original'.newKey # NoNewKey => original'.newKey.id \in store'
      BY <2>2, <2>4
    <3> QED
      BY <1>1, <1>4, <2>2, <3>1, <3>2, <3>3, <3>4, <3>5, <3>6, <3>7, <3>8 DEF Receives
  <2> QED
    BY <2>3, <2>4
<1> QED
  BY <1>3, <1>5, <1>6, <1>7 DEF JourneyInv

\* What becomes of a subscription's record.
LEMMA StepChanged ==
  ASSUME NEW s, NEW s0, NEW o0, NEW w0, NEW u, u = [step |-> s0, object |-> o0, own |-> w0]
  PROVE  [u EXCEPT !.step = s] = [step |-> s, object |-> o0, own |-> w0]
OBVIOUS

LEMMA ObjectChanged ==
  ASSUME NEW o, NEW s0, NEW o0, NEW w0, NEW u, u = [step |-> s0, object |-> o0, own |-> w0]
  PROVE  [u EXCEPT !.object = o] = [step |-> s0, object |-> o, own |-> w0]
OBVIOUS

LEMMA OwnChanged ==
  ASSUME NEW w, NEW s0, NEW o0, NEW w0, NEW u, u = [step |-> s0, object |-> o0, own |-> w0]
  PROVE  [u EXCEPT !.own = w] = [step |-> s0, object |-> o0, own |-> w]
OBVIOUS

LEMMA StepIs ==
  ASSUME JourneyInv, NEW r \in Receiver, NEW s, Step(r, s)
  PROVE  receivers' = [receivers EXCEPT ![r] = [step |-> s, object |-> receivers[r].object,
                                                own |-> receivers[r].own]]
<1>1. receivers[r] = [step |-> receivers[r].step, object |-> receivers[r].object,
                      own |-> receivers[r].own]
  BY DEF JourneyInv, Receives
<1>2. receivers' = [receivers EXCEPT ![r] = [receivers[r] EXCEPT !.step = s]]
  BY DEF Step
<1>3. [receivers[r] EXCEPT !.step = s]
        = [step |-> s, object |-> receivers[r].object, own |-> receivers[r].own]
  BY <1>1, StepChanged
<1> QED
  BY <1>2, <1>3

\* The checks of the registry.
LEMMA ChecksKeep ==
  ASSUME JourneyInv, NEW r \in Receiver, GetStream(r) \/ CheckPublisher(r) \/ CheckSubscriber(r)
  PROVE  JourneyInv'
<1> DEFINE goes(s) == receivers' = [receivers EXCEPT ![r] = [step |-> s, object |-> receivers[r].object,
                                                             own |-> receivers[r].own]]
<1>1. /\ receivers[r].step \in {"stream", "publisher", "subscriber"}
      /\ UNCHANGED <<original, packet, speaks, agreed, dropped, hops, publishers, subscribers,
                     partitions, over, seen, held, store>>
  BY DEF GetStream, CheckPublisher, CheckSubscriber, subscriptionUnchanged
<1>2. receivers[r] # Waiting /\ Receives(r) /\ Says \in seen[r]
  BY <1>1 DEF JourneyInv, Receives, Waiting
<1>3. ASSUME Reject(r)
      PROVE  JourneyInv'
  <2>1. goes("rejected")
    BY <1>3, StepIs DEF Reject
  <2> QED
    BY <1>1, <1>2, <2>1, StepKeeps
<1>4. CASE GetStream(r) /\ ~Reject(r)
  <2>1. receivers[r].step = "stream" /\ held.partition < partitions /\ goes("publisher")
    BY <1>4, StepIs DEF GetStream
  <2>2. held.signed = Payload(original) /\ \E e \in seen[r] : held.partition < e.partitions
    BY <1>2, <2>1 DEF Receives, Says
  <2> QED
    BY <1>1, <1>2, <2>1, <2>2, StepKeeps DEF Accepting
<1>5. CASE CheckPublisher(r) /\ ~Reject(r)
  <2>1. /\ receivers[r].step = "publisher" /\ ExpectedPublisher \in publishers
        /\ goes(IF held.type = "message" THEN "valid" ELSE "subscriber")
    BY <1>5, StepIs DEF CheckPublisher
  <2>2. /\ held.signed = Payload(original)
        /\ held.type = "message" => \E e \in seen[r] : held.partition < e.partitions
        /\ \E e \in seen[r] : ExpectedPublisher \in e.publishers
    BY <1>2, <2>1 DEF Receives, Says
  <2>3. CASE held.type = "message"
    <3>1. goes("valid")
      BY <2>1, <2>3
    <3> QED
      BY <1>1, <1>2, <2>2, <2>3, <3>1, StepKeeps DEF Accepting
  <2>4. CASE held.type # "message"
    <3>1. goes("subscriber")
      BY <2>1, <2>4
    <3> QED
      BY <1>1, <1>2, <2>2, <2>4, <3>1, StepKeeps DEF Accepting
  <2> QED
    BY <2>3, <2>4
<1>6. CASE CheckSubscriber(r) /\ ~Reject(r)
  <2>1. receivers[r].step = "subscriber" /\ ExpectedSubscriber \in subscribers /\ goes("valid")
    BY <1>6, StepIs DEF CheckSubscriber
  <2>2. /\ held.signed = Payload(original)
        /\ held.type = "message" => \E e \in seen[r] : held.partition < e.partitions
        /\ \E e \in seen[r] : ExpectedPublisher \in e.publishers
        /\ \E e \in seen[r] : ExpectedSubscriber \in e.subscribers
    BY <1>2, <2>1 DEF Receives, Says
  <2> QED
    BY <1>1, <1>2, <2>1, <2>2, StepKeeps DEF Accepting
<1> QED
  BY <1>3, <1>4, <1>5, <1>6

\* What all later steps rest on.
LEMMA Accepted ==
  ASSUME JourneyInv, NEW r \in Receiver, receivers[r].step \in Accepting
  PROVE  /\ receivers[r] # Waiting /\ Receives(r) /\ held # NoMessage /\ IsOriginal(held)
         /\ held.signed = Payload(original)
         /\ held.type = "message" => \E e \in seen[r] : held.partition < e.partitions
         /\ \E e \in seen[r] : ExpectedPublisher \in e.publishers
         /\ held.type # "message" => \E e \in seen[r] : ExpectedSubscriber \in e.subscribers
<1>1. receivers[r] # Waiting /\ Receives(r) /\ WayInv
  BY DEF JourneyInv, Accepting, Waiting
<1>2. held # NoMessage
  BY <1>1 DEF Receives, Reading
<1> QED
  BY <1>1, <1>2 DEF Receives, WayInv

\* Decryption is left out, or tried, and fails.
LEMMA StartDecryptKeeps ==
  ASSUME JourneyInv, NEW r \in Receiver, StartDecrypt(r) \/ FetchFails(r)
  PROVE  JourneyInv'
<1> DEFINE goes(s) == receivers' = [receivers EXCEPT ![r] = [step |-> s, object |-> receivers[r].object,
                                                             own |-> receivers[r].own]]
<1>1. /\ receivers[r].step \in Accepting
      /\ UNCHANGED <<original, packet, speaks, agreed, dropped, hops, publishers, subscribers,
                     partitions, over, seen, held, store>>
  BY DEF StartDecrypt, FetchFails, subscriptionUnchanged, Accepting
<1>2. \/ Step(r, "rejected")
      \/ Step(r, "fetching") /\ held.enc = "AES"
      \/ Step(r, "parsing") /\ (over \/ held.enc # "AES")
  BY DEF StartDecrypt, FetchFails, Reject
<1>3. held.enc = original.enc /\ (original.newKey # NoNewKey => original.enc = "AES")
  BY <1>1, Accepted DEF IsOriginal, JourneyInv, WayInv
<1>4. CASE Step(r, "rejected")
  <2>1. goes("rejected")
    BY <1>4, StepIs
  <2> QED
    BY <1>1, <2>1, Accepted, StepKeeps
<1>5. CASE Step(r, "fetching") /\ held.enc = "AES"
  <2>1. goes("fetching")
    BY <1>5, StepIs
  <2> QED
    BY <1>1, <1>5, <2>1, Accepted, StepKeeps DEF Accepting
<1>6. CASE Step(r, "parsing") /\ (over \/ held.enc # "AES")
  <2>1. goes("parsing")
    BY <1>6, StepIs
  <2> QED
    BY <1>1, <1>3, <1>6, <2>1, Accepted, StepKeeps DEF Accepting
<1> QED
  BY <1>2, <1>4, <1>5, <1>6

\* What is made of a clone by decrypting it: it is read, and names the key it announces.
LEMMA DecryptedIs ==
  ASSUME NEW m, IsOriginal(m)
  PROVE  LET d == Decrypted(Clone(m))
         IN  d.parsed /\ d.newKey.id = m.newKey.id
<1> DEFINE c == Clone(m)
           k == IF c.newKey = NoNewKey THEN c.newKey ELSE [c.newKey EXCEPT !.text = "groupKey"]
           d == [c EXCEPT !.enc = "NONE", !.text = Text("canonical"), !.parsed = TRUE, !.newKey = k]
<1>1. DOMAIN c = Fields /\ c.newKey = m.newKey
  BY DEF IsOriginal, Clone, Fields
<1>2. DOMAIN c.newKey = {"id", "under", "text"}
  BY <1>1 DEF IsOriginal
<1> HIDE DEF c
<1>3. k.id = c.newKey.id
  BY <1>2
<1> HIDE DEF k
<1>4. d.parsed = TRUE /\ d.newKey = k
  BY <1>1 DEF Fields
<1>5. Decrypted(c) = d
  BY DEF Decrypted, k
<1> QED
  BY <1>1, <1>3, <1>4, <1>5 DEF c

\* The key is there.
LEMMA KeyFetchedKeeps ==
  ASSUME JourneyInv, NEW r \in Receiver, KeyFetched(r)
  PROVE  JourneyInv'
<1> DEFINE goes(s, o, w) == receivers' = [receivers EXCEPT ![r] = [step |-> s, object |-> o, own |-> w]]
           made == Decrypted(Clone(held))
<1>1. /\ receivers[r].step = "fetching"
      /\ UNCHANGED <<original, packet, speaks, agreed, dropped, hops, publishers, subscribers,
                     partitions, over, seen, held, store>>
  BY DEF KeyFetched, subscriptionUnchanged
<1>2. receivers[r].step \in Accepting
  BY <1>1 DEF Accepting
<1>3. made.parsed /\ made.newKey.id = original.newKey.id /\ (held.newKey = NoNewKey => original.newKey = NoNewKey)
  BY <1>2, Accepted, DecryptedIs, SameContent DEF IsOriginal
<1> HIDE DEF made
<1>4. CASE over \/ held.text.form # "cipher" \/ KeyIsBad(held)
  <2>1. \/ Step(r, "rejected")
        \/ Step(r, "parsing") /\ over
    BY <1>4 DEF KeyFetched, Reject
  <2>2. CASE Step(r, "rejected")
    <3>1. goes("rejected", receivers[r].object, receivers[r].own)
      BY <2>2, StepIs
    <3> QED
      BY <1>1, <1>2, <3>1, Accepted, StepKeeps
  <2>3. CASE Step(r, "parsing") /\ over
    <3>1. goes("parsing", receivers[r].object, receivers[r].own)
      BY <2>3, StepIs
    <3> QED
      BY <1>1, <1>2, <2>3, <3>1, Accepted, StepKeeps DEF Accepting
  <2> QED
    BY <2>1, <2>2, <2>3
<1>5. CASE ~(over \/ held.text.form # "cipher" \/ KeyIsBad(held))
  <2> DEFINE s == IF held.newKey = NoNewKey THEN "parsing" ELSE "storing"
  <2>1. receivers' = [receivers EXCEPT ![r] = [receivers[r] EXCEPT !.step = s, !.object = made, !.own = TRUE]]
    BY <1>5 DEF KeyFetched, made
  <2>2. receivers[r] = [step |-> receivers[r].step, object |-> receivers[r].object,
                        own |-> receivers[r].own]
    BY DEF JourneyInv, Receives
  <2> DEFINE u == [receivers[r] EXCEPT !.step = s]
             v == [u EXCEPT !.object = made]
             w == [v EXCEPT !.own = TRUE]
  <2>3. u = [step |-> s, object |-> receivers[r].object, own |-> receivers[r].own]
    BY <2>2, StepChanged
  <2>4. receivers' = [receivers EXCEPT ![r] = w]
    BY <2>1
  <2> HIDE DEF u
  <2>5. v = [step |-> s, object |-> made, own |-> receivers[r].own]
    BY <2>3, ObjectChanged
  <2> HIDE DEF v
  <2>6. w = [step |-> s, object |-> made, own |-> TRUE]
    <3>1. PICK y : y = TRUE
      OBVIOUS
    <3>2. [v EXCEPT !.own = y] = [step |-> s, object |-> made, own |-> y]
      BY <2>5, OwnChanged
    <3> QED
      BY <3>1, <3>2
  <2>7. goes(s, made, TRUE)
    BY <2>4, <2>6
  <2>8. CASE held.newKey = NoNewKey
    <3>1. goes("parsing", made, TRUE) /\ original.newKey = NoNewKey
      BY <1>3, <2>7, <2>8
    <3> QED
      BY <1>1, <1>2, <1>3, <3>1, Accepted, StepKeeps DEF Accepting
  <2>9. CASE held.newKey # NoNewKey
    <3>1. goes("storing", made, TRUE)
      BY <2>7, <2>9
    <3> QED
      BY <1>1, <1>2, <1>3, <3>1, Accepted, StepKeeps DEF Accepting
  <2> QED
    BY <2>8, <2>9
<1> QED
  BY <1>4, <1>5

\* The announced key is stored.
LEMMA KeyStoredKeeps ==
  ASSUME JourneyInv, NEW r \in Receiver, KeyStored(r)
  PROVE  JourneyInv'
<1>1. /\ receivers[r].step = "storing" /\ Step(r, "parsing")
      /\ store' = store \cup {receivers[r].object.newKey.id}
      /\ UNCHANGED <<original, packet, speaks, agreed, dropped, hops, publishers, subscribers,
                     partitions, over, seen, held>>
  BY DEF KeyStored
<1>2. receivers[r].step \in Accepting
  BY <1>1 DEF Accepting
<1>3. receivers' = [receivers EXCEPT ![r] = [step |-> "parsing", object |-> receivers[r].object,
                                             own |-> receivers[r].own]]
  BY <1>1, StepIs
<1>4. receivers[r].own /\ receivers[r].object.parsed /\ receivers[r].object.newKey.id = original.newKey.id
  BY <1>1 DEF JourneyInv, Receives
<1>5. store \subseteq store' /\ original.newKey.id \in store'
  BY <1>1, <1>4
<1> QED
  BY <1>1, <1>2, <1>3, <1>4, <1>5, Accepted, StepKeeps DEF Accepting

\* The content is read.
LEMMA ParseKeeps ==
  ASSUME JourneyInv, NEW r \in Receiver, Parse(r)
  PROVE  JourneyInv'
<1>1. /\ receivers[r].step = "parsing"
      /\ Step(r, "done") \/ Step(r, "rejected")
      /\ held' \in {held, [held EXCEPT !.parsed = TRUE]}
      /\ UNCHANGED <<original, packet, speaks, agreed, dropped, hops, publishers, subscribers,
                     partitions, over, seen, store>>
  BY DEF Parse, Reject, subscriptionUnchanged
<1>2. receivers[r].step \in Accepting
  BY <1>1 DEF Accepting
<1>3. ~over => /\ original.enc = "AES" => receivers[r].own /\ receivers[r].object.parsed
               /\ original.newKey # NoNewKey => original.newKey.id \in store
  BY <1>1 DEF JourneyInv, Receives
<1>4. CASE Step(r, "rejected")
  <2>1. receivers' = [receivers EXCEPT ![r] = [step |-> "rejected", object |-> receivers[r].object,
                                               own |-> receivers[r].own]]
    BY <1>4, StepIs
  <2> QED
    BY <1>1, <1>2, <2>1, Accepted, StepKeeps
<1>5. CASE Step(r, "done")
  <2>1. receivers' = [receivers EXCEPT ![r] = [step |-> "done", object |-> receivers[r].object,
                                               own |-> receivers[r].own]]
    BY <1>5, StepIs
  <2> QED
    BY <1>1, <1>2, <1>3, <2>1, Accepted, StepKeeps DEF Accepting
<1> QED
  BY <1>1, <1>4, <1>5

\* A subscription begins: what is not signed by the publisher is rejected.
LEMMA ValidateKeeps ==
  ASSUME JourneyInv, NEW r \in Receiver, Validate(r)
  PROVE  JourneyInv'
<1>1. /\ receivers[r] = Waiting /\ held # NoMessage /\ packet = NoPacket
      /\ agreed = [l \in Layer |-> 0] /\ seen' = [seen EXCEPT ![r] = {Says}]
      /\ UNCHANGED <<original, packet, speaks, agreed, dropped, hops, publishers, subscribers,
                     partitions, over, held, store>>
      /\ \/ Step(r, "rejected")
         \/ SignatureIsValid(held) /\ Step(r, IF held.type = "message" THEN "stream" ELSE "publisher")
  BY DEF Validate, Open, Reject, subscriptionUnchanged
<1>2. PICK s \in {"rejected", "stream", "publisher"} :
        /\ Step(r, s)
        /\ s # "rejected" => SignatureIsValid(held)
        /\ s = "stream" => held.type = "message"
        /\ s = "publisher" => held.type # "message"
  BY <1>1
<1>3. receivers' = [receivers EXCEPT ![r] = [step |-> s, object |-> receivers[r].object,
                                             own |-> receivers[r].own]]
  BY <1>2, StepIs
<1>4. WayInv /\ WayInv'
  BY <1>1, WayFramed DEF JourneyInv
<1>5. s # "rejected" => held.signed = Payload(original)
  BY <1>1, <1>2, <1>4, SameContent DEF SignatureIsValid, WayInv
<1>6. /\ receivers' = [q \in Receiver |-> receivers'[q]] /\ seen' = [q \in Receiver |-> seen'[q]]
      /\ receivers'[r] = [step |-> s, object |-> receivers[r].object, own |-> receivers[r].own]
      /\ seen'[r] = {Says}
      /\ \A q \in Receiver : q # r => receivers'[q] = receivers[q] /\ seen'[q] = seen[q]
  BY <1>1, <1>3 DEF JourneyInv
<1>7. Reading' /\ Says' = Says
  BY <1>1 DEF Reading, Says
<1>8. ASSUME NEW q \in Receiver, q # r
      PROVE  Receives(q)'
  <2>1. Receives(q) /\ (receivers[q] # Waiting => Says \in seen[q])
    BY DEF JourneyInv, Receives
  <2> QED
    BY <1>1, <1>6, <1>7, <1>8, <2>1, ReceivesFramed
<1>9. Receives(r)'
  <2>1. Payload(original)' = Payload(original)
    BY <1>1 DEF Payload
  <2> QED
    BY <1>1, <1>2, <1>5, <1>6, <1>7, <2>1 DEF Receives, Accepting
<1> QED
  BY <1>4, <1>6, <1>8, <1>9 DEF JourneyInv

\* The client is destroyed, or somebody changes the stream.
LEMMA OutsideKeeps ==
  ASSUME JourneyInv, DestroyClient \/ RegistryChanges
  PROVE  JourneyInv'
<1>1. /\ UNCHANGED <<original, packet, speaks, agreed, dropped, hops, held, store, receivers>>
      /\ over => over'
      /\ seen' = [r \in Receiver |-> seen'[r]]
      /\ \A r \in Receiver : receivers[r] # Waiting =>
           seen[r] \subseteq seen'[r] /\ (Says \in seen[r] => Says' \in seen'[r])
  <2>1. CASE DestroyClient
    BY <2>1 DEF DestroyClient, Says, JourneyInv
  <2>2. CASE RegistryChanges
    <3>1. /\ UNCHANGED <<original, packet, speaks, agreed, dropped, hops, held, store, receivers, over>>
          /\ seen' = [r \in Receiver |-> IF receivers[r] = Waiting THEN {} ELSE seen[r] \cup {Says'}]
      BY <2>2 DEF RegistryChanges
    <3> QED
      BY <3>1
  <2> QED
    BY <2>1, <2>2
<1>2. WayInv /\ WayInv'
  BY <1>1, WayFramed DEF JourneyInv
<1>3. ASSUME NEW r \in Receiver
      PROVE  Receives(r)'
  <2>1. Receives(r) /\ (receivers[r] # Waiting => Reading' /\ Says \in seen[r])
    BY <1>1 DEF JourneyInv, Receives, Reading
  <2> QED
    BY <1>1, <2>1, ReceivesFramed
<1> QED
  BY <1>1, <1>2, <1>3 DEF JourneyInv

\* The message travels while nobody reads it.
LEMMA TravelKeeps ==
  ASSUME JourneyInv,
         \/ OnMessageReceived \/ SendData
         \/ \E ours, theirs \in ReleasesOf : Negotiate(ours, theirs)
  PROVE  JourneyInv'
<1>1. WayInv'
  BY OnMessageReceivedKeeps, SendDataKeeps, NegotiateKeeps DEF JourneyInv
<1>2. UNCHANGED <<original, receivers, seen, over, store>>
  BY DEF OnMessageReceived, SendData, Negotiate
<1>3. \A r \in Receiver : receivers[r] = Waiting
  <2>1. CASE OnMessageReceived
    BY <2>1 DEF OnMessageReceived, JourneyInv, Receives, Reading
  <2>2. CASE SendData
    BY <2>2 DEF SendData, JourneyInv, Receives, Reading, Layer
  <2>3. CASE \E ours, theirs \in ReleasesOf : Negotiate(ours, theirs)
    BY <2>3 DEF Negotiate
  <2> QED
    BY <2>1, <2>2, <2>3
<1>4. ASSUME NEW r \in Receiver
      PROVE  Receives(r)'
  BY <1>2, <1>3, ReceivesFramed DEF JourneyInv
<1> QED
  BY <1>1, <1>2, <1>4 DEF JourneyInv

LEMMA JourneyStart ==
  ASSUME JourneyInit
  PROVE  JourneyInv
<1>1. receivers = [r \in Receiver |-> Waiting] /\ seen = [r \in Receiver |-> {}]
  BY DEF JourneyInit
<1>2. ASSUME NEW r \in Receiver
      PROVE  Receives(r)
  <2>1. /\ receivers[r] = [step |-> "idle", object |-> NoMessage, own |-> FALSE]
        /\ receivers[r] = Waiting
    BY <1>1 DEF Waiting
  <2>2. receivers[r].step = "idle" /\ receivers[r].object = NoMessage /\ receivers[r].own = FALSE
    BY <2>1
  <2> QED
    BY <2>1, <2>2 DEF Receives, Accepting
<1> QED
  BY <1>1, <1>2, WayStart DEF JourneyInv

LEMMA JourneyStepKeeps ==
  ASSUME JourneyInv, [JourneyNext]_journeyVars
  PROVE  JourneyInv'
<1>1. CASE UNCHANGED journeyVars
  <2>1. WayInv'
    BY <1>1, WayFramed DEF journeyVars, JourneyInv
  <2>2. ASSUME NEW r \in Receiver
        PROVE  Receives(r)'
    <3>1. Receives(r) /\ (receivers[r] # Waiting => Reading' /\ Says' \in seen'[r])
      BY <1>1 DEF journeyVars, JourneyInv, Receives, Reading, Says
    <3> QED
      BY <1>1, <3>1, ReceivesFramed DEF journeyVars
  <2> QED
    BY <1>1, <2>1, <2>2 DEF JourneyInv, journeyVars
<1>2. CASE \/ OnMessageReceived \/ SendData
           \/ \E ours, theirs \in ReleasesOf : Negotiate(ours, theirs)
  BY <1>2, TravelKeeps
<1>3. CASE DestroyClient \/ RegistryChanges
  BY <1>3, OutsideKeeps
<1>4. ASSUME NEW r \in Receiver,
             \/ Validate(r) \/ GetStream(r) \/ CheckPublisher(r) \/ CheckSubscriber(r)
             \/ StartDecrypt(r) \/ FetchFails(r) \/ KeyFetched(r) \/ KeyStored(r) \/ Parse(r)
      PROVE  JourneyInv'
  BY <1>4, ValidateKeeps, ChecksKeep, StartDecryptKeeps, KeyFetchedKeeps, KeyStoredKeeps, ParseKeeps
<1> QED
  BY <1>1, <1>2, <1>3, <1>4 DEF JourneyNext

LEMMA JourneyRight ==
  ASSUME JourneyInv
  PROVE  StreamMessagesInv
<1>1. StaysVerifiable
  BY SameContent DEF JourneyInv, WayInv, StaysVerifiable
<1>2. PredecessorIsOlder
  BY DEF JourneyInv, WayInv, PredecessorIsOlder, Constructible, ValidSequence
<1>3. NegotiatedIsUnderstood
  BY DEF JourneyInv, WayInv, NegotiatedIsUnderstood
<1>4. AcceptedWasAllowed
  BY Accepted DEF AcceptedWasAllowed, Accepting
<1>5. HandedOnIsReadable
  BY DEF JourneyInv, Receives, HandedOnIsReadable
<1> QED
  BY <1>1, <1>2, <1>3, <1>4, <1>5 DEF StreamMessagesInv

\* Through whatever nodes it goes, of whatever releases, and however many subscriptions
\* read it while the stream changes, a message stays the one that was signed, is dropped by
\* no node that can be reached, accepted only if it was allowed, and handed on readable
\* (StreamMessage.ts with its serializer, validateStreamMessage.ts, decrypt.ts).
THEOREM MessagesStayTrue == JourneySpec => []StreamMessagesInv
<1>1. JourneyInit => JourneyInv
  BY JourneyStart
<1>2. JourneyInv /\ [JourneyNext]_journeyVars => JourneyInv'
  BY JourneyStepKeeps
<1>3. JourneyInv => StreamMessagesInv
  BY JourneyRight
<1> QED
  BY <1>1, <1>2, <1>3, PTL DEF JourneySpec
==============================================================================
