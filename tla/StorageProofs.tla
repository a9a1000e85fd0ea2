---------------------------- MODULE StorageProofs ----------------------------
(***************************************************************************)
(* Proofs about a storage node: no accepted message of a stream part is    *)
(* lost or at two places, the two records of the buckets in memory agree,  *)
(* and the queries find what was written, for any number of messages,      *)
(* buckets and crashes; and which stream parts it stores never goes back   *)
(* behind the chain.                                                       *)
(*                                                                         *)
(* The way a bucket climbs in the heap, the heap that is built anew when   *)
(* buckets are removed, the sum over the rows and the newest of a set are  *)
(* treated by least counterexamples.  The queries rest on every bucket     *)
(* having the time of a message, on no message being in two of them, and   *)
(* on the records counted in memory and in the rows.                       *)
(* NeverGoesBack is inductive once it is known that an event that is heard *)
(* late still says what its block did, and that no number is beyond the    *)
(* chain.                                                                  *)
(***************************************************************************)
EXTENDS Storage, StorageAssignments, FiniteSetTheorems, WellFoundedInduction, TLAPS

-----------------------------------------------------------------------------
(* Extrema.                                                                *)

\* A set of naturals that is not empty has a least element.
LEMMA LeastOf ==
  ASSUME NEW S \in SUBSET Nat, S # {}
  PROVE  Least(S) \in S /\ \A k \in S : Least(S) <= k
<1> DEFINE R == {ss \in Nat \X Nat : ss[1] < ss[2]}
<1>1. IsWellFoundedOn(R, Nat)
  BY NatLessThanWellFounded DEF OpToRel
<1>2. PICK x \in S : \A y \in S : ~(<<y, x>> \in R)
  BY <1>1, WFMin
<1>3. \A y \in S : ~(y < x)
  BY <1>2
<1>4. \A y \in S : x <= y
  BY <1>3
<1> QED
  BY <1>4 DEF Least

\* A bounded one has a greatest.
LEMMA GreatestOf ==
  ASSUME NEW S \in SUBSET Nat, S # {}, NEW n \in Nat, \A k \in S : k <= n
  PROVE  Greatest(S) \in S /\ \A k \in S : k <= Greatest(S)
<1> DEFINE Below == {n - k : k \in S}
<1>1. Below \in SUBSET Nat /\ Below # {}
  <2>1. \A k \in S : n - k \in Nat
    OBVIOUS
  <2>2. PICK k \in S : TRUE
    OBVIOUS
  <2> QED
    BY <2>1, <2>2
<1>2. PICK x \in S : Least(Below) = n - x
  <2> HIDE DEF Below
  <2>1. Least(Below) \in Below
    BY <1>1, LeastOf
  <2> QED
    BY <2>1 DEF Below
<1>3. \A k \in S : n - x <= n - k
  <2>1. \A k \in S : n - k \in Below
    OBVIOUS
  <2> HIDE DEF Below
  <2> QED
    BY <1>1, <1>2, <2>1, LeastOf
<1>4. \A k \in S : x >= k
  BY <1>3
<1> QED
  BY <1>4 DEF Greatest

-----------------------------------------------------------------------------
(* The heap.                                                               *)

\* Half of a place of the array.
LEMMA Half ==
  ASSUME NEW i \in Nat, i > 1
  PROVE  i \div 2 \in 1 .. i - 1
OBVIOUS

\* The way up starts at the leaf, ends at the root, and every place above the leaf is
\* reached from a place below it.
LEMMA WayUpGoes ==
  ASSUME NEW leaf \in Nat \ {0}
  PROVE  /\ leaf \in WayUp(leaf) /\ 1 \in WayUp(leaf) /\ WayUp(leaf) \subseteq 1 .. leaf
         /\ \A i \in WayUp(leaf) \ {leaf} : \E c \in WayUp(leaf) : c > i /\ c \div 2 = i
<1> DEFINE Closed(S) == leaf \in S /\ \A j \in S \ {1} : j \div 2 \in S
<1>1. /\ WayUp(leaf) \subseteq 1 .. leaf
      /\ \A i \in 1 .. leaf : i \in WayUp(leaf) <=> \A S \in SUBSET (1 .. leaf) : Closed(S) => i \in S
  BY DEF WayUp
<1>2. leaf \in WayUp(leaf)
  BY <1>1
<1>3. 1 \in WayUp(leaf)
  <2> SUFFICES ASSUME NEW S \in SUBSET (1 .. leaf), Closed(S) PROVE 1 \in S
    BY <1>1
  <2>1. PICK m \in S : \A k \in S : m <= k
    <3>1. S \in SUBSET Nat /\ S # {}
      OBVIOUS
    <3> QED
      BY <3>1, LeastOf
  <2>2. m \in 1 .. leaf
    OBVIOUS
  <2>3. ASSUME m > 1 PROVE FALSE
    <3>1. m \div 2 \in S
      BY <2>3
    <3>2. m \div 2 \in 1 .. m - 1
      BY <2>2, <2>3, Half
    <3> QED
      BY <2>1, <2>2, <3>1, <3>2
  <2> QED
    BY <2>2, <2>3
<1>4. Closed(WayUp(leaf))
  <2> SUFFICES ASSUME NEW j \in WayUp(leaf) \ {1} PROVE j \div 2 \in WayUp(leaf)
    BY <1>2
  <2>1. j \in 1 .. leaf /\ j \div 2 \in 1 .. leaf
    BY <1>1, Half
  <2>2. ASSUME NEW S \in SUBSET (1 .. leaf), Closed(S) PROVE j \div 2 \in S
    <3>1. j \in S
      BY <1>1, <2>1, <2>2
    <3> QED
      BY <2>2, <3>1
  <2> QED
    BY <1>1, <2>1, <2>2
<1>5. ASSUME NEW i \in WayUp(leaf) \ {leaf}
      PROVE  \E c \in WayUp(leaf) : c > i /\ c \div 2 = i
  <2> SUFFICES ASSUME \A c \in WayUp(leaf) \ {1} : c \div 2 # i PROVE FALSE
    <3>1. \A c \in WayUp(leaf) \ {1} : c \in Nat /\ c > 1 /\ c \div 2 < c
      BY <1>1, Half
    <3>2. \A c \in WayUp(leaf) \ {1} : c \div 2 = i => c > i
      BY <1>1, <3>1
    <3> QED
      BY <3>2
  <2> DEFINE S == WayUp(leaf) \ {i}
  <2>1. Closed(S)
    BY <1>2, <1>4
  <2>2. S \in SUBSET (1 .. leaf)
    BY <1>1
  <2> QED
    BY <1>1, <2>1, <2>2
<1> QED
  BY <1>1, <1>2, <1>3, <1>5

\* The buckets of a heap, and that none is newer than the first.
Ids(h) == {h[i] : i \in 1 .. Len(h)}
FirstNewest(h, date) == \A i \in 1 .. Len(h) : date[h[i]] <= date[h[1]]

\* A push adds the bucket, and the newest is the first.
LEMMA PushAdds ==
  ASSUME NEW B, NEW h \in Seq(B), NEW new \in B, NEW date,
         \A b \in B : date[b] \in Nat,
         FirstNewest(h, date)
  PROVE  /\ Push(h, new, date) \in Seq(B)
         /\ Len(Push(h, new, date)) = Len(h) + 1
         /\ Ids(Push(h, new, date)) = Ids(h) \cup {new}
         /\ FirstNewest(Push(h, new, date), date)
<1> DEFINE leaf == Len(h) + 1
           W == WayUp(leaf)
           climbed == {i \in W : \A j \in W : j > i => date[new] > date[h[j \div 2]]}
           top == Least(climbed)
           g == [i \in 1 .. leaf |-> IF i = top THEN new
                                     ELSE IF i > top /\ i \in W THEN h[i \div 2] ELSE h[i]]
<1>1. Push(h, new, date) = g
  BY DEF Push
<1>2. /\ leaf \in W /\ 1 \in W /\ W \subseteq 1 .. leaf
      /\ \A i \in W \ {leaf} : \E c \in W : c > i /\ c \div 2 = i
  BY WayUpGoes
<1>3. leaf \in climbed /\ climbed \in SUBSET Nat /\ climbed # {}
  BY <1>2
<1>4. top \in climbed /\ \A k \in climbed : top <= k
  <2> HIDE DEF climbed
  <2> QED
    BY <1>3, LeastOf
<1>5. top \in W /\ top \in 1 .. leaf
  BY <1>2, <1>4
<1>6. \A j \in W : j > top => date[new] > date[h[j \div 2]]
  BY <1>4
<1>7. 1 \in climbed => top = 1
  <2> HIDE DEF climbed, top
  <2> QED
    BY <1>4, <1>5
<1> HIDE DEF top
<1>8. \A i \in 1 .. leaf : i # top /\ i > top /\ i \in W => i \div 2 \in 1 .. Len(h)
  BY <1>5, Half
<1>9. \A i \in 1 .. leaf : i # top /\ ~(i > top /\ i \in W) => i \in 1 .. Len(h)
  BY <1>2, <1>5
<1>10. \A i \in 1 .. leaf : g[i] \in B
  BY <1>8, <1>9
<1>11. g \in Seq(B) /\ Len(g) = leaf
  BY <1>10
<1>12. Ids(g) = Ids(h) \cup {new}
  <2>1. ASSUME NEW i \in 1 .. leaf PROVE g[i] \in Ids(h) \cup {new}
    BY <1>8, <1>9 DEF Ids
  <2>2. ASSUME NEW i \in 1 .. Len(h) PROVE \E j \in 1 .. leaf : g[j] = h[i]
    <3>1. CASE i \in W /\ i >= top
      <4>1. PICK c \in W : c > i /\ c \div 2 = i
        BY <1>2, <3>1
      <4>2. c \in 1 .. leaf /\ c > top /\ c # top
        BY <1>2, <1>5, <3>1, <4>1
      <4> QED
        BY <4>1, <4>2
    <3>2. CASE ~(i \in W /\ i >= top)
      <4>1. i # top /\ i \in 1 .. leaf
        BY <1>5, <3>2
      <4> QED
        BY <1>5, <3>2, <4>1
    <3> QED
      BY <3>1, <3>2
  <2>3. g[top] = new
    BY <1>5
  <2> HIDE DEF g
  <2> QED
    BY <1>5, <1>11, <2>1, <2>2, <2>3 DEF Ids
<1>13. ASSUME NEW b \in Ids(h) \cup {new} PROVE date[b] <= date[g[1]]
  <2>0. \A i \in 1 .. Len(h) : date[h[i]] \in Nat /\ date[h[i]] <= date[h[1]]
    BY DEF FirstNewest
  <2>1. CASE top = 1
    <3>1. g[1] = new
      BY <2>1
    <3>2. CASE leaf = 1
      BY <3>1, <3>2 DEF Ids
    <3>3. CASE leaf # 1
      <4>1. PICK c \in W : c > 1 /\ c \div 2 = 1
        BY <1>2, <3>3
      <4>2. date[new] > date[h[1]]
        BY <1>6, <2>1, <4>1
      <4> QED
        BY <2>0, <3>1, <3>3, <4>2 DEF Ids
    <3> QED
      BY <3>2, <3>3
  <2>2. CASE top # 1
    <3>1. PICK j \in W : j > 1 /\ ~(date[new] > date[h[j \div 2]])
      BY <1>2, <1>7, <2>2
    <3>2. j \div 2 \in 1 .. Len(h)
      BY <1>2, <3>1, Half
    <3>3. date[new] <= date[h[1]]
      BY <2>0, <3>1, <3>2
    <3>4. g[1] = h[1]
      BY <1>5, <2>2
    <3> QED
      BY <2>0, <3>3, <3>4 DEF Ids
  <2> QED
    BY <2>1, <2>2
<1>14. FirstNewest(g, date)
  <2> SUFFICES ASSUME NEW i \in 1 .. Len(g) PROVE date[g[i]] <= date[g[1]]
    BY DEF FirstNewest
  <2>1. g[i] \in Ids(h) \cup {new}
    BY <1>12 DEF Ids
  <2> QED
    BY <1>13, <2>1
<1> QED
  BY <1>1, <1>11, <1>12, <1>14

\* The heap h holds each of the finitely many buckets in D once, the newest first.
HeapOf(h, D, date, B) ==
  /\ h \in Seq(B) /\ Ids(h) = D /\ FirstNewest(h, date)
  /\ IsFiniteSet(D) /\ Len(h) = Cardinality(D)

LEMMA PushKeepsHeap ==
  ASSUME NEW B, NEW date, NEW h, NEW D, HeapOf(h, D, date, B), \A b \in B : date[b] \in Nat,
         NEW new \in B \ D
  PROVE  HeapOf(Push(h, new, date), D \cup {new}, date, B)
<1>1. h \in Seq(B) /\ FirstNewest(h, date) /\ Ids(h) = D /\ new \in B
  BY DEF HeapOf
<1>2. /\ Push(h, new, date) \in Seq(B)
      /\ Len(Push(h, new, date)) = Len(h) + 1
      /\ Ids(Push(h, new, date)) = Ids(h) \cup {new}
      /\ FirstNewest(Push(h, new, date), date)
  BY <1>1, PushAdds, Zenon
<1>3. IsFiniteSet(D \cup {new}) /\ Cardinality(D \cup {new}) = Cardinality(D) + 1
  BY FS_AddElement DEF HeapOf
<1> QED
  BY <1>1, <1>2, <1>3 DEF HeapOf

\* No bucket is at two places of the array.
LEMMA HeapOnce ==
  ASSUME NEW B, NEW date, NEW h, NEW D, HeapOf(h, D, date, B)
  PROVE  \A i, j \in 1 .. Len(h) : h[i] = h[j] => i = j
<1>1. Len(h) \in Nat /\ h \in [1 .. Len(h) -> D]
  BY DEF HeapOf, Ids
<1>2. h \in Surjection(1 .. Len(h), D)
  BY <1>1 DEF HeapOf, Ids, Surjection
<1>3. IsFiniteSet(1 .. Len(h)) /\ Cardinality(1 .. Len(h)) = Len(h)
  BY <1>1, FS_Interval
<1>4. h \in Injection(1 .. Len(h), D)
  BY <1>2, <1>3, FS_Surjection DEF HeapOf
<1> QED
  BY <1>4 DEF Injection, IsInjective

\* A heap that is built anew holds the buckets that are kept.
LEMMA RebuiltKeepsHeap ==
  ASSUME NEW B, NEW D, HeapOf(heap, D, dates, B), \A b \in B : dates[b] \in Nat,
         NEW kept \in SUBSET D
  PROVE  HeapOf(Rebuilt(kept), kept, dates, B)
<1> DEFINE L == Len(heap)
           More(i, h) == IF heap[i] \in kept THEN Push(h, heap[i], dates) ELSE h
           Builds(f, n) == /\ f = [i \in 0 .. n |-> f[i]] /\ f[0] = <<>>
                           /\ \A i \in 1 .. n : f[i] = More(i, f[i - 1])
<1>1. L \in Nat /\ heap \in Seq(B) /\ D = Ids(heap)
  BY DEF HeapOf
<1>2. \E f : Builds(f, L)
  <2> DEFINE Bad == {n \in Nat : ~\E f : Builds(f, n)}
  <2> SUFFICES ASSUME Bad # {} PROVE FALSE
    BY <1>1
  <2>1. PICK n \in Bad : \A k \in Bad : n <= k
    <3>1. Bad \in SUBSET Nat
      OBVIOUS
    <3> HIDE DEF Bad
    <3> QED
      BY <3>1, LeastOf
  <2>2. CASE n = 0
    <3>1. Builds([i \in 0 .. 0 |-> <<>>], 0)
      OBVIOUS
    <3> QED
      BY <2>1, <2>2, <3>1
  <2>3. CASE n # 0
    <3>1. n - 1 \in Nat /\ n - 1 \notin Bad /\ n \in Nat
      BY <2>1, <2>3
    <3>2. PICK f : Builds(f, n - 1)
      BY <3>1
    <3> DEFINE g == [i \in 0 .. n |-> IF i = n THEN More(n, f[n - 1]) ELSE f[i]]
    <3>3. /\ g = [i \in 0 .. n |-> g[i]] /\ g[0] = f[0] /\ g[n] = More(n, f[n - 1])
          /\ \A i \in 1 .. n - 1 : g[i] = f[i] /\ g[i - 1] = f[i - 1]
          /\ g[n - 1] = f[n - 1]
      BY <2>3, <3>1
    <3> HIDE DEF g
    <3>4. \A i \in 1 .. n : g[i] = More(i, g[i - 1])
      <4> HIDE DEF More
      <4>1. \A i \in 1 .. n - 1 : f[i] = More(i, f[i - 1])
        BY <3>2
      <4>2. \A i \in 1 .. n : i = n \/ i \in 1 .. n - 1
        BY <3>1
      <4> QED
        BY <3>3, <4>1, <4>2
    <3>5. Builds(g, n)
      BY <3>2, <3>3, <3>4
    <3> QED
      BY <2>1, <3>5
  <2> QED
    BY <2>2, <2>3
<1> DEFINE built == CHOOSE g : g = [i \in 0 .. L |-> IF i = 0 THEN <<>> ELSE
                      IF heap[i] \in kept THEN Push(g[i - 1], heap[i], dates) ELSE g[i - 1]]
<1>3. Rebuilt(kept) = built[L]
  BY DEF Rebuilt
<1>4. built = [i \in 0 .. L |-> IF i = 0 THEN <<>> ELSE More(i, built[i - 1])]
  <2>1. PICK f : Builds(f, L)
    BY <1>2
  <2>2. f = [i \in 0 .. L |-> IF i = 0 THEN <<>> ELSE
               IF heap[i] \in kept THEN Push(f[i - 1], heap[i], dates) ELSE f[i - 1]]
    BY <1>1, <2>1
  <2> QED
    BY <2>2
<1> HIDE DEF built
<1> DEFINE Kept(n) == {b \in kept : \E j \in 1 .. n : heap[j] = b}
           Wrong == {n \in 0 .. L : ~HeapOf(built[n], Kept(n), dates, B)}
<1>5. Wrong = {}
  <2> SUFFICES ASSUME Wrong # {} PROVE FALSE
    OBVIOUS
  <2>1. PICK n \in Wrong : \A k \in Wrong : n <= k
    <3>1. Wrong \in SUBSET Nat
      OBVIOUS
    <3> HIDE DEF Wrong
    <3> QED
      BY <3>1, LeastOf
  <2>2. n \in 0 .. L
    OBVIOUS
  <2>3. CASE n = 0
    <3>1. built[0] = <<>> /\ Kept(0) = {}
      BY <1>1, <1>4
    <3>2. HeapOf(<<>>, {}, dates, B)
      BY FS_EmptySet DEF HeapOf, Ids, FirstNewest
    <3> QED
      BY <2>3, <3>1, <3>2
  <2>4. CASE n # 0
    <3>1. n - 1 \in 0 .. L /\ n - 1 \notin Wrong /\ n \in 1 .. L
      <4> HIDE DEF Wrong
      <4> QED
        BY <1>1, <2>1, <2>2, <2>4
    <3>2. HeapOf(built[n - 1], Kept(n - 1), dates, B)
      BY <3>1
    <3>3. built[n] = More(n, built[n - 1])
      BY <1>4, <3>1
    <3>4. heap[n] \in B
      BY <1>1, <3>1
    <3>5. \A j \in 1 .. n - 1 : heap[j] # heap[n]
      BY <1>1, <3>1, HeapOnce
    <3>6. CASE heap[n] \in kept
      <4>1. heap[n] \notin Kept(n - 1) /\ Kept(n) = Kept(n - 1) \cup {heap[n]}
        BY <1>1, <3>1, <3>5, <3>6
      <4> HIDE DEF Kept
      <4>2. HeapOf(Push(built[n - 1], heap[n], dates), Kept(n - 1) \cup {heap[n]}, dates, B)
        BY <3>2, <3>4, <4>1, PushKeepsHeap
      <4> QED
        BY <3>3, <3>6, <4>1, <4>2
    <3>7. CASE heap[n] \notin kept
      <4>1. Kept(n) = Kept(n - 1)
        BY <1>1, <3>1, <3>7
      <4> QED
        BY <3>2, <3>3, <3>7, <4>1
    <3> QED
      BY <3>6, <3>7
  <2> QED
    BY <2>3, <2>4
<1>6. L \in 0 .. L
  BY <1>1
<1>7. Kept(L) = kept
  BY <1>1 DEF Ids
<1>8. HeapOf(built[L], Kept(L), dates, B)
  BY <1>5, <1>6
<1> QED
  BY <1>3, <1>7, <1>8

-----------------------------------------------------------------------------
(* The records of the buckets.                                             *)

\* Rows of the table and updates are of buckets that were created.
TableInv ==
  /\ DOMAIN table \subseteq Nat
  /\ \A d \in DOMAIN table : table[d].id \in BucketId /\ dates[table[d].id] = d
  /\ DOMAIN storing \subseteq BucketId

CheckInv ==
  /\ minTimestamp \in Nat \cup {None}
  /\ check \in [at : {"idle", "latest", "range"}, min : Nat, insert : BOOLEAN]

DatesInv == dates \in Seq(Nat) /\ \E n \in Nat : \A b \in BucketId : dates[b] <= n

RecordsInv ==
  DatesInv /\ HeapOf(heap, DOMAIN buckets, dates, BucketId) /\ TableInv /\ CheckInv

\* Buckets are created, none is changed.
DatesGrow == BucketId \subseteq BucketId' /\ \A b \in BucketId : dates'[b] = dates[b]

\* What depends on the records alone.
LEMMA RecordsParts ==
  ASSUME RecordsInv
  PROVE  /\ MemoryAgrees /\ BucketId \subseteq Nat /\ DOMAIN buckets \subseteq BucketId
         /\ \A b \in BucketId : dates[b] \in Nat
<1>1. dates \in Seq(Nat) /\ HeapOf(heap, DOMAIN buckets, dates, BucketId)
  BY DEF RecordsInv, DatesInv
<1>2. BucketId \subseteq Nat /\ \A b \in BucketId : dates[b] \in Nat
  BY <1>1 DEF BucketId
<1>3. MemoryAgrees
  BY <1>1 DEF HeapOf, Ids, FirstNewest, MemoryAgrees
<1> HIDE DEF BucketId
<1>4. DOMAIN buckets \subseteq BucketId
  BY <1>1 DEF HeapOf, Ids
<1> QED
  BY <1>2, <1>3, <1>4

\* The row that is found is one of the table.
LEMMA LastRowFound ==
  ASSUME RecordsInv, NEW ds \in SUBSET DOMAIN table, ds # {}
  PROVE  LastRow(ds).id \in BucketId /\ dates[LastRow(ds).id] \in ds
<1>1. DatesInv /\ TableInv
  BY DEF RecordsInv
<1>2. PICK n \in Nat : \A b \in BucketId : dates[b] <= n
  BY <1>1 DEF DatesInv
<1>3. ds \in SUBSET Nat /\ \A d \in ds : d <= n
  BY <1>1, <1>2 DEF TableInv
<1>4. Greatest(ds) \in ds
  BY <1>3, GreatestOf
<1> QED
  BY <1>1, <1>4 DEF TableInv, LastRow

\* A heap of buckets stays one when another bucket is created.
LEMMA GrowKeepsHeap ==
  ASSUME NEW h, NEW D, HeapOf(h, D, dates, BucketId), dates \in Seq(Nat),
         dates' \in Seq(Nat), DatesGrow
  PROVE  HeapOf(h, D, dates', BucketId')
<1>1. \A i \in 1 .. Len(h) : h[i] \in BucketId
  BY DEF HeapOf
<1>2. FirstNewest(h, dates')
  BY <1>1 DEF HeapOf, FirstNewest, DatesGrow
<1>3. h \in Seq(BucketId')
  BY DEF HeapOf, DatesGrow
<1> QED
  BY <1>2, <1>3 DEF HeapOf

\* A new bucket in the heap h of the buckets bs.
LEMMA CreateKeeps ==
  ASSUME RecordsInv, NEW h, NEW bs, HeapOf(h, DOMAIN bs, dates, BucketId), NEW min \in Nat,
         CreateBucket(h, bs, min), UNCHANGED <<table, storing>>
  PROVE  RecordsInv' /\ DatesGrow
<1> DEFINE new == Len(dates) + 1
<1>1. DatesInv /\ TableInv
  BY DEF RecordsInv
<1>2. /\ dates' = Append(dates, min) /\ heap' = Push(h, new, dates')
      /\ buckets' = With(Checked(bs), new, [records |-> 0, stored |-> FALSE, untried |-> waiting])
      /\ minTimestamp' = None /\ check' = Idle
  BY DEF CreateBucket
<1>3. /\ dates' \in Seq(Nat) /\ BucketId' = BucketId \cup {new} /\ new \notin BucketId
      /\ dates'[new] = min /\ \A b \in BucketId : dates'[b] = dates[b]
      /\ \A b \in BucketId' : dates'[b] \in Nat
  BY <1>1, <1>2 DEF DatesInv, BucketId
<1> HIDE DEF new
<1>4. DatesGrow
  BY <1>3 DEF DatesGrow
<1>5. DatesInv'
  <2>1. PICK n \in Nat : \A b \in BucketId : dates[b] <= n
    BY <1>1 DEF DatesInv
  <2>2. \A b \in BucketId : dates[b] \in Nat
    BY RecordsParts
  <2>3. \A b \in BucketId' : dates'[b] <= n + min
    BY <1>3, <2>1, <2>2
  <2>4. n + min \in Nat
    OBVIOUS
  <2> QED
    BY <1>3, <2>3, <2>4 DEF DatesInv
<1>6. DOMAIN buckets' = DOMAIN bs \cup {new}
  BY <1>2 DEF With, Checked
<1>7. HeapOf(heap', DOMAIN buckets', dates', BucketId')
  <2>1. HeapOf(h, DOMAIN bs, dates', BucketId')
    BY <1>1, <1>3, <1>4, GrowKeepsHeap DEF DatesInv
  <2>2. DOMAIN bs \subseteq BucketId
    BY DEF HeapOf, Ids
  <2>3. new \in BucketId' \ DOMAIN bs
    BY <1>3, <2>2
  <2>4. \A b \in BucketId' : dates'[b] \in Nat
    BY <1>3
  <2>5. HeapOf(Push(h, new, dates'), DOMAIN bs \cup {new}, dates', BucketId')
    BY <2>1, <2>3, <2>4, PushKeepsHeap, Zenon
  <2> QED
    BY <1>2, <1>6, <2>5
<1>8. TableInv'
  BY <1>1, <1>3 DEF TableInv
<1>9. CheckInv'
  BY <1>2 DEF CheckInv, Idle
<1> QED
  BY <1>4, <1>5, <1>7, <1>8, <1>9 DEF RecordsInv

LEMMA CheckMinKeeps ==
  ASSUME RecordsInv, NEW h, NEW bs, HeapOf(h, DOMAIN bs, dates, BucketId),
         NEW minThen \in Nat \cup {None}, NEW min \in Nat, NEW insert \in BOOLEAN,
         CheckMin(h, bs, minThen, min, insert), UNCHANGED <<table, storing>>
  PROVE  RecordsInv' /\ DatesGrow
<1>1. CASE insert
  <2>1. CreateBucket(h, bs, min)
    BY <1>1 DEF CheckMin
  <2> QED
    BY <2>1, CreateKeeps
<1>2. CASE ~insert
  <2>1. heap' = h /\ DOMAIN buckets' = DOMAIN bs /\ minTimestamp' = minThen /\ dates' = dates
    BY <1>2 DEF CheckMin, Checked
  <2>2. check' \in [at : {"idle", "latest", "range"}, min : Nat, insert : BOOLEAN]
    <3>1. \/ check' = [at |-> "range", min |-> min, insert |-> FALSE]
          \/ check' = [at |-> "idle", min |-> 0, insert |-> FALSE]
      BY <1>2 DEF CheckMin, Idle
    <3>2. [at |-> "range", min |-> min, insert |-> FALSE]
            \in [at : {"idle", "latest", "range"}, min : Nat, insert : BOOLEAN]
      OBVIOUS
    <3>3. [at |-> "idle", min |-> 0, insert |-> FALSE]
            \in [at : {"idle", "latest", "range"}, min : Nat, insert : BOOLEAN]
      OBVIOUS
    <3> QED
      BY <3>1, <3>2, <3>3, Zenon
  <2>3. BucketId' = BucketId /\ DatesGrow
    BY <2>1 DEF BucketId, DatesGrow
  <2> QED
    BY <2>1, <2>2, <2>3 DEF RecordsInv, DatesInv, TableInv, CheckInv
<1> QED
  BY <1>1, <1>2

\* A bucket that is loaded joins the heap.
LEMMA LoadedIsHeap ==
  ASSUME RecordsInv, NEW ds \in SUBSET DOMAIN table, IsNew(LastRow(ds))
  PROVE  HeapOf(Push(heap, LastRow(ds).id, dates), DOMAIN WithLoaded(LastRow(ds)), dates, BucketId)
<1>1. ds # {}
  BY DEF IsNew, LastRow
<1>2. LastRow(ds).id \in BucketId \ DOMAIN buckets
  BY <1>1, LastRowFound DEF IsNew
<1>3. DOMAIN WithLoaded(LastRow(ds)) = DOMAIN buckets \cup {LastRow(ds).id}
  BY DEF WithLoaded, With
<1> QED
  BY <1>2, <1>3, PushKeepsHeap, RecordsParts DEF RecordsInv

\* checkFullBuckets, from its start or from one of its awaits.
LEMMA CheckKeeps ==
  ASSUME RecordsInv, CheckStart \/ CheckLatest \/ CheckRange
  PROVE  RecordsInv' /\ DatesGrow
<1>1. HeapOf(heap, DOMAIN buckets, dates, BucketId) /\ CheckInv
  BY DEF RecordsInv
<1>2. check.min \in Nat /\ check.insert \in BOOLEAN /\ UNCHANGED <<table, storing>>
  BY <1>1 DEF CheckInv, CheckStart, CheckLatest, CheckRange, checkUnchanged
<1>3. CASE CheckStart
  <2>1. minTimestamp \in Nat
    BY <1>1, <1>3 DEF CheckStart, CheckInv
  <2>2. CASE CheckMin(heap, buckets, minTimestamp, minTimestamp, FALSE)
    BY <1>1, <1>2, <2>1, <2>2, CheckMinKeeps
  <2>3. CASE /\ \E almostFull \in BOOLEAN :
                  check' = [at |-> "latest", min |-> minTimestamp, insert |-> almostFull]
             /\ UNCHANGED <<heap, buckets, minTimestamp, dates>>
    <3>1. BucketId' = BucketId /\ DatesGrow /\ CheckInv'
      BY <1>1, <2>1, <2>3 DEF BucketId, DatesGrow, CheckInv
    <3> QED
      BY <1>2, <2>3, <3>1 DEF RecordsInv, DatesInv, TableInv
  <2>4. (heap # <<>> /\ IsAlmostFull(buckets[heap[1]])) \in BOOLEAN
    OBVIOUS
  <2> QED
    BY <1>3, <2>2, <2>3, <2>4 DEF CheckStart
<1>4. CASE CheckLatest
  <2> DEFINE row == LastRow(DOMAIN table)
  <2>1. CASE IsNew(row)
    <3>1. CheckMin(Push(heap, row.id, dates), WithLoaded(row), None, check.min, check.insert)
      BY <1>4, <2>1 DEF CheckLatest
    <3>2. HeapOf(Push(heap, row.id, dates), DOMAIN WithLoaded(row), dates, BucketId)
      BY <2>1, LoadedIsHeap
    <3> QED
      BY <1>2, <3>1, <3>2, CheckMinKeeps
  <2>2. CASE ~IsNew(row)
    <3>1. CheckMin(heap, buckets, minTimestamp, check.min, TRUE)
      BY <1>4, <2>2 DEF CheckLatest
    <3>2. minTimestamp \in Nat \cup {None}
      BY <1>1 DEF CheckInv
    <3> QED
      BY <1>1, <1>2, <3>1, <3>2, CheckMinKeeps
  <2> QED
    BY <2>1, <2>2
<1>5. CASE CheckRange
  <2> DEFINE row == LastRow({d \in DOMAIN table : d <= check.min})
  <2>1. CASE IsNew(row)
    <3>1. HeapOf(Push(heap, row.id, dates), DOMAIN WithLoaded(row), dates, BucketId)
      BY <2>1, LoadedIsHeap
    <3>2. /\ heap' = Push(heap, row.id, dates) /\ buckets' = Checked(WithLoaded(row))
          /\ minTimestamp' = None /\ check' = Idle /\ dates' = dates
      BY <1>5, <2>1 DEF CheckRange
    <3>3. DOMAIN buckets' = DOMAIN WithLoaded(row)
      BY <3>2 DEF Checked
    <3>4. BucketId' = BucketId /\ DatesGrow /\ CheckInv'
      BY <3>2 DEF BucketId, DatesGrow, CheckInv, Idle
    <3> QED
      BY <1>2, <3>1, <3>2, <3>3, <3>4 DEF RecordsInv, DatesInv, TableInv
  <2>2. CASE ~IsNew(row)
    <3>1. CreateBucket(heap, buckets, check.min)
      BY <1>5, <2>2 DEF CheckRange
    <3> QED
      BY <1>1, <1>2, <3>1, CreateKeeps
  <2> QED
    BY <2>1, <2>2
<1> QED
  BY <1>3, <1>4, <1>5

\* storeBuckets, when it starts, when an update reaches the table, and when it ends.
LEMMA StoreBucketsKeeps ==
  ASSUME RecordsInv,
         \/ StoreBuckets
         \/ \E b \in DOMAIN storing : UpdateBucket(b)
         \/ \E ok, dead : BucketsStored(ok, dead)
  PROVE  RecordsInv' /\ DatesGrow
<1>1. /\ DatesInv /\ TableInv /\ CheckInv /\ HeapOf(heap, DOMAIN buckets, dates, BucketId)
      /\ DOMAIN buckets \subseteq BucketId /\ \A b \in BucketId : dates[b] \in Nat
  BY RecordsParts DEF RecordsInv
<1>2. /\ UNCHANGED <<dates, minTimestamp, check>> /\ BucketId' = BucketId
      /\ DatesInv' /\ CheckInv' /\ DatesGrow
  <2>1. UNCHANGED <<dates, minTimestamp, check>>
    BY DEF StoreBuckets, UpdateBucket, BucketsStored, storeUnchanged
  <2> QED
    BY <1>1, <2>1 DEF BucketId, DatesInv, CheckInv, DatesGrow
<1>3. CASE StoreBuckets
  <2>1. UNCHANGED <<heap, buckets, table>> /\ DOMAIN storing' \subseteq DOMAIN buckets
    BY <1>3 DEF StoreBuckets
  <2> QED
    BY <1>1, <1>2, <2>1 DEF RecordsInv, TableInv
<1>4. ASSUME NEW b \in DOMAIN storing, UpdateBucket(b)
      PROVE  RecordsInv'
  <2>1. /\ UNCHANGED <<heap, buckets>> /\ DOMAIN storing' = DOMAIN storing
        /\ table' = With(table, dates[b], [id |-> b, records |-> storing[b].records])
    BY <1>4 DEF UpdateBucket
  <2>2. b \in BucketId /\ dates[b] \in Nat
    BY <1>1 DEF TableInv
  <2>3. TableInv'
    BY <1>1, <1>2, <2>1, <2>2 DEF TableInv, With
  <2> QED
    BY <1>1, <1>2, <2>1, <2>3 DEF RecordsInv
<1>5. ASSUME NEW ok, NEW dead, BucketsStored(ok, dead)
      PROVE  RecordsInv'
  <2>1. PICK kept \in SUBSET DOMAIN buckets :
          /\ DOMAIN buckets' = kept
          /\ heap' = IF kept = DOMAIN buckets THEN heap ELSE Rebuilt(kept)
    BY <1>5 DEF BucketsStored
  <2>2. table' = table /\ DOMAIN storing' = {}
    BY <1>5 DEF BucketsStored
  <2>3. HeapOf(heap', DOMAIN buckets', dates, BucketId)
    BY <1>1, <2>1, RebuiltKeepsHeap
  <2>4. TableInv'
    BY <1>1, <1>2, <2>2 DEF TableInv
  <2> QED
    BY <1>2, <2>3, <2>4 DEF RecordsInv
<1> QED
  BY <1>2, <1>3, <1>4, <1>5

-----------------------------------------------------------------------------
(* The batches.                                                            *)

\* No message is in two batches, and none is younger than its bucket.
BatchesInv ==
  /\ batches \in [DOMAIN batches -> SUBSET Message] /\ DOMAIN batches \subseteq BucketId
  /\ pendingBatches \subseteq PendingBatch(BucketId)
  /\ \A b, c \in DOMAIN batches : b # c => batches[b] \cap batches[c] = {}
  /\ \A p, q \in pendingBatches : p # q => p.messages \cap q.messages = {}
  /\ \A b \in DOMAIN batches, p \in pendingBatches : batches[b] \cap p.messages = {}
  /\ \A b \in DOMAIN batches : \A m \in batches[b] : dates[b] <= Timestamp[m]
  /\ \A p \in pendingBatches : \A m \in p.messages : dates[p.bucket] <= Timestamp[m]

DataInv ==
  data \subseteq BucketId \X Message /\ \A row \in data : dates[row[1]] <= Timestamp[row[2]]

\* The messages of batches and rows.
LEMMA BatchedAre ==
  \A m : m \in Batched <=> \/ \E b \in DOMAIN batches : m \in batches[b]
                           \/ \E p \in pendingBatches : m \in p.messages
BY DEF Batched

LEMMA RowsOf ==
  ASSUME NEW p \in PendingBatch(BucketId)
  PROVE  /\ Rows(p) \subseteq BucketId \X Message
         /\ \A row \in Rows(p) : row[1] = p.bucket /\ row[2] \in p.messages
         /\ \A m \in p.messages : \E row \in Rows(p) : row[2] = m
<1>1. p.bucket \in BucketId /\ p.messages \subseteq Message
  BY DEF PendingBatch
<1>2. \A m \in p.messages : <<p.bucket, m>> \in Rows(p) /\ <<p.bucket, m>>[2] = m
  BY DEF Rows
<1> QED
  BY <1>1, <1>2 DEF Rows

\* A message goes into the batch of its bucket.
LEMMA BatchStoreKeeps ==
  ASSUME BatchesInv, NEW b \in BucketId, NEW m \in Message, m \notin Batched,
         dates[b] <= Timestamp[m], BatchStore(b, m), UNCHANGED dates
  PROVE  BatchesInv' /\ \A x : x \in Batched' <=> x \in Batched \/ x = m
<1>1. BucketId' = BucketId
  BY DEF BucketId
<1>2. /\ DOMAIN batches' = DOMAIN batches \cup {b}
      /\ \A c \in DOMAIN batches \ {b} : batches'[c] = batches[c]
      /\ batches'[b] = IF b \in DOMAIN batches /\ ~IsFull(b) THEN batches[b] \cup {m} ELSE {m}
      /\ batches' = [c \in DOMAIN batches' |-> batches'[c]]
  BY DEF BatchStore, WithMessage
<1>3. /\ \A c \in DOMAIN batches : m \notin batches[c]
      /\ \A p \in pendingBatches : m \notin p.messages
  BY BatchedAre
<1>4. CASE IsFull(b)
  <2>1. /\ b \in DOMAIN batches /\ batches'[b] = {m}
        /\ pendingBatches' = pendingBatches \cup {Locked(b)}
    BY <1>2, <1>4 DEF BatchStore, IsFull
  <2>2. /\ Locked(b) \in PendingBatch(BucketId)
        /\ Locked(b).messages = batches[b] /\ Locked(b).bucket = b
    BY <2>1, BatchAssumption DEF Locked, PendingBatch, BatchesInv
  <2> HIDE DEF Locked
  <2>3. /\ \A p \in pendingBatches' : p = Locked(b) \/ p \in pendingBatches
        /\ \A c \in DOMAIN batches' : c = b \/ (c \in DOMAIN batches /\ batches'[c] = batches[c])
    BY <1>2, <2>1
  <2>4. /\ batches' \in [DOMAIN batches' -> SUBSET Message] /\ DOMAIN batches' \subseteq BucketId
        /\ pendingBatches' \subseteq PendingBatch(BucketId)
    BY <1>2, <2>1, <2>2 DEF BatchesInv
  <2>5. \A x, y \in DOMAIN batches' : x # y => batches'[x] \cap batches'[y] = {}
    BY <1>2, <1>3, <2>1 DEF BatchesInv
  <2>6. \A p, q \in pendingBatches' : p # q => p.messages \cap q.messages = {}
    BY <2>1, <2>2, <2>3 DEF BatchesInv
  <2>7. \A x \in DOMAIN batches', p \in pendingBatches' : batches'[x] \cap p.messages = {}
    BY <1>3, <2>1, <2>2, <2>3 DEF BatchesInv
  <2>8. \A x \in DOMAIN batches' : \A y \in batches'[x] : dates[x] <= Timestamp[y]
    BY <2>1, <2>3 DEF BatchesInv
  <2>9. \A p \in pendingBatches' : \A y \in p.messages : dates[p.bucket] <= Timestamp[y]
    BY <2>1, <2>2, <2>3 DEF BatchesInv
  <2>10. \A x : x \in Batched' <=> x \in Batched \/ x = m
    <3>1. \A x : x \in Batched' <=> \/ \E c \in DOMAIN batches' : x \in batches'[c]
                                    \/ \E p \in pendingBatches' : x \in p.messages
      BY BatchedAre DEF Batched
    <3> QED
      BY <1>2, <2>1, <2>2, <2>3, <3>1, BatchedAre
  <2> QED
    BY <1>1, <2>4, <2>5, <2>6, <2>7, <2>8, <2>9, <2>10 DEF BatchesInv
<1>5. CASE ~IsFull(b)
  <2>1. /\ pendingBatches' = pendingBatches
        /\ batches'[b] = IF b \in DOMAIN batches THEN batches[b] \cup {m} ELSE {m}
    BY <1>2, <1>5 DEF BatchStore
  <2>2. /\ batches' \in [DOMAIN batches' -> SUBSET Message] /\ DOMAIN batches' \subseteq BucketId
        /\ \A x \in DOMAIN batches' : \A y \in batches'[x] : dates[x] <= Timestamp[y]
    BY <1>2, <2>1 DEF BatchesInv
  <2>3. /\ \A x, y \in DOMAIN batches' : x # y => batches'[x] \cap batches'[y] = {}
        /\ \A x \in DOMAIN batches', p \in pendingBatches' : batches'[x] \cap p.messages = {}
    BY <1>2, <1>3, <2>1 DEF BatchesInv
  <2>4. \A x : x \in Batched' <=> x \in Batched \/ x = m
    <3>1. \A x : x \in Batched' <=> \/ \E c \in DOMAIN batches' : x \in batches'[c]
                                    \/ \E p \in pendingBatches' : x \in p.messages
      BY BatchedAre DEF Batched
    <3> QED
      BY <1>2, <2>1, <3>1, BatchedAre
  <2> QED
    BY <1>1, <2>1, <2>2, <2>3, <2>4 DEF BatchesInv
<1> QED
  BY <1>4, <1>5

\* A pending batch p is replaced by another stage of it.
LEMMA NextStageKeeps ==
  ASSUME BatchesInv, NEW p \in pendingBatches, NEW q \in PendingBatch(BucketId),
         q.bucket = p.bucket, q.messages = p.messages,
         pendingBatches' = (pendingBatches \ {p}) \cup {q}, UNCHANGED <<batches, dates>>
  PROVE  BatchesInv' /\ \A x : x \in Batched' <=> x \in Batched
<1>1. \A r \in pendingBatches' : r = q \/ (r \in pendingBatches /\ r # p)
  OBVIOUS
<1>2. BatchesInv'
  BY <1>1 DEF BatchesInv, BucketId
<1>3. \A x : x \in Batched' <=> \/ \E c \in DOMAIN batches' : x \in batches'[c]
                                \/ \E r \in pendingBatches' : x \in r.messages
  BY BatchedAre DEF Batched
<1>4. \A x : x \in Batched' <=> x \in Batched
  BY <1>3, BatchedAre
<1> QED
  BY <1>2, <1>4

\* A pending batch p is over.
LEMMA BatchEndsKeeps ==
  ASSUME BatchesInv, NEW p \in pendingBatches,
         pendingBatches' = pendingBatches \ {p}, UNCHANGED <<batches, dates>>
  PROVE  BatchesInv' /\ \A x : x \in Batched' <=> x \in Batched /\ x \notin p.messages
<1>1. BatchesInv'
  BY DEF BatchesInv, BucketId
<1>2. \A x : x \in Batched' <=> \/ \E c \in DOMAIN batches' : x \in batches'[c]
                                \/ \E r \in pendingBatches' : x \in r.messages
  BY BatchedAre DEF Batched
<1>3. /\ \A c \in DOMAIN batches : batches[c] \cap p.messages = {}
      /\ \A r \in pendingBatches \ {p} : r.messages \cap p.messages = {}
  BY DEF BatchesInv
<1>4. \A x : x \in Batched' <=> x \in Batched /\ x \notin p.messages
  BY <1>2, <1>3, BatchedAre
<1> QED
  BY <1>1, <1>4

\* An open batch is locked.
LEMMA CloseKeeps ==
  ASSUME BatchesInv, NEW b \in DOMAIN batches, CloseTimeout(b), UNCHANGED dates
  PROVE  BatchesInv' /\ \A x : x \in Batched' <=> x \in Batched
<1>1. /\ Locked(b) \in PendingBatch(BucketId) /\ Locked(b).messages = batches[b]
      /\ Locked(b).bucket = b
  BY BatchAssumption DEF Locked, PendingBatch, BatchesInv
<1> HIDE DEF Locked
<1>2. /\ pendingBatches' = pendingBatches \cup {Locked(b)} /\ DOMAIN batches' = DOMAIN batches \ {b}
      /\ \A c \in DOMAIN batches' : batches'[c] = batches[c]
      /\ batches' = [c \in DOMAIN batches' |-> batches'[c]]
  BY DEF CloseTimeout
<1>3. BatchesInv'
  BY <1>1, <1>2 DEF BatchesInv, BucketId
<1>4. \A x : x \in Batched' <=> \/ \E c \in DOMAIN batches' : x \in batches'[c]
                                \/ \E r \in pendingBatches' : x \in r.messages
  BY BatchedAre DEF Batched
<1>5. \A x : x \in Batched' <=> x \in Batched
  BY <1>1, <1>2, <1>4, BatchedAre
<1> QED
  BY <1>3, <1>5

\* A step of the batches ends some, of the messages S: they are in the database and
\* acknowledged, or dropped.
LEMMA BatchStepKeeps ==
  ASSUME BatchesInv, DataInv, BatchStep, UNCHANGED dates
  PROVE  /\ BatchesInv' /\ DataInv' /\ data \subseteq data'
         /\ \E S : /\ \A x \in S : x \in Batched
                   /\ \A x : x \in Batched' <=> x \in Batched /\ x \notin S
                   /\ \/ UNCHANGED <<acked, dropped>> /\ S = {}
                      \/ /\ acked' = acked \cup S /\ dropped' = dropped
                         /\ \A x \in S : \E row \in data' : row[2] = x
                      \/ acked' = acked /\ dropped' = dropped \cup S
<1>1. BucketId' = BucketId
  BY DEF BucketId
<1>2. ASSUME NEW b \in DOMAIN batches, CloseTimeout(b)
      PROVE  BatchesInv' /\ UNCHANGED <<data, acked, dropped>> /\ \A x : x \in Batched' <=> x \in Batched
  BY <1>2, CloseKeeps DEF CloseTimeout
<1>3. ASSUME NEW p \in pendingBatches
      PROVE  p \in PendingBatch(BucketId) /\ \A x \in p.messages : x \in Batched
  BY BatchedAre DEF BatchesInv
<1>4. ASSUME NEW p \in pendingBatches, InsertTimer(p)
      PROVE  BatchesInv' /\ UNCHANGED <<data, acked, dropped>> /\ \A x : x \in Batched' <=> x \in Batched
  <2> DEFINE tries == IF p.retries < BatchMaxRetries THEN p.retries + 1 ELSE p.retries
             q == [p EXCEPT !.at = "insert", !.retries = tries]
  <2>1. q \in PendingBatch(BucketId) /\ q.bucket = p.bucket /\ q.messages = p.messages
    <3>1. tries \in 0 .. BatchMaxRetries
      BY <1>3, BatchAssumption DEF PendingBatch
    <3> HIDE DEF tries
    <3> QED
      BY <1>3, <3>1 DEF PendingBatch
  <2>2. pendingBatches' = (pendingBatches \ {p}) \cup {q} /\ UNCHANGED <<batches, data, acked, dropped>>
    BY <1>4 DEF InsertTimer
  <2> HIDE DEF q
  <2> QED
    BY <2>1, <2>2, NextStageKeeps
<1>5. ASSUME NEW p \in pendingBatches
      PROVE  /\ \A row \in Rows(p) : row \in BucketId \X Message /\ dates[row[1]] <= Timestamp[row[2]]
             /\ \A x \in p.messages : \E row \in Rows(p) : row[2] = x
  <2>1. p \in PendingBatch(BucketId) /\ \A m \in p.messages : dates[p.bucket] <= Timestamp[m]
    BY DEF BatchesInv
  <2> QED
    BY <2>1, RowsOf
<1>6. ASSUME NEW p \in pendingBatches, InsertSucceeds(p)
      PROVE  /\ BatchesInv' /\ DataInv' /\ data \subseteq data'
             /\ \A x \in p.messages : x \in Batched /\ \E row \in data' : row[2] = x
             /\ \A x : x \in Batched' <=> x \in Batched /\ x \notin p.messages
             /\ acked' = acked \cup p.messages /\ dropped' = dropped
  <2>1. /\ data' = data \cup Rows(p) /\ acked' = acked \cup p.messages /\ dropped' = dropped
        /\ pendingBatches' = pendingBatches \ {p} /\ batches' = batches
    BY <1>6 DEF InsertSucceeds
  <2>2. BatchesInv' /\ \A x : x \in Batched' <=> x \in Batched /\ x \notin p.messages
    BY <2>1, BatchEndsKeeps
  <2>3. DataInv'
    BY <1>1, <1>5, <2>1 DEF DataInv
  <2> QED
    BY <1>3, <1>5, <2>1, <2>2, <2>3
<1>7. ASSUME NEW p \in pendingBatches, NEW applied \in BOOLEAN, InsertFails(p, applied)
      PROVE  /\ BatchesInv' /\ DataInv' /\ data \subseteq data' /\ acked' = acked
             /\ \/ dropped' = dropped /\ \A x : x \in Batched' <=> x \in Batched
                \/ /\ dropped' = dropped \cup p.messages /\ \A x \in p.messages : x \in Batched
                   /\ \A x : x \in Batched' <=> x \in Batched /\ x \notin p.messages
  <2>1. data' \in {data, data \cup Rows(p)} /\ acked' = acked /\ batches' = batches
    BY <1>7 DEF InsertFails
  <2>2. DataInv' /\ data \subseteq data'
    BY <1>1, <1>5, <2>1 DEF DataInv
  <2>3. CASE p.retries = BatchMaxRetries
    <3>1. dropped' = dropped \cup p.messages /\ pendingBatches' = pendingBatches \ {p}
      BY <1>7, <2>3 DEF InsertFails
    <3> QED
      BY <1>3, <2>1, <2>2, <3>1, BatchEndsKeeps
  <2>4. CASE p.retries # BatchMaxRetries
    <3> DEFINE q == [p EXCEPT !.at = "timer"]
    <3>1. dropped' = dropped /\ pendingBatches' = (pendingBatches \ {p}) \cup {q}
      BY <1>7, <2>4 DEF InsertFails
    <3>2. q \in PendingBatch(BucketId) /\ q.bucket = p.bucket /\ q.messages = p.messages
      BY <1>3 DEF PendingBatch
    <3> HIDE DEF q
    <3> QED
      BY <2>1, <2>2, <3>1, <3>2, NextStageKeeps
  <2> QED
    BY <2>3, <2>4
<1>8. UNCHANGED data => DataInv'
  BY <1>1 DEF DataInv
<1> QED
  <2>1. CASE \E b \in DOMAIN batches : CloseTimeout(b)
    BY <1>2, <1>8, <2>1
  <2>2. CASE \E p \in pendingBatches : InsertTimer(p)
    BY <1>4, <1>8, <2>2
  <2>3. CASE \E p \in pendingBatches : InsertSucceeds(p)
    BY <1>6, <2>3
  <2>4. CASE \E p \in pendingBatches : \E applied \in BOOLEAN : InsertFails(p, applied)
    <3>1. PICK p \in pendingBatches, applied \in BOOLEAN : InsertFails(p, applied)
      BY <2>4
    <3>2. CASE dropped' = dropped /\ \A x : x \in Batched' <=> x \in Batched
      BY <1>7, <3>1, <3>2
    <3>3. CASE /\ dropped' = dropped \cup p.messages /\ \A x \in p.messages : x \in Batched
               /\ \A x : x \in Batched' <=> x \in Batched /\ x \notin p.messages
      BY <1>7, <3>1, <3>3
    <3> QED
      BY <1>7, <3>1, <3>2, <3>3
  <2> QED
    BY <2>1, <2>2, <2>3, <2>4 DEF BatchStep

-----------------------------------------------------------------------------
(* The invariant.                                                          *)

\* No message is twice on its way to a batch, and none is younger than its bucket.
WaitingInv ==
  /\ waiting \subseteq Message /\ accepted \subseteq Message
  /\ immediate \in Seq([bucket : BucketId, message : Message])
  /\ \A i, j \in 1 .. Len(immediate) : i # j => immediate[i].message # immediate[j].message
  /\ \A i \in 1 .. Len(immediate) : dates[immediate[i].bucket] <= Timestamp[immediate[i].message]

StorageInv == RecordsInv /\ BatchesInv /\ DataInv /\ WaitingInv /\ NothingLost

\* The elements of a sequence.
LEMMA SequenceOf ==
  ASSUME NEW S, NEW s \in Seq(S)
  PROVE  /\ Len(s) \in Nat /\ \A i \in 1 .. Len(s) : s[i] \in S
         /\ s # <<>> => Len(s) # 0 /\ Head(s) = s[1]
         /\ \A T : (\A i \in 1 .. Len(s) : s[i] \in T) => s \in Seq(T)
OBVIOUS

\* The bucket that is found for a timestamp is one in memory that is not younger.
LEMMA FoundIsOlder ==
  ASSUME RecordsInv, NEW ts \in Nat, NEW b, b = FindBucketId(heap, buckets, ts), b # None
  PROVE  b \in BucketId /\ dates[b] <= ts
<1> DEFINE older == {i \in 2 .. Len(heap) : dates[heap[i]] <= ts}
<1>1. heap \in Seq(BucketId)
  BY DEF RecordsInv, HeapOf
<1>2. heap # <<>>
  BY DEF FindBucketId
<1>3. CASE dates[heap[1]] <= ts
  <2>1. b = heap[1]
    BY <1>2, <1>3 DEF FindBucketId
  <2> QED
    BY <1>1, <1>2, <1>3, <2>1
<1>4. CASE ~(dates[heap[1]] <= ts)
  <2>1. older # {} /\ b = heap[Least(older)]
    BY <1>2, <1>4 DEF FindBucketId
  <2>2. older \in SUBSET Nat
    OBVIOUS
  <2>3. Least(older) \in older
    <3> HIDE DEF older
    <3> QED
      BY <2>1, <2>2, LeastOf
  <2>4. PICK i \in 2 .. Len(heap) : b = heap[i] /\ dates[heap[i]] <= ts
    BY <2>1, <2>3
  <2> QED
    BY <1>1, <2>4
<1> QED
  BY <1>3, <1>4

\* What is not on its way to a batch, is so after Place, or waits.
LEMMA PlaceKeeps ==
  ASSUME StorageInv, NEW m \in Message, Place(m),
         m \notin InImmediate, m \notin Batched, m \notin acked \cup dropped \cup forgotten,
         accepted' = accepted \cup {m},
         UNCHANGED <<batchVars, heap, check, storing, dates, table, forgotten, deleted>>
  PROVE  StorageInv'
<1> DEFINE b == FindBucketId(heap, buckets, Timestamp[m])
<1>1. RecordsInv /\ BatchesInv /\ DataInv /\ WaitingInv /\ NothingLost
  BY DEF StorageInv
<1>2. Timestamp[m] \in Nat /\ BucketId' = BucketId
  BY StorageAssumption DEF BucketId
<1>3. DOMAIN buckets' = DOMAIN buckets /\ minTimestamp' \in Nat \cup {None}
  BY <1>1, <1>2 DEF Place, RecordsInv, CheckInv
<1>4. RecordsInv' /\ BatchesInv' /\ DataInv'
  BY <1>1, <1>2, <1>3 DEF RecordsInv, DatesInv, TableInv, CheckInv, BatchesInv, DataInv, batchVars
<1>5. Batched' = Batched
  BY DEF Batched, batchVars
<1>6. CASE b # None
  <2>1. b \in BucketId /\ dates[b] <= Timestamp[m]
    BY <1>1, <1>2, <1>6, FoundIsOlder
  <2>2. immediate' = Append(immediate, [bucket |-> b, message |-> m]) /\ waiting' = waiting \ {m}
    BY <1>6 DEF Place
  <2> DEFINE new == [bucket |-> b, message |-> m]
  <2>3. new \in [bucket : BucketId, message : Message] /\ new.message = m /\ new.bucket = b
    BY <2>1
  <2> HIDE DEF new, b
  <2>4. /\ immediate' \in Seq([bucket : BucketId, message : Message])
        /\ Len(immediate) \in Nat /\ Len(immediate') = Len(immediate) + 1
        /\ immediate'[Len(immediate) + 1] = new
        /\ \A i \in 1 .. Len(immediate) : immediate'[i] = immediate[i]
    BY <1>1, <2>2, <2>3 DEF WaitingInv, new
  <2>5. \A i \in 1 .. Len(immediate) : immediate[i].message # m
    BY DEF InImmediate
  <2>6. \A i \in 1 .. Len(immediate') : i = Len(immediate) + 1 \/ i \in 1 .. Len(immediate)
    BY <2>4
  <2>7. WaitingInv'
    BY <1>1, <1>2, <2>1, <2>2, <2>3, <2>4, <2>5, <2>6 DEF WaitingInv
  <2>8. InImmediate' = InImmediate \cup {m}
    BY <2>3, <2>4, <2>6 DEF InImmediate
  <2>9. NothingLost'
    BY <1>1, <1>5, <2>2, <2>8 DEF NothingLost, batchVars
  <2> QED
    BY <1>4, <2>7, <2>9 DEF StorageInv
<1>7. CASE b = None
  <2>1. immediate' = immediate /\ waiting' = waiting \cup {m}
    BY <1>7 DEF Place
  <2>2. InImmediate' = InImmediate /\ WaitingInv'
    BY <1>1, <1>2, <2>1 DEF InImmediate, WaitingInv
  <2>3. NothingLost'
    BY <1>1, <1>5, <2>1, <2>2 DEF NothingLost, batchVars
  <2> QED
    BY <1>4, <2>2, <2>3 DEF StorageInv
<1> QED
  BY <1>6, <1>7

\* The first message of immediate goes into a batch.
LEMMA ImmediateKeeps ==
  ASSUME StorageInv, Immediate
  PROVE  StorageInv'
<1> DEFINE first == immediate[1]
<1>1. RecordsInv /\ BatchesInv /\ DataInv /\ WaitingInv /\ NothingLost
  BY DEF StorageInv
<1>2. /\ immediate \in Seq([bucket : BucketId, message : Message]) /\ Len(immediate) \in Nat \ {0}
      /\ Head(immediate) = first /\ first \in [bucket : BucketId, message : Message]
      /\ BatchStore(first.bucket, first.message) /\ immediate' = Tail(immediate)
  <2>1. immediate \in Seq([bucket : BucketId, message : Message]) /\ immediate # <<>>
    BY <1>1 DEF Immediate, WaitingInv
  <2>2. Len(immediate) \in Nat \ {0} /\ Head(immediate) = first /\ 1 \in 1 .. Len(immediate)
    BY <2>1, SequenceOf
  <2>3. first \in [bucket : BucketId, message : Message]
    BY <2>1, <2>2, SequenceOf
  <2> QED
    BY <2>1, <2>2, <2>3 DEF Immediate
<1>3. /\ immediate' \in Seq([bucket : BucketId, message : Message])
      /\ Len(immediate') = Len(immediate) - 1
      /\ \A i \in 1 .. Len(immediate') : immediate'[i] = immediate[i + 1] /\ i + 1 \in 2 .. Len(immediate)
  BY <1>2
<1>4. /\ UNCHANGED <<data, acked, dropped, heap, buckets, minTimestamp, waiting, check, storing,
                     dates, table, accepted, forgotten, deleted>>
      /\ BucketId' = BucketId
  BY DEF Immediate, BatchStore, BucketId
<1>5. /\ first.bucket \in BucketId /\ first.message \in Message
      /\ dates[first.bucket] <= Timestamp[first.message] /\ first.message \in InImmediate
  BY <1>1, <1>2 DEF WaitingInv, InImmediate
<1>6. first.message \notin Batched
  BY <1>1, <1>5 DEF NothingLost
<1>7. BatchesInv' /\ \A x : x \in Batched' <=> x \in Batched \/ x = first.message
  BY <1>1, <1>2, <1>4, <1>5, <1>6, BatchStoreKeeps
<1>8. \A x : x \in InImmediate <=> x \in InImmediate' \/ x = first.message
  <2>1. \A i \in 1 .. Len(immediate) : i = 1 \/ (i - 1 \in 1 .. Len(immediate') /\ immediate[i] = immediate'[i - 1])
    BY <1>2, <1>3
  <2>2. \A i \in 1 .. Len(immediate') : i + 1 \in 1 .. Len(immediate)
    BY <1>2, <1>3
  <2>3. 1 \in 1 .. Len(immediate)
    BY <1>2
  <2>4. InImmediate' = {immediate'[i].message : i \in 1 .. Len(immediate')}
    BY DEF InImmediate
  <2>5. ASSUME NEW x \in InImmediate PROVE x \in InImmediate' \/ x = first.message
    BY <2>1, <2>4 DEF InImmediate
  <2>6. ASSUME NEW x \in InImmediate' PROVE x \in InImmediate
    BY <1>3, <2>2, <2>4 DEF InImmediate
  <2> QED
    BY <1>5, <2>5, <2>6
<1>9. first.message \notin InImmediate'
  <2>1. \A i \in 1 .. Len(immediate') : immediate'[i].message # first.message
    BY <1>1, <1>2, <1>3 DEF WaitingInv
  <2> QED
    BY <2>1 DEF InImmediate
<1>10. WaitingInv'
  BY <1>1, <1>2, <1>3, <1>4 DEF WaitingInv
<1>11. NothingLost'
  <2> HIDE DEF first
  <2> QED
    BY <1>1, <1>4, <1>5, <1>7, <1>8, <1>9 DEF NothingLost
<1>12. RecordsInv' /\ DataInv'
  BY <1>1, <1>4 DEF RecordsInv, DatesInv, TableInv, CheckInv, DataInv
<1> QED
  BY <1>7, <1>10, <1>11, <1>12 DEF StorageInv

\* A step of the batches.
LEMMA BatchingKeeps ==
  ASSUME StorageInv, Batching
  PROVE  StorageInv'
<1>1. RecordsInv /\ BatchesInv /\ DataInv /\ WaitingInv /\ NothingLost
  BY DEF StorageInv
<1>2. /\ UNCHANGED <<memoryVars, dates, table, accepted, forgotten, deleted>> /\ BatchStep
      /\ BucketId' = BucketId
  BY DEF Batching, BucketId
<1>3. RecordsInv' /\ WaitingInv' /\ InImmediate' = InImmediate
  BY <1>1, <1>2 DEF memoryVars, RecordsInv, DatesInv, TableInv, CheckInv, WaitingInv, InImmediate
<1>4. BatchesInv' /\ DataInv' /\ data \subseteq data'
  BY <1>1, <1>2, BatchStepKeeps
<1>5. PICK S : /\ \A x \in S : x \in Batched
               /\ \A x : x \in Batched' <=> x \in Batched /\ x \notin S
               /\ \/ UNCHANGED <<acked, dropped>> /\ S = {}
                  \/ /\ acked' = acked \cup S /\ dropped' = dropped
                     /\ \A x \in S : \E row \in data' : row[2] = x
                  \/ acked' = acked /\ dropped' = dropped \cup S
  BY <1>1, <1>2, BatchStepKeeps
<1>6. NothingLost'
  BY <1>1, <1>2, <1>3, <1>4, <1>5 DEF NothingLost, memoryVars
<1> QED
  BY <1>3, <1>4, <1>6 DEF StorageInv

\* Steps that leave the messages alone.
LEMMA OthersKeep ==
  ASSUME StorageInv, RecordsInv', DatesGrow,
         UNCHANGED <<waiting, immediate, batchVars, accepted, forgotten, deleted>>
  PROVE  StorageInv'
<1>1. RecordsInv /\ BatchesInv /\ DataInv /\ WaitingInv /\ NothingLost
  BY DEF StorageInv
<1>2. UNCHANGED <<waiting, immediate, batches, pendingBatches, data, acked, dropped, accepted,
                  forgotten, deleted>>
  BY DEF batchVars
<1>3. BatchesInv'
  <2>1. \A p \in pendingBatches : p \in PendingBatch(BucketId) /\ p.bucket \in BucketId
    BY <1>1 DEF BatchesInv, PendingBatch
  <2>2. pendingBatches \subseteq PendingBatch(BucketId')
    BY <2>1 DEF DatesGrow, PendingBatch
  <2> QED
    BY <1>1, <1>2, <2>1, <2>2 DEF BatchesInv, DatesGrow
<1>4. DataInv'
  BY <1>1, <1>2 DEF DataInv, DatesGrow
<1>5. WaitingInv'
  <2> DEFINE R == [bucket : BucketId, message : Message]
             T == [bucket : BucketId', message : Message]
  <2>0. immediate \in Seq(R)
    BY <1>1 DEF WaitingInv
  <2>1. \A i \in 1 .. Len(immediate) : immediate[i] \in R /\ immediate[i].bucket \in BucketId
    <3>1. \A i \in 1 .. Len(immediate) : immediate[i] \in R
      <4> HIDE DEF R
      <4> QED
        BY <2>0, SequenceOf
    <3> QED
      BY <3>1
  <2>2. immediate \in Seq(T)
    <3>1. R \subseteq T
      BY DEF DatesGrow
    <3> HIDE DEF R, T
    <3> QED
      BY <2>0, <2>1, <3>1, SequenceOf
  <2> QED
    BY <1>1, <1>2, <2>1, <2>2 DEF WaitingInv, DatesGrow
<1>6. NothingLost'
  BY <1>1, <1>2 DEF NothingLost, InImmediate, Batched
<1> QED
  BY <1>3, <1>4, <1>5, <1>6 DEF StorageInv

\* The messages of an expired bucket are deleted.
LEMMA DeleteExpiredKeeps ==
  ASSUME StorageInv, NEW r \in expiring, DeleteExpired(r)
  PROVE  StorageInv'
<1>1. RecordsInv /\ BatchesInv /\ DataInv /\ WaitingInv /\ NothingLost
  BY DEF StorageInv
<1>2. /\ UNCHANGED <<memoryVars, batches, pendingBatches, acked, dropped, dates, accepted, forgotten>>
      /\ table' = [d \in DOMAIN table \ {r.date} |-> table[d]]
      /\ data' \subseteq data /\ deleted' = deleted \cup {row[2] : row \in data \ data'}
      /\ BucketId' = BucketId
  BY DEF DeleteExpired, expireUnchanged, BucketId
<1>3. RecordsInv'
  BY <1>1, <1>2 DEF memoryVars, RecordsInv, DatesInv, TableInv, CheckInv
<1>4. BatchesInv' /\ DataInv' /\ WaitingInv'
  BY <1>1, <1>2 DEF memoryVars, BatchesInv, DataInv, WaitingInv
<1>5. InImmediate' = InImmediate /\ Batched' = Batched /\ waiting' = waiting
  BY <1>2 DEF memoryVars, InImmediate, Batched
<1>6. NothingLost'
  BY <1>1, <1>2, <1>5 DEF NothingLost
<1> QED
  BY <1>3, <1>4, <1>6 DEF StorageInv

\* The process ends: what was in memory is forgotten.
LEMMA CrashKeeps ==
  ASSUME StorageInv, Crash
  PROVE  StorageInv'
<1>1. RecordsInv /\ BatchesInv /\ DataInv /\ WaitingInv /\ NothingLost
  BY DEF StorageInv
<1>2. /\ heap' = <<>> /\ buckets' = [b \in {} |-> {}] /\ minTimestamp' = None /\ waiting' = {}
      /\ immediate' = <<>> /\ check' = Idle /\ storing' = [b \in {} |-> {}]
      /\ batches' = [b \in {} |-> {}] /\ pendingBatches' = {}
      /\ UNCHANGED <<acked, dropped, dates, table, accepted, deleted>>
      /\ forgotten' = forgotten \cup waiting \cup InImmediate \cup Batched
      /\ BucketId' = BucketId
  BY DEF Crash, BucketId
<1>3. RecordsInv'
  <2>1. HeapOf(heap', DOMAIN buckets', dates', BucketId')
    BY <1>2, FS_EmptySet DEF HeapOf, Ids, FirstNewest
  <2>2. DatesInv' /\ TableInv' /\ CheckInv'
    BY <1>1, <1>2 DEF RecordsInv, DatesInv, TableInv, CheckInv, Idle
  <2> QED
    BY <2>1, <2>2 DEF RecordsInv
<1>4. BatchesInv' /\ WaitingInv'
  BY <1>1, <1>2 DEF BatchesInv, WaitingInv
<1>5. DataInv' /\ data \subseteq data'
  <2>1. PICK inserts \in SUBSET pendingBatches :
          data' = data \cup UNION {Rows(p) : p \in inserts}
    BY DEF Crash
  <2>2. \A p \in pendingBatches :
          \A row \in Rows(p) : row \in BucketId \X Message /\ dates[row[1]] <= Timestamp[row[2]]
    BY <1>1, RowsOf DEF BatchesInv
  <2> QED
    BY <1>1, <1>2, <2>1, <2>2 DEF DataInv
<1>6. InImmediate' = {} /\ Batched' = {}
  BY <1>2 DEF InImmediate, Batched
<1>7. NothingLost'
  BY <1>1, <1>2, <1>5, <1>6 DEF NothingLost
<1> QED
  BY <1>3, <1>4, <1>5, <1>7 DEF StorageInv

\* The process starts with an empty database.
LEMMA InitStorage == Init => StorageInv
<1> SUFFICES ASSUME Init PROVE StorageInv
  OBVIOUS
<1>1. DatesInv
  <2>1. \A b \in BucketId : dates[b] <= 0
    BY DEF Init, BucketId
  <2> QED
    BY <2>1 DEF Init, DatesInv
<1>2. HeapOf(heap, DOMAIN buckets, dates, BucketId)
  BY FS_EmptySet DEF Init, HeapOf, Ids, FirstNewest
<1>3. TableInv /\ CheckInv
  BY DEF Init, TableInv, CheckInv, Idle
<1>4. BatchesInv /\ DataInv /\ WaitingInv
  BY DEF Init, BatchInit, BatchesInv, DataInv, WaitingInv
<1>5. NothingLost
  BY DEF Init, BatchInit, NothingLost, InImmediate, Batched
<1> QED
  BY <1>1, <1>2, <1>3, <1>4, <1>5 DEF StorageInv, RecordsInv

\* Whatever happens, the invariant is kept.
THEOREM NextStorage == StorageInv /\ [Next]_vars => StorageInv'
<1> SUFFICES ASSUME StorageInv, [Next]_vars PROVE StorageInv'
  OBVIOUS
<1>1. RecordsInv /\ WaitingInv /\ NothingLost
  BY DEF StorageInv
<1>2. ASSUME NEW m \in Message, Store(m)
      PROVE  StorageInv'
  <2>1. m \notin accepted /\ accepted' = accepted \cup {m} /\ Place(m)
    BY <1>2 DEF Store
  <2>2. m \notin InImmediate /\ m \notin Batched /\ m \notin acked \cup dropped \cup forgotten
    BY <1>1, <2>1 DEF NothingLost
  <2> QED
    BY <1>2, <2>1, <2>2, PlaceKeeps DEF Store
<1>3. ASSUME NEW m \in Message, RetryStore(m)
      PROVE  StorageInv'
  <2>1. m \in waiting /\ accepted' = accepted /\ Place(m)
    BY <1>3 DEF RetryStore
  <2>2. /\ m \notin InImmediate /\ m \notin Batched /\ m \notin acked \cup dropped \cup forgotten
        /\ accepted' = accepted \cup {m}
    BY <1>1, <2>1 DEF NothingLost
  <2> QED
    BY <1>3, <2>1, <2>2, PlaceKeeps DEF RetryStore
<1>4. CASE CheckStart \/ CheckLatest \/ CheckRange
  <2>1. RecordsInv' /\ DatesGrow
    BY <1>1, <1>4, CheckKeeps
  <2> QED
    BY <1>4, <2>1, OthersKeep DEF CheckStart, CheckLatest, CheckRange, checkUnchanged
<1>5. CASE \/ StoreBuckets
           \/ \E b \in DOMAIN storing : UpdateBucket(b)
           \/ \E ok, dead : BucketsStored(ok, dead)
  <2>1. RecordsInv' /\ DatesGrow
    BY <1>1, <1>5, StoreBucketsKeeps
  <2> QED
    BY <1>5, <2>1, OthersKeep DEF StoreBuckets, UpdateBucket, BucketsStored, storeUnchanged
<1>6. CASE UNCHANGED <<memoryVars, batchVars, dates, table, accepted, forgotten, deleted>>
  <2>1. RecordsInv' /\ DatesGrow
    BY <1>1, <1>6 DEF memoryVars, RecordsInv, DatesInv, TableInv, CheckInv, DatesGrow, BucketId
  <2> QED
    BY <1>6, <2>1, OthersKeep DEF memoryVars
<1>7. ASSUME NEW r \in expiring, FilterExpired(r)
      PROVE  StorageInv'
  BY <1>6, <1>7 DEF FilterExpired, expireUnchanged, batchVars
<1>8. CASE FindExpired
  BY <1>6, <1>8 DEF FindExpired, expireUnchanged, batchVars
<1> QED
  BY <1>2, <1>3, <1>4, <1>5, <1>6, <1>7, <1>8, ImmediateKeeps, BatchingKeeps, DeleteExpiredKeeps,
     CrashKeeps DEF Next, vars

\* A message is at one place between store and its end (Storage.ts, BatchManager.ts), and
\* what store has promised to have written is in the database until it is deleted as
\* expired, whatever crashes, failed inserts and timers come between.
THEOREM NoMessageLost == Spec => []NothingLost
<1>1. StorageInv => NothingLost
  BY DEF StorageInv
<1> QED
  BY <1>1, InitStorage, NextStorage, PTL DEF Spec

\* The heap and the map of BucketManager.ts hold the same buckets, the newest first, and
\* no message is in a bucket younger than itself, where no query would look for it.
THEOREM BucketsAgree == Spec => []BucketsInv
<1>1. ASSUME StorageInv PROVE BucketsAreOlder
  <2>1. BatchesInv /\ DataInv
    BY <1>1 DEF StorageInv
  <2>2. ASSUME NEW b \in DOMAIN batches, NEW row \in {b} \X batches[b]
        PROVE  dates[row[1]] <= Timestamp[row[2]]
    BY <2>1 DEF BatchesInv
  <2> QED
    BY <2>1, <2>2 DEF DataInv, BucketsAreOlder
<1>2. StorageInv => BucketsInv
  BY <1>1, RecordsParts DEF StorageInv, BucketsInv
<1> QED
  BY <1>2, InitStorage, NextStorage, PTL DEF Spec

-----------------------------------------------------------------------------
(* What the queries rest on.                                               *)

\* The message is in the bucket: in its row, a batch of it or on its way to one.
Holds(b, m) ==
  \/ <<b, m>> \in data
  \/ b \in DOMAIN batches /\ m \in batches[b]
  \/ \E p \in pendingBatches : p.bucket = b /\ m \in p.messages
  \/ \E i \in 1 .. Len(immediate) : immediate[i].bucket = b /\ immediate[i].message = m
HeldBy(b) == {m \in Message : Holds(b, m)}

\* Buckets are created for the timestamp of a message that waits.
Times == {Timestamp[m] : m \in accepted}
TimesInv ==
  /\ \A b \in BucketId : dates[b] \in Times
  /\ minTimestamp # None => minTimestamp \in Times
  /\ check.at # "idle" => check.min \in Times

\* A message is in one bucket at most, and does not wait for another.
OneBucket ==
  \A m \in Message, b \in BucketId : Holds(b, m) =>
    /\ m \in accepted \ waiting
    /\ \A c \in BucketId : Holds(c, m) => c = b

\* Nothing was lost so far, and no bucket has taken the row of another.
Smooth == crashes = 0 /\ dropped = {} /\ deleted = {} /\ DistinctDates

\* What the row of a bucket says of its records, if there is one.
RowSays(b, n) == dates[b] \in DOMAIN table => table[dates[b]].records = n

\* The records counted for a bucket are its messages: in memory, or in the row if the
\* bucket is not in memory, or has been stored.  The buckets in memory are those in bs.
CountedRight(bs, b) ==
  /\ b \in DOMAIN bs => bs[b].records = Cardinality(HeldBy(b))
  /\ b \notin DOMAIN bs => RowSays(b, Cardinality(HeldBy(b)))
  /\ b \in DOMAIN bs /\ bs[b].stored => RowSays(b, bs[b].records)
  /\ b \in DOMAIN storing =>
       /\ b \in DOMAIN bs /\ ~bs[b].stored
       /\ storing[b].applied => RowSays(b, storing[b].records)
CountsAgree == \A b \in BucketId : CountedRight(buckets, b)

\* A map of buckets of BucketManager.
IsBuckets(bs) ==
  bs \in [DOMAIN bs -> [records : Nat, stored : BOOLEAN, untried : SUBSET (Message \cup {None})]]
CountsTypeOK ==
  /\ IsBuckets(buckets)
  /\ storing \in [DOMAIN storing -> [records : Nat, applied : BOOLEAN]]
  /\ \A d \in DOMAIN table : table[d].records \in Nat

QueryInv ==
  /\ StorageInv /\ IsFiniteSet(accepted) /\ CountsTypeOK
  /\ crashes \in Nat /\ (crashes = 0 => forgotten = {})
  /\ TimesInv /\ OneBucket /\ (Smooth => CountsAgree)

\* Only messages are in buckets.
LEMMA HeldAreMessages ==
  ASSUME StorageInv, NEW b, NEW m, Holds(b, m)
  PROVE  b \in BucketId /\ m \in Message
<1>1. BatchesInv /\ DataInv /\ WaitingInv
  BY DEF StorageInv
<1>2. CASE <<b, m>> \in data
  BY <1>1, <1>2 DEF DataInv
<1>3. CASE b \in DOMAIN batches /\ m \in batches[b]
  BY <1>1, <1>3 DEF BatchesInv
<1>4. ASSUME NEW p \in pendingBatches, p.bucket = b /\ m \in p.messages
      PROVE  b \in BucketId /\ m \in Message
  BY <1>1, <1>4 DEF BatchesInv, PendingBatch
<1>5. ASSUME NEW i \in 1 .. Len(immediate), immediate[i].bucket = b, immediate[i].message = m
      PROVE  b \in BucketId /\ m \in Message
  <2> DEFINE R == [bucket : BucketId, message : Message]
  <2>1. immediate \in Seq(R)
    BY <1>1 DEF WaitingInv
  <2>2. immediate[i] \in R
    <3> HIDE DEF R
    <3> QED
      BY <2>1, SequenceOf
  <2> QED
    BY <1>5, <2>2
<1> QED
  BY <1>2, <1>3, <1>4, <1>5 DEF Holds

\* The messages of a bucket are finitely many.
LEMMA HeldAreFinite ==
  ASSUME QueryInv, NEW b \in BucketId
  PROVE  IsFiniteSet(HeldBy(b)) /\ Cardinality(HeldBy(b)) \in Nat
<1>1. HeldBy(b) \in SUBSET accepted
  BY DEF QueryInv, OneBucket, HeldBy
<1> QED
  BY <1>1, FS_Subset, FS_CardinalityType DEF QueryInv

\* If the buckets lose messages and win none, no message is in two.
LEMMA LosingKeepsOneBucket ==
  ASSUME StorageInv, OneBucket, BucketId \subseteq BucketId', accepted' = accepted,
         waiting' \subseteq waiting, \A b, m : Holds(b, m)' => Holds(b, m)
  PROVE  OneBucket'
<1> SUFFICES ASSUME NEW m \in Message, NEW b \in BucketId', Holds(b, m)'
             PROVE  /\ m \in accepted' \ waiting'
                    /\ \A c \in BucketId' : Holds(c, m)' => c = b
  BY DEF OneBucket
<1>1. Holds(b, m) /\ b \in BucketId
  BY HeldAreMessages
<1>2. \A c \in BucketId' : Holds(c, m)' => c \in BucketId /\ Holds(c, m)
  BY HeldAreMessages
<1> QED
  BY <1>1, <1>2 DEF OneBucket

\* The records agree as long as the buckets, their rows and what they hold are left alone.
LEMMA SameCounts ==
  ASSUME CountsAgree, UNCHANGED <<dates, buckets, storing>>,
         \A b \in BucketId : HeldBy(b)' = HeldBy(b),
         \A d \in DOMAIN table' : d \in DOMAIN table /\ table'[d] = table[d]
  PROVE  CountsAgree'
<1>1. BucketId' = BucketId
  BY DEF BucketId
<1>2. ASSUME NEW b \in BucketId, NEW n, RowSays(b, n) PROVE dates'[b] \in DOMAIN table' => table'[dates'[b]].records = n
  BY <1>2 DEF RowSays
<1>3. ASSUME NEW b \in BucketId PROVE CountedRight(buckets, b)'
  <2>1. CountedRight(buckets, b) /\ HeldBy(b)' = HeldBy(b)
    BY DEF CountsAgree
  <2> QED
    BY <1>2, <2>1 DEF CountedRight, RowSays
<1> QED
  BY <1>1, <1>3 DEF CountsAgree

\* The row that is found is the one of a date.
LEMMA LastRowIs ==
  ASSUME RecordsInv, NEW ds \in SUBSET DOMAIN table, ds # {}
  PROVE  \E d \in ds : LastRow(ds) = table[d] /\ \A e \in ds : e <= d
<1>1. DatesInv /\ TableInv
  BY DEF RecordsInv
<1>2. PICK n \in Nat : \A b \in BucketId : dates[b] <= n
  BY <1>1 DEF DatesInv
<1>3. ds \in SUBSET Nat /\ \A d \in ds : d <= n
  BY <1>1, <1>2 DEF TableInv
<1>4. Greatest(ds) \in ds /\ \A e \in ds : e <= Greatest(ds)
  BY <1>3, GreatestOf
<1> QED
  BY <1>4 DEF LastRow

\* A bucket that is loaded is counted as its row says.
LEMMA LoadedCounts ==
  ASSUME QueryInv, NEW ds \in SUBSET DOMAIN table, IsNew(LastRow(ds))
  PROVE  /\ IsBuckets(WithLoaded(LastRow(ds)))
         /\ Smooth => \A b \in BucketId : CountedRight(WithLoaded(LastRow(ds)), b)
<1> DEFINE row == LastRow(ds)
           bs == WithLoaded(row)
<1>1. RecordsInv /\ TableInv /\ waiting \subseteq Message
  BY DEF QueryInv, StorageInv, RecordsInv, WaitingInv
<1>2. ds # {}
  BY DEF IsNew, LastRow
<1>3. PICK d \in ds : row = table[d]
  BY <1>1, <1>2, LastRowIs
<1>4. row.id \in BucketId /\ dates[row.id] = d /\ row.records \in Nat /\ row.id \notin DOMAIN buckets
  BY <1>1, <1>3 DEF TableInv, QueryInv, CountsTypeOK, IsNew
<1>5. /\ DOMAIN bs = DOMAIN buckets \cup {row.id}
      /\ bs[row.id].records = row.records /\ bs[row.id].stored = FALSE
      /\ bs[row.id] \in [records : Nat, stored : BOOLEAN, untried : SUBSET (Message \cup {None})]
      /\ \A b \in DOMAIN buckets : bs[b] = buckets[b]
      /\ bs = [b \in DOMAIN bs |-> bs[b]]
  BY <1>1, <1>4 DEF WithLoaded, With
<1> HIDE DEF bs, row
<1>6. IsBuckets(bs)
  BY <1>5 DEF QueryInv, CountsTypeOK, IsBuckets
<1>7. ASSUME Smooth, NEW b \in BucketId PROVE CountedRight(bs, b)
  <2>1. CountedRight(buckets, b)
    BY <1>7 DEF QueryInv, CountsAgree
  <2>2. CASE b = row.id
    <3>1. bs[b].records = Cardinality(HeldBy(b))
      BY <1>3, <1>4, <1>5, <2>1, <2>2 DEF CountedRight, RowSays
    <3>2. b \notin DOMAIN storing
      BY <1>4, <2>1, <2>2 DEF CountedRight
    <3> QED
      BY <1>5, <2>2, <3>1, <3>2 DEF CountedRight
  <2>3. CASE b # row.id
    BY <1>5, <2>1, <2>3 DEF CountedRight
  <2> QED
    BY <2>2, <2>3
<1> QED
  BY <1>6, <1>7 DEF bs, row

\* The end of a round of checks leaves the records alone.
LEMMA CheckedCounts ==
  ASSUME NEW bs, IsBuckets(bs)
  PROVE  /\ IsBuckets(Checked(bs))
         /\ \A b \in BucketId : CountedRight(bs, b) => CountedRight(Checked(bs), b)
<1> DEFINE cs == Checked(bs)
           R == [records : Nat, stored : BOOLEAN, untried : SUBSET (Message \cup {None})]
<1>1. ASSUME NEW b \in DOMAIN bs
      PROVE  cs[b] \in R /\ cs[b].records = bs[b].records /\ cs[b].stored = bs[b].stored
  <2>1. bs[b] \in R
    BY DEF IsBuckets
  <2> QED
    BY <2>1 DEF Checked
<1>2. DOMAIN cs = DOMAIN bs /\ cs = [b \in DOMAIN cs |-> cs[b]]
  BY DEF Checked
<1> HIDE DEF cs
<1>3. IsBuckets(cs)
  BY <1>1, <1>2 DEF IsBuckets
<1>4. ASSUME NEW b \in BucketId, CountedRight(bs, b) PROVE CountedRight(cs, b)
  BY <1>1, <1>2, <1>4 DEF CountedRight
<1> QED
  BY <1>3, <1>4 DEF cs

\* What is in the buckets does not change without the batches and those on their way.
LEMMA SameHolds ==
  ASSUME UNCHANGED <<batches, pendingBatches, data, immediate>>
  PROVE  \A b : HeldBy(b)' = HeldBy(b) /\ \A m : Holds(b, m)' <=> Holds(b, m)
BY DEF Holds, HeldBy

\* A bucket that is created for the time of a message is empty.
LEMMA CreatedCounts ==
  ASSUME QueryInv, NEW h, NEW bs, IsBuckets(bs), DOMAIN bs \subseteq BucketId,
         Smooth => \A b \in BucketId : CountedRight(bs, b),
         NEW min \in Times, CreateBucket(h, bs, min), UNCHANGED checkUnchanged
  PROVE  TimesInv' /\ CountsTypeOK' /\ (Smooth' => CountsAgree')
<1> DEFINE cs == Checked(bs)
           R == [records : Nat, stored : BOOLEAN, untried : SUBSET (Message \cup {None})]
<1>0. PICK new : new = Len(dates) + 1
  OBVIOUS
<1>1. DatesInv /\ TableInv /\ waiting \subseteq Message /\ CountsTypeOK /\ TimesInv
  BY DEF QueryInv, StorageInv, RecordsInv, WaitingInv
<1>2. /\ dates' = Append(dates, min) /\ minTimestamp' = None /\ check' = Idle
      /\ buckets' = With(cs, new, [records |-> 0, stored |-> FALSE, untried |-> waiting])
  BY <1>0 DEF CreateBucket
<1>3. /\ UNCHANGED <<batches, pendingBatches, data, acked, dropped, waiting, immediate, storing,
                     storingOn, table, expiring, accepted, forgotten, deleted, crashes>>
  BY DEF checkUnchanged, batchVars
<1>4. min \in Nat
  BY StorageAssumption DEF Times, QueryInv, StorageInv, WaitingInv
<1>5. /\ BucketId' = BucketId \cup {new} /\ new \notin BucketId
      /\ dates'[new] = min /\ \A b \in BucketId : dates'[b] = dates[b]
  BY <1>0, <1>1, <1>2, <1>4 DEF DatesInv, BucketId
<1>6. IsBuckets(cs) /\ DOMAIN cs = DOMAIN bs /\ (Smooth => \A b \in BucketId : CountedRight(cs, b))
  BY CheckedCounts DEF Checked
<1> HIDE DEF cs
<1>7. /\ DOMAIN buckets' = DOMAIN cs \cup {new} /\ new \notin DOMAIN cs
      /\ buckets'[new].records = 0 /\ buckets'[new].stored = FALSE /\ buckets'[new] \in R
      /\ \A b \in DOMAIN cs : buckets'[b] = cs[b]
      /\ buckets' = [b \in DOMAIN buckets' |-> buckets'[b]]
  BY <1>1, <1>2, <1>5, <1>6 DEF With
<1>8. TimesInv'
  BY <1>1, <1>2, <1>3, <1>5 DEF TimesInv, Times, Idle
<1>9. CountsTypeOK'
  BY <1>1, <1>3, <1>6, <1>7 DEF CountsTypeOK, IsBuckets
<1>10. ASSUME Smooth' PROVE CountsAgree'
  <2>1. Smooth
    BY <1>3, <1>5, <1>10 DEF Smooth, DistinctDates
  <2>2. \A b : HeldBy(b)' = HeldBy(b)
    BY <1>3, SameHolds
  <2>3. ASSUME NEW b \in BucketId PROVE CountedRight(buckets, b)'
    <3>1. CountedRight(cs, b) /\ b # new
      BY <1>5, <1>6, <2>1
    <3>2. \A n : RowSays(b, n)' <=> RowSays(b, n)
      BY <1>3, <1>5 DEF RowSays
    <3>3. b \in DOMAIN buckets' <=> b \in DOMAIN cs
      BY <1>7, <3>1
    <3>4. b \in DOMAIN cs => buckets'[b] = cs[b]
      BY <1>7
    <3>5. HeldBy(b)' = HeldBy(b)
      BY <2>2
    <3> HIDE DEF R
    <3> QED
      BY <1>3, <3>1, <3>2, <3>3, <3>4, <3>5 DEF CountedRight
  <2>4. CountedRight(buckets, new)'
    <3>1. HeldBy(new) = {}
      BY <1>5, HeldAreMessages DEF HeldBy, QueryInv
    <3>2. HeldBy(new)' = {} /\ Cardinality(HeldBy(new)') = 0
      BY <2>2, <3>1, FS_EmptySet
    <3>3. new \notin DOMAIN storing'
      BY <1>1, <1>3, <1>5 DEF TableInv
    <3> QED
      BY <1>7, <3>2, <3>3 DEF CountedRight
  <2> QED
    BY <1>5, <2>3, <2>4 DEF CountsAgree
<1> QED
  BY <1>8, <1>9, <1>10

LEMMA CheckMinCounts ==
  ASSUME QueryInv, NEW h, NEW bs, IsBuckets(bs), DOMAIN bs \subseteq BucketId,
         Smooth => \A b \in BucketId : CountedRight(bs, b),
         NEW minThen, minThen # None => minThen \in Times, NEW min \in Times, NEW insert,
         CheckMin(h, bs, minThen, min, insert), UNCHANGED checkUnchanged
  PROVE  TimesInv' /\ CountsTypeOK' /\ (Smooth' => CountsAgree')
<1>1. CASE insert
  <2>1. CreateBucket(h, bs, min)
    BY <1>1 DEF CheckMin
  <2> QED
    BY <2>1, CreatedCounts
<1>2. CASE ~insert
  <2>1. /\ minTimestamp' = minThen /\ dates' = dates
        /\ \/ check' = [at |-> "range", min |-> min, insert |-> FALSE] /\ buckets' = bs
           \/ check' = Idle /\ buckets' = Checked(bs)
    BY <1>2 DEF CheckMin
  <2>2. /\ UNCHANGED <<batches, pendingBatches, data, dropped, immediate, storing, table,
                       accepted, deleted, crashes>>
        /\ BucketId' = BucketId
    BY <2>1 DEF checkUnchanged, batchVars, BucketId
  <2>3. IsBuckets(buckets') /\ (Smooth => \A b \in BucketId : CountedRight(buckets', b))
    BY <2>1, CheckedCounts
  <2>4. TimesInv' /\ CountsTypeOK'
    BY <2>1, <2>2, <2>3 DEF TimesInv, Times, CountsTypeOK, IsBuckets, QueryInv, Idle
  <2>5. ASSUME Smooth' PROVE CountsAgree'
    <3>1. Smooth
      BY <2>1, <2>2, <2>5 DEF Smooth, DistinctDates
    <3>2. \A b : HeldBy(b)' = HeldBy(b)
      BY <2>2, SameHolds
    <3> QED
      BY <2>1, <2>2, <2>3, <3>1, <3>2 DEF CountsAgree, CountedRight, RowSays
  <2> QED
    BY <2>4, <2>5
<1> QED
  BY <1>1, <1>2

\* checkFullBuckets, from its start or from one of its awaits.
LEMMA CheckCounts ==
  ASSUME QueryInv, CheckStart \/ CheckLatest \/ CheckRange
  PROVE  TimesInv' /\ CountsTypeOK' /\ (Smooth' => CountsAgree')
<1>1. /\ StorageInv /\ RecordsInv /\ CheckInv /\ TimesInv /\ CountsTypeOK
      /\ DOMAIN buckets \subseteq BucketId /\ IsBuckets(buckets)
      /\ (Smooth => \A b \in BucketId : CountedRight(buckets, b))
  BY RecordsParts DEF QueryInv, StorageInv, RecordsInv, CountsTypeOK, CountsAgree
<1>2. UNCHANGED checkUnchanged
  BY DEF CheckStart, CheckLatest, CheckRange
<1>3. ASSUME NEW ds \in SUBSET DOMAIN table, IsNew(LastRow(ds))
      PROVE  /\ IsBuckets(WithLoaded(LastRow(ds))) /\ DOMAIN WithLoaded(LastRow(ds)) \subseteq BucketId
             /\ Smooth => \A b \in BucketId : CountedRight(WithLoaded(LastRow(ds)), b)
  <2>1. ds # {}
    BY <1>3 DEF IsNew, LastRow
  <2>2. LastRow(ds).id \in BucketId
    BY <1>1, <2>1, LastRowFound
  <2>3. DOMAIN WithLoaded(LastRow(ds)) \subseteq BucketId
    BY <1>1, <2>2 DEF WithLoaded, With
  <2> QED
    BY <1>3, <2>3, LoadedCounts
<1>4. CASE CheckStart
  <2>1. minTimestamp \in Times
    BY <1>1, <1>4 DEF CheckStart, TimesInv
  <2>2. CASE CheckMin(heap, buckets, minTimestamp, minTimestamp, FALSE)
    BY <1>1, <1>2, <2>1, <2>2, CheckMinCounts
  <2>3. CASE /\ \E almostFull \in BOOLEAN :
                  check' = [at |-> "latest", min |-> minTimestamp, insert |-> almostFull]
             /\ UNCHANGED <<heap, buckets, minTimestamp, dates>>
    <3>1. /\ UNCHANGED <<batches, pendingBatches, data, dropped, immediate, storing, table,
                         accepted, deleted, crashes>>
          /\ BucketId' = BucketId
      BY <1>2, <2>3 DEF checkUnchanged, batchVars, BucketId
    <3>2. TimesInv' /\ CountsTypeOK'
      BY <1>1, <2>1, <2>3, <3>1 DEF TimesInv, Times, CountsTypeOK, IsBuckets
    <3>3. Smooth' => CountsAgree /\ Smooth
      BY <2>3, <3>1 DEF Smooth, DistinctDates, QueryInv
    <3>4. \A b : HeldBy(b)' = HeldBy(b)
      BY <3>1, SameHolds
    <3>5. CountsAgree => CountsAgree'
      BY <2>3, <3>1, <3>4, SameCounts
    <3> QED
      BY <3>2, <3>3, <3>5
  <2>4. (heap # <<>> /\ IsAlmostFull(buckets[heap[1]])) \in BOOLEAN
    OBVIOUS
  <2> QED
    BY <1>4, <2>2, <2>3, <2>4 DEF CheckStart
<1>5. CASE CheckLatest
  <2> DEFINE row == LastRow(DOMAIN table)
  <2>1. check.min \in Times
    BY <1>1, <1>5 DEF CheckLatest, TimesInv
  <2>2. CASE IsNew(row)
    <3>1. CheckMin(Push(heap, row.id, dates), WithLoaded(row), None, check.min, check.insert)
      BY <1>5, <2>2 DEF CheckLatest
    <3> QED
      BY <1>2, <1>3, <2>1, <2>2, <3>1, CheckMinCounts
  <2>3. CASE ~IsNew(row)
    <3>1. CheckMin(heap, buckets, minTimestamp, check.min, TRUE)
      BY <1>5, <2>3 DEF CheckLatest
    <3>2. minTimestamp # None => minTimestamp \in Times
      BY <1>1 DEF TimesInv
    <3> QED
      BY <1>1, <1>2, <2>1, <3>1, <3>2, CheckMinCounts
  <2> QED
    BY <2>2, <2>3
<1>6. CASE CheckRange
  <2> DEFINE ds == {d \in DOMAIN table : d <= check.min}
             row == LastRow(ds)
  <2>1. check.min \in Times
    BY <1>1, <1>6 DEF CheckRange, TimesInv
  <2>2. CASE IsNew(row)
    <3>1. /\ buckets' = Checked(WithLoaded(row)) /\ minTimestamp' = None /\ check' = Idle
          /\ dates' = dates
      BY <1>6, <2>2 DEF CheckRange
    <3>2. /\ IsBuckets(WithLoaded(row))
          /\ Smooth => \A b \in BucketId : CountedRight(WithLoaded(row), b)
      BY <1>3, <2>2
    <3> HIDE DEF row
    <3>3. IsBuckets(buckets') /\ (Smooth => \A b \in BucketId : CountedRight(buckets', b))
      BY <3>1, <3>2, CheckedCounts
    <3>4. /\ UNCHANGED <<batches, pendingBatches, data, dropped, immediate, storing, table,
                         accepted, deleted, crashes>>
          /\ BucketId' = BucketId
      BY <1>2, <3>1 DEF checkUnchanged, batchVars, BucketId
    <3>5. TimesInv' /\ CountsTypeOK'
      BY <1>1, <3>1, <3>3, <3>4 DEF TimesInv, Times, CountsTypeOK, IsBuckets, Idle
    <3>6. Smooth' => Smooth
      BY <3>1, <3>4 DEF Smooth, DistinctDates
    <3>7. \A b : HeldBy(b)' = HeldBy(b)
      BY <3>4, SameHolds
    <3>8. Smooth' => CountsAgree'
      BY <3>1, <3>3, <3>4, <3>6, <3>7 DEF CountsAgree, CountedRight, RowSays
    <3> QED
      BY <3>5, <3>8
  <2>3. CASE ~IsNew(row)
    <3>1. CreateBucket(heap, buckets, check.min)
      BY <1>6, <2>3 DEF CheckRange
    <3> QED
      BY <1>1, <1>2, <2>1, <3>1, CreatedCounts
  <2> QED
    BY <2>2, <2>3
<1> QED
  BY <1>4, <1>5, <1>6

\* storeBuckets, when it starts, when an update reaches the table, and when it ends.
LEMMA StoreBucketsCounts ==
  ASSUME QueryInv,
         \/ StoreBuckets
         \/ \E b \in DOMAIN storing : UpdateBucket(b)
         \/ \E ok \in SUBSET {b \in DOMAIN storing : storing[b].applied} :
              \E dead : BucketsStored(ok, dead)
  PROVE  TimesInv' /\ CountsTypeOK' /\ (Smooth' => CountsAgree')
<1> DEFINE R == [records : Nat, stored : BOOLEAN, untried : SUBSET (Message \cup {None})]
<1>1. /\ TableInv /\ CountsTypeOK /\ TimesInv /\ IsBuckets(buckets)
      /\ DOMAIN buckets \subseteq BucketId /\ (Smooth => CountsAgree)
  BY RecordsParts DEF QueryInv, StorageInv, RecordsInv, CountsTypeOK
<1>2. /\ UNCHANGED <<batches, pendingBatches, data, dropped, immediate, dates, minTimestamp, check,
                     accepted, deleted, crashes>>
      /\ BucketId' = BucketId
  BY DEF StoreBuckets, UpdateBucket, BucketsStored, storeUnchanged, batchVars, BucketId
<1>3. TimesInv' /\ (Smooth' => Smooth)
  BY <1>1, <1>2 DEF TimesInv, Times, Smooth, DistinctDates
<1>4. \A b : HeldBy(b)' = HeldBy(b)
  BY <1>2, SameHolds
<1>5. ASSUME NEW b \in DOMAIN buckets
      PROVE  buckets[b] \in R /\ buckets[b].records \in Nat
  BY <1>1 DEF IsBuckets
<1>6. CASE StoreBuckets
  <2>1. /\ UNCHANGED <<buckets, table>>
        /\ DOMAIN storing' = {c \in DOMAIN buckets : ~buckets[c].stored}
        /\ \A b \in DOMAIN storing' :
             storing'[b] = [records |-> buckets[b].records, applied |-> FALSE]
        /\ storing' = [b \in DOMAIN storing' |-> storing'[b]]
    BY <1>6 DEF StoreBuckets
  <2>2. ASSUME NEW b \in DOMAIN storing'
        PROVE  /\ storing'[b] \in [records : Nat, applied : BOOLEAN] /\ ~storing'[b].applied
               /\ b \in DOMAIN buckets /\ ~buckets[b].stored
    <3>1. b \in DOMAIN buckets /\ ~buckets[b].stored /\ buckets[b].records \in Nat
      BY <1>5, <2>1
    <3>2. storing'[b] = [records |-> buckets[b].records, applied |-> FALSE]
      BY <2>1
    <3> QED
      BY <3>1, <3>2
  <2>3. CountsTypeOK'
    BY <1>1, <2>1, <2>2 DEF CountsTypeOK, IsBuckets
  <2>4. ASSUME CountsAgree, NEW b \in BucketId PROVE CountedRight(buckets, b)'
    <3>1. \A n : RowSays(b, n)' <=> RowSays(b, n)
      BY <1>2, <2>1 DEF RowSays
    <3>2. CountedRight(buckets, b) /\ HeldBy(b)' = HeldBy(b) /\ buckets' = buckets
      BY <1>4, <2>1, <2>4 DEF CountsAgree
    <3> QED
      BY <2>2, <3>1, <3>2 DEF CountedRight
  <2>5. CountsAgree => CountsAgree'
    BY <1>2, <2>4 DEF CountsAgree
  <2> QED
    BY <1>1, <1>3, <2>3, <2>5
<1>7. ASSUME NEW b \in DOMAIN storing, UpdateBucket(b)
      PROVE  CountsTypeOK' /\ (Smooth' => CountsAgree')
  <2>1. /\ UNCHANGED buckets
        /\ storing' = [storing EXCEPT ![b].applied = TRUE]
        /\ table' = With(table, dates[b], [id |-> b, records |-> storing[b].records])
    BY <1>7 DEF UpdateBucket
  <2>2. b \in BucketId /\ storing[b] \in [records : Nat, applied : BOOLEAN]
    BY <1>1 DEF TableInv, CountsTypeOK
  <2>3. /\ DOMAIN table' = DOMAIN table \cup {dates[b]} /\ table'[dates[b]].records = storing[b].records
        /\ \A d \in DOMAIN table \ {dates[b]} : table'[d] = table[d]
    BY <2>1 DEF With
  <2>4. /\ DOMAIN storing' = DOMAIN storing /\ storing'[b].records = storing[b].records
        /\ storing'[b] \in [records : Nat, applied : BOOLEAN]
        /\ \A c \in DOMAIN storing \ {b} : storing'[c] = storing[c]
        /\ storing' = [c \in DOMAIN storing |-> storing'[c]]
    BY <1>1, <2>1, <2>2 DEF CountsTypeOK
  <2>5. CountsTypeOK'
    BY <1>1, <2>1, <2>2, <2>3, <2>4 DEF CountsTypeOK, IsBuckets
  <2>6. ASSUME Smooth' PROVE CountsAgree'
    <3> SUFFICES ASSUME NEW c \in BucketId PROVE CountedRight(buckets, c)'
      BY <1>2 DEF CountsAgree
    <3>1. CountedRight(buckets, c) /\ CountedRight(buckets, b) /\ Smooth
      BY <1>1, <1>3, <2>2, <2>6 DEF CountsAgree
    <3>2. CASE c = b
      BY <1>2, <1>4, <2>1, <2>3, <2>4, <3>1, <3>2 DEF CountedRight, RowSays
    <3>3. CASE c # b
      <4>1. dates[c] # dates[b]
        BY <2>2, <3>1, <3>3 DEF Smooth, DistinctDates
      <4>2. \A n : RowSays(c, n)' <=> RowSays(c, n)
        BY <1>2, <2>3, <4>1 DEF RowSays
      <4> QED
        BY <1>4, <2>1, <2>4, <3>1, <3>3, <4>2 DEF CountedRight
    <3> QED
      BY <3>2, <3>3
  <2> QED
    BY <2>5, <2>6
<1>8. ASSUME NEW ok \in SUBSET {b \in DOMAIN storing : storing[b].applied}, NEW dead,
             BucketsStored(ok, dead)
      PROVE  CountsTypeOK' /\ (Smooth' => CountsAgree')
  <2> DEFINE marked == [b \in DOMAIN buckets |->
                          IF b \in ok /\ buckets[b].records = storing[b].records
                          THEN [buckets[b] EXCEPT !.stored = TRUE] ELSE buckets[b]]
             kept == {b \in DOMAIN buckets : ~(marked[b].stored /\ b \in dead)}
  <2>1. /\ buckets' = [b \in kept |-> marked[b]] /\ table' = table
        /\ storing' = [b \in {} |-> {}] /\ DOMAIN storing' = {}
    BY <1>8 DEF BucketsStored
  <2>2. ASSUME NEW b \in DOMAIN buckets
        PROVE  /\ marked[b] \in R /\ marked[b].records = buckets[b].records
               /\ marked[b].stored => \/ buckets[b].stored
                                      \/ /\ b \in DOMAIN storing /\ storing[b].applied
                                         /\ storing[b].records = buckets[b].records
    <3>1. buckets[b] \in R
      BY <1>5
    <3> QED
      BY <3>1
  <2> HIDE DEF marked
  <2>3. /\ DOMAIN buckets' = kept /\ \A b \in kept : buckets'[b] = marked[b]
        /\ kept \subseteq DOMAIN buckets /\ buckets' = [b \in DOMAIN buckets' |-> buckets'[b]]
        /\ \A b \in DOMAIN buckets : b \notin kept => marked[b].stored
    BY <2>1
  <2> HIDE DEF kept, R
  <2>4. CountsTypeOK'
    BY <1>1, <2>1, <2>2, <2>3 DEF CountsTypeOK, IsBuckets, R
  <2>5. ASSUME Smooth' PROVE CountsAgree'
    <3> SUFFICES ASSUME NEW b \in BucketId PROVE CountedRight(buckets, b)'
      BY <1>2 DEF CountsAgree
    <3>1. CountedRight(buckets, b)
      BY <1>1, <1>3, <2>5 DEF CountsAgree
    <3>2. \A n : RowSays(b, n)' <=> RowSays(b, n)
      BY <1>2, <2>1 DEF RowSays
    <3>3. b \in DOMAIN buckets /\ marked[b].stored => RowSays(b, buckets[b].records)
      BY <2>2, <3>1 DEF CountedRight
    <3>4. HeldBy(b)' = HeldBy(b) /\ b \notin DOMAIN storing'
      BY <1>4, <2>1
    <3>5. CASE b \in kept
      BY <2>2, <2>3, <3>1, <3>2, <3>3, <3>4, <3>5 DEF CountedRight
    <3>6. CASE b \notin kept
      BY <2>3, <3>1, <3>2, <3>3, <3>4, <3>6 DEF CountedRight
    <3> QED
      BY <3>5, <3>6
  <2> QED
    BY <2>4, <2>5
<1> QED
  BY <1>3, <1>6, <1>7, <1>8

\* The bucket that is found is in memory.
LEMMA FoundInMemory ==
  ASSUME RecordsInv, NEW ts \in Nat, FindBucketId(heap, buckets, ts) # None
  PROVE  FindBucketId(heap, buckets, ts) \in DOMAIN buckets
<1> DEFINE older == {i \in 2 .. Len(heap) : dates[heap[i]] <= ts}
           b == FindBucketId(heap, buckets, ts)
<1>1. heap \in Seq(BucketId) /\ Ids(heap) = DOMAIN buckets /\ heap # <<>>
  BY DEF RecordsInv, HeapOf, FindBucketId
<1>2. Len(heap) \in Nat \ {0}
  BY <1>1, SequenceOf
<1>3. CASE b = heap[1]
  BY <1>1, <1>2, <1>3 DEF Ids
<1>4. CASE older # {} /\ b = heap[Least(older)]
  <2>1. older \in SUBSET Nat
    OBVIOUS
  <2>2. Least(older) \in 2 .. Len(heap)
    <3>1. Least(older) \in older
      <4> HIDE DEF older
      <4> QED
        BY <1>4, <2>1, LeastOf
    <3> QED
      BY <3>1
  <2> QED
    BY <1>1, <1>2, <1>4, <2>2 DEF Ids
<1>5. (b = heap[1]) \/ (older # {} /\ b = heap[Least(older)])
  BY <1>1 DEF FindBucketId
<1> QED
  BY <1>3, <1>4, <1>5

\* A message is counted for the bucket it is placed in, and goes nowhere else.
LEMMA PlaceCounts ==
  ASSUME QueryInv, NEW m \in Message, Place(m), m \in waiting \/ m \notin accepted,
         accepted' = accepted \cup {m},
         UNCHANGED <<batchVars, heap, check, storing, dates, table, forgotten, deleted, crashes>>
  PROVE  IsFiniteSet(accepted') /\ TimesInv' /\ CountsTypeOK' /\ OneBucket' /\ (Smooth' => CountsAgree')
<1> DEFINE R == [records : Nat, stored : BOOLEAN, untried : SUBSET (Message \cup {None})]
           seen == [c \in DOMAIN buckets |-> [buckets[c] EXCEPT !.untried = @ \ {m}]]
<1>1. /\ StorageInv /\ RecordsInv /\ TableInv /\ CountsTypeOK /\ TimesInv /\ OneBucket /\ WaitingInv
      /\ DOMAIN buckets \subseteq BucketId /\ IsFiniteSet(accepted) /\ (Smooth => CountsAgree)
  BY RecordsParts DEF QueryInv, StorageInv, RecordsInv, CountsTypeOK
<1>2. /\ UNCHANGED <<batches, pendingBatches, data, dropped, deleted, crashes, check, storing,
                     dates, table>>
      /\ BucketId' = BucketId /\ Timestamp[m] \in Nat
  BY StorageAssumption DEF batchVars, BucketId
<1>3. IsFiniteSet(accepted') /\ (Smooth' => Smooth)
  BY <1>1, <1>2, FS_AddElement DEF Smooth, DistinctDates
<1>4. Times' = Times \cup {Timestamp[m]}
  BY DEF Times
<1>5. ASSUME NEW c \in DOMAIN buckets
      PROVE  /\ seen[c] \in R /\ seen[c].records = buckets[c].records
             /\ seen[c].stored = buckets[c].stored /\ buckets[c].records \in Nat
  <2>1. buckets[c] \in R
    BY <1>1 DEF CountsTypeOK, IsBuckets
  <2> QED
    BY <2>1
<1>6. DOMAIN seen = DOMAIN buckets /\ seen = [c \in DOMAIN buckets |-> seen[c]]
  OBVIOUS
<1>7. \A c \in BucketId : \A n : RowSays(c, n)' <=> RowSays(c, n)
  BY <1>2 DEF RowSays
<1> DEFINE b == FindBucketId(heap, buckets, Timestamp[m])
<1>8. CASE b = None
  <2>1. /\ minTimestamp' \in {minTimestamp, Timestamp[m]} /\ immediate' = immediate
        /\ buckets' = seen /\ waiting' = waiting \cup {m}
        /\ minTimestamp' = minTimestamp => minTimestamp # None \/ minTimestamp = Timestamp[m]
    BY <1>8 DEF Place
  <2> HIDE DEF b, seen, R
  <2>2. TimesInv'
    BY <1>1, <1>2, <1>4, <2>1 DEF TimesInv
  <2>3. CountsTypeOK'
    BY <1>1, <1>2, <1>5, <1>6, <2>1 DEF CountsTypeOK, IsBuckets, R
  <2>4. \A c : HeldBy(c)' = HeldBy(c) /\ \A x : Holds(c, x)' <=> Holds(c, x)
    BY <1>2, <2>1, SameHolds
  <2>5. ASSUME NEW x \in Message, NEW c \in BucketId, Holds(c, x)
        PROVE  /\ x \in accepted' \ waiting'
               /\ \A e \in BucketId : Holds(e, x) => e = c
    BY <1>1, <2>1, <2>5 DEF OneBucket
  <2>6. OneBucket'
    BY <1>2, <2>4, <2>5 DEF OneBucket
  <2>7. ASSUME NEW c \in BucketId, CountedRight(buckets, c) PROVE CountedRight(buckets, c)'
    <3>1. HeldBy(c)' = HeldBy(c)
      BY <2>4
    <3> QED
      BY <1>2, <1>5, <1>6, <1>7, <2>1, <2>7, <3>1 DEF CountedRight
  <2>8. Smooth' => CountsAgree'
    BY <1>1, <1>2, <1>3, <2>7 DEF CountsAgree
  <2> QED
    BY <1>3, <2>2, <2>3, <2>6, <2>8
<1>9. CASE b # None
  <2>0. b \in DOMAIN buckets
    BY <1>1, <1>2, <1>9, FoundInMemory
  <2>1. /\ minTimestamp' = minTimestamp /\ waiting' = waiting \ {m}
        /\ immediate' = Append(immediate, [bucket |-> b, message |-> m])
        /\ buckets' = [seen EXCEPT ![b] = [records |-> seen[b].records + 1, stored |-> FALSE,
                                           untried |-> waiting \ {m}]]
    BY <1>9 DEF Place
  <2> HIDE DEF b, seen
  <2>2. PICK c : c = b
    OBVIOUS
  <2>3. /\ DOMAIN buckets' = DOMAIN buckets /\ buckets' = [e \in DOMAIN buckets |-> buckets'[e]]
        /\ buckets'[c] \in R /\ buckets'[c].records = buckets[c].records + 1
        /\ buckets'[c].stored = FALSE
        /\ \A e \in DOMAIN buckets \ {c} : buckets'[e] = seen[e]
    <3>1. waiting \ {m} \subseteq Message
      BY <1>1 DEF WaitingInv
    <3>2. seen[c].records = buckets[c].records /\ buckets[c].records \in Nat
      BY <1>5, <2>0, <2>2
    <3>3. [records |-> seen[c].records + 1, stored |-> FALSE, untried |-> waiting \ {m}] \in R
      BY <3>1, <3>2
    <3> HIDE DEF R
    <3> QED
      BY <1>6, <2>0, <2>1, <2>2, <3>2, <3>3
  <2>4. TimesInv'
    BY <1>1, <1>2, <1>4, <2>1 DEF TimesInv
  <2>5. CountsTypeOK'
    <3> HIDE DEF R
    <3>1. \A e \in DOMAIN buckets' : buckets'[e] \in R
      BY <1>5, <2>3
    <3> QED
      BY <1>1, <1>2, <2>3, <3>1 DEF CountsTypeOK, IsBuckets, R
  <2>6. ASSUME NEW e, NEW x PROVE Holds(e, x)' <=> Holds(e, x) \/ (e = c /\ x = m)
    <3> DEFINE new == [bucket |-> c, message |-> m]
    <3>0. new.bucket = c /\ new.message = m
      OBVIOUS
    <3>1. immediate \in Seq([bucket : BucketId, message : Message]) /\ immediate' = Append(immediate, new)
      BY <1>1, <2>1, <2>2 DEF WaitingInv
    <3> HIDE DEF new
    <3>2. /\ Len(immediate) \in Nat /\ Len(immediate') = Len(immediate) + 1
          /\ immediate'[Len(immediate) + 1] = new
          /\ \A i \in 1 .. Len(immediate) : immediate'[i] = immediate[i]
      BY <3>1
    <3>3. \A i \in 1 .. Len(immediate') : i = Len(immediate) + 1 \/ i \in 1 .. Len(immediate)
      BY <3>2
    <3>4. Len(immediate) + 1 \in 1 .. Len(immediate') /\ 1 .. Len(immediate) \subseteq 1 .. Len(immediate')
      BY <3>2
    <3> QED
      BY <1>2, <3>0, <3>2, <3>3, <3>4 DEF Holds
  <2>7. ASSUME NEW e \in BucketId PROVE ~Holds(e, m)
    BY <1>1 DEF OneBucket
  <2>8. OneBucket'
    <3> SUFFICES ASSUME NEW x \in Message, NEW e \in BucketId, Holds(e, x)'
                 PROVE  /\ x \in accepted' \ waiting'
                        /\ \A d \in BucketId : Holds(d, x)' => d = e
      BY <1>2 DEF OneBucket
    <3>1. CASE x = m
      BY <2>1, <2>6, <2>7, <3>1
    <3>2. CASE x # m
      BY <1>1, <2>1, <2>6, <3>2 DEF OneBucket
    <3> QED
      BY <3>1, <3>2
  <2>9. ASSUME NEW e \in BucketId, CountedRight(buckets, e) PROVE CountedRight(buckets, e)'
    <3>1. CASE e = c
      <4>1. HeldBy(c)' = HeldBy(c) \cup {m} /\ m \notin HeldBy(c)
        BY <2>6, <2>7, <3>1 DEF HeldBy
      <4>2. Cardinality(HeldBy(c)') = Cardinality(HeldBy(c)) + 1
        BY <3>1, <4>1, FS_AddElement, HeldAreFinite
      <4> QED
        BY <1>2, <1>7, <2>0, <2>2, <2>3, <2>9, <3>1, <4>2 DEF CountedRight
    <3>2. CASE e # c
      <4>1. HeldBy(e)' = HeldBy(e)
        BY <2>6, <3>2 DEF HeldBy
      <4>2. e \in DOMAIN buckets => /\ buckets'[e].records = buckets[e].records
                                    /\ buckets'[e].stored = buckets[e].stored
        BY <1>5, <2>3, <3>2
      <4> QED
        BY <1>2, <1>7, <2>3, <2>9, <4>1, <4>2 DEF CountedRight
    <3> QED
      BY <3>1, <3>2
  <2>10. Smooth' => CountsAgree'
    BY <1>1, <1>2, <1>3, <2>9 DEF CountsAgree
  <2> QED
    BY <1>3, <2>4, <2>5, <2>8, <2>10
<1> QED
  BY <1>8, <1>9

\* A message that goes into a batch stays in its bucket.
LEMMA ImmediateHolds ==
  ASSUME StorageInv, Immediate
  PROVE  \A c, x : Holds(c, x)' <=> Holds(c, x)
<1> DEFINE first == immediate[1]
<1>1. /\ immediate \in Seq([bucket : BucketId, message : Message]) /\ immediate # <<>>
      /\ pendingBatches \subseteq PendingBatch(BucketId)
  BY DEF StorageInv, WaitingInv, BatchesInv, Immediate
<1>2. /\ Len(immediate) \in Nat \ {0} /\ Head(immediate) = first /\ 1 \in 1 .. Len(immediate)
      /\ immediate' = Tail(immediate) /\ Len(immediate') = Len(immediate) - 1
      /\ \A i \in 1 .. Len(immediate') : immediate'[i] = immediate[i + 1]
  BY <1>1, SequenceOf DEF Immediate
<1>3. /\ \A i \in 1 .. Len(immediate') : i + 1 \in 1 .. Len(immediate)
      /\ \A i \in 1 .. Len(immediate) : i = 1 \/ (i - 1 \in 1 .. Len(immediate') /\ immediate[i] = immediate'[i - 1])
  BY <1>2
<1>4. PICK b, m : b = first.bucket /\ m = first.message
  OBVIOUS
<1>5. BatchStore(b, m) /\ data' = data
  BY <1>2, <1>4 DEF Immediate, BatchStore
<1>6. /\ DOMAIN batches' = DOMAIN batches \cup {b} /\ \A c \in DOMAIN batches \ {b} : batches'[c] = batches[c]
      /\ batches'[b] = IF b \in DOMAIN batches /\ ~IsFull(b) THEN batches[b] \cup {m} ELSE {m}
      /\ pendingBatches' = pendingBatches \cup {Locked(c) : c \in {d \in {b} : IsFull(d)}}
      /\ Locked(b).bucket = b /\ Locked(b).messages = batches[b]
      /\ IsFull(b) => b \in DOMAIN batches
  BY <1>5 DEF BatchStore, WithMessage, Locked, IsFull
<1> HIDE DEF first
<1>7. ASSUME NEW c, NEW x, Holds(c, x) PROVE Holds(c, x)'
  <2>1. CASE <<c, x>> \in data
    BY <1>5, <2>1 DEF Holds
  <2>2. CASE c \in DOMAIN batches /\ x \in batches[c]
    <3>1. CASE c = b /\ IsFull(b)
      <4>1. Locked(b) \in pendingBatches'
        BY <1>6, <3>1
      <4> QED
        BY <1>6, <2>2, <3>1, <4>1 DEF Holds
    <3>2. CASE ~(c = b /\ IsFull(b))
      BY <1>6, <2>2, <3>2 DEF Holds
    <3> QED
      BY <3>1, <3>2
  <2>3. CASE \E p \in pendingBatches : p.bucket = c /\ x \in p.messages
    BY <1>6, <2>3 DEF Holds
  <2>4. ASSUME NEW i \in 1 .. Len(immediate), immediate[i].bucket = c, immediate[i].message = x
        PROVE  Holds(c, x)'
    <3>1. CASE i = 1
      <4>1. c = b /\ x = m
        BY <1>4, <2>4, <3>1 DEF first
      <4> QED
        BY <1>6, <4>1 DEF Holds
    <3>2. CASE i # 1
      BY <1>3, <2>4, <3>2 DEF Holds
    <3> QED
      BY <3>1, <3>2
  <2> QED
    BY <1>7, <2>1, <2>2, <2>3, <2>4 DEF Holds
<1>8. ASSUME NEW c, NEW x, Holds(c, x)' PROVE Holds(c, x)
  <2>1. CASE <<c, x>> \in data'
    BY <1>5, <2>1 DEF Holds
  <2>2. CASE c \in DOMAIN batches' /\ x \in batches'[c]
    <3>1. CASE c = b /\ x = m
      <4>1. immediate[1].bucket = c /\ immediate[1].message = x
        BY <1>4, <3>1 DEF first
      <4> QED
        BY <1>2, <4>1 DEF Holds
    <3>2. CASE ~(c = b /\ x = m)
      BY <1>6, <2>2, <3>2 DEF Holds
    <3> QED
      BY <3>1, <3>2
  <2>3. ASSUME NEW p \in pendingBatches', p.bucket = c, x \in p.messages
        PROVE  Holds(c, x)
    BY <1>6, <2>3 DEF Holds
  <2>4. ASSUME NEW i \in 1 .. Len(immediate'), immediate'[i].bucket = c, immediate'[i].message = x
        PROVE  Holds(c, x)
    BY <1>2, <1>3, <2>4 DEF Holds
  <2> QED
    BY <1>8, <2>1, <2>2, <2>3, <2>4 DEF Holds
<1> QED
  BY <1>7, <1>8

\* A batch takes messages to their bucket or drops them.
LEMMA BatchStepHolds ==
  ASSUME BatchesInv, BatchStep, UNCHANGED immediate
  PROVE  /\ \A c, x : Holds(c, x)' => Holds(c, x)
         /\ dropped' = {} => dropped = {} /\ \A c, x : Holds(c, x) => Holds(c, x)'
<1>1. ASSUME NEW b \in DOMAIN batches, CloseTimeout(b)
      PROVE  dropped' = dropped /\ \A c, x : Holds(c, x)' <=> Holds(c, x)
  <2>1. /\ pendingBatches' = pendingBatches \cup {Locked(b)} /\ data' = data /\ dropped' = dropped
        /\ DOMAIN batches' = DOMAIN batches \ {b} /\ \A c \in DOMAIN batches' : batches'[c] = batches[c]
        /\ Locked(b).bucket = b /\ Locked(b).messages = batches[b]
    BY <1>1 DEF CloseTimeout, Locked
  <2> HIDE DEF Locked
  <2>2. ASSUME NEW c, NEW x, Holds(c, x) PROVE Holds(c, x)'
    BY <2>1, <2>2 DEF Holds
  <2>3. ASSUME NEW c, NEW x, Holds(c, x)' PROVE Holds(c, x)
    BY <2>1, <2>3 DEF Holds
  <2> QED
    BY <2>1, <2>2, <2>3
<1>2. ASSUME NEW p \in pendingBatches
      PROVE  p \in PendingBatch(BucketId) /\ \A c, x : <<c, x>> \in Rows(p) <=> c = p.bucket /\ x \in p.messages
  BY DEF BatchesInv, Rows
<1>3. ASSUME NEW p \in pendingBatches, NEW q, q.bucket = p.bucket, q.messages = p.messages,
             data' \in {data, data \cup Rows(p)}, batches' = batches,
             pendingBatches' = (pendingBatches \ {p}) \cup {q}
      PROVE  \A c, x : Holds(c, x)' <=> Holds(c, x)
  <2>1. ASSUME NEW c, NEW x, Holds(c, x) PROVE Holds(c, x)'
    BY <1>3, <2>1 DEF Holds
  <2>2. ASSUME NEW c, NEW x, Holds(c, x)' PROVE Holds(c, x)
    BY <1>2, <1>3, <2>2 DEF Holds
  <2> QED
    BY <2>1, <2>2
<1>4. ASSUME NEW p \in pendingBatches, InsertTimer(p)
      PROVE  dropped' = dropped /\ \A c, x : Holds(c, x)' <=> Holds(c, x)
  <2> DEFINE q == [p EXCEPT !.at = "insert",
                            !.retries = IF @ < BatchMaxRetries THEN @ + 1 ELSE @]
  <2>1. q.bucket = p.bucket /\ q.messages = p.messages
    BY <1>2 DEF PendingBatch
  <2>2. pendingBatches' = (pendingBatches \ {p}) \cup {q} /\ UNCHANGED <<batches, data, dropped>>
    BY <1>4 DEF InsertTimer
  <2> HIDE DEF q
  <2> QED
    BY <1>3, <2>1, <2>2
<1>5. ASSUME NEW p \in pendingBatches, InsertSucceeds(p)
      PROVE  dropped' = dropped /\ \A c, x : Holds(c, x)' <=> Holds(c, x)
  <2>1. /\ data' = data \cup Rows(p) /\ pendingBatches' = pendingBatches \ {p}
        /\ UNCHANGED <<batches, dropped>>
    BY <1>5 DEF InsertSucceeds
  <2>2. ASSUME NEW c, NEW x, Holds(c, x) PROVE Holds(c, x)'
    BY <1>2, <2>1, <2>2 DEF Holds
  <2>3. ASSUME NEW c, NEW x, Holds(c, x)' PROVE Holds(c, x)
    BY <1>2, <2>1, <2>3 DEF Holds
  <2> QED
    BY <2>1, <2>2, <2>3
<1>6. ASSUME NEW p \in pendingBatches, NEW applied \in BOOLEAN, InsertFails(p, applied)
      PROVE  /\ \A c, x : Holds(c, x)' => Holds(c, x)
             /\ dropped' = {} => dropped = {} /\ \A c, x : Holds(c, x) => Holds(c, x)'
  <2>1. data' \in {data, data \cup Rows(p)} /\ batches' = batches
    BY <1>6 DEF InsertFails
  <2>2. CASE p.retries = BatchMaxRetries
    <3>1. dropped' = dropped \cup p.messages /\ pendingBatches' = pendingBatches \ {p}
      BY <1>6, <2>2 DEF InsertFails
    <3>2. ASSUME NEW c, NEW x, Holds(c, x)' PROVE Holds(c, x)
      BY <1>2, <2>1, <3>1, <3>2 DEF Holds
    <3>3. ASSUME dropped' = {}, NEW c, NEW x, Holds(c, x) PROVE Holds(c, x)'
      BY <2>1, <3>1, <3>3 DEF Holds
    <3> QED
      BY <3>1, <3>2, <3>3
  <2>3. CASE p.retries # BatchMaxRetries
    <3> DEFINE q == [p EXCEPT !.at = "timer"]
    <3>1. q.bucket = p.bucket /\ q.messages = p.messages
      BY <1>2 DEF PendingBatch
    <3>2. pendingBatches' = (pendingBatches \ {p}) \cup {q} /\ dropped' = dropped
      BY <1>6, <2>3 DEF InsertFails
    <3> HIDE DEF q
    <3> QED
      BY <1>3, <2>1, <3>1, <3>2
  <2> QED
    BY <2>2, <2>3
<1> QED
  BY <1>1, <1>4, <1>5, <1>6 DEF BatchStep

\* The rows of bucket are forgotten with the messages, and a process that starts again
\* has what was inserted.
LEMMA CrashHolds ==
  ASSUME StorageInv, Crash
  PROVE  \A c, x : Holds(c, x)' => Holds(c, x)
<1>1. batches' = [b \in {} |-> {}] /\ pendingBatches' = {} /\ immediate' = <<>>
  BY DEF Crash
<1>2. PICK inserts \in SUBSET pendingBatches : data' = data \cup UNION {Rows(p) : p \in inserts}
  BY DEF Crash
<1>3. \A p \in pendingBatches : \A c, x : <<c, x>> \in Rows(p) <=> c = p.bucket /\ x \in p.messages
  BY DEF Rows
<1> QED
  BY <1>1, <1>2, <1>3 DEF Holds

\* Steps that move messages within their buckets, lose them, or delete rows.
LEMMA MessagesCount ==
  ASSUME QueryInv, UNCHANGED <<dates, buckets, storing, waiting, accepted, minTimestamp, check>>,
         \A c, x : Holds(c, x)' => Holds(c, x),
         \A d \in DOMAIN table' : d \in DOMAIN table /\ table'[d] = table[d],
         Smooth' => Smooth /\ \A c, x : Holds(c, x) => Holds(c, x)'
  PROVE  TimesInv' /\ CountsTypeOK' /\ OneBucket' /\ (Smooth' => CountsAgree')
<1>1. /\ StorageInv /\ TimesInv /\ CountsTypeOK /\ OneBucket /\ (Smooth => CountsAgree)
      /\ BucketId' = BucketId
  BY DEF QueryInv, BucketId
<1>2. TimesInv' /\ CountsTypeOK'
  BY <1>1 DEF TimesInv, Times, CountsTypeOK, IsBuckets
<1>3. OneBucket'
  BY <1>1, LosingKeepsOneBucket
<1>4. ASSUME Smooth' PROVE CountsAgree'
  <2>1. \A b \in BucketId : HeldBy(b)' = HeldBy(b)
    BY <1>4 DEF HeldBy
  <2> QED
    BY <1>1, <1>4, <2>1, SameCounts
<1> QED
  BY <1>2, <1>3, <1>4

\* Nothing is in an empty database, and no message in memory.
LEMMA InitQueries == Init => QueryInv
<1> SUFFICES ASSUME Init PROVE QueryInv
  OBVIOUS
<1>1. StorageInv
  BY InitStorage
<1>2. dates = <<>> /\ BucketId = {} /\ DOMAIN table = {} /\ DOMAIN buckets = {} /\ DOMAIN storing = {}
  BY DEF Init, BucketId
<1>3. IsFiniteSet(accepted) /\ crashes \in Nat /\ forgotten = {}
  BY FS_EmptySet DEF Init
<1>4. CountsTypeOK
  BY <1>2 DEF Init, CountsTypeOK, IsBuckets
<1>5. TimesInv /\ OneBucket /\ CountsAgree
  BY <1>2 DEF Init, TimesInv, OneBucket, CountsAgree, Idle
<1> QED
  BY <1>1, <1>3, <1>4, <1>5 DEF QueryInv

\* Whatever happens, the records are counted right until something is lost.
THEOREM NextQueries == QueryInv /\ [Next]_vars => QueryInv'
<1> SUFFICES ASSUME QueryInv, [Next]_vars PROVE QueryInv'
  OBVIOUS
<1>1. StorageInv /\ StorageInv'
  BY NextStorage DEF QueryInv
<1>2. /\ IsFiniteSet(accepted) /\ crashes \in Nat /\ (crashes = 0 => forgotten = {})
      /\ RecordsInv /\ BatchesInv
  BY <1>1 DEF QueryInv, StorageInv
<1>3. ASSUME NEW m \in Message, Store(m) \/ RetryStore(m)
      PROVE  QueryInv'
  <2>1. /\ Place(m) /\ (m \in waiting \/ m \notin accepted) /\ accepted' = accepted \cup {m}
        /\ UNCHANGED <<batchVars, heap, check, storing, dates, table, forgotten, deleted, crashes>>
    <3>1. CASE Store(m)
      BY <3>1 DEF Store
    <3>2. CASE RetryStore(m)
      <4>1. m \in waiting /\ waiting \subseteq accepted
        BY <1>1, <3>2 DEF RetryStore, StorageInv, NothingLost
      <4> QED
        BY <3>2, <4>1 DEF RetryStore
    <3> QED
      BY <1>3, <3>1, <3>2
  <2>2. IsFiniteSet(accepted') /\ TimesInv' /\ CountsTypeOK' /\ OneBucket' /\ (Smooth' => CountsAgree')
    BY <2>1, PlaceCounts
  <2> QED
    BY <1>1, <1>2, <2>1, <2>2 DEF QueryInv
<1>4. CASE Immediate
  <2>1. /\ UNCHANGED <<dates, buckets, storing, waiting, accepted, minTimestamp, check, table,
                       dropped, deleted, crashes, forgotten>>
        /\ BucketId' = BucketId
    BY <1>4 DEF Immediate, BatchStore, BucketId
  <2>2. \A c, x : Holds(c, x)' <=> Holds(c, x)
    BY <1>1, <1>4, ImmediateHolds
  <2>3. Smooth' => Smooth
    BY <2>1 DEF Smooth, DistinctDates
  <2>4. TimesInv' /\ CountsTypeOK' /\ OneBucket' /\ (Smooth' => CountsAgree')
    BY <2>1, <2>2, <2>3, MessagesCount
  <2> QED
    BY <1>1, <1>2, <2>1, <2>4 DEF QueryInv
<1>5. CASE Batching
  <2>1. /\ UNCHANGED <<dates, buckets, storing, waiting, accepted, minTimestamp, check, table,
                       immediate, deleted, crashes, forgotten>>
        /\ BatchStep /\ BucketId' = BucketId
    BY <1>5 DEF Batching, memoryVars, BucketId
  <2>2. /\ \A c, x : Holds(c, x)' => Holds(c, x)
        /\ dropped' = {} => dropped = {} /\ \A c, x : Holds(c, x) => Holds(c, x)'
    BY <1>2, <2>1, BatchStepHolds
  <2>3. Smooth' => Smooth /\ \A c, x : Holds(c, x) => Holds(c, x)'
    BY <2>1, <2>2 DEF Smooth, DistinctDates
  <2>4. TimesInv' /\ CountsTypeOK' /\ OneBucket' /\ (Smooth' => CountsAgree')
    BY <2>1, <2>2, <2>3, MessagesCount
  <2> QED
    BY <1>1, <1>2, <2>1, <2>4 DEF QueryInv
<1>6. ASSUME TimesInv', CountsTypeOK', Smooth' => CountsAgree', DatesGrow,
             UNCHANGED <<batches, pendingBatches, data, immediate, waiting, accepted, crashes, forgotten>>
      PROVE  QueryInv'
  <2>1. \A c, x : Holds(c, x)' <=> Holds(c, x)
    BY <1>6, SameHolds
  <2>2. OneBucket'
    BY <1>1, <1>6, <2>1, LosingKeepsOneBucket DEF QueryInv, DatesGrow
  <2> QED
    BY <1>1, <1>2, <1>6, <2>2 DEF QueryInv
<1>7. CASE CheckStart \/ CheckLatest \/ CheckRange
  <2>1. UNCHANGED <<batches, pendingBatches, data, immediate, waiting, accepted, crashes, forgotten>>
    BY <1>7 DEF CheckStart, CheckLatest, CheckRange, checkUnchanged, batchVars
  <2>2. DatesGrow /\ TimesInv' /\ CountsTypeOK' /\ (Smooth' => CountsAgree')
    BY <1>2, <1>7, CheckKeeps, CheckCounts
  <2> QED
    BY <1>6, <2>1, <2>2
<1>8. CASE \/ StoreBuckets
           \/ \E b \in DOMAIN storing : UpdateBucket(b)
           \/ \E ok \in SUBSET {b \in DOMAIN storing : storing[b].applied} :
                \E dead : BucketsStored(ok, dead)
  <2>1. UNCHANGED <<batches, pendingBatches, data, immediate, waiting, accepted, crashes, forgotten>>
    BY <1>8 DEF StoreBuckets, UpdateBucket, BucketsStored, storeUnchanged, batchVars
  <2>2. DatesGrow
    BY <1>2, <1>8, StoreBucketsKeeps
  <2>3. TimesInv' /\ CountsTypeOK' /\ (Smooth' => CountsAgree')
    BY <1>8, StoreBucketsCounts
  <2> QED
    BY <1>6, <2>1, <2>2, <2>3
<1>9. CASE \/ FindExpired \/ \E r \in expiring : FilterExpired(r)
           \/ UNCHANGED vars
  <2>1. /\ UNCHANGED <<batches, pendingBatches, data, dropped, immediate, waiting, accepted, crashes,
                       forgotten, dates, buckets, storing, minTimestamp, check, table, deleted>>
        /\ BucketId' = BucketId
    BY <1>9 DEF FindExpired, FilterExpired, expireUnchanged, memoryVars, vars, batchVars, BucketId
  <2>2. \A c, x : Holds(c, x)' <=> Holds(c, x)
    BY <2>1, SameHolds
  <2>3. Smooth' => Smooth
    BY <2>1 DEF Smooth, DistinctDates
  <2>4. TimesInv' /\ CountsTypeOK' /\ OneBucket' /\ (Smooth' => CountsAgree')
    BY <2>1, <2>2, <2>3, MessagesCount
  <2> QED
    BY <1>1, <1>2, <2>1, <2>4 DEF QueryInv
<1>10. ASSUME NEW r \in expiring, DeleteExpired(r)
       PROVE  QueryInv'
  <2>1. /\ UNCHANGED <<batches, pendingBatches, dropped, immediate, waiting, accepted, crashes,
                       forgotten, dates, buckets, storing, minTimestamp, check>>
        /\ BucketId' = BucketId
        /\ \A d \in DOMAIN table' : d \in DOMAIN table /\ table'[d] = table[d]
        /\ data' \subseteq data /\ deleted' = deleted \cup {row[2] : row \in data \ data'}
    BY <1>10 DEF DeleteExpired, expireUnchanged, memoryVars, BucketId
  <2>2. \A c, x : Holds(c, x)' => Holds(c, x)
    BY <2>1 DEF Holds
  <2>3. ASSUME Smooth' PROVE Smooth /\ \A c, x : Holds(c, x) => Holds(c, x)'
    <3>1. deleted = {} /\ data' = data
      <4>1. \A row \in data : row \notin data' => row[2] \in deleted'
        BY <2>1
      <4> QED
        BY <2>1, <2>3, <4>1 DEF Smooth
    <3> QED
      BY <2>1, <2>3, <3>1, SameHolds DEF Smooth, DistinctDates
  <2>4. TimesInv' /\ CountsTypeOK' /\ OneBucket' /\ (Smooth' => CountsAgree')
    BY <2>1, <2>2, <2>3, MessagesCount
  <2> QED
    BY <1>1, <1>2, <2>1, <2>4 DEF QueryInv
<1>11. CASE Crash
  <2>1. /\ buckets' = [b \in {} |-> {}] /\ storing' = [b \in {} |-> {}] /\ minTimestamp' = None
        /\ check' = Idle /\ waiting' = {} /\ crashes' = crashes + 1
        /\ UNCHANGED <<dates, table, accepted>> /\ BucketId' = BucketId
    BY <1>11 DEF Crash, BucketId
  <2>2. \A c, x : Holds(c, x)' => Holds(c, x)
    BY <1>1, <1>11, CrashHolds
  <2>3. OneBucket'
    BY <1>1, <2>1, <2>2, LosingKeepsOneBucket DEF QueryInv
  <2>4. TimesInv' /\ CountsTypeOK'
    BY <2>1 DEF QueryInv, TimesInv, Times, CountsTypeOK, IsBuckets, Idle
  <2>5. crashes' \in Nat /\ crashes' # 0 /\ ~Smooth'
    BY <1>2, <2>1 DEF Smooth
  <2> QED
    BY <1>1, <1>2, <2>1, <2>3, <2>4, <2>5 DEF QueryInv
<1> QED
  BY <1>3, <1>4, <1>5, <1>7, <1>8, <1>9, <1>10, <1>11 DEF Next

-----------------------------------------------------------------------------
(* The queries.                                                            *)

LEMMA LeastIs ==
  ASSUME NEW S \in SUBSET Nat, NEW x \in S, \A k \in S : x <= k
  PROVE  Least(S) = x
<1>1. Least(S) \in S /\ \A k \in S : Least(S) <= k
  BY LeastOf
<1>2. Least(S) \in Nat /\ x \in Nat /\ x <= Least(S) /\ Least(S) <= x
  BY <1>1
<1> QED
  BY <1>2

LEMMA GreatestIs ==
  ASSUME NEW S \in SUBSET Nat, NEW x \in S, \A k \in S : k <= x
  PROVE  Greatest(S) = x
<1>1. Greatest(S) \in S /\ \A k \in S : k <= Greatest(S)
  BY GreatestOf
<1>2. Greatest(S) \in Nat /\ x \in Nat /\ Greatest(S) <= x /\ x <= Greatest(S)
  BY <1>1
<1> QED
  BY <1>2

\* References are compared as pairs of numbers.
LEMMA BeforeIsOrder ==
  ASSUME NEW k \in Message, NEW m \in Message, NEW n \in Message
  PROVE  /\ Timestamp[m] \in Nat /\ SequenceNumber[m] \in Nat
         /\ ~Before(Ref(m), Ref(m))
         /\ Before(Ref(k), Ref(m)) /\ Before(Ref(m), Ref(n)) => Before(Ref(k), Ref(n))
         /\ Before(Ref(k), Ref(m)) => Timestamp[k] <= Timestamp[m]
         /\ Timestamp[k] < Timestamp[m] => ~Before(Ref(m), Ref(k))
<1>1. \A x \in Message : Timestamp[x] \in Nat /\ SequenceNumber[x] \in Nat
  BY StorageAssumption, QueryAssumption
<1> QED
  BY <1>1 DEF Before, Ref

\* One of finitely many messages is not before any.
LEMMA LatestOf ==
  ASSUME NEW S \in SUBSET Message, IsFiniteSet(S), S # {}
  PROVE  \E m \in S : \A k \in S : ~Before(Ref(m), Ref(k))
<1> DEFINE Latest(m, T) == \A k \in T : ~Before(Ref(m), Ref(k))
           Bad == {n \in Nat : \E T \in SUBSET S : /\ T # {} /\ Cardinality(T) = n
                                                   /\ \A m \in T : ~Latest(m, T)}
<1>1. \A T \in SUBSET S : IsFiniteSet(T) /\ Cardinality(T) \in Nat
  BY FS_Subset, FS_CardinalityType
<1>2. Bad = {}
  <2> SUFFICES ASSUME Bad # {} PROVE FALSE
    OBVIOUS
  <2>1. PICK n \in Bad : \A k \in Bad : n <= k
    <3>1. Bad \in SUBSET Nat
      OBVIOUS
    <3> HIDE DEF Bad
    <3> QED
      BY <3>1, LeastOf
  <2>2. PICK T \in SUBSET S : T # {} /\ Cardinality(T) = n /\ \A m \in T : ~Latest(m, T)
    BY <2>1
  <2>3. PICK x \in T : TRUE
    BY <2>2
  <2>4. Cardinality(T \ {x}) = n - 1 /\ T \ {x} \in SUBSET S
    BY <1>1, <2>2, <2>3, FS_RemoveElement
  <2>5. Cardinality(T \ {x}) \in Nat /\ Cardinality(T \ {x}) < n
    BY <1>1, <2>4
  <2>6. T \ {x} = {} \/ \E y \in T \ {x} : Latest(y, T \ {x})
    <3> SUFFICES ASSUME T \ {x} # {}, \A y \in T \ {x} : ~Latest(y, T \ {x}) PROVE FALSE
      OBVIOUS
    <3> HIDE DEF Latest
    <3>1. Cardinality(T \ {x}) \in Bad
      BY <2>4, <2>5
    <3> QED
      BY <2>1, <2>5, <3>1
  <2>7. CASE T \ {x} = {}
    <3>1. Latest(x, T)
      BY <2>3, <2>7, BeforeIsOrder
    <3> QED
      BY <2>2, <2>3, <3>1
  <2>8. ASSUME NEW y \in T \ {x}, Latest(y, T \ {x}) PROVE FALSE
    <3>1. CASE Before(Ref(y), Ref(x))
      <4>1. ASSUME NEW k \in T, Before(Ref(x), Ref(k)) PROVE FALSE
        <5>1. k # x /\ Before(Ref(y), Ref(k))
          BY <2>3, <3>1, <4>1, BeforeIsOrder
        <5> QED
          BY <2>8, <5>1
      <4> QED
        BY <2>2, <2>3, <4>1
    <3>2. CASE ~Before(Ref(y), Ref(x))
      BY <2>2, <2>8, <3>2
    <3> QED
      BY <3>1, <3>2
  <2> QED
    BY <2>6, <2>7, <2>8
<1> QED
  <2> SUFFICES ASSUME \A m \in S : ~Latest(m, S) PROVE FALSE
    OBVIOUS
  <2>1. Cardinality(S) \in Bad
    BY <1>1
  <2> QED
    BY <1>2, <2>1

\* The newest are as many as there are, up to the limit.
LEMMA NewestAre ==
  ASSUME NEW S \in SUBSET Message, IsFiniteSet(S), NEW n \in Nat
  PROVE  /\ NewestOf(S, n) \in SUBSET S
         /\ Cardinality(NewestOf(S, n)) = IF n < Cardinality(S) THEN n ELSE Cardinality(S)
         /\ \A m \in NewestOf(S, n), k \in S \ NewestOf(S, n) : ~Before(Ref(m), Ref(k))
<1> DEFINE Top(T, i) == Cardinality(T) = i /\ \A m \in T, k \in S \ T : ~Before(Ref(m), Ref(k))
           Bad == {i \in 0 .. Cardinality(S) : ~\E T \in SUBSET S : Top(T, i)}
<1>1. \A T \in SUBSET S : IsFiniteSet(T) /\ Cardinality(T) \in Nat
  BY FS_Subset, FS_CardinalityType
<1>2. Cardinality(S) \in Nat
  BY <1>1
<1>3. Bad = {}
  <2> SUFFICES ASSUME Bad # {} PROVE FALSE
    OBVIOUS
  <2>1. PICK i \in Bad : \A k \in Bad : i <= k
    <3>1. Bad \in SUBSET Nat
      BY <1>2
    <3> HIDE DEF Bad
    <3> QED
      BY <3>1, LeastOf
  <2>2. i \in 0 .. Cardinality(S) /\ i \in Nat
    OBVIOUS
  <2>3. CASE i = 0
    <3>1. Top({}, 0)
      BY FS_EmptySet
    <3> QED
      BY <2>1, <2>3, <3>1
  <2>4. CASE i # 0
    <3>1. i - 1 \in 0 .. Cardinality(S) /\ i - 1 \notin Bad
      <4> HIDE DEF Bad
      <4> QED
        BY <1>2, <2>1, <2>2, <2>4
    <3>2. PICK T \in SUBSET S : Top(T, i - 1)
      BY <3>1
    <3>3. S \ T # {}
      <4>1. Cardinality(T) # Cardinality(S)
        BY <1>2, <2>2, <3>2
      <4> QED
        BY <4>1
    <3>4. IsFiniteSet(S \ T) /\ S \ T \in SUBSET Message
      BY <1>1
    <3>5. PICK x \in S \ T : \A k \in S \ T : ~Before(Ref(x), Ref(k))
      BY <3>3, <3>4, LatestOf
    <3>6. Cardinality(T \cup {x}) = i /\ T \cup {x} \in SUBSET S
      BY <1>1, <2>2, <3>2, FS_AddElement
    <3>7. Top(T \cup {x}, i)
      BY <3>2, <3>5, <3>6
    <3> HIDE DEF Top
    <3> QED
      BY <2>1, <3>6, <3>7
  <2> QED
    BY <2>3, <2>4
<1> DEFINE size == IF n < Cardinality(S) THEN n ELSE Cardinality(S)
<1>4. size \in 0 .. Cardinality(S)
  BY <1>2
<1> HIDE DEF size
<1>5. \E T \in SUBSET S : Top(T, size)
  BY <1>3, <1>4
<1> QED
  BY <1>5 DEF NewestOf, size

\* The messages of the bucket whose row is at the date, and of those at the dates ds.
At(d) == MessagesIn(table[d].id)
Under(ds) == UNION {At(d) : d \in ds}

\* Once everything is written, a message is in the bucket of one row, which is not
\* younger, and rows are right.
LEMMA WrittenParts ==
  ASSUME QueryInv, DistinctDates, Written
  PROVE  /\ DOMAIN table \subseteq Nat \cap Times /\ IsFiniteSet(DOMAIN table)
         /\ \A d \in DOMAIN table : At(d) \subseteq accepted /\ table[d].records = Cardinality(At(d))
         /\ \A d \in DOMAIN table : \A m \in At(d) : d <= Timestamp[m]
         /\ \A d, e \in DOMAIN table : d # e => At(d) \cap At(e) = {}
         /\ \A m \in accepted : \E d \in DOMAIN table : m \in At(d)
<1>1. /\ StorageInv /\ RecordsInv /\ TableInv /\ DataInv /\ NothingLost /\ DatesInv
      /\ TimesInv /\ OneBucket /\ CountsAgree
  BY DEF QueryInv, StorageInv, RecordsInv, Written, Smooth
<1>2. /\ waiting = {} /\ InImmediate = {} /\ Batched = {} /\ forgotten = {} /\ deleted = {}
      /\ accepted = acked
  BY <1>1 DEF Written, QueryInv, NothingLost
<1>3. \A b, m : m \in MessagesIn(b) <=> <<b, m>> \in data
  <2>1. \A row \in data : row = <<row[1], row[2]>>
    BY <1>1 DEF DataInv
  <2> QED
    BY <2>1 DEF MessagesIn
<1>4. ASSUME NEW b, NEW m PROVE Holds(b, m) <=> m \in MessagesIn(b)
  <2>1. ~\E i \in 1 .. Len(immediate) : immediate[i].message = m
    BY <1>2 DEF InImmediate
  <2> QED
    BY <1>2, <1>3, <2>1, BatchedAre DEF Holds
<1>5. ASSUME NEW d \in DOMAIN table
      PROVE  /\ table[d].id \in BucketId /\ dates[table[d].id] = d /\ d \in Times /\ d \in Nat
             /\ At(d) = HeldBy(table[d].id) /\ At(d) \subseteq accepted
             /\ \A m \in At(d) : d <= Timestamp[m]
  <2>1. table[d].id \in BucketId /\ dates[table[d].id] = d /\ d \in Nat
    BY <1>1 DEF TableInv
  <2>2. d \in Times
    BY <1>1, <2>1 DEF TimesInv
  <2>3. At(d) = HeldBy(table[d].id)
    BY <1>1, <1>4, HeldAreMessages DEF At, HeldBy
  <2>4. ASSUME NEW m \in At(d) PROVE d <= Timestamp[m]
    <3>1. <<table[d].id, m>> \in data
      BY <1>3 DEF At
    <3> QED
      BY <1>1, <2>1, <3>1 DEF DataInv
  <2>5. At(d) \subseteq accepted
    BY <1>1, <2>1, <2>3 DEF OneBucket, HeldBy
  <2> QED
    BY <2>1, <2>2, <2>3, <2>4, <2>5
<1>6. ASSUME NEW d \in DOMAIN table PROVE table[d].records = Cardinality(At(d))
  <2> DEFINE b == table[d].id
  <2>1. CountedRight(buckets, b) /\ RowSays(b, table[d].records)
    BY <1>1, <1>5 DEF CountsAgree, RowSays
  <2>2. b \in DOMAIN buckets => buckets[b].stored
    BY DEF Written
  <2> QED
    BY <1>5, <2>1, <2>2 DEF CountedRight, RowSays
<1>7. ASSUME NEW d \in DOMAIN table, NEW e \in DOMAIN table, d # e PROVE At(d) \cap At(e) = {}
  <2> SUFFICES ASSUME NEW m \in At(d), m \in At(e) PROVE FALSE
    OBVIOUS
  <2>1. /\ m \in Message /\ Holds(table[d].id, m) /\ Holds(table[e].id, m)
    BY <1>5 DEF HeldBy
  <2>2. table[d].id = table[e].id
    BY <1>1, <1>5, <2>1 DEF OneBucket
  <2> QED
    BY <1>5, <1>7, <2>2
<1>8. ASSUME NEW m \in accepted PROVE \E d \in DOMAIN table : m \in At(d)
  <2>1. PICK row \in data : row[2] = m
    BY <1>1, <1>2 DEF NothingLost
  <2>2. row[1] \in BucketId /\ m \in MessagesIn(row[1]) /\ dates[row[1]] \in DOMAIN table
    BY <1>1, <2>1 DEF DataInv, MessagesIn, Written
  <2>3. table[dates[row[1]]].id = row[1]
    BY <1>5, <2>2 DEF DistinctDates
  <2> QED
    BY <2>2, <2>3 DEF At
<1>9. IsFiniteSet(DOMAIN table)
  <2>1. PICK n \in Nat : \A b \in BucketId : dates[b] <= n
    BY <1>1 DEF DatesInv
  <2>2. \A d \in DOMAIN table : d <= n
    BY <1>5, <2>1
  <2> QED
    BY <1>5, <2>2, FS_BoundedSetOfNaturals
<1> QED
  BY <1>5, <1>6, <1>7, <1>8, <1>9

\* The first bucket was created for the first message and has it.
LEMMA FirstIsRight ==
  ASSUME QueryInv, DistinctDates, Written, accepted # {}
  PROVE  FirstTimestamp = Least(Times)
<1>1. /\ DOMAIN table \subseteq Nat \cap Times
      /\ \A d \in DOMAIN table : At(d) \subseteq accepted
      /\ \A d \in DOMAIN table : \A m \in At(d) : d <= Timestamp[m]
      /\ \A m \in accepted : \E d \in DOMAIN table : m \in At(d)
  BY WrittenParts
<1>2. Times \subseteq Nat
  BY StorageAssumption DEF Times, QueryInv, StorageInv, WaitingInv
<1> DEFINE first == Least(DOMAIN table)
           here == TimestampsIn(table[first].id)
<1>3. first \in DOMAIN table /\ \A d \in DOMAIN table : first <= d
  <2>1. DOMAIN table \in SUBSET Nat /\ DOMAIN table # {}
    BY <1>1
  <2> QED
    BY <2>1, LeastOf
<1> HIDE DEF first
<1>4. here = {Timestamp[m] : m \in At(first)}
  BY DEF TimestampsIn, At
<1>5. first \in Times /\ first \in Nat
  BY <1>1, <1>3
<1>6. \A t \in Times : first <= t
  <2> SUFFICES ASSUME NEW m \in accepted PROVE first <= Timestamp[m]
    BY DEF Times
  <2>1. PICK d \in DOMAIN table : m \in At(d)
    BY <1>1
  <2>2. d \in Nat /\ Timestamp[m] \in Nat /\ first <= d /\ d <= Timestamp[m]
    BY <1>1, <1>2, <1>3, <2>1 DEF Times
  <2> QED
    BY <1>5, <2>2
<1>7. first \in here
  <2>1. PICK m \in accepted : first = Timestamp[m]
    BY <1>5 DEF Times
  <2>2. PICK d \in DOMAIN table : m \in At(d)
    BY <1>1
  <2>3. d <= first /\ first <= d /\ d \in Nat
    BY <1>1, <1>3, <2>1, <2>2
  <2>4. d = first
    BY <1>5, <2>3
  <2> QED
    BY <1>4, <2>1, <2>2, <2>4
<1>8. here \subseteq Times
  BY <1>1, <1>3, <1>4 DEF Times
<1>9. Least(Times) = first
  BY <1>2, <1>5, <1>6, LeastIs
<1> HIDE DEF here
<1>10. here \in SUBSET Nat /\ \A t \in here : first <= t
  BY <1>2, <1>6, <1>8
<1>11. Least(here) = first
  BY <1>7, <1>10, LeastIs
<1>12. FirstTimestamp = Least(here)
  BY <1>3, <1>7 DEF FirstTimestamp, here, first
<1> QED
  BY <1>9, <1>11, <1>12

\* The messages under one date more.
LEMMA UnderMore ==
  ASSUME NEW ds, NEW d \in ds
  PROVE  Under(ds) = Under(ds \ {d}) \cup At(d)
BY DEF Under

\* The rows of the table add up to the messages.
LEMMA NumberIsRight ==
  ASSUME QueryInv, DistinctDates, Written
  PROVE  NumberOfMessages = Cardinality(accepted)
<1> DEFINE D == DOMAIN table
           count == [ds \in SUBSET D |-> Cardinality(Under(ds))]
           sum == CHOOSE f : f = [ds \in SUBSET D |->
                    IF ds = {} THEN 0 ELSE table[Least(ds)].records + f[ds \ {Least(ds)}]]
<1>1. /\ D \subseteq Nat \cap Times /\ IsFiniteSet(D) /\ IsFiniteSet(accepted)
      /\ \A d \in D : At(d) \subseteq accepted /\ table[d].records = Cardinality(At(d))
      /\ \A d, e \in D : d # e => At(d) \cap At(e) = {}
      /\ \A m \in accepted : \E d \in D : m \in At(d)
  BY WrittenParts DEF QueryInv
<1>2. ASSUME NEW ds \in SUBSET D, ds # {}
      PROVE  Least(ds) \in ds
  BY <1>1, <1>2, LeastOf
<1>3. ASSUME NEW ds \in SUBSET D
      PROVE  Under(ds) \subseteq accepted /\ IsFiniteSet(Under(ds)) /\ Cardinality(Under(ds)) \in Nat
  <2>1. Under(ds) \in SUBSET accepted
    BY <1>1 DEF Under
  <2> QED
    BY <1>1, <2>1, FS_Subset, FS_CardinalityType
<1>4. ASSUME NEW ds \in SUBSET D, ds # {}
      PROVE  count[ds] = table[Least(ds)].records + count[ds \ {Least(ds)}]
  <2> DEFINE d == Least(ds)
             rest == ds \ {d}
  <2>1. d \in ds /\ d \in D /\ rest \in SUBSET D
    BY <1>2, <1>4
  <2> HIDE DEF d
  <2>2. Under(ds) = Under(rest) \cup At(d)
    BY <2>1, UnderMore
  <2>3. Under(rest) \cap At(d) = {}
    BY <1>1, <2>1 DEF Under
  <2>4. IsFiniteSet(Under(rest)) /\ IsFiniteSet(At(d)) /\ Cardinality(At(d)) \in Nat
    <3>1. At(d) \in SUBSET accepted
      BY <1>1, <2>1
    <3> QED
      BY <1>1, <1>3, <2>1, <3>1, FS_Subset, FS_CardinalityType
  <2>5. Cardinality(Under(ds)) = Cardinality(Under(rest)) + Cardinality(At(d)) - Cardinality({})
    BY <2>2, <2>3, <2>4, FS_Union
  <2>6. Cardinality(Under(rest)) \in Nat /\ table[d].records = Cardinality(At(d))
    BY <1>1, <1>3, <2>1
  <2>7. Cardinality(Under(ds)) = table[d].records + Cardinality(Under(rest))
    BY <2>4, <2>5, <2>6, FS_EmptySet
  <2> QED
    BY <2>1, <2>7 DEF d
<1>5. count[{}] = 0
  <2>1. Under({}) = {}
    BY DEF Under
  <2> QED
    BY <2>1, FS_EmptySet
<1>6. count = [ds \in SUBSET D |->
                 IF ds = {} THEN 0 ELSE table[Least(ds)].records + count[ds \ {Least(ds)}]]
  <2> HIDE DEF D
  <2>1. count = [ds \in SUBSET D |-> count[ds]]
    OBVIOUS
  <2> HIDE DEF count
  <2>2. \A ds \in SUBSET D :
          count[ds] = IF ds = {} THEN 0 ELSE table[Least(ds)].records + count[ds \ {Least(ds)}]
    BY <1>4, <1>5
  <2> QED
    BY <2>1, <2>2, Zenon
<1>7. sum = [ds \in SUBSET D |->
               IF ds = {} THEN 0 ELSE table[Least(ds)].records + sum[ds \ {Least(ds)}]]
  <2> HIDE DEF count, D
  <2> QED
    BY <1>6, Zenon
<1>8. NumberOfMessages = sum[D]
  BY DEF NumberOfMessages
<1> HIDE DEF sum
<1> DEFINE Wrong == {n \in Nat : \E ds \in SUBSET D : Cardinality(ds) = n /\ sum[ds] # count[ds]}
<1>9. \A ds \in SUBSET D : IsFiniteSet(ds) /\ Cardinality(ds) \in Nat
  BY <1>1, FS_Subset, FS_CardinalityType
<1>10. Wrong = {}
  <2> HIDE DEF D, count
  <2> SUFFICES ASSUME Wrong # {} PROVE FALSE
    OBVIOUS
  <2>1. PICK n \in Wrong : \A k \in Wrong : n <= k
    <3>1. Wrong \in SUBSET Nat
      OBVIOUS
    <3> HIDE DEF Wrong
    <3> QED
      BY <3>1, LeastOf
  <2>2. PICK ds \in SUBSET D : Cardinality(ds) = n /\ sum[ds] # count[ds]
    BY <2>1
  <2>3. ds # {}
    BY <1>5, <1>7, <2>2
  <2>4. PICK rest \in SUBSET D : rest = ds \ {Least(ds)}
    BY <2>2
  <2>5. Cardinality(rest) = n - 1 /\ n \in Nat /\ Cardinality(rest) \in Nat
    BY <1>2, <1>9, <2>2, <2>3, <2>4, FS_RemoveElement
  <2>6. sum[rest] = count[rest]
    <3> SUFFICES ASSUME sum[rest] # count[rest] PROVE FALSE
      OBVIOUS
    <3>1. Cardinality(rest) \in Wrong
      BY <2>5
    <3> HIDE DEF Wrong
    <3> QED
      BY <2>1, <2>5, <3>1
  <2>7. sum[ds] = table[Least(ds)].records + sum[rest]
    BY <1>7, <2>3, <2>4
  <2>8. count[ds] = table[Least(ds)].records + count[rest]
    BY <1>4, <2>3, <2>4
  <2> QED
    BY <2>2, <2>6, <2>7, <2>8
<1>11. sum[D] = count[D]
  BY <1>9, <1>10
<1>12. Under(D) = accepted
  BY <1>1 DEF Under
<1> QED
  BY <1>8, <1>11, <1>12

RowsUnder(ds) == {row \in data : \E e \in ds : table[e].id = row[1]}
NewerThan(d) == {e \in DOMAIN table : e >= d} \ {d}

LEMMA LastDatesAre ==
  ASSUME NEW limit
  PROVE  LastDates(limit) = {d \in DOMAIN table : \/ Cardinality(RowsUnder(NewerThan(d))) < limit
                                                  \/ d = Greatest(DOMAIN table)}
BY DEF LastDates, RowsUnder, NewerThan

\* There are no more rows than messages.
LEMMA RowsAreMessages ==
  ASSUME QueryInv, DistinctDates, Written, NEW ds \in SUBSET DOMAIN table
  PROVE  /\ IsFiniteSet(RowsUnder(ds)) /\ Cardinality(RowsUnder(ds)) \in Nat
         /\ IsFiniteSet(Under(ds)) /\ Cardinality(Under(ds)) \in Nat /\ Under(ds) \subseteq accepted
         /\ Cardinality(RowsUnder(ds)) <= Cardinality(Under(ds))
<1> DEFINE f == [row \in RowsUnder(ds) |-> row[2]]
<1>1. OneBucket /\ DataInv /\ IsFiniteSet(accepted)
  BY DEF QueryInv, StorageInv
<1>2. /\ Under(ds) \in SUBSET accepted
  BY WrittenParts DEF Under
<1>3. IsFiniteSet(Under(ds)) /\ Cardinality(Under(ds)) \in Nat
  BY <1>1, <1>2, FS_Subset, FS_CardinalityType
<1>4. ASSUME NEW row \in RowsUnder(ds)
      PROVE  row[2] \in Under(ds)
  <2>1. PICK e \in ds : table[e].id = row[1]
    BY DEF RowsUnder
  <2>2. row[2] \in At(e)
    BY <2>1 DEF At, MessagesIn, RowsUnder
  <2> QED
    BY <2>2 DEF Under
<1>5. ASSUME NEW r \in RowsUnder(ds), NEW s \in RowsUnder(ds), r[2] = s[2]
      PROVE  r = s
  <2>1. /\ r = <<r[1], r[2]>> /\ s = <<s[1], s[2]>> /\ r \in data /\ s \in data
        /\ r[1] \in BucketId /\ s[1] \in BucketId /\ r[2] \in Message
    BY <1>1 DEF DataInv, RowsUnder
  <2>2. Holds(r[1], r[2]) /\ Holds(s[1], r[2])
    BY <1>5, <2>1 DEF Holds
  <2>3. r[1] = s[1]
    BY <1>1, <2>1, <2>2 DEF OneBucket
  <2> QED
    BY <1>5, <2>1, <2>3
<1>6. f \in Injection(RowsUnder(ds), Under(ds))
  BY <1>4, <1>5 DEF Injection, IsInjective
<1>7. IsFiniteSet(RowsUnder(ds)) /\ Cardinality(RowsUnder(ds)) <= Cardinality(Under(ds))
  BY <1>3, <1>6, FS_Injection
<1> QED
  BY <1>2, <1>3, <1>7, FS_CardinalityType

\* The buckets that are read are the newest, and have enough messages if there are.
LEMMA LastDatesSuffice ==
  ASSUME QueryInv, DistinctDates, Written, NEW limit \in Nat
  PROVE  /\ LastDates(limit) \subseteq DOMAIN table
         /\ \A d \in LastDates(limit), e \in DOMAIN table : e > d => e \in LastDates(limit)
         /\ Cardinality(Under(LastDates(limit))) >= limit \/ Under(LastDates(limit)) = accepted
<1> DEFINE D == DOMAIN table
           U == LastDates(limit)
<1>1. /\ D \subseteq Nat \cap Times /\ IsFiniteSet(D)
      /\ \A d \in D : At(d) \subseteq accepted
      /\ \A m \in accepted : \E d \in D : m \in At(d)
  BY WrittenParts
<1>2. \A d : d \in U <=> d \in D /\ (Cardinality(RowsUnder(NewerThan(d))) < limit \/ d = Greatest(D))
  BY LastDatesAre
<1>3. PICK n \in Nat : \A d \in D : d <= n
  <2>1. PICK n \in Nat : \A b \in BucketId : dates[b] <= n
    BY DEF QueryInv, StorageInv, RecordsInv, DatesInv
  <2>2. \A d \in D : table[d].id \in BucketId /\ dates[table[d].id] = d
    BY DEF QueryInv, StorageInv, RecordsInv, TableInv
  <2> QED
    BY <2>1, <2>2
<1>4. \A S \in SUBSET D : S # {} => Greatest(S) \in S /\ \A d \in S : d <= Greatest(S)
  BY <1>1, <1>3, GreatestOf
<1>5. \A d \in D : NewerThan(d) \in SUBSET D
  BY DEF NewerThan
<1> HIDE DEF U
<1>6. ASSUME NEW d \in U, NEW e \in D, e > d PROVE e \in U
  <2>1. d \in D /\ d \in Nat /\ e \in Nat
    BY <1>1, <1>2
  <2>2. d # Greatest(D)
    <3>1. e <= Greatest(D)
      BY <1>4
    <3> QED
      BY <1>6, <2>1, <3>1
  <2>3. Cardinality(RowsUnder(NewerThan(d))) < limit
    BY <1>2, <2>2
  <2>4. RowsUnder(NewerThan(e)) \in SUBSET RowsUnder(NewerThan(d))
    <3>1. \A x \in NewerThan(e) : x \in NewerThan(d)
      BY <1>1, <1>6, <2>1 DEF NewerThan
    <3> QED
      BY <3>1 DEF RowsUnder
  <2>5. /\ IsFiniteSet(RowsUnder(NewerThan(d))) /\ Cardinality(RowsUnder(NewerThan(d))) \in Nat
        /\ Cardinality(RowsUnder(NewerThan(e))) \in Nat
    BY <1>5, <2>1, RowsAreMessages
  <2>6. Cardinality(RowsUnder(NewerThan(e))) <= Cardinality(RowsUnder(NewerThan(d)))
    BY <2>4, <2>5, FS_Subset
  <2> QED
    BY <1>2, <2>3, <2>5, <2>6
<1>7. CASE U = D
  BY <1>1, <1>6, <1>7 DEF Under, U
<1>8. CASE U # D
  <2> DEFINE e == Greatest(D \ U)
  <2>1. e \in D \ U /\ \A d \in D \ U : d <= e
    <3>1. D \ U \in SUBSET D /\ D \ U # {}
      BY <1>2, <1>8
    <3> HIDE DEF D
    <3> QED
      BY <1>4, <3>1
  <2> HIDE DEF e
  <2>2. /\ Cardinality(RowsUnder(NewerThan(e))) \in Nat
        /\ Cardinality(RowsUnder(NewerThan(e))) <= Cardinality(Under(NewerThan(e)))
        /\ IsFiniteSet(Under(U)) /\ Cardinality(Under(U)) \in Nat
        /\ Cardinality(Under(NewerThan(e))) \in Nat
    <3>1. NewerThan(e) \in SUBSET D /\ U \in SUBSET D
      BY <1>2, <1>5, <2>1
    <3> QED
      BY <3>1, RowsAreMessages
  <2>3. Cardinality(RowsUnder(NewerThan(e))) >= limit
    BY <1>2, <2>1, <2>2
  <2>4. \A d \in NewerThan(e) : d \in U
    BY <1>1, <2>1 DEF NewerThan
  <2>5. Under(NewerThan(e)) \in SUBSET Under(U)
    BY <2>4 DEF Under
  <2>6. Cardinality(Under(NewerThan(e))) <= Cardinality(Under(U))
    BY <2>2, <2>5, FS_Subset
  <2>7. Cardinality(Under(U)) >= limit
    BY <2>2, <2>3, <2>6
  <2> QED
    BY <1>2, <1>6, <2>7 DEF U
<1> QED
  BY <1>7, <1>8

\* The last messages are as many as there are, and if messages came in order, none of
\* the others is newer.
LEMMA LastAreRight ==
  ASSUME QueryInv, DistinctDates, Written, NEW n \in Nat \ {0}
  PROVE  /\ Cardinality(RequestLast(n)) = Least({n, MaxResendLast, Cardinality(accepted)})
         /\ InOrder => \A m \in RequestLast(n), k \in accepted :
                         k \in RequestLast(n) \/ ~Before(Ref(m), Ref(k))
<1>1. MaxResendLast \in Nat \ {0} /\ IsFiniteSet(accepted) /\ accepted \subseteq Message
  BY QueryAssumption DEF QueryInv, StorageInv, WaitingInv
<1>2. PICK limit \in Nat : limit = IF n > MaxResendLast THEN MaxResendLast ELSE n
  BY <1>1
<1> DEFINE U == LastDates(limit)
           found == Under(U)
<1>3. RequestLast(n) = NewestOf(found, limit)
  BY <1>2 DEF RequestLast, Under, At
<1>4. /\ U \in SUBSET DOMAIN table
      /\ \A d \in U, e \in DOMAIN table : e > d => e \in U
      /\ Cardinality(found) >= limit \/ found = accepted
  BY LastDatesSuffice
<1> HIDE DEF U
<1>5. found \in SUBSET accepted /\ IsFiniteSet(found) /\ Cardinality(found) \in Nat
  BY <1>4, RowsAreMessages
<1>6. Cardinality(accepted) \in Nat /\ Cardinality(found) <= Cardinality(accepted)
  BY <1>1, <1>5, FS_Subset, FS_CardinalityType
<1> HIDE DEF found
<1>7. /\ RequestLast(n) \in SUBSET found
      /\ Cardinality(RequestLast(n)) = IF limit < Cardinality(found) THEN limit ELSE Cardinality(found)
      /\ \A m \in RequestLast(n), k \in found \ RequestLast(n) : ~Before(Ref(m), Ref(k))
  <2>1. found \in SUBSET Message
    BY <1>1, <1>5
  <2> QED
    BY <1>3, <1>5, <2>1, NewestAre
<1>8. Cardinality(RequestLast(n)) = Least({n, MaxResendLast, Cardinality(accepted)})
  <2> DEFINE S == {n, MaxResendLast, Cardinality(accepted)}
             x == Cardinality(RequestLast(n))
  <2>1. S \in SUBSET Nat
    BY <1>1, <1>6
  <2>2. x \in S /\ \A k \in S : x <= k
    BY <1>1, <1>2, <1>4, <1>5, <1>6, <1>7
  <2> HIDE DEF S, x
  <2>3. Least(S) = x
    BY <2>1, <2>2, LeastIs
  <2> QED
    BY <2>3 DEF S, x
<1>9. ASSUME InOrder, NEW m \in RequestLast(n), NEW k \in accepted, k \notin RequestLast(n)
      PROVE  ~Before(Ref(m), Ref(k))
  <2>1. CASE k \in found
    BY <1>7, <1>9, <2>1
  <2>2. CASE k \notin found
    <3>1. PICK d \in U : m \in At(d)
      BY <1>7 DEF found, Under
    <3>2. PICK e \in DOMAIN table : k \in At(e)
      BY WrittenParts
    <3>3. d \in DOMAIN table /\ d \in Nat /\ e \in Nat /\ d <= Timestamp[m] /\ m \in Message /\ k \in Message
      BY <1>1, <1>4, <1>5, <1>7, <3>1, <3>2, WrittenParts
    <3>4. e < d
      <4>1. e \notin U
        BY <2>2, <3>2 DEF found, Under
      <4>2. e # d /\ ~(e > d)
        BY <1>4, <3>1, <3>2, <4>1
      <4> QED
        BY <3>3, <4>2
    <3>5. Timestamp[k] < d
      <4>1. PICK row \in data : row[1] = table[e].id /\ row[2] = k
        BY <3>2 DEF At, MessagesIn
      <4>2. /\ table[e].id \in BucketId /\ dates[table[e].id] = e
            /\ table[d].id \in BucketId /\ dates[table[d].id] = d
        BY <3>2, <3>3 DEF QueryInv, StorageInv, RecordsInv, TableInv
      <4> QED
        BY <1>9, <3>3, <3>4, <4>1, <4>2 DEF InOrder
    <3>6. Timestamp[k] < Timestamp[m]
      BY <3>3, <3>5, BeforeIsOrder
    <3> QED
      BY <3>3, <3>6, BeforeIsOrder
  <2> QED
    BY <2>1, <2>2
<1> QED
  BY <1>8, <1>9

\* If messages came in order, the last bucket has the last message.
LEMMA LastIsRight ==
  ASSUME QueryInv, DistinctDates, Written, InOrder, accepted # {}
  PROVE  LastTimestamp = Greatest(Times)
<1> DEFINE D == DOMAIN table
           last == Greatest(D)
           here == TimestampsIn(table[last].id)
<1>1. /\ D \subseteq Nat \cap Times /\ IsFiniteSet(D)
      /\ \A d \in D : At(d) \subseteq accepted
      /\ \A d \in D : \A m \in At(d) : d <= Timestamp[m]
      /\ \A m \in accepted : \E d \in D : m \in At(d)
  BY WrittenParts
<1>2. /\ accepted \subseteq Message /\ Times \subseteq Nat
      /\ \A d \in D : table[d].id \in BucketId /\ dates[table[d].id] = d
  BY StorageAssumption DEF Times, QueryInv, StorageInv, WaitingInv, RecordsInv, TableInv
<1>3. last \in D /\ \A d \in D : d <= last
  <2>1. PICK n \in Nat : \A b \in BucketId : dates[b] <= n
    BY DEF QueryInv, StorageInv, RecordsInv, DatesInv
  <2>2. D \in SUBSET Nat /\ D # {} /\ \A d \in D : d <= n
    BY <1>1, <1>2, <2>1
  <2> HIDE DEF D
  <2> QED
    BY <2>2, GreatestOf
<1> HIDE DEF last
<1>4. here = {Timestamp[m] : m \in At(last)}
  BY DEF TimestampsIn, At
<1>5. ASSUME NEW m \in accepted, m \notin At(last) PROVE Timestamp[m] < last
  <2>1. PICK d \in D : m \in At(d)
    BY <1>1
  <2>2. d < last
    BY <1>1, <1>3, <1>5, <2>1
  <2>3. PICK row \in data : row[1] = table[d].id /\ row[2] = m
    BY <2>1 DEF At, MessagesIn
  <2> QED
    BY <1>2, <1>3, <2>2, <2>3 DEF InOrder
<1>6. PICK first \in accepted : Timestamp[first] = last
  BY <1>1, <1>3 DEF Times
<1>7. first \in At(last)
  <2>1. last \in Nat
    BY <1>1, <1>3
  <2> QED
    BY <1>5, <1>6, <2>1
<1>8. IsFiniteSet(At(last)) /\ At(last) \in SUBSET Message
  BY <1>1, <1>2, <1>3, FS_Subset DEF QueryInv
<1>9. PICK m \in At(last) : \A k \in At(last) : ~Before(Ref(m), Ref(k))
  BY <1>7, <1>8, LatestOf
<1>10. m \in accepted /\ Timestamp[m] \in Times /\ Timestamp[m] \in here /\ Timestamp[m] \in Nat /\ last <= Timestamp[m]
  BY <1>1, <1>2, <1>3, <1>4 DEF Times
<1>11. \A k \in At(last) : Timestamp[k] <= Timestamp[m]
  <2> SUFFICES ASSUME NEW k \in At(last) PROVE Timestamp[k] <= Timestamp[m]
    OBVIOUS
  <2>1. k \in Message /\ m \in Message /\ Timestamp[k] \in Nat
    BY <1>8, BeforeIsOrder
  <2>2. ~(Timestamp[m] < Timestamp[k])
    BY <1>9, <2>1, BeforeIsOrder DEF Before, Ref
  <2> QED
    BY <1>10, <2>1, <2>2
<1>12. \A t \in Times : t <= Timestamp[m]
  <2> SUFFICES ASSUME NEW k \in accepted PROVE Timestamp[k] <= Timestamp[m]
    BY DEF Times
  <2>1. CASE k \in At(last)
    BY <1>11, <2>1
  <2>2. CASE k \notin At(last)
    <3>1. Timestamp[k] < last /\ Timestamp[k] \in Nat /\ last \in Nat
      BY <1>1, <1>2, <1>3, <1>5, <2>2 DEF Times
    <3> QED
      BY <1>10, <3>1
  <2> QED
    BY <2>1, <2>2
<1>13. Greatest(Times) = Timestamp[m]
  BY <1>2, <1>10, <1>12, GreatestIs
<1>14. here \in SUBSET Times
  BY <1>1, <1>3, <1>4 DEF Times
<1> HIDE DEF here
<1>15. Greatest(here) = Timestamp[m]
  <2>1. here \in SUBSET Nat /\ \A t \in here : t <= Timestamp[m]
    BY <1>2, <1>12, <1>14
  <2> QED
    BY <1>10, <2>1, GreatestIs
<1>16. LastTimestamp = Greatest(here)
  BY <1>3, <1>10 DEF LastTimestamp, here, last
<1> QED
  BY <1>13, <1>15, <1>16

\* If messages came in order, the buckets of a range have its messages.
LEMMA RangeIsRight ==
  ASSUME QueryInv, DistinctDates, Written, InOrder,
         NEW m \in accepted, NEW to \in Nat \X Nat, Timestamp[m] < to[1]
  PROVE  FetchRange(Ref(m), to) = {k \in accepted : ~Before(Ref(k), Ref(m)) /\ ~Before(to, Ref(k))}
<1> DEFINE D == DOMAIN table
<1>1. /\ D \subseteq Nat
      /\ \A d \in D : At(d) \subseteq accepted
      /\ \A d \in D : \A k \in At(d) : d <= Timestamp[k]
      /\ \A k \in accepted : \E d \in D : k \in At(d)
  BY WrittenParts
<1>2. /\ accepted \subseteq Message /\ RecordsInv
      /\ \A d \in D : table[d].id \in BucketId /\ dates[table[d].id] = d
      /\ \A k \in accepted : Timestamp[k] \in Nat /\ SequenceNumber[k] \in Nat
  BY StorageAssumption, QueryAssumption DEF QueryInv, StorageInv, WaitingInv, RecordsInv, TableInv
<1> DEFINE inRange == {k \in accepted : ~Before(Ref(k), Ref(m)) /\ ~Before(to, Ref(k))}
           ids == BucketsByTimestamp(Timestamp[m], to[1])
           older == {d \in D : d <= Timestamp[m]}
           InBetween(k) == \/ Timestamp[k] = Timestamp[m] /\ SequenceNumber[k] >= SequenceNumber[m]
                           \/ Timestamp[k] > Timestamp[m] /\ Timestamp[k] < to[1]
                           \/ Timestamp[k] = to[1] /\ SequenceNumber[k] <= to[2]
<1>3. \A k : k \in FetchRange(Ref(m), to) <=> (\E id \in ids : k \in MessagesIn(id)) /\ InBetween(k)
  BY DEF FetchRange, Ref
<1>4. \A id : id \in ids <=> \/ older # {} /\ id = LastRow(older).id
                             \/ \E d \in D : d > Timestamp[m] /\ d <= to[1] /\ id = table[d].id
  BY DEF BucketsByTimestamp
<1>5. \A k \in accepted : k \in inRange <=> InBetween(k)
  BY <1>2 DEF Before, Ref
<1>6. older \in SUBSET D
  OBVIOUS
<1> HIDE DEF ids, InBetween
<1>7. ASSUME NEW k \in FetchRange(Ref(m), to) PROVE k \in inRange
  <2>1. PICK id \in ids : k \in MessagesIn(id)
    BY <1>3, <1>7
  <2>2. \E d \in D : id = table[d].id
    <3>1. CASE older # {} /\ id = LastRow(older).id
      BY <1>2, <1>6, <3>1, LastRowIs
    <3> QED
      BY <1>4, <3>1
  <2>3. k \in accepted
    BY <1>1, <2>1, <2>2 DEF At
  <2> QED
    BY <1>3, <1>5, <1>7, <2>3
<1>8. ASSUME NEW k \in inRange PROVE k \in FetchRange(Ref(m), to)
  <2>1. k \in accepted /\ InBetween(k)
    BY <1>5, <1>8
  <2>2. Timestamp[m] <= Timestamp[k] /\ Timestamp[k] <= to[1]
    BY <1>2, <2>1 DEF InBetween
  <2>3. PICK d \in D : k \in At(d)
    BY <1>1, <2>1
  <2>4. d \in Nat /\ d <= Timestamp[k]
    BY <1>1, <2>3
  <2>5. table[d].id \in ids
    <3>1. CASE d > Timestamp[m]
      <4>1. d <= to[1]
        BY <1>2, <2>1, <2>2, <2>4
      <4> QED
        BY <1>4, <3>1, <4>1
    <3>2. CASE ~(d > Timestamp[m])
      <4>1. d \in older
        BY <1>2, <2>4, <3>2
      <4>2. PICK e \in older : LastRow(older) = table[e] /\ \A x \in older : x <= e
        BY <1>2, <1>6, <4>1, LastRowIs
      <4>3. e \in D /\ e \in Nat /\ e <= Timestamp[m] /\ d <= e
        BY <1>1, <4>1, <4>2
      <4>4. ~(e > d)
        <5> SUFFICES ASSUME e > d PROVE FALSE
          OBVIOUS
        <5>1. PICK row \in data : row[1] = table[d].id /\ row[2] = k
          BY <2>3 DEF At, MessagesIn
        <5>2. Timestamp[k] < e
          BY <1>2, <4>3, <5>1 DEF InOrder
        <5> QED
          BY <1>2, <2>1, <2>2, <4>3, <5>2
      <4>5. e = d
        BY <2>4, <4>3, <4>4
      <4> HIDE DEF older
      <4> QED
        BY <1>4, <4>1, <4>2, <4>5
    <3> QED
      BY <3>1, <3>2
  <2> QED
    BY <1>3, <2>1, <2>3, <2>5 DEF At
<1> QED
  BY <1>7, <1>8

\* If messages came in order, the ranges of messages are found, ...
LEMMA RangesAreRight ==
  ASSUME QueryInv, DistinctDates, Written, InOrder
  PROVE  RangesAreFound
<1> SUFFICES ASSUME NEW m \in accepted, NEW n \in accepted, Timestamp[m] < Timestamp[n]
             PROVE  FetchRange(Ref(m), Ref(n)) = InRange(m, n)
  BY DEF RangesAreFound
<1>1. n \in Message
  BY DEF QueryInv, StorageInv, WaitingInv
<1>2. Ref(n) \in Nat \X Nat /\ Ref(n)[1] = Timestamp[n]
  BY <1>1, StorageAssumption, QueryAssumption DEF Ref
<1> QED
  BY <1>2, RangeIsRight DEF InRange

\* ... and what a resend from one of them on is asked for.
LEMMA FromsAreRight ==
  ASSUME QueryInv, DistinctDates, Written, InOrder
  PROVE  FromsAreFound
<1> DEFINE later == <<1 + Greatest({Timestamp[m] : m \in accepted}), 0>>
<1> SUFFICES ASSUME NEW m \in accepted
             PROVE  FetchRange(Ref(m), later) = {k \in accepted : ~Before(Ref(k), Ref(m))}
  BY DEF FromsAreFound, RequestFrom
<1>1. accepted \subseteq Message /\ IsFiniteSet(accepted)
  BY DEF QueryInv, StorageInv, WaitingInv
<1>2. \A k \in accepted : Timestamp[k] \in Nat
  BY <1>1, StorageAssumption
<1>3. PICK n \in accepted : \A k \in accepted : ~Before(Ref(n), Ref(k))
  BY <1>1, LatestOf
<1>4. \A k \in accepted : Timestamp[k] <= Timestamp[n]
  BY <1>2, <1>3 DEF Before, Ref
<1>5. Greatest({Timestamp[k] : k \in accepted}) = Timestamp[n]
  <2> DEFINE times == {Timestamp[k] : k \in accepted}
  <2>1. times \in SUBSET Nat /\ Timestamp[n] \in times /\ \A t \in times : t <= Timestamp[n]
    BY <1>2, <1>4
  <2> HIDE DEF times
  <2>2. Greatest(times) = Timestamp[n]
    BY <2>1, GreatestIs
  <2> QED
    BY <2>2 DEF times
<1>6. later \in Nat \X Nat /\ later[1] = 1 + Timestamp[n]
  BY <1>2, <1>5
<1> HIDE DEF later
<1>7. Timestamp[m] < later[1]
  BY <1>2, <1>4, <1>6
<1>8. \A k \in accepted : ~Before(later, Ref(k))
  BY <1>2, <1>4, <1>6 DEF Before, Ref
<1> QED
  BY <1>6, <1>7, <1>8, RangeIsRight

\* Once everything is written, the queries find it (Storage.ts): whatever the order in
\* which messages came and buckets were created, loaded, written and removed from memory,
\* the first timestamp, the number of messages and the size of the last ones are right,
\* and the last ones, the ranges and the resends from a message on too if messages came
\* in order.  Buckets of one date, of which one overwrites the row of the other, are left out.
THEOREM QueriesAreRight == Spec => []QueriesFind
<1>1. ASSUME QueryInv PROVE QueriesFind
  <2> SUFFICES ASSUME DistinctDates, Written, accepted # {}
               PROVE  /\ FirstTimestamp = Least(Times)
                      /\ NumberOfMessages = Cardinality(accepted)
                      /\ \A n \in 1 .. Cardinality(accepted) + 1 :
                           LET limit == Least({n, MaxResendLast, Cardinality(accepted)})
                           IN  /\ Cardinality(RequestLast(n)) = limit
                               /\ InOrder => \A m \in RequestLast(n), k \in accepted :
                                               k \in RequestLast(n) \/ ~Before(Ref(m), Ref(k))
                      /\ InOrder => /\ RangesAreFound /\ FromsAreFound
                                    /\ LastTimestamp = Greatest(Times)
    BY DEF QueriesFind, Times
  <2>1. \A n \in 1 .. Cardinality(accepted) + 1 : n \in Nat \ {0}
    BY <1>1, FS_CardinalityType DEF QueryInv
  <2> QED
    BY <1>1, <2>1, FirstIsRight, NumberIsRight, LastAreRight, LastIsRight, RangesAreRight,
       FromsAreRight
<1> QED
  BY <1>1, InitQueries, NextQueries, PTL DEF Spec

-----------------------------------------------------------------------------
(* The assignments of stream parts to the node.                            *)

AssignmentsTypeOK ==
  /\ chain \in Seq(SUBSET Stream) /\ Newest >= 1
  /\ heard \subseteq [stream : Stream, type : {"added", "removed"}, block : 1 .. Newest]
  /\ lastSnapshot \in 0 .. Newest
  /\ lastSequenceNo \in [Element -> 0 .. Newest]

\* An event says what its block did, unless the block had two changes of the stream.
HeardIsTrue ==
  \A e \in heard :
    \/ e.type = "added" <=> e.stream \in chain[e.block]
    \/ <<e.stream, e.block>> \in often

AssignmentsInv == AssignmentsTypeOK /\ HeardIsTrue /\ NeverGoesBack

\* The least block of a poll is one of those its pages are of, and before the others.
LEMMA LeastRead ==
  ASSUME NEW n \in Nat, NEW at \in [Stream -> 1 .. n]
  PROVE  /\ Min({at[s] : s \in Stream}) \in 1 .. n
         /\ \A s \in Stream : Min({at[t] : t \in Stream}) <= at[s]
<1> DEFINE R == {ss \in Nat \X Nat : ss[1] < ss[2]}
           Read == {at[s] : s \in Stream}
<1>1. Read \in SUBSET (1 .. n) /\ Read \in SUBSET Nat /\ Read # {}
  BY AssignmentAssumption
<1>2. \A s \in Stream : at[s] \in Read
  OBVIOUS
<1> HIDE DEF Read
<1>3. IsWellFoundedOn(R, Nat)
  BY NatLessThanWellFounded DEF OpToRel
<1>4. PICK x \in Read : \A y \in Read : ~(<<y, x>> \in R)
  BY <1>1, <1>3, WFMin
<1>5. \A y \in Read : ~(y < x)
  BY <1>1, <1>4
<1>6. \A y \in Read : x <= y
  BY <1>1, <1>5
<1>7. Min(Read) \in Read /\ \A y \in Read : Min(Read) <= y
  BY <1>6 DEF Min
<1>8. Min(Read) \in 1 .. n /\ \A s \in Stream : Min(Read) <= at[s]
  BY <1>1, <1>2, <1>7
<1> QED
  BY <1>8 DEF Read

\* The later of a snapshot and a patch.
LEMMA LaterOf ==
  ASSUME NEW a \in Nat, NEW b \in Nat
  PROVE  /\ a >= b /\ a >= 1 => Max({a, b, 1}) = a
         /\ b >= a /\ b >= 1 => Max({a, b, 1}) = b
         /\ a = 0 /\ b = 0 => Max({a, b, 1}) = 1
<1>1. ASSUME NEW m \in {a, b, 1}, m >= a, m >= b, m >= 1
      PROVE  Max({a, b, 1}) = m
  <2>1. \A y \in {a, b, 1} : m >= y
    BY <1>1
  <2>2. \A x \in {a, b, 1} : (\A y \in {a, b, 1} : x >= y) => x = m
    BY <1>1, <2>1
  <2> QED
    BY <2>1, <2>2 DEF Max
<1>2. ASSUME a >= b, a >= 1 PROVE Max({a, b, 1}) = a
  BY <1>1, <1>2
<1>3. ASSUME b >= a, b >= 1 PROVE Max({a, b, 1}) = b
  BY <1>1, <1>3
<1>4. ASSUME a = 0, b = 0 PROVE Max({a, b, 1}) = 1
  BY <1>1, <1>4
<1> QED
  BY <1>2, <1>3, <1>4

\* What NeverGoesBack says of a stream part.
Current(s, e, since) ==
  \/ \E b \in since .. Newest : e \in state <=> s \in chain[b]
  \/ <<s, since>> \in often

Since(e) == Max({lastSnapshot, lastSequenceNo[e], 1})

LEMMA CurrentParts == NeverGoesBack <=> \A s \in Stream : \A e \in PartsOf[s] : Current(s, e, Since(e))
BY DEF NeverGoesBack, Current, Since

\* The block a stream part is taken from is one of the chain.
LEMMA SinceInChain ==
  ASSUME AssignmentsTypeOK, NEW e \in Element
  PROVE  Since(e) \in 1 .. Newest
<1>1. lastSnapshot \in 0 .. Newest /\ lastSequenceNo[e] \in 0 .. Newest /\ Newest \in Nat /\ Newest >= 1
  BY DEF AssignmentsTypeOK, Newest
<1>2. Since(e) \in {lastSnapshot, lastSequenceNo[e], 1}
  BY <1>1, LaterOf DEF Since
<1> QED
  BY <1>1, LaterOf DEF Since

\* Another block, whose events may be heard.
LEMMA MineKeeps ==
  ASSUME AssignmentsInv, Mine
  PROVE  AssignmentsInv'
<1>1. AssignmentsTypeOK /\ HeardIsTrue /\ NeverGoesBack
  BY DEF AssignmentsInv
<1>2. PICK c \in SUBSET Stream : chain' = Append(chain, c)
  <2>1. chain[Newest] \in SUBSET Stream
    BY <1>1 DEF AssignmentsTypeOK, Newest
  <2> QED
    BY <2>1 DEF Mine
<1>3. /\ chain' \in Seq(SUBSET Stream) /\ Newest \in Nat /\ Newest >= 1 /\ Newest' = Newest + 1
      /\ chain'[Newest + 1] = c /\ \A b \in 1 .. Newest : chain'[b] = chain[b]
  BY <1>1, <1>2 DEF AssignmentsTypeOK, Newest
<1>4. often \subseteq often' /\ UNCHANGED <<lastSnapshot, lastSequenceNo, state>>
  BY DEF Mine
<1>5. ASSUME NEW e \in heard', e \notin heard
      PROVE  /\ e \in [stream : Stream, type : {"added", "removed"}, block : {Newest + 1}]
             /\ \/ e.type = "added" <=> e.stream \in c
                \/ <<e.stream, e.block>> \in often'
  <2> DEFINE before == chain[Newest]
  <2>1. CASE \E S \in SUBSET Stream :
               /\ chain' = Append(chain, (before \ S) \cup (S \ before))
               /\ \E s \in S : e = Event(s, before)
    <3>1. PICK S \in SUBSET Stream :
            /\ chain' = Append(chain, (before \ S) \cup (S \ before))
            /\ \E s \in S : e = Event(s, before)
      BY <2>1
    <3>2. c = (before \ S) \cup (S \ before)
      <4>1. chain \in Seq(SUBSET Stream) /\ before \in SUBSET Stream
        BY <1>1 DEF AssignmentsTypeOK, Newest
      <4>2. (before \ S) \cup (S \ before) \in SUBSET Stream
        BY <4>1
      <4> HIDE DEF before
      <4>3. Append(chain, (before \ S) \cup (S \ before))[Len(chain) + 1] = (before \ S) \cup (S \ before)
        BY <4>1, <4>2
      <4> QED
        BY <1>3, <3>1, <4>3 DEF Newest
    <3> QED
      BY <3>1, <3>2 DEF Event
  <2>2. CASE \E s \in Stream :
               /\ often' = often \cup {<<s, Newest + 1>>}
               /\ e \in {Event(s, before), Event(s, Changed(before, s))}
    BY <2>2 DEF Event
  <2> QED
    BY <1>5, <2>1, <2>2 DEF Mine
<1>6. AssignmentsTypeOK'
  <2>1. heard' \subseteq [stream : Stream, type : {"added", "removed"}, block : 1 .. Newest']
    <3> SUFFICES ASSUME NEW e \in heard'
                 PROVE  e \in [stream : Stream, type : {"added", "removed"}, block : 1 .. Newest']
      OBVIOUS
    <3>1. CASE e \in heard
      BY <1>1, <1>3, <3>1 DEF AssignmentsTypeOK
    <3>2. CASE e \notin heard
      <4>1. e \in [stream : Stream, type : {"added", "removed"}, block : {Newest + 1}]
        BY <1>5, <3>2
      <4>2. Newest + 1 \in 1 .. Newest'
        BY <1>3
      <4> QED
        BY <4>1, <4>2
    <3> QED
      BY <3>1, <3>2
  <2> QED
    BY <1>1, <1>3, <1>4, <2>1 DEF AssignmentsTypeOK
<1>7. HeardIsTrue'
  <2> SUFFICES ASSUME NEW e \in heard'
               PROVE  \/ e.type = "added" <=> e.stream \in chain'[e.block]
                      \/ <<e.stream, e.block>> \in often'
    BY DEF HeardIsTrue
  <2>1. CASE e \in heard
    BY <1>1, <1>3, <1>4, <2>1 DEF HeardIsTrue, AssignmentsTypeOK
  <2>2. CASE e \notin heard
    BY <1>3, <1>5, <2>2
  <2> QED
    BY <2>1, <2>2
<1>8. NeverGoesBack'
  <2> SUFFICES ASSUME NEW s \in Stream, NEW e \in PartsOf[s]
               PROVE  Current(s, e, Since(e))'
    BY DEF NeverGoesBack, Current, Since
  <2>1. Current(s, e, Since(e)) /\ Since(e) \in 1 .. Newest
    BY <1>1, CurrentParts, SinceInChain DEF Element
  <2>2. Since(e)' = Since(e)
    BY <1>4 DEF Since
  <2> QED
    BY <1>3, <1>4, <2>1, <2>2 DEF Current
<1> QED
  BY <1>6, <1>7, <1>8 DEF AssignmentsInv

\* An event whose stream was looked up.
LEMMA HandleEventKeeps ==
  ASSUME AssignmentsInv, NEW e \in heard, HandleEvent(e)
  PROVE  AssignmentsInv'
<1>1. AssignmentsTypeOK /\ HeardIsTrue /\ NeverGoesBack
  BY DEF AssignmentsInv
<1>2. /\ UNCHANGED <<chain, often, lastSnapshot>> /\ Newest' = Newest
      /\ heard' \subseteq heard /\ Newest \in Nat
  BY <1>1 DEF HandleEvent, Newest, AssignmentsTypeOK
<1>3. /\ e.stream \in Stream /\ e.type \in {"added", "removed"} /\ e.block \in 1 .. Newest
      /\ lastSnapshot \in 0 .. Newest
  BY <1>1 DEF AssignmentsTypeOK
<1> DEFINE fresh == IF e.block <= lastSnapshot THEN {}
                    ELSE {x \in PartsOf[e.stream] : e.block > lastSequenceNo[x]}
<1>4. /\ lastSequenceNo' = [x \in Element |-> IF x \in fresh THEN e.block ELSE lastSequenceNo[x]]
      /\ state' = IF e.type = "added" THEN state \cup fresh ELSE state \ fresh
  BY DEF HandleEvent, IngestPatch, Deliver
<1>5. AssignmentsTypeOK'
  BY <1>1, <1>2, <1>3, <1>4 DEF AssignmentsTypeOK
<1>6. HeardIsTrue'
  BY <1>1, <1>2 DEF HeardIsTrue
<1>7. NeverGoesBack'
  <2> SUFFICES ASSUME NEW s \in Stream, NEW x \in PartsOf[s]
               PROVE  Current(s, x, Since(x))'
    BY DEF NeverGoesBack, Current, Since
  <2>0. x \in Element /\ lastSequenceNo[x] \in 0 .. Newest
    BY <1>1 DEF Element, AssignmentsTypeOK
  <2>1. CASE x \in fresh
    <3>1. s = e.stream
      BY <1>3, <2>1, AssignmentAssumption
    <3>2. e.block > lastSnapshot /\ lastSequenceNo'[x] = e.block /\ (x \in state' <=> e.type = "added")
      BY <1>3, <1>4, <2>0, <2>1
    <3>3. Since(x)' = e.block
      BY <1>2, <1>3, <3>2, LaterOf DEF Since
    <3>4. \/ e.type = "added" <=> s \in chain[e.block]
          \/ <<s, e.block>> \in often
      BY <1>1, <3>1 DEF HeardIsTrue
    <3> QED
      BY <1>2, <1>3, <3>2, <3>3, <3>4 DEF Current
  <2>2. CASE x \notin fresh
    <3>1. Current(s, x, Since(x))
      BY <1>1, CurrentParts
    <3>2. lastSequenceNo'[x] = lastSequenceNo[x] /\ (x \in state' <=> x \in state)
      BY <1>4, <2>0, <2>2
    <3>3. Since(x)' = Since(x)
      BY <1>2, <3>2 DEF Since
    <3> QED
      BY <1>2, <3>1, <3>2, <3>3 DEF Current
  <2> QED
    BY <2>1, <2>2
<1> QED
  BY <1>5, <1>6, <1>7 DEF AssignmentsInv

\* A poll, of which the streams were read at different blocks.
LEMMA PolledKeeps ==
  ASSUME AssignmentsInv, NEW at \in [Stream -> 1 .. Newest], Polled(at)
  PROVE  AssignmentsInv'
<1> DEFINE least == Min({at[s] : s \in Stream})
           elements == Parts({s \in Stream : s \in chain[at[s]]})
           patched == {e \in Element : lastSequenceNo[e] > least}
<1>1. AssignmentsTypeOK /\ HeardIsTrue /\ NeverGoesBack
  BY DEF AssignmentsInv
<1>2. Newest \in Nat /\ Newest' = Newest /\ UNCHANGED <<chain, often, heard>>
  BY <1>1 DEF Polled, Newest, AssignmentsTypeOK
<1>3. least \in 1 .. Newest /\ \A s \in Stream : least <= at[s]
  BY <1>2, LeastRead
<1>4. HeardIsTrue'
  BY <1>1, <1>2 DEF HeardIsTrue
<1>5. CASE least <= lastSnapshot
  <2>1. UNCHANGED <<lastSnapshot, lastSequenceNo, state>>
    BY <1>5 DEF Polled, IngestSnapshot
  <2> QED
    BY <1>1, <1>2, <1>4, <2>1 DEF AssignmentsInv, AssignmentsTypeOK, NeverGoesBack
<1>6. CASE ~(least <= lastSnapshot)
  <2>1. /\ lastSnapshot' = least
        /\ lastSequenceNo' = [e \in Element |-> IF e \in patched THEN lastSequenceNo[e] ELSE 0]
        /\ state' = (elements \ patched) \cup (state \cap patched)
    BY <1>6 DEF Polled, IngestSnapshot, Deliver
  <2> HIDE DEF least, elements
  <2>2. AssignmentsTypeOK'
    BY <1>1, <1>2, <1>3, <2>1 DEF AssignmentsTypeOK
  <2>3. NeverGoesBack'
    <3> SUFFICES ASSUME NEW s \in Stream, NEW e \in PartsOf[s]
                 PROVE  Current(s, e, Since(e))'
      BY DEF NeverGoesBack, Current, Since
    <3>0. e \in Element /\ lastSequenceNo[e] \in 0 .. Newest /\ lastSnapshot \in 0 .. Newest
      BY <1>1 DEF Element, AssignmentsTypeOK
    <3>1. CASE e \in patched
      <4>1. lastSequenceNo'[e] = lastSequenceNo[e] /\ (e \in state' <=> e \in state)
        BY <2>1, <3>0, <3>1
      <4>2. lastSequenceNo[e] > least /\ least > lastSnapshot /\ lastSnapshot' = least
        BY <1>3, <1>6, <2>1, <3>0, <3>1
      <4>3. Since(e) = lastSequenceNo[e] /\ Since(e)' = lastSequenceNo[e]
        BY <1>3, <3>0, <4>1, <4>2, LaterOf DEF Since
      <4>4. Current(s, e, Since(e))
        BY <1>1, CurrentParts
      <4> QED
        BY <1>2, <4>1, <4>3, <4>4 DEF Current
    <3>2. CASE e \notin patched
      <4>1. lastSequenceNo'[e] = 0 /\ (e \in state' <=> e \in elements)
        BY <2>1, <3>0, <3>2
      <4>2. e \in elements <=> s \in chain[at[s]]
        BY AssignmentAssumption DEF elements, Parts
      <4>3. Since(e)' = least
        BY <1>3, <2>1, <4>1, LaterOf DEF Since
      <4>4. at[s] \in least .. Newest
        BY <1>2, <1>3
      <4> QED
        BY <1>2, <4>1, <4>2, <4>3, <4>4 DEF Current
    <3> QED
      BY <3>1, <3>2
  <2> QED
    BY <1>4, <2>2, <2>3 DEF AssignmentsInv
<1> QED
  BY <1>5, <1>6

\* Nothing is assigned at first.
LEMMA InitAssignments == AssignmentsInit => AssignmentsInv
<1> SUFFICES ASSUME AssignmentsInit PROVE AssignmentsInv
  OBVIOUS
<1>1. chain = <<{}>> /\ Newest = 1 /\ heard = {} /\ state = {} /\ lastSnapshot = 0
  BY DEF AssignmentsInit, Newest
<1>2. AssignmentsTypeOK /\ HeardIsTrue
  BY <1>1 DEF AssignmentsInit, AssignmentsTypeOK, HeardIsTrue
<1>3. ASSUME NEW s \in Stream, NEW e \in PartsOf[s]
      PROVE  Current(s, e, Since(e))
  <2>1. lastSequenceNo[e] = 0
    BY DEF AssignmentsInit, Element
  <2>2. Since(e) = 1
    BY <1>1, <2>1, LaterOf DEF Since
  <2> QED
    BY <1>1, <2>2 DEF Current
<1> QED
  BY <1>2, <1>3, CurrentParts DEF AssignmentsInv

\* No step of the chain, the synchronizer, its sources or the plugin breaks it.
LEMMA NextAssignments == AssignmentsInv /\ [AssignmentsNext]_assignmentVars => AssignmentsInv'
<1> SUFFICES ASSUME AssignmentsInv, [AssignmentsNext]_assignmentVars PROVE AssignmentsInv'
  OBVIOUS
<1>1. CASE UNCHANGED <<chain, often, heard, lastSnapshot, state, lastSequenceNo>>
  BY <1>1 DEF AssignmentsInv, AssignmentsTypeOK, HeardIsTrue, NeverGoesBack, Newest
<1> QED
  BY <1>1, MineKeeps, HandleEventKeeps, PolledKeeps
  DEF AssignmentsNext, Poll, PollFails, Stop, Destroy, assignmentVars

\* What a storage node stores never goes back (SetMembershipSynchronizer.ts): however
\* late events are handled and whatever blocks the pages of a poll are of, each stream
\* part is stored or not as after some block, not before the last snapshot and the last
\* event of it that were taken in, unless its stream changed twice in that block.
THEOREM StorageNeverGoesBack == AssignmentsSpec => []NeverGoesBack
<1>1. AssignmentsInv => NeverGoesBack
  BY DEF AssignmentsInv
<1> QED
  BY <1>1, InitAssignments, NextAssignments, PTL DEF AssignmentsSpec
==============================================================================
