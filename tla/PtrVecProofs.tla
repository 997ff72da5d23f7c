---------------------------- MODULE PtrVecProofs ----------------------------
(***************************************************************************)
(* PTRVEC keeps its ring well formed and implements Deque, for every       *)
(* capacity, heap and set of pointers, provided the client is SafeClient.  *)
(***************************************************************************)
EXTENDS PtrVec, SequenceTheorems, TLAPS

(* Arithmetic and sequences *)

\* One step past the end of a ring of m slots comes back to its beginning.
LEMMA ModSum ==
  ASSUME NEW m \in Nat, NEW a \in 0..(m-1), NEW b \in 0..m
  PROVE  (a + b) % m = IF a + b < m THEN a + b ELSE a + b - m
  OBVIOUS

\* A function on 1..n is a sequence of length n.
LEMMA FunctionIsSeq ==
  ASSUME NEW n \in Nat, NEW S, NEW f \in [1..n -> S]
  PROVE  f \in Seq(S) /\ Len(f) = n
  OBVIOUS

\* Two functions on 1..n that agree everywhere are the same.
LEMMA FunctionsEqual ==
  ASSUME NEW n \in Nat, NEW S, NEW f \in [1..n -> S], NEW g \in [1..n -> S],
         \A i \in 1..n : f[i] = g[i]
  PROVE  f = g
  OBVIOUS

----------------------------------------------------------------------------
(* A well-formed vector *)

Sized(v) ==
  /\ v.maxItems \in 1..HeapMax /\ v.numItems \in 0..v.maxItems
  /\ v.head \in 0..(v.maxItems - 1) /\ v.tail \in 0..(v.maxItems - 1)
  /\ v.ptrArr \in [0..(v.maxItems - 1) -> Ptr \cup {Garbage}]

\* The slot i places round the ring from head, without the remainder.
At(v, i) == IF v.head + i < v.maxItems THEN v.head + i ELSE v.head + i - v.maxItems

\* The stretch of numItems slots that starts at head ends at tail.
Stretch(v) ==
  IF v.numItems = 0 THEN v.head = v.tail ELSE v.tail = At(v, v.numItems - 1)

\* What that slot holds.
Cell(v, i) == v.ptrArr[At(v, i)]

\* Every slot of the stretch was stored to.
Stored(v) == \A i \in 0..(v.numItems - 1) : Cell(v, i) \in Ptr

Ring(v) == Sized(v) /\ Stretch(v) /\ Stored(v)

----------------------------------------------------------------------------
\* Each place of the stretch is a slot of the block.
LEMMA AtInBlock ==
  ASSUME NEW v, Sized(v), NEW i \in 0..(v.maxItems - 1)
  PROVE  At(v, i) \in 0..(v.maxItems - 1)
  BY SizesAssumption DEF Sized, At

\* No two places of the stretch are the same slot.
LEMMA AtInjective ==
  ASSUME NEW v, Sized(v), NEW i \in 0..(v.maxItems - 1), NEW j \in 0..(v.maxItems - 1),
         i # j
  PROVE  At(v, i) # At(v, j)
  BY SizesAssumption DEF Sized, At

\* The code's index arithmetic finds each place.
LEMMA SlotIsAt ==
  ASSUME NEW v, Sized(v), NEW i \in 0..(v.maxItems - 1)
  PROVE  SlotFwd(v, i) = At(v, i)
<1>1. v.maxItems \in Nat /\ v.head \in 0..(v.maxItems - 1) /\ i \in 0..v.maxItems
  BY SizesAssumption DEF Sized
<1>2. (v.head + i) % v.maxItems
      = IF v.head + i < v.maxItems THEN v.head + i ELSE v.head + i - v.maxItems
  BY <1>1, ModSum
<1> QED
  BY <1>2 DEF SlotFwd, At

\* The traversal macro visits numItems pointers, each of which was stored.
LEMMA LoopIsSeq ==
  ASSUME NEW v, Ring(v)
  PROVE  /\ v.numItems \in Nat
         /\ LoopFwd(v) \in [1..v.numItems -> Ptr]
         /\ LoopFwd(v) \in Seq(Ptr) /\ Len(LoopFwd(v)) = v.numItems
         /\ \A i \in 1..v.numItems : LoopFwd(v)[i] = Cell(v, i-1)
<1>0. Sized(v) /\ Stored(v)
  BY DEF Ring
<1>1. v.numItems \in Nat /\ v.maxItems \in Nat /\ v.numItems <= v.maxItems
  BY <1>0, SizesAssumption DEF Sized
<1>2. \A i \in 1..v.numItems : i-1 \in 0..(v.numItems - 1) /\ i-1 \in 0..(v.maxItems - 1)
  BY <1>1
<1>3. \A i \in 1..v.numItems : LoopFwd(v)[i] = Cell(v, i-1)
  BY <1>0, <1>2, SlotIsAt DEF LoopFwd, Cell
<1>4. \A i \in 1..v.numItems : Cell(v, i-1) \in Ptr
  BY <1>0, <1>2 DEF Stored
<1>5. LoopFwd(v) = [i \in 1..v.numItems |-> LoopFwd(v)[i]]
  BY DEF LoopFwd
<1>6. LoopFwd(v) \in [1..v.numItems -> Ptr]
  BY <1>3, <1>4, <1>5
<1> QED
  BY <1>1, <1>3, <1>6, FunctionIsSeq

----------------------------------------------------------------------------
(* How the sequence of items follows from the cells: w is what a call made *)
(* of v, sized and stretched; its cells tell whether it is well formed and *)
(* which items it holds.                                                   *)

\* A vector whose cells are the same holds the same items.
LEMMA SameItems ==
  ASSUME NEW v, NEW w, Ring(v), Sized(w), Stretch(w), w.numItems = v.numItems,
         \A i \in 0..(v.numItems - 1) : Cell(w, i) = Cell(v, i)
  PROVE  Ring(w) /\ LoopFwd(w) = LoopFwd(v)
<1>1. Ring(w)
  BY DEF Ring, Stored
<1>2. v.numItems \in Nat /\ \A i \in 1..v.numItems : i-1 \in 0..(v.numItems - 1)
  BY LoopIsSeq
<1>3. \A i \in 1..v.numItems : LoopFwd(w)[i] = LoopFwd(v)[i]
  BY <1>1, <1>2, LoopIsSeq
<1> QED
  BY <1>1, <1>3, LoopIsSeq, FunctionsEqual

\* One more cell behind the last appends its item.
LEMMA OneMoreAtTail ==
  ASSUME NEW v, NEW w, NEW p \in Ptr, Ring(v), Sized(w), Stretch(w),
         w.numItems = v.numItems + 1,
         \A i \in 0..(v.numItems - 1) : Cell(w, i) = Cell(v, i),
         Cell(w, v.numItems) = p
  PROVE  Ring(w) /\ LoopFwd(w) = Append(LoopFwd(v), p)
<1>1. v.numItems \in Nat
  BY LoopIsSeq
<1>2. \A i \in 0..v.numItems : i \in 0..(v.numItems - 1) \/ i = v.numItems
  BY <1>1
<1>3. Ring(w)
  BY <1>1, <1>2 DEF Ring, Stored
<1>4. LoopFwd(v) \in Seq(Ptr) /\ Len(LoopFwd(v)) = v.numItems
      /\ LoopFwd(w) \in Seq(Ptr) /\ Len(LoopFwd(w)) = v.numItems + 1
  BY <1>3, LoopIsSeq
<1>5. ASSUME NEW i \in 1..(v.numItems + 1)
      PROVE  LoopFwd(w)[i] = IF i <= v.numItems THEN LoopFwd(v)[i] ELSE p
  <2>1. LoopFwd(w)[i] = Cell(w, i-1)
    BY <1>1, <1>3, LoopIsSeq
  <2>2. CASE i <= v.numItems
    BY <1>1, <2>1, <2>2, LoopIsSeq
  <2>3. CASE i > v.numItems
    BY <1>1, <2>1, <2>3
  <2> QED
    BY <1>1, <2>2, <2>3
<1>6. Append(LoopFwd(v), p) \in Seq(Ptr)
      /\ Len(Append(LoopFwd(v), p)) = v.numItems + 1
  BY <1>4, AppendProperties
<1>7. \A i \in 1..(v.numItems + 1) : LoopFwd(w)[i] = Append(LoopFwd(v), p)[i]
  BY <1>1, <1>4, <1>5, AppendProperties
<1> QED
  BY <1>3, <1>4, <1>6, <1>7, SeqEqual

\* One more cell before the first prepends its item.
LEMMA OneMoreAtHead ==
  ASSUME NEW v, NEW w, NEW p \in Ptr, Ring(v), Sized(w), Stretch(w),
         w.numItems = v.numItems + 1,
         \A i \in 1..v.numItems : Cell(w, i) = Cell(v, i-1),
         Cell(w, 0) = p
  PROVE  Ring(w) /\ LoopFwd(w) = <<p>> \o LoopFwd(v)
<1>1. v.numItems \in Nat
  BY LoopIsSeq
<1>2. \A i \in 0..v.numItems : i = 0 \/ (i \in 1..v.numItems /\ i-1 \in 0..(v.numItems - 1))
  BY <1>1
<1>3. Ring(w)
  BY <1>1, <1>2 DEF Ring, Stored
<1>4. LoopFwd(v) \in Seq(Ptr) /\ Len(LoopFwd(v)) = v.numItems
      /\ LoopFwd(w) \in Seq(Ptr) /\ Len(LoopFwd(w)) = v.numItems + 1
      /\ <<p>> \in Seq(Ptr) /\ Len(<<p>>) = 1 /\ <<p>>[1] = p
  BY <1>3, LoopIsSeq
<1>5. ASSUME NEW i \in 1..(v.numItems + 1)
      PROVE  LoopFwd(w)[i] = IF i <= 1 THEN p ELSE LoopFwd(v)[i-1]
  <2>1. LoopFwd(w)[i] = Cell(w, i-1)
    BY <1>1, <1>3, LoopIsSeq
  <2>2. CASE i = 1
    BY <1>1, <2>1, <2>2
  <2>3. CASE i > 1
    <3>1. i-1 \in 1..v.numItems /\ Cell(w, i-1) = Cell(v, (i-1)-1)
      BY <1>1, <2>3
    <3>2. LoopFwd(v)[i-1] = Cell(v, (i-1)-1)
      BY <3>1, LoopIsSeq
    <3> QED
      BY <1>1, <2>1, <2>3, <3>1, <3>2
  <2> QED
    BY <1>1, <2>2, <2>3
<1>6. /\ <<p>> \o LoopFwd(v) \in Seq(Ptr)
      /\ Len(<<p>> \o LoopFwd(v)) = v.numItems + 1
      /\ \A i \in 1..(v.numItems + 1) :
           (<<p>> \o LoopFwd(v))[i] = IF i <= 1 THEN <<p>>[i] ELSE LoopFwd(v)[i - 1]
  BY <1>1, <1>4, ConcatProperties
<1>7. \A i \in 1..(v.numItems + 1) : LoopFwd(w)[i] = (<<p>> \o LoopFwd(v))[i]
  BY <1>1, <1>4, <1>5, <1>6
<1> QED
  BY <1>3, <1>4, <1>6, <1>7, SeqEqual

\* The item at place k, counted from 0, is gone and the others are in place.
LEMMA OneFewer ==
  ASSUME NEW v, NEW w, NEW k \in 0..(v.numItems - 1), Ring(v), Sized(w), Stretch(w),
         w.numItems = v.numItems - 1,
         \A i \in 0..(v.numItems - 2) :
           Cell(w, i) = IF i < k THEN Cell(v, i) ELSE Cell(v, i+1)
  PROVE  Ring(w) /\ LoopFwd(w) = D!S!RemoveAt(LoopFwd(v), k+1)
<1> DEFINE s == LoopFwd(v)
           n == v.numItems
           a == SubSeq(s, 1, k)
           b == SubSeq(s, k+2, n)
<1>1. n \in Nat /\ k \in Nat /\ k < n
  BY LoopIsSeq
<1>2. Ring(w)
  <2>1. ASSUME NEW i \in 0..(w.numItems - 1) PROVE Cell(w, i) \in Ptr
    <3>1. i \in 0..(n-2) /\ i \in 0..(n-1) /\ i+1 \in 0..(n-1)
      BY <1>1
    <3> QED
      BY <3>1 DEF Ring, Stored
  <2> QED
    BY <2>1 DEF Ring, Stored
<1>3. s \in Seq(Ptr) /\ Len(s) = n
      /\ LoopFwd(w) \in Seq(Ptr) /\ Len(LoopFwd(w)) = n-1
      /\ \A i \in 1..n : s[i] \in Ptr /\ s[i] = Cell(v, i-1)
  BY <1>2, LoopIsSeq
<1>4. a \in Seq(Ptr) /\ Len(a) = k /\ \A i \in 1..k : a[i] = s[i]
  BY <1>1, <1>3, SubSeqProperties
<1>5. b \in Seq(Ptr) /\ Len(b) = n-k-1 /\ \A i \in 1..(n-k-1) : b[i] = s[i+k+1]
  BY <1>1, <1>3, SubSeqProperties
<1>6. D!S!RemoveAt(s, k+1) = a \o b
  BY <1>1, <1>3 DEF D!S!RemoveAt
<1> HIDE DEF s, a, b
<1>7. a \o b \in Seq(Ptr) /\ Len(a \o b) = n-1
      /\ \A i \in 1..(n-1) : (a \o b)[i] = IF i <= k THEN a[i] ELSE b[i-k]
  <2>1. /\ a \o b \in Seq(Ptr) /\ Len(a \o b) = Len(a) + Len(b)
        /\ \A i \in 1..(Len(a) + Len(b)) :
             (a \o b)[i] = IF i <= Len(a) THEN a[i] ELSE b[i - Len(a)]
    <3>1. a \in Seq(Ptr) /\ b \in Seq(Ptr)
      BY <1>4, <1>5
    <3> QED
      BY <3>1, ConcatProperties, Zenon
  <2>2. Len(a) + Len(b) = n-1
    BY <1>1, <1>4, <1>5
  <2> QED
    BY <1>4, <2>1, <2>2
<1>8. ASSUME NEW i \in 1..(n-1) PROVE LoopFwd(w)[i] = (a \o b)[i]
  <2>1. LoopFwd(w)[i] = Cell(w, i-1)
    BY <1>1, <1>2, LoopIsSeq
  <2>2. i-1 \in 0..(n-2) /\ i-1 \in 0..(n-1) /\ (i-1)+1 = i /\ (i+1)-1 = i
        /\ i \in 1..n /\ i+1 \in 1..n
    BY <1>1
  <2>3. CASE i <= k
    <3>1. i-1 < k /\ i \in 1..k
      BY <1>1, <2>3
    <3> QED
      BY <1>3, <1>4, <1>7, <2>1, <2>2, <2>3, <3>1
  <2>4. CASE i > k
    <3>1. ~(i-1 < k) /\ ~(i <= k) /\ i-k \in 1..(n-k-1) /\ (i-k)+k+1 = i+1
      BY <1>1, <2>4
    <3> QED
      BY <1>3, <1>5, <1>7, <2>1, <2>2, <3>1
  <2>5. i <= k \/ i > k
    BY <1>1
  <2> QED
    BY <2>3, <2>4, <2>5, Zenon
<1>9. LoopFwd(w) = a \o b
  BY <1>3, <1>7, <1>8, SeqEqual
<1> QED
  BY <1>2, <1>6, <1>9 DEF s

----------------------------------------------------------------------------
(* The operations *)

\* Stretch in arithmetic: tl ends the stretch of n slots that starts at hd.
Ends(m, n, hd, tl) == tl = IF hd + (n-1) < m THEN hd + (n-1) ELSE hd + (n-1) - m

\* The shape of a non-empty vector as a fact about numbers alone.
LEMMA StretchIsEnds ==
  ASSUME NEW v, Stretch(v), v.numItems # 0
  PROVE  Ends(v.maxItems, v.numItems, v.head, v.tail)
  BY DEF Stretch, At, Ends

\* And back.
LEMMA EndsIsStretch ==
  ASSUME NEW v, v.numItems # 0, Ends(v.maxItems, v.numItems, v.head, v.tail)
  PROVE  Stretch(v)
  BY DEF Stretch, At, Ends

\* The four ways an end of the stretch moves by one slot.
LEMMA EndsMove ==
  ASSUME NEW m \in Nat, NEW n \in 1..m, NEW hd \in 0..(m-1), NEW tl \in 0..(m-1),
         Ends(m, n, hd, tl)
  PROVE  /\ n < m => Ends(m, n+1, IF hd = 0 THEN m-1 ELSE hd-1, tl)
         /\ n < m => Ends(m, n+1, hd, IF tl+1 = m THEN 0 ELSE tl+1)
         /\ n > 1 => Ends(m, n-1, IF hd+1 = m THEN 0 ELSE hd+1, tl)
         /\ n > 1 => Ends(m, n-1, hd, IF tl = 0 THEN m-1 ELSE tl-1)
  BY DEF Ends

\* What the provers need of a well-formed vector, in plain terms.
LEMMA RingFacts ==
  ASSUME NEW v, Ring(v)
  PROVE  /\ Sized(v) /\ Stretch(v) /\ Stored(v)
         /\ v.maxItems \in Nat /\ v.maxItems > 0 /\ v.maxItems <= HeapMax
         /\ HeapMax \in Nat
         /\ v.numItems \in Nat /\ v.numItems <= v.maxItems
         /\ v.head \in 0..(v.maxItems - 1) /\ v.tail \in 0..(v.maxItems - 1)
         /\ v.ptrArr \in [0..(v.maxItems - 1) -> Ptr \cup {Garbage}]
  BY SizesAssumption DEF Ring, Sized

\* The i'th place from the next head is the (i+1)'th from the present one.
LEMMA NextPlace ==
  ASSUME NEW m \in Nat, NEW hd \in 0..(m-1), NEW i \in 0..(m-2), NEW h,
         h = IF hd+1 = m THEN 0 ELSE hd+1
  PROVE  (IF h+i < m THEN h+i ELSE h+i-m)
         = IF hd+(i+1) < m THEN hd+(i+1) ELSE hd+(i+1)-m
  OBVIOUS

\* PTRVEC_addTail with room to spare appends (ptrvec.c:192-204).
LEMMA PutTailOK ==
  ASSUME NEW v, Ring(v), v.numItems < v.maxItems, NEW p \in Ptr
  PROVE  Ring(PutTail(v, p)) /\ LoopFwd(PutTail(v, p)) = Append(LoopFwd(v), p)
<1> DEFINE w == PutTail(v, p)
           t == IF v.numItems > 0 THEN (v.tail + 1) % v.maxItems ELSE v.tail
<1>0. Sized(v) /\ Stretch(v) /\ Stored(v)
  BY DEF Ring
<1>1. t = At(v, v.numItems) /\ t \in 0..(v.maxItems - 1)
  <2>1. v.maxItems \in Nat /\ v.tail \in 0..(v.maxItems - 1) /\ v.numItems \in Nat
        /\ v.head \in 0..(v.maxItems - 1) /\ v.numItems < v.maxItems
        /\ 1 \in 0..v.maxItems
    BY <1>0, SizesAssumption DEF Sized
  <2>2. (v.tail + 1) % v.maxItems
        = IF v.tail + 1 < v.maxItems THEN v.tail + 1 ELSE v.tail + 1 - v.maxItems
    BY <2>1, ModSum
  <2>3. CASE v.numItems = 0
    BY <1>0, <2>1, <2>3 DEF Stretch, At
  <2>4. CASE v.numItems > 0
    BY <1>0, <2>1, <2>2, <2>4 DEF Stretch, At
  <2> QED
    BY <2>1, <2>3, <2>4
<1>2. w = Vec([v.ptrArr EXCEPT ![t] = p], v.maxItems, v.numItems + 1, v.head, t)
  BY DEF PutTail
<1> HIDE DEF w, t
<1>3. Sized(w)
  BY <1>0, <1>1, <1>2, SizesAssumption DEF Vec, Sized
<1>4. Stretch(w)
  BY <1>0, <1>1, <1>2, SizesAssumption DEF Stretch, At, Sized, Vec
<1>5. \A i \in 0..(v.maxItems - 1) : At(w, i) = At(v, i)
  BY <1>2 DEF At, Vec
<1>6. ASSUME NEW i \in 0..(v.numItems - 1) PROVE Cell(w, i) = Cell(v, i)
  <2>1. i \in 0..(v.maxItems - 1) /\ v.numItems \in 0..(v.maxItems - 1) /\ i # v.numItems
    BY <1>0, SizesAssumption DEF Sized
  <2>2. At(v, i) # t /\ At(v, i) \in 0..(v.maxItems - 1)
    BY <1>0, <1>1, <2>1, AtInjective, AtInBlock
  <2> QED
    BY <1>0, <1>2, <1>5, <2>1, <2>2 DEF Cell, Sized, Vec
<1>7. Cell(w, v.numItems) = p
  <2>1. v.numItems \in 0..(v.maxItems - 1)
    BY <1>0, SizesAssumption DEF Sized
  <2> QED
    BY <1>0, <1>1, <1>2, <1>5, <2>1 DEF Cell, Sized, Vec
<1>8. w.numItems = v.numItems + 1
  BY <1>2 DEF Vec
<1> QED
  BY <1>3, <1>4, <1>6, <1>7, <1>8, OneMoreAtTail DEF w

\* PTRVEC_addHead with room to spare prepends (ptrvec.c:163-175).
LEMMA PutHeadOK ==
  ASSUME NEW v, Ring(v), v.numItems < v.maxItems, NEW p \in Ptr
  PROVE  Ring(PutHead(v, p)) /\ LoopFwd(PutHead(v, p)) = <<p>> \o LoopFwd(v)
<1> DEFINE w == PutHead(v, p)
           h == IF v.numItems > 0 THEN (v.head + v.maxItems - 1) % v.maxItems ELSE v.head
<1>0. Sized(v) /\ Stretch(v) /\ Stored(v) /\ v.maxItems \in Nat /\ v.maxItems > 0
      /\ v.numItems \in Nat /\ v.head \in 0..(v.maxItems - 1)
      /\ v.tail \in 0..(v.maxItems - 1)
      /\ v.ptrArr \in [0..(v.maxItems - 1) -> Ptr \cup {Garbage}]
  BY RingFacts
<1>1. h = IF v.numItems = 0 THEN v.head
          ELSE IF v.head = 0 THEN v.maxItems - 1 ELSE v.head - 1
  <2>1. (v.head + (v.maxItems - 1)) % v.maxItems
        = IF v.head + (v.maxItems - 1) < v.maxItems THEN v.head + (v.maxItems - 1)
          ELSE v.head + (v.maxItems - 1) - v.maxItems
    <3>1. v.maxItems - 1 \in 0..v.maxItems
      BY <1>0
    <3> QED
      BY <1>0, <3>1, ModSum
  <2>2. v.head + (v.maxItems - 1) = v.head + v.maxItems - 1
    BY <1>0
  <2> QED
    BY <1>0, <2>1, <2>2
<1>2. w = Vec([v.ptrArr EXCEPT ![h] = p], v.maxItems, v.numItems + 1, h, v.tail)
  BY DEF PutHead
<1> HIDE DEF w, h
<1>3. Sized(w)
  BY <1>0, <1>1, <1>2, SizesAssumption DEF Vec, Sized
<1>4. Stretch(w)
  <2>1. w.maxItems = v.maxItems /\ w.numItems = v.numItems + 1 /\ w.head = h
        /\ w.tail = v.tail
    BY <1>2 DEF Vec
  <2>2. CASE v.numItems = 0
    BY <1>0, <1>1, <2>1, <2>2 DEF Stretch, At
  <2>3. CASE v.numItems > 0
    <3>1. v.numItems \in 1..v.maxItems /\ v.numItems # 0 /\ w.numItems # 0
      BY <1>0, <2>1, <2>3
    <3>2. Ends(v.maxItems, v.numItems, v.head, v.tail)
      BY <1>0, <3>1, StretchIsEnds
    <3>3. Ends(v.maxItems, v.numItems + 1, IF v.head = 0 THEN v.maxItems - 1 ELSE v.head - 1, v.tail)
      BY <1>0, <2>3, <3>1, <3>2, EndsMove
    <3>4. Ends(v.maxItems, v.numItems + 1, h, v.tail)
      BY <1>0, <1>1, <2>3, <3>3
    <3> QED
      BY <2>1, <3>1, <3>4, EndsIsStretch
  <2> QED
    BY <1>0, <2>2, <2>3
<1>5. At(w, 0) = h /\ \A i \in 1..v.numItems : At(w, i) = At(v, i-1)
  <2>1. w.head = h /\ w.maxItems = v.maxItems /\ w.numItems = v.numItems + 1
    BY <1>2 DEF Vec
  <2>2. At(w, 0) = h
    BY <1>0, <1>1, <2>1 DEF At
  <2>3. ASSUME NEW i \in 1..v.numItems PROVE At(w, i) = At(v, i-1)
    <3>1. i \in Nat /\ i > 0 /\ i < v.maxItems /\ v.numItems # 0
          /\ h = IF v.head = 0 THEN v.maxItems - 1 ELSE v.head - 1
      BY <1>0, <1>1
    <3>2. /\ At(w, i) = IF h + i < v.maxItems THEN h + i ELSE h + i - v.maxItems
          /\ At(v, i-1) = IF v.head + (i-1) < v.maxItems THEN v.head + (i-1)
                          ELSE v.head + (i-1) - v.maxItems
      BY <2>1 DEF At
    <3>3. CASE v.head = 0
      BY <1>0, <3>1, <3>2, <3>3
    <3>4. CASE v.head # 0
      <4>1. v.head \in Nat /\ v.maxItems \in Nat /\ h = v.head - 1
        BY <1>0, <3>1, <3>4
      <4>2. h + i = v.head + (i-1)
        BY <3>1, <4>1
      <4>3. h + i \in Nat /\ v.head + (i-1) \in Nat
        BY <3>1, <4>1, <4>2
      <4>4. CASE h + i < v.maxItems
        BY <3>2, <4>1, <4>2, <4>3, <4>4
      <4>5. CASE ~(h + i < v.maxItems)
        BY <3>2, <4>1, <4>2, <4>3, <4>5
      <4> QED
        BY <4>4, <4>5
    <3> QED
      BY <3>3, <3>4
  <2> QED
    BY <2>2, <2>3
<1>6. ASSUME NEW i \in 1..v.numItems PROVE Cell(w, i) = Cell(v, i-1)
  <2>1. i-1 \in 0..(v.maxItems - 1) /\ i \in 0..(w.maxItems - 1) /\ i # 0
        /\ 0 \in 0..(w.maxItems - 1)
    BY <1>0, <1>2 DEF Vec
  <2>2. At(v, i-1) # h /\ At(v, i-1) \in 0..(v.maxItems - 1)
    BY <1>0, <1>3, <1>5, <2>1, AtInjective, AtInBlock
  <2> QED
    BY <1>0, <1>2, <1>5, <2>2 DEF Cell, Vec
<1>7. Cell(w, 0) = p
  BY <1>0, <1>1, <1>2, <1>5 DEF Cell, Vec
<1>8. w.numItems = v.numItems + 1
  BY <1>2 DEF Vec
<1> QED
  BY <1>3, <1>4, <1>6, <1>7, <1>8, OneMoreAtHead DEF w

\* PTRVEC_remHead drops the first item (ptrvec.c:177-190).
LEMMA TakeHeadOK ==
  ASSUME NEW v, Ring(v), v.numItems > 0
  PROVE  /\ Ring(TakeHead(v)) /\ LoopFwd(TakeHead(v)) = D!S!RemoveAt(LoopFwd(v), 1)
         /\ v.ptrArr[v.head] = LoopFwd(v)[1]
<1> DEFINE w == TakeHead(v)
           h == IF v.numItems > 1 THEN (v.head + 1) % v.maxItems ELSE v.head
<1>0. Sized(v) /\ Stretch(v) /\ Stored(v) /\ v.maxItems \in Nat /\ v.maxItems > 0
      /\ v.numItems \in Nat /\ v.numItems <= v.maxItems
      /\ v.head \in 0..(v.maxItems - 1) /\ v.tail \in 0..(v.maxItems - 1)
      /\ v.ptrArr \in [0..(v.maxItems - 1) -> Ptr \cup {Garbage}]
  BY RingFacts
<1>1. h = IF v.numItems = 1 THEN v.head
          ELSE IF v.head + 1 = v.maxItems THEN 0 ELSE v.head + 1
  <2>1. 1 \in 0..v.maxItems
    BY <1>0
  <2>2. (v.head + 1) % v.maxItems
        = IF v.head + 1 < v.maxItems THEN v.head + 1 ELSE v.head + 1 - v.maxItems
    BY <1>0, <2>1, ModSum
  <2> QED
    BY <1>0, <2>2
<1>2. w = Vec(v.ptrArr, v.maxItems, v.numItems - 1, h, v.tail)
  BY DEF TakeHead
<1> HIDE DEF w, h
<1>3. Sized(w)
  BY <1>0, <1>1, <1>2, SizesAssumption DEF Vec, Sized
<1>4. Stretch(w)
  <2>1. w.maxItems = v.maxItems /\ w.numItems = v.numItems - 1 /\ w.head = h
        /\ w.tail = v.tail
    BY <1>2 DEF Vec
  <2>2. CASE v.numItems = 1
    BY <1>0, <1>1, <2>1, <2>2 DEF Stretch, At
  <2>3. CASE v.numItems > 1
    <3>1. v.numItems \in 1..v.maxItems /\ v.numItems # 0 /\ w.numItems # 0
      BY <1>0, <2>1, <2>3
    <3>2. Ends(v.maxItems, v.numItems, v.head, v.tail)
      BY <1>0, <3>1, StretchIsEnds
    <3>3. Ends(v.maxItems, v.numItems - 1, IF v.head + 1 = v.maxItems THEN 0 ELSE v.head + 1, v.tail)
      BY <1>0, <2>3, <3>1, <3>2, EndsMove
    <3>4. Ends(v.maxItems, v.numItems - 1, h, v.tail)
      BY <1>0, <1>1, <2>3, <3>3
    <3> QED
      BY <2>1, <3>1, <3>4, EndsIsStretch
  <2> QED
    BY <1>0, <2>2, <2>3
<1>5. ASSUME NEW i \in 0..(v.numItems - 2) PROVE Cell(w, i) = Cell(v, i+1)
  <2>1. w.maxItems = v.maxItems /\ w.head = h /\ w.ptrArr = v.ptrArr
    BY <1>2 DEF Vec
  <2>2. i \in Nat /\ v.numItems > 1 /\ h = IF v.head + 1 = v.maxItems THEN 0 ELSE v.head + 1
    BY <1>0, <1>1
  <2>3. i \in 0..(v.maxItems - 2)
    BY <1>0
  <2>4. At(w, i) = At(v, i+1)
    <3>1. (IF h+i < v.maxItems THEN h+i ELSE h+i-v.maxItems)
          = IF v.head+(i+1) < v.maxItems THEN v.head+(i+1) ELSE v.head+(i+1)-v.maxItems
      BY <1>0, <2>2, <2>3, NextPlace
    <3> QED
      BY <2>1, <3>1, Zenon DEF At
  <2> QED
    BY <2>1, <2>4 DEF Cell
<1>6. w.numItems = v.numItems - 1 /\ 0 \in 0..(v.numItems - 1) /\ 0 + 1 = 1
      /\ \A i \in 0..(v.numItems - 2) : ~(i < 0)
  BY <1>0, <1>2 DEF Vec
<1>7. Ring(w) /\ LoopFwd(w) = D!S!RemoveAt(LoopFwd(v), 0 + 1)
  BY <1>3, <1>4, <1>5, <1>6, OneFewer
<1>8. v.ptrArr[v.head] = LoopFwd(v)[1]
  <2>1. 1 \in 1..v.numItems /\ 1-1 = 0 /\ At(v, 0) = v.head
    BY <1>0 DEF At
  <2> QED
    BY <2>1, LoopIsSeq DEF Cell
<1> QED
  BY <1>6, <1>7, <1>8 DEF w

\* PTRVEC_remTail drops the last item (ptrvec.c:206-219).
LEMMA TakeTailOK ==
  ASSUME NEW v, Ring(v), v.numItems > 0
  PROVE  /\ Ring(TakeTail(v))
         /\ LoopFwd(TakeTail(v)) = D!S!RemoveAt(LoopFwd(v), v.numItems)
         /\ v.ptrArr[v.tail] = LoopFwd(v)[v.numItems]
<1> DEFINE w == TakeTail(v)
           t == IF v.numItems > 1 THEN (v.tail + v.maxItems - 1) % v.maxItems ELSE v.tail
<1>0. Sized(v) /\ Stretch(v) /\ Stored(v) /\ v.maxItems \in Nat /\ v.maxItems > 0
      /\ v.numItems \in Nat /\ v.numItems <= v.maxItems
      /\ v.head \in 0..(v.maxItems - 1) /\ v.tail \in 0..(v.maxItems - 1)
      /\ v.ptrArr \in [0..(v.maxItems - 1) -> Ptr \cup {Garbage}]
  BY RingFacts
<1>1. t = IF v.numItems = 1 THEN v.tail
          ELSE IF v.tail = 0 THEN v.maxItems - 1 ELSE v.tail - 1
  <2>1. (v.tail + (v.maxItems - 1)) % v.maxItems
        = IF v.tail + (v.maxItems - 1) < v.maxItems THEN v.tail + (v.maxItems - 1)
          ELSE v.tail + (v.maxItems - 1) - v.maxItems
    <3>1. v.maxItems - 1 \in 0..v.maxItems
      BY <1>0
    <3> QED
      BY <1>0, <3>1, ModSum
  <2>2. v.tail + (v.maxItems - 1) = v.tail + v.maxItems - 1
    BY <1>0
  <2> QED
    BY <1>0, <2>1, <2>2
<1>2. w = Vec(v.ptrArr, v.maxItems, v.numItems - 1, v.head, t)
  BY DEF TakeTail
<1> HIDE DEF w, t
<1>3. Sized(w)
  BY <1>0, <1>1, <1>2, SizesAssumption DEF Vec, Sized
<1>4. Stretch(w)
  <2>1. w.maxItems = v.maxItems /\ w.numItems = v.numItems - 1 /\ w.head = v.head
        /\ w.tail = t
    BY <1>2 DEF Vec
  <2>2. CASE v.numItems = 1
    BY <1>0, <1>1, <2>1, <2>2 DEF Stretch, At
  <2>3. CASE v.numItems > 1
    <3>1. v.numItems \in 1..v.maxItems /\ v.numItems # 0 /\ w.numItems # 0
      BY <1>0, <2>1, <2>3
    <3>2. Ends(v.maxItems, v.numItems, v.head, v.tail)
      BY <1>0, <3>1, StretchIsEnds
    <3>3. Ends(v.maxItems, v.numItems - 1, v.head, IF v.tail = 0 THEN v.maxItems - 1 ELSE v.tail - 1)
      BY <1>0, <2>3, <3>1, <3>2, EndsMove
    <3>4. Ends(v.maxItems, v.numItems - 1, v.head, t)
      BY <1>0, <1>1, <2>3, <3>3
    <3> QED
      BY <2>1, <3>1, <3>4, EndsIsStretch
  <2> QED
    BY <1>0, <2>2, <2>3
<1>5. \A i \in 0..(v.numItems - 2) : Cell(w, i) = Cell(v, i)
  BY <1>2 DEF Cell, At, Vec
<1>6. w.numItems = v.numItems - 1 /\ v.numItems - 1 \in 0..(v.numItems - 1)
      /\ (v.numItems - 1) + 1 = v.numItems
      /\ \A i \in 0..(v.numItems - 2) : i < v.numItems - 1
  BY <1>0, <1>2 DEF Vec
<1>7. Ring(w) /\ LoopFwd(w) = D!S!RemoveAt(LoopFwd(v), (v.numItems - 1) + 1)
  BY <1>3, <1>4, <1>5, <1>6, OneFewer
<1>8. v.ptrArr[v.tail] = LoopFwd(v)[v.numItems]
  <2>1. v.numItems \in 1..v.numItems /\ At(v, v.numItems - 1) = v.tail
    BY <1>0 DEF Stretch
  <2> QED
    BY <2>1, LoopIsSeq DEF Cell
<1> QED
  BY <1>6, <1>7, <1>8 DEF w

(* PTRVEC_remove: which slots the two moves shift. *)

Place(m, hd, i) == IF hd + i < m THEN hd + i ELSE hd + i - m

\* The slot of place i as a fact about numbers alone.
LEMMA AtIsPlace ==
  ASSUME NEW v, NEW i
  PROVE  At(v, i) = Place(v.maxItems, v.head, i)
  BY DEF At, Place

\* Moving the slots from ndx to tl down by one closes the gap at place i.
Down(m, n, hd, tl, i, ndx) ==
  /\ Ends(m, n-1, hd, tl-1) /\ tl - 1 \in 0..(m-1)
  /\ \A j \in 0..(n-2) :
       /\ Place(m, hd, j) \in 0..(m-1)
       /\ j < i => ~(ndx <= Place(m, hd, j) /\ Place(m, hd, j) < tl)
       /\ ~(j < i) => /\ ndx <= Place(m, hd, j) /\ Place(m, hd, j) < tl
                      /\ Place(m, hd, j) + 1 = Place(m, hd, j+1)

\* The numbers when the items behind the gap move down.
LEMMA MoveDown ==
  ASSUME NEW m \in Nat, NEW n \in 2..m, NEW hd \in 0..(m-1), NEW tl \in 0..(m-1),
         Ends(m, n, hd, tl), NEW i \in 0..(n-1), NEW ndx,
         ndx = Place(m, hd, i), ndx # hd, ndx # tl, ndx < tl
  PROVE  Down(m, n, hd, tl, i, ndx)
  BY DEF Ends, Place, Down

\* Otherwise the stretch wraps and ndx lies above hd: moving the slots from hd
\* to ndx up by one closes the gap.
Up(m, n, hd, tl, i, ndx) ==
  /\ Ends(m, n-1, hd+1, tl) /\ hd + 1 \in 0..(m-1)
  /\ \A j \in 0..(n-2) :
       /\ Place(m, hd+1, j) \in 0..(m-1)
       /\ j < i => /\ hd < Place(m, hd+1, j) /\ Place(m, hd+1, j) <= ndx
                   /\ Place(m, hd+1, j) - 1 = Place(m, hd, j)
       /\ ~(j < i) => /\ ~(hd < Place(m, hd+1, j) /\ Place(m, hd+1, j) <= ndx)
                      /\ Place(m, hd+1, j) = Place(m, hd, j+1)

\* The numbers when the items before the gap move up.
LEMMA MoveUp ==
  ASSUME NEW m \in Nat, NEW n \in 2..m, NEW hd \in 0..(m-1), NEW tl \in 0..(m-1),
         Ends(m, n, hd, tl), NEW i \in 0..(n-1), NEW ndx,
         ndx = Place(m, hd, i), ndx # hd, ndx # tl, ~(ndx < tl)
  PROVE  Up(m, n, hd, tl, i, ndx)
  BY DEF Ends, Place, Up

\* PTRVEC_remove closes the gap it makes (ptrvec.c:221-259).
LEMMA WithoutOK ==
  ASSUME NEW v, Ring(v), NEW i \in 0..(v.numItems - 1)
  PROVE  LET w == Without(v, At(v, i))
         IN  Ring(w) /\ LoopFwd(w) = D!S!RemoveAt(LoopFwd(v), i+1)
<1> DEFINE ndx == At(v, i)
           w == Without(v, ndx)
<1>0. Sized(v) /\ Stretch(v) /\ Stored(v) /\ v.maxItems \in Nat /\ v.maxItems > 0
      /\ v.numItems \in Nat /\ v.numItems > 0 /\ v.numItems <= v.maxItems
      /\ v.head \in 0..(v.maxItems - 1) /\ v.tail \in 0..(v.maxItems - 1)
      /\ v.ptrArr \in [0..(v.maxItems - 1) -> Ptr \cup {Garbage}]
      /\ DOMAIN v.ptrArr = 0..(v.maxItems - 1)
  <2>1. v.numItems > 0
    BY RingFacts
  <2> QED
    BY <2>1, RingFacts
<1>1. CASE v.numItems = 1
  <2>1. w = Vec(v.ptrArr, v.maxItems, v.numItems - 1, 0, 0)
    BY <1>1 DEF Without
  <2> HIDE DEF w, ndx
  <2>2. w.ptrArr = v.ptrArr /\ w.maxItems = v.maxItems /\ w.numItems = v.numItems - 1
        /\ w.head = 0 /\ w.tail = 0
    BY <2>1 DEF Vec
  <2>3. w.numItems = 0 /\ \A j \in 0..(v.numItems - 2) : FALSE
    BY <1>1, <2>2
  <2>4. Sized(w) /\ Stretch(w)
    BY <1>0, <2>2, <2>3, SizesAssumption DEF Sized, Stretch
  <2>5. Ring(w) /\ LoopFwd(w) = D!S!RemoveAt(LoopFwd(v), i+1)
    BY <2>2, <2>3, <2>4, OneFewer
  <2> QED
    BY <2>5 DEF w, ndx
<1>2. CASE v.numItems # 1 /\ ndx = v.head
  <2>1. w = TakeHead(v)
    <3>1. v.numItems > 1
      BY <1>0, <1>2
    <3> QED
      BY <1>2, <3>1 DEF Without, TakeHead
  <2>2. i = 0
    <3>1. At(v, 0) = v.head /\ 0 \in 0..(v.maxItems - 1) /\ i \in 0..(v.maxItems - 1)
      BY <1>0 DEF At
    <3> QED
      BY <1>0, <1>2, <3>1, AtInjective
  <2>3. Ring(w) /\ LoopFwd(w) = D!S!RemoveAt(LoopFwd(v), i+1)
    <3>1. i + 1 = 1
      BY <2>2
    <3> QED
      BY <1>0, <2>1, <3>1, TakeHeadOK
  <2> QED
    BY <2>3
<1>3. CASE v.numItems # 1 /\ ndx # v.head /\ ndx = v.tail
  <2>1. w = TakeTail(v)
    <3>1. v.numItems > 1
      BY <1>0, <1>3
    <3> QED
      BY <1>3, <3>1 DEF Without, TakeTail
  <2>2. i = v.numItems - 1
    <3>1. At(v, v.numItems - 1) = v.tail
      BY <1>0 DEF Stretch
    <3>2. v.numItems - 1 \in 0..(v.maxItems - 1) /\ i \in 0..(v.maxItems - 1)
      BY <1>0
    <3> QED
      BY <1>0, <1>3, <3>1, <3>2, AtInjective
  <2>3. Ring(w) /\ LoopFwd(w) = D!S!RemoveAt(LoopFwd(v), i+1)
    <3>1. i + 1 = v.numItems
      BY <1>0, <2>2
    <3> QED
      BY <1>0, <2>1, <3>1, TakeTailOK
  <2> QED
    BY <2>3
<1>4. CASE v.numItems # 1 /\ ndx # v.head /\ ndx # v.tail
  <2>0. v.numItems \in 2..v.maxItems /\ v.numItems # 0 /\ v.numItems - 1 # 0
    BY <1>0, <1>4
  <2>1. Ends(v.maxItems, v.numItems, v.head, v.tail)
    BY <1>0, <2>0, StretchIsEnds
  <2>2. ndx = Place(v.maxItems, v.head, i)
    BY AtIsPlace
  <2>3. CASE ndx < v.tail
    <3>1. w = Vec([k \in DOMAIN v.ptrArr |->
                     IF ndx <= k /\ k < v.tail THEN v.ptrArr[k + 1] ELSE v.ptrArr[k]],
                  v.maxItems, v.numItems - 1, v.head, v.tail - 1)
      BY <1>4, <2>3 DEF Without
    <3> HIDE DEF w, ndx
    <3>2. w.maxItems = v.maxItems /\ w.numItems = v.numItems - 1 /\ w.head = v.head
          /\ w.tail = v.tail - 1
          /\ w.ptrArr = [k \in DOMAIN v.ptrArr |->
                     IF ndx <= k /\ k < v.tail THEN v.ptrArr[k + 1] ELSE v.ptrArr[k]]
      BY <3>1 DEF Vec
    <3>3. /\ Ends(v.maxItems, v.numItems - 1, v.head, v.tail - 1)
          /\ v.tail - 1 \in 0..(v.maxItems - 1)
          /\ \A j \in 0..(v.numItems - 2) :
               /\ At(v, j) \in 0..(v.maxItems - 1)
               /\ j < i => ~(ndx <= At(v, j) /\ At(v, j) < v.tail)
               /\ ~(j < i) => /\ ndx <= At(v, j) /\ At(v, j) < v.tail
                              /\ At(v, j) + 1 = At(v, j+1)
      <4>1. Down(v.maxItems, v.numItems, v.head, v.tail, i, ndx)
        BY <1>0, <1>4, <2>0, <2>1, <2>2, <2>3, MoveDown
      <4> QED
        BY <4>1, AtIsPlace, Zenon DEF Down
    <3>4. Stretch(w)
      BY <2>0, <3>2, <3>3, EndsIsStretch
    <3>5. w.ptrArr \in [0..(v.maxItems - 1) -> Ptr \cup {Garbage}]
      BY <1>0, <3>2
    <3>6. Sized(w)
      BY <1>0, <2>0, <3>2, <3>3, <3>5, SizesAssumption DEF Sized
    <3>7. ASSUME NEW j \in 0..(v.numItems - 2)
          PROVE  Cell(w, j) = IF j < i THEN Cell(v, j) ELSE Cell(v, j+1)
      <4>1. At(w, j) = At(v, j)
        BY <3>2 DEF At
      <4> QED
        BY <1>0, <3>2, <3>3, <4>1 DEF Cell
    <3>8. Ring(w) /\ LoopFwd(w) = D!S!RemoveAt(LoopFwd(v), i+1)
      BY <3>2, <3>4, <3>6, <3>7, OneFewer
    <3> QED
      BY <3>8 DEF w, ndx
  <2>4. CASE ~(ndx < v.tail)
    <3>1. w = Vec([k \in DOMAIN v.ptrArr |->
                     IF v.head < k /\ k <= ndx THEN v.ptrArr[k - 1] ELSE v.ptrArr[k]],
                  v.maxItems, v.numItems - 1, v.head + 1, v.tail)
      BY <1>4, <2>4 DEF Without
    <3> HIDE DEF w, ndx
    <3>2. w.maxItems = v.maxItems /\ w.numItems = v.numItems - 1 /\ w.head = v.head + 1
          /\ w.tail = v.tail
          /\ w.ptrArr = [k \in DOMAIN v.ptrArr |->
                     IF v.head < k /\ k <= ndx THEN v.ptrArr[k - 1] ELSE v.ptrArr[k]]
      BY <3>1 DEF Vec
    <3>3. /\ Ends(v.maxItems, v.numItems - 1, v.head + 1, v.tail)
          /\ v.head + 1 \in 0..(v.maxItems - 1)
          /\ \A j \in 0..(v.numItems - 2) :
               /\ At(w, j) \in 0..(v.maxItems - 1)
               /\ j < i => /\ v.head < At(w, j) /\ At(w, j) <= ndx
                           /\ At(w, j) - 1 = At(v, j)
               /\ ~(j < i) => /\ ~(v.head < At(w, j) /\ At(w, j) <= ndx)
                              /\ At(w, j) = At(v, j+1)
      <4>1. Up(v.maxItems, v.numItems, v.head, v.tail, i, ndx)
        BY <1>0, <1>4, <2>0, <2>1, <2>2, <2>4, MoveUp
      <4>2. \A j : At(w, j) = Place(v.maxItems, v.head + 1, j)
        BY <3>2, AtIsPlace, Zenon
      <4> QED
        BY <4>1, <4>2, AtIsPlace, Zenon DEF Up
    <3>4. Stretch(w)
      BY <2>0, <3>2, <3>3, EndsIsStretch
    <3>5. w.ptrArr \in [0..(v.maxItems - 1) -> Ptr \cup {Garbage}]
      <4>1. ASSUME NEW k \in 0..(v.maxItems - 1)
            PROVE  (IF v.head < k /\ k <= ndx THEN v.ptrArr[k - 1] ELSE v.ptrArr[k])
                   \in Ptr \cup {Garbage}
        <5>1. v.head < k => k - 1 \in 0..(v.maxItems - 1)
          BY <1>0
        <5> QED
          BY <1>0, <5>1
      <4> QED
        BY <1>0, <3>2, <4>1
    <3>6. Sized(w)
      BY <1>0, <2>0, <3>2, <3>3, <3>5, SizesAssumption DEF Sized
    <3>7. ASSUME NEW j \in 0..(v.numItems - 2)
          PROVE  Cell(w, j) = IF j < i THEN Cell(v, j) ELSE Cell(v, j+1)
      BY <1>0, <3>2, <3>3 DEF Cell
    <3>8. Ring(w) /\ LoopFwd(w) = D!S!RemoveAt(LoopFwd(v), i+1)
      BY <3>2, <3>4, <3>6, <3>7, OneFewer
    <3> QED
      BY <3>8 DEF w, ndx
  <2> QED
    BY <2>3, <2>4
<1> QED
  BY <1>1, <1>2, <1>3, <1>4

----------------------------------------------------------------------------
(* Room *)

\* Where place i of a stretch of num slots lies once the block has n slots, and
\* from which old slot it was filled.
Moved(m, n, hd, tl, h, i) ==
  LET q == Place(n, h, i)  q0 == Place(m, hd, i)
  IN  /\ q \in 0..(n-1) /\ q0 \in 0..(m-1)
      /\ ~(hd > tl) => q = q0
      /\ hd > tl /\ q >= n - (m - hd) => q - n + m = q0
      /\ hd > tl /\ ~(q >= n - (m - hd)) => q = q0

\* Where the items are after the head part has moved to the end.
LEMMA MovedPlace ==
  ASSUME NEW m \in Nat, NEW num \in 1..m, NEW hd \in 0..(m-1), NEW tl \in 0..(m-1),
         Ends(m, num, hd, tl), NEW n \in Nat, m <= n, NEW i \in 0..(num-1), NEW h,
         h = IF hd > tl THEN n - (m - hd) ELSE hd
  PROVE  Moved(m, n, hd, tl, h, i)
  BY DEF Ends, Place, Moved

\* A larger block keeps every item: those before the end of the old block stay
\* at their distance from its end, those that wrapped stay at their index.
LEMMA ResizedOK ==
  ASSUME NEW v, Ring(v), NEW n \in Nat, v.maxItems <= n, n <= HeapMax
  PROVE  LET w == Resized(v, n)
         IN  /\ Ring(w) /\ LoopFwd(w) = LoopFwd(v)
             /\ w.maxItems = n /\ w.numItems = v.numItems
<1> DEFINE w == Resized(v, n)
           kept(k) == IF k < v.maxItems /\ k < n THEN v.ptrArr[k] ELSE Garbage
           wraps == v.head > v.tail
           headSize == v.maxItems - v.head
           moved(k) == IF k >= n - headSize THEN kept(k - n + v.maxItems) ELSE kept(k)
           arr == [k \in 0..(n-1) |-> IF wraps THEN moved(k) ELSE kept(k)]
           h == IF wraps THEN n - headSize ELSE v.head
<1>0. Sized(v) /\ Stretch(v) /\ Stored(v) /\ v.maxItems \in Nat /\ v.maxItems > 0
      /\ v.numItems \in Nat /\ v.numItems <= v.maxItems
      /\ v.head \in 0..(v.maxItems - 1) /\ v.tail \in 0..(v.maxItems - 1)
      /\ v.ptrArr \in [0..(v.maxItems - 1) -> Ptr \cup {Garbage}]
  BY RingFacts
<1>1. w = Vec(arr, n, v.numItems, h, v.tail)
  BY DEF Resized
<1>2. w.maxItems = n /\ w.numItems = v.numItems /\ w.head = h /\ w.tail = v.tail
      /\ w.ptrArr = arr
  BY <1>1 DEF Vec
<1> HIDE DEF w
<1>3. arr \in [0..(n-1) -> Ptr \cup {Garbage}]
  <2>1. ASSUME NEW k \in 0..(n-1), k < v.maxItems PROVE v.ptrArr[k] \in Ptr \cup {Garbage}
    BY <1>0, <2>1
  <2>2. ASSUME NEW k \in 0..(n-1), k >= n - headSize, k - n + v.maxItems < v.maxItems
        PROVE  v.ptrArr[k - n + v.maxItems] \in Ptr \cup {Garbage}
    <3>1. k - n + v.maxItems \in 0..(v.maxItems - 1)
      BY <1>0, <2>2
    <3> QED
      BY <1>0, <3>1
  <2>3. \A k \in 0..(n-1) : (IF wraps THEN moved(k) ELSE kept(k)) \in Ptr \cup {Garbage}
    BY <2>1, <2>2
  <2> QED
    BY <2>3
<1>4. h \in 0..(n-1) /\ v.tail \in 0..(n-1)
  BY <1>0
<1>5. Sized(w)
  BY <1>0, <1>2, <1>3, <1>4, SizesAssumption DEF Sized
<1>6. CASE v.numItems = 0
  <2>1. Stretch(w)
    BY <1>0, <1>2, <1>6 DEF Stretch
  <2>2. \A i \in 0..(v.numItems - 1) : Cell(w, i) = Cell(v, i)
    BY <1>6
  <2> QED
    BY <1>2, <1>5, <2>1, <2>2, SameItems DEF w
<1>7. CASE v.numItems > 0
  <2>1. Ends(v.maxItems, v.numItems, v.head, v.tail)
    BY <1>0, <1>7, StretchIsEnds
  <2>2. Ends(n, v.numItems, h, v.tail)
    BY <1>0, <1>7, <2>1 DEF Ends
  <2>3. Stretch(w)
    BY <1>2, <1>7, <2>2, EndsIsStretch
  <2>4. ASSUME NEW i \in 0..(v.numItems - 1) PROVE Cell(w, i) = Cell(v, i)
    <3>1. /\ Place(n, h, i) \in 0..(n-1)
          /\ Place(v.maxItems, v.head, i) \in 0..(v.maxItems - 1)
          /\ ~wraps => Place(n, h, i) = Place(v.maxItems, v.head, i)
          /\ wraps /\ Place(n, h, i) >= n - headSize =>
               Place(n, h, i) - n + v.maxItems = Place(v.maxItems, v.head, i)
          /\ wraps /\ ~(Place(n, h, i) >= n - headSize) =>
               Place(n, h, i) = Place(v.maxItems, v.head, i)
      <4>1. v.numItems \in 1..v.maxItems
        BY <1>0, <1>7
      <4>2. Moved(v.maxItems, n, v.head, v.tail, h, i)
        BY <1>0, <2>1, <4>1, MovedPlace
      <4> QED
        BY <4>2 DEF Moved
    <3>2. At(w, i) = Place(n, h, i) /\ At(v, i) = Place(v.maxItems, v.head, i)
      BY <1>2, AtIsPlace, Zenon
    <3> DEFINE q == Place(n, h, i)
               q0 == Place(v.maxItems, v.head, i)
    <3>3. arr[q] = v.ptrArr[q0]
      <4> HIDE DEF q, q0, h
      <4>1. q \in 0..(n-1) /\ q0 \in 0..(v.maxItems - 1) /\ q0 < v.maxItems /\ q0 < n
        BY <1>0, <3>1 DEF q, q0
      <4>2. arr[q] = IF wraps THEN moved(q) ELSE kept(q)
        BY <4>1
      <4>3. CASE ~wraps
        BY <3>1, <4>1, <4>2, <4>3 DEF q, q0
      <4>4. CASE wraps /\ q >= n - headSize
        BY <3>1, <4>1, <4>2, <4>4 DEF q, q0
      <4>5. CASE wraps /\ ~(q >= n - headSize)
        BY <3>1, <4>1, <4>2, <4>5 DEF q, q0
      <4> QED
        BY <4>3, <4>4, <4>5
    <3> QED
      BY <1>2, <3>2, <3>3, Zenon DEF Cell
  <2> QED
    BY <1>2, <1>5, <2>3, <2>4, SameItems DEF w
<1> QED
  BY <1>0, <1>6, <1>7

\* What a resize to at least the present capacity may leave.
Kept(v, o) ==
  /\ o.rc \in {0, 1}
  /\ Ring(o.vec) /\ LoopFwd(o.vec) = LoopFwd(v)
  /\ o.vec.numItems = v.numItems /\ o.vec.maxItems >= v.maxItems

\* A block that has grown holds the same items (ptrvec.c:133-160).
LEMMA ResizeOK ==
  ASSUME NEW v, Ring(v), NEW n \in Nat, v.maxItems <= n, NEW o \in resize(v, n)
  PROVE  Kept(v, o) /\ (o.rc = 0 => o.vec.maxItems = n)
<1>1. v.maxItems \in Nat /\ v.maxItems > 0 /\ n # 0 /\ v.maxItems >= v.maxItems
  BY RingFacts
<1>2. CASE o = Out(v, 1)
  <2>1. o.vec = v /\ o.rc = 1
    BY <1>2 DEF Out
  <2> QED
    BY <1>1, <2>1 DEF Kept
<1>3. CASE o = Out(Resized(v, n), 0) /\ n <= HeapMax
  <2>1. o.vec = Resized(v, n) /\ o.rc = 0
    BY <1>3 DEF Out
  <2>2. Ring(o.vec) /\ LoopFwd(o.vec) = LoopFwd(v)
        /\ o.vec.maxItems = n /\ o.vec.numItems = v.numItems
    BY <1>3, <2>1, ResizedOK
  <2> QED
    BY <1>1, <2>1, <2>2 DEF Kept
<1> QED
  BY <1>1, <1>2, <1>3 DEF resize

\* An addition either has room for one more item or knows that it has not.
LEMMA RoomOK ==
  ASSUME SafeSizes, NEW v, Ring(v), v.maxItems >= 4, NEW o \in Room(v)
  PROVE  Kept(v, o) /\ (o.rc = 0 => o.vec.numItems < o.vec.maxItems)
<1> DEFINE m == v.maxItems
<1>1. m \in Nat /\ m >= 4 /\ m <= HeapMax /\ v.numItems \in Nat /\ v.numItems <= m
      /\ HeapMax \in Nat
  BY RingFacts
<1>2. 2 * HeapMax < UintMod /\ UintMod \in Nat
  <2>1. 2 * HeapMax <= PtrSize * HeapMax
    BY <1>1, SizesAssumption DEF SafeSizes
  <2> QED
    BY <1>1, <2>1, SizesAssumption DEF SafeSizes
<1>3. Uint(m * 2) = m * 2 /\ Uint(m + m \div 2) = m + m \div 2
      /\ Uint(m + m \div 4) = m + m \div 4
  BY <1>1, <1>2 DEF Uint
<1>4. m * 2 \in Nat /\ m + m \div 2 \in Nat /\ m + m \div 4 \in Nat
      /\ m < m * 2 /\ m < m + m \div 2 /\ m < m + m \div 4
  BY <1>1
<1>5. CASE v.numItems # m
  <2>1. o = Out(v, 0)
    BY <1>5 DEF Room
  <2>2. o.vec = v /\ o.rc = 0
    BY <2>1 DEF Out
  <2> QED
    BY <1>1, <1>5, <2>2 DEF Kept
<1>6. CASE v.numItems = m
  <2>1. o \in resize(v, m * 2) \/ o \in resize(v, m + m \div 2)
        \/ o \in resize(v, m + m \div 4)
    BY <1>3, <1>6 DEF Room, grow, OrElse
  <2> QED
    BY <1>1, <1>4, <1>6, <2>1, ResizeOK DEF Kept
<1> QED
  BY <1>5, <1>6

----------------------------------------------------------------------------
(* Clearing, refilling, building *)

\* A vector with no items is well formed when head and tail agree.
LEMMA EmptyOK ==
  ASSUME NEW v, Sized(v), v.numItems = 0, v.head = v.tail
  PROVE  Ring(v) /\ LoopFwd(v) = <<>>
<1>1. Ring(v)
  BY DEF Ring, Stretch, Stored
<1>2. LoopFwd(v) \in Seq(Ptr) /\ Len(LoopFwd(v)) = 0
  BY <1>1, LoopIsSeq
<1> QED
  BY <1>1, <1>2, EmptySeq

\* PTRVEC_reset leaves no items.
LEMMA EmptiedOK ==
  ASSUME NEW v, Ring(v)
  PROVE  Ring(Emptied(v)) /\ LoopFwd(Emptied(v)) = <<>>
<1>1. Sized(Emptied(v)) /\ Emptied(v).numItems = 0 /\ Emptied(v).head = Emptied(v).tail
  BY RingFacts, SizesAssumption DEF Emptied, Vec, Sized
<1> QED
  BY <1>1, EmptyOK

\* PTRVEC_constructor leaves no items (ptrvec.c:79-88).
LEMMA BuiltOK ==
  LET w == Vec([k \in 0..(InitMaxItems - 1) |-> Garbage], InitMaxItems, 0, 0, 0)
  IN  Ring(w) /\ LoopFwd(w) = <<>> /\ w.maxItems = InitMaxItems
<1> DEFINE w == Vec([k \in 0..(InitMaxItems - 1) |-> Garbage], InitMaxItems, 0, 0, 0)
<1>1. Sized(w) /\ w.numItems = 0 /\ w.head = w.tail /\ w.maxItems = InitMaxItems
  BY SizesAssumption DEF Vec, Sized
<1> QED
  BY <1>1, EmptyOK

\* A zeroed vector has no items.
LEMMA ZeroedEmpty == LoopFwd(Zeroed) = <<>>
<1>1. Zeroed.numItems = 0
  BY DEF Zeroed, Vec
<1>2. LoopFwd(Zeroed) \in [1..0 -> {}]
  BY <1>1 DEF LoopFwd
<1> QED
  BY <1>2

\* Sorting leaves exactly the sequence qsort() made of the items.
LEMMA RefilledOK ==
  ASSUME NEW v, Ring(v), v.numItems > 0,
         NEW s \in [1..v.numItems -> Ptr]
  PROVE  /\ Ring(Refilled(v, s)) /\ LoopFwd(Refilled(v, s)) = s
         /\ Refilled(v, s).maxItems = v.maxItems
<1> DEFINE w == Refilled(v, s)
           n == v.numItems
<1>0. v.maxItems \in Nat /\ n \in Nat /\ n <= v.maxItems /\ v.maxItems <= HeapMax
      /\ HeapMax \in Nat /\ v.maxItems > 0
      /\ v.ptrArr \in [0..(v.maxItems - 1) -> Ptr \cup {Garbage}]
      /\ DOMAIN v.ptrArr = 0..(v.maxItems - 1)
  BY RingFacts
<1>1. Len(s) = n
  BY <1>0, FunctionIsSeq
<1>2. w.maxItems = v.maxItems /\ w.numItems = n /\ w.head = 0 /\ w.tail = n - 1
      /\ w.ptrArr = [k \in 0..(v.maxItems - 1) |->
                       IF k < n THEN s[k + 1] ELSE v.ptrArr[k]]
  BY <1>0, <1>1 DEF Refilled, Vec
<1> HIDE DEF w
<1>3. \A k \in 0..(v.maxItems - 1) :
        (IF k < n THEN s[k + 1] ELSE v.ptrArr[k]) \in Ptr \cup {Garbage}
  BY <1>0
<1>4. w.ptrArr \in [0..(v.maxItems - 1) -> Ptr \cup {Garbage}]
  BY <1>2, <1>3
<1>5. Sized(w)
  BY <1>0, <1>2, <1>4, SizesAssumption DEF Sized
<1>6. \A i \in 0..(n - 1) : At(w, i) = i /\ Cell(w, i) = s[i + 1]
  BY <1>0, <1>2 DEF At, Cell
<1>7. Stretch(w)
  BY <1>0, <1>2, <1>6 DEF Stretch
<1>8. \A i \in 0..(n - 1) : s[i + 1] \in Ptr
  BY <1>0
<1>9. Ring(w)
  BY <1>2, <1>5, <1>6, <1>7, <1>8 DEF Ring, Stored
<1>10. LoopFwd(w) \in [1..n -> Ptr] /\ \A i \in 1..n : LoopFwd(w)[i] = s[i]
  BY <1>0, <1>2, <1>6, <1>9, LoopIsSeq
<1>11. LoopFwd(w) = s
  BY <1>0, <1>10, FunctionsEqual
<1> QED
  BY <1>2, <1>9, <1>11 DEF w

----------------------------------------------------------------------------
(* The inductive invariant: RingShape says nothing of capacities, and a    *)
(* vector that had shrunk below four slots could not grow; TypeOK says     *)
(* nothing of which slots were stored to.                                  *)

RingInv ==
  /\ life \in {"raw", "live", "destroyed"}
  /\ ret \in Ptr \cup {NULL, 0, 1}
  /\ sortBuf_sz \in Nat /\ sortBuf = sortBuf_sz
  /\ life = "live" => Ring(vec) /\ vec.maxItems >= InitMaxItems
  /\ life # "live" => vec = Zeroed

\* The program starts where the deque does.
LEMMA InitOK == Init => RingInv /\ D!Init
  BY ZeroedEmpty DEF Init, RingInv, D!Init

\* Construction is the deque's.
LEMMA ConstructOK == RingInv /\ Construct => RingInv' /\ D!Construct
<1> SUFFICES ASSUME RingInv, Construct PROVE RingInv' /\ D!Construct
  OBVIOUS
<1>1. CASE /\ vec' = Vec([k \in 0..(InitMaxItems - 1) |-> Garbage], InitMaxItems, 0, 0, 0)
           /\ life' = "live" /\ ret' = 0
  <2>1. Ring(vec') /\ LoopFwd(vec') = <<>> /\ vec'.maxItems = InitMaxItems
    BY <1>1, BuiltOK
  <2>2. RingInv'
    BY <1>1, <2>1, SizesAssumption DEF RingInv, Construct
  <2> QED
    BY <1>1, <2>1, <2>2 DEF Construct, D!Construct
<1>2. CASE vec' = Zeroed /\ life' = "raw" /\ ret' = 1
  <2>1. RingInv'
    BY <1>2 DEF RingInv, Construct
  <2> QED
    BY <1>2, <2>1, ZeroedEmpty DEF Construct, D!Construct
<1> QED
  BY <1>1, <1>2 DEF Construct

\* Clearing is the deque's.
LEMMA ClearOK == RingInv /\ Clear => RingInv' /\ D!Clear
<1> SUFFICES ASSUME RingInv, Clear PROVE RingInv' /\ D!Clear
  OBVIOUS
<1>1. Ring(vec) /\ vec.maxItems >= InitMaxItems /\ life = "live"
  BY DEF RingInv, Clear
<1>2. Ring(vec') /\ LoopFwd(vec') = <<>> /\ vec'.maxItems = vec.maxItems
  <2>1. vec' = Emptied(vec) /\ Emptied(vec).maxItems = vec.maxItems
    BY DEF Clear, Emptied, Vec
  <2> QED
    BY <1>1, <2>1, EmptiedOK
<1>3. RingInv'
  BY <1>1, <1>2 DEF RingInv, Clear
<1> QED
  BY <1>2, <1>3 DEF Clear, D!Clear

\* What an addition does before it stores: room is made, or it is refused.
LEMMA AddRoom ==
  ASSUME SafeSizes, RingInv, life = "live", NEW o \in Room(vec)
  PROVE  /\ Ring(vec) /\ Ring(o.vec) /\ LoopFwd(o.vec) = LoopFwd(vec)
         /\ o.vec.maxItems >= InitMaxItems /\ o.rc \in {0, 1}
         /\ o.rc = 0 => o.vec.numItems < o.vec.maxItems
<1>1. Ring(vec) /\ vec.maxItems >= InitMaxItems
  BY DEF RingInv
<1>2. vec.maxItems >= 4 /\ vec.maxItems \in Nat /\ InitMaxItems \in Nat
  BY <1>1, RingFacts, SizesAssumption DEF SafeSizes
<1>3. Kept(vec, o) /\ (o.rc = 0 => o.vec.numItems < o.vec.maxItems)
  BY <1>1, <1>2, RoomOK
<1>4. o.vec.maxItems \in Nat
  BY <1>3, RingFacts DEF Kept
<1> QED
  BY <1>1, <1>2, <1>3, <1>4 DEF Kept

\* An addition at the tail is the deque's, growth included.
LEMMA AddTailOK ==
  ASSUME SafeSizes, NEW p \in Ptr
  PROVE  RingInv /\ AddTail(p) => RingInv' /\ D!AddTail(p)
<1> SUFFICES ASSUME RingInv, AddTail(p) PROVE RingInv' /\ D!AddTail(p)
  OBVIOUS
<1>1. life = "live" /\ life' = life /\ sortBuf' = sortBuf /\ sortBuf_sz' = sortBuf_sz
  BY DEF AddTail, Add
<1>2. PICK o \in Room(vec) :
        \/ o.rc = 1 /\ vec' = o.vec /\ ret' = NULL
        \/ o.rc = 0 /\ vec' = PutTail(o.vec, p) /\ ret' = p
  BY DEF AddTail, Add
<1>3. /\ Ring(vec) /\ Ring(o.vec) /\ LoopFwd(o.vec) = LoopFwd(vec)
      /\ o.vec.maxItems >= InitMaxItems /\ o.rc \in {0, 1}
      /\ o.rc = 0 => o.vec.numItems < o.vec.maxItems
  BY <1>1, AddRoom
<1>4. CASE o.rc = 1 /\ vec' = o.vec /\ ret' = NULL
  <2>1. RingInv'
    BY <1>1, <1>3, <1>4 DEF RingInv
  <2> QED
    BY <1>1, <1>3, <1>4, <2>1 DEF D!AddTail
<1>5. CASE o.rc = 0 /\ vec' = PutTail(o.vec, p) /\ ret' = p
  <2>1. Ring(vec') /\ LoopFwd(vec') = Append(LoopFwd(vec), p)
    BY <1>3, <1>5, PutTailOK
  <2>2. vec'.maxItems = o.vec.maxItems
    BY <1>5 DEF PutTail, Vec
  <2>3. RingInv'
    BY <1>1, <1>3, <1>5, <2>1, <2>2 DEF RingInv
  <2> QED
    BY <1>1, <1>5, <2>1, <2>3 DEF D!AddTail
<1> QED
  BY <1>2, <1>4, <1>5

\* An addition at the head is the deque's, growth included.
LEMMA AddHeadOK ==
  ASSUME SafeSizes, NEW p \in Ptr
  PROVE  RingInv /\ AddHead(p) => RingInv' /\ D!AddHead(p)
<1> SUFFICES ASSUME RingInv, AddHead(p) PROVE RingInv' /\ D!AddHead(p)
  OBVIOUS
<1>1. life = "live" /\ life' = life /\ sortBuf' = sortBuf /\ sortBuf_sz' = sortBuf_sz
  BY DEF AddHead, Add
<1>2. PICK o \in Room(vec) :
        \/ o.rc = 1 /\ vec' = o.vec /\ ret' = NULL
        \/ o.rc = 0 /\ vec' = PutHead(o.vec, p) /\ ret' = p
  BY DEF AddHead, Add
<1>3. /\ Ring(vec) /\ Ring(o.vec) /\ LoopFwd(o.vec) = LoopFwd(vec)
      /\ o.vec.maxItems >= InitMaxItems /\ o.rc \in {0, 1}
      /\ o.rc = 0 => o.vec.numItems < o.vec.maxItems
  BY <1>1, AddRoom
<1>4. CASE o.rc = 1 /\ vec' = o.vec /\ ret' = NULL
  <2>1. RingInv'
    BY <1>1, <1>3, <1>4 DEF RingInv
  <2> QED
    BY <1>1, <1>3, <1>4, <2>1 DEF D!AddHead
<1>5. CASE o.rc = 0 /\ vec' = PutHead(o.vec, p) /\ ret' = p
  <2>1. Ring(vec') /\ LoopFwd(vec') = <<p>> \o LoopFwd(vec)
    BY <1>3, <1>5, PutHeadOK
  <2>2. vec'.maxItems = o.vec.maxItems
    BY <1>5 DEF PutHead, Vec
  <2>3. RingInv'
    BY <1>1, <1>3, <1>5, <2>1, <2>2 DEF RingInv
  <2> QED
    BY <1>1, <1>5, <2>1, <2>3 DEF D!AddHead
<1> QED
  BY <1>2, <1>4, <1>5

\* Dropping the first or last place of a sequence is what Deque calls it.
LEMMA DropEnds ==
  ASSUME NEW s \in Seq(Ptr), s # <<>>
  PROVE  /\ D!S!RemoveAt(s, 1) = Tail(s)
         /\ D!S!RemoveAt(s, Len(s)) = D!S!Front(s)
<1>1. Len(s) \in Nat /\ Len(s) > 0 /\ \A i \in 1..Len(s) : s[i] \in Ptr
  BY LenProperties, EmptySeq
<1>2. SubSeq(s, 1, 1-1) = <<>> /\ SubSeq(s, Len(s)+1, Len(s)) = <<>>
  BY <1>1, SubSeqEmpty
<1>3. Tail(s) = SubSeq(s, 1+1, Len(s))
  BY TailIsSubSeq
<1>4. Tail(s) \in Seq(Ptr)
  BY HeadTailProperties
<1>5. SubSeq(s, 1, Len(s)-1) \in Seq(Ptr)
  <2>1. \A i \in 1..(Len(s)-1) : s[i] \in Ptr
    BY <1>1
  <2>2. 1 \in Int /\ Len(s)-1 \in Int
    BY <1>1
  <2> QED
    BY <2>1, <2>2, SubSeqProperties
<1>6. D!S!RemoveAt(s, 1) = Tail(s)
  <2>1. D!S!RemoveAt(s, 1) = SubSeq(s, 1, 1-1) \o SubSeq(s, 1+1, Len(s))
    BY DEF D!S!RemoveAt
  <2> QED
    BY <1>2, <1>3, <1>4, <2>1, ConcatEmptySeq
<1>7. D!S!RemoveAt(s, Len(s)) = D!S!Front(s)
  <2>1. D!S!RemoveAt(s, Len(s)) = SubSeq(s, 1, Len(s)-1) \o SubSeq(s, Len(s)+1, Len(s))
    BY DEF D!S!RemoveAt
  <2> QED
    BY <1>2, <1>5, <2>1, ConcatEmptySeq DEF D!S!Front
<1> QED
  BY <1>6, <1>7

\* A removal at the head is the deque's.
LEMMA RemHeadOK == RingInv /\ RemHead => RingInv' /\ D!RemHead
<1> SUFFICES ASSUME RingInv, RemHead PROVE RingInv' /\ D!RemHead
  OBVIOUS
<1>1. Ring(vec) /\ vec.maxItems >= InitMaxItems /\ life = "live" /\ life' = life
      /\ sortBuf' = sortBuf /\ sortBuf_sz' = sortBuf_sz /\ sortBuf_sz \in Nat /\ sortBuf = sortBuf_sz
  BY DEF RingInv, RemHead
<1>2. LoopFwd(vec) \in Seq(Ptr) /\ Len(LoopFwd(vec)) = vec.numItems /\ vec.numItems \in Nat
      /\ \A i \in 1..vec.numItems : LoopFwd(vec)[i] \in Ptr
  BY <1>1, LoopIsSeq
<1>3. CASE vec.numItems = 0 /\ ret' = NULL /\ vec' = vec
  <2>1. LoopFwd(vec) = <<>>
    BY <1>2, <1>3, EmptySeq
  <2>2. RingInv'
    BY <1>1, <1>3 DEF RingInv
  <2> QED
    BY <1>1, <1>3, <2>1, <2>2 DEF D!RemHead
<1>4. CASE vec.numItems > 0 /\ ret' = vec.ptrArr[vec.head] /\ vec' = TakeHead(vec)
  <2>1. /\ Ring(vec') /\ LoopFwd(vec') = D!S!RemoveAt(LoopFwd(vec), 1)
        /\ ret' = LoopFwd(vec)[1]
    BY <1>1, <1>4, TakeHeadOK
  <2>2. vec'.maxItems = vec.maxItems /\ ret' \in Ptr /\ LoopFwd(vec) # <<>>
    <3>1. 1 \in 1..vec.numItems
      BY <1>2, <1>4
    <3>2. vec'.maxItems = vec.maxItems
      BY <1>4 DEF TakeHead, Vec
    <3>3. LoopFwd(vec) # <<>>
      BY <1>2, <1>4, EmptySeq
    <3> QED
      BY <1>2, <2>1, <3>1, <3>2, <3>3
  <2>3. RingInv'
    BY <1>1, <2>1, <2>2 DEF RingInv
  <2>4. LoopFwd(vec') = Tail(LoopFwd(vec))
    BY <1>2, <2>1, <2>2, DropEnds
  <2> QED
    BY <1>1, <2>1, <2>2, <2>3, <2>4 DEF D!RemHead
<1> QED
  BY <1>3, <1>4 DEF RemHead

\* A removal at the tail is the deque's.
LEMMA RemTailOK == RingInv /\ RemTail => RingInv' /\ D!RemTail
<1> SUFFICES ASSUME RingInv, RemTail PROVE RingInv' /\ D!RemTail
  OBVIOUS
<1>1. Ring(vec) /\ vec.maxItems >= InitMaxItems /\ life = "live" /\ life' = life
      /\ sortBuf' = sortBuf /\ sortBuf_sz' = sortBuf_sz /\ sortBuf_sz \in Nat /\ sortBuf = sortBuf_sz
  BY DEF RingInv, RemTail
<1>2. LoopFwd(vec) \in Seq(Ptr) /\ Len(LoopFwd(vec)) = vec.numItems /\ vec.numItems \in Nat
      /\ \A i \in 1..vec.numItems : LoopFwd(vec)[i] \in Ptr
  BY <1>1, LoopIsSeq
<1>3. CASE vec.numItems = 0 /\ ret' = NULL /\ vec' = vec
  <2>1. LoopFwd(vec) = <<>>
    BY <1>2, <1>3, EmptySeq
  <2>2. RingInv'
    BY <1>1, <1>3 DEF RingInv
  <2> QED
    BY <1>1, <1>3, <2>1, <2>2 DEF D!RemTail
<1>4. CASE vec.numItems > 0 /\ ret' = vec.ptrArr[vec.tail] /\ vec' = TakeTail(vec)
  <2>1. /\ Ring(vec') /\ LoopFwd(vec') = D!S!RemoveAt(LoopFwd(vec), Len(LoopFwd(vec)))
        /\ ret' = LoopFwd(vec)[Len(LoopFwd(vec))]
    BY <1>1, <1>2, <1>4, TakeTailOK
  <2>2. vec'.maxItems = vec.maxItems /\ ret' \in Ptr /\ LoopFwd(vec) # <<>>
    <3>1. Len(LoopFwd(vec)) \in 1..vec.numItems
      BY <1>2, <1>4
    <3>2. vec'.maxItems = vec.maxItems
      BY <1>4 DEF TakeTail, Vec
    <3>3. LoopFwd(vec) # <<>>
      BY <1>2, <1>4, EmptySeq
    <3> QED
      BY <1>2, <2>1, <3>1, <3>2, <3>3
  <2>3. RingInv'
    BY <1>1, <2>1, <2>2 DEF RingInv
  <2>4. LoopFwd(vec') = D!S!Front(LoopFwd(vec))
    BY <1>2, <2>1, <2>2, DropEnds
  <2> QED
    BY <1>1, <2>1, <2>2, <2>3, <2>4 DEF D!RemTail
<1> QED
  BY <1>3, <1>4 DEF RemTail

\* A removal by value is the deque's: the match nearest the head goes.
LEMMA RemoveOK ==
  ASSUME NEW p \in Ptr
  PROVE  RingInv /\ Remove(p) => RingInv' /\ D!Remove(p)
<1> SUFFICES ASSUME RingInv, Remove(p) PROVE RingInv' /\ D!Remove(p)
  OBVIOUS
<1> DEFINE n == vec.numItems
           s == LoopFwd(vec)
<1>1. Ring(vec) /\ vec.maxItems >= InitMaxItems /\ life = "live" /\ life' = life
      /\ sortBuf' = sortBuf /\ sortBuf_sz' = sortBuf_sz /\ sortBuf_sz \in Nat /\ sortBuf = sortBuf_sz
  BY DEF RingInv, Remove
<1>2. /\ n \in Nat /\ s \in Seq(Ptr) /\ Len(s) = n /\ DOMAIN s = 1..n
      /\ \A i \in 1..n : s[i] = Cell(vec, i-1)
  BY <1>1, LoopIsSeq
<1>3. \A i \in 0..(n-1) : SlotFwd(vec, i) = At(vec, i)
  <2>1. \A i \in 0..(n-1) : i \in 0..(vec.maxItems - 1)
    BY <1>1, RingFacts
  <2> QED
    BY <1>1, <2>1, SlotIsAt, RingFacts
\* Item number i, counted from 0, is found just when place i+1 holds p.
<1>4. \A i \in 1..n : i-1 \in Find(vec, p) <=> s[i] = p
  <2>1. \A i \in 0..(n-1) : vec.ptrArr[SlotFwd(vec, i)] = Cell(vec, i)
    BY <1>3 DEF Cell
  <2>2. \A i \in 1..n : i-1 \in 0..(n-1)
    BY <1>2
  <2> QED
    BY <1>2, <2>1, <2>2 DEF Find
<1>5. CASE Find(vec, p) = {} /\ ret' = NULL /\ vec' = vec
  <2>1. \A i \in DOMAIN s : s[i] # p
    BY <1>2, <1>4, <1>5
  <2>2. RingInv'
    BY <1>1, <1>5 DEF RingInv
  <2> QED
    BY <1>1, <1>5, <2>1, <2>2 DEF D!Remove
<1>6. ASSUME NEW i \in Find(vec, p), \A j \in Find(vec, p) : i <= j,
             vec' = Without(vec, SlotFwd(vec, i)), ret' = p
      PROVE  RingInv' /\ D!Remove(p)
  <2>1. i \in 0..(n-1) /\ i+1 \in 1..n /\ (i+1)-1 = i /\ i \in Nat
    BY <1>2 DEF Find
  <2>2. vec' = Without(vec, At(vec, i))
    BY <1>3, <1>6, <2>1
  <2>3. Ring(vec') /\ LoopFwd(vec') = D!S!RemoveAt(s, i+1)
    BY <1>1, <2>1, <2>2, WithoutOK
  <2>4. vec'.maxItems = vec.maxItems
    BY <2>2 DEF Without, Vec
  <2>5. RingInv'
    BY <1>1, <1>6, <2>3, <2>4 DEF RingInv
  <2>6. s[i+1] = p
    BY <1>4, <2>1
  <2>7. ASSUME NEW j \in 1..((i+1)-1) PROVE s[j] # p
    <3>1. j \in 1..n /\ ~(i <= j-1)
      BY <1>2, <2>1
    <3> QED
      BY <1>4, <1>6, <3>1
  <2> HIDE DEF s
  <2>8. i+1 \in DOMAIN s
    BY <1>2, <2>1
  <2>9. D!Remove(p)
    BY <1>1, <1>6, <2>3, <2>6, <2>7, <2>8, Zenon DEF D!Remove, s
  <2> QED
    BY <2>5, <2>9
<1> QED
  BY <1>5, <1>6 DEF Remove

\* A caller's resize changes no item.
LEMMA ResizeStepOK ==
  ASSUME ~ShrinkAllowed, NEW n \in Nat
  PROVE  RingInv /\ Resize(n) => RingInv' /\ D!Resize
<1> SUFFICES ASSUME RingInv, Resize(n) PROVE RingInv' /\ D!Resize
  OBVIOUS
<1>1. Ring(vec) /\ vec.maxItems >= InitMaxItems /\ life = "live" /\ life' = life
      /\ sortBuf' = sortBuf /\ sortBuf_sz' = sortBuf_sz /\ sortBuf_sz \in Nat /\ sortBuf = sortBuf_sz
  BY DEF RingInv, Resize
<1>2. PICK o \in resize(vec, n) : vec' = o.vec /\ ret' = o.rc
  BY DEF Resize
<1>3. vec.maxItems \in Nat /\ InitMaxItems \in Nat /\ vec.numItems \in Nat
  BY <1>1, RingFacts, SizesAssumption
<1>4. CASE n = 0 \/ n < vec.numItems
  <2>1. vec' = vec /\ ret' \in {0, 1}
    BY <1>2, <1>3, <1>4 DEF resize, Out
  <2>2. RingInv'
    BY <1>1, <2>1 DEF RingInv
  <2> QED
    BY <1>1, <2>1, <2>2 DEF D!Resize
<1>5. CASE vec.maxItems <= n
  <2>1. Kept(vec, o)
    BY <1>1, <1>2, <1>5, ResizeOK
  <2>2. Ring(vec') /\ LoopFwd(vec') = LoopFwd(vec) /\ ret' \in {0, 1}
        /\ vec'.maxItems >= vec.maxItems
    BY <1>2, <2>1 DEF Kept
  <2>3. vec'.maxItems \in Nat
    BY <2>2, RingFacts
  <2>4. RingInv'
    BY <1>1, <1>3, <2>2, <2>3 DEF RingInv
  <2> QED
    BY <1>1, <2>2, <2>4 DEF D!Resize
<1> QED
  BY <1>3, <1>4, <1>5 DEF Resize

\* Destruction is the deque's.
LEMMA DestroyOK == RingInv /\ Destroy => RingInv' /\ D!Destroy
  BY ZeroedEmpty DEF RingInv, Destroy, D!Destroy

\* The bytes of the items fit unsigned.
LEMMA BytesFit ==
  ASSUME SafeSizes, NEW num \in Nat, num <= HeapMax
  PROVE  Uint(PtrSize * num) = PtrSize * num /\ PtrSize * num \in Nat
<1>1. PtrSize \in Nat /\ HeapMax \in Nat /\ UintMod \in Nat
  BY SizesAssumption
<1>2. PtrSize * num <= PtrSize * HeapMax /\ PtrSize * num \in Nat
  BY <1>1
<1>3. PtrSize * HeapMax < UintMod /\ PtrSize * HeapMax \in Nat
  BY <1>1 DEF SafeSizes
<1>4. PtrSize * num < UintMod
  BY <1>1, <1>2, <1>3
<1> QED
  BY <1>1, <1>2, <1>4 DEF Uint

\* What is recorded of the scratch buffer stays true, and a sort that has one
\* has one that suffices.
LEMMA ScratchSuffices ==
  ASSUME NEW sz \in Nat, NEW buf \in Nat, NEW b \in Scratch(sz, buf, buf)
  PROVE  /\ b.sz \in Nat /\ b.buf = b.sz /\ b.rc \in {0, 1}
         /\ b.rc = 0 => b.buf >= sz
  BY DEF Scratch

\* Sorting is the deque's, and its buffer is big enough.
LEMMA SortOK ==
  ASSUME SafeSizes
  PROVE  RingInv /\ Sort => RingInv' /\ D!Sort
<1> SUFFICES ASSUME RingInv, Sort PROVE RingInv' /\ D!Sort
  OBVIOUS
<1> DEFINE s == LoopFwd(vec)
           n == vec.numItems
<1>1. Ring(vec) /\ vec.maxItems >= InitMaxItems /\ life = "live"
      /\ sortBuf_sz \in Nat /\ sortBuf = sortBuf_sz
  BY DEF RingInv, Sort
<1>2. n \in Nat /\ n <= HeapMax /\ s \in [1..n -> Ptr] /\ Len(s) = n /\ DOMAIN s = 1..n
  BY <1>1, LoopIsSeq, RingFacts
<1>3. CASE vec.numItems = 0 /\ ret' = 0 /\ UNCHANGED <<vec, sortBuf, sortBuf_sz, life>>
  <2>1. s \in Seq(Ptr) /\ s = <<>>
    BY <1>1, <1>3, LoopIsSeq, EmptySeq
  <2>2. s \in D!Qsort(s)
    <3>1. \A i, j \in DOMAIN s : i < j => Rank[s[i]] <= Rank[s[j]]
      BY <1>2, <1>3
    <3>2. s \in [1..Len(s) -> D!S!Range(s)]
      BY <1>2, <1>3 DEF D!S!Range
    <3> QED
      BY <3>1, <3>2 DEF D!Qsort, D!Ordered
  <2>3. RingInv'
    BY <1>1, <1>3 DEF RingInv
  <2> QED
    BY <1>1, <1>3, <2>2, <2>3 DEF D!Sort
<1>4. ASSUME vec.numItems > 0,
             NEW b \in Scratch(Uint(PtrSize * n), sortBuf, sortBuf_sz),
             sortBuf' = b.buf, sortBuf_sz' = b.sz, ret' = b.rc,
             b.rc = 1, UNCHANGED <<vec, life>>
      PROVE  RingInv' /\ D!Sort
  <2>1. b.sz \in Nat /\ b.buf = b.sz
    BY <1>1, <1>2, <1>4, BytesFit, ScratchSuffices
  <2>2. RingInv'
    BY <1>1, <1>4, <2>1 DEF RingInv
  <2> QED
    BY <1>1, <1>4, <2>2 DEF D!Sort
<1>5. ASSUME vec.numItems > 0,
             NEW b \in Scratch(Uint(PtrSize * n), sortBuf, sortBuf_sz),
             sortBuf' = b.buf, sortBuf_sz' = b.sz, ret' = b.rc,
             b.rc = 0, \E t \in D!Qsort(LoopFwd(vec)) : vec' = Refilled(vec, t),
             life' = IF b.buf >= PtrSize * vec.numItems THEN "live" ELSE "corrupt"
      PROVE  RingInv' /\ D!Sort
  <2>1. b.sz \in Nat /\ b.buf = b.sz /\ b.buf >= PtrSize * n
    BY <1>1, <1>2, <1>5, BytesFit, ScratchSuffices
  <2>2. PICK t \in D!Qsort(s) : vec' = Refilled(vec, t)
    BY <1>5
  <2>3. t \in [1..n -> Ptr]
    <3>1. t \in [1..Len(s) -> D!S!Range(s)]
      BY <2>2 DEF D!Qsort
    <3>2. \A x \in D!S!Range(s) : x \in Ptr
      BY <1>2 DEF D!S!Range
    <3> QED
      BY <1>2, <3>1, <3>2
  <2>4. Ring(vec') /\ LoopFwd(vec') = t /\ vec'.maxItems = vec.maxItems
    BY <1>1, <1>5, <2>2, <2>3, RefilledOK
  <2>5. RingInv'
    BY <1>1, <1>5, <2>1, <2>4 DEF RingInv
  <2> QED
    BY <1>1, <1>5, <2>1, <2>2, <2>4, <2>5 DEF D!Sort
<1> QED
  <2>1. CASE vec.numItems = 0
    BY <1>3, <2>1 DEF Sort
  <2>2. CASE vec.numItems > 0
    <3>1. PICK b \in Scratch(Uint(PtrSize * n), sortBuf, sortBuf_sz) :
            /\ sortBuf' = b.buf /\ sortBuf_sz' = b.sz /\ ret' = b.rc
            /\ \/ b.rc = 1 /\ UNCHANGED <<vec, life>>
               \/ /\ b.rc = 0
                  /\ \E t \in D!Qsort(LoopFwd(vec)) : vec' = Refilled(vec, t)
                  /\ life' = IF b.buf >= PtrSize * vec.numItems THEN "live" ELSE "corrupt"
      BY <2>2 DEF Sort
    <3> QED
      BY <1>4, <1>5, <2>2, <3>1
  <2> QED
    BY <1>2, <2>1, <2>2

----------------------------------------------------------------------------
(* PTRVEC_loopBkwd *)

\* Counting back from the tail meets counting on from the head.
LEMMA BackwardPlace ==
  ASSUME NEW m \in Nat, NEW n \in 1..m, NEW hd \in 0..(m-1), NEW tl \in 0..(m-1),
         Ends(m, n, hd, tl), NEW k \in 0..(n-1)
  PROVE  Place(m, hd, n-1-k) = IF tl + (m-k) < m THEN tl + (m-k) ELSE tl + (m-k) - m
  BY DEF Ends, Place

\* The backward traversal visits the forward one's items in reverse.
LEMMA BackwardOK ==
  ASSUME NEW v, Ring(v), NEW i \in 1..v.numItems
  PROVE  LoopBkwd(v)[i] = LoopFwd(v)[v.numItems + 1 - i]
<1> DEFINE n == v.numItems
           k == i - 1
<1>1. v.maxItems \in Nat /\ n \in Nat /\ n \in 1..v.maxItems /\ n # 0
      /\ v.head \in 0..(v.maxItems - 1) /\ v.tail \in 0..(v.maxItems - 1)
      /\ k \in 0..(n-1) /\ v.maxItems - k \in 0..v.maxItems /\ n + 1 - i \in 1..n
      /\ (n + 1 - i) - 1 = n - 1 - k
      /\ v.tail + v.maxItems - k = v.tail + (v.maxItems - k)
  BY RingFacts
<1>2. Ends(v.maxItems, n, v.head, v.tail)
  BY <1>1, StretchIsEnds, RingFacts
<1>3. (v.tail + (v.maxItems - k)) % v.maxItems = Place(v.maxItems, v.head, n-1-k)
  <2>1. (v.tail + (v.maxItems - k)) % v.maxItems
        = IF v.tail + (v.maxItems - k) < v.maxItems THEN v.tail + (v.maxItems - k)
          ELSE v.tail + (v.maxItems - k) - v.maxItems
    BY <1>1, ModSum
  <2>2. Place(v.maxItems, v.head, n-1-k)
        = IF v.tail + (v.maxItems - k) < v.maxItems THEN v.tail + (v.maxItems - k)
          ELSE v.tail + (v.maxItems - k) - v.maxItems
    BY <1>1, <1>2, BackwardPlace
  <2> QED
    BY <2>1, <2>2
<1>4. LoopBkwd(v)[i] = v.ptrArr[SlotBkwd(v, k)]
  BY DEF LoopBkwd
<1>5. SlotBkwd(v, k) = At(v, n-1-k)
  BY <1>1, <1>3, AtIsPlace DEF SlotBkwd
<1>6. LoopFwd(v)[n + 1 - i] = Cell(v, n-1-k)
  BY <1>1, LoopIsSeq
<1> QED
  BY <1>4, <1>5, <1>6 DEF Cell

----------------------------------------------------------------------------
(* The theorems *)

\* Every step keeps the invariant and is a step of the deque or stutters.
LEMMA StepOK == SafeClient /\ RingInv /\ [Next]_vars => RingInv' /\ [D!Next]_(D!vars)
<1> SUFFICES ASSUME SafeClient, RingInv, [Next]_vars
             PROVE  RingInv' /\ [D!Next]_(D!vars)
  OBVIOUS
<1>0. SafeSizes /\ ~ShrinkAllowed
  BY DEF SafeClient
<1>1. CASE Construct
  BY <1>1, ConstructOK DEF D!Next
<1>2. CASE Clear
  BY <1>2, ClearOK DEF D!Next
<1>3. CASE RemHead
  BY <1>3, RemHeadOK DEF D!Next
<1>4. CASE RemTail
  BY <1>4, RemTailOK DEF D!Next
<1>5. CASE Sort
  BY <1>0, <1>5, SortOK DEF D!Next
<1>6. CASE Destroy
  BY <1>6, DestroyOK DEF D!Next
<1>7. ASSUME NEW p \in Ptr, AddHead(p) PROVE RingInv' /\ D!Next
  BY <1>0, <1>7, AddHeadOK DEF D!Next
<1>8. ASSUME NEW p \in Ptr, AddTail(p) PROVE RingInv' /\ D!Next
  BY <1>0, <1>8, AddTailOK DEF D!Next
<1>9. ASSUME NEW p \in Ptr, Remove(p) PROVE RingInv' /\ D!Next
  BY <1>9, RemoveOK DEF D!Next
<1>10. ASSUME NEW n \in ResizeArgs, Resize(n) PROVE RingInv' /\ D!Next
  <2>1. n \in Nat
    BY ClientAssumption
  <2> QED
    BY <1>0, <1>10, <2>1, ResizeStepOK DEF D!Next
<1>11. CASE UNCHANGED vars
  <2>1. vec' = vec /\ sortBuf' = sortBuf /\ sortBuf_sz' = sortBuf_sz /\ life' = life /\ ret' = ret
    BY <1>11 DEF vars
  <2> QED
    BY <2>1 DEF RingInv, D!vars
<1> QED
  BY <1>1, <1>2, <1>3, <1>4, <1>5, <1>6, <1>7, <1>8, <1>9, <1>10, <1>11 DEF Next

\* The ring stays well formed through every history of calls and refusals of
\* memory, whatever the capacity asked for, if it is at least four.
THEOREM RingInvariant == SafeClient => (Spec => []RingInv)
<1> SUFFICES ASSUME SafeClient PROVE Spec => []RingInv
  OBVIOUS
<1>1. Init => RingInv
  BY InitOK
<1>2. RingInv /\ [Next]_vars => RingInv'
  BY StepOK
<1> QED
  BY <1>1, <1>2, PTL DEF Spec

\* numItems never exceeds the block and head and tail never leave it.
THEOREM TypeCorrect == SafeClient => (Spec => []TypeOK)
<1>1. RingInv => TypeOK
  <2> SUFFICES ASSUME RingInv PROVE TypeOK
    OBVIOUS
  <2>1. CASE life = "live"
    <3>1. Ring(vec)
      BY <2>1 DEF RingInv
    <3> QED
      BY <2>1, <3>1, RingFacts DEF RingInv, TypeOK, Slots
  <2>2. CASE life # "live"
    <3>1. vec.maxItems = 0 /\ vec.numItems = 0 /\ vec.ptrArr = <<>>
      BY <2>2 DEF RingInv, Zeroed, Vec
    <3>2. vec.ptrArr \in [0..(0-1) -> Ptr \cup {Garbage}]
      BY <3>1
    <3> QED
      BY <2>2, <3>1, <3>2, SizesAssumption DEF RingInv, TypeOK, Slots
  <2> QED
    BY <2>1, <2>2
<1> QED
  BY <1>1, RingInvariant, PTL

\* tail is the last slot of the stretch that head and numItems describe.
THEOREM RingShapeHolds == SafeClient => (Spec => []RingShape)
<1>1. RingInv => RingShape
  <2> SUFFICES ASSUME RingInv, life = "live", vec.numItems # 0
               PROVE  vec.tail = SlotFwd(vec, vec.numItems - 1)
    BY DEF RingInv, RingShape, Ring, Stretch
  <2>1. Ring(vec)
    BY DEF RingInv
  <2>2. vec.numItems - 1 \in 0..(vec.maxItems - 1)
    BY <2>1, RingFacts
  <2>3. SlotFwd(vec, vec.numItems - 1) = At(vec, vec.numItems - 1)
    BY <2>1, <2>2, SlotIsAt, RingFacts
  <2> QED
    BY <2>1, <2>3 DEF Ring, Stretch
<1> QED
  BY <1>1, RingInvariant, PTL

\* The two traversal macros visit the same items in opposite orders.
THEOREM TraversalsAgree == SafeClient => (Spec => []LoopsAgree)
<1>1. RingInv => LoopsAgree
  BY BackwardOK DEF RingInv, LoopsAgree
<1> QED
  BY <1>1, RingInvariant, PTL

\* The ring is sound: what every call relies on from those before it.
THEOREM RingStaysSound == SafeClient => (Spec => []RingSound)
<1>1. RingShape /\ LoopsAgree => RingSound
  BY DEF RingSound
<1> QED
  BY <1>1, RingShapeHolds, TraversalsAgree, PTL

\* No sort writes past its scratch buffer.
THEOREM SortStaysInBuffer == SafeClient => (Spec => []SortNeverOverruns)
<1>1. RingInv => SortNeverOverruns
  BY DEF RingInv, SortNeverOverruns
<1> QED
  BY <1>1, RingInvariant, PTL

\* Every call does to the items what ptrvec.h promises.
THEOREM PtrVecImplementsDeque == SafeClient => (Spec => ImplementsDeque)
<1> SUFFICES ASSUME SafeClient PROVE Spec => ImplementsDeque
  OBVIOUS
<1>1. Init => D!Init
  BY InitOK
<1>2. RingInv /\ [Next]_vars => [D!Next]_(D!vars)
  BY StepOK
<1>3. Spec => []RingInv
  BY RingInvariant
<1> QED
  BY <1>1, <1>2, <1>3, PTL DEF Spec, ImplementsDeque, D!Spec
=============================================================================
