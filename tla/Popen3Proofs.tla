---------------------------- MODULE Popen3Proofs ----------------------------
(***************************************************************************)
(* popen_3 and pclose_3 for any children, any number of descriptors and    *)
(* any of the standard streams closed at the start: a child runs with its  *)
(* pipes at its standard streams, is reaped, and leaves no descriptor      *)
(* behind.                                                                 *)
(***************************************************************************)
EXTENDS Popen3, FiniteSetTheorems, WellFoundedInduction, TLAPS

(* The inductive invariant *)

Table == [Fd -> NoEnd \cup End]

\* No end of c's pipes.
Foreign(t, c) == \A n \in Fd : t[n] \notin Ends(c, "child") \cup Ends(c, "parent")

\* The child's ends are there, each once, and none is in the way of the stream
\* that is attached before it.
OwnEnds(t, c) ==
  \A s \in Stream : \E n \in Fd :
    n >= s /\ \A m \in Fd : t[m] = EndOf(c, s, "child") <=> m = n

\* The streams are attached.
AttachedIn(t, c) ==
  /\ \A s \in Stream : t[s] = EndOf(c, s, "child")
  /\ AtAny(t, Ends(c, "parent")) = {}

Waiting == {"await", "sleep", "poll", "kill", "killed"}

Answer == Nat \cup {-1}

Types ==
  /\ fds \in [Proc -> Table]
  /\ state \in [Child -> {"none", "forked", "runs", "zombie", "reaped"}]
  /\ fd_arr \in [Child -> [Stream -> Int]]
  /\ pc \in {"idle", "aborted", "forked", "close"} \cup Waiting
  /\ ret \in [Child -> {NoAnswer} \cup Answer]

\* A call is for a child that has been started, not reaped and not answered
\* for, and one that was reaped is answered for.
CallInv ==
  /\ pc \notin {"idle", "aborted"} =>
       cur \in Child /\ state[cur] \in {"forked", "runs", "zombie"} /\ ret[cur] = NoAnswer
  /\ \A c \in Child : /\ state[c] = "none" => ret[c] = NoAnswer
                      /\ state[c] = "reaped" => ret[c] # NoAnswer

\* What descriptor n of the parent may be, when it is an end of a pipe of c.
ParentHolds(c, n) ==
  /\ \A s \in Stream : fds[Parent][n] = EndOf(c, s, "parent") =>
       /\ n = fd_arr[c][s] /\ ret[c] = NoAnswer
       /\ c = cur => pc \notin Waiting
  /\ fds[Parent][n] \in Ends(c, "child") => pc = "forked" /\ c = cur

\* A child's descriptors, by its state; and nobody has ends of pipes that were
\* not made yet.
ChildHolds(c) ==
  /\ state[c] \in {"none", "zombie", "reaped"} => fds[c] = [n \in Fd |-> Closed]
  /\ state[c] = "forked" => OwnEnds(fds[c], c)
  /\ state[c] = "runs" => AttachedIn(fds[c], c)
  /\ state[c] = "none" => Foreign(fds[Parent], c)

PopenInv ==
  /\ Types /\ CallInv
  /\ \A c \in Child, n \in Fd : ParentHolds(c, n)
  /\ \A c \in Child : ChildHolds(c)

----------------------------------------------------------------------------
(* The lowest free descriptors *)

\* The prefixes 1..n are ordered by strict inclusion, which is well founded.
LEMMA LeastOf ==
  ASSUME NEW T \in SUBSET Nat, T # {}
  PROVE  \E m \in T : \A n \in T : m <= n
<1> DEFINE Below == {1..n : n \in T}
           Order == StrictSubsetOrdering(Nat)
<1>1. IsWellFoundedOn(Order, FiniteSubsetsOf(Nat))
  BY FS_StrictSubsetOrderingWellFounded
<1>2. \A n \in T : 1..n \in SUBSET Nat /\ IsFiniteSet(1..n)
  BY FS_Interval
<1>3. Below \subseteq FiniteSubsetsOf(Nat)
  BY <1>2 DEF FiniteSubsetsOf
<1>4. Below # {}
  OBVIOUS
<1> HIDE DEF Below, Order
<1>5. PICK b \in Below : \A c \in Below : <<c, b>> \notin Order
  BY <1>1, <1>3, <1>4, WFMin
<1>6. PICK m \in T : b = 1..m
  BY DEF Below
<1>7. ASSUME NEW n \in T, n < m PROVE FALSE
  <2>1. 1..n \in SUBSET Nat /\ b \in SUBSET Nat /\ 1..n \subseteq b /\ 1..n # b
    <3>1. m \in 1..m /\ m \notin 1..n
      BY <1>7
    <3> QED
      BY <1>6, <1>7, <3>1
  <2>2. <<1..n, b>> \in Order
    BY <2>1 DEF Order, StrictSubsetOrdering
  <2>3. 1..n \in Below
    BY DEF Below
  <2> QED
    BY <1>5, <2>2, <2>3
<1> QED
  BY <1>7

\* A holds the j lowest numbers of T.
LowestIn(A, T, j) ==
  /\ A \subseteq T /\ IsFiniteSet(A) /\ Cardinality(A) = j
  /\ \A a \in A, x \in T : x < a => x \in A

LEMMA NextLowest ==
  ASSUME NEW T \in SUBSET Nat, NEW A, NEW j \in Nat, LowestIn(A, T, j), A # T
  PROVE  \E n \in T : {m \in T : m < n} = A /\ LowestIn(A \cup {n}, T, j + 1)
<1>1. PICK n \in T \ A : \A m \in T \ A : n <= m
  <2>1. T \ A \in SUBSET Nat /\ T \ A # {}
    BY DEF LowestIn
  <2> QED
    BY <2>1, LeastOf
<1>2. n \in Nat /\ A \subseteq Nat
  BY DEF LowestIn
<1>3. \A m \in T : m < n => m \in A
  BY <1>1, <1>2
<1>4. \A a \in A : a < n
  <2> SUFFICES ASSUME NEW a \in A, ~(a < n) PROVE FALSE
    OBVIOUS
  <2>1. n < a
    BY <1>1, <1>2
  <2> QED
    BY <1>1, <2>1 DEF LowestIn
<1>5. {m \in T : m < n} = A
  BY <1>3, <1>4 DEF LowestIn
<1>6. IsFiniteSet(A \cup {n}) /\ Cardinality(A \cup {n}) = j + 1
  BY <1>1, FS_AddElement DEF LowestIn
<1>7. \A a \in A \cup {n}, x \in T : x < a => x \in A \cup {n}
  BY <1>3 DEF LowestIn
<1>8. LowestIn(A \cup {n}, T, j + 1)
  BY <1>1, <1>6, <1>7 DEF LowestIn
<1> QED
  BY <1>1, <1>5, <1>8

LEMMA EachLowest ==
  ASSUME NEW T \in SUBSET Nat, IsFiniteSet(T), Cardinality(T) >= 6, NEW k \in 1..6
  PROVE  \E n \in T : Cardinality({m \in T : m < n}) = k - 1
<1> DEFINE Missing == {j \in 0..6 : \A A : ~LowestIn(A, T, j)}
<1>1. Cardinality(T) \in Nat
  BY FS_CardinalityType
<1>2. ASSUME Missing # {} PROVE FALSE
  <2>1. PICK j \in Missing : \A i \in Missing : j <= i
    <3>1. Missing \in SUBSET Nat
      OBVIOUS
    <3> QED
      BY <1>2, <3>1, LeastOf
  <2>2. j # 0
    <3>1. LowestIn({}, T, 0)
      BY FS_EmptySet DEF LowestIn
    <3> QED
      BY <3>1
  <2>3. j - 1 \in 0..5 /\ j - 1 \notin Missing
    BY <2>1, <2>2
  <2>4. PICK A : LowestIn(A, T, j - 1)
    BY <2>3
  <2>5. A # T
    BY <1>1, <2>3, <2>4 DEF LowestIn
  <2>6. \E n \in T : LowestIn(A \cup {n}, T, (j - 1) + 1)
    <3> DEFINE i == j - 1
    <3>1. i \in Nat /\ LowestIn(A, T, i)
      BY <2>3, <2>4
    <3> HIDE DEF i
    <3>2. \E n \in T : LowestIn(A \cup {n}, T, i + 1)
      BY <2>5, <3>1, NextLowest
    <3> QED
      BY <3>2 DEF i
  <2>7. (j - 1) + 1 = j
    BY <2>3
  <2> QED
    BY <2>1, <2>6, <2>7
<1>3. PICK A : LowestIn(A, T, k - 1)
  <2>1. k - 1 \in 0..6
    OBVIOUS
  <2> QED
    BY <1>2, <2>1
<1>4. A # T
  BY <1>1, <1>3 DEF LowestIn
<1>5. k - 1 \in Nat
  OBVIOUS
<1>6. PICK n \in T : {m \in T : m < n} = A
  BY <1>3, <1>4, <1>5, NextLowest
<1> QED
  BY <1>3, <1>6 DEF LowestIn

\* The k-th lowest free descriptor is one, there are k-1 below it, and no two
\* are the same.
LEMMA LowestFree ==
  ASSUME NEW t, Cardinality(Free(t)) >= 6
  PROVE  /\ \A k \in 1..6 : Lowest(t, k) \in Free(t) /\ Lowest(t, k) >= 0
         /\ \A k, l \in 1..6 : Lowest(t, k) = Lowest(t, l) => k = l
         /\ Lowest(t, 4) >= 1 /\ Lowest(t, 6) >= 2
<1>1. Free(t) \in SUBSET Nat /\ IsFiniteSet(Free(t))
  BY FdAssumption, FS_Subset DEF Free
<1> DEFINE Under(n) == {m \in Free(t) : m < n}
<1>2. \A k \in 1..6 : Lowest(t, k) \in Free(t) /\ Cardinality(Under(Lowest(t, k))) = k - 1
  <2> SUFFICES ASSUME NEW k \in 1..6
               PROVE  Lowest(t, k) \in Free(t) /\ Cardinality(Under(Lowest(t, k))) = k - 1
    OBVIOUS
  <2>1. \E n \in Free(t) : Cardinality({m \in Free(t) : m < n}) = k - 1
    BY <1>1, EachLowest
  <2> QED
    BY <2>1 DEF Lowest
<1>3. \A n \in Free(t), j \in 1..2 : n < j => Cardinality(Under(n)) <= 1
  <2> SUFFICES ASSUME NEW n \in Free(t), NEW j \in 1..2, n < j
               PROVE  Cardinality(Under(n)) <= 1
    OBVIOUS
  <2>1. Under(n) \subseteq {0}
    BY <1>1
  <2>2. IsFiniteSet({0}) /\ Cardinality({0}) = 1
    BY FS_Singleton
  <2> QED
    BY <2>1, <2>2, FS_Subset
<1>4. \A k, l \in 1..6 : Lowest(t, k) = Lowest(t, l) => k = l
  <2> SUFFICES ASSUME NEW k \in 1..6, NEW l \in 1..6, Lowest(t, k) = Lowest(t, l) PROVE k = l
    OBVIOUS
  <2>1. k - 1 = l - 1
    BY <1>2
  <2> QED
    BY <2>1
<1> HIDE DEF Under
<1>5. Lowest(t, 4) >= 1
  <2>1. Lowest(t, 4) \in Free(t) /\ Cardinality(Under(Lowest(t, 4))) = 3
    BY <1>2
  <2>2. Lowest(t, 4) \in Nat
    BY <1>1, <2>1
  <2> QED
    BY <1>3, <2>1, <2>2
<1>6. Lowest(t, 6) >= 2
  <2>1. Lowest(t, 6) \in Free(t) /\ Cardinality(Under(Lowest(t, 6))) = 5
    BY <1>2
  <2>2. Lowest(t, 6) \in Nat
    BY <1>1, <2>1
  <2> QED
    BY <1>3, <2>1, <2>2
<1> QED
  BY <1>1, <1>2, <1>4, <1>5, <1>6

----------------------------------------------------------------------------
(* Tables of descriptors *)

\* The table t with the pipes of c in the six lowest free descriptors.
Full(t, c) ==
  LET slot == [k \in 1..6 |-> Lowest(t, k)]
  IN  [n \in Fd |-> IF \E k \in 1..6 : slot[k] = n
                    THEN PipeEnds(c)[CHOOSE k \in 1..6 : slot[k] = n] ELSE t[n]]

\* The k-th end is at the k-th lowest descriptor, and there only.
Placed(u, t, c) ==
  \A k \in 1..6 : /\ Lowest(t, k) \in Fd
                  /\ \A n \in Fd : u[n] = PipeEnds(c)[k] <=> n = Lowest(t, k)

LEMMA EndsDiffer ==
  ASSUME NEW c \in Child, NEW d \in Child, NEW s \in Stream, NEW r \in Stream
  PROVE  /\ EndOf(c, s, "child") \in End /\ EndOf(c, s, "parent") \in End
         /\ EndOf(c, s, "child") # EndOf(d, r, "parent")
         /\ EndOf(c, s, "child") = EndOf(d, r, "child") => c = d /\ s = r
         /\ EndOf(c, s, "parent") = EndOf(d, r, "parent") => c = d /\ s = r
         /\ EndOf(c, s, "child") \notin NoEnd /\ EndOf(c, s, "parent") \notin NoEnd
<1>1. /\ EndOf(c, s, "child") \in End /\ EndOf(c, s, "parent") \in End
      /\ EndOf(c, s, "child") # EndOf(d, r, "parent")
      /\ EndOf(c, s, "child") = EndOf(d, r, "child") => c = d /\ s = r
      /\ EndOf(c, s, "parent") = EndOf(d, r, "parent") => c = d /\ s = r
  BY DEF EndOf, End
<1> QED
  BY <1>1, FdAssumption

LEMMA PipesDiffer ==
  ASSUME NEW c \in Child
  PROVE  /\ \A k \in 1..6 : PipeEnds(c)[k] \in (Ends(c, "child") \cup Ends(c, "parent")) \cap End
         /\ \A k, l \in 1..6 : PipeEnds(c)[k] = PipeEnds(c)[l] => k = l
<1>1. /\ PipeEnds(c)[1] = EndOf(c, 0, "child")  /\ PipeEnds(c)[2] = EndOf(c, 0, "parent")
      /\ PipeEnds(c)[3] = EndOf(c, 1, "parent") /\ PipeEnds(c)[4] = EndOf(c, 1, "child")
      /\ PipeEnds(c)[5] = EndOf(c, 2, "parent") /\ PipeEnds(c)[6] = EndOf(c, 2, "child")
  BY DEF PipeEnds
<1>2. 0 \in Stream /\ 1 \in Stream /\ 2 \in Stream
  BY DEF Stream
<1>3. \A k \in 1..6 : k = 1 \/ k = 2 \/ k = 3 \/ k = 4 \/ k = 5 \/ k = 6
  OBVIOUS
<1>4. \A k \in 1..6 : PipeEnds(c)[k] \in (Ends(c, "child") \cup Ends(c, "parent")) \cap End
  BY <1>1, <1>2, <1>3, EndsDiffer DEF Ends
<1>5. \A k, l \in 1..6 : PipeEnds(c)[k] = PipeEnds(c)[l] => k = l
  BY <1>1, <1>3 DEF EndOf
<1> QED
  BY <1>4, <1>5

LEMMA FullTable ==
  ASSUME NEW t \in Table, NEW c \in Child, Cardinality(Free(t)) >= 6, Foreign(t, c)
  PROVE  /\ Full(t, c) \in Table /\ Placed(Full(t, c), t, c)
         /\ \A n \in Fd : Full(t, c)[n] = t[n] \/ Full(t, c)[n] \in Ends(c, "child") \cup Ends(c, "parent")
<1> DEFINE slot == [k \in 1..6 |-> Lowest(t, k)]
           Chosen(n) == CHOOSE k \in 1..6 : slot[k] = n
<1>1. \A k \in 1..6 : slot[k] = Lowest(t, k) /\ slot[k] \in Fd
  BY LowestFree DEF Free
<1>2. \A k, l \in 1..6 : slot[k] = slot[l] => k = l
  BY LowestFree
<1>3. Full(t, c) = [n \in Fd |-> IF \E k \in 1..6 : slot[k] = n
                                  THEN PipeEnds(c)[Chosen(n)] ELSE t[n]]
  BY DEF Full
<1> HIDE DEF slot
<1>4. \A n \in Fd : (\E k \in 1..6 : slot[k] = n) => Chosen(n) \in 1..6 /\ slot[Chosen(n)] = n
  OBVIOUS
<1> HIDE DEF Chosen
<1>5. \A n \in Fd : Full(t, c)[n] = IF \E k \in 1..6 : slot[k] = n
                                     THEN PipeEnds(c)[Chosen(n)] ELSE t[n]
  BY <1>3
<1>6. \A k \in 1..6 : Full(t, c)[slot[k]] = PipeEnds(c)[k]
  <2> SUFFICES ASSUME NEW k \in 1..6 PROVE Full(t, c)[slot[k]] = PipeEnds(c)[k]
    OBVIOUS
  <2>1. slot[k] \in Fd
    BY <1>1
  <2>2. Chosen(slot[k]) = k
    BY <1>2, <1>4, <2>1
  <2> QED
    BY <1>5, <2>1, <2>2
<1>7. \A n \in Fd : (\A k \in 1..6 : slot[k] # n) => Full(t, c)[n] = t[n]
  BY <1>5
<1>8. \A k \in 1..6, n \in Fd : Full(t, c)[n] = PipeEnds(c)[k] <=> n = slot[k]
  <2> SUFFICES ASSUME NEW k \in 1..6, NEW n \in Fd, Full(t, c)[n] = PipeEnds(c)[k]
               PROVE  n = slot[k]
    BY <1>6
  <2>1. CASE \E l \in 1..6 : slot[l] = n
    BY <1>6, <2>1, PipesDiffer
  <2>2. CASE \A l \in 1..6 : slot[l] # n
    BY <1>7, <2>2, PipesDiffer DEF Foreign
  <2> QED
    BY <2>1, <2>2
<1>9. Placed(Full(t, c), t, c)
  BY <1>1, <1>8 DEF Placed
<1>10. \A n \in Fd : \/ Full(t, c)[n] = t[n]
                     \/ Full(t, c)[n] \in (Ends(c, "child") \cup Ends(c, "parent")) \cap End
  BY <1>6, <1>7, PipesDiffer
<1>11. Full(t, c) \in Table
  <2>1. \A n \in Fd : t[n] \in NoEnd \cup End
    BY DEF Table
  <2>2. \A n \in Fd : Full(t, c)[n] \in NoEnd \cup End
    BY <1>10, <2>1
  <2> QED
    BY <1>3, <2>2 DEF Table
<1> QED
  BY <1>9, <1>10, <1>11

\* The child's ends in a table that was filled, in the parent and the child.
LEMMA PlacedEnds ==
  ASSUME NEW t, NEW u, NEW c \in Child, Cardinality(Free(t)) >= 6, Placed(u, t, c)
  PROVE  /\ OwnEnds(u, c)
         /\ \A s \in Stream : \E n \in Fd : \A m \in Fd : u[m] = EndOf(c, s, "parent") <=> m = n
<1>1. /\ PipeEnds(c)[1] = EndOf(c, 0, "child")  /\ PipeEnds(c)[2] = EndOf(c, 0, "parent")
      /\ PipeEnds(c)[3] = EndOf(c, 1, "parent") /\ PipeEnds(c)[4] = EndOf(c, 1, "child")
      /\ PipeEnds(c)[5] = EndOf(c, 2, "parent") /\ PipeEnds(c)[6] = EndOf(c, 2, "child")
  BY DEF PipeEnds
<1>2. \A s \in Stream : s = 0 \/ s = 1 \/ s = 2
  BY DEF Stream
<1>3. /\ 1 \in 1..6 /\ 2 \in 1..6 /\ 3 \in 1..6 /\ 4 \in 1..6 /\ 5 \in 1..6 /\ 6 \in 1..6
  OBVIOUS
<1>4. OwnEnds(u, c)
  <2> SUFFICES ASSUME NEW s \in Stream
               PROVE  \E n \in Fd : n >= s /\ \A m \in Fd : u[m] = EndOf(c, s, "child") <=> m = n
    BY DEF OwnEnds
  <2>1. CASE s = 0
    <3>1. Lowest(t, 1) >= 0
      BY <1>3, LowestFree
    <3> QED
      BY <1>1, <1>3, <2>1, <3>1 DEF Placed
  <2>2. CASE s = 1
    <3>1. Lowest(t, 4) >= 1
      BY LowestFree
    <3> QED
      BY <1>1, <1>3, <2>2, <3>1 DEF Placed
  <2>3. CASE s = 2
    <3>1. Lowest(t, 6) >= 2
      BY LowestFree
    <3> QED
      BY <1>1, <1>3, <2>3, <3>1 DEF Placed
  <2> QED
    BY <1>2, <2>1, <2>2, <2>3
<1>5. \A s \in Stream : \E n \in Fd : \A m \in Fd : u[m] = EndOf(c, s, "parent") <=> m = n
  BY <1>1, <1>2, <1>3 DEF Placed
<1> QED
  BY <1>4, <1>5

\* What dup2 does to a child's own table.
LEMMA AttachedTable ==
  ASSUME NEW t \in Table, NEW c \in Child, OwnEnds(t, c)
  PROVE  Attached(t, c) \in Table /\ AttachedIn(Attached(t, c), c)
<1> DEFINE own(s) == CHOOSE n \in Fd : t[n] = EndOf(c, s, "child")
           less == Without(t, AtAny(t, Ends(c, "parent")))
           one == [less EXCEPT ![0] = less[own(0)]]
           two == [one EXCEPT ![1] = one[own(1)]]
           three == [two EXCEPT ![2] = two[own(2)]]
<1>0. 0 \in Stream /\ 1 \in Stream /\ 2 \in Stream /\ 0 \in Fd /\ 1 \in Fd /\ 2 \in Fd
      /\ \A s \in Stream : s = 0 \/ s = 1 \/ s = 2
  BY FdAssumption DEF Stream
<1>1. \A s \in Stream : own(s) \in Fd /\ own(s) >= s /\ t[own(s)] = EndOf(c, s, "child")
  <2> SUFFICES ASSUME NEW s \in Stream
               PROVE  own(s) \in Fd /\ own(s) >= s /\ t[own(s)] = EndOf(c, s, "child")
    OBVIOUS
  <2>1. PICK n \in Fd : n >= s /\ \A m \in Fd : t[m] = EndOf(c, s, "child") <=> m = n
    BY DEF OwnEnds
  <2>2. own(s) = n
    BY <2>1
  <2> QED
    BY <2>1, <2>2
<1>2. Attached(t, c) = three
  BY DEF Attached
<1>3. own(1) # 0 /\ own(2) # 0 /\ own(2) # 1
  BY <1>0, <1>1, FdAssumption
<1> HIDE DEF own
<1>4. \A n \in Fd : less[n] = IF t[n] \in Ends(c, "parent") THEN Closed ELSE t[n]
  BY DEF Without, AtAny
<1>5. \A n \in Fd : less[n] \in NoEnd \cup End /\ less[n] \notin Ends(c, "parent")
  <2>1. \A s \in Stream : EndOf(c, s, "parent") # Closed
    BY EndsDiffer DEF NoEnd
  <2>2. Closed \notin Ends(c, "parent")
    BY <2>1 DEF Ends
  <2>3. \A n \in Fd : t[n] \in NoEnd \cup End
    BY DEF Table
  <2> QED
    BY <1>4, <2>2, <2>3 DEF NoEnd
<1>6. \A s \in Stream : less[own(s)] = EndOf(c, s, "child")
  <2> SUFFICES ASSUME NEW s \in Stream PROVE less[own(s)] = EndOf(c, s, "child")
    OBVIOUS
  <2>1. EndOf(c, s, "child") \notin Ends(c, "parent")
    BY EndsDiffer DEF Ends
  <2> QED
    BY <1>1, <1>4, <2>1
<1>7. less = [n \in Fd |-> less[n]]
  BY DEF Without
<1> HIDE DEF less
<1>8. /\ one[0] = EndOf(c, 0, "child") /\ \A n \in Fd : n # 0 => one[n] = less[n]
      /\ one = [n \in Fd |-> one[n]]
  BY <1>0, <1>6, <1>7
<1> HIDE DEF one
<1>9. /\ two[0] = EndOf(c, 0, "child") /\ two[1] = EndOf(c, 1, "child")
      /\ \A n \in Fd : n # 0 /\ n # 1 => two[n] = less[n]
      /\ two = [n \in Fd |-> two[n]]
  <2>1. one[own(1)] = EndOf(c, 1, "child")
    BY <1>0, <1>1, <1>3, <1>6, <1>8
  <2> QED
    BY <1>0, <1>8, <2>1
<1> HIDE DEF two
<1>10. /\ three[0] = EndOf(c, 0, "child") /\ three[1] = EndOf(c, 1, "child")
       /\ three[2] = EndOf(c, 2, "child")
       /\ \A n \in Fd : n # 0 /\ n # 1 /\ n # 2 => three[n] = less[n]
       /\ three = [n \in Fd |-> three[n]]
  <2>1. two[own(2)] = EndOf(c, 2, "child")
    BY <1>0, <1>1, <1>3, <1>6, <1>9
  <2> QED
    BY <1>0, <1>9, <2>1
<1> HIDE DEF three
<1>11. \A n \in Fd : \/ \E s \in Stream : three[n] = EndOf(c, s, "child")
                     \/ three[n] = less[n]
  BY <1>0, <1>10
<1>12. \A n \in Fd : three[n] \in NoEnd \cup End /\ three[n] \notin Ends(c, "parent")
  BY <1>5, <1>11, EndsDiffer DEF Ends
<1>13. three \in Table
  BY <1>10, <1>12 DEF Table
<1> QED
  BY <1>0, <1>2, <1>10, <1>12, <1>13 DEF AttachedIn, AtAny

----------------------------------------------------------------------------
(* The steps *)

\* What the invariant says of the constants' kinds.
LEMMA Kinds ==
  /\ Parent \notin Child /\ Parent \in Proc /\ Child \subseteq Proc
  /\ NoChild \notin Child /\ NoAnswer \notin Answer /\ 0 \in Answer /\ -1 \in Answer
  /\ \A c \in Child : Pid[c] \in Answer
  /\ \A c \in Child : Closed \notin Ends(c, "child") \cup Ends(c, "parent")
  /\ \A c \in Child : Other \notin Ends(c, "child") \cup Ends(c, "parent")
  /\ [n \in Fd |-> Closed] \in Table
<1>1. \A c \in Child, s \in Stream : EndOf(c, s, "child") \notin NoEnd /\ EndOf(c, s, "parent") \notin NoEnd
  BY EndsDiffer
<1>2. \A c \in Child : /\ Closed \notin Ends(c, "child") \cup Ends(c, "parent")
                       /\ Other \notin Ends(c, "child") \cup Ends(c, "parent")
  BY <1>1 DEF Ends, NoEnd
<1>3. [n \in Fd |-> Closed] \in Table
  BY DEF Table, NoEnd
<1>4. NoAnswer \notin Answer /\ 0 \in Answer /\ -1 \in Answer
  BY PidAssumption DEF Answer
<1>5. \A c \in Child : Pid[c] \in Answer
  BY PidAssumption DEF Answer
<1> QED
  BY <1>2, <1>3, <1>4, <1>5, ProcAssumption DEF Proc

\* What a table says is all that counts.
LEMMA HoldsSame ==
  ASSUME NEW c \in Child, ChildHolds(c), fds'[c] = fds[c], state'[c] = state[c],
         \A n \in Fd : fds'[Parent][n] \in {fds[Parent][n], Closed}
  PROVE  ChildHolds(c)'
<1>1. Foreign(fds[Parent], c) => Foreign(fds'[Parent], c)
  BY Kinds DEF Foreign
<1>2. /\ OwnEnds(fds[c], c) => OwnEnds(fds'[c], c)
      /\ AttachedIn(fds[c], c) => AttachedIn(fds'[c], c)
  BY DEF OwnEnds, AttachedIn, AtAny
<1> QED
  BY <1>1, <1>2 DEF ChildHolds

LEMMA InitPopen == Init => PopenInv
<1> SUFFICES ASSUME Init PROVE PopenInv
  OBVIOUS
<1>1. PICK open \in OpenAtStart :
        fds = [p \in Proc |-> [n \in Fd |-> IF p = Parent /\ n \in open THEN Other ELSE Closed]]
  BY DEF Init
<1>2. \A p \in Proc, n \in Fd : fds[p][n] \in NoEnd
  BY <1>1 DEF NoEnd
<1>3. \A c \in Child : Foreign(fds[Parent], c)
  BY <1>2, Kinds DEF Foreign, NoEnd
<1>4. \A c \in Child : fds[c] = [n \in Fd |-> Closed]
  BY <1>1, Kinds
<1>5. Types
  <2>1. fds \in [Proc -> Table]
    BY <1>1 DEF Table, NoEnd
  <2> QED
    BY <2>1 DEF Init, Types
<1>6. CallInv
  BY DEF Init, CallInv
<1>7. \A c \in Child, n \in Fd : ParentHolds(c, n)
  BY <1>3 DEF ParentHolds, Foreign, Ends
<1>8. \A c \in Child : ChildHolds(c)
  BY <1>3, <1>4 DEF Init, ChildHolds
<1> QED
  BY <1>5, <1>6, <1>7, <1>8 DEF PopenInv

\* popen_3 puts the ends of its pipes where nothing was, in both processes.
LEMMA PopenPopen == ASSUME NEW c \in Child PROVE PopenInv /\ Popen(c) => PopenInv'
<1> SUFFICES ASSUME PopenInv, Popen(c) PROVE PopenInv'
  OBVIOUS
<1> DEFINE t == fds[Parent]
           full == Full(t, c)
<1>1. /\ pc = "idle" /\ state[c] = "none" /\ Cardinality(Free(t)) >= 6
      /\ fds' = [fds EXCEPT ![Parent] = full, ![c] = full]
      /\ fd_arr' = [fd_arr EXCEPT ![c] = [s \in Stream |-> CHOOSE n \in Fd : full[n] = EndOf(c, s, "parent")]]
      /\ state' = [state EXCEPT ![c] = "forked"]
      /\ cur' = c /\ pc' = "forked" /\ UNCHANGED ret
  BY DEF Popen, Full
<1>2. Types /\ CallInv /\ ChildHolds(c)
  BY DEF PopenInv
<1>3. t \in Table /\ Foreign(t, c)
  BY <1>1, <1>2, Kinds DEF Types, ChildHolds
<1>4. /\ full \in Table /\ OwnEnds(full, c)
      /\ \A s \in Stream : \E n \in Fd : \A m \in Fd : full[m] = EndOf(c, s, "parent") <=> m = n
      /\ \A n \in Fd : full[n] = t[n] \/ full[n] \in Ends(c, "child") \cup Ends(c, "parent")
  BY <1>1, <1>3, FullTable, PlacedEnds
<1> HIDE DEF full
<1>5. fds'[Parent] = full /\ fds'[c] = full /\ \A d \in Child \ {c} : fds'[d] = fds[d]
  BY <1>1, <1>2, Kinds DEF Types
<1>6. \A s \in Stream : /\ fd_arr'[c][s] \in Fd
                        /\ \A m \in Fd : full[m] = EndOf(c, s, "parent") => m = fd_arr'[c][s]
  <2> SUFFICES ASSUME NEW s \in Stream
               PROVE  /\ fd_arr'[c][s] \in Fd
                      /\ \A m \in Fd : full[m] = EndOf(c, s, "parent") => m = fd_arr'[c][s]
    OBVIOUS
  <2>1. fd_arr'[c][s] = CHOOSE n \in Fd : full[n] = EndOf(c, s, "parent")
    BY <1>1, <1>2 DEF Types
  <2>2. PICK n \in Fd : \A m \in Fd : full[m] = EndOf(c, s, "parent") <=> m = n
    BY <1>4
  <2> QED
    BY <2>1, <2>2
<1>7. Types'
  <2>1. fd_arr' \in [Child -> [Stream -> Int]]
    <3>1. [s \in Stream |-> CHOOSE n \in Fd : full[n] = EndOf(c, s, "parent")] \in [Stream -> Int]
      <4>1. \A s \in Stream : (CHOOSE n \in Fd : full[n] = EndOf(c, s, "parent")) \in Int
        <5> TAKE s \in Stream
        <5>1. \E n \in Fd : full[n] = EndOf(c, s, "parent")
          BY <1>4
        <5>2. (CHOOSE n \in Fd : full[n] = EndOf(c, s, "parent")) \in Fd
          BY <5>1
        <5>3. Fd \subseteq Int
          BY FdAssumption
        <5> QED
          BY <5>2, <5>3
      <4> QED
        BY <4>1
    <3> QED
      BY <1>1, <1>2, <3>1 DEF Types
  <2>2. fds' \in [Proc -> Table]
    BY <1>1, <1>2, <1>4 DEF Types
  <2> QED
    BY <1>1, <1>2, <2>1, <2>2 DEF Types
<1>8. CallInv'
  BY <1>1, <1>2 DEF CallInv, Types
<1>9. \A d \in Child, n \in Fd : ParentHolds(d, n)'
  <2> SUFFICES ASSUME NEW d \in Child, NEW n \in Fd PROVE ParentHolds(d, n)'
    OBVIOUS
  <2>1. ParentHolds(d, n)
    BY DEF PopenInv
  <2>2. CASE d = c
    <3>1. ret'[c] = NoAnswer /\ pc' \notin Waiting
      BY <1>1, <1>2 DEF CallInv, Waiting
    <3> QED
      BY <1>1, <1>5, <1>6, <2>2, <3>1 DEF ParentHolds
  <2>3. CASE d # c
    <3>1. fd_arr'[d] = fd_arr[d] /\ ret' = ret /\ pc' \notin Waiting
      BY <1>1, <1>2, <2>3 DEF Types, Waiting
    <3>2. CASE full[n] = t[n]
      BY <1>1, <1>5, <2>1, <2>3, <3>1, <3>2 DEF ParentHolds
    <3>3. CASE full[n] \in Ends(c, "child") \cup Ends(c, "parent")
      BY <1>5, <2>3, <3>3, EndsDiffer DEF ParentHolds, Ends
    <3> QED
      BY <1>4, <3>2, <3>3
  <2> QED
    BY <2>2, <2>3
<1>10. \A d \in Child : ChildHolds(d)'
  <2> SUFFICES ASSUME NEW d \in Child PROVE ChildHolds(d)'
    OBVIOUS
  <2>1. ChildHolds(d)
    BY DEF PopenInv
  <2>2. CASE d = c
    BY <1>1, <1>2, <1>4, <1>5, <2>2 DEF ChildHolds, Types
  <2>3. CASE d # c
    <3>1. fds'[d] = fds[d] /\ state'[d] = state[d]
      BY <1>1, <1>2, <1>5, <2>3 DEF Types
    <3>2. Foreign(t, d) => Foreign(full, d)
      <4>1. \A e \in Ends(c, "child") \cup Ends(c, "parent") : e \notin Ends(d, "child") \cup Ends(d, "parent")
        BY <2>3, EndsDiffer DEF Ends
      <4> QED
        BY <1>4, <4>1 DEF Foreign
    <3> QED
      BY <1>5, <2>1, <3>1, <3>2 DEF ChildHolds
  <2> QED
    BY <2>2, <2>3
<1> QED
  BY <1>7, <1>8, <1>9, <1>10 DEF PopenInv

LEMMA PopenFailsPopen == ASSUME NEW c \in Child PROVE PopenInv /\ PopenFails(c) => PopenInv'
<1> SUFFICES ASSUME PopenInv, PopenFails(c) PROVE PopenInv'
  OBVIOUS
<1>1. pc = "idle" /\ pc' = "aborted" /\ UNCHANGED <<fds, state, fd_arr, cur, ret>>
  BY DEF PopenFails
<1>2. Types' /\ CallInv'
  BY <1>1 DEF PopenInv, Types, CallInv
<1>3. \A d \in Child, n \in Fd : ParentHolds(d, n)'
  <2>1. pc # "forked" /\ pc' \notin Waiting
    BY <1>1 DEF Waiting
  <2> QED
    BY <1>1, <2>1 DEF PopenInv, ParentHolds
<1>4. \A d \in Child : ChildHolds(d)'
  BY <1>1, HoldsSame DEF PopenInv
<1> QED
  BY <1>2, <1>3, <1>4 DEF PopenInv

\* Closing descriptors of the parent leaves the others as they are.
LEMMA Closing ==
  ASSUME PopenInv, NEW ns, fds' = [fds EXCEPT ![Parent] = Without(@, ns)]
  PROVE  /\ fds' \in [Proc -> Table]
         /\ \A d \in Child : fds'[d] = fds[d]
         /\ \A n \in Fd : fds'[Parent][n] = IF n \in ns THEN Closed ELSE fds[Parent][n]
<1>1. fds \in [Proc -> Table]
  BY DEF PopenInv, Types
<1>2. Without(fds[Parent], ns) \in Table
  <2>1. fds[Parent] \in Table
    BY <1>1, Kinds
  <2> QED
    BY <2>1 DEF Without, Table, NoEnd
<1>3. fds'[Parent] = Without(fds[Parent], ns) /\ \A d \in Child : fds'[d] = fds[d]
  BY <1>1, Kinds
<1>4. fds' \in [Proc -> Table]
  BY <1>1, <1>2
<1> QED
  BY <1>3, <1>4 DEF Without

LEMMA ParentClosesPopen == PopenInv /\ ParentCloses => PopenInv'
<1> SUFFICES ASSUME PopenInv, ParentCloses PROVE PopenInv'
  OBVIOUS
<1> DEFINE ns == AtAny(fds[Parent], Ends(cur, "child"))
<1>1. /\ pc = "forked" /\ pc' = "idle" /\ UNCHANGED <<state, fd_arr, ret>>
      /\ fds' = [fds EXCEPT ![Parent] = Without(@, ns)]
  BY DEF ParentCloses
<1>2. \A n \in Fd : n \in ns <=> fds[Parent][n] \in Ends(cur, "child")
  BY DEF AtAny
<1> HIDE DEF ns
<1>3. /\ fds' \in [Proc -> Table]
      /\ \A d \in Child : fds'[d] = fds[d]
      /\ \A n \in Fd : fds'[Parent][n] = IF n \in ns THEN Closed ELSE fds[Parent][n]
  BY <1>1, Closing
<1>4. Types' /\ CallInv'
  BY <1>1, <1>3 DEF PopenInv, Types, CallInv
<1>5. \A d \in Child, n \in Fd : ParentHolds(d, n)'
  <2> SUFFICES ASSUME NEW d \in Child, NEW n \in Fd PROVE ParentHolds(d, n)'
    OBVIOUS
  <2>1. ParentHolds(d, n) /\ pc' \notin Waiting
    BY <1>1 DEF PopenInv, Waiting
  <2>2. CASE n \in ns
    BY <1>3, <2>2, Kinds DEF ParentHolds, Ends
  <2>3. CASE n \notin ns
    BY <1>1, <1>2, <1>3, <2>1, <2>3 DEF ParentHolds
  <2> QED
    BY <2>2, <2>3
<1>6. \A d \in Child : ChildHolds(d)'
  BY <1>1, <1>3, HoldsSame DEF PopenInv
<1> QED
  BY <1>4, <1>5, <1>6 DEF PopenInv

LEMMA ClientClosesPopen ==
  ASSUME NEW c \in Child, NEW s \in Stream
  PROVE  PopenInv /\ ClientClosesStream(c, s) => PopenInv'
<1> SUFFICES ASSUME PopenInv, ClientClosesStream(c, s) PROVE PopenInv'
  OBVIOUS
<1> DEFINE n0 == fd_arr[c][s]
<1>1. /\ pc = "idle" /\ fds[Parent][n0] = EndOf(c, s, "parent")
      /\ fds' = [fds EXCEPT ![Parent][n0] = Closed]
      /\ UNCHANGED <<state, fd_arr, pc, cur, ret>>
  BY DEF ClientClosesStream, pvars
<1> HIDE DEF n0
<1>2. fds \in [Proc -> Table]
  BY DEF PopenInv, Types
<1>3. /\ \A d \in Child : fds'[d] = fds[d]
      /\ \A n \in Fd : fds'[Parent][n] \in {fds[Parent][n], Closed}
      /\ fds' \in [Proc -> Table]
  <2>1. fds[Parent] \in Table
    BY <1>2, Kinds
  <2>2. [fds[Parent] EXCEPT ![n0] = Closed] \in Table
    BY <2>1 DEF Table, NoEnd
  <2>3. fds' = [fds EXCEPT ![Parent] = [fds[Parent] EXCEPT ![n0] = Closed]]
    BY <1>1
  <2>4. \A n \in Fd : fds'[Parent][n] \in {fds[Parent][n], Closed}
    BY <1>2, <2>1, <2>3, Kinds DEF Table
  <2> QED
    BY <1>2, <2>2, <2>3, <2>4, Kinds
<1>4. Types' /\ CallInv'
  BY <1>1, <1>3 DEF PopenInv, Types, CallInv
<1>5. \A d \in Child, n \in Fd : ParentHolds(d, n)'
  <2> SUFFICES ASSUME NEW d \in Child, NEW n \in Fd PROVE ParentHolds(d, n)'
    OBVIOUS
  <2>1. ParentHolds(d, n)
    BY DEF PopenInv
  <2>2. CASE fds'[Parent][n] = Closed
    BY <2>2, Kinds DEF ParentHolds, Ends
  <2>3. CASE fds'[Parent][n] = fds[Parent][n]
    BY <1>1, <2>1, <2>3 DEF ParentHolds
  <2> QED
    BY <1>3, <2>2, <2>3
<1>6. \A d \in Child : ChildHolds(d)'
  BY <1>1, <1>3, HoldsSame DEF PopenInv
<1> QED
  BY <1>4, <1>5, <1>6 DEF PopenInv

\* A child attaches its streams.
LEMMA ChildRunsPopen == ASSUME NEW c \in Child PROVE PopenInv /\ ChildRuns(c) => PopenInv'
<1> SUFFICES ASSUME PopenInv, ChildRuns(c) PROVE PopenInv'
  OBVIOUS
<1>1. /\ state[c] = "forked" /\ fds' = [fds EXCEPT ![c] = Attached(@, c)]
      /\ state' = [state EXCEPT ![c] = "runs"] /\ UNCHANGED <<fd_arr, pc, cur, ret>>
  BY DEF ChildRuns, pvars
<1>2. Types /\ CallInv /\ ChildHolds(c)
  BY DEF PopenInv
<1>3. Attached(fds[c], c) \in Table /\ AttachedIn(Attached(fds[c], c), c)
  BY <1>1, <1>2, AttachedTable, Kinds DEF Types, ChildHolds
<1>4. /\ fds'[c] = Attached(fds[c], c) /\ fds'[Parent] = fds[Parent]
      /\ \A d \in Child \ {c} : fds'[d] = fds[d] /\ state'[d] = state[d]
      /\ state'[c] = "runs"
  BY <1>1, <1>2, Kinds DEF Types
<1>5. Types'
  BY <1>1, <1>2, <1>3 DEF Types
<1>6. CallInv'
  BY <1>1, <1>2, <1>4 DEF CallInv
<1>7. \A d \in Child, n \in Fd : ParentHolds(d, n)'
  BY <1>1, <1>4 DEF PopenInv, ParentHolds
<1>8. \A d \in Child : ChildHolds(d)'
  <2>1. ChildHolds(c)'
    BY <1>3, <1>4 DEF ChildHolds
  <2>2. \A d \in Child \ {c} : ChildHolds(d)'
    BY <1>4, HoldsSame DEF PopenInv
  <2> QED
    BY <2>1, <2>2
<1> QED
  BY <1>5, <1>6, <1>7, <1>8 DEF PopenInv

\* A child ends, and with it its descriptors; whose call it is does not matter,
\* unless it is about its being awaited.
LEMMA EndedPopen ==
  ASSUME NEW c \in Child, PopenInv, state[c] \in {"forked", "runs", "zombie"}, Ended(c),
         UNCHANGED <<fd_arr, ret, cur>>, pc' = pc \/ (pc \in Waiting /\ pc' \in Waiting)
  PROVE  PopenInv'
<1>1. /\ state' = [state EXCEPT ![c] = "zombie"]
      /\ fds' = [fds EXCEPT ![c] = [n \in Fd |-> Closed]]
  BY DEF Ended
<1>2. Types /\ CallInv
  BY DEF PopenInv
<1>3. /\ fds'[c] = [n \in Fd |-> Closed] /\ fds'[Parent] = fds[Parent]
      /\ \A d \in Child \ {c} : fds'[d] = fds[d] /\ state'[d] = state[d]
      /\ state'[c] = "zombie"
  BY <1>1, <1>2, Kinds DEF Types
<1>4. Types'
  <2>1. fds' \in [Proc -> Table]
    BY <1>1, <1>2, Kinds DEF Types
  <2>2. state' \in [Child -> {"none", "forked", "runs", "zombie", "reaped"}]
    BY <1>1, <1>2 DEF Types
  <2>3. pc' \in {"idle", "aborted", "forked", "close"} \cup Waiting
    BY <1>2 DEF Types
  <2> QED
    BY <1>2, <2>1, <2>2, <2>3 DEF Types
<1>5. CallInv'
  <2>1. pc' \notin {"idle", "aborted"} => pc \notin {"idle", "aborted"}
    BY DEF Waiting
  <2> QED
    BY <1>2, <1>3, <2>1 DEF CallInv
<1>6. \A d \in Child, n \in Fd : ParentHolds(d, n)'
  <2>1. (pc' \in Waiting <=> pc \in Waiting) /\ (pc = "forked" => pc' = "forked")
    BY DEF Waiting
  <2> QED
    BY <1>3, <2>1 DEF PopenInv, ParentHolds
<1>7. \A d \in Child : ChildHolds(d)'
  <2>1. ChildHolds(c)'
    BY <1>3 DEF ChildHolds
  <2>2. \A d \in Child \ {c} : ChildHolds(d)'
    BY <1>3, HoldsSame DEF PopenInv
  <2> QED
    BY <2>1, <2>2
<1> QED
  BY <1>4, <1>5, <1>6, <1>7 DEF PopenInv

LEMMA ChildEndsPopen ==
  ASSUME NEW c \in Child
  PROVE  PopenInv /\ (ChildAborts(c) \/ ChildEnds(c) \/ ChildExits(c)) => PopenInv'
<1> SUFFICES ASSUME PopenInv, ChildAborts(c) \/ ChildEnds(c) \/ ChildExits(c) PROVE PopenInv'
  OBVIOUS
<1>1. state[c] \in {"forked", "runs"} /\ Ended(c) /\ UNCHANGED <<fd_arr, ret, cur, pc>>
  BY DEF ChildAborts, ChildEnds, ChildExits, pvars
<1> QED
  BY <1>1, EndedPopen

LEMMA PclosePopen ==
  ASSUME NEW c \in Child, NEW m \in MaxMs PROVE PopenInv /\ Pclose(c, m) => PopenInv'
<1> SUFFICES ASSUME PopenInv, Pclose(c, m) PROVE PopenInv'
  OBVIOUS
<1>1. /\ pc = "idle" /\ state[c] # "none" /\ ret[c] = NoAnswer
      /\ pc' = "close" /\ cur' = c /\ UNCHANGED <<fds, state, fd_arr, ret>>
  BY DEF Pclose
<1>2. Types /\ CallInv
  BY DEF PopenInv
<1>3. Types'
  BY <1>1, <1>2 DEF Types
<1>4. CallInv'
  <2>1. state[c] \in {"forked", "runs", "zombie"}
    BY <1>1, <1>2 DEF CallInv, Types
  <2> QED
    BY <1>1, <1>2, <2>1 DEF CallInv
<1>5. \A d \in Child, n \in Fd : ParentHolds(d, n)'
  <2>1. pc # "forked" /\ pc' \notin Waiting
    BY <1>1 DEF Waiting
  <2> QED
    BY <1>1, <2>1 DEF PopenInv, ParentHolds
<1>6. \A d \in Child : ChildHolds(d)'
  BY <1>1, HoldsSame DEF PopenInv
<1> QED
  BY <1>3, <1>4, <1>5, <1>6 DEF PopenInv

\* The parent holds no end of the pipes of the child it has closed.
LEMMA WaitingLetGo ==
  ASSUME PopenInv, pc \in Waiting PROVE cur \in Child /\ Foreign(fds[Parent], cur)
<1>1. cur \in Child /\ pc # "forked"
  BY DEF PopenInv, CallInv, Waiting
<1> QED
  BY <1>1 DEF PopenInv, ParentHolds, Foreign, Ends

\* pclose_3 returns once it has closed what it should, to a child that was
\* reaped or not.
LEMMA ReturnPopen ==
  ASSUME PopenInv, pc \in Waiting, NEW rc \in Answer, Return(rc), UNCHANGED <<fds, fd_arr>>,
         UNCHANGED state \/ (state' = [state EXCEPT ![cur] = "reaped"] /\ state[cur] = "zombie")
  PROVE  PopenInv'
<1>1. /\ pc' = "idle" /\ ret' = [ret EXCEPT ![cur] = rc] /\ cur' = NoChild
      /\ rc # NoAnswer
  BY Kinds DEF Return
<1>2. Types /\ CallInv /\ cur \in Child /\ state[cur] \in {"forked", "runs", "zombie"}
  BY DEF PopenInv, CallInv, Waiting
<1>3. /\ ret'[cur] = rc /\ \A d \in Child \ {cur} : ret'[d] = ret[d] /\ state'[d] = state[d]
      /\ state'[cur] \in {state[cur], "reaped"}
      /\ state'[cur] = "reaped" => state[cur] = "zombie"
  BY <1>1, <1>2 DEF Types
<1>4. Types'
  <2>1. state' \in [Child -> {"none", "forked", "runs", "zombie", "reaped"}]
    BY <1>2 DEF Types
  <2> QED
    BY <1>1, <1>2, <2>1 DEF Types
<1>5. CallInv'
  BY <1>1, <1>2, <1>3 DEF CallInv
<1>6. \A d \in Child, n \in Fd : ParentHolds(d, n)'
  <2> SUFFICES ASSUME NEW d \in Child, NEW n \in Fd PROVE ParentHolds(d, n)'
    OBVIOUS
  <2>1. ParentHolds(d, n) /\ pc # "forked" /\ pc' \notin Waiting
    BY <1>1 DEF PopenInv, Waiting
  <2>2. CASE d = cur
    <3>1. fds'[Parent][n] \notin Ends(d, "child") \cup Ends(d, "parent")
      BY <2>2, WaitingLetGo DEF Foreign
    <3> QED
      BY <3>1 DEF ParentHolds, Ends
  <2>3. CASE d # cur
    BY <1>3, <2>1, <2>3 DEF ParentHolds
  <2> QED
    BY <2>2, <2>3
<1>7. \A d \in Child : ChildHolds(d)'
  <2>1. \A d \in Child \ {cur} : ChildHolds(d)'
    BY <1>3, HoldsSame DEF PopenInv
  <2>2. ASSUME NEW d \in Child, d = cur PROVE ChildHolds(d)'
    <3>1. ChildHolds(d)
      BY DEF PopenInv
    <3>2. CASE state'[d] = state[d]
      BY <3>1, <3>2, HoldsSame
    <3>3. CASE state'[d] = "reaped"
      BY <1>3, <2>2, <3>1, <3>3 DEF ChildHolds
    <3> QED
      BY <1>3, <2>2, <3>2, <3>3
  <2> QED
    BY <2>1, <2>2
<1> QED
  BY <1>4, <1>5, <1>6, <1>7 DEF PopenInv

\* It goes on waiting.
LEMMA WaitPopen ==
  ASSUME PopenInv, pc \in Waiting, pc' \in Waiting, UNCHANGED <<fds, state, fd_arr, cur, ret>>
  PROVE  PopenInv'
<1>1. Types' /\ CallInv'
  BY DEF PopenInv, Types, CallInv, Waiting
<1>2. \A d \in Child, n \in Fd : ParentHolds(d, n)'
  <2>1. pc # "forked"
    BY DEF Waiting
  <2> QED
    BY <2>1 DEF PopenInv, ParentHolds
<1>3. \A d \in Child : ChildHolds(d)'
  BY HoldsSame DEF PopenInv
<1> QED
  BY <1>1, <1>2, <1>3 DEF PopenInv

\* It closes what the parent has of the child's pipes, all of it.
LEMMA CloseFdsPopen == PopenInv /\ CloseFds => PopenInv'
<1> SUFFICES ASSUME PopenInv, CloseFds PROVE PopenInv'
  OBVIOUS
<1> DEFINE ns == {fd_arr[cur][s] : s \in Stream}
<1>1. /\ pc = "close" /\ UNCHANGED <<state, fd_arr>>
      /\ fds' = [fds EXCEPT ![Parent] = Without(@, ns)]
      /\ \/ Return(0)
         \/ pc' \in Waiting /\ UNCHANGED <<cur, ret>>
  BY DEF CloseFds, Stay, Waiting
<1>2. Types /\ CallInv /\ cur \in Child /\ ret[cur] = NoAnswer
      /\ state[cur] \in {"forked", "runs", "zombie"}
  BY <1>1 DEF PopenInv, CallInv
<1>3. /\ fds' \in [Proc -> Table]
      /\ \A d \in Child : fds'[d] = fds[d]
      /\ \A n \in Fd : fds'[Parent][n] = IF n \in ns THEN Closed ELSE fds[Parent][n]
  <2> HIDE DEF ns
  <2> QED
    BY <1>1, Closing
<1>4. \A n \in Fd : fds'[Parent][n] \in {Closed, fds[Parent][n]}
  BY <1>3
<1>5. Foreign(fds'[Parent], cur)
  <2> SUFFICES ASSUME NEW n \in Fd, fds'[Parent][n] \in Ends(cur, "child") \cup Ends(cur, "parent")
               PROVE  FALSE
    BY DEF Foreign
  <2>1. n \notin ns /\ fds'[Parent][n] = fds[Parent][n]
    BY <1>2, <1>3, Kinds
  <2>2. ParentHolds(cur, n)
    BY <1>2 DEF PopenInv
  <2>3. fds[Parent][n] \notin Ends(cur, "child")
    BY <1>1, <2>2 DEF ParentHolds
  <2>4. PICK s \in Stream : fds[Parent][n] = EndOf(cur, s, "parent")
    BY <2>1, <2>3 DEF Ends
  <2>5. n = fd_arr[cur][s]
    BY <2>2, <2>4 DEF ParentHolds
  <2> QED
    BY <2>1, <2>5
<1>6. \A d \in Child, n \in Fd : ParentHolds(d, n)'
  <2> SUFFICES ASSUME NEW d \in Child, NEW n \in Fd PROVE ParentHolds(d, n)'
    OBVIOUS
  <2>1. ParentHolds(d, n) /\ pc # "forked"
    BY <1>1 DEF PopenInv
  <2>2. CASE fds'[Parent][n] = Closed
    BY <2>2, Kinds DEF ParentHolds, Ends
  <2>3. CASE d = cur
    BY <1>5, <2>3 DEF ParentHolds, Foreign, Ends
  <2>4. CASE d # cur /\ fds'[Parent][n] = fds[Parent][n]
    <3>1. ret'[d] = ret[d]
      BY <1>1, <1>2, <2>4 DEF Return, Types
    <3>2. d = cur' => pc' \notin Waiting
      BY <1>1, <2>4, Kinds DEF Return
    <3> QED
      BY <1>1, <2>1, <2>4, <3>1, <3>2 DEF ParentHolds
  <2> QED
    BY <1>4, <2>2, <2>3, <2>4
<1>7. \A d \in Child : ChildHolds(d)'
  BY <1>1, <1>3, <1>4, HoldsSame DEF PopenInv
<1>8. CASE Return(0)
  <2>1. pc' = "idle" /\ ret' = [ret EXCEPT ![cur] = 0]
    BY <1>8 DEF Return
  <2>2. Types'
    BY <1>1, <1>2, <1>3, <2>1, Kinds DEF Types
  <2>3. CallInv'
    BY <1>1, <1>2, <2>1, Kinds DEF CallInv, Types
  <2> QED
    BY <1>6, <1>7, <2>2, <2>3 DEF PopenInv
<1>9. CASE pc' \in Waiting /\ UNCHANGED <<cur, ret>>
  <2>1. Types' /\ CallInv'
    BY <1>1, <1>2, <1>3, <1>9 DEF Types, CallInv
  <2> QED
    BY <1>6, <1>7, <2>1 DEF PopenInv
<1> QED
  BY <1>1, <1>8, <1>9

LEMMA AwaitsPopen == PopenInv /\ (Await \/ Interrupted \/ AwaitKilled) => PopenInv'
<1> SUFFICES ASSUME PopenInv, Await \/ Interrupted \/ AwaitKilled PROVE PopenInv'
  OBVIOUS
<1>1. pc \in Waiting /\ cur \in Child
  BY DEF PopenInv, CallInv, Await, Interrupted, AwaitKilled, Waiting
<1>2. UNCHANGED <<fds, fd_arr>>
  BY DEF Await, Interrupted, AwaitKilled
<1>3. UNCHANGED state \/ (state' = [state EXCEPT ![cur] = "reaped"] /\ state[cur] = "zombie")
  BY DEF Await, Interrupted, AwaitKilled, Reap
<1>4. \E rc \in Answer : Return(rc)
  BY <1>1, Kinds DEF Await, Interrupted, AwaitKilled
<1> QED
  BY <1>1, <1>2, <1>3, <1>4, ReturnPopen

LEMMA SleepPopen == PopenInv /\ Sleep => PopenInv'
<1>1. Sleep => pc \in Waiting /\ pc' \in Waiting /\ UNCHANGED <<fds, state, fd_arr, cur, ret>>
  BY DEF Sleep, Waiting
<1> QED
  BY <1>1, WaitPopen

LEMMA PollPopen == PopenInv /\ Poll => PopenInv'
<1> SUFFICES ASSUME PopenInv, Poll PROVE PopenInv'
  OBVIOUS
<1>1. pc \in Waiting /\ UNCHANGED <<fds, fd_arr>>
  BY DEF Poll, Waiting
<1>2. CASE Reap /\ Return(0)
  BY <1>1, <1>2, ReturnPopen, Kinds DEF Reap
<1>3. CASE Stay /\ UNCHANGED state /\ pc' = IF now_ms < max_ms THEN "sleep" ELSE "kill"
  <2>1. pc' \in Waiting /\ UNCHANGED <<cur, ret>>
    BY <1>3 DEF Stay, Waiting
  <2> QED
    BY <1>1, <1>3, <2>1, WaitPopen
<1> QED
  BY <1>2, <1>3 DEF Poll

LEMMA KillPopen == PopenInv /\ Kill => PopenInv'
<1> SUFFICES ASSUME PopenInv, Kill PROVE PopenInv'
  OBVIOUS
<1>1. pc \in Waiting /\ pc' \in Waiting /\ UNCHANGED <<fd_arr, cur, ret>>
  BY DEF Kill, Waiting
<1>2. cur \in Child /\ state[cur] \in {"forked", "runs", "zombie"}
  BY <1>1 DEF PopenInv, CallInv, Waiting
<1>3. CASE UNCHANGED <<state, fds>>
  BY <1>1, <1>3, WaitPopen
<1>4. CASE Ended(cur)
  BY <1>1, <1>2, <1>4, EndedPopen
<1> QED
  BY <1>3, <1>4 DEF Kill

LEMMA ReapElsewherePopen ==
  ASSUME NEW c \in Child PROVE PopenInv /\ ReapElsewhere(c) => PopenInv'
<1> SUFFICES ASSUME PopenInv, ReapElsewhere(c) PROVE PopenInv'
  OBVIOUS
<1>1. /\ pc = "idle" /\ ret[c] = 0 /\ state[c] = "zombie"
      /\ state' = [state EXCEPT ![c] = "reaped"] /\ UNCHANGED <<fds, fd_arr, pc, cur, ret>>
  BY DEF ReapElsewhere, pvars
<1>2. Types /\ CallInv /\ ChildHolds(c)
  BY DEF PopenInv
<1>3. state'[c] = "reaped" /\ \A d \in Child \ {c} : state'[d] = state[d]
  BY <1>1, <1>2 DEF Types
<1>4. Types'
  BY <1>1, <1>2 DEF Types
<1>5. CallInv'
  <2>1. 0 # NoAnswer
    BY Kinds
  <2> QED
    BY <1>1, <1>2, <1>3, <2>1 DEF CallInv
<1>6. \A d \in Child, n \in Fd : ParentHolds(d, n)'
  BY <1>1 DEF PopenInv, ParentHolds
<1>7. \A d \in Child : ChildHolds(d)'
  <2>1. ChildHolds(c)'
    BY <1>1, <1>2, <1>3 DEF ChildHolds
  <2>2. \A d \in Child \ {c} : ChildHolds(d)'
    BY <1>1, <1>3, HoldsSame DEF PopenInv
  <2> QED
    BY <2>1, <2>2
<1> QED
  BY <1>4, <1>5, <1>6, <1>7 DEF PopenInv

LEMMA NextPopen == PopenInv /\ [Next]_vars => PopenInv'
<1> SUFFICES ASSUME PopenInv, [Next]_vars PROVE PopenInv'
  OBVIOUS
<1>1. CASE InCall
  BY <1>1, ParentClosesPopen, CloseFdsPopen, AwaitsPopen, SleepPopen, PollPopen, KillPopen
     DEF InCall
<1>2. ASSUME NEW c \in Child,
             \/ Popen(c) \/ PopenFails(c) \/ ChildRuns(c) \/ ChildAborts(c)
             \/ ChildEnds(c) \/ ChildExits(c) \/ ReapElsewhere(c)
             \/ \E m \in MaxMs : Pclose(c, m)
             \/ \E s \in Stream : ClientClosesStream(c, s)
      PROVE  PopenInv'
  BY <1>2, PopenPopen, PopenFailsPopen, ChildRunsPopen, ChildEndsPopen, ReapElsewherePopen,
     PclosePopen, ClientClosesPopen
<1>3. CASE UNCHANGED vars
  <2>1. UNCHANGED <<fds, state, fd_arr, pc, cur, ret>>
    BY <1>3 DEF vars, pvars
  <2> QED
    BY <2>1 DEF PopenInv, Types, CallInv, ParentHolds, ChildHolds, OwnEnds, AttachedIn, AtAny, Foreign
<1> QED
  BY <1>1, <1>2, <1>3 DEF Next

----------------------------------------------------------------------------
(* The theorems *)

THEOREM PopenInvariant == Spec => []PopenInv
<1> QED
  BY InitPopen, NextPopen, PTL DEF Spec

\* A running child has its pipes at its standard streams, whichever of these
\* were closed in the parent, and no way to write to its own input (util.c:1383-1451).
THEOREM StreamsAreAttached == Spec => []StreamsAttached
<1>1. PopenInv => StreamsAttached
  <2> SUFFICES ASSUME PopenInv, NEW c \in Child
               PROVE  /\ state[c] = "runs" =>
                           /\ \A s \in Stream : fds[c][s] = EndOf(c, s, "child")
                           /\ AtAny(fds[c], Ends(c, "parent")) = {}
                      /\ \A s \in Stream : state[c] \in {"forked", "runs"} <=> c \in Holders(EndOf(c, s, "child"))
    BY DEF StreamsAttached
  <2>1. ChildHolds(c) /\ state[c] \in {"none", "forked", "runs", "zombie", "reaped"}
    BY DEF PopenInv, Types
  <2>2. state[c] = "runs" => AttachedIn(fds[c], c)
    BY <2>1 DEF ChildHolds
  <2>3. ASSUME NEW s \in Stream
        PROVE  state[c] \in {"forked", "runs"} <=> c \in Holders(EndOf(c, s, "child"))
    <3>1. c \in Holders(EndOf(c, s, "child")) <=> \E n \in Fd : fds[c][n] = EndOf(c, s, "child")
      BY Kinds DEF Holders
    <3>2. CASE state[c] = "forked"
      BY <2>1, <3>1, <3>2 DEF ChildHolds, OwnEnds
    <3>3. CASE state[c] = "runs"
      <4>1. s \in Fd
        BY FdAssumption DEF Stream
      <4> QED
        BY <2>2, <3>1, <3>3, <4>1 DEF AttachedIn
    <3>4. CASE state[c] \in {"none", "zombie", "reaped"}
      <4>1. \A n \in Fd : fds[c][n] = Closed
        BY <2>1, <3>4 DEF ChildHolds
      <4>2. EndOf(c, s, "child") # Closed
        BY EndsDiffer DEF NoEnd
      <4> QED
        BY <3>1, <3>4, <4>1, <4>2
    <3> QED
      BY <2>1, <3>2, <3>3, <3>4
  <2> QED
    BY <2>2, <2>3 DEF AttachedIn
<1> QED
  BY <1>1, PopenInvariant, PTL

\* Nothing leaks: when pclose_3 has returned, the parent holds no end of any of
\* the child's pipes, in whichever order children are started and closed
\* (util.c:1476-1556).
THEOREM NoDescriptorLeaks == Spec => []NothingLeaks
<1>1. PopenInv => NothingLeaks
  <2> SUFFICES ASSUME PopenInv, NEW c \in Child, pc = "idle", ret[c] # NoAnswer, NEW n \in Fd
               PROVE  fds[Parent][n] \notin Ends(c, "parent") \cup Ends(c, "child")
    BY DEF NothingLeaks, AtAny
  <2>1. ParentHolds(c, n)
    BY DEF PopenInv
  <2> QED
    BY <2>1 DEF ParentHolds, Ends
<1> QED
  BY <1>1, PopenInvariant, PTL

\* A child is reaped once and for all: SIGKILL goes to one that was not reaped
\* yet, and pclose_3 leaves no zombie unless it was told not to wait, or answers
\* -1 (util.c:1476-1556).
THEOREM EachChildIsReaped == Spec => ReapsChild
<1> DEFINE Reaping ==
      /\ pc \in {"kill", "killed"} => state[cur] \in {"forked", "runs", "zombie"}
      /\ pc \notin {"idle", "forked"} /\ pc' = "idle" /\ max_ms # -1 /\ ret'[cur] # -1
         => state'[cur] = "reaped"
<1>1. PopenInv /\ [Next]_vars => Reaping
  <2> SUFFICES ASSUME PopenInv, [Next]_vars PROVE Reaping
    OBVIOUS
  <2>1. pc \in {"kill", "killed"} => state[cur] \in {"forked", "runs", "zombie"}
    BY DEF PopenInv, CallInv
  <2>2. ASSUME pc \notin {"idle", "forked"}, pc' = "idle", max_ms # -1, ret'[cur] # -1
        PROVE  state'[cur] = "reaped"
    <3>0. /\ pc # "aborted" => cur \in Child
          /\ state \in [Child -> {"none", "forked", "runs", "zombie", "reaped"}]
          /\ ret \in [Child -> {NoAnswer} \cup Answer]
      BY <2>2 DEF PopenInv, CallInv, Types
    <3>1. CASE InCall
      <4>1. CASE Reap
        <5>1. pc # "aborted"
          BY <2>2, <3>1 DEF InCall, ParentCloses, CloseFds, Await, Interrupted, Sleep, Poll, Kill, AwaitKilled
        <5> QED
          BY <3>0, <4>1, <5>1 DEF Reap
      <4>2. CASE CloseFds
        BY <2>2, <4>2 DEF CloseFds
      <4>3. CASE Interrupted
        <5>1. ret' = [ret EXCEPT ![cur] = -1] /\ cur \in Child
          BY <3>0, <4>3 DEF Interrupted, Return
        <5> QED
          BY <2>2, <3>0, <5>1
      <4>4. CASE ParentCloses \/ Sleep \/ Kill
        BY <2>2, <4>4 DEF ParentCloses, Sleep, Kill
      <4>5. CASE Await \/ Poll \/ AwaitKilled
        BY <2>2, <4>1, <4>5 DEF Await, Poll, AwaitKilled
      <4> QED
        BY <3>1, <4>2, <4>3, <4>4, <4>5 DEF InCall
    <3>2. CASE \E c \in Child :
                 \/ Popen(c) \/ PopenFails(c) \/ ChildRuns(c) \/ ChildAborts(c)
                 \/ ChildEnds(c) \/ ChildExits(c) \/ ReapElsewhere(c)
                 \/ \E m \in MaxMs : Pclose(c, m)
                 \/ \E s \in Stream : ClientClosesStream(c, s)
      BY <2>2, <3>2 DEF Popen, PopenFails, ChildRuns, ChildAborts, ChildEnds, ChildExits, ReapElsewhere,
                        Pclose, ClientClosesStream, pvars
    <3>3. CASE UNCHANGED vars
      BY <2>2, <3>3 DEF vars, pvars
    <3> QED
      BY <3>1, <3>2, <3>3 DEF Next
  <2> QED
    BY <2>1, <2>2
<1>2. PopenInv /\ [Next]_vars => [Reaping]_vars
  BY <1>1
<1>3. Spec => [][Reaping]_vars
  BY <1>2, PopenInvariant, PTL DEF Spec
<1> QED
  BY <1>3 DEF ReapsChild
=============================================================================
