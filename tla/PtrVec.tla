------------------------------- MODULE PtrVec -------------------------------
(***************************************************************************)
(* PTRVEC (ptrvec.c, ptrvec.h): a ring buffer of pointers that grows on    *)
(* demand, with a cached scratch buffer for sorting.  malloc() and         *)
(* realloc() may refuse any request and always refuse more than HeapMax    *)
(* slots.  unsigned arithmetic on sizes wraps at UintMod.                  *)
(***************************************************************************)
EXTENDS Naturals, Sequences, FiniteSets

CONSTANTS
  Ptr,            \* the pointers a caller stores
  NULL,           \* the null pointer
  Garbage,        \* what an uninitialised or out-of-block slot reads as
  Rank,           \* the order the caller's cmp function induces on Ptr
  InitMaxItems,   \* the constructor's argument; vcalendar.c:110 passes 10
  HeapMax,        \* bound: the most slots the heap will ever grant
  PtrSize,        \* sizeof(void*)
  UintMod,        \* 2^32, scaled down for TLC
  ResizeArgs,     \* the arguments a caller gives PTRVEC_resize itself
  ShrinkAllowed   \* whether such a call may ask for less room than there is

ASSUME SizesAssumption ==
  /\ HeapMax \in Nat \ {0} /\ InitMaxItems \in 1..HeapMax
  /\ PtrSize \in Nat \ {0} /\ UintMod \in Nat /\ HeapMax < UintMod
ASSUME ClientAssumption == ResizeArgs \subseteq Nat /\ ShrinkAllowed \in BOOLEAN
ASSUME PtrAssumption ==
  /\ NULL \notin Ptr /\ Garbage \notin Ptr
  /\ Rank \in [Ptr -> Nat]

\* How vcalendar.c uses a vector: three quarters of InitMaxItems is less than
\* InitMaxItems, byte counts fit unsigned, and nobody shrinks.
SafeSizes == InitMaxItems >= 4 /\ PtrSize >= 2 /\ PtrSize * HeapMax < UintMod
SafeClient == SafeSizes /\ ~ShrinkAllowed

VARIABLES
  vec,            \* the PTRVEC, without its scratch buffer
  sortBuf,        \* the bytes there really are in its scratch buffer; 0 is none
  sortBuf_sz,     \* those it is recorded to have
  life,           \* "raw" (zeroed), "live", "destroyed" or "corrupt"
  ret             \* what the last call returned

vars == <<vec, sortBuf, sortBuf_sz, life, ret>>

----------------------------------------------------------------------------
(* Reading a vector *)

Uint(n) == n % UintMod

Vec(arr, max, num, hd, tl) ==
  [ptrArr |-> arr, maxItems |-> max, numItems |-> num, head |-> hd, tail |-> tl]

\* A memset(0) object has no block.
Zeroed == Vec(<<>>, 0, 0, 0, 0)

\* The slot of the i'th item from the head, and from the tail.
SlotFwd(v, i)  == (v.head + i) % v.maxItems
SlotBkwd(v, i) == (v.tail + v.maxItems - i) % v.maxItems

\* PTRVEC_loopFwd and PTRVEC_loopBkwd: the items in the order they are visited.
LoopFwd(v)  == [i \in 1..v.numItems |-> v.ptrArr[SlotFwd(v, i-1)]]
LoopBkwd(v) == [i \in 1..v.numItems |-> v.ptrArr[SlotBkwd(v, i-1)]]

\* PTRVEC_find: the item numbers where p is; the search stops at the least.
Find(v, p) == {i \in 0..(v.numItems - 1) : v.ptrArr[SlotFwd(v, i)] = p}

----------------------------------------------------------------------------
(* Room.  An outcome is the vector a call leaves and its return code.      *)

Out(v, rc) == [vec |-> v, rc |-> rc]

\* Fault variant: the wrapped head part is not moved to the end.
Resized_HeadStays(v, n) ==
  Vec([k \in 0..(n-1) |-> IF k < v.maxItems THEN v.ptrArr[k] ELSE Garbage],
      n, v.numItems, v.head, v.tail)

\* The block after realloc() to n slots: what fits is kept, the rest is
\* uninitialised; then, if the items wrap, the head part moves to the end.
\* The memmove reads slots of the new block only.
Resized(v, n) ==
  LET kept(k)  == IF k < v.maxItems /\ k < n THEN v.ptrArr[k] ELSE Garbage
      wraps    == v.head > v.tail
      headSize == v.maxItems - v.head
      moved(k) == IF k >= n - headSize THEN kept(k - n + v.maxItems) ELSE kept(k)
  IN  Vec([k \in 0..(n-1) |-> IF wraps THEN moved(k) ELSE kept(k)],
          n, v.numItems, IF wraps THEN n - headSize ELSE v.head, v.tail)

\* PTRVEC_resize
resize(v, n) ==
  IF n = 0 THEN {Out(v, 0)}
  ELSE {Out(v, 1)} \cup
       (IF n >= v.numItems /\ n <= HeapMax THEN {Out(Resized(v, n), 0)} ELSE {})

\* Try a; on its failure, which changes nothing, try b.
OrElse(a, b) ==
  {o \in a : o.rc = 0} \cup (IF \E o \in a : o.rc = 1 THEN b ELSE {})

grow(v) ==
  OrElse(resize(v, Uint(v.maxItems * 2)),
  OrElse(resize(v, Uint(v.maxItems + v.maxItems \div 2)),
         resize(v, Uint(v.maxItems + v.maxItems \div 4))))

----------------------------------------------------------------------------
(* Fault variants: plausible slips in the definition of the same name,     *)
(* against which the properties are tested.  No specification uses them.   *)

\* grow() one addition late
Room_Late(v) == IF v.numItems > v.maxItems THEN grow(v) ELSE {Out(v, 0)}

\* the tail moves even when the last item goes
TakeTail_NoGuard(v) ==
  Vec(v.ptrArr, v.maxItems, v.numItems - 1, v.head,
      (v.tail + v.maxItems - 1) % v.maxItems)

\* when malloc refuses, the size of the buffer just freed stays recorded
Scratch_Stale(sz, buf, recorded) ==
  IF sz > recorded
  THEN {[buf |-> sz, sz |-> sz, rc |-> 0], [buf |-> 0, sz |-> recorded, rc |-> 1]}
  ELSE {[buf |-> buf, sz |-> recorded, rc |-> 0]}

----------------------------------------------------------------------------
(* The list operations on a vector that has what they need *)

\* What both additions do first.
Room(v) == IF v.numItems = v.maxItems THEN grow(v) ELSE {Out(v, 0)}

PutHead(v, p) ==
  LET h == IF v.numItems > 0 THEN (v.head + v.maxItems - 1) % v.maxItems ELSE v.head
  IN  Vec([v.ptrArr EXCEPT ![h] = p], v.maxItems, v.numItems + 1, h, v.tail)

PutTail(v, p) ==
  LET t == IF v.numItems > 0 THEN (v.tail + 1) % v.maxItems ELSE v.tail
  IN  Vec([v.ptrArr EXCEPT ![t] = p], v.maxItems, v.numItems + 1, v.head, t)

\* The index stays put when the last item goes, so head = tail when empty.
TakeHead(v) ==
  Vec(v.ptrArr, v.maxItems, v.numItems - 1,
      IF v.numItems > 1 THEN (v.head + 1) % v.maxItems ELSE v.head, v.tail)

TakeTail(v) ==
  Vec(v.ptrArr, v.maxItems, v.numItems - 1, v.head,
      IF v.numItems > 1 THEN (v.tail + v.maxItems - 1) % v.maxItems ELSE v.tail)

\* PTRVEC_remove with the item in slot ndx: drop an end, or close the gap by
\* moving the items behind it down or the items before it up.
Without(v, ndx) ==
  LET less(arr, hd, tl) == Vec(arr, v.maxItems, v.numItems - 1, hd, tl)
  IN  IF v.numItems = 1 THEN less(v.ptrArr, 0, 0)
      ELSE IF ndx = v.head THEN less(v.ptrArr, (v.head + 1) % v.maxItems, v.tail)
      ELSE IF ndx = v.tail THEN
        less(v.ptrArr, v.head, (v.tail + v.maxItems - 1) % v.maxItems)
      ELSE IF ndx < v.tail THEN
        less([k \in DOMAIN v.ptrArr |->
                IF ndx <= k /\ k < v.tail THEN v.ptrArr[k + 1] ELSE v.ptrArr[k]],
             v.head, v.tail - 1)
      ELSE
        less([k \in DOMAIN v.ptrArr |->
                IF v.head < k /\ k <= ndx THEN v.ptrArr[k - 1] ELSE v.ptrArr[k]],
             v.head + 1, v.tail)

\* PTRVEC_reset
Emptied(v) == Vec(v.ptrArr, v.maxItems, 0, 0, 0)

\* The scratch buffer once PTRVEC_sort has made sure of sz bytes: one recorded to
\* be too small is freed for another, and none is left when malloc refuses.
Scratch(sz, buf, recorded) ==
  IF sz > recorded
  THEN {[buf |-> sz, sz |-> sz, rc |-> 0], [buf |-> 0, sz |-> 0, rc |-> 1]}
  ELSE {[buf |-> buf, sz |-> recorded, rc |-> 0]}

\* PTRVEC_sort's last loop: reset, then addTail of each sorted item in turn.
Refilled(v, s) ==
  Vec([k \in DOMAIN v.ptrArr |-> IF k < Len(s) THEN s[k + 1] ELSE v.ptrArr[k]],
      v.maxItems, Len(s), 0, Len(s) - 1)

----------------------------------------------------------------------------
(* The calls *)

D == INSTANCE Deque WITH items <- LoopFwd(vec)

Init == vec = Zeroed /\ sortBuf = 0 /\ sortBuf_sz = 0 /\ life = "raw" /\ ret = NULL

\* PTRVEC_constructor, also by way of PTRVEC_sinit of a zeroed object.
Construct ==
  /\ life \in {"raw", "destroyed"}
  /\ \/ /\ vec' = Vec([k \in 0..(InitMaxItems - 1) |-> Garbage], InitMaxItems, 0, 0, 0)
        /\ life' = "live" /\ ret' = 0
     \/ vec' = Zeroed /\ life' = "raw" /\ ret' = 1
  /\ sortBuf' = 0 /\ sortBuf_sz' = 0

\* PTRVEC_reset, also by way of PTRVEC_sinit of a live object.
Clear ==
  /\ life = "live"
  /\ vec' = Emptied(vec) /\ ret' = 0
  /\ UNCHANGED <<life, sortBuf, sortBuf_sz>>

Add(Put(_, _), p) ==
  /\ life = "live"
  /\ \E o \in Room(vec) :
       \/ o.rc = 1 /\ vec' = o.vec /\ ret' = NULL
       \/ o.rc = 0 /\ vec' = Put(o.vec, p) /\ ret' = p
  /\ UNCHANGED <<life, sortBuf, sortBuf_sz>>

AddHead(p) == Add(PutHead, p)
AddTail(p) == Add(PutTail, p)

RemHead ==
  /\ life = "live"
  /\ \/ vec.numItems = 0 /\ ret' = NULL /\ UNCHANGED vec
     \/ vec.numItems > 0 /\ ret' = vec.ptrArr[vec.head] /\ vec' = TakeHead(vec)
  /\ UNCHANGED <<life, sortBuf, sortBuf_sz>>

RemTail ==
  /\ life = "live"
  /\ \/ vec.numItems = 0 /\ ret' = NULL /\ UNCHANGED vec
     \/ vec.numItems > 0 /\ ret' = vec.ptrArr[vec.tail] /\ vec' = TakeTail(vec)
  /\ UNCHANGED <<life, sortBuf, sortBuf_sz>>

Remove(p) ==
  /\ life = "live"
  /\ \/ Find(vec, p) = {} /\ ret' = NULL /\ UNCHANGED vec
     \/ \E i \in Find(vec, p) :
          /\ \A j \in Find(vec, p) : i <= j
          /\ vec' = Without(vec, SlotFwd(vec, i)) /\ ret' = p
  /\ UNCHANGED <<life, sortBuf, sortBuf_sz>>

\* Copying the items to a scratch buffer that is too small is undefined.
Sort ==
  /\ life = "live"
  /\ \/ vec.numItems = 0 /\ ret' = 0 /\ UNCHANGED <<vec, sortBuf, sortBuf_sz, life>>
     \/ /\ vec.numItems > 0
        /\ \E b \in Scratch(Uint(PtrSize * vec.numItems), sortBuf, sortBuf_sz) :
             /\ sortBuf' = b.buf /\ sortBuf_sz' = b.sz /\ ret' = b.rc
             /\ \/ b.rc = 1 /\ UNCHANGED <<vec, life>>
                \/ /\ b.rc = 0
                   /\ \E s \in D!Qsort(LoopFwd(vec)) : vec' = Refilled(vec, s)
                   /\ life' = IF b.buf >= PtrSize * vec.numItems THEN "live" ELSE "corrupt"

Resize(n) ==
  /\ life = "live"
  /\ n = 0 \/ n < vec.numItems \/ n >= vec.maxItems \/ ShrinkAllowed
  /\ \E o \in resize(vec, n) : vec' = o.vec /\ ret' = o.rc
  /\ UNCHANGED <<life, sortBuf, sortBuf_sz>>

\* The blocks are freed; nothing may be read through the object any more.
Destroy ==
  /\ life = "live"
  /\ life' = "destroyed" /\ vec' = Zeroed /\ sortBuf' = 0 /\ sortBuf_sz' = 0
  /\ UNCHANGED ret

Next ==
  \/ Construct \/ Clear \/ RemHead \/ RemTail \/ Sort \/ Destroy
  \/ \E p \in Ptr : AddHead(p) \/ AddTail(p) \/ Remove(p)
  \/ \E n \in ResizeArgs : Resize(n)

Spec == Init /\ [][Next]_vars

----------------------------------------------------------------------------
(* Properties *)

Slots == 0..(vec.maxItems - 1)

\* Every field stays within its block and its bounds: numItems never exceeds
\* the room there is, and head and tail are slots of the block.
TypeOK ==
  /\ life \in {"raw", "live", "destroyed", "corrupt"}
  /\ ret \in Ptr \cup {NULL, 0, 1}
  /\ vec.ptrArr \in [Slots -> Ptr \cup {Garbage}]
  /\ vec.maxItems \in 0..HeapMax /\ vec.numItems \in 0..vec.maxItems
  /\ life = "live" => vec.head \in Slots /\ vec.tail \in Slots
  /\ sortBuf \in Nat /\ sortBuf_sz \in Nat

\* Head, tail and numItems describe one stretch of the ring: the stretch that
\* starts at head and has numItems slots ends at tail.  The calls at the tail
\* keep tail, those at the head keep head, and PTRVEC_remove keeps both.
RingShape ==
  life = "live" =>
    IF vec.numItems = 0 THEN vec.head = vec.tail
    ELSE vec.tail = SlotFwd(vec, vec.numItems - 1)

\* Both traversal macros visit the same items, in opposite orders: tail, which
\* only PTRVEC_loopBkwd reads, is right after any history of calls.
LoopsAgree ==
  life = "live" =>
    \A i \in 1..vec.numItems : LoopBkwd(vec)[i] = LoopFwd(vec)[vec.numItems + 1 - i]

\* What every call relies on from the calls before it (ptrvec.h:24-32).
RingSound == RingShape /\ LoopsAgree

\* PTRVEC_sort never copies the items past the end of its cached scratch
\* buffer (ptrvec.c:111, "or it isn't big enough, allocate more"), nor to one
\* that an earlier, refused sort freed: what is recorded of the buffer is true
\* through every history of growth, removal and refusal.
SortNeverOverruns == life # "corrupt"

\* The vector is a deque: every call does to its items what Deque says, for
\* every history of growth, wrap-around and refused memory.
ImplementsDeque == D!Spec
=============================================================================
