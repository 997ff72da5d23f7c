------------------------------- MODULE Deque -------------------------------
(***************************************************************************)
(* What ptrvec.h promises its caller: a double-ended queue of pointers     *)
(* that, apart from an addition which reports failure, never loses,        *)
(* invents or reorders an item.  Nothing here knows of slots, indices or   *)
(* memory; PtrVec.tla is shown to implement it.                            *)
(***************************************************************************)
EXTENDS Naturals, Sequences, FiniteSets

S == INSTANCE SequencesExt

CONSTANTS
  Ptr,          \* the pointers a caller may store
  NULL,         \* the null pointer
  Rank          \* the order the caller's cmp function induces on Ptr

VARIABLES
  items,        \* the sequence of stored pointers, head first
  life,         \* "raw" before construction, "live", then "destroyed"
  ret           \* what the last call returned

vars == <<items, life, ret>>

----------------------------------------------------------------------------
\* How often x occurs in s.
Copies(s, x) == Cardinality({i \in DOMAIN s : s[i] = x})

\* Whether the comparison function never puts a later item before an earlier.
Ordered(s) == \A i, j \in DOMAIN s : i < j => Rank[s[i]] <= Rank[s[j]]

\* The results qsort() may leave: ordered, the same items as often.  It is
\* not stable, so items that compare equal come in any order.
Qsort(s) ==
  {t \in [1..Len(s) -> S!Range(s)] :
     Ordered(t) /\ \A x \in S!Range(s) : Copies(t, x) = Copies(s, x)}

----------------------------------------------------------------------------
Init == items = <<>> /\ life = "raw" /\ ret = NULL

Construct ==
  /\ life \in {"raw", "destroyed"}
  /\ items' = <<>>
  /\ \/ life' = "live" /\ ret' = 0
     \/ life' = "raw"  /\ ret' = 1

\* PTRVEC_sinit of a live vector, and PTRVEC_reset.
Clear == life = "live" /\ items' = <<>> /\ ret' = 0 /\ UNCHANGED life

AddHead(p) ==
  /\ life = "live"
  /\ \/ items' = <<p>> \o items /\ ret' = p
     \/ items' = items /\ ret' = NULL
  /\ UNCHANGED life

AddTail(p) ==
  /\ life = "live"
  /\ \/ items' = Append(items, p) /\ ret' = p
     \/ items' = items /\ ret' = NULL
  /\ UNCHANGED life

RemHead ==
  /\ life = "live"
  /\ \/ items = <<>> /\ ret' = NULL /\ items' = items
     \/ items # <<>> /\ ret' = items[1] /\ items' = Tail(items)
  /\ UNCHANGED life

RemTail ==
  /\ life = "live"
  /\ \/ items = <<>> /\ ret' = NULL /\ items' = items
     \/ items # <<>> /\ ret' = items[Len(items)] /\ items' = S!Front(items)
  /\ UNCHANGED life

\* The occurrence of p nearest the head goes.
Remove(p) ==
  /\ life = "live"
  /\ \/ /\ \A i \in DOMAIN items : items[i] # p
        /\ ret' = NULL /\ items' = items
     \/ \E i \in DOMAIN items :
          /\ items[i] = p
          /\ \A j \in 1..(i-1) : items[j] # p
          /\ ret' = p /\ items' = S!RemoveAt(items, i)
  /\ UNCHANGED life

Sort ==
  /\ life = "live"
  /\ \/ ret' = 0 /\ items' \in Qsort(items)
     \/ ret' = 1 /\ items' = items
  /\ UNCHANGED life

\* Room is no business of the caller: its items stay whatever is answered.
Resize == life = "live" /\ ret' \in {0, 1} /\ UNCHANGED <<items, life>>

Destroy == life = "live" /\ life' = "destroyed" /\ items' = <<>> /\ UNCHANGED ret

Next ==
  \/ Construct \/ Clear \/ RemHead \/ RemTail \/ Sort \/ Resize \/ Destroy
  \/ \E p \in Ptr : AddHead(p) \/ AddTail(p) \/ Remove(p)

Spec == Init /\ [][Next]_vars
=============================================================================
