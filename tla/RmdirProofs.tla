---------------------------- MODULE RmdirProofs ----------------------------
(***************************************************************************)
(* rmdir_recursive on any tree, with any links in it, whichever calls fail *)
(* and whatever another process does meanwhile: it removes the tree when   *)
(* it says so and nothing else, and when it aborts the program there is a  *)
(* reason for it.                                                          *)
(***************************************************************************)
EXTENDS Rmdir, FiniteSetTheorems, SequenceTheorems, WellFoundedInduction, TLAPS

(* The files *)

Place == Node \cup {Root, Out}

\* Each file is in a directory with a smaller number, a link leads somewhere or
\* nowhere, and only a file may have come later.
FilesInv ==
  /\ kind \in [Node -> {"dir", "file", "link"}]
  /\ parent \in [Node -> Place]
  /\ \A n \in Node : parent[n] < n /\ parent[n] \in Dirs
  /\ target \in [Links -> Place \cup {Nothing}]
  /\ {Root, Out} \subseteq was /\ was \subseteq Place
  /\ \A n \in Node \ was : kind[n] = "file"

----------------------------------------------------------------------------
(* The calls under way *)

Frame ==
  [at : Node \cup {Root}, dir : Place, sb : BOOLEAN, unread : SUBSET (Node \cup {Root, DotDot})]

\* Whether the entry at hand is one of the innermost listing.
AtEntry == pc \in {"stat", "unlink", "crashed"} \/ (pc = "opendir" /\ frames # <<>>)

\* A listing is of the directory its path leads to, and has left what is there
\* and DotDot.
ListingInv ==
  \A i \in DOMAIN frames :
    /\ frames[i].dir = Resolve(frames[i].at) /\ frames[i].dir \in Dirs
    /\ frames[i].unread \subseteq Within(frames[i].dir) \cup {DotDot}
    /\ i = 1 => frames[i].at = Root
    /\ i > 1 => frames[i].at \in Within(frames[i-1].dir) /\ frames[i].at \notin frames[i-1].unread

\* What is at hand was listed by the innermost call.
EntryInv ==
  /\ frames # <<>> /\ AtEntry => entry \in Within(Top.dir) /\ (entry \in was => entry \notin Top.unread)
  /\ pc = "opendir" /\ frames = <<>> => entry = Root
  /\ pc = "opendir" => Resolve(entry) \in Dirs
  /\ pc = "unlink" => Resolve(entry) \notin Dirs
  /\ pc \in Calls \ {"opendir"} => frames # <<>>
  /\ pc = "done" => frames = <<>> /\ Root \notin present

CallsInv ==
  /\ present \subseteq Place /\ entry \in Place
  /\ frames \in Seq(Frame)
  /\ opened \in 0..MaxOpen /\ Len(frames) <= opened
  /\ meddled \in 0..MaxMeddle /\ failed \in BOOLEAN
  /\ pc \in Calls \cup Ended
  /\ ListingInv /\ EntryInv

\* What is there is in something that is there.
Grounded == \A n \in Node \cap present : parent[n] \in present

----------------------------------------------------------------------------
(* What is removed *)

NoLink == \A i \in DOMAIN frames : frames[i].at \notin Links

\* When nobody else meddles, nothing comes, and what goes is what links lead to
\* at most; until a call is at a link it is only what is inside.
RemovalInv ==
  meddled = 0 =>
    /\ present \subseteq was /\ was \ present \subseteq Linked
    /\ \A i \in DOMAIN frames : {frames[i].at, frames[i].dir} \subseteq Linked
    /\ NoLink => /\ was \ present \subseteq Inside
                 /\ \A i \in DOMAIN frames : frames[i].at \in Inside

----------------------------------------------------------------------------
(* When there is no reason to abort *)

\* No call fails, nobody meddles, there are enough descriptors, and the links
\* lead to files outside.
Calm ==
  /\ ~failed /\ meddled = 0
  /\ Cardinality(Inside \cap Dirs) <= MaxOpen
  /\ \A l \in Links \cap Inside : ~Troublesome(l)

\* The directories inside that were opened: those that are gone again, and
\* those whose listing is under way.
Opened == ((Inside \cap Dirs) \ present) \cup {frames[i].at : i \in DOMAIN frames}

\* What was listed of the i-th call's directory and is not removed yet.
InHand(i) ==
  IF i < Len(frames) THEN {frames[i+1].at} ELSE IF AtEntry THEN {entry} ELSE {}

\* The calls descend in the tree, from one directory that is there to another
\* in it; what is there of a directory and not in hand is still to be listed;
\* and each directory was opened once.
CalmInv ==
  /\ NoLink /\ pc # "aborted"
  /\ \A i \in DOMAIN frames :
       /\ frames[i].at \in present /\ frames[i].unread \subseteq present \cup {DotDot}
       /\ Within(frames[i].dir) \cap present \subseteq frames[i].unread \cup InHand(i)
  /\ \A i, j \in DOMAIN frames : i < j => frames[i].at < frames[j].at
  /\ AtEntry \/ pc = "opendir" => entry \in present
  /\ pc = "rmdir" => Within(Top.dir) \cap present = {}
  /\ opened = Cardinality(Opened)

RmdirInv ==
  /\ FilesInv /\ CallsInv /\ Grounded /\ RemovalInv
  /\ Calm => CalmInv

----------------------------------------------------------------------------
(* Places *)

LEMMA Constants ==
  /\ N \in Nat /\ MaxOpen \in Nat /\ MaxLinks \in Nat /\ MaxLinks >= 1 /\ MaxMeddle \in Nat
  /\ Node \subseteq Nat /\ (\A n \in Node : n > 0) /\ IsFiniteSet(Node)
  /\ Root \notin Node /\ Out \notin Node /\ Root # Out /\ Root = 0 /\ Out = -1
  /\ Place \subseteq Int /\ DotDot \notin Place /\ Nothing \notin Place
  /\ Node \subseteq Place /\ Root \in Place /\ Out \in Place
<1>1. N \in Nat /\ MaxOpen \in Nat /\ MaxLinks \in Nat /\ MaxLinks >= 1 /\ MaxMeddle \in Nat
  BY BoundAssumption
<1>2. /\ Node \subseteq Nat /\ \A n \in Node : n > 0
      /\ Root \notin Node /\ Out \notin Node /\ Root # Out /\ Root = 0 /\ Out = -1
  BY DEF Node, Root, Out
<1>3. IsFiniteSet(Node)
  BY <1>1, FS_Interval DEF Node
<1>4. Place \subseteq Int /\ \A n \in Place : n \in (-1)..N
  BY <1>1 DEF Place, Node, Root, Out
<1>5. DotDot \notin Place /\ Nothing \notin Place
  BY <1>4, NameAssumption
<1>6. Node \subseteq Place /\ Root \in Place /\ Out \in Place
  BY DEF Place
<1> QED
  BY <1>1, <1>2, <1>3, <1>4, <1>5, <1>6

\* Where things are, and where links lead.
LEMMA FileFacts ==
  ASSUME FilesInv
  PROVE  /\ Links \subseteq Node /\ Dirs \subseteq Place /\ Root \in Dirs /\ Out \in Dirs
         /\ Links \cap Dirs = {}
         /\ \A n \in Place : n \notin Links => Resolve(n) = n
         /\ \A n \in Links : Resolve(n) = target[n] /\ target[n] \in Place \cup {Nothing}
         /\ \A d : Within(d) \subseteq Node \cup {Root}
         /\ \A d : \A n \in Within(d) \cap Node : parent[n] = d
         /\ \A n \in Node : n \in Within(parent[n]) /\ parent[n] \in Dirs /\ parent[n] < n
         /\ \A d : d # Out => Root \notin Within(d)
         /\ \A d : d \notin Dirs => Within(d) = {}
         /\ \A n \in Node : kind[n] = "file" => n \notin Links /\ n \notin Dirs
<1>1. /\ Links \subseteq Node /\ Dirs \subseteq Place /\ Root \in Dirs /\ Out \in Dirs
      /\ Links \cap Dirs = {}
  BY Constants DEF Links, Dirs
<1>2. /\ \A n \in Place : n \notin Links => Resolve(n) = n
      /\ \A n \in Links : Resolve(n) = target[n] /\ target[n] \in Place \cup {Nothing}
  BY DEF Resolve, FilesInv
<1>3. \A d : Within(d) = {n \in Node : parent[n] = d} \cup {n \in {Root} : d = Out}
  BY DEF Within
<1>4. \A n \in Node : parent[n] \in Dirs /\ parent[n] < n
  BY DEF FilesInv
<1>5. /\ \A d : Within(d) \subseteq Node \cup {Root}
      /\ \A d : \A n \in Within(d) \cap Node : parent[n] = d
      /\ \A n \in Node : n \in Within(parent[n])
      /\ \A d : d # Out => Root \notin Within(d)
  BY <1>3, Constants
<1>6. \A d : d \notin Dirs => Within(d) = {}
  BY <1>1, <1>3, <1>4
<1>7. \A n \in Node : kind[n] = "file" => n \notin Links /\ n \notin Dirs
  BY Constants DEF Links, Dirs
<1> QED
  BY <1>1, <1>2, <1>4, <1>5, <1>6, <1>7

LEMMA ReachedIs ==
  ASSUME NEW leads, \A m \in Everything : leads[m] \subseteq Everything
  PROVE  /\ Root \in Reached(leads) /\ Reached(leads) \subseteq Everything
         /\ \A m \in Reached(leads) : leads[m] \subseteq Reached(leads)
         /\ \A R \in SUBSET Everything :
              Root \in R /\ (\A m \in R : leads[m] \subseteq R) => Reached(leads) \subseteq R
  BY DEF Reached, Everything

\* What is inside is Root and what is in something inside.
LEMMA InsideIs ==
  ASSUME FilesInv
  PROVE  /\ Root \in Inside /\ Inside \subseteq Node \cup {Root}
         /\ \A m \in Inside : Within(m) \subseteq Inside
         /\ \A n \in Inside \ {Root} : n \in Node /\ parent[n] \in Inside
<1> DEFINE leads == [n \in Everything |-> Within(n)]
<1>1. \A m \in Everything : leads[m] = Within(m) /\ leads[m] \subseteq Everything
  BY FileFacts DEF Everything
<1>2. Inside = Reached(leads)
  BY DEF Inside
<1> HIDE DEF leads
<1>3. /\ Root \in Inside /\ Inside \subseteq Everything
      /\ \A m \in Inside : leads[m] \subseteq Inside
      /\ \A R \in SUBSET Everything :
           Root \in R /\ (\A m \in R : leads[m] \subseteq R) => Inside \subseteq R
  BY <1>1, <1>2, ReachedIs
<1>4. \A m \in Inside : Within(m) \subseteq Inside
  BY <1>1, <1>3
<1>5. Inside \subseteq Node \cup {Root}
  <2>1. \A m \in Node \cup {Root} : Within(m) \subseteq Node \cup {Root}
    BY FileFacts
  <2>2. Node \cup {Root} \in SUBSET Everything
    BY DEF Everything
  <2>3. \A m \in Node \cup {Root} : leads[m] \subseteq Node \cup {Root}
    BY <1>1, <2>1, <2>2
  <2> QED
    BY <1>3, <2>2, <2>3
<1>6. ASSUME NEW n \in Inside \ {Root} PROVE n \in Node /\ parent[n] \in Inside
  <2>1. n \in Node
    BY <1>5
  <2>2. ASSUME parent[n] \notin Inside PROVE FALSE
    <3> DEFINE R == Inside \ {n}
    <3>1. R \in SUBSET Everything /\ Root \in R
      BY <1>3
    <3>2. \A m \in R : n \notin Within(m)
      BY <2>1, <2>2, FileFacts
    <3>3. \A m \in R : leads[m] \subseteq R
      BY <1>1, <1>3, <1>4, <3>2
    <3>4. Inside \subseteq R
      BY <1>3, <3>1, <3>3
    <3> QED
      BY <3>4
  <2> QED
    BY <2>1, <2>2
<1> QED
  BY <1>3, <1>4, <1>5, <1>6

LEMMA LinkedIs ==
  ASSUME FilesInv
  PROVE  /\ Root \in Linked
         /\ \A m \in Linked : Within(m) \subseteq Linked
         /\ \A m \in Linked : Resolve(m) \in Linked
<1> DEFINE leads == [n \in Everything |-> Within(n) \cup {target[l] : l \in Links \cap {n}}]
<1>1. \A m \in Everything : leads[m] = Within(m) \cup {target[l] : l \in Links \cap {m}}
  OBVIOUS
<1>2. \A m \in Everything : leads[m] \subseteq Everything
  <2>1. \A m \in Everything : Within(m) \subseteq Everything
    BY FileFacts DEF Everything
  <2>2. \A l \in Links : target[l] \in Everything
    BY FileFacts DEF Everything, Place
  <2> QED
    BY <1>1, <2>1, <2>2
<1>3. Linked = Reached(leads)
  BY DEF Linked
<1> HIDE DEF leads
<1>4. /\ Root \in Linked /\ Linked \subseteq Everything
      /\ \A m \in Linked : leads[m] \subseteq Linked
  BY <1>2, <1>3, ReachedIs
<1>5. \A m \in Linked : Within(m) \subseteq Linked
  BY <1>1, <1>4
<1>6. \A m \in Linked : Resolve(m) \in Linked
  BY <1>1, <1>4 DEF Resolve
<1> QED
  BY <1>4, <1>5, <1>6

\* Nobody changes what a file is, or where.
LEMMA FilesSame ==
  ASSUME UNCHANGED <<files, was>>
  PROVE  /\ Links' = Links /\ Dirs' = Dirs /\ Inside' = Inside /\ Linked' = Linked
         /\ kind' = kind /\ parent' = parent /\ target' = target /\ was' = was
         /\ FilesInv => FilesInv'
<1>1. kind' = kind /\ parent' = parent /\ target' = target /\ was' = was
  BY DEF files
<1>2. Links' = Links /\ Dirs' = Dirs
  BY <1>1 DEF Links, Dirs
<1>3. Inside' = Inside /\ Linked' = Linked
  BY <1>1, <1>2 DEF Inside, Linked, Reached, Within
<1>4. FilesInv => FilesInv'
  BY <1>1, <1>2 DEF FilesInv
<1> QED
  BY <1>1, <1>2, <1>3, <1>4

LEMMA InitFiles == Init => FilesInv
<1> SUFFICES ASSUME Init PROVE FilesInv
  OBVIOUS
<1>1. PICK late \in SUBSET {n \in Node : kind[n] = "file" /\ MaxMeddle > 0} :
        was = {Root, Out} \cup (Node \ late)
  BY DEF Init
<1>2. target \in [Links -> Place \cup {Nothing}]
  <2>1. Dirs \cup {n \in Node : kind[n] = "file"} \cup {Nothing} \subseteq Place \cup {Nothing}
    BY DEF Dirs, Place
  <2> QED
    BY <2>1 DEF Init
<1>3. {Root, Out} \subseteq was /\ was \subseteq Place /\ \A n \in Node \ was : kind[n] = "file"
  BY <1>1 DEF Place
<1>4. parent \in [Node -> Place]
  BY DEF Init, Place
<1> QED
  BY <1>2, <1>3, <1>4 DEF Init, FilesInv

----------------------------------------------------------------------------
(* The calls under way *)

\* Only files came later.
LEMMA DirWas ==
  ASSUME FilesInv, NEW n \in Node \cup {Root}, Resolve(n) \in Dirs
  PROVE  n \in was
<1>1. CASE n = Root
  BY <1>1 DEF FilesInv
<1>2. CASE n \in Node /\ n \notin was
  <2>1. n \notin Links /\ n \notin Dirs /\ n \in Place
    BY <1>2, FileFacts, Constants DEF FilesInv
  <2> QED
    BY <2>1, FileFacts
<1> QED
  BY <1>1, <1>2

\* The calls stay where they are, and of their listings what came later
\* may come back at most.
Remains(new, old) ==
  /\ new \in Seq(Frame) /\ Len(new) = Len(old)
  /\ \A i \in DOMAIN old :
       /\ new[i].at = old[i].at /\ new[i].dir = old[i].dir
       /\ new[i].unread \subseteq
            old[i].unread \cup {n \in Within(old[i].dir) : n \notin was}

LEMMA FrameFacts ==
  ASSUME FilesInv, frames \in Seq(Frame), ListingInv
  PROVE  /\ Len(frames) \in Nat /\ DOMAIN frames = 1..Len(frames)
         /\ \A i \in DOMAIN frames :
              /\ frames[i] \in Frame /\ frames[i].at \in Node \cup {Root}
              /\ frames[i].dir \in Dirs /\ frames[i].dir = Resolve(frames[i].at)
              /\ frames[i].unread \subseteq Node \cup {Root, DotDot}
              /\ frames[i].at \in was
         /\ frames # <<>> => Len(frames) \in DOMAIN frames /\ Top = frames[Len(frames)]
<1>1. Len(frames) \in Nat /\ DOMAIN frames = 1..Len(frames)
  OBVIOUS
<1>2. \A i \in DOMAIN frames : frames[i] \in Frame
  BY <1>1
<1>3. ASSUME NEW i \in DOMAIN frames
      PROVE  /\ frames[i].at \in Node \cup {Root} /\ frames[i].dir \in Dirs
             /\ frames[i].dir = Resolve(frames[i].at)
             /\ frames[i].unread \subseteq Node \cup {Root, DotDot}
             /\ frames[i].at \in was
  <2>1. frames[i].at \in Node \cup {Root} /\ frames[i].unread \subseteq Node \cup {Root, DotDot}
    BY <1>2 DEF Frame
  <2>2. frames[i].dir \in Dirs /\ frames[i].dir = Resolve(frames[i].at)
    BY DEF ListingInv
  <2>3. frames[i].at \in was
    BY <2>1, <2>2, DirWas
  <2> QED
    BY <2>1, <2>2, <2>3
<1>4. frames # <<>> => Len(frames) \in DOMAIN frames /\ Top = frames[Len(frames)]
  BY DEF Top
<1> QED
  BY <1>1, <1>2, <1>3, <1>4

LEMMA ListingRemains ==
  ASSUME FilesInv, frames \in Seq(Frame), ListingInv, UNCHANGED <<files, was>>,
         Remains(frames', frames)
  PROVE  ListingInv'
<1>1. /\ Len(frames) \in Nat /\ DOMAIN frames = 1..Len(frames) /\ DOMAIN frames' = DOMAIN frames
  BY FrameFacts DEF Remains
<1>2. Links' = Links /\ Dirs' = Dirs /\ parent' = parent /\ target' = target
  BY FilesSame
<1> SUFFICES ASSUME NEW i \in DOMAIN frames
             PROVE  /\ frames'[i].dir = Resolve(frames[i].at)' /\ frames'[i].dir \in Dirs
                    /\ frames'[i].unread \subseteq Within(frames[i].dir)' \cup {DotDot}
                    /\ i = 1 => frames'[i].at = Root
                    /\ i > 1 => /\ frames'[i].at \in Within(frames[i-1].dir)'
                                /\ frames'[i].at \notin frames'[i-1].unread
  BY <1>1, <1>2 DEF ListingInv
<1>3. frames'[i].dir = frames[i].dir /\ frames'[i].at = frames[i].at
  BY DEF Remains
<1>4. frames'[i].dir = Resolve(frames[i].at)' /\ frames'[i].dir \in Dirs
  <2>1. Resolve(frames[i].at)' = Resolve(frames[i].at)
    BY <1>2, <1>3 DEF Resolve
  <2> QED
    BY <1>3, <2>1, FrameFacts
<1>5. frames'[i].unread \subseteq Within(frames[i].dir)' \cup {DotDot}
  <2>1. Within(frames[i].dir)' = Within(frames[i].dir)
    BY <1>2, <1>3 DEF Within
  <2> QED
    BY <2>1 DEF ListingInv, Remains
<1>6. i = 1 => frames'[i].at = Root
  BY <1>3 DEF ListingInv
<1>7. ASSUME i > 1
      PROVE  frames'[i].at \in Within(frames[i-1].dir)' /\ frames'[i].at \notin frames'[i-1].unread
  <2>1. i - 1 \in DOMAIN frames
    BY <1>1, <1>7
  <2>2. Within(frames[i-1].dir)' = Within(frames[i-1].dir)
    BY <1>2, <2>1 DEF Within, Remains
  <2>3. frames[i].at \in Within(frames[i-1].dir) /\ frames[i].at \notin frames[i-1].unread
    BY <1>7 DEF ListingInv
  <2>4. frames[i].at \in was
    BY FrameFacts
  <2> QED
    BY <1>3, <2>1, <2>2, <2>3, <2>4 DEF Remains
<1> QED
  BY <1>4, <1>5, <1>6, <1>7

\* As long as they are.
LEMMA RemainsSame ==
  ASSUME frames \in Seq(Frame), UNCHANGED frames PROVE Remains(frames', frames)
  BY DEF Remains

\* And while the innermost listing is read.
LEMMA RemainsRead ==
  ASSUME frames \in Seq(Frame), frames # <<>>, NEW e,
         frames' = [frames EXCEPT ![Len(frames)].unread = @ \ {e}]
  PROVE  Remains(frames', frames) /\ Top'.unread = Top.unread \ {e}
         /\ \A i \in DOMAIN frames : i < Len(frames) => frames'[i] = frames[i]
<1>1. Len(frames) \in Nat /\ DOMAIN frames = 1..Len(frames) /\ Len(frames) \in DOMAIN frames
  OBVIOUS
<1> DEFINE f == frames[Len(frames)]
           g == [f EXCEPT !.unread = f.unread \ {e}]
<1>2. f \in Frame
  BY <1>1
<1>3. g \in Frame /\ g.at = f.at /\ g.dir = f.dir /\ g.unread = f.unread \ {e}
  BY <1>2 DEF Frame
<1>4. frames' = [frames EXCEPT ![Len(frames)] = g]
  BY <1>1
<1> HIDE DEF g
<1>5. frames' \in Seq(Frame) /\ Len(frames') = Len(frames)
  <2> DEFINE last == Len(frames)
  <2>1. last \in 1..Len(frames) /\ g \in Frame
    BY <1>1, <1>3
  <2> HIDE DEF last
  <2>2. [frames EXCEPT ![last] = g] \in Seq(Frame) /\ Len([frames EXCEPT ![last] = g]) = Len(frames)
    BY <2>1, ExceptSeq
  <2> QED
    BY <1>4, <2>2 DEF last
<1>6. frames'[Len(frames)] = g /\ \A i \in DOMAIN frames : i < Len(frames) => frames'[i] = frames[i]
  BY <1>1, <1>4
<1>7. Remains(frames', frames)
  BY <1>1, <1>3, <1>5, <1>6 DEF Remains
<1> QED
  BY <1>3, <1>5, <1>6, <1>7 DEF Top

LEMMA FrontIs ==
  ASSUME frames \in Seq(Frame), frames # <<>>, frames' = Seqs!Front(frames)
  PROVE  /\ frames' \in Seq(Frame) /\ Len(frames') = Len(frames) - 1
         /\ \A i \in 1..(Len(frames) - 1) : frames'[i] = frames[i]
<1> DEFINE m == Len(frames) - 1
<1>1. m \in Nat /\ \A i \in 1..m : frames[i] \in Frame
  OBVIOUS
<1>2. frames' = SubSeq(frames, 1, m)
  BY DEF Seqs!Front
<1> HIDE DEF m
<1>3. /\ frames' \in Seq(Frame)
      /\ Len(frames') = IF 1 <= m THEN m - 1 + 1 ELSE 0
      /\ \A i \in 1..(m - 1 + 1) : frames'[i] = frames[1 + i - 1]
  BY <1>1, <1>2, SubSeqProperties
<1>4. Len(frames') = m /\ \A i \in 1..m : frames'[i] = frames[i]
  BY <1>1, <1>3
<1> QED
  BY <1>3, <1>4 DEF m

\* What opendir adds to the calls.
Begun(f) ==
  /\ f \in Frame /\ f.at = entry /\ f.dir = Resolve(entry)
  /\ f.unread = {DotDot} \cup (Within(Resolve(entry)) \cap present)
  /\ frames' \in Seq(Frame) /\ Len(frames') = Len(frames) + 1
  /\ frames'[Len(frames) + 1] = f
  /\ \A i \in DOMAIN frames : frames'[i] = frames[i]

LEMMA OpendirIs ==
  ASSUME FilesInv, CallsInv, Opendir
  PROVE  /\ \E f : Begun(f)
         /\ entry \in Node \cup {Root} /\ entry \in was /\ Resolve(entry) \in Dirs
         /\ frames # <<>> => entry \in Within(Top.dir) \ Top.unread
         /\ frames = <<>> => entry = Root
         /\ opened + 1 \in 0..MaxOpen
<1>1. frames \in Seq(Frame) /\ entry \in Place /\ pc = "opendir" /\ EntryInv
  BY DEF CallsInv, Opendir
<1>2. Resolve(entry) \in Dirs /\ opened < MaxOpen
  BY DEF Opendir, CanOpen
<1>3. entry \in Node \cup {Root}
  <2>1. CASE frames = <<>>
    BY <1>1, <2>1 DEF EntryInv
  <2>2. CASE frames # <<>>
    <3>1. entry \in Within(Top.dir)
      BY <1>1, <2>2 DEF EntryInv, AtEntry
    <3> QED
      BY <3>1, FileFacts
  <2> QED
    BY <2>1, <2>2
<1>4. entry \in was
  BY <1>2, <1>3, DirWas
<1>5. frames # <<>> => entry \in Within(Top.dir) \ Top.unread
  BY <1>1, <1>4 DEF EntryInv, AtEntry
<1>6. frames = <<>> => entry = Root
  BY <1>1 DEF EntryInv
<1>7. opened + 1 \in 0..MaxOpen
  BY <1>2, Constants DEF CallsInv
<1>8. PICK sb \in BOOLEAN :
        frames' = Append(frames,
          [at |-> entry, dir |-> Resolve(entry), sb |-> sb,
           unread |-> {DotDot} \cup (Within(Resolve(entry)) \cap present)])
  BY DEF Opendir
<1> DEFINE f == [at |-> entry, dir |-> Resolve(entry), sb |-> sb,
                 unread |-> {DotDot} \cup (Within(Resolve(entry)) \cap present)]
<1>9. f \in Frame
  <2>1. {DotDot} \cup (Within(Resolve(entry)) \cap present) \subseteq Node \cup {Root, DotDot}
    BY FileFacts
  <2>2. Resolve(entry) \in Place
    BY <1>2, FileFacts
  <2> QED
    BY <1>3, <2>1, <2>2 DEF Frame
<1>10. /\ f.at = entry /\ f.dir = Resolve(entry)
       /\ f.unread = {DotDot} \cup (Within(Resolve(entry)) \cap present)
  OBVIOUS
<1> HIDE DEF f
<1>11. frames' = Append(frames, f)
  BY <1>8 DEF f
<1>12. DOMAIN frames = 1..Len(frames)
  BY <1>1
<1>13. Begun(f)
  BY <1>1, <1>9, <1>10, <1>11, <1>12, AppendProperties DEF Begun
<1> QED
  BY <1>2, <1>3, <1>4, <1>5, <1>6, <1>7, <1>13

LEMMA OpendirCalls == FilesInv /\ CallsInv /\ Opendir => CallsInv'
<1> SUFFICES ASSUME FilesInv, CallsInv, Opendir PROVE CallsInv'
  OBVIOUS
<1>1. PICK f : Begun(f)
  BY OpendirIs
<1>2. /\ opened' = opened + 1 /\ pc' = "readdir" /\ entry' = Root
      /\ UNCHANGED <<files, present, was, failed, meddled>>
  BY DEF Opendir
<1>3. frames \in Seq(Frame) /\ ListingInv
  BY DEF CallsInv
<1>4. /\ Len(frames) \in Nat /\ DOMAIN frames = 1..Len(frames)
      /\ DOMAIN frames' = 1..(Len(frames) + 1) /\ frames' # <<>>
  BY <1>1, <1>3 DEF Begun
<1>5. /\ Links' = Links /\ Dirs' = Dirs /\ parent' = parent /\ target' = target
  BY <1>2, FilesSame
<1>6. ListingInv'
  <2> SUFFICES ASSUME NEW i \in DOMAIN frames'
               PROVE  /\ frames'[i].dir = Resolve(frames[i].at)' /\ frames'[i].dir \in Dirs
                      /\ frames'[i].unread \subseteq Within(frames[i].dir)' \cup {DotDot}
                      /\ i = 1 => frames'[i].at = Root
                      /\ i > 1 => /\ frames'[i].at \in Within(frames[i-1].dir)'
                                  /\ frames'[i].at \notin frames'[i-1].unread
    BY <1>5 DEF ListingInv
  <2>0. /\ Resolve(frames[i].at)' = Resolve(frames'[i].at)
        /\ Within(frames[i].dir)' = Within(frames'[i].dir)
        /\ Within(frames[i-1].dir)' = Within(frames'[i-1].dir)
    BY <1>5 DEF Resolve, Within
  <2>1. CASE i \in DOMAIN frames
    <3>1. frames'[i] = frames[i] /\ (i > 1 => i - 1 \in DOMAIN frames /\ frames'[i-1] = frames[i-1])
      BY <1>1, <1>4, <2>1 DEF Begun
    <3> QED
      BY <1>3, <2>0, <2>1, <3>1 DEF ListingInv
  <2>2. CASE i = Len(frames) + 1
    <3>1. /\ frames'[i].at = entry /\ frames'[i].dir = Resolve(entry)
          /\ frames'[i].unread = {DotDot} \cup (Within(Resolve(entry)) \cap present)
      BY <1>1, <2>2 DEF Begun
    <3>2. i = 1 => frames = <<>>
      BY <1>3, <1>4, <2>2
    <3>3. i > 1 => frames # <<>> /\ i - 1 = Len(frames) /\ i - 1 \in DOMAIN frames
      BY <1>3, <1>4, <2>2
    <3>4. i > 1 => frames'[i-1] = Top
      BY <1>1, <3>3 DEF Begun, Top
    <3> QED
      BY <2>0, <3>1, <3>2, <3>3, <3>4, OpendirIs
  <2> QED
    BY <1>4, <2>1, <2>2
<1>7. EntryInv'
  <2>1. ~AtEntry'
    BY <1>2 DEF AtEntry
  <2> QED
    BY <1>2, <1>4, <2>1 DEF EntryInv, Calls
<1>8. frames' \in Seq(Frame) /\ opened' \in 0..MaxOpen /\ Len(frames') <= opened'
  <2>1. Len(frames) <= opened /\ opened \in Nat
    BY DEF CallsInv
  <2> QED
    BY <1>1, <1>2, <1>4, <2>1, OpendirIs DEF Begun
<1>9. entry' \in Place /\ pc' \in Calls \cup Ended /\ failed' \in BOOLEAN
  <2>1. failed \in BOOLEAN
    BY DEF CallsInv
  <2> QED
    BY <1>2, <2>1, Constants DEF Calls
<1> QED
  BY <1>2, <1>6, <1>7, <1>8, <1>9 DEF CallsInv

LEMMA RemainsTop ==
  ASSUME frames \in Seq(Frame), Remains(frames', frames)
  PROVE  /\ frames' = <<>> <=> frames = <<>>
         /\ frames # <<>> =>
              /\ Top'.at = Top.at /\ Top'.dir = Top.dir
              /\ Top'.unread \subseteq Top.unread \cup {n \in Within(Top.dir) : n \notin was}
<1>1. /\ Len(frames) \in Nat /\ frames' \in Seq(Frame) /\ Len(frames') = Len(frames)
  BY DEF Remains
<1>2. frames # <<>> => Len(frames) \in DOMAIN frames
  OBVIOUS
<1>3. frames' = <<>> <=> frames = <<>>
  BY <1>1
<1> QED
  BY <1>1, <1>2, <1>3 DEF Remains, Top

\* A step that leaves the calls where they are.
LEMMA RemainsCalls ==
  ASSUME FilesInv, CallsInv, UNCHANGED <<files, was, opened>>, Remains(frames', frames),
         present' \subseteq Place, entry' \in Place, pc' \in Calls \cup Ended,
         failed' \in BOOLEAN, meddled' \in 0..MaxMeddle, EntryInv'
  PROVE  CallsInv'
<1>1. ListingInv'
  BY ListingRemains DEF CallsInv
<1>2. frames' \in Seq(Frame) /\ Len(frames') = Len(frames)
  BY DEF Remains
<1> QED
  BY <1>1, <1>2 DEF CallsInv

LEMMA SkipCalls == FilesInv /\ CallsInv /\ Skip => CallsInv'
<1> SUFFICES ASSUME FilesInv, CallsInv, Skip PROVE CallsInv'
  OBVIOUS
<1>1. pc = "readdir" /\ UNCHANGED <<files, present, was, entry, opened, pc, failed, meddled>>
  BY DEF Skip
<1>2. PICK e : frames' = [frames EXCEPT ![Len(frames)].unread = @ \ {e}]
  BY DEF Skip
<1>3. frames \in Seq(Frame) /\ frames # <<>>
  BY <1>1 DEF CallsInv, EntryInv, Calls
<1>4. Remains(frames', frames)
  BY <1>2, <1>3, RemainsRead
<1>5. frames' # <<>>
  BY <1>3, <1>4, RemainsTop
<1>6. EntryInv'
  BY <1>1, <1>5 DEF EntryInv, AtEntry
<1> QED
  BY <1>1, <1>4, <1>6, RemainsCalls DEF CallsInv

\* An entry comes to hand.
LEMMA ReaddirIs ==
  ASSUME FilesInv, CallsInv, Readdir
  PROVE  /\ entry' \in Within(Top.dir) /\ entry' \in Top.unread /\ entry' \in Place
         /\ Remains(frames', frames) /\ Top'.unread = Top.unread \ {entry'}
         /\ frames # <<>> /\ frames' # <<>>
         /\ \A i \in DOMAIN frames : i < Len(frames) => frames'[i] = frames[i]
         /\ pc' \in {"stat", "crashed"}
         /\ UNCHANGED <<files, present, was, opened, failed, meddled>>
<1>1. /\ pc = "readdir" /\ pc' \in {"stat", "crashed"}
      /\ UNCHANGED <<files, present, was, opened, failed, meddled>>
  BY DEF Readdir
<1>2. frames \in Seq(Frame) /\ frames # <<>> /\ ListingInv
  BY <1>1 DEF CallsInv, EntryInv, Calls
<1>3. PICK e \in Top.unread :
        /\ e # DotDot /\ entry' = Named(Top.dir, e)
        /\ frames' = [frames EXCEPT ![Len(frames)].unread = @ \ {e}]
  BY DEF Readdir, Skipped
<1>4. entry' = e
  BY <1>3 DEF Named
<1>5. Top.unread \subseteq Within(Top.dir) \cup {DotDot}
  BY <1>2, FrameFacts DEF ListingInv
<1>6. e \in Within(Top.dir) /\ e \in Place
  <2>1. Within(Top.dir) \subseteq Place
    BY FileFacts, Constants
  <2> QED
    BY <1>3, <1>5, <2>1
<1>7. /\ Remains(frames', frames) /\ Top'.unread = Top.unread \ {e}
      /\ \A i \in DOMAIN frames : i < Len(frames) => frames'[i] = frames[i]
  BY <1>2, <1>3, RemainsRead
<1>8. frames' # <<>>
  BY <1>2, <1>7, RemainsTop
<1> QED
  BY <1>1, <1>2, <1>3, <1>4, <1>6, <1>7, <1>8

LEMMA ReaddirCalls == FilesInv /\ CallsInv /\ Readdir => CallsInv'
<1> SUFFICES ASSUME FilesInv, CallsInv, Readdir PROVE CallsInv'
  OBVIOUS
<1>1. /\ entry' \in Within(Top.dir) /\ entry' \in Place
      /\ Remains(frames', frames) /\ Top'.unread = Top.unread \ {entry'}
      /\ frames # <<>> /\ frames' # <<>> /\ pc' \in {"stat", "crashed"}
      /\ UNCHANGED <<files, present, was, opened, failed, meddled>>
  BY ReaddirIs
<1>2. Top'.dir = Top.dir
  BY <1>1, RemainsTop DEF CallsInv
<1>3. entry' \in Within(Top.dir)'
  <2>1. Within(Top.dir)' = Within(Top.dir)
    BY <1>1, <1>2, FilesSame DEF Within
  <2> QED
    BY <1>1, <1>2, <2>1
<1>4. EntryInv'
  BY <1>1, <1>3 DEF EntryInv, Calls
<1>5. pc' \in Calls \cup Ended
  BY <1>1 DEF Calls, Ended
<1> QED
  BY <1>1, <1>4, <1>5, RemainsCalls DEF CallsInv

\* A step that changes neither the calls nor what is at hand.
LEMMA SameCalls ==
  ASSUME FilesInv, CallsInv, UNCHANGED <<files, was, frames, entry, opened, meddled>>,
         present' \subseteq Place, failed' \in BOOLEAN, pc' \in Calls \cup Ended,
         AtEntry' => AtEntry, pc' = "opendir" => frames # <<>> /\ Resolve(entry) \in Dirs,
         pc' = "unlink" => Resolve(entry) \notin Dirs,
         pc' \in Calls => frames # <<>>,
         pc' = "done" => pc = "done" /\ UNCHANGED present
  PROVE  CallsInv'
<1>1. /\ Links' = Links /\ Dirs' = Dirs /\ parent' = parent /\ target' = target /\ was' = was
  BY FilesSame
<1>2. Within(Top.dir)' = Within(Top.dir) /\ Resolve(entry)' = Resolve(entry) /\ Top' = Top
  BY <1>1 DEF Within, Resolve, Top
<1>3. EntryInv
  BY DEF CallsInv
<1>4. EntryInv'
  BY <1>1, <1>2, <1>3 DEF EntryInv, Calls, Ended
<1>5. Remains(frames', frames)
  BY RemainsSame DEF CallsInv
<1> QED
  BY <1>4, <1>5, RemainsCalls DEF CallsInv

LEMMA StatCalls == FilesInv /\ CallsInv /\ Stat => CallsInv'
<1> SUFFICES ASSUME FilesInv, CallsInv, Stat PROVE CallsInv'
  OBVIOUS
<1>1. /\ pc = "stat" /\ pc' = IF Resolve(entry) \in Dirs THEN "opendir" ELSE "unlink"
      /\ UNCHANGED <<files, present, was, frames, entry, opened, failed, meddled>>
  BY DEF Stat
<1>2. frames # <<>> /\ AtEntry
  BY <1>1 DEF CallsInv, EntryInv, Calls, AtEntry
<1> QED
  BY <1>1, <1>2, SameCalls DEF CallsInv, Calls

LEMMA NoMoreCalls == FilesInv /\ CallsInv /\ NoMore => CallsInv'
<1> SUFFICES ASSUME FilesInv, CallsInv, NoMore PROVE CallsInv'
  OBVIOUS
<1>1. /\ pc = "readdir" /\ pc' = "rmdir"
      /\ UNCHANGED <<files, present, was, frames, entry, opened, failed, meddled>>
  BY DEF NoMore
<1>2. frames # <<>> /\ ~AtEntry'
  BY <1>1 DEF CallsInv, EntryInv, Calls, AtEntry
<1> QED
  BY <1>1, <1>2, SameCalls DEF CallsInv, Calls

LEMMA AbortCalls == FilesInv /\ CallsInv /\ (Abort \/ Fault) => CallsInv'
<1> SUFFICES ASSUME FilesInv, CallsInv, Abort \/ Fault PROVE CallsInv'
  OBVIOUS
<1>1. /\ pc' = "aborted" /\ failed' \in BOOLEAN
      /\ UNCHANGED <<files, present, was, frames, entry, opened, meddled>>
  BY DEF Abort, Fault, CallsInv
<1>2. ~AtEntry'
  BY <1>1 DEF AtEntry
<1> QED
  BY <1>1, <1>2, SameCalls DEF CallsInv, Calls, Ended

LEMMA UnlinkCalls == FilesInv /\ CallsInv /\ Unlink => CallsInv'
<1> SUFFICES ASSUME FilesInv, CallsInv, Unlink PROVE CallsInv'
  OBVIOUS
<1>1. /\ pc = "unlink" /\ pc' = "readdir" /\ entry' = Root /\ present' = present \ {entry}
      /\ UNCHANGED <<files, was, frames, opened, failed, meddled>>
  BY DEF Unlink
<1>2. frames # <<>> /\ frames' # <<>> /\ ~AtEntry'
  BY <1>1 DEF CallsInv, EntryInv, Calls, AtEntry
<1>3. EntryInv'
  BY <1>1, <1>2 DEF EntryInv, Calls
<1>4. Remains(frames', frames)
  BY <1>1, RemainsSame DEF CallsInv
<1> QED
  BY <1>1, <1>3, <1>4, RemainsCalls, Constants DEF CallsInv, Calls

\* A directory is removed, and the call for it ends.
LEMMA RmdirIs ==
  ASSUME FilesInv, CallsInv, Rmdir
  PROVE  /\ pc = "rmdir" /\ frames # <<>> /\ present' = present \ {Top.at}
         /\ Top.at \in Dirs /\ Within(Top.at) \cap present = {} /\ PathStands
         /\ frames' \in Seq(Frame) /\ Len(frames') = Len(frames) - 1
         /\ \A i \in 1..(Len(frames) - 1) : frames'[i] = frames[i]
         /\ pc' = IF Len(frames) = 1 THEN "done" ELSE "readdir"
         /\ UNCHANGED <<files, was, entry, opened, failed, meddled>>
<1>1. /\ pc = "rmdir" /\ present' = present \ {Top.at} /\ frames' = Seqs!Front(frames)
      /\ Top.at \in Dirs /\ Within(Top.at) \cap present = {} /\ PathStands
      /\ pc' = IF Len(frames) = 1 THEN "done" ELSE "readdir"
      /\ UNCHANGED <<files, was, entry, opened, failed, meddled>>
  BY DEF Rmdir, CanRmdir
<1>2. frames \in Seq(Frame) /\ frames # <<>>
  BY <1>1 DEF CallsInv, EntryInv, Calls
<1> QED
  BY <1>1, <1>2, FrontIs

LEMMA RmdirCalls == FilesInv /\ CallsInv /\ Rmdir => CallsInv'
<1> SUFFICES ASSUME FilesInv, CallsInv, Rmdir PROVE CallsInv'
  OBVIOUS
<1>1. /\ pc = "rmdir" /\ frames # <<>> /\ present' = present \ {Top.at}
      /\ frames' \in Seq(Frame) /\ Len(frames') = Len(frames) - 1
      /\ \A i \in 1..(Len(frames) - 1) : frames'[i] = frames[i]
      /\ pc' = IF Len(frames) = 1 THEN "done" ELSE "readdir"
      /\ UNCHANGED <<files, was, entry, opened, failed, meddled>>
  BY RmdirIs
<1>2. /\ frames \in Seq(Frame) /\ ListingInv /\ opened \in 0..MaxOpen /\ Len(frames) <= opened
      /\ present \subseteq Place
  BY DEF CallsInv
<1>3. /\ Len(frames) \in Nat /\ Len(frames) >= 1 /\ DOMAIN frames = 1..Len(frames)
      /\ DOMAIN frames' = 1..(Len(frames) - 1)
  BY <1>1, <1>2
<1>4. Links' = Links /\ Dirs' = Dirs /\ parent' = parent /\ target' = target
  BY <1>1, FilesSame
<1>5. ListingInv'
  <2> SUFFICES ASSUME NEW i \in DOMAIN frames'
               PROVE  /\ frames'[i].dir = Resolve(frames[i].at)' /\ frames'[i].dir \in Dirs
                      /\ frames'[i].unread \subseteq Within(frames[i].dir)' \cup {DotDot}
                      /\ i = 1 => frames'[i].at = Root
                      /\ i > 1 => /\ frames'[i].at \in Within(frames[i-1].dir)'
                                  /\ frames'[i].at \notin frames'[i-1].unread
    BY <1>4 DEF ListingInv
  <2>1. /\ Resolve(frames[i].at)' = Resolve(frames'[i].at)
        /\ Within(frames[i].dir)' = Within(frames'[i].dir)
        /\ Within(frames[i-1].dir)' = Within(frames'[i-1].dir)
    BY <1>4 DEF Resolve, Within
  <2>2. i \in DOMAIN frames /\ frames'[i] = frames[i]
    BY <1>1, <1>3
  <2>3. i > 1 => i - 1 \in DOMAIN frames /\ frames'[i-1] = frames[i-1]
    BY <1>1, <1>3
  <2> QED
    BY <1>2, <2>1, <2>2, <2>3 DEF ListingInv
<1>6. EntryInv'
  <2>1. ~AtEntry'
    BY <1>1 DEF AtEntry
  <2>2. Len(frames) = 1 => frames' = <<>> /\ Root \notin present'
    <3>1. ASSUME Len(frames) = 1 PROVE Top.at = Root
      BY <1>2, <1>3, <3>1 DEF Top, ListingInv
    <3>2. Len(frames') = 0 => frames' = <<>>
      BY <1>1
    <3> QED
      BY <1>1, <3>1, <3>2
  <2>3. Len(frames) # 1 => frames' # <<>>
    BY <1>1, <1>3
  <2> QED
    BY <1>1, <2>1, <2>2, <2>3 DEF EntryInv, Calls
<1>7. pc' \in Calls \cup Ended
  BY <1>1 DEF Calls, Ended
<1>8. Len(frames') <= opened'
  BY <1>1, <1>2, <1>3, Constants
<1> QED
  BY <1>1, <1>2, <1>5, <1>6, <1>7, <1>8 DEF CallsInv

\* Another process meddles: it adds what came later, or removes what is empty.
LEMMA MeddleIs ==
  ASSUME FilesInv, CallsInv, Meddle
  PROVE  /\ pc \notin Ended /\ meddled < MaxMeddle /\ meddled' = meddled + 1
         /\ UNCHANGED <<files, was, entry, opened, pc, failed>>
         /\ Remains(frames', frames)
         /\ \E n \in Node :
              \/ present' = present \cup {n} /\ n \notin was /\ parent[n] \in present
              \/ present' = present \ {n} /\ Within(n) \cap present = {}
<1>1. /\ pc \notin Ended /\ meddled < MaxMeddle /\ meddled' = meddled + 1
      /\ UNCHANGED <<files, was, entry, opened, pc, failed>>
  BY DEF Meddle
<1>2. frames \in Seq(Frame) /\ Len(frames) \in Nat /\ DOMAIN frames = 1..Len(frames)
  BY DEF CallsInv
<1>3. PICK n \in Node :
        \/ /\ n \notin present /\ n \notin was /\ parent[n] \in present
           /\ present' = present \cup {n}
           /\ \E seen \in BOOLEAN : frames' = [i \in DOMAIN frames |->
                IF seen /\ frames[i].dir = parent[n]
                THEN [frames[i] EXCEPT !.unread = @ \cup {n}] ELSE frames[i]]
        \/ /\ n \in present /\ Within(n) \cap present = {}
           /\ present' = present \ {n} /\ UNCHANGED frames
  BY DEF Meddle
<1>4. CASE UNCHANGED frames /\ present' = present \ {n} /\ Within(n) \cap present = {}
  BY <1>1, <1>2, <1>4, RemainsSame
<1>5. CASE /\ n \notin was /\ parent[n] \in present /\ present' = present \cup {n}
           /\ \E seen \in BOOLEAN : frames' = [i \in DOMAIN frames |->
                IF seen /\ frames[i].dir = parent[n]
                THEN [frames[i] EXCEPT !.unread = @ \cup {n}] ELSE frames[i]]
  <2>1. PICK seen \in BOOLEAN : frames' = [i \in DOMAIN frames |->
                IF seen /\ frames[i].dir = parent[n]
                THEN [frames[i] EXCEPT !.unread = @ \cup {n}] ELSE frames[i]]
    BY <1>5
  <2>2. ASSUME NEW i \in DOMAIN frames
        PROVE  /\ frames'[i] \in Frame
               /\ frames'[i].at = frames[i].at /\ frames'[i].dir = frames[i].dir
               /\ frames'[i].unread \subseteq frames[i].unread \cup {m \in Within(frames[i].dir) : m \notin was}
    <3>1. frames[i] \in Frame
      BY <1>2
    <3>2. CASE seen /\ frames[i].dir = parent[n]
      <4>1. frames'[i] = [frames[i] EXCEPT !.unread = frames[i].unread \cup {n}]
        BY <2>1, <3>2
      <4>2. n \in Within(frames[i].dir)
        BY <3>2, FileFacts
      <4>3. /\ [frames[i] EXCEPT !.unread = frames[i].unread \cup {n}] \in Frame
            /\ frames'[i].at = frames[i].at /\ frames'[i].dir = frames[i].dir
            /\ frames'[i].unread = frames[i].unread \cup {n}
        BY <3>1, <4>1 DEF Frame
      <4> QED
        BY <1>5, <4>1, <4>2, <4>3
    <3>3. CASE ~(seen /\ frames[i].dir = parent[n])
      BY <2>1, <3>1, <3>3
    <3> QED
      BY <3>2, <3>3
  <2>3. frames' \in Seq(Frame) /\ Len(frames') = Len(frames)
    <3>1. frames' \in [1..Len(frames) -> Frame]
      BY <1>2, <2>1, <2>2
    <3> QED
      BY <1>2, <3>1
  <2> QED
    BY <1>1, <1>5, <2>2, <2>3 DEF Remains
<1> QED
  BY <1>3, <1>4, <1>5

LEMMA MeddleCalls == FilesInv /\ CallsInv /\ Meddle => CallsInv'
<1> SUFFICES ASSUME FilesInv, CallsInv, Meddle PROVE CallsInv'
  OBVIOUS
<1>1. /\ pc \notin Ended /\ meddled < MaxMeddle /\ meddled' = meddled + 1
      /\ UNCHANGED <<files, was, entry, opened, pc, failed>>
      /\ Remains(frames', frames)
  BY MeddleIs
<1>2. PICK n \in Node : present' = present \cup {n} \/ present' = present \ {n}
  BY MeddleIs
<1>3. present' \subseteq Place /\ meddled' \in 0..MaxMeddle
  <2>1. present \subseteq Place /\ meddled \in 0..MaxMeddle
    BY DEF CallsInv
  <2>2. present' \subseteq Place
    <3>1. n \in Place
      BY DEF Place
    <3> QED
      BY <1>2, <2>1, <3>1
  <2>3. meddled' \in 0..MaxMeddle
    BY <1>1, <2>1, Constants
  <2> QED
    BY <2>2, <2>3
<1>4. /\ frames' = <<>> <=> frames = <<>>
      /\ frames # <<>> =>
           /\ Top'.dir = Top.dir
           /\ Top'.unread \subseteq Top.unread \cup {m \in Within(Top.dir) : m \notin was}
  BY <1>1, RemainsTop DEF CallsInv
<1>5. /\ Links' = Links /\ Dirs' = Dirs /\ parent' = parent /\ target' = target /\ was' = was
  BY <1>1, FilesSame
<1>6. /\ frames # <<>> => Within(Top.dir)' = Within(Top.dir)
      /\ Resolve(entry)' = Resolve(entry)
  BY <1>1, <1>4, <1>5 DEF Within, Resolve
<1>7. EntryInv'
  <2>1. EntryInv
    BY DEF CallsInv
  <2>2. (AtEntry' <=> AtEntry) /\ pc # "done"
    BY <1>1, <1>4 DEF AtEntry, Ended
  <2> QED
    BY <1>1, <1>4, <1>5, <1>6, <2>1, <2>2 DEF EntryInv
<1> QED
  BY <1>1, <1>3, <1>7, RemainsCalls DEF CallsInv

LEMMA InitCalls == Init => CallsInv
<1> SUFFICES ASSUME Init PROVE CallsInv
  OBVIOUS
<1>1. /\ frames = <<>> /\ entry = Root /\ opened = 0 /\ pc = "opendir"
      /\ failed = FALSE /\ meddled = 0 /\ present = was
  BY DEF Init
<1>2. FilesInv
  BY InitFiles
<1>3. frames \in Seq(Frame) /\ Len(frames) = 0 /\ DOMAIN frames = {}
  BY <1>1
<1>4. ~AtEntry
  BY <1>1 DEF AtEntry
<1>5. Resolve(entry) \in Dirs
  BY <1>1, <1>2, FileFacts, Constants
<1>6. EntryInv
  BY <1>1, <1>4, <1>5 DEF EntryInv, Calls
<1>7. ListingInv
  BY <1>3 DEF ListingInv
<1>8. opened \in 0..MaxOpen /\ meddled \in 0..MaxMeddle /\ Len(frames) <= opened
  BY <1>1, <1>3, Constants
<1> QED
  BY <1>1, <1>2, <1>3, <1>6, <1>7, <1>8, Constants DEF CallsInv, FilesInv, Calls

LEMMA NextCalls == FilesInv /\ CallsInv /\ [Next]_vars => CallsInv' /\ FilesInv'
<1> SUFFICES ASSUME FilesInv, CallsInv, [Next]_vars PROVE CallsInv' /\ FilesInv'
  OBVIOUS
<1>1. UNCHANGED <<files, was>>
  BY DEF Next, Step, Opendir, Skip, Readdir, Stat, Unlink, NoMore, Rmdir, Abort, Fault, Meddle,
         Finished, vars
<1>2. CASE UNCHANGED vars
  <2>1. UNCHANGED <<files, present, was, frames, entry, opened, pc, failed, meddled>>
    BY <1>2 DEF vars
  <2>2. AtEntry' <=> AtEntry
    BY <2>1 DEF AtEntry
  <2>3. Top' = Top
    BY <2>1 DEF Top
  <2>4. /\ pc = "opendir" => Resolve(entry) \in Dirs
        /\ pc = "unlink" => Resolve(entry) \notin Dirs
        /\ EntryInv
    BY DEF CallsInv, EntryInv
  <2>5. Links' = Links /\ Dirs' = Dirs /\ parent' = parent /\ target' = target
    BY <1>1, FilesSame
  <2>6. Within(Top.dir)' = Within(Top.dir) /\ Resolve(entry)' = Resolve(entry)
    BY <2>1, <2>3, <2>5 DEF Within, Resolve
  <2>7. EntryInv'
    BY <2>1, <2>2, <2>3, <2>4, <2>5, <2>6 DEF EntryInv
  <2>8. Remains(frames', frames)
    BY <2>1, RemainsSame DEF CallsInv
  <2> QED
    BY <1>1, <2>1, <2>7, <2>8, RemainsCalls, FilesSame DEF CallsInv
<1>3. CASE Finished
  BY <1>2, <1>3 DEF Finished
<1> QED
  BY <1>1, <1>2, <1>3, FilesSame, OpendirCalls, SkipCalls, ReaddirCalls, StatCalls, UnlinkCalls,
     NoMoreCalls, RmdirCalls, AbortCalls, MeddleCalls DEF Next, Step

\* The calls under way are in order: each has a listing of its own open, and
\* is at an entry of the one before (util.c:1103-1122).
THEOREM TypeCorrect == Spec => []TypeOK
<1>1. Init => FilesInv /\ CallsInv
  BY InitFiles, InitCalls
<1>2. FilesInv /\ CallsInv /\ [Next]_vars => (FilesInv /\ CallsInv)'
  BY NextCalls
<1>3. FilesInv /\ CallsInv => TypeOK
  <2> SUFFICES ASSUME FilesInv, CallsInv PROVE TypeOK
    OBVIOUS
  <2>1. /\ present \subseteq Node \cup {Root, Out} /\ entry \in Node \cup {Root, Out}
        /\ opened \in 0..MaxOpen /\ Len(frames) <= opened
        /\ meddled \in 0..MaxMeddle /\ failed \in BOOLEAN
        /\ pc \in Calls \cup Ended
    BY DEF CallsInv, Place
  <2>2. \A i \in DOMAIN frames :
          /\ frames[i].dir \in Dirs /\ frames[i].at \in Node \cup {Root}
          /\ i > 1 => frames[i].at \in Within(frames[i-1].dir) /\ frames[i].at \notin frames[i-1].unread
    BY FrameFacts DEF CallsInv, ListingInv
  <2> QED
    BY <2>1, <2>2 DEF TypeOK
<1> QED
  BY <1>1, <1>2, <1>3, PTL DEF Spec

----------------------------------------------------------------------------
(* What is removed *)

LEMMA GroundedWithout ==
  ASSUME FilesInv, Grounded, UNCHANGED <<files, was>>, NEW x, Within(x) \cap present = {},
         present' = present \ {x}
  PROVE  Grounded'
<1>1. parent' = parent
  BY FilesSame
<1>2. ASSUME NEW n \in Node \cap present' PROVE parent[n] \in present'
  <2>1. n \in Within(parent[n]) /\ n \in present
    BY <1>2, FileFacts
  <2> QED
    BY <2>1 DEF Grounded
<1> QED
  BY <1>1, <1>2 DEF Grounded

\* Only what nothing is in is ever removed.
LEMMA NextGrounded == FilesInv /\ CallsInv /\ Grounded /\ [Next]_vars => Grounded'
<1> SUFFICES ASSUME FilesInv, CallsInv, Grounded, [Next]_vars PROVE Grounded'
  OBVIOUS
<1>1. UNCHANGED <<files, was>>
  BY DEF Next, Step, Opendir, Skip, Readdir, Stat, Unlink, NoMore, Rmdir, Abort, Fault, Meddle,
         Finished, vars
<1>2. parent' = parent
  BY <1>1, FilesSame
<1>3. CASE UNCHANGED present
  BY <1>2, <1>3 DEF Grounded
<1>4. CASE Unlink
  <2>1. pc = "unlink" /\ present' = present \ {entry}
    BY <1>4 DEF Unlink
  <2>2. entry \in Place /\ Resolve(entry) \notin Dirs
    BY <2>1 DEF CallsInv, EntryInv
  <2>3. entry \notin Dirs
    BY <2>2, FileFacts
  <2>4. Within(entry) = {}
    BY <2>3, FileFacts
  <2> QED
    BY <1>1, <2>1, <2>4, GroundedWithout
<1>5. CASE Rmdir
  BY <1>1, <1>5, RmdirIs, GroundedWithout
<1>6. CASE Meddle
  <2>1. PICK n \in Node :
          \/ present' = present \cup {n} /\ n \notin was /\ parent[n] \in present
          \/ present' = present \ {n} /\ Within(n) \cap present = {}
    BY <1>6, MeddleIs
  <2>2. CASE present' = present \cup {n} /\ n \notin was /\ parent[n] \in present
    BY <1>2, <2>2 DEF Grounded
  <2>3. CASE present' = present \ {n} /\ Within(n) \cap present = {}
    BY <1>1, <2>3, GroundedWithout
  <2> QED
    BY <2>1, <2>2, <2>3
<1>7. Next => Unlink \/ Rmdir \/ Meddle \/ UNCHANGED present
  BY DEF Next, Step, Opendir, Skip, Readdir, Stat, NoMore, Abort, Fault, Finished, vars
<1> QED
  BY <1>3, <1>4, <1>5, <1>6, <1>7 DEF vars

LEMMA InitGrounded == Init => Grounded
<1> SUFFICES ASSUME Init PROVE Grounded
  OBVIOUS
<1>1. FilesInv
  BY InitFiles
<1>2. \A n \in Node : parent[n] \in Dirs /\ parent[n] \in Place
  BY <1>1, FileFacts
<1>3. \A n \in Node : n \in Dirs => kind[n] # "file"
  BY <1>1, FileFacts
<1>4. \A n \in Node : parent[n] \in was
  BY <1>1, <1>2, <1>3 DEF FilesInv, Place
<1> QED
  BY <1>4 DEF Init, Grounded

\* Where the innermost call removes things.
LEMMA TopWithin ==
  ASSUME FilesInv, CallsInv, RemovalInv, meddled = 0, frames # <<>>
  PROVE  /\ Top.at \in Linked /\ Within(Top.dir) \subseteq Linked
         /\ NoLink => /\ Top.at \in Inside /\ Top.dir = Top.at
                      /\ Within(Top.dir) \subseteq Inside
<1>1. /\ Len(frames) \in DOMAIN frames /\ Top = frames[Len(frames)]
      /\ Top.at \in Place /\ Top.dir = Resolve(Top.at)
  BY FrameFacts, Constants DEF CallsInv
<1>2. Top.at \in Linked /\ Top.dir \in Linked
  BY <1>1 DEF RemovalInv
<1>3. Within(Top.dir) \subseteq Linked
  BY <1>2, LinkedIs
<1>4. ASSUME NoLink
      PROVE  Top.at \in Inside /\ Top.dir = Top.at /\ Within(Top.dir) \subseteq Inside
  <2>1. Top.at \in Inside /\ Top.at \notin Links
    BY <1>1, <1>4 DEF RemovalInv, NoLink
  <2>2. Top.dir = Top.at
    BY <1>1, <2>1, FileFacts
  <2> QED
    BY <2>1, <2>2, InsideIs
<1> QED
  BY <1>2, <1>3, <1>4

\* A step that leaves the calls where they are and removes what it finds there.
LEMMA RemainsRemoval ==
  ASSUME FilesInv, CallsInv, RemovalInv, UNCHANGED <<files, was>>, meddled' = 0 => meddled = 0,
         Remains(frames', frames), present' \subseteq present,
         present \ present' = {} \/ (frames # <<>> /\ present \ present' \subseteq Within(Top.dir))
  PROVE  RemovalInv'
<1> SUFFICES ASSUME meddled' = 0
             PROVE  /\ present' \subseteq was /\ was \ present' \subseteq Linked
                    /\ \A i \in DOMAIN frames' : {frames'[i].at, frames'[i].dir} \subseteq Linked
                    /\ NoLink' => /\ was \ present' \subseteq Inside
                                  /\ \A i \in DOMAIN frames' : frames'[i].at \in Inside
  BY FilesSame DEF RemovalInv
<1>1. meddled = 0
  OBVIOUS
<1>2. /\ frames \in Seq(Frame) /\ DOMAIN frames' = DOMAIN frames
      /\ \A i \in DOMAIN frames : frames'[i].at = frames[i].at /\ frames'[i].dir = frames[i].dir
  BY DEF Remains, CallsInv
<1>3. NoLink' <=> NoLink
  BY <1>2, FilesSame DEF NoLink
<1>4. /\ present \subseteq was /\ was \ present \subseteq Linked
      /\ \A i \in DOMAIN frames : {frames[i].at, frames[i].dir} \subseteq Linked
      /\ NoLink => /\ was \ present \subseteq Inside
                   /\ \A i \in DOMAIN frames : frames[i].at \in Inside
  BY <1>1 DEF RemovalInv
<1>5. present \ present' \subseteq Linked /\ (NoLink => present \ present' \subseteq Inside)
  BY <1>1, TopWithin
<1>6. was \ present' \subseteq Linked /\ (NoLink => was \ present' \subseteq Inside)
  BY <1>4, <1>5
<1> QED
  BY <1>2, <1>3, <1>4, <1>6

LEMMA OpendirRemoval == FilesInv /\ CallsInv /\ RemovalInv /\ Opendir => RemovalInv'
<1> SUFFICES ASSUME FilesInv, CallsInv, RemovalInv, Opendir PROVE RemovalInv'
  OBVIOUS
<1>1. UNCHANGED <<files, was>> /\ present' = present /\ meddled' = meddled /\ frames \in Seq(Frame)
  BY DEF Opendir, CallsInv
<1> SUFFICES ASSUME meddled = 0
             PROVE  /\ present \subseteq was /\ was \ present \subseteq Linked
                    /\ \A i \in DOMAIN frames' : {frames'[i].at, frames'[i].dir} \subseteq Linked
                    /\ NoLink' => /\ was \ present \subseteq Inside
                                  /\ \A i \in DOMAIN frames' : frames'[i].at \in Inside
  BY <1>1, FilesSame DEF RemovalInv
<1>2. PICK f : Begun(f)
  BY OpendirIs
<1>3. /\ DOMAIN frames = 1..Len(frames) /\ DOMAIN frames' = 1..(Len(frames) + 1)
      /\ Len(frames) \in Nat
  BY <1>1, <1>2 DEF Begun
<1>4. \A i \in DOMAIN frames' : i \in DOMAIN frames \/ i = Len(frames) + 1
  BY <1>3
<1>5. /\ \A i \in DOMAIN frames : frames'[i] = frames[i] /\ i \in DOMAIN frames'
      /\ frames'[Len(frames) + 1].at = entry /\ frames'[Len(frames) + 1].dir = Resolve(entry)
  BY <1>2, <1>3 DEF Begun
<1>6. NoLink' => NoLink
  BY <1>1, <1>5, FilesSame DEF NoLink
<1>7. entry \in Linked /\ (NoLink => entry \in Inside)
  <2>1. CASE frames = <<>>
    BY <2>1, OpendirIs, LinkedIs, InsideIs
  <2>2. CASE frames # <<>>
    BY <2>2, OpendirIs, TopWithin
  <2> QED
    BY <2>1, <2>2
<1>8. Resolve(entry) \in Linked
  BY <1>7, LinkedIs
<1> QED
  BY <1>4, <1>5, <1>6, <1>7, <1>8 DEF RemovalInv

LEMMA RmdirRemoval == FilesInv /\ CallsInv /\ RemovalInv /\ Rmdir => RemovalInv'
<1> SUFFICES ASSUME FilesInv, CallsInv, RemovalInv, Rmdir PROVE RemovalInv'
  OBVIOUS
<1>1. /\ UNCHANGED <<files, was>> /\ present' = present \ {Top.at} /\ meddled' = meddled
      /\ Top.at \in Dirs /\ frames # <<>> /\ frames \in Seq(Frame) /\ frames' \in Seq(Frame)
      /\ Len(frames') = Len(frames) - 1
      /\ \A i \in 1..(Len(frames) - 1) : frames'[i] = frames[i]
  BY RmdirIs DEF CallsInv
<1> SUFFICES ASSUME meddled = 0
             PROVE  /\ present' \subseteq was /\ was \ present' \subseteq Linked
                    /\ \A i \in DOMAIN frames' : {frames'[i].at, frames'[i].dir} \subseteq Linked
                    /\ NoLink' => /\ was \ present' \subseteq Inside
                                  /\ \A i \in DOMAIN frames' : frames'[i].at \in Inside
  BY <1>1, FilesSame DEF RemovalInv
<1>2. /\ Len(frames) \in Nat /\ DOMAIN frames = 1..Len(frames) /\ DOMAIN frames' = 1..(Len(frames) - 1)
  BY <1>1
<1>3. /\ \A i \in DOMAIN frames' : i \in DOMAIN frames /\ frames'[i] = frames[i]
      /\ \A i \in DOMAIN frames : i \in DOMAIN frames' \/ frames[i] = Top
  BY <1>1, <1>2 DEF Top
<1>4. Top.at \notin Links
  BY <1>1, FileFacts
<1>5. NoLink' => NoLink
  BY <1>1, <1>3, <1>4, FilesSame DEF NoLink
<1>6. Top.at \in Linked /\ (NoLink => Top.at \in Inside)
  BY <1>1, TopWithin
<1> QED
  BY <1>1, <1>3, <1>5, <1>6 DEF RemovalInv

LEMMA NextRemoval == FilesInv /\ CallsInv /\ RemovalInv /\ [Next]_vars => RemovalInv'
<1> SUFFICES ASSUME FilesInv, CallsInv, RemovalInv, [Next]_vars PROVE RemovalInv'
  OBVIOUS
<1>1. UNCHANGED <<files, was>> /\ frames \in Seq(Frame)
  BY DEF Next, Step, Opendir, Skip, Readdir, Stat, Unlink, NoMore, Rmdir, Abort, Fault, Meddle,
         Finished, vars, CallsInv
<1>2. CASE UNCHANGED <<present, frames, meddled>>
  BY <1>1, <1>2, RemainsSame, RemainsRemoval
<1>3. CASE Skip
  <2>1. PICK e : frames' = [frames EXCEPT ![Len(frames)].unread = @ \ {e}]
    BY <1>3 DEF Skip
  <2>2. pc = "readdir" /\ present' = present /\ meddled' = meddled
    BY <1>3 DEF Skip
  <2>3. frames # <<>>
    BY <2>2 DEF CallsInv, EntryInv, Calls
  <2> QED
    BY <1>1, <2>1, <2>2, <2>3, RemainsRead, RemainsRemoval
<1>4. CASE Readdir
  BY <1>1, <1>4, ReaddirIs, RemainsRemoval
<1>5. CASE Unlink
  <2>1. pc = "unlink" /\ present' = present \ {entry} /\ UNCHANGED <<frames, meddled>>
    BY <1>5 DEF Unlink
  <2>2. frames # <<>> /\ entry \in Within(Top.dir)
    BY <2>1 DEF CallsInv, EntryInv, AtEntry, Calls
  <2> QED
    BY <1>1, <2>1, <2>2, RemainsSame, RemainsRemoval
<1>6. CASE Meddle
  <2>1. meddled' = meddled + 1 /\ meddled \in 0..MaxMeddle
    BY <1>6, MeddleIs DEF CallsInv
  <2>2. meddled' # 0
    BY <2>1, Constants
  <2> QED
    BY <2>2 DEF RemovalInv
<1>7. Next => \/ Opendir \/ Rmdir \/ Skip \/ Readdir \/ Unlink \/ Meddle
              \/ UNCHANGED <<present, frames, meddled>>
  BY DEF Next, Step, Stat, NoMore, Abort, Fault, Finished, vars
<1> QED
  BY <1>2, <1>3, <1>4, <1>5, <1>6, <1>7, OpendirRemoval, RmdirRemoval DEF vars

LEMMA InitRemoval == Init => RemovalInv
<1> SUFFICES ASSUME Init PROVE RemovalInv
  OBVIOUS
<1>1. present = was /\ frames = <<>>
  BY DEF Init
<1>2. DOMAIN frames = {}
  BY <1>1
<1> QED
  BY <1>1, <1>2 DEF RemovalInv

\* A set of numbers has a least one: the intervals up to them are ordered by
\* inclusion, which is well-founded.
LEMMA LeastOf ==
  ASSUME NEW T \in SUBSET Nat, T # {}
  PROVE  \E m \in T : \A n \in T : m <= n
<1> DEFINE Below == {1..n : n \in T}
           Order == StrictSubsetOrdering(Nat)
<1>1. IsWellFoundedOn(Order, FiniteSubsetsOf(Nat))
  BY FS_StrictSubsetOrderingWellFounded
<1>2. \A n \in T : 1..n \in SUBSET Nat /\ IsFiniteSet(1..n)
  BY FS_Interval
<1>3. Below \subseteq FiniteSubsetsOf(Nat)
  BY <1>2 DEF FiniteSubsetsOf
<1>4. Below # {}
  OBVIOUS
<1> HIDE DEF Below, Order
<1>5. PICK b \in Below : \A c \in Below : <<c, b>> \notin Order
  BY <1>1, <1>3, <1>4, WFMin
<1>6. PICK m \in T : b = 1..m
  BY DEF Below
<1>7. ASSUME NEW n \in T, n < m PROVE FALSE
  <2>1. 1..n \in SUBSET Nat /\ b \in SUBSET Nat /\ 1..n \subseteq b /\ 1..n # b
    <3>1. m \in 1..m /\ m \notin 1..n
      BY <1>7
    <3> QED
      BY <1>6, <1>7, <3>1
  <2>2. <<1..n, b>> \in Order
    BY <2>1 DEF Order, StrictSubsetOrdering
  <2>3. 1..n \in Below
    BY DEF Below
  <2> QED
    BY <1>5, <2>2, <2>3
<1> QED
  BY <1>7

\* When Root is gone, all of it is: what is least of the rest would be in
\* something that is there.
LEMMA NothingInside ==
  ASSUME FilesInv, Grounded, Root \notin present PROVE Inside \cap present = {}
<1> SUFFICES ASSUME Inside \cap present # {} PROVE FALSE
  OBVIOUS
<1>1. Inside \cap present \subseteq Node
  BY InsideIs
<1>2. Inside \cap present \in SUBSET Nat
  BY <1>1, Constants
<1>3. PICK n \in Inside \cap present : \A m \in Inside \cap present : n <= m
  BY <1>2, LeastOf
<1>4. n \in Node /\ n # Root
  BY <1>1, Constants
<1>5. parent[n] \in Inside /\ parent[n] < n
  BY <1>4, InsideIs, FileFacts
<1>6. parent[n] \in present
  BY <1>4 DEF Grounded
<1>7. n <= parent[n] /\ n \in Nat /\ parent[n] \in Nat
  BY <1>2, <1>3, <1>5, <1>6
<1> QED
  BY <1>5, <1>7

\* When rmdir_recursive returns, the tree is gone and nothing else is; and an
\* aborted call has removed no more than links lead to (util.c:1093-1133).
THEOREM RemovesTheTree == Spec => []RemovesItsTree
<1> DEFINE Inv == FilesInv /\ CallsInv /\ Grounded /\ RemovalInv
<1>1. Init => Inv
  BY InitFiles, InitCalls, InitGrounded, InitRemoval
<1>2. Inv /\ [Next]_vars => Inv'
  BY NextCalls, NextGrounded, NextRemoval
<1>3. Inv => RemovesItsTree
  <2> SUFFICES ASSUME Inv PROVE RemovesItsTree
    OBVIOUS
  <2>1. ASSUME pc = "done" PROVE Inside \cap present = {}
    BY <2>1, NothingInside DEF CallsInv, EntryInv
  <2>2. ASSUME pc = "done", meddled = 0 PROVE present = was \ Inside
    <3>1. frames = <<>>
      BY <2>2 DEF CallsInv, EntryInv
    <3>2. NoLink
      BY <3>1 DEF NoLink
    <3>3. present \subseteq was /\ was \ present \subseteq Inside
      BY <2>2, <3>2 DEF RemovalInv
    <3> QED
      BY <2>1, <2>2, <3>3
  <2>3. meddled = 0 => was \ present \subseteq Linked
    BY DEF RemovalInv
  <2> QED
    BY <2>1, <2>2, <2>3 DEF RemovesItsTree
<1> QED
  BY <1>1, <1>2, <1>3, PTL DEF Spec

----------------------------------------------------------------------------
(* When there is no reason to abort *)

\* The calls are at directories of the tree, which are there.
LEMMA CalmCalls ==
  ASSUME FilesInv, CallsInv, RemovalInv, Calm, CalmInv
  PROVE  /\ \A i \in DOMAIN frames :
              /\ frames[i].at \in Inside \cap Dirs /\ frames[i].at \in present
              /\ frames[i].dir = frames[i].at /\ frames[i].at \in Node \cup {Root}
         /\ PathStands /\ (\A n : LinksTo(n) <= MaxLinks)
         /\ present \subseteq was /\ was \ present \subseteq Inside
<1>1. ASSUME NEW i \in DOMAIN frames
      PROVE  /\ frames[i].at \in Inside \cap Dirs /\ frames[i].at \in present
             /\ frames[i].dir = frames[i].at /\ frames[i].at \in Node \cup {Root}
  <2>1. frames[i].at \in Node \cup {Root} /\ frames[i].dir \in Dirs /\ frames[i].dir = Resolve(frames[i].at)
    BY FrameFacts DEF CallsInv
  <2>2. frames[i].at \notin Links /\ frames[i].at \in Inside /\ frames[i].at \in present
    BY DEF CalmInv, NoLink, RemovalInv, Calm
  <2>3. frames[i].at \in Place
    BY <2>1, Constants
  <2>4. frames[i].dir = frames[i].at
    BY <2>1, <2>2, <2>3, FileFacts
  <2> QED
    BY <2>1, <2>2, <2>4
<1>2. PathStands
  BY <1>1 DEF PathStands
<1>3. ASSUME NEW n PROVE LinksTo(n) <= MaxLinks
  <2>1. {i \in DOMAIN frames : frames[i].at \in Links} = {}
    BY DEF CalmInv, NoLink
  <2>2. LinksTo(n) = 0 + (IF n \in Links THEN 1 ELSE 0)
    BY <2>1, FS_EmptySet DEF LinksTo
  <2> QED
    BY <2>2, Constants
<1>4. present \subseteq was /\ was \ present \subseteq Inside
  BY DEF RemovalInv, Calm, CalmInv
<1> QED
  BY <1>1, <1>2, <1>3, <1>4

\* What is below the innermost call is below them all.
LEMMA CalmBelow ==
  ASSUME FilesInv, CallsInv, RemovalInv, Calm, CalmInv, frames # <<>>, NEW e \in Within(Top.dir)
  PROVE  /\ e \in Node /\ parent[e] = Top.at /\ e \in Inside
         /\ \A i \in DOMAIN frames : frames[i].at < e
<1>1. /\ Len(frames) \in DOMAIN frames /\ Top = frames[Len(frames)]
      /\ Top.at \in Inside /\ Top.dir = Top.at /\ Top.at \in Node \cup {Root}
  BY FrameFacts, CalmCalls DEF CallsInv
<1>2. e \in Node /\ parent[e] = Top.at /\ e \in Inside
  <2>1. e \in Node
    BY <1>1, FileFacts, Constants
  <2> QED
    BY <1>1, <2>1, FileFacts, InsideIs
<1>3. Top.at < e
  BY <1>2, FileFacts
<1>4. ASSUME NEW i \in DOMAIN frames PROVE frames[i].at < e
  <2>1. frames[i].at < Top.at \/ frames[i] = Top
    <3>1. DOMAIN frames = 1..Len(frames) /\ Len(frames) \in Nat
      BY DEF CallsInv
    <3>2. i < Len(frames) \/ i = Len(frames)
      BY <3>1
    <3> QED
      BY <1>1, <3>2 DEF CalmInv
  <2>2. frames[i].at \in Int /\ Top.at \in Int /\ e \in Int
    BY <1>1, <1>2, CalmCalls, Constants
  <2> QED
    BY <1>3, <2>1, <2>2
<1> QED
  BY <1>2, <1>4

\* What is at hand is there, inside, and so is what it leads to, or outside.
LEMMA CalmEntry ==
  ASSUME FilesInv, CallsInv, RemovalInv, Calm, CalmInv, pc \in Calls, AtEntry \/ pc = "opendir"
  PROVE  /\ entry \in Inside /\ entry \in present /\ Found(entry)
         /\ pc = "opendir" => entry \in Inside \cap Dirs /\ entry \notin Opened
<1>1. entry \in present /\ entry \in was
  BY CalmCalls DEF CalmInv
<1>2. frames # <<>> => entry \in Within(Top.dir)
  BY DEF CallsInv, EntryInv, AtEntry
<1>3. frames = <<>> => entry = Root
  BY DEF CallsInv, EntryInv, AtEntry, Calls, Ended
<1>4. entry \in Inside /\ entry \in Place
  <2>1. entry \in Place
    BY DEF CallsInv
  <2> QED
    BY <1>2, <1>3, <2>1, CalmBelow, InsideIs
<1>5. Resolve(entry) \in present
  <2>1. CASE entry \in Links
    <3>1. ~Troublesome(entry) /\ Resolve(entry) = target[entry]
      BY <1>4, <2>1, FileFacts DEF Calm
    <3> QED
      BY <3>1, CalmCalls DEF Troublesome
  <2>2. CASE entry \notin Links
    BY <1>1, <1>4, <2>2, FileFacts
  <2> QED
    BY <2>1, <2>2
<1>6. Found(entry)
  BY <1>1, <1>5, CalmCalls DEF Found
<1>7. ASSUME pc = "opendir" PROVE entry \in Dirs /\ entry \notin Opened
  <2>1. Resolve(entry) \in Dirs
    BY <1>7 DEF CallsInv, EntryInv
  <2>2. entry \notin Links
    <3> SUFFICES ASSUME entry \in Links PROVE FALSE
      OBVIOUS
    <3>1. ~Troublesome(entry) /\ Resolve(entry) = target[entry]
      BY <1>4, FileFacts DEF Calm
    <3> QED
      BY <2>1, <3>1 DEF Troublesome
  <2>3. entry \in Dirs
    BY <1>4, <2>1, <2>2, FileFacts
  <2>4. \A i \in DOMAIN frames : frames[i].at # entry
    <3>1. frames = <<>> => DOMAIN frames = {}
      OBVIOUS
    <3>2. ASSUME frames # <<>>, NEW i \in DOMAIN frames PROVE frames[i].at # entry
      <4>1. frames[i].at < entry /\ entry \in Node
        BY <1>2, <3>2, CalmBelow
      <4>2. frames[i].at \in Int /\ entry \in Int
        BY <4>1, CalmCalls, Constants
      <4> QED
        BY <4>1, <4>2
    <3> QED
      BY <3>1, <3>2
  <2> QED
    BY <1>1, <2>3, <2>4 DEF Opened
<1> QED
  BY <1>1, <1>4, <1>6, <1>7

\* The directories opened are some of those inside.
LEMMA OpenedIs ==
  ASSUME FilesInv, CallsInv, RemovalInv, Calm, CalmInv
  PROVE  /\ Opened \subseteq Inside \cap Dirs
         /\ IsFiniteSet(Inside \cap Dirs) /\ IsFiniteSet(Opened)
         /\ Cardinality(Inside \cap Dirs) \in Nat /\ Cardinality(Opened) \in Nat
<1>1. Opened \subseteq Inside \cap Dirs
  BY CalmCalls DEF Opened
<1>2. IsFiniteSet(Node \cup {Root})
  BY Constants, FS_AddElement
<1>3. IsFiniteSet(Inside \cap Dirs)
  <2>1. Inside \cap Dirs \subseteq Node \cup {Root}
    BY InsideIs
  <2> QED
    BY <1>2, <2>1, FS_Subset
<1>4. IsFiniteSet(Opened)
  BY <1>1, <1>3, FS_Subset
<1> QED
  BY <1>1, <1>3, <1>4, FS_CardinalityType

\* One more of them can be.
LEMMA OneMoreOpens ==
  ASSUME FilesInv, CallsInv, RemovalInv, Calm, CalmInv, pc = "opendir"
  PROVE  opened < MaxOpen /\ Cardinality(Opened \cup {entry}) = opened + 1
<1>1. entry \in Inside \cap Dirs /\ entry \notin Opened
  BY CalmEntry DEF Calls
<1>2. Cardinality(Opened \cup {entry}) = Cardinality(Opened) + 1 /\ IsFiniteSet(Opened \cup {entry})
  BY <1>1, OpenedIs, FS_AddElement
<1>3. Cardinality(Opened \cup {entry}) <= Cardinality(Inside \cap Dirs)
  <2>1. Opened \cup {entry} \subseteq Inside \cap Dirs
    BY <1>1, OpenedIs
  <2> QED
    BY <2>1, OpenedIs, FS_Subset
<1>4. opened = Cardinality(Opened) /\ Cardinality(Inside \cap Dirs) <= MaxOpen
  BY DEF CalmInv, Calm
<1> QED
  BY <1>2, <1>3, <1>4, OpenedIs, Constants

\* Every call can be done.
LEMMA CalmPossible ==
  ASSUME FilesInv, CallsInv, RemovalInv, Calm, CalmInv, pc \in Calls PROVE Possible
<1>1. CASE pc = "opendir"
  <2>1. Resolve(entry) \in Dirs
    BY <1>1 DEF CallsInv, EntryInv
  <2> QED
    BY <1>1, <2>1, CalmEntry, OneMoreOpens DEF Possible, CanOpen
<1>2. CASE pc = "readdir"
  BY <1>2 DEF Possible
<1>3. CASE pc = "stat"
  BY <1>3, CalmEntry DEF Possible, AtEntry
<1>4. CASE pc = "unlink"
  BY <1>4, CalmEntry, CalmCalls DEF Possible, CanUnlink, AtEntry
<1>5. CASE pc = "rmdir"
  <2>1. frames # <<>> /\ Within(Top.dir) \cap present = {}
    BY <1>5 DEF CallsInv, EntryInv, CalmInv, Calls
  <2>2. Top.at \in Dirs /\ Top.dir = Top.at
    BY <2>1, FrameFacts, CalmCalls DEF CallsInv
  <2> QED
    BY <1>5, <2>1, <2>2, CalmCalls DEF Possible, CanRmdir
<1> QED
  BY <1>1, <1>2, <1>3, <1>4, <1>5 DEF Calls

LEMMA OpendirCalm ==
  ASSUME FilesInv, CallsInv, RemovalInv, Calm, CalmInv, Opendir PROVE CalmInv'
<1>1. /\ pc = "opendir" /\ opened' = opened + 1 /\ pc' = "readdir"
      /\ UNCHANGED <<files, present, was, failed, meddled>> /\ frames \in Seq(Frame)
  BY DEF Opendir, CallsInv
<1>2. /\ Links' = Links /\ Dirs' = Dirs /\ Inside' = Inside /\ parent' = parent
      /\ \A d : {n \in Node : parent'[n] = d} = {n \in Node : parent[n] = d}
  BY <1>1, FilesSame
<1>3. PICK f : Begun(f)
  BY OpendirIs
<1>4. /\ Len(frames) \in Nat /\ DOMAIN frames = 1..Len(frames)
      /\ Len(frames') = Len(frames) + 1 /\ DOMAIN frames' = 1..(Len(frames) + 1)
      /\ \A i \in DOMAIN frames : frames'[i] = frames[i] /\ i \in DOMAIN frames'
      /\ frames'[Len(frames) + 1].at = entry /\ frames'[Len(frames) + 1].dir = Resolve(entry)
      /\ frames'[Len(frames) + 1].unread = {DotDot} \cup (Within(Resolve(entry)) \cap present)
  BY <1>1, <1>3 DEF Begun
<1>5. \A i \in DOMAIN frames' : i \in DOMAIN frames \/ i = Len(frames) + 1
  BY <1>4
<1>6. /\ entry \in Inside \cap Dirs /\ entry \in present /\ entry \notin Links
      /\ opened < MaxOpen /\ Cardinality(Opened \cup {entry}) = opened + 1
  BY <1>1, CalmEntry, OneMoreOpens, FileFacts DEF Calls
<1>7. ~AtEntry'
  BY <1>1 DEF AtEntry
<1>8. NoLink'
  BY <1>2, <1>4, <1>5, <1>6 DEF NoLink, CalmInv
<1>9. ASSUME NEW i \in DOMAIN frames'
      PROVE  /\ frames'[i].at \in present' /\ frames'[i].unread \subseteq present' \cup {DotDot}
             /\ Within(frames[i].dir)' \cap present' \subseteq frames'[i].unread \cup InHand(i)'
  <2>1. Within(frames[i].dir)' = Within(frames'[i].dir)
    BY <1>2 DEF Within
  <2>2. CASE i \in DOMAIN frames
    <3>1. frames'[i] = frames[i] /\ i < Len(frames')
      BY <1>4, <2>2
    <3>2. InHand(i)' = {frames'[i+1].at}
      BY <3>1 DEF InHand
    <3>3. InHand(i) \subseteq InHand(i)'
      <4>1. CASE i < Len(frames)
        <5>1. i + 1 \in DOMAIN frames
          BY <1>4, <2>2, <4>1
        <5> QED
          BY <1>4, <3>2, <4>1, <5>1 DEF InHand
      <4>2. CASE ~(i < Len(frames))
        <5>1. i + 1 = Len(frames) + 1
          BY <1>4, <2>2, <4>2
        <5>2. InHand(i) \subseteq {entry}
          BY <4>2 DEF InHand
        <5> QED
          BY <1>4, <3>2, <5>1, <5>2
      <4> QED
        BY <4>1, <4>2
    <3> QED
      BY <1>1, <2>1, <2>2, <3>1, <3>3 DEF CalmInv
  <2>3. CASE i = Len(frames) + 1
    BY <1>1, <1>4, <1>6, <2>1, <2>3
  <2> QED
    BY <1>5, <2>2, <2>3
<1>10. ASSUME NEW i \in DOMAIN frames', NEW j \in DOMAIN frames', i < j
       PROVE  frames'[i].at < frames'[j].at
  <2>1. i \in DOMAIN frames
    BY <1>4, <1>10
  <2>2. CASE j \in DOMAIN frames
    BY <1>4, <1>10, <2>1, <2>2 DEF CalmInv
  <2>3. CASE j = Len(frames) + 1
    <3>1. frames # <<>>
      BY <2>1
    <3>2. entry \in Within(Top.dir)
      BY <3>1, OpendirIs
    <3> QED
      BY <1>4, <2>1, <2>3, <3>1, <3>2, CalmBelow
  <2> QED
    BY <1>5, <2>2, <2>3
<1>11. opened' = Cardinality(Opened)'
  <2>1. {frames'[i].at : i \in DOMAIN frames'} = {frames[i].at : i \in DOMAIN frames} \cup {entry}
    <3>1. Len(frames) + 1 \in DOMAIN frames'
      BY <1>4
    <3> QED
      BY <1>4, <1>5, <3>1
  <2>2. Opened' = Opened \cup {entry}
    BY <1>1, <1>2, <2>1 DEF Opened
  <2> QED
    BY <1>1, <1>6, <2>2
<1> QED
  BY <1>1, <1>7, <1>8, <1>9, <1>10, <1>11 DEF CalmInv

\* A step that leaves the calls where they are and removes nothing.
LEMMA RemainsCalm ==
  ASSUME FilesInv, CallsInv, RemovalInv, Calm, CalmInv, UNCHANGED <<files, was, present, opened>>,
         Remains(frames', frames), pc' # "aborted",
         \A i \in DOMAIN frames :
           /\ frames'[i].unread \subseteq frames[i].unread
           /\ Within(frames[i].dir) \cap present \subseteq frames'[i].unread \cup InHand(i)',
         AtEntry' \/ pc' = "opendir" => entry' \in present,
         pc' = "rmdir" => Within(Top.dir) \cap present = {}, pc' = "rmdir" => frames # <<>>
  PROVE  CalmInv'
<1>1. /\ Links' = Links /\ Dirs' = Dirs /\ Inside' = Inside /\ parent' = parent
  BY FilesSame
<1>2. /\ frames \in Seq(Frame) /\ DOMAIN frames' = DOMAIN frames
      /\ \A i \in DOMAIN frames : frames'[i].at = frames[i].at /\ frames'[i].dir = frames[i].dir
  BY DEF Remains, CallsInv
<1>3. \A i \in DOMAIN frames : Within(frames[i].dir)' = Within(frames[i].dir)
  BY <1>1, <1>2 DEF Within
<1>4. NoLink'
  BY <1>1, <1>2 DEF NoLink, CalmInv
<1>5. \A i \in DOMAIN frames' :
        /\ frames'[i].at \in present' /\ frames'[i].unread \subseteq present' \cup {DotDot}
        /\ Within(frames[i].dir)' \cap present' \subseteq frames'[i].unread \cup InHand(i)'
  BY <1>2, <1>3 DEF CalmInv
<1>6. \A i, j \in DOMAIN frames' : i < j => frames'[i].at < frames'[j].at
  BY <1>2 DEF CalmInv
<1>7. pc' = "rmdir" => Within(Top.dir)' \cap present' = {}
  <2>1. frames # <<>> => Within(Top.dir)' = Within(Top.dir)
    BY <1>1, <1>2, RemainsTop DEF Within
  <2> QED
    BY <2>1
<1>8. Opened' = Opened
  BY <1>1, <1>2 DEF Opened
<1>9. opened' = Cardinality(Opened)'
  BY <1>8 DEF CalmInv
<1> QED
  BY <1>4, <1>5, <1>6, <1>7, <1>9 DEF CalmInv

LEMMA SkipCalm ==
  ASSUME FilesInv, CallsInv, RemovalInv, Calm, CalmInv, Skip PROVE CalmInv'
<1>1. pc = "readdir" /\ UNCHANGED <<files, present, was, entry, opened, pc, failed, meddled>>
  BY DEF Skip
<1>2. frames' = [frames EXCEPT ![Len(frames)].unread = @ \ {DotDot}]
  BY DEF Skip, Skipped
<1>3. frames \in Seq(Frame) /\ frames # <<>>
  BY <1>1 DEF CallsInv, EntryInv, Calls
<1>4. /\ Remains(frames', frames) /\ Top'.unread = Top.unread \ {DotDot}
      /\ \A i \in DOMAIN frames : i < Len(frames) => frames'[i] = frames[i]
  BY <1>2, <1>3, RemainsRead
<1>5. /\ Len(frames) \in Nat /\ DOMAIN frames = 1..Len(frames) /\ Len(frames') = Len(frames)
      /\ frames[Len(frames)] = Top /\ frames'[Len(frames)] = Top'
  BY <1>3, <1>4 DEF Top, Remains
<1>6. ~AtEntry' /\ ~AtEntry
  BY <1>1 DEF AtEntry
<1>7. ASSUME NEW i \in DOMAIN frames
      PROVE  /\ frames'[i].unread \subseteq frames[i].unread
             /\ Within(frames[i].dir) \cap present \subseteq frames'[i].unread \cup InHand(i)'
  <2>1. Within(frames[i].dir) \cap present \subseteq frames[i].unread \cup InHand(i)
    BY DEF CalmInv
  <2>2. CASE i < Len(frames)
    <3>1. i + 1 \in DOMAIN frames
      BY <1>5, <2>2
    <3>2. InHand(i) = {frames[i+1].at} /\ InHand(i)' = {frames'[i+1].at}
      BY <1>5, <2>2 DEF InHand
    <3> QED
      BY <1>4, <2>1, <2>2, <3>1, <3>2 DEF Remains
  <2>3. CASE i = Len(frames)
    <3>1. InHand(i) = {}
      BY <1>5, <1>6, <2>3 DEF InHand
    <3>2. DotDot \notin Within(frames[i].dir)
      BY FileFacts, Constants
    <3> QED
      BY <1>4, <1>5, <2>1, <2>3, <3>1, <3>2
  <2> QED
    BY <1>5, <2>2, <2>3
<1> QED
  BY <1>1, <1>4, <1>6, <1>7, RemainsCalm

LEMMA ReaddirCalm ==
  ASSUME FilesInv, CallsInv, RemovalInv, Calm, CalmInv, Readdir PROVE CalmInv'
<1>1. /\ entry' \in Within(Top.dir) /\ entry' \in Top.unread /\ entry' \in Place
      /\ Remains(frames', frames) /\ Top'.unread = Top.unread \ {entry'}
      /\ frames # <<>> /\ pc' \in {"stat", "crashed"}
      /\ \A i \in DOMAIN frames : i < Len(frames) => frames'[i] = frames[i]
      /\ UNCHANGED <<files, present, was, opened, failed, meddled>>
  BY ReaddirIs
<1>2. pc = "readdir" /\ frames \in Seq(Frame)
  BY DEF Readdir, CallsInv
<1>3. /\ Len(frames) \in Nat /\ DOMAIN frames = 1..Len(frames) /\ Len(frames') = Len(frames)
      /\ frames[Len(frames)] = Top /\ frames'[Len(frames)] = Top' /\ Len(frames) \in DOMAIN frames
  BY <1>1, <1>2 DEF Top, Remains
<1>4. AtEntry' /\ ~AtEntry
  BY <1>1, <1>2 DEF AtEntry
<1>5. entry' \in present
  BY <1>1, <1>3, Constants DEF CalmInv
<1>6. ASSUME NEW i \in DOMAIN frames
      PROVE  /\ frames'[i].unread \subseteq frames[i].unread
             /\ Within(frames[i].dir) \cap present \subseteq frames'[i].unread \cup InHand(i)'
  <2>1. Within(frames[i].dir) \cap present \subseteq frames[i].unread \cup InHand(i)
    BY DEF CalmInv
  <2>2. CASE i < Len(frames)
    <3>1. i + 1 \in DOMAIN frames
      BY <1>3, <2>2
    <3>2. InHand(i) = {frames[i+1].at} /\ InHand(i)' = {frames'[i+1].at}
      BY <1>3, <2>2 DEF InHand
    <3> QED
      BY <1>1, <2>1, <2>2, <3>1, <3>2 DEF Remains
  <2>3. CASE i = Len(frames)
    <3>1. InHand(i) = {} /\ InHand(i)' = {entry'}
      BY <1>3, <1>4, <2>3 DEF InHand
    <3> QED
      BY <1>1, <1>3, <2>1, <2>3, <3>1
  <2> QED
    BY <1>3, <2>2, <2>3
<1> QED
  BY <1>1, <1>5, <1>6, RemainsCalm

\* A step that changes neither the calls nor what is at hand.
LEMMA SameCalm ==
  ASSUME FilesInv, CallsInv, RemovalInv, Calm, CalmInv,
         UNCHANGED <<files, was, present, opened, frames, entry>>,
         AtEntry' <=> AtEntry, pc' # "aborted", pc' = "opendir" => AtEntry \/ pc = "opendir",
         pc' = "rmdir" => Within(Top.dir) \cap present = {}, pc' = "rmdir" => frames # <<>>
  PROVE  CalmInv'
<1>1. Remains(frames', frames)
  BY RemainsSame DEF CallsInv
<1>2. \A i \in DOMAIN frames : InHand(i)' = InHand(i)
  BY DEF InHand
<1>3. \A i \in DOMAIN frames :
        /\ frames'[i].unread \subseteq frames[i].unread
        /\ Within(frames[i].dir) \cap present \subseteq frames'[i].unread \cup InHand(i)'
  BY <1>2 DEF CalmInv
<1>4. AtEntry' \/ pc' = "opendir" => entry' \in present
  BY DEF CalmInv
<1> QED
  BY <1>1, <1>3, <1>4, RemainsCalm

LEMMA StatCalm ==
  ASSUME FilesInv, CallsInv, RemovalInv, Calm, CalmInv, Stat PROVE CalmInv'
<1>1. /\ pc = "stat" /\ pc' \in {"opendir", "unlink"}
      /\ UNCHANGED <<files, present, was, frames, entry, opened, failed, meddled>>
  BY DEF Stat
<1>2. frames # <<>>
  BY <1>1 DEF CallsInv, EntryInv, Calls
<1>3. AtEntry /\ AtEntry'
  <2>1. AtEntry
    BY <1>1 DEF AtEntry
  <2>2. CASE pc' = "unlink"
    <3>1. pc = "stat" /\ AtEntry
      BY <1>1, <2>1
    <3> QED
      BY <1>1, <1>2, <2>2 DEF AtEntry
  <2>3. CASE pc' = "opendir"
    BY <1>1, <1>2, <2>3 DEF AtEntry
  <2> QED
    BY <1>1, <2>1, <2>2, <2>3
<1> QED
  BY <1>1, <1>3, SameCalm

LEMMA NoMoreCalm ==
  ASSUME FilesInv, CallsInv, RemovalInv, Calm, CalmInv, NoMore PROVE CalmInv'
<1>1. /\ pc = "readdir" /\ pc' = "rmdir" /\ Top.unread \cap (present \cup {DotDot}) = {}
      /\ UNCHANGED <<files, present, was, frames, entry, opened, failed, meddled>>
  BY DEF NoMore
<1>2. frames # <<>>
  BY <1>1 DEF CallsInv, EntryInv, Calls
<1>3. ~AtEntry /\ ~AtEntry'
  BY <1>1 DEF AtEntry
<1>4. Len(frames) \in DOMAIN frames /\ Top = frames[Len(frames)] /\ Len(frames) \in Nat
  BY <1>2, FrameFacts DEF CallsInv
<1>5. InHand(Len(frames)) = {}
  BY <1>3, <1>4 DEF InHand
<1>6. Within(Top.dir) \cap present \subseteq Top.unread
  BY <1>4, <1>5 DEF CalmInv
<1> QED
  BY <1>1, <1>2, <1>3, <1>6, SameCalm

\* What is below the innermost call is in none of the other directories.
LEMMA CalmElsewhere ==
  ASSUME FilesInv, CallsInv, RemovalInv, Calm, CalmInv,
         NEW i \in DOMAIN frames, NEW j \in DOMAIN frames, i < j,
         NEW e \in Node, e \in Within(frames[j].dir)
  PROVE  e \notin Within(frames[i].dir)
<1>1. frames[i].at < frames[j].at
  BY DEF CalmInv
<1>2. /\ frames[i].dir = frames[i].at /\ frames[j].dir = frames[j].at
      /\ frames[i].at \in Node \cup {Root} /\ frames[j].at \in Node \cup {Root}
  BY CalmCalls
<1>3. frames[i].at \in Int /\ frames[j].at \in Int
  BY <1>2, Constants
<1>4. parent[e] = frames[j].dir /\ (e \in Within(frames[i].dir) => parent[e] = frames[i].dir)
  BY FileFacts
<1> QED
  BY <1>1, <1>2, <1>3, <1>4

LEMMA UnlinkCalm ==
  ASSUME FilesInv, CallsInv, RemovalInv, Calm, CalmInv, Unlink PROVE CalmInv'
<1>1. /\ pc = "unlink" /\ pc' = "readdir" /\ present' = present \ {entry}
      /\ UNCHANGED <<files, was, frames, opened, failed, meddled>> /\ frames \in Seq(Frame)
  BY DEF Unlink, CallsInv
<1>2. /\ Links' = Links /\ Dirs' = Dirs /\ Inside' = Inside /\ parent' = parent
  BY <1>1, FilesSame
<1>3. frames # <<>> /\ AtEntry /\ ~AtEntry'
  BY <1>1 DEF CallsInv, EntryInv, Calls, AtEntry
<1>4. /\ Len(frames) \in Nat /\ DOMAIN frames = 1..Len(frames) /\ Len(frames) \in DOMAIN frames
      /\ Top = frames[Len(frames)]
  BY <1>3, FrameFacts DEF CallsInv
<1>5. /\ entry \in Within(Top.dir) /\ entry \notin Top.unread /\ Resolve(entry) \notin Dirs
      /\ entry \in Place
  <2>1. entry \in present /\ entry \in was
    BY <1>3, CalmCalls DEF CalmInv
  <2> QED
    BY <1>1, <1>3, <2>1 DEF CallsInv, EntryInv
<1>6. entry \notin Dirs
  BY <1>5, FileFacts
<1>7. entry \in Node
  BY <1>3, <1>5, CalmBelow
<1>8. ASSUME NEW i \in DOMAIN frames
      PROVE  /\ frames[i].at \in present' /\ frames[i].unread \subseteq present' \cup {DotDot}
             /\ Within(frames[i].dir)' \cap present' \subseteq frames[i].unread \cup InHand(i)'
  <2>1. frames[i].at \in present'
    BY <1>1, <1>6, CalmCalls
  <2>2. entry \notin frames[i].unread
    <3>1. CASE i = Len(frames)
      BY <1>4, <1>5, <3>1
    <3>2. CASE i < Len(frames)
      <4>1. entry \notin Within(frames[i].dir)
        BY <1>4, <1>5, <1>7, <3>2, CalmElsewhere
      <4>2. frames[i].unread \subseteq Within(frames[i].dir) \cup {DotDot} /\ entry # DotDot
        BY <1>5, Constants DEF CallsInv, ListingInv
      <4> QED
        BY <4>1, <4>2
    <3> QED
      BY <1>4, <3>1, <3>2
  <2>3. frames[i].unread \subseteq present' \cup {DotDot}
    BY <1>1, <2>2 DEF CalmInv
  <2>4. Within(frames[i].dir)' = Within(frames[i].dir)
    BY <1>1, <1>2 DEF Within
  <2>5. InHand(i) \subseteq InHand(i)' \cup {entry}
    BY <1>1 DEF InHand
  <2>6. Within(frames[i].dir) \cap present \subseteq frames[i].unread \cup InHand(i)
    BY DEF CalmInv
  <2> QED
    BY <1>1, <2>1, <2>3, <2>4, <2>5, <2>6
<1>9. Opened' = Opened
  BY <1>1, <1>2, <1>6 DEF Opened
<1>10. opened' = Cardinality(Opened)'
  BY <1>1, <1>9 DEF CalmInv
<1>11. NoLink'
  BY <1>1, <1>2 DEF NoLink, CalmInv
<1>12. \A i, j \in DOMAIN frames' : i < j => frames'[i].at < frames'[j].at
  BY <1>1 DEF CalmInv
<1> QED
  BY <1>1, <1>3, <1>8, <1>10, <1>11, <1>12 DEF CalmInv

LEMMA RmdirCalm ==
  ASSUME FilesInv, CallsInv, RemovalInv, Calm, CalmInv, Rmdir PROVE CalmInv'
<1>1. /\ pc = "rmdir" /\ frames # <<>> /\ present' = present \ {Top.at}
      /\ frames \in Seq(Frame) /\ frames' \in Seq(Frame) /\ Len(frames') = Len(frames) - 1
      /\ \A i \in 1..(Len(frames) - 1) : frames'[i] = frames[i]
      /\ pc' \in {"done", "readdir"}
      /\ UNCHANGED <<files, was, entry, opened, failed, meddled>>
  BY RmdirIs DEF CallsInv
<1>2. /\ Links' = Links /\ Dirs' = Dirs /\ Inside' = Inside /\ parent' = parent
  BY <1>1, FilesSame
<1>3. /\ Len(frames) \in Nat /\ DOMAIN frames = 1..Len(frames) /\ Len(frames) \in DOMAIN frames
      /\ Top = frames[Len(frames)] /\ DOMAIN frames' = 1..(Len(frames) - 1)
  BY <1>1, FrameFacts DEF CallsInv
<1>4. \A i \in DOMAIN frames' :
        i \in DOMAIN frames /\ i < Len(frames) /\ frames'[i] = frames[i]
  BY <1>1, <1>3
<1>5. ~AtEntry'
  BY <1>1 DEF AtEntry
<1>6. Top.at \in Inside \cap Dirs /\ Top.at \in present
  BY <1>3, CalmCalls
<1>7. ASSUME NEW i \in DOMAIN frames'
      PROVE  /\ frames'[i].at \in present' /\ frames'[i].unread \subseteq present' \cup {DotDot}
             /\ Within(frames[i].dir)' \cap present' \subseteq frames'[i].unread \cup InHand(i)'
  <2>1. i \in DOMAIN frames /\ i < Len(frames) /\ frames'[i] = frames[i]
    BY <1>4
  <2>2. frames[i].at < Top.at /\ frames[i].at \in Int /\ Top.at \in Int
    BY <1>3, <2>1, CalmCalls, Constants DEF CalmInv
  <2>3. frames'[i].at \in present'
    BY <1>1, <2>1, <2>2, CalmCalls
  <2>4. Top.at \notin frames[i].unread
    <3>1. /\ Len(frames) - 1 \in DOMAIN frames
          /\ Top.at \in Within(frames[Len(frames)-1].dir)
          /\ Top.at \notin frames[Len(frames)-1].unread
      BY <1>3, <2>1 DEF CallsInv, ListingInv
    <3>2. CASE i = Len(frames) - 1
      BY <3>1, <3>2
    <3>3. CASE i < Len(frames) - 1
      <4>1. Top.at \in Node
        <5>1. Top.at # Root
          BY <1>3, <2>1, <2>2, CalmCalls, Constants
        <5> QED
          BY <1>3, <5>1, CalmCalls
      <4>2. Top.at \notin Within(frames[i].dir)
        BY <2>1, <3>1, <3>3, <4>1, CalmElsewhere
      <4>3. frames[i].unread \subseteq Within(frames[i].dir) \cup {DotDot} /\ Top.at # DotDot
        BY <2>1, <4>1, Constants DEF CallsInv, ListingInv
      <4> QED
        BY <4>2, <4>3
    <3> QED
      BY <1>3, <2>1, <3>2, <3>3
  <2>5. frames'[i].unread \subseteq present' \cup {DotDot}
    BY <1>1, <2>1, <2>4 DEF CalmInv
  <2>6. Within(frames[i].dir)' = Within(frames[i].dir)
    BY <1>2, <2>1 DEF Within
  <2>7. InHand(i) \subseteq InHand(i)' \cup {Top.at}
    <3>1. InHand(i) = {frames[i+1].at}
      BY <2>1 DEF InHand
    <3>2. CASE i = Len(frames) - 1
      <4>1. i + 1 = Len(frames)
        BY <1>3, <3>2
      <4> QED
        BY <1>3, <3>1, <4>1
    <3>3. CASE i < Len(frames) - 1
      <4>1. i < Len(frames') /\ i + 1 \in 1..(Len(frames) - 1)
        BY <1>1, <1>3, <2>1, <3>3
      <4> QED
        BY <1>1, <3>1, <4>1 DEF InHand
    <3> QED
      BY <1>3, <2>1, <3>2, <3>3
  <2>8. Within(frames[i].dir) \cap present \subseteq frames[i].unread \cup InHand(i)
    BY <2>1 DEF CalmInv
  <2> QED
    BY <1>1, <2>1, <2>3, <2>5, <2>6, <2>7, <2>8
<1>8. Opened' = Opened
  <2>1. {frames[i].at : i \in DOMAIN frames} = {frames'[i].at : i \in DOMAIN frames'} \cup {Top.at}
    <3>1. \A i \in DOMAIN frames : i \in DOMAIN frames' \/ i = Len(frames)
      BY <1>3
    <3> QED
      BY <1>3, <1>4, <3>1
  <2>2. (Inside \cap Dirs) \ present' = ((Inside \cap Dirs) \ present) \cup {Top.at}
    BY <1>1, <1>6
  <2> QED
    BY <1>2, <2>1, <2>2 DEF Opened
<1>9. opened' = Cardinality(Opened)'
  BY <1>1, <1>8 DEF CalmInv
<1>10. NoLink'
  BY <1>2, <1>4 DEF NoLink, CalmInv
<1>11. \A i, j \in DOMAIN frames' : i < j => frames'[i].at < frames'[j].at
  BY <1>4 DEF CalmInv
<1> QED
  BY <1>1, <1>5, <1>7, <1>9, <1>10, <1>11 DEF CalmInv

\* The reasons do not go away, so that without one now there was none before.
LEMMA CalmBefore ==
  ASSUME FilesInv, CallsInv, [Next]_vars, Calm'
  PROVE  Calm /\ ~Fault /\ ~Meddle
<1>1. UNCHANGED <<files, was>>
  BY DEF Next, Step, Opendir, Skip, Readdir, Stat, Unlink, NoMore, Rmdir, Abort, Fault, Meddle,
         Finished, vars
<1>2. Links' = Links /\ Dirs' = Dirs /\ Inside' = Inside /\ target' = target /\ was' = was
  BY <1>1, FilesSame
<1>3. failed' = FALSE /\ meddled' = 0
  BY DEF Calm
<1>4. ~Fault
  BY <1>3 DEF Fault
<1>5. ~Meddle
  <2> SUFFICES ASSUME Meddle PROVE FALSE
    OBVIOUS
  <2>1. meddled' = meddled + 1 /\ meddled \in 0..MaxMeddle
    BY MeddleIs DEF CallsInv
  <2> QED
    BY <1>3, <2>1, Constants
<1>6. failed = failed' /\ meddled = meddled'
  BY <1>4, <1>5 DEF Next, Step, Opendir, Skip, Readdir, Stat, Unlink, NoMore, Rmdir, Abort,
                    Finished, vars
<1>7. \A l \in Links \cap Inside : Troublesome(l)' <=> Troublesome(l)
  BY <1>2 DEF Troublesome
<1>8. Calm
  BY <1>2, <1>3, <1>6, <1>7 DEF Calm
<1> QED
  BY <1>4, <1>5, <1>8

LEMMA NextCalm ==
  ASSUME FilesInv, CallsInv, RemovalInv, Calm => CalmInv, [Next]_vars, Calm' PROVE CalmInv'
<1>1. Calm /\ CalmInv /\ ~Fault /\ ~Meddle
  BY CalmBefore
<1>2. ~Abort
  BY <1>1, CalmPossible DEF Abort
<1>3. CASE UNCHANGED vars
  <2>1. UNCHANGED <<files, was, present, opened, frames, entry, pc>>
    BY <1>3 DEF vars
  <2>2. AtEntry' <=> AtEntry
    BY <2>1 DEF AtEntry
  <2>3. pc' # "aborted" /\ (pc' = "rmdir" => Within(Top.dir) \cap present = {} /\ frames # <<>>)
    BY <1>1, <2>1 DEF CalmInv, CallsInv, EntryInv, Calls
  <2> QED
    BY <1>1, <2>1, <2>2, <2>3, SameCalm
<1>4. CASE Finished
  BY <1>3, <1>4 DEF Finished
<1> QED
  BY <1>1, <1>2, <1>3, <1>4, OpendirCalm, SkipCalm, ReaddirCalm, StatCalm, UnlinkCalm, NoMoreCalm,
     RmdirCalm DEF Next, Step

LEMMA InitCalm == Init => CalmInv
<1> SUFFICES ASSUME Init PROVE CalmInv
  OBVIOUS
<1>1. FilesInv
  BY InitFiles
<1>2. frames = <<>> /\ opened = 0 /\ present = was /\ entry = Root /\ pc = "opendir"
  BY DEF Init
<1>3. DOMAIN frames = {}
  BY <1>2
<1>4. entry \in present
  BY <1>1, <1>2 DEF FilesInv
<1>5. (Inside \cap Dirs) \ present = {}
  <2>1. \A n \in Node \cap Dirs : kind[n] # "file"
    BY <1>1, FileFacts
  <2>2. Inside \cap Dirs \subseteq Place
    BY <1>1, FileFacts
  <2> QED
    BY <1>1, <1>2, <2>1, <2>2 DEF FilesInv, Place
<1>6. Opened = {}
  BY <1>3, <1>5 DEF Opened
<1>7. opened = Cardinality(Opened)
  BY <1>2, <1>6, FS_EmptySet
<1>8. NoLink
  BY <1>3 DEF NoLink
<1> QED
  BY <1>2, <1>3, <1>4, <1>7, <1>8 DEF CalmInv

\* All of it together: what the files are, where the calls stand, what is
\* there, what was removed, and that nothing stops a call without a reason
\* (util.c:1091-1143).
THEOREM RemovalInvariant == Spec => []RmdirInv
<1>1. Init => RmdirInv
  BY InitFiles, InitCalls, InitGrounded, InitRemoval, InitCalm DEF RmdirInv
<1>2. RmdirInv /\ [Next]_vars => RmdirInv'
  <2> SUFFICES ASSUME RmdirInv, [Next]_vars PROVE RmdirInv'
    OBVIOUS
  <2>1. FilesInv /\ CallsInv /\ Grounded /\ RemovalInv /\ (Calm => CalmInv)
    BY DEF RmdirInv
  <2>2. (FilesInv /\ CallsInv)' /\ Grounded' /\ RemovalInv'
    BY <2>1, NextCalls, NextGrounded, NextRemoval
  <2>3. Calm' => CalmInv'
    BY <2>1, NextCalm
  <2> QED
    BY <2>2, <2>3 DEF RmdirInv
<1> QED
  BY <1>1, <1>2, PTL DEF Spec

\* The ez_ calls abort the program only when one fails for a reason of its own,
\* another process meddles, descriptors run out, or a link leads where stat or
\* the recursion cannot follow it (util.c:1103-1131).
THEOREM AbortsForAReason == Spec => []AbortExplained
<1>1. RmdirInv => AbortExplained
  <2> SUFFICES ASSUME RmdirInv, pc = "aborted"
               PROVE  \/ failed \/ meddled > 0
                      \/ Cardinality(Inside \cap Dirs) > MaxOpen
                      \/ \E l \in Links \cap Inside : Troublesome(l)
    BY DEF AbortExplained
  <2>1. FilesInv /\ CallsInv /\ ~Calm
    BY DEF RmdirInv, CalmInv
  <2>2. failed \in BOOLEAN /\ meddled \in Nat /\ MaxOpen \in Nat
    BY <2>1, Constants DEF CallsInv
  <2>3. Cardinality(Inside \cap Dirs) \in Nat
    <3>1. IsFiniteSet(Node \cup {Root}) /\ Inside \cap Dirs \subseteq Node \cup {Root}
      BY <2>1, Constants, FS_AddElement, InsideIs
    <3> QED
      BY <3>1, FS_Subset, FS_CardinalityType
  <2>4. meddled = 0 \/ meddled > 0
    BY <2>2
  <2>5. Cardinality(Inside \cap Dirs) <= MaxOpen \/ Cardinality(Inside \cap Dirs) > MaxOpen
    BY <2>2, <2>3
  <2> QED
    BY <2>1, <2>4, <2>5 DEF Calm
<1> QED
  BY <1>1, RemovalInvariant, PTL
=============================================================================
