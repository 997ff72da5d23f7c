-------------------------------- MODULE Rmdir --------------------------------
(***************************************************************************)
(* rmdir_recursive (util.c:1091-1143): a directory is listed, each entry   *)
(* is looked at and unlinked, or descended into when it is a directory,    *)
(* and then the directory is removed.  Every system call is the ez_ one,   *)
(* which aborts the program when it fails.  The listing of a directory is  *)
(* never closed.  Another process may meddle with the files meanwhile.     *)
(***************************************************************************)
EXTENDS Integers, Sequences, FiniteSets

Seqs == INSTANCE SequencesExt

CONSTANTS
  N,             \* bound: how many files, directories and links there may be
  DotDot,        \* an entry every directory has; "." is treated like it
  Nothing,       \* what a dangling link leads to
  MaxOpen,       \* how many descriptors are left to the program
  MaxLinks,      \* the links the system follows in a path before it gives up
  MaxMeddle,     \* bound: the times another process adds or removes a file
  MayFail        \* the calls that may fail for a reason of their own

ASSUME BoundAssumption == {N, MaxOpen, MaxLinks, MaxMeddle} \subseteq Nat /\ MaxLinks > 0
ASSUME NameAssumption == DotDot # Nothing /\ {DotDot, Nothing} \cap (-1)..N = {}

Calls == {"opendir", "readdir", "stat", "unlink", "rmdir"}
ASSUME FailAssumption == MayFail \subseteq Calls \cup {"memory"}

\* Nodes are numbered so that each is in a directory with a smaller number:
\* Root is the directory to remove, and Out the one it is in.
Node == 1..N
Root == 0
Out  == -1

VARIABLES
  kind, parent, target,  \* the files: "dir", "file" or "link", and to what
  present,       \* the nodes that are there
  was,           \* those that were, when the call was made
  frames,        \* the calls under way, the innermost last
  entry,         \* the node that the next call's path names, or Root
  opened,        \* how many directory listings are open
  pc,            \* the next system call, or how the call ended
  failed,        \* a call failed for a reason of its own
  meddled        \* how often another process has meddled

files == <<kind, parent, target>>
vars  == <<files, present, was, frames, entry, opened, pc, failed, meddled>>

Dirs == {Root, Out} \cup {n \in Node : kind[n] = "dir"}
Links == {n \in Node : kind[n] = "link"}
Within(d) == {n \in Node : parent[n] = d} \cup {n \in {Root} : d = Out}

\* stat and opendir follow links.
Resolve(n) == IF n \in Links THEN target[n] ELSE n

Top == frames[Len(frames)]

\* A path is the way the calls came, so it leads through what they descended.
PathStands == \A i \in DOMAIN frames : {frames[i].at, frames[i].dir} \subseteq present
LinksTo(n) == Cardinality({i \in DOMAIN frames : frames[i].at \in Links})
              + (IF n \in Links THEN 1 ELSE 0)
Found(n) == PathStands /\ {n, Resolve(n)} \subseteq present /\ LinksTo(n) <= MaxLinks

\* Fault variant: ".." is an entry like any other.
Skipped_No(e) == FALSE

Skipped(e) == e = DotDot

\* What an entry of the directory d names.
Named(d, e) == IF e # DotDot THEN e ELSE IF d = Root THEN Out ELSE parent[d]

----------------------------------------------------------------------------
\* Any tree and any links, and a file that another process may yet add.
Init ==
  /\ kind \in [Node -> {"dir", "file", "link"}]
  /\ parent \in [Node -> Node \cup {Root, Out}]
  /\ \A n \in Node : parent[n] < n /\ parent[n] \in Dirs
  /\ target \in [Links -> Dirs \cup {n \in Node : kind[n] = "file"} \cup {Nothing}]
  /\ \E late \in SUBSET {n \in Node : kind[n] = "file" /\ MaxMeddle > 0} :
       Cardinality(late) <= 1 /\ was = {Root, Out} \cup (Node \ late)
  /\ present = was
  /\ frames = <<>> /\ entry = Root /\ opened = 0
  /\ pc = "opendir" /\ failed = FALSE /\ meddled = 0

\* Fault variant: remove() in place of rmdir(), which takes links away as well.
CanRmdir_Remove == PathStands /\ (Top.at \in Links \/ Within(Top.at) \cap present = {})

\* Whether the next system call finds what it needs.
CanOpen   == Found(entry) /\ Resolve(entry) \in Dirs /\ opened < MaxOpen
CanUnlink == PathStands /\ entry \in present
CanRmdir  == PathStands /\ Top.at \in Dirs /\ Within(Top.at) \cap present = {}

Possible ==
  CASE pc = "opendir" -> CanOpen
    [] pc = "stat"    -> Found(entry)
    [] pc = "unlink"  -> CanUnlink
    [] pc = "rmdir"   -> CanRmdir
    [] OTHER          -> TRUE

\* ez_opendir, and STR_constructor, whose failure nobody looks at.
Opendir ==
  /\ pc = "opendir" /\ CanOpen
  /\ \E sb \in {TRUE} \cup {"memory" \notin MayFail} :
       frames' = Append(frames,
         [at |-> entry, dir |-> Resolve(entry), sb |-> sb,
          unread |-> {DotDot} \cup (Within(Resolve(entry)) \cap present)])
  /\ opened' = opened + 1 /\ pc' = "readdir" /\ entry' = Root
  /\ UNCHANGED <<files, present, was, failed, meddled>>

\* Fault variant: every entry passed over is listed again.
Skip_Rewinds ==
  /\ pc = "readdir" /\ \E e \in Top.unread : Skipped(e)
  /\ UNCHANGED vars

\* ez_readdir comes upon an entry that is passed over.
Skip ==
  /\ pc = "readdir"
  /\ \E e \in Top.unread :
       Skipped(e) /\ frames' = [frames EXCEPT ![Len(frames)].unread = @ \ {e}]
  /\ UNCHANGED <<files, present, was, entry, opened, pc, failed, meddled>>

\* Or upon one that is not, whose path is formed: without a buffer for it,
\* STR_reset writes through a null pointer.
Readdir ==
  /\ pc = "readdir"
  /\ \E e \in Top.unread :
       /\ ~Skipped(e) /\ entry' = Named(Top.dir, e)
       /\ frames' = [frames EXCEPT ![Len(frames)].unread = @ \ {e}]
  /\ pc' = IF Top.sb THEN "stat" ELSE "crashed"
  /\ UNCHANGED <<files, present, was, opened, failed, meddled>>

\* Fault variant: the path is not reset, and names nothing from the second on.
Stat_NoReset ==
  /\ pc = "stat" /\ Found(entry)
  /\ pc' = IF Within(Top.dir) \ Top.unread = {entry}
           THEN IF Resolve(entry) \in Dirs THEN "opendir" ELSE "unlink"
           ELSE "aborted"
  /\ UNCHANGED <<files, present, was, frames, entry, opened, failed, meddled>>

Stat ==
  /\ pc = "stat" /\ Found(entry)
  /\ pc' = IF Resolve(entry) \in Dirs THEN "opendir" ELSE "unlink"
  /\ UNCHANGED <<files, present, was, frames, entry, opened, failed, meddled>>

Unlink ==
  /\ pc = "unlink" /\ CanUnlink
  /\ present' = present \ {entry} /\ pc' = "readdir" /\ entry' = Root
  /\ UNCHANGED <<files, was, frames, opened, failed, meddled>>

\* The end of the listing; what was removed since it began may be left out.
NoMore ==
  /\ pc = "readdir" /\ Top.unread \cap (present \cup {DotDot}) = {}
  /\ pc' = "rmdir"
  /\ UNCHANGED <<files, present, was, frames, entry, opened, failed, meddled>>

\* ez_rmdir, and the return with 0 to the caller's loop or to the caller.
Rmdir ==
  /\ pc = "rmdir" /\ CanRmdir
  /\ present' = present \ {Top.at}
  /\ frames' = Seqs!Front(frames)
  /\ pc' = IF Len(frames) = 1 THEN "done" ELSE "readdir"
  /\ UNCHANGED <<files, was, entry, opened, failed, meddled>>

\* The call cannot be done.
Abort ==
  /\ pc \in Calls /\ ~Possible /\ pc' = "aborted"
  /\ UNCHANGED <<files, present, was, frames, entry, opened, failed, meddled>>

\* It fails for a reason of its own.
Fault ==
  /\ pc \in Calls \cap MayFail /\ pc' = "aborted" /\ failed' = TRUE
  /\ UNCHANGED <<files, present, was, frames, entry, opened, meddled>>

Ended == {"done", "aborted", "crashed"}

\* Another process adds a file, which the listings under way may show or not,
\* or removes one, or an empty directory.
Meddle ==
  /\ pc \notin Ended /\ meddled < MaxMeddle /\ meddled' = meddled + 1
  /\ \E n \in Node :
       \/ /\ n \notin present /\ n \notin was /\ parent[n] \in present
          /\ present' = present \cup {n}
          /\ \E seen \in BOOLEAN : frames' = [i \in DOMAIN frames |->
               IF seen /\ frames[i].dir = parent[n]
               THEN [frames[i] EXCEPT !.unread = @ \cup {n}] ELSE frames[i]]
       \/ /\ n \in present /\ Within(n) \cap present = {}
          /\ present' = present \ {n} /\ UNCHANGED frames
  /\ UNCHANGED <<files, was, entry, opened, pc, failed>>

Step == Opendir \/ Skip \/ Readdir \/ Stat \/ Unlink \/ NoMore \/ Rmdir \/ Abort

Finished == pc \in Ended /\ UNCHANGED vars

Next == Step \/ Fault \/ Meddle \/ Finished

Spec == Init /\ [][Next]_vars

\* System calls return.  No failure and no other process is owed to it.
FairSpec == Spec /\ WF_vars(Step)

----------------------------------------------------------------------------
(* Properties *)

\* Every call under way has a listing of its own open, and all but the last
\* are at an entry of their directory (util.c:1103-1122).
TypeOK ==
  /\ present \subseteq Node \cup {Root, Out} /\ entry \in Node \cup {Root, Out}
  /\ opened \in 0..MaxOpen /\ Len(frames) <= opened
  /\ meddled \in 0..MaxMeddle /\ failed \in BOOLEAN
  /\ pc \in Calls \cup Ended
  /\ \A i \in DOMAIN frames :
       /\ frames[i].dir \in Dirs /\ frames[i].at \in Node \cup {Root}
       /\ i > 1 => frames[i].at \in Within(frames[i-1].dir) /\ frames[i].at \notin frames[i-1].unread

\* The least set with Root in it and, of each that is, what leads on from there.
Everything == Node \cup {Root, Out, Nothing}
Reached(leads) ==
  {n \in Everything :
     \A R \in SUBSET Everything : Root \in R /\ (\A m \in R : leads[m] \subseteq R) => n \in R}

\* Root and what was or came to be in it.
Inside == Reached([n \in Everything |-> Within(n)])

\* What links make part of it, and what those lead to in turn.
Linked == Reached([n \in Everything |-> Within(n) \cup {target[l] : l \in Links \cap {n}}])

\* When 0 is returned, Root and everything in it is gone.  Nothing else is,
\* nor has anything been removed on the way to a failure, except where links
\* lead out of it (util.c:1093-1098).
RemovesItsTree ==
  /\ pc = "done" => Inside \cap present = {}
  /\ meddled = 0 => /\ pc = "done" => present = was \ Inside
                    /\ was \ present \subseteq Linked

\* The program is aborted only by a failing call or a meddling process, for
\* want of a descriptor for each directory of the tree, or on account of a
\* link that leads nowhere, to a directory or into the tree (util.c:1120).
Troublesome(l) == target[l] \notin was \/ target[l] \in Dirs \cup Inside

AbortExplained ==
  pc = "aborted" =>
    \/ failed \/ meddled > 0
    \/ Cardinality(Inside \cap Dirs) > MaxOpen
    \/ \E l \in Links \cap Inside : Troublesome(l)

\* The call comes to an end, whatever circles the links make.
CallEnds == <>(pc \in Ended)
=============================================================================
