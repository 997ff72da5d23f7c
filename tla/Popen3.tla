------------------------------ MODULE Popen3 ------------------------------
(***************************************************************************)
(* popen_3 and pclose_3 (util.c:1383-1556): a parent runs children with    *)
(* pipes for their three standard streams, and closes, awaits or kills     *)
(* them.  Descriptors are numbers in a table per process, the lowest free  *)
(* one is given out, and fork() copies the table: a child also gets the    *)
(* parent's ends of its elder siblings' pipes.                             *)
(***************************************************************************)
EXTENDS Integers, FiniteSets

F == INSTANCE FiniteSetsExt

CONSTANTS
  Child,            \* the calls of popen_3, and the processes they fork
  Parent,
  Pid,              \* the process ids of the children
  NoAnswer,         \* pclose_3 has not returned
  NoChild,          \* no call is under way
  Fd,               \* bound: the descriptors of a process, 0..n
  Closed, Other,    \* a free descriptor, and one of no pipe of popen_3's
  OpenAtStart,      \* which standard streams may be open when the program starts
  MaxMs,            \* the values of max_ms
  MinPause,         \* 10 milliseconds
  Program,          \* what children may do: "reads", "writes" or "stays"
  ClientCloses,     \* the streams the caller may close of its own accord
  MayInterrupt      \* whether a signal may interrupt waitpid

Proc   == Child \cup {Parent}
Stream == 0..2
NoEnd  == {Closed, Other}
\* The ends of a child's pipes: the child's own and the parent's.
End    == [child : Child, stream : Stream, side : {"child", "parent"}]

ASSUME ProcAssumption == {Parent, NoChild} \cap Child = {}
ASSUME FdAssumption ==
  /\ {0, 1, 2} \subseteq Fd /\ Fd \subseteq Nat /\ IsFiniteSet(Fd)
  /\ Closed # Other /\ \A e \in End : e \notin NoEnd
ASSUME StartAssumption == OpenAtStart \subseteq SUBSET Stream
ASSUME PidAssumption == Pid \in [Child -> Nat \ {0}] /\ NoAnswer \notin Nat \cup {-1}
ASSUME TimeAssumption ==
  MaxMs \subseteq Nat \cup {-1} /\ MinPause \in Nat \ {0}
ASSUME ClientAssumption ==
  /\ Program \subseteq {"reads", "writes", "stays"}
  /\ ClientCloses \subseteq Stream /\ MayInterrupt \in BOOLEAN

VARIABLES
  fds,          \* the descriptors of each process
  state,        \* of each child: "none", "forked", "runs", "zombie", "reaped"
  program,      \* what each child does once it runs
  fd_arr,       \* po3->fd_arr of each child
  pc,           \* where the parent is, "idle" between calls
  cur,          \* the child whose call the parent is in
  max_ms,       \* pclose_3's argument, while it is under way
  now_ms,       \* the time since begin_ms, which runs on in sleep only
  ret           \* what pclose_3 returned for each child

pvars == <<pc, cur, max_ms, now_ms>>
vars == <<fds, state, program, fd_arr, pvars, ret>>

----------------------------------------------------------------------------
EndOf(c, s, side) == [child |-> c, stream |-> s, side |-> side]

\* The k-th call of the kernel for a descriptor gets the k-th lowest free one.
Free(t) == {n \in Fd : t[n] = Closed}
Lowest(t, k) == CHOOSE n \in Free(t) : Cardinality({m \in Free(t) : m < n}) = k - 1

\* Who holds an end open; a pipe whose one side nobody holds is at its end, or
\* broken.
Holders(e) == {p \in Proc : \E n \in Fd : fds[p][n] = e}

Without(t, ns) == [n \in Fd |-> IF n \in ns THEN Closed ELSE t[n]]
AtAny(t, es) == {n \in Fd : t[n] \in es}

Ends(c, side) == {EndOf(c, s, side) : s \in Stream}

----------------------------------------------------------------------------
(* popen_3 *)

\* The program starts with some of its standard streams open.
Init ==
  /\ \E open \in OpenAtStart :
       fds = [p \in Proc |-> [n \in Fd |-> IF p = Parent /\ n \in open THEN Other ELSE Closed]]
  /\ state = [c \in Child |-> "none"]
  /\ program = [c \in Child |-> "none"]
  /\ fd_arr = [c \in Child |-> [s \in Stream |-> -1]]
  /\ pc = "idle" /\ cur = NoChild /\ max_ms = 0 /\ now_ms = 0
  /\ ret = [c \in Child |-> NoAnswer]

\* pipe() gives the read end first: the child's for its input, the parent's for
\* the others.
PipeEnds(c) ==
  << EndOf(c, 0, "child"), EndOf(c, 0, "parent"), EndOf(c, 1, "parent"),
     EndOf(c, 1, "child"), EndOf(c, 2, "parent"), EndOf(c, 2, "child") >>

\* The three pipes, in the six lowest free descriptors, and fork().
Popen(c) ==
  LET t    == fds[Parent]
      slot == [k \in 1..6 |-> Lowest(t, k)]
      full == [n \in Fd |-> IF \E k \in 1..6 : slot[k] = n
                            THEN PipeEnds(c)[CHOOSE k \in 1..6 : slot[k] = n] ELSE t[n]]
  IN  /\ pc = "idle" /\ state[c] = "none" /\ Cardinality(Free(t)) >= 6
      /\ fds' = [fds EXCEPT ![Parent] = full, ![c] = full]
      /\ fd_arr' = [fd_arr EXCEPT ![c] = [s \in Stream |-> CHOOSE n \in Fd : full[n] = EndOf(c, s, "parent")]]
      /\ state' = [state EXCEPT ![c] = "forked"]
      /\ cur' = c /\ pc' = "forked"
      /\ UNCHANGED <<program, max_ms, now_ms, ret>>

\* ez_pipe or ez_fork fails, and aborts the program.
PopenFails(c) ==
  /\ pc = "idle" /\ state[c] = "none"
  /\ pc' = "aborted"
  /\ UNCHANGED <<fds, state, program, fd_arr, cur, max_ms, now_ms, ret>>

\* Fault variant: the parent keeps the child's ends.
ParentCloses_Keeps ==
  /\ pc = "forked" /\ pc' = "idle" /\ cur' = NoChild
  /\ UNCHANGED <<fds, state, program, fd_arr, max_ms, now_ms, ret>>

\* The parent closes the child's ends, and popen_3 returns.
ParentCloses ==
  /\ pc = "forked" /\ pc' = "idle" /\ cur' = NoChild
  /\ fds' = [fds EXCEPT ![Parent] = Without(@, AtAny(@, Ends(cur, "child")))]
  /\ UNCHANGED <<state, program, fd_arr, max_ms, now_ms, ret>>

\* Fault variant: the streams are attached before the parent's ends are closed.
Attached_First(t, c) ==
  LET own(s) == CHOOSE n \in Fd : t[n] = EndOf(c, s, "child")
      theirs == AtAny(t, Ends(c, "parent"))
      one == [t   EXCEPT ![0] = t[own(0)]]
      two == [one EXCEPT ![1] = one[own(1)]]
  IN  Without([two EXCEPT ![2] = two[own(2)]], theirs)

\* Fault variant: the child keeps the parent's ends.
Attached_Keeps(t, c) ==
  LET own(s) == CHOOSE n \in Fd : t[n] = EndOf(c, s, "child")
      one  == [t   EXCEPT ![0] = t[own(0)]]
      two  == [one EXCEPT ![1] = one[own(1)]]
  IN  [two EXCEPT ![2] = two[own(2)]]

\* The child closes the parent's ends, then attaches its own one by one.
Attached(t, c) ==
  LET own(s) == CHOOSE n \in Fd : t[n] = EndOf(c, s, "child")
      less == Without(t, AtAny(t, Ends(c, "parent")))
      one  == [less EXCEPT ![0] = less[own(0)]]
      two  == [one  EXCEPT ![1] = one[own(1)]]
  IN  [two EXCEPT ![2] = two[own(2)]]

\* The child runs its command.
ChildRuns(c) ==
  /\ state[c] = "forked"
  /\ fds' = [fds EXCEPT ![c] = Attached(@, c)]
  /\ state' = [state EXCEPT ![c] = "runs"]
  /\ \E p \in Program : program' = [program EXCEPT ![c] = p]
  /\ UNCHANGED <<fd_arr, pvars, ret>>

\* The kernel closes what a child that ends had open.
Ended(c) ==
  /\ state' = [state EXCEPT ![c] = "zombie"]
  /\ fds' = [fds EXCEPT ![c] = [n \in Fd |-> Closed]]

\* One of the child's calls before its command runs fails, and aborts the child.
ChildAborts(c) ==
  /\ state[c] = "forked"
  /\ Ended(c)
  /\ UNCHANGED <<program, fd_arr, pvars, ret>>

\* A reader ends when nobody can write to it, a writer when nobody reads it.
ChildEnds(c) ==
  /\ state[c] = "runs"
  /\ \/ program[c] = "reads" /\ Holders(EndOf(c, 0, "parent")) = {}
     \/ program[c] = "writes" /\ Holders(EndOf(c, 1, "parent")) = {}
  /\ Ended(c)
  /\ UNCHANGED <<program, fd_arr, pvars, ret>>

\* Any other child may also end of its own accord.
ChildExits(c) ==
  /\ state[c] = "runs" /\ program[c] # "stays"
  /\ Ended(c)
  /\ UNCHANGED <<program, fd_arr, pvars, ret>>
----------------------------------------------------------------------------
(* pclose_3 *)

\* What a caller may do between popen_3 and pclose_3, to say that there is no
\* more input.
ClientClosesStream(c, s) ==
  LET n == fd_arr[c][s] IN
  /\ pc = "idle" /\ s \in ClientCloses /\ state[c] # "none" /\ ret[c] = NoAnswer
  /\ fds[Parent][n] = EndOf(c, s, "parent")
  /\ fds' = [fds EXCEPT ![Parent][n] = Closed]
  /\ UNCHANGED <<state, program, fd_arr, pvars, ret>>

Pclose(c, m) ==
  /\ pc = "idle" /\ state[c] # "none" /\ ret[c] = NoAnswer
  /\ pc' = "close" /\ cur' = c /\ max_ms' = m /\ now_ms' = 0
  /\ UNCHANGED <<fds, state, program, fd_arr, ret>>

Return(rc) ==
  /\ pc' = "idle" /\ ret' = [ret EXCEPT ![cur] = rc]
  /\ cur' = NoChild /\ max_ms' = 0 /\ now_ms' = 0

Stay == UNCHANGED <<cur, max_ms, now_ms, ret>>

\* Each descriptor that is open is closed; -1 means that somebody else reaps.
CloseFds ==
  /\ pc = "close"
  /\ fds' = [fds EXCEPT ![Parent] = Without(@, {fd_arr[cur][s] : s \in Stream})]
  /\ \/ max_ms = -1 /\ Return(0)
     \/ max_ms = 0 /\ pc' = "await" /\ Stay
     \/ max_ms > 0 /\ pc' = "sleep" /\ Stay
  /\ UNCHANGED <<state, program, fd_arr>>

Reap == state[cur] = "zombie" /\ state' = [state EXCEPT ![cur] = "reaped"]

\* A max_ms of 0: pclose_3 returns what waitpid does.
Await ==
  /\ pc = "await"
  /\ Reap /\ Return(Pid[cur])
  /\ UNCHANGED <<fds, program, fd_arr>>

\* A signal interrupts waitpid before the child has ended (a killed one takes a
\* moment to).
Interrupted ==
  /\ MayInterrupt /\ pc \in {"await", "killed"}
  /\ Return(-1)
  /\ UNCHANGED <<fds, state, program, fd_arr>>

Sleep ==
  /\ pc = "sleep" /\ pc' = "poll"
  /\ now_ms' = now_ms + F!Max({max_ms \div 2, MinPause})
  /\ UNCHANGED <<fds, state, program, fd_arr, cur, max_ms, ret>>

\* waitpid without waiting, then the loop's condition.
Poll ==
  /\ pc = "poll"
  /\ \/ Reap /\ Return(0)
     \/ /\ state[cur] # "zombie" /\ Stay /\ UNCHANGED state
        /\ pc' = IF now_ms < max_ms THEN "sleep" ELSE "kill"
  /\ UNCHANGED <<fds, program, fd_arr>>

\* Fault variant: a killed child is not waited for.
Kill_NoWait ==
  /\ pc = "kill"
  /\ Return(0)
  /\ IF state[cur] = "zombie" THEN UNCHANGED <<state, fds>> ELSE Ended(cur)
  /\ UNCHANGED <<program, fd_arr>>

\* SIGKILL ends the child, unless it has ended meanwhile.
Kill ==
  /\ pc = "kill" /\ pc' = "killed"
  /\ IF state[cur] = "zombie" THEN UNCHANGED <<state, fds>> ELSE Ended(cur)
  /\ UNCHANGED <<program, fd_arr, cur, max_ms, now_ms, ret>>

AwaitKilled ==
  /\ pc = "killed"
  /\ Reap /\ Return(0)
  /\ UNCHANGED <<fds, program, fd_arr>>

\* Somebody else reaps a child that pclose_3 was told to leave.
ReapElsewhere(c) ==
  /\ pc = "idle" /\ ret[c] = 0 /\ state[c] = "zombie"
  /\ state' = [state EXCEPT ![c] = "reaped"]
  /\ UNCHANGED <<fds, program, fd_arr, pvars, ret>>

InCall ==
  ParentCloses \/ CloseFds \/ Await \/ Interrupted \/ Sleep \/ Poll \/ Kill \/ AwaitKilled

Next ==
  \/ InCall
  \/ \E c \in Child :
       \/ Popen(c) \/ PopenFails(c) \/ ChildRuns(c) \/ ChildAborts(c)
       \/ ChildEnds(c) \/ ChildExits(c) \/ ReapElsewhere(c)
       \/ \E m \in MaxMs : Pclose(c, m)
       \/ \E s \in Stream : ClientClosesStream(c, s)

Spec == Init /\ [][Next]_vars

\* Every process goes on with what it is about to do.  No child has to end
\* without a reason, no call has to fail, and no signal has to come.
FairSpec ==
  /\ Spec
  /\ WF_vars(ParentCloses \/ CloseFds \/ Await \/ Sleep \/ Poll \/ Kill \/ AwaitKilled)
  /\ \A c \in Child : WF_vars(ChildRuns(c)) /\ WF_vars(ChildEnds(c))

----------------------------------------------------------------------------
(* Properties *)

\* A running child has its pipes at its standard streams, whichever of these
\* were closed in the parent, and no way to write to its own input; its ends of
\* the pipes are held while it lives, and no longer.
StreamsAttached ==
  \A c \in Child :
    /\ state[c] = "runs" =>
         /\ \A s \in Stream : fds[c][s] = EndOf(c, s, "child")
         /\ AtAny(fds[c], Ends(c, "parent")) = {}
    /\ \A s \in Stream : state[c] \in {"forked", "runs"} <=> c \in Holders(EndOf(c, s, "child"))

\* A child is reaped once and for all: SIGKILL and the wait behind it go to one
\* that was not reaped yet, whose process id is its own, and pclose_3 leaves no
\* zombie unless it was told not to wait, or answers -1.
ReapsChild ==
  [][/\ pc \in {"kill", "killed"} => state[cur] \in {"forked", "runs", "zombie"}
     /\ pc \notin {"idle", "forked"} /\ pc' = "idle" /\ max_ms # -1 /\ ret'[cur] # -1
        => state'[cur] = "reaped"]_vars

\* Nothing leaks: when pclose_3 has returned, the parent holds no end of any of
\* the child's pipes, in whichever order children are started and closed.
NothingLeaks ==
  \A c \in Child : pc = "idle" /\ ret[c] # NoAnswer =>
    AtAny(fds[Parent], Ends(c, "parent") \cup Ends(c, "child")) = {}

\* Told to wait indefinitely, pclose_3 waits in vain for a child that stays, and
\* for one whose end of input or output a sibling keeps from it.
Stuck ==
  /\ pc = "await"
  /\ \/ program[cur] = "stays"
     \/ \E s \in {0, 1}, c \in Child \ {cur} : c \in Holders(EndOf(cur, s, "parent"))

\* Nothing else keeps popen_3 and pclose_3 from returning.
CallsReturn == []<>(pc \in {"idle", "aborted"}) \/ <>[]Stuck
=============================================================================
