------------------------------ MODULE Eprintf ------------------------------
(***************************************************************************)
(* Error reporting (util.c, the static struct S.epr): _eprintf and         *)
(* _sys_eprintf form a message in two string buffers all threads share and *)
(* hand it to the current line handler; set_eprintf_line swaps the         *)
(* handler; a failed ez_ wrapper reports and then calls abort().  One      *)
(* non-recursive mutex guards everything.                                  *)
(***************************************************************************)
EXTENDS Naturals, Sequences, FiniteSets

CONSTANTS
  Thread,
  NoThread,        \* the mutex is free
  Dflt,            \* dflt_eprintf_line, which writes to stderr
  Empty,           \* a buffer after STR_sinit
  MaxCalls,        \* bound: the calls each thread makes
  StderrMayFail    \* whether a write to stderr may fail

ASSUME ThreadAssumption ==
  NoThread \notin Thread /\ MaxCalls \in Nat /\ StderrMayFail \in BOOLEAN
\* A call is named by its thread and number; its message and, for a swap, the
\* handler it installs go by the same name.
Id == Thread \X (1..MaxCalls)
ASSUME NameAssumption == Dflt \notin Id /\ Empty \notin Id

Handler == Id \cup {Dflt}

VARIABLES
  owner,           \* S.epr.mtx
  prt_f,           \* S.epr.prt_f
  fmt_sb, msg_sb,  \* S.epr.fmt_sb and msg_sb: whose text they hold
  pc,              \* where each thread is
  fn,              \* which function it is in: "eprintf", "ez" or "set"
  calls,           \* how many calls it has started
  hdl,             \* the handler it called, or took out of S.epr.prt_f
  stderr,          \* what reached stderr: texts and newlines
  delivered,       \* the messages other handlers were given
  returned,        \* what each finished set_eprintf_line returned
  aborted          \* abort() was called

sb == <<fmt_sb, msg_sb>>
hist == <<stderr, delivered, returned>>
vars == <<owner, prt_f, sb, pc, fn, calls, hdl, hist, aborted>>

----------------------------------------------------------------------------
\* Fault variant: the static struct without its .prt_f initialiser.
Init_NullHandler ==
  /\ owner = NoThread /\ prt_f = Empty
  /\ fmt_sb = Empty /\ msg_sb = Empty
  /\ pc = [t \in Thread |-> "idle"]
  /\ fn = [t \in Thread |-> "eprintf"]
  /\ calls = [t \in Thread |-> 0]
  /\ hdl = [t \in Thread |-> Dflt]
  /\ stderr = <<>> /\ delivered = {} /\ returned = <<>>
  /\ aborted = FALSE

Init ==
  /\ owner = NoThread /\ prt_f = Dflt
  /\ fmt_sb = Empty /\ msg_sb = Empty
  /\ pc = [t \in Thread |-> "idle"]
  /\ fn = [t \in Thread |-> "eprintf"]
  /\ calls = [t \in Thread |-> 0]
  /\ hdl = [t \in Thread |-> Dflt]
  /\ stderr = <<>> /\ delivered = {} /\ returned = <<>>
  /\ aborted = FALSE

\* The call thread t is in.
id(t) == <<t, calls[t]>>

Goto(t, from, to) == ~aborted /\ pc[t] = from /\ pc' = [pc EXCEPT ![t] = to]

Wrote(kind, m) == Append(stderr, [kind |-> kind, msg |-> m])

\* Fault variant: an ez_ wrapper aborts before it reports.
Call_AbortFirst(t, f) ==
  /\ calls[t] < MaxCalls
  /\ Goto(t, "idle", IF f = "ez" THEN "abort" ELSE "lock")
  /\ fn' = [fn EXCEPT ![t] = f]
  /\ calls' = [calls EXCEPT ![t] = @ + 1]
  /\ UNCHANGED <<owner, prt_f, sb, hdl, hist, aborted>>

Call(t, f) ==
  /\ calls[t] < MaxCalls
  /\ Goto(t, "idle", "lock")
  /\ fn' = [fn EXCEPT ![t] = f]
  /\ calls' = [calls EXCEPT ![t] = @ + 1]
  /\ UNCHANGED <<owner, prt_f, sb, hdl, hist, aborted>>

\* Fault variant: nobody waits for the mutex.
Lock_NoWait(t) ==
  /\ Goto(t, "lock", IF fn[t] = "set" THEN "read" ELSE "format")
  /\ owner' = t
  /\ UNCHANGED <<prt_f, sb, fn, calls, hdl, hist, aborted>>

Lock(t) ==
  /\ owner = NoThread
  /\ Goto(t, "lock", IF fn[t] = "set" THEN "read" ELSE "format")
  /\ owner' = t
  /\ UNCHANGED <<prt_f, sb, fn, calls, hdl, hist, aborted>>

\* STR_sinit of both buffers, and the format string with its prefix or suffix.
Format(t) ==
  /\ Goto(t, "format", "expand")
  /\ fmt_sb' = id(t) /\ msg_sb' = Empty
  /\ UNCHANGED <<owner, prt_f, fn, calls, hdl, hist, aborted>>

\* The message proper, expanded from whatever fmt_sb holds.
Expand(t) ==
  /\ Goto(t, "expand", "print")
  /\ msg_sb' = fmt_sb
  /\ UNCHANGED <<owner, prt_f, fmt_sb, fn, calls, hdl, hist, aborted>>

\* Fault variant: the mutex is given back before the handler is called.
CallHandler_Unlocked(t) ==
  /\ Goto(t, "print", IF prt_f = Dflt THEN "fputs" ELSE "handler")
  /\ hdl' = [hdl EXCEPT ![t] = prt_f]
  /\ owner' = NoThread
  /\ UNCHANGED <<prt_f, sb, fn, calls, hist, aborted>>

\* The handler is called with a pointer into msg_sb.
CallHandler(t) ==
  /\ Goto(t, "print", IF prt_f = Dflt THEN "fputs" ELSE "handler")
  /\ hdl' = [hdl EXCEPT ![t] = prt_f]
  /\ UNCHANGED <<owner, prt_f, sb, fn, calls, hist, aborted>>

\* Some other handler does with the message what it does, and returns.
Handle(t) ==
  /\ Goto(t, "handler", "unlock")
  /\ delivered' = delivered \cup {msg_sb}
  /\ UNCHANGED <<owner, prt_f, sb, fn, calls, hdl, stderr, returned, aborted>>

Fputs(t) ==
  /\ Goto(t, "fputs", "fputc")
  /\ stderr' = Wrote("text", msg_sb)
  /\ UNCHANGED <<owner, prt_f, sb, fn, calls, hdl, delivered, returned, aborted>>

Fputc(t) ==
  /\ Goto(t, "fputc", "fflush")
  /\ stderr' = Wrote("newline", id(t))
  /\ UNCHANGED <<owner, prt_f, sb, fn, calls, hdl, delivered, returned, aborted>>

Fflush(t) ==
  /\ Goto(t, "fflush", "unlock")
  /\ UNCHANGED <<owner, prt_f, sb, fn, calls, hdl, hist, aborted>>

\* ez_fputs, ez_fputc or ez_fflush fails and reports that by _sys_eprintf,
\* which waits for the mutex its own thread holds: no step leaves "relock".
StderrFails(t) ==
  /\ StderrMayFail
  /\ \E from \in {"fputs", "fputc", "fflush"} : Goto(t, from, "relock")
  /\ UNCHANGED <<owner, prt_f, sb, fn, calls, hdl, hist, aborted>>

\* set_eprintf_line, between its lock and unlock
Read(t) ==
  /\ Goto(t, "read", "write")
  /\ hdl' = [hdl EXCEPT ![t] = prt_f]
  /\ UNCHANGED <<owner, prt_f, sb, fn, calls, hist, aborted>>

Write(t) ==
  /\ Goto(t, "write", "unlock")
  /\ prt_f' = id(t)
  /\ UNCHANGED <<owner, sb, fn, calls, hdl, hist, aborted>>

\* Fault variant: an ez_ wrapper returns after its report.
Unlock_NoAbort(t) ==
  /\ Goto(t, "unlock", "idle")
  /\ owner' = NoThread
  /\ returned' = IF fn[t] = "set"
                 THEN Append(returned, [by |-> id(t), old |-> hdl[t]]) ELSE returned
  /\ UNCHANGED <<prt_f, sb, fn, calls, hdl, stderr, delivered, aborted>>

Unlock(t) ==
  /\ Goto(t, "unlock", IF fn[t] = "ez" THEN "abort" ELSE "idle")
  /\ owner' = NoThread
  /\ returned' = IF fn[t] = "set"
                 THEN Append(returned, [by |-> id(t), old |-> hdl[t]]) ELSE returned
  /\ UNCHANGED <<prt_f, sb, fn, calls, hdl, stderr, delivered, aborted>>

Abort(t) ==
  /\ Goto(t, "abort", "idle")
  /\ aborted' = TRUE
  /\ UNCHANGED <<owner, prt_f, sb, fn, calls, hdl, hist>>

Step(t) ==
  \/ Lock(t) \/ Format(t) \/ Expand(t) \/ CallHandler(t) \/ Handle(t)
  \/ Fputs(t) \/ Fputc(t) \/ Fflush(t) \/ StderrFails(t)
  \/ Read(t) \/ Write(t) \/ Unlock(t) \/ Abort(t)

\* Every call returned, or the program was aborted.
Done == aborted \/ \A t \in Thread : pc[t] = "idle" /\ calls[t] = MaxCalls
Finished == Done /\ UNCHANGED vars

Next ==
  \/ \E t \in Thread : Step(t) \/ \E f \in {"eprintf", "ez", "set"} : Call(t, f)
  \/ Finished

Spec == Init /\ [][Next]_vars

\* Each thread keeps running; with finitely many calls to come, a thread that
\* waits for the mutex finds it free again and again until it gets it.
FairSpec == Spec /\ \A t \in Thread : WF_vars(Step(t))

----------------------------------------------------------------------------
(* Properties *)

Forming  == {"format", "expand", "print"}
Printing == {"fputs", "fputc", "fflush", "handler"}

\* The handler in place is always a function, and every thread is at one of
\* the places of the code named above (util.c:108-194).
TypeOK ==
  /\ owner \in Thread \cup {NoThread} /\ prt_f \in Handler
  /\ fmt_sb \in Id \cup {Empty} /\ msg_sb \in Id \cup {Empty}
  /\ pc \in [Thread -> Forming \cup Printing \cup
               {"idle", "lock", "read", "write", "unlock", "relock", "abort"}]
  /\ fn \in [Thread -> {"eprintf", "ez", "set"}]
  /\ calls \in [Thread -> 0..MaxCalls]
  /\ hdl \in [Thread -> Handler]
  /\ delivered \subseteq Id \cup {Empty}
  /\ aborted \in BOOLEAN

\* While a handler runs, the shared buffer it reads holds the message of the
\* very call that invoked it, however the other threads are interleaved.
MessageIntact == \A t \in Thread : pc[t] \in Printing => msg_sb = id(t)

\* stderr is a sequence of whole lines, each message on one line and at most
\* once: texts and newlines of two calls never mix.
LinesWhole ==
  /\ \A i \in DOMAIN stderr :
       IF i % 2 = 1 THEN stderr[i].kind = "text"
       ELSE stderr[i] = [kind |-> "newline", msg |-> stderr[i-1].msg]
  /\ \A i, j \in DOMAIN stderr :
       stderr[i] = stderr[j] => i = j

\* Once set_eprintf_line has returned a handler to its caller, no thread is
\* still running it: the caller may take its resources away.
NoStaleHandler ==
  \A i \in DOMAIN returned, t \in Thread :
    pc[t] \in Printing => hdl[t] # returned[i].old

\* Concurrent swaps form one chain: no handler is handed back twice, and the
\* one in place was handed back to nobody, so none is ever lost.
SwapsChain ==
  /\ \A i, j \in DOMAIN returned : returned[i].old = returned[j].old => i = j
  /\ \A i \in DOMAIN returned : returned[i].old # prt_f

\* A handler goes from hand to hand and is used by its holder only
\* (util.c:108-119).
SwapsSafe == NoStaleHandler /\ SwapsChain

\* abort() is called only after the message that says why got out.
ReportedBeforeAbort ==
  aborted => \E t \in Thread :
    /\ fn[t] = "ez"
    /\ \/ id(t) \in delivered
       \/ \E i \in DOMAIN stderr : stderr[i] = [kind |-> "newline", msg |-> id(t)]

\* Every report and every swap returns, and a failed ez_ call ends in abort(),
\* unless a write to stderr has failed: its thread waits for itself
\* (StderrFails), and every call after it for that thread.
CallsReturn ==
  \A t \in Thread : pc[t] # "idle" ~>
    \/ aborted
    \/ pc[t] = "idle" /\ fn[t] # "ez"
    \/ \E u \in Thread : pc[u] = "relock"

\* A failed ez_ call terminates the program (ez.h:26-29, "When an error occurs
\* a very helpful error message is printed ... and your program is terminated").
EzFailureTerminates ==
  \A t \in Thread : pc[t] # "idle" /\ fn[t] = "ez" ~> aborted
=============================================================================
