------------------------------- MODULE RotBuf -------------------------------
(***************************************************************************)
(* The functions of util.c that answer in rotating static buffers, so that *)
(* one printf() may use several of their answers.  Buffers and counts are  *)
(* each thread's own, but gmt_strftime and local_strftime pass the time    *)
(* through the one struct tm that gmtime() and localtime() fill for all.   *)
(***************************************************************************)
EXTENDS Naturals, Sequences, FiniteSets

CONSTANTS
  Thread,
  Fn,             \* the functions
  Timed,          \* gmt_strftime and local_strftime
  Fallible,       \* addrinfo_2_addr, the one other that may answer NULL
  NBufs,          \* N_BUFS of each function
  UintMod,        \* 2^32, at which a count wraps
  MaxCalls,       \* bound: the calls each thread makes of each function
  MaxFailures,    \* bound: the calls that fail
  NULL, Garbage

ASSUME FnAssumption ==
  /\ Timed \subseteq Fn /\ Fallible \subseteq Fn /\ NBufs \in [Fn -> Nat \ {0}] /\ UintMod \in Nat \ {0}
  /\ MaxCalls \in [Thread -> [Fn -> Nat]] /\ MaxFailures \in Nat
  /\ NULL \notin Fn \cup {Garbage}

VARIABLES
  count,          \* static _Thread_local unsigned count
  bufArr,         \* static _Thread_local char bufArr[N_BUFS][]
  tm,             \* the struct of gmtime() and localtime()
  doing,          \* the call each thread is in, between gmtime() and strftime()
  raced,          \* whether another thread has filled tm since
  calls,          \* how many calls there have been
  answers         \* the last N_BUFS answers of each function to each thread

vars == <<count, bufArr, tm, doing, raced, calls, answers>>

\* What is asked for in a call goes by the thread, the function and its turn.
Asked(t, f) == <<t, f, calls'[t][f]>>
Failures ==
  UNION {{<<t, f, k>> : k \in {j \in DOMAIN answers[t][f] : answers[t][f][j].shown = NULL}}
                   : t \in Thread, f \in Fn}
MayFail == Cardinality(Failures) < MaxFailures

Slot(t, f) == count'[t][f] % NBufs[f]

Keep(s, n) == IF Len(s) > n THEN Tail(s) ELSE s

Answers(t, f, shown) ==
  answers' = [answers EXCEPT ![t][f] =
    Keep(Append(@, [slot |-> Slot(t, f), asked |-> Asked(t, f), shown |-> shown]), NBufs[f])]

----------------------------------------------------------------------------
Init ==
  /\ count = [t \in Thread |-> [f \in Fn |-> 0]]
  /\ bufArr = [t \in Thread |-> [f \in Fn |-> [i \in 0..(NBufs[f] - 1) |-> Garbage]]]
  /\ tm = Garbage
  /\ doing = [t \in Thread |-> NULL] /\ raced = [t \in Thread |-> FALSE]
  /\ calls = count
  /\ answers = [t \in Thread |-> [f \in Fn |-> <<>>]]

\* Fault variant: the count is not static, and each call begins at 0.
Turn_Local(t, f) ==
  /\ doing[t] = NULL /\ calls[t][f] < MaxCalls[t][f]
  /\ calls' = [calls EXCEPT ![t][f] = @ + 1]
  /\ count' = [count EXCEPT ![t][f] = 1]

\* Every call: ++count.
Turn(t, f) ==
  /\ doing[t] = NULL /\ calls[t][f] < MaxCalls[t][f]
  /\ calls' = [calls EXCEPT ![t][f] = @ + 1]
  /\ count' = [count EXCEPT ![t][f] = (@ + 1) % UintMod]

\* A function of the thread's own data: bits2str, strbits, indentStr,
\* prefix_home, pthread_t_str, addrinfo_2_addr, anychar2str, get_tmp_fname.
Call(t, f) ==
  /\ f \notin Timed /\ Turn(t, f)
  /\ bufArr' = [bufArr EXCEPT ![t][f][Slot(t, f)] = Asked(t, f)]
  /\ Answers(t, f, Asked(t, f))
  /\ UNCHANGED <<tm, doing, raced>>

\* An address of no known family, or one that inet_ntop() refuses: the count has
\* moved on and the buffer is cleared.  (Without an address nothing happens.)
CallFails(t, f) ==
  /\ f \in Fallible \ Timed /\ MayFail /\ Turn(t, f)
  /\ bufArr' = [bufArr EXCEPT ![t][f][Slot(t, f)] = Garbage]
  /\ Answers(t, f, NULL)
  /\ UNCHANGED <<tm, doing, raced>>

\* gmtime() or localtime() fills the struct.
Gmtime(t, f) ==
  /\ f \in Timed /\ Turn(t, f)
  /\ tm' = Asked(t, f)
  /\ doing' = [doing EXCEPT ![t] = f]
  /\ raced' = [u \in Thread |-> u # t /\ doing[u] # NULL]
  /\ UNCHANGED <<bufArr, answers>>

\* Or fails, and the answer is NULL; the count has moved on.
GmtimeFails(t, f) ==
  /\ f \in Timed /\ MayFail /\ Turn(t, f)
  /\ Answers(t, f, NULL)
  /\ UNCHANGED <<bufArr, tm, doing, raced>>

\* Fault variant: strftime() is given the buffer of the call before.
Strftime_EarlierBuffer(t, f) ==
  /\ doing[t] = f /\ UNCHANGED <<count, calls>>
  /\ bufArr' = [bufArr EXCEPT ![t][f][(Slot(t, f) + NBufs[f] - 1) % NBufs[f]] = tm]
  /\ Answers(t, f, bufArr'[t][f][Slot(t, f)])
  /\ doing' = [doing EXCEPT ![t] = NULL] /\ raced' = [raced EXCEPT ![t] = FALSE]
  /\ UNCHANGED tm

\* strftime() prints what the struct holds by now; while another thread fills
\* it, some of either.
Strftime(t, f) ==
  /\ doing[t] = f /\ UNCHANGED <<count, calls>>
  /\ \E time \in {tm} \cup (IF raced[t] THEN {Garbage} ELSE {}) :
       bufArr' = [bufArr EXCEPT ![t][f][Slot(t, f)] = time] /\ Answers(t, f, time)
  /\ doing' = [doing EXCEPT ![t] = NULL] /\ raced' = [raced EXCEPT ![t] = FALSE]
  /\ UNCHANGED tm

\* Or finds it too long, and leaves anything in the buffer.
StrftimeFails(t, f) ==
  /\ doing[t] = f /\ MayFail /\ UNCHANGED <<count, calls>>
  /\ bufArr' = [bufArr EXCEPT ![t][f][Slot(t, f)] = Garbage]
  /\ Answers(t, f, NULL)
  /\ doing' = [doing EXCEPT ![t] = NULL] /\ raced' = [raced EXCEPT ![t] = FALSE]
  /\ UNCHANGED tm

Next == \E t \in Thread, f \in Fn :
  \/ Call(t, f) \/ CallFails(t, f)
  \/ Gmtime(t, f) \/ GmtimeFails(t, f) \/ Strftime(t, f) \/ StrftimeFails(t, f)

Spec == Init /\ [][Next]_vars

----------------------------------------------------------------------------
(* Properties *)

\* The answers a caller may still use: the last N_BUFS, but where N_BUFS does
\* not divide the count's range, only those since the count last wrapped.
Usable(t, f) ==
  {a \in {answers[t][f][i] : i \in DOMAIN answers[t][f]} :
     UintMod % NBufs[f] = 0 \/ a.asked[3] >= UintMod * (calls[t][f] \div UintMod)}

\* As many answers as a function has buffers can be used at once
\* (util.c:421, 459): each still reads as it was returned.
LastAnswersStand ==
  \A t \in Thread, f \in Fn : \A a \in Usable(t, f) :
    a.shown # NULL => bufArr[t][f][a.slot] = a.shown

\* What is shown is what was asked for, unless another thread has asked for a
\* time at the same moment (util.c:392, 429).
ShownAsAsked ==
  [][\A t \in Thread, f \in Fn : answers'[t][f] # answers[t][f] =>
       LET a == answers'[t][f][Len(answers'[t][f])]
       IN  a.shown \in {NULL, a.asked} \/ raced[t]]_vars
=============================================================================
