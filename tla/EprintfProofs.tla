--------------------------- MODULE EprintfProofs ---------------------------
(***************************************************************************)
(* What error reporting guarantees for every number of threads and calls.  *)
(* All of it rests on the mutex: between Lock and Unlock a thread is the   *)
(* owner, so the message it formed, and the handler it read, stay as they  *)
(* were until it is done with them.                                        *)
(***************************************************************************)
EXTENDS Eprintf, TLAPS

\* Where a thread holds S.epr.mtx.
Locked == Forming \cup Printing \cup {"read", "write", "unlock", "relock"}

Mutex == \A t \in Thread : pc[t] \in Locked <=> owner = t

\* What the owner has done to the buffers so far.
Buffers ==
  \A t \in Thread :
    /\ pc[t] = "expand" => fmt_sb = id(t)
    /\ pc[t] \in Printing => msg_sb = id(t)
    /\ pc[t] = "print" => msg_sb = id(t)

\* A handler that is, or was, in place was put there by a swap that is past
\* its write, so no swap to come bears its name.
Installed(h) ==
  h # Dflt =>
    \/ h[2] < calls[h[1]]
    \/ h[2] = calls[h[1]] /\ fn[h[1]] = "set" /\ pc[h[1]] \in {"unlock", "idle"}

\* The one in place is installed.
InPlace == Installed(prt_f)

\* The ones handed back to callers were installed, and are in place no more.
GivenBack ==
  \A i \in DOMAIN returned :
    /\ returned[i].old \in Handler /\ Installed(returned[i].old)
    /\ returned[i].old # prt_f

\* The handler a thread runs, or is about to replace, is the one in place; the
\* one it has replaced and not yet handed back is in no other hands.
InHand ==
  \A t \in Thread :
    /\ pc[t] \in Printing \cup {"write"} => hdl[t] = prt_f
    /\ pc[t] \in {"read", "write"} => fn[t] = "set"
    /\ pc[t] \in Forming \cup Printing => fn[t] # "set"
    /\ pc[t] = "unlock" /\ fn[t] = "set" =>
         /\ Installed(hdl[t]) /\ hdl[t] # prt_f
         /\ \A i \in DOMAIN returned : returned[i].old # hdl[t]

Once == \A i, j \in DOMAIN returned : returned[i].old = returned[j].old => i = j

Swaps == returned \in Seq([by : Id, old : Handler])

\* A call in progress has a number.
Started == \A t \in Thread : pc[t] # "idle" => calls[t] > 0

EInv ==
  /\ TypeOK /\ Swaps /\ Started
  /\ Mutex /\ Buffers
  /\ InPlace /\ GivenBack /\ InHand /\ Once

\* A thread in a call has a name that is an Id.
LEMMA IdType ==
  ASSUME EInv, NEW t \in Thread, pc[t] # "idle"
  PROVE  id(t) \in Id
<1>1. calls[t] \in 1..MaxCalls
  BY ThreadAssumption DEF EInv, Swaps, Started, TypeOK
<1>. QED
  BY <1>1 DEF id, Id

\* The name under which a swap is about to install its handler is fresh.
LEMMA FreshName ==
  ASSUME EInv, NEW t \in Thread, pc[t] = "write", NEW h, Installed(h)
  PROVE  h # id(t)
<1> SUFFICES ASSUME h = id(t) PROVE FALSE
  OBVIOUS
<1>1. id(t) # Dflt
  BY IdType, NameAssumption
<1>2. h[1] = t /\ h[2] = calls[t]
  BY DEF id
<1>3. calls[t] \in Nat
  BY ThreadAssumption DEF EInv, Swaps, Started, TypeOK
<1>. QED
  BY <1>1, <1>2, <1>3 DEF Installed

\* What Append does to a sequence of swaps.
LEMMA Appended ==
  ASSUME NEW R, NEW s \in Seq(R), NEW r \in R
  PROVE  /\ Append(s, r) \in Seq(R)
         /\ DOMAIN Append(s, r) = DOMAIN s \cup {Len(s) + 1}
         /\ Len(s) + 1 \notin DOMAIN s
         /\ \A i \in DOMAIN s : Append(s, r)[i] = s[i]
         /\ Append(s, r)[Len(s) + 1] = r
  OBVIOUS

\* The swap a thread finishes, and the list of swaps with it.
LEMMA Finishing ==
  ASSUME EInv, NEW t \in Thread, Unlock(t), fn[t] = "set"
  PROVE  /\ returned' \in Seq([by : Id, old : Handler])
         /\ DOMAIN returned' = DOMAIN returned \cup {Len(returned) + 1}
         /\ Len(returned) + 1 \notin DOMAIN returned
         /\ \A i \in DOMAIN returned : returned'[i] = returned[i]
         /\ returned'[Len(returned) + 1].old = hdl[t]
<1> DEFINE r == [by |-> id(t), old |-> hdl[t]]
<1>1. id(t) \in Id
  BY IdType DEF Unlock, Goto
<1>2. r \in [by : Id, old : Handler] /\ r.old = hdl[t]
  BY <1>1 DEF EInv, Swaps, Started, TypeOK
<1>3. returned' = Append(returned, r)
  BY DEF Unlock
<1>4. returned \in Seq([by : Id, old : Handler])
  BY DEF EInv, Swaps, Started
<1> HIDE DEF r
<1>. QED
  BY <1>2, <1>3, <1>4, Appended

\* Every step keeps the types.
LEMMA TypeStep ==
  ASSUME EInv, [Next]_vars
  PROVE  TypeOK'
<1> USE ThreadAssumption, NameAssumption
        DEF EInv, Swaps, Started, id, Goto, hist, sb, Id, Handler, TypeOK, Forming,
            Printing, Wrote
<1>1. ASSUME NEW t \in Thread, NEW f \in {"eprintf", "ez", "set"}, Call(t, f) PROVE TypeOK'
  BY <1>1 DEF Call
<1>2. ASSUME NEW t \in Thread, Lock(t) PROVE TypeOK'
  BY <1>2 DEF Lock
<1>3. ASSUME NEW t \in Thread, Format(t) PROVE TypeOK'
  <2>1. id(t) \in Id
    BY <1>3, IdType DEF Format
  <2>. QED
    BY <1>3, <2>1 DEF Format
<1>4. ASSUME NEW t \in Thread, Expand(t) PROVE TypeOK'
  BY <1>4 DEF Expand
<1>5. ASSUME NEW t \in Thread, CallHandler(t) PROVE TypeOK'
  BY <1>5 DEF CallHandler
<1>6. ASSUME NEW t \in Thread, Handle(t) PROVE TypeOK'
  BY <1>6 DEF Handle
<1>7. ASSUME NEW t \in Thread, Fputs(t) PROVE TypeOK'
  BY <1>7 DEF Fputs
<1>8. ASSUME NEW t \in Thread, Fputc(t) PROVE TypeOK'
  BY <1>8 DEF Fputc
<1>9. ASSUME NEW t \in Thread, Fflush(t) PROVE TypeOK'
  BY <1>9 DEF Fflush
<1>10. ASSUME NEW t \in Thread, StderrFails(t) PROVE TypeOK'
  BY <1>10 DEF StderrFails
<1>11. ASSUME NEW t \in Thread, Read(t) PROVE TypeOK'
  BY <1>11 DEF Read
<1>12. ASSUME NEW t \in Thread, Write(t) PROVE TypeOK'
  BY <1>12 DEF Write
<1>13. ASSUME NEW t \in Thread, Unlock(t) PROVE TypeOK'
  BY <1>13 DEF Unlock
<1>14. ASSUME NEW t \in Thread, Abort(t) PROVE TypeOK'
  BY <1>14 DEF Abort
<1>15. CASE UNCHANGED vars
  BY <1>15 DEF vars
<1>. QED
  BY <1>1, <1>2, <1>3, <1>4, <1>5, <1>6, <1>7, <1>8, <1>9, <1>10, <1>11, <1>12, <1>13,
     <1>14, <1>15 DEF Next, Step, Finished

\* Every step keeps the mutex with the thread that is between Lock and Unlock.
LEMMA MutexStep ==
  ASSUME EInv, [Next]_vars
  PROVE  Mutex'
<1> USE ThreadAssumption, NameAssumption
        DEF EInv, Swaps, Started, id, Goto, hist, sb, Id, Handler, TypeOK, Forming,
            Printing, Mutex, Locked
<1>1. ASSUME NEW t \in Thread, NEW f \in {"eprintf", "ez", "set"}, Call(t, f) PROVE Mutex'
  BY <1>1 DEF Call
<1>2. ASSUME NEW t \in Thread, Lock(t) PROVE Mutex'
  BY <1>2 DEF Lock
<1>3. ASSUME NEW t \in Thread, Format(t) PROVE Mutex'
  BY <1>3 DEF Format
<1>4. ASSUME NEW t \in Thread, Expand(t) PROVE Mutex'
  BY <1>4 DEF Expand
<1>5. ASSUME NEW t \in Thread, CallHandler(t) PROVE Mutex'
  BY <1>5 DEF CallHandler
<1>6. ASSUME NEW t \in Thread, Handle(t) PROVE Mutex'
  BY <1>6 DEF Handle
<1>7. ASSUME NEW t \in Thread, Fputs(t) PROVE Mutex'
  BY <1>7 DEF Fputs
<1>8. ASSUME NEW t \in Thread, Fputc(t) PROVE Mutex'
  BY <1>8 DEF Fputc
<1>9. ASSUME NEW t \in Thread, Fflush(t) PROVE Mutex'
  BY <1>9 DEF Fflush
<1>10. ASSUME NEW t \in Thread, StderrFails(t) PROVE Mutex'
  BY <1>10 DEF StderrFails
<1>11. ASSUME NEW t \in Thread, Read(t) PROVE Mutex'
  BY <1>11 DEF Read
<1>12. ASSUME NEW t \in Thread, Write(t) PROVE Mutex'
  BY <1>12 DEF Write
<1>13. ASSUME NEW t \in Thread, Unlock(t) PROVE Mutex'
  BY <1>13 DEF Unlock
<1>14. ASSUME NEW t \in Thread, Abort(t) PROVE Mutex'
  BY <1>14 DEF Abort
<1>15. CASE UNCHANGED vars
  BY <1>15 DEF vars
<1>. QED
  BY <1>1, <1>2, <1>3, <1>4, <1>5, <1>6, <1>7, <1>8, <1>9, <1>10, <1>11, <1>12, <1>13,
     <1>14, <1>15 DEF Next, Step, Finished

\* Every step keeps the owner's text in the buffers: only the owner writes them.
LEMMA BuffersStep ==
  ASSUME EInv, [Next]_vars
  PROVE  Buffers'
<1> USE ThreadAssumption, NameAssumption
        DEF EInv, Swaps, Started, id, Goto, hist, sb, Id, Handler, TypeOK, Forming,
            Printing, Mutex, Locked, Buffers
<1>1. ASSUME NEW t \in Thread, NEW f \in {"eprintf", "ez", "set"}, Call(t, f) PROVE Buffers'
  BY <1>1 DEF Call
<1>2. ASSUME NEW t \in Thread, Lock(t) PROVE Buffers'
  BY <1>2 DEF Lock
<1>3. ASSUME NEW t \in Thread, Format(t) PROVE Buffers'
  BY <1>3 DEF Format
<1>4. ASSUME NEW t \in Thread, Expand(t) PROVE Buffers'
  BY <1>4 DEF Expand
<1>5. ASSUME NEW t \in Thread, CallHandler(t) PROVE Buffers'
  BY <1>5 DEF CallHandler
<1>6. ASSUME NEW t \in Thread, Handle(t) PROVE Buffers'
  BY <1>6 DEF Handle
<1>7. ASSUME NEW t \in Thread, Fputs(t) PROVE Buffers'
  BY <1>7 DEF Fputs
<1>8. ASSUME NEW t \in Thread, Fputc(t) PROVE Buffers'
  BY <1>8 DEF Fputc
<1>9. ASSUME NEW t \in Thread, Fflush(t) PROVE Buffers'
  BY <1>9 DEF Fflush
<1>10. ASSUME NEW t \in Thread, StderrFails(t) PROVE Buffers'
  BY <1>10 DEF StderrFails
<1>11. ASSUME NEW t \in Thread, Read(t) PROVE Buffers'
  BY <1>11 DEF Read
<1>12. ASSUME NEW t \in Thread, Write(t) PROVE Buffers'
  BY <1>12 DEF Write
<1>13. ASSUME NEW t \in Thread, Unlock(t) PROVE Buffers'
  BY <1>13 DEF Unlock
<1>14. ASSUME NEW t \in Thread, Abort(t) PROVE Buffers'
  BY <1>14 DEF Abort
<1>15. CASE UNCHANGED vars
  BY <1>15 DEF vars
<1>. QED
  BY <1>1, <1>2, <1>3, <1>4, <1>5, <1>6, <1>7, <1>8, <1>9, <1>10, <1>11, <1>12, <1>13,
     <1>14, <1>15 DEF Next, Step, Finished

\* Every step keeps the handler in place a properly installed one.
LEMMA InPlaceStep ==
  ASSUME EInv, [Next]_vars
  PROVE  InPlace'
<1> USE ThreadAssumption, NameAssumption
        DEF EInv, Swaps, Started, id, Goto, hist, sb, Id, Handler, TypeOK, Forming,
            Printing, Mutex, Locked, InPlace, GivenBack, InHand, Once, Installed
<1>1. ASSUME NEW t \in Thread, NEW f \in {"eprintf", "ez", "set"}, Call(t, f) PROVE InPlace'
  BY <1>1 DEF Call
<1>2. ASSUME NEW t \in Thread, Lock(t) PROVE InPlace'
  BY <1>2 DEF Lock
<1>3. ASSUME NEW t \in Thread, Format(t) PROVE InPlace'
  BY <1>3 DEF Format
<1>4. ASSUME NEW t \in Thread, Expand(t) PROVE InPlace'
  BY <1>4 DEF Expand
<1>5. ASSUME NEW t \in Thread, CallHandler(t) PROVE InPlace'
  BY <1>5 DEF CallHandler
<1>6. ASSUME NEW t \in Thread, Handle(t) PROVE InPlace'
  BY <1>6 DEF Handle
<1>7. ASSUME NEW t \in Thread, Fputs(t) PROVE InPlace'
  BY <1>7 DEF Fputs
<1>8. ASSUME NEW t \in Thread, Fputc(t) PROVE InPlace'
  BY <1>8 DEF Fputc
<1>9. ASSUME NEW t \in Thread, Fflush(t) PROVE InPlace'
  BY <1>9 DEF Fflush
<1>10. ASSUME NEW t \in Thread, StderrFails(t) PROVE InPlace'
  BY <1>10 DEF StderrFails
<1>11. ASSUME NEW t \in Thread, Read(t) PROVE InPlace'
  BY <1>11 DEF Read
<1>12. ASSUME NEW t \in Thread, Write(t) PROVE InPlace'
  BY <1>12 DEF Write
<1>13. ASSUME NEW t \in Thread, Unlock(t) PROVE InPlace'
  BY <1>13 DEF Unlock
<1>14. ASSUME NEW t \in Thread, Abort(t) PROVE InPlace'
  BY <1>14 DEF Abort
<1>15. CASE UNCHANGED vars
  BY <1>15 DEF vars
<1>. QED
  BY <1>1, <1>2, <1>3, <1>4, <1>5, <1>6, <1>7, <1>8, <1>9, <1>10, <1>11, <1>12, <1>13,
     <1>14, <1>15 DEF Next, Step, Finished

\* Every step keeps the handlers that were handed back out of place.
LEMMA GivenBackStep ==
  ASSUME EInv, [Next]_vars
  PROVE  GivenBack'
<1> USE ThreadAssumption, NameAssumption
        DEF EInv, Swaps, Started, id, Goto, hist, sb, Id, Handler, TypeOK, Forming,
            Printing, Mutex, Locked, InPlace, GivenBack, InHand, Once, Installed
<1>1. ASSUME NEW t \in Thread, NEW f \in {"eprintf", "ez", "set"}, Call(t, f) PROVE GivenBack'
  BY <1>1 DEF Call
<1>2. ASSUME NEW t \in Thread, Lock(t) PROVE GivenBack'
  BY <1>2 DEF Lock
<1>3. ASSUME NEW t \in Thread, Format(t) PROVE GivenBack'
  BY <1>3 DEF Format
<1>4. ASSUME NEW t \in Thread, Expand(t) PROVE GivenBack'
  BY <1>4 DEF Expand
<1>5. ASSUME NEW t \in Thread, CallHandler(t) PROVE GivenBack'
  BY <1>5 DEF CallHandler
<1>6. ASSUME NEW t \in Thread, Handle(t) PROVE GivenBack'
  BY <1>6 DEF Handle
<1>7. ASSUME NEW t \in Thread, Fputs(t) PROVE GivenBack'
  BY <1>7 DEF Fputs
<1>8. ASSUME NEW t \in Thread, Fputc(t) PROVE GivenBack'
  BY <1>8 DEF Fputc
<1>9. ASSUME NEW t \in Thread, Fflush(t) PROVE GivenBack'
  BY <1>9 DEF Fflush
<1>10. ASSUME NEW t \in Thread, StderrFails(t) PROVE GivenBack'
  BY <1>10 DEF StderrFails
<1>11. ASSUME NEW t \in Thread, Read(t) PROVE GivenBack'
  BY <1>11 DEF Read
<1>12. ASSUME NEW t \in Thread, Write(t) PROVE GivenBack'
  <2>1. returned' = returned /\ prt_f' = id(t) /\ pc[t] = "write" /\ pc'[t] = "unlock"
    BY <1>12 DEF Write
  <2> SUFFICES ASSUME NEW i \in DOMAIN returned
               PROVE  /\ returned[i].old \in Handler /\ Installed(returned[i].old)'
                      /\ returned[i].old # prt_f'
    BY <2>1
  <2>2. returned[i].old \in Handler /\ Installed(returned[i].old)
    OBVIOUS
  <2>3. returned[i].old # id(t)
    BY <2>1, <2>2, FreshName
  <2>4. Installed(returned[i].old)'
    BY <1>12, <2>1, <2>2 DEF Write
  <2>. QED
    BY <2>1, <2>2, <2>3, <2>4
<1>13. ASSUME NEW t \in Thread, Unlock(t) PROVE GivenBack'
  <2>1. CASE fn[t] # "set"
    BY <1>13, <2>1 DEF Unlock
  <2>2. CASE fn[t] = "set"
    <3>1. /\ DOMAIN returned' = DOMAIN returned \cup {Len(returned) + 1}
          /\ Len(returned) + 1 \notin DOMAIN returned
          /\ \A i \in DOMAIN returned : returned'[i] = returned[i]
          /\ returned'[Len(returned) + 1].old = hdl[t]
      BY <1>13, <2>2, Finishing
    <3>2. /\ \A h : Installed(h) => (h # Dflt =>
               \/ h[2] < calls'[h[1]]
               \/ h[2] = calls'[h[1]] /\ fn'[h[1]] = "set" /\ pc'[h[1]] \in {"unlock", "idle"})
          /\ prt_f' = prt_f
      BY <1>13, <2>2 DEF Unlock
    <3>3. hdl[t] \in Handler /\ Installed(hdl[t]) /\ hdl[t] # prt_f
      BY <1>13, <2>2 DEF Unlock
    <3> SUFFICES ASSUME NEW i \in DOMAIN returned'
                 PROVE  (/\ returned[i].old \in Handler /\ Installed(returned[i].old)
                         /\ returned[i].old # prt_f)'
      OBVIOUS
    <3>4. CASE i \in DOMAIN returned
      <4>1. /\ returned[i].old \in Handler /\ Installed(returned[i].old)
            /\ returned[i].old # prt_f
        BY <3>4
      <4>2. returned'[i].old = returned[i].old
        BY <3>1, <3>4
      <4>3. PICK o : o = returned[i].old
        OBVIOUS
      <4>4. o \in Handler /\ Installed(o) /\ o # prt_f
        BY <4>1, <4>3
      <4>5. returned'[i].old = o
        BY <4>2, <4>3
      <4>6. o # Dflt =>
               \/ o[2] < calls'[o[1]]
               \/ o[2] = calls'[o[1]] /\ fn'[o[1]] = "set" /\ pc'[o[1]] \in {"unlock", "idle"}
        BY <3>2, <4>4
      <4>. QED
        BY <3>2, <4>4, <4>5, <4>6
    <3>5. CASE i = Len(returned) + 1
      <4>1. PICK o : o = hdl[t]
        OBVIOUS
      <4>2. o \in Handler /\ Installed(o) /\ o # prt_f
        BY <3>3, <4>1
      <4>3. returned'[i].old = o
        BY <3>1, <3>5, <4>1
      <4>4. o # Dflt =>
               \/ o[2] < calls'[o[1]]
               \/ o[2] = calls'[o[1]] /\ fn'[o[1]] = "set" /\ pc'[o[1]] \in {"unlock", "idle"}
        BY <3>2, <4>2
      <4>. QED
        BY <3>2, <4>2, <4>3, <4>4
    <3>. QED
      BY <3>1, <3>4, <3>5
  <2>. QED
    BY <2>1, <2>2
<1>14. ASSUME NEW t \in Thread, Abort(t) PROVE GivenBack'
  BY <1>14 DEF Abort
<1>15. CASE UNCHANGED vars
  BY <1>15 DEF vars
<1>. QED
  BY <1>1, <1>2, <1>3, <1>4, <1>5, <1>6, <1>7, <1>8, <1>9, <1>10, <1>11, <1>12, <1>13,
     <1>14, <1>15 DEF Next, Step, Finished

\* Every step keeps what a thread took out of prt_f in its own hands.
LEMMA InHandStep ==
  ASSUME EInv, [Next]_vars
  PROVE  InHand'
<1> USE ThreadAssumption, NameAssumption
        DEF EInv, Swaps, Started, id, Goto, hist, sb, Id, Handler, TypeOK, Forming,
            Printing, Mutex, Locked, InPlace, GivenBack, InHand, Once, Installed
<1>1. ASSUME NEW t \in Thread, NEW f \in {"eprintf", "ez", "set"}, Call(t, f) PROVE InHand'
  BY <1>1 DEF Call
<1>2. ASSUME NEW t \in Thread, Lock(t) PROVE InHand'
  BY <1>2 DEF Lock
<1>3. ASSUME NEW t \in Thread, Format(t) PROVE InHand'
  BY <1>3 DEF Format
<1>4. ASSUME NEW t \in Thread, Expand(t) PROVE InHand'
  BY <1>4 DEF Expand
<1>5. ASSUME NEW t \in Thread, CallHandler(t) PROVE InHand'
  BY <1>5 DEF CallHandler
<1>6. ASSUME NEW t \in Thread, Handle(t) PROVE InHand'
  BY <1>6 DEF Handle
<1>7. ASSUME NEW t \in Thread, Fputs(t) PROVE InHand'
  BY <1>7 DEF Fputs
<1>8. ASSUME NEW t \in Thread, Fputc(t) PROVE InHand'
  BY <1>8 DEF Fputc
<1>9. ASSUME NEW t \in Thread, Fflush(t) PROVE InHand'
  BY <1>9 DEF Fflush
<1>10. ASSUME NEW t \in Thread, StderrFails(t) PROVE InHand'
  BY <1>10 DEF StderrFails
<1>11. ASSUME NEW t \in Thread, Read(t) PROVE InHand'
  BY <1>11 DEF Read
<1>12. ASSUME NEW t \in Thread, Write(t) PROVE InHand'
  <2>1. /\ returned' = returned /\ prt_f' = id(t) /\ hdl' = hdl /\ fn' = fn
        /\ pc[t] = "write" /\ pc' = [pc EXCEPT ![t] = "unlock"]
    BY <1>12 DEF Write
  <2>2. \A u \in Thread \ {t} : pc'[u] \notin Printing \cup {"read", "write", "unlock"}
    BY <2>1
  <2>3. /\ hdl[t] = prt_f /\ fn[t] = "set"
        /\ \A i \in DOMAIN returned : returned[i].old # hdl[t]
    BY <2>1
  <2>4. Installed(hdl[t])'
    BY <1>12, <2>1, <2>3 DEF Write
  <2>5. hdl[t] # prt_f'
    BY <2>1, <2>3, FreshName
  <2>6. \A u \in Thread \ {t} : pc'[u] \in Forming => fn'[u] # "set"
    BY <2>1
  <2>7. pc'[t] = "unlock"
    BY <2>1
  <2>. QED
    BY <2>1, <2>2, <2>3, <2>4, <2>5, <2>6, <2>7
<1>13. ASSUME NEW t \in Thread, Unlock(t) PROVE InHand'
  <2>1. CASE fn[t] # "set"
    BY <1>13, <2>1 DEF Unlock
  <2>2. CASE fn[t] = "set"
    <3>1. /\ DOMAIN returned' = DOMAIN returned \cup {Len(returned) + 1}
          /\ Len(returned) + 1 \notin DOMAIN returned
          /\ \A i \in DOMAIN returned : returned'[i] = returned[i]
          /\ returned'[Len(returned) + 1].old = hdl[t]
      BY <1>13, <2>2, Finishing
    <3>. QED
      BY <1>13, <2>2, <3>1 DEF Unlock
  <2>. QED
    BY <2>1, <2>2
<1>14. ASSUME NEW t \in Thread, Abort(t) PROVE InHand'
  BY <1>14 DEF Abort
<1>15. CASE UNCHANGED vars
  BY <1>15 DEF vars
<1>. QED
  BY <1>1, <1>2, <1>3, <1>4, <1>5, <1>6, <1>7, <1>8, <1>9, <1>10, <1>11, <1>12, <1>13,
     <1>14, <1>15 DEF Next, Step, Finished

\* Every step keeps the handlers handed back distinct.
LEMMA OnceStep ==
  ASSUME EInv, [Next]_vars
  PROVE  Once'
<1> USE ThreadAssumption, NameAssumption
        DEF EInv, Swaps, Started, id, Goto, hist, sb, Id, Handler, TypeOK, Forming,
            Printing, Mutex, Locked, InPlace, GivenBack, InHand, Once, Installed
<1>1. ASSUME NEW t \in Thread, NEW f \in {"eprintf", "ez", "set"}, Call(t, f) PROVE Once'
  BY <1>1 DEF Call
<1>2. ASSUME NEW t \in Thread, Lock(t) PROVE Once'
  BY <1>2 DEF Lock
<1>3. ASSUME NEW t \in Thread, Format(t) PROVE Once'
  BY <1>3 DEF Format
<1>4. ASSUME NEW t \in Thread, Expand(t) PROVE Once'
  BY <1>4 DEF Expand
<1>5. ASSUME NEW t \in Thread, CallHandler(t) PROVE Once'
  BY <1>5 DEF CallHandler
<1>6. ASSUME NEW t \in Thread, Handle(t) PROVE Once'
  BY <1>6 DEF Handle
<1>7. ASSUME NEW t \in Thread, Fputs(t) PROVE Once'
  BY <1>7 DEF Fputs
<1>8. ASSUME NEW t \in Thread, Fputc(t) PROVE Once'
  BY <1>8 DEF Fputc
<1>9. ASSUME NEW t \in Thread, Fflush(t) PROVE Once'
  BY <1>9 DEF Fflush
<1>10. ASSUME NEW t \in Thread, StderrFails(t) PROVE Once'
  BY <1>10 DEF StderrFails
<1>11. ASSUME NEW t \in Thread, Read(t) PROVE Once'
  BY <1>11 DEF Read
<1>12. ASSUME NEW t \in Thread, Write(t) PROVE Once'
  BY <1>12 DEF Write
<1>13. ASSUME NEW t \in Thread, Unlock(t) PROVE Once'
  <2>1. CASE fn[t] # "set"
    BY <1>13, <2>1 DEF Unlock
  <2>2. CASE fn[t] = "set"
    <3>1. /\ DOMAIN returned' = DOMAIN returned \cup {Len(returned) + 1}
          /\ Len(returned) + 1 \notin DOMAIN returned
          /\ \A i \in DOMAIN returned : returned'[i] = returned[i]
          /\ returned'[Len(returned) + 1].old = hdl[t]
      BY <1>13, <2>2, Finishing
    <3>. QED
      BY <1>13, <2>2, <3>1 DEF Unlock
  <2>. QED
    BY <2>1, <2>2
<1>14. ASSUME NEW t \in Thread, Abort(t) PROVE Once'
  BY <1>14 DEF Abort
<1>15. CASE UNCHANGED vars
  BY <1>15 DEF vars
<1>. QED
  BY <1>1, <1>2, <1>3, <1>4, <1>5, <1>6, <1>7, <1>8, <1>9, <1>10, <1>11, <1>12, <1>13,
     <1>14, <1>15 DEF Next, Step, Finished

\* Every step keeps the numbers of the calls in progress.
LEMMA StartedStep ==
  ASSUME EInv, [Next]_vars
  PROVE  Started'
<1> USE ThreadAssumption, NameAssumption
        DEF EInv, Swaps, Started, id, Goto, hist, sb, Id, Handler, TypeOK, Forming, Printing
<1>1. ASSUME NEW t \in Thread, NEW f \in {"eprintf", "ez", "set"}, Call(t, f) PROVE Started'
  BY <1>1 DEF Call
<1>2. ASSUME NEW t \in Thread, Lock(t) PROVE Started'
  BY <1>2 DEF Lock
<1>3. ASSUME NEW t \in Thread, Format(t) PROVE Started'
  BY <1>3 DEF Format
<1>4. ASSUME NEW t \in Thread, Expand(t) PROVE Started'
  BY <1>4 DEF Expand
<1>5. ASSUME NEW t \in Thread, CallHandler(t) PROVE Started'
  BY <1>5 DEF CallHandler
<1>6. ASSUME NEW t \in Thread, Handle(t) PROVE Started'
  BY <1>6 DEF Handle
<1>7. ASSUME NEW t \in Thread, Fputs(t) PROVE Started'
  BY <1>7 DEF Fputs
<1>8. ASSUME NEW t \in Thread, Fputc(t) PROVE Started'
  BY <1>8 DEF Fputc
<1>9. ASSUME NEW t \in Thread, Fflush(t) PROVE Started'
  BY <1>9 DEF Fflush
<1>10. ASSUME NEW t \in Thread, StderrFails(t) PROVE Started'
  BY <1>10 DEF StderrFails
<1>11. ASSUME NEW t \in Thread, Read(t) PROVE Started'
  BY <1>11 DEF Read
<1>12. ASSUME NEW t \in Thread, Write(t) PROVE Started'
  BY <1>12 DEF Write
<1>13. ASSUME NEW t \in Thread, Unlock(t) PROVE Started'
  BY <1>13 DEF Unlock
<1>14. ASSUME NEW t \in Thread, Abort(t) PROVE Started'
  BY <1>14 DEF Abort
<1>15. CASE UNCHANGED vars
  BY <1>15 DEF vars
<1>. QED
  BY <1>1, <1>2, <1>3, <1>4, <1>5, <1>6, <1>7, <1>8, <1>9, <1>10, <1>11, <1>12, <1>13,
     <1>14, <1>15 DEF Next, Step, Finished

\* Every step keeps the list of swaps a list of swaps.
LEMMA SwapsStep ==
  ASSUME EInv, [Next]_vars
  PROVE  Swaps'
<1> USE ThreadAssumption, NameAssumption
        DEF EInv, Swaps, Started, id, Goto, hist, sb, Id, Handler, TypeOK
<1>1. ASSUME NEW t \in Thread, NEW f \in {"eprintf", "ez", "set"}, Call(t, f) PROVE Swaps'
  BY <1>1 DEF Call
<1>2. ASSUME NEW t \in Thread, Lock(t) PROVE Swaps'
  BY <1>2 DEF Lock
<1>3. ASSUME NEW t \in Thread, Format(t) PROVE Swaps'
  BY <1>3 DEF Format
<1>4. ASSUME NEW t \in Thread, Expand(t) PROVE Swaps'
  BY <1>4 DEF Expand
<1>5. ASSUME NEW t \in Thread, CallHandler(t) PROVE Swaps'
  BY <1>5 DEF CallHandler
<1>6. ASSUME NEW t \in Thread, Handle(t) PROVE Swaps'
  BY <1>6 DEF Handle
<1>7. ASSUME NEW t \in Thread, Fputs(t) PROVE Swaps'
  BY <1>7 DEF Fputs
<1>8. ASSUME NEW t \in Thread, Fputc(t) PROVE Swaps'
  BY <1>8 DEF Fputc
<1>9. ASSUME NEW t \in Thread, Fflush(t) PROVE Swaps'
  BY <1>9 DEF Fflush
<1>10. ASSUME NEW t \in Thread, StderrFails(t) PROVE Swaps'
  BY <1>10 DEF StderrFails
<1>11. ASSUME NEW t \in Thread, Read(t) PROVE Swaps'
  BY <1>11 DEF Read
<1>12. ASSUME NEW t \in Thread, Write(t) PROVE Swaps'
  BY <1>12 DEF Write
<1>13. ASSUME NEW t \in Thread, Unlock(t) PROVE Swaps'
  <2>1. CASE fn[t] # "set"
    BY <1>13, <2>1 DEF Unlock
  <2>2. CASE fn[t] = "set"
    BY <1>13, <2>2, Finishing
  <2>. QED
    BY <2>1, <2>2
<1>14. ASSUME NEW t \in Thread, Abort(t) PROVE Swaps'
  BY <1>14 DEF Abort
<1>15. CASE UNCHANGED vars
  BY <1>15 DEF vars
<1> HIDE DEF EInv, Swaps, TypeOK
<1>. QED
  BY <1>1, <1>2, <1>3, <1>4, <1>5, <1>6, <1>7, <1>8, <1>9, <1>10, <1>11, <1>12, <1>13,
     <1>14, <1>15 DEF Next, Step, Finished

----------------------------------------------------------------------------
(* The theorems *)

\* The invariant holds at the start.
LEMMA EInvInit ==
  ASSUME Init
  PROVE  EInv
<1> USE ThreadAssumption, NameAssumption
        DEF Init, EInv, TypeOK, Swaps, Started, Mutex, Buffers, InPlace, GivenBack, InHand,
           Once,
            Installed, Locked, Forming, Printing, Handler
<1>1. TypeOK
  <2>1. /\ prt_f \in Handler /\ hdl \in [Thread -> Handler]
        /\ owner \in Thread \cup {NoThread}
    OBVIOUS
  <2>2. calls \in [Thread -> 0..MaxCalls]
    OBVIOUS
  <2>3. /\ pc \in [Thread -> Forming \cup Printing \cup
                 {"idle", "lock", "read", "write", "unlock", "relock", "abort"}]
        /\ fn \in [Thread -> {"eprintf", "ez", "set"}]
    OBVIOUS
  <2>4. /\ fmt_sb \in Id \cup {Empty} /\ msg_sb \in Id \cup {Empty}
        /\ delivered \subseteq Id \cup {Empty} /\ aborted \in BOOLEAN
    OBVIOUS
  <2>. QED
    BY <2>1, <2>2, <2>3, <2>4
<1>4. Started
  OBVIOUS
<1>2. Mutex /\ Buffers /\ InPlace
  OBVIOUS
<1>3. Swaps /\ GivenBack /\ InHand /\ Once
  OBVIOUS
<1>. QED
  BY <1>1, <1>2, <1>3, <1>4

\* The inductive invariant holds in every reachable state.
THEOREM ReportingInvariant == Spec => []EInv
<1>1. ASSUME EInv, [Next]_vars PROVE EInv'
  BY <1>1, TypeStep, SwapsStep, StartedStep, MutexStep, BuffersStep,
     InPlaceStep, GivenBackStep, InHandStep, OnceStep DEF EInv
<1>. QED
  BY EInvInit, <1>1, PTL DEF Spec

\* The shared state keeps its types for any number of threads.
THEOREM TypeCorrect == Spec => []TypeOK
<1>1. EInv => TypeOK
  BY DEF EInv
<1>. QED
  BY <1>1, ReportingInvariant, PTL

\* No thread disturbs a message while a handler reads it (util.c:150, :191).
THEOREM MessagesStayIntact == Spec => []MessageIntact
<1>1. EInv => MessageIntact
  BY DEF EInv, Buffers, MessageIntact
<1>. QED
  BY <1>1, ReportingInvariant, PTL

\* A handler handed back by set_eprintf_line runs in no thread (util.c:108-119).
THEOREM HandlersRetire == Spec => []NoStaleHandler
<1>1. EInv => NoStaleHandler
  BY DEF EInv, GivenBack, InHand, NoStaleHandler
<1>. QED
  BY <1>1, ReportingInvariant, PTL

\* Swaps of the handler by any number of threads form one chain.
THEOREM SwapsFormAChain == Spec => []SwapsChain
<1>1. EInv => SwapsChain
  BY DEF EInv, GivenBack, Once, SwapsChain
<1>. QED
  BY <1>1, ReportingInvariant, PTL

\* Together: a handler is used by its holder only.
THEOREM SwapsStaySafe == Spec => []SwapsSafe
<1>1. NoStaleHandler /\ SwapsChain => SwapsSafe
  BY DEF SwapsSafe
<1>. QED
  BY <1>1, HandlersRetire, SwapsFormAChain, PTL

----------------------------------------------------------------------------
(* What reaches stderr.  The invariant says how long the text is at each   *)
(* point of a call, and that a message in it belongs to a call that is far *)
(* enough.                                                                 *)

Entry == [kind : {"text", "newline"}, msg : Id]

Paired ==
  \A i \in DOMAIN stderr :
    IF i % 2 = 1 THEN stderr[i].kind = "text"
    ELSE stderr[i] = [kind |-> "newline", msg |-> stderr[i-1].msg]

\* Outside a line, the lines so far are whole.
Closed ==
  (\A t \in Thread : pc[t] \notin {"fputc", "relock"}) => Len(stderr) % 2 = 0

\* Inside one, the text of the thread that holds the mutex is all there is of it.
Open ==
  \A t \in Thread :
    pc[t] = "fputc" => Len(stderr) % 2 = 1 /\ stderr[Len(stderr)].msg = id(t)

\* What a call has yet to write is not there.
NotYet ==
  \A i \in DOMAIN stderr : \A t \in Thread :
    /\ stderr[i].msg[1] = t => stderr[i].msg[2] <= calls[t]
    /\ stderr[i].msg = id(t) =>
         /\ pc[t] \notin Forming \cup {"lock", "fputs"}
         /\ pc[t] = "fputc" => stderr[i].kind = "text"

Distinct == \A i, j \in DOMAIN stderr : stderr[i] = stderr[j] => i = j

Reported(t) ==
  \/ id(t) \in delivered
  \/ \E i \in DOMAIN stderr : stderr[i] = [kind |-> "newline", msg |-> id(t)]

\* A call past its handler has its report out.
ReportedInTime ==
  \A t \in Thread :
    /\ pc[t] \in {"fflush", "abort"} \/ (pc[t] = "unlock" /\ fn[t] = "ez") => Reported(t)
    /\ pc[t] = "abort" => fn[t] = "ez"

LInv ==
  /\ stderr \in Seq(Entry)
  /\ Paired /\ Closed /\ Open /\ NotYet /\ Distinct
  /\ ReportedInTime /\ ReportedBeforeAbort

\* What a write to stderr adds, by the call that holds the mutex.
LEMMA Writing ==
  ASSUME EInv, LInv, NEW t \in Thread, Fputs(t) \/ Fputc(t),
         NEW kind \in {"text", "newline"},
         kind = (IF pc[t] = "fputs" THEN "text" ELSE "newline")
  PROVE  /\ stderr' \in Seq(Entry)
         /\ Len(stderr) \in Nat /\ Len(stderr') = Len(stderr) + 1
         /\ DOMAIN stderr = 1..Len(stderr)
         /\ DOMAIN stderr' = DOMAIN stderr \cup {Len(stderr) + 1}
         /\ \A i \in DOMAIN stderr : stderr'[i] = stderr[i]
         /\ stderr'[Len(stderr) + 1] = [kind |-> kind, msg |-> id(t)]
<1> DEFINE e == [kind |-> kind, msg |-> id(t)]
<1>1. id(t) \in Id
  BY IdType DEF Fputs, Fputc, Goto
<1>2. stderr' = Append(stderr, e)
  BY DEF Fputs, Fputc, Wrote, Goto, EInv, Buffers, Printing
<1>3. e \in Entry
  BY <1>1 DEF Entry
<1>4. stderr \in Seq(Entry)
  BY DEF LInv
<1>5. Len(stderr) \in Nat /\ DOMAIN stderr = 1..Len(stderr) /\ Len(Append(stderr, e)) =
   Len(stderr) + 1
  BY <1>4
<1> HIDE DEF e
<1>6. /\ stderr' \in Seq(Entry)
      /\ DOMAIN stderr' = DOMAIN stderr \cup {Len(stderr) + 1}
      /\ \A i \in DOMAIN stderr : stderr'[i] = stderr[i]
      /\ stderr'[Len(stderr) + 1] = e
  BY <1>2, <1>3, <1>4, Appended
<1>. QED
  BY <1>2, <1>5, <1>6 DEF e

\* Only two steps write to stderr.
LEMMA Writers ==
  ASSUME [Next]_vars
  PROVE  stderr' = stderr \/ \E t \in Thread : Fputs(t) \/ Fputc(t)
<1>1. CASE UNCHANGED vars
  BY <1>1 DEF vars, hist
<1>2. ASSUME NEW t \in Thread, Step(t)
      PROVE  stderr' = stderr \/ Fputs(t) \/ Fputc(t)
  BY <1>2 DEF Step, Lock, Format, Expand, CallHandler, Handle, Fflush, StderrFails,
              Read, Write, Unlock, Abort, hist
<1>3. ASSUME NEW t \in Thread, NEW f \in {"eprintf", "ez", "set"}, Call(t, f)
      PROVE  stderr' = stderr
  BY <1>3 DEF Call, hist
<1>. QED
  BY <1>1, <1>2, <1>3 DEF Next, Finished

\* Even and odd numbers alternate.
LEMMA Parity ==
  ASSUME NEW n \in Nat
  PROVE  /\ n % 2 = 0 => (n + 1) % 2 = 1
         /\ n % 2 = 1 => (n + 1) % 2 = 0 /\ n \in 1..n
         /\ n % 2 \in {0, 1}
  OBVIOUS

\* Before its text, the thread that holds the mutex finds whole lines.
LEMMA WholeBefore ==
  ASSUME EInv, LInv, NEW t \in Thread, pc[t] = "fputs"
  PROVE  Len(stderr) % 2 = 0
<1>1. owner = t
  BY DEF EInv, Mutex, Locked, Printing
<1>2. \A u \in Thread : pc[u] \notin {"fputc", "relock"}
  BY <1>1 DEF EInv, Mutex, Locked, Printing
<1>. QED
  BY <1>2 DEF LInv, Closed

\* A message that was there is not the one the thread is about to write.
LEMMA NewEntry ==
  ASSUME EInv, LInv, NEW t \in Thread, pc[t] \in {"fputs", "fputc"},
         NEW i \in DOMAIN stderr
  PROVE  stderr[i] # [kind |-> IF pc[t] = "fputs" THEN "text" ELSE "newline", msg |-> id(t)]
<1>1. CASE stderr[i].msg = id(t)
  <2>1. pc[t] = "fputc" /\ stderr[i].kind = "text"
    BY <1>1 DEF LInv, NotYet
  <2>. QED
    BY <2>1
<1>2. CASE stderr[i].msg # id(t)
  BY <1>2
<1>. QED
  BY <1>1, <1>2

\* Every step keeps each newline behind the text it ends.
LEMMA PairedStep ==
  ASSUME EInv, LInv, [Next]_vars
  PROVE  Paired'
<1>1. CASE stderr' = stderr
  BY <1>1 DEF LInv, Paired
<1>2. ASSUME NEW t \in Thread, Fputs(t) \/ Fputc(t) PROVE Paired'
  <2> DEFINE n == Len(stderr)
             k == IF pc[t] = "fputs" THEN "text" ELSE "newline"
  <2>0. k \in {"text", "newline"}
    OBVIOUS
  <2>1. /\ n \in Nat /\ DOMAIN stderr = 1..n /\ DOMAIN stderr' = DOMAIN stderr \cup {n + 1}
        /\ \A i \in DOMAIN stderr : stderr'[i] = stderr[i]
        /\ stderr'[n + 1] = [kind |-> k, msg |-> id(t)]
    BY <1>2, <2>0, Writing
  <2>2. IF pc[t] = "fputs" THEN n % 2 = 0
        ELSE n % 2 = 1 /\ stderr[n].msg = id(t)
    BY <1>2, WholeBefore DEF Fputs, Fputc, Goto, LInv, Open
  <2> SUFFICES ASSUME NEW i \in DOMAIN stderr'
               PROVE  IF i % 2 = 1 THEN stderr'[i].kind = "text"
                      ELSE stderr'[i] = [kind |-> "newline", msg |-> stderr'[i-1].msg]
    BY DEF Paired
  <2> HIDE DEF n
  <2>3. CASE i \in DOMAIN stderr
    <3>1. i \in Nat /\ i # 0 /\ (i % 2 # 1 => i - 1 \in DOMAIN stderr)
      BY <2>1, <2>3
    <3>. QED
      BY <2>1, <2>3, <3>1 DEF LInv, Paired
  <2>4. CASE i = n + 1
    <3>1. n % 2 = 0 => i % 2 = 1
      BY <2>1, <2>4, Parity
    <3>2. n % 2 = 1 => i % 2 = 0 /\ i - 1 = n /\ n \in DOMAIN stderr
      BY <2>1, <2>4, Parity
    <3>. QED
      BY <2>1, <2>2, <2>4, <3>1, <3>2
  <2>. QED
    BY <2>1, <2>3, <2>4
<1>. QED
  BY <1>1, <1>2, Writers

\* Every step keeps the entries distinct.
LEMMA DistinctStep ==
  ASSUME EInv, LInv, [Next]_vars
  PROVE  Distinct'
<1>1. CASE stderr' = stderr
  BY <1>1 DEF LInv, Distinct
<1>2. ASSUME NEW t \in Thread, Fputs(t) \/ Fputc(t) PROVE Distinct'
  <2> DEFINE n == Len(stderr)
             e == [kind |-> IF pc[t] = "fputs" THEN "text" ELSE "newline", msg |-> id(t)]
  <2>1. /\ DOMAIN stderr' = DOMAIN stderr \cup {n + 1}
        /\ \A i \in DOMAIN stderr : stderr'[i] = stderr[i]
        /\ stderr'[n + 1] = e
    BY <1>2, Writing
  <2>2. \A i \in DOMAIN stderr : stderr[i] # e
    BY <1>2, NewEntry DEF Fputs, Fputc, Goto
  <2> HIDE DEF n, e
  <2>. QED
    BY <2>1, <2>2 DEF LInv, Distinct
<1>. QED
  BY <1>1, <1>2, Writers

\* Every step that leaves a line, or fails in none, leaves whole lines.
LEMMA ClosedStep ==
  ASSUME EInv, LInv, [Next]_vars
  PROVE  Closed'
<1> USE ThreadAssumption, NameAssumption
        DEF EInv, LInv, TypeOK, id, Goto, hist, sb, Id, Closed, Mutex, Locked, Forming,
            Printing
<1>1. ASSUME NEW t \in Thread, NEW f \in {"eprintf", "ez", "set"}, Call(t, f) PROVE Closed'
  BY <1>1 DEF Call
<1>2. ASSUME NEW t \in Thread, Lock(t) PROVE Closed'
  BY <1>2 DEF Lock
<1>3. ASSUME NEW t \in Thread, Format(t) PROVE Closed'
  BY <1>3 DEF Format
<1>4. ASSUME NEW t \in Thread, Expand(t) PROVE Closed'
  BY <1>4 DEF Expand
<1>5. ASSUME NEW t \in Thread, CallHandler(t) PROVE Closed'
  BY <1>5 DEF CallHandler
<1>6. ASSUME NEW t \in Thread, Handle(t) PROVE Closed'
  BY <1>6 DEF Handle
<1>7. ASSUME NEW t \in Thread, Fputs(t) PROVE Closed'
  <2>1. /\ stderr' \in Seq(Entry)
        /\ Len(stderr) \in Nat /\ Len(stderr') = Len(stderr) + 1
        /\ DOMAIN stderr = 1..Len(stderr)
        /\ DOMAIN stderr' = DOMAIN stderr \cup {Len(stderr) + 1}
        /\ \A i \in DOMAIN stderr : stderr'[i] = stderr[i]
        /\ stderr'[Len(stderr) + 1] = [kind |-> "text", msg |-> id(t)]
    BY <1>7, Writing DEF Fputs
  <2>. QED
    BY <1>7, <2>1 DEF Fputs
<1>8. ASSUME NEW t \in Thread, Fputc(t) PROVE Closed'
  <2>1. /\ stderr' \in Seq(Entry)
        /\ Len(stderr) \in Nat /\ Len(stderr') = Len(stderr) + 1
        /\ DOMAIN stderr = 1..Len(stderr)
        /\ DOMAIN stderr' = DOMAIN stderr \cup {Len(stderr) + 1}
        /\ \A i \in DOMAIN stderr : stderr'[i] = stderr[i]
        /\ stderr'[Len(stderr) + 1] = [kind |-> "newline", msg |-> id(t)]
    BY <1>8, Writing DEF Fputc
  <2>2. Len(stderr) % 2 = 1
    BY <1>8 DEF Fputc, Open
  <2>3. Len(stderr') % 2 = 0
    BY <2>1, <2>2, Parity
  <2>. QED
    BY <2>3
<1>9. ASSUME NEW t \in Thread, Fflush(t) PROVE Closed'
  BY <1>9 DEF Fflush
<1>10. ASSUME NEW t \in Thread, StderrFails(t) PROVE Closed'
  BY <1>10 DEF StderrFails
<1>11. ASSUME NEW t \in Thread, Read(t) PROVE Closed'
  BY <1>11 DEF Read
<1>12. ASSUME NEW t \in Thread, Write(t) PROVE Closed'
  BY <1>12 DEF Write
<1>13. ASSUME NEW t \in Thread, Unlock(t) PROVE Closed'
  BY <1>13 DEF Unlock
<1>14. ASSUME NEW t \in Thread, Abort(t) PROVE Closed'
  BY <1>14 DEF Abort
<1>15. CASE UNCHANGED vars
  BY <1>15 DEF vars
<1>. QED
  BY <1>1, <1>2, <1>3, <1>4, <1>5, <1>6, <1>7, <1>8, <1>9, <1>10, <1>11, <1>12, <1>13,
     <1>14, <1>15 DEF Next, Step, Finished

\* Every step keeps an unfinished line the mutex owner's.
LEMMA OpenStep ==
  ASSUME EInv, LInv, [Next]_vars
  PROVE  Open'
<1> USE ThreadAssumption, NameAssumption
        DEF EInv, LInv, TypeOK, id, Goto, hist, sb, Id, Open, Mutex, Locked, Forming,
            Printing
<1>1. ASSUME NEW t \in Thread, NEW f \in {"eprintf", "ez", "set"}, Call(t, f) PROVE Open'
  BY <1>1 DEF Call
<1>2. ASSUME NEW t \in Thread, Lock(t) PROVE Open'
  BY <1>2 DEF Lock
<1>3. ASSUME NEW t \in Thread, Format(t) PROVE Open'
  BY <1>3 DEF Format
<1>4. ASSUME NEW t \in Thread, Expand(t) PROVE Open'
  BY <1>4 DEF Expand
<1>5. ASSUME NEW t \in Thread, CallHandler(t) PROVE Open'
  BY <1>5 DEF CallHandler
<1>6. ASSUME NEW t \in Thread, Handle(t) PROVE Open'
  BY <1>6 DEF Handle
<1>7. ASSUME NEW t \in Thread, Fputs(t) PROVE Open'
  <2>1. /\ stderr' \in Seq(Entry)
        /\ Len(stderr) \in Nat /\ Len(stderr') = Len(stderr) + 1
        /\ DOMAIN stderr = 1..Len(stderr)
        /\ DOMAIN stderr' = DOMAIN stderr \cup {Len(stderr) + 1}
        /\ \A i \in DOMAIN stderr : stderr'[i] = stderr[i]
        /\ stderr'[Len(stderr) + 1] = [kind |-> "text", msg |-> id(t)]
    BY <1>7, Writing DEF Fputs
  <2>2. Len(stderr) % 2 = 0
    BY <1>7, WholeBefore DEF Fputs
  <2>3. Len(stderr') % 2 = 1
    BY <2>1, <2>2, Parity
  <2>4. stderr'[Len(stderr')].msg = id(t)
    BY <2>1
  <2>5. \A u \in Thread : pc'[u] = "fputc" => u = t
    BY <1>7 DEF Fputs
  <2>6. id(t)' = id(t)
    BY <1>7 DEF Fputs
  <2>. QED
    BY <2>3, <2>4, <2>5, <2>6
<1>8. ASSUME NEW t \in Thread, Fputc(t) PROVE Open'
  <2>1. /\ stderr' \in Seq(Entry)
        /\ Len(stderr) \in Nat /\ Len(stderr') = Len(stderr) + 1
        /\ DOMAIN stderr = 1..Len(stderr)
        /\ DOMAIN stderr' = DOMAIN stderr \cup {Len(stderr) + 1}
        /\ \A i \in DOMAIN stderr : stderr'[i] = stderr[i]
        /\ stderr'[Len(stderr) + 1] = [kind |-> "newline", msg |-> id(t)]
    BY <1>8, Writing DEF Fputc
  <2>. QED
    BY <1>8, <2>1 DEF Fputc
<1>9. ASSUME NEW t \in Thread, Fflush(t) PROVE Open'
  BY <1>9 DEF Fflush
<1>10. ASSUME NEW t \in Thread, StderrFails(t) PROVE Open'
  BY <1>10 DEF StderrFails
<1>11. ASSUME NEW t \in Thread, Read(t) PROVE Open'
  BY <1>11 DEF Read
<1>12. ASSUME NEW t \in Thread, Write(t) PROVE Open'
  BY <1>12 DEF Write
<1>13. ASSUME NEW t \in Thread, Unlock(t) PROVE Open'
  BY <1>13 DEF Unlock
<1>14. ASSUME NEW t \in Thread, Abort(t) PROVE Open'
  BY <1>14 DEF Abort
<1>15. CASE UNCHANGED vars
  BY <1>15 DEF vars
<1>. QED
  BY <1>1, <1>2, <1>3, <1>4, <1>5, <1>6, <1>7, <1>8, <1>9, <1>10, <1>11, <1>12, <1>13,
     <1>14, <1>15 DEF Next, Step, Finished

\* Every step keeps what is on stderr behind the progress of the calls.
LEMMA NotYetStep ==
  ASSUME EInv, LInv, [Next]_vars
  PROVE  NotYet'
<1> USE ThreadAssumption, NameAssumption
        DEF EInv, LInv, TypeOK, id, Goto, hist, sb, Id, NotYet, Mutex, Locked, Forming,
            Printing
<1>1. ASSUME NEW t \in Thread, NEW f \in {"eprintf", "ez", "set"}, Call(t, f) PROVE NotYet'
  <2>1. /\ stderr' = stderr /\ calls' = [calls EXCEPT ![t] = calls[t] + 1]
        /\ pc' = [pc EXCEPT ![t] = "lock"] /\ calls[t] \in Nat
    BY <1>1 DEF Call
  <2> SUFFICES ASSUME NEW i \in DOMAIN stderr, NEW u \in Thread
               PROVE  /\ stderr[i].msg[1] = u => stderr[i].msg[2] <= calls'[u]
                      /\ stderr[i].msg = <<u, calls'[u]>> =>
                           /\ pc'[u] \notin Forming \cup {"lock", "fputs"}
                           /\ pc'[u] = "fputc" => stderr[i].kind = "text"
    BY <2>1
  <2>2. stderr[i].msg[1] = u => stderr[i].msg[2] <= calls[u]
    OBVIOUS
  <2>5. stderr[i].msg[2] \in Nat
    <3>1. stderr[i] \in Entry
      OBVIOUS
    <3>2. stderr[i].msg \in Thread \X (1..MaxCalls)
      BY <3>1 DEF Entry
    <3>. QED
      BY <3>2
  <2>3. CASE u = t
    BY <2>1, <2>2, <2>3, <2>5
  <2>4. CASE u # t
    BY <2>1, <2>2, <2>4
  <2>. QED
    BY <2>3, <2>4
<1>2. ASSUME NEW t \in Thread, Lock(t) PROVE NotYet'
  BY <1>2 DEF Lock
<1>3. ASSUME NEW t \in Thread, Format(t) PROVE NotYet'
  BY <1>3 DEF Format
<1>4. ASSUME NEW t \in Thread, Expand(t) PROVE NotYet'
  BY <1>4 DEF Expand
<1>5. ASSUME NEW t \in Thread, CallHandler(t) PROVE NotYet'
  BY <1>5 DEF CallHandler
<1>6. ASSUME NEW t \in Thread, Handle(t) PROVE NotYet'
  BY <1>6 DEF Handle
<1>7. ASSUME NEW t \in Thread, Fputs(t) PROVE NotYet'
  <2>1. /\ stderr' \in Seq(Entry)
        /\ Len(stderr) \in Nat /\ Len(stderr') = Len(stderr) + 1
        /\ DOMAIN stderr = 1..Len(stderr)
        /\ DOMAIN stderr' = DOMAIN stderr \cup {Len(stderr) + 1}
        /\ \A i \in DOMAIN stderr : stderr'[i] = stderr[i]
        /\ stderr'[Len(stderr) + 1] = [kind |-> "text", msg |-> id(t)]
    BY <1>7, Writing DEF Fputs
  <2>2. /\ calls' = calls /\ id(t) \in Id /\ id(t)[1] = t /\ id(t)[2] = calls[t]
        /\ pc' = [pc EXCEPT ![t] = "fputc"] /\ pc[t] = "fputs"
    BY <1>7, IdType DEF Fputs
  <2> SUFFICES ASSUME NEW i \in DOMAIN stderr', NEW u \in Thread
               PROVE  /\ stderr'[i].msg[1] = u => stderr'[i].msg[2] <= calls[u]
                      /\ stderr'[i].msg = <<u, calls[u]>> =>
                           /\ pc'[u] \notin Forming \cup {"lock", "fputs"}
                           /\ pc'[u] = "fputc" => stderr'[i].kind = "text"
    BY <2>2
  <2>3. CASE i \in DOMAIN stderr
    <3>1. stderr'[i] = stderr[i]
      BY <2>1, <2>3
    <3>2. /\ stderr[i].msg[1] = u => stderr[i].msg[2] <= calls[u]
          /\ stderr[i].msg = <<u, calls[u]>> =>
               /\ pc[u] \notin Forming \cup {"lock", "fputs"}
               /\ pc[u] = "fputc" => stderr[i].kind = "text"
      BY <2>3
    <3>. QED
      BY <2>2, <3>1, <3>2
  <2>4. CASE i = Len(stderr) + 1
    <3>1. stderr'[i].msg = <<t, calls[t]>> /\ stderr'[i].kind = "text"
      BY <2>1, <2>4
    <3>2. calls[t] \in Nat
      OBVIOUS
    <3>. QED
      BY <2>2, <3>1, <3>2
  <2>. QED
    BY <2>1, <2>3, <2>4
<1>8. ASSUME NEW t \in Thread, Fputc(t) PROVE NotYet'
  <2>1. /\ stderr' \in Seq(Entry)
        /\ Len(stderr) \in Nat /\ Len(stderr') = Len(stderr) + 1
        /\ DOMAIN stderr = 1..Len(stderr)
        /\ DOMAIN stderr' = DOMAIN stderr \cup {Len(stderr) + 1}
        /\ \A i \in DOMAIN stderr : stderr'[i] = stderr[i]
        /\ stderr'[Len(stderr) + 1] = [kind |-> "newline", msg |-> id(t)]
    BY <1>8, Writing DEF Fputc
  <2>2. /\ calls' = calls /\ id(t) \in Id /\ id(t)[1] = t /\ id(t)[2] = calls[t]
        /\ pc' = [pc EXCEPT ![t] = "fflush"] /\ pc[t] = "fputc"
    BY <1>8, IdType DEF Fputc
  <2> SUFFICES ASSUME NEW i \in DOMAIN stderr', NEW u \in Thread
               PROVE  /\ stderr'[i].msg[1] = u => stderr'[i].msg[2] <= calls[u]
                      /\ stderr'[i].msg = <<u, calls[u]>> =>
                           /\ pc'[u] \notin Forming \cup {"lock", "fputs"}
                           /\ pc'[u] = "fputc" => stderr'[i].kind = "text"
    BY <2>2
  <2>3. CASE i \in DOMAIN stderr
    <3>1. stderr'[i] = stderr[i]
      BY <2>1, <2>3
    <3>2. /\ stderr[i].msg[1] = u => stderr[i].msg[2] <= calls[u]
          /\ stderr[i].msg = <<u, calls[u]>> =>
               /\ pc[u] \notin Forming \cup {"lock", "fputs"}
               /\ pc[u] = "fputc" => stderr[i].kind = "text"
      BY <2>3
    <3>. QED
      BY <2>2, <3>1, <3>2
  <2>4. CASE i = Len(stderr) + 1
    <3>1. stderr'[i].msg = <<t, calls[t]>> /\ stderr'[i].kind = "newline"
      BY <2>1, <2>4
    <3>2. calls[t] \in Nat
      OBVIOUS
    <3>. QED
      BY <2>2, <3>1, <3>2
  <2>. QED
    BY <2>1, <2>3, <2>4
<1>9. ASSUME NEW t \in Thread, Fflush(t) PROVE NotYet'
  BY <1>9 DEF Fflush
<1>10. ASSUME NEW t \in Thread, StderrFails(t) PROVE NotYet'
  BY <1>10 DEF StderrFails
<1>11. ASSUME NEW t \in Thread, Read(t) PROVE NotYet'
  BY <1>11 DEF Read
<1>12. ASSUME NEW t \in Thread, Write(t) PROVE NotYet'
  BY <1>12 DEF Write
<1>13. ASSUME NEW t \in Thread, Unlock(t) PROVE NotYet'
  BY <1>13 DEF Unlock
<1>14. ASSUME NEW t \in Thread, Abort(t) PROVE NotYet'
  BY <1>14 DEF Abort
<1>15. CASE UNCHANGED vars
  BY <1>15 DEF vars
<1>. QED
  BY <1>1, <1>2, <1>3, <1>4, <1>5, <1>6, <1>7, <1>8, <1>9, <1>10, <1>11, <1>12, <1>13,
     <1>14, <1>15 DEF Next, Step, Finished

\* Every step past a handler has the report out.
LEMMA ReportedInTimeStep ==
  ASSUME EInv, LInv, [Next]_vars
  PROVE  ReportedInTime'
<1> USE ThreadAssumption, NameAssumption
        DEF EInv, LInv, TypeOK, id, Goto, hist, sb, Id, ReportedInTime, Reported, Open,
            Buffers, Printing
<1>1. ASSUME NEW t \in Thread, NEW f \in {"eprintf", "ez", "set"}, Call(t, f) PROVE
   ReportedInTime'
  BY <1>1 DEF Call
<1>2. ASSUME NEW t \in Thread, Lock(t) PROVE ReportedInTime'
  BY <1>2 DEF Lock
<1>3. ASSUME NEW t \in Thread, Format(t) PROVE ReportedInTime'
  BY <1>3 DEF Format
<1>4. ASSUME NEW t \in Thread, Expand(t) PROVE ReportedInTime'
  BY <1>4 DEF Expand
<1>5. ASSUME NEW t \in Thread, CallHandler(t) PROVE ReportedInTime'
  BY <1>5 DEF CallHandler
<1>6. ASSUME NEW t \in Thread, Handle(t) PROVE ReportedInTime'
  BY <1>6 DEF Handle
<1>7. ASSUME NEW t \in Thread, Fputs(t) PROVE ReportedInTime'
  <2>1. /\ stderr' \in Seq(Entry)
        /\ Len(stderr) \in Nat /\ Len(stderr') = Len(stderr) + 1
        /\ DOMAIN stderr = 1..Len(stderr)
        /\ DOMAIN stderr' = DOMAIN stderr \cup {Len(stderr) + 1}
        /\ \A i \in DOMAIN stderr : stderr'[i] = stderr[i]
        /\ stderr'[Len(stderr) + 1] = [kind |-> "text", msg |-> id(t)]
    BY <1>7, Writing DEF Fputs
  <2>2. calls' = calls /\ fn' = fn /\ delivered' = delivered
    BY <1>7 DEF Fputs
  <2>3. \A u \in Thread : Reported(u) => Reported(u)'
    BY <2>1, <2>2
  <2>4. pc' = [pc EXCEPT ![t] = "fputc"]
    BY <1>7 DEF Fputs
  <2>. QED
    BY <2>2, <2>3, <2>4
<1>8. ASSUME NEW t \in Thread, Fputc(t) PROVE ReportedInTime'
  <2>1. /\ stderr' \in Seq(Entry)
        /\ Len(stderr) \in Nat /\ Len(stderr') = Len(stderr) + 1
        /\ DOMAIN stderr = 1..Len(stderr)
        /\ DOMAIN stderr' = DOMAIN stderr \cup {Len(stderr) + 1}
        /\ \A i \in DOMAIN stderr : stderr'[i] = stderr[i]
        /\ stderr'[Len(stderr) + 1] = [kind |-> "newline", msg |-> id(t)]
    BY <1>8, Writing DEF Fputc
  <2>2. calls' = calls /\ fn' = fn /\ delivered' = delivered
    BY <1>8 DEF Fputc
  <2>3. \A u \in Thread : Reported(u) => Reported(u)'
    BY <2>1, <2>2
  <2>4. pc' = [pc EXCEPT ![t] = "fflush"]
    BY <1>8 DEF Fputc
  <2>5. Reported(t)'
    BY <2>1, <2>2
  <2>. QED
    BY <2>2, <2>3, <2>4, <2>5
<1>9. ASSUME NEW t \in Thread, Fflush(t) PROVE ReportedInTime'
  BY <1>9 DEF Fflush
<1>10. ASSUME NEW t \in Thread, StderrFails(t) PROVE ReportedInTime'
  BY <1>10 DEF StderrFails
<1>11. ASSUME NEW t \in Thread, Read(t) PROVE ReportedInTime'
  BY <1>11 DEF Read
<1>12. ASSUME NEW t \in Thread, Write(t) PROVE ReportedInTime'
  <2>1. fn' = fn /\ calls' = calls /\ delivered' = delivered /\ stderr' = stderr
    BY <1>12 DEF Write
  <2>2. \A u \in Thread : Reported(u) => Reported(u)'
    BY <2>1
  <2>3. pc[t] = "write" /\ pc' = [pc EXCEPT ![t] = "unlock"] /\ fn[t] = "set"
    BY <1>12 DEF Write, InHand
  <2> HIDE DEF Reported
  <2>. QED
    BY <2>1, <2>2, <2>3
<1>13. ASSUME NEW t \in Thread, Unlock(t) PROVE ReportedInTime'
  <2>1. fn' = fn /\ calls' = calls /\ delivered' = delivered /\ stderr' = stderr
    BY <1>13 DEF Unlock
  <2>2. \A u \in Thread : Reported(u) => Reported(u)'
    BY <2>1
  <2>3. pc[t] = "unlock" /\ pc' = [pc EXCEPT ![t] = IF fn[t] = "ez" THEN "abort" ELSE "idle"]
    BY <1>13 DEF Unlock
  <2>4. \A u \in Thread :
          /\ pc[u] \in {"fflush", "abort"} \/ (pc[u] = "unlock" /\ fn[u] = "ez") => Reported(u)
          /\ pc[u] = "abort" => fn[u] = "ez"
    OBVIOUS
  <2> HIDE DEF Reported
  <2>. QED
    BY <2>1, <2>2, <2>3, <2>4
<1>14. ASSUME NEW t \in Thread, Abort(t) PROVE ReportedInTime'
  BY <1>14 DEF Abort
<1>15. CASE UNCHANGED vars
  BY <1>15 DEF vars
<1>. QED
  BY <1>1, <1>2, <1>3, <1>4, <1>5, <1>6, <1>7, <1>8, <1>9, <1>10, <1>11, <1>12, <1>13,
     <1>14, <1>15 DEF Next, Step, Finished

\* Every abort comes after the report of the call that aborts.
LEMMA ReportedBeforeAbortStep ==
  ASSUME EInv, LInv, [Next]_vars
  PROVE  ReportedBeforeAbort'
<1> USE ThreadAssumption, NameAssumption
        DEF EInv, LInv, TypeOK, id, Goto, hist, sb, Id, ReportedBeforeAbort, Reported,
            ReportedInTime
<1>1. ASSUME NEW t \in Thread, NEW f \in {"eprintf", "ez", "set"}, Call(t, f) PROVE
   ReportedBeforeAbort'
  BY <1>1 DEF Call
<1>2. ASSUME NEW t \in Thread, Lock(t) PROVE ReportedBeforeAbort'
  BY <1>2 DEF Lock
<1>3. ASSUME NEW t \in Thread, Format(t) PROVE ReportedBeforeAbort'
  BY <1>3 DEF Format
<1>4. ASSUME NEW t \in Thread, Expand(t) PROVE ReportedBeforeAbort'
  BY <1>4 DEF Expand
<1>5. ASSUME NEW t \in Thread, CallHandler(t) PROVE ReportedBeforeAbort'
  BY <1>5 DEF CallHandler
<1>6. ASSUME NEW t \in Thread, Handle(t) PROVE ReportedBeforeAbort'
  BY <1>6 DEF Handle
<1>7. ASSUME NEW t \in Thread, Fputs(t) PROVE ReportedBeforeAbort'
  <2>1. /\ stderr' \in Seq(Entry)
        /\ Len(stderr) \in Nat /\ Len(stderr') = Len(stderr) + 1
        /\ DOMAIN stderr = 1..Len(stderr)
        /\ DOMAIN stderr' = DOMAIN stderr \cup {Len(stderr) + 1}
        /\ \A i \in DOMAIN stderr : stderr'[i] = stderr[i]
        /\ stderr'[Len(stderr) + 1] = [kind |-> "text", msg |-> id(t)]
    BY <1>7, Writing DEF Fputs
  <2>. QED
    BY <1>7, <2>1 DEF Fputs
<1>8. ASSUME NEW t \in Thread, Fputc(t) PROVE ReportedBeforeAbort'
  <2>1. /\ stderr' \in Seq(Entry)
        /\ Len(stderr) \in Nat /\ Len(stderr') = Len(stderr) + 1
        /\ DOMAIN stderr = 1..Len(stderr)
        /\ DOMAIN stderr' = DOMAIN stderr \cup {Len(stderr) + 1}
        /\ \A i \in DOMAIN stderr : stderr'[i] = stderr[i]
        /\ stderr'[Len(stderr) + 1] = [kind |-> "newline", msg |-> id(t)]
    BY <1>8, Writing DEF Fputc
  <2>. QED
    BY <1>8, <2>1 DEF Fputc
<1>9. ASSUME NEW t \in Thread, Fflush(t) PROVE ReportedBeforeAbort'
  BY <1>9 DEF Fflush
<1>10. ASSUME NEW t \in Thread, StderrFails(t) PROVE ReportedBeforeAbort'
  BY <1>10 DEF StderrFails
<1>11. ASSUME NEW t \in Thread, Read(t) PROVE ReportedBeforeAbort'
  BY <1>11 DEF Read
<1>12. ASSUME NEW t \in Thread, Write(t) PROVE ReportedBeforeAbort'
  BY <1>12 DEF Write
<1>13. ASSUME NEW t \in Thread, Unlock(t) PROVE ReportedBeforeAbort'
  BY <1>13 DEF Unlock
<1>14. ASSUME NEW t \in Thread, Abort(t) PROVE ReportedBeforeAbort'
  BY <1>14 DEF Abort
<1>15. CASE UNCHANGED vars
  BY <1>15 DEF vars
<1>. QED
  BY <1>1, <1>2, <1>3, <1>4, <1>5, <1>6, <1>7, <1>8, <1>9, <1>10, <1>11, <1>12, <1>13,
     <1>14, <1>15 DEF Next, Step, Finished

\* The lines on stderr, and the reports in them, in every reachable state.
THEOREM LinesInvariant == Spec => []LInv
<1>1. Init => LInv
  BY DEF Init, LInv, Paired, Closed, Open, NotYet, Distinct, ReportedInTime, ReportedBeforeAbort
<1>2. ASSUME EInv, LInv, [Next]_vars PROVE LInv'
  <2>1. stderr' \in Seq(Entry)
    <3>1. ASSUME NEW t \in Thread, Fputs(t) \/ Fputc(t) PROVE stderr' \in Seq(Entry)
      <4> DEFINE k == IF pc[t] = "fputs" THEN "text" ELSE "newline"
      <4>1. k \in {"text", "newline"}
        OBVIOUS
      <4>. QED
        BY <1>2, <3>1, <4>1, Writing
    <3>. QED
      BY <1>2, <3>1, Writers DEF LInv
  <2>. QED
    BY <1>2, <2>1, PairedStep, ClosedStep, OpenStep, NotYetStep, DistinctStep,
       ReportedInTimeStep, ReportedBeforeAbortStep DEF LInv
<1>. QED
  BY <1>1, <1>2, ReportingInvariant, PTL DEF Spec

\* Whole lines reach stderr, each once, from any number of threads.
THEOREM LinesStayWhole == Spec => []LinesWhole
<1>1. LInv => LinesWhole
  BY DEF LInv, Paired, Distinct, LinesWhole
<1>. QED
  BY <1>1, LinesInvariant, PTL

\* The program is aborted only after its report got out.
THEOREM ReportsPrecedeAbort == Spec => []ReportedBeforeAbort
<1>1. LInv => ReportedBeforeAbort
  BY DEF LInv
<1>. QED
  BY <1>1, LinesInvariant, PTL
=============================================================================
