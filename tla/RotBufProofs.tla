---------------------------- MODULE RotBufProofs ----------------------------
(***************************************************************************)
(* As many answers as a function has buffers stand at once, for any number *)
(* of threads, functions, buffers and calls, and wherever a count wraps.   *)
(***************************************************************************)
EXTENDS RotBuf, Integers, TLAPS

(* Arithmetic *)

\* A number of at least one multiple is no less than it.
LEMMA Multiple ==
  ASSUME NEW n \in Nat, NEW k \in Int
  PROVE  (k <= 0 => n * k <= 0) /\ (k >= 1 => n * k >= n)
  OBVIOUS

LEMMA Assoc ==
  ASSUME NEW x \in Int, NEW y \in Int, NEW z \in Int
  PROVE  (x * y) * z = x * (y * z)
  OBVIOUS

LEMMA Distributes ==
  ASSUME NEW n \in Int, NEW x \in Int, NEW y \in Int
  PROVE  n * (x - y) = n * x - n * y
  OBVIOUS

\* A remainder is what is left behind a multiple.
LEMMA Division ==
  ASSUME NEW n \in Nat \ {0}, NEW a \in Nat
  PROVE  /\ a \div n \in Nat /\ a % n \in 0..(n - 1)
         /\ a = n * (a \div n) + (a % n)
  OBVIOUS

\* And nothing else is.
LEMMA IsRemainder ==
  ASSUME NEW n \in Nat \ {0}, NEW a \in Nat, NEW k \in Nat, NEW r \in 0..(n - 1), a = n * k + r
  PROVE  a % n = r /\ a \div n = k
<1>. DEFINE q == a \div n  s == a % n
<1>1. q \in Nat /\ s \in 0..(n - 1) /\ a = n * q + s
  BY Division
<1>2. n * k \in Int /\ n * q \in Int
  BY <1>1
<1>3. n * (q - k) = n * q - n * k /\ n * (k - q) = n * k - n * q
  BY <1>1, Distributes
<1>4. (q - k >= 1 => n * (q - k) >= n) /\ (k - q >= 1 => n * (k - q) >= n)
  BY <1>1, Multiple
<1>. HIDE DEF q, s
<1>5. q = k
  <2>. DEFINE x == n * k  y == n * q  u == n * (q - k)  v == n * (k - q)
  <2>1. /\ x \in Int /\ y \in Int /\ u = y - x /\ v = x - y /\ x + r = y + s
        /\ (q - k >= 1 => u >= n) /\ (k - q >= 1 => v >= n)
    BY <1>1, <1>2, <1>3, <1>4
  <2>. HIDE DEF x, y, u, v
  <2>. QED  BY <2>1, <1>1
<1>6. s = r
  BY <1>1, <1>2, <1>5
<1>. QED  BY <1>5, <1>6 DEF q, s

\* Numbers less than n apart have different remainders.
LEMMA Remainders ==
  ASSUME NEW n \in Nat \ {0}, NEW a \in Nat, NEW b \in Nat, a < b, b < a + n
  PROVE  a % n # b % n
<1>. DEFINE k == a \div n  r == a % n
<1>1. k \in Nat /\ r \in 0..(n - 1) /\ a = n * k + r
  BY Division
<1>2. n * k \in Int /\ n * (k + 1) = n * k + n
  BY <1>1
<1>. HIDE DEF k, r
<1>3. CASE r + (b - a) < n
  <2>1. b = n * k + (r + (b - a)) /\ r + (b - a) \in 0..(n - 1)
    BY <1>1, <1>2, <1>3
  <2>2. b % n = r + (b - a)
    BY <2>1, <1>1, IsRemainder
  <2>. QED  BY <2>2, <1>1 DEF r
<1>4. CASE r + (b - a) >= n
  <2>. DEFINE t == r + (b - a) - n  l == k + 1
  <2>1. b = n * l + t /\ t \in 0..(n - 1) /\ l \in Nat /\ t # r
    BY <1>1, <1>2, <1>4
  <2>. HIDE DEF t, l
  <2>2. b % n = t
    BY <2>1, IsRemainder
  <2>. QED  BY <2>1, <2>2, <1>1 DEF r
<1>. QED  BY <1>1, <1>3, <1>4

\* Where n divides the range m of a count, the remainder by n is not disturbed.
LEMMA Divides ==
  ASSUME NEW n \in Nat \ {0}, NEW m \in Nat \ {0}, NEW a \in Nat, m % n = 0
  PROVE  (a % m) % n = a % n
<1>. DEFINE k == m \div n  q == a \div m  r == a % m  h == r \div n  s == r % n
<1>1. k \in Nat /\ m = n * k
  BY Division
<1>2. q \in Nat /\ r \in Nat /\ a = m * q + r
  BY Division
<1>3. h \in Nat /\ s \in 0..(n - 1) /\ r = n * h + s
  BY <1>2, Division
<1>. HIDE DEF k, q, r, h, s
<1>4. m * q = n * (k * q)
  BY <1>1, <1>2, Assoc
<1>5. k * q \in Nat /\ n * (k * q + h) = n * (k * q) + n * h
  BY <1>1, <1>2, <1>3
<1>6. a = n * (k * q + h) + s
  BY <1>2, <1>3, <1>4, <1>5
<1>7. a % n = s
  BY <1>3, <1>5, <1>6, IsRemainder
<1>. QED  BY <1>7 DEF s, r

\* Of calls less than n apart, a later one takes another buffer, if the count
\* has not wrapped in between or wraps at a multiple of n.
LEMMA OtherSlot ==
  ASSUME NEW n \in Nat \ {0}, NEW m \in Nat \ {0}, NEW a \in Nat, NEW b \in Nat,
         a < b, b < a + n, m % n = 0 \/ a >= m * (b \div m)
  PROVE  (a % m) % n # (b % m) % n
<1>1. CASE m % n = 0
  <2>1. (a % m) % n = a % n /\ (b % m) % n = b % n
    BY <1>1, Divides
  <2>2. a % n # b % n
    BY Remainders
  <2>. QED  BY <2>1, <2>2
<1>2. CASE a >= m * (b \div m)
  <2>. DEFINE q == b \div m
  <2>1. q \in Nat /\ b % m \in 0..(m - 1) /\ b = m * q + (b % m)
    BY Division
  <2>2. m * q \in Nat
    BY <2>1
  <2>3. a = m * q + (a - m * q) /\ a - m * q \in 0..(m - 1) /\ a >= m * q
    BY <1>2, <2>1, <2>2
  <2>4. a % m = a - m * q
    BY <2>1, <2>3, IsRemainder
  <2>5. b % m = b - m * q
    BY <2>1, <2>2
  <2>. DEFINE x == a - m * q  y == b - m * q
  <2>6. x \in Nat /\ y \in Nat /\ x < y /\ y < x + n
    BY <2>1, <2>2, <2>3, <2>5
  <2>7. a % m = x /\ b % m = y
    BY <2>4, <2>5
  <2>. HIDE DEF x, y
  <2>8. x % n # y % n
    BY <2>6, Remainders
  <2>. QED  BY <2>7, <2>8
<1>. QED  BY <1>1, <1>2

\* What is called since a later wrap is called since an earlier one.
LEMMA WrapsGrow ==
  ASSUME NEW m \in Nat \ {0}, NEW c \in Nat
  PROVE  m * (c \div m) <= m * ((c + 1) \div m)
<1>. DEFINE p == c \div m  q == (c + 1) \div m
<1>1. p \in Nat /\ q \in Nat /\ p <= q
  OBVIOUS
<1>. HIDE DEF p, q
<1>2. m * p <= m * q
  BY <1>1
<1>. QED  BY <1>2 DEF p, q

\* A count that wraps is the number of calls but for the wraps.
LEMMA CountOn ==
  ASSUME NEW m \in Nat \ {0}, NEW c \in Nat
  PROVE  ((c % m) + 1) % m = (c + 1) % m
<1>. DEFINE q == c \div m  r == c % m
<1>1. q \in Nat /\ r \in 0..(m - 1) /\ c = m * q + r
  BY Division
<1>2. m * q \in Int /\ m * (q + 1) = m * q + m /\ q + 1 \in Nat
  BY <1>1
<1>. HIDE DEF q, r
<1>3. CASE r + 1 < m
  <2>1. r + 1 \in 0..(m - 1) /\ c + 1 = m * q + (r + 1)
    BY <1>1, <1>2, <1>3
  <2>2. (c + 1) % m = r + 1
    BY <1>1, <2>1, IsRemainder
  <2>3. (r + 1) % m = r + 1
    BY <2>1
  <2>. QED  BY <2>2, <2>3 DEF r
<1>4. CASE r + 1 = m
  <2>1. c + 1 = m * (q + 1) + 0 /\ 0 \in 0..(m - 1)
    BY <1>1, <1>2, <1>4
  <2>2. (c + 1) % m = 0
    BY <1>2, <2>1, IsRemainder
  <2>3. m % m = 0
    OBVIOUS
  <2>. QED  BY <1>4, <2>2, <2>3 DEF r
<1>. QED  BY <1>1, <1>3, <1>4

----------------------------------------------------------------------------
(* The invariant *)

Question == Thread \X Fn \X Nat
Value    == Question \cup {NULL, Garbage}
Answer   == [slot : Nat, asked : Question, shown : Value]

\* The buffer that the n-th call of f takes.
Place(f, n) == (n % UintMod) % NBufs[f]

\* The count has not wrapped between the n-th call and the c-th, or it does so at
\* a multiple of the number of buffers.
Fresh(f, n, c) == UintMod % NBufs[f] = 0 \/ n >= UintMod * (c \div UintMod)

\* s are the answers up to the last-th.
Recent(t, f, s, last) ==
  /\ Len(s) <= NBufs[f] /\ Len(s) <= last
  /\ \A i \in 1..Len(s) :
       s[i].asked = <<t, f, last - Len(s) + i>> /\ s[i].slot = Place(f, last - Len(s) + i)

\* Those that have not been lost since stand in their buffers.
Standing(f, s, buf, last, c) ==
  \A i \in 1..Len(s) :
    Fresh(f, last - Len(s) + i, c) /\ s[i].shown # NULL => buf[s[i].slot] = s[i].shown

\* s when e has been answered.
Joined(f, s, e) == Keep(Append(s, e), NBufs[f])

\* new is buf when e has been answered: only the buffer of e may differ.
Covered(f, e, buf, new) ==
  /\ \A k \in 0..(NBufs[f] - 1) : k # e.slot => new[k] = buf[k]
  /\ e.shown # NULL => new[e.slot] = e.shown

\* The number of the last call that has been answered.
Last(t, f) == IF doing[t] = f THEN calls[t][f] - 1 ELSE calls[t][f]

Typed ==
  /\ calls \in [Thread -> [Fn -> Nat]] /\ count \in [Thread -> [Fn -> Nat]]
  /\ \A t \in Thread, f \in Fn : count[t][f] = calls[t][f] % UintMod
  /\ doing \in [Thread -> Timed \cup {NULL}] /\ tm \in Value
  /\ answers \in [Thread -> [Fn -> Seq(Answer)]]
  /\ DOMAIN bufArr = Thread
  /\ \A t \in Thread : DOMAIN bufArr[t] = Fn
  /\ \A t \in Thread, f \in Fn : DOMAIN bufArr[t][f] = 0..(NBufs[f] - 1)

Stands(t, f) ==
  /\ Recent(t, f, answers[t][f], Last(t, f))
  /\ Standing(f, answers[t][f], bufArr[t][f], Last(t, f), calls[t][f])

RotInv == Typed /\ \A t \in Thread, f \in Fn : Stands(t, f)

----------------------------------------------------------------------------
(* One answer *)

LEMMA PlaceInRange ==
  ASSUME NEW f \in Fn, NEW n \in Nat
  PROVE  Place(f, n) \in 0..(NBufs[f] - 1)
<1>1. NBufs[f] \in Nat \ {0} /\ UintMod \in Nat \ {0}
  BY FnAssumption
<1>2. n % UintMod \in Nat
  BY <1>1
<1>. QED  BY <1>1, <1>2, Division DEF Place

\* The call after the last one leaves the answers before it where they are, of
\* which it drops the oldest when there are as many as buffers.
LEMMA OneMore ==
  ASSUME NEW t \in Thread, NEW f \in Fn, NEW s \in Seq(Answer), NEW c \in Nat \ {0},
         NEW e \in Answer, NEW buf, NEW new,
         Recent(t, f, s, c - 1), Standing(f, s, buf, c - 1, c),
         e.asked = <<t, f, c>>, e.slot = Place(f, c),
         Covered(f, e, buf, new)
  PROVE  /\ Joined(f, s, e) \in Seq(Answer)
         /\ Recent(t, f, Joined(f, s, e), c) /\ Standing(f, Joined(f, s, e), new, c, c)
<1>. DEFINE n == NBufs[f]  a == Append(s, e)  r == Keep(a, n)
            d == IF Len(a) > n THEN 1 ELSE 0
<1>1. n \in Nat \ {0} /\ UintMod \in Nat \ {0}
  BY FnAssumption
<1>2. /\ a \in Seq(Answer) /\ Len(a) = Len(s) + 1 /\ Len(s) \in Nat
      /\ \A i \in 1..Len(s) : a[i] = s[i]
      /\ a[Len(a)] = e
  OBVIOUS
<1>3. /\ r \in Seq(Answer) /\ Len(r) = Len(a) - d
      /\ \A i \in 1..Len(r) : r[i] = a[i + d]
  <2>. HIDE DEF a
  <2>1. CASE Len(a) > n
    <3>1. r = Tail(a) /\ d = 1
      BY <2>1 DEF Keep
    <3>. HIDE DEF r, d
    <3>. QED  BY <1>2, <3>1
  <2>2. CASE ~(Len(a) > n)
    <3>1. r = a /\ d = 0
      BY <2>2 DEF Keep
    <3>. HIDE DEF r, d
    <3>. QED  BY <1>2, <3>1
  <2>. QED  BY <2>1, <2>2
<1>4. Len(s) <= n /\ Len(s) <= c - 1
  BY DEF Recent
<1>5. Len(r) <= n /\ Len(r) <= c /\ Len(r) \in Nat /\ Len(r) >= 1 /\ d \in {0, 1}
  BY <1>1, <1>2, <1>3, <1>4
<1>51. Len(s) \in Nat /\ Len(r) = Len(s) + 1 - d
  BY <1>2, <1>3, <1>5
<1>. HIDE DEF r, a, d
<1>6. ASSUME NEW i \in 1..Len(r)
      PROVE  /\ r[i].asked = <<t, f, c - Len(r) + i>>
             /\ r[i].slot = Place(f, c - Len(r) + i)
             /\ Fresh(f, c - Len(r) + i, c) /\ r[i].shown # NULL => new[r[i].slot] = r[i].shown
  <2>1. CASE i = Len(r)
    <3>0. i + d = Len(a)
      BY <2>1, <1>2, <1>3, <1>5
    <3>1. r[i] = e /\ c - Len(r) + i = c
      BY <3>0, <2>1, <1>2, <1>3, <1>5
    <3>. QED  BY <3>1 DEF Covered
  <2>2. CASE i < Len(r)
    <3>. DEFINE j == i + d
    <3>0. j \in 1..Len(s) /\ c - Len(r) + i = c - 1 - Len(s) + j
      <4>. DEFINE x == Len(r)  y == Len(s)
      <4>1. x \in Nat /\ y \in Nat /\ x = y + 1 - d /\ i \in 1..x /\ i < x /\ d \in {0, 1}
        BY <2>2, <1>5, <1>51
      <4>. HIDE DEF x, y
      <4>2. j \in 1..y
        BY <4>1
      <4>3. c - x + i = c - 1 - y + j
        BY <4>1
      <4>. QED  BY <4>2, <4>3 DEF x, y
    <3>1. r[i] = s[j] /\ j \in 1..Len(s) /\ c - Len(r) + i = c - 1 - Len(s) + j
      BY <3>0, <1>2, <1>3
    <3>2. /\ s[j].asked = <<t, f, c - 1 - Len(s) + j>>
          /\ s[j].slot = Place(f, c - 1 - Len(s) + j)
      BY <3>1 DEF Recent
    <3>3. Fresh(f, c - 1 - Len(s) + j, c) /\ s[j].shown # NULL => buf[s[j].slot] = s[j].shown
      BY <3>1 DEF Standing
    <3>. DEFINE b == c - Len(r) + i
    <3>4. b \in Nat /\ b < c /\ c < b + n
      BY <2>2, <1>1, <1>2, <1>4, <1>5
    <3>. HIDE DEF j, b
    <3>5. Fresh(f, b, c) => Place(f, b) # Place(f, c)
      BY <1>1, <3>4, OtherSlot DEF Fresh, Place
    <3>6. Place(f, b) \in 0..(NBufs[f] - 1)
      BY <3>4, PlaceInRange
    <3>7. r[i].asked = <<t, f, b>> /\ r[i].slot = Place(f, b)
      BY <3>1, <3>2 DEF b
    <3>8. Fresh(f, b, c) /\ r[i].shown # NULL => buf[r[i].slot] = r[i].shown
      BY <3>1, <3>3 DEF b
    <3>. QED  BY <3>5, <3>6, <3>7, <3>8 DEF b, Covered
  <2>. QED  BY <2>1, <2>2
<1>7. Recent(t, f, r, c)
  BY <1>5, <1>6 DEF Recent
<1>8. Standing(f, r, new, c, c)
  BY <1>6 DEF Standing
<1>. QED  BY <1>3, <1>7, <1>8 DEF r, a, Joined

\* One call more loses no answer but by a wrap.
LEMMA StillStanding ==
  ASSUME NEW f \in Fn, NEW s \in Seq(Answer), NEW buf, NEW c \in Nat, Len(s) <= c,
         Standing(f, s, buf, c, c)
  PROVE  Standing(f, s, buf, c, c + 1)
<1>1. UintMod * (c \div UintMod) <= UintMod * ((c + 1) \div UintMod)
  BY FnAssumption, WrapsGrow
<1>2. UintMod * (c \div UintMod) \in Int /\ UintMod * ((c + 1) \div UintMod) \in Int
  BY FnAssumption, Division
<1>3. ASSUME NEW i \in 1..Len(s), Fresh(f, c - Len(s) + i, c + 1)
      PROVE  Fresh(f, c - Len(s) + i, c)
  <2>. DEFINE x == UintMod * (c \div UintMod)  y == UintMod * ((c + 1) \div UintMod)
              k == c - Len(s) + i
  <2>1. k \in Int
    OBVIOUS
  <2>2. x \in Int /\ y \in Int /\ x <= y /\ (UintMod % NBufs[f] = 0 \/ k >= y)
    BY <1>1, <1>2, <1>3 DEF Fresh
  <2>. HIDE DEF x, y, k
  <2>3. UintMod % NBufs[f] = 0 \/ k >= x
    BY <2>1, <2>2
  <2>. QED  BY <2>3 DEF Fresh, x, k
<1>. QED  BY <1>3 DEF Standing

----------------------------------------------------------------------------
(* The steps *)

LEMMA TurnOK ==
  ASSUME Typed, NEW t \in Thread, NEW f \in Fn, Turn(t, f)
  PROVE  /\ calls' \in [Thread -> [Fn -> Nat]] /\ count' \in [Thread -> [Fn -> Nat]]
         /\ calls'[t][f] = calls[t][f] + 1
         /\ \A u \in Thread, g \in Fn : u # t \/ g # f => calls'[u][g] = calls[u][g]
         /\ \A u \in Thread, g \in Fn : count'[u][g] = calls'[u][g] % UintMod
         /\ doing[t] = NULL /\ Slot(t, f) = Place(f, calls'[t][f])
<1>1. /\ calls \in [Thread -> [Fn -> Nat]] /\ count \in [Thread -> [Fn -> Nat]]
      /\ \A u \in Thread, g \in Fn : count[u][g] = calls[u][g] % UintMod
      /\ UintMod \in Nat \ {0}
  BY FnAssumption DEF Typed
<1>2. /\ calls' = [calls EXCEPT ![t][f] = @ + 1]
      /\ count' = [count EXCEPT ![t][f] = (@ + 1) % UintMod] /\ doing[t] = NULL
  BY DEF Turn
<1>3. calls[t][f] \in Nat /\ count[t][f] \in Nat /\ (count[t][f] + 1) % UintMod \in Nat
  BY <1>1, Division
<1>4. /\ calls' \in [Thread -> [Fn -> Nat]] /\ calls'[t][f] = calls[t][f] + 1
      /\ \A u \in Thread, g \in Fn : u # t \/ g # f => calls'[u][g] = calls[u][g]
  BY <1>1, <1>2, <1>3
<1>5. /\ count' \in [Thread -> [Fn -> Nat]]
      /\ \A u \in Thread, g \in Fn : u # t \/ g # f => count'[u][g] = count[u][g]
      /\ count'[t][f] = (count[t][f] + 1) % UintMod
  BY <1>1, <1>2, <1>3
<1>6. count'[t][f] = calls'[t][f] % UintMod
  BY <1>1, <1>3, <1>4, <1>5, CountOn
<1>7. \A u \in Thread, g \in Fn : count'[u][g] = calls'[u][g] % UintMod
  BY <1>1, <1>4, <1>5, <1>6
<1>. QED  BY <1>2, <1>4, <1>5, <1>6, <1>7 DEF Slot, Place

\* The step writes v to buffer i of f.
Written(t, f, i, v) == bufArr' = [bufArr EXCEPT ![t][f][i] = v]

\* A buffer that is written keeps its shape, and all others are left alone.
LEMMA WriteOK ==
  ASSUME Typed, NEW t \in Thread, NEW f \in Fn, NEW s \in 0..(NBufs[f] - 1), NEW v,
         Written(t, f, s, v)
  PROVE  /\ DOMAIN bufArr' = Thread /\ \A u \in Thread : DOMAIN bufArr'[u] = Fn
         /\ \A u \in Thread, g \in Fn : DOMAIN bufArr'[u][g] = 0..(NBufs[g] - 1)
         /\ \A u \in Thread, g \in Fn : u # t \/ g # f => bufArr'[u][g] = bufArr[u][g]
         /\ bufArr'[t][f][s] = v
         /\ \A k \in 0..(NBufs[f] - 1) : k # s => bufArr'[t][f][k] = bufArr[t][f][k]
<1>1. /\ DOMAIN bufArr = Thread /\ \A u \in Thread : DOMAIN bufArr[u] = Fn
      /\ \A u \in Thread, g \in Fn : DOMAIN bufArr[u][g] = 0..(NBufs[g] - 1)
  BY DEF Typed
<1>. DEFINE new == [bufArr[t][f] EXCEPT ![s] = v]
<1>2. bufArr' = [bufArr EXCEPT ![t] = [bufArr[t] EXCEPT ![f] = new]]
  BY DEF Written
<1>3. /\ DOMAIN new = 0..(NBufs[f] - 1) /\ new[s] = v
      /\ \A k \in 0..(NBufs[f] - 1) : k # s => new[k] = bufArr[t][f][k]
  BY <1>1
<1>. HIDE DEF new
<1>4. /\ DOMAIN bufArr' = Thread /\ bufArr'[t] = [bufArr[t] EXCEPT ![f] = new]
      /\ \A u \in Thread : u # t => bufArr'[u] = bufArr[u]
  BY <1>1, <1>2
<1>5. /\ DOMAIN bufArr'[t] = Fn /\ bufArr'[t][f] = new
      /\ \A g \in Fn : g # f => bufArr'[t][g] = bufArr[t][g]
  BY <1>1, <1>4
<1>6. \A u \in Thread, g \in Fn : u # t \/ g # f => bufArr'[u][g] = bufArr[u][g]
  BY <1>4, <1>5
<1>7. \A u \in Thread : DOMAIN bufArr'[u] = Fn
  BY <1>1, <1>4, <1>5
<1>8. \A u \in Thread, g \in Fn : DOMAIN bufArr'[u][g] = 0..(NBufs[g] - 1)
  BY <1>1, <1>3, <1>5, <1>6
<1>. QED  BY <1>3, <1>4, <1>5, <1>6, <1>7, <1>8

\* The answer of the call at hand joins those that stand.
LEMMA AnswerOK ==
  ASSUME Typed, NEW t \in Thread, NEW f \in Fn, NEW shown \in Value, Answers(t, f, shown),
         NEW c \in Nat \ {0}, calls'[t][f] = c, Slot(t, f) = Place(f, c),
         Recent(t, f, answers[t][f], c - 1),
         Standing(f, answers[t][f], bufArr[t][f], c - 1, c),
         \A k \in 0..(NBufs[f] - 1) : k # Place(f, c) => bufArr'[t][f][k] = bufArr[t][f][k],
         shown # NULL => bufArr'[t][f][Place(f, c)] = shown
  PROVE  /\ answers' \in [Thread -> [Fn -> Seq(Answer)]]
         /\ \A u \in Thread, g \in Fn : u # t \/ g # f => answers'[u][g] = answers[u][g]
         /\ Recent(t, f, answers'[t][f], c)
         /\ Standing(f, answers'[t][f], bufArr'[t][f], c, c)
<1>. DEFINE e == [slot |-> Slot(t, f), asked |-> Asked(t, f), shown |-> shown]
            s == answers[t][f]  buf == bufArr[t][f]  new == bufArr'[t][f]
            r == Joined(f, s, e)
<1>1. answers \in [Thread -> [Fn -> Seq(Answer)]]
  BY DEF Typed
<1>2. /\ Place(f, c) \in Nat /\ Asked(t, f) = <<t, f, c>> /\ <<t, f, c>> \in Question
  BY PlaceInRange DEF Asked, Question
<1>3. /\ e \in Answer /\ e.asked = <<t, f, c>> /\ e.slot = Place(f, c) /\ e.shown = shown
  BY <1>2 DEF Answer
<1>4. answers' = [answers EXCEPT ![t][f] = r]
  BY DEF Answers, Joined
<1>5. s \in Seq(Answer) /\ Recent(t, f, s, c - 1) /\ Standing(f, s, buf, c - 1, c)
  BY <1>1
<1>6. Covered(f, e, buf, new)
  BY <1>3 DEF Covered
<1>. HIDE DEF e, s, buf, new
<1>7. r \in Seq(Answer) /\ Recent(t, f, r, c) /\ Standing(f, r, new, c, c)
  BY <1>3, <1>5, <1>6, OneMore
<1>. HIDE DEF r
<1>8. /\ answers' \in [Thread -> [Fn -> Seq(Answer)]] /\ answers'[t][f] = r
      /\ \A u \in Thread, g \in Fn : u # t \/ g # f => answers'[u][g] = answers[u][g]
  BY <1>1, <1>4, <1>7
<1>. QED  BY <1>7, <1>8 DEF new

\* What a step does not disturb stands as it stood.
LEMMA OtherStands ==
  ASSUME RotInv, NEW u \in Thread, NEW g \in Fn,
         calls'[u][g] = calls[u][g], answers'[u][g] = answers[u][g],
         bufArr'[u][g] = bufArr[u][g], doing'[u] = g <=> doing[u] = g
  PROVE  Stands(u, g)'
<1>1. Stands(u, g)
  BY DEF RotInv
<1>2. Last(u, g)' = Last(u, g)
  BY DEF Last
<1>. QED  BY <1>1, <1>2 DEF Stands

\* Before a call of f, all calls of f have been answered.
LEMMA AllAnswered ==
  ASSUME RotInv, NEW t \in Thread, NEW f \in Fn, doing[t] = NULL
  PROVE  /\ answers[t][f] \in Seq(Answer) /\ calls[t][f] \in Nat
         /\ Recent(t, f, answers[t][f], calls[t][f])
         /\ Standing(f, answers[t][f], bufArr[t][f], calls[t][f], calls[t][f] + 1)
<1>1. Typed /\ Stands(t, f)
  BY DEF RotInv
<1>2. Last(t, f) = calls[t][f] /\ calls[t][f] \in Nat /\ answers[t][f] \in Seq(Answer)
  BY <1>1, FnAssumption DEF Last, Typed
<1>3. /\ Recent(t, f, answers[t][f], calls[t][f])
      /\ Standing(f, answers[t][f], bufArr[t][f], calls[t][f], calls[t][f])
  BY <1>1, <1>2 DEF Stands
<1>4. Len(answers[t][f]) <= calls[t][f]
  BY <1>3 DEF Recent
<1>. QED  BY <1>2, <1>3, <1>4, StillStanding

\* A call that writes v to the buffer of its turn and answers it, or NULL.
LEMMA CalledOK ==
  ASSUME RotInv, NEW t \in Thread, NEW f \in Fn, Turn(t, f), UNCHANGED <<tm, doing>>,
         NEW v, Written(t, f, Slot(t, f), v),
         NEW shown \in Value, shown \in {v, NULL}, Answers(t, f, shown)
  PROVE  RotInv'
<1>. DEFINE c == calls'[t][f]
<1>1. Typed /\ Turn(t, f) /\ Answers(t, f, shown) /\ UNCHANGED <<tm, doing>>
  BY DEF RotInv
<1>2. /\ calls' \in [Thread -> [Fn -> Nat]] /\ count' \in [Thread -> [Fn -> Nat]]
      /\ c = calls[t][f] + 1
      /\ \A u \in Thread, g \in Fn : u # t \/ g # f => calls'[u][g] = calls[u][g]
      /\ \A u \in Thread, g \in Fn : count'[u][g] = calls'[u][g] % UintMod
      /\ doing[t] = NULL /\ Slot(t, f) = Place(f, c)
  BY <1>1, TurnOK
<1>3. /\ calls[t][f] \in Nat /\ Recent(t, f, answers[t][f], calls[t][f])
      /\ Standing(f, answers[t][f], bufArr[t][f], calls[t][f], calls[t][f] + 1)
  BY <1>2, AllAnswered
<1>21. calls[t][f] \in Nat /\ c = calls[t][f] + 1
  BY <1>2, <1>3
<1>6. Written(t, f, Place(f, c), v)
  BY <1>2
<1>. HIDE DEF c
<1>4. c \in Nat \ {0} /\ calls[t][f] = c - 1
  BY <1>21
<1>5. Place(f, c) \in 0..(NBufs[f] - 1)
  BY <1>4, PlaceInRange
<1>7. /\ DOMAIN bufArr' = Thread /\ \A u \in Thread : DOMAIN bufArr'[u] = Fn
      /\ \A u \in Thread, g \in Fn : DOMAIN bufArr'[u][g] = 0..(NBufs[g] - 1)
      /\ \A u \in Thread, g \in Fn : u # t \/ g # f => bufArr'[u][g] = bufArr[u][g]
      /\ bufArr'[t][f][Place(f, c)] = v
      /\ \A k \in 0..(NBufs[f] - 1) : k # Place(f, c) => bufArr'[t][f][k] = bufArr[t][f][k]
  BY <1>1, <1>5, <1>6, WriteOK
<1>8. /\ Recent(t, f, answers[t][f], c - 1)
      /\ Standing(f, answers[t][f], bufArr[t][f], c - 1, c)
  BY <1>2, <1>3, <1>4
<1>9. /\ answers' \in [Thread -> [Fn -> Seq(Answer)]]
      /\ \A u \in Thread, g \in Fn : u # t \/ g # f => answers'[u][g] = answers[u][g]
      /\ Recent(t, f, answers'[t][f], c)
      /\ Standing(f, answers'[t][f], bufArr'[t][f], c, c)
  BY <1>1, <1>2, <1>4, <1>5, <1>7, <1>8, AnswerOK DEF c
<1>10. Typed'
  BY <1>1, <1>2, <1>7, <1>9 DEF Typed
<1>11. Stands(t, f)'
  <2>1. Last(t, f)' = c
    BY <1>1, <1>2, FnAssumption DEF Last, c
  <2>. QED  BY <1>9, <2>1 DEF Stands, c
<1>12. ASSUME NEW u \in Thread, NEW g \in Fn, u # t \/ g # f
       PROVE  Stands(u, g)'
  BY <1>1, <1>2, <1>7, <1>9, <1>12, OtherStands
<1>. QED  BY <1>10, <1>11, <1>12 DEF RotInv

LEMMA CallOK ==
  ASSUME RotInv, NEW t \in Thread, NEW f \in Fn, Call(t, f) \/ CallFails(t, f)
  PROVE  RotInv'
<1>1. Turn(t, f) /\ UNCHANGED <<tm, doing>>
  BY DEF Call, CallFails
<1>2. CASE Call(t, f)
  <2>1. Written(t, f, Slot(t, f), Asked(t, f)) /\ Answers(t, f, Asked(t, f))
    BY <1>2 DEF Call, Written
  <2>2. calls'[t][f] \in Nat
    BY <1>1, TurnOK DEF RotInv
  <2>3. Asked(t, f) \in Value
    BY <2>2 DEF Asked, Value, Question
  <2>. QED  BY <1>1, <2>1, <2>3, CalledOK
<1>3. CASE CallFails(t, f)
  <2>1. Written(t, f, Slot(t, f), Garbage) /\ Answers(t, f, NULL)
    BY <1>3 DEF CallFails, Written
  <2>2. NULL \in Value
    BY DEF Value
  <2>. QED  BY <1>1, <2>1, <2>2, CalledOK
<1>. QED  BY <1>2, <1>3

LEMMA GmtimeOK ==
  ASSUME RotInv, NEW t \in Thread, NEW f \in Fn, Gmtime(t, f)
  PROVE  RotInv'
<1>1. /\ Typed /\ f \in Timed /\ Turn(t, f) /\ tm' = Asked(t, f)
      /\ doing' = [doing EXCEPT ![t] = f] /\ UNCHANGED <<bufArr, answers>>
  BY DEF Gmtime, RotInv
<1>2. /\ calls' \in [Thread -> [Fn -> Nat]] /\ count' \in [Thread -> [Fn -> Nat]]
      /\ calls'[t][f] = calls[t][f] + 1
      /\ \A u \in Thread, g \in Fn : u # t \/ g # f => calls'[u][g] = calls[u][g]
      /\ \A u \in Thread, g \in Fn : count'[u][g] = calls'[u][g] % UintMod
      /\ doing[t] = NULL
  BY <1>1, TurnOK
<1>3. /\ calls[t][f] \in Nat /\ Recent(t, f, answers[t][f], calls[t][f])
      /\ Standing(f, answers[t][f], bufArr[t][f], calls[t][f], calls[t][f] + 1)
  BY <1>2, AllAnswered
<1>4. /\ doing \in [Thread -> Timed \cup {NULL}] /\ doing' \in [Thread -> Timed \cup {NULL}]
      /\ doing'[t] = f /\ \A u \in Thread : u # t => doing'[u] = doing[u]
  BY <1>1 DEF Typed
<1>5. tm' \in Value
  BY <1>1, <1>2 DEF Asked, Value, Question
<1>6. Typed'
  BY <1>1, <1>2, <1>4, <1>5 DEF Typed
<1>7. Stands(t, f)'
  <2>1. calls[t][f] \in Nat /\ calls'[t][f] = calls[t][f] + 1
    BY <1>2, <1>3
  <2>2. calls'[t][f] - 1 = calls[t][f]
    BY <2>1
  <2>3. Last(t, f)' = calls[t][f]
    BY <1>4, <2>2 DEF Last
  <2>. QED  BY <1>1, <1>2, <1>3, <2>3 DEF Stands
<1>8. ASSUME NEW u \in Thread, NEW g \in Fn, u # t \/ g # f
      PROVE  Stands(u, g)'
  <2>1. doing'[u] = g <=> doing[u] = g
    BY <1>2, <1>4, <1>8, FnAssumption
  <2>. QED  BY <1>1, <1>2, <1>8, <2>1, OtherStands
<1>. QED  BY <1>6, <1>7, <1>8 DEF RotInv

LEMMA GmtimeFailsOK ==
  ASSUME RotInv, NEW t \in Thread, NEW f \in Fn, GmtimeFails(t, f)
  PROVE  RotInv'
<1>. DEFINE c == calls'[t][f]
<1>1. Typed /\ Turn(t, f) /\ Answers(t, f, NULL) /\ UNCHANGED <<bufArr, tm, doing>>
  BY DEF GmtimeFails, RotInv
<1>2. /\ calls' \in [Thread -> [Fn -> Nat]] /\ count' \in [Thread -> [Fn -> Nat]]
      /\ c = calls[t][f] + 1
      /\ \A u \in Thread, g \in Fn : u # t \/ g # f => calls'[u][g] = calls[u][g]
      /\ \A u \in Thread, g \in Fn : count'[u][g] = calls'[u][g] % UintMod
      /\ doing[t] = NULL /\ Slot(t, f) = Place(f, c)
  BY <1>1, TurnOK
<1>3. /\ calls[t][f] \in Nat /\ Recent(t, f, answers[t][f], calls[t][f])
      /\ Standing(f, answers[t][f], bufArr[t][f], calls[t][f], calls[t][f] + 1)
  BY <1>2, AllAnswered
<1>4. calls[t][f] \in Nat /\ c = calls[t][f] + 1
  BY <1>2, <1>3
<1>. HIDE DEF c
<1>5. c \in Nat \ {0} /\ calls[t][f] = c - 1
  BY <1>4
<1>6. /\ Recent(t, f, answers[t][f], c - 1)
      /\ Standing(f, answers[t][f], bufArr[t][f], c - 1, c)
  BY <1>2, <1>3, <1>5
<1>7. /\ NULL \in Value
      /\ \A k \in 0..(NBufs[f] - 1) : k # Place(f, c) => bufArr'[t][f][k] = bufArr[t][f][k]
  BY <1>1 DEF Value
<1>8. /\ answers' \in [Thread -> [Fn -> Seq(Answer)]]
      /\ \A u \in Thread, g \in Fn : u # t \/ g # f => answers'[u][g] = answers[u][g]
      /\ Recent(t, f, answers'[t][f], c)
      /\ Standing(f, answers'[t][f], bufArr'[t][f], c, c)
  BY <1>1, <1>2, <1>5, <1>6, <1>7, AnswerOK DEF c
<1>9. Typed'
  BY <1>1, <1>2, <1>8 DEF Typed
<1>10. Stands(t, f)'
  <2>1. Last(t, f)' = c
    BY <1>1, <1>2, FnAssumption DEF Last, c
  <2>. QED  BY <1>8, <2>1 DEF Stands, c
<1>11. ASSUME NEW u \in Thread, NEW g \in Fn, u # t \/ g # f
       PROVE  Stands(u, g)'
  BY <1>1, <1>2, <1>8, <1>11, OtherStands
<1>. QED  BY <1>9, <1>10, <1>11 DEF RotInv

\* strftime() answers what it has written to the buffer, or NULL.
LEMMA FinishOK ==
  ASSUME RotInv, NEW t \in Thread, NEW f \in Fn, doing[t] = f, UNCHANGED <<count, calls, tm>>,
         NEW v, Written(t, f, Slot(t, f), v),
         NEW shown \in Value, shown \in {v, NULL}, Answers(t, f, shown),
         doing' = [doing EXCEPT ![t] = NULL]
  PROVE  RotInv'
<1>. DEFINE c == calls[t][f]
<1>1. Typed /\ Stands(t, f)
  BY DEF RotInv
<1>2. calls[t][f] \in Nat /\ answers[t][f] \in Seq(Answer)
  BY <1>1 DEF Typed
<1>3. /\ Recent(t, f, answers[t][f], c - 1)
      /\ Standing(f, answers[t][f], bufArr[t][f], c - 1, c)
  BY <1>1 DEF Stands, Last
<1>4. Len(answers[t][f]) \in Nat /\ Len(answers[t][f]) <= c - 1
  BY <1>2, <1>3 DEF Recent
<1>5. c \in Nat \ {0}
  BY <1>2, <1>4
<1>6. Slot(t, f) = Place(f, c) /\ calls'[t][f] = c
  BY <1>1 DEF Slot, Place, Typed
<1>. HIDE DEF c
<1>7. Place(f, c) \in 0..(NBufs[f] - 1) /\ Written(t, f, Place(f, c), v)
  BY <1>5, <1>6, PlaceInRange
<1>8. /\ DOMAIN bufArr' = Thread /\ \A u \in Thread : DOMAIN bufArr'[u] = Fn
      /\ \A u \in Thread, g \in Fn : DOMAIN bufArr'[u][g] = 0..(NBufs[g] - 1)
      /\ \A u \in Thread, g \in Fn : u # t \/ g # f => bufArr'[u][g] = bufArr[u][g]
      /\ bufArr'[t][f][Place(f, c)] = v
      /\ \A k \in 0..(NBufs[f] - 1) : k # Place(f, c) => bufArr'[t][f][k] = bufArr[t][f][k]
  BY <1>1, <1>7, WriteOK
<1>9. /\ answers' \in [Thread -> [Fn -> Seq(Answer)]]
      /\ \A u \in Thread, g \in Fn : u # t \/ g # f => answers'[u][g] = answers[u][g]
      /\ Recent(t, f, answers'[t][f], c)
      /\ Standing(f, answers'[t][f], bufArr'[t][f], c, c)
  BY <1>1, <1>3, <1>5, <1>6, <1>8, AnswerOK
<1>10. /\ doing \in [Thread -> Timed \cup {NULL}] /\ doing' \in [Thread -> Timed \cup {NULL}]
       /\ doing'[t] = NULL /\ \A u \in Thread : u # t => doing'[u] = doing[u]
  BY <1>1 DEF Typed
<1>11. Typed'
  BY <1>1, <1>8, <1>9, <1>10 DEF Typed
<1>12. Stands(t, f)'
  <2>1. Last(t, f)' = c
    BY <1>6, <1>10, FnAssumption DEF Last
  <2>. QED  BY <1>6, <1>9, <2>1 DEF Stands
<1>13. ASSUME NEW u \in Thread, NEW g \in Fn, u # t \/ g # f
       PROVE  Stands(u, g)'
  <2>1. doing'[u] = g <=> doing[u] = g
    BY <1>10, <1>13, FnAssumption
  <2>. QED  BY <1>8, <1>9, <1>13, <2>1, OtherStands
<1>. QED  BY <1>11, <1>12, <1>13 DEF RotInv

LEMMA StrftimeOK ==
  ASSUME RotInv, NEW t \in Thread, NEW f \in Fn, Strftime(t, f) \/ StrftimeFails(t, f)
  PROVE  RotInv'
<1>1. tm \in Value /\ Garbage \in Value /\ NULL \in Value
  BY DEF RotInv, Typed, Value
<1>2. CASE Strftime(t, f)
  <2>1. PICK v \in Value : Written(t, f, Slot(t, f), v) /\ Answers(t, f, v)
    BY <1>1, <1>2 DEF Strftime, Written
  <2>2. doing[t] = f /\ UNCHANGED <<count, calls, tm>> /\ doing' = [doing EXCEPT ![t] = NULL]
    BY <1>2 DEF Strftime
  <2>. QED  BY <2>1, <2>2, FinishOK
<1>3. CASE StrftimeFails(t, f)
  <2>1. Written(t, f, Slot(t, f), Garbage) /\ Answers(t, f, NULL)
    BY <1>3 DEF StrftimeFails, Written
  <2>2. doing[t] = f /\ UNCHANGED <<count, calls, tm>> /\ doing' = [doing EXCEPT ![t] = NULL]
    BY <1>3 DEF StrftimeFails
  <2>. QED  BY <1>1, <2>1, <2>2, FinishOK
<1>. QED  BY <1>2, <1>3

----------------------------------------------------------------------------
(* The theorems *)

LEMMA RotInit == Init => RotInv
<1>. SUFFICES ASSUME Init PROVE RotInv
  OBVIOUS
<1>1. UintMod \in Nat \ {0} /\ NBufs \in [Fn -> Nat \ {0}] /\ Timed \subseteq Fn
  BY FnAssumption
<1>2. /\ count = [t \in Thread |-> [f \in Fn |-> 0]] /\ calls = count
      /\ doing = [t \in Thread |-> NULL] /\ tm = Garbage
      /\ answers = [t \in Thread |-> [f \in Fn |-> <<>>]]
      /\ bufArr = [t \in Thread |-> [f \in Fn |-> [i \in 0..(NBufs[f] - 1) |-> Garbage]]]
  BY DEF Init
<1>3. 0 % UintMod = 0
  BY <1>1
<1>4. Typed
  BY <1>2, <1>3 DEF Typed, Value
<1>5. ASSUME NEW t \in Thread, NEW f \in Fn
      PROVE  Stands(t, f)
  <2>1. answers[t][f] = <<>> /\ calls[t][f] = 0 /\ doing[t] = NULL
    BY <1>2
  <2>2. Last(t, f) = 0
    BY <2>1, FnAssumption DEF Last
  <2>3. NBufs[f] \in Nat
    BY <1>1
  <2>4. Len(answers[t][f]) = 0
    BY <2>1
  <2>5. Recent(t, f, answers[t][f], 0)
    BY <2>3, <2>4 DEF Recent
  <2>6. Standing(f, answers[t][f], bufArr[t][f], 0, calls[t][f])
    BY <2>4 DEF Standing
  <2>. QED  BY <2>2, <2>5, <2>6 DEF Stands
<1>. QED  BY <1>4, <1>5 DEF RotInv

\* Every step of the functions keeps the buffers, the counts and the answers in
\* agreement (util.c:371-1120): the answers kept are those of the latest calls,
\* each at the buffer its turn gave it, undisturbed unless the count has wrapped.
THEOREM RotInvariant == Spec => []RotInv
<1>1. ASSUME RotInv, [Next]_vars
      PROVE  RotInv'
  <2>1. CASE UNCHANGED vars
    BY <1>1, <2>1 DEF RotInv, vars, Typed, Stands, Last, Recent, Standing, Fresh, Place
  <2>2. CASE Next
    <3>1. PICK t \in Thread, f \in Fn :
            \/ Call(t, f) \/ CallFails(t, f)
            \/ Gmtime(t, f) \/ GmtimeFails(t, f) \/ Strftime(t, f) \/ StrftimeFails(t, f)
      BY <2>2 DEF Next
    <3>. QED  BY <1>1, <3>1, CallOK, GmtimeOK, GmtimeFailsOK, StrftimeOK
  <2>. QED  BY <1>1, <2>1, <2>2
<1>. QED  BY <1>1, RotInit, PTL DEF Spec

\* As many answers of a function as it has buffers can be used at once
\* (util.c:421, 459), up to where its count wraps, for any number of threads,
\* functions and buffers, whether or not calls fail or race for the struct tm.
THEOREM LastAnswersStay == Spec => []LastAnswersStand
<1>1. ASSUME RotInv PROVE LastAnswersStand
  <2>. SUFFICES ASSUME NEW t \in Thread, NEW f \in Fn, NEW a \in Usable(t, f), a.shown # NULL
                PROVE  bufArr[t][f][a.slot] = a.shown
    BY DEF LastAnswersStand
  <2>. DEFINE s == answers[t][f]
  <2>1. Stands(t, f) /\ s \in Seq(Answer)
    BY <1>1 DEF RotInv, Typed
  <2>2. PICK i \in 1..Len(s) : a = s[i]
    BY <2>1 DEF Usable
  <2>3. UintMod % NBufs[f] = 0 \/ a.asked[3] >= UintMod * (calls[t][f] \div UintMod)
    BY DEF Usable
  <2>4. a.asked = <<t, f, Last(t, f) - Len(s) + i>>
    BY <2>1, <2>2 DEF Stands, Recent
  <2>5. Fresh(f, Last(t, f) - Len(s) + i, calls[t][f])
    BY <2>3, <2>4 DEF Fresh
  <2>. QED  BY <2>1, <2>2, <2>5 DEF Stands, Standing
<1>. QED  BY <1>1, RotInvariant, PTL

----------------------------------------------------------------------------
(* The time shown *)

\* The struct tm holds the time of the call that is about to print it, unless
\* another thread has filled it since.
TmInv ==
  /\ raced \in [Thread -> BOOLEAN]
  /\ \A t \in Thread : doing[t] # NULL /\ ~raced[t] => tm = <<t, doing[t], calls[t][doing[t]]>>

\* A call of one thread does not touch the calls of another, nor of one that is
\* under way.
LEMMA TurnLeaves ==
  ASSUME Typed, NEW t \in Thread, NEW f \in Fn, Turn(t, f),
         NEW u \in Thread, doing[u] # NULL
  PROVE  doing[t] = NULL /\ u # t /\ doing[u] \in Fn /\ calls'[u][doing[u]] = calls[u][doing[u]]
<1>1. doing[t] = NULL /\ u # t
  BY DEF Turn
<1>2. doing[u] \in Fn
  BY FnAssumption DEF Typed
<1>. QED  BY <1>1, <1>2, TurnOK

LEMMA TmStep ==
  ASSUME Typed, TmInv, [Next]_vars
  PROVE  TmInv'
<1>1. CASE UNCHANGED vars
  BY <1>1 DEF TmInv, vars
<1>2. ASSUME NEW t \in Thread, NEW f \in Fn, Call(t, f) \/ CallFails(t, f) \/ GmtimeFails(t, f)
      PROVE  TmInv'
  <2>1. Turn(t, f) /\ UNCHANGED <<tm, doing, raced>>
    BY <1>2 DEF Call, CallFails, GmtimeFails
  <2>. QED  BY <2>1, TurnLeaves DEF TmInv
<1>3. ASSUME NEW t \in Thread, NEW f \in Fn, Gmtime(t, f)
      PROVE  TmInv'
  <2>1. /\ Turn(t, f) /\ tm' = Asked(t, f) /\ doing' = [doing EXCEPT ![t] = f]
        /\ raced' = [u \in Thread |-> u # t /\ doing[u] # NULL]
    BY <1>3 DEF Gmtime
  <2>2. doing'[t] = f /\ \A u \in Thread : u # t => doing'[u] = doing[u]
    BY <2>1 DEF Typed
  <2>3. raced' \in [Thread -> BOOLEAN]
    BY <2>1
  <2>4. \A u \in Thread : doing'[u] # NULL /\ ~raced'[u] => u = t
    BY <2>1, <2>2
  <2>. QED  BY <2>1, <2>2, <2>3, <2>4 DEF TmInv, Asked
<1>4. ASSUME NEW t \in Thread, NEW f \in Fn, Strftime(t, f) \/ StrftimeFails(t, f)
      PROVE  TmInv'
  <2>1. /\ UNCHANGED <<calls, tm>> /\ doing' = [doing EXCEPT ![t] = NULL]
        /\ raced' = [raced EXCEPT ![t] = FALSE]
    BY <1>4 DEF Strftime, StrftimeFails
  <2>2. doing'[t] = NULL /\ \A u \in Thread : u # t => doing'[u] = doing[u]
    BY <2>1 DEF Typed
  <2>3. raced' \in [Thread -> BOOLEAN] /\ \A u \in Thread : u # t => raced'[u] = raced[u]
    BY <2>1 DEF TmInv
  <2>. QED  BY <2>1, <2>2, <2>3 DEF TmInv
<1>. QED  BY <1>1, <1>2, <1>3, <1>4 DEF Next

\* The answer that has just been given is the last of those kept, and the only
\* one that is new.
LEMMA LastIsNew ==
  ASSUME Typed, NEW t \in Thread, NEW f \in Fn, NEW shown, shown \in Value, Answers(t, f, shown),
         Turn(t, f) \/ (doing[t] = f /\ UNCHANGED <<count, calls>>)
  PROVE  /\ answers'[t][f][Len(answers'[t][f])].shown = shown
         /\ answers'[t][f][Len(answers'[t][f])].asked = Asked(t, f)
         /\ \A u \in Thread, g \in Fn : u # t \/ g # f => answers'[u][g] = answers[u][g]
<1>. DEFINE e == [slot |-> Slot(t, f), asked |-> Asked(t, f), shown |-> shown]
            s == answers[t][f]  r == Joined(f, s, e)  n == NBufs[f]
<1>1. answers \in [Thread -> [Fn -> Seq(Answer)]] /\ n \in Nat \ {0}
  BY FnAssumption DEF Typed
<1>2. answers' = [answers EXCEPT ![t][f] = r]
  BY DEF Answers, Joined
<1>3. s \in Seq(Answer) /\ e.shown = shown /\ e.asked = Asked(t, f)
  BY <1>1
<1>4. calls'[t][f] \in Nat
  <2>1. CASE Turn(t, f)
    BY <2>1, TurnOK
  <2>2. CASE UNCHANGED calls
    BY <2>2 DEF Typed
  <2>. QED  BY <2>1, <2>2
<1>5. Slot(t, f) \in Nat
  <2>1. count'[t][f] \in Nat
    <3>1. CASE Turn(t, f)
      BY <3>1, TurnOK
    <3>2. CASE UNCHANGED count
      BY <3>2 DEF Typed
    <3>. QED  BY <3>1, <3>2
  <2>2. NBufs[f] \in Nat \ {0}
    BY <1>1
  <2>3. count'[t][f] % NBufs[f] \in 0..(NBufs[f] - 1)
    BY <2>1, <2>2, Division
  <2>. QED  BY <2>2, <2>3 DEF Slot
<1>6. e \in Answer
  BY <1>4, <1>5 DEF Answer, Asked, Question
<1>. HIDE DEF e, s, n
<1>7. r \in Seq(Answer) /\ r[Len(r)] = e
  <2>. DEFINE a == Append(s, e)
  <2>1. a \in Seq(Answer) /\ Len(a) \in Nat /\ Len(a) >= 1 /\ a[Len(a)] = e
    BY <1>3, <1>6
  <2>. HIDE DEF a
  <2>2. CASE Len(a) > n
    <3>1. r = Tail(a) /\ Len(a) >= 2
      BY <1>1, <2>1, <2>2 DEF Joined, Keep, a, n
    <3>. HIDE DEF r
    <3>2. r \in Seq(Answer) /\ Len(r) = Len(a) - 1 /\ Len(r) >= 1 /\ r[Len(r)] = a[Len(r) + 1]
      BY <2>1, <3>1
    <3>. QED  BY <2>1, <3>2
  <2>3. CASE ~(Len(a) > n)
    BY <2>1, <2>3 DEF Joined, Keep, a, n
  <2>. QED  BY <2>2, <2>3
<1>. HIDE DEF r
<1>8. /\ answers'[t][f] = r
      /\ \A u \in Thread, g \in Fn : u # t \/ g # f => answers'[u][g] = answers[u][g]
  BY <1>1, <1>2
<1>. QED  BY <1>3, <1>7, <1>8

\* A time shown is the time asked for, or the call has failed, or another thread
\* has asked for a time between the two library calls (util.c:392, 429): what an
\* answer shows is never taken from another call of the same thread, nor from an
\* earlier one.
THEOREM TimesAreShownAsAsked == Spec => ShownAsAsked
<1>1. Init => TmInv
  BY DEF Init, TmInv
<1>2. RotInv /\ TmInv /\ [Next]_vars => TmInv'
  BY TmStep DEF RotInv
<1>3. ASSUME Typed, TmInv, [Next]_vars, NEW t \in Thread, NEW f \in Fn,
             answers'[t][f] # answers[t][f]
      PROVE  LET a == answers'[t][f][Len(answers'[t][f])]
             IN  a.shown \in {NULL, a.asked} \/ raced[t]
  <2>. USE DEF Value
  <2>1. CASE UNCHANGED vars
    BY <1>3, <2>1 DEF vars
  <2>2. ASSUME NEW u \in Thread, NEW g \in Fn, Call(u, g) \/ CallFails(u, g) \/ GmtimeFails(u, g)
        PROVE  \E shown \in {NULL, Asked(u, g)} : Answers(u, g, shown) /\ Turn(u, g)
    BY <2>2 DEF Call, CallFails, GmtimeFails
  <2>3. ASSUME NEW u \in Thread, NEW g \in Fn, Strftime(u, g) \/ StrftimeFails(u, g)
        PROVE  /\ doing[u] = g /\ UNCHANGED <<count, calls>>
               /\ \E shown \in {NULL, Garbage, tm} :
                    Answers(u, g, shown) /\ (shown \in {NULL, tm} \/ raced[u])
    BY <2>3 DEF Strftime, StrftimeFails
  <2>4. ASSUME NEW u \in Thread, NEW g \in Fn, Gmtime(u, g)
        PROVE  FALSE
    BY <1>3, <2>4 DEF Gmtime
  <2>5. ASSUME NEW u \in Thread, NEW g \in Fn, Call(u, g) \/ CallFails(u, g) \/ GmtimeFails(u, g)
        PROVE  LET a == answers'[t][f][Len(answers'[t][f])]
               IN  a.shown \in {NULL, a.asked} \/ raced[t]
    <3>1. PICK shown \in {NULL, Asked(u, g)} : Answers(u, g, shown) /\ Turn(u, g)
      BY <2>2, <2>5
    <3>2. calls'[u][g] \in Nat
      BY <1>3, <3>1, TurnOK
    <3>3. shown \in Value
      BY <3>1, <3>2 DEF Asked, Question
    <3>4. /\ answers'[u][g][Len(answers'[u][g])].shown = shown
          /\ answers'[u][g][Len(answers'[u][g])].asked = Asked(u, g)
          /\ t = u /\ f = g
      BY <1>3, <3>1, <3>3, LastIsNew
    <3>. QED  BY <3>1, <3>4
  <2>6. ASSUME NEW u \in Thread, NEW g \in Fn, Strftime(u, g) \/ StrftimeFails(u, g)
        PROVE  LET a == answers'[t][f][Len(answers'[t][f])]
               IN  a.shown \in {NULL, a.asked} \/ raced[t]
    <3>1. doing[u] = g /\ UNCHANGED <<count, calls>>
      BY <2>3, <2>6
    <3>2. PICK shown \in {NULL, Garbage, tm} :
            Answers(u, g, shown) /\ (shown \in {NULL, tm} \/ raced[u])
      BY <2>3, <2>6
    <3>3. shown \in Value
      BY <1>3, <3>2 DEF Typed
    <3>4. /\ answers'[u][g][Len(answers'[u][g])].shown = shown
          /\ answers'[u][g][Len(answers'[u][g])].asked = Asked(u, g)
          /\ t = u /\ f = g
      BY <1>3, <3>1, <3>2, <3>3, LastIsNew
    <3>5. g # NULL
      BY FnAssumption
    <3>6. ~raced[u] => tm = Asked(u, g)
      BY <1>3, <3>1, <3>5 DEF TmInv, Asked
    <3>. QED  BY <3>2, <3>4, <3>6
  <2>. QED  BY <1>3, <2>1, <2>4, <2>5, <2>6 DEF Next
<1>4. RotInv /\ TmInv /\ [Next]_vars =>
        [\A t \in Thread, f \in Fn : answers'[t][f] # answers[t][f] =>
           LET a == answers'[t][f][Len(answers'[t][f])]
           IN  a.shown \in {NULL, a.asked} \/ raced[t]]_vars
  BY <1>3 DEF RotInv
<1>. QED  BY <1>1, <1>2, <1>4, RotInvariant, PTL DEF Spec, ShownAsAsked
=============================================================================
