------------------------ MODULE TerminalReplayProofs ------------------------
(***************************************************************************)
(* Proofs about TerminalReplay: what is on the screen is the stream, and   *)
(* the size settles, for every size of the ring, every amount of output    *)
(* and any number of connections.                                          *)
(*                                                                         *)
(* First the ring: where (from + k - 1) % m lands when bytes are pushed,   *)
(* and that push() keeps the newest bytes through growth, wrap and         *)
(* overflow. Then the stream: f counts it after each frame on its way to   *)
(* the window (Walks), and the replay that setImmediate still has to send  *)
(* covers the rest (Due). Last the size: one repaint per channel, and the  *)
(* last resize under way has the height of the window.                     *)
(***************************************************************************)
EXTENDS TerminalReplay, SequenceTheorems, NaturalsInduction, WellFoundedInduction, TLAPS

\* A set of numbers that is not empty has a least one: what stands in for
\* induction.
LEMMA LeastNumber ==
  ASSUME NEW T, T \subseteq Nat, T # {}
  PROVE  \E n \in T : \A m \in T : n <= m
<1> DEFINE R == OpToRel(<, Nat)
<1>1. PICK x \in T : \A y \in T : ~(<<y, x>> \in R)
  <2>1. IsWellFoundedOn(R, Nat)
    BY NatLessThanWellFounded
  <2> HIDE DEF R
  <2> QED BY <2>1, WFMin
<1>2. \A y \in T : <<y, x>> \in R <=> y < x
  BY DEF OpToRel
<1>3. \A y \in T : ~(y < x)
  <2> HIDE DEF R
  <2> QED BY <1>1, <1>2
<1>4. x \in Nat /\ \A y \in T : y \in Nat
  OBVIOUS
<1>5. \A y \in T : x <= y
  BY <1>3, <1>4
<1> QED BY <1>5

\* What holds of 0 and carries over from k to k + 1, up to n, holds up to n.
LEMMA UpTo ==
  ASSUME NEW n \in Nat, NEW T, 0 \in T,
         \A k \in 0..n : k \in T /\ k < n => k + 1 \in T
  PROVE  \A k \in 0..n : k \in T
<1> SUFFICES ASSUME NEW j \in 0..n, j \notin T PROVE FALSE
  OBVIOUS
<1> DEFINE U == {k \in 0..n : k \notin T}
<1>1. PICK k \in U : \A m \in U : k <= m
  <2>1. U \subseteq Nat /\ U # {}
    OBVIOUS
  <2> HIDE DEF U
  <2> QED BY <2>1, LeastNumber
<1>2. k # 0 /\ k - 1 \in 0..n /\ k - 1 \notin U
  BY <1>1
<1> QED BY <1>2

\* Math.min of two.
LEMMA MinOfTwo ==
  ASSUME NEW a \in Int, NEW b \in Int
  PROVE  Min({a, b}) = IF a <= b THEN a ELSE b
BY DEF Min

\* Math.max of two.
LEMMA MaxOfTwo ==
  ASSUME NEW a \in Int, NEW b \in Int
  PROVE  Max({a, b}) = IF a >= b THEN a ELSE b
BY DEF Max

\* x % m for an x that is at most once round.
LEMMA OneRound ==
  ASSUME NEW m \in Nat \ {0}, NEW x \in 0..(2 * m - 1)
  PROVE  x % m = IF x < m THEN x ELSE x - m
OBVIOUS

\* x % m for an x that is at most once behind.
LEMMA RoundBack ==
  ASSUME NEW m \in Nat \ {0}, NEW x \in -m..(m - 1)
  PROVE  x % m = IF x < 0 THEN x + m ELSE x
OBVIOUS

\* d is the doubling of Grown for w bytes, from s upwards.
Doubling(d, w, s) ==
  \A x \in s..Limit : d[x] = IF w > x /\ x < Limit THEN d[Min({Limit, 2 * x})] ELSE x

\* A doubling that stops at the limit grows.
LEMMA NextSize ==
  ASSUME RingAssumption, NEW x \in 1..Limit, x < Limit
  PROVE  Min({Limit, 2 * x}) \in (x + 1)..Limit
<1>1. Limit \in Int /\ 2 * x \in Int
  BY DEF RingAssumption
<1> QED BY <1>1, MinOfTwo DEF RingAssumption

\* The recursion of grow() defines a function: every size below the limit is
\* followed by a greater one.
LEMMA DoublingExists ==
  ASSUME RingAssumption, NEW w \in Nat
  PROVE  \E d : d = [x \in 1..Limit |-> IF w > x /\ x < Limit THEN d[Min({Limit, 2 * x})] ELSE x]
<1> DEFINE N == Limit - 1
           T == {m \in 0..N : \E d : d \in [(Limit - m)..Limit -> 1..Limit] /\ Doubling(d, w, Limit - m)}
<1>0. N \in Nat /\ Limit \in Nat \ {0}
  BY DEF RingAssumption
<1>1. 0 \in T
  <2> DEFINE d == [x \in Limit..Limit |-> x]
  <2>1. d \in [Limit..Limit -> 1..Limit] /\ Limit - 0 = Limit
    BY <1>0
  <2>2. Doubling(d, w, Limit)
    BY <1>0 DEF Doubling
  <2> QED BY <1>0, <2>1, <2>2
<1>2. ASSUME NEW m \in 0..N, m \in T, m < N PROVE m + 1 \in T
  <2> DEFINE a == Limit - m
             b == Limit - (m + 1)
  <2>0. a \in 1..Limit /\ b \in 1..Limit /\ a = b + 1 /\ b < Limit
    BY <1>0, <1>2
  <2>1. PICK d : d \in [a..Limit -> 1..Limit] /\ Doubling(d, w, a)
    BY <1>2
  <2> HIDE DEF a, b
  <2> DEFINE y == IF w > b THEN d[Min({Limit, 2 * b})] ELSE b
             e == [x \in b..Limit |-> IF x = b THEN y ELSE d[x]]
  <2>2. Min({Limit, 2 * b}) \in a..Limit
    BY <2>0, NextSize
  <2>3. y \in 1..Limit
    BY <2>0, <2>1, <2>2
  <2> HIDE DEF y
  <2>4. e \in [b..Limit -> 1..Limit]
    BY <2>0, <2>1, <2>3
  <2>5. \A x \in a..Limit : x \in b..Limit /\ x # b /\ e[x] = d[x]
    BY <2>0
  <2>6. e[b] = y /\ b \in b..Limit
    BY <2>0
  <2> HIDE DEF e
  <2>7. ASSUME NEW x \in b..Limit
        PROVE  e[x] = IF w > x /\ x < Limit THEN e[Min({Limit, 2 * x})] ELSE x
    <3>1. CASE x = b
      BY <2>0, <2>2, <2>5, <2>6, <3>1 DEF y
    <3>2. CASE x # b
      <4>1. x \in a..Limit /\ x \in 1..Limit
        BY <2>0, <3>2
      <4>2. x < Limit => Min({Limit, 2 * x}) \in a..Limit
        BY <2>0, <4>1, NextSize
      <4>3. d[x] = IF w > x /\ x < Limit THEN d[Min({Limit, 2 * x})] ELSE x
        BY <2>1, <4>1 DEF Doubling
      <4> QED BY <2>5, <4>1, <4>2, <4>3
    <3> QED BY <3>1, <3>2
  <2>8. Doubling(e, w, b)
    BY <2>7 DEF Doubling
  <2> QED BY <1>2, <2>4, <2>8 DEF b
<1>3. N \in T
  <2>1. \A m \in 0..N : m \in T /\ m < N => m + 1 \in T
    BY <1>2
  <2>2. \A m \in 0..N : m \in T
    <3> HIDE DEF T, N
    <3> QED BY <1>0, <1>1, <2>1, UpTo
  <2> QED BY <1>0, <2>2, SMTT(30)
<1>4. PICK d : d \in [1..Limit -> 1..Limit] /\ Doubling(d, w, 1)
  <2>1. Limit - N = 1
    BY <1>0
  <2> QED BY <1>3, <2>1
<1>5. d = [x \in 1..Limit |-> d[x]]
  BY <1>4
<1>6. d = [x \in 1..Limit |-> IF w > x /\ x < Limit THEN d[Min({Limit, 2 * x})] ELSE x]
  BY <1>4, <1>5 DEF Doubling
<1> QED BY <1>6

\* grow(): the ring has room for n more bytes, or is as large as it gets.
LEMMA GrownType ==
  ASSUME RingAssumption, capacity \in First..Limit, len \in Nat, NEW n \in Nat
  PROVE  Grown(n) \in capacity..Limit /\ (Grown(n) >= len + n \/ Grown(n) = Limit)
<1> DEFINE w == len + n
           d == CHOOSE f : f = [x \in 1..Limit |-> IF w > x /\ x < Limit THEN f[Min({Limit, 2 * x})] ELSE x]
           N == Limit - 1
           Good(x) == d[x] \in x..Limit /\ (d[x] >= w \/ d[x] = Limit)
           T == {m \in 0..N : \A x \in (Limit - m)..Limit : Good(x)}
<1>0. N \in Nat /\ Limit \in Nat \ {0} /\ w \in Nat /\ capacity \in 1..Limit
  BY DEF RingAssumption
<1>1. d = [x \in 1..Limit |-> IF w > x /\ x < Limit THEN d[Min({Limit, 2 * x})] ELSE x]
  <2> HIDE DEF w
  <2> QED BY <1>0, DoublingExists
<1>2. Grown(n) = d[capacity]
  BY DEF Grown
<1> HIDE DEF d, w
<1>3. \A x \in 1..Limit : d[x] = IF w > x /\ x < Limit THEN d[Min({Limit, 2 * x})] ELSE x
  BY <1>1
<1>4. Good(Limit)
  <2>1. Limit \in 1..Limit /\ ~(Limit < Limit)
    BY <1>0
  <2>2. d[Limit] = IF w > Limit /\ Limit < Limit THEN d[Min({Limit, 2 * Limit})] ELSE Limit
    BY <1>3, <2>1
  <2> QED BY <1>0, <2>1, <2>2
<1>5. 0 \in T
  BY <1>0, <1>4
<1>6. ASSUME NEW m \in 0..N, m \in T, m < N PROVE m + 1 \in T
  <2> DEFINE b == Limit - (m + 1)
  <2>0. b \in 1..Limit /\ b < Limit /\ Limit - m = b + 1
    BY <1>0, <1>6
  <2> HIDE DEF b
  <2>1. \A x \in (b + 1)..Limit : Good(x)
    BY <1>6, <2>0
  <2>2. Good(b)
    <3>1. Min({Limit, 2 * b}) \in (b + 1)..Limit
      BY <2>0, NextSize
    <3>2. Good(Min({Limit, 2 * b}))
      BY <2>1, <3>1
    <3> DEFINE z == Min({Limit, 2 * b})
    <3>3. d[b] = IF w > b THEN d[z] ELSE b
      BY <1>3, <2>0
    <3> HIDE DEF z
    <3> QED BY <1>0, <2>0, <3>1, <3>2, <3>3 DEF z
  <2>3. \A x \in b..Limit : x = b \/ x \in (b + 1)..Limit
    BY <2>0
  <2>4. \A x \in b..Limit : Good(x)
    BY <2>1, <2>2, <2>3
  <2> QED BY <1>6, <2>4 DEF b
<1>7. N \in T
  <2>1. \A m \in 0..N : m \in T /\ m < N => m + 1 \in T
    BY <1>6
  <2>2. \A m \in 0..N : m \in T
    <3> HIDE DEF T, N
    <3> QED BY <1>0, <1>5, <2>1, UpTo
  <2> QED BY <1>0, <2>2
<1>8. Good(capacity)
  <2>1. Limit - N = 1
    BY <1>0
  <2> QED BY <1>0, <1>7, <2>1
<1> QED BY <1>2, <1>8 DEF w

\* Where x is on a ring of m.
Round(x, m) == x % m

\* One time round at most.
LEMMA RoundOnce ==
  ASSUME NEW m \in Nat \ {0}, NEW x \in 0..(2 * m - 1)
  PROVE  Round(x, m) = IF x < m THEN x ELSE x - m
BY OneRound DEF Round

\* One time back at most.
LEMMA RoundBehind ==
  ASSUME NEW m \in Nat \ {0}, NEW x \in (-m)..(m - 1)
  PROVE  Round(x, m) = IF x < 0 THEN x + m ELSE x
BY RoundBack DEF Round

\* Every number has a place on the ring.
LEMMA RoundType ==
  ASSUME NEW m \in Nat \ {0}, NEW x \in Int
  PROVE  Round(x, m) \in 0..(m - 1)
BY DEF Round

\* j is the place of byte k of a ring of m that holds l bytes from `from` on
\* and is given n more, which go to `tail`.
Placed(m, from, l, n, k, tail, j) ==
  /\ m \in Nat \ {0} /\ from \in 0..(m - 1) /\ l \in Nat /\ n \in Nat /\ l + n <= m
  /\ k \in 1..(l + n) /\ tail = Round(from + l, m) /\ j = Round(from + k - 1, m)

\* How far such a place is from the tail.
Landed(m, l, k, tail, j) ==
  /\ j \in 0..(m - 1) /\ tail \in 0..(m - 1)
  /\ k > l => Round(j - tail, m) = k - 1 - l
  /\ k <= l => Round(j - tail, m) = k - 1 - l + m

\* Where a byte written at the tail lands, and where the ones before it are.
LEMMA RingIndex ==
  ASSUME NEW m, NEW from, NEW l, NEW n, NEW k, NEW tail, NEW j, Placed(m, from, l, n, k, tail, j)
  PROVE  Landed(m, l, k, tail, j)
<1>0. /\ m \in Nat \ {0} /\ from \in 0..(m - 1) /\ l \in Nat /\ n \in Nat /\ l + n <= m
      /\ k \in 1..(l + n) /\ tail = Round(from + l, m) /\ j = Round(from + k - 1, m)
  BY DEF Placed
<1>1. tail = IF from + l < m THEN from + l ELSE from + l - m
  <2> DEFINE x == from + l
  <2>1. x \in 0..(2 * m - 1)
    BY <1>0
  <2>2. Round(x, m) = IF x < m THEN x ELSE x - m
    <3> HIDE DEF x
    <3> QED BY <1>0, <2>1, RoundOnce
  <2> QED BY <1>0, <2>2
<1>2. j = IF from + k - 1 < m THEN from + k - 1 ELSE from + k - 1 - m
  <2> DEFINE x == from + k - 1
  <2>1. x \in 0..(2 * m - 1)
    BY <1>0
  <2>2. Round(x, m) = IF x < m THEN x ELSE x - m
    <3> HIDE DEF x
    <3> QED BY <1>0, <2>1, RoundOnce
  <2> QED BY <1>0, <2>2
<1>3. j \in 0..(m - 1) /\ tail \in 0..(m - 1)
  BY <1>0, <1>1, <1>2
<1> DEFINE d == k - 1 - l
           x == j - tail
<1>4. d \in Int /\ x \in Int /\ (x = d \/ x = d - m \/ x = d + m) /\ x < m /\ x > -m
  BY <1>0, <1>1, <1>2
<1>5. Round(x, m) = IF x < 0 THEN x + m ELSE x
  <2>1. x \in (-m)..(m - 1)
    BY <1>0, <1>4
  <2> HIDE DEF x
  <2> QED BY <1>0, <2>1, RoundBehind
<1> HIDE DEF x
<1>6. /\ k > l => Round(x, m) = d
      /\ k <= l => Round(x, m) = d + m
  BY <1>0, <1>4, <1>5
<1> QED BY <1>3, <1>6 DEF x, Landed

\* From h, a places on a ring of m and then k more are less than a round.
Stepping(m, h, a, k) ==
  m \in Nat \ {0} /\ h \in 0..(m - 1) /\ a \in Nat /\ k \in Nat \ {0} /\ a + k <= m

\* To step on from a step is to step on from where that was taken.
LEMMA RingShift ==
  ASSUME NEW m, NEW h, NEW a, NEW k, Stepping(m, h, a, k)
  PROVE  Round(Round(h + a, m) + k - 1, m) = Round(h + (a + k) - 1, m)
<1> SUFFICES ASSUME m \in Nat \ {0}, h \in 0..(m - 1), a \in Nat, k \in Nat \ {0}, a + k <= m
             PROVE  Round(Round(h + a, m) + k - 1, m) = Round(h + (a + k) - 1, m)
  BY DEF Stepping
<1> DEFINE f == Round(h + a, m)
<1>1. f = IF h + a < m THEN h + a ELSE h + a - m
  <2>1. h + a \in 0..(2 * m - 1)
    OBVIOUS
  <2> QED BY <2>1, RoundOnce
<1>2. Round(h + (a + k) - 1, m) = IF h + (a + k) - 1 < m THEN h + (a + k) - 1 ELSE h + (a + k) - 1 - m
  <2>1. h + (a + k) - 1 \in 0..(2 * m - 1)
    OBVIOUS
  <2> QED BY <2>1, RoundOnce
<1> HIDE DEF f
<1>3. Round(f + k - 1, m) = IF f + k - 1 < m THEN f + k - 1 ELSE f + k - 1 - m
  <2> DEFINE x == f + k - 1
  <2>1. x \in 0..(2 * m - 1)
    BY <1>1
  <2>2. Round(x, m) = IF x < m THEN x ELSE x - m
    <3> HIDE DEF x
    <3> QED BY <2>1, RoundOnce
  <2>3. x = f + k - 1 /\ f \in Int
    BY <1>1
  <2> HIDE DEF x
  <2> QED BY <2>1, <2>2, <2>3
<1> QED BY <1>1, <1>2, <1>3 DEF f

\* What the ring holds, byte by byte.
LEMMA RingHolds ==
  ASSUME RingAssumption, RingTypeOK, HoldsTheTail
  PROVE  /\ len = IF Limit <= end THEN Limit ELSE end
         /\ \A k \in 1..len : contents[k] = end - len + k
         /\ start \in 0..end /\ len \in Nat /\ end \in Nat /\ DOMAIN contents = 1..len
<1>1. Limit \in Int /\ end \in Int /\ len \in Nat /\ end \in Nat
  BY DEF RingAssumption, RingTypeOK
<1>2. len = IF Limit <= end THEN Limit ELSE end
  BY <1>1, MinOfTwo DEF HoldsTheTail
<1>3. contents = [k \in 1..len |-> end - len + k] /\ DOMAIN contents = 1..len
  BY DEF HoldsTheTail, contents
<1>4. start = end - len
  BY DEF start
<1> HIDE DEF contents, Round
<1> QED BY <1>1, <1>2, <1>3, <1>4 DEF RingAssumption

\* push(): the ring goes on holding the newest bytes.
LEMMA RingPush ==
  ASSUME RingAssumption, RingTypeOK, HoldsTheTail, NEW n \in 1..Limit, end + n <= MaxOut, Push(n)
  PROVE  RingTypeOK' /\ HoldsTheTail'
<1> DEFINE m == Grown(n)
           lost == Overflow(n, m)
           h == IF m = capacity THEN head ELSE 0
           from == Round(h + lost, m)
           l == len - lost
           tail == Round(from + l, m)
<1>1. /\ {First, Limit, MaxOut} \subseteq Nat \ {0} /\ n \in Nat
      /\ capacity \in First..Limit /\ head \in 0..(capacity - 1) /\ len \in 0..capacity
      /\ end \in 0..MaxOut /\ end + n \in 0..MaxOut
      /\ buf \in [0..(capacity - 1) -> 0..MaxOut]
  BY DEF RingAssumption, RingTypeOK
<1>2. m \in capacity..Limit /\ (m >= len + n \/ m = Limit)
  BY <1>1, GrownType
<1>3. len = (IF Limit <= end THEN Limit ELSE end) /\ \A k \in 1..len : contents[k] = end - len + k
  BY RingHolds
<1>4. capacity' = m /\ head' = from /\ len' = l + n /\ end' = end + n
  BY DEF Push, Round
<1>4b. buf' = [i \in 0..(m - 1) |-> IF Round(i - tail, m) + 1 <= n THEN end + (Round(i - tail, m) + 1) ELSE Moved(m)[i]]
  BY DEF Push, Round
<1>5. lost = IF len + n > m THEN len + n - m ELSE 0
  <2>1. 0 \in Int /\ len + n - m \in Int
    BY <1>1, <1>2
  <2> HIDE DEF m
  <2> QED BY <1>1, <1>2, <2>1, MaxOfTwo DEF Overflow
<1> HIDE DEF m, lost
<1>6. /\ m \in Nat \ {0} /\ h \in 0..(m - 1) /\ lost \in 0..len /\ l \in 0..len /\ l + n <= m
      /\ len <= capacity /\ lost + l = len
      /\ lost > 0 => m = Limit
  <2>1. h = head \/ h = 0
    OBVIOUS
  <2>2. m \in Nat \ {0} /\ capacity <= m
    BY <1>1, <1>2
  <2>3. h \in 0..(m - 1)
    BY <1>1, <2>1, <2>2
  <2>4. capacity \in Nat /\ len \in Nat /\ n <= Limit /\ Limit \in Nat /\ len <= capacity /\ m <= Limit
    BY <1>1, <1>2
  <2> HIDE DEF h
  <2> QED BY <1>1, <1>2, <1>5, <2>2, <2>3, <2>4
<1>7. from = IF h + lost < m THEN h + lost ELSE h + lost - m
  <2> DEFINE x == h + lost
  <2>1. x \in 0..(2 * m - 1) /\ m \in Nat \ {0}
    <3> HIDE DEF h
    <3> QED BY <1>1, <1>2, <1>6
  <2>2. Round(x, m) = IF x < m THEN x ELSE x - m
    <3> HIDE DEF x
    <3> QED BY <2>1, RoundOnce
  <2>3. x = h + lost /\ h \in Int /\ lost \in Int
    <3> HIDE DEF h
    <3> QED BY <1>1, <1>6
  <2> HIDE DEF x, h
  <2> QED BY <2>1, <2>2, <2>3
<1>8. from \in 0..(m - 1)
  <2> HIDE DEF from, h
  <2> QED BY <1>1, <1>2, <1>6, <1>7
<1>9. len' = IF Limit <= end' THEN Limit ELSE end'
  BY <1>1, <1>2, <1>3, <1>4, <1>5, <1>6
<1> HIDE DEF h, from, l, tail
<1>0. /\ {m, h, lost, l, n, from, len, end, capacity} \subseteq Nat /\ m # 0
      /\ h < m /\ from < m /\ l + n <= m /\ lost + l = len /\ len <= capacity /\ capacity <= m
      /\ len' = l + n /\ end' = end + n
  BY <1>1, <1>2, <1>4, <1>6, <1>8
<1>a. ASSUME NEW k \in 1..(l + n)
      PROVE  /\ Round(from + k - 1, m) \in 0..(m - 1)
             /\ buf'[Round(from + k - 1, m)] = end' - len' + k
  <2> DEFINE j == Round(from + k - 1, m)
             q == Round(j - tail, m) + 1
  <2>1. l \in Nat /\ tail = Round(from + l, m)
    BY <1>6 DEF tail
  <2>2. /\ j \in 0..(m - 1)
        /\ k > l => Round(j - tail, m) = k - 1 - l
        /\ k <= l => Round(j - tail, m) = k - 1 - l + m
    <3>1. m \in Nat \ {0} /\ from \in 0..(m - 1) /\ l \in Nat /\ n \in Nat /\ l + n <= m
      BY <1>0
    <3>2. tail = Round(from + l, m) /\ j = Round(from + k - 1, m)
      BY <2>1
    <3>3. Placed(m, from, l, n, k, tail, j)
      BY <3>1, <3>2 DEF Placed
    <3> HIDE DEF j
    <3>4. Landed(m, l, k, tail, j)
      BY <3>3, RingIndex
    <3> QED BY <3>4 DEF Landed
  <2>3. buf'[j] = IF q <= n THEN end + q ELSE Moved(m)[j]
    <3> HIDE DEF j
    <3> QED BY <1>4b, <2>2
  <2>4. CASE k > l
    <3>1. q = k - l
      BY <2>1, <2>2, <2>4
    <3> HIDE DEF q, j
    <3> QED BY <1>1, <1>4, <1>6, <2>1, <2>2, <2>3, <2>4, <3>1 DEF j
  <2>5. CASE k <= l
    <3>1. q = k - l + m /\ ~(q <= n)
      BY <1>1, <1>6, <2>1, <2>2, <2>5
    <3> HIDE DEF q
    <3>2. lost + k \in 1..len /\ k \in Nat \ {0} /\ lost \in Nat
      BY <1>1, <1>6, <2>5, SMTT(30)
    <3>3. contents[lost + k] = end' - len' + k
      <4>1. contents[lost + k] = end - len + (lost + k)
        BY <1>3, <3>2
      <4> QED BY <1>0, <3>2, <4>1
    <3>4. CASE m = capacity
      <4>1. h = head /\ Moved(m) = buf
        BY <3>4 DEF h, Moved
      <4>2. j = Round(h + (lost + k) - 1, m)
        <5>1. Stepping(m, h, lost, k)
          BY <1>0, <3>2 DEF Stepping
        <5>2. j = Round(Round(h + lost, m) + k - 1, m)
          BY DEF from
        <5> HIDE DEF j
        <5> QED BY <5>1, <5>2, RingShift
      <4>3. contents[lost + k] = buf[Round(head + (lost + k) - 1, capacity)]
        BY <3>2 DEF contents, Round
      <4> QED BY <2>2, <2>3, <3>1, <3>3, <3>4, <4>1, <4>2, <4>3
    <3>5. CASE m # capacity
      <4>1. h = 0 /\ capacity < m /\ lost + k <= capacity
        BY <1>1, <1>2, <3>2, <3>5 DEF h
      <4>2. from = lost
        BY <1>0, <1>7, <4>1, <3>2
      <4>3. j = lost + k - 1
        <5> DEFINE x == from + k - 1
        <5>1. x \in Int /\ x \in 0..(m - 1)
          BY <1>0, <3>2, <4>1, <4>2
        <5> HIDE DEF x
        <5>2. Round(x, m) = x
          BY <1>6, <5>1, RoundOnce
        <5> QED BY <4>2, <5>2 DEF x
      <4>4. Moved(m)[j] = contents[lost + k]
        <5>1. j \in 0..(m - 1) /\ j < len /\ j + 1 = lost + k
          BY <1>6, <2>2, <3>2, <4>3
        <5> HIDE DEF j
        <5>2. Moved(m)[j] = contents[j + 1]
          BY <3>5, <5>1 DEF Moved
        <5> QED BY <5>1, <5>2
      <4> HIDE DEF j
      <4> QED BY <2>2, <2>3, <3>1, <3>3, <4>4 DEF j
    <3> QED BY <3>4, <3>5
  <2> QED BY <1>6, <2>1, <2>4, <2>5
<1>b. HoldsTheTail'
  <2>1. contents' = [k \in 1..len' |-> buf'[Round(head' + k - 1, capacity')]]
    BY DEF contents, Round
  <2>2. contents' = [k \in 1..len' |-> end' - len' + k]
    BY <1>4, <1>a, <2>1
  <2>3. len' = Min({Limit, end'})
    <3>1. Limit \in Int /\ end' \in Int
      BY <1>1, <1>4
    <3> QED BY <1>9, <3>1, MinOfTwo
  <2> QED BY <2>2, <2>3 DEF HoldsTheTail
<1>c. RingTypeOK'
  <2>1. capacity' \in First..Limit /\ head' \in 0..(capacity' - 1) /\ len' \in 0..capacity' /\ end' \in 0..MaxOut
    BY <1>1, <1>2, <1>4, <1>6, <1>8
  <2>2. buf' \in [0..(capacity' - 1) -> 0..MaxOut]
    <3> SUFFICES ASSUME NEW i \in 0..(m - 1)
                 PROVE  (IF Round(i - tail, m) + 1 <= n THEN end + (Round(i - tail, m) + 1) ELSE Moved(m)[i]) \in 0..MaxOut
      BY <1>4, <1>4b
    <3>1. Round(i - tail, m) \in Nat
      <4>1. tail \in 0..(m - 1)
        <5> DEFINE x == from + l
        <5>1. x \in Int /\ m \in Nat \ {0}
          BY <1>0
        <5>2. Round(x, m) \in 0..(m - 1)
          <6> HIDE DEF x
          <6> QED BY <5>1, RoundType
        <5> QED BY <5>2 DEF tail
      <4> DEFINE y == i - tail
      <4>2. y \in Int /\ m \in Nat \ {0}
        BY <1>0, <4>1
      <4>3. Round(y, m) \in 0..(m - 1)
        <5> HIDE DEF y
        <5> QED BY <4>2, RoundType
      <4> QED BY <1>0, <4>3
    <3>2. Moved(m)[i] \in 0..MaxOut
      <4>1. CASE m = capacity
        BY <1>1, <4>1 DEF Moved
      <4>2. CASE m # capacity
        <5>1. Moved(m)[i] = IF i < len THEN contents[i + 1] ELSE 0
          BY <4>2 DEF Moved
        <5>2. i < len => contents[i + 1] = end - len + (i + 1)
          <6>1. i < len => i + 1 \in 1..len
            BY <1>1
          <6> QED BY <1>3, <6>1
        <5>3. len <= end
          BY <1>1, <1>3
        <5> QED BY <1>1, <5>1, <5>2, <5>3
      <4> QED BY <4>1, <4>2
    <3> QED BY <1>1, <3>1, <3>2
  <2> QED BY <2>1, <2>2 DEF RingTypeOK
<1> QED BY <1>b, <1>c

\* The window's channel is the newest; until the server has handled its
\* attach, nothing of it is anywhere else.
ChannelsInv ==
  /\ link \in {0, chans} /\ ctx <= chans
  /\ link = 0 => toServer = <<>> /\ toClient = <<>> /\ ~opened
  /\ link # 0 /\ link # ctx => /\ toServer # <<>> /\ toClient = <<>> /\ ~opened
                               /\ toServer[1] = [t |-> "attach", since |-> received]
  /\ \A k \in DOMAIN toServer : toServer[k].t = "attach" => k = 1 /\ link # ctx

\* A channel's replay is queued once, and the newest channel's last.
ReplaysInv ==
  /\ \A k \in DOMAIN replay : /\ replay[k].bytes \in Seq(1..MaxOut)
                              /\ replay[k].chan \in 1..chans
                              /\ link # ctx => replay[k].chan # link
  /\ \A j, k \in DOMAIN replay : j < k => replay[j].chan < replay[k].chan

\* `opened` comes first, and the window keeps its place until then.
FramesInv ==
  /\ \A k \in DOMAIN toClient : toClient[k].t = "opened" <=> k = 1 /\ ~opened
  /\ link # 0 /\ link = ctx /\ ~opened =>
       toClient # <<>> /\ (toClient[1].mode = "partial" => toClient[1].offset = received)

\* A frame takes the count of the stream from a to b.
Leg(m, a, b, clean) ==
  IF m.t = "opened" THEN b = m.offset
  ELSE b = a + Len(m.bytes) /\ (clean => m.bytes = Bytes(a, b))

\* f is the count after each frame of q, and never beyond top.
Walks(f, q, from, top, clean) ==
  /\ f \in [0..Len(q) -> 0..top] /\ f[0] = from
  /\ \A k \in 1..Len(q) : Leg(q[k], f[k - 1], f[k], clean)

\* What setImmediate has still to send the window.
Due ==
  IF replay # <<>> /\ replay[Len(replay)].chan = ctx THEN replay[Len(replay)].bytes ELSE <<>>

\* The frames on their way and the replay that is due count up to the end of
\* the stream, and unless one was overtaken they are the stream.
StreamInv ==
  link # 0 /\ link = ctx =>
    \E f : /\ Walks(f, toClient, received, end, ~overtaken)
           /\ f[Len(toClient)] + Len(Due) = end
           /\ ~overtaken => Due = Bytes(f[Len(toClient)], end)

\* The window has counted no more than was printed, and drawn it in order.
ScreenInv == received <= end /\ DrawnInOrder

\* One repaint per channel, after its attach.
TimersInv ==
  /\ \A x \in timers : x.chan <= chans /\ (link # ctx => x.chan # link) /\ (repaint => x.chan # ctx)
  /\ \A x, y \in timers : x.chan = y.chan => x = y
  /\ owed /\ ctx # 0 /\ ~repaint => \E x \in timers : x.chan = ctx /\ x.size # rows

\* The last resize under way has the height of the window; with none under way
\* the pty has it, or will have it.
SizeInv ==
  opened /\ (toServer = <<>> => ~resized) =>
    IF toServer # <<>> THEN toServer[Len(toServer)] = [t |-> "resize", size |-> height]
    ELSE IF \E x \in timers : x.chan = ctx
         THEN \E x \in timers : x.chan = ctx /\ x.size = height
         ELSE rows = height

\* What the server sends.
Frame == [t : {"opened"}, mode : {"partial", "full"}, offset : Nat]
           \cup [t : {"data"}, bytes : Seq(1..MaxOut)]
\* What the window sends.
Message == [t : {"attach"}, since : Nat] \cup [t : {"resize"}, size : Sizes]

\* A stretch of the stream, byte by byte.
LEMMA BytesType ==
  ASSUME RingAssumption, NEW a \in Nat, NEW b \in Nat, a <= b, b <= MaxOut
  PROVE  /\ Bytes(a, b) \in Seq(1..MaxOut) /\ Len(Bytes(a, b)) = b - a
         /\ \A k \in 1..(b - a) : Bytes(a, b)[k] = a + k
<1>1. b - a \in Nat /\ MaxOut \in Nat
  BY DEF RingAssumption
<1>2. \A k \in 1..(b - a) : a + k \in 1..MaxOut
  BY <1>1
<1>3. Bytes(a, b) \in [1..(b - a) -> 1..MaxOut]
  BY <1>2 DEF Bytes
<1>4. Bytes(a, b) \in Seq(1..MaxOut) /\ Len(Bytes(a, b)) = b - a
  <2> HIDE DEF Bytes
  <2> QED BY <1>1, <1>3
<1> QED BY <1>4 DEF Bytes

\* since(): what the ring gives back from an offset it still holds is the
\* rest of the stream (pty.ts, Ring).
LEMMA AfterIsRest ==
  ASSUME RingAssumption, RingTypeOK, HoldsTheTail, NEW from \in start..end
  PROVE  After(from) = Bytes(from, end)
<1>1. /\ start \in 0..end /\ len \in Nat /\ end \in Nat /\ DOMAIN contents = 1..len
      /\ \A k \in 1..len : contents[k] = end - len + k
      /\ start = end - len /\ end <= MaxOut
  BY RingHolds DEF RingTypeOK, start
<1> HIDE DEF contents, start
<1>2. from \in Nat /\ from <= end
  BY <1>1
<1>3. CASE from >= end
  <2>1. After(from) = <<>>
    BY <1>3 DEF After
  <2>2. from = end
    BY <1>1, <1>2, <1>3
  <2>3. Bytes(from, end) = <<>>
    <3>1. end - end = 0
      BY <1>1
    <3>2. Bytes(end, end) \in Seq(1..MaxOut) /\ Len(Bytes(end, end)) = 0
      BY <1>1, <3>1, BytesType
    <3> QED BY <2>2, <3>2
  <2> QED BY <2>1, <2>3
<1>4. CASE ~(from >= end)
  <2> DEFINE m == from - start + 1
             s == SubSeq(contents, m, len)
             b == Bytes(from, end)
  <2>1. m \in 1..len /\ len - m + 1 = end - from /\ end - from \in Nat
    BY <1>1, <1>2, <1>4
  <2>2. contents \in Seq(Nat) /\ Len(contents) = len
    <3>1. \A k \in 1..len : contents[k] \in Nat
      BY <1>1
    <3>2. contents = [k \in 1..len |-> contents[k]]
      BY <1>1 DEF contents
    <3>3. contents \in [1..len -> Nat]
      BY <3>1, <3>2
    <3> QED BY <1>1, <3>3
  <2>3. \A i \in m..len : contents[i] \in Nat
    <3>1. \A i \in m..len : i \in 1..len
      BY <1>1, <2>1
    <3>2. \A i \in 1..len : contents[i] \in Nat
      BY <1>1
    <3> QED BY <3>1, <3>2
  <2>4. s \in Seq(Nat) /\ Len(s) = end - from /\ \A k \in 1..(end - from) : s[k] = contents[m + k - 1]
    <3> DEFINE c == contents
               n == len
    <3>1. /\ SubSeq(c, m, n) \in Seq(Nat)
          /\ Len(SubSeq(c, m, n)) = IF m <= n THEN n - m + 1 ELSE 0
          /\ \A k \in 1..(n - m + 1) : SubSeq(c, m, n)[k] = c[m + k - 1]
      <4>1. m \in Int /\ n \in Int /\ \A i \in m..n : c[i] \in Nat
        BY <1>1, <2>1, <2>3
      <4> HIDE DEF m, c, n
      <4> QED BY <4>1, SubSeqProperties
    <3>2. m <= n /\ n - m + 1 = end - from
      BY <1>1, <2>1
    <3> HIDE DEF m
    <3> QED BY <3>1, <3>2
  <2>5. b \in Seq(1..MaxOut) /\ Len(b) = end - from /\ \A k \in 1..(end - from) : b[k] = from + k
    BY <1>1, <1>2, BytesType
  <2>6. \A k \in 1..(end - from) : s[k] = b[k]
    <3> TAKE k \in 1..(end - from)
    <3>1. m + k - 1 \in 1..len /\ m + k - 1 = from - start + k
      BY <1>1, <1>2, <2>1
    <3>2. contents[m + k - 1] = end - len + (m + k - 1)
      <4> HIDE DEF m
      <4> QED BY <1>1, <3>1
    <3>3. end - len + (m + k - 1) = from + k
      BY <1>1, <1>2, <3>1
    <3> HIDE DEF m, s, b
    <3> QED BY <2>4, <2>5, <3>2, <3>3
  <2>7. b \in Seq(Nat)
    <3>1. 1..MaxOut \subseteq Nat
      BY DEF RingAssumption
    <3> HIDE DEF b
    <3> QED BY <2>5, <3>1
  <2>8. s = b
    <3> HIDE DEF s, b
    <3>1. s \in Seq(Nat) /\ b \in Seq(Nat) /\ Len(s) = Len(b) /\ \A k \in 1..Len(s) : s[k] = b[k]
      BY <2>4, <2>5, <2>6, <2>7
    <3> QED BY <3>1, SeqEqual
  <2>9. After(from) = s
    BY <1>4 DEF After
  <2> QED BY <2>8, <2>9
<1> QED BY <1>3, <1>4

\* all(): the first whole line starts within what is held (pty.ts, Ring).
LEMMA LineStartType ==
  ASSUME RingAssumption, RingTypeOK, HoldsTheTail
  PROVE  LineStart \in start..end
<1>1. /\ start \in 0..end /\ len \in Nat /\ end \in Nat /\ start = end - len
  BY RingHolds DEF start
<1> DEFINE feeds == {k \in 1..len : contents[k] \in Newlines}
<1>2. LineStart = IF start = 0 \/ feeds = {} THEN start ELSE start + Min(feeds)
  BY DEF LineStart
<1>3. feeds \subseteq 1..len
  OBVIOUS
<1> HIDE DEF feeds, start
<1>4. CASE start = 0 \/ feeds = {}
  BY <1>1, <1>2, <1>4
<1>5. CASE ~(start = 0 \/ feeds = {})
  <2>1. feeds \subseteq Nat /\ feeds # {}
    BY <1>1, <1>3, <1>5
  <2>2. \E x \in feeds : \A y \in feeds : x <= y
    BY <2>1, LeastNumber
  <2>3. Min(feeds) \in feeds
    BY <2>2 DEF Min
  <2>4. LineStart = start + Min(feeds)
    BY <1>2, <1>5
  <2>5. Min(feeds) \in 1..len
    BY <1>3, <2>3
  <2> QED BY <1>1, <2>4, <2>5
<1> QED BY <1>4, <1>5

\* One more frame takes the count on.
LEMMA WalksAppend ==
  ASSUME NEW S, NEW q \in Seq(S), NEW f, NEW from, NEW top, NEW clean, Walks(f, q, from, top, clean),
         NEW m \in S, NEW b \in 0..top, Leg(m, f[Len(q)], b, clean)
  PROVE  \E g : Walks(g, Append(q, m), from, top, clean) /\ g[Len(Append(q, m))] = b
<1> DEFINE N == Len(q)
           r == Append(q, m)
           g == [k \in 0..(N + 1) |-> IF k = N + 1 THEN b ELSE f[k]]
<1>1. /\ N \in Nat /\ Len(r) = N + 1 /\ r[N + 1] = m /\ \A k \in 1..N : r[k] = q[k]
      /\ f \in [0..N -> 0..top] /\ f[0] = from
      /\ \A k \in 1..N : Leg(q[k], f[k - 1], f[k], clean)
      /\ Leg(m, f[N], b, clean)
  BY DEF Walks
<1>2. g \in [0..(N + 1) -> 0..top]
  <2>1. \A k \in 0..(N + 1) : k # N + 1 => k \in 0..N
    BY <1>1
  <2> QED BY <1>1, <2>1
<1>3. g[0] = from /\ g[N + 1] = b /\ \A k \in 0..N : g[k] = f[k]
  BY <1>1
<1> HIDE DEF N, r, g
<1>4. ASSUME NEW k \in 1..(N + 1) PROVE Leg(r[k], g[k - 1], g[k], clean)
  <2>1. CASE k = N + 1
    <3>1. k - 1 = N /\ N \in 0..N
      BY <1>1, <2>1
    <3>2. g[k - 1] = f[N] /\ g[k] = b /\ r[k] = m
      BY <1>1, <1>3, <2>1, <3>1
    <3> QED BY <1>1, <3>2
  <2>2. CASE k # N + 1
    <3>1. k \in 1..N /\ k - 1 \in 0..N /\ k \in 0..N
      BY <1>1, <2>2
    <3>2. g[k - 1] = f[k - 1] /\ g[k] = f[k] /\ r[k] = q[k]
      BY <1>1, <1>3, <3>1
    <3> QED BY <1>1, <3>1, <3>2
  <2> QED BY <2>1, <2>2
<1>5. Walks(g, r, from, top, clean)
  BY <1>1, <1>2, <1>3, <1>4 DEF Walks
<1>6. g[Len(r)] = b
  BY <1>1, <1>3
<1> QED BY <1>5, <1>6 DEF r

\* Without its first frame, the walk starts where that frame led.
LEMMA WalksTail ==
  ASSUME NEW S, NEW q \in Seq(S), NEW f, NEW from, NEW top, NEW clean, Walks(f, q, from, top, clean), q # <<>>
  PROVE  /\ Leg(Head(q), from, f[1], clean) /\ f[1] \in 0..top
         /\ \E g : Walks(g, Tail(q), f[1], top, clean) /\ g[Len(Tail(q))] = f[Len(q)]
<1> DEFINE N == Len(q) - 1
           r == Tail(q)
           g == [k \in 0..N |-> f[k + 1]]
<1>1. /\ N \in Nat /\ Len(q) = N + 1 /\ Len(r) = N /\ Head(q) = q[1] /\ \A k \in 1..N : r[k] = q[k + 1]
      /\ f \in [0..(N + 1) -> 0..top] /\ f[0] = from
      /\ \A k \in 1..(N + 1) : Leg(q[k], f[k - 1], f[k], clean)
  BY DEF Walks
<1>2. g \in [0..N -> 0..top] /\ g[0] = f[1] /\ g[N] = f[N + 1] /\ \A k \in 0..N : g[k] = f[k + 1]
  <2>1. \A k \in 0..N : k + 1 \in 0..(N + 1)
    BY <1>1
  <2>2. 0 \in 0..N /\ N \in 0..N /\ 0 + 1 = 1
    BY <1>1
  <2> HIDE DEF N
  <2> QED BY <1>1, <2>1, <2>2
<1> HIDE DEF N, r, g
<1>3. Leg(Head(q), from, f[1], clean) /\ f[1] \in 0..top
  <2>1. 1 \in 1..(N + 1) /\ 1 \in 0..(N + 1) /\ 1 - 1 = 0
    BY <1>1
  <2> QED BY <1>1, <2>1
<1>4. ASSUME NEW k \in 1..N PROVE Leg(r[k], g[k - 1], g[k], clean)
  <2>1. k + 1 \in 1..(N + 1) /\ (k + 1) - 1 = k /\ k \in 0..N /\ k - 1 \in 0..N /\ (k - 1) + 1 = k
    BY <1>1
  <2>2. g[k - 1] = f[k] /\ g[k] = f[k + 1] /\ r[k] = q[k + 1]
    BY <1>1, <1>2, <2>1
  <2>3. Leg(q[k + 1], f[(k + 1) - 1], f[k + 1], clean)
    BY <1>1, <2>1
  <2> QED BY <2>1, <2>2, <2>3
<1>5. Walks(g, r, f[1], top, clean)
  BY <1>1, <1>2, <1>4 DEF Walks
<1>6. g[Len(r)] = f[Len(q)]
  BY <1>1, <1>2
<1> QED BY <1>3, <1>5, <1>6 DEF r

\* A walk of the stream itself is a walk of its lengths, and stays below a
\* greater end.
LEMMA WalksAnyhow ==
  ASSUME NEW q, NEW f, NEW from, NEW top \in Int, NEW more \in Int, NEW c, NEW d,
         Walks(f, q, from, top, c), top <= more, d => c
  PROVE  Walks(f, q, from, more, d)
<1>1. 0..top \subseteq 0..more
  OBVIOUS
<1>2. f \in [0..Len(q) -> 0..more]
  BY <1>1 DEF Walks
<1>3. \A k \in 1..Len(q) : Leg(q[k], f[k - 1], f[k], d)
  BY DEF Walks, Leg
<1> QED BY <1>2, <1>3 DEF Walks

\* The inductive invariant.
IInv ==
  /\ TypeOK /\ HoldsTheTail /\ ChannelsInv /\ ReplaysInv /\ FramesInv
  /\ StreamInv /\ ScreenInv /\ TimersInv /\ SizeInv

\* Every step leaves the newest bytes in the ring.
LEMMA StepHolds ==
  ASSUME RingAssumption, IInv, [Next]_vars
  PROVE  RingTypeOK' /\ HoldsTheTail' /\ end <= end'
<1>1. RingTypeOK /\ HoldsTheTail
  BY DEF IInv, TypeOK
<1>2. CASE \E n \in 1..Limit : Prints(n)
  <2>1. PICK n \in 1..Limit : Prints(n)
    BY <1>2
  <2>2. end + n <= MaxOut /\ Push(n)
    BY <2>1 DEF Prints
  <2>3. end' = end + n
    BY <2>2 DEF Push
  <2>4. end <= end'
    BY <1>1, <2>3 DEF RingTypeOK, RingAssumption
  <2> QED BY <1>1, <2>2, <2>4, RingPush
<1>3. CASE UNCHANGED ringVars
  <2>1. UNCHANGED <<capacity, buf, head, len, end>>
    BY <1>3 DEF ringVars
  <2>2. contents' = contents
    BY <2>1 DEF contents
  <2>3. end <= end'
    BY <1>1, <2>1 DEF RingTypeOK
  <2> QED BY <1>1, <2>1, <2>2, <2>3 DEF RingTypeOK, HoldsTheTail
<1> QED BY <1>2, <1>3 DEF Next, Attach, SendsReplay, ServerReceives, Repaints, ServerNotices,
             Drops, Reconnects, Reloads, OpensFor, ClientReceives, WindowResizes, vars, serverVars

\* What the types say of the queues.
LEMMA QueueTypes ==
  ASSUME TypeOK
  PROVE  /\ replay \in Seq(Replays) /\ toClient \in Seq(Frame) /\ toServer \in Seq(Message)
         /\ end \in 0..MaxOut /\ end \in Nat /\ start \in Int
BY DEF TypeOK, Frame, Message, RingTypeOK, start

\* What attach() answers.
LEMMA AttachReplays ==
  ASSUME RingAssumption, IInv, Attach
  PROVE  \E offset \in 0..end, mode \in {"partial", "full"} :
           LET rest == Bytes(offset, end) IN
           /\ mode = "partial" => offset = received
           /\ replay' = IF rest = <<>> THEN replay ELSE Append(replay, [chan |-> link, bytes |-> rest])
           /\ repaint' = (mode = "full") /\ owed' = (mode = "full")
           /\ toClient' = <<[t |-> "opened", mode |-> mode, offset |-> offset]>>
           /\ toServer' = Tail(toServer) /\ ctx' = link /\ link # 0 /\ link # ctx /\ ~opened
<1>1. RingTypeOK /\ HoldsTheTail /\ TypeOK /\ ChannelsInv /\ ScreenInv
  BY DEF IInv, TypeOK
<1>2. toServer # <<>> /\ Head(toServer).t = "attach" /\ toServer \in Seq(Message)
  BY <1>1, QueueTypes DEF Attach
<1>3. link # 0 /\ link # ctx /\ toServer[1].since = received /\ toClient = <<>> /\ ~opened
  <2>1. 1 \in DOMAIN toServer /\ Head(toServer) = toServer[1]
    BY <1>2
  <2> QED BY <1>1, <1>2, <2>1 DEF ChannelsInv
<1> DEFINE since == Head(toServer).since
           offset == IF StillHeld(since) THEN since ELSE LineStart
           mode == IF StillHeld(since) THEN "partial" ELSE "full"
<1>4. since = received
  BY <1>2, <1>3
<1>5. received \in Nat /\ received <= end /\ end \in Nat /\ start \in 0..end
  BY <1>1, RingHolds DEF TypeOK, ScreenInv
<1>6. offset \in start..end /\ offset \in 0..end /\ (mode = "partial" => offset = received)
  <2>1. LineStart \in start..end
    BY <1>1, LineStartType
  <2>2. StillHeld(since) => since \in start..end
    BY <1>4, <1>5 DEF StillHeld
  <2> HIDE DEF since
  <2>3. offset \in start..end
    BY <2>1, <2>2
  <2>4. mode = "partial" => offset = received
    BY <1>4
  <2>5. start..end \subseteq 0..end
    BY <1>5
  <2> QED BY <2>3, <2>4, <2>5
<1>7. After(offset) = Bytes(offset, end)
  <2> HIDE DEF offset
  <2> QED BY <1>1, <1>6, AfterIsRest
<1>8. /\ replay' = IF After(offset) = <<>> THEN replay
                   ELSE Append(replay, [chan |-> link, bytes |-> After(offset)])
      /\ repaint' = (mode = "full") /\ owed' = (mode = "full")
      /\ toClient' = Append(toClient, [t |-> "opened", mode |-> mode, offset |-> offset])
      /\ toServer' = Tail(toServer) /\ ctx' = link
  BY DEF Attach
<1>9. toClient' = <<[t |-> "opened", mode |-> mode, offset |-> offset]>>
  BY <1>3, <1>8
<1>a. mode \in {"partial", "full"}
  OBVIOUS
<1> HIDE DEF mode, offset
<1> QED BY <1>3, <1>6, <1>7, <1>8, <1>9, <1>a

\* A resize is only handled on the channel that has the shell.
LEMMA ResizeIsHeard ==
  ASSUME IInv, ServerReceives
  PROVE  /\ Head(toServer) \in Message /\ Head(toServer).size \in Sizes
         /\ Head(toServer) = toServer[1] /\ toServer # <<>> /\ toServer \in Seq(Message)
         /\ link # 0 /\ link = ctx
<1>1. toServer # <<>> /\ Head(toServer).t = "resize" /\ toServer \in Seq(Message)
  BY QueueTypes DEF IInv, ServerReceives
<1>2. Head(toServer) = toServer[1] /\ Head(toServer) \in Message
  BY <1>1
<1>3. Head(toServer).size \in Sizes
  BY <1>1, <1>2 DEF Message
<1>4. link # 0 /\ link = ctx
  BY <1>1, <1>2 DEF IInv, ChannelsInv
<1> QED BY <1>1, <1>2, <1>3, <1>4

\* What printing sends.
LEMMA PrintsSends ==
  ASSUME RingAssumption, IInv, NEW n \in 1..Limit, Prints(n)
  PROVE  /\ end' = end + n /\ end' \in 0..MaxOut /\ Bytes(end, end') \in Seq(1..MaxOut)
         /\ Len(Bytes(end, end')) = n
         /\ [t |-> "data", bytes |-> Bytes(end, end')] \in Frame
<1>1. end' = end + n /\ end + n <= MaxOut /\ end \in 0..MaxOut /\ n \in Nat /\ MaxOut \in Nat
  BY QueueTypes DEF Prints, Push, IInv, RingAssumption
<1>2. end \in Nat /\ end' \in Nat /\ end <= end' /\ end' <= MaxOut /\ end' - end = n
  BY <1>1
<1>3. Bytes(end, end') \in Seq(1..MaxOut) /\ Len(Bytes(end, end')) = n
  BY <1>2, BytesType
<1> QED BY <1>1, <1>2, <1>3 DEF Frame

\* Every step keeps the types.
LEMMA StepType ==
  ASSUME RingAssumption, ReplayAssumption, IInv, [Next]_vars
  PROVE  TypeOK'
<1>0. RingTypeOK'
  BY StepHolds
<1>1. /\ ctx \in 0..MaxChans /\ link \in 0..MaxChans /\ chans \in 0..MaxChans
      /\ replay \in Seq(Replays)
      /\ repaint \in BOOLEAN /\ owed \in BOOLEAN /\ opened \in BOOLEAN /\ overtaken \in BOOLEAN /\ resized \in BOOLEAN
      /\ timers \subseteq [chan : 1..MaxChans, size : Sizes]
      /\ rows \in Nat \ {0} /\ height \in Sizes
      /\ received \in Nat
      /\ screen \in Seq(1..MaxOut)
      /\ toClient \in Seq(Frame)
      /\ toServer \in Seq(Message)
      /\ Sizes \subseteq Nat \ {0}
  BY DEF IInv, TypeOK, Frame, Message, ReplayAssumption
<1> DEFINE Server == /\ ctx' \in 0..MaxChans /\ replay' \in Seq(Replays)
                     /\ repaint' \in BOOLEAN /\ owed' \in BOOLEAN /\ overtaken' \in BOOLEAN /\ resized' \in BOOLEAN
                     /\ timers' \subseteq [chan : 1..MaxChans, size : Sizes] /\ rows' \in Nat \ {0}
           Window == /\ link' \in 0..MaxChans /\ chans' \in 0..MaxChans /\ opened' \in BOOLEAN
                     /\ height' \in Sizes /\ received' \in Nat /\ screen' \in Seq(1..MaxOut)
           Queues == toClient' \in Seq(Frame) /\ toServer' \in Seq(Message)
<1> SUFFICES Server /\ Window /\ Queues
  BY <1>0 DEF TypeOK, Frame, Message
<1>2. ASSUME NEW n \in 1..Limit, Prints(n) PROVE Server /\ Window /\ Queues
  <2>1. [t |-> "data", bytes |-> Bytes(end, end')] \in Frame
    BY <1>2, PrintsSends
  <2>2. toClient' \in Seq(Frame)
    <3> DEFINE m == [t |-> "data", bytes |-> Bytes(end, end')]
    <3>1. toClient' = toClient \/ toClient' = Append(toClient, m)
      BY <1>2 DEF Prints, Sent
    <3>2. m \in Frame
      BY <2>1
    <3>3. toClient \in Seq(Frame)
      BY <1>1
    <3> HIDE DEF m
    <3> QED BY <3>1, <3>2, <3>3, SMTT(30)
  <2> QED BY <1>1, <1>2, <2>2 DEF Prints, windowVars
<1>3. CASE Attach
  <2>1. PICK offset \in 0..end, mode \in {"partial", "full"} :
          /\ replay' = IF Bytes(offset, end) = <<>> THEN replay
                       ELSE Append(replay, [chan |-> link, bytes |-> Bytes(offset, end)])
          /\ repaint' = (mode = "full") /\ owed' = (mode = "full")
          /\ toClient' = <<[t |-> "opened", mode |-> mode, offset |-> offset]>>
          /\ toServer' = Tail(toServer) /\ ctx' = link
    BY <1>3, AttachReplays
  <2>2. toServer # <<>>
    BY <1>3 DEF Attach
  <2>3. [t |-> "opened", mode |-> mode, offset |-> offset] \in Frame
    <3>1. offset \in Nat
      BY QueueTypes DEF IInv
    <3> QED BY <3>1 DEF Frame
  <2>4. Bytes(offset, end) \in Seq(1..MaxOut)
    <3>1. offset \in Nat /\ end \in Nat /\ offset <= end /\ end <= MaxOut
      BY QueueTypes DEF IInv, RingAssumption
    <3> QED BY <3>1, BytesType
  <2>5. [chan |-> link, bytes |-> Bytes(offset, end)] \in Replays
    <3>1. Seq(1..MaxOut) \subseteq Seq(Nat)
      BY DEF RingAssumption
    <3>2. link \in Nat
      BY <1>1
    <3> QED BY <2>4, <3>1, <3>2 DEF Replays
  <2>6. replay' \in Seq(Replays)
    BY <1>1, <2>1, <2>5
  <2>7. toClient' \in Seq(Frame) /\ toServer' \in Seq(Message)
    BY <1>1, <2>1, <2>2, <2>3
  <2> QED BY <1>1, <1>3, <2>1, <2>6, <2>7 DEF Attach, windowVars
<1>4. CASE SendsReplay
  <2>1. replay # <<>> /\ Head(replay) = replay[1] /\ 1 \in DOMAIN replay
    BY <1>1, <1>4 DEF SendsReplay
  <2>2. [t |-> "data", bytes |-> Head(replay).bytes] \in Frame
    BY <2>1 DEF IInv, ReplaysInv, Frame
  <2>3. toClient' \in Seq(Frame)
    <3> DEFINE m == [t |-> "data", bytes |-> Head(replay).bytes]
    <3>1. toClient' = toClient \/ toClient' = Append(toClient, m)
      BY <1>4 DEF SendsReplay, Replayed, Sent
    <3>2. m \in Frame
      BY <2>2
    <3>3. toClient \in Seq(Frame)
      BY <1>1
    <3> HIDE DEF m
    <3> QED BY <3>1, <3>2, <3>3
  <2>4. replay' \in Seq(Replays)
    BY <1>1, <1>4, <2>1 DEF SendsReplay
  <2> QED BY <1>1, <1>4, <2>3, <2>4 DEF SendsReplay, windowVars
<1>5. CASE ServerReceives
  <2> DEFINE size == Head(toServer).size
  <2>1. size \in Sizes /\ toServer # <<>> /\ ctx \in 1..MaxChans
    BY <1>1, <1>5, ResizeIsHeard
  <2>2. toServer' \in Seq(Message)
    BY <1>1, <1>5, <2>1 DEF ServerReceives
  <2>3. WrongSize(size) \in Nat \ {0} /\ size \in Nat \ {0}
    <3>1. size \in Nat \ {0}
      BY <1>1, <2>1
    <3> HIDE DEF size
    <3> QED BY <3>1 DEF WrongSize
  <2>4. [chan |-> ctx, size |-> size] \in [chan : 1..MaxChans, size : Sizes]
    BY <2>1
  <2>5. HandlesResize(size) \/ UNCHANGED <<repaint, timers, rows, owed, resized>>
    BY <1>5 DEF ServerReceives
  <2> HIDE DEF size
  <2>6. /\ repaint' \in BOOLEAN /\ owed' \in BOOLEAN /\ resized' \in BOOLEAN
        /\ timers' \subseteq [chan : 1..MaxChans, size : Sizes] /\ rows' \in Nat \ {0}
    BY <1>1, <2>3, <2>4, <2>5 DEF HandlesResize, ResizesTo
  <2> QED BY <1>1, <1>5, <2>2, <2>6 DEF ServerReceives, windowVars
<1>6. CASE Repaints
  <2>1. PICK x \in timers : /\ timers' = timers \ {x}
                            /\ IF RepaintsFor(x) THEN ResizesTo(x.size) ELSE UNCHANGED <<rows, owed>>
    BY <1>6 DEF Repaints
  <2>2. x.size \in Nat \ {0}
    BY <1>1
  <2>3. rows' \in Nat \ {0} /\ owed' \in BOOLEAN
    BY <1>1, <2>1, <2>2 DEF ResizesTo
  <2> QED BY <1>1, <1>6, <2>1, <2>3 DEF Repaints, windowVars
<1>7. CASE ServerNotices
  BY <1>1, <1>7 DEF ServerNotices, windowVars
<1>8. CASE Drops
  <2>1. <<>> \in Seq(Frame) /\ <<>> \in Seq(Message)
    OBVIOUS
  <2>2. toClient' = <<>> /\ toServer' = <<>>
    BY <1>8 DEF Drops
  <2>3. Queues
    BY <2>1, <2>2
  <2>4. Window
    <3>1. link' = 0 /\ opened' = FALSE /\ UNCHANGED <<chans, received, screen, height>>
      BY <1>8 DEF Drops
    <3>2. 0 \in 0..MaxChans
      BY <1>1
    <3> QED BY <1>1, <3>1, <3>2
  <2>5. Server
    BY <1>1, <1>8 DEF Drops, serverVars
  <2> QED BY <2>3, <2>4, <2>5
<1>9. ASSUME NEW seen \in Nat, OpensFor(seen) PROVE chans' \in 0..MaxChans /\ link' \in 0..MaxChans /\ opened' \in BOOLEAN /\ Queues
  <2>1. [t |-> "attach", since |-> seen] \in Message
    BY <1>9 DEF Message
  <2>2. chans + 1 \in 0..MaxChans
    BY <1>1, <1>9 DEF OpensFor, ReplayAssumption
  <2> DEFINE m == [t |-> "attach", since |-> seen]
  <2>3. <<>> \in Seq(Frame) /\ <<m>> \in Seq(Message)
    BY <2>1
  <2>4. toClient' = <<>> /\ toServer' = <<m>> /\ chans' = chans + 1 /\ link' = chans + 1 /\ opened' = FALSE
    BY <1>9 DEF OpensFor
  <2> HIDE DEF m
  <2> QED BY <2>2, <2>3, <2>4
<1>a. CASE Reconnects
  <2>1. OpensFor(received) /\ received \in Nat
    BY <1>1, <1>a DEF Reconnects
  <2>2. chans' \in 0..MaxChans /\ link' \in 0..MaxChans /\ opened' \in BOOLEAN /\ Queues
    BY <1>9, <2>1
  <2>3. UNCHANGED <<received, screen, overtaken>> /\ UNCHANGED <<serverVars, height, resized>>
    BY <1>a, <2>1 DEF Reconnects, OpensFor
  <2> QED BY <1>1, <2>2, <2>3 DEF serverVars
<1>b. CASE Reloads
  <2>1. OpensFor(0)
    BY <1>b DEF Reloads
  <2>2. chans' \in 0..MaxChans /\ link' \in 0..MaxChans /\ opened' \in BOOLEAN /\ Queues
    BY <1>9, <2>1
  <2>3. received' = 0 /\ screen' = <<>> /\ overtaken' = FALSE /\ UNCHANGED <<serverVars, height, resized>>
    BY <1>b, <2>1 DEF Reloads, OpensFor
  <2>4. <<>> \in Seq(1..MaxOut)
    OBVIOUS
  <2> QED BY <1>1, <2>2, <2>3, <2>4 DEF serverVars
<1>c. CASE ClientReceives
  <2> DEFINE m == Head(toClient)
  <2>1. m \in Frame /\ toClient' \in Seq(Frame) /\ ((m.t = "opened" /\ OnOpen(m)) \/ (m.t = "data" /\ OnBinary(m)))
    BY <1>1, <1>c DEF ClientReceives
  <2>2. UNCHANGED <<serverVars, link, chans, height, overtaken, resized>>
    BY <1>c DEF ClientReceives
  <2> HIDE DEF m
  <2>3. CASE m.t = "opened" /\ OnOpen(m)
    <3>1. m.offset \in Nat
      BY <2>1, <2>3 DEF Frame
    <3>2. [t |-> "resize", size |-> height] \in Message
      BY <1>1 DEF Message
    <3>3. screen' \in Seq(1..MaxOut)
      <4>1. <<>> \in Seq(1..MaxOut)
        OBVIOUS
      <4>2. screen' = <<>> \/ screen' = screen
        BY <2>3 DEF OnOpen, Cleared
      <4> QED BY <1>1, <4>1, <4>2
    <3>4. toServer' \in Seq(Message)
      BY <1>1, <2>3, <3>2 DEF OnOpen
    <3>5. opened' \in BOOLEAN /\ received' \in Nat
      BY <2>3, <3>1 DEF OnOpen
    <3> QED BY <1>1, <2>1, <2>2, <3>3, <3>4, <3>5 DEF serverVars
  <2>4. CASE m.t = "data" /\ OnBinary(m)
    <3>1. m.bytes \in Seq(1..MaxOut)
      BY <2>1, <2>4 DEF Frame
    <3>2. received' \in Nat /\ screen' \in Seq(1..MaxOut) /\ opened' \in BOOLEAN /\ toServer' \in Seq(Message)
      BY <1>1, <2>4, <3>1 DEF OnBinary
    <3> QED BY <1>1, <2>1, <2>2, <3>2 DEF serverVars
  <2> QED BY <2>1, <2>3, <2>4
<1>d. ASSUME NEW size \in Sizes, WindowResizes(size) PROVE Server /\ Window /\ Queues
  <2>1. [t |-> "resize", size |-> size] \in Message
    BY DEF Message
  <2>2. toServer' \in Seq(Message)
    BY <1>1, <1>d, <2>1 DEF WindowResizes
  <2> QED BY <1>1, <1>d, <2>2 DEF WindowResizes, serverVars
<1>e. CASE UNCHANGED vars
  BY <1>1, <1>e DEF vars, serverVars, windowVars
<1> HIDE DEF Server, Window, Queues
<1> QED BY <1>2, <1>3, <1>4, <1>5, <1>6, <1>7, <1>8, <1>a, <1>b, <1>c, <1>d, <1>e DEF Next

\* Every step keeps the channels apart.
LEMMA StepChannels ==
  ASSUME RingAssumption, ReplayAssumption, IInv, [Next]_vars
  PROVE  ChannelsInv'
<1>0. /\ TypeOK /\ ChannelsInv
      /\ ctx \in Nat /\ link \in Nat /\ chans \in Nat
      /\ toServer \in Seq(Message) /\ toClient \in Seq(Frame)
  BY QueueTypes DEF IInv, TypeOK
<1> DEFINE Orderly(q, l, c) == \A k \in DOMAIN q : q[k].t = "attach" => k = 1 /\ l # c
<1>1. Orderly(toServer, link, ctx)
  BY <1>0 DEF ChannelsInv
\* A resize added at the end leaves the order as it is.
<1>2. ASSUME NEW size PROVE Orderly(Append(toServer, [t |-> "resize", size |-> size]), link, ctx)
  <2> DEFINE m == [t |-> "resize", size |-> size]
  <2>1. \A k \in 1..(Len(toServer) + 1) : k = Len(toServer) + 1 \/ k \in 1..Len(toServer)
    BY <1>0
  <2>2. /\ DOMAIN Append(toServer, m) = 1..(Len(toServer) + 1)
        /\ Append(toServer, m)[Len(toServer) + 1] = m
        /\ \A k \in 1..Len(toServer) : Append(toServer, m)[k] = toServer[k]
    BY <1>0
  <2>3. m.t = "resize"
    OBVIOUS
  <2>4. DOMAIN toServer = 1..Len(toServer)
    BY <1>0
  <2> HIDE DEF m
  <2>5. \A k \in DOMAIN Append(toServer, m) : Append(toServer, m)[k].t = "attach" => k = 1 /\ link # ctx
    BY <1>1, <2>1, <2>2, <2>3, <2>4
  <2> QED BY <2>5 DEF m
\* What is left when the first has been read is resizes.
<1>3. ASSUME toServer # <<>> PROVE \A k \in DOMAIN Tail(toServer) : Tail(toServer)[k].t # "attach"
  <2>1. \A k \in DOMAIN Tail(toServer) : /\ Tail(toServer)[k] = toServer[k + 1] /\ k + 1 \in DOMAIN toServer
                                         /\ k + 1 # 1
    BY <1>0, <1>3
  <2> QED BY <1>1, <2>1
<1>4. ASSUME NEW n \in 1..Limit, Prints(n) PROVE ChannelsInv'
  <2>1. UNCHANGED <<ctx, toServer, link, chans, opened, received>>
    BY <1>4 DEF Prints, windowVars
  <2>2. (link = ctx /\ ctx # 0) \/ toClient' = toClient
    BY <1>4 DEF Prints, Sent
  <2> QED BY <1>0, <2>1, <2>2 DEF ChannelsInv
<1>5. CASE Attach
  <2>1. toServer' = Tail(toServer) /\ ctx' = link /\ link # 0 /\ toServer # <<>>
    BY <1>5, AttachReplays DEF Attach
  <2>2. UNCHANGED windowVars
    BY <1>5 DEF Attach
  <2> QED BY <1>0, <1>3, <2>1, <2>2 DEF ChannelsInv, windowVars
<1>6. CASE SendsReplay
  <2>1. UNCHANGED <<ctx, toServer, link, chans, opened, received>>
    BY <1>6 DEF SendsReplay, windowVars
  <2>2. (link = ctx /\ ctx # 0) \/ toClient' = toClient
    <3>1. 1 \in DOMAIN replay /\ Head(replay) = replay[1]
      BY <1>6, QueueTypes DEF SendsReplay, IInv
    <3>2. Head(replay).chan # 0
      BY <3>1 DEF IInv, ReplaysInv
    <3> QED BY <1>6, <3>2 DEF SendsReplay, Replayed, Sent
  <2> QED BY <1>0, <2>1, <2>2 DEF ChannelsInv
<1>7. CASE ServerReceives
  <2>1. UNCHANGED <<ctx, toClient, link, chans, opened, received>> /\ toServer' = Tail(toServer)
    BY <1>7 DEF ServerReceives, windowVars
  <2>2. toServer # <<>> /\ link # 0 /\ link = ctx
    BY <1>7, ResizeIsHeard
  <2> QED BY <1>0, <1>3, <2>1, <2>2 DEF ChannelsInv
<1>8. CASE Repaints
  BY <1>0, <1>8 DEF Repaints, windowVars, ChannelsInv
<1>9. CASE ServerNotices
  BY <1>0, <1>9 DEF ServerNotices, windowVars, ChannelsInv
<1>a. CASE Drops
  BY <1>0, <1>a DEF Drops, serverVars, ChannelsInv
<1>b. ASSUME NEW seen, OpensFor(seen), received' = seen PROVE ChannelsInv'
  <2> DEFINE m == [t |-> "attach", since |-> seen]
  <2>1. /\ chans' = chans + 1 /\ link' = chans + 1 /\ opened' = FALSE /\ ctx' = ctx
        /\ toServer' = <<m>> /\ toClient' = <<>>
    BY <1>b DEF OpensFor, serverVars
  <2>2. ctx <= chans
    BY <1>0 DEF ChannelsInv
  <2>3. link' # ctx' /\ link' # 0 /\ ctx' <= chans'
    BY <1>0, <2>1, <2>2
  <2>4. toServer' # <<>> /\ toServer'[1] = m /\ DOMAIN toServer' = {1}
    BY <2>1
  <2> QED BY <1>b, <2>1, <2>3, <2>4 DEF ChannelsInv
<1>c. CASE Reconnects
  BY <1>b, <1>c DEF Reconnects
<1>d. CASE Reloads
  BY <1>b, <1>d DEF Reloads
<1>e. CASE ClientReceives
  <2>1. UNCHANGED <<link, chans, ctx>> /\ link # 0 /\ link = ctx
    BY <1>0, <1>e DEF ClientReceives, serverVars, ChannelsInv
  <2>2. toServer' = Append(toServer, [t |-> "resize", size |-> height]) \/ toServer' = toServer
    BY <1>e DEF ClientReceives, OnOpen, OnBinary
  <2>3. Orderly(toServer', link, ctx)
    BY <1>1, <1>2, <2>2
  <2> QED BY <1>0, <2>1, <2>3 DEF ChannelsInv
<1>f. ASSUME NEW size \in Sizes, WindowResizes(size) PROVE ChannelsInv'
  <2> DEFINE m == [t |-> "resize", size |-> size]
  <2>1. UNCHANGED <<link, chans, ctx, toClient, opened, received>>
    BY <1>f DEF WindowResizes, serverVars
  <2>2. toServer' = IF link # 0 THEN Append(toServer, m) ELSE toServer
    BY <1>f DEF WindowResizes
  <2>3. Orderly(toServer', link, ctx)
    BY <1>1, <1>2, <2>2
  <2>4. /\ Append(toServer, m) # <<>>
        /\ toServer # <<>> => Append(toServer, m)[1] = toServer[1]
    BY <1>0
  <2> HIDE DEF m
  <2> QED BY <1>0, <2>1, <2>2, <2>3, <2>4 DEF ChannelsInv
<1>g. CASE UNCHANGED vars
  BY <1>0, <1>g DEF vars, serverVars, windowVars, ChannelsInv
<1> QED BY <1>4, <1>5, <1>6, <1>7, <1>8, <1>9, <1>a, <1>c, <1>d, <1>e, <1>f, <1>g DEF Next

\* Every step keeps the replays in the order of their channels.
LEMMA StepReplays ==
  ASSUME RingAssumption, ReplayAssumption, IInv, [Next]_vars
  PROVE  ReplaysInv'
<1>0. /\ replay \in Seq(Replays) /\ DOMAIN replay = 1..Len(replay) /\ Len(replay) \in Nat
      /\ ReplaysInv /\ ChannelsInv /\ chans \in Nat /\ link \in Nat /\ ctx \in Nat
  BY QueueTypes DEF IInv, TypeOK
<1>1. CASE Attach
  <2>1. PICK offset \in 0..end, mode \in {"partial", "full"} :
          /\ replay' = IF Bytes(offset, end) = <<>> THEN replay
                       ELSE Append(replay, [chan |-> link, bytes |-> Bytes(offset, end)])
          /\ ctx' = link /\ link # 0 /\ link # ctx
    BY <1>1, AttachReplays
  <2>2. Bytes(offset, end) \in Seq(1..MaxOut)
    <3>1. offset \in Nat /\ end \in Nat /\ offset <= end /\ end <= MaxOut
      BY QueueTypes DEF IInv, RingAssumption
    <3> QED BY <3>1, BytesType
  <2>3. UNCHANGED <<link, chans>> /\ link = chans
    BY <1>0, <1>1, <2>1 DEF Attach, windowVars, ChannelsInv
  <2> DEFINE r == [chan |-> link, bytes |-> Bytes(offset, end)]
             N == Len(replay)
  <2>4. r.chan = link /\ r.bytes \in Seq(1..MaxOut)
    BY <2>2
  <2>5. \A k \in 1..N : replay[k].chan < link
    <3> TAKE k \in 1..N
    <3>1. replay[k].chan \in 1..chans /\ replay[k].chan # link
      BY <1>0, <2>1 DEF ReplaysInv
    <3> QED BY <1>0, <2>3, <3>1
  <2>6. CASE replay' = replay
    BY <1>0, <2>1, <2>3, <2>6 DEF ReplaysInv
  <2>7. CASE replay' = Append(replay, r)
    <3>1. /\ DOMAIN replay' = 1..(N + 1) /\ replay'[N + 1] = r
          /\ \A k \in 1..N : replay'[k] = replay[k]
      BY <1>0, <2>7
    <3>2. \A k \in 1..(N + 1) : k = N + 1 \/ k \in 1..N
      BY <1>0
    <3> HIDE DEF r, N
    <3>3. \A k \in DOMAIN replay' : replay'[k].bytes \in Seq(1..MaxOut) /\ replay'[k].chan \in 1..chans
      <4> TAKE k \in DOMAIN replay'
      <4>1. CASE k = N + 1
        <5>1. link \in 1..chans
          BY <1>0, <2>1, <2>3
        <5> QED BY <2>4, <3>1, <4>1, <5>1
      <4>2. CASE k \in 1..N
        BY <1>0, <3>1, <4>2 DEF ReplaysInv, N
      <4> QED BY <3>1, <3>2, <4>1, <4>2
    <3>4. \A j, k \in DOMAIN replay' : j < k => replay'[j].chan < replay'[k].chan
      <4> TAKE j, k \in DOMAIN replay'
      <4> HAVE j < k
      <4>1. N \in Nat /\ j \in 1..(N + 1) /\ k \in 1..(N + 1)
        BY <1>0, <3>1 DEF N
      <4>2. j \in 1..N
        BY <4>1
      <4>3. CASE k = N + 1
        BY <2>4, <2>5, <3>1, <4>2, <4>3
      <4>4. CASE k \in 1..N
        BY <1>0, <3>1, <4>2, <4>4 DEF ReplaysInv, N
      <4> QED BY <3>2, <4>1, <4>3, <4>4
    <3> QED BY <2>1, <2>3, <3>3, <3>4 DEF ReplaysInv
  <2> QED BY <2>1, <2>6, <2>7
<1>2. CASE SendsReplay
  <2>1. replay' = Tail(replay) /\ replay # <<>> /\ UNCHANGED <<link, chans, ctx>>
    BY <1>2 DEF SendsReplay, windowVars
  <2>2. \A k \in DOMAIN replay' : k + 1 \in DOMAIN replay /\ replay'[k] = replay[k + 1] /\ k \in Nat
    BY <1>0, <2>1
  <2>3. \A k \in DOMAIN replay' : /\ replay'[k].bytes \in Seq(1..MaxOut) /\ replay'[k].chan \in 1..chans
                                  /\ link # ctx => replay'[k].chan # link
    BY <1>0, <2>2 DEF ReplaysInv
  <2>4. \A j, k \in DOMAIN replay' : j < k => replay'[j].chan < replay'[k].chan
    <3> TAKE j, k \in DOMAIN replay'
    <3> HAVE j < k
    <3>1. j + 1 \in DOMAIN replay /\ k + 1 \in DOMAIN replay /\ j + 1 < k + 1
      BY <2>2
    <3>2. replay[j + 1].chan < replay[k + 1].chan
      BY <1>0, <3>1 DEF ReplaysInv
    <3> QED BY <2>2, <3>2
  <2> QED BY <2>1, <2>3, <2>4 DEF ReplaysInv
<1>3. ASSUME UNCHANGED replay, chans' = chans + 1, link' = chans + 1, UNCHANGED ctx PROVE ReplaysInv'
  <2>1. \A k \in DOMAIN replay : replay[k].chan \in 1..(chans + 1) /\ replay[k].chan # chans + 1
    BY <1>0 DEF ReplaysInv
  <2> QED BY <1>0, <1>3, <2>1 DEF ReplaysInv
<1>4. ASSUME UNCHANGED <<replay, link, chans, ctx>> PROVE ReplaysInv'
  BY <1>0, <1>4 DEF ReplaysInv
<1>5. ASSUME NEW n \in 1..Limit, Prints(n) PROVE ReplaysInv'
  BY <1>4, <1>5 DEF Prints, windowVars
<1>6. CASE ServerReceives
  BY <1>4, <1>6 DEF ServerReceives, windowVars
<1>7. CASE Repaints
  BY <1>4, <1>7 DEF Repaints, windowVars
<1>8. CASE ServerNotices
  <2>1. ctx # link /\ UNCHANGED <<replay, link, chans>>
    BY <1>8 DEF ServerNotices, windowVars
  <2> QED BY <1>0, <2>1 DEF ReplaysInv
<1>9. CASE Drops
  <2>1. link' = 0 /\ UNCHANGED <<replay, chans, ctx>>
    BY <1>9 DEF Drops, serverVars
  <2>2. \A k \in DOMAIN replay : replay[k].chan # 0
    BY <1>0 DEF ReplaysInv
  <2> QED BY <1>0, <2>1, <2>2 DEF ReplaysInv
<1>a. CASE Reconnects
  BY <1>3, <1>a DEF Reconnects, OpensFor, serverVars
<1>b. CASE Reloads
  BY <1>3, <1>b DEF Reloads, OpensFor, serverVars
<1>c. CASE ClientReceives
  BY <1>4, <1>c DEF ClientReceives, serverVars
<1>d. ASSUME NEW size \in Sizes, WindowResizes(size) PROVE ReplaysInv'
  BY <1>4, <1>d DEF WindowResizes, serverVars
<1>e. CASE UNCHANGED vars
  BY <1>4, <1>e DEF vars, serverVars, windowVars
<1> QED BY <1>1, <1>2, <1>5, <1>6, <1>7, <1>8, <1>9, <1>a, <1>b, <1>c, <1>d, <1>e DEF Next

\* Only the newest channel's replay is due.
LEMMA DueIs ==
  ASSUME RingAssumption, TypeOK, ChannelsInv, ReplaysInv, link # 0, link = ctx
  PROVE  /\ Due \in Seq(1..MaxOut) /\ Due \in Seq(Nat)
         /\ (\E k \in DOMAIN replay : replay[k].chan = ctx) <=> (replay # <<>> /\ replay[Len(replay)].chan = ctx)
         /\ \A k \in DOMAIN replay : replay[k].chan = ctx => k = Len(replay)
<1>0. /\ replay \in Seq(Replays) /\ DOMAIN replay = 1..Len(replay) /\ Len(replay) \in Nat
      /\ ctx = chans /\ chans \in Nat
  BY QueueTypes DEF TypeOK, ChannelsInv
<1>1. \A k \in DOMAIN replay : replay[k].chan = ctx => k = Len(replay)
  <2> SUFFICES ASSUME NEW k \in DOMAIN replay, replay[k].chan = ctx, k # Len(replay) PROVE FALSE
    OBVIOUS
  <2>1. Len(replay) \in DOMAIN replay /\ k < Len(replay)
    BY <1>0
  <2>2. replay[k].chan < replay[Len(replay)].chan /\ replay[Len(replay)].chan \in 1..chans
    BY <2>1 DEF ReplaysInv
  <2> QED BY <1>0, <2>2
<1>2. replay # <<>> => Len(replay) \in DOMAIN replay
  BY <1>0
<1>3. Due \in Seq(1..MaxOut)
  <2>1. CASE replay # <<>> /\ replay[Len(replay)].chan = ctx
    BY <1>2, <2>1 DEF Due, ReplaysInv
  <2>2. CASE ~(replay # <<>> /\ replay[Len(replay)].chan = ctx)
    <3>1. Due = <<>>
      BY <2>2 DEF Due
    <3> QED BY <3>1
  <2> QED BY <2>1, <2>2
<1>4. Due \in Seq(Nat)
  <2>1. Seq(1..MaxOut) \subseteq Seq(Nat)
    BY DEF RingAssumption
  <2> QED BY <1>3, <2>1
<1>5. (\E k \in DOMAIN replay : replay[k].chan = ctx) <=> (replay # <<>> /\ replay[Len(replay)].chan = ctx)
  <2>1. (\E k \in DOMAIN replay : replay[k].chan = ctx) => replay # <<>>
    BY <1>0
  <2> QED BY <1>1, <1>2, <2>1
<1> QED BY <1>1, <1>3, <1>4, <1>5

\* Every step keeps `opened` first.
LEMMA StepFrames ==
  ASSUME RingAssumption, ReplayAssumption, IInv, [Next]_vars
  PROVE  FramesInv'
<1>0. /\ toClient \in Seq(Frame) /\ DOMAIN toClient = 1..Len(toClient) /\ Len(toClient) \in Nat
      /\ FramesInv /\ ChannelsInv
  BY QueueTypes DEF IInv
\* One more frame of data leaves it as it is.
<1>1. ASSUME NEW m \in Frame, m.t = "data", toClient' = Append(toClient, m), link = ctx, link # 0,
             UNCHANGED <<link, ctx, opened, received>>
      PROVE  FramesInv'
  <2> DEFINE N == Len(toClient)
  <2>1. toClient # <<>> \/ opened
    BY <1>0, <1>1 DEF FramesInv
  <2>2. /\ DOMAIN toClient' = 1..(N + 1) /\ toClient'[N + 1] = m /\ toClient' # <<>>
        /\ \A k \in 1..N : toClient'[k] = toClient[k]
    BY <1>0, <1>1
  <2>3. N \in Nat /\ \A k \in 1..(N + 1) : k = N + 1 \/ k \in 1..N
    BY <1>0
  <2>4. toClient # <<>> => 1 \in 1..N
    BY <1>0
  <2>5. \A k \in DOMAIN toClient' : toClient'[k].t = "opened" <=> k = 1 /\ ~opened
    <3> TAKE k \in DOMAIN toClient'
    <3>1. CASE k = N + 1
      <4>1. toClient'[k].t = "data"
        BY <1>1, <2>2, <3>1
      <4>2. ~(k = 1 /\ ~opened)
        BY <2>1, <2>3, <2>4, <3>1
      <4> QED BY <4>1, <4>2
    <3>2. CASE k \in 1..N
      BY <1>0, <2>2, <3>2 DEF FramesInv
    <3> HIDE DEF N
    <3> QED BY <2>2, <2>3, <3>1, <3>2
  <2>6. ~opened => toClient' # <<>> /\ toClient'[1] = toClient[1]
    BY <2>1, <2>2, <2>4
  <2> QED BY <1>0, <1>1, <2>5, <2>6 DEF FramesInv
<1>2. ASSUME UNCHANGED <<toClient, link, ctx, opened, received>> PROVE FramesInv'
  BY <1>0, <1>2 DEF FramesInv
<1>3. ASSUME toClient' = <<>>, link' = 0 \/ link' # ctx' PROVE FramesInv'
  BY <1>3 DEF FramesInv
<1>4. ASSUME NEW n \in 1..Limit, Prints(n) PROVE FramesInv'
  <2> DEFINE m == [t |-> "data", bytes |-> Bytes(end, end')]
  <2>1. m \in Frame /\ m.t = "data"
    BY <1>4, PrintsSends
  <2>2. UNCHANGED <<link, ctx, opened, received>>
    BY <1>4 DEF Prints, windowVars
  <2>3. toClient' = toClient \/ (link = ctx /\ link # 0 /\ toClient' = Append(toClient, m))
    BY <1>4 DEF Prints, Sent
  <2> HIDE DEF m
  <2> QED BY <1>1, <1>2, <2>1, <2>2, <2>3
<1>5. CASE Attach
  <2>1. PICK offset \in 0..end, mode \in {"partial", "full"} :
          /\ mode = "partial" => offset = received
          /\ toClient' = <<[t |-> "opened", mode |-> mode, offset |-> offset]>>
          /\ ~opened
    BY <1>5, AttachReplays
  <2>2. UNCHANGED <<opened, received>>
    BY <1>5 DEF Attach, windowVars
  <2> DEFINE m == [t |-> "opened", mode |-> mode, offset |-> offset]
  <2>3. toClient' # <<>> /\ toClient'[1] = m /\ DOMAIN toClient' = {1} /\ m.t = "opened"
        /\ m.mode = mode /\ m.offset = offset
    BY <2>1
  <2> HIDE DEF m
  <2> QED BY <2>1, <2>2, <2>3 DEF FramesInv
<1>6. CASE SendsReplay
  <2> DEFINE r == Head(replay)
             m == [t |-> "data", bytes |-> r.bytes]
  <2>1. r = replay[1] /\ 1 \in DOMAIN replay
    BY <1>6, QueueTypes DEF SendsReplay, IInv
  <2>2. m \in Frame /\ m.t = "data" /\ r.chan # 0
    BY <2>1 DEF IInv, ReplaysInv, Frame
  <2>3. UNCHANGED <<link, ctx, opened, received>>
    BY <1>6 DEF SendsReplay, windowVars
  <2>4. toClient' = toClient \/ (link = ctx /\ link # 0 /\ toClient' = Append(toClient, m))
    BY <1>6, <2>2 DEF SendsReplay, Replayed, Sent
  <2> HIDE DEF m
  <2> QED BY <1>1, <1>2, <2>2, <2>3, <2>4
<1>7. CASE ServerReceives
  BY <1>2, <1>7 DEF ServerReceives, windowVars
<1>8. CASE Repaints
  BY <1>2, <1>8 DEF Repaints, windowVars
<1>9. CASE ServerNotices
  <2>1. ctx' = 0 /\ UNCHANGED <<toClient, link, opened, received>>
    BY <1>9 DEF ServerNotices, windowVars
  <2> QED BY <1>0, <2>1 DEF FramesInv
<1>a. CASE Drops
  BY <1>3, <1>a DEF Drops
<1>b. ASSUME NEW seen, OpensFor(seen) PROVE FramesInv'
  <2>1. toClient' = <<>> /\ link' = chans + 1 /\ ctx' = ctx /\ ctx <= chans /\ ctx \in Nat /\ chans \in Nat
    BY <1>0, <1>b DEF OpensFor, serverVars, ChannelsInv, IInv, TypeOK
  <2>2. link' # ctx'
    BY <2>1
  <2> QED BY <1>3, <2>1, <2>2
<1>c. CASE Reconnects
  BY <1>b, <1>c DEF Reconnects
<1>d. CASE Reloads
  BY <1>b, <1>d DEF Reloads
<1>e. CASE ClientReceives
  <2> DEFINE m == Head(toClient)
             N == Len(toClient) - 1
  <2>1. /\ m = toClient[1] /\ 1 \in DOMAIN toClient /\ toClient' = Tail(toClient)
        /\ ((m.t = "opened" /\ OnOpen(m)) \/ (m.t = "data" /\ OnBinary(m)))
    BY <1>0, <1>e DEF ClientReceives
  <2>2. UNCHANGED <<link, ctx>>
    BY <1>e DEF ClientReceives, serverVars
  <2>3. opened'
    <3>1. m.t = "opened" <=> ~opened
      BY <1>0, <2>1 DEF FramesInv
    <3> HIDE DEF m
    <3> QED BY <2>1, <3>1 DEF OnOpen, OnBinary
  <2>4. \A k \in DOMAIN toClient' : toClient'[k] = toClient[k + 1] /\ k + 1 \in DOMAIN toClient /\ k + 1 # 1
    BY <1>0, <2>1
  <2>5. \A k \in DOMAIN toClient' : toClient'[k].t # "opened"
    BY <1>0, <2>4 DEF FramesInv
  <2> QED BY <2>3, <2>5 DEF FramesInv
<1>f. ASSUME NEW size \in Sizes, WindowResizes(size) PROVE FramesInv'
  BY <1>2, <1>f DEF WindowResizes, serverVars
<1>g. CASE UNCHANGED vars
  BY <1>2, <1>g DEF vars, serverVars, windowVars
<1> QED BY <1>4, <1>5, <1>6, <1>7, <1>8, <1>9, <1>a, <1>c, <1>d, <1>e, <1>f, <1>g DEF Next

\* The stream as the window will count it.
LEMMA StreamIs ==
  ASSUME RingAssumption, IInv, link # 0, link = ctx
  PROVE  \E f : /\ Walks(f, toClient, received, end, ~overtaken)
                /\ f[Len(toClient)] \in 0..end /\ f[Len(toClient)] + Len(Due) = end
                /\ ~overtaken => Due = Bytes(f[Len(toClient)], end)
<1>1. PICK f : /\ Walks(f, toClient, received, end, ~overtaken)
               /\ f[Len(toClient)] + Len(Due) = end
               /\ ~overtaken => Due = Bytes(f[Len(toClient)], end)
  BY DEF IInv, StreamInv
<1>2. Len(toClient) \in 0..Len(toClient)
  BY QueueTypes DEF IInv
<1>3. f[Len(toClient)] \in 0..end
  BY <1>1, <1>2 DEF Walks
<1> QED BY <1>1, <1>3

\* The rest of nothing is nothing.
LEMMA NoBytes ==
  ASSUME RingAssumption, NEW a \in Nat, a <= MaxOut
  PROVE  Bytes(a, a) = <<>>
<1>1. a - a = 0
  OBVIOUS
<1>2. Bytes(a, a) \in Seq(1..MaxOut) /\ Len(Bytes(a, a)) = 0
  BY <1>1, BytesType
<1> HIDE DEF Bytes
<1> QED BY <1>2

\* Every step keeps what is on its way the rest of the stream: output goes
\* behind it, an attach answers with it, setImmediate sends what is due, and
\* the window takes it up where it was.
LEMMA StepStream ==
  ASSUME RingAssumption, ReplayAssumption, IInv, [Next]_vars
  PROVE  StreamInv'
<1>0. /\ toClient \in Seq(Frame) /\ Len(toClient) \in Nat
      /\ replay \in Seq(Replays) /\ Len(replay) \in Nat
      /\ ChannelsInv /\ ReplaysInv /\ TypeOK /\ end \in Nat /\ end <= MaxOut
      /\ received \in 0..end /\ overtaken \in BOOLEAN /\ MaxOut \in Nat
  BY QueueTypes, SMTT(30) DEF IInv, ScreenInv, TypeOK, RingAssumption
<1>1. ASSUME UNCHANGED <<toClient, link, ctx, received, replay, end, overtaken>> PROVE StreamInv'
  <2>1. Due' = Due
    BY <1>1 DEF Due
  <2> QED BY <1>1, <2>1 DEF IInv, StreamInv
<1>2. ASSUME link' = 0 \/ link' # ctx' PROVE StreamInv'
  BY <1>2 DEF StreamInv
<1>3. ASSUME NEW n \in 1..Limit, Prints(n) PROVE StreamInv'
  <2> DEFINE m == [t |-> "data", bytes |-> Bytes(end, end')]
             N == Len(toClient)
  <2>1. m \in Frame /\ m.t = "data" /\ Len(m.bytes) = n /\ m.bytes = Bytes(end, end')
        /\ end' = end + n /\ end' \in 0..MaxOut /\ n \in Nat
    BY <1>3, PrintsSends
  <2>2. UNCHANGED <<link, ctx, received, replay>>
    BY <1>3 DEF Prints, windowVars
  <2>3. CASE link # 0 /\ link = ctx
    <3>1. toClient' = Append(toClient, m)
      BY <1>3, <2>3 DEF Prints, Sent
    <3>2. PICK f : /\ Walks(f, toClient, received, end, ~overtaken)
                   /\ f[N] \in 0..end /\ f[N] + Len(Due) = end
                   /\ ~overtaken => Due = Bytes(f[N], end)
      BY <2>3, StreamIs
    <3>3. Due' = Due /\ Due \in Seq(Nat)
      <4>1. Due \in Seq(Nat)
        BY <1>0, <2>3, DueIs
      <4> QED BY <2>2, <4>1 DEF Due
    <3>4. overtaken' \in BOOLEAN /\ (overtaken => overtaken')
      BY <1>0, <1>3 DEF Prints
    <3>5. ~overtaken' => ~overtaken /\ Due = <<>> /\ f[N] = end
      <4>1. ~overtaken' => ~overtaken /\ ~(\E k \in DOMAIN replay : replay[k].chan = ctx)
        BY <1>3 DEF Prints
      <4>2. ~(\E k \in DOMAIN replay : replay[k].chan = ctx) => Due = <<>>
        BY <1>0, <2>3, DueIs DEF Due
      <4>3. Due = <<>> => f[N] = end
        BY <3>2
      <4> QED BY <4>1, <4>2, <4>3
    <3> DEFINE b == f[N] + n
    <3>6. b \in 0..end' /\ b + Len(Due) = end'
      <4> DEFINE a == f[N]
                 d == Len(Due)
      <4>1. a \in 0..end /\ a + d = end /\ d \in Nat
        BY <3>2, <3>3
      <4> HIDE DEF a, d
      <4>2. a + n \in 0..end' /\ (a + n) + d = end'
        BY <1>0, <2>1, <4>1
      <4> QED BY <4>2 DEF a, d
    <3>7. Walks(f, toClient, received, end', ~overtaken')
      <4>1. end \in Int /\ end' \in Int /\ end <= end'
        BY <1>0, <2>1
      <4>2. ~overtaken' => ~overtaken
        BY <3>4
      <4> QED BY <3>2, <4>1, <4>2, WalksAnyhow
    <3>8. Leg(m, f[N], b, ~overtaken')
      <4>1. ~overtaken' => f[N] = end /\ b = end'
        BY <2>1, <3>5
      <4>2. m.t # "opened" /\ b = f[N] + Len(m.bytes)
        BY <2>1
      <4>3. ~overtaken' => m.bytes = Bytes(f[N], b)
        BY <2>1, <4>1
      <4> HIDE DEF m, b, N
      <4> QED BY <4>2, <4>3 DEF Leg
    <3>9. PICK g : Walks(g, Append(toClient, m), received, end', ~overtaken') /\ g[Len(Append(toClient, m))] = b
      <4> HIDE DEF m, b
      <4> QED BY <1>0, <2>1, <3>6, <3>7, <3>8, WalksAppend
    <3>a. ~overtaken' => Due' = Bytes(b, end')
      <4>1. ~overtaken' => Due' = <<>> /\ b = end'
        BY <2>1, <3>3, <3>5
      <4>2. Bytes(end', end') = <<>>
        BY <2>1, NoBytes
      <4> HIDE DEF b
      <4> QED BY <4>1, <4>2
    <3> HIDE DEF m, b
    <3> QED BY <2>2, <3>1, <3>3, <3>6, <3>9, <3>a DEF StreamInv
  <2>4. CASE ~(link # 0 /\ link = ctx)
    BY <1>2, <2>2, <2>4
  <2> QED BY <2>3, <2>4
<1>4. CASE Attach
  <2>1. PICK offset \in 0..end, mode \in {"partial", "full"} :
          /\ replay' = IF Bytes(offset, end) = <<>> THEN replay
                       ELSE Append(replay, [chan |-> link, bytes |-> Bytes(offset, end)])
          /\ toClient' = <<[t |-> "opened", mode |-> mode, offset |-> offset]>>
          /\ ctx' = link /\ link # 0 /\ link # ctx
    BY <1>4, AttachReplays
  <2>2. UNCHANGED <<link, received, end, overtaken>>
    BY <1>4 DEF Attach, windowVars, ringVars
  <2> DEFINE m == [t |-> "opened", mode |-> mode, offset |-> offset]
             rest == Bytes(offset, end)
             f == [k \in {0} |-> received]
  <2>3. Due' = rest
    <3>1. CASE rest = <<>>
      <4>1. replay' = replay /\ \A k \in DOMAIN replay : replay[k].chan # link
        BY <1>0, <2>1, <3>1 DEF ReplaysInv
      <4>2. replay # <<>> => Len(replay) \in DOMAIN replay
        BY <1>0
      <4>3. ~(replay' # <<>> /\ replay'[Len(replay')].chan = ctx')
        BY <2>1, <4>1, <4>2
      <4> HIDE DEF rest
      <4> QED BY <3>1, <4>3 DEF Due
    <3>2. CASE rest # <<>>
      <4> DEFINE r == [chan |-> link, bytes |-> rest]
      <4>1. r.chan = link /\ r.bytes = rest
        OBVIOUS
      <4>2. replay' = Append(replay, r)
        BY <2>1, <3>2
      <4> HIDE DEF rest, r
      <4>3. replay' # <<>> /\ replay'[Len(replay')] = r
        BY <1>0, <4>2
      <4> QED BY <2>1, <4>1, <4>3 DEF Due
    <3> QED BY <3>1, <3>2
  <2>4. Walks(f, <<>>, received, end, ~overtaken)
    <3>1. Len(<<>>) = 0 /\ 0..0 = {0} /\ f[0] = received /\ f \in [{0} -> 0..end] /\ \A k \in 1..0 : FALSE
      BY <1>0
    <3> HIDE DEF f
    <3> QED BY <3>1 DEF Walks
  <2>5. m \in Frame /\ Leg(m, f[Len(<<>>)], offset, ~overtaken)
    <3>1. offset \in Nat
      BY <1>0
    <3> QED BY <3>1 DEF Frame, Leg
  <2>6. Append(<<>>, m) = <<m>> /\ Len(<<m>>) = 1
    OBVIOUS
  <2>7. PICK g : Walks(g, Append(<<>>, m), received, end, ~overtaken) /\ g[Len(Append(<<>>, m))] = offset
    <3> DEFINE q == <<>>
    <3>1. q \in Seq(Frame)
      OBVIOUS
    <3>2. Walks(f, q, received, end, ~overtaken) /\ Leg(m, f[Len(q)], offset, ~overtaken) /\ m \in Frame
      BY <2>4, <2>5
    <3>3. \E g : Walks(g, Append(q, m), received, end, ~overtaken) /\ g[Len(Append(q, m))] = offset
      <4> HIDE DEF f, m, q
      <4> QED BY <3>1, <3>2, WalksAppend
    <3> QED BY <3>3
  <2>8. Len(rest) = end - offset
    BY <1>0, BytesType
  <2>9. offset + Len(rest) = end
    <3> HIDE DEF rest
    <3> QED BY <1>0, <2>8
  <2>a. Due' = Bytes(offset, end)
    BY <2>3
  <2> HIDE DEF m, rest
  <2>b. toClient' = Append(<<>>, m)
    BY <2>1, <2>6 DEF m
  <2>c. /\ Walks(g, toClient', received', end', ~overtaken')
        /\ g[Len(toClient')] + Len(Due') = end'
        /\ Due' = Bytes(g[Len(toClient')], end')
    BY <2>2, <2>3, <2>7, <2>9, <2>a, <2>b
  <2> QED BY <2>c DEF StreamInv
<1>5. CASE SendsReplay
  <2> DEFINE r == Head(replay)
             m == [t |-> "data", bytes |-> r.bytes]
             N == Len(toClient)
  <2>1. replay # <<>> /\ r = replay[1] /\ 1 \in DOMAIN replay /\ replay' = Tail(replay)
        /\ Len(replay) \in DOMAIN replay
    BY <1>0, <1>5 DEF SendsReplay
  <2>2. UNCHANGED <<link, ctx, received, end, overtaken>>
    BY <1>5 DEF SendsReplay, windowVars, ringVars
  <2>3. CASE ~(link # 0 /\ link = ctx)
    BY <1>2, <2>2, <2>3
  <2>4. CASE link # 0 /\ link = ctx /\ r.chan # ctx
    <3>1. toClient' = toClient
      BY <1>5, <2>4 DEF SendsReplay, Replayed
    <3>2. Due' = Due
      <4>1. CASE Len(replay) = 1
        <5>1. replay' = <<>> /\ replay[Len(replay)] = r
          BY <1>0, <2>1, <4>1
        <5> QED BY <2>1, <2>2, <2>4, <5>1 DEF Due
      <4>2. CASE Len(replay) # 1
        <5>1. replay' # <<>> /\ replay'[Len(replay')] = replay[Len(replay)]
          <6>1. replay' = Tail(replay) /\ replay \in Seq(Replays) /\ Len(replay) \in Nat /\ Len(replay) >= 2
            <7>1. replay \in Seq(Replays) /\ Len(replay) \in Nat
              BY <1>0
            <7>2. Len(replay) # 0
              BY <2>1, <7>1
            <7>3. replay' = Tail(replay)
              BY <2>1
            <7>4. Len(replay) >= 2
              <8> DEFINE l == Len(replay)
              <8>1. l \in Nat /\ l # 0 /\ l # 1
                BY <4>2, <7>1, <7>2
              <8>2. l >= 2
                <9> HIDE DEF l
                <9> QED BY <8>1
              <8> QED BY <8>2
            <7> QED BY <7>1, <7>3, <7>4
          <6>2. Len(replay') = Len(replay) - 1 /\ Len(replay') \in 1..(Len(replay) - 1)
            BY <6>1
          <6>3. replay'[Len(replay')] = replay[Len(replay') + 1]
            BY <6>1, <6>2
          <6>4. replay' # <<>> /\ Len(replay') + 1 = Len(replay)
            <7>1. Len(replay') # 0 /\ Len(replay') + 1 = Len(replay)
              BY <6>1, <6>2
            <7>2. Len(<<>>) = 0
              OBVIOUS
            <7> QED BY <7>1, <7>2
          <6> QED BY <6>3, <6>4
        <5> QED BY <2>1, <2>2, <5>1 DEF Due
      <4> QED BY <4>1, <4>2
    <3> QED BY <2>2, <3>1, <3>2 DEF IInv, StreamInv
  <2>5. CASE link # 0 /\ link = ctx /\ r.chan = ctx
    <3>1. toClient' = Append(toClient, m)
      BY <1>5, <2>5 DEF SendsReplay, Replayed, Sent
    <3>2. Len(replay) = 1
      BY <1>0, <2>1, <2>5, DueIs
    <3>3. Due = r.bytes /\ replay' = <<>>
      BY <1>0, <2>1, <2>5, <3>2 DEF Due
    <3>4. Due' = <<>>
      BY <3>3 DEF Due
    <3>5. PICK f : /\ Walks(f, toClient, received, end, ~overtaken)
                   /\ f[N] \in 0..end /\ f[N] + Len(Due) = end
                   /\ ~overtaken => Due = Bytes(f[N], end)
      BY <2>5, StreamIs
    <3>6. m \in Frame
      BY <2>1 DEF IInv, ReplaysInv, Frame
    <3>7. Leg(m, f[N], end, ~overtaken)
      <4>1. m.t # "opened" /\ m.bytes = Due
        BY <3>3
      <4> HIDE DEF m, N
      <4> QED BY <3>5, <4>1 DEF Leg
    <3>8. end \in 0..end
      BY <1>0
    <3>9. PICK g : Walks(g, Append(toClient, m), received, end, ~overtaken) /\ g[Len(Append(toClient, m))] = end
      <4> HIDE DEF m
      <4> QED BY <1>0, <3>5, <3>6, <3>7, <3>8, WalksAppend
    <3>a. end + Len(<<>>) = end /\ Bytes(end, end) = <<>>
      BY <1>0, NoBytes
    <3> HIDE DEF m
    <3> QED BY <2>2, <3>1, <3>4, <3>9, <3>a DEF StreamInv
  <2> QED BY <2>3, <2>4, <2>5
<1>6. CASE ServerReceives
  BY <1>1, <1>6 DEF ServerReceives, windowVars, ringVars
<1>7. CASE Repaints
  BY <1>1, <1>7 DEF Repaints, windowVars, ringVars
<1>8. CASE ServerNotices
  BY <1>2, <1>8 DEF ServerNotices, windowVars
<1>9. CASE Drops
  BY <1>2, <1>9 DEF Drops
<1>a. ASSUME NEW seen, OpensFor(seen) PROVE StreamInv'
  <2>1. link' = chans + 1 /\ ctx' = ctx /\ ctx <= chans /\ ctx \in Nat /\ chans \in Nat
    BY <1>0, <1>a DEF OpensFor, serverVars, ChannelsInv, TypeOK
  <2>2. link' # ctx'
    BY <2>1
  <2> QED BY <1>2, <2>2
<1>b. CASE Reconnects
  BY <1>a, <1>b DEF Reconnects
<1>c. CASE Reloads
  BY <1>a, <1>c DEF Reloads
<1>d. CASE ClientReceives
  <2> DEFINE m == Head(toClient)
  <2>1. /\ toClient # <<>> /\ toClient' = Tail(toClient)
        /\ ((m.t = "opened" /\ OnOpen(m)) \/ (m.t = "data" /\ OnBinary(m)))
        /\ UNCHANGED <<link, ctx, end, overtaken, replay>>
    BY <1>0, <1>d DEF ClientReceives, serverVars, ringVars
  <2>2. link # 0 /\ link = ctx
    BY <1>0, <2>1 DEF ChannelsInv
  <2>3. PICK f : /\ Walks(f, toClient, received, end, ~overtaken)
                 /\ f[Len(toClient)] + Len(Due) = end
                 /\ ~overtaken => Due = Bytes(f[Len(toClient)], end)
    BY <2>2, StreamIs
  <2>4. Leg(m, received, f[1], ~overtaken)
    BY <1>0, <2>1, <2>3, WalksTail
  <2>5. PICK g : Walks(g, Tail(toClient), f[1], end, ~overtaken) /\ g[Len(Tail(toClient))] = f[Len(toClient)]
    BY <1>0, <2>1, <2>3, WalksTail
  <2>6. received' = f[1]
    <3> HIDE DEF m
    <3> QED BY <2>1, <2>4 DEF Leg, OnOpen, OnBinary
  <2>7. Due' = Due
    BY <2>1 DEF Due
  <2> QED BY <2>1, <2>3, <2>5, <2>6, <2>7 DEF StreamInv
<1>e. ASSUME NEW size \in Sizes, WindowResizes(size) PROVE StreamInv'
  BY <1>1, <1>e DEF WindowResizes, serverVars, ringVars
<1>f. CASE UNCHANGED vars
  BY <1>1, <1>f DEF vars, serverVars, windowVars, ringVars
<1> QED BY <1>3, <1>4, <1>5, <1>6, <1>7, <1>8, <1>9, <1>b, <1>c, <1>d, <1>e, <1>f DEF Next

\* What is drawn goes on where the screen ends.
LEMMA DrawsOn ==
  ASSUME RingAssumption, NEW s \in Seq(1..MaxOut), NEW a \in Nat, NEW b \in Nat, a <= b, b <= MaxOut,
         \A k \in DOMAIN s : s[k] = a - Len(s) + k
  PROVE  \A k \in DOMAIN (s \o Bytes(a, b)) : (s \o Bytes(a, b))[k] = b - Len(s \o Bytes(a, b)) + k
<1> DEFINE w == Bytes(a, b)
           r == s \o w
<1>1. w \in Seq(1..MaxOut) /\ Len(w) = b - a /\ \A k \in 1..(b - a) : w[k] = a + k
  BY BytesType
<1>2. MaxOut \in Nat
  BY DEF RingAssumption
<1> HIDE DEF w
<1>3. /\ Len(r) = Len(s) + Len(w) /\ DOMAIN r = 1..(Len(s) + Len(w)) /\ Len(s) \in Nat
      /\ \A k \in 1..Len(s) : r[k] = s[k]
      /\ \A k \in 1..Len(w) : r[Len(s) + k] = w[k]
      /\ DOMAIN s = 1..Len(s)
  <2>1. Len(s) \in Nat /\ DOMAIN s = 1..Len(s) /\ w \in Seq(1..MaxOut)
    BY <1>1
  <2>2. Len(r) = Len(s) + Len(w) /\ DOMAIN r = 1..(Len(s) + Len(w))
    BY <2>1
  <2>3. \A k \in 1..Len(s) : r[k] = s[k]
    BY <2>1
  <2>4. \A k \in 1..Len(w) : r[Len(s) + k] = w[k]
    BY <2>1
  <2> QED BY <2>1, <2>2, <2>3, <2>4
<1> HIDE DEF r
<1>4. ASSUME NEW k \in DOMAIN r PROVE r[k] = b - Len(r) + k
  <2>0. k \in 1..(Len(s) + (b - a)) /\ Len(r) = Len(s) + (b - a)
    BY <1>1, <1>3
  <2>1. CASE k \in 1..Len(s)
    <3>1. r[k] = a - Len(s) + k
      BY <1>3, <2>1
    <3> QED BY <1>3, <2>0, <3>1
  <2>2. CASE k \notin 1..Len(s)
    <3> DEFINE j == k - Len(s)
    <3>1. j \in 1..(b - a) /\ k = Len(s) + j
      BY <1>3, <2>0, <2>2
    <3> HIDE DEF j
    <3>2. r[k] = a + j
      BY <1>1, <1>3, <3>1
    <3>3. b - Len(r) = a - Len(s) /\ Len(s) \in Nat
      <4> DEFINE l == Len(s)
                 n == Len(r)
      <4>1. l \in Nat /\ n = l + (b - a)
        BY <1>3, <2>0
      <4> HIDE DEF l, n
      <4>2. b - n = a - l
        BY <4>1
      <4> QED BY <4>1, <4>2 DEF l, n
    <3>4. (a - Len(s)) + (Len(s) + j) = a + j
      BY <3>1, <3>3
    <3> QED BY <3>1, <3>2, <3>3, <3>4
  <2> QED BY <2>1, <2>2
<1> QED BY <1>4 DEF r, w

\* Every step keeps the screen one stretch of the stream.
LEMMA StepScreen ==
  ASSUME RingAssumption, ReplayAssumption, IInv, [Next]_vars
  PROVE  ScreenInv'
<1>0. /\ toClient \in Seq(Frame) /\ Len(toClient) \in Nat /\ ScreenInv
      /\ end \in Nat /\ end <= MaxOut /\ received \in Nat /\ MaxOut \in Nat /\ screen \in Seq(1..MaxOut)
      /\ end <= end' /\ RingTypeOK' /\ end' \in Nat
  <2>1. /\ toClient \in Seq(Frame) /\ Len(toClient) \in Nat /\ ScreenInv /\ end \in Nat /\ end <= MaxOut
        /\ received \in Nat /\ MaxOut \in Nat /\ screen \in Seq(1..MaxOut)
    BY QueueTypes DEF IInv, TypeOK, RingAssumption
  <2>2. end <= end' /\ RingTypeOK'
    BY StepHolds
  <2>3. end' \in Nat
    BY <2>2 DEF RingTypeOK
  <2> QED BY <2>1, <2>2, <2>3
<1>1. ASSUME UNCHANGED <<received, screen>>, ~overtaken' => ~overtaken PROVE ScreenInv'
  <2>1. received' <= end'
    BY <1>0, <1>1 DEF ScreenInv
  <2> QED BY <1>0, <1>1, <2>1 DEF ScreenInv, DrawnInOrder
<1>2. ASSUME NEW n \in 1..Limit, Prints(n) PROVE ScreenInv'
  BY <1>1, <1>2 DEF Prints, windowVars
<1>3. CASE Attach
  BY <1>1, <1>3 DEF Attach, windowVars
<1>4. CASE SendsReplay
  BY <1>1, <1>4 DEF SendsReplay, windowVars
<1>5. CASE ServerReceives
  BY <1>1, <1>5 DEF ServerReceives, windowVars
<1>6. CASE Repaints
  BY <1>1, <1>6 DEF Repaints, windowVars
<1>7. CASE ServerNotices
  BY <1>1, <1>7 DEF ServerNotices, windowVars
<1>8. CASE Drops
  BY <1>1, <1>8 DEF Drops
<1>9. CASE Reconnects
  BY <1>1, <1>9 DEF Reconnects
<1>a. CASE Reloads
  <2>1. received' = 0 /\ screen' = <<>>
    BY <1>a DEF Reloads
  <2>2. received' <= end' /\ DOMAIN screen' = {}
    BY <1>0, <2>1
  <2> QED BY <2>2 DEF ScreenInv, DrawnInOrder
<1>b. CASE ClientReceives
  <2> DEFINE m == Head(toClient)
  <2>1. /\ toClient # <<>> /\ ((m.t = "opened" /\ OnOpen(m)) \/ (m.t = "data" /\ OnBinary(m)))
        /\ UNCHANGED <<end, overtaken>> /\ m = toClient[1] /\ 1 \in DOMAIN toClient /\ m \in Frame
    BY <1>0, <1>b DEF ClientReceives, serverVars, ringVars
  <2>2. link # 0 /\ link = ctx
    BY <2>1 DEF ChannelsInv, IInv
  <2>3. PICK f : Walks(f, toClient, received, end, ~overtaken)
    BY <2>2, StreamIs
  <2>4. Leg(m, received, f[1], ~overtaken) /\ f[1] \in 0..end
    BY <1>0, <2>1, <2>3, WalksTail
  <2>5. CASE m.t = "opened"
    <3>1. received' = f[1] /\ screen' = Cleared(m.mode) /\ f[1] = m.offset
      <4> HIDE DEF m
      <4> QED BY <2>1, <2>4, <2>5 DEF Leg, OnOpen
    <3>2. received' <= end'
      BY <1>0, <2>1, <2>4, <3>1
    <3>3. m.mode \in {"partial", "full"}
      <4> HIDE DEF m
      <4> QED BY <2>1, <2>5 DEF Frame
    <3>4. CASE m.mode = "full"
      <4>1. screen' = <<>>
        BY <3>1, <3>4 DEF Cleared
      <4>2. DOMAIN screen' = {}
        BY <4>1
      <4> QED BY <3>2, <4>2 DEF ScreenInv, DrawnInOrder
    <3>5. CASE m.mode = "partial"
      <4>1. ~opened
        BY <2>1, <2>5 DEF FramesInv, IInv
      <4>2. m.offset = received
        BY <2>1, <2>2, <3>5, <4>1 DEF FramesInv, IInv
      <4>3. received' = received /\ screen' = screen
        BY <3>1, <3>5, <4>2 DEF Cleared
      <4> QED BY <1>1, <2>1, <4>3
    <3> QED BY <3>3, <3>4, <3>5
  <2>6. CASE m.t = "data"
    <3>0. m.bytes \in Seq(1..MaxOut)
      <4> HIDE DEF m
      <4> QED BY <2>1, <2>6 DEF Frame
    <3>1. received' = f[1] /\ screen' = screen \o m.bytes /\ (~overtaken => m.bytes = Bytes(received, f[1]))
          /\ f[1] = received + Len(m.bytes)
      <4> HIDE DEF m
      <4> QED BY <2>1, <2>4, <2>6 DEF Leg, OnBinary
    <3>2. received' <= end' /\ f[1] \in Nat /\ received <= f[1] /\ f[1] <= MaxOut
      <4>1. Len(m.bytes) \in Nat
        BY <3>0
      <4> HIDE DEF m
      <4> QED BY <1>0, <2>1, <2>4, <3>1, <4>1
    <3>3. ASSUME ~overtaken' PROVE \A k \in DOMAIN screen' : screen'[k] = received' - Len(screen') + k
      <4>1. \A k \in DOMAIN screen : screen[k] = received - Len(screen) + k
        BY <1>0, <2>1, <3>3 DEF ScreenInv, DrawnInOrder
      <4>2. screen' = screen \o Bytes(received, f[1])
        BY <2>1, <3>1, <3>3
      <4> DEFINE s == screen
                 a == received
                 b == f[1]
      <4>3. /\ s \in Seq(1..MaxOut) /\ a \in Nat /\ b \in Nat /\ a <= b /\ b <= MaxOut
            /\ \A k \in DOMAIN s : s[k] = a - Len(s) + k
        BY <1>0, <3>2, <4>1
      <4>4. \A k \in DOMAIN (s \o Bytes(a, b)) : (s \o Bytes(a, b))[k] = b - Len(s \o Bytes(a, b)) + k
        <5> HIDE DEF s, a, b
        <5> QED BY <4>3, DrawsOn
      <4> QED BY <3>1, <4>2, <4>4
    <3> QED BY <3>2, <3>3 DEF ScreenInv, DrawnInOrder
  <2> QED BY <2>1, <2>5, <2>6
<1>c. ASSUME NEW size \in Sizes, WindowResizes(size) PROVE ScreenInv'
  BY <1>1, <1>c DEF WindowResizes
<1>d. CASE UNCHANGED vars
  BY <1>1, <1>d DEF vars, serverVars, windowVars
<1> QED BY <1>2, <1>3, <1>4, <1>5, <1>6, <1>7, <1>8, <1>9, <1>a, <1>b, <1>c, <1>d DEF Next

\* An appended message is the last.
LEMMA LastOfAppend ==
  ASSUME NEW S, NEW q \in Seq(S), NEW m
  PROVE  Append(q, m) # <<>> /\ Append(q, m)[Len(Append(q, m))] = m
OBVIOUS

\* What is last stays last while there is anything.
LEMMA LastOfTail ==
  ASSUME NEW S, NEW q \in Seq(S), Tail(q) # <<>>, q # <<>>
  PROVE  Tail(q)[Len(Tail(q))] = q[Len(q)]
<1> DEFINE l == Len(q)
<1>1. l \in Nat /\ l # 0 /\ l # 1 /\ Len(Tail(q)) = l - 1
  <2>1. l \in Nat /\ Tail(q) \in Seq(S) /\ Len(Tail(q)) = l - 1
    OBVIOUS
  <2>2. \A s \in Seq(S) : s # <<>> => Len(s) # 0
    OBVIOUS
  <2>3. l # 0 /\ Len(Tail(q)) # 0
    BY <2>1, <2>2
  <2> HIDE DEF l
  <2> QED BY <2>1, <2>3
<1>2. l - 1 \in 1..(l - 1) /\ (l - 1) + 1 = l
  <2> HIDE DEF l
  <2> QED BY <1>1
<1>3. \A k \in 1..(l - 1) : Tail(q)[k] = q[k + 1]
  OBVIOUS
<1> HIDE DEF l
<1> QED BY <1>1, <1>2, <1>3 DEF l

\* Every step keeps a redraw that is owed to come.
LEMMA StepTimers ==
  ASSUME RingAssumption, ReplayAssumption, IInv, [Next]_vars
  PROVE  TimersInv'
<1>0. /\ TimersInv /\ ChannelsInv /\ ctx \in Nat /\ chans \in Nat /\ link \in Nat
      /\ \A x \in timers : x.chan \in Nat \ {0} /\ x.size \in Nat \ {0}
      /\ repaint \in BOOLEAN /\ owed \in BOOLEAN /\ Sizes \subseteq Nat \ {0}
  <2>1. /\ TimersInv /\ ChannelsInv /\ ctx \in 0..MaxChans /\ chans \in 0..MaxChans /\ link \in 0..MaxChans
        /\ timers \subseteq [chan : 1..MaxChans, size : Sizes] /\ repaint \in BOOLEAN /\ owed \in BOOLEAN
    BY DEF IInv, TypeOK
  <2>2. Sizes \subseteq Nat \ {0} /\ 1..MaxChans \subseteq Nat \ {0} /\ 0..MaxChans \subseteq Nat
    BY DEF ReplayAssumption
  <2>3. \A x \in timers : x.chan \in 1..MaxChans /\ x.size \in Sizes
    BY <2>1
  <2> QED BY <2>1, <2>2, <2>3
<1>1. ASSUME UNCHANGED <<timers, link, chans, ctx, repaint, owed, rows>> PROVE TimersInv'
  BY <1>0, <1>1 DEF TimersInv
<1>2. ASSUME NEW n \in 1..Limit, Prints(n) PROVE TimersInv'
  BY <1>1, <1>2 DEF Prints, windowVars
<1>3. CASE Attach
  <2>1. PICK mode \in {"partial", "full"} :
          repaint' = (mode = "full") /\ owed' = (mode = "full") /\ ctx' = link /\ link # 0 /\ link # ctx
    BY <1>3, AttachReplays
  <2>2. UNCHANGED <<timers, rows, link, chans>>
    BY <1>3 DEF Attach, windowVars
  <2>3. \A x \in timers : x.chan <= chans /\ x.chan # link
    BY <1>0, <2>1 DEF TimersInv
  <2> QED BY <1>0, <2>1, <2>2, <2>3 DEF TimersInv
<1>4. CASE SendsReplay
  BY <1>1, <1>4 DEF SendsReplay, windowVars
<1>5. CASE ServerReceives
  <2> DEFINE size == Head(toServer).size
             x == [chan |-> ctx, size |-> size]
  <2>1. size \in Sizes /\ link # 0 /\ link = ctx
    BY <1>5, ResizeIsHeard
  <2>2. UNCHANGED <<link, chans, ctx>>
    BY <1>5 DEF ServerReceives, windowVars
  <2>3. HandlesResize(size) \/ UNCHANGED <<repaint, timers, rows, owed>>
    BY <1>5 DEF ServerReceives
  <2>4. x.chan = ctx /\ x.size = size
    OBVIOUS
  <2>5. CASE repaint /\ HandlesResize(size)
    <3>1. repaint' = FALSE /\ rows' = WrongSize(size) /\ timers' = timers \cup {x}
      BY <2>5 DEF HandlesResize, ResizesTo
    <3>2. WrongSize(size) # size
      <4>1. size \in Nat \ {0}
        BY <1>0, <2>1
      <4> HIDE DEF size
      <4> QED BY <4>1 DEF WrongSize
    <3> HIDE DEF size, x
    <3>3. \A y \in timers : y.chan # ctx
      BY <1>0, <2>5 DEF TimersInv
    <3>4. ctx <= chans
      BY <1>0 DEF ChannelsInv
    <3>5. \A y \in timers' : y.chan <= chans
      BY <1>0, <2>4, <3>1, <3>4 DEF TimersInv
    <3>6. \A y, z \in timers' : y.chan = z.chan => y = z
      BY <1>0, <2>4, <3>1, <3>3 DEF TimersInv
    <3>7. \E y \in timers' : y.chan = ctx /\ y.size # rows'
      BY <2>4, <3>1, <3>2
    <3> QED BY <2>1, <2>2, <3>1, <3>5, <3>6, <3>7 DEF TimersInv
  <2>6. CASE ~repaint /\ HandlesResize(size)
    <3>1. repaint' = repaint /\ timers' = timers /\ rows' = size /\ owed' = (owed /\ size = rows)
      BY <2>6 DEF HandlesResize, ResizesTo
    <3>2. owed' => rows' = rows /\ owed
      BY <3>1
    <3> HIDE DEF size, x
    <3> QED BY <1>0, <2>2, <2>6, <3>1, <3>2 DEF TimersInv
  <2>7. CASE UNCHANGED <<repaint, timers, rows, owed>>
    BY <1>1, <2>2, <2>7
  <2> QED BY <1>0, <2>3, <2>5, <2>6, <2>7
<1>6. CASE Repaints
  <2>1. PICK x \in timers : /\ timers' = timers \ {x}
                            /\ IF RepaintsFor(x) THEN ResizesTo(x.size) ELSE UNCHANGED <<rows, owed>>
    BY <1>6 DEF Repaints
  <2>2. UNCHANGED <<link, chans, ctx, repaint>>
    BY <1>6 DEF Repaints, windowVars
  <2>3. \A y \in timers' : y \in timers /\ y # x
    BY <2>1
  <2>4. CASE x.chan = ctx
    <3>1. rows' = x.size /\ owed' = (owed /\ x.size = rows)
      BY <2>1, <2>4 DEF RepaintsFor, ResizesTo
    <3>2. ~repaint
      BY <1>0, <2>4 DEF TimersInv
    <3>3. ctx # 0
      BY <1>0, <2>4
    <3>4. ~owed'
      <4> SUFFICES ASSUME owed, x.size = rows PROVE FALSE
        BY <3>1
      <4>1. PICK y \in timers : y.chan = ctx /\ y.size # rows
        BY <1>0, <3>2, <3>3 DEF TimersInv
      <4>2. y = x
        BY <1>0, <2>4, <4>1 DEF TimersInv
      <4> QED BY <4>1, <4>2
    <3> QED BY <1>0, <2>2, <2>3, <3>4 DEF TimersInv
  <2>5. CASE x.chan # ctx
    <3>1. UNCHANGED <<rows, owed>>
      BY <2>1, <2>5 DEF RepaintsFor
    <3>2. \A y \in timers : y.chan = ctx => y \in timers'
      BY <2>1, <2>5
    <3>3. owed' /\ ctx' # 0 /\ ~repaint' => \E y \in timers' : y.chan = ctx' /\ y.size # rows'
      BY <1>0, <2>2, <3>1, <3>2 DEF TimersInv
    <3> QED BY <1>0, <2>2, <2>3, <3>3 DEF TimersInv
  <2> QED BY <2>4, <2>5
<1>7. CASE ServerNotices
  <2>1. ctx' = 0 /\ ctx # link /\ UNCHANGED <<timers, link, chans, repaint, owed, rows>>
    BY <1>7 DEF ServerNotices, windowVars
  <2> QED BY <1>0, <2>1 DEF TimersInv
<1>8. CASE Drops
  <2>1. link' = 0 /\ UNCHANGED <<timers, chans, ctx, repaint, owed, rows>>
    BY <1>8 DEF Drops, serverVars
  <2> QED BY <1>0, <2>1 DEF TimersInv
<1>9. ASSUME NEW seen, OpensFor(seen) PROVE TimersInv'
  <2>1. link' = chans + 1 /\ chans' = chans + 1 /\ UNCHANGED <<timers, ctx, repaint, owed, rows>>
    BY <1>9 DEF OpensFor, serverVars
  <2>2. \A x \in timers : x.chan <= chans + 1 /\ x.chan # chans + 1
    BY <1>0 DEF TimersInv
  <2> QED BY <1>0, <2>1, <2>2 DEF TimersInv
<1>a. CASE Reconnects
  BY <1>9, <1>a DEF Reconnects
<1>b. CASE Reloads
  BY <1>9, <1>b DEF Reloads
<1>c. CASE ClientReceives
  BY <1>1, <1>c DEF ClientReceives, serverVars
<1>d. ASSUME NEW size \in Sizes, WindowResizes(size) PROVE TimersInv'
  BY <1>1, <1>d DEF WindowResizes, serverVars
<1>e. CASE UNCHANGED vars
  BY <1>1, <1>e DEF vars, serverVars, windowVars
<1> QED BY <1>2, <1>3, <1>4, <1>5, <1>6, <1>7, <1>8, <1>a, <1>b, <1>c, <1>d, <1>e DEF Next

\* Every step keeps the last size on its way to the pty.
LEMMA StepSize ==
  ASSUME RingAssumption, ReplayAssumption, IInv, [Next]_vars
  PROVE  SizeInv'
<1>0. /\ SizeInv /\ TimersInv /\ ChannelsInv /\ FramesInv /\ toServer \in Seq(Message) /\ toClient \in Seq(Frame)
      /\ resized \in BOOLEAN /\ opened \in BOOLEAN /\ DOMAIN toClient = 1..Len(toClient)
  BY QueueTypes DEF IInv, TypeOK
<1>1. ASSUME UNCHANGED <<opened, toServer, resized, timers, ctx, rows, height>> PROVE SizeInv'
  BY <1>0, <1>1 DEF SizeInv
<1>2. ASSUME ~opened' PROVE SizeInv'
  BY <1>2 DEF SizeInv
<1>3. ASSUME NEW size, toServer' = Append(toServer, [t |-> "resize", size |-> size]), height' = size PROVE SizeInv'
  <2>1. toServer' # <<>> /\ toServer'[Len(toServer')] = [t |-> "resize", size |-> size]
    BY <1>0, <1>3, LastOfAppend
  <2> QED BY <1>3, <2>1 DEF SizeInv
<1>4. ASSUME NEW n \in 1..Limit, Prints(n) PROVE SizeInv'
  BY <1>1, <1>4 DEF Prints, windowVars
<1>5. CASE Attach
  <2>1. ~opened'
    BY <1>5, AttachReplays DEF Attach, windowVars
  <2> QED BY <1>2, <2>1
<1>6. CASE SendsReplay
  BY <1>1, <1>6 DEF SendsReplay, windowVars
<1>7. CASE ServerReceives
  <2> DEFINE size == Head(toServer).size
  <2>1. UNCHANGED <<opened, ctx, height>> /\ toServer' = Tail(toServer) /\ toServer # <<>>
    BY <1>7 DEF ServerReceives, windowVars
  <2>2. CASE ~opened
    BY <1>2, <2>1, <2>2
  <2>3. CASE opened /\ toServer' # <<>>
    <3>1. toServer[Len(toServer)] = [t |-> "resize", size |-> height]
      BY <1>0, <2>1, <2>3 DEF SizeInv
    <3>2. toServer'[Len(toServer')] = toServer[Len(toServer)]
      BY <1>0, <2>1, <2>3, LastOfTail
    <3> QED BY <2>1, <2>3, <3>1, <3>2 DEF SizeInv
  <2>4. CASE opened /\ toServer' = <<>>
    <3>1. size = height
      <4>1. toServer[Len(toServer)] = [t |-> "resize", size |-> height]
        BY <1>0, <2>1, <2>4 DEF SizeInv
      <4>2. Len(toServer) = 1 /\ Head(toServer) = toServer[1]
        <5>1. toServer \in Seq(Message) /\ toServer # <<>> /\ Tail(toServer) = <<>>
          BY <1>0, <2>1, <2>4
        <5>2. Len(Tail(toServer)) = Len(toServer) - 1 /\ Len(toServer) \in Nat /\ Head(toServer) = toServer[1]
          BY <5>1
        <5> DEFINE r == Tail(toServer)
        <5>3. r = <<>>
          BY <5>1
        <5>4. Len(r) = 0
          <6> HIDE DEF r
          <6> QED BY <5>3
        <5> QED BY <5>2, <5>4
      <4>3. Head(toServer) = [t |-> "resize", size |-> height]
        BY <4>1, <4>2
      <4> QED BY <4>3
    <3>2. ~(\E k \in DOMAIN toClient : toClient[k].t = "opened")
      BY <1>0, <2>4 DEF FramesInv
    <3>3. HandlesResize(size)
      BY <1>7, <3>2 DEF ServerReceives
    <3> HIDE DEF size
    <3>4. CASE repaint
      <4>1. timers' = timers \cup {[chan |-> ctx, size |-> size]} /\ ctx' = ctx
        BY <2>1, <3>3, <3>4 DEF HandlesResize
      <4>2. \E x \in timers' : x.chan = ctx' /\ x.size = height'
        <5>1. [chan |-> ctx, size |-> size] \in timers' /\ [chan |-> ctx, size |-> size].chan = ctx
              /\ [chan |-> ctx, size |-> size].size = size
          BY <4>1
        <5> QED BY <2>1, <3>1, <4>1, <5>1
      <4> QED BY <2>4, <4>2 DEF SizeInv
    <3>5. CASE ~repaint
      <4>1. timers' = timers /\ rows' = size /\ resized' = (resized \/ \E x \in timers : x.chan = ctx)
        BY <3>3, <3>5 DEF HandlesResize, ResizesTo
      <4> QED BY <2>1, <2>4, <3>1, <4>1 DEF SizeInv
    <3> QED BY <3>4, <3>5
  <2> QED BY <2>2, <2>3, <2>4
<1>8. CASE Repaints
  <2>1. PICK x \in timers : /\ timers' = timers \ {x}
                            /\ IF RepaintsFor(x) THEN ResizesTo(x.size) ELSE UNCHANGED <<rows, owed>>
    BY <1>8 DEF Repaints
  <2>2. UNCHANGED <<opened, toServer, resized, ctx, height>>
    BY <1>8 DEF Repaints, windowVars
  <2>3. CASE x.chan = ctx
    <3>1. rows' = x.size
      BY <2>1, <2>3 DEF RepaintsFor, ResizesTo
    <3>2. \A y \in timers : y.chan = ctx => y = x
      BY <1>0, <2>3 DEF TimersInv
    <3>3. \A y \in timers' : y.chan # ctx
      BY <2>1, <3>2
    <3>4. opened /\ toServer = <<>> /\ ~resized => x.size = height
      BY <1>0, <2>3, <3>2 DEF SizeInv
    <3> QED BY <1>0, <2>2, <3>1, <3>3, <3>4 DEF SizeInv
  <2>4. CASE x.chan # ctx
    <3>1. rows' = rows
      BY <2>1, <2>4 DEF RepaintsFor
    <3>2. \A y : y.chan = ctx => (y \in timers' <=> y \in timers)
      BY <2>1, <2>4
    <3> QED BY <1>0, <2>2, <3>1, <3>2 DEF SizeInv
  <2> QED BY <2>3, <2>4
<1>9. CASE ServerNotices
  <2>1. ctx # 0 /\ ctx # link /\ opened' = opened
    BY <1>9 DEF ServerNotices, windowVars
  <2>2. ~opened
    BY <1>0, <2>1 DEF ChannelsInv
  <2> QED BY <1>2, <2>1, <2>2
<1>a. CASE Drops
  BY <1>2, <1>a DEF Drops
<1>b. CASE Reconnects
  BY <1>2, <1>b DEF Reconnects, OpensFor
<1>c. CASE Reloads
  BY <1>2, <1>c DEF Reloads, OpensFor
<1>d. CASE ClientReceives
  <2> DEFINE m == Head(toClient)
  <2>1. ((m.t = "opened" /\ OnOpen(m)) \/ (m.t = "data" /\ OnBinary(m)))
        /\ UNCHANGED <<height, resized, timers, ctx, rows>>
    BY <1>d DEF ClientReceives, serverVars
  <2> HIDE DEF m
  <2>2. CASE OnOpen(m)
    BY <1>3, <2>1, <2>2 DEF OnOpen
  <2>3. CASE OnBinary(m)
    BY <1>1, <2>1, <2>3 DEF OnBinary
  <2> QED BY <2>1, <2>2, <2>3
<1>e. ASSUME NEW size \in Sizes, WindowResizes(size) PROVE SizeInv'
  <2>1. CASE link # 0
    BY <1>3, <1>e, <2>1 DEF WindowResizes
  <2>2. CASE link = 0
    <3>1. ~opened'
      BY <1>0, <1>e, <2>2 DEF ChannelsInv, WindowResizes
    <3> QED BY <1>2, <3>1
  <2> QED BY <2>1, <2>2
<1>f. CASE UNCHANGED vars
  BY <1>1, <1>f DEF vars, serverVars, windowVars
<1> QED BY <1>4, <1>5, <1>6, <1>7, <1>8, <1>9, <1>a, <1>b, <1>c, <1>d, <1>e, <1>f DEF Next

\* The window that has spawned its shell.
LEMMA InitInv ==
  ASSUME RingAssumption, ReplayAssumption, Init
  PROVE  IInv
<1>1. /\ capacity = First /\ buf = [i \in 0..(First - 1) |-> 0] /\ head = 0 /\ len = 0 /\ end = 0
      /\ ctx = 1 /\ link = 1 /\ chans = 1 /\ replay = <<>> /\ repaint = FALSE /\ timers = {}
      /\ height \in Sizes /\ rows = height /\ owed = FALSE /\ toServer = <<>>
      /\ opened = FALSE /\ received = 0 /\ screen = <<>> /\ overtaken = FALSE /\ resized = FALSE
  BY DEF Init, RingInit
<1> DEFINE m == [t |-> "opened", mode |-> "partial", offset |-> 0]
<1>2. toClient = <<m>> /\ m \in Frame /\ m.t = "opened" /\ m.mode = "partial" /\ m.offset = 0
  BY DEF Init, Frame
<1>3. /\ {First, Limit, MaxOut, MaxChans} \subseteq Nat \ {0} /\ First <= Limit /\ Sizes \subseteq Nat \ {0}
  BY DEF RingAssumption, ReplayAssumption
<1> HIDE DEF m
<1>4. toClient # <<>> /\ toClient[1] = m /\ DOMAIN toClient = {1} /\ Len(toClient) = 1 /\ toClient \in Seq(Frame)
  BY <1>2
<1>5. RingTypeOK
  BY <1>1, <1>3 DEF RingTypeOK
<1>6. HoldsTheTail
  <2>1. Min({Limit, end}) = 0
    <3>1. Limit \in Int /\ 0 \in Int /\ ~(Limit <= 0)
      BY <1>3
    <3> QED BY <1>1, <3>1, MinOfTwo
  <2>2. contents = [k \in 1..len |-> end - len + k]
    <3>1. 1..len = {}
      BY <1>1
    <3> QED BY <3>1 DEF contents
  <2> QED BY <1>1, <2>1, <2>2 DEF HoldsTheTail
<1>7. TypeOK
  <2>1. 1 \in 0..MaxChans /\ 0 \in Nat
    BY <1>3
  <2>2. <<>> \in Seq(Replays) /\ <<>> \in Seq(Message) /\ <<>> \in Seq(1..MaxOut)
    OBVIOUS
  <2>3. /\ ctx \in 0..MaxChans /\ link \in 0..MaxChans /\ chans \in 0..MaxChans /\ replay \in Seq(Replays)
        /\ {repaint, owed, opened, overtaken, resized} \subseteq BOOLEAN
        /\ timers \subseteq [chan : 1..MaxChans, size : Sizes] /\ received \in Nat
        /\ screen \in Seq(1..MaxOut) /\ toServer \in Seq(Message)
    BY <1>1, <2>1, <2>2
  <2>4. rows \in Nat \ {0} /\ height \in Sizes
    BY <1>1, <1>3
  <2> QED BY <1>4, <1>5, <2>3, <2>4 DEF TypeOK, Frame, Message
<1>8. ChannelsInv
  <2>1. DOMAIN toServer = {}
    BY <1>1
  <2> QED BY <1>1, <2>1 DEF ChannelsInv
<1>9. ReplaysInv
  <2>1. DOMAIN replay = {}
    BY <1>1
  <2> QED BY <2>1 DEF ReplaysInv
<1>a. FramesInv
  BY <1>1, <1>2, <1>4 DEF FramesInv
<1>b. StreamInv
  <2> DEFINE f == [k \in 0..1 |-> 0]
  <2>1. f \in [0..1 -> 0..0] /\ f[0] = 0 /\ f[1] = 0 /\ 1..1 = {1} /\ 1 - 1 = 0
    OBVIOUS
  <2> HIDE DEF f
  <2>2. Leg(m, f[0], f[1], ~overtaken)
    BY <1>2, <2>1 DEF Leg
  <2>3. Walks(f, toClient, received, end, ~overtaken)
    BY <1>1, <1>4, <2>1, <2>2 DEF Walks
  <2>4. Due = <<>>
    BY <1>1 DEF Due
  <2>5. Bytes(0, 0) = <<>>
    BY <1>3, NoBytes
  <2>6. f[Len(toClient)] = 0 /\ 0 + Len(<<>>) = 0
    BY <1>4, <2>1
  <2> QED BY <1>1, <2>3, <2>4, <2>5, <2>6 DEF StreamInv
<1>c. ScreenInv
  <2>1. DOMAIN screen = {}
    BY <1>1
  <2> QED BY <1>1, <2>1 DEF ScreenInv, DrawnInOrder
<1>d. TimersInv
  BY <1>1 DEF TimersInv
<1>e. SizeInv
  BY <1>1 DEF SizeInv
<1> QED BY <1>6, <1>7, <1>8, <1>9, <1>a, <1>b, <1>c, <1>d, <1>e DEF IInv

\* The invariant is inductive.
LEMMA StepInv ==
  ASSUME RingAssumption, ReplayAssumption, IInv, [Next]_vars
  PROVE  IInv'
BY StepType, StepHolds, StepChannels, StepReplays, StepFrames, StepStream, StepScreen, StepTimers, StepSize DEF IInv

\* The inductive invariant always holds.
THEOREM AlwaysInv == Spec => []IInv
<1>1. Init => IInv
  BY RingAssumption, ReplayAssumption, InitInv
<1>2. IInv /\ [Next]_vars => IInv'
  BY RingAssumption, ReplayAssumption, StepInv
<1> QED BY <1>1, <1>2, PTL DEF Spec

\* Over any number of drops, reloads and replays the ring holds the newest
\* bytes of the stream through growth, wrap and overflow, and window and
\* server count alike once nothing is on its way. As long as no live output
\* has gone out between an attach and its replay (overtaken), the window has
\* also drawn one stretch in order, each byte once; of what it draws after one
\* that has, nothing is claimed: it may be out of order, or drawn twice
\* (pty.ts, Ring, attach; terminal/index.ts).
THEOREM ScreenFollows == Spec => []ScreenIsTheStream
<1>1. IInv => ScreenIsTheStream
  <2> SUFFICES ASSUME IInv PROVE ScreenIsTheStream
    OBVIOUS
  <2>1. OffsetsAgree
    <3> SUFFICES ASSUME CaughtUp PROVE received = end
      BY DEF OffsetsAgree
    <3>1. link # 0 /\ link = ctx /\ toClient = <<>> /\ replay = <<>>
      BY DEF CaughtUp
    <3>2. PICK f : /\ Walks(f, toClient, received, end, ~overtaken)
                   /\ f[Len(toClient)] \in 0..end /\ f[Len(toClient)] + Len(Due) = end
      BY <3>1, RingAssumption, StreamIs
    <3>3. Len(toClient) = 0 /\ Due = <<>> /\ Len(Due) = 0
      BY <3>1 DEF Due
    <3>4. f[0] = received
      BY <3>2 DEF Walks
    <3>5. f[0] + 0 = end /\ f[0] \in 0..end
      BY <3>2, <3>3
    <3>6. end \in Nat
      BY QueueTypes DEF IInv
    <3> QED BY <3>4, <3>5, <3>6
  <2> QED BY <2>1 DEF IInv, ScreenInv, ScreenIsTheStream
<1> QED BY <1>1, AlwaysInv, PTL

\* A full replay is followed by a change of size, whatever is resized, and
\* dropped, meanwhile. With nothing on its way the pty has the height of its
\* window where no resize came within the 50 ms of a repaint on the channel
\* (resized); where one did the pty may be left at the size before
\* (pty.ts 420-440).
THEOREM SizeFollows == Spec => []SizeIsRight
<1>1. IInv => SizeIsRight
  BY DEF IInv, TimersInv, SizeInv, SizeIsRight, ProgramRedraws, SizeSettles, CaughtUp
<1> QED BY <1>1, AlwaysInv, PTL
=============================================================================
