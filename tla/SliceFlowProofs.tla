-------------------------- MODULE SliceFlowProofs --------------------------
(***************************************************************************)
(* What holds of SliceFlow for any number of channels and payloads and for *)
(* every size of slice, header and window: the pump's books are exact, it  *)
(* never rests with work to do, no more than a window is out, and every    *)
(* channel keeps the promise of ChannelFifo.                               *)
(*                                                                         *)
(* The order of the parts:                                                 *)
(*   numbers and recursion, then Picked and Total, which the books are     *)
(*     written with: what they give for <<>>, after Append, after Tail;    *)
(*   the queue and its entries (QueueInv), its count by channel, and the   *)
(*     credit on the wire: together BooksInv, from which PumpBooks;        *)
(*   PumpNeverIdles and SlicesWithinWindow, from BooksInv;                 *)
(*   the stream of one channel, from what the page holds over the frames   *)
(*     under way to the queue (StreamInv), from which SlicesKeepOrder.     *)
(***************************************************************************)
EXTENDS SliceFlow, FiniteSetTheorems, FunctionTheorems, SequenceTheorems, WellFoundedInduction,
        NaturalsInduction, TLAPS

\* Every set of numbers that is not empty has a least member.
LEMMA LeastNumber ==
  ASSUME NEW T, T \subseteq Nat, T # {}
  PROVE  \E n \in T : \A m \in T : n <= m
<1> DEFINE R == OpToRel(<, Nat)
<1>1. PICK x \in T : \A y \in T : ~(<<y, x>> \in R)
  <2>1. IsWellFoundedOn(R, Nat)
    BY NatLessThanWellFounded
  <2> HIDE DEF R
  <2> QED BY <2>1, WFMin
<1>2. \A y \in T : <<y, x>> \in R <=> y < x
  BY DEF OpToRel
<1>3. \A y \in T : ~(y < x)
  <2> HIDE DEF R
  <2> QED BY <1>1, <1>2
<1>4. x \in Nat /\ \A y \in T : y \in Nat
  OBVIOUS
<1>5. \A y \in T : x <= y
  BY <1>3, <1>4
<1> QED BY <1>5

\* Induction up to n, for a set T of numbers in the place of the property.
LEMMA UpTo ==
  ASSUME NEW n \in Nat, NEW T, 0 \in T,
         \A k \in 0..n : k \in T /\ k < n => k + 1 \in T
  PROVE  \A k \in 0..n : k \in T
<1> SUFFICES ASSUME NEW j \in 0..n, j \notin T PROVE FALSE
  OBVIOUS
<1> DEFINE U == {k \in 0..n : k \notin T}
<1>1. PICK k \in U : \A m \in U : k <= m
  <2>1. U \subseteq Nat /\ U # {}
    OBVIOUS
  <2> HIDE DEF U
  <2> QED BY <2>1, LeastNumber
<1>2. k # 0 /\ k - 1 \in 0..n /\ k - 1 \notin U
  BY <1>1
<1> QED BY <1>2

\* f is the recursion that starts at v and takes its n-th step by F[n].
Recursion(f, F, v, V, N) ==
  /\ f \in [0..N -> V] /\ f[0] = v
  /\ \A k \in 1..N : f[k] = F[k][f[k - 1]]

\* A recursive definition over 0..n has a function that meets it.
LEMMA RecursionExists ==
  ASSUME NEW V, NEW v \in V, NEW N \in Nat, NEW F \in [1..N -> [V -> V]]
  PROVE  \E f : Recursion(f, F, v, V, N)
<1> DEFINE T == {n \in 0..N : \E f : Recursion(f, F, v, V, n)}
<1>1. 0 \in T
  <2>1. Recursion([k \in 0..0 |-> v], F, v, V, 0)
    BY DEF Recursion
  <2> QED BY <2>1
<1>2. ASSUME NEW n \in 0..N, n \in T, n < N PROVE n + 1 \in T
  <2>1. PICK f : Recursion(f, F, v, V, n)
    BY <1>2
  <2> DEFINE g == [k \in 0..(n + 1) |-> IF k <= n THEN f[k] ELSE F[k][f[k - 1]]]
  <2>2. \A k \in 0..(n + 1) : g[k] \in V
    BY <2>1, <1>2 DEF Recursion
  <2>3. g \in [0..(n + 1) -> V] /\ g[0] = v
    BY <2>1, <2>2 DEF Recursion
  <2>4. \A k \in 1..(n + 1) : g[k] = F[k][g[k - 1]]
    BY <2>1 DEF Recursion
  <2>5. Recursion(g, F, v, V, n + 1)
    BY <2>3, <2>4 DEF Recursion
  <2> HIDE DEF g
  <2> QED BY <2>5, <1>2
<1>3. \A n \in 0..N : n \in T
  <2>1. \A n \in 0..N : n \in T /\ n < N => n + 1 \in T
    BY <1>2
  <2> HIDE DEF T
  <2> QED BY <1>1, <2>1, UpTo
<1> QED BY <1>3

\* h is the function Picked defines by recursion.
Picking(h, q, K, S) ==
  /\ h \in [0..Len(q) -> Seq(S)]
  /\ h[0] = <<>> /\ Picked(q, K) = h[Len(q)]
  /\ \A k \in 1..Len(q) : h[k] = IF k \in K THEN Append(h[k - 1], q[k]) ELSE h[k - 1]

\* Picked meets its recursion: what it takes from q it takes entry by entry.
LEMMA PickedSteps ==
  ASSUME NEW S, NEW q \in Seq(S), NEW K
  PROVE  \E h : Picking(h, q, K, S)
<1> DEFINE F == [k \in 1..Len(q) |->
                   [s \in Seq(S) |-> IF k \in K THEN Append(s, q[k]) ELSE s]]
<1> DEFINE picked == CHOOSE f : f = [k \in 0..Len(q) |->
                       IF k = 0 THEN <<>>
                       ELSE IF k \in K THEN Append(f[k - 1], q[k]) ELSE f[k - 1]]
<1>1. F \in [1..Len(q) -> [Seq(S) -> Seq(S)]]
  OBVIOUS
<1>2. PICK f : Recursion(f, F, <<>>, Seq(S), Len(q))
  <2>1. <<>> \in Seq(S) /\ Len(q) \in Nat
    OBVIOUS
  <2> HIDE DEF F
  <2> QED BY <1>1, <2>1, RecursionExists
<1>3. f = [k \in 0..Len(q) |-> IF k = 0 THEN <<>>
             ELSE IF k \in K THEN Append(f[k - 1], q[k]) ELSE f[k - 1]]
  <2>1. \A k \in 1..Len(q) : f[k] = IF k \in K THEN Append(f[k - 1], q[k]) ELSE f[k - 1]
    <3> TAKE k \in 1..Len(q)
    <3>1. f[k - 1] \in Seq(S) /\ f[k] = F[k][f[k - 1]]
      <4>1. k - 1 \in 0..Len(q)
        OBVIOUS
      <4> HIDE DEF F
      <4> QED BY <4>1, <1>2 DEF Recursion
    <3> QED BY <3>1
  <2>2. f[0] = <<>> /\ f = [k \in 0..Len(q) |-> f[k]]
    BY <1>2 DEF Recursion
  <2>3. \A k \in 0..Len(q) : f[k] = IF k = 0 THEN <<>>
             ELSE IF k \in K THEN Append(f[k - 1], q[k]) ELSE f[k - 1]
    BY <2>1, <2>2
  <2> QED BY <2>2, <2>3
<1>4. picked = [k \in 0..Len(q) |-> IF k = 0 THEN <<>>
             ELSE IF k \in K THEN Append(picked[k - 1], q[k]) ELSE picked[k - 1]]
  BY <1>3
<1>5. Picked(q, K) = picked[Len(q)]
  BY DEF Picked
<1> HIDE DEF picked, F
<1>6. picked[0] = <<>>
  BY <1>4
<1>7. \A k \in 1..Len(q) : picked[k] = IF k \in K THEN Append(picked[k - 1], q[k]) ELSE picked[k - 1]
  <2> TAKE k \in 1..Len(q)
  <2>1. k \in 0..Len(q) /\ k # 0
    OBVIOUS
  <2> QED BY <1>4, <2>1
<1>8. \A k \in 0..Len(q) : picked[k] \in Seq(S)
  <2> DEFINE T == {k \in 0..Len(q) : picked[k] \in Seq(S)}
  <2>0. Len(q) \in Nat /\ <<>> \in Seq(S)
    OBVIOUS
  <2>1. 0 \in T
    <3>1. picked[0] \in Seq(S)
      BY <1>6, <2>0
    <3>2. 0 \in 0..Len(q)
      BY <2>0
    <3> QED BY <3>1, <3>2
  <2>2. ASSUME NEW k \in 0..Len(q), k \in T, k < Len(q) PROVE k + 1 \in T
    <3>1. k + 1 \in 1..Len(q) /\ (k + 1) - 1 = k
      BY <2>2
    <3>2. picked[k + 1] = IF k + 1 \in K THEN Append(picked[k], q[k + 1]) ELSE picked[k]
      BY <3>1, <1>7
    <3>3. picked[k] \in Seq(S) /\ q[k + 1] \in S
      BY <3>1, <2>2
    <3>4. picked[k + 1] \in Seq(S)
      BY <3>2, <3>3, AppendProperties
    <3> QED BY <3>1, <3>4
  <2>3. \A k \in 0..Len(q) : k \in T
    <3>1. \A k \in 0..Len(q) : k \in T /\ k < Len(q) => k + 1 \in T
      BY <2>2
    <3>2. Len(q) \in Nat
      OBVIOUS
    <3> HIDE DEF T
    <3> QED BY <2>1, <3>1, <3>2, UpTo
  <2> QED BY <2>3
<1>9. picked \in [0..Len(q) -> Seq(S)]
  BY <1>4, <1>8
<1> QED BY <1>5, <1>6, <1>7, <1>9 DEF Picking

\* What is picked from a sequence over S is one.
LEMMA PickedType ==
  ASSUME NEW S, NEW q \in Seq(S), NEW K
  PROVE  Picked(q, K) \in Seq(S)
<1>1. PICK h : Picking(h, q, K, S)
  BY PickedSteps
<1> QED BY <1>1 DEF Picking

\* Nothing is picked from an empty queue.
LEMMA PickedOfNone ==
  ASSUME NEW K
  PROVE  Picked(<<>>, K) = <<>>
<1>1. PICK h : Picking(h, <<>>, K, {})
  <2>1. <<>> \in Seq({})
    OBVIOUS
  <2> QED BY <2>1, PickedSteps
<1> QED BY <1>1 DEF Picking

\* One more entry at the end is picked or it is not.
LEMMA PickedAppend ==
  ASSUME NEW S, NEW q \in Seq(S), NEW e \in S, NEW K, NEW L,
         \A k \in 1..Len(q) : k \in K <=> k \in L
  PROVE  Picked(Append(q, e), L)
           = IF Len(q) + 1 \in L THEN Append(Picked(q, K), e) ELSE Picked(q, K)
<1> DEFINE r == Append(q, e)
<1>1. PICK h : Picking(h, q, K, S)
  BY PickedSteps
<1>2. PICK g : Picking(g, r, L, S)
  <2>1. r \in Seq(S)
    OBVIOUS
  <2> HIDE DEF r
  <2> QED BY <2>1, PickedSteps
<1> DEFINE T == {k \in 0..Len(q) : g[k] = h[k]}
<1>3. 0 \in T
  BY <1>1, <1>2 DEF Picking
<1>4. \A k \in 0..Len(q) : k \in T /\ k < Len(q) => k + 1 \in T
  <2> TAKE k \in 0..Len(q)
  <2> HAVE k \in T /\ k < Len(q)
  <2>1. k + 1 \in 1..Len(q) /\ (k + 1) - 1 = k /\ k + 1 \in 0..Len(q) /\ k + 1 \in 1..Len(r)
    OBVIOUS
  <2>2. r[k + 1] = q[k + 1]
    BY <2>1
  <2> HIDE DEF r
  <2>3. g[k + 1] = h[k + 1]
    BY <1>1, <1>2, <2>1, <2>2 DEF Picking
  <2> QED BY <2>1, <2>3
<1>5. \A k \in 0..Len(q) : k \in T
  <2> HIDE DEF T
  <2> QED BY <1>3, <1>4, UpTo
<1>6. g[Len(q)] = Picked(q, K)
  BY <1>1, <1>5 DEF Picking
<1>7. Len(r) = Len(q) + 1 /\ r[Len(q) + 1] = e
  OBVIOUS
<1> QED BY <1>2, <1>6, <1>7 DEF Picking

\* Tail after Append is Append after Tail, unless the sequence was empty.
LEMMA TailOfAppend ==
  ASSUME NEW S, NEW q \in Seq(S), q # <<>>, NEW e \in S
  PROVE  /\ Append(q, e) # <<>> /\ Head(Append(q, e)) = Head(q)
         /\ Tail(Append(q, e)) = Append(Tail(q), e)
BY HeadTailAppend, AppendProperties

\* The same at the other end: the head is picked or it is not.
LEMMA PickedTail ==
  ASSUME NEW S, NEW q \in Seq(S), q # <<>>, NEW K, NEW L,
         \A k \in 1..Len(Tail(q)) : k \in L <=> k + 1 \in K
  PROVE  /\ 1 \in K => /\ Picked(q, K) # <<>>
                       /\ Head(Picked(q, K)) = Head(q)
                       /\ Tail(Picked(q, K)) = Picked(Tail(q), L)
         /\ 1 \notin K => Picked(q, K) = Picked(Tail(q), L)
<1> DEFINE r == Tail(q)
           N == Len(r)
<1>0. r \in Seq(S) /\ N \in Nat /\ Len(q) = N + 1 /\ \A k \in 1..N : r[k] = q[k + 1]
  OBVIOUS
<1>1. PICK h : Picking(h, q, K, S)
  BY PickedSteps
<1>2. PICK g : Picking(g, r, L, S)
  <2> HIDE DEF r
  <2> QED BY <1>0, PickedSteps
<1> HIDE DEF N, r
<1>s. \A k \in 1..N : h[k + 1] = IF k \in L THEN Append(h[k], r[k]) ELSE h[k]
  <2> SUFFICES ASSUME NEW k \in 1..N
               PROVE  h[k + 1] = IF k \in L THEN Append(h[k], r[k]) ELSE h[k]
    OBVIOUS
  <2>1. k + 1 \in 1..Len(q) /\ (k + 1) - 1 = k
    BY <1>0
  <2>2. k \in L <=> k + 1 \in K
    BY <1>0 DEF N, r
  <2> QED BY <1>0, <1>1, <2>1, <2>2 DEF Picking
<1>t. \A k \in 1..N : g[k] = IF k \in L THEN Append(g[k - 1], r[k]) ELSE g[k - 1]
  BY <1>2 DEF Picking, N
<1>u. h[1] = IF 1 \in K THEN <<Head(q)>> ELSE <<>>
  <2>1. 1 \in 1..Len(q) /\ 1 - 1 = 0 /\ Head(q) = q[1]
    BY <1>0
  <2>2. h[1] = IF 1 \in K THEN Append(<<>>, q[1]) ELSE <<>>
    BY <2>1, <1>1 DEF Picking
  <2> QED BY <2>1, <2>2
<1>v. g[0] = <<>> /\ Picked(r, L) = g[N] /\ Picked(q, K) = h[N + 1]
  BY <1>0, <1>1, <1>2 DEF Picking, N
<1>w. /\ \A k \in 0..N : h[k + 1] \in Seq(S) /\ g[k] \in Seq(S)
      /\ \A k \in 1..N : r[k] \in S
  <2>1. \A k \in 0..N : k + 1 \in 0..Len(q)
    BY <1>0
  <2>2. \A k \in 0..N : h[k + 1] \in Seq(S) /\ g[k] \in Seq(S)
    BY <2>1, <1>1, <1>2 DEF Picking, N
  <2>3. \A k \in 1..N : r[k] \in S
    BY <1>0 DEF N
  <2> QED BY <2>2, <2>3
<1>3. CASE 1 \in K
  <2> DEFINE T == {k \in 0..N : h[k + 1] # <<>> /\ Head(h[k + 1]) = Head(q) /\ Tail(h[k + 1]) = g[k]}
  <2>1. 0 \in T
    <3>1. h[0 + 1] = <<Head(q)>>
      BY <1>u, <1>3
    <3>2. <<Head(q)>> # <<>> /\ Head(<<Head(q)>>) = Head(q) /\ Tail(<<Head(q)>>) = <<>>
      OBVIOUS
    <3>3. h[0 + 1] # <<>> /\ Head(h[0 + 1]) = Head(q) /\ Tail(h[0 + 1]) = g[0]
      BY <1>v, <3>1, <3>2
    <3> QED BY <1>0, <3>3
  <2>2. ASSUME NEW k \in 0..N, k \in T, k < N PROVE k + 1 \in T
    <3>1. k + 1 \in 1..N /\ (k + 1) - 1 = k /\ k \in 0..N
      BY <1>0, <2>2
    <3>2. CASE k + 1 \in L
      <4>1. h[k + 1 + 1] = Append(h[k + 1], r[k + 1]) /\ g[k + 1] = Append(g[k], r[k + 1])
        BY <3>1, <3>2, <1>s, <1>t
      <4>2. h[k + 1] \in Seq(S) /\ r[k + 1] \in S /\ h[k + 1] # <<>>
        BY <1>w, <3>1, <2>2
      <4>3. /\ Append(h[k + 1], r[k + 1]) # <<>>
            /\ Head(Append(h[k + 1], r[k + 1])) = Head(h[k + 1])
            /\ Tail(Append(h[k + 1], r[k + 1])) = Append(Tail(h[k + 1]), r[k + 1])
        BY <4>2, TailOfAppend
      <4>4. Head(h[k + 1]) = Head(q) /\ Tail(h[k + 1]) = g[k]
        BY <2>2
      <4>5. /\ h[(k + 1) + 1] # <<>> /\ Head(h[(k + 1) + 1]) = Head(q)
            /\ Tail(h[(k + 1) + 1]) = g[k + 1]
        BY <4>1, <4>3, <4>4
      <4> QED BY <4>5, <3>1
    <3>3. CASE k + 1 \notin L
      BY <3>1, <3>3, <1>s, <1>t, <2>2
    <3> QED BY <3>2, <3>3
  <2>3. \A k \in 0..N : k \in T
    <3>1. \A k \in 0..N : k \in T /\ k < N => k + 1 \in T
      BY <2>2
    <3> HIDE DEF T
    <3> QED BY <1>0, <2>1, <3>1, UpTo
  <2>4. N \in T
    <3>1. N \in 0..N
      BY <1>0
    <3> HIDE DEF T
    <3> QED BY <3>1, <2>3
  <2> QED BY <2>4, <1>3, <1>v DEF r
<1>4. CASE 1 \notin K
  <2> DEFINE T == {k \in 0..N : h[k + 1] = g[k]}
  <2>1. 0 \in T
    BY <1>0, <1>4, <1>u, <1>v
  <2>2. ASSUME NEW k \in 0..N, k \in T, k < N PROVE k + 1 \in T
    <3>1. k + 1 \in 1..N /\ (k + 1) - 1 = k /\ k \in 0..N
      BY <1>0, <2>2
    <3> QED BY <3>1, <1>s, <1>t, <2>2
  <2>3. \A k \in 0..N : k \in T
    <3>1. \A k \in 0..N : k \in T /\ k < N => k + 1 \in T
      BY <2>2
    <3> HIDE DEF T
    <3> QED BY <1>0, <2>1, <3>1, UpTo
  <2>4. N \in T
    <3>1. N \in 0..N
      BY <1>0
    <3> HIDE DEF T
    <3> QED BY <3>1, <2>3
  <2> QED BY <2>4, <1>4, <1>v DEF r
<1> QED BY <1>3, <1>4

\* g places each entry of p among the first n entries of q: the entries of p
\* are those at the positions K, in their order.
Selects(g, p, q, K, n) ==
  /\ g \in [1..Len(p) -> 1..n]
  /\ \A i \in 1..Len(p) : p[i] = q[g[i]] /\ g[i] \in K
  /\ \A i, j \in 1..Len(p) : i < j => g[i] < g[j]
  /\ \A k \in 1..n : k \in K => \E i \in 1..Len(p) : g[i] = k

\* Picked places its entries among those of q, in order and all of them.
LEMMA PickedSelects ==
  ASSUME NEW S, NEW q \in Seq(S), NEW K
  PROVE  \E g : Selects(g, Picked(q, K), q, K, Len(q))
<1>1. PICK h : Picking(h, q, K, S)
  BY PickedSteps
<1>0. Len(q) \in Nat
  OBVIOUS
<1> DEFINE T == {k \in 0..Len(q) : \E g : Selects(g, h[k], q, K, k)}
<1>2. 0 \in T
  <2>1. h[0] = <<>> /\ Len(h[0]) = 0 /\ 1..0 = {}
    BY <1>1 DEF Picking
  <2>2. Selects([i \in 1..0 |-> i], h[0], q, K, 0)
    BY <2>1 DEF Selects
  <2> QED BY <1>0, <2>2
<1>3. ASSUME NEW k \in 0..Len(q), k \in T, k < Len(q) PROVE k + 1 \in T
  <2>1. PICK g : Selects(g, h[k], q, K, k)
    BY <1>3
  <2>2. k + 1 \in 1..Len(q) /\ (k + 1) - 1 = k /\ h[k] \in Seq(S) /\ q[k + 1] \in S
    BY <1>0, <1>1, <1>3 DEF Picking
  <2>3. h[k + 1] = IF k + 1 \in K THEN Append(h[k], q[k + 1]) ELSE h[k]
    BY <1>1, <2>2 DEF Picking
  <2>4. CASE k + 1 \in K
    <3> DEFINE p == h[k]
               e == q[k + 1]
               r == Append(p, e)
               N == Len(p)
               f == [i \in 1..(N + 1) |-> IF i = N + 1 THEN k + 1 ELSE g[i]]
    <3>1. /\ Len(r) = N + 1 /\ r[N + 1] = e /\ N \in Nat
          /\ \A i \in 1..N : r[i] = p[i] /\ i \in 1..(N + 1)
      BY <2>2
    <3>2. g \in [1..N -> 1..k] /\ \A i \in 1..N : p[i] = q[g[i]] /\ g[i] \in K
      BY <2>1 DEF Selects
    <3>3. \A i, j \in 1..N : i < j => g[i] < g[j]
      BY <2>1 DEF Selects
    <3>4. \A l \in 1..k : l \in K => \E i \in 1..N : g[i] = l
      BY <2>1 DEF Selects
    <3>5. h[k + 1] = r
      BY <2>3, <2>4
    <3> HIDE DEF r, N, p, e
    <3>6. f \in [1..(N + 1) -> 1..(k + 1)]
      BY <3>1, <3>2
    <3>7. \A i \in 1..(N + 1) : r[i] = q[f[i]] /\ f[i] \in K
      <4> SUFFICES ASSUME NEW i \in 1..(N + 1) PROVE r[i] = q[f[i]] /\ f[i] \in K
        OBVIOUS
      <4>1. CASE i = N + 1
        <5>1. f[i] = k + 1
          BY <4>1
        <5> QED BY <5>1, <4>1, <3>1, <2>4 DEF e
      <4>2. CASE i # N + 1
        <5>1. i \in 1..N /\ f[i] = g[i]
          BY <4>2, <3>1
        <5> QED BY <5>1, <3>1, <3>2
      <4> QED BY <4>1, <4>2
    <3>8. \A i, j \in 1..(N + 1) : i < j => f[i] < f[j]
      BY <3>1, <3>2, <3>3
    <3>9. \A l \in 1..(k + 1) : l \in K => \E i \in 1..(N + 1) : f[i] = l
      <4> SUFFICES ASSUME NEW l \in 1..(k + 1), l \in K
                   PROVE  \E i \in 1..(N + 1) : f[i] = l
        OBVIOUS
      <4>1. CASE l = k + 1
        <5>1. N + 1 \in 1..(N + 1) /\ f[N + 1] = l
          BY <3>1, <4>1
        <5> QED BY <5>1
      <4>2. CASE l # k + 1
        <5>1. PICK i \in 1..N : g[i] = l
          BY <3>4, <4>2
        <5>2. i \in 1..(N + 1) /\ f[i] = l
          BY <3>1, <5>1
        <5> QED BY <5>2
      <4> QED BY <4>1, <4>2
    <3> HIDE DEF f
    <3>a. Selects(f, h[k + 1], q, K, k + 1)
      BY <3>1, <3>5, <3>6, <3>7, <3>8, <3>9 DEF Selects
    <3> QED BY <3>a, <2>2
  <2>5. CASE k + 1 \notin K
    <3>0. h[k + 1] = h[k]
      BY <2>3, <2>5
    <3> DEFINE p == h[k]
    <3> HIDE DEF p
    <3>2. g \in [1..Len(p) -> 1..k] /\ (\A i \in 1..Len(p) : p[i] = q[g[i]] /\ g[i] \in K)
      BY <2>1 DEF Selects, p
    <3>3. \A i, j \in 1..Len(p) : i < j => g[i] < g[j]
      BY <2>1 DEF Selects, p
    <3>4. \A l \in 1..(k + 1) : l \in K => \E i \in 1..Len(p) : g[i] = l
      <4>1. \A l \in 1..k : l \in K => \E i \in 1..Len(p) : g[i] = l
        BY <2>1 DEF Selects, p
      <4>2. \A l \in 1..(k + 1) : l \in K => l \in 1..k
        BY <2>5
      <4> QED BY <4>1, <4>2
    <3>5. g \in [1..Len(p) -> 1..(k + 1)]
      BY <3>2
    <3>6. Selects(g, p, q, K, k + 1)
      BY <3>2, <3>3, <3>4, <3>5 DEF Selects
    <3>1. Selects(g, h[k + 1], q, K, k + 1)
      BY <3>0, <3>6 DEF p
    <3> QED BY <3>1, <2>2
  <2> QED BY <2>4, <2>5
<1>4. \A k \in 0..Len(q) : k \in T
  <2>1. \A k \in 0..Len(q) : k \in T /\ k < Len(q) => k + 1 \in T
    BY <1>3
  <2> HIDE DEF T
  <2> QED BY <1>0, <1>2, <2>1, UpTo
<1>5. Len(q) \in T
  BY <1>0, <1>4
<1> QED BY <1>1, <1>5 DEF Picking

\* h is the function Total defines by recursion.
Totalling(h, q) ==
  /\ h \in [0..Len(q) -> Nat] /\ h[0] = 0 /\ Total(q) = h[Len(q)]
  /\ \A k \in 1..Len(q) : h[k] = h[k - 1] + q[k]

\* Total meets its recursion: it adds entry by entry.
LEMMA TotalSteps ==
  ASSUME NEW q \in Seq(Nat)
  PROVE  \E h : Totalling(h, q)
<1> DEFINE F == [k \in 1..Len(q) |-> [n \in Nat |-> n + q[k]]]
<1> DEFINE total == CHOOSE f : f = [k \in 0..Len(q) |-> IF k = 0 THEN 0 ELSE f[k - 1] + q[k]]
<1>1. F \in [1..Len(q) -> [Nat -> Nat]]
  OBVIOUS
<1>2. PICK f : Recursion(f, F, 0, Nat, Len(q))
  <2>1. 0 \in Nat /\ Len(q) \in Nat
    OBVIOUS
  <2> HIDE DEF F
  <2> QED BY <1>1, <2>1, RecursionExists
<1>3. f = [k \in 0..Len(q) |-> IF k = 0 THEN 0 ELSE f[k - 1] + q[k]]
  <2>1. \A k \in 1..Len(q) : f[k] = f[k - 1] + q[k]
    <3> TAKE k \in 1..Len(q)
    <3>1. f[k - 1] \in Nat /\ f[k] = F[k][f[k - 1]]
      <4>1. k - 1 \in 0..Len(q)
        OBVIOUS
      <4> HIDE DEF F
      <4> QED BY <4>1, <1>2 DEF Recursion
    <3> QED BY <3>1
  <2>2. f[0] = 0 /\ f = [k \in 0..Len(q) |-> f[k]]
    BY <1>2 DEF Recursion
  <2>3. \A k \in 0..Len(q) : f[k] = IF k = 0 THEN 0 ELSE f[k - 1] + q[k]
    <3> TAKE k \in 0..Len(q)
    <3>1. k # 0 => k \in 1..Len(q)
      OBVIOUS
    <3> QED BY <2>1, <2>2, <3>1
  <2> QED BY <2>2, <2>3
<1>4. total = [k \in 0..Len(q) |-> IF k = 0 THEN 0 ELSE total[k - 1] + q[k]]
  BY <1>3
<1>5. Total(q) = total[Len(q)]
  BY DEF Total
<1> HIDE DEF total, F
<1>0. Len(q) \in Nat
  OBVIOUS
<1>6. total[0] = 0
  BY <1>0, <1>4
<1>7. \A k \in 1..Len(q) : total[k] = total[k - 1] + q[k]
  <2> TAKE k \in 1..Len(q)
  <2>1. k \in 0..Len(q) /\ k # 0
    OBVIOUS
  <2> QED BY <1>4, <2>1
<1>8. \A k \in 0..Len(q) : total[k] \in Nat
  <2> DEFINE T == {k \in 0..Len(q) : total[k] \in Nat}
  <2>1. 0 \in T
    BY <1>0, <1>6
  <2>2. ASSUME NEW k \in 0..Len(q), k \in T, k < Len(q) PROVE k + 1 \in T
    <3>1. k + 1 \in 1..Len(q) /\ (k + 1) - 1 = k /\ q[k + 1] \in Nat
      BY <2>2
    <3>2. total[k + 1] = total[k] + q[k + 1]
      BY <3>1, <1>7
    <3> QED BY <3>1, <3>2, <2>2
  <2>3. \A k \in 0..Len(q) : k \in T
    <3>1. \A k \in 0..Len(q) : k \in T /\ k < Len(q) => k + 1 \in T
      BY <2>2
    <3> HIDE DEF T
    <3> QED BY <1>0, <2>1, <3>1, UpTo
  <2> QED BY <2>3
<1>9. total \in [0..Len(q) -> Nat]
  BY <1>4, <1>8
<1> QED BY <1>5, <1>6, <1>7, <1>9 DEF Totalling

\* A total is a number.
LEMMA TotalType ==
  ASSUME NEW q \in Seq(Nat)
  PROVE  Total(q) \in Nat /\ (q = <<>> => Total(q) = 0)
<1>1. PICK h : Totalling(h, q)
  BY TotalSteps
<1> QED BY <1>1 DEF Totalling

\* Totals of parts add up.
LEMMA TotalConcat ==
  ASSUME NEW a \in Seq(Nat), NEW b \in Seq(Nat)
  PROVE  Total(a \o b) = Total(a) + Total(b)
<1> DEFINE q == a \o b
<1>0. /\ q \in Seq(Nat) /\ Len(q) = Len(a) + Len(b) /\ Len(a) \in Nat /\ Len(b) \in Nat
      /\ \A k \in 1..Len(a) : q[k] = a[k]
      /\ \A k \in 1..Len(b) : q[Len(a) + k] = b[k]
  OBVIOUS
<1> HIDE DEF q
<1>1. PICK f : Totalling(f, a)
  BY TotalSteps
<1>2. PICK g : Totalling(g, b)
  BY TotalSteps
<1>3. PICK h : Totalling(h, q)
  BY <1>0, TotalSteps
<1>4. \A k \in 0..Len(a) : h[k] = f[k]
  <2> DEFINE T == {k \in 0..Len(a) : h[k] = f[k]}
  <2>1. 0 \in T
    BY <1>0, <1>1, <1>3 DEF Totalling
  <2>2. ASSUME NEW k \in 0..Len(a), k \in T, k < Len(a) PROVE k + 1 \in T
    <3>1. k + 1 \in 1..Len(a) /\ k + 1 \in 1..Len(q) /\ (k + 1) - 1 = k
      BY <1>0, <2>2
    <3> QED BY <1>0, <1>1, <1>3, <2>2, <3>1, SMTT(30) DEF Totalling
  <2>3. \A k \in 0..Len(a) : k \in T
    <3>1. \A k \in 0..Len(a) : k \in T /\ k < Len(a) => k + 1 \in T
      BY <2>2
    <3> HIDE DEF T
    <3> QED BY <1>0, <2>1, <3>1, UpTo
  <2> QED BY <2>3
<1>5. \A k \in 0..Len(b) : h[Len(a) + k] = f[Len(a)] + g[k]
  <2> DEFINE T == {k \in 0..Len(b) : h[Len(a) + k] = f[Len(a)] + g[k]}
  <2>0. f[Len(a)] \in Nat /\ \A k \in 0..Len(b) : g[k] \in Nat
    <3>1. Len(a) \in 0..Len(a)
      BY <1>0
    <3>2. f \in [0..Len(a) -> Nat] /\ g \in [0..Len(b) -> Nat]
      BY <1>1, <1>2 DEF Totalling
    <3> QED BY <3>1, <3>2
  <2>1. 0 \in T
    <3>0. Len(a) \in 0..Len(a)
      BY <1>0
    <3>1. g[0] = 0 /\ h[Len(a)] = f[Len(a)]
      BY <1>2, <1>4, <3>0 DEF Totalling
    <3> QED BY <3>1, <2>0, <1>0
  <2>2. ASSUME NEW k \in 0..Len(b), k \in T, k < Len(b) PROVE k + 1 \in T
    <3>1. /\ k + 1 \in 1..Len(b) /\ (k + 1) - 1 = k
          /\ Len(a) + (k + 1) \in 1..Len(q) /\ (Len(a) + (k + 1)) - 1 = Len(a) + k
      BY <1>0, <2>2
    <3>2. h[Len(a) + (k + 1)] = h[Len(a) + k] + b[k + 1]
      BY <1>0, <1>3, <3>1 DEF Totalling
    <3>3. g[k + 1] = g[k] + b[k + 1] /\ b[k + 1] \in Nat
      BY <1>2, <3>1 DEF Totalling
    <3>4. h[Len(a) + (k + 1)] = f[Len(a)] + g[k + 1]
      BY <3>2, <3>3, <2>2, <2>0
    <3>5. k + 1 \in 0..Len(b)
      BY <3>1
    <3> QED BY <3>4, <3>5
  <2>3. \A k \in 0..Len(b) : k \in T
    <3>1. \A k \in 0..Len(b) : k \in T /\ k < Len(b) => k + 1 \in T
      BY <2>2
    <3> HIDE DEF T
    <3> QED BY <1>0, <2>1, <3>1, UpTo
  <2> QED BY <2>3
<1>6. Len(b) \in 0..Len(b)
  BY <1>0
<1> QED BY <1>0, <1>1, <1>2, <1>3, <1>5, <1>6 DEF Totalling, q

\* The total of one entry is the entry.
LEMMA TotalOfOne ==
  ASSUME NEW n \in Nat
  PROVE  Total(<<n>>) = n
<1>1. <<n>> \in Seq(Nat) /\ Len(<<n>>) = 1 /\ <<n>>[1] = n
  OBVIOUS
<1>2. PICK h : Totalling(h, <<n>>)
  BY <1>1, TotalSteps
<1>3. h[1] = h[0] + n
  BY <1>1, <1>2 DEF Totalling
<1> QED BY <1>1, <1>2, <1>3 DEF Totalling

\* An entry added at the end adds itself.
LEMMA TotalAppend ==
  ASSUME NEW q \in Seq(Nat), NEW n \in Nat
  PROVE  Total(Append(q, n)) = Total(q) + n
<1>1. Append(q, n) = q \o <<n>> /\ <<n>> \in Seq(Nat)
  BY AppendIsConcat
<1> QED BY <1>1, TotalConcat, TotalOfOne

\* An entry taken from the front takes itself away.
LEMMA TotalTail ==
  ASSUME NEW q \in Seq(Nat), q # <<>>
  PROVE  Total(q) = Head(q) + Total(Tail(q))
<1>1. q = <<Head(q)>> \o Tail(q) /\ Head(q) \in Nat /\ Tail(q) \in Seq(Nat) /\ <<Head(q)>> \in Seq(Nat)
  OBVIOUS
<1> QED BY <1>1, TotalConcat, TotalOfOne

\* What the page sends back.
Message == [t : {"took"}, n : Nat] \cup [t : {"close"}, id : Chans]

\* The sizes of the slices on their way to the page, oldest first.
OnWire(frames) == Sizes(Slices(frames))

\* The credit on its way back, oldest first.
Credits(tooks) == [k \in DOMAIN tooks |-> tooks[k].n]
\* The sizes of the confirmations on their way back, oldest first.
Returned(messages) == Credits(Tooks(messages))

\* The size of a frame is a number.
LEMMA SliceSizeType ==
  ASSUME NEW m \in Frame, m.t = "slice"
  PROVE  SliceSize(m) \in Nat
<1>1. m \in [t : {"data", "slice"}, id : Chans, last : BOOLEAN, bytes : Seq(Nat \X Nat)]
  BY DEF Frame
<1>2. Len(m.bytes) \in Nat
  BY <1>1
<1> QED BY <1>2, SliceFlowAssumption DEF SliceSize

\* The slices among frames are frames.
LEMMA SlicesType ==
  ASSUME NEW frames \in Seq(Frame)
  PROVE  Slices(frames) \in Seq({m \in Frame : m.t = "slice"})
<1> DEFINE K == {k \in DOMAIN frames : frames[k].t = "slice"}
           P == Slices(frames)
           S == {m \in Frame : m.t = "slice"}
<1>1. P \in Seq(Frame)
  BY PickedType DEF Slices
<1>2. \E g : Selects(g, P, frames, K, Len(frames))
  <2>1. \E g : Selects(g, Picked(frames, K), frames, K, Len(frames))
    <3> HIDE DEF K
    <3> QED BY PickedSelects
  <2> QED BY <2>1 DEF Slices
<1>3. \A i \in 1..Len(P) : P[i].t = "slice"
  BY <1>2 DEF Selects
<1> HIDE DEF P
<1>4. \A i \in 1..Len(P) : P[i] \in S
  BY <1>1, <1>3
<1> HIDE DEF S
<1>5. P \in Seq(S)
  BY <1>1, <1>4
<1> QED BY <1>5 DEF P, S

\* A frame added is a slice added, or none is.
LEMMA SlicesAppend ==
  ASSUME NEW frames \in Seq(Frame), NEW m \in Frame
  PROVE  Slices(Append(frames, m))
           = IF m.t = "slice" THEN Append(Slices(frames), m) ELSE Slices(frames)
<1> DEFINE K == {k \in DOMAIN frames : frames[k].t = "slice"}
           L == {k \in DOMAIN Append(frames, m) : Append(frames, m)[k].t = "slice"}
<1>1. \A k \in 1..Len(frames) : k \in K <=> k \in L
  OBVIOUS
<1>2. Len(frames) + 1 \in L <=> m.t = "slice"
  OBVIOUS
<1>3. Picked(Append(frames, m), L)
        = IF Len(frames) + 1 \in L THEN Append(Picked(frames, K), m) ELSE Picked(frames, K)
  <2> HIDE DEF K, L
  <2> QED BY <1>1, PickedAppend
<1>4. Slices(Append(frames, m)) = Picked(Append(frames, m), L) /\ Slices(frames) = Picked(frames, K)
  BY DEF Slices
<1> HIDE DEF K, L
<1> QED BY <1>2, <1>3, <1>4

\* A frame taken is a slice taken, or none is.
LEMMA SlicesTail ==
  ASSUME NEW frames \in Seq(Frame), frames # <<>>
  PROVE  /\ Head(frames).t = "slice" => /\ Slices(frames) # <<>>
                                        /\ Head(Slices(frames)) = Head(frames)
                                        /\ Tail(Slices(frames)) = Slices(Tail(frames))
         /\ Head(frames).t # "slice" => Slices(frames) = Slices(Tail(frames))
<1> DEFINE K == {k \in DOMAIN frames : frames[k].t = "slice"}
           L == {k \in DOMAIN Tail(frames) : Tail(frames)[k].t = "slice"}
<1>1. \A k \in 1..Len(Tail(frames)) : k \in L <=> k + 1 \in K
  <2> TAKE k \in 1..Len(Tail(frames))
  <2>1. k + 1 \in DOMAIN frames /\ k \in DOMAIN Tail(frames) /\ Tail(frames)[k] = frames[k + 1]
    OBVIOUS
  <2> QED BY <2>1
<1>2. 1 \in K <=> Head(frames).t = "slice"
  OBVIOUS
<1>3. /\ 1 \in K => /\ Picked(frames, K) # <<>>
                    /\ Head(Picked(frames, K)) = Head(frames)
                    /\ Tail(Picked(frames, K)) = Picked(Tail(frames), L)
      /\ 1 \notin K => Picked(frames, K) = Picked(Tail(frames), L)
  <2> HIDE DEF K, L
  <2> QED BY <1>1, PickedTail
<1>4. Slices(Tail(frames)) = Picked(Tail(frames), L) /\ Slices(frames) = Picked(frames, K)
  BY DEF Slices
<1> HIDE DEF K, L
<1> QED BY <1>2, <1>3, <1>4

\* The sizes on the wire are numbers.
LEMMA OnWireType ==
  ASSUME NEW frames \in Seq(Frame)
  PROVE  OnWire(frames) \in Seq(Nat)
<1> DEFINE S == {m \in Frame : m.t = "slice"}
           P == Slices(frames)
<1>1. P \in Seq(S)
  BY SlicesType
<1>2. \A m \in S : SliceSize(m) \in Nat
  BY SliceSizeType
<1> HIDE DEF S, P
<1>3. [k \in DOMAIN P |-> SliceSize(P[k])] \in Seq(Nat)
  BY <1>1, <1>2
<1> QED BY <1>3 DEF OnWire, Sizes, P

\* What a frame adds to the sizes on the wire.
LEMMA OnWireAppend ==
  ASSUME NEW frames \in Seq(Frame), NEW m \in Frame
  PROVE  OnWire(Append(frames, m))
           = IF m.t = "slice" THEN Append(OnWire(frames), SliceSize(m)) ELSE OnWire(frames)
<1> DEFINE P == Slices(frames)
           r == Append(P, m)
<1>1. CASE m.t # "slice"
  BY <1>1, SlicesAppend DEF OnWire
<1>2. CASE m.t = "slice"
  <2>1. Slices(Append(frames, m)) = r
    BY <1>2, SlicesAppend
  <2>2. P \in Seq({x \in Frame : x.t = "slice"}) /\ SliceSize(m) \in Nat
    BY <1>2, SlicesType, SliceSizeType
  <2> HIDE DEF P
  <2>3. Sizes(P) \in Seq(Nat) /\ Len(Sizes(P)) = Len(P) /\ \A k \in 1..Len(P) : Sizes(P)[k] = SliceSize(P[k])
    <3>1. OnWire(frames) \in Seq(Nat)
      BY OnWireType
    <3> QED BY <3>1, <2>2 DEF Sizes, P, OnWire
  <2>4. Sizes(r) \in Seq(Nat) /\ Len(Sizes(r)) = Len(P) + 1
    <3>1. Append(frames, m) \in Seq(Frame)
      OBVIOUS
    <3>2. OnWire(Append(frames, m)) \in Seq(Nat)
      BY <3>1, OnWireType
    <3> QED BY <2>1, <2>2, <3>2 DEF OnWire, Sizes
  <2>5. \A k \in 1..(Len(P) + 1) : Sizes(r)[k] = Append(Sizes(P), SliceSize(m))[k]
    BY <2>2, <2>3 DEF Sizes
  <2>6. Sizes(r) = Append(Sizes(P), SliceSize(m))
    <3>1. /\ Append(Sizes(P), SliceSize(m)) \in Seq(Nat)
          /\ Len(Append(Sizes(P), SliceSize(m))) = Len(P) + 1
      BY <2>2, <2>3
    <3> HIDE DEF r
    <3> QED BY <2>4, <2>5, <3>1, SeqEqual
  <2> QED BY <1>2, <2>1, <2>6 DEF OnWire, P
<1> QED BY <1>1, <1>2

\* What a frame that arrives takes from the sizes on the wire.
LEMMA OnWireTail ==
  ASSUME NEW frames \in Seq(Frame), frames # <<>>
  PROVE  /\ Head(frames).t = "slice" => /\ OnWire(frames) # <<>>
                                        /\ Head(OnWire(frames)) = SliceSize(Head(frames))
                                        /\ Tail(OnWire(frames)) = OnWire(Tail(frames))
         /\ Head(frames).t # "slice" => OnWire(frames) = OnWire(Tail(frames))
<1> DEFINE P == Slices(frames)
<1>1. CASE Head(frames).t # "slice"
  BY <1>1, SlicesTail DEF OnWire
<1>2. CASE Head(frames).t = "slice"
  <2>1. P # <<>> /\ Head(P) = Head(frames) /\ Tail(P) = Slices(Tail(frames))
    BY <1>2, SlicesTail
  <2>2. P \in Seq({x \in Frame : x.t = "slice"})
    BY SlicesType
  <2>3. OnWire(frames) \in Seq(Nat) /\ OnWire(Tail(frames)) \in Seq(Nat)
    <3>1. Tail(frames) \in Seq(Frame)
      OBVIOUS
    <3> QED BY <3>1, OnWireType
  <2> HIDE DEF P
  <2>4. /\ Len(P) \in Nat \ {0} /\ Len(Tail(P)) = Len(P) - 1
        /\ \A k \in 1..Len(Tail(P)) : Tail(P)[k] = P[k + 1]
    BY <2>1, <2>2
  <2>5. Sizes(P) \in Seq(Nat) /\ Len(Sizes(P)) = Len(P) /\ \A k \in 1..Len(P) : Sizes(P)[k] = SliceSize(P[k])
    BY <2>2, <2>3 DEF Sizes, P, OnWire
  <2>6. /\ Sizes(Tail(P)) \in Seq(Nat) /\ Len(Sizes(Tail(P))) = Len(P) - 1
        /\ \A k \in 1..(Len(P) - 1) : Sizes(Tail(P))[k] = SliceSize(Tail(P)[k])
    <3>1. Sizes(Tail(P)) \in Seq(Nat)
      BY <2>1, <2>3 DEF OnWire
    <3>2. Tail(P) \in Seq({x \in Frame : x.t = "slice"})
      BY <2>1, <2>2
    <3>3. DOMAIN Tail(P) = 1..(Len(P) - 1)
      BY <3>2, <2>4
    <3> QED BY <3>1, <3>3, <2>4 DEF Sizes
  <2>7. Sizes(P) # <<>> /\ Head(Sizes(P)) = SliceSize(Head(frames))
    <3>1. Head(P) = P[1] /\ Head(Sizes(P)) = Sizes(P)[1] /\ 1 \in 1..Len(P)
      BY <2>2, <2>4, <2>5
    <3> QED BY <2>1, <2>4, <2>5, <3>1
  <2>8. Tail(Sizes(P)) = Sizes(Tail(P))
    <3>1. /\ Tail(Sizes(P)) \in Seq(Nat) /\ Len(Tail(Sizes(P))) = Len(P) - 1
          /\ \A k \in 1..(Len(P) - 1) : Tail(Sizes(P))[k] = Sizes(P)[k + 1]
      BY <2>4, <2>5, <2>7
    <3>2. \A k \in 1..(Len(P) - 1) : Sizes(P)[k + 1] = SliceSize(P[k + 1]) /\ Tail(P)[k] = P[k + 1]
      BY <2>4, <2>5
    <3> QED BY <2>6, <3>1, <3>2, SeqEqual
  <2> QED BY <1>2, <2>1, <2>7, <2>8 DEF OnWire, P
<1> QED BY <1>1, <1>2

\* The confirmations among messages are messages.
LEMMA TooksType ==
  ASSUME NEW messages \in Seq(Message)
  PROVE  Tooks(messages) \in Seq({m \in Message : m.t = "took"})
<1> DEFINE K == {k \in DOMAIN messages : messages[k].t = "took"}
           P == Tooks(messages)
           S == {m \in Message : m.t = "took"}
<1>1. P \in Seq(Message)
  BY PickedType DEF Tooks
<1>2. \E g : Selects(g, P, messages, K, Len(messages))
  <2>1. \E g : Selects(g, Picked(messages, K), messages, K, Len(messages))
    <3> HIDE DEF K
    <3> QED BY PickedSelects
  <2> QED BY <2>1 DEF Tooks
<1>3. \A i \in 1..Len(P) : P[i].t = "took"
  BY <1>2 DEF Selects
<1> HIDE DEF P
<1>4. \A i \in 1..Len(P) : P[i] \in S
  BY <1>1, <1>3
<1> HIDE DEF S
<1>5. P \in Seq(S)
  BY <1>1, <1>4
<1> QED BY <1>5 DEF P, S

\* A message added is a confirmation added, or none is.
LEMMA TooksAppend ==
  ASSUME NEW messages \in Seq(Message), NEW m \in Message
  PROVE  Tooks(Append(messages, m))
           = IF m.t = "took" THEN Append(Tooks(messages), m) ELSE Tooks(messages)
<1> DEFINE K == {k \in DOMAIN messages : messages[k].t = "took"}
           L == {k \in DOMAIN Append(messages, m) : Append(messages, m)[k].t = "took"}
<1>1. \A k \in 1..Len(messages) : k \in K <=> k \in L
  OBVIOUS
<1>2. Len(messages) + 1 \in L <=> m.t = "took"
  OBVIOUS
<1>3. Picked(Append(messages, m), L)
        = IF Len(messages) + 1 \in L THEN Append(Picked(messages, K), m) ELSE Picked(messages, K)
  <2> HIDE DEF K, L
  <2> QED BY <1>1, PickedAppend
<1>4. Tooks(Append(messages, m)) = Picked(Append(messages, m), L) /\ Tooks(messages) = Picked(messages, K)
  BY DEF Tooks
<1> HIDE DEF K, L
<1> QED BY <1>2, <1>3, <1>4

\* A message taken is a confirmation taken, or none is.
LEMMA TooksTail ==
  ASSUME NEW messages \in Seq(Message), messages # <<>>
  PROVE  /\ Head(messages).t = "took" => /\ Tooks(messages) # <<>>
                                        /\ Head(Tooks(messages)) = Head(messages)
                                        /\ Tail(Tooks(messages)) = Tooks(Tail(messages))
         /\ Head(messages).t # "took" => Tooks(messages) = Tooks(Tail(messages))
<1> DEFINE K == {k \in DOMAIN messages : messages[k].t = "took"}
           L == {k \in DOMAIN Tail(messages) : Tail(messages)[k].t = "took"}
<1>1. \A k \in 1..Len(Tail(messages)) : k \in L <=> k + 1 \in K
  <2> TAKE k \in 1..Len(Tail(messages))
  <2>1. k + 1 \in DOMAIN messages /\ k \in DOMAIN Tail(messages) /\ Tail(messages)[k] = messages[k + 1]
    OBVIOUS
  <2> QED BY <2>1
<1>2. 1 \in K <=> Head(messages).t = "took"
  OBVIOUS
<1>3. /\ 1 \in K => /\ Picked(messages, K) # <<>>
                    /\ Head(Picked(messages, K)) = Head(messages)
                    /\ Tail(Picked(messages, K)) = Picked(Tail(messages), L)
      /\ 1 \notin K => Picked(messages, K) = Picked(Tail(messages), L)
  <2> HIDE DEF K, L
  <2> QED BY <1>1, PickedTail
<1>4. Tooks(Tail(messages)) = Picked(Tail(messages), L) /\ Tooks(messages) = Picked(messages, K)
  BY DEF Tooks
<1> HIDE DEF K, L
<1> QED BY <1>2, <1>3, <1>4

\* The sizes on their way back are numbers.
LEMMA ReturnedType ==
  ASSUME NEW messages \in Seq(Message)
  PROVE  Returned(messages) \in Seq(Nat)
<1> DEFINE S == {m \in Message : m.t = "took"}
           P == Tooks(messages)
<1>1. P \in Seq(S)
  BY TooksType
<1>2. \A m \in S : m.n \in Nat
  BY DEF Message
<1> HIDE DEF S, P
<1>3. [k \in DOMAIN P |-> P[k].n] \in Seq(Nat)
  BY <1>1, <1>2
<1> QED BY <1>3 DEF Returned, Credits, P

\* What a message adds to the sizes on their way back.
LEMMA ReturnedAppend ==
  ASSUME NEW messages \in Seq(Message), NEW m \in Message
  PROVE  Returned(Append(messages, m))
           = IF m.t = "took" THEN Append(Returned(messages), m.n) ELSE Returned(messages)
<1> DEFINE P == Tooks(messages)
           r == Append(P, m)
<1>1. CASE m.t # "took"
  BY <1>1, TooksAppend DEF Returned
<1>2. CASE m.t = "took"
  <2>1. Tooks(Append(messages, m)) = r
    BY <1>2, TooksAppend
  <2>2. P \in Seq({x \in Message : x.t = "took"}) /\ m.n \in Nat
    BY <1>2, TooksType DEF Message
  <2> HIDE DEF P
  <2>3. Credits(P) \in Seq(Nat) /\ Len(Credits(P)) = Len(P) /\ \A k \in 1..Len(P) : Credits(P)[k] = P[k].n
    <3>1. Returned(messages) \in Seq(Nat)
      BY ReturnedType
    <3> QED BY <3>1, <2>2 DEF Credits, P, Returned
  <2>4. Credits(r) \in Seq(Nat) /\ Len(Credits(r)) = Len(P) + 1
    <3>1. Append(messages, m) \in Seq(Message)
      OBVIOUS
    <3>2. Returned(Append(messages, m)) \in Seq(Nat)
      BY <3>1, ReturnedType
    <3> QED BY <2>1, <2>2, <3>2 DEF Returned, Credits
  <2>5. \A k \in 1..(Len(P) + 1) : Credits(r)[k] = Append(Credits(P), m.n)[k]
    BY <2>2, <2>3 DEF Credits
  <2>6. Credits(r) = Append(Credits(P), m.n)
    <3>1. /\ Append(Credits(P), m.n) \in Seq(Nat)
          /\ Len(Append(Credits(P), m.n)) = Len(P) + 1
      BY <2>2, <2>3
    <3> HIDE DEF r
    <3> QED BY <2>4, <2>5, <3>1, SeqEqual
  <2> QED BY <1>2, <2>1, <2>6 DEF Returned, P
<1> QED BY <1>1, <1>2

\* What a message that arrives takes from them.
LEMMA ReturnedTail ==
  ASSUME NEW messages \in Seq(Message), messages # <<>>
  PROVE  /\ Head(messages).t = "took" => /\ Returned(messages) # <<>>
                                        /\ Head(Returned(messages)) = Head(messages).n
                                        /\ Tail(Returned(messages)) = Returned(Tail(messages))
         /\ Head(messages).t # "took" => Returned(messages) = Returned(Tail(messages))
<1> DEFINE P == Tooks(messages)
<1>1. CASE Head(messages).t # "took"
  BY <1>1, TooksTail DEF Returned
<1>2. CASE Head(messages).t = "took"
  <2>1. P # <<>> /\ Head(P) = Head(messages) /\ Tail(P) = Tooks(Tail(messages))
    BY <1>2, TooksTail
  <2>2. P \in Seq({x \in Message : x.t = "took"})
    BY TooksType
  <2>3. Returned(messages) \in Seq(Nat) /\ Returned(Tail(messages)) \in Seq(Nat)
    <3>1. Tail(messages) \in Seq(Message)
      OBVIOUS
    <3> QED BY <3>1, ReturnedType
  <2> HIDE DEF P
  <2>4. /\ Len(P) \in Nat \ {0} /\ Len(Tail(P)) = Len(P) - 1
        /\ \A k \in 1..Len(Tail(P)) : Tail(P)[k] = P[k + 1]
    BY <2>1, <2>2
  <2>5. Credits(P) \in Seq(Nat) /\ Len(Credits(P)) = Len(P) /\ \A k \in 1..Len(P) : Credits(P)[k] = P[k].n
    BY <2>2, <2>3 DEF Credits, P, Returned
  <2>6. /\ Credits(Tail(P)) \in Seq(Nat) /\ Len(Credits(Tail(P))) = Len(P) - 1
        /\ \A k \in 1..(Len(P) - 1) : Credits(Tail(P))[k] = Tail(P)[k].n
    <3>1. Credits(Tail(P)) \in Seq(Nat)
      BY <2>1, <2>3 DEF Returned
    <3>2. Tail(P) \in Seq({x \in Message : x.t = "took"})
      BY <2>1, <2>2
    <3>3. DOMAIN Tail(P) = 1..(Len(P) - 1)
      BY <3>2, <2>4
    <3> QED BY <3>1, <3>3, <2>4 DEF Credits
  <2>7. Credits(P) # <<>> /\ Head(Credits(P)) = Head(messages).n
    <3>1. Head(P) = P[1] /\ Head(Credits(P)) = Credits(P)[1] /\ 1 \in 1..Len(P)
      BY <2>2, <2>4, <2>5
    <3> QED BY <2>1, <2>4, <2>5, <3>1
  <2>8. Tail(Credits(P)) = Credits(Tail(P))
    <3>1. /\ Tail(Credits(P)) \in Seq(Nat) /\ Len(Tail(Credits(P))) = Len(P) - 1
          /\ \A k \in 1..(Len(P) - 1) : Tail(Credits(P))[k] = Credits(P)[k + 1]
      BY <2>4, <2>5, <2>7
    <3>2. \A k \in 1..(Len(P) - 1) : Credits(P)[k + 1] = P[k + 1].n /\ Tail(P)[k] = P[k + 1]
      BY <2>4, <2>5
    <3>3. \A k \in 1..(Len(P) - 1) : Tail(Credits(P))[k] = Credits(Tail(P))[k]
      BY <2>6, <3>1, <3>2
    <3>4. Credits(Tail(P)) \in Seq(Nat) /\ Len(Credits(Tail(P))) = Len(P) - 1
      BY <2>6
    <3> DEFINE x == Tail(Credits(P))
               y == Credits(Tail(P))
    <3>5. x \in Seq(Nat) /\ y \in Seq(Nat) /\ Len(x) = Len(y) /\ \A k \in 1..Len(x) : x[k] = y[k]
      BY <3>1, <3>3, <3>4
    <3>6. x = y
      <4> HIDE DEF x, y
      <4> QED BY <3>5, SeqEqual
    <3> QED BY <3>6
  <2> QED BY <1>2, <2>1, <2>7, <2>8 DEF Returned, P
<1> QED BY <1>1, <1>2

\* Every entry of the queue has bytes left, and a write under way is the head's.
Unfinished == \A k \in DOMAIN bulk : bulk[k].at < Len(bulk[k].payload)
\* A write under way belongs to an entry, and the head of the queue is it.
PumpsTheHead == pumping => bulk # <<>>

\* A payload is a sequence of bytes, and not an empty one.
LEMMA PayloadType ==
  /\ \A n \in 1..MaxSent, len \in Lengths : Payload(n, len) \in Payloads /\ Len(Payload(n, len)) = len
  /\ \A p \in Payloads : p \in Seq(Nat \X Nat) /\ Len(p) \in Nat \ {0}
<1>1. \A len \in Lengths : len \in Nat \ {0}
  BY SliceFlowAssumption
<1>2. ASSUME NEW n \in 1..MaxSent, NEW len \in Lengths
      PROVE  Payload(n, len) \in Seq(Nat \X Nat) /\ Len(Payload(n, len)) = len /\ Payload(n, len) \in Payloads
  <2>1. MaxSent \in Nat /\ n \in Nat /\ len \in Nat
    BY <1>1, SliceFlowAssumption
  <2>2. [b \in 1..len |-> <<n, b>>] \in Seq(Nat \X Nat)
    BY <2>1
  <2> QED BY <2>1, <2>2 DEF Payload, Payloads
<1>3. ASSUME NEW p \in Payloads PROVE p \in Seq(Nat \X Nat) /\ Len(p) \in Nat \ {0}
  <2>1. PICK n \in 1..MaxSent, len \in Lengths : p = Payload(n, len)
    BY DEF Payloads
  <2> QED BY <1>1, <1>2, <2>1
<1> QED BY <1>2, <1>3

\* A slice is never empty and never reaches past its payload.
LEMMA EndType ==
  ASSUME NEW head \in Entry, head.at < Len(head.payload)
  PROVE  /\ End(head) \in Nat /\ head.at < End(head) /\ End(head) <= Len(head.payload)
         /\ head.at \in Nat /\ Len(head.payload) \in Nat
         /\ ~LastSlice(head) => End(head) < Len(head.payload)
         /\ LastSlice(head) => End(head) = Len(head.payload)
         /\ head.payload \in Seq(Nat \X Nat)
<1>1. head.payload \in Payloads /\ head.at \in Nat
  BY DEF Entry
<1>2. SliceBytes \in Nat \ {0}
  BY SliceFlowAssumption
<1>3. head.payload \in Seq(Nat \X Nat) /\ Len(head.payload) \in Nat
  BY <1>1, PayloadType
<1> DEFINE l == Len(head.payload)
           at == head.at
<1>4. End(head) = IF at + SliceBytes < l THEN at + SliceBytes ELSE l
  BY DEF End
<1>5. l \in Nat /\ at \in Nat /\ at < l /\ (LastSlice(head) <=> End(head) >= l)
  BY <1>1, <1>3 DEF LastSlice
<1> HIDE DEF l, at
<1>6. /\ End(head) \in Nat /\ at < End(head) /\ End(head) <= l
      /\ ~LastSlice(head) => End(head) < l
      /\ LastSlice(head) => End(head) = l
  BY <1>2, <1>4, <1>5
<1> QED BY <1>1, <1>3, <1>6 DEF l, at

\* A slice is a frame, and carries the bytes from `at` to its end.
LEMMA SliceType ==
  ASSUME NEW head \in Entry, head.at < Len(head.payload)
  PROVE  /\ Slice(head) \in Frame /\ Slice(head).t = "slice"
         /\ SliceSize(Slice(head)) \in Nat
         /\ SliceSize(Slice(head)) <= HeaderBytes + SliceBytes
         /\ Len(Slice(head).bytes) = End(head) - head.at
<1>1. /\ End(head) \in Nat /\ head.at < End(head) /\ End(head) <= Len(head.payload)
      /\ head.at \in Nat /\ Len(head.payload) \in Nat
      /\ head.payload \in Seq(Nat \X Nat)
  BY EndType
<1>2. /\ SubSeq(head.payload, head.at + 1, End(head)) \in Seq(Nat \X Nat)
      /\ Len(SubSeq(head.payload, head.at + 1, End(head))) = End(head) - head.at
  <2> DEFINE p == head.payload
             m == head.at + 1
             n == End(head)
  <2>1. m \in Nat \ {0} /\ n \in Nat /\ n <= Len(p) /\ p \in Seq(Nat \X Nat)
    BY <1>1, SMTT(30)
  <2>2. m \in Int /\ n \in Int /\ \A i \in m..n : p[i] \in Nat \X Nat
    <3> HIDE DEF p, m, n
    <3>1. \A i \in m..n : i \in 1..Len(p)
      BY <2>1
    <3> QED BY <2>1, <3>1
  <2>3. SubSeq(p, m, n) \in Seq(Nat \X Nat) /\ Len(SubSeq(p, m, n)) = IF m <= n THEN n - m + 1 ELSE 0
    <3> HIDE DEF p, m, n
    <3> QED BY <2>2, SubSeqProperties
  <2>4. m <= n /\ n - m + 1 = End(head) - head.at
    BY <1>1
  <2>5. Len(SubSeq(p, m, n)) = End(head) - head.at
    BY <2>3, <2>4
  <2> QED BY <2>3, <2>5
<1>3. head.id \in Chans /\ LastSlice(head) \in BOOLEAN
  BY DEF Entry, LastSlice
<1>4. Slice(head) \in Frame /\ Slice(head).t = "slice"
  BY <1>2, <1>3 DEF Slice, Frame
<1>5. End(head) - head.at <= SliceBytes
  <2> DEFINE a == head.at
             l == Len(head.payload)
             e == End(head)
  <2>1. a \in Nat /\ l \in Nat /\ e \in Nat /\ SliceBytes \in Nat
    BY <1>1, SliceFlowAssumption
  <2>2. e <= a + SliceBytes
    <3>1. e = IF l - a <= SliceBytes THEN l ELSE a + SliceBytes
      BY <2>1 DEF End
    <3> HIDE DEF a, l, e
    <3> QED BY <2>1, <3>1
  <2> HIDE DEF a, l, e
  <2>3. e - a <= SliceBytes
    BY <2>1, <2>2
  <2> QED BY <2>3 DEF a, e
<1>6. SliceSize(Slice(head)) = HeaderBytes + (End(head) - head.at)
  BY <1>2 DEF Slice, SliceSize
<1>7. SliceSize(Slice(head)) \in Nat
  BY <1>4, SliceSizeType
<1>8. SliceSize(Slice(head)) <= HeaderBytes + SliceBytes
  <2>1. End(head) - head.at \in Int /\ HeaderBytes \in Int /\ SliceBytes \in Int
    BY <1>1, SliceFlowAssumption
  <2> QED BY <1>5, <1>6, <2>1
<1>9. Len(Slice(head).bytes) = End(head) - head.at
  BY <1>2 DEF Slice
<1> QED BY <1>4, <1>7, <1>8, <1>9

\* pump() keeps the types of what it writes.
LEMMA PumpType ==
  ASSUME NEW q \in Seq(Entry), \A k \in DOMAIN q : q[k].at < Len(q[k].payload),
         NEW out \in Seq(Nat), NEW n \in Nat, toClient \in Seq(Frame), Pump(q, out, n)
  PROVE  /\ bulk' \in Seq(Entry) /\ Unfinished' /\ PumpsTheHead'
         /\ pumping' \in BOOLEAN /\ unconfirmed' \in Seq(Nat) /\ inflight' \in Nat
         /\ toClient' \in Seq(Frame)
<1>1. bulk' = q
  BY DEF Pump
<1>2. CASE /\ pumping' = FALSE /\ unconfirmed' = out /\ inflight' = n
           /\ UNCHANGED toClient
  BY <1>1, <1>2 DEF Unfinished, PumpsTheHead
<1>3. CASE /\ q # <<>>
           /\ pumping' = TRUE
           /\ toClient' = Append(toClient, Slice(Head(q)))
           /\ unconfirmed' = Append(out, SliceSize(Slice(Head(q))))
           /\ inflight' = n + SliceSize(Slice(Head(q)))
  <2>1. Head(q) \in Entry /\ Head(q).at < Len(Head(q).payload)
    <3>1. Head(q) = q[1] /\ 1 \in DOMAIN q
      BY <1>3
    <3> QED BY <3>1
  <2>2. Slice(Head(q)) \in Frame /\ SliceSize(Slice(Head(q))) \in Nat
    BY <2>1, SliceType
  <2> QED BY <1>1, <1>3, <2>2 DEF Unfinished, PumpsTheHead
<1> QED BY <1>2, <1>3 DEF Pump

\* sendBinary() has a number left for the payload.
LEMMA RoomToSend ==
  ASSUME sent \in [Chans -> Seq(Payloads)], TotalSent < MaxSent, NEW c \in Chans
  PROVE  Len(sent[c]) \in Nat /\ Len(sent[c]) + 1 \in 1..MaxSent
<1>0. Len(sent[c]) \in Nat /\ MaxSent \in Nat
  BY SliceFlowAssumption
<1> SUFFICES ASSUME Len(sent[c]) >= MaxSent PROVE FALSE
  BY <1>0
<1> DEFINE X == {x \in Chans \X (1..MaxSent) : x[2] <= Len(sent[x[1]])}
           f == [n \in 1..MaxSent |-> <<c, n>>]
<1>1. IsFiniteSet(X)
  <2>1. IsFiniteSet(Chans) /\ IsFiniteSet(1..MaxSent)
    BY <1>0, FS_Interval, SliceFlowAssumption
  <2>2. IsFiniteSet(Chans \X (1..MaxSent))
    BY <2>1, FS_Product
  <2> QED BY <2>2, FS_Subset
<1>2. f \in Injection(1..MaxSent, X)
  <2>1. \A n \in 1..MaxSent : <<c, n>> \in X
    BY <1>0
  <2> HIDE DEF X
  <2>2. f \in [1..MaxSent -> X]
    BY <2>1
  <2>3. \A a, b \in 1..MaxSent : f[a] = f[b] => a = b
    OBVIOUS
  <2> QED BY <2>2, <2>3 DEF Injection, IsInjective
<1>3. Cardinality(1..MaxSent) = MaxSent
  BY <1>0, FS_Interval
<1>4. Cardinality(1..MaxSent) <= Cardinality(X)
  <2> HIDE DEF X, f
  <2> QED BY <1>1, <1>2, FS_Injection
<1>5. Cardinality(X) \in Nat /\ Cardinality(X) = TotalSent
  <2>1. TotalSent = Cardinality(X)
    BY DEF TotalSent
  <2> HIDE DEF X
  <2> QED BY <1>1, <2>1, FS_CardinalityType
<1> QED BY <1>0, <1>3, <1>4, <1>5

\* What closeChannel() leaves of the queue is a queue with the same head.
LEMMA SplicedType ==
  ASSUME bulk \in Seq(Entry), Unfinished, NEW c
  PROVE  /\ Spliced(c) \in Seq(Entry)
         /\ \A k \in DOMAIN Spliced(c) : Spliced(c)[k].at < Len(Spliced(c)[k].payload)
         /\ bulk = <<>> => Spliced(c) = <<>>
         /\ bulk # <<>> => Spliced(c) # <<>> /\ Head(Spliced(c)) = Head(bulk)
<1> DEFINE K == {k \in DOMAIN bulk : k = 1 \/ bulk[k].id # c}
           L == {k \in DOMAIN Tail(bulk) : k + 1 \in K}
           P == Picked(bulk, K)
<1>1. Spliced(c) = P
  BY DEF Spliced
<1>2. P \in Seq(Entry)
  <2> HIDE DEF K
  <2> QED BY PickedType
<1>3. PICK g : Selects(g, P, bulk, K, Len(bulk))
  <2> HIDE DEF K
  <2> QED BY PickedSelects
<1>4. \A k \in DOMAIN P : P[k].at < Len(P[k].payload)
  <2> TAKE k \in DOMAIN P
  <2>1. k \in 1..Len(P)
    <3> HIDE DEF P
    <3> QED BY <1>2
  <2>2. P[k] = bulk[g[k]] /\ g[k] \in DOMAIN bulk
    <3> HIDE DEF K, P
    <3> QED BY <1>3, <2>1 DEF Selects
  <2> QED BY <2>2 DEF Unfinished
<1>5. bulk = <<>> => P = <<>>
  <2> HIDE DEF K
  <2> QED BY PickedOfNone
<1>6. ASSUME bulk # <<>> PROVE P # <<>> /\ Head(P) = Head(bulk)
  <2>1. 1 \in K
    BY <1>6
  <2>2. \A k \in 1..Len(Tail(bulk)) : k \in L <=> k + 1 \in K
    BY <1>6
  <2> HIDE DEF K, L
  <2> QED BY <1>6, <2>1, <2>2, PickedTail
<1> HIDE DEF P
<1> QED BY <1>1, <1>2, <1>4, <1>5, <1>6

\* The queue is sound: its types, and what the write callback relies on.
QueueInv == TypeOK /\ Unfinished /\ PumpsTheHead

\* QueueInv holds to begin with; then its types under each action.
LEMMA TypedInit == Init => QueueInv
<1> SUFFICES ASSUME Init PROVE QueueInv
  OBVIOUS
<1>1. bulk \in Seq(Entry) /\ unconfirmed \in Seq(Nat) /\ toClient \in Seq(Frame)
      /\ toServer \in Seq(Message)
  BY DEF Init
<1>2. window \in WindowMin..WindowMax
  BY SliceFlowAssumption DEF Init
<1>3. /\ held \in [Chans -> Seq(Nat \X Nat)] /\ sent \in [Chans -> Seq(Payloads)]
      /\ delivered \in [Chans -> Seq(Seq(Nat \X Nat))] /\ queued \in [Chans -> Nat]
  BY DEF Init
<1>4. modern \in BOOLEAN /\ channels \subseteq Chans /\ handles \subseteq Chans /\ pumping = FALSE
      /\ credited = FALSE /\ inflight = 0 /\ bulk = <<>>
  BY DEF Init
<1>5. TypeOK
  BY <1>1, <1>2, <1>3, <1>4 DEF TypeOK, Message
<1>6. DOMAIN bulk = {}
  BY <1>4
<1>7. Unfinished /\ PumpsTheHead
  BY <1>4, <1>6 DEF Unfinished, PumpsTheHead
<1> QED BY <1>5, <1>7 DEF QueueInv

\* Under sendBinary().
LEMMA TypedSend ==
  ASSUME QueueInv, NEW c \in Chans, NEW len \in Lengths, SendBinary(c, len)
  PROVE  QueueInv'
<1> DEFINE p == Payload(Len(sent[c]) + 1, len)
           e == [id |-> c, payload |-> p, at |-> 0]
           q == Append(bulk, e)
<1>1. TypeOK /\ Unfinished /\ PumpsTheHead
  BY DEF QueueInv
<1>2. p \in Payloads /\ p \in Seq(Nat \X Nat) /\ Len(p) \in Nat \ {0}
  <2>1. Len(sent[c]) + 1 \in 1..MaxSent
    BY <1>1, RoomToSend DEF TypeOK, SendBinary
  <2>2. p \in Payloads
    BY <2>1, PayloadType
  <2> HIDE DEF p
  <2> QED BY <2>2, PayloadType
<1>3. sent' = [sent EXCEPT ![c] = Append(@, p)]
  BY DEF SendBinary
<1>4. UNCHANGED <<modern, channels, handles, held, delivered, toServer, window, credited>>
  BY DEF SendBinary, pageVars
<1> HIDE DEF p
<1>5. sent' \in [Chans -> Seq(Payloads)]
  <2>1. sent[c] \in Seq(Payloads) /\ sent \in [Chans -> Seq(Payloads)]
    BY <1>1 DEF TypeOK
  <2>2. Append(sent[c], p) \in Seq(Payloads)
    BY <2>1, <1>2
  <2> QED BY <1>3, <2>1, <2>2
<1>6. CASE /\ toClient' = Append(toClient, [t |-> "data", id |-> c, last |-> TRUE, bytes |-> p])
           /\ UNCHANGED <<bulk, queued, pumping, unconfirmed, inflight, window, credited>>
  <2>1. [t |-> "data", id |-> c, last |-> TRUE, bytes |-> p] \in Frame
    BY <1>2 DEF Frame
  <2>2. toClient' \in Seq(Frame)
    BY <1>1, <1>6, <2>1 DEF TypeOK
  <2> QED BY <1>1, <1>4, <1>5, <1>6, <2>2 DEF QueueInv, TypeOK, Unfinished, PumpsTheHead
<1>7. CASE /\ queued' = [queued EXCEPT ![c] = @ + 1]
           /\ IF pumping
                THEN bulk' = q /\ UNCHANGED <<pumping, unconfirmed, inflight, toClient>>
                ELSE Pump(q, unconfirmed, inflight)
  <2>1. e \in Entry /\ e.at < Len(e.payload)
    BY <1>2 DEF Entry
  <2> HIDE DEF e
  <2>2. q \in Seq(Entry) /\ q # <<>> /\ \A k \in DOMAIN q : q[k].at < Len(q[k].payload)
    <3>1. bulk \in Seq(Entry) /\ \A k \in 1..Len(bulk) : bulk[k].at < Len(bulk[k].payload)
      BY <1>1 DEF TypeOK, Unfinished
    <3>2. q \in Seq(Entry) /\ q # <<>> /\ Len(q) = Len(bulk) + 1
      BY <2>1, <3>1, AppendProperties
    <3>3. \A k \in 1..(Len(bulk) + 1) : q[k] = IF k = Len(bulk) + 1 THEN e ELSE bulk[k]
      BY <2>1, <3>1
    <3>4. \A k \in 1..(Len(bulk) + 1) : q[k].at < Len(q[k].payload)
      <4> HIDE DEF q
      <4> QED BY <2>1, <3>1, <3>3
    <3> HIDE DEF q
    <3> QED BY <3>2, <3>4
  <2>3. queued' \in [Chans -> Nat]
    BY <1>1, <1>7 DEF TypeOK
  <2> HIDE DEF q
  <2>4. CASE pumping
    <3>1. bulk' = q /\ UNCHANGED <<pumping, unconfirmed, inflight, toClient>>
      BY <1>7, <2>4
    <3> QED BY <1>1, <1>4, <1>5, <2>2, <2>3, <3>1 DEF QueueInv, TypeOK, Unfinished, PumpsTheHead
  <2>5. CASE ~pumping
    <3>1. Pump(q, unconfirmed, inflight) /\ unconfirmed \in Seq(Nat) /\ inflight \in Nat /\ toClient \in Seq(Frame)
      BY <1>1, <1>7, <2>5 DEF TypeOK
    <3>2. /\ bulk' \in Seq(Entry) /\ Unfinished' /\ PumpsTheHead'
          /\ pumping' \in BOOLEAN /\ unconfirmed' \in Seq(Nat) /\ inflight' \in Nat
          /\ toClient' \in Seq(Frame)
      BY <2>2, <3>1, PumpType
    <3> QED BY <1>1, <1>4, <1>5, <2>3, <3>2 DEF QueueInv, TypeOK
  <2> QED BY <2>4, <2>5
<1> QED BY <1>6, <1>7 DEF SendBinary, p

\* Under the write callback, which relies on the head's count being one at
\* least.
LEMMA TypedTakes ==
  ASSUME QueueInv, CountsAreExact, SocketTakes
  PROVE  QueueInv'
<1> DEFINE head == Head(bulk)
<1>1. TypeOK /\ Unfinished /\ PumpsTheHead
  BY DEF QueueInv
<1>2. UNCHANGED <<modern, channels, handles, held, delivered, toServer, window, credited, sent>>
  BY DEF SocketTakes, pageVars
<1>3. /\ bulk # <<>> /\ head \in Entry /\ head.at < Len(head.payload) /\ head.id \in Chans
      /\ head = bulk[1] /\ bulk \in Seq(Entry) /\ 1 \in DOMAIN bulk
  <2>1. bulk # <<>> /\ bulk \in Seq(Entry)
    BY <1>1 DEF SocketTakes, PumpsTheHead, TypeOK
  <2>2. head = bulk[1] /\ 1 \in DOMAIN bulk /\ head \in Entry
    BY <2>1
  <2> QED BY <1>1, <2>1, <2>2 DEF Unfinished, Entry
<1>4. unconfirmed \in Seq(Nat) /\ inflight \in Nat /\ toClient \in Seq(Frame)
  BY <1>1 DEF TypeOK
<1>5. CASE /\ queued' = [queued EXCEPT ![head.id] = @ - 1]
           /\ Pump(Tail(bulk), unconfirmed, inflight)
  <2>1. Tail(bulk) \in Seq(Entry)
    BY <1>3
  <2>2. \A k \in DOMAIN Tail(bulk) : Tail(bulk)[k].at < Len(Tail(bulk)[k].payload)
    BY <1>1, <1>3 DEF Unfinished
  <2>3. /\ bulk' \in Seq(Entry) /\ Unfinished' /\ PumpsTheHead'
        /\ pumping' \in BOOLEAN /\ unconfirmed' \in Seq(Nat) /\ inflight' \in Nat
        /\ toClient' \in Seq(Frame)
    BY <1>4, <1>5, <2>1, <2>2, PumpType
  <2>4. queued[head.id] # 0
    <3> DEFINE X == {k \in DOMAIN bulk : bulk[k].id = head.id}
    <3>1. 1 \in X
      BY <1>3
    <3>2. IsFiniteSet(X)
      <4>1. IsFiniteSet(DOMAIN bulk)
        BY <1>3, FS_Interval
      <4> QED BY <4>1, FS_Subset
    <3>3. queued[head.id] = Cardinality(X)
      BY <1>3 DEF CountsAreExact
    <3> HIDE DEF X
    <3> QED BY <3>1, <3>2, <3>3, FS_EmptySet
  <2>5. queued' \in [Chans -> Nat]
    BY <1>1, <1>3, <1>5, <2>4 DEF TypeOK
  <2> QED BY <1>1, <1>2, <2>3, <2>5 DEF QueueInv, TypeOK
<1>6. CASE /\ ~DoneWith(head) /\ UNCHANGED queued
           /\ Pump([bulk EXCEPT ![1].at = End(head)], unconfirmed, inflight)
  <2> DEFINE e == [head EXCEPT !.at = End(head)]
             q == [bulk EXCEPT ![1] = e]
  <2>1. End(head) \in Nat /\ End(head) < Len(head.payload)
    BY <1>3, <1>6, EndType DEF DoneWith
  <2>2. e \in Entry /\ e.at < Len(e.payload)
    BY <1>3, <2>1 DEF Entry
  <2>3. q = [bulk EXCEPT ![1].at = End(head)]
    BY <1>3
  <2> HIDE DEF e
  <2>4. q \in Seq(Entry) /\ \A k \in DOMAIN q : q[k].at < Len(q[k].payload)
    BY <1>1, <1>3, <2>2 DEF Unfinished
  <2> HIDE DEF q
  <2>5. Pump(q, unconfirmed, inflight)
    BY <1>6, <2>3
  <2>6. /\ bulk' \in Seq(Entry) /\ Unfinished' /\ PumpsTheHead'
        /\ pumping' \in BOOLEAN /\ unconfirmed' \in Seq(Nat) /\ inflight' \in Nat
        /\ toClient' \in Seq(Frame)
    BY <1>4, <2>4, <2>5, PumpType
  <2> QED BY <1>1, <1>2, <1>6, <2>6 DEF QueueInv, TypeOK
<1> QED BY <1>5, <1>6 DEF SocketTakes

\* Under closeChannel().
LEMMA TypedClose ==
  ASSUME QueueInv, NEW c \in Chans, CloseChannel(c),
         toServer' \in Seq(Message)
  PROVE  QueueInv'
<1>1. TypeOK /\ Unfinished /\ PumpsTheHead
  BY DEF QueueInv
<1>2. UNCHANGED <<modern, pumping, unconfirmed, inflight, window, credited, handles, held, delivered, sent>>
  BY DEF CloseChannel, pageVars
<1>3. bulk \in Seq(Entry)
  BY <1>1 DEF TypeOK
<1>4. /\ bulk' \in Seq(Entry) /\ Unfinished' /\ (bulk # <<>> => bulk' # <<>>)
  BY <1>1, <1>3, SplicedType DEF CloseChannel, Unfinished
<1>5. PumpsTheHead'
  BY <1>1, <1>2, <1>4 DEF PumpsTheHead
<1>6. toClient' \in Seq(Frame)
  <2>1. [t |-> "close", id |-> c] \in Frame
    BY DEF Frame
  <2> QED BY <1>1, <2>1 DEF CloseChannel, TypeOK
<1>7. queued' \in [Chans -> Nat] /\ channels' \subseteq Chans
  BY <1>1 DEF TypeOK, CloseChannel, LeftQueued
<1> QED BY <1>1, <1>2, <1>4, <1>5, <1>6, <1>7 DEF QueueInv, TypeOK, Message

\* Whatever a confirmation does to the window, it stays within its bounds.
LEMMA AdjustedType ==
  ASSUME NEW w \in WindowMin..WindowMax
  PROVE  Adjusted(w) \subseteq WindowMin..WindowMax
<1>1. {WindowMin, WindowMax, SliceBytes, w} \subseteq Nat /\ WindowMin <= WindowMax
  BY SliceFlowAssumption
<1>2. w \div 2 \in Nat /\ w \div 2 <= w
  BY <1>1
<1> QED BY <1>1, <1>2 DEF Adjusted

\* Under took().
LEMMA TypedTook ==
  ASSUME QueueInv, NEW n \in Nat, Took(n), unconfirmed # <<>>,
         toServer' \in Seq(Message)
  PROVE  QueueInv'
<1>1. TypeOK /\ Unfinished /\ PumpsTheHead
  BY DEF QueueInv
<1>2. UNCHANGED <<modern, channels, queued, handles, held, delivered, sent>>
  BY DEF Took, pageVars
<1>3. credited' \in BOOLEAN /\ window' \in WindowMin..WindowMax
  BY <1>1, AdjustedType DEF Took, TypeOK
<1>4. Tail(unconfirmed) \in Seq(Nat) /\ Uncredited(n) \in Nat /\ bulk \in Seq(Entry) /\ toClient \in Seq(Frame)
  BY <1>1 DEF TypeOK, Uncredited
<1>5. /\ bulk' \in Seq(Entry) /\ Unfinished' /\ PumpsTheHead'
      /\ pumping' \in BOOLEAN /\ unconfirmed' \in Seq(Nat) /\ inflight' \in Nat
      /\ toClient' \in Seq(Frame)
  <2>1. CASE pumping
    <3>1. /\ unconfirmed' = Tail(unconfirmed) /\ inflight' = Uncredited(n)
          /\ UNCHANGED <<bulk, pumping, toClient>>
      BY <2>1 DEF Took, AfterTook
    <3> QED BY <1>1, <1>4, <3>1 DEF TypeOK, Unfinished, PumpsTheHead
  <2>2. CASE ~pumping
    <3>1. Pump(bulk, Tail(unconfirmed), Uncredited(n))
      BY <2>2 DEF Took, AfterTook
    <3>2. \A k \in DOMAIN bulk : bulk[k].at < Len(bulk[k].payload)
      BY <1>1 DEF Unfinished
    <3> HIDE DEF Uncredited
    <3> QED BY <1>4, <3>1, <3>2, PumpType
  <2> QED BY <2>1, <2>2
<1> QED BY <1>1, <1>2, <1>3, <1>5 DEF QueueInv, TypeOK, Message

\* Under the page's own steps.
LEMMA TypedPage ==
  ASSUME QueueInv,
         UNCHANGED <<modern, serverVars, sent>>,
         \/ ClientReceives
         \/ \E c \in Chans : CloseHandle(c)
  PROVE  QueueInv'
<1>1. TypeOK /\ Unfinished /\ PumpsTheHead
  BY DEF QueueInv
<1>2. Unfinished' /\ PumpsTheHead'
  BY <1>1 DEF serverVars, Unfinished, PumpsTheHead
<1>3. /\ handles' \subseteq Chans /\ toClient' \in Seq(Frame) /\ toServer' \in Seq(Message)
      /\ held' \in [Chans -> Seq(Nat \X Nat)] /\ delivered' \in [Chans -> Seq(Seq(Nat \X Nat))]
  <2>0. /\ handles \subseteq Chans /\ toClient \in Seq(Frame) /\ toServer \in Seq(Message)
        /\ held \in [Chans -> Seq(Nat \X Nat)] /\ delivered \in [Chans -> Seq(Seq(Nat \X Nat))]
    BY <1>1 DEF TypeOK, Message
  <2>1. ASSUME NEW c \in Chans, CloseHandle(c)
        PROVE  /\ handles' \subseteq Chans /\ toClient' \in Seq(Frame) /\ toServer' \in Seq(Message)
               /\ held' \in [Chans -> Seq(Nat \X Nat)] /\ delivered' \in [Chans -> Seq(Seq(Nat \X Nat))]
    <3>1. [t |-> "close", id |-> c] \in Message
      BY DEF Message
    <3> QED BY <2>0, <2>1, <3>1 DEF CloseHandle
  <2>2. CASE ClientReceives
    <3> DEFINE m == Head(toClient)
    <3>1. m \in Frame /\ toClient' \in Seq(Frame)
      BY <2>0, <2>2 DEF ClientReceives
    <3>2. m.t = "close" => OnClose(m)
      BY <2>2 DEF ClientReceives
    <3>3. m.t # "close" => OnBinary(m)
      BY <2>2 DEF ClientReceives
    <3> HIDE DEF m
    <3>4. CASE m.t = "close"
      <4>1. OnClose(m) /\ m.id \in Chans
        BY <3>1, <3>2, <3>4 DEF Frame
      <4> QED BY <2>0, <3>1, <4>1 DEF OnClose
    <3>5. CASE m.t # "close"
      <4>1. OnBinary(m) /\ m.id \in Chans /\ m.bytes \in Seq(Nat \X Nat)
        BY <3>1, <3>3, <3>5 DEF Frame
      <4>2. toServer' \in Seq(Message)
        <5>1. CASE m.t = "slice" /\ modern
          <6> DEFINE took == [t |-> "took", n |-> SliceSize(m)]
          <6>1. SliceSize(m) \in Nat
            BY <3>1, <5>1, SliceSizeType
          <6>2. took \in Message
            BY <6>1 DEF Message
          <6>3. toServer' = Append(toServer, took)
            BY <4>1, <5>1 DEF OnBinary
          <6> HIDE DEF took
          <6> QED BY <2>0, <6>2, <6>3
        <5>2. CASE ~(m.t = "slice" /\ modern)
          BY <2>0, <4>1, <5>2 DEF OnBinary
        <5> QED BY <5>1, <5>2
      <4>3. held[m.id] \in Seq(Nat \X Nat) /\ held[m.id] \o m.bytes \in Seq(Nat \X Nat)
        BY <2>0, <4>1
      <4>4. held' \in [Chans -> Seq(Nat \X Nat)]
        <5>1. held' = [held EXCEPT ![m.id] = held[m.id] \o m.bytes] \/ held' = [held EXCEPT ![m.id] = <<>>]
          BY <4>1 DEF OnBinary
        <5>2. <<>> \in Seq(Nat \X Nat)
          OBVIOUS
        <5> QED BY <2>0, <4>1, <4>3, <5>1, <5>2
      <4>5. delivered' \in [Chans -> Seq(Seq(Nat \X Nat))]
        <5>1. Append(delivered[m.id], held[m.id] \o m.bytes) \in Seq(Seq(Nat \X Nat))
          BY <2>0, <4>1, <4>3
        <5> QED BY <2>0, <4>1, <5>1 DEF OnBinary
      <4> QED BY <2>0, <3>1, <4>1, <4>2, <4>4, <4>5 DEF OnBinary
    <3> QED BY <3>4, <3>5
  <2> QED BY <2>1, <2>2
<1> QED BY <1>1, <1>2, <1>3 DEF QueueInv, TypeOK, serverVars, Message

\* The entries of a channel in a queue, as bulkByChannel counts them.
Places(q, c) == {k \in DOMAIN q : q[k].id = c}
\* The number of them.
Count(q, c) == Cardinality(Places(q, c))

\* A queue holds finitely many entries of a channel.
LEMMA CountType ==
  ASSUME NEW q \in Seq(Entry), NEW c
  PROVE  IsFiniteSet(Places(q, c)) /\ Count(q, c) \in Nat
<1>1. IsFiniteSet(DOMAIN q)
  BY FS_Interval
<1>2. IsFiniteSet(Places(q, c))
  BY <1>1, FS_Subset DEF Places
<1> QED BY <1>2, FS_CardinalityType DEF Count

\* An entry added counts for its channel.
LEMMA CountAppend ==
  ASSUME NEW q \in Seq(Entry), NEW e \in Entry, NEW c
  PROVE  Count(Append(q, e), c) = IF e.id = c THEN Count(q, c) + 1 ELSE Count(q, c)
<1> DEFINE N == Len(q) + 1
<1>1. Places(Append(q, e), c) = IF e.id = c THEN Places(q, c) \cup {N} ELSE Places(q, c)
  <2>1. /\ DOMAIN Append(q, e) = 1..N /\ DOMAIN q = 1..Len(q) /\ N \notin 1..Len(q)
        /\ 1..N = (1..Len(q)) \cup {N}
        /\ Append(q, e)[N] = e /\ \A k \in 1..Len(q) : Append(q, e)[k] = q[k]
    OBVIOUS
  <2> QED BY <2>1 DEF Places
<1>2. N \notin Places(q, c)
  BY DEF Places
<1> HIDE DEF N
<1> QED BY <1>1, <1>2, CountType, FS_AddElement DEF Count

\* An entry taken counts no longer.
LEMMA CountTail ==
  ASSUME NEW q \in Seq(Entry), q # <<>>, NEW c
  PROVE  Count(Tail(q), c) = IF Head(q).id = c THEN Count(q, c) - 1 ELSE Count(q, c)
<1> DEFINE X == Places(Tail(q), c)
           Y == Places(q, c) \ {1}
           f == [k \in X |-> k + 1]
<1>1. X \subseteq 1..Len(Tail(q)) /\ Len(Tail(q)) = Len(q) - 1 /\ Len(q) \in Nat
  BY DEF Places
<1>2. \A k \in X : k + 1 \in Y
  BY DEF Places
<1>3. \A k \in Y : k - 1 \in X
  BY DEF Places
<1>4. X \subseteq Nat /\ Y \subseteq Nat
  BY DEF Places
<1> HIDE DEF X, Y
<1>5. f \in Bijection(X, Y)
  <2>1. f \in [X -> Y] /\ \A a, b \in X : f[a] = f[b] => a = b
    BY <1>2, <1>4
  <2>2. \A y \in Y : \E x \in X : f[x] = y
    <3> TAKE y \in Y
    <3>1. y - 1 \in X /\ f[y - 1] = y
      BY <1>3, <1>4
    <3> QED BY <3>1
  <2> HIDE DEF f
  <2> QED BY <2>1, <2>2, Fun_IsBij
<1>6. IsFiniteSet(X)
  <2>1. Tail(q) \in Seq(Entry)
    OBVIOUS
  <2> QED BY <2>1, CountType DEF X
<1>7. Cardinality(X) = Cardinality(Y)
  <2>1. ExistsBijection(X, Y)
    BY <1>5 DEF ExistsBijection
  <2> QED BY <1>6, <2>1, FS_Bijection
<1>8. Cardinality(Y) = IF 1 \in Places(q, c) THEN Count(q, c) - 1 ELSE Count(q, c)
  BY CountType, FS_RemoveElement DEF Y, Count
<1>9. 1 \in Places(q, c) <=> Head(q).id = c
  BY DEF Places
<1> QED BY <1>7, <1>8, <1>9 DEF Count, X

\* An entry whose slice has gone counts as before.
LEMMA CountAdvanced ==
  ASSUME NEW q \in Seq(Entry), q # <<>>, NEW n, NEW c
  PROVE  Count([q EXCEPT ![1].at = n], c) = Count(q, c)
<1> DEFINE r == [q EXCEPT ![1].at = n]
<1>1. DOMAIN r = DOMAIN q /\ \A k \in DOMAIN q : r[k].id = q[k].id
  <2>1. \A k \in DOMAIN q : q[k] \in Entry
    OBVIOUS
  <2> QED BY <2>1 DEF Entry
<1> HIDE DEF r
<1>2. Places(r, c) = Places(q, c)
  BY <1>1 DEF Places
<1> QED BY <1>2 DEF Count, r

\* Of the channel that closes only a head of its own stays; the others keep
\* theirs.
LEMMA CountSpliced ==
  ASSUME bulk \in Seq(Entry), NEW c, NEW d
  PROVE  Count(Spliced(c), d) = IF d = c THEN LeftQueued(c) ELSE Count(bulk, d)
<1> DEFINE K == {k \in DOMAIN bulk : k = 1 \/ bulk[k].id # c}
           P == Spliced(c)
           X == Places(P, d)
           Y == {k \in Places(bulk, d) : k \in K}
<1>1. P = Picked(bulk, K)
  BY DEF Spliced
<1>2. P \in Seq(Entry)
  <2> HIDE DEF K
  <2> QED BY <1>1, PickedType
<1>3. PICK g : Selects(g, P, bulk, K, Len(bulk))
  <2> HIDE DEF K, P
  <2> QED BY <1>1, PickedSelects
<1> DEFINE f == [k \in X |-> g[k]]
<1>4. /\ X \subseteq 1..Len(P) /\ DOMAIN P = 1..Len(P) /\ Len(P) \in Nat
      /\ Places(bulk, d) \subseteq 1..Len(bulk) /\ DOMAIN bulk = 1..Len(bulk)
  <2> HIDE DEF P
  <2> QED BY <1>2 DEF Places
<1>5. f \in Bijection(X, Y)
  <2> HIDE DEF K, P
  <2>1. \A k \in X : g[k] \in Y
    BY <1>3, <1>4 DEF Selects, Places
  <2>2. \A a, b \in X : g[a] = g[b] => a = b
    <3>1. \A a, b \in 1..Len(P) : a < b => g[a] < g[b]
      BY <1>3 DEF Selects
    <3>2. \A a \in 1..Len(P) : g[a] \in Nat
      BY <1>3 DEF Selects
    <3>3. \A a, b \in 1..Len(P) : a = b \/ a < b \/ b < a
      OBVIOUS
    <3>4. \A a, b \in 1..Len(P) : g[a] = g[b] => a = b
      BY <3>1, <3>2, <3>3
    <3> QED BY <1>4, <3>4
  <2>3. \A y \in Y : \E x \in X : g[x] = y
    <3> TAKE y \in Y
    <3>1. PICK x \in 1..Len(P) : g[x] = y
      BY <1>3, <1>4 DEF Selects
    <3>2. P[x] = bulk[y] /\ bulk[y].id = d
      BY <1>3, <3>1 DEF Selects, Places
    <3>3. x \in X
      BY <1>4, <3>2 DEF Places
    <3> QED BY <3>1, <3>3
  <2> HIDE DEF X, Y
  <2>4. f \in [X -> Y] /\ (\A a, b \in X : f[a] = f[b] => a = b) /\ \A y \in Y : \E x \in X : f[x] = y
    BY <2>1, <2>2, <2>3
  <2> HIDE DEF f
  <2> QED BY <2>4, Fun_IsBij
<1>6. Cardinality(X) = Cardinality(Y)
  <2> HIDE DEF P, Y, f
  <2>1. IsFiniteSet(X) /\ ExistsBijection(X, Y)
    BY <1>2, <1>5, CountType DEF ExistsBijection
  <2> HIDE DEF X
  <2> QED BY <2>1, FS_Bijection
<1>7. CASE d # c
  <2>1. Y = Places(bulk, d)
    BY <1>7 DEF Places
  <2> QED BY <1>6, <1>7, <2>1 DEF Count
<1>8. CASE d = c
  <2>1. Y = IF bulk # <<>> /\ Head(bulk).id = c THEN {1} ELSE {}
    BY <1>8 DEF Places
  <2>2. Cardinality(Y) = LeftQueued(c)
    <3> HIDE DEF Y
    <3> QED BY <2>1, FS_Singleton, FS_EmptySet DEF LeftQueued
  <2> QED BY <1>6, <1>8, <2>2 DEF Count
<1> QED BY <1>7, <1>8

\* bulkByChannel stays exact, whatever is queued, sent or spliced out.
LEMMA CountsStep ==
  ASSUME QueueInv, CountsAreExact, [Next]_vars
  PROVE  CountsAreExact'
<1>0. bulk \in Seq(Entry) /\ queued \in [Chans -> Nat]
  BY DEF QueueInv, TypeOK
<1>1. \A c \in Chans : queued[c] = Count(bulk, c)
  BY DEF CountsAreExact, Count, Places
<1> SUFFICES \A d \in Chans : queued'[d] = Count(bulk', d)
  BY DEF CountsAreExact, Count, Places
<1>2. CASE UNCHANGED <<bulk, queued>>
  BY <1>1, <1>2
<1>3. ASSUME NEW c \in Chans, NEW len \in Lengths, SendBinary(c, len)
      PROVE  \A d \in Chans : queued'[d] = Count(bulk', d)
  <2> DEFINE p == Payload(Len(sent[c]) + 1, len)
             e == [id |-> c, payload |-> p, at |-> 0]
  <2>1. CASE ~UNCHANGED <<bulk, queued>>
    <3>1. queued' = [queued EXCEPT ![c] = @ + 1] /\ bulk' = Append(bulk, e)
      BY <1>3, <2>1 DEF SendBinary, Pump
    <3>2. e \in Entry
      <4>1. Len(sent[c]) + 1 \in 1..MaxSent
        BY <1>3, RoomToSend DEF QueueInv, TypeOK, SendBinary
      <4>2. p \in Payloads
        BY <4>1, PayloadType
      <4> QED BY <4>2 DEF Entry
    <3>3. e.id = c
      OBVIOUS
    <3> HIDE DEF e
    <3> QED BY <1>0, <1>1, <3>1, <3>2, <3>3, CountAppend
  <2> QED BY <1>2, <2>1
<1>4. ASSUME SocketTakes PROVE \A d \in Chans : queued'[d] = Count(bulk', d)
  <2>1. bulk # <<>> /\ Head(bulk).id \in Chans
    <3>1. bulk # <<>>
      BY <1>4 DEF SocketTakes, QueueInv, PumpsTheHead
    <3>2. Head(bulk) \in Entry
      BY <1>0, <3>1
    <3> QED BY <3>1, <3>2 DEF Entry
  <2>2. CASE queued' = [queued EXCEPT ![Head(bulk).id] = @ - 1] /\ bulk' = Tail(bulk)
    BY <1>0, <1>1, <2>1, <2>2, CountTail
  <2>3. CASE UNCHANGED queued /\ bulk' = [bulk EXCEPT ![1].at = End(Head(bulk))]
    <3> DEFINE n == End(Head(bulk))
    <3>1. bulk' = [bulk EXCEPT ![1].at = n] /\ queued' = queued
      BY <2>3
    <3> HIDE DEF n
    <3>2. \A d \in Chans : Count(bulk', d) = Count(bulk, d)
      BY <1>0, <2>1, <3>1, CountAdvanced
    <3> QED BY <1>1, <3>1, <3>2
  <2> QED BY <1>4, <2>2, <2>3 DEF SocketTakes, Pump
<1>5. ASSUME NEW c \in Chans, CloseChannel(c)
      PROVE  \A d \in Chans : queued'[d] = Count(bulk', d)
  BY <1>0, <1>1, <1>5, CountSpliced DEF CloseChannel
<1>6. ASSUME NEW n, Took(n) PROVE UNCHANGED <<bulk, queued>>
  BY <1>6 DEF Took, AfterTook, Pump
<1>7. CASE ServerReceives
  <2>1. ASSUME Head(toServer).t = "close", toServer # <<>> PROVE Head(toServer).id \in Chans
    <3>1. toServer \in Seq(Message)
      BY DEF QueueInv, TypeOK, Message
    <3>2. Head(toServer) \in Message
      BY <2>1, <3>1
    <3> QED BY <2>1, <3>2 DEF Message
  <2> QED BY <1>2, <1>5, <1>6, <1>7, <2>1 DEF ServerReceives, serverVars
<1>8. CASE UNCHANGED serverVars
  BY <1>2, <1>8 DEF serverVars
<1>9. ASSUME NEW c \in Chans, ServiceCloses(c) \/ CloseHandle(c)
      PROVE  \A d \in Chans : queued'[d] = Count(bulk', d)
  BY <1>5, <1>8, <1>9 DEF ServiceCloses, CloseHandle
<1>a. CASE ClientReceives
  BY <1>8, <1>a DEF ClientReceives
<1>b. CASE UNCHANGED vars
  BY <1>8, <1>b DEF vars
<1> QED BY <1>3, <1>4, <1>7, <1>9, <1>a, <1>b DEF Next

\* A page from before took() never confirms anything.
CreditInv ==
  /\ CreditIsExact
  /\ ~modern => Returned(toServer) = <<>> /\ ~credited

\* The two halves of CreditIsExact, in the words of the lemmas above.
LEMMA CreditRestated ==
  CreditIsExact <=> /\ modern => unconfirmed = Returned(toServer) \o OnWire(toClient)
                    /\ inflight = Total(unconfirmed)
BY DEF CreditIsExact, Returned, Credits, OnWire

\* The same of the next state.
LEMMA CreditRestatedNext ==
  CreditIsExact' <=> /\ modern' => unconfirmed' = Returned(toServer') \o OnWire(toClient')
                     /\ inflight' = Total(unconfirmed')
BY DEF CreditIsExact, Returned, Credits, OnWire

\* To add at the end of the second part is to add at the end of the whole.
LEMMA AppendAfter ==
  ASSUME NEW a \in Seq(Nat), NEW b \in Seq(Nat), NEW n \in Nat
  PROVE  Append(a \o b, n) = a \o Append(b, n)
<1>1. /\ Append(a \o b, n) \in Seq(Nat) /\ a \o Append(b, n) \in Seq(Nat)
      /\ Len(Append(a \o b, n)) = Len(a) + Len(b) + 1 /\ Len(a \o Append(b, n)) = Len(a) + Len(b) + 1
  OBVIOUS
<1>2. \A k \in 1..(Len(a) + Len(b) + 1) : Append(a \o b, n)[k] = (a \o Append(b, n))[k]
  OBVIOUS
<1> QED BY <1>1, <1>2, SeqEqual

\* Whatever is handed to the socket is written down as unconfirmed.
LEMMA PumpKeepsBooks ==
  ASSUME NEW q \in Seq(Entry), \A k \in DOMAIN q : q[k].at < Len(q[k].payload),
         NEW out \in Seq(Nat), toClient \in Seq(Frame),
         Pump(q, out, Total(out)), NEW back \in Seq(Nat)
  PROVE  /\ out = back \o OnWire(toClient) => unconfirmed' = back \o OnWire(toClient')
         /\ inflight' = Total(unconfirmed')
<1> DEFINE m == Slice(Head(q))
<1>1. CASE UNCHANGED toClient /\ unconfirmed' = out /\ inflight' = Total(out)
  BY <1>1
<1>2. CASE /\ q # <<>>
           /\ toClient' = Append(toClient, m)
           /\ unconfirmed' = Append(out, SliceSize(m))
           /\ inflight' = Total(out) + SliceSize(m)
  <2>1. Head(q) \in Entry /\ Head(q).at < Len(Head(q).payload)
    <3>1. Head(q) = q[1] /\ 1 \in DOMAIN q
      BY <1>2
    <3> QED BY <3>1
  <2>2. m \in Frame /\ m.t = "slice" /\ SliceSize(m) \in Nat
    BY <2>1, SliceType
  <2> HIDE DEF m
  <2>3. inflight' = Total(unconfirmed')
    BY <1>2, <2>2, TotalAppend
  <2>4. OnWire(toClient') = Append(OnWire(toClient), SliceSize(m)) /\ OnWire(toClient) \in Seq(Nat)
    BY <1>2, <2>2, OnWireAppend, OnWireType
  <2>5. Append(back \o OnWire(toClient), SliceSize(m)) = back \o Append(OnWire(toClient), SliceSize(m))
    <3> QED BY <2>2, <2>4, AppendAfter
  <2> QED BY <1>2, <2>3, <2>4, <2>5
<1> QED BY <1>1, <1>2 DEF Pump

\* Credit stays exact: a slice is counted when it is written, on its way, on
\* the way back as its confirmation, and no longer once that has arrived.
LEMMA CreditStep ==
  ASSUME QueueInv, CreditInv, [Next]_vars
  PROVE  CreditInv'
<1> DEFINE R == Returned(toServer)
           W == OnWire(toClient)
<1>1. /\ bulk \in Seq(Entry) /\ unconfirmed \in Seq(Nat) /\ toClient \in Seq(Frame)
      /\ toServer \in Seq(Message) /\ inflight \in Nat
  BY DEF QueueInv, TypeOK, Message
<1>2. R \in Seq(Nat) /\ W \in Seq(Nat)
  BY <1>1, ReturnedType, OnWireType
<1>3. /\ modern => unconfirmed = R \o W
      /\ inflight = Total(unconfirmed)
      /\ ~modern => R = <<>> /\ ~credited
  BY CreditRestated DEF CreditInv
<1>4. \A k \in DOMAIN bulk : bulk[k].at < Len(bulk[k].payload)
  BY DEF QueueInv, Unfinished
<1> DEFINE Kept == /\ modern => unconfirmed' = Returned(toServer') \o OnWire(toClient')
                   /\ inflight' = Total(unconfirmed')
                   /\ ~modern => Returned(toServer') = <<>> /\ ~credited'
<1>5. modern' = modern
  BY DEF Next, SendBinary, ServiceCloses, CloseChannel, CloseHandle, SocketTakes, ServerReceives, Took,
         ClientReceives, vars
<1> SUFFICES Kept
  BY <1>5, CreditRestatedNext DEF CreditInv
<1> HIDE DEF R, W
<1>6. CASE UNCHANGED <<unconfirmed, inflight, toServer, toClient, credited>>
  BY <1>3, <1>6 DEF R, W
<1>7. ASSUME NEW q \in Seq(Entry), \A k \in DOMAIN q : q[k].at < Len(q[k].payload),
             Pump(q, unconfirmed, inflight), UNCHANGED <<toServer, credited>>
      PROVE  Kept
  <2>1. Pump(q, unconfirmed, Total(unconfirmed))
    BY <1>3, <1>7
  <2>2. /\ unconfirmed = R \o OnWire(toClient) => unconfirmed' = R \o OnWire(toClient')
        /\ inflight' = Total(unconfirmed')
    BY <1>1, <1>2, <1>7, <2>1, PumpKeepsBooks
  <2> QED BY <1>3, <1>7, <2>2 DEF R, W
<1>8. ASSUME NEW c \in Chans, NEW len \in Lengths, SendBinary(c, len) PROVE Kept
  <2> DEFINE p == Payload(Len(sent[c]) + 1, len)
             e == [id |-> c, payload |-> p, at |-> 0]
             m == [t |-> "data", id |-> c, last |-> TRUE, bytes |-> p]
             q == Append(bulk, e)
  <2>1. p \in Payloads /\ p \in Seq(Nat \X Nat) /\ Len(p) \in Nat \ {0}
    <3>1. Len(sent[c]) + 1 \in 1..MaxSent
      BY <1>8, RoomToSend DEF QueueInv, TypeOK, SendBinary
    <3>2. p \in Payloads
      BY <3>1, PayloadType
    <3> HIDE DEF p
    <3> QED BY <3>2, PayloadType
  <2> HIDE DEF p
  <2>2. CASE toClient' = Append(toClient, m) /\ UNCHANGED <<unconfirmed, inflight, toServer, credited>>
    <3>1. m \in Frame /\ m.t # "slice"
      BY <2>1 DEF Frame
    <3> HIDE DEF m
    <3>2. OnWire(toClient') = W
      BY <1>1, <2>2, <3>1, OnWireAppend DEF W
    <3> QED BY <1>3, <2>2, <3>2 DEF R
  <2>3. CASE ~pumping /\ Pump(q, unconfirmed, inflight) /\ UNCHANGED <<toServer, credited>>
    <3>1. e \in Entry /\ e.at < Len(e.payload)
      BY <2>1 DEF Entry
    <3> HIDE DEF e
    <3>2. q \in Seq(Entry) /\ Len(q) = Len(bulk) + 1 /\ DOMAIN q = 1..(Len(bulk) + 1)
      BY <1>1, <3>1, AppendProperties
    <3>3. \A k \in 1..(Len(bulk) + 1) : q[k] = IF k = Len(bulk) + 1 THEN e ELSE bulk[k]
      BY <1>1, <3>1
    <3>4. \A k \in DOMAIN q : q[k].at < Len(q[k].payload)
      <4> HIDE DEF q
      <4> QED BY <1>1, <1>4, <3>1, <3>2, <3>3
    <3> HIDE DEF q
    <3> QED BY <1>7, <2>3, <3>2, <3>4
  <2>4. UNCHANGED <<toServer, credited>>
    BY <1>8 DEF SendBinary
  <2> QED BY <1>6, <1>8, <2>2, <2>3, <2>4 DEF SendBinary, p
<1>9. CASE SocketTakes
  <2>1. UNCHANGED <<toServer, credited>> /\ bulk # <<>>
    BY <1>9 DEF SocketTakes, QueueInv, PumpsTheHead
  <2>2. CASE Pump(Tail(bulk), unconfirmed, inflight)
    <3>1. Tail(bulk) \in Seq(Entry)
      BY <1>1, <2>1
    <3>2. \A k \in DOMAIN Tail(bulk) : Tail(bulk)[k].at < Len(Tail(bulk)[k].payload)
      BY <1>1, <1>4, <2>1
    <3> QED BY <1>7, <2>1, <2>2, <3>1, <3>2
  <2>3. CASE ~DoneWith(Head(bulk)) /\ Pump([bulk EXCEPT ![1].at = End(Head(bulk))], unconfirmed, inflight)
    <3> DEFINE head == Head(bulk)
               e == [head EXCEPT !.at = End(head)]
               q == [bulk EXCEPT ![1] = e]
    <3>0. head \in Entry /\ head = bulk[1] /\ 1 \in DOMAIN bulk /\ head.at < Len(head.payload)
      BY <1>1, <1>4, <2>1
    <3>1. End(head) \in Nat /\ End(head) < Len(head.payload)
      BY <2>3, <3>0, EndType DEF DoneWith
    <3>2. e \in Entry /\ e.at < Len(e.payload)
      BY <3>0, <3>1 DEF Entry
    <3>3. q = [bulk EXCEPT ![1].at = End(head)]
      BY <3>0
    <3> HIDE DEF e
    <3>4. q \in Seq(Entry) /\ \A k \in DOMAIN q : q[k].at < Len(q[k].payload)
      <4>1. q \in Seq(Entry) /\ DOMAIN q = DOMAIN bulk
        BY <1>1, <3>0, <3>2
      <4>2. \A k \in DOMAIN bulk : q[k] = IF k = 1 THEN e ELSE bulk[k]
        BY <1>1
      <4> HIDE DEF q
      <4> QED BY <1>4, <3>2, <4>1, <4>2
    <3>5. Pump(q, unconfirmed, inflight)
      BY <2>3, <3>3
    <3> HIDE DEF q
    <3> QED BY <1>7, <2>1, <3>4, <3>5
  <2> QED BY <1>9, <2>2, <2>3 DEF SocketTakes
<1>a. ASSUME NEW c \in Chans, CloseChannel(c), Returned(toServer') = R PROVE Kept
  <2>1. /\ toClient' = Append(toClient, [t |-> "close", id |-> c])
        /\ UNCHANGED <<unconfirmed, inflight, credited>>
    BY <1>a DEF CloseChannel
  <2>2. [t |-> "close", id |-> c] \in Frame /\ [t |-> "close", id |-> c].t # "slice"
    BY DEF Frame
  <2>3. OnWire(toClient') = W
    BY <1>1, <2>1, <2>2, OnWireAppend DEF W
  <2> QED BY <1>3, <1>a, <2>1, <2>3
<1>b. CASE ServerReceives
  <2> DEFINE m == Head(toServer)
  <2>1. toServer # <<>> /\ toServer' = Tail(toServer) /\ m \in Message
    BY <1>1, <1>b DEF ServerReceives
  <2>2. CASE m.t = "took" /\ Took(m.n)
    <3> DEFINE n == m.n
               out == Tail(unconfirmed)
    <3>1. R # <<>> /\ Head(R) = n /\ Returned(toServer') = Tail(R) /\ n \in Nat
      BY <1>1, <2>1, <2>2, ReturnedTail DEF R, Message
    <3>2. modern /\ unconfirmed = R \o W
      BY <1>3, <3>1
    <3> HIDE DEF n
    <3>3. /\ unconfirmed # <<>> /\ Head(unconfirmed) = n /\ out = Tail(R) \o W /\ Tail(R) \in Seq(Nat)
          /\ out \in Seq(Nat)
      <4>0. R \in Seq(Nat) /\ W \in Seq(Nat) /\ R # <<>> /\ Tail(R) \in Seq(Nat)
        BY <1>2, <3>1
      <4>1. /\ R \o W # <<>> /\ Head(R \o W) = Head(R) /\ Tail(R \o W) \in Seq(Nat)
        BY <4>0
      <4>2. Tail(R \o W) = Tail(R) \o W
        <5>1. /\ Tail(R \o W) \in Seq(Nat) /\ Tail(R) \o W \in Seq(Nat)
              /\ Len(Tail(R \o W)) = Len(R) + Len(W) - 1 /\ Len(Tail(R) \o W) = Len(R) + Len(W) - 1
          BY <4>0, <4>1
        <5>2. \A i \in 1..(Len(R) + Len(W) - 1) : Tail(R \o W)[i] = (Tail(R) \o W)[i]
          BY <4>0, <4>1
        <5> QED BY <5>1, <5>2, SeqEqual
      <4> QED BY <3>1, <3>2, <4>0, <4>1, <4>2
    <3>4. Uncredited(n) = Total(out)
      <4>1. Total(unconfirmed) = n + Total(out) /\ Total(out) \in Nat
        BY <1>1, <3>3, TotalTail, TotalType
      <4>2. inflight = n + Total(out)
        BY <1>3, <4>1
      <4> HIDE DEF out
      <4> QED BY <4>1, <4>2, <3>1 DEF Uncredited, n
    <3>5. AfterTook(n)
      BY <2>2 DEF Took, n
    <3> HIDE DEF out
    <3>6. CASE pumping
      <4>1. unconfirmed' = out /\ inflight' = Total(out) /\ UNCHANGED toClient
        BY <3>4, <3>5, <3>6 DEF AfterTook, out
      <4> QED BY <3>1, <3>2, <3>3, <4>1 DEF W
    <3>7. CASE ~pumping
      <4>1. Pump(bulk, out, Total(out))
        BY <3>4, <3>5, <3>7 DEF AfterTook, out
      <4>2. /\ out = Tail(R) \o OnWire(toClient) => unconfirmed' = Tail(R) \o OnWire(toClient')
            /\ inflight' = Total(unconfirmed')
        BY <1>1, <1>4, <3>3, <4>1, PumpKeepsBooks
      <4> QED BY <3>1, <3>2, <3>3, <4>2 DEF W
    <3> QED BY <3>6, <3>7
  <2>3. ASSUME m.t = "close" PROVE Returned(toServer') = R /\ m.id \in Chans
    BY <1>1, <2>1, <2>3, ReturnedTail DEF R, Message
  <2>4. CASE UNCHANGED <<unconfirmed, inflight, toClient, credited>> /\ m.t = "close"
    BY <1>3, <2>3, <2>4 DEF W
  <2> QED BY <1>a, <1>b, <2>2, <2>3, <2>4 DEF ServerReceives, serverVars
<1>c. ASSUME NEW c \in Chans, ServiceCloses(c) PROVE Kept
  BY <1>a, <1>c DEF ServiceCloses, R
<1>d. ASSUME NEW c \in Chans, CloseHandle(c) PROVE Kept
  <2>1. toServer' = Append(toServer, [t |-> "close", id |-> c]) /\ UNCHANGED <<unconfirmed, inflight, toClient, credited>>
    BY <1>d DEF CloseHandle, serverVars
  <2>2. [t |-> "close", id |-> c] \in Message /\ [t |-> "close", id |-> c].t # "took"
    BY DEF Message
  <2>3. Returned(toServer') = R
    BY <1>1, <2>1, <2>2, ReturnedAppend DEF R
  <2> QED BY <1>3, <2>1, <2>3 DEF W
<1>e. CASE ClientReceives
  <2> DEFINE m == Head(toClient)
  <2>1. /\ toClient # <<>> /\ toClient' = Tail(toClient) /\ m \in Frame
        /\ UNCHANGED <<unconfirmed, inflight, credited>>
    BY <1>1, <1>e DEF ClientReceives, serverVars
  <2>2. CASE UNCHANGED toServer /\ (m.t = "slice" => ~modern)
    <3>1. m.t # "slice" => OnWire(toClient') = W
      BY <1>1, <2>1, OnWireTail DEF W
    <3> QED BY <1>3, <2>1, <2>2, <3>1 DEF R
  <2>3. CASE m.t = "slice" /\ modern /\ toServer' = Append(toServer, [t |-> "took", n |-> SliceSize(m)])
    <3> DEFINE n == SliceSize(m)
               t == [t |-> "took", n |-> n]
    <3>1. n \in Nat
      BY <2>1, <2>3, SliceSizeType
    <3>2. W # <<>> /\ Head(W) = n /\ OnWire(toClient') = Tail(W)
      BY <1>1, <2>1, <2>3, OnWireTail DEF W
    <3> HIDE DEF n
    <3>3. t \in Message /\ t.t = "took" /\ t.n = n
      BY <3>1 DEF Message
    <3>x. toServer' = Append(toServer, t)
      BY <2>3 DEF n
    <3> HIDE DEF t
    <3>4. Returned(toServer') = Append(R, n)
      BY <1>1, <3>3, <3>x, ReturnedAppend DEF R
    <3>5. R \o W = Append(R, n) \o Tail(W)
      <4>1. W = <<n>> \o Tail(W) /\ <<n>> \in Seq(Nat) /\ Tail(W) \in Seq(Nat)
        BY <1>2, <3>1, <3>2
      <4>2. Append(R, n) = R \o <<n>>
        BY <1>2, <3>1, AppendIsConcat
      <4>3. (R \o <<n>>) \o Tail(W) = R \o (<<n>> \o Tail(W))
        <5> DEFINE u == <<n>>
                   v == Tail(W)
        <5>1. R \in Seq(Nat) /\ u \in Seq(Nat) /\ v \in Seq(Nat)
          BY <1>2, <4>1
        <5>2. (R \o u) \o v = R \o (u \o v)
          <6> HIDE DEF u, v, R
          <6> QED BY <5>1, ConcatAssociative, SMTT(30)
        <5> QED BY <5>2
      <4> QED BY <4>1, <4>2, <4>3
    <3> QED BY <1>3, <2>1, <2>3, <3>2, <3>4, <3>5
  <2> QED BY <1>e, <2>2, <2>3 DEF ClientReceives, OnClose, OnBinary
<1>f. CASE UNCHANGED vars
  BY <1>6, <1>f DEF vars, serverVars
<1> QED BY <1>8, <1>9, <1>b, <1>c, <1>d, <1>e, <1>f DEF Next

\* The queue stays sound under every action.
LEMMA QueueStep ==
  ASSUME QueueInv, CountsAreExact, CreditInv, [Next]_vars
  PROVE  QueueInv'
<1>1. ASSUME NEW c \in Chans, NEW len \in Lengths, SendBinary(c, len) PROVE QueueInv'
  BY <1>1, TypedSend
<1>2. CASE SocketTakes
  BY <1>2, TypedTakes
<1>0. toServer \in Seq(Message)
  BY DEF QueueInv, TypeOK, Message
<1>3. CASE ServerReceives
  <2> DEFINE m == Head(toServer)
  <2>1. toServer # <<>> /\ toServer' = Tail(toServer) /\ m \in Message /\ toServer' \in Seq(Message)
    BY <1>0, <1>3 DEF ServerReceives
  <2>2. CASE m.t = "took" /\ Took(m.n)
    <3>1. Returned(toServer) # <<>> /\ m.n \in Nat
      BY <1>0, <2>1, <2>2, ReturnedTail DEF Message
    <3>2. unconfirmed = Returned(toServer) \o OnWire(toClient)
      BY <3>1, CreditRestated DEF CreditInv
    <3>3. Returned(toServer) \in Seq(Nat) /\ OnWire(toClient) \in Seq(Nat)
      BY <1>0, ReturnedType, OnWireType DEF QueueInv, TypeOK
    <3>4. unconfirmed # <<>>
      BY <3>1, <3>2, <3>3, ConcatEqualIffEmpty
    <3> QED BY <2>1, <2>2, <3>1, <3>4, TypedTook
  <2>3. CASE m.t = "close" /\ CloseChannel(m.id)
    BY <2>1, <2>3, TypedClose DEF Message
  <2>4. CASE UNCHANGED <<modern, serverVars, pageVars, toClient, sent>>
    BY <2>1, <2>4 DEF QueueInv, TypeOK, Unfinished, PumpsTheHead, serverVars, pageVars, Message
  <2> QED BY <1>3, <2>2, <2>3, <2>4 DEF ServerReceives
<1>4. ASSUME NEW c \in Chans, ServiceCloses(c) PROVE QueueInv'
  BY <1>0, <1>4, TypedClose DEF ServiceCloses
<1>5. ASSUME NEW c \in Chans, CloseHandle(c) PROVE QueueInv'
  BY <1>5, TypedPage DEF CloseHandle
<1>6. CASE ClientReceives
  BY <1>6, TypedPage DEF ClientReceives
<1>7. CASE UNCHANGED vars
  BY <1>7 DEF QueueInv, TypeOK, Unfinished, PumpsTheHead, vars, serverVars, pageVars
<1> QED BY <1>1, <1>2, <1>3, <1>4, <1>5, <1>6, <1>7 DEF Next

\* The books of the pump. No part is inductive alone: the callback lowers a
\* count that only CountsAreExact keeps above zero, and took() takes off an
\* amount that only CreditInv knows to be out.
BooksInv == QueueInv /\ CountsAreExact /\ CreditInv

\* The books hold to begin with,
LEMMA BooksInvInit == Init => BooksInv
<1> SUFFICES ASSUME Init PROVE BooksInv
  OBVIOUS
<1>1. QueueInv
  BY TypedInit
<1>2. CountsAreExact
  <2>1. DOMAIN bulk = {} /\ \A c \in Chans : queued[c] = 0
    BY DEF Init
  <2>2. \A c \in Chans : {k \in DOMAIN bulk : bulk[k].id = c} = {}
    BY <2>1
  <2> QED BY <2>1, <2>2, FS_EmptySet DEF CountsAreExact
<1>3. CreditInv
  <2>1. Tooks(toServer) = <<>> /\ Slices(toClient) = <<>>
    BY PickedOfNone DEF Init, Tooks, Slices
  <2>2. Returned(toServer) = <<>> /\ OnWire(toClient) = <<>>
    <3>1. Returned(toServer) \in Seq(Nat) /\ OnWire(toClient) \in Seq(Nat)
      BY <1>1, ReturnedType, OnWireType DEF QueueInv, TypeOK, Message
    <3>2. DOMAIN Returned(toServer) = {} /\ DOMAIN OnWire(toClient) = {}
      BY <2>1 DEF Returned, Credits, OnWire, Sizes
    <3> QED BY <3>1, <3>2
  <2>3. Total(unconfirmed) = 0
    <3>1. unconfirmed = <<>> /\ <<>> \in Seq(Nat)
      BY DEF Init
    <3> QED BY <3>1, TotalType
  <2> QED BY <2>2, <2>3, CreditRestated DEF Init, CreditInv
<1> QED BY <1>1, <1>2, <1>3 DEF BooksInv

\* under every step,
LEMMA BooksInvStep == BooksInv /\ [Next]_vars => BooksInv'
BY QueueStep, CountsStep, CreditStep DEF BooksInv

\* and so in every state.
LEMMA BooksInvCorrect == Spec => []BooksInv
BY BooksInvInit, BooksInvStep, PTL DEF Spec

\* The books of the pump (session.ts 95-190) are exact: the head of the queue
\* is the payload in flight, bulkByChannel counts the queue, and every
\* unconfirmed byte is in a slice on the wire or a confirmation on its way
\* back.
THEOREM PumpBooks == Spec => []BooksAreExact
<1>1. BooksInv => BooksAreExact
  <2> SUFFICES ASSUME BooksInv PROVE BooksAreExact
    OBVIOUS
  <2>1. HeadInFlight
    <3> SUFFICES ASSUME pumping PROVE bulk # <<>> /\ Head(bulk).at < Len(Head(bulk).payload)
      BY DEF HeadInFlight
    <3>1. bulk # <<>> /\ bulk \in Seq(Entry) /\ \A k \in DOMAIN bulk : bulk[k].at < Len(bulk[k].payload)
      BY DEF BooksInv, QueueInv, PumpsTheHead, Unfinished, TypeOK
    <3>2. Head(bulk) = bulk[1] /\ 1 \in DOMAIN bulk
      BY <3>1
    <3> QED BY <3>1, <3>2
  <2> QED BY <2>1 DEF BooksInv, QueueInv, CreditInv, BooksAreExact
<1> QED BY <1>1, BooksInvCorrect, PTL

\* pump() leaves a queue alone only when the page has too much unconfirmed.
LEMMA PumpNotIdle ==
  ASSUME NEW q, NEW out, NEW n, Pump(q, out, n)
  PROVE  NeverIdle'
BY DEF Pump, OutOfCredit, NeverIdle

\* closeChannel() leaves the head, so a queue with entries had them before.
LEMMA CloseChannelNotIdle ==
  ASSUME QueueInv, NeverIdle, NEW c, CloseChannel(c)
  PROVE  NeverIdle'
<1>1. bulk' # <<>> => bulk # <<>>
  BY SplicedType DEF CloseChannel, QueueInv, TypeOK
<1> QED BY <1>1 DEF CloseChannel, NeverIdle

\* Whatever ends a wait calls the pump: a payload is queued, a write comes
\* back, credit is given back or the window grows.
THEOREM PumpNeverIdles == Spec => []NeverIdle
<1>1. Init => NeverIdle
  BY DEF Init, NeverIdle
<1>2. BooksInv /\ NeverIdle /\ [Next]_vars => NeverIdle'
  <2> SUFFICES ASSUME BooksInv, NeverIdle, [Next]_vars PROVE NeverIdle'
    OBVIOUS
  <2>0. QueueInv
    BY DEF BooksInv
  <2>1. ASSUME NEW c \in Chans, NEW len \in Lengths, SendBinary(c, len) PROVE NeverIdle'
    <3>1. \/ UNCHANGED <<bulk, pumping, inflight, window, credited>>
          \/ pumping /\ UNCHANGED pumping
          \/ \E q : Pump(q, unconfirmed, inflight)
      BY <2>1 DEF SendBinary
    <3> QED BY <3>1, PumpNotIdle DEF NeverIdle
  <2>2. CASE SocketTakes
    <3>1. \E q : Pump(q, unconfirmed, inflight)
      BY <2>2 DEF SocketTakes
    <3> QED BY <3>1, PumpNotIdle
  <2>3. CASE ServerReceives
    <3>1. ASSUME NEW n, Took(n) PROVE NeverIdle'
      <4>1. \/ pumping /\ UNCHANGED pumping
            \/ Pump(bulk, Tail(unconfirmed), Uncredited(n))
        BY <3>1 DEF Took, AfterTook
      <4> QED BY <4>1, PumpNotIdle DEF NeverIdle
    <3>2. CASE UNCHANGED serverVars
      BY <3>2 DEF serverVars, NeverIdle
    <3> QED BY <2>0, <2>3, <3>1, <3>2, CloseChannelNotIdle DEF ServerReceives
  <2>4. ASSUME NEW c \in Chans, ServiceCloses(c) PROVE NeverIdle'
    BY <2>0, <2>4, CloseChannelNotIdle DEF ServiceCloses
  <2>5. CASE UNCHANGED serverVars
    BY <2>5 DEF serverVars, NeverIdle
  <2>6. ASSUME NEW c \in Chans, CloseHandle(c) PROVE NeverIdle'
    BY <2>5, <2>6 DEF CloseHandle
  <2>7. CASE ClientReceives
    BY <2>5, <2>7 DEF ClientReceives
  <2>8. CASE UNCHANGED vars
    BY <2>5, <2>8 DEF vars
  <2> QED BY <2>1, <2>2, <2>3, <2>4, <2>6, <2>7, <2>8 DEF Next
<1> QED BY <1>1, <1>2, BooksInvCorrect, PTL DEF Spec

\* Two ways to say what is on the wire.
LEMMA OnTheWireIs == \A frames : OnTheWire(frames) = Total(OnWire(frames))
BY DEF OnTheWire, OnWire

\* A slice handed to the socket with credit to spare stays within the window.
LEMMA PumpWithinWindow ==
  ASSUME NEW q \in Seq(Entry), \A k \in DOMAIN q : q[k].at < Len(q[k].payload),
         NEW out, NEW n \in Nat, toClient \in Seq(Frame), window' \in Nat, window' <= WindowMax,
         Pump(q, out, n), OnTheWire(toClient) <= n,
         credited', OnTheWire(toClient') > OnTheWire(toClient)
  PROVE  OnTheWire(toClient') < WindowMax + HeaderBytes + SliceBytes
<1> DEFINE m == Slice(Head(q))
<1>1. q # <<>> /\ ~(n >= window') /\ toClient' = Append(toClient, m)
  <2>1. OnTheWire(toClient) \in Nat
    BY OnTheWireIs, OnWireType, TotalType
  <2>2. toClient' # toClient
    BY <2>1
  <2> QED BY <2>2 DEF Pump, OutOfCredit
<1>2. Head(q) \in Entry /\ Head(q).at < Len(Head(q).payload)
  <2>1. Head(q) = q[1] /\ 1 \in DOMAIN q
    BY <1>1
  <2> QED BY <2>1
<1>3. /\ m \in Frame /\ m.t = "slice" /\ SliceSize(m) \in Nat
      /\ SliceSize(m) <= HeaderBytes + SliceBytes
  BY <1>2, SliceType
<1> HIDE DEF m
<1>4. OnTheWire(toClient') = OnTheWire(toClient) + SliceSize(m) /\ OnTheWire(toClient) \in Nat
  <2>1. OnWire(toClient') = Append(OnWire(toClient), SliceSize(m)) /\ OnWire(toClient) \in Seq(Nat)
    BY <1>1, <1>3, OnWireAppend, OnWireType
  <2> QED BY <1>3, <2>1, TotalAppend, TotalType, OnTheWireIs
<1>5. {WindowMax, HeaderBytes, SliceBytes} \subseteq Nat
  BY SliceFlowAssumption
<1> QED BY <1>1, <1>3, <1>4, <1>5

\* What is on the wire is unconfirmed, so the window of unconfirmed bytes
\* bounds it.
LEMMA WireIsUnconfirmed ==
  ASSUME BooksInv, modern
  PROVE  OnTheWire(toClient) \in Nat /\ OnTheWire(toClient) <= inflight /\ inflight \in Nat
<1>1. unconfirmed = Returned(toServer) \o OnWire(toClient) /\ inflight = Total(unconfirmed)
  BY CreditRestated DEF BooksInv, CreditInv
<1>2. Returned(toServer) \in Seq(Nat) /\ OnWire(toClient) \in Seq(Nat)
  BY ReturnedType, OnWireType DEF BooksInv, QueueInv, TypeOK, Message
<1> QED BY <1>1, <1>2, TotalConcat, TotalType, OnTheWireIs

\* Once the page has confirmed anything, pump() adds a slice only while less
\* than a window is on the wire (session.ts 150-190), whatever the window has
\* been moved to.
THEOREM SlicesWithinWindow == Spec => OutAtMostAWindow
<1> DEFINE Within == credited' /\ OnTheWire(toClient') > OnTheWire(toClient)
                       => OnTheWire(toClient') < WindowMax + HeaderBytes + SliceBytes
<1>1. BooksInv /\ BooksInv' /\ [Next]_vars => Within
  <2> SUFFICES ASSUME BooksInv, BooksInv', [Next]_vars, credited',
                      OnTheWire(toClient') > OnTheWire(toClient)
               PROVE  OnTheWire(toClient') < WindowMax + HeaderBytes + SliceBytes
    OBVIOUS
  <2>0. /\ bulk \in Seq(Entry) /\ unconfirmed \in Seq(Nat) /\ toClient \in Seq(Frame)
        /\ toServer \in Seq(Message) /\ inflight \in Nat
        /\ \A k \in DOMAIN bulk : bulk[k].at < Len(bulk[k].payload)
    BY DEF BooksInv, QueueInv, TypeOK, Message, Unfinished
  <2>1. modern' = modern
    BY DEF Next, SendBinary, ServiceCloses, CloseChannel, CloseHandle, SocketTakes, ServerReceives, Took,
           ClientReceives, vars
  <2>2. modern
    BY <2>1 DEF BooksInv, CreditInv
  <2>3. OnTheWire(toClient) \in Nat /\ OnTheWire(toClient) <= inflight
    BY <2>2, WireIsUnconfirmed
  <2>4. toClient' # toClient
    BY <2>3
  <2>5. window' \in Nat /\ window' <= WindowMax
    <3>1. WindowMin \in Nat /\ WindowMax \in Nat
      BY SliceFlowAssumption
    <3>2. window' \in WindowMin..WindowMax
      BY DEF BooksInv, QueueInv, TypeOK
    <3> QED BY <3>1, <3>2
  <2>6. ASSUME NEW q, NEW out, Pump(q, out, inflight), bulk' = q
        PROVE  OnTheWire(toClient') < WindowMax + HeaderBytes + SliceBytes
    <3>1. q \in Seq(Entry) /\ \A k \in DOMAIN q : q[k].at < Len(q[k].payload)
      BY <2>6 DEF BooksInv, QueueInv, TypeOK, Unfinished
    <3> QED BY <2>0, <2>3, <2>5, <2>6, <3>1, PumpWithinWindow
  <2>7. ASSUME NEW m \in Frame, m.t # "slice", toClient' = Append(toClient, m) PROVE FALSE
    <3>1. OnWire(toClient') = OnWire(toClient)
      BY <2>0, <2>7, OnWireAppend
    <3> QED BY <2>3, <3>1, OnTheWireIs
  <2>8. ASSUME NEW c \in Chans, NEW len \in Lengths, SendBinary(c, len)
        PROVE  OnTheWire(toClient') < WindowMax + HeaderBytes + SliceBytes
    <3> DEFINE p == Payload(Len(sent[c]) + 1, len)
               m == [t |-> "data", id |-> c, last |-> TRUE, bytes |-> p]
    <3>1. p \in Payloads /\ p \in Seq(Nat \X Nat)
      <4>1. Len(sent[c]) + 1 \in 1..MaxSent
        BY <2>8, RoomToSend DEF BooksInv, QueueInv, TypeOK, SendBinary
      <4>2. p \in Payloads
        BY <4>1, PayloadType
      <4> HIDE DEF p
      <4> QED BY <4>2, PayloadType
    <3> HIDE DEF p
    <3>2. m \in Frame /\ m.t # "slice"
      BY <3>1 DEF Frame
    <3>3. \/ toClient' = Append(toClient, m)
          \/ \E q : Pump(q, unconfirmed, inflight)
      BY <2>4, <2>8 DEF SendBinary, p
    <3> HIDE DEF m
    <3> QED BY <2>6, <2>7, <3>2, <3>3 DEF Pump
  <2>9. CASE SocketTakes
    <3>1. \E q : Pump(q, unconfirmed, inflight)
      BY <2>9 DEF SocketTakes
    <3> QED BY <2>6, <3>1 DEF Pump
  <2>a. ASSUME NEW c \in Chans, CloseChannel(c) PROVE FALSE
    <3>1. [t |-> "close", id |-> c] \in Frame /\ [t |-> "close", id |-> c].t # "slice"
      BY DEF Frame
    <3> QED BY <2>7, <2>a, <3>1 DEF CloseChannel
  <2>b. CASE ServerReceives
    <3> DEFINE m == Head(toServer)
    <3>1. toServer # <<>> /\ m \in Message
      BY <2>0, <2>b DEF ServerReceives
    <3>2. CASE m.t = "took" /\ Took(m.n)
      <4>1. Pump(bulk, Tail(unconfirmed), Uncredited(m.n)) /\ UNCHANGED modern
        BY <2>4, <3>2 DEF Took, AfterTook
      <4>2. Uncredited(m.n) \in Nat /\ m.n \in Nat
        BY <2>0, <3>1, <3>2 DEF Uncredited, Message
      <4>3. OnTheWire(toClient) <= Uncredited(m.n)
        <5> DEFINE R == Returned(toServer)
                   W == OnWire(toClient)
                   n == m.n
        <5>1. /\ R # <<>> /\ Head(R) = n /\ R \in Seq(Nat) /\ W \in Seq(Nat)
          BY <2>0, <3>1, <3>2, ReturnedTail, ReturnedType, OnWireType
        <5>2. unconfirmed = R \o W /\ inflight = Total(unconfirmed)
          BY <2>2, CreditRestated DEF BooksInv, CreditInv
        <5>3. OnTheWire(toClient) = Total(W)
          BY OnTheWireIs
        <5> HIDE DEF R, W, n
        <5>4. Tail(R) \in Seq(Nat) /\ Total(R) = n + Total(Tail(R))
          BY <5>1, TotalTail
        <5>5. inflight = Total(R) + Total(W)
          BY <5>1, <5>2, TotalConcat
        <5>6. Total(Tail(R)) \in Nat /\ Total(W) \in Nat /\ Total(R) \in Nat /\ n \in Nat
          BY <4>2, <5>1, <5>4, TotalType DEF n
        <5>7. Uncredited(n) = Total(Tail(R)) + Total(W)
          BY <5>4, <5>5, <5>6 DEF Uncredited
        <5> QED BY <5>3, <5>6, <5>7 DEF n
      <4> QED BY <2>0, <2>5, <4>1, <4>2, <4>3, PumpWithinWindow
    <3>3. m.t = "close" => m.id \in Chans
      BY <3>1 DEF Message
    <3> QED BY <2>4, <2>a, <2>b, <3>2, <3>3 DEF ServerReceives
  <2>c. ASSUME NEW c \in Chans, ServiceCloses(c) \/ CloseHandle(c) PROVE FALSE
    BY <2>4, <2>a, <2>c DEF ServiceCloses, CloseHandle
  <2>d. CASE ClientReceives
    <3>1. toClient # <<>> /\ toClient' = Tail(toClient)
      BY <2>d DEF ClientReceives
    <3> DEFINE W == OnWire(toClient)
    <3>2. OnWire(toClient') = W \/ (W # <<>> /\ OnWire(toClient') = Tail(W))
      BY <2>0, <3>1, OnWireTail
    <3>3. W \in Seq(Nat) /\ OnTheWire(toClient) = Total(W) /\ OnTheWire(toClient') = Total(OnWire(toClient'))
      BY <2>0, OnWireType, OnTheWireIs
    <3> HIDE DEF W
    <3>4. OnWire(toClient') = W => FALSE
      BY <2>3, <3>3
    <3>5. W # <<>> /\ Tail(W) \in Seq(Nat) /\ Head(W) \in Nat
      BY <3>2, <3>3, <3>4
    <3>6. Total(W) = Head(W) + Total(Tail(W)) /\ Total(Tail(W)) \in Nat /\ Total(W) \in Nat
      BY <3>3, <3>5, TotalTail, TotalType
    <3>7. OnTheWire(toClient') = Total(Tail(W)) /\ OnTheWire(toClient) = Head(W) + Total(Tail(W))
      BY <3>2, <3>3, <3>4, <3>6
    <3>8. ~(Total(Tail(W)) > Head(W) + Total(Tail(W)))
      BY <3>5, <3>6
    <3>9. FALSE
      BY <3>7, <3>8
    <3> QED BY <3>9
  <2>e. CASE UNCHANGED vars
    BY <2>4, <2>e DEF vars
  <2> QED BY <2>8, <2>9, <2>b, <2>c, <2>d, <2>e DEF Next
<1>2. BooksInv /\ BooksInv' /\ [Next]_vars => [Within]_vars
  BY <1>1
<1> QED BY <1>2, BooksInvCorrect, PTL DEF Spec, OutAtMostAWindow

\* From a place in a channel's stream (a payload's number and how many of its
\* bytes have passed) a frame of the channel carries the bytes that follow,
\* and leaves the stream at the next place.
Carried(m, c, s, x, y) ==
  IF m.t # "close" /\ m.id = c
    THEN /\ x[1] \in DOMAIN s /\ x[2] + Len(m.bytes) <= Len(s[x[1]])
         /\ m.bytes = SubSeq(s[x[1]], x[2] + 1, x[2] + Len(m.bytes))
         /\ m.last <=> x[2] + Len(m.bytes) = Len(s[x[1]])
         /\ y = IF m.last THEN <<x[1] + 1, 0>> ELSE <<x[1], x[2] + Len(m.bytes)>>
    ELSE y = x

\* The first n frames carry the payloads s of c without a gap, f[k] being the
\* place in the stream after k of them.
Walk(f, frames, c, s, n) ==
  /\ n \in 0..Len(frames)
  /\ f \in [0..n -> Nat \X Nat]
  /\ \A k \in 1..n : Carried(frames[k], c, s, f[k - 1], f[k])

\* A frame added leaves the walk up to where it was.
LEMMA WalkKeeps ==
  ASSUME NEW f, NEW frames \in Seq(Frame), NEW c, NEW s, NEW n,
         Walk(f, frames, c, s, n), NEW m \in Frame
  PROVE  Walk(f, Append(frames, m), c, s, n)
<1>1. n \in 0..Len(Append(frames, m)) /\ n \in 0..Len(frames)
  BY DEF Walk
<1>2. \A k \in 1..n : Append(frames, m)[k] = frames[k]
  BY <1>1
<1> QED BY <1>1, <1>2 DEF Walk

\* A frame that follows on takes the walk one further.
LEMMA WalkOn ==
  ASSUME NEW f, NEW frames \in Seq(Frame), NEW c, NEW s,
         Walk(f, frames, c, s, Len(frames)), NEW m \in Frame, NEW y \in Nat \X Nat,
         Carried(m, c, s, f[Len(frames)], y)
  PROVE  \E h : /\ Walk(h, Append(frames, m), c, s, Len(frames) + 1)
                /\ h[0] = f[0] /\ h[Len(frames) + 1] = y
<1> DEFINE N == Len(frames)
           r == Append(frames, m)
           h == [k \in 0..(N + 1) |-> IF k = N + 1 THEN y ELSE f[k]]
<1>1. N \in Nat /\ Len(r) = N + 1 /\ r[N + 1] = m /\ \A k \in 1..N : r[k] = frames[k]
  OBVIOUS
<1>2. f \in [0..N -> Nat \X Nat] /\ \A k \in 1..N : Carried(frames[k], c, s, f[k - 1], f[k])
  BY DEF Walk
<1>x. Carried(m, c, s, f[N], y)
  OBVIOUS
<1> HIDE DEF r, N
<1>3. h \in [0..(N + 1) -> Nat \X Nat] /\ N + 1 \in 0..Len(r)
  BY <1>1, <1>2
<1>4. \A k \in 1..(N + 1) : Carried(r[k], c, s, h[k - 1], h[k])
  <2> TAKE k \in 1..(N + 1)
  <2>1. CASE k = N + 1
    <3>1. h[k - 1] = f[N] /\ h[k] = y /\ r[k] = m
      BY <1>1, <2>1
    <3> QED BY <3>1, <1>x
  <2>2. CASE k # N + 1
    <3>1. k \in 1..N /\ k - 1 \in 0..N /\ h[k - 1] = f[k - 1] /\ h[k] = f[k] /\ r[k] = frames[k]
      BY <1>1, <2>2
    <3> QED BY <3>1, <1>2
  <2> QED BY <2>1, <2>2
<1>5. h[0] = f[0] /\ h[N + 1] = y
  BY <1>1
<1> HIDE DEF h
<1>6. Walk(h, r, c, s, N + 1)
  BY <1>3, <1>4 DEF Walk
<1> QED BY <1>5, <1>6 DEF r, N

\* A frame taken from the front: it followed on from the first place, and the
\* walk starts at the second.
LEMMA WalkTail ==
  ASSUME NEW f, NEW frames \in Seq(Frame), frames # <<>>, NEW c, NEW s, NEW n,
         Walk(f, frames, c, s, n), n # 0
  PROVE  /\ n \in 1..Len(frames) /\ Carried(Head(frames), c, s, f[0], f[1])
         /\ \E h : /\ Walk(h, Tail(frames), c, s, n - 1)
                   /\ h[0] = f[1] /\ h[n - 1] = f[n]
<1> DEFINE r == Tail(frames)
           h == [k \in 0..(n - 1) |-> f[k + 1]]
<1>1. n \in 1..Len(frames) /\ Len(r) = Len(frames) - 1 /\ Len(frames) \in Nat
  BY DEF Walk
<1>2. \A k \in 1..(n - 1) : r[k] = frames[k + 1]
  BY <1>1
<1>3. f \in [0..n -> Nat \X Nat] /\ \A k \in 1..n : Carried(frames[k], c, s, f[k - 1], f[k])
  BY DEF Walk
<1>4. Carried(Head(frames), c, s, f[0], f[1])
  <2>1. 1 \in 1..n /\ 1 - 1 = 0 /\ Head(frames) = frames[1]
    BY <1>1
  <2> QED BY <1>3, <2>1
<1> HIDE DEF r
<1>5. h \in [0..(n - 1) -> Nat \X Nat] /\ n - 1 \in 0..Len(r)
  BY <1>1, <1>3
<1>6. \A k \in 1..(n - 1) : Carried(r[k], c, s, h[k - 1], h[k])
  <2> TAKE k \in 1..(n - 1)
  <2>1. /\ k + 1 \in 1..n /\ k - 1 \in 0..(n - 1) /\ k \in 0..(n - 1) /\ (k + 1) - 1 = k /\ (k - 1) + 1 = k
    BY <1>1
  <2>2. Carried(frames[k + 1], c, s, f[k], f[k + 1])
    BY <1>3, <2>1
  <2>3. h[k - 1] = f[k] /\ h[k] = f[k + 1] /\ r[k] = frames[k + 1]
    BY <1>2, <2>1
  <2> QED BY <2>2, <2>3
<1>7. h[0] = f[1] /\ h[n - 1] = f[n]
  BY <1>1
<1> HIDE DEF h
<1>8. Walk(h, r, c, s, n - 1)
  BY <1>5, <1>6 DEF Walk
<1> QED BY <1>1, <1>4, <1>7, <1>8 DEF r

\* A payload sent later leaves the walk as it was.
LEMMA WalkLonger ==
  ASSUME NEW f, NEW frames \in Seq(Frame), NEW c, NEW s \in Seq(Payloads), NEW p \in Payloads, NEW n,
         Walk(f, frames, c, s, n)
  PROVE  Walk(f, frames, c, Append(s, p), n)
<1> DEFINE t == Append(s, p)
<1>1. \A i \in DOMAIN s : i \in DOMAIN t /\ t[i] = s[i]
  OBVIOUS
<1> HIDE DEF t
<1>2. \A k \in 1..n : Carried(frames[k], c, t, f[k - 1], f[k])
  BY <1>1 DEF Walk, Carried
<1>3. Walk(f, frames, c, t, n)
  BY <1>2 DEF Walk
<1> QED BY <1>3 DEF t

-----------------------------------------------------------------------------
\* The entries of c in the queue q are its payloads from the n-th on, each
\* once and in order: g numbers them.
Numbered(g, q, c, s, n) ==
  /\ n \in 1..(Len(s) + 1)
  /\ \A k \in 1..Len(q) : q[k].id = c => g[k] \in n..Len(s) /\ q[k].payload = s[g[k]]
  /\ \A j, k \in 1..Len(q) : j < k /\ q[j].id = c /\ q[k].id = c => g[j] < g[k]
  /\ \A i \in n..Len(s) : \E k \in 1..Len(q) : q[k].id = c /\ g[k] = i

\* A channel without an entry has nothing left to queue.
LEMMA NumberedNone ==
  ASSUME NEW g, NEW q \in Seq(Entry), NEW c, NEW s \in Seq(Payloads), NEW n,
         Numbered(g, q, c, s, n), \A k \in 1..Len(q) : q[k].id # c
  PROVE  n = Len(s) + 1
<1>1. n \in 1..(Len(s) + 1) /\ Len(s) \in Nat
  BY DEF Numbered
<1>2. ASSUME n <= Len(s) PROVE FALSE
  <2>1. n \in n..Len(s)
    BY <1>1, <1>2
  <2> QED BY <2>1 DEF Numbered
<1> QED BY <1>1, <1>2

\* An entry's payload is the n-th.
Bears(e, s, n) == e.payload = s[n]

\* A head of the channel is the payload that is due.
LEMMA NumberedHead ==
  ASSUME NEW g, NEW q \in Seq(Entry), NEW c, NEW s \in Seq(Payloads), NEW n,
         Numbered(g, q, c, s, n), q # <<>>, Head(q).id = c
  PROVE  g[1] = n /\ n \in 1..Len(s) /\ Bears(Head(q), s, n)
<1>1. 1 \in 1..Len(q) /\ Head(q) = q[1] /\ Len(q) \in Nat
  OBVIOUS
<1>2. g[1] \in n..Len(s) /\ Head(q).payload = s[g[1]] /\ n \in 1..(Len(s) + 1) /\ Len(s) \in Nat
  BY <1>1 DEF Numbered
<1>3. PICK k \in 1..Len(q) : q[k].id = c /\ g[k] = n
  BY <1>2 DEF Numbered
<1>4. k = 1 \/ g[1] < g[k]
  BY <1>1, <1>3 DEF Numbered
<1> QED BY <1>2, <1>3, <1>4 DEF Bears

\* The head is dequeued: the next payload is due if it was the channel's.
LEMMA NumberedTail ==
  ASSUME NEW g, NEW q \in Seq(Entry), NEW c, NEW s \in Seq(Payloads), NEW n,
         Numbered(g, q, c, s, n), q # <<>>
  PROVE  \E h : Numbered(h, Tail(q), c, s, IF Head(q).id = c THEN n + 1 ELSE n)
<1> DEFINE r == Tail(q)
           N == Len(r)
           h == [k \in 1..N |-> g[k + 1]]
           o == IF Head(q).id = c THEN n + 1 ELSE n
<1>1. /\ N \in Nat /\ Len(q) = N + 1 /\ Head(q) = q[1] /\ Len(s) \in Nat
      /\ \A k \in 1..N : r[k] = q[k + 1] /\ k + 1 \in 1..Len(q) /\ h[k] = g[k + 1]
      /\ n \in 1..(Len(s) + 1)
  BY DEF Numbered
<1>2. Head(q).id = c => g[1] = n /\ n \in 1..Len(s)
  <2> SUFFICES ASSUME Head(q).id = c PROVE g[1] = n /\ n \in 1..Len(s)
    OBVIOUS
  <2> HIDE DEF r, N, h, o
  <2> QED BY NumberedHead, SMTT(30)
<1>3. /\ \A k \in 1..Len(q) : q[k].id = c => g[k] \in n..Len(s) /\ q[k].payload = s[g[k]]
      /\ \A j, k \in 1..Len(q) : j < k /\ q[j].id = c /\ q[k].id = c => g[j] < g[k]
      /\ \A i \in n..Len(s) : \E k \in 1..Len(q) : q[k].id = c /\ g[k] = i
  BY DEF Numbered
<1> HIDE DEF r, N, h
<1>4. o \in 1..(Len(s) + 1)
  BY <1>1, <1>2
<1>5. \A k \in 1..N : r[k].id = c => h[k] \in o..Len(s) /\ r[k].payload = s[h[k]]
  <2> SUFFICES ASSUME NEW k \in 1..N, r[k].id = c
               PROVE  h[k] \in o..Len(s) /\ r[k].payload = s[h[k]]
    OBVIOUS
  <2>1. k + 1 \in 1..Len(q) /\ q[k + 1].id = c /\ q[k + 1] = r[k] /\ h[k] = g[k + 1]
    BY <1>1
  <2>2. g[k + 1] \in n..Len(s) /\ r[k].payload = s[h[k]]
    BY <1>3, <2>1
  <2>3. Head(q).id = c => g[1] < g[k + 1]
    <3>1. 1 \in 1..Len(q) /\ 1 < k + 1
      BY <1>1
    <3> QED BY <1>1, <1>3, <2>1, <3>1
  <2> QED BY <1>1, <1>2, <2>1, <2>2, <2>3
<1>6. \A j, k \in 1..N : j < k /\ r[j].id = c /\ r[k].id = c => h[j] < h[k]
  <2> SUFFICES ASSUME NEW j \in 1..N, NEW k \in 1..N, j < k, r[j].id = c, r[k].id = c
               PROVE  h[j] < h[k]
    OBVIOUS
  <2>1. j + 1 \in 1..Len(q) /\ k + 1 \in 1..Len(q) /\ j + 1 < k + 1 /\ q[j + 1].id = c /\ q[k + 1].id = c
    BY <1>1
  <2> QED BY <1>1, <1>3, <2>1
<1>7. \A i \in o..Len(s) : \E k \in 1..N : r[k].id = c /\ h[k] = i
  <2> SUFFICES ASSUME NEW i \in o..Len(s) PROVE \E k \in 1..N : r[k].id = c /\ h[k] = i
    OBVIOUS
  <2>1. i \in n..Len(s)
    BY <1>1
  <2>2. PICK k \in 1..Len(q) : q[k].id = c /\ g[k] = i
    BY <1>3, <2>1
  <2>3. k # 1
    BY <1>1, <1>2, <2>2
  <2>4. k - 1 \in 1..N /\ (k - 1) + 1 = k
    BY <1>1, <2>3
  <2>5. r[k - 1].id = c /\ h[k - 1] = i
    BY <1>1, <2>2, <2>4
  <2> QED BY <2>4, <2>5
<1>8. Numbered(h, r, c, s, o)
  BY <1>4, <1>5, <1>6, <1>7 DEF Numbered, N
<1> QED BY <1>8 DEF r

\* An entry of another channel is queued.
LEMMA NumberedAppendOther ==
  ASSUME NEW g, NEW q \in Seq(Entry), NEW c, NEW s, NEW n,
         Numbered(g, q, c, s, n), NEW e \in Entry, e.id # c
  PROVE  Numbered(g, Append(q, e), c, s, n)
<1> DEFINE r == Append(q, e)
           N == Len(q)
<1>1. N \in Nat /\ Len(r) = N + 1 /\ r[N + 1] = e /\ \A k \in 1..N : r[k] = q[k] /\ k \in 1..(N + 1)
  OBVIOUS
<1>2. /\ \A k \in 1..N : q[k].id = c => g[k] \in n..Len(s) /\ q[k].payload = s[g[k]]
      /\ \A j, k \in 1..N : j < k /\ q[j].id = c /\ q[k].id = c => g[j] < g[k]
      /\ \A i \in n..Len(s) : \E k \in 1..N : q[k].id = c /\ g[k] = i
      /\ n \in 1..(Len(s) + 1)
  BY DEF Numbered
<1> HIDE DEF r, N
<1>3. \A k \in 1..(N + 1) : r[k].id = c => k \in 1..N /\ q[k].id = c /\ r[k] = q[k]
  BY <1>1
<1>4. \A k \in 1..(N + 1) : r[k].id = c => g[k] \in n..Len(s) /\ r[k].payload = s[g[k]]
  BY <1>2, <1>3
<1>5. \A j, k \in 1..(N + 1) : j < k /\ r[j].id = c /\ r[k].id = c => g[j] < g[k]
  BY <1>2, <1>3
<1>6. \A i \in n..Len(s) : \E k \in 1..(N + 1) : r[k].id = c /\ g[k] = i
  BY <1>1, <1>2
<1>7. Numbered(g, r, c, s, n)
  BY <1>1, <1>2, <1>4, <1>5, <1>6 DEF Numbered
<1> QED BY <1>7 DEF r

\* The channel's own next payload is queued.
LEMMA NumberedAppend ==
  ASSUME NEW g, NEW q \in Seq(Entry), NEW c, NEW s \in Seq(Payloads), NEW n,
         Numbered(g, q, c, s, n), NEW e \in Entry, e.id = c
  PROVE  \E h : Numbered(h, Append(q, e), c, Append(s, e.payload), n)
<1> DEFINE r == Append(q, e)
           t == Append(s, e.payload)
           N == Len(q)
           h == [k \in 1..(N + 1) |-> IF k = N + 1 THEN Len(s) + 1 ELSE g[k]]
<1>1. /\ N \in Nat /\ Len(r) = N + 1 /\ r[N + 1] = e /\ \A k \in 1..N : r[k] = q[k]
      /\ Len(s) \in Nat
  OBVIOUS
<1>a. Len(t) = Len(s) + 1 /\ t[Len(s) + 1] = e.payload /\ \A i \in 1..Len(s) : t[i] = s[i]
  BY DEF Entry
<1>2. /\ \A k \in 1..N : q[k].id = c => g[k] \in n..Len(s) /\ q[k].payload = s[g[k]]
      /\ \A j, k \in 1..N : j < k /\ q[j].id = c /\ q[k].id = c => g[j] < g[k]
      /\ \A i \in n..Len(s) : \E k \in 1..N : q[k].id = c /\ g[k] = i
      /\ n \in 1..(Len(s) + 1)
  BY DEF Numbered
<1>b. h[N + 1] = Len(s) + 1 /\ \A k \in 1..N : h[k] = g[k]
  BY <1>1
<1> HIDE DEF r, N, t, h
<1>4. \A k \in 1..(N + 1) : r[k].id = c => h[k] \in n..Len(t) /\ r[k].payload = t[h[k]]
  <2> SUFFICES ASSUME NEW k \in 1..(N + 1), r[k].id = c
               PROVE  h[k] \in n..Len(t) /\ r[k].payload = t[h[k]]
    OBVIOUS
  <2>1. CASE k = N + 1
    <3>1. h[k] = Len(s) + 1 /\ r[k] = e
      BY <1>1, <1>b, <2>1
    <3> QED BY <1>1, <1>a, <1>2, <3>1
  <2>2. CASE k # N + 1
    <3>1. k \in 1..N /\ r[k] = q[k] /\ h[k] = g[k]
      BY <1>1, <1>b, <2>2
    <3>2. g[k] \in n..Len(s) /\ q[k].payload = s[g[k]]
      BY <1>2, <3>1
    <3>3. g[k] \in 1..Len(s)
      BY <1>1, <1>2, <3>2
    <3> QED BY <1>1, <1>a, <1>2, <3>1, <3>2, <3>3
  <2> QED BY <2>1, <2>2
<1>5. \A j, k \in 1..(N + 1) : j < k /\ r[j].id = c /\ r[k].id = c => h[j] < h[k]
  <2> SUFFICES ASSUME NEW j \in 1..(N + 1), NEW k \in 1..(N + 1), j < k, r[j].id = c, r[k].id = c
               PROVE  h[j] < h[k]
    OBVIOUS
  <2>1. j \in 1..N /\ r[j] = q[j] /\ h[j] = g[j] /\ g[j] \in n..Len(s)
    BY <1>1, <1>2, <1>b
  <2>2. CASE k = N + 1
    BY <1>1, <1>2, <1>b, <2>1, <2>2
  <2>3. CASE k # N + 1
    <3>1. k \in 1..N /\ r[k] = q[k] /\ h[k] = g[k]
      BY <1>1, <1>b, <2>3
    <3> QED BY <1>2, <2>1, <3>1
  <2> QED BY <2>2, <2>3
<1>6. \A i \in n..Len(t) : \E k \in 1..(N + 1) : r[k].id = c /\ h[k] = i
  <2> SUFFICES ASSUME NEW i \in n..Len(t) PROVE \E k \in 1..(N + 1) : r[k].id = c /\ h[k] = i
    OBVIOUS
  <2>1. CASE i = Len(s) + 1
    <3>1. N + 1 \in 1..(N + 1) /\ r[N + 1].id = c /\ h[N + 1] = i
      BY <1>1, <1>b, <2>1
    <3> QED BY <3>1
  <2>2. CASE i # Len(s) + 1
    <3>1. i \in n..Len(s)
      BY <1>1, <1>a, <1>2, <2>2
    <3>2. PICK k \in 1..N : q[k].id = c /\ g[k] = i
      BY <1>2, <3>1
    <3>3. k \in 1..(N + 1) /\ r[k].id = c /\ h[k] = i
      BY <1>1, <1>b, <3>2
    <3> QED BY <3>3
  <2> QED BY <2>1, <2>2
<1>7. n \in 1..(Len(t) + 1)
  BY <1>1, <1>a, <1>2
<1>8. Numbered(h, r, c, t, n)
  BY <1>1, <1>4, <1>5, <1>6, <1>7 DEF Numbered
<1> QED BY <1>8 DEF r, t

\* Only how far an entry has gone changes.
LEMMA NumberedAdvanced ==
  ASSUME NEW g, NEW q \in Seq(Entry), NEW c, NEW s, NEW n,
         Numbered(g, q, c, s, n), NEW r, Len(r) = Len(q),
         \A k \in 1..Len(q) : r[k].id = q[k].id /\ r[k].payload = q[k].payload
  PROVE  Numbered(g, r, c, s, n)
BY DEF Numbered

\* Another channel's entries are spliced out.
LEMMA NumberedSpliced ==
  ASSUME bulk \in Seq(Entry), NEW c, NEW d, c # d, NEW s, NEW g, NEW n,
         Numbered(g, bulk, d, s, n)
  PROVE  \E h : Numbered(h, Spliced(c), d, s, n)
<1> DEFINE K == {k \in DOMAIN bulk : k = 1 \/ bulk[k].id # c}
           P == Spliced(c)
<1>1. P = Picked(bulk, K)
  BY DEF Spliced
<1>2. P \in Seq(Entry)
  <2> HIDE DEF K
  <2> QED BY <1>1, PickedType
<1>3. PICK f : Selects(f, P, bulk, K, Len(bulk))
  <2> HIDE DEF K, P
  <2> QED BY <1>1, PickedSelects
<1>4. \A k \in 1..Len(bulk) : bulk[k].id = d => k \in K
  OBVIOUS
<1> DEFINE h == [i \in 1..Len(P) |-> g[f[i]]]
<1> HIDE DEF K, P
<1>5. /\ \A i \in 1..Len(P) : P[i] = bulk[f[i]] /\ f[i] \in 1..Len(bulk) /\ h[i] = g[f[i]]
      /\ \A i, j \in 1..Len(P) : i < j => f[i] < f[j]
      /\ \A k \in 1..Len(bulk) : k \in K => \E i \in 1..Len(P) : f[i] = k
  BY <1>3 DEF Selects
<1> HIDE DEF h
<1>6. \A i \in 1..Len(P) : P[i].id = d => h[i] \in n..Len(s) /\ P[i].payload = s[h[i]]
  <2> TAKE i \in 1..Len(P)
  <2>1. P[i] = bulk[f[i]] /\ f[i] \in 1..Len(bulk) /\ h[i] = g[f[i]]
    BY <1>5
  <2>2. bulk[f[i]].id = d => g[f[i]] \in n..Len(s) /\ bulk[f[i]].payload = s[g[f[i]]]
    BY <2>1 DEF Numbered
  <2> QED BY <2>1, <2>2
<1>7. \A i, j \in 1..Len(P) : i < j /\ P[i].id = d /\ P[j].id = d => h[i] < h[j]
  <2> SUFFICES ASSUME NEW i \in 1..Len(P), NEW j \in 1..Len(P), i < j, P[i].id = d, P[j].id = d
               PROVE  h[i] < h[j]
    OBVIOUS
  <2>1. f[i] \in 1..Len(bulk) /\ f[j] \in 1..Len(bulk) /\ f[i] < f[j] /\ bulk[f[i]].id = d /\ bulk[f[j]].id = d
    BY <1>5
  <2>2. g[f[i]] < g[f[j]]
    BY <2>1 DEF Numbered
  <2> QED BY <1>5, <2>2
<1>8. \A x \in n..Len(s) : \E i \in 1..Len(P) : P[i].id = d /\ h[i] = x
  <2> TAKE x \in n..Len(s)
  <2>1. PICK k \in 1..Len(bulk) : bulk[k].id = d /\ g[k] = x
    BY DEF Numbered
  <2>2. PICK i \in 1..Len(P) : f[i] = k
    BY <1>4, <1>5, <2>1
  <2>3. P[i].id = d /\ h[i] = x
    BY <1>5, <2>1, <2>2
  <2> QED BY <2>3
<1>9. Numbered(h, P, d, s, n)
  BY <1>6, <1>7, <1>8 DEF Numbered
<1> QED BY <1>9 DEF P

\* Where a channel's stream stands after what the server has handed over: at
\* the n-th payload, or inside it if that is the head of the queue and some of
\* it has gone, or if its next slice is the one in flight.
Where(q, c, n) == IF q # <<>> /\ Head(q).id = c THEN <<n, Head(q).at>> ELSE <<n, 0>>
\* Where the stream stands once the next slice of the head has passed.
After(head, n) == IF LastSlice(head) THEN <<n + 1, 0>> ELSE <<n, End(head)>>
\* Where the stream stands once everything handed over has arrived.
Place(q, busy, c, n) ==
  IF busy /\ q # <<>> /\ Head(q).id = c THEN After(Head(q), n) ELSE Where(q, c, n)

\* Only the head of the queue has been started on.
OnlyHeadStarted == \A k \in DOMAIN bulk : k # 1 => bulk[k].at = 0

\* Where the page is: so many payloads delivered, so many bytes of the next
\* held.
Start(c) == <<Len(delivered[c]) + 1, Len(held[c])>>

\* What the page holds is the beginning of the payload it has not had yet.
InStep(c) ==
  /\ held[c] = SubSeq(sent[c][Len(delivered[c]) + 1], 1, Len(held[c]))
  /\ held[c] # <<>> => Len(delivered[c]) < Len(sent[c])

\* The page's place, the frames under way and the queue are one stream.
Streams(c) ==
  \E f, g, n : /\ Walk(f, toClient, c, sent[c], Len(toClient)) /\ f[0] = Start(c)
               /\ Numbered(g, bulk, c, sent[c], n)
               /\ f[Len(toClient)] = Place(bulk, pumping, c, n)

\* The stream is sound up to the frame that ends it.
Ends(c) ==
  \E f, n : /\ Walk(f, toClient, c, sent[c], n) /\ n # 0 /\ f[0] = Start(c)
            /\ toClient[n].t = "close" /\ toClient[n].id = c

\* Every channel the page still has is one stream, open or ended. A channel
\* it let go may hold stray bytes (HeldForOpenChannels), so nothing is said
\* of it.
StreamInv ==
  /\ OnlyHeadStarted
  /\ \A c \in handles : InStep(c) /\ (c \in channels => Streams(c)) /\ (c \notin channels => Ends(c))

\* encodeSlice() carries the bytes that follow.
LEMMA SliceCarried ==
  ASSUME NEW e \in Entry, e.at < Len(e.payload), NEW s \in Seq(Payloads), NEW n \in 1..Len(s),
         e.payload = s[n]
  PROVE  Carried(Slice(e), e.id, s, <<n, e.at>>, After(e, n)) /\ After(e, n) \in Nat \X Nat
<1> DEFINE p == e.payload
           b == SubSeq(p, e.at + 1, End(e))
<1>1. /\ End(e) \in Nat /\ e.at < End(e) /\ End(e) <= Len(p)
      /\ e.at \in Nat /\ Len(p) \in Nat /\ p \in Seq(Nat \X Nat)
      /\ ~LastSlice(e) => End(e) < Len(p)
      /\ LastSlice(e) => End(e) = Len(p)
  BY EndType
<1>2. Len(b) = End(e) - e.at
  BY SliceType DEF Slice
<1>3. /\ Slice(e).t = "slice" /\ Slice(e).id = e.id /\ Slice(e).last = LastSlice(e)
      /\ Slice(e).bytes = b
  BY DEF Slice
<1>4. e.at + Len(b) = End(e)
  BY <1>1, <1>2
<1> HIDE DEF b
<1>5. b = SubSeq(s[n], e.at + 1, e.at + Len(b))
  BY <1>4 DEF b
<1>6. After(e, n) \in Nat \X Nat
  <2>1. n \in Nat /\ n + 1 \in Nat /\ End(e) \in Nat
    BY <1>1
  <2>2. <<n + 1, 0>> \in Nat \X Nat /\ <<n, End(e)>> \in Nat \X Nat
    BY <2>1
  <2> QED BY <2>2 DEF After
<1> DEFINE x == <<n, e.at>>
           m == Slice(e)
<1>7. x[1] = n /\ x[2] = e.at /\ n \in DOMAIN s /\ p = s[n]
  OBVIOUS
<1> HIDE DEF x, m, p
<1>8. m.last <=> x[2] + Len(m.bytes) = Len(s[x[1]])
  BY <1>1, <1>3, <1>4, <1>7 DEF m
<1>9. After(e, n) = IF m.last THEN <<x[1] + 1, 0>> ELSE <<x[1], x[2] + Len(m.bytes)>>
  BY <1>3, <1>4, <1>7 DEF After, m
<1>a. Carried(m, e.id, s, x, After(e, n))
  BY <1>1, <1>3, <1>4, <1>5, <1>7, <1>8, <1>9 DEF Carried, m
<1> QED BY <1>6, <1>a DEF x, m

\* pump() takes every stream on from where it rests.
LEMMA PumpStreams ==
  ASSUME NEW q \in Seq(Entry), \A k \in DOMAIN q : q[k].at < Len(q[k].payload),
         NEW out, NEW k, toClient \in Seq(Frame), Pump(q, out, k),
         NEW c, NEW s \in Seq(Payloads), NEW f, NEW g, NEW n,
         Walk(f, toClient, c, s, Len(toClient)), Numbered(g, q, c, s, n),
         f[Len(toClient)] = Where(q, c, n)
  PROVE  /\ Numbered(g, bulk', c, s, n)
         /\ \E h : /\ Walk(h, toClient', c, s, Len(toClient')) /\ h[0] = f[0]
                   /\ h[Len(toClient')] = Place(bulk', pumping', c, n)
<1>1. bulk' = q /\ Numbered(g, bulk', c, s, n)
  BY DEF Pump
<1>0. ASSUME q # <<>>, Head(q).id = c
      PROVE  n \in 1..Len(s) /\ Head(q).payload = s[n]
  <2>1. q \in Seq(Entry) /\ s \in Seq(Payloads) /\ Numbered(g, q, c, s, n)
    OBVIOUS
  <2>2. n \in 1..Len(s) /\ Bears(Head(q), s, n)
    BY <2>1, <1>0, NumberedHead
  <2> QED BY <2>2 DEF Bears
<1>2. CASE pumping' = FALSE /\ UNCHANGED toClient
  <2>1. Place(bulk', pumping', c, n) = Where(q, c, n)
    BY <1>1, <1>2 DEF Place
  <2> QED BY <1>1, <1>2, <2>1
<1>3. CASE q # <<>> /\ pumping' = TRUE /\ toClient' = Append(toClient, Slice(Head(q)))
  <2> DEFINE e == Head(q)
             m == Slice(e)
             N == Len(toClient)
             y == Place(q, TRUE, c, n)
  <2>1. e \in Entry /\ e.at < Len(e.payload)
    <3>1. Head(q) = q[1] /\ 1 \in DOMAIN q
      BY <1>3
    <3> QED BY <3>1
  <2>2. m \in Frame /\ m.t = "slice" /\ m.id = e.id
    BY <2>1, SliceType DEF Slice
  <2>3. Carried(m, c, s, f[N], y) /\ y \in Nat \X Nat
    <3>1. CASE e.id = c
      <4>1. n \in 1..Len(s) /\ e.payload = s[n]
        BY <1>0, <1>3, <3>1
      <4>2. f[N] = <<n, e.at>> /\ y = After(e, n)
        BY <1>3, <3>1 DEF Where, Place
      <4>3. Carried(m, e.id, s, <<n, e.at>>, After(e, n)) /\ After(e, n) \in Nat \X Nat
        <5> HIDE DEF e
        <5> QED BY <2>1, <4>1, SliceCarried
      <4> HIDE DEF e, m, y, N
      <4> QED BY <3>1, <4>2, <4>3
    <3>2. CASE e.id # c
      <4>1. f[N] = y /\ y = <<n, 0>>
        BY <3>2 DEF Where, Place
      <4>2. n \in Nat
        BY DEF Numbered
      <4>3. y \in Nat \X Nat
        <5>1. <<n, 0>> \in Nat \X Nat
          BY <4>2
        <5> HIDE DEF y
        <5> QED BY <4>1, <5>1
      <4> HIDE DEF e, m, y, N
      <4> QED BY <2>2, <3>2, <4>1, <4>3 DEF Carried
    <3> QED BY <3>1, <3>2
  <2>4. toClient' = Append(toClient, m) /\ Len(toClient') = N + 1
    BY <1>3, <2>2
  <2>5. Place(bulk', pumping', c, n) = y
    BY <1>1, <1>3
  <2> HIDE DEF m, y
  <2>6. PICK h : Walk(h, Append(toClient, m), c, s, N + 1) /\ h[0] = f[0] /\ h[N + 1] = y
    BY <2>2, <2>3, WalkOn
  <2> QED BY <1>1, <2>4, <2>5, <2>6
<1> QED BY <1>2, <1>3 DEF Pump

\* Frames that are added and queues that change leave a stream that has ended.
LEMMA EndsKept ==
  ASSUME NEW c, Ends(c), sent'[c] = sent[c], delivered'[c] = delivered[c], held'[c] = held[c],
         toClient \in Seq(Frame), NEW m \in Frame,
         toClient' = toClient \/ toClient' = Append(toClient, m)
  PROVE  Ends(c)'
<1>1. PICK f, n : /\ Walk(f, toClient, c, sent[c], n) /\ n # 0 /\ f[0] = Start(c)
                  /\ toClient[n].t = "close" /\ toClient[n].id = c
  BY DEF Ends
<1>2. Walk(f, toClient', c, sent[c], n)
  BY <1>1, WalkKeeps
<1>3. toClient'[n] = toClient[n]
  <2>1. n \in 1..Len(toClient)
    BY <1>1 DEF Walk
  <2> QED BY <2>1
<1> QED BY <1>1, <1>2, <1>3 DEF Ends, Start

\* The same for a stream that goes on, when the frame added is not its own and
\* its part of the queue stays.
LEMMA StreamsKept ==
  ASSUME NEW c, NEW f, NEW g, NEW n,
         /\ Walk(f, toClient, c, sent[c], Len(toClient)) /\ f[0] = Start(c)
         /\ f[Len(toClient)] = Place(bulk', pumping', c, n),
         Numbered(g, bulk', c, sent[c], n),
         sent'[c] = sent[c], delivered'[c] = delivered[c], held'[c] = held[c],
         toClient \in Seq(Frame), NEW m \in Frame, m.t = "close" \/ m.id # c,
         toClient' = toClient \/ toClient' = Append(toClient, m)
  PROVE  Streams(c)'
<1>1. CASE toClient' = toClient
  BY <1>1 DEF Streams, Start
<1>2. CASE toClient' = Append(toClient, m)
  <2> DEFINE N == Len(toClient)
             y == f[N]
  <2>1. y \in Nat \X Nat /\ Carried(m, c, sent[c], y, y)
    <3>1. N \in 0..N
      OBVIOUS
    <3>2. y \in Nat \X Nat
      BY <3>1 DEF Walk
    <3> HIDE DEF y
    <3> QED BY <3>2 DEF Carried
  <2>2. PICK h : Walk(h, toClient', c, sent[c], N + 1) /\ h[0] = f[0] /\ h[N + 1] = y
    <3> DEFINE s == sent[c]
    <3>1. Walk(f, toClient, c, s, N) /\ Carried(m, c, s, f[N], y)
      BY <2>1
    <3> HIDE DEF y, s
    <3>2. \E h : Walk(h, Append(toClient, m), c, s, N + 1) /\ h[0] = f[0] /\ h[N + 1] = y
      BY <2>1, <3>1, WalkOn
    <3> QED BY <1>2, <3>2 DEF s
  <2>3. Len(toClient') = N + 1
    BY <1>2
  <2>4. Walk(h, toClient', c, sent'[c], Len(toClient')) /\ h[0] = Start(c)'
    BY <2>2, <2>3 DEF Start
  <2>5. h[Len(toClient')] = Place(bulk', pumping', c, n) /\ Numbered(g, bulk', c, sent'[c], n)
    BY <2>2, <2>3
  <2> QED BY <2>4, <2>5 DEF Streams
<1> QED BY <1>1, <1>2

\* What the streams rely on of the books.
LEMMA BooksFacts ==
  ASSUME BooksInv
  PROVE  /\ bulk \in Seq(Entry) /\ (\A k \in DOMAIN bulk : bulk[k].at < Len(bulk[k].payload))
         /\ (pumping => bulk # <<>>)
         /\ toClient \in Seq(Frame) /\ toServer \in Seq(Message) /\ channels \subseteq Chans /\ handles \subseteq Chans
         /\ sent \in [Chans -> Seq(Payloads)] /\ held \in [Chans -> Seq(Nat \X Nat)]
         /\ delivered \in [Chans -> Seq(Seq(Nat \X Nat))]
         /\ \A c \in Chans : queued[c] = Count(bulk, c)
BY DEF BooksInv, QueueInv, TypeOK, Unfinished, PumpsTheHead, Message, CountsAreExact, Count, Places

\* A `close` from the page names a channel.
LEMMA ChannelOfMessage ==
  ASSUME BooksInv, toServer # <<>>, Head(toServer).t = "close"
  PROVE  Head(toServer).id \in Chans
<1>1. Head(toServer) \in Message
  BY BooksFacts
<1> QED BY <1>1 DEF Message

\* closeChannel() keeps the head and pump() advances nothing else, so no
\* entry behind the head has ever been started on.
LEMMA HeadStartedStep ==
  ASSUME BooksInv, OnlyHeadStarted, [Next]_vars
  PROVE  OnlyHeadStarted'
<1>0. bulk \in Seq(Entry)
  BY BooksFacts
<1>1. CASE bulk' = bulk
  BY <1>1 DEF OnlyHeadStarted
<1>2. ASSUME NEW e, e.at = 0, bulk' = Append(bulk, e) PROVE OnlyHeadStarted'
  <2>1. \A k \in 1..(Len(bulk) + 1) : bulk'[k] = IF k = Len(bulk) + 1 THEN e ELSE bulk[k]
    BY <1>0, <1>2
  <2>2. DOMAIN bulk' = 1..(Len(bulk) + 1)
    BY <1>0, <1>2
  <2> QED BY <1>0, <1>2, <2>1, <2>2 DEF OnlyHeadStarted
<1>3. CASE bulk # <<>> /\ bulk' = Tail(bulk)
  <2>1. \A k \in DOMAIN bulk' : bulk'[k] = bulk[k + 1] /\ k + 1 \in DOMAIN bulk /\ k + 1 # 1
    BY <1>0, <1>3
  <2> QED BY <2>1 DEF OnlyHeadStarted
<1>4. CASE \E n : bulk' = [bulk EXCEPT ![1].at = n]
  <2>1. DOMAIN bulk' = DOMAIN bulk /\ \A k \in DOMAIN bulk : k # 1 => bulk'[k] = bulk[k]
    BY <1>0, <1>4
  <2> QED BY <2>1 DEF OnlyHeadStarted
<1>5. ASSUME NEW c, CloseChannel(c) PROVE OnlyHeadStarted'
  <2> DEFINE K == {k \in DOMAIN bulk : k = 1 \/ bulk[k].id # c}
             P == Spliced(c)
  <2>1. P = Picked(bulk, K) /\ bulk' = P
    BY <1>5 DEF Spliced, CloseChannel
  <2>2. P \in Seq(Entry)
    <3> HIDE DEF K
    <3> QED BY <1>0, <2>1, PickedType
  <2>3. PICK f : Selects(f, P, bulk, K, Len(bulk))
    <3> HIDE DEF K, P
    <3> QED BY <1>0, <2>1, PickedSelects
  <2> HIDE DEF K, P
  <2>4. \A k \in 1..Len(P) : f[k] \in 1..Len(bulk) /\ P[k] = bulk[f[k]]
    BY <2>3 DEF Selects
  <2>5. \A k \in 1..Len(P) : k # 1 => f[k] # 1
    <3> SUFFICES ASSUME NEW k \in 1..Len(P), k # 1 PROVE f[k] # 1
      OBVIOUS
    <3>1. 1 \in 1..Len(P) /\ 1 < k
      BY <2>2
    <3>2. f[1] < f[k]
      BY <2>3, <3>1 DEF Selects
    <3> QED BY <2>4, <3>1, <3>2
  <2>6. DOMAIN P = 1..Len(P) /\ DOMAIN bulk = 1..Len(bulk)
    BY <1>0, <2>2
  <2> QED BY <2>1, <2>4, <2>5, <2>6 DEF OnlyHeadStarted
<1>6. ASSUME NEW c \in Chans, NEW len \in Lengths, SendBinary(c, len) PROVE OnlyHeadStarted'
  <2> DEFINE e == [id |-> c, payload |-> Payload(Len(sent[c]) + 1, len), at |-> 0]
  <2>1. e.at = 0 /\ (bulk' = bulk \/ bulk' = Append(bulk, e))
    BY <1>6 DEF SendBinary, Pump
  <2> HIDE DEF e
  <2> QED BY <1>1, <1>2, <2>1
<1>7. CASE SocketTakes
  <2>1. bulk # <<>>
    BY <1>7, BooksFacts DEF SocketTakes
  <2> QED BY <1>3, <1>4, <1>7, <2>1 DEF SocketTakes, Pump
<1>8. CASE ServerReceives
  BY <1>1, <1>5, <1>8 DEF ServerReceives, Took, AfterTook, Pump, serverVars
<1>9. ASSUME NEW c \in Chans, ServiceCloses(c) \/ CloseHandle(c) PROVE OnlyHeadStarted'
  BY <1>1, <1>5, <1>9 DEF ServiceCloses, CloseHandle, serverVars
<1> QED BY <1>1, <1>6, <1>7, <1>8, <1>9 DEF Next, ClientReceives, serverVars, vars

\* StreamInv for a channel of the page, under sendBinary(). A payload that
\* skips the queue is the one due because GoesDirect lets it pass only when
\* the channel has nothing queued.
LEMMA StreamSend ==
  ASSUME BooksInv, BooksInv', StreamInv, NEW c \in Chans, NEW len \in Lengths, SendBinary(c, len),
         NEW d \in handles'
  PROVE  InStep(d)' /\ (d \in channels' => Streams(d)') /\ (d \notin channels' => Ends(d)')
<1> DEFINE p == Payload(Len(sent[c]) + 1, len)
           e == [id |-> c, payload |-> p, at |-> 0]
           q == Append(bulk, e)
           m == [t |-> "data", id |-> c, last |-> TRUE, bytes |-> p]
<1>1. /\ bulk \in Seq(Entry) /\ (\A k \in DOMAIN bulk : bulk[k].at < Len(bulk[k].payload))
      /\ (pumping => bulk # <<>>)
      /\ toClient \in Seq(Frame) /\ channels \subseteq Chans /\ handles \subseteq Chans
      /\ sent \in [Chans -> Seq(Payloads)]
      /\ toClient' \in Seq(Frame)
      /\ queued[c] = Count(bulk, c)
  BY BooksFacts DEF BooksInv, QueueInv, TypeOK
<1>2. /\ UNCHANGED <<channels, handles, held, delivered>> /\ c \in channels
      /\ sent' = [sent EXCEPT ![c] = Append(@, p)]
  BY DEF SendBinary, pageVars
<1>3. d \in Chans /\ InStep(d) /\ (d \in channels => Streams(d)) /\ (d \notin channels => Ends(d))
  BY <1>1, <1>2 DEF StreamInv
<1>4. p \in Payloads /\ p \in Seq(Nat \X Nat) /\ Len(p) \in Nat \ {0}
  <2>1. Len(sent[c]) + 1 \in 1..MaxSent
    BY <1>1, RoomToSend DEF SendBinary
  <2>2. p \in Payloads
    BY <2>1, PayloadType
  <2> HIDE DEF p
  <2> QED BY <2>2, PayloadType
<1>5. \/ /\ GoesDirect(c, len) /\ toClient' = Append(toClient, m) /\ UNCHANGED <<bulk, pumping>>
      \/ pumping /\ bulk' = q /\ UNCHANGED <<pumping, toClient>>
      \/ ~pumping /\ Pump(q, unconfirmed, inflight)
  BY DEF SendBinary
<1> HIDE DEF p
<1>6. m \in Frame /\ m.t = "data" /\ m.id = c /\ m.last /\ m.bytes = p
  BY <1>4 DEF Frame
<1>7. e \in Entry /\ e.id = c /\ e.payload = p /\ e.at = 0 /\ e.at < Len(e.payload)
  BY <1>4 DEF Entry
<1> HIDE DEF m, e
<1>8. q \in Seq(Entry) /\ q # <<>> /\ Len(q) = Len(bulk) + 1
      /\ Head(q) = IF bulk = <<>> THEN e ELSE Head(bulk)
  BY <1>1, <1>7, AppendProperties, HeadTailAppend
<1>9. \A k \in DOMAIN q : q[k].at < Len(q[k].payload)
  <2>1. \A k \in 1..(Len(bulk) + 1) : q[k] = IF k = Len(bulk) + 1 THEN e ELSE bulk[k]
    BY <1>1, <1>7
  <2>2. DOMAIN q = 1..(Len(bulk) + 1)
    BY <1>8
  <2> HIDE DEF q
  <2> QED BY <1>1, <1>7, <2>1, <2>2
<1>a. sent'[d] = IF d = c THEN Append(sent[c], p) ELSE sent[d]
  BY <1>1, <1>2, <1>3
<1>s. sent[d] \in Seq(Payloads) /\ sent'[d] \in Seq(Payloads)
  BY <1>1, <1>3, <1>4, <1>a, AppendProperties
<1>b. CASE d \notin channels
  <2>1. d # c /\ sent'[d] = sent[d] /\ Ends(d)
    BY <1>2, <1>3, <1>a, <1>b
  <2>2. PICK f, n : /\ Walk(f, toClient, d, sent[d], n) /\ n # 0 /\ f[0] = Start(d)
                    /\ toClient[n].t = "close" /\ toClient[n].id = d
    BY <2>1 DEF Ends
  <2>3. \E x \in Frame : toClient' = toClient \/ toClient' = Append(toClient, x)
    <3>1. ASSUME Pump(q, unconfirmed, inflight), toClient' # toClient
          PROVE  \E x \in Frame : toClient' = Append(toClient, x)
      <4>1. toClient' = Append(toClient, Slice(Head(q)))
        BY <3>1 DEF Pump
      <4>2. Head(q) \in Entry /\ Head(q).at < Len(Head(q).payload)
        <5>1. Head(q) = q[1] /\ 1 \in DOMAIN q
          BY <1>8
        <5> HIDE DEF q
        <5> QED BY <1>8, <1>9, <5>1
      <4>3. Slice(Head(q)) \in Frame
        BY <4>2, SliceType
      <4> QED BY <4>1, <4>3
    <3> QED BY <1>5, <1>6, <3>1
  <2>4. Walk(f, toClient', d, sent[d], n)
    BY <1>1, <2>2, <2>3, WalkKeeps
  <2>5. toClient'[n] = toClient[n]
    <3>1. n \in 1..Len(toClient)
      BY <2>2 DEF Walk
    <3> QED BY <1>1, <2>3, <3>1
  <2>6. Ends(d)'
    BY <1>2, <2>1, <2>2, <2>4, <2>5 DEF Ends, Start
  <2> QED BY <1>2, <1>3, <1>b, <2>1, <2>6 DEF InStep
<1>c. CASE d \in channels
  <2>1. PICK f, g, n : /\ Walk(f, toClient, d, sent[d], Len(toClient)) /\ f[0] = Start(d)
                       /\ Numbered(g, bulk, d, sent[d], n)
                       /\ f[Len(toClient)] = Place(bulk, pumping, d, n)
    BY <1>3, <1>c DEF Streams
  <2>2. Walk(f, toClient, d, sent'[d], Len(toClient))
    BY <1>1, <1>4, <1>a, <1>s, <2>1, WalkLonger
  <2>3. InStep(d)'
    <3>1. CASE d # c
      BY <1>2, <1>3, <1>a, <3>1 DEF InStep
    <3>2. CASE d = c
      <4> DEFINE i == Len(delivered[d]) + 1
                 l == Len(held[d])
      <4>1. held[d] = SubSeq(sent[d][i], 1, l) /\ i \in Nat /\ l \in Nat
        BY <1>3, BooksFacts DEF InStep
      <4>2. CASE i \in 1..Len(sent[d])
        <5>1. sent'[d][i] = sent[d][i]
          BY <1>a, <1>s, <3>2, <4>2
        <5>2. Len(sent'[d]) = Len(sent[d]) + 1 /\ Len(sent[d]) \in Nat
          BY <1>a, <1>s, <3>2
        <5>3. held[d] # <<>> => Len(delivered[d]) < Len(sent'[d])
          BY <4>1, <4>2, <5>2
        <5>4. held'[d] = SubSeq(sent'[d][Len(delivered'[d]) + 1], 1, Len(held'[d]))
          BY <1>2, <4>1, <5>1
        <5> QED BY <1>2, <5>3, <5>4 DEF InStep
      <4>3. CASE i \notin 1..Len(sent[d])
        <5>1. l = 0
          BY <1>3, <1>s, <4>1, <4>3, BooksFacts DEF InStep
        <5>2. SubSeq(sent'[d][i], 1, 0) = <<>> /\ SubSeq(sent[d][i], 1, 0) = <<>>
          BY SubSeqEmpty
        <5>3. held[d] = <<>>
          BY <4>1, <5>1, <5>2
        <5> QED BY <1>2, <4>1, <5>1, <5>2, <5>3 DEF InStep
      <4> QED BY <4>2, <4>3
    <3> QED BY <3>1, <3>2
  <2> DEFINE N == Len(toClient)
             t == sent'[d]
  <2>4. N \in Nat /\ n \in Nat /\ \A x \in Frame : Len(Append(toClient, x)) = N + 1
    BY <1>1, <2>1 DEF Numbered
  <2>5. \E h : Numbered(h, q, d, t, n)
    <3>1. CASE d # c
      BY <1>1, <1>7, <1>a, <2>1, <3>1, NumberedAppendOther
    <3>2. CASE d = c
      <4> DEFINE s == sent[d]
      <4>1. t = Append(s, e.payload) /\ s \in Seq(Payloads) /\ e.id = d
        BY <1>7, <1>a, <1>s, <3>2
      <4>2. Numbered(g, bulk, d, s, n) /\ bulk \in Seq(Entry)
        BY <1>1, <2>1
      <4> HIDE DEF s, t
      <4>3. \E h : Numbered(h, Append(bulk, e), d, Append(s, e.payload), n)
        BY <1>7, <4>1, <4>2, NumberedAppend
      <4> QED BY <4>1, <4>3
    <3> QED BY <3>1, <3>2
  <2>6. Where(q, d, n) = Where(bulk, d, n)
    BY <1>7, <1>8 DEF Where
  <2>7. CASE pumping /\ bulk' = q /\ UNCHANGED <<pumping, toClient>>
    <3>1. Place(bulk', pumping', d, n) = Place(bulk, pumping, d, n)
      BY <1>1, <1>8, <2>6, <2>7 DEF Place
    <3>2. Start(d)' = Start(d)
      BY <1>2 DEF Start
    <3>3. Streams(d)'
      <4> HIDE DEF q
      <4> QED BY <2>1, <2>2, <2>5, <2>7, <3>1, <3>2 DEF Streams
    <3> QED BY <1>2, <1>c, <2>3, <3>3
  <2>8. CASE ~pumping /\ Pump(q, unconfirmed, inflight)
    <3>1. PICK h : Numbered(h, q, d, t, n)
      BY <2>5
    <3>2. f[N] = Where(q, d, n)
      BY <2>1, <2>6, <2>8 DEF Place
    <3>3. Walk(f, toClient, d, t, N) /\ t \in Seq(Payloads) /\ Pump(q, unconfirmed, inflight)
      BY <1>s, <2>2, <2>8
    <3>x. q \in Seq(Entry) /\ (\A k \in DOMAIN q : q[k].at < Len(q[k].payload)) /\ toClient \in Seq(Frame)
      BY <1>1, <1>8, <1>9
    <3> HIDE DEF q, t
    <3>4. /\ Numbered(h, bulk', d, t, n)
          /\ \E w : /\ Walk(w, toClient', d, t, Len(toClient')) /\ w[0] = f[0]
                    /\ w[Len(toClient')] = Place(bulk', pumping', d, n)
      BY <3>x, <3>1, <3>2, <3>3, PumpStreams
    <3>5. f[0] = Start(d)'
      BY <1>2, <2>1 DEF Start
    <3>6. Streams(d)'
      BY <3>4, <3>5 DEF Streams, t
    <3> QED BY <1>2, <1>c, <2>3, <3>6
  <2>9. CASE GoesDirect(c, len) /\ toClient' = Append(toClient, m) /\ UNCHANGED <<bulk, pumping>>
    <3>0. f[0] = Start(d)'
      BY <1>2, <2>1 DEF Start
    <3>1. CASE d # c
      <4>1. Streams(d)'
        <5>1. f[N] = Place(bulk', pumping', d, n) /\ Numbered(g, bulk', d, sent[d], n)
          BY <2>1, <2>9
        <5> QED BY <1>1, <1>2, <1>6, <1>a, <2>1, <2>9, <3>1, <5>1, StreamsKept
      <4> QED BY <1>2, <1>c, <2>3, <4>1
    <3>2. CASE d = c
      <4>1. \A k \in 1..Len(bulk) : bulk[k].id # d
        <5>1. Cardinality(Places(bulk, c)) = 0 /\ IsFiniteSet(Places(bulk, c))
          BY <1>1, <2>9, CountType DEF GoesDirect, Count
        <5>2. Places(bulk, c) = {}
          BY <5>1, FS_EmptySet
        <5> QED BY <1>1, <3>2, <5>2 DEF Places
      <4>2. n = Len(sent[d]) + 1
        BY <1>1, <1>s, <2>1, <4>1, NumberedNone
      <4>3. \A i : Place(bulk, pumping, d, i) = <<i, 0>>
        <5>1. bulk # <<>> => Head(bulk).id # d
          BY <1>1, <4>1
        <5> QED BY <5>1 DEF Place, Where
      <4>4. Len(t) = n /\ t[n] = p /\ n \in DOMAIN t
        BY <1>4, <1>a, <1>s, <2>4, <3>2, <4>2, AppendProperties
      <4> DEFINE x == f[N]
                 y == <<n + 1, 0>>
      <4>5. x = <<n, 0>>
        BY <2>1, <4>3
      <4>6. Carried(m, d, t, x, y) /\ y \in Nat \X Nat
        <5>1. x[1] = n /\ x[2] = 0 /\ m.t # "close" /\ m.id = d /\ m.last /\ m.bytes = p
          BY <1>6, <3>2, <4>5
        <5>2. x[1] \in DOMAIN t /\ x[2] + Len(m.bytes) <= Len(t[x[1]]) /\ x[2] + Len(m.bytes) = Len(t[x[1]])
          BY <1>4, <4>4, <5>1
        <5>3. m.bytes = SubSeq(t[x[1]], x[2] + 1, x[2] + Len(m.bytes))
          <6>1. SubSeq(p, 1, Len(p)) = p
            BY <1>4, SubSeqFull
          <6>2. x[2] + 1 = 1 /\ x[2] + Len(m.bytes) = Len(p) /\ t[x[1]] = p
            BY <1>4, <4>4, <5>1
          <6> HIDE DEF t, x
          <6> QED BY <5>1, <6>1, <6>2
        <5>4. y = <<x[1] + 1, 0>>
          BY <5>1
        <5>5. y \in Nat \X Nat
          BY <2>4
        <5> HIDE DEF t, x, y
        <5> QED BY <5>1, <5>2, <5>3, <5>4, <5>5 DEF Carried
      <4>x. Walk(f, toClient, d, t, N) /\ Carried(m, d, t, f[N], y)
        BY <2>2, <4>6
      <4>7. PICK h : Walk(h, Append(toClient, m), d, t, N + 1) /\ h[0] = f[0] /\ h[N + 1] = y
        <5> HIDE DEF t, y
        <5> QED BY <1>1, <1>6, <4>6, <4>x, WalkOn
      <4>8. Numbered(g, bulk', d, t, n + 1)
        <5>1. n + 1 \in 1..(Len(t) + 1) /\ (n + 1)..Len(t) = {}
          BY <2>4, <4>4
        <5> HIDE DEF t
        <5> QED BY <2>9, <4>1, <5>1 DEF Numbered
      <4>9. Len(toClient') = N + 1 /\ Place(bulk', pumping', d, n + 1) = y
        BY <1>6, <2>4, <2>9, <4>3
      <4>a. Streams(d)'
        <5>1. Walk(h, toClient', d, t, Len(toClient')) /\ h[0] = Start(d)'
          BY <2>9, <3>0, <4>7, <4>9
        <5>2. h[Len(toClient')] = Place(bulk', pumping', d, n + 1)
          BY <4>7, <4>9
        <5> QED BY <4>8, <5>1, <5>2 DEF Streams
      <4> QED BY <1>2, <1>c, <2>3, <4>a
    <3> QED BY <3>1, <3>2
  <2> QED BY <1>5, <2>7, <2>8, <2>9
<1> QED BY <1>b, <1>c

\* pump() adds frames behind the one that ends a stream.
LEMMA PumpKeepsEnds ==
  ASSUME NEW q \in Seq(Entry), \A k \in DOMAIN q : q[k].at < Len(q[k].payload),
         NEW out, NEW k, toClient \in Seq(Frame), Pump(q, out, k),
         NEW c, Ends(c), sent'[c] = sent[c], delivered'[c] = delivered[c], held'[c] = held[c]
  PROVE  Ends(c)'
<1>1. \E m \in Frame : toClient' = toClient \/ toClient' = Append(toClient, m)
  <2>1. CASE toClient' = toClient
    <3>1. [t |-> "close", id |-> CHOOSE x \in Chans : TRUE] \in Frame \/ Chans = {}
      BY DEF Frame
    <3>2. Frame # {}
      <4>1. PICK f, n : Walk(f, toClient, c, sent[c], n) /\ n # 0
        BY DEF Ends
      <4>2. toClient[n] \in Frame
        BY <4>1 DEF Walk
      <4> QED BY <4>2
    <3> QED BY <2>1, <3>2
  <2>2. CASE q # <<>> /\ toClient' = Append(toClient, Slice(Head(q)))
    <3>1. Head(q) \in Entry /\ Head(q).at < Len(Head(q).payload)
      <4>1. Head(q) = q[1] /\ 1 \in DOMAIN q
        BY <2>2
      <4> QED BY <4>1
    <3> QED BY <2>2, <3>1, SliceType
  <2> QED BY <2>1, <2>2 DEF Pump
<1> QED BY <1>1, EndsKept

\* Under the write callback.
LEMMA StreamTakes ==
  ASSUME BooksInv, StreamInv, SocketTakes, NEW d \in handles'
  PROVE  InStep(d)' /\ (d \in channels' => Streams(d)') /\ (d \notin channels' => Ends(d)')
<1> DEFINE head == Head(bulk)
           done == DoneWith(head)
           r == [bulk EXCEPT ![1].at = End(head)]
           q == IF done THEN Tail(bulk) ELSE r
           N == Len(toClient)
<1>1. /\ bulk \in Seq(Entry) /\ (\A k \in DOMAIN bulk : bulk[k].at < Len(bulk[k].payload))
      /\ bulk # <<>> /\ pumping
      /\ toClient \in Seq(Frame) /\ channels \subseteq Chans /\ handles \subseteq Chans
      /\ sent \in [Chans -> Seq(Payloads)]
  BY BooksFacts DEF SocketTakes
<1>2. UNCHANGED <<channels, handles, held, delivered, sent>>
  BY DEF SocketTakes, pageVars
<1>3. d \in Chans /\ InStep(d) /\ (d \in channels => Streams(d)) /\ (d \notin channels => Ends(d))
      /\ sent[d] \in Seq(Payloads)
  BY <1>1, <1>2 DEF StreamInv
<1>4. InStep(d)'
  BY <1>2, <1>3 DEF InStep
<1>5. head \in Entry /\ head = bulk[1] /\ 1 \in DOMAIN bulk /\ head.at < Len(head.payload)
  BY <1>1
<1>6. ~done => End(head) \in Nat /\ End(head) < Len(head.payload)
  BY <1>5, EndType DEF DoneWith
<1>7. Pump(q, unconfirmed, inflight)
  BY DEF SocketTakes
<1>8. CASE done
  <2>1. q = Tail(bulk)
    BY <1>8
  <2> HIDE DEF q
  <2>2. q \in Seq(Entry) /\ \A k \in DOMAIN q : q[k] = bulk[k + 1] /\ k + 1 \in DOMAIN bulk /\ k + 1 # 1
    BY <1>1, <2>1
  <2>3. \A k \in DOMAIN q : q[k].at < Len(q[k].payload) /\ q[k].at = 0
    BY <1>1, <2>2 DEF StreamInv, OnlyHeadStarted
  <2>4. CASE d \notin channels
    <3>1. Ends(d)'
      BY <1>1, <1>2, <1>3, <1>7, <2>2, <2>3, <2>4, PumpKeepsEnds
    <3> QED BY <1>2, <1>4, <2>4, <3>1
  <2>5. CASE d \in channels
    <3> DEFINE s == sent[d]
    <3>1. PICK f, g, n : /\ Walk(f, toClient, d, s, N) /\ f[0] = Start(d)
                         /\ Numbered(g, bulk, d, s, n)
                         /\ f[N] = Place(bulk, pumping, d, n)
      BY <1>3, <2>5 DEF Streams
    <3> DEFINE o == IF head.id = d THEN n + 1 ELSE n
    <3>2. PICK h : Numbered(h, q, d, s, o)
      <4>1. s \in Seq(Payloads)
        BY <1>3
      <4> HIDE DEF s
      <4> QED BY <1>1, <2>1, <3>1, <4>1, NumberedTail
    <3>3. f[N] = <<o, 0>>
      <4>1. CASE head.id = d
        <5>1. LastSlice(head)
          BY <1>8, <2>5, <4>1 DEF DoneWith
        <5> QED BY <1>1, <3>1, <4>1, <5>1 DEF Place, After
      <4>2. CASE head.id # d
        BY <3>1, <4>2 DEF Place, Where
      <4> QED BY <4>1, <4>2
    <3>4. f[N] = Where(q, d, o)
      <4>1. q # <<>> => Head(q).at = 0
        <5>1. q # <<>> => Head(q) = q[1] /\ 1 \in DOMAIN q
          BY <2>2
        <5> QED BY <2>3, <5>1
      <4> QED BY <3>3, <4>1 DEF Where
    <3> HIDE DEF o
    <3>5. s \in Seq(Payloads) /\ Walk(f, toClient, d, s, Len(toClient)) /\ f[Len(toClient)] = Where(q, d, o)
      BY <1>3, <3>1, <3>4
    <3>x. q \in Seq(Entry) /\ (\A k \in DOMAIN q : q[k].at < Len(q[k].payload)) /\ toClient \in Seq(Frame)
          /\ Pump(q, unconfirmed, inflight)
      BY <1>1, <1>7, <2>2, <2>3
    <3> HIDE DEF s, N
    <3>6. /\ Numbered(h, bulk', d, s, o)
          /\ \E w : /\ Walk(w, toClient', d, s, Len(toClient')) /\ w[0] = f[0]
                    /\ w[Len(toClient')] = Place(bulk', pumping', d, o)
      BY <3>x, <3>2, <3>5, PumpStreams
    <3>7. s = sent'[d] /\ f[0] = Start(d)'
      BY <1>2, <3>1 DEF s, Start
    <3>8. Streams(d)'
      BY <3>6, <3>7 DEF Streams
    <3> QED BY <1>2, <1>4, <2>5, <3>8
  <2> QED BY <2>4, <2>5
<1>9. CASE ~done
  <2>1. q = r
    BY <1>9
  <2> HIDE DEF q
  <2>2. /\ q \in Seq(Entry) /\ Len(q) = Len(bulk) /\ DOMAIN q = DOMAIN bulk
        /\ \A k \in 1..Len(bulk) : /\ q[k].id = bulk[k].id /\ q[k].payload = bulk[k].payload
                                   /\ q[k].at < Len(q[k].payload)
        /\ q # <<>> /\ Head(q).at = End(head) /\ Head(q).id = head.id
    <3> DEFINE e == [head EXCEPT !.at = End(head)]
    <3>1. e \in Entry /\ e.at < Len(e.payload) /\ e.id = head.id /\ e.payload = head.payload /\ e.at = End(head)
      BY <1>5, <1>6, <1>9 DEF Entry
    <3>2. q = [bulk EXCEPT ![1] = e]
      BY <1>5, <2>1
    <3> HIDE DEF e
    <3>3. q \in Seq(Entry) /\ DOMAIN q = DOMAIN bulk /\ Len(q) = Len(bulk) /\ Len(bulk) \in Nat
      BY <1>1, <1>5, <3>1, <3>2
    <3>4. \A k \in 1..Len(bulk) : q[k] = IF k = 1 THEN e ELSE bulk[k]
      BY <1>1, <3>2
    <3>5. q # <<>> /\ Head(q) = q[1] /\ 1 \in 1..Len(bulk)
      BY <1>1, <3>3
    <3>6. DOMAIN bulk = 1..Len(bulk)
      BY <1>1
    <3> HIDE DEF q
    <3> QED BY <1>1, <1>5, <3>1, <3>3, <3>4, <3>5, <3>6
  <2>3. \A k \in DOMAIN q : q[k].at < Len(q[k].payload)
    BY <2>2
  <2>4. CASE d \notin channels
    <3>1. Ends(d)'
      BY <1>1, <1>2, <1>3, <1>7, <2>2, <2>3, <2>4, PumpKeepsEnds
    <3> QED BY <1>2, <1>4, <2>4, <3>1
  <2>5. CASE d \in channels
    <3> DEFINE s == sent[d]
    <3>1. PICK f, g, n : /\ Walk(f, toClient, d, s, N) /\ f[0] = Start(d)
                         /\ Numbered(g, bulk, d, s, n)
                         /\ f[N] = Place(bulk, pumping, d, n)
      BY <1>3, <2>5 DEF Streams
    <3>2. Numbered(g, q, d, s, n)
      <4>1. /\ bulk \in Seq(Entry) /\ Numbered(g, bulk, d, s, n) /\ Len(q) = Len(bulk)
            /\ \A k \in 1..Len(bulk) : q[k].id = bulk[k].id /\ q[k].payload = bulk[k].payload
        BY <1>1, <2>2, <3>1
      <4> HIDE DEF s, q
      <4> QED BY <4>1, NumberedAdvanced
    <3>4. f[N] = Where(q, d, n)
      <4>1. CASE head.id = d
        <5>1. ~LastSlice(head)
          BY <1>9 DEF DoneWith
        <5> QED BY <1>1, <2>2, <3>1, <4>1, <5>1 DEF Place, After, Where
      <4>2. CASE head.id # d
        BY <2>2, <3>1, <4>2 DEF Place, Where
      <4> QED BY <4>1, <4>2
    <3>5. s \in Seq(Payloads) /\ Walk(f, toClient, d, s, Len(toClient)) /\ f[Len(toClient)] = Where(q, d, n)
      BY <1>3, <3>1, <3>4
    <3>x. q \in Seq(Entry) /\ (\A k \in DOMAIN q : q[k].at < Len(q[k].payload)) /\ toClient \in Seq(Frame)
          /\ Pump(q, unconfirmed, inflight)
      BY <1>1, <1>7, <2>2, <2>3
    <3> HIDE DEF s, N
    <3>6. /\ Numbered(g, bulk', d, s, n)
          /\ \E w : /\ Walk(w, toClient', d, s, Len(toClient')) /\ w[0] = f[0]
                    /\ w[Len(toClient')] = Place(bulk', pumping', d, n)
      BY <3>x, <3>2, <3>5, PumpStreams
    <3>7. s = sent'[d] /\ f[0] = Start(d)'
      BY <1>2, <3>1 DEF s, Start
    <3>8. Streams(d)'
      BY <3>6, <3>7 DEF Streams
    <3> QED BY <1>2, <1>4, <2>5, <3>8
  <2> QED BY <2>4, <2>5
<1> QED BY <1>8, <1>9

\* Under took().
LEMMA StreamTook ==
  ASSUME BooksInv, StreamInv, NEW b, Took(b), NEW d \in handles'
  PROVE  InStep(d)' /\ (d \in channels' => Streams(d)') /\ (d \notin channels' => Ends(d)')
<1> DEFINE N == Len(toClient)
<1>1. /\ bulk \in Seq(Entry) /\ (\A k \in DOMAIN bulk : bulk[k].at < Len(bulk[k].payload))
      /\ toClient \in Seq(Frame) /\ handles \subseteq Chans
      /\ sent \in [Chans -> Seq(Payloads)]
  BY BooksFacts
<1>2. UNCHANGED <<channels, handles, held, delivered, sent>>
  BY DEF Took, pageVars
<1>3. d \in Chans /\ InStep(d) /\ (d \in channels => Streams(d)) /\ (d \notin channels => Ends(d))
      /\ sent[d] \in Seq(Payloads)
  BY <1>1, <1>2 DEF StreamInv
<1>4. InStep(d)'
  BY <1>2, <1>3 DEF InStep
<1>5. CASE UNCHANGED <<bulk, pumping, toClient>>
  BY <1>2, <1>3, <1>4, <1>5 DEF Streams, Ends, Start
<1>6. CASE ~pumping /\ Pump(bulk, Tail(unconfirmed), Uncredited(b))
  <2>1. CASE d \notin channels
    <3>1. Ends(d)'
      BY <1>1, <1>2, <1>3, <1>6, <2>1, PumpKeepsEnds
    <3> QED BY <1>2, <1>4, <2>1, <3>1
  <2>2. CASE d \in channels
    <3> DEFINE s == sent[d]
    <3>1. PICK f, g, n : /\ Walk(f, toClient, d, s, N) /\ f[0] = Start(d)
                         /\ Numbered(g, bulk, d, s, n)
                         /\ f[N] = Place(bulk, pumping, d, n)
      BY <1>3, <2>2 DEF Streams
    <3>2. f[N] = Where(bulk, d, n)
      BY <1>6, <3>1 DEF Place
    <3>5. s \in Seq(Payloads) /\ Walk(f, toClient, d, s, Len(toClient)) /\ f[Len(toClient)] = Where(bulk, d, n)
      BY <1>3, <3>1, <3>2
    <3>x. bulk \in Seq(Entry) /\ (\A k \in DOMAIN bulk : bulk[k].at < Len(bulk[k].payload))
          /\ toClient \in Seq(Frame) /\ Pump(bulk, Tail(unconfirmed), Uncredited(b))
          /\ Numbered(g, bulk, d, s, n)
      BY <1>1, <1>6, <3>1
    <3> HIDE DEF s, N
    <3>6. /\ Numbered(g, bulk', d, s, n)
          /\ \E w : /\ Walk(w, toClient', d, s, Len(toClient')) /\ w[0] = f[0]
                    /\ w[Len(toClient')] = Place(bulk', pumping', d, n)
      BY <3>x, <3>5, PumpStreams
    <3>7. s = sent'[d] /\ f[0] = Start(d)'
      BY <1>2, <3>1 DEF s, Start
    <3>8. Streams(d)'
      BY <3>6, <3>7 DEF Streams
    <3> QED BY <1>2, <1>4, <2>2, <3>8
  <2> QED BY <2>1, <2>2
<1> QED BY <1>5, <1>6 DEF Took, AfterTook

\* Under closeChannel(): the stream ends with its message.
LEMMA StreamClose ==
  ASSUME BooksInv, StreamInv, NEW c \in Chans, CloseChannel(c), c \in channels, NEW d \in handles'
  PROVE  InStep(d)' /\ (d \in channels' => Streams(d)') /\ (d \notin channels' => Ends(d)')
<1> DEFINE m == [t |-> "close", id |-> c]
           N == Len(toClient)
           s == sent[d]
<1>1. /\ bulk \in Seq(Entry) /\ toClient \in Seq(Frame) /\ handles \subseteq Chans
      /\ sent \in [Chans -> Seq(Payloads)] /\ Unfinished
  BY BooksFacts DEF BooksInv, QueueInv
<1>2. /\ UNCHANGED <<handles, held, delivered, sent, pumping>>
      /\ channels' = channels \ {c} /\ bulk' = Spliced(c) /\ toClient' = Append(toClient, m)
  BY DEF CloseChannel, pageVars
<1>3. d \in Chans /\ InStep(d) /\ (d \in channels => Streams(d)) /\ (d \notin channels => Ends(d))
      /\ s \in Seq(Payloads)
  BY <1>1, <1>2 DEF StreamInv
<1>4. InStep(d)'
  BY <1>2, <1>3 DEF InStep
<1>5. m \in Frame /\ m.t = "close" /\ m.id = c
  BY DEF Frame
<1> HIDE DEF m
<1>6. CASE d \notin channels
  <2>1. Ends(d)'
    BY <1>1, <1>2, <1>3, <1>5, <1>6, EndsKept
  <2> QED BY <1>2, <1>4, <1>6, <2>1
<1>7. CASE d \in channels
  <2>1. PICK f, g, n : /\ Walk(f, toClient, d, s, N) /\ f[0] = Start(d)
                       /\ Numbered(g, bulk, d, s, n)
                       /\ f[N] = Place(bulk, pumping, d, n)
    BY <1>3, <1>7 DEF Streams
  <2>2. CASE d # c
    <3>1. \E h : Numbered(h, bulk', d, s, n)
      <4> HIDE DEF s
      <4> QED BY <1>1, <1>2, <2>1, <2>2, NumberedSpliced
    <3>2. Place(bulk', pumping', d, n) = Place(bulk, pumping, d, n)
      <4>1. bulk \in Seq(Entry) /\ Unfinished
        BY <1>1
      <4>2. /\ bulk = <<>> => Spliced(c) = <<>>
            /\ bulk # <<>> => Spliced(c) # <<>> /\ Head(Spliced(c)) = Head(bulk)
        BY <4>1, SplicedType
      <4> QED BY <1>2, <4>2 DEF Place, Where
    <3>3. Streams(d)'
      BY <1>1, <1>2, <1>5, <2>1, <3>1, <3>2, StreamsKept
    <3> QED BY <1>2, <1>4, <1>7, <2>2, <3>3
  <2>3. CASE d = c
    <3>1. f[N] \in Nat \X Nat
      <4>1. N \in 0..N
        BY <1>1
      <4> QED BY <2>1, <4>1 DEF Walk
    <3> DEFINE y == f[N]
    <3>2. Carried(m, d, s, f[N], y) /\ y \in Nat \X Nat
      <4>1. y \in Nat \X Nat
        BY <3>1
      <4>2. Carried(m, d, s, y, y)
        <5> HIDE DEF y, s
        <5> QED BY <1>5 DEF Carried
      <4> QED BY <4>1, <4>2
    <3>3. PICK h : Walk(h, toClient', d, s, N + 1) /\ h[0] = f[0] /\ h[N + 1] = y
      <4>1. /\ Walk(f, toClient, d, s, N) /\ Carried(m, d, s, f[N], y)
            /\ y \in Nat \X Nat /\ m \in Frame /\ toClient \in Seq(Frame)
        BY <1>1, <1>5, <2>1, <3>2
      <4> HIDE DEF y, s
      <4>2. \E h : Walk(h, Append(toClient, m), d, s, N + 1) /\ h[0] = f[0] /\ h[N + 1] = y
        BY <4>1, WalkOn
      <4> QED BY <1>2, <4>2
    <3>4. N + 1 # 0 /\ toClient'[N + 1] = m
      BY <1>1, <1>2, <1>5
    <3>5. h[0] = Start(d)' /\ sent'[d] = s
      BY <1>2, <2>1, <3>3 DEF Start
    <3>6. Ends(d)'
      <4> HIDE DEF s, N
      <4>1. Walk(h, toClient', d, sent'[d], N + 1) /\ N + 1 # 0 /\ h[0] = Start(d)'
            /\ toClient'[N + 1].t = "close" /\ toClient'[N + 1].id = d
        BY <1>5, <2>3, <3>3, <3>4, <3>5
      <4> QED BY <4>1 DEF Ends
    <3> QED BY <1>2, <1>4, <2>3, <3>6
  <2> QED BY <2>2, <2>3
<1> QED BY <1>6, <1>7

\* The frame the page takes next follows on from what it has.
LEMMA HeadFollows ==
  ASSUME toClient \in Seq(Frame), toClient # <<>>, NEW d, Streams(d) \/ Ends(d)
  PROVE  \E y : Carried(Head(toClient), d, sent[d], Start(d), y)
<1>1. PICK f, n : Walk(f, toClient, d, sent[d], n) /\ n # 0 /\ f[0] = Start(d)
  <2>1. Len(toClient) # 0
    OBVIOUS
  <2> QED BY <2>1 DEF Streams, Ends
<1> DEFINE s == sent[d]
<1>2. Walk(f, toClient, d, s, n)
  BY <1>1
<1> HIDE DEF s
<1>3. Carried(Head(toClient), d, s, f[0], f[1])
  BY <1>1, <1>2, WalkTail
<1> QED BY <1>1, <1>3 DEF s

\* A frame is taken: the stream goes on, or ends, where the page now is.
LEMMA StreamMovesOn ==
  ASSUME toClient \in Seq(Frame), toClient # <<>>, toClient' = Tail(toClient), NEW d,
         sent'[d] = sent[d], UNCHANGED <<bulk, pumping>>,
         ~(Head(toClient).t = "close" /\ Head(toClient).id = d),
         \A y : Carried(Head(toClient), d, sent[d], Start(d), y) => Start(d)' = y
  PROVE  (Streams(d) => Streams(d)') /\ (Ends(d) => Ends(d)')
<1> DEFINE s == sent[d]
           N == Len(toClient)
<1>1. N \in Nat /\ N # 0 /\ Len(Tail(toClient)) = N - 1 /\ Head(toClient) = toClient[1]
  OBVIOUS
<1>2. ASSUME NEW f, NEW n, Walk(f, toClient, d, s, n), n # 0, f[0] = Start(d)
      PROVE  /\ n \in 1..N
             /\ \E h : Walk(h, toClient', d, sent'[d], n - 1) /\ h[0] = Start(d)' /\ h[n - 1] = f[n]
  <2>1. Walk(f, toClient, d, s, n)
    BY <1>2
  <2> HIDE DEF s
  <2>2. n \in 1..N /\ Carried(Head(toClient), d, s, f[0], f[1])
    BY <1>2, <2>1, WalkTail
  <2>3. PICK h : Walk(h, Tail(toClient), d, s, n - 1) /\ h[0] = f[1] /\ h[n - 1] = f[n]
    BY <1>2, <2>1, WalkTail
  <2>4. f[1] = Start(d)'
    <3>1. Carried(Head(toClient), d, sent[d], Start(d), f[1])
      BY <1>2, <2>2 DEF s
    <3> QED BY <3>1
  <2>5. Walk(h, toClient', d, sent'[d], n - 1)
    BY <2>3 DEF s
  <2> QED BY <2>2, <2>3, <2>4, <2>5
<1>3. ASSUME Streams(d) PROVE Streams(d)'
  <2>1. PICK f, g, n : /\ Walk(f, toClient, d, s, N) /\ f[0] = Start(d)
                       /\ Numbered(g, bulk, d, s, n) /\ f[N] = Place(bulk, pumping, d, n)
    BY <1>3 DEF Streams
  <2>2. PICK h : Walk(h, toClient', d, sent'[d], N - 1) /\ h[0] = Start(d)' /\ h[N - 1] = f[N]
    BY <1>1, <1>2, <2>1
  <2>3. Len(toClient') = N - 1 /\ Numbered(g, bulk', d, sent'[d], n)
        /\ h[N - 1] = Place(bulk', pumping', d, n)
    BY <1>1, <2>1, <2>2
  <2> QED BY <2>2, <2>3 DEF Streams
<1>4. ASSUME Ends(d) PROVE Ends(d)'
  <2>1. PICK f, n : /\ Walk(f, toClient, d, s, n) /\ n # 0 /\ f[0] = Start(d)
                    /\ toClient[n].t = "close" /\ toClient[n].id = d
    BY <1>4 DEF Ends
  <2>2. PICK h : Walk(h, toClient', d, sent'[d], n - 1) /\ h[0] = Start(d)'
    BY <1>2, <2>1
  <2>3. n \in 1..N
    BY <1>2, <2>1
  <2>4. n # 1
    BY <1>1, <2>1
  <2>5. n - 1 # 0 /\ n - 1 \in 1..(N - 1) /\ (n - 1) + 1 = n
    BY <1>1, <2>3, <2>4
  <2>6. toClient'[n - 1] = toClient[n]
    BY <1>1, <2>5
  <2> QED BY <2>1, <2>2, <2>5, <2>6 DEF Ends
<1> QED BY <1>3, <1>4

\* What the assembler makes of a binary frame that follows on: the beginning
\* of the payload that is due, all of it if the frame is its last.
LEMMA AssembledSoFar ==
  ASSUME NEW d \in Chans, sent \in [Chans -> Seq(Payloads)], held \in [Chans -> Seq(Nat \X Nat)],
         delivered \in [Chans -> Seq(Seq(Nat \X Nat))], InStep(d),
         NEW m \in Frame, m.t # "close", m.id = d, NEW y, Carried(m, d, sent[d], Start(d), y)
  PROVE  LET i == Len(delivered[d]) + 1
             b == held[d] \o m.bytes
         IN /\ i \in 1..Len(sent[d])
            /\ b = SubSeq(sent[d][i], 1, Len(b))
            /\ m.last => b = sent[d][i]
            /\ y = IF m.last THEN <<i + 1, 0>> ELSE <<i, Len(b)>>
            /\ b \in Seq(Nat \X Nat)
<1> DEFINE i == Len(delivered[d]) + 1
           h == held[d]
           l == Len(h)
           x == Start(d)
           p == sent[d][i]
<1>1. x[1] = i /\ x[2] = l
  BY DEF Start
<1>2. m.bytes \in Seq(Nat \X Nat) /\ h \in Seq(Nat \X Nat) /\ i \in Nat /\ l \in Nat
      /\ Len(m.bytes) \in Nat /\ DOMAIN sent[d] = 1..Len(sent[d])
  BY DEF Frame
<1>3. /\ i \in 1..Len(sent[d]) /\ l + Len(m.bytes) <= Len(p)
      /\ m.bytes = SubSeq(p, l + 1, l + Len(m.bytes))
      /\ m.last <=> l + Len(m.bytes) = Len(p)
      /\ y = IF m.last THEN <<i + 1, 0>> ELSE <<i, l + Len(m.bytes)>>
  <2> HIDE DEF x, i, l, p
  <2>1. p = sent[d][x[1]]
    BY <1>1 DEF p
  <2> QED BY <1>1, <1>2, <2>1 DEF Carried, x
<1>4. p \in Seq(Nat \X Nat) /\ Len(p) \in Nat
  <2>1. p \in Payloads
    BY <1>3
  <2> HIDE DEF p
  <2> QED BY <2>1, PayloadType
<1>5. h = SubSeq(p, 1, l)
  BY DEF InStep
<1> DEFINE k == l + Len(m.bytes)
           b == h \o m.bytes
<1>6. b = SubSeq(p, 1, k)
  <2>1. 1 \in 1..(Len(p) + 1) /\ l \in (1 - 1)..Len(p) /\ k \in l..Len(p)
    BY <1>2, <1>3, <1>4
  <2>2. SubSeq(p, 1, l) \o SubSeq(p, l + 1, k) = SubSeq(p, 1, k)
    <3>1. p \in Seq(Nat \X Nat)
      BY <1>4
    <3> HIDE DEF p, l, k
    <3> QED BY <2>1, <3>1, ConcatAdjacentSubSeq
  <2> HIDE DEF p, l, h
  <2> QED BY <1>3, <1>5, <2>2
<1>7. Len(b) = k /\ b \in Seq(Nat \X Nat)
  <2> HIDE DEF h
  <2> QED BY <1>2 DEF l
<1>8. m.last => b = p
  <2> HIDE DEF p
  <2>1. SubSeq(p, 1, Len(p)) = p
    BY <1>4, SubSeqFull
  <2> QED BY <1>3, <1>6, <2>1
<1> HIDE DEF b, k, p, h, l, i
<1>9. y = IF m.last THEN <<i + 1, 0>> ELSE <<i, Len(b)>>
  BY <1>3, <1>7 DEF k
<1>a. b = SubSeq(p, 1, Len(b))
  BY <1>6, <1>7
<1> QED BY <1>3, <1>7, <1>8, <1>9, <1>a DEF b, p, i, h

\* Under Channel.close() of another channel.
LEMMA StreamHandle ==
  ASSUME BooksInv, StreamInv, NEW c \in Chans, CloseHandle(c), NEW d \in handles'
  PROVE  InStep(d)' /\ (d \in channels' => Streams(d)') /\ (d \notin channels' => Ends(d)')
<1>1. UNCHANGED <<channels, bulk, pumping, delivered, toClient, sent>> /\ d \in handles /\ d # c
      /\ held' = [held EXCEPT ![c] = <<>>]
  BY DEF CloseHandle, serverVars
<1>2. d \in Chans /\ held'[d] = held[d]
  BY <1>1, BooksFacts
<1>3. InStep(d) /\ (d \in channels => Streams(d)) /\ (d \notin channels => Ends(d))
  BY <1>1 DEF StreamInv
<1>4. InStep(d)'
  BY <1>1, <1>2, <1>3 DEF InStep
<1>5. Start(d)' = Start(d)
  BY <1>1, <1>2 DEF Start
<1> QED BY <1>1, <1>3, <1>4, <1>5 DEF Streams, Ends

\* Under onMessage().
LEMMA StreamReceives ==
  ASSUME BooksInv, StreamInv, ClientReceives, NEW d \in handles'
  PROVE  InStep(d)' /\ (d \in channels' => Streams(d)') /\ (d \notin channels' => Ends(d)')
<1> DEFINE m == Head(toClient)
<1>1. /\ toClient \in Seq(Frame) /\ handles \subseteq Chans
      /\ sent \in [Chans -> Seq(Payloads)] /\ held \in [Chans -> Seq(Nat \X Nat)]
      /\ delivered \in [Chans -> Seq(Seq(Nat \X Nat))]
  BY BooksFacts
<1>2. /\ toClient # <<>> /\ toClient' = Tail(toClient) /\ UNCHANGED <<channels, bulk, pumping, sent>>
      /\ m.t = "close" => OnClose(m)
      /\ m.t # "close" => OnBinary(m)
  BY DEF ClientReceives, serverVars
<1>3. m \in Frame
  BY <1>1, <1>2
<1> HIDE DEF m
<1>4. d \in handles /\ ~(m.t = "close" /\ m.id = d)
  BY <1>2 DEF OnClose, OnBinary
<1>5. d \in Chans /\ InStep(d) /\ (d \in channels => Streams(d)) /\ (d \notin channels => Ends(d))
  BY <1>1, <1>4 DEF StreamInv
<1>6. PICK z : Carried(m, d, sent[d], Start(d), z)
  BY <1>1, <1>2, <1>5, HeadFollows DEF m
<1>7. ASSUME InStep(d)', \A y : Carried(m, d, sent[d], Start(d), y) => Start(d)' = y
      PROVE  InStep(d)' /\ (d \in channels' => Streams(d)') /\ (d \notin channels' => Ends(d)')
  <2>1. (Streams(d) => Streams(d)') /\ (Ends(d) => Ends(d)')
    <3>1. sent'[d] = sent[d] /\ UNCHANGED <<bulk, pumping>>
      BY <1>2
    <3> QED BY <1>1, <1>2, <1>4, <1>7, <3>1, StreamMovesOn DEF m
  <2> QED BY <1>2, <1>5, <1>7, <2>1
<1>8. CASE m.t = "close" \/ m.id # d
  <2>1. held'[d] = held[d] /\ delivered'[d] = delivered[d]
    BY <1>1, <1>2, <1>4, <1>5, <1>8 DEF OnClose, OnBinary
  <2>2. InStep(d)' /\ Start(d)' = Start(d)
    BY <1>2, <1>5, <2>1 DEF InStep, Start
  <2>3. \A y : Carried(m, d, sent[d], Start(d), y) => Start(d)' = y
    BY <1>8, <2>2 DEF Carried
  <2> QED BY <1>7, <2>2, <2>3
<1>9. CASE m.t # "close" /\ m.id = d
  <2> DEFINE i == Len(delivered[d]) + 1
             b == held[d] \o m.bytes
  <2>1. /\ i \in 1..Len(sent[d]) /\ b = SubSeq(sent[d][i], 1, Len(b))
        /\ b \in Seq(Nat \X Nat)
        /\ \A y : Carried(m, d, sent[d], Start(d), y) => y = IF m.last THEN <<i + 1, 0>> ELSE <<i, Len(b)>>
    BY <1>1, <1>3, <1>5, <1>6, <1>9, AssembledSoFar
  <2>2. OnBinary(m)
    BY <1>2, <1>9
  <2>3. CASE ~m.last
    <3>1. held'[d] = b /\ delivered'[d] = delivered[d]
      BY <1>1, <1>5, <1>9, <2>2, <2>3 DEF OnBinary
    <3>2. Len(delivered[d]) < Len(sent[d])
      BY <1>1, <1>5, <2>1
    <3> HIDE DEF b
    <3>3. InStep(d)' /\ Start(d)' = <<i, Len(b)>>
      BY <1>2, <2>1, <3>1, <3>2 DEF InStep, Start
    <3> QED BY <1>7, <2>1, <2>3, <3>3
  <2>4. CASE m.last
    <3>1. held'[d] = <<>> /\ delivered'[d] = Append(delivered[d], b)
      BY <1>1, <1>4, <1>5, <1>9, <2>2, <2>4 DEF OnBinary
    <3> HIDE DEF b
    <3>2. Len(delivered'[d]) = i /\ Len(held'[d]) = 0
      <4>1. delivered[d] \in Seq(Seq(Nat \X Nat))
        BY <1>1, <1>5
      <4> QED BY <2>1, <3>1, <4>1
    <3>3. held'[d] = SubSeq(sent'[d][Len(delivered'[d]) + 1], 1, Len(held'[d]))
      BY <3>1, <3>2, SubSeqEmpty
    <3>4. InStep(d)' /\ Start(d)' = <<i + 1, 0>>
      BY <3>1, <3>2, <3>3 DEF InStep, Start
    <3> QED BY <1>7, <2>1, <2>4, <3>4
  <2> QED BY <2>3, <2>4
<1> QED BY <1>8, <1>9

\* The streams are sound to begin with,
LEMMA StreamInvInit == SliceFlowAssumption /\ Init => StreamInv
<1> SUFFICES ASSUME SliceFlowAssumption, Init PROVE StreamInv
  OBVIOUS
<1>0. OnlyHeadStarted /\ channels = handles
  BY DEF OnlyHeadStarted, Init
<1> SUFFICES ASSUME NEW d \in handles PROVE InStep(d) /\ Streams(d)
  BY <1>0 DEF StreamInv
<1>1. /\ d \in Chans /\ sent[d] = <<>> /\ delivered[d] = <<>> /\ held[d] = <<>>
      /\ toClient = <<>> /\ bulk = <<>> /\ pumping = FALSE
  BY DEF Init
<1>2. Len(held[d]) = 0 /\ Len(delivered[d]) = 0 /\ Len(sent[d]) = 0 /\ Len(toClient) = 0 /\ Len(bulk) = 0
  BY <1>1
<1>3. InStep(d)
  BY <1>1, <1>2, SubSeqEmpty DEF InStep
<1> DEFINE f == [k \in 0..0 |-> <<1, 0>>]
<1>4. Walk(f, toClient, d, sent[d], 0) /\ f[0] = <<1, 0>>
  BY <1>2 DEF Walk
<1>5. Numbered(<<>>, bulk, d, sent[d], 1)
  BY <1>1, <1>2 DEF Numbered
<1>6. Place(bulk, pumping, d, 1) = <<1, 0>> /\ Start(d) = <<1, 0>>
  BY <1>1, <1>2 DEF Place, Where, Start
<1> HIDE DEF f
<1>7. Streams(d)
  BY <1>2, <1>4, <1>5, <1>6 DEF Streams
<1> QED BY <1>3, <1>7

\* and stay so under every step.
LEMMA StreamStep ==
  ASSUME BooksInv, BooksInv', StreamInv, [Next]_vars
  PROVE  StreamInv'
<1>1. OnlyHeadStarted'
  BY HeadStartedStep DEF StreamInv
<1> SUFFICES ASSUME NEW d \in handles'
             PROVE  InStep(d)' /\ (d \in channels' => Streams(d)') /\ (d \notin channels' => Ends(d)')
  BY <1>1 DEF StreamInv
<1>2. ASSUME NEW c \in Chans, NEW len \in Lengths, SendBinary(c, len)
      PROVE  InStep(d)' /\ (d \in channels' => Streams(d)') /\ (d \notin channels' => Ends(d)')
  BY <1>2, StreamSend
<1>3. ASSUME NEW c \in Chans, ServiceCloses(c)
      PROVE  InStep(d)' /\ (d \in channels' => Streams(d)') /\ (d \notin channels' => Ends(d)')
  BY <1>3, StreamClose DEF ServiceCloses
<1>4. ASSUME NEW c \in Chans, CloseHandle(c)
      PROVE  InStep(d)' /\ (d \in channels' => Streams(d)') /\ (d \notin channels' => Ends(d)')
  BY <1>4, StreamHandle
<1>5. ASSUME UNCHANGED <<channels, bulk, pumping, handles, held, delivered, toClient, sent>>
      PROVE  InStep(d)' /\ (d \in channels' => Streams(d)') /\ (d \notin channels' => Ends(d)')
  <2>1. d \in handles /\ InStep(d) /\ (d \in channels => Streams(d)) /\ (d \notin channels => Ends(d))
    BY <1>5 DEF StreamInv
  <2>2. InStep(d)' /\ Start(d)' = Start(d)
    BY <1>5, <2>1 DEF InStep, Start
  <2>3. Streams(d) => Streams(d)'
    BY <1>5, <2>2 DEF Streams
  <2>4. Ends(d) => Ends(d)'
    BY <1>5, <2>2 DEF Ends
  <2> QED BY <1>5, <2>1, <2>2, <2>3, <2>4
<1>6. CASE ServerReceives
  <2>1. PICK m : m = Head(toServer)
    OBVIOUS
  <2>2. CASE Took(m.n)
    BY <2>2, StreamTook
  <2>3. CASE m.t = "close" /\ m.id \in channels /\ CloseChannel(m.id)
    <3>1. m.id \in Chans
      BY <1>6, <2>1, <2>3, ChannelOfMessage DEF ServerReceives
    <3> QED BY <2>3, <3>1, StreamClose
  <2> QED BY <1>5, <1>6, <2>1, <2>2, <2>3 DEF ServerReceives, serverVars, pageVars
<1> QED BY <1>2, <1>3, <1>4, <1>5, <1>6, StreamTakes, StreamReceives DEF Next, vars, serverVars, pageVars

\* Every step is one of ChannelFifo or leaves its variables alone: only the
\* last frame of a payload delivers, and what it delivers is the payload that
\* was due.
LEMMA FifoStep ==
  ASSUME BooksInv, StreamInv, [Next]_vars
  PROVE  [Fifo!Next]_<<sent, delivered, Chans \ handles>>
<1>1. /\ handles \subseteq Chans /\ toClient \in Seq(Frame)
      /\ sent \in [Chans -> Seq(Payloads)] /\ held \in [Chans -> Seq(Nat \X Nat)]
      /\ delivered \in [Chans -> Seq(Seq(Nat \X Nat))]
  BY BooksFacts
<1>2. ASSUME UNCHANGED <<sent, delivered, handles>>
      PROVE  [Fifo!Next]_<<sent, delivered, Chans \ handles>>
  BY <1>2
<1>3. ASSUME NEW c, handles' = handles \ {c}, UNCHANGED <<sent, delivered>>
      PROVE  [Fifo!Next]_<<sent, delivered, Chans \ handles>>
  <2>1. CASE c \in handles
    <3>1. c \in Chans /\ Chans \ handles' = (Chans \ handles) \cup {c}
      BY <1>1, <1>3, <2>1
    <3>2. Fifo!End(c)
      BY <1>3, <3>1 DEF Fifo!End
    <3> QED BY <3>1, <3>2 DEF Fifo!Next
  <2>2. CASE c \notin handles
    <3>1. handles' = handles
      BY <1>3, <2>2
    <3> QED BY <1>2, <1>3, <3>1
  <2> QED BY <2>1, <2>2
<1>4. ASSUME NEW c \in Chans, NEW len \in Lengths, SendBinary(c, len)
      PROVE  [Fifo!Next]_<<sent, delivered, Chans \ handles>>
  <2>1. Payload(Len(sent[c]) + 1, len) \in Payloads
    <3>1. Len(sent[c]) + 1 \in 1..MaxSent
      BY <1>1, <1>4, RoomToSend DEF SendBinary
    <3> QED BY <3>1, PayloadType
  <2>2. Fifo!Send(c)
    BY <1>4, <2>1 DEF SendBinary, pageVars, Fifo!Send
  <2> QED BY <2>2 DEF Fifo!Next
<1>5. CASE ClientReceives
  <2> DEFINE m == Head(toClient)
  <2>1. /\ toClient # <<>> /\ UNCHANGED sent
        /\ m.t = "close" => OnClose(m)
        /\ m.t # "close" => OnBinary(m)
    BY <1>5 DEF ClientReceives
  <2>2. m \in Frame
    BY <1>1, <2>1
  <2> HIDE DEF m
  <2>3. CASE m.t = "close"
    BY <1>3, <2>1, <2>3 DEF OnClose
  <2>4. CASE m.t # "close" /\ ~(m.last /\ m.id \in handles)
    BY <1>2, <2>1, <2>4 DEF OnBinary
  <2>5. CASE m.t # "close" /\ m.last /\ m.id \in handles
    <3> DEFINE d == m.id
               i == Len(delivered[d]) + 1
               b == held[d] \o m.bytes
    <3>1. d \in Chans /\ InStep(d) /\ (Streams(d) \/ Ends(d))
      BY <1>1, <2>5 DEF StreamInv
    <3>2. PICK y : Carried(m, d, sent[d], Start(d), y)
      BY <1>1, <2>1, <3>1, HeadFollows DEF m
    <3>3. i \in 1..Len(sent[d]) /\ b = sent[d][i]
      BY <1>1, <2>2, <2>5, <3>1, <3>2, AssembledSoFar
    <3>4. Len(delivered[d]) < Len(sent[d])
      <4>1. Len(delivered[d]) \in Nat /\ Len(sent[d]) \in Nat
        BY <1>1, <3>1
      <4> HIDE DEF d
      <4> QED BY <3>3, <4>1
    <3>5. delivered' = [delivered EXCEPT ![d] = Append(@, b)] /\ UNCHANGED <<sent, handles>>
      BY <2>1, <2>5 DEF OnBinary
    <3>6. delivered' = [delivered EXCEPT ![d] = Append(@, sent[d][Len(@) + 1])]
      <4> HIDE DEF b
      <4> QED BY <3>3, <3>5
    <3>7. d \notin Chans \ handles
      BY <2>5
    <3>8. Fifo!Deliver(d)
      <4> HIDE DEF d
      <4> QED BY <3>4, <3>5, <3>6, <3>7 DEF Fifo!Deliver
    <3> QED BY <3>1, <3>8 DEF Fifo!Next
  <2> QED BY <2>3, <2>4, <2>5
<1>6. ASSUME NEW c \in Chans, CloseHandle(c)
      PROVE  [Fifo!Next]_<<sent, delivered, Chans \ handles>>
  BY <1>3, <1>6 DEF CloseHandle
<1>7. ASSUME NEW c \in Chans, ServiceCloses(c)
      PROVE  [Fifo!Next]_<<sent, delivered, Chans \ handles>>
  BY <1>2, <1>7 DEF ServiceCloses, CloseChannel, pageVars
<1>8. CASE SocketTakes
  BY <1>2, <1>8 DEF SocketTakes, pageVars
<1>9. CASE ServerReceives
  BY <1>2, <1>9 DEF ServerReceives, Took, CloseChannel, pageVars
<1> QED BY <1>2, <1>4, <1>5, <1>6, <1>7, <1>8, <1>9 DEF Next, vars, pageVars

\* Whatever is cut into slices, held back, spliced out and put together again
\* (session.ts 95-190, protocol.ts 250-330), every channel keeps the promise of
\* ChannelFifo: whole payloads, in order, once, none after the end.
THEOREM SlicesKeepOrder == Spec => ImplementsFifo
<1>1. Init => Fifo!Init
  BY DEF Init, Fifo!Init
<1>2. Init => BooksInv
  BY BooksInvInit
<1>3. Init => StreamInv
  BY SliceFlowAssumption, StreamInvInit
<1>4. BooksInv /\ [Next]_vars => BooksInv'
  BY BooksInvStep
<1>5. BooksInv /\ BooksInv' /\ StreamInv /\ [Next]_vars => StreamInv'
  BY StreamStep
<1>6. BooksInv /\ StreamInv /\ [Next]_vars => [Fifo!Next]_<<sent, delivered, Chans \ handles>>
  BY FifoStep
<1> QED BY <1>1, <1>2, <1>3, <1>4, <1>5, <1>6, PTL DEF Spec, ImplementsFifo, Fifo!Spec
=============================================================================
