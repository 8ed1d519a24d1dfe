--------------------------- MODULE Encoder_proofs ----------------------------
(***************************************************************************)
(* The way of PCM into AC-3.  First CodedChannel: what the decoder finds    *)
(* of a channel that AC3_encode_frame has coded, for every frame and every  *)
(* choice of offsets.  Then EncodeStream: what holds of stream_convert_pcm  *)
(* for every frame and buffer size, every length of input and every way a   *)
(* client cuts it up.                                                       *)
(***************************************************************************)
EXTENDS EncodeStream, CodedChannel,
        SequenceTheorems, FiniteSetTheorems, WellFoundedInduction, TLAPS

------------------------------------------------------------------------------
\* Loops.

\* A set of numbers that is not empty has a least one.
LEMMA LeastOf ==
  ASSUME NEW T \in SUBSET Nat, T # {}
  PROVE  Min(T) \in T /\ \A j \in T : Min(T) <= j
<1>1. PICK k \in T : \A j \in T : ~(<<j, k>> \in OpToRel(<, Nat))
  BY NatLessThanWellFounded, WFMin
<1>2. \A j \in T : k <= j
  <2> SUFFICES ASSUME NEW j \in T, j < k PROVE FALSE
    OBVIOUS
  <2>1. <<j, k>> \in OpToRel(<, Nat)
    BY DEF OpToRel
  <2> QED
    BY <1>1, <2>1
<1> QED
  BY <1>2 DEF Min

\* What Loop's function is at <<t, i, j>>, if run is what it is elsewhere.
Half(i, j) == (i + j) \div 2
Halved(body, run, t, i, j) ==
  IF i >= j THEN body[<<t, i>>]
  ELSE run[<<run[<<t, i, Half(i, j)>>], Half(i, j) + 1, j>>]
IsRun(S, body, I, run) ==
  run = [x \in S \X I \X I |-> Halved(body, run, x[1], x[2], x[3])]

\* Both halves are shorter.
LEMMA Halves ==
  ASSUME NEW i \in Int, NEW j \in Int, i < j
  PROVE  /\ Half(i, j) \in Int /\ i <= Half(i, j) /\ Half(i, j) < j
         /\ Half(i, j) - i < j - i /\ j - (Half(i, j) + 1) < j - i
  BY DEF Half

\* Loop is that function at the whole stretch, if there is such a function.
LEMMA LoopIsRun ==
  ASSUME NEW S, NEW body, NEW s, NEW first \in Int, NEW last \in Int, first <= last,
         \E run : IsRun(S, body, first..last, run)
  PROVE  \E run : /\ IsRun(S, body, first..last, run)
                  /\ Loop(S, body, s, first, last) = run[<<s, first, last>>]
<1> DEFINE f == CHOOSE run : IsRun(S, body, first..last, run)
<1>1. ~(first > last)
  OBVIOUS
<1>2. Loop(S, body, s, first, last) = f[<<s, first, last>>]
  BY <1>1, Zenon DEF Loop, IsRun, Halved, Half
<1>3. IsRun(S, body, first..last, f)
  BY Zenon
<1> QED
  BY <1>2, <1>3, Zenon

\* One step of the function.
LEMMA RunAt ==
  ASSUME NEW S, NEW body, NEW I, NEW run, IsRun(S, body, I, run),
         NEW t \in S, NEW i \in I, NEW j \in I
  PROVE  run[<<t, i, j>>] = Halved(body, run, t, i, j)
<1>1. <<t, i, j>> \in S \X I \X I
  OBVIOUS
<1> QED
  BY <1>1, Zenon DEF IsRun

\* Loop's function exists: it is told, for a stretch of indices, by shorter ones.
LEMMA RunsExist ==
  ASSUME NEW S, NEW first \in Int, NEW last \in Int,
         NEW body \in [S \X (first..last) -> S]
  PROVE  \E run : IsRun(S, body, first..last, run)
<1> DEFINE I == first..last
           Good(g, k) == \A t \in S, i \in I, j \in I :
             j - i < k => g[<<t, i, j>>] \in S /\ g[<<t, i, j>>] = Halved(body, g, t, i, j)
           bad == {k \in Nat : ~ \E g : Good(g, k)}
<1>1. I \subseteq Int /\ \A i \in I, j \in I, k \in Int : i <= k /\ k <= j => k \in I
  OBVIOUS
<1>2. \A t \in S, i \in I : body[<<t, i>>] \in S
  OBVIOUS
<1> HIDE DEF I
\* Functions that agree on the shorter stretches.
<1>3. ASSUME NEW k \in Int, NEW g, Good(g, k), NEW h,
             NEW t \in S, NEW i \in I, NEW j \in I, j - i <= k,
             \A u \in S, p \in I, q \in I : q - p < k => h[<<u, p, q>>] = g[<<u, p, q>>]
      PROVE  Halved(body, g, t, i, j) \in S /\ Halved(body, h, t, i, j) = Halved(body, g, t, i, j)
  <2>1. CASE i >= j
    BY <1>2, <2>1 DEF Halved
  <2>2. CASE i < j
    <3>1. /\ Half(i, j) \in Int /\ i <= Half(i, j) /\ Half(i, j) < j
          /\ Half(i, j) - i < j - i /\ j - (Half(i, j) + 1) < j - i
      BY <1>1, <2>2, Halves
    <3> DEFINE m == Half(i, j)
    <3> HIDE DEF m
    <3>2. m \in I /\ m + 1 \in I /\ m - i < k /\ j - (m + 1) < k
      BY <1>1, <1>3, <3>1 DEF m
    <3>3. g[<<t, i, m>>] \in S /\ h[<<t, i, m>>] = g[<<t, i, m>>]
      BY <1>3, <3>2
    <3>4. /\ g[<<g[<<t, i, m>>], m + 1, j>>] \in S
          /\ h[<<g[<<t, i, m>>], m + 1, j>>] = g[<<g[<<t, i, m>>], m + 1, j>>]
      BY <1>3, <3>2, <3>3
    <3>5. ~(i >= j)
      BY <1>1, <2>2
    <3> QED
      BY <3>3, <3>4, <3>5, Zenon DEF Halved, m
  <2> QED
    BY <1>1, <2>1, <2>2
<1>4. bad = {}
  <2> SUFFICES ASSUME bad # {} PROVE FALSE
    OBVIOUS
  <2> DEFINE k == Min(bad)
  <2>1. k \in bad /\ \A j \in bad : k <= j
    BY LeastOf
  <2> HIDE DEF k
  <2>2. k \in Nat /\ ~ \E g : Good(g, k)
    BY <2>1
  <2>3. PICK g : Good(g, k - 1)
    <3>1. CASE k = 0
      <4> PICK b : b = [x \in S \X I \X I |-> body[<<x[1], x[2]>>]]
        OBVIOUS
      <4>1. ASSUME NEW t \in S, NEW i \in I, NEW j \in I, j - i < k - 1
            PROVE  b[<<t, i, j>>] \in S /\ b[<<t, i, j>>] = Halved(body, b, t, i, j)
        <5>1. b[<<t, i, j>>] = body[<<t, i>>]
          OBVIOUS
        <5>2. i >= j
          BY <1>1, <3>1, <4>1
        <5> QED
          BY <1>2, <5>1, <5>2 DEF Halved
      <4> QED
        BY <4>1
    <3>2. CASE k # 0
      <4>1. k \in Nat
        BY <2>2
      <4>2. k - 1 \in Nat /\ ~(k <= k - 1)
        BY <3>2, <4>1
      <4>3. k - 1 \notin bad
        BY <2>1, <4>2
      <4> QED
        BY <4>2, <4>3
    <3> QED
      BY <3>1, <3>2
  <2> DEFINE h == [x \in S \X I \X I |->
                     IF x[3] - x[2] < k - 1 THEN g[x]
                     ELSE Halved(body, g, x[1], x[2], x[3])]
  <2>4. \A t \in S, i \in I, j \in I :
          h[<<t, i, j>>] = IF j - i < k - 1 THEN g[<<t, i, j>>] ELSE Halved(body, g, t, i, j)
    OBVIOUS
  <2> HIDE DEF h
  <2>5. Good(h, k)
    <3> SUFFICES ASSUME NEW t \in S, NEW i \in I, NEW j \in I, j - i < k
                 PROVE  h[<<t, i, j>>] \in S /\ h[<<t, i, j>>] = Halved(body, h, t, i, j)
      OBVIOUS
    <3>1. k - 1 \in Int /\ j - i <= k - 1
      BY <1>1, <2>2
    <3>2. \A u \in S, p \in I, q \in I : q - p < k - 1 => h[<<u, p, q>>] = g[<<u, p, q>>]
      BY <2>4
    <3>3. Halved(body, g, t, i, j) \in S /\ Halved(body, h, t, i, j) = Halved(body, g, t, i, j)
      <4> HIDE DEF Good
      <4> QED
        BY <1>3, <2>3, <3>1, <3>2
    <3>4. h[<<t, i, j>>] = Halved(body, g, t, i, j)
      <4>1. CASE j - i < k - 1
        BY <2>3, <2>4, <4>1
      <4>2. CASE ~(j - i < k - 1)
        BY <2>4, <4>2
      <4> QED
        BY <4>1, <4>2
    <3> QED
      BY <3>3, <3>4
  <2> QED
    BY <2>2, <2>5
<1>5. PICK n \in Nat : \A i \in I, j \in I : j - i < n
  <2>1. CASE first <= last
    <3>1. last - first + 1 \in Nat /\ \A i \in I, j \in I : j - i < last - first + 1
      BY <2>1 DEF I
    <3> QED
      BY <3>1
  <2>2. CASE ~(first <= last)
    <3>1. \A i \in I, j \in I : j - i < 0
      BY <2>2 DEF I
    <3> QED
      BY <3>1
  <2> QED
    BY <2>1, <2>2
<1>6. PICK g : Good(g, n)
  BY <1>4
<1> DEFINE h == [x \in S \X I \X I |-> g[x]]
<1>7. \A t \in S, i \in I, j \in I : h[<<t, i, j>>] = g[<<t, i, j>>]
  OBVIOUS
<1>8. \A t \in S, i \in I, j \in I : Halved(body, h, t, i, j) = g[<<t, i, j>>]
  <2> SUFFICES ASSUME NEW t \in S, NEW i \in I, NEW j \in I
               PROVE  Halved(body, h, t, i, j) = g[<<t, i, j>>]
    OBVIOUS
  <2>1. j - i < n /\ n \in Int
    BY <1>5
  <2>2. j - i <= n
    BY <1>1, <2>1
  <2>3. g[<<t, i, j>>] = Halved(body, g, t, i, j)
    BY <1>6, <2>1
  <2> HIDE DEF Good, h
  <2>4. \A u \in S, p \in I, q \in I : q - p < n => h[<<u, p, q>>] = g[<<u, p, q>>]
    BY <1>7
  <2>5. Halved(body, h, t, i, j) = Halved(body, g, t, i, j)
    BY <1>3, <1>6, <2>1, <2>2, <2>4, SMTT(30)
  <2> QED
    BY <2>3, <2>5
<1>9. h = [x \in S \X I \X I |-> Halved(body, h, x[1], x[2], x[3])]
  <2> SUFFICES ASSUME NEW x \in S \X I \X I
               PROVE  g[x] = Halved(body, h, x[1], x[2], x[3])
    BY Zenon
  <2>1. x[1] \in S /\ x[2] \in I /\ x[3] \in I /\ x = <<x[1], x[2], x[3]>>
    OBVIOUS
  <2> HIDE DEF h
  <2> QED
    BY <1>8, <2>1
<1> QED
  BY <1>9, Zenon DEF IsRun, I

\* The rule of the loop: what each iteration hands on to the next, the last one
\* leaves behind.
LEMMA LoopKeeps ==
  ASSUME NEW S, NEW first \in Int, NEW last \in Int, first <= last,
         NEW body \in [S \X (first..last) -> S], NEW s \in S, NEW J,
         s \in J[first - 1],
         \A i \in first..last, t \in S : t \in J[i - 1] => body[<<t, i>>] \in J[i]
  PROVE  Loop(S, body, s, first, last) \in S \intersect J[last]
<1> DEFINE I == first..last
<1>1. PICK run : IsRun(S, body, I, run) /\ Loop(S, body, s, first, last) = run[<<s, first, last>>]
  <2>1. \E run : IsRun(S, body, I, run)
    BY RunsExist
  <2> QED
    BY <2>1, LoopIsRun
<1>2. I \subseteq Int /\ \A i \in I, j \in I, k \in Int : i <= k /\ k <= j => k \in I
  OBVIOUS
<1>3. \A t \in S, i \in I : body[<<t, i>>] \in S /\ (t \in J[i - 1] => body[<<t, i>>] \in J[i])
  OBVIOUS
<1>4. first \in I /\ last \in I
  OBVIOUS
<1> HIDE DEF I
<1> DEFINE Good(k) == \A t \in S, i \in I, j \in I :
             i <= j /\ j - i < k /\ t \in J[i - 1] => run[<<t, i, j>>] \in S \intersect J[j]
           bad == {k \in Nat : ~Good(k)}
<1>5. bad = {}
  <2> SUFFICES ASSUME bad # {} PROVE FALSE
    OBVIOUS
  <2> DEFINE k == Min(bad)
  <2>1. k \in bad /\ \A j \in bad : k <= j
    BY LeastOf
  <2> HIDE DEF k
  <2>2. k \in Nat /\ ~Good(k)
    BY <2>1
  <2>3. PICK t \in S, i \in I, j \in I :
          i <= j /\ j - i < k /\ t \in J[i - 1] /\ run[<<t, i, j>>] \notin S \intersect J[j]
    BY <2>2
  <2>4. i \in Int /\ j \in Int
    BY <1>2
  <2>5. k - 1 \in Nat /\ ~(k <= k - 1)
    BY <2>2, <2>3, <2>4
  <2>6. Good(k - 1)
    <3>1. k - 1 \notin bad
      BY <2>1, <2>5
    <3> QED
      BY <2>5, <3>1
  <2>7. run[<<t, i, j>>] = Halved(body, run, t, i, j)
    BY <1>1, RunAt
  <2>8. CASE i >= j
    <3>1. i = j
      BY <2>3, <2>4, <2>8
    <3>2. run[<<t, i, j>>] = body[<<t, i>>]
      BY <2>7, <2>8 DEF Halved
    <3> QED
      BY <1>3, <2>3, <3>1, <3>2
  <2>9. CASE ~(i >= j)
    <3>1. /\ Half(i, j) \in Int /\ i <= Half(i, j) /\ Half(i, j) < j
          /\ Half(i, j) - i < j - i /\ j - (Half(i, j) + 1) < j - i
      BY <2>4, <2>9, Halves
    <3> DEFINE m == Half(i, j)
               u == run[<<t, i, m>>]
    <3> HIDE DEF m
    <3>2. m \in I /\ m + 1 \in I /\ i <= m /\ m + 1 <= j /\ m - i < k - 1 /\ j - (m + 1) < k - 1
          /\ (m + 1) - 1 = m
      BY <1>2, <2>2, <2>3, <2>4, <3>1 DEF m
    <3>3. u \in S \intersect J[m]
      BY <2>3, <2>6, <3>2
    <3> HIDE DEF u
    <3>4. run[<<u, m + 1, j>>] \in S \intersect J[j]
      BY <2>6, <3>2, <3>3
    <3>5. run[<<t, i, j>>] = run[<<u, m + 1, j>>]
      BY <2>7, <2>9, Zenon DEF Halved, u, m
    <3> QED
      BY <2>3, <3>4, <3>5
  <2> QED
    BY <2>8, <2>9
<1>6. last - first + 1 \in Nat /\ last - first < last - first + 1
  OBVIOUS
<1>7. Good(last - first + 1)
  BY <1>5, <1>6
<1>8. run[<<s, first, last>>] \in S \intersect J[last]
  BY <1>4, <1>6, <1>7
<1> QED
  BY <1>1, <1>8

------------------------------------------------------------------------------
\* One pass of encode_exp over the groups.

\* The exponents of n groups; and what a pass makes of them.
Arrays(n) == [1..n -> 0..24]
Bounds(n) == [1..n -> Int]
States(n) == [exp1 : Arrays(n), recurse : BOOLEAN]

\* As many exponents as groups.
LEMMA ArrayLength ==
  ASSUME NEW n \in Nat, NEW e \in Arrays(n)
  PROVE  Len(e) = n
  BY DEF Arrays

\* No exponent of a is above that of b.
AtMost(n, a, b) == \A k \in 1..n : a[k] <= b[k]
\* The steps of e up to group i are two at most.
Steps(e, i) == \A k \in 2..i : -2 <= e[k] - e[k - 1] /\ e[k] - e[k - 1] <= 2

\* The three cases of a step.
LEMMA LimitedIs ==
  ASSUME NEW n \in Nat, NEW s \in States(n), NEW i \in 2..n
  PROVE  LET a == s.exp1
         IN /\ a[i] - a[i - 1] > 2 =>
                 Limited(s, i) = [exp1 |-> [a EXCEPT ![i] = a[i - 1] + 2], recurse |-> s.recurse]
            /\ a[i] - a[i - 1] < -2 =>
                 Limited(s, i) = [exp1 |-> [a EXCEPT ![i - 1] = a[i] + 2], recurse |-> TRUE]
            /\ -2 <= a[i] - a[i - 1] /\ a[i] - a[i - 1] <= 2 => Limited(s, i) = s
<1>1. i - 1 \in 1..n /\ i \in 1..n
  OBVIOUS
<1>2. s.exp1[i] \in 0..24 /\ s.exp1[i - 1] \in 0..24
  BY <1>1 DEF States, Arrays
<1>3. s = [exp1 |-> s.exp1, recurse |-> s.recurse]
  BY DEF States
<1> QED
  BY <1>2, <1>3 DEF Limited

\* What a pass over e that has come to group i knows.
Knows(n, e, env, i, s) ==
  /\ AtMost(n, s.exp1, e) /\ AtMost(n, env, s.exp1)
  /\ s.recurse => \E k \in 1..n : s.exp1[k] < e[k]
  /\ ~s.recurse => Steps(s.exp1, i)

\* A step of a pass keeps what the pass knows, for one group more.
LEMMA StepKnows ==
  ASSUME NEW n \in Nat, NEW e \in Arrays(n), NEW env \in Bounds(n), Steps(env, n),
         NEW i \in 2..n, NEW s \in States(n), Knows(n, e, env, i - 1, s)
  PROVE  Limited(s, i) \in States(n) /\ Knows(n, e, env, i, Limited(s, i))
<1> DEFINE a == s.exp1
           t == Limited(s, i)
<1>1. i - 1 \in 1..n /\ i \in 1..n /\ i # i - 1
  OBVIOUS
<1>2. a \in Arrays(n) /\ s.recurse \in BOOLEAN /\ s = [exp1 |-> a, recurse |-> s.recurse]
  BY DEF States
<1>3. \A k \in 1..n : a[k] \in 0..24 /\ e[k] \in 0..24 /\ env[k] \in Int
  BY <1>2 DEF Arrays, Bounds
<1>4. /\ a[i] - a[i - 1] > 2 => t = [exp1 |-> [a EXCEPT ![i] = a[i - 1] + 2], recurse |-> s.recurse]
      /\ a[i] - a[i - 1] < -2 => t = [exp1 |-> [a EXCEPT ![i - 1] = a[i] + 2], recurse |-> TRUE]
      /\ -2 <= a[i] - a[i - 1] /\ a[i] - a[i - 1] <= 2 => t = s
  BY LimitedIs
<1>5. /\ \A k \in 1..n : a[k] <= e[k] /\ env[k] <= a[k]
      /\ s.recurse => \E k \in 1..n : a[k] < e[k]
      /\ ~s.recurse => Steps(a, i - 1)
  BY DEF Knows, AtMost
<1>6. -2 <= env[i] - env[i - 1] /\ env[i] - env[i - 1] <= 2
  BY DEF Steps
<1>7. a[i] \in 0..24 /\ a[i - 1] \in 0..24 /\ env[i] \in Int /\ env[i - 1] \in Int
  BY <1>1, <1>3
<1> HIDE DEF a, t
<1>8. CASE a[i] - a[i - 1] > 2
  <2> DEFINE b == [a EXCEPT ![i] = a[i - 1] + 2]
  <2>1. t.exp1 = b /\ t.recurse = s.recurse /\ t = [exp1 |-> b, recurse |-> s.recurse]
    BY <1>4, <1>8
  <2>2. \A k \in 1..n : b[k] = IF k = i THEN a[i - 1] + 2 ELSE a[k]
    BY <1>2 DEF Arrays
  <2>3. a[i - 1] + 2 \in 0..24 /\ a[i - 1] + 2 < a[i] /\ env[i] <= a[i - 1] + 2
    BY <1>1, <1>5, <1>6, <1>7, <1>8
  <2>4. b \in Arrays(n)
    BY <1>2, <2>3 DEF Arrays
  <2> HIDE DEF b
  <2>5. \A k \in 1..n : b[k] <= a[k] /\ env[k] <= b[k] /\ b[k] \in 0..24
    BY <1>3, <1>5, <2>2, <2>3
  <2>6. AtMost(n, b, e) /\ AtMost(n, env, b)
    BY <1>3, <1>5, <2>5 DEF AtMost
  <2>7. s.recurse => \E k \in 1..n : b[k] < e[k]
    BY <1>3, <1>5, <2>5
  <2>8. ASSUME ~s.recurse PROVE Steps(b, i)
    <3> SUFFICES ASSUME NEW k \in 2..i PROVE -2 <= b[k] - b[k - 1] /\ b[k] - b[k - 1] <= 2
      BY DEF Steps
    <3>1. k \in 1..n /\ k - 1 \in 1..n /\ k - 1 # i
      OBVIOUS
    <3>2. CASE k = i
      BY <1>7, <2>2, <3>1, <3>2
    <3>3. CASE k # i
      <4>1. k \in 2..(i - 1)
        BY <3>3
      <4> QED
        BY <1>5, <2>2, <2>8, <3>1, <3>3, <4>1 DEF Steps
    <3> QED
      BY <3>2, <3>3
  <2> QED
    BY <1>2, <2>1, <2>4, <2>6, <2>7, <2>8 DEF Knows, States, t
<1>9. CASE a[i] - a[i - 1] < -2
  <2> DEFINE b == [a EXCEPT ![i - 1] = a[i] + 2]
  <2>1. t.exp1 = b /\ t.recurse = TRUE /\ t = [exp1 |-> b, recurse |-> TRUE]
    BY <1>4, <1>9
  <2>2. \A k \in 1..n : b[k] = IF k = i - 1 THEN a[i] + 2 ELSE a[k]
    BY <1>2 DEF Arrays
  <2>3. a[i] + 2 \in 0..24 /\ a[i] + 2 < a[i - 1] /\ env[i - 1] <= a[i] + 2
    BY <1>1, <1>5, <1>6, <1>7, <1>9
  <2>4. b \in Arrays(n)
    BY <1>2, <2>3 DEF Arrays
  <2> HIDE DEF b
  <2>5. \A k \in 1..n : b[k] <= a[k] /\ env[k] <= b[k] /\ b[k] \in 0..24
    BY <1>3, <1>5, <2>2, <2>3
  <2>6. AtMost(n, b, e) /\ AtMost(n, env, b)
    BY <1>3, <1>5, <2>5 DEF AtMost
  <2>7. \E k \in 1..n : b[k] < e[k]
    <3>1. b[i - 1] < a[i - 1] /\ a[i - 1] <= e[i - 1] /\ e[i - 1] \in 0..24
      BY <1>1, <1>3, <1>5, <2>2, <2>3
    <3>2. b[i - 1] < e[i - 1]
      BY <1>1, <1>7, <2>5, <3>1
    <3> QED
      BY <1>1, <3>2
  <2> QED
    BY <2>1, <2>4, <2>6, <2>7 DEF Knows, States, t
<1>10. CASE -2 <= a[i] - a[i - 1] /\ a[i] - a[i - 1] <= 2
  <2>1. t = s
    BY <1>4, <1>10
  <2>2. ASSUME ~s.recurse PROVE Steps(a, i)
    BY <1>5, <1>10, <2>2 DEF Steps
  <2> QED
    BY <1>5, <2>1, <2>2 DEF Knows, AtMost, t, a
<1> QED
  BY <1>7, <1>8, <1>9, <1>10 DEF t

\* A pass lowers exponents, and none below what has small steps everywhere; if it
\* calls for another it has lowered one, and if not its steps are small.
LEMMA PassKnows ==
  ASSUME NEW n \in Nat, 2 <= n, NEW e \in Arrays(n),
         NEW env \in Bounds(n), Steps(env, n), AtMost(n, env, e)
  PROVE  Pass(e) \in States(n) /\ Knows(n, e, env, n, Pass(e))
<1> DEFINE S == States(n)
           body == [x \in S \X (2..n) |-> Limited(x[1], x[2])]
           start == [exp1 |-> e, recurse |-> FALSE]
           J == [i \in 1..n |-> {s \in S : Knows(n, e, env, i, s)}]
<1>1. Pass(e) = Loop(S, body, start, 2, n)
  <2>1. Len(e) = n
    BY ArrayLength
  <2> QED
    BY <2>1, Zenon DEF Pass, States, Arrays
<1>2. start \in S /\ Knows(n, e, env, 1, start)
  <2>1. ASSUME NEW k \in 1..n PROVE e[k] <= e[k]
    <3>1. e[k] \in 0..24
      BY DEF Arrays
    <3> QED
      BY <3>1
  <2>2. ~(start.recurse) /\ start.exp1 = e
    OBVIOUS
  <2>3. Steps(e, 1)
    BY DEF Steps
  <2> QED
    BY <2>1, <2>2, <2>3 DEF States, Knows, AtMost
<1>3. start \in J[2 - 1]
  BY <1>2
<1>4. \A i \in 2..n, s \in S : body[<<s, i>>] = Limited(s, i)
  OBVIOUS
<1>5. \A i \in 2..n : J[i] = {s \in S : Knows(n, e, env, i, s)}
                      /\ J[i - 1] = {s \in S : Knows(n, e, env, i - 1, s)}
  <2> TAKE i \in 2..n
  <2>1. i \in 1..n /\ i - 1 \in 1..n
    OBVIOUS
  <2> QED
    BY <2>1
<1> HIDE DEF start, J, S
<1>6. ASSUME NEW s \in S, NEW i \in 2..n PROVE Limited(s, i) \in S
  <2> DEFINE low == [k \in 1..n |-> 0]
  <2>1. Limited(s, i) \in States(n)
    <3>1. i - 1 \in 1..n /\ i \in 1..n
      OBVIOUS
    <3>2. s.exp1 \in Arrays(n) /\ s.recurse \in BOOLEAN /\ s \in States(n)
      BY DEF S, States
    <3>3. s.exp1[i] \in 0..24 /\ s.exp1[i - 1] \in 0..24
      BY <3>1, <3>2 DEF Arrays
    <3>4. CASE s.exp1[i] - s.exp1[i - 1] > 2
      <4>1. s.exp1[i - 1] + 2 \in 0..24
        BY <3>3, <3>4
      <4>2. Limited(s, i) = [exp1 |-> [s.exp1 EXCEPT ![i] = s.exp1[i - 1] + 2], recurse |-> s.recurse]
        BY <3>2, <3>4, LimitedIs
      <4> QED
        BY <3>2, <4>1, <4>2 DEF States, Arrays
    <3>5. CASE s.exp1[i] - s.exp1[i - 1] < -2
      <4>1. s.exp1[i] + 2 \in 0..24
        BY <3>3, <3>5
      <4>2. Limited(s, i) = [exp1 |-> [s.exp1 EXCEPT ![i - 1] = s.exp1[i] + 2], recurse |-> TRUE]
        BY <3>2, <3>5, LimitedIs
      <4> QED
        BY <3>2, <4>1, <4>2 DEF States, Arrays
    <3>6. CASE -2 <= s.exp1[i] - s.exp1[i - 1] /\ s.exp1[i] - s.exp1[i - 1] <= 2
      <4>1. Limited(s, i) = s
        BY <3>2, <3>6, LimitedIs
      <4> QED
        BY <3>2, <4>1
    <3> QED
      BY <3>3, <3>4, <3>5, <3>6
  <2> QED
    BY <2>1 DEF S
<1>7. body \in [S \X (2..n) -> S]
  BY <1>6
<1> HIDE DEF body
<1>8. ASSUME NEW i \in 2..n, NEW s \in S, s \in J[i - 1] PROVE body[<<s, i>>] \in J[i]
  <2>1. Knows(n, e, env, i - 1, s)
    BY <1>5, <1>8
  <2>2. Limited(s, i) \in States(n) /\ Knows(n, e, env, i, Limited(s, i))
    BY <2>1, StepKnows DEF S
  <2> QED
    BY <1>4, <1>5, <2>2 DEF S
<1>9. Loop(S, body, start, 2, n) \in S \intersect J[n]
  <2>1. n \in Int /\ 2 \in Int /\ 2 <= n /\ start \in S
    BY <1>2
  <2>2. \A i \in 2..n, t \in S : t \in J[i - 1] => body[<<t, i>>] \in J[i]
    BY <1>8
  <2> QED
    BY <2>1, <2>2, <1>3, <1>7, LoopKeeps, Zenon
<1>10. n \in 2..n
  OBVIOUS
<1> QED
  BY <1>1, <1>5, <1>9, <1>10 DEF S

------------------------------------------------------------------------------
\* The passes until the steps are small.

\* What Constrain's function is at e, if f is what it is elsewhere.
Settling(f, e) == LET pass == Pass(e) IN IF pass.recurse THEN f[pass.exp1] ELSE pass.exp1

\* How far exponents can be lowered: what a pass before another one makes less.
Room(n, e) == {x \in (1..n) \X (0..24) : x[2] < e[x[1]]}
Height(n, e) == Cardinality(Room(n, e))

\* n groups, each with 25 exponents.
LEMMA CellsAreFinite ==
  ASSUME NEW n \in Nat
  PROVE  IsFiniteSet((1..n) \X (0..24))
<1>1. n \in Int /\ 1 \in Int /\ 0 \in Int /\ 24 \in Int
  OBVIOUS
<1>2. IsFiniteSet(1..n)
  BY <1>1, FS_Interval, Zenon
<1>3. IsFiniteSet(0..24)
  BY <1>1, FS_Interval, Zenon
<1> QED
  BY <1>2, <1>3, FS_Product

\* The height is a number.
LEMMA Heights ==
  ASSUME NEW n \in Nat, NEW e \in Arrays(n)
  PROVE  IsFiniteSet(Room(n, e)) /\ Height(n, e) \in Nat
<1>2. IsFiniteSet((1..n) \X (0..24))
  BY CellsAreFinite
<1>3. IsFiniteSet(Room(n, e))
  BY <1>2, FS_Subset DEF Room
<1> QED
  BY <1>3, FS_CardinalityType DEF Height

\* Exponents of which one is lower and none higher have less of it.
LEMMA LowerIsLess ==
  ASSUME NEW n \in Nat, NEW e \in Arrays(n), NEW d \in Arrays(n), AtMost(n, d, e),
         NEW k \in 1..n, d[k] < e[k]
  PROVE  Height(n, d) < Height(n, e)
<1>1. \A i \in 1..n : d[i] \in 0..24 /\ e[i] \in 0..24 /\ d[i] <= e[i]
  BY DEF Arrays, AtMost
<1>2. Room(n, d) \subseteq Room(n, e)
  <2> SUFFICES ASSUME NEW i \in 1..n, NEW x \in 0..24, x < d[i] PROVE x < e[i]
    BY DEF Room
  <2> QED
    BY <1>1
<1>3. <<k, d[k]>> \in Room(n, e) /\ <<k, d[k]>> \notin Room(n, d)
  <2>1. d[k] \in 0..24 /\ ~(d[k] < d[k])
    BY <1>1
  <2> QED
    BY <2>1 DEF Room
<1>4. IsFiniteSet(Room(n, e)) /\ Height(n, e) \in Nat /\ Height(n, d) \in Nat
  BY Heights
<1>5. /\ Cardinality(Room(n, d)) <= Cardinality(Room(n, e))
      /\ Cardinality(Room(n, e)) = Cardinality(Room(n, d)) => Room(n, e) = Room(n, d)
  BY <1>2, <1>4, FS_Subset
<1>6. Height(n, d) <= Height(n, e) /\ Height(n, d) # Height(n, e)
  BY <1>3, <1>5, Zenon DEF Height
<1> QED
  BY <1>4, <1>6

\* What PassKnows says without exponents to compare with.
LEMMA PassIs ==
  ASSUME NEW n \in Nat, 2 <= n, NEW e \in Arrays(n)
  PROVE  /\ Pass(e).exp1 \in Arrays(n) /\ AtMost(n, Pass(e).exp1, e)
         /\ Pass(e).recurse => Height(n, Pass(e).exp1) < Height(n, e)
         /\ ~Pass(e).recurse => Steps(Pass(e).exp1, n)
<1> DEFINE none == [k \in 1..n |-> 0]
<1>1. none \in Bounds(n) /\ \A k \in 1..n : none[k] = 0
  BY DEF Bounds
<1> HIDE DEF none
<1>2. Steps(none, n)
  <2>1. \A k \in 2..n : k \in 1..n /\ k - 1 \in 1..n
    OBVIOUS
  <2> QED
    BY <1>1, <2>1 DEF Steps
<1>3. AtMost(n, none, e)
  <2>1. \A k \in 1..n : e[k] \in 0..24
    BY DEF Arrays
  <2> QED
    BY <1>1, <2>1 DEF AtMost
<1>4. Pass(e) \in States(n) /\ Knows(n, e, none, n, Pass(e))
  BY <1>1, <1>2, <1>3, PassKnows
<1>5. Pass(e).exp1 \in Arrays(n) /\ AtMost(n, Pass(e).exp1, e)
  BY <1>4 DEF States, Knows
<1>6. Pass(e).recurse => \E k \in 1..n : Pass(e).exp1[k] < e[k]
  BY <1>4 DEF Knows
<1>7. Pass(e).recurse => Height(n, Pass(e).exp1) < Height(n, e)
  BY <1>5, <1>6, LowerIsLess
<1> QED
  BY <1>4, <1>5, <1>7 DEF Knows

\* Constrain's function exists.
LEMMA SettledExists ==
  ASSUME NEW n \in Nat, 2 <= n
  PROVE  \E f : f = [e \in Arrays(n) |-> Settling(f, e)]
<1> DEFINE Good(g, k) == \A e \in Arrays(n) : Height(n, e) < k => g[e] = Settling(g, e)
           bad == {k \in Nat : ~ \E g : Good(g, k)}
<1>1. \A e \in Arrays(n) : Height(n, e) \in Nat
  BY Heights
\* Functions that agree on what is lower.
<1>2. ASSUME NEW g, NEW h, NEW k \in Nat, NEW e \in Arrays(n), Height(n, e) <= k,
             \A d \in Arrays(n) : Height(n, d) < k => h[d] = g[d]
      PROVE  Settling(h, e) = Settling(g, e)
  <2> DEFINE d == Pass(e).exp1
  <2>1. d \in Arrays(n) /\ (Pass(e).recurse => Height(n, d) < Height(n, e))
    BY PassIs
  <2>2. CASE Pass(e).recurse
    <3>1. Height(n, d) < k
      BY <1>1, <1>2, <2>1, <2>2
    <3>2. h[d] = g[d]
      BY <1>2, <2>1, <3>1
    <3> QED
      BY <2>2, <3>2, Zenon DEF Settling
  <2>3. CASE ~Pass(e).recurse
    BY <2>3, Zenon DEF Settling
  <2> QED
    BY <2>2, <2>3
<1>3. bad = {}
  <2> SUFFICES ASSUME bad # {} PROVE FALSE
    OBVIOUS
  <2> DEFINE k == Min(bad)
  <2>1. k \in bad /\ \A j \in bad : k <= j
    BY LeastOf
  <2> HIDE DEF k
  <2>2. k \in Nat /\ ~ \E g : Good(g, k)
    BY <2>1
  <2>3. PICK g : Good(g, k - 1)
    <3>1. CASE k = 0
      <4>1. \A g : Good(g, k - 1)
        BY <1>1, <3>1
      <4> QED
        BY <4>1
    <3>2. CASE k # 0
      <4>1. k \in Nat
        BY <2>2
      <4>2. k - 1 \in Nat /\ ~(k <= k - 1)
        BY <3>2, <4>1
      <4>3. k - 1 \notin bad
        BY <2>1, <4>2
      <4> QED
        BY <4>2, <4>3
    <3> QED
      BY <3>1, <3>2
  <2>4. k # 0
    <3>1. k = 0 => Good(g, k)
      BY <1>1
    <3> QED
      BY <2>2, <3>1
  <2> DEFINE h == [e \in Arrays(n) |-> IF Height(n, e) < k - 1 THEN g[e] ELSE Settling(g, e)]
  <2>5. /\ \A e \in Arrays(n) : Height(n, e) < k - 1 => h[e] = g[e]
        /\ \A e \in Arrays(n) : ~(Height(n, e) < k - 1) => h[e] = Settling(g, e)
    OBVIOUS
  <2> HIDE DEF h
  <2>6. Good(h, k)
    <3> SUFFICES ASSUME NEW e \in Arrays(n), Height(n, e) < k
                 PROVE  h[e] = Settling(h, e)
      OBVIOUS
    <3>1. k - 1 \in Nat /\ Height(n, e) <= k - 1
      BY <1>1, <2>2, <2>4
    <3>2. Settling(h, e) = Settling(g, e)
      <4> HIDE DEF Good
      <4> QED
        BY <1>2, <2>5, <3>1
    <3>3. h[e] = Settling(g, e)
      BY <2>3, <2>5
    <3> QED
      BY <3>2, <3>3
  <2> QED
    BY <2>2, <2>6
<1>4. PICK top \in Nat : \A e \in Arrays(n) : Height(n, e) < top
  <2> DEFINE all == (1..n) \X (0..24)
  <2>2. IsFiniteSet(all)
    BY CellsAreFinite
  <2>3. Cardinality(all) \in Nat
    BY <2>2, FS_CardinalityType
  <2>4. \A e \in Arrays(n) : Height(n, e) <= Cardinality(all)
    BY <2>2, FS_Subset DEF Height, Room
  <2>5. \A e \in Arrays(n) : Height(n, e) < Cardinality(all) + 1
    BY <1>1, <2>3, <2>4
  <2> QED
    BY <2>3, <2>5
<1>5. PICK g : Good(g, top)
  BY <1>3
<1> DEFINE f == [e \in Arrays(n) |-> g[e]]
<1>6. \A e \in Arrays(n) : f[e] = g[e]
  OBVIOUS
<1> HIDE DEF f
<1>7. \A e \in Arrays(n) : g[e] = Settling(f, e)
  <2> SUFFICES ASSUME NEW e \in Arrays(n) PROVE g[e] = Settling(f, e)
    OBVIOUS
  <2>1. g[e] = Settling(g, e)
    BY <1>4, <1>5
  <2>2. Height(n, e) <= top
    BY <1>1, <1>4
  <2>3. Settling(f, e) = Settling(g, e)
    BY <1>2, <1>6, <2>2
  <2> QED
    BY <2>1, <2>3
<1>8. f = [e \in Arrays(n) |-> Settling(f, e)]
  BY <1>7 DEF f
<1> QED
  BY <1>8

\* The largest exponents with small steps that are not above e.
Fits(n, e, d) ==
  /\ d \in Arrays(n) /\ AtMost(n, d, e) /\ Steps(d, n)
  /\ \A env \in Bounds(n) : Steps(env, n) /\ AtMost(n, env, e) => AtMost(n, env, d)

\* AtMost is transitive.
LEMMA AtMostTransitive ==
  ASSUME NEW n \in Nat, NEW a \in Arrays(n), NEW b \in Arrays(n), NEW c \in Arrays(n),
         AtMost(n, a, b), AtMost(n, b, c)
  PROVE  AtMost(n, a, c)
<1>1. \A k \in 1..n : a[k] \in 0..24 /\ b[k] \in 0..24 /\ c[k] \in 0..24
  BY DEF Arrays
<1> QED
  BY <1>1 DEF AtMost

\* Those are what Constrain finds.
LEMMA ConstrainFits ==
  ASSUME NEW n \in Nat, 2 <= n, NEW exp1 \in Arrays(n)
  PROVE  Fits(n, exp1, Constrain(exp1))
<1> DEFINE f == CHOOSE g : g = [e \in Arrays(n) |-> Settling(g, e)]
<1>1. Constrain(exp1) = f[exp1]
  <2>1. Len(exp1) = n
    BY ArrayLength
  <2> QED
    BY <2>1, Zenon DEF Constrain, Settling, Arrays
<1>2. f = [e \in Arrays(n) |-> Settling(f, e)]
  BY SettledExists, Zenon
<1> HIDE DEF f
<1>3. \A e \in Arrays(n) : f[e] = Settling(f, e)
  BY <1>2, Zenon
<1> DEFINE bad == {k \in Nat : \E e \in Arrays(n) : Height(n, e) = k /\ ~Fits(n, e, f[e])}
<1>4. \A e \in Arrays(n) : Height(n, e) \in Nat
  BY Heights
<1>5. ASSUME NEW e \in Arrays(n),
             \A d \in Arrays(n) : Height(n, d) < Height(n, e) => Fits(n, d, f[d])
      PROVE  Fits(n, e, f[e])
  <2> DEFINE d == Pass(e).exp1
  <2>1. /\ d \in Arrays(n) /\ AtMost(n, d, e)
        /\ Pass(e).recurse => Height(n, d) < Height(n, e)
        /\ ~Pass(e).recurse => Steps(d, n)
    BY PassIs
  <2>2. \A env \in Bounds(n) : Steps(env, n) /\ AtMost(n, env, e) => AtMost(n, env, d)
    <3> SUFFICES ASSUME NEW env \in Bounds(n), Steps(env, n), AtMost(n, env, e)
                 PROVE  AtMost(n, env, d)
      OBVIOUS
    <3>1. Knows(n, e, env, n, Pass(e))
      BY PassKnows
    <3> QED
      BY <3>1 DEF Knows
  <2>3. CASE Pass(e).recurse
    <3>1. f[e] = f[d]
      BY <1>3, <2>3, Zenon DEF Settling
    <3>2. Fits(n, d, f[d])
      BY <1>5, <2>1, <2>3
    <3>3. AtMost(n, f[d], e)
      BY <2>1, <3>2, AtMostTransitive DEF Fits
    <3>4. \A env \in Bounds(n) : Steps(env, n) /\ AtMost(n, env, e) => AtMost(n, env, f[d])
      BY <2>2, <3>2, Zenon DEF Fits
    <3> QED
      BY <3>1, <3>2, <3>3, <3>4, Zenon DEF Fits
  <2>4. CASE ~Pass(e).recurse
    <3>1. f[e] = d
      BY <1>3, <2>4, Zenon DEF Settling
    <3> QED
      BY <2>1, <2>2, <2>4, <3>1, Zenon DEF Fits
  <2> QED
    BY <2>3, <2>4
<1>6. bad = {}
  <2> SUFFICES ASSUME bad # {} PROVE FALSE
    OBVIOUS
  <2> DEFINE k == Min(bad)
  <2>1. k \in bad /\ \A j \in bad : k <= j
    BY LeastOf
  <2> HIDE DEF k
  <2>2. PICK e \in Arrays(n) : Height(n, e) = k /\ ~Fits(n, e, f[e])
    BY <2>1
  <2>3. \A d \in Arrays(n) : Height(n, d) < Height(n, e) => Fits(n, d, f[d])
    <3> SUFFICES ASSUME NEW d \in Arrays(n), Height(n, d) < Height(n, e), ~Fits(n, d, f[d])
                 PROVE  FALSE
      OBVIOUS
    <3>1. Height(n, d) \in bad
      BY <1>4
    <3>2. k <= Height(n, d)
      BY <2>1, <3>1
    <3> QED
      BY <1>4, <2>2, <3>2
  <2> QED
    BY <1>5, <2>2, <2>3
<1>7. Fits(n, exp1, f[exp1])
  BY <1>4, <1>6
<1> QED
  BY <1>1, <1>7, Zenon

------------------------------------------------------------------------------
\* The codes of the exponents.

\* The channels and strategies there are, and how many groups they make.
Coded(nb, strategy) ==
  nb \in {7, 223} /\ strategy \in {EXP_D15, EXP_D25, EXP_D45} /\ (nb = 7 => strategy = EXP_D15)
Groups(nb, strategy) == 3 * nb_groups(nb, group_size(strategy))

\* The groups cover the channel and stay in its array.
LEMMA Sizes ==
  ASSUME NEW nb, NEW strategy, Coded(nb, strategy)
  PROVE  /\ group_size(strategy) \in {1, 2, 4}
         /\ nb_groups(nb, group_size(strategy)) \in {2, 19, 37, 74}
         /\ nb <= 1 + Groups(nb, strategy) * group_size(strategy)
         /\ 1 + Groups(nb, strategy) * group_size(strategy) <= Coefficients
<1>1. group_size(1) = 1 /\ group_size(2) = 2 /\ group_size(3) = 4
  BY DEF group_size
<1>2. nb_groups(7, 1) = 2 /\ nb_groups(223, 1) = 74
      /\ nb_groups(223, 2) = 37 /\ nb_groups(223, 4) = 19
  BY DEF nb_groups
<1>3. \/ nb = 7 /\ strategy = 1
      \/ nb = 223 /\ strategy = 1
      \/ nb = 223 /\ strategy = 2
      \/ nb = 223 /\ strategy = 3
  BY DEF Coded, EXP_D15, EXP_D25, EXP_D45
<1> QED
  BY <1>1, <1>2, <1>3 DEF Groups, Coefficients

\* The exponents of the groups.
LEMMA SpreadAt ==
  ASSUME NEW n \in Nat, 1 <= n, NEW c \in Arrays(n), NEW size \in {1, 2, 4}
  PROVE  /\ Spread(c, size) = [k \in 1..(1 + (n - 1) * size) |->
              IF k = 1 THEN c[1] ELSE c[2 + (k - 2) \div size]]
         /\ Spread(c, size)[1] = c[1]
         /\ \A i \in 1..(n - 1) : Spread(c, size)[2 + (i - 1) * size] = c[i + 1]
<1> DEFINE length == 1 + (n - 1) * size
<1>1. Len(c) = n
  BY ArrayLength
<1>2. Spread(c, size) = [k \in 1..length |-> IF k = 1 THEN c[1] ELSE c[2 + (k - 2) \div size]]
  BY <1>1, Zenon DEF Spread
<1>3. 1 \in 1..length /\ \A i \in 1..(n - 1) : 2 + (i - 1) * size \in 2..length
  <2>1. CASE size = 1
    BY <2>1
  <2>2. CASE size = 2
    BY <2>2
  <2>3. CASE size = 4
    BY <2>3
  <2> QED
    BY <2>1, <2>2, <2>3
<1>4. \A i \in 1..(n - 1) : 2 + ((2 + (i - 1) * size) - 2) \div size = i + 1
  <2>1. CASE size = 1
    BY <2>1
  <2>2. CASE size = 2
    BY <2>2
  <2>3. CASE size = 4
    BY <2>3
  <2> QED
    BY <2>1, <2>2, <2>3
<1> HIDE DEF length
<1>5. Spread(c, size)[1] = c[1]
  BY <1>2, <1>3
<1>6. ASSUME NEW i \in 1..(n - 1) PROVE Spread(c, size)[2 + (i - 1) * size] = c[i + 1]
  <2> DEFINE k == 2 + (i - 1) * size
  <2>1. k \in 2..length /\ 2 + (k - 2) \div size = i + 1
    BY <1>3, <1>4
  <2> HIDE DEF k
  <2>2. k \in 1..length /\ k # 1
    BY <2>1 DEF length
  <2>3. Spread(c, size)[k] = c[2 + (k - 2) \div size]
    BY <1>2, <2>2
  <2> QED
    BY <2>1, <2>3, Zenon DEF k
<1> QED
  BY <1>2, <1>5, <1>6, Zenon DEF length

\* The tables of the decoder take the codes apart.
LEMMA Triples ==
  ASSUME NEW x \in 0..4, NEW y \in 0..4, NEW z \in 0..4
  PROVE  /\ exp_1((x * 5 + y) * 5 + z) = x - 2
         /\ exp_2((x * 5 + y) * 5 + z) = y - 2
         /\ exp_3((x * 5 + y) * 5 + z) = z - 2
<1> DEFINE code == (x * 5 + y) * 5 + z
<1>1. code \in 0..124
  OBVIOUS
<1>2. code \div 25 = x
  OBVIOUS
<1>3. code \div 5 = x * 5 + y
  OBVIOUS
<1>4. (x * 5 + y) % 5 = y
  OBVIOUS
<1>5. code % 5 = z
  OBVIOUS
<1> HIDE DEF code
<1>6. code < 125
  BY <1>1
<1>7. exp_1(code) = x - 2 /\ exp_2(code) = y - 2 /\ exp_3(code) = z - 2
  BY <1>2, <1>3, <1>4, <1>5, <1>6 DEF exp_1, exp_2, exp_3
<1> QED
  BY <1>7 DEF code

\* What Codes sends of the exponents c of the groups.
LEMMA CodesAre ==
  ASSUME NEW nb, NEW strategy, Coded(nb, strategy),
         NEW c \in Arrays(1 + Groups(nb, strategy))
  PROVE  LET m == nb_groups(nb, group_size(strategy))
             codes == Codes(Spread(c, group_size(strategy)), nb, strategy)
             d(i) == c[i + 1] - c[i] + 2
         IN /\ codes = [g \in 1..m |-> (d(3 * g - 2) * 5 + d(3 * g - 1)) * 5 + d(3 * g)]
            /\ Len(codes) = m
<1> DEFINE size == group_size(strategy)
           m == nb_groups(nb, size)
           n == 1 + 3 * m
           encoded == Spread(c, size)
           e(i) == IF i = 0 THEN encoded[1] ELSE encoded[2 + (i - 1) * size]
           codes == Codes(encoded, nb, strategy)
           d(i) == c[i + 1] - c[i] + 2
<1>1. size \in {1, 2, 4} /\ m \in Nat /\ n = 1 + Groups(nb, strategy) /\ n \in Nat /\ 1 <= n
  BY Sizes DEF Groups
<1>2. codes = [g \in 1..m |->
         ((e(3 * g - 2) - e((3 * g - 2) - 1) + 2) * 5 + (e(3 * g - 1) - e((3 * g - 1) - 1) + 2)) * 5
           + (e(3 * g) - e(3 * g - 1) + 2)]
  BY Zenon DEF Codes
<1> HIDE DEF size, m, codes
<1>3. encoded[1] = c[1] /\ \A i \in 1..(n - 1) : encoded[2 + (i - 1) * size] = c[i + 1]
  <2> HIDE DEF n
  <2>1. c \in Arrays(n)
    BY <1>1
  <2>2. encoded[1] = c[1]
    BY <1>1, <2>1, SpreadAt
  <2>3. \A i \in 1..(n - 1) : encoded[2 + (i - 1) * size] = c[i + 1]
    BY <1>1, <2>1, SpreadAt
  <2> QED
    BY <2>2, <2>3
<1> HIDE DEF encoded
<1>4. \A i \in 0..(n - 1) : e(i) = c[i + 1]
  <2> SUFFICES ASSUME NEW i \in 0..(n - 1) PROVE e(i) = c[i + 1]
    OBVIOUS
  <2>1. CASE i = 0
    BY <1>3, <2>1
  <2>2. CASE i # 0
    <3>1. i \in 1..(n - 1)
      BY <2>2
    <3> QED
      BY <1>3, <2>2, <3>1
  <2> QED
    BY <2>1, <2>2
<1> HIDE DEF e
<1>5. ASSUME NEW g \in 1..m
      PROVE  /\ e(3 * g - 2) = c[3 * g - 1] /\ e((3 * g - 2) - 1) = c[3 * g - 2]
             /\ e(3 * g - 1) = c[3 * g] /\ e((3 * g - 1) - 1) = c[3 * g - 1]
             /\ e(3 * g) = c[3 * g + 1]
  <2>1. /\ 3 * g - 2 \in 0..(n - 1) /\ (3 * g - 2) - 1 \in 0..(n - 1)
        /\ 3 * g - 1 \in 0..(n - 1) /\ (3 * g - 1) - 1 \in 0..(n - 1) /\ 3 * g \in 0..(n - 1)
    BY <1>1
  <2>2. /\ 3 * g - 2 + 1 = 3 * g - 1 /\ (3 * g - 2) - 1 + 1 = 3 * g - 2
        /\ 3 * g - 1 + 1 = 3 * g /\ (3 * g - 1) - 1 + 1 = 3 * g - 1
    BY <1>1
  <2> HIDE DEF n
  <2> QED
    BY <1>4, <2>1, <2>2
<1>6. ASSUME NEW g \in 1..m
      PROVE  /\ d(3 * g - 2) = c[3 * g - 1] - c[3 * g - 2] + 2
             /\ d(3 * g - 1) = c[3 * g] - c[3 * g - 1] + 2
             /\ d(3 * g) = c[3 * g + 1] - c[3 * g] + 2
  <2>1. 3 * g - 2 + 1 = 3 * g - 1 /\ 3 * g - 1 + 1 = 3 * g
    BY <1>1
  <2> QED
    BY <2>1
<1> HIDE DEF d
<1>7. codes = [g \in 1..m |-> (d(3 * g - 2) * 5 + d(3 * g - 1)) * 5 + d(3 * g)]
  BY <1>2, <1>5, <1>6
<1>8. Len(codes) = m
  BY <1>1, <1>7
<1> QED
  BY <1>7, <1>8, Zenon DEF codes, encoded, m, size, d

\* The decoder adds up the differences: it finds the exponents of the groups.
LEMMA ParseInverts ==
  ASSUME NEW nb, NEW strategy, Coded(nb, strategy),
         NEW c \in Arrays(1 + Groups(nb, strategy)), Steps(c, 1 + Groups(nb, strategy))
  PROVE  parse_exponents(strategy, Codes(Spread(c, group_size(strategy)), nb, strategy), c[1])
           = Spread(c, group_size(strategy))
<1> DEFINE size == group_size(strategy)
           m == nb_groups(nb, size)
           codes == Codes(Spread(c, size), nb, strategy)
           n == 3 * Len(codes)
           d(i) == c[i + 1] - c[i] + 2
           S == [0..n -> 0..255]
           change(i) == LET code == codes[((i - 1) \div 3) + 1]
                        IN <<exp_1(code), exp_2(code), exp_3(code)>>[((i - 1) % 3) + 1]
           body == [x \in S \X (1..n) |->
                      [x[1] EXCEPT ![x[2]] = (x[1][x[2] - 1] + change(x[2])) % 256]]
           start == [i \in 0..n |-> c[1]]
           after == Loop(S, body, start, 1, n)
           J == [i \in 0..n |-> {s \in S : \A k \in 0..i : s[k] = c[k + 1]}]
<1>1. size \in {1, 2, 4} /\ m \in Nat /\ 1 <= m /\ Groups(nb, strategy) = 3 * m
  BY Sizes DEF Groups
<1>2. /\ codes = [g \in 1..m |-> (d(3 * g - 2) * 5 + d(3 * g - 1)) * 5 + d(3 * g)]
      /\ Len(codes) = m
  BY CodesAre
<1>3. n = 3 * m /\ n = Groups(nb, strategy) /\ n \in Nat /\ 1 <= n
  BY <1>1, <1>2
<1>4. parse_exponents(strategy, codes, c[1]) =
        IF \E i \in 1..n : after[i] > 24 THEN <<>>
        ELSE Spread([i \in 1..(n + 1) |-> after[i - 1]], size)
  BY Zenon DEF parse_exponents
<1> HIDE DEF size, m, codes, n, S, body, start, after, J
<1>5. 1 + Groups(nb, strategy) = n + 1
  BY <1>3
<1>6. c \in Arrays(n + 1) /\ \A k \in 1..(n + 1) : c[k] \in 0..24
  <2>1. c \in Arrays(n + 1)
    BY <1>5
  <2> QED
    BY <2>1 DEF Arrays
<1>7. \A k \in 2..(n + 1) : -2 <= c[k] - c[k - 1] /\ c[k] - c[k - 1] <= 2
  <2>1. Steps(c, n + 1)
    BY <1>5
  <2> QED
    BY <2>1 DEF Steps
<1>8. \A i \in 1..n : d(i) \in 0..4
  <2> SUFFICES ASSUME NEW i \in 1..n PROVE d(i) \in 0..4
    OBVIOUS
  <2>1. i \in 1..(n + 1) /\ i + 1 \in 2..(n + 1) /\ i + 1 \in 1..(n + 1) /\ i + 1 - 1 = i
    BY <1>3
  <2>2. c[i] \in 0..24 /\ c[i + 1] \in 0..24
    BY <1>6, <2>1
  <2>3. -2 <= c[i + 1] - c[i] /\ c[i + 1] - c[i] <= 2
    BY <1>7, <2>1
  <2> QED
    BY <2>2, <2>3
<1> HIDE DEF d
<1>9. \A i \in 1..n : change(i) = d(i) - 2
  <2> SUFFICES ASSUME NEW i \in 1..n PROVE change(i) = d(i) - 2
    OBVIOUS
  <2> DEFINE g == ((i - 1) \div 3) + 1
             r == (i - 1) % 3
  <2>1. g \in 1..m /\ r \in 0..2 /\ i = 3 * g - 2 + r
    BY <1>1, <1>3
  <2>2. 3 * g - 2 \in 1..n /\ 3 * g - 1 \in 1..n /\ 3 * g \in 1..n
    BY <1>1, <1>3, <2>1
  <2>3. codes[g] = (d(3 * g - 2) * 5 + d(3 * g - 1)) * 5 + d(3 * g)
    BY <1>2, <2>1
  <2>4. change(i) = <<exp_1(codes[g]), exp_2(codes[g]), exp_3(codes[g])>>[r + 1]
    OBVIOUS
  <2> HIDE DEF change, g, r
  <2>5. d(3 * g - 2) \in 0..4 /\ d(3 * g - 1) \in 0..4 /\ d(3 * g) \in 0..4
    BY <1>8, <2>2
  <2>6. /\ exp_1(codes[g]) = d(3 * g - 2) - 2
        /\ exp_2(codes[g]) = d(3 * g - 1) - 2
        /\ exp_3(codes[g]) = d(3 * g) - 2
    BY <2>3, <2>5, Triples
  <2>7. CASE r = 0
    <3>1. i = 3 * g - 2
      BY <2>1, <2>7
    <3> QED
      BY <2>4, <2>6, <2>7, <3>1
  <2>8. CASE r = 1
    <3>1. i = 3 * g - 1
      BY <2>1, <2>8
    <3> QED
      BY <2>4, <2>6, <2>8, <3>1
  <2>9. CASE r = 2
    <3>1. i = 3 * g
      BY <2>1, <2>9
    <3> QED
      BY <2>4, <2>6, <2>9, <3>1
  <2> QED
    BY <2>1, <2>7, <2>8, <2>9
<1> HIDE DEF change
<1>10. \A i \in 1..n, s \in S :
        body[<<s, i>>] = [s EXCEPT ![i] = (s[i - 1] + change(i)) % 256]
  BY Zenon DEF body
<1>11. \A i \in 1..n : J[i] = {s \in S : \A k \in 0..i : s[k] = c[k + 1]}
                     /\ J[i - 1] = {s \in S : \A k \in 0..(i - 1) : s[k] = c[k + 1]}
  <2> TAKE i \in 1..n
  <2>1. i \in 0..n /\ i - 1 \in 0..n
    BY <1>3
  <2> QED
    BY <2>1, Zenon DEF J
<1>12. start \in S /\ start \in J[1 - 1]
  <2>1. c[1] \in 0..24 /\ 0 \in 0..n
    BY <1>3, <1>6
  <2>2. c[1] \in 0..255
    BY <2>1
  <2>3. start \in S /\ start[0] = c[1]
    BY <2>1, <2>2 DEF start, S
  <2>4. \A k \in 0..0 : k = 0
    OBVIOUS
  <2>5. J[0] = {s \in S : \A k \in 0..0 : s[k] = c[k + 1]}
    BY <2>1, Zenon DEF J
  <2>6. start \in J[0]
    BY <2>3, <2>4, <2>5
  <2> QED
    BY <2>3, <2>6
<1>13. ASSUME NEW i \in 1..n, NEW s \in S, s \in J[i - 1]
       PROVE  body[<<s, i>>] \in J[i]
  <2> DEFINE t == [s EXCEPT ![i] = (s[i - 1] + change(i)) % 256]
  <2>1. i \in 0..n /\ i - 1 \in 0..n /\ i - 1 + 1 = i /\ i \in 1..(n + 1) /\ i + 1 \in 1..(n + 1)
    BY <1>3
  <2>2. \A k \in 0..(i - 1) : s[k] = c[k + 1]
    BY <1>11, <1>13
  <2>3. s[i - 1] = c[i]
    <3>1. i - 1 \in 0..(i - 1)
      OBVIOUS
    <3> QED
      BY <2>1, <2>2, <3>1
  <2>4. s[i - 1] + change(i) = c[i + 1]
    <3>1. c[i] \in 0..24 /\ c[i + 1] \in 0..24
      BY <1>6, <2>1
    <3>2. change(i) = c[i + 1] - c[i] + 2 - 2
      BY <1>9, <3>1 DEF d
    <3> QED
      BY <2>3, <3>1, <3>2
  <2>5. (s[i - 1] + change(i)) % 256 = c[i + 1] /\ c[i + 1] \in 0..255
    <3>1. c[i + 1] \in 0..24
      BY <1>6, <2>1
    <3>2. c[i + 1] % 256 = c[i + 1]
      BY <3>1
    <3> QED
      BY <2>4, <3>1, <3>2
  <2>6. t \in S
    <3>1. (s[i - 1] + change(i)) % 256 \in 0..255
      BY <2>5
    <3> QED
      BY <2>1, <3>1, Zenon DEF S
  <2>7. \A k \in 0..n : t[k] = IF k = i THEN (s[i - 1] + change(i)) % 256 ELSE s[k]
    BY DEF S
  <2>8. body[<<s, i>>] = t
    BY <1>10, Zenon
  <2> HIDE DEF t
  <2>9. \A k \in 0..i : t[k] = c[k + 1]
    <3> TAKE k \in 0..i
    <3>1. CASE k = i
      BY <2>1, <2>5, <2>7, <3>1
    <3>2. CASE k # i
      <4>1. k \in 0..(i - 1) /\ k \in 0..n
        BY <1>3, <3>2
      <4>2. t[k] = s[k]
        BY <2>7, <3>2, <4>1
      <4> QED
        BY <2>2, <4>1, <4>2
    <3> QED
      BY <3>1, <3>2
  <2>10. t \in J[i]
    BY <1>11, <2>6, <2>9
  <2> QED
    BY <2>8, <2>10
<1>14. body \in [S \X (1..n) -> S]
  <2>1. \A s \in S, i \in 1..n : [s EXCEPT ![i] = (s[i - 1] + change(i)) % 256] \in S
    <3> TAKE s \in S, i \in 1..n
    <3>1. i - 1 \in 0..n /\ i \in 0..n
      BY <1>3
    <3>2. s[i - 1] \in 0..255
      BY <3>1 DEF S
    <3>3. change(i) \in -2..2
      BY <1>8, <1>9
    <3>4. (s[i - 1] + change(i)) % 256 \in 0..255
      BY <3>2, <3>3
    <3> QED
      BY <3>1, <3>4, Zenon DEF S
  <2> QED
    BY <2>1 DEF body
<1>15. after \in J[n]
  <2>1. 1 \in Int /\ n \in Int /\ 1 <= n
    BY <1>3
  <2>2. \A i \in 1..n, s \in S : s \in J[i - 1] => body[<<s, i>>] \in J[i]
    BY <1>13
  <2>3. after \in S \intersect J[n]
    BY <2>1, <2>2, <1>12, <1>14, LoopKeeps, Zenon DEF after
  <2> QED
    BY <2>3
<1>16. \A k \in 0..n : after[k] = c[k + 1]
  <2>1. n \in 1..n
    BY <1>3
  <2> QED
    BY <1>11, <1>15, <2>1
<1>17. ~ \E i \in 1..n : after[i] > 24
  <2> SUFFICES ASSUME NEW i \in 1..n PROVE ~(after[i] > 24)
    OBVIOUS
  <2>1. i \in 0..n /\ i + 1 \in 1..(n + 1)
    BY <1>3
  <2> QED
    BY <1>6, <1>16, <2>1
<1>18. [i \in 1..(n + 1) |-> after[i - 1]] = c
  <2>1. \A i \in 1..(n + 1) : i - 1 \in 0..n /\ i - 1 + 1 = i
    BY <1>3
  <2>2. \A i \in 1..(n + 1) : after[i - 1] = c[i]
    BY <1>16, <2>1
  <2>3. c = [i \in 1..(n + 1) |-> c[i]]
    BY <1>6 DEF Arrays
  <2> QED
    BY <2>2, <2>3
<1>19. parse_exponents(strategy, codes, c[1]) = Spread(c, size)
  BY <1>4, <1>17, <1>18, Zenon
<1> QED
  BY <1>19 DEF codes, size

------------------------------------------------------------------------------
\* Grouping.

\* The least of some exponents is one.
LEMMA LeastExponent ==
  ASSUME NEW T \in SUBSET (0..24), T # {}
  PROVE  Min(T) \in T /\ Min(T) \in 0..24 /\ \A t \in T : Min(T) <= t
<1>1. T \in SUBSET Nat
  OBVIOUS
<1>2. Min(T) \in T /\ \A t \in T : Min(T) <= t
  BY <1>1, LeastOf
<1> QED
  BY <1>2

\* The exponents of a block.
Spectra == [1..Coefficients -> 0..24]

\* The exponents that group i counts: those of size coefficients.
Counted(spectrum, size, i) == {spectrum[2 + (i - 1) * size + j] : j \in 0..(size - 1)}

\* A group has the least exponent that it counts, and the first of all is at most
\* 15, for which four bits do.
LEMMA GroupedIs ==
  ASSUME NEW nb, NEW strategy, Coded(nb, strategy), NEW spectrum \in Spectra
  PROVE  LET size == group_size(strategy)
             grouped == Grouped(spectrum, nb, size)
         IN /\ grouped \in Arrays(1 + Groups(nb, strategy))
            /\ grouped[1] = Min({spectrum[1], 15}) /\ grouped[1] \in 0..15
            /\ \A i \in 1..Groups(nb, strategy) :
                 /\ Counted(spectrum, size, i) \subseteq 0..24 /\ Counted(spectrum, size, i) # {}
                 /\ grouped[i + 1] = Min(Counted(spectrum, size, i))
<1> DEFINE size == group_size(strategy)
           n == 3 * nb_groups(nb, size)
           dc == Min({spectrum[1], 15})
           rest == [i \in 1..n |-> Min(Counted(spectrum, size, i))]
           grouped == Grouped(spectrum, nb, size)
<1>1. /\ size \in {1, 2, 4} /\ n \in Nat /\ n = Groups(nb, strategy)
      /\ 1 + n * size <= Coefficients
  BY Sizes DEF Groups
<1>2. grouped = <<dc>> \o rest
  BY Zenon DEF Grouped, Counted
<1> HIDE DEF size, n, rest, dc, grouped
<1>3. \A k \in 1..Coefficients : spectrum[k] \in 0..24
  BY DEF Spectra
<1>4. dc = Min({spectrum[1], 15}) /\ dc \in 0..15
  <2> DEFINE T == {spectrum[1], 15}
  <2>1. spectrum[1] \in 0..24
    BY <1>3 DEF Coefficients
  <2>2. T \in SUBSET (0..24) /\ T # {} /\ 15 \in T
    BY <2>1
  <2> HIDE DEF T
  <2>3. Min(T) \in 0..24 /\ Min(T) <= 15
    BY <2>2, LeastExponent
  <2>4. Min(T) \in 0..15
    BY <2>3
  <2> QED
    BY <2>4 DEF T, dc
<1>5. ASSUME NEW i \in 1..n
      PROVE  Counted(spectrum, size, i) \in SUBSET (0..24) /\ Counted(spectrum, size, i) # {}
  <2>1. \A j \in 0..(size - 1) : 2 + (i - 1) * size + j \in 1..Coefficients
    <3>1. CASE size = 1
      BY <1>1, <3>1 DEF Coefficients
    <3>2. CASE size = 2
      BY <1>1, <3>2 DEF Coefficients
    <3>3. CASE size = 4
      BY <1>1, <3>3 DEF Coefficients
    <3> QED
      BY <1>1, <3>1, <3>2, <3>3
  <2>2. 0 \in 0..(size - 1)
    BY <1>1
  <2> QED
    BY <1>3, <2>1, <2>2 DEF Counted
<1>6. \A i \in 1..n : Min(Counted(spectrum, size, i)) \in 0..24
  BY <1>5, LeastExponent
<1>7. rest \in [1..n -> 0..24] /\ \A i \in 1..n : rest[i] = Min(Counted(spectrum, size, i))
  BY <1>6 DEF rest
<1>8. grouped \in Arrays(1 + n) /\ grouped[1] = dc /\ \A i \in 1..n : grouped[i + 1] = rest[i]
  <2>1. rest \in Seq(0..24) /\ Len(rest) = n
    <3>1. n \in Nat /\ rest \in [1..n -> 0..24]
      BY <1>1, <1>7
    <3>2. rest \in Seq(0..24)
      BY <3>1, SeqDef, Zenon
    <3> QED
      BY <3>1, <3>2
  <2>2. <<dc>> \in Seq(0..24) /\ Len(<<dc>>) = 1 /\ <<dc>>[1] = dc
    BY <1>4
  <2>3. /\ grouped \in Seq(0..24) /\ Len(grouped) = 1 + n
        /\ \A i \in 1..(1 + n) : grouped[i] = IF i <= 1 THEN <<dc>>[i] ELSE rest[i - 1]
    BY <1>2, <2>1, <2>2, ConcatProperties
  <2>4. grouped[1] = dc
    BY <1>1, <2>2, <2>3
  <2>5. ASSUME NEW i \in 1..n PROVE grouped[i + 1] = rest[i]
    <3>1. i + 1 \in 1..(1 + n) /\ ~(i + 1 <= 1) /\ i + 1 - 1 = i
      BY <1>1
    <3> QED
      BY <2>3, <3>1
  <2>6. grouped \in [1..Len(grouped) -> 0..24]
    BY <2>3, LenProperties
  <2>7. grouped \in Arrays(1 + n)
    BY <2>3, <2>6, Zenon DEF Arrays
  <2> QED
    BY <2>4, <2>5, <2>7
<1> QED
  BY <1>1, <1>4, <1>5, <1>7, <1>8 DEF size, grouped

\* The exponents that a block sends: those of its groups, the largest that fit.
LEMMA EncodedFits ==
  ASSUME NEW nb, NEW strategy, Coded(nb, strategy), NEW spectrum \in Spectra
  PROVE  \E c \in Arrays(1 + Groups(nb, strategy)) :
           /\ encode_exp(spectrum, nb, strategy) = Spread(c, group_size(strategy))
           /\ Fits(1 + Groups(nb, strategy), Grouped(spectrum, nb, group_size(strategy)), c)
           /\ c[1] \in 0..15
<1> DEFINE n == 1 + Groups(nb, strategy)
           e == Grouped(spectrum, nb, group_size(strategy))
           c == Constrain(e)
<1>1. n \in Nat /\ 2 <= n
  BY Sizes DEF Groups
<1> HIDE DEF n
<1>2. e \in Arrays(n) /\ e[1] \in 0..15
  BY GroupedIs DEF n
<1>3. encode_exp(spectrum, nb, strategy) = Spread(c, group_size(strategy))
  BY Zenon DEF encode_exp
<1> HIDE DEF e
<1>4. Fits(n, e, c)
  BY <1>1, <1>2, ConstrainFits
<1>5. c \in Arrays(n) /\ AtMost(n, c, e)
  BY <1>4 DEF Fits
<1> HIDE DEF c
<1>6. c[1] \in 0..15
  <2>1. 1 \in 1..n
    BY <1>1
  <2>2. c[1] <= e[1] /\ c[1] \in 0..24
    BY <1>5, <2>1 DEF AtMost, Arrays
  <2> QED
    BY <1>2, <2>2
<1> QED
  BY <1>3, <1>4, <1>5, <1>6 DEF n, e

\* exponent_min gives exponents that a block may have.
LEMMA LeastOfBlocks ==
  ASSUME NEW spectrum \in [1..NB_BLOCKS -> Spectra], NEW first \in 1..NB_BLOCKS,
         NEW users \in SUBSET (1..NB_BLOCKS), first \in users, NEW nb
  PROVE  exponent_min(spectrum, first, users, nb) \in Spectra
<1>1. \A b \in 1..NB_BLOCKS, k \in 1..Coefficients : spectrum[b][k] \in 0..24
  BY DEF Spectra
<1>2. ASSUME NEW k \in 1..Coefficients PROVE Min({spectrum[b][k] : b \in users}) \in 0..24
  <2>1. {spectrum[b][k] : b \in users} \in SUBSET (0..24) /\ {spectrum[b][k] : b \in users} # {}
    BY <1>1
  <2> QED
    BY <2>1, LeastExponent
<1> QED
  BY <1>1, <1>2 DEF exponent_min, Spectra

------------------------------------------------------------------------------
\* The exponents that the decoder has.

\* The largest of some numbers is the one that none of them is above.
LEMMA LargestIs ==
  ASSUME NEW T \in SUBSET Int, NEW x \in T, \A t \in T : t <= x
  PROVE  Max(T) = x
<1>1. \A y \in T : (\A t \in T : y >= t) => y = x
  OBVIOUS
<1>2. \A t \in T : x >= t
  OBVIOUS
<1> QED
  BY <1>1, <1>2 DEF Max

\* A block that sends exponents shares them with those after it, to the next that
\* sends some.
LEMMA AfterIs ==
  ASSUME NEW D \in SUBSET (1..NB_BLOCKS), NEW b \in 1..NB_BLOCKS
  PROVE  /\ After(D, b) \in (b + 1)..(NB_BLOCKS + 1)
         /\ b..(After(D, b) - 1) \in SUBSET (1..NB_BLOCKS)
         /\ b \in b..(After(D, b) - 1)
<1> DEFINE T == {i \in D \union {NB_BLOCKS + 1} : i > b}
<1>1. b \in 1..6 /\ NB_BLOCKS + 1 = 7 /\ \A i \in D : i \in 1..6
  BY DEF NB_BLOCKS
<1>2. \A i \in T : i \in (b + 1)..7 /\ i \in Nat
  BY <1>1
<1>3. 7 \in T
  BY <1>1
<1>4. After(D, b) = Min(T)
  BY Zenon DEF After
<1> HIDE DEF T
<1>5. Min(T) \in T
  BY <1>2, <1>3, LeastOf
<1>6. After(D, b) \in (b + 1)..7
  BY <1>2, <1>4, <1>5
<1> QED
  BY <1>1, <1>6 DEF NB_BLOCKS

\* The exponents that block d uses: its own or those of the block before it.
LEMMA OwnerIs ==
  ASSUME NEW D \in SUBSET (1..NB_BLOCKS), NEW d \in 1..NB_BLOCKS
  PROVE  /\ d \in D => Owner(D, d) = d
         /\ d \notin D => Owner(D, d) = Owner(D, d - 1)
<1> DEFINE T == {i \in D : i <= d}
<1>1. CASE d \in D
  <2>1. d \in T /\ T \in SUBSET Int /\ \A t \in T : t <= d
    <3>1. d \in Int /\ \A i \in D : i \in Int
      OBVIOUS
    <3>2. d \in T
      BY <1>1, <3>1
    <3>3. \A t \in T : t \in Int /\ t <= d
      BY <3>1
    <3> HIDE DEF T
    <3> QED
      BY <3>2, <3>3
  <2>2. Owner(D, d) = Max(T)
    BY DEF Owner
  <2> HIDE DEF T
  <2>3. Max(T) = d
    BY <2>1, LargestIs
  <2> QED
    BY <1>1, <2>2, <2>3
<1>2. CASE d \notin D
  <2>1. \A i \in D : i <= d <=> i <= d - 1
    BY <1>2
  <2>2. T = {i \in D : i <= d - 1}
    BY <2>1
  <2> QED
    BY <1>2, <2>2 DEF Owner
<1> QED
  BY <1>1, <1>2

\* The strategies that compute_exp_strategy finds for the channel.
LEMMA StrategyIs ==
  ASSUME NEW exponent
  PROVE  LET strategy == compute_exp_strategy(exponent, is_lfe)
         IN /\ New(strategy) \in SUBSET (1..NB_BLOCKS) /\ 1 \in New(strategy)
            /\ \A b \in 1..NB_BLOCKS : b \notin New(strategy) => strategy[b] = EXP_REUSE
            /\ \A b \in New(strategy) :
                 strategy[b] # EXP_REUSE /\ Coded(nb_coefs, strategy[b])
<1> DEFINE strategy == compute_exp_strategy(exponent, is_lfe)
<1>1. \A k : Finely(k) \in {EXP_D15, EXP_D25, EXP_D45}
  BY Zenon DEF Finely
<1>2. PICK N : /\ 1 \in N
               /\ strategy = [b \in 1..NB_BLOCKS |->
                    IF b \notin N THEN EXP_REUSE
                    ELSE IF is_lfe THEN EXP_NEW ELSE Finely(After(N, b) - b)]
  <2> DEFINE N == {1} \union
        {b \in 2..NB_BLOCKS : calc_exp_diff(exponent[b], exponent[b - 1]) > EXP_DIFF_THRESHOLD}
  <2>1. strategy = [b \in 1..NB_BLOCKS |->
                    IF b \notin N THEN EXP_REUSE
                    ELSE IF is_lfe THEN EXP_NEW ELSE Finely(After(N, b) - b)]
    BY Zenon DEF compute_exp_strategy
  <2>2. 1 \in N
    BY Zenon
  <2> QED
    BY <2>1, <2>2, Zenon
<1> HIDE DEF strategy
<1>3. ASSUME NEW b \in 1..NB_BLOCKS, b \in N
      PROVE  strategy[b] # EXP_REUSE /\ Coded(nb_coefs, strategy[b])
  <2>1. CASE is_lfe
    <3>1. strategy[b] = EXP_NEW /\ nb_coefs = 7
      BY <1>2, <1>3, <2>1 DEF nb_coefs
    <3> QED
      BY <3>1 DEF Coded, EXP_NEW, EXP_REUSE, EXP_D15
  <2>2. CASE ~is_lfe
    <3>1. strategy[b] \in {EXP_D15, EXP_D25, EXP_D45} /\ nb_coefs = 223
      BY <1>1, <1>2, <1>3, <2>2 DEF nb_coefs
    <3> QED
      BY <3>1 DEF Coded, EXP_REUSE, EXP_D15, EXP_D25, EXP_D45
  <2> QED
    BY <2>1, <2>2
<1>4. \A b \in 1..NB_BLOCKS : b \notin N => strategy[b] = EXP_REUSE
  BY <1>2
<1>5. New(strategy) = {b \in 1..NB_BLOCKS : strategy[b] # EXP_REUSE}
  BY DEF New
<1>6. 1 \in 1..NB_BLOCKS
  BY DEF NB_BLOCKS
<1>7. New(strategy) = N \intersect (1..NB_BLOCKS)
  BY <1>3, <1>4, <1>5
<1> QED
  BY <1>2, <1>3, <1>4, <1>6, <1>7 DEF strategy

\* The exponents that a frame's blocks have before they are coded.
LEMMA ExponentsAre ==
  ASSUME NEW x \in [1..NB_BLOCKS -> Sounds]
  PROVE  [b \in 1..NB_BLOCKS |-> Exponents[x[b]]] \in [1..NB_BLOCKS -> Spectra]
BY ExponentsAssumption DEF Spectra

\* A block that sends exponents sends what the decoder makes the encoder's of.
LEMMA BlockSends ==
  ASSUME NEW exponent \in [1..NB_BLOCKS -> Spectra], NEW o, NEW encoded, NEW strategy,
         strategy = compute_exp_strategy(exponent, is_lfe),
         encoded = [first \in New(strategy) |-> Encoded(exponent, strategy, first)],
         NEW b \in New(strategy)
  PROVE  /\ Block(strategy, encoded, o, b).expstr = strategy[b]
         /\ Parsed(Block(strategy, encoded, o, b)) = encoded[b]
<1> DEFINE size == group_size(strategy[b])
           users == b..(After(New(strategy), b) - 1)
           e == exponent_min(exponent, b, users, nb_coefs)
           n == 1 + Groups(nb_coefs, strategy[b])
           block == Block(strategy, encoded, o, b)
<1>1. /\ New(strategy) \in SUBSET (1..NB_BLOCKS) /\ b \in 1..NB_BLOCKS
      /\ strategy[b] # EXP_REUSE /\ Coded(nb_coefs, strategy[b])
  BY StrategyIs
<1>2. users \in SUBSET (1..NB_BLOCKS) /\ b \in users
  BY <1>1, AfterIs
<1> HIDE DEF users
<1>3. e \in Spectra
  BY <1>1, <1>2, LeastOfBlocks
<1>4. encoded[b] = encode_exp(e, nb_coefs, strategy[b])
  BY DEF Encoded, users
<1> HIDE DEF e, n
<1>5. PICK c \in Arrays(n) : /\ encode_exp(e, nb_coefs, strategy[b]) = Spread(c, size)
                             /\ Fits(n, Grouped(e, nb_coefs, size), c) /\ c[1] \in 0..15
  BY <1>1, <1>3, EncodedFits DEF n
<1>6. encoded[b] = Spread(c, size) /\ Steps(c, n)
  BY <1>4, <1>5 DEF Fits
<1>7. encoded[b][1] % 16 = c[1]
  <2>1. n \in Nat /\ 1 <= n /\ size \in {1, 2, 4}
    BY <1>1, Sizes DEF n, Groups
  <2>2. Spread(c, size)[1] = c[1]
    BY <1>5, <2>1, SpreadAt
  <2>3. c[1] % 16 = c[1]
    BY <1>5
  <2> QED
    BY <1>6, <2>2, <2>3
<1>8. /\ block.expstr = strategy[b] /\ block.first = c[1]
      /\ block.codes = Codes(Spread(c, size), nb_coefs, strategy[b])
  BY <1>1, <1>6, <1>7, Zenon DEF Block
<1> HIDE DEF block
<1>9. parse_exponents(strategy[b], Codes(Spread(c, size), nb_coefs, strategy[b]), c[1])
        = Spread(c, size)
  <2>1. c \in Arrays(1 + Groups(nb_coefs, strategy[b])) /\ Steps(c, 1 + Groups(nb_coefs, strategy[b]))
    BY <1>5, <1>6 DEF n
  <2> QED
    BY <1>1, <2>1, ParseInverts
<1>10. Parsed(block) = encoded[b]
  BY <1>6, <1>8, <1>9, Zenon DEF Parsed
<1> QED
  BY <1>8, <1>10 DEF block
\* Block b, which is still to be decoded, sends exponents if it is to, those that
\* the encoder has; and the decoder has those of the block decoded last.
Sends(b) ==
  /\ written[b - Decoded].expstr = EXP_REUSE <=> b \notin DOMAIN encoded_exp
  /\ b \in DOMAIN encoded_exp => Parsed(written[b - Decoded]) = encoded_exp[b]

\* What the two sides have in common while a frame is decoded.
Following ==
  /\ is_lfe \in BOOLEAN
  /\ Len(written) \in 0..NB_BLOCKS /\ \E S : written \in Seq(S)
  /\ sounds = <<>> => written = <<>>
  /\ sounds # <<>> =>
       /\ DOMAIN encoded_exp \in SUBSET (1..NB_BLOCKS) /\ 1 \in DOMAIN encoded_exp
       /\ \A b \in (Decoded + 1)..NB_BLOCKS : Sends(b)
       /\ Decoded > 0 => exp = encoded_exp[Sender]

\* Nothing was coded yet.
LEMMA FollowingInit == ChannelInit => Following
<1> SUFFICES ASSUME ChannelInit PROVE Following
  OBVIOUS
<1>1. written = <<>> /\ sounds = <<>> /\ is_lfe \in BOOLEAN
  BY DEF ChannelInit
<1>2. Len(written) = 0 /\ written \in Seq(Int)
  BY <1>1
<1>3. Len(written) \in 0..NB_BLOCKS
  BY <1>2 DEF NB_BLOCKS
<1> QED
  BY <1>1, <1>2, <1>3 DEF Following

\* The encoder writes six blocks of which each sends what it has to.
LEMMA FollowingFrame == Following /\ AC3_encode_frame => Following'
<1> SUFFICES ASSUME Following, AC3_encode_frame PROVE Following'
  OBVIOUS
<1>1. PICK x \in FrameContents(is_lfe), o \in Offsets :
        LET exponent == [b \in 1..NB_BLOCKS |-> Exponents[x[b]]]
            strategy == compute_exp_strategy(exponent, is_lfe)
        IN /\ sounds' = x
           /\ encoded_exp' = [first \in New(strategy) |-> Encoded(exponent, strategy, first)]
           /\ written' = [b \in 1..NB_BLOCKS |-> Block(strategy, encoded_exp', o, b)]
  BY DEF AC3_encode_frame
<1> DEFINE exponent == [b \in 1..NB_BLOCKS |-> Exponents[x[b]]]
           strategy == compute_exp_strategy(exponent, is_lfe)
<1>2. is_lfe \in BOOLEAN /\ is_lfe' = is_lfe
  BY DEF Following, AC3_encode_frame
<1>3. x \in [1..NB_BLOCKS -> Sounds]
  BY <1>1, <1>2, FramesAssumption
<1>4. exponent \in [1..NB_BLOCKS -> Spectra]
  BY <1>3, ExponentsAre
<1> HIDE DEF exponent
<1>5. /\ New(strategy) \in SUBSET (1..NB_BLOCKS) /\ 1 \in New(strategy)
      /\ \A b \in 1..NB_BLOCKS : b \notin New(strategy) => strategy[b] = EXP_REUSE
      /\ \A b \in New(strategy) : strategy[b] # EXP_REUSE
  BY StrategyIs
<1>6. /\ encoded_exp' = [first \in New(strategy) |-> Encoded(exponent, strategy, first)]
      /\ written' = [b \in 1..NB_BLOCKS |-> Block(strategy, encoded_exp', o, b)]
  BY <1>1 DEF exponent
<1>7. \A b \in New(strategy) : /\ Block(strategy, encoded_exp', o, b).expstr = strategy[b]
                               /\ Parsed(Block(strategy, encoded_exp', o, b)) = encoded_exp'[b]
  BY <1>4, <1>6, BlockSends
<1> HIDE DEF strategy
<1>8. \A b \in 1..NB_BLOCKS : Block(strategy, encoded_exp', o, b).expstr = strategy[b]
  BY DEF Block
<1>9. DOMAIN encoded_exp' = New(strategy)
  BY <1>6
<1> DEFINE S == {Block(strategy, encoded_exp', o, b) : b \in 1..NB_BLOCKS}
<1>10. written' \in Seq(S) /\ Len(written') = NB_BLOCKS
  <2>1. NB_BLOCKS \in Nat /\ written' \in [1..NB_BLOCKS -> S]
    BY <1>6 DEF NB_BLOCKS
  <2> HIDE DEF S
  <2>2. written' \in Seq(S)
    BY <2>1, SeqDef, Zenon
  <2> QED
    BY <2>1, <2>2
<1> HIDE DEF S
<1>11. sounds' # <<>>
  <2>1. sounds' = x /\ 1 \in DOMAIN x
    BY <1>1, <1>3 DEF NB_BLOCKS
  <2>2. 1 \notin DOMAIN <<>>
    OBVIOUS
  <2> QED
    BY <2>1, <2>2
<1>12. Decoded' = 0 /\ \A b \in 1..NB_BLOCKS : b - Decoded' = b
  BY <1>10 DEF Decoded, NB_BLOCKS
<1>13. ASSUME NEW b \in 1..NB_BLOCKS PROVE Sends(b)'
  <2>1. written'[b - Decoded'] = Block(strategy, encoded_exp', o, b)
    BY <1>6, <1>12
  <2>2. /\ written'[b - Decoded'].expstr = EXP_REUSE <=> b \notin DOMAIN encoded_exp'
        /\ b \in DOMAIN encoded_exp' => Parsed(written'[b - Decoded']) = encoded_exp'[b]
    BY <1>5, <1>7, <1>8, <1>9, <2>1
  <2> QED
    BY <2>2 DEF Sends, Parsed
<1>14. \A b \in (Decoded' + 1)..NB_BLOCKS : Sends(b)'
  BY <1>12, <1>13
<1>15. Len(written') \in 0..NB_BLOCKS /\ ~(Decoded' > 0)
  BY <1>10, <1>12 DEF NB_BLOCKS
<1> QED
  BY <1>2, <1>5, <1>9, <1>10, <1>11, <1>14, <1>15 DEF Following

\* A block gives the decoder the exponents it sends; without any it keeps those of
\* the block before, which are the encoder's for this block too.
LEMMA FollowingBlock == Following /\ a52_block => Following'
<1> SUFFICES ASSUME Following, a52_block PROVE Following'
  OBVIOUS
<1> DEFINE block == Head(written)
           D == DOMAIN encoded_exp
<1>1. /\ written # <<>> /\ written' = Tail(written)
      /\ is_lfe' = is_lfe /\ sounds' = sounds /\ encoded_exp' = encoded_exp
      /\ exp' = IF block.expstr = EXP_REUSE THEN exp ELSE Parsed(block)
  BY DEF a52_block
<1>2. /\ is_lfe \in BOOLEAN /\ sounds # <<>> /\ Len(written) \in 0..NB_BLOCKS
      /\ D \in SUBSET (1..NB_BLOCKS) /\ 1 \in D
      /\ \A b \in (Decoded + 1)..NB_BLOCKS : Sends(b)
      /\ Decoded > 0 => exp = encoded_exp[Sender]
  BY <1>1 DEF Following
<1>3. PICK S : written \in Seq(S)
  BY DEF Following
<1>4. /\ written' \in Seq(S) /\ Len(written') = Len(written) - 1
      /\ Head(written) = written[1] /\ Len(written) \in 1..NB_BLOCKS
      /\ \A i \in 1..(Len(written) - 1) : written'[i] = written[i + 1]
  <2>1. Len(written) \in 1..NB_BLOCKS
    BY <1>1, <1>2, <1>3 DEF NB_BLOCKS
  <2>2. /\ written' \in Seq(S) /\ Len(written') = Len(written) - 1
        /\ Head(written) = written[1]
    BY <1>1, <1>3
  <2>3. \A i \in 1..(Len(written) - 1) : written'[i] = written[i + 1]
    BY <1>1, <1>3
  <2> QED
    BY <2>1, <2>2, <2>3
<1>5. /\ Decoded \in 0..(NB_BLOCKS - 1) /\ Decoded' = Decoded + 1
      /\ Len(written) = NB_BLOCKS - Decoded
  <2>1. Len(written) \in 1..NB_BLOCKS /\ Len(written') = Len(written) - 1
    BY <1>4, Zenon
  <2> QED
    BY <2>1 DEF Decoded, NB_BLOCKS
<1> DEFINE d == Decoded + 1
<1>6. d \in 1..NB_BLOCKS /\ d - Decoded = 1 /\ d \in (Decoded + 1)..NB_BLOCKS /\ d - 1 = Decoded
  BY <1>5 DEF NB_BLOCKS
<1>7. /\ block.expstr = EXP_REUSE <=> d \notin D
      /\ d \in D => Parsed(block) = encoded_exp[d]
  <2>1. Sends(d)
    BY <1>2, <1>6
  <2> QED
    BY <1>4, <1>6, <2>1 DEF Sends
<1>8. \A b \in (Decoded' + 1)..NB_BLOCKS : Sends(b)'
  <2> SUFFICES ASSUME NEW b \in (Decoded + 2)..NB_BLOCKS PROVE Sends(b)'
    BY <1>5
  <2>1. b \in (Decoded + 1)..NB_BLOCKS /\ b - Decoded' \in 1..(Len(written) - 1)
        /\ b - Decoded' + 1 = b - Decoded
    BY <1>5 DEF NB_BLOCKS
  <2>2. written'[b - Decoded'] = written[b - Decoded]
    BY <1>4, <2>1
  <2>3. Sends(b)
    BY <1>2, <2>1
  <2>4. /\ written'[b - Decoded'].expstr = EXP_REUSE <=> b \notin DOMAIN encoded_exp'
        /\ b \in DOMAIN encoded_exp' => Parsed(written'[b - Decoded']) = encoded_exp'[b]
    BY <1>1, <2>2, <2>3 DEF Sends
  <2> QED
    BY <2>4 DEF Sends, Parsed
<1>9. exp' = encoded_exp'[Sender']
  <2>1. Sender' = Owner(D, d)
    BY <1>1, <1>5 DEF Sender
  <2>2. CASE d \in D
    <3>1. Sender' = d
      BY <1>2, <1>6, <2>1, <2>2, OwnerIs
    <3> QED
      BY <1>1, <1>7, <2>2, <3>1
  <2>3. CASE d \notin D
    <3>1. d # 1
      BY <1>2, <2>3
    <3>2. Decoded > 0
      BY <1>5, <3>1
    <3>3. Sender' = Owner(D, d - 1)
      BY <1>2, <1>6, <2>1, <2>3, OwnerIs
    <3>4. Sender' = Sender
      BY <1>6, <3>3 DEF Sender
    <3> QED
      BY <1>1, <1>2, <1>7, <2>3, <3>2, <3>4
  <2> QED
    BY <2>2, <2>3
<1>10. Len(written') \in 0..NB_BLOCKS
  <2>1. Len(written') = Len(written) - 1 /\ Len(written) \in 1..NB_BLOCKS
    BY <1>4
  <2>2. \A l \in 1..NB_BLOCKS : l - 1 \in 0..NB_BLOCKS
    BY DEF NB_BLOCKS
  <2> QED
    BY <2>1, <2>2
<1> QED
  BY <1>1, <1>2, <1>4, <1>8, <1>9, <1>10 DEF Following

\* Every step of the two keeps it.
LEMMA FollowingNext == Following /\ [ChannelNext]_channel => Following'
<1> SUFFICES ASSUME Following, [ChannelNext]_channel PROVE Following'
  OBVIOUS
<1>1. CASE AC3_encode_frame
  BY <1>1, FollowingFrame
<1>2. CASE a52_block
  BY <1>2, FollowingBlock
<1>3. CASE NextFrame
  <2>1. sounds' = <<>> /\ written' = written /\ written = <<>> /\ is_lfe' = is_lfe
    BY <1>3 DEF NextFrame
  <2> QED
    BY <2>1 DEF Following
<1>4. CASE UNCHANGED channel
  <2>1. /\ is_lfe' = is_lfe /\ sounds' = sounds /\ encoded_exp' = encoded_exp
        /\ written' = written /\ exp' = exp
    BY <1>4 DEF channel
  <2> QED
    BY <2>1 DEF Following, Sends, Decoded, Sender, Parsed
<1> QED
  BY <1>1, <1>2, <1>3, <1>4 DEF ChannelNext

\* Whatever the exponents of the six blocks are, a52_block has in each block those
\* that AC3_encode_frame coded its mantissas with: group_exponents, the codes of
\* three differences and the tables of parse_exponents lose nothing, for all three
\* groupings and the LFE channel, and reused exponents are those sent last.
THEOREM ExponentsAlwaysAgree == ChannelSpec => []ExponentsAgree
<1>1. ChannelInit => Following
  BY FollowingInit
<1>2. Following /\ [ChannelNext]_channel => Following'
  BY FollowingNext
<1>3. Following => ExponentsAgree
  BY DEF Following, ExponentsAgree
<1> QED
  BY <1>1, <1>2, <1>3, PTL DEF ChannelSpec

------------------------------------------------------------------------------
\* The largest exponents that fit.

\* The least of some numbers is the one that none of them is below.
LEMMA LeastIs ==
  ASSUME NEW T \in SUBSET Int, NEW x \in T, \A t \in T : x <= t
  PROVE  Min(T) = x
<1>1. \A y \in T : (\A t \in T : y <= t) => y = x
  OBVIOUS
<1>2. \A t \in T : x <= t
  OBVIOUS
<1> QED
  BY <1>1, <1>2 DEF Min

\* Steps of two at most add up.
LEMMA StepsAddUp ==
  ASSUME NEW n \in Nat, NEW c \in Arrays(n), Steps(c, n)
  PROVE  \A i \in 1..n, j \in 1..n : c[i] <= c[j] + 2 * Abs(i - j)
<1> DEFINE Wrong(i, j) == ~(c[i] <= c[j] + 2 * Abs(i - j))
           bad == {k \in Nat : \E i \in 1..n, j \in 1..n : Abs(i - j) = k /\ Wrong(i, j)}
<1>1. \A i \in 1..n : c[i] \in 0..24
  BY DEF Arrays
<1>2. \A k \in 2..n : -2 <= c[k] - c[k - 1] /\ c[k] - c[k - 1] <= 2
  BY DEF Steps
<1>3. bad = {}
  <2> SUFFICES ASSUME bad # {} PROVE FALSE
    OBVIOUS
  <2> DEFINE k == Min(bad)
  <2>1. k \in bad /\ \A m \in bad : k <= m
    BY LeastOf
  <2> HIDE DEF k
  <2>2. PICK i \in 1..n, j \in 1..n : Abs(i - j) = k /\ Wrong(i, j)
    BY <2>1
  <2>3. k \in Nat /\ c[i] \in 0..24 /\ c[j] \in 0..24
    BY <1>1, <2>1
  <2>4. k - 1 \notin bad
    BY <2>1, <2>3
  <2>5. i # j
    <3>1. i = j => ~Wrong(i, j)
      BY <2>3 DEF Abs
    <3> QED
      BY <2>2, <3>1
  <2> DEFINE m == IF i < j THEN i + 1 ELSE i - 1
  <2>6. m \in 1..n /\ Abs(m - j) = k - 1 /\ k - 1 \in Nat
    BY <2>2, <2>5 DEF Abs
  <2>7. c[i] <= c[m] + 2 /\ c[m] \in 0..24
    <3>1. CASE i < j
      <4>1. m = i + 1 /\ i + 1 \in 2..n /\ i + 1 - 1 = i
        BY <3>1
      <4> HIDE DEF m
      <4>2. c[m] \in 0..24 /\ -2 <= c[m] - c[i]
        BY <1>1, <1>2, <2>6, <4>1
      <4> QED
        BY <2>3, <4>2
    <3>2. CASE i > j
      <4>1. m = i - 1 /\ i \in 2..n
        BY <3>2
      <4> HIDE DEF m
      <4>2. c[m] \in 0..24 /\ c[i] - c[m] <= 2
        BY <1>1, <1>2, <2>6, <4>1
      <4> QED
        BY <2>3, <4>2
    <3> QED
      BY <2>5, <3>1, <3>2
  <2> HIDE DEF m
  <2>8. ~Wrong(m, j)
    BY <2>4, <2>6
  <2>9. c[m] <= c[j] + 2 * (k - 1)
    BY <2>6, <2>8
  <2>10. c[i] <= c[j] + 2 * k
    BY <2>3, <2>7, <2>9
  <2> QED
    BY <2>2, <2>10
<1> SUFFICES ASSUME NEW i \in 1..n, NEW j \in 1..n, Wrong(i, j) PROVE FALSE
  OBVIOUS
<1>4. Abs(i - j) \in Nat
  BY DEF Abs
<1> QED
  BY <1>3, <1>4

\* The largest exponents with small steps, one by one: groups more than twelve
\* apart do not matter to each other.
LEMMA FitsIs ==
  ASSUME NEW n \in Nat, NEW e \in Arrays(n), NEW c, Fits(n, e, c), NEW g \in 1..n
  PROVE  c[g] = Min({e[h] + 2 * Abs(g - h) : h \in (1..n) \intersect ((g - 12)..(g + 12))})
<1> DEFINE all(i) == {e[j] + 2 * Abs(i - j) : j \in 1..n}
           env == [i \in 1..n |-> Min(all(i))]
           near == {e[h] + 2 * Abs(g - h) : h \in (1..n) \intersect ((g - 12)..(g + 12))}
<1>1. c \in Arrays(n) /\ AtMost(n, c, e) /\ Steps(c, n)
  BY DEF Fits
<1>2. \A i \in 1..n : c[i] \in 0..24 /\ e[i] \in 0..24 /\ c[i] <= e[i]
  BY <1>1 DEF Arrays, AtMost
<1>3. \A i \in 1..n, j \in 1..n : Abs(i - j) \in Nat /\ e[j] + 2 * Abs(i - j) \in Nat
  BY <1>2 DEF Abs
<1>4. \A i \in 1..n, j \in 1..n : c[i] <= e[j] + 2 * Abs(i - j)
  <2>1. \A i \in 1..n, j \in 1..n : c[i] <= c[j] + 2 * Abs(i - j)
    BY <1>1, StepsAddUp
  <2> TAKE i \in 1..n, j \in 1..n
  <2>2. c[i] <= c[j] + 2 * Abs(i - j) /\ c[j] <= e[j] /\ Abs(i - j) \in Nat
    BY <1>2, <1>3, <2>1
  <2>3. c[i] \in Int /\ c[j] \in Int /\ e[j] \in Int /\ Abs(i - j) \in Int
    <3>1. c[i] \in 0..24 /\ c[j] \in 0..24 /\ e[j] \in 0..24
      BY <1>2, Zenon
    <3> QED
      BY <2>2, <3>1
  <2>4. \A x \in Int, y \in Int, z \in Int, d \in Int :
          x <= y + 2 * d /\ y <= z => x <= z + 2 * d
    OBVIOUS
  <2> QED
    BY <2>2, <2>3, <2>4, Zenon
<1>5. ASSUME NEW i \in 1..n
      PROVE  /\ env[i] \in Nat /\ \A j \in 1..n : env[i] <= e[j] + 2 * Abs(i - j)
             /\ \E j \in 1..n : env[i] = e[j] + 2 * Abs(i - j)
  <2>1. all(i) \in SUBSET Nat /\ e[i] + 2 * Abs(i - i) \in all(i)
    BY <1>3
  <2> DEFINE T == all(i)
  <2>2. T \in SUBSET Nat /\ T # {}
    BY <2>1
  <2>3. env[i] = Min(T)
    OBVIOUS
  <2>4. \A j \in 1..n : e[j] + 2 * Abs(i - j) \in T
    OBVIOUS
  <2>5. \A t \in T : \E j \in 1..n : t = e[j] + 2 * Abs(i - j)
    OBVIOUS
  <2> HIDE DEF T, env
  <2>6. Min(T) \in T /\ \A t \in T : Min(T) <= t
    BY <2>2, LeastOf
  <2> QED
    BY <2>2, <2>3, <2>4, <2>5, <2>6
<1>6. env \in Bounds(n)
  <2>1. \A i \in 1..n : Min(all(i)) \in Int
    BY <1>5
  <2> QED
    BY <2>1 DEF Bounds
<1> HIDE DEF env
<1>7. AtMost(n, env, e)
  <2> SUFFICES ASSUME NEW i \in 1..n PROVE env[i] <= e[i]
    BY DEF AtMost
  <2>1. env[i] <= e[i] + 2 * Abs(i - i)
    BY <1>5
  <2>2. Abs(i - i) = 0
    BY DEF Abs
  <2> QED
    BY <1>2, <2>1, <2>2
<1>8. Steps(env, n)
  <2> SUFFICES ASSUME NEW i \in 2..n PROVE -2 <= env[i] - env[i - 1] /\ env[i] - env[i - 1] <= 2
    BY DEF Steps
  <2>1. i \in 1..n /\ i - 1 \in 1..n
    OBVIOUS
  <2>2. env[i] \in Nat /\ env[i - 1] \in Nat
    BY <1>5, <2>1
  <2>3. env[i] - env[i - 1] <= 2
    <3>1. PICK j \in 1..n : env[i - 1] = e[j] + 2 * Abs(i - 1 - j)
      BY <1>5, <2>1
    <3>2. env[i] <= e[j] + 2 * Abs(i - j)
      BY <1>5, <2>1
    <3>3. Abs(i - j) <= Abs(i - 1 - j) + 1
      BY DEF Abs
    <3>4. Abs(i - j) \in Nat /\ Abs(i - 1 - j) \in Nat /\ e[j] \in 0..24
      BY <1>2, <1>3, <2>1
    <3> QED
      BY <2>2, <3>1, <3>2, <3>3, <3>4
  <2>4. -2 <= env[i] - env[i - 1]
    <3>1. PICK j \in 1..n : env[i] = e[j] + 2 * Abs(i - j)
      BY <1>5, <2>1
    <3>2. env[i - 1] <= e[j] + 2 * Abs(i - 1 - j)
      BY <1>5, <2>1
    <3>3. Abs(i - 1 - j) <= Abs(i - j) + 1
      BY DEF Abs
    <3>4. Abs(i - j) \in Nat /\ Abs(i - 1 - j) \in Nat /\ e[j] \in 0..24
      BY <1>2, <1>3, <2>1
    <3> QED
      BY <2>2, <3>1, <3>2, <3>3, <3>4
  <2> QED
    BY <2>3, <2>4
<1>9. env[g] <= c[g]
  BY <1>6, <1>7, <1>8 DEF Fits, AtMost
<1>10. PICK h \in 1..n : env[g] = e[h] + 2 * Abs(g - h)
  BY <1>5
<1>11. c[g] = e[h] + 2 * Abs(g - h)
  <2>1. c[g] <= e[h] + 2 * Abs(g - h) /\ e[h] + 2 * Abs(g - h) \in Nat /\ c[g] \in 0..24
    BY <1>2, <1>3, <1>4
  <2> QED
    BY <1>9, <1>10, <2>1
<1>12. h \in (g - 12)..(g + 12)
  <2>1. Abs(g - h) \in Nat /\ c[g] \in 0..24 /\ e[h] \in 0..24
    BY <1>2, <1>3
  <2>2. Abs(g - h) <= 12
    BY <1>11, <2>1
  <2> QED
    BY <2>2 DEF Abs
<1>13. c[g] \in near
  BY <1>11, <1>12
<1>14. near \in SUBSET Int /\ \A t \in near : c[g] <= t
  <2>1. ASSUME NEW t \in near PROVE t \in Int /\ c[g] <= t
    <3>1. PICK j \in 1..n : t = e[j] + 2 * Abs(g - j)
      BY <2>1
    <3>2. e[j] + 2 * Abs(g - j) \in Int /\ c[g] <= e[j] + 2 * Abs(g - j)
      BY <1>3, <1>4
    <3> QED
      BY <3>1, <3>2
  <2> QED
    BY <2>1
<1> HIDE DEF near
<1>15. Min(near) = c[g]
  BY <1>13, <1>14, LeastIs
<1> QED
  BY <1>15 DEF near

\* What LargestThatFit says of the exponents coded of a block that sends them with
\* a strategy, in a frame of the sounds x where the blocks of D send some.
FitsBest(nb, x, D, strategy, coded, b) ==
  LET size == group_size(strategy)
      last == 3 * nb_groups(nb, size)
      first(g) == IF g = 0 THEN 1 ELSE 2 + (g - 1) * size
      group(g) == first(g)..(first(g + 1) - 1)
      users(k) == IF k > nb THEN {b} ELSE b..(After(D, b) - 1)
      least == [g \in 0..last |->
        Min((UNION {{Exponents[x[i]][k] : i \in users(k)} : k \in group(g)})
            \union (IF g = 0 THEN {15} ELSE {}))]
  IN \A g \in 0..last :
       coded[first(g)] =
         Min({least[h] + 2 * Abs(g - h) : h \in (0..last) \intersect ((g - 12)..(g + 12))})

FrameSounds    == [1..NB_BLOCKS -> Sounds]
ExponentsOf(x) == [b \in 1..NB_BLOCKS |-> Exponents[x[b]]]

\* What a block sends is what LargestThatFit says: the least exponent of each
\* coefficient in the blocks that use it, the least of each group, and the largest
\* exponents with small steps that are not above these.
LEMMA BlockFits ==
  ASSUME NEW x \in FrameSounds, NEW exponent, NEW strategy, NEW coded,
         exponent = ExponentsOf(x),
         strategy = compute_exp_strategy(exponent, is_lfe),
         NEW b \in New(strategy), coded = Encoded(exponent, strategy, b)
  PROVE  FitsBest(nb_coefs, x, New(strategy), strategy[b], coded, b)
<1> DEFINE nb == nb_coefs
           size == group_size(strategy[b])
           last == 3 * nb_groups(nb, size)
           first(g) == IF g = 0 THEN 1 ELSE 2 + (g - 1) * size
           group(g) == first(g)..(first(g + 1) - 1)
           all == b..(After(New(strategy), b) - 1)
           users(k) == IF k > nb THEN {b} ELSE all
           those(g) == (UNION {{Exponents[x[i]][k] : i \in users(k)} : k \in group(g)})
                       \union (IF g = 0 THEN {15} ELSE {})
           least == [g \in 0..last |-> Min(those(g))]
           m == exponent_min(exponent, b, all, nb)
           e == Grouped(m, nb, size)
           n == 1 + Groups(nb, strategy[b])
<1>1. /\ New(strategy) \in SUBSET (1..NB_BLOCKS) /\ b \in 1..NB_BLOCKS
      /\ Coded(nb, strategy[b])
  BY StrategyIs
<1>2. all \in SUBSET (1..NB_BLOCKS) /\ b \in all
  BY <1>1, AfterIs
<1>3. exponent \in [1..NB_BLOCKS -> Spectra]
  BY ExponentsAre, Zenon DEF FrameSounds, ExponentsOf
<1>4. /\ size \in {1, 2, 4} /\ last \in Nat /\ n = last + 1 /\ n = 1 + last /\ nb \in Nat /\ 1 <= nb
      /\ 1 + last * size <= Coefficients
  BY <1>1, Sizes DEF Groups, Coded
<1>5. \A i \in 1..NB_BLOCKS, k \in 1..Coefficients :
        Exponents[x[i]][k] = exponent[i][k] /\ exponent[i][k] \in 0..24
  BY <1>3 DEF Spectra, ExponentsOf
<1>6. coded = encode_exp(m, nb, strategy[b])
  BY Zenon DEF Encoded
<1> HIDE DEF all, nb, size, last, users, m, those, group, first, least, e, n
\* Of a coefficient the least exponent of the blocks is sent.
<1>7. ASSUME NEW k \in 1..Coefficients
      PROVE  LET T == {Exponents[x[i]][k] : i \in users(k)}
             IN T \in SUBSET (0..24) /\ T # {} /\ m[k] = Min(T)
  <2> DEFINE T == {Exponents[x[i]][k] : i \in users(k)}
  <2>1. users(k) \in SUBSET (1..NB_BLOCKS) /\ users(k) # {}
    BY <1>1, <1>2 DEF users
  <2>2. T = {exponent[i][k] : i \in users(k)}
    BY <1>5, <2>1
  <2>3. T \in SUBSET (0..24) /\ T # {}
    BY <1>5, <2>1, <2>2
  <2>4. m[k] = IF k > nb THEN exponent[b][k] ELSE Min({exponent[i][k] : i \in all})
    BY DEF exponent_min, m
  <2> HIDE DEF T
  <2>5. CASE k > nb
    <3>1. users(k) = {b} /\ T = {exponent[b][k]}
      BY <2>2, <2>5 DEF users
    <3>2. exponent[b][k] \in Int
      BY <1>1, <1>5
    <3>3. /\ T \in SUBSET Int /\ exponent[b][k] \in T
          /\ \A t \in T : exponent[b][k] <= t
      BY <3>1, <3>2
    <3>4. Min(T) = exponent[b][k]
      BY <3>3, LeastIs
    <3> QED
      BY <2>3, <2>4, <2>5, <3>4 DEF T
  <2>6. CASE ~(k > nb)
    <3>1. users(k) = all /\ T = {exponent[i][k] : i \in all}
      BY <2>2, <2>6 DEF users
    <3> QED
      BY <2>3, <2>4, <2>6, <3>1 DEF T
  <2> QED
    BY <2>5, <2>6
<1>8. m \in Spectra
  BY <1>1, <1>2, <1>3, LeastOfBlocks DEF m
<1>9. /\ e \in Arrays(n) /\ e[1] = Min({m[1], 15})
      /\ \A i \in 1..last : e[i + 1] = Min(Counted(m, size, i))
  <2>1. /\ e \in Arrays(n) /\ e[1] = Min({m[1], 15})
        /\ \A i \in 1..Groups(nb, strategy[b]) : e[i + 1] = Min(Counted(m, size, i))
    BY <1>1, <1>8, GroupedIs DEF size, e, n
  <2> QED
    BY <2>1 DEF Groups, last, size
\* The coefficients of a group.
<1>10. ASSUME NEW g \in 0..last
       PROVE  /\ group(g) \in SUBSET (1..Coefficients) /\ group(g) # {}
              /\ g = 0 => group(g) = {1}
              /\ g # 0 => group(g) = {2 + (g - 1) * size + j : j \in 0..(size - 1)}
  <2>1. CASE g = 0
    <3>1. first(g) = 1 /\ first(g + 1) = 2
      BY <1>4, <2>1 DEF first
    <3>2. group(g) = 1..1
      BY <3>1 DEF group
    <3> QED
      BY <2>1, <3>2 DEF Coefficients
  <2>2. CASE g # 0
    <3> DEFINE s == 2 + (g - 1) * size
    <3>1. s \in Nat /\ 1 <= s /\ s + size - 1 <= Coefficients /\ first(g + 1) - 1 = s + size - 1
      <4>1. CASE size = 1
        BY <1>4, <2>2, <4>1 DEF Coefficients, first
      <4>2. CASE size = 2
        BY <1>4, <2>2, <4>2 DEF Coefficients, first
      <4>3. CASE size = 4
        BY <1>4, <2>2, <4>3 DEF Coefficients, first
      <4> QED
        BY <1>4, <4>1, <4>2, <4>3
    <3>2. group(g) = s..(s + size - 1)
      BY <2>2, <3>1 DEF group, first
    <3> HIDE DEF s
    <3>3. s..(s + size - 1) = {s + j : j \in 0..(size - 1)}
      <4>1. \A k \in s..(s + size - 1) : k - s \in 0..(size - 1) /\ k = s + (k - s)
        BY <1>4, <3>1
      <4>2. \A j \in 0..(size - 1) : s + j \in s..(s + size - 1)
        BY <1>4, <3>1
      <4> QED
        BY <4>1, <4>2
    <3>4. group(g) \in SUBSET (1..Coefficients) /\ s \in group(g)
      BY <1>4, <3>1, <3>2 DEF Coefficients
    <3> QED
      BY <2>2, <3>2, <3>3, <3>4 DEF s
  <2> QED
    BY <2>1, <2>2
\* Of a group the least exponent of its coefficients.
<1>11. ASSUME NEW g \in 0..last PROVE least[g] = e[g + 1]
  <2> DEFINE dc == IF g = 0 THEN {15} ELSE {}
             mins == {m[k] : k \in group(g)} \union dc
  <2>1. \A t : t \in dc <=> g = 0 /\ t = 15
    OBVIOUS
  <2> HIDE DEF dc
  <2>2. e[g + 1] = Min(mins)
    <3>1. CASE g = 0
      <4>1. mins = {m[1], 15}
        BY <1>10, <2>1, <3>1
      <4> QED
        BY <1>9, <3>1, <4>1
    <3>2. CASE g # 0
      <4>1. g \in 1..last
        BY <3>2
      <4>2. mins = Counted(m, size, g)
        BY <1>10, <2>1, <3>2 DEF Counted
      <4> QED
        BY <1>9, <4>1, <4>2
    <3> QED
      BY <3>1, <3>2
  <2>3. \A k \in group(g) : m[k] \in 0..24
    BY <1>8, <1>10 DEF Spectra
  <2>4. mins \in SUBSET (0..24) /\ mins # {}
    <3>1. \A t \in mins : t \in 0..24
      BY <2>3, <2>1
    <3>2. group(g) # {}
      BY <1>10
    <3> QED
      BY <3>1, <3>2
  <2>5. Min(mins) \in mins /\ Min(mins) \in 0..24 /\ \A t \in mins : Min(mins) <= t
    BY <2>4, LeastExponent
  <2> DEFINE low == Min(mins)
  <2>6. /\ \A k \in group(g) : low <= m[k]
        /\ g = 0 => low <= 15
        /\ (\E k \in group(g) : low = m[k]) \/ (g = 0 /\ low = 15)
        /\ low \in 0..24
    BY <2>5, <2>1
  <2> HIDE DEF low
  <2> DEFINE T(k) == {Exponents[x[i]][k] : i \in users(k)}
  <2>7. \A k \in group(g) : T(k) \in SUBSET (0..24) /\ T(k) # {} /\ m[k] = Min(T(k))
    BY <1>7, <1>10
  <2>8. those(g) = (UNION {T(k) : k \in group(g)}) \union dc
    BY Zenon DEF those, dc
  <2> HIDE DEF T
  <2>9. \A k \in group(g) : m[k] \in T(k) /\ \A t \in T(k) : m[k] <= t
    BY <2>7, LeastExponent
  <2>10. \A t : t \in those(g) <=> (\E k \in group(g) : t \in T(k)) \/ t \in dc
    BY <2>8
  <2>11. low \in those(g)
    <3>1. CASE \E k \in group(g) : low = m[k]
      BY <2>9, <2>10, <3>1, Zenon
    <3>2. CASE g = 0 /\ low = 15
      BY <2>1, <2>10, <3>2, Zenon
    <3> QED
      BY <2>6, <3>1, <3>2
  <2>12. ASSUME NEW t \in those(g) PROVE t \in Int /\ low <= t
    <3>1. CASE \E k \in group(g) : t \in T(k)
      <4>1. PICK k \in group(g) : t \in T(k)
        BY <3>1
      <4>2. t \in 0..24 /\ m[k] <= t /\ low <= m[k] /\ m[k] \in 0..24
        BY <2>3, <2>6, <2>7, <2>9, <4>1
      <4> QED
        BY <2>6, <4>2
    <3>2. CASE t \in dc
      <4>1. g = 0 /\ t = 15
        BY <2>1, <3>2
      <4> QED
        BY <2>6, <4>1
    <3> QED
      BY <2>12, <2>10, <3>1, <3>2
  <2>13. least[g] = Min(those(g))
    BY Zenon DEF least
  <2>14. Min(those(g)) = low
    BY <2>11, <2>12, LeastIs
  <2> QED
    BY <2>2, <2>13, <2>14 DEF low
<1>12. PICK c \in Arrays(n) : encode_exp(m, nb, strategy[b]) = Spread(c, size) /\ Fits(n, e, c)
  BY <1>1, <1>8, EncodedFits DEF n, e, size
<1>13. n \in Nat /\ last \in Nat /\ 1 <= n /\ n - 1 = last
  BY <1>4
<1>14. \A g \in 0..last : coded[first(g)] = c[g + 1]
  <2> TAKE g \in 0..last
  <2>1. coded[1] = c[1] /\ \A i \in 1..(n - 1) : coded[2 + (i - 1) * size] = c[i + 1]
    <3>1. coded = Spread(c, size)
      BY <1>6, <1>12
    <3>2. Spread(c, size)[1] = c[1]
      BY <1>4, <1>12, <1>13, SpreadAt
    <3>3. \A i \in 1..(n - 1) : Spread(c, size)[2 + (i - 1) * size] = c[i + 1]
      BY <1>4, <1>12, <1>13, SpreadAt
    <3> QED
      BY <3>1, <3>2, <3>3
  <2>2. CASE g = 0
    BY <2>1, <2>2 DEF first
  <2>3. CASE g # 0
    <3>1. g \in 1..(n - 1)
      BY <1>13, <2>3
    <3> QED
      BY <2>1, <2>3, <3>1 DEF first
  <2> QED
    BY <2>2, <2>3
<1>15. ASSUME NEW g \in 0..last
       PROVE  c[g + 1] = Min({least[h] + 2 * Abs(g - h) : h \in (0..last) \intersect ((g - 12)..(g + 12))})
  <2> DEFINE near == (0..last) \intersect ((g - 12)..(g + 12))
             mine == (1..n) \intersect (((g + 1) - 12)..((g + 1) + 12))
  <2>1. g + 1 \in 1..n
    BY <1>13
  <2>2. c[g + 1] = Min({e[h] + 2 * Abs((g + 1) - h) : h \in mine})
    <3>1. n \in Nat /\ e \in Arrays(n) /\ Fits(n, e, c)
      BY <1>9, <1>12, <1>13
    <3> QED
      BY <2>1, <3>1, FitsIs, Zenon
  <2>3. \A h \in near : /\ h + 1 \in mine /\ least[h] = e[h + 1] /\ (g + 1) - (h + 1) = g - h
    BY <1>11, <1>13
  <2>4. \A h \in mine : h - 1 \in near /\ h - 1 + 1 = h
    BY <1>13
  <2> HIDE DEF near, mine
  <2>5. {e[h] + 2 * Abs((g + 1) - h) : h \in mine} = {least[h] + 2 * Abs(g - h) : h \in near}
    <3>1. \A h \in near : least[h] + 2 * Abs(g - h) = e[h + 1] + 2 * Abs((g + 1) - (h + 1))
      BY <2>3
    <3>2. \A h \in mine : \E i \in near : h = i + 1
      BY <2>4
    <3>3. \A h \in near : h + 1 \in mine
      BY <2>3
    <3> QED
      BY <3>1, <3>2, <3>3
  <2> QED
    BY <2>2, <2>5 DEF near
<1>16. \A g \in 0..last :
         coded[first(g)] =
           Min({least[h] + 2 * Abs(g - h) : h \in (0..last) \intersect ((g - 12)..(g + 12))})
  BY <1>14, <1>15
<1> QED
  BY <1>16, Zenon DEF FitsBest, last, first, group, users, all, least, those, nb, size
\* The exponents of a frame that is about to be decoded.
FrameFits ==
  sounds # <<>> /\ Decoded = 0 =>
    \A b \in DOMAIN encoded_exp :
      FitsBest(nb_coefs, sounds, DOMAIN encoded_exp, written[b].expstr, encoded_exp[b], b)

\* It is so when a frame has just been coded, and the blocks decoded later say
\* nothing of it.
LEMMA FrameFitsNext ==
  Following /\ FrameFits /\ [ChannelNext]_channel => FrameFits'
<1> SUFFICES ASSUME Following, FrameFits, [ChannelNext]_channel PROVE FrameFits'
  OBVIOUS
<1>1. CASE AC3_encode_frame
  <2>1. PICK x \in FrameContents(is_lfe), o \in Offsets :
          LET exponent == [b \in 1..NB_BLOCKS |-> Exponents[x[b]]]
              strategy == compute_exp_strategy(exponent, is_lfe)
          IN /\ sounds' = x
             /\ encoded_exp' = [first \in New(strategy) |-> Encoded(exponent, strategy, first)]
             /\ written' = [b \in 1..NB_BLOCKS |-> Block(strategy, encoded_exp', o, b)]
    BY <1>1 DEF AC3_encode_frame
  <2> DEFINE exponent == [b \in 1..NB_BLOCKS |-> Exponents[x[b]]]
             strategy == compute_exp_strategy(exponent, is_lfe)
  <2>2. is_lfe \in BOOLEAN /\ is_lfe' = is_lfe
    BY <1>1 DEF Following, AC3_encode_frame
  <2>3. x \in [1..NB_BLOCKS -> Sounds]
    BY <2>1, <2>2, FramesAssumption
  <2>4. New(strategy) \in SUBSET (1..NB_BLOCKS)
    BY StrategyIs
  <2>5. \A b \in New(strategy) :
          FitsBest(nb_coefs, x, New(strategy), strategy[b], Encoded(exponent, strategy, b), b)
    BY <2>3, BlockFits DEF FrameSounds, ExponentsOf
  <2>6. /\ sounds' = x /\ nb_coefs' = nb_coefs
        /\ encoded_exp' = [first \in New(strategy) |-> Encoded(exponent, strategy, first)]
        /\ written' = [b \in 1..NB_BLOCKS |-> Block(strategy, encoded_exp', o, b)]
    BY <2>1, <2>2, Zenon DEF nb_coefs
  <2> HIDE DEF strategy, exponent
  <2>7. DOMAIN encoded_exp' = New(strategy)
    BY <2>6
  <2>8. \A b \in New(strategy) :
          /\ encoded_exp'[b] = Encoded(exponent, strategy, b)
          /\ written'[b] = Block(strategy, encoded_exp', o, b)
    BY <2>4, <2>6
  <2>9. \A b : Block(strategy, encoded_exp', o, b).expstr = strategy[b]
    BY DEF Block
  <2>10. ASSUME NEW b \in New(strategy)
         PROVE  FitsBest(nb_coefs', sounds', DOMAIN encoded_exp', written'[b].expstr, encoded_exp'[b], b)
    BY <2>5, <2>6, <2>7, <2>8, <2>9
  <2> QED
    BY <2>7, <2>10 DEF FrameFits
<1>2. CASE a52_block
  <2>1. written # <<>> /\ written' = Tail(written) /\ Len(written) \in 0..NB_BLOCKS
    BY <1>2 DEF a52_block, Following
  <2>2. PICK S : written \in Seq(S)
    BY DEF Following
  <2>3. Len(written) \in 1..NB_BLOCKS /\ Len(written') = Len(written) - 1
    BY <2>1, <2>2 DEF NB_BLOCKS
  <2>4. Decoded \in 0..(NB_BLOCKS - 1) /\ Decoded' = Decoded + 1
    BY <2>3 DEF Decoded, NB_BLOCKS
  <2>5. Decoded' # 0
    <3> HIDE DEF Decoded
    <3> QED
      BY <2>4 DEF NB_BLOCKS
  <2> QED
    BY <2>5 DEF FrameFits
<1>3. CASE NextFrame
  <2>1. sounds' = <<>>
    BY <1>3 DEF NextFrame
  <2> QED
    BY <2>1 DEF FrameFits
<1>4. CASE UNCHANGED channel
  <2>1. /\ is_lfe' = is_lfe /\ sounds' = sounds /\ encoded_exp' = encoded_exp
        /\ written' = written
    BY <1>4 DEF channel
  <2> QED
    BY <2>1 DEF FrameFits, Decoded, nb_coefs
<1> QED
  BY <1>1, <1>2, <1>3, <1>4 DEF ChannelNext

\* The passes of encode_exp come to an end, with the largest exponents that are not
\* above those of the coefficients and whose steps the format can send, whatever
\* the exponents of the blocks are: no mantissa overflows, and no exponent is lower
\* than the steps make it.
THEOREM TheLargestAreCoded == ChannelSpec => []LargestThatFit
<1>1. ChannelInit => Following
  BY FollowingInit
<1>2. ChannelInit => FrameFits
  BY DEF ChannelInit, FrameFits
<1>3. Following /\ [ChannelNext]_channel => Following'
  BY FollowingNext
<1>4. Following /\ FrameFits /\ [ChannelNext]_channel => FrameFits'
  BY FrameFitsNext
<1>5. FrameFits => LargestThatFit
  BY Zenon DEF FrameFits, LargestThatFit, FitsBest
<1> QED
  BY <1>1, <1>2, <1>3, <1>4, <1>5, PTL DEF ChannelSpec

------------------------------------------------------------------------------
\* The mantissas.

\* For the exponents that block b of a frame sends, the decoder's allocation with the
\* parameters ba is the encoder's.
SameFor(ba, b) ==
  \A k \in 1..nb_coefs :
    Read(Allocation(ba, encoded_exp[b])[k]) = Written(enc_bap[b][k])

\* The two allocations of the frame that has just been coded are the same: a
\* statement about two functions, of which the blocks know nothing.
AllocationsMatch ==
  sounds # <<>> /\ Decoded = 0 => \A b \in DOMAIN encoded_exp : SameFor(written[1].bai, b)

\* The parameters of the frame are sent once, in front, and kept; and the decoder's
\* allocation is that of the exponents it has.
Allocated(ba) ==
  /\ \A b \in DOMAIN encoded_exp : encoded_exp[b] # <<>> /\ SameFor(ba, b)
  /\ \A b \in (Decoded + 1)..NB_BLOCKS :
       written[b - Decoded].bai = ba /\ (written[b - Decoded].baie <=> b = 1)
  /\ Decoded > 0 => bai = ba /\ bap = Allocation(ba, encoded_exp[Sender])

\* While a frame is decoded there are such parameters.
Allocating == sounds # <<>> => \E ba : Allocated(ba)

\* A block that sends exponents sends at least the first.
LEMMA SomethingIsSent ==
  ASSUME NEW exponent \in [1..NB_BLOCKS -> Spectra], NEW strategy,
         strategy = compute_exp_strategy(exponent, is_lfe), NEW b \in New(strategy)
  PROVE  Encoded(exponent, strategy, b) # <<>>
<1> DEFINE size == group_size(strategy[b])
           users == b..(After(New(strategy), b) - 1)
           e == exponent_min(exponent, b, users, nb_coefs)
           n == 1 + Groups(nb_coefs, strategy[b])
<1>1. /\ New(strategy) \in SUBSET (1..NB_BLOCKS) /\ b \in 1..NB_BLOCKS
      /\ Coded(nb_coefs, strategy[b])
  BY StrategyIs
<1>2. users \in SUBSET (1..NB_BLOCKS) /\ b \in users
  BY <1>1, AfterIs
<1> HIDE DEF users
<1>3. e \in Spectra
  BY <1>1, <1>2, LeastOfBlocks
<1>4. Encoded(exponent, strategy, b) = encode_exp(e, nb_coefs, strategy[b])
  BY DEF Encoded, users
<1> HIDE DEF e, n
<1>5. PICK c \in Arrays(n) : encode_exp(e, nb_coefs, strategy[b]) = Spread(c, size)
  BY <1>1, <1>3, EncodedFits DEF n
<1>6. n \in Nat /\ 1 <= n /\ size \in {1, 2, 4}
  BY <1>1, Sizes DEF n, Groups
<1>7. Spread(c, size) = [k \in 1..(1 + (n - 1) * size) |->
        IF k = 1 THEN c[1] ELSE c[2 + (k - 2) \div size]]
  BY <1>6, SpreadAt
<1>8. 1 \in 1..(1 + (n - 1) * size)
  BY <1>6
<1>9. 1 \in DOMAIN Spread(c, size) /\ 1 \notin DOMAIN <<>>
  BY <1>7, <1>8
<1> QED
  BY <1>4, <1>5, <1>9

\* The encoder sends the parameters with the first block.
LEMMA AllocatingFrame ==
  Following /\ AC3_encode_frame /\ AllocationsMatch' => Allocating'
<1> SUFFICES ASSUME Following, AC3_encode_frame, AllocationsMatch' PROVE Allocating'
  OBVIOUS
<1>1. PICK x \in FrameContents(is_lfe), o \in Offsets :
        LET exponent == [b \in 1..NB_BLOCKS |-> Exponents[x[b]]]
            strategy == compute_exp_strategy(exponent, is_lfe)
        IN /\ sounds' = x
           /\ encoded_exp' = [first \in New(strategy) |-> Encoded(exponent, strategy, first)]
           /\ written' = [b \in 1..NB_BLOCKS |-> Block(strategy, encoded_exp', o, b)]
  BY DEF AC3_encode_frame
<1> DEFINE exponent == [b \in 1..NB_BLOCKS |-> Exponents[x[b]]]
           strategy == compute_exp_strategy(exponent, is_lfe)
           ba == SentParameters(o[1], o[2])
<1>2. is_lfe \in BOOLEAN
  BY DEF Following
<1>3. x \in [1..NB_BLOCKS -> Sounds]
  BY <1>1, <1>2, FramesAssumption
<1>4. exponent \in [1..NB_BLOCKS -> Spectra]
  BY <1>3, ExponentsAre
<1> HIDE DEF exponent
<1>5. \A b \in New(strategy) : Encoded(exponent, strategy, b) # <<>>
  BY <1>4, SomethingIsSent
<1> HIDE DEF strategy
<1>6. /\ encoded_exp' = [first \in New(strategy) |-> Encoded(exponent, strategy, first)]
      /\ written' = [b \in 1..NB_BLOCKS |-> Block(strategy, encoded_exp', o, b)]
  BY <1>1 DEF exponent, strategy
<1>7. \A b : /\ Block(strategy, encoded_exp', o, b).bai = ba
             /\ Block(strategy, encoded_exp', o, b).baie <=> b = 1
  BY DEF Block
<1>8. \A b \in 1..NB_BLOCKS : written'[b].bai = ba /\ (written'[b].baie <=> b = 1)
  BY <1>6, <1>7
<1> HIDE DEF ba
<1>9. \A b \in DOMAIN encoded_exp' : encoded_exp'[b] # <<>>
  BY <1>5, <1>6
<1>10. Len(written') = NB_BLOCKS
  BY <1>6 DEF NB_BLOCKS
<1>11. Decoded' = 0 /\ 1 \in 1..NB_BLOCKS /\ \A b \in 1..NB_BLOCKS : b - Decoded' = b
  BY <1>10 DEF Decoded, NB_BLOCKS
<1>12. \A b \in (Decoded' + 1)..NB_BLOCKS :
         written'[b - Decoded'].bai = ba /\ (written'[b - Decoded'].baie <=> b = 1)
  BY <1>8, <1>11
<1>13. ASSUME sounds' # <<>> PROVE \A b \in DOMAIN encoded_exp' : SameFor(ba, b)'
  BY <1>8, <1>11, <1>13 DEF AllocationsMatch
<1>14. ~(Decoded' > 0)
  BY <1>11
<1>15. sounds' # <<>> => Allocated(ba)'
  BY <1>9, <1>12, <1>13, <1>14 DEF Allocated
<1> QED
  BY <1>15 DEF Allocating

\* Allocation, with all that it reads of the state as arguments: what it is in the
\* next state can then be told of this one.
AllocationOf(nb, rate, ba, e) ==
  IF zero_snr_offsets(ba) THEN [i \in 1..nb |-> 0]
  ELSE DecoderAllocation(ba, SubSeq(e, 1, nb), rate)

\* The block whose exponents the decoder uses is one that sent some.
LEMMA SenderSends ==
  ASSUME Following, sounds # <<>>, Decoded > 0
  PROVE  Sender \in DOMAIN encoded_exp
<1> DEFINE T == {i \in DOMAIN encoded_exp : i <= Decoded}
<1>1. DOMAIN encoded_exp \in SUBSET (1..6) /\ 1 \in DOMAIN encoded_exp /\ Decoded \in 1..6
  BY DEF Following, Decoded, NB_BLOCKS
<1>2. 1 \in T /\ T \in SUBSET (1..6)
  BY <1>1
<1>3. Sender = Max(T)
  BY DEF Sender, Owner
<1> HIDE DEF T
<1>4. Max(T) \in T
  <2> DEFINE U == {6 - t : t \in T}
  <2>1. U \in SUBSET Nat /\ U # {}
    BY <1>2
  <2>2. \A u \in U : \E t \in T : u = 6 - t
    OBVIOUS
  <2>3. \A t \in T : 6 - t \in U
    OBVIOUS
  <2> HIDE DEF U
  <2>4. Min(U) \in U /\ \A u \in U : Min(U) <= u
    BY <2>1, LeastOf
  <2>5. PICK t \in T : Min(U) = 6 - t
    BY <2>2, <2>4
  <2>6. \A s \in T : s <= t
    BY <1>2, <2>3, <2>4, <2>5
  <2>7. Max(T) = t
    BY <1>2, <2>6, LargestIs
  <2> QED
    BY <2>7
<1> QED
  BY <1>3, <1>4 DEF T

\* A block with exponents, and the first with the parameters, makes the decoder
\* allocate; the others keep the allocation of the block before.
LEMMA AllocatingBlock == Following /\ Allocating /\ a52_block => Allocating'
<1> SUFFICES ASSUME Following, Allocating, a52_block PROVE Allocating'
  OBVIOUS
<1> DEFINE block == Head(written)
           D == DOMAIN encoded_exp
           d == Decoded + 1
<1>1. /\ written # <<>> /\ written' = Tail(written)
      /\ is_lfe' = is_lfe /\ fscod' = fscod /\ sounds' = sounds
      /\ encoded_exp' = encoded_exp /\ enc_bap' = enc_bap
      /\ bai' = IF block.baie THEN block.bai ELSE bai
      /\ bap' = IF exp' # <<>> /\ do_bit_alloc(block) THEN Allocation(bai', exp') ELSE bap
  BY DEF a52_block
<1>2. /\ sounds # <<>> /\ Len(written) \in 0..NB_BLOCKS
      /\ D \in SUBSET (1..NB_BLOCKS) /\ 1 \in D
      /\ \A b \in (Decoded + 1)..NB_BLOCKS : Sends(b)
  BY <1>1 DEF Following
<1>3. PICK S : written \in Seq(S)
  BY DEF Following
<1>4. PICK ba : Allocated(ba)
  BY <1>2 DEF Allocating
<1>5. /\ Len(written') = Len(written) - 1
      /\ Head(written) = written[1] /\ Len(written) \in 1..NB_BLOCKS
      /\ \A i \in 1..(Len(written) - 1) : written'[i] = written[i + 1]
  BY <1>1, <1>2, <1>3 DEF NB_BLOCKS
<1>6. /\ Decoded \in 0..(NB_BLOCKS - 1) /\ Decoded' = d
      /\ Len(written) = NB_BLOCKS - Decoded
  <2>1. Len(written) \in 1..NB_BLOCKS /\ Len(written') = Len(written) - 1
    BY <1>5, Zenon
  <2> QED
    BY <2>1 DEF Decoded, NB_BLOCKS
<1>7. d \in 1..NB_BLOCKS /\ d - Decoded = 1 /\ d \in (Decoded + 1)..NB_BLOCKS
  BY <1>6 DEF NB_BLOCKS
<1>8. block.bai = ba /\ (block.baie <=> d = 1) /\ (block.expstr = EXP_REUSE <=> d \notin D)
  <2>1. Sends(d) /\ written[d - Decoded].bai = ba /\ (written[d - Decoded].baie <=> d = 1)
    BY <1>2, <1>4, <1>7 DEF Allocated
  <2> QED
    BY <1>5, <1>7, <2>1 DEF Sends
<1>9. /\ \A b \in D : encoded_exp[b] # <<>> /\ SameFor(ba, b)
      /\ Decoded > 0 => bai = ba /\ bap = Allocation(ba, encoded_exp[Sender])
  BY <1>4 DEF Allocated
<1>10. bai' = ba
  <2>1. d # 1 => Decoded > 0
    BY <1>6
  <2> QED
    BY <1>1, <1>8, <1>9, <2>1
<1>11. Sender' = Owner(D, d) /\ exp' = encoded_exp[Sender']
  <2>1. Following'
    BY FollowingBlock
  <2>2. Decoded' > 0
    BY <1>6
  <2>3. exp' = encoded_exp[Sender']
    BY <1>1, <1>2, <2>1, <2>2 DEF Following
  <2> QED
    BY <1>1, <1>6, <2>3 DEF Sender
<1>12. do_bit_alloc(block) <=> d \in D
  BY <1>2, <1>8 DEF do_bit_alloc
<1>13. bap' = AllocationOf(nb_coefs, fscod, ba, encoded_exp[Sender'])
  <2>1. CASE d \in D
    <3>1. Sender' = d
      BY <1>2, <1>7, <1>11, <2>1, OwnerIs
    <3>2. exp' # <<>>
      BY <1>9, <1>11, <2>1, <3>1
    <3>3. bap' = Allocation(ba, encoded_exp[Sender'])
      BY <1>1, <1>10, <1>11, <1>12, <2>1, <3>2
    <3> QED
      BY <3>3, Zenon DEF Allocation, AllocationOf
  <2>2. CASE d \notin D
    <3>1. Sender' = Owner(D, d - 1)
      BY <1>2, <1>7, <1>11, <2>2, OwnerIs
    <3>2. d - 1 = Decoded /\ Decoded > 0
      BY <1>2, <1>6, <2>2
    <3>3. Sender' = Sender
      BY <3>1, <3>2 DEF Sender
    <3>4. bap' = Allocation(ba, encoded_exp[Sender])
      BY <1>1, <1>9, <1>12, <2>2, <3>2
    <3> QED
      BY <3>3, <3>4, Zenon DEF Allocation, AllocationOf
  <2> QED
    BY <2>1, <2>2
<1>14. \A b \in D : (encoded_exp'[b] # <<>>) /\ SameFor(ba, b)'
  BY <1>1, <1>9 DEF SameFor, Allocation, nb_coefs
<1>15. \A b \in (Decoded' + 1)..NB_BLOCKS :
         written'[b - Decoded'].bai = ba /\ (written'[b - Decoded'].baie <=> b = 1)
  <2> SUFFICES ASSUME NEW b \in (Decoded + 2)..NB_BLOCKS
               PROVE  written'[b - Decoded'].bai = ba /\ (written'[b - Decoded'].baie <=> b = 1)
    BY <1>6
  <2>1. b \in (Decoded + 1)..NB_BLOCKS /\ b - Decoded' \in 1..(Len(written) - 1)
        /\ b - Decoded' + 1 = b - Decoded
    BY <1>6 DEF NB_BLOCKS
  <2>2. written'[b - Decoded'] = written[b - Decoded]
    BY <1>5, <2>1
  <2> QED
    BY <1>4, <2>1, <2>2 DEF Allocated
<1>16. bap' = Allocation(ba, encoded_exp[Sender])'
  <2>1. nb_coefs' = nb_coefs /\ fscod' = fscod /\ encoded_exp' = encoded_exp
    BY <1>1, Zenon DEF nb_coefs
  <2>2. bap' = AllocationOf(nb_coefs', fscod', ba, encoded_exp'[Sender'])
    BY <1>13, <2>1
  <2> QED
    BY <2>2, Zenon DEF Allocation, AllocationOf
<1>17. Allocated(ba)'
  BY <1>1, <1>10, <1>14, <1>15, <1>16 DEF Allocated
<1> QED
  BY <1>17 DEF Allocating

\* Every step of the two keeps it.
LEMMA AllocatingNext ==
  Following /\ Allocating /\ AllocationsMatch' /\ [ChannelNext]_channel => Allocating'
<1> SUFFICES ASSUME Following, Allocating, AllocationsMatch', [ChannelNext]_channel
             PROVE  Allocating'
  OBVIOUS
<1>1. CASE AC3_encode_frame
  BY <1>1, AllocatingFrame
<1>2. CASE a52_block
  BY <1>2, AllocatingBlock
<1>3. CASE NextFrame
  <2>1. sounds' = <<>>
    BY <1>3 DEF NextFrame
  <2> QED
    BY <2>1 DEF Allocating
<1>4. CASE UNCHANGED channel
  <2>1. /\ is_lfe' = is_lfe /\ fscod' = fscod /\ sounds' = sounds
        /\ encoded_exp' = encoded_exp /\ enc_bap' = enc_bap
        /\ written' = written /\ bap' = bap /\ bai' = bai
    BY <1>4 DEF channel
  <2> QED
    BY <2>1, SMTT(30) DEF Allocating, Allocated, SameFor, Allocation, Decoded, Sender, nb_coefs
<1> QED
  BY <1>1, <1>2, <1>3, <1>4 DEF ChannelNext

\* If the two allocation functions agree on the exponents of each frame that is
\* coded, the decoder reads in every block the mantissas as they were written: the
\* exponents it allocates by, the parameters it keeps and the blocks in which it
\* allocates afresh are those of the encoder.
THEOREM MantissasFollow == ChannelSpec /\ []AllocationsMatch => []MantissasAgree
<1>1. ChannelInit => Following
  BY FollowingInit
<1>2. ChannelInit => Allocating
  BY DEF ChannelInit, Allocating
<1>3. Following /\ [ChannelNext]_channel => Following'
  BY FollowingNext
<1>4. Following /\ Allocating /\ AllocationsMatch' /\ [ChannelNext]_channel => Allocating'
  BY AllocatingNext
<1>5. Following /\ Allocating => MantissasAgree
  <2> SUFFICES ASSUME Following, Allocating, sounds # <<>>, Decoded > 0
               PROVE  \A k \in 1..nb_coefs : Read(bap[k]) = Written(enc_bap[Sender][k])
    BY DEF MantissasAgree
  <2>1. PICK ba : Allocated(ba)
    BY DEF Allocating
  <2>2. Sender \in DOMAIN encoded_exp
    BY SenderSends
  <2> QED
    BY <2>1, <2>2 DEF Allocated, SameFor
<1> QED
  BY <1>1, <1>2, <1>3, <1>4, <1>5, PTL DEF ChannelSpec

------------------------------------------------------------------------------
\* stream_convert_pcm.

CodedBytes == [frame : Nat, offset : 0..(FrameSize - 1)]

\* Coded byte b is the one that is due after the bytes of s.
Due(s, b) ==
  IF s = <<>> THEN b = [frame |-> 1, offset |-> 0]
              ELSE b = Successor(s[Len(s)])

\* The call's accounts of its two buffers.
Accounts ==
  /\ cbSrcLengthUsed <= cbSrcLength
  /\ pc # "idle" => fed + srcLen <= PcmLength
  /\ cbDstLengthUsed <= cbDstLength
  /\ pc # "idle" => dstLen = cbDstLength - cbDstLengthUsed

\* What each place in the code knows; the PCM collected continues the PCM
\* that has been coded.
Collected ==
  /\ pc \in {"fill", "encode"} => blocks = 0
  /\ pc = "leftover" => blocks > 0
  /\ IF pc = "encode" THEN bufptr = Needed ELSE bufptr < Needed
  /\ fed = pcmEnd + bufptr
  /\ \A k \in 0..(bufptr - 1) : buf[k] = pcmEnd + 1 + k

\* What is pending is the rest of the frame in msd->frame, and it is what the
\* client has to get next; when nothing is pending that is the next frame.
Pending ==
  /\ blocks > 0 => /\ bufend + blocks = FrameSize
                   /\ Due(out, [frame |-> frame, offset |-> bufend])
  /\ blocks = 0 => Due(out, [frame |-> frame + 1, offset |-> 0])

IInv == TypeOK /\ Accounts /\ Collected /\ Pending /\ OutInOrder

USE SizeAssumption

\* A stream that was just opened satisfies the invariant.
LEMMA InitIInv == Init => IInv
  BY DEF Init, IInv, TypeOK, Accounts, Collected, Pending, OutInOrder,
         InOrder, Due, srcLen

\* Delivering the due bytes keeps the output in order; what is due after them
\* follows in the same frame, or begins the next.
LEMMA BytesInOrder ==
  ASSUME NEW s \in Seq(CodedBytes), InOrder(s),
         NEW f \in Nat, NEW o \in 0..FrameSize, NEW tc \in Nat,
         o + tc <= FrameSize,
         Due(s, [frame |-> f, offset |-> o]),
         NEW t, t = s \o Bytes(f, o, tc)
  PROVE  /\ t \in Seq(CodedBytes)
         /\ InOrder(t)
         /\ o + tc < FrameSize => Due(t, [frame |-> f, offset |-> o + tc])
         /\ o + tc = FrameSize /\ tc > 0 =>
              Due(t, [frame |-> f + 1, offset |-> 0])
<1> DEFINE r == Bytes(f, o, tc)
<1>1. /\ r \in Seq(CodedBytes) /\ Len(r) = tc
      /\ \A i \in 1..tc : r[i] = [frame |-> f, offset |-> o + i - 1]
  BY DEF Bytes, CodedBytes
<1>2. /\ t \in Seq(CodedBytes) /\ Len(t) = Len(s) + tc /\ Len(s) \in Nat
      /\ \A i \in 1..Len(s) : t[i] = s[i]
      /\ \A i \in 1..tc : t[Len(s) + i] = [frame |-> f, offset |-> o + i - 1]
  <2>1. t = s \o r
    OBVIOUS
  <2> HIDE DEF r
  <2>2. /\ s \o r \in Seq(CodedBytes) /\ Len(s \o r) = Len(s) + Len(r)
        /\ \A i \in 1..(Len(s) + Len(r)) :
             (s \o r)[i] = IF i <= Len(s) THEN s[i] ELSE r[i - Len(s)]
    BY <1>1, ConcatProperties
  <2>3. Len(s) \in Nat
    OBVIOUS
  <2>4. \A i \in 1..(Len(s) + tc) :
          t[i] = IF i <= Len(s) THEN s[i] ELSE r[i - Len(s)]
    BY <1>1, <2>1, <2>2
  <2>5. ASSUME NEW i \in 1..tc PROVE t[Len(s) + i] = r[i]
    <3>1. Len(s) + i \in 1..(Len(s) + tc) /\ ~(Len(s) + i <= Len(s))
          /\ (Len(s) + i) - Len(s) = i
      BY <2>3
    <3> QED
      BY <2>4, <3>1
  <2> QED
    BY <1>1, <2>1, <2>2, <2>3, <2>4, <2>5
<1> HIDE DEF r
<1>3. CASE tc = 0
  <2>1. t = s
    BY <1>2, <1>3
  <2>2. o + tc = o
    BY <1>3
  <2>3. InOrder(t)
    BY <2>1
  <2>4. Due(t, [frame |-> f, offset |-> o + tc])
    BY <2>1, <2>2
  <2> QED
    BY <1>2, <1>3, <2>3, <2>4
<1>4. CASE tc > 0
  <2>1. t # <<>>
    BY <1>2, <1>4
  <2>2. t[1] = [frame |-> 1, offset |-> 0]
    <3>1. CASE s = <<>>
      BY <1>2, <1>4, <3>1 DEF Due
    <3>2. CASE s # <<>>
      <4>1. 1 \in 1..Len(s)
        BY <3>2
      <4> QED
        BY <1>2, <3>2, <4>1 DEF InOrder
    <3> QED
      BY <3>1, <3>2
  <2>3. ASSUME NEW i \in 2..Len(t) PROVE t[i] = Successor(t[i - 1])
    <3>1. CASE i <= Len(s)
      <4>1. i \in 2..Len(s) /\ t[i] = s[i] /\ t[i - 1] = s[i - 1]
        BY <1>2, <3>1
      <4> QED
        BY <4>1 DEF InOrder
    <3>2. CASE i = Len(s) + 1
      <4>1. t[i] = [frame |-> f, offset |-> o] /\ s # <<>>
        <5>1. 1 \in 1..tc /\ Len(s) # 0
          BY <1>2, <1>4, <3>2
        <5>2. t[Len(s) + 1] = [frame |-> f, offset |-> o + 1 - 1]
          BY <1>2, <5>1
        <5> QED
          BY <3>2, <5>1, <5>2
      <4>2. t[i - 1] = s[Len(s)]
        BY <1>2, <3>2, <4>1
      <4> QED
        BY <4>1, <4>2 DEF Due
    <3>3. CASE i > Len(s) + 1
      <4> DEFINE j == i - Len(s)
      <4>1. j \in 2..tc /\ j - 1 \in 1..tc
        BY <1>2, <3>3
      <4>2. i = Len(s) + j /\ i - 1 = Len(s) + (j - 1)
        BY <1>2
      <4> HIDE DEF j
      <4>3. /\ t[i] = [frame |-> f, offset |-> o + j - 1]
            /\ t[i - 1] = [frame |-> f, offset |-> o + (j - 1) - 1]
        BY <1>2, <4>1, <4>2
      <4>4. /\ o + (j - 1) - 1 # FrameSize - 1
            /\ o + j - 1 = (o + (j - 1) - 1) + 1
        BY <4>1
      <4> QED
        BY <4>3, <4>4 DEF Successor
    <3> QED
      BY <1>2, <3>1, <3>2, <3>3
  <2>4. t[Len(t)] = [frame |-> f, offset |-> o + tc - 1]
    BY <1>2, <1>4
  <2>5. InOrder(t)
    BY <2>2, <2>3 DEF InOrder
  <2>6. o + tc < FrameSize => Due(t, [frame |-> f, offset |-> o + tc])
    <3>1. o + tc < FrameSize => o + tc - 1 # FrameSize - 1
      OBVIOUS
    <3>2. (o + tc - 1) + 1 = o + tc
      OBVIOUS
    <3> QED
      BY <2>1, <2>4, <3>1, <3>2 DEF Due, Successor
  <2>7. o + tc = FrameSize => Due(t, [frame |-> f + 1, offset |-> 0])
    BY <2>1, <2>4 DEF Due, Successor
  <2> QED
    BY <1>2, <2>5, <2>6, <2>7
<1> QED
  BY <1>3, <1>4

\* A call of the client, with or without START, keeps the invariant.
LEMMA ConvertIInv ==
  ASSUME IInv, NEW n \in SrcSizes, NEW d \in DstSizes,
         Convert(n, d) \/ ConvertStart(n, d)
  PROVE  IInv'
<1>1. CASE Convert(n, d)
  <2>1. TypeOK' /\ Accounts'
    BY <1>1 DEF IInv, TypeOK, Accounts, Convert, Enter, msd, srcLen
  <2>2. Collected' /\ Pending' /\ OutInOrder'
    BY <1>1 DEF IInv, TypeOK, Collected, Pending, OutInOrder, Due, Convert,
                Enter, msd
  <2> QED
    BY <2>1, <2>2 DEF IInv
<1>2. CASE ConvertStart(n, d)
  <2>1. TypeOK' /\ Accounts'
    BY <1>2 DEF IInv, TypeOK, Accounts, ConvertStart, Enter, srcLen
  <2>2. Collected' /\ Pending' /\ OutInOrder'
    BY <1>2 DEF Collected, Pending, OutInOrder, InOrder, Due, ConvertStart,
                Enter
  <2> QED
    BY <2>1, <2>2 DEF IInv
<1> QED
  BY <1>1, <1>2

\* So does the delivery of the bytes carried over,
LEMMA LeftoverIInv ==
  ASSUME IInv, Leftover PROVE IInv'
<1> DEFINE tc == Smaller(blocks, dstLen)
<1>1. /\ pc = "leftover" /\ Deliver(frame, bufend, tc) /\ blocks' = blocks - tc
      /\ pc' = IF dstLen' <= 0 THEN "idle" ELSE "fill"
      /\ UNCHANGED <<fed, buf, bufptr, frame, cbSrcLength, cbSrcLengthUsed,
                     cbDstLength, pcmEnd>>
  BY DEF Leftover
<1>2. /\ tc \in Nat /\ tc <= blocks /\ tc <= dstLen
      /\ tc = blocks \/ tc = dstLen
      /\ blocks \in Nat /\ dstLen \in Nat /\ bufend \in 0..FrameSize
  BY DEF IInv, TypeOK, Smaller
<1> HIDE DEF tc
<1>3. /\ out' = out \o Bytes(frame, bufend, tc)
      /\ cbDstLengthUsed' = cbDstLengthUsed + tc
      /\ dstLen' = dstLen - tc /\ bufend' = bufend + tc
  BY <1>1 DEF Deliver
<1>4. /\ blocks > 0 /\ bufend + blocks = FrameSize
      /\ Due(out, [frame |-> frame, offset |-> bufend])
  BY <1>1 DEF IInv, Collected, Pending
<1>5. /\ out' \in Seq(CodedBytes) /\ InOrder(out')
      /\ bufend + tc < FrameSize =>
           Due(out', [frame |-> frame, offset |-> bufend + tc])
      /\ bufend + tc = FrameSize /\ tc > 0 =>
           Due(out', [frame |-> frame + 1, offset |-> 0])
  <2>1. bufend + tc <= FrameSize
    BY <1>2, <1>4
  <2>2. /\ out \in Seq(CodedBytes) /\ InOrder(out) /\ frame \in Nat
    BY DEF IInv, TypeOK, OutInOrder, CodedBytes
  <2> QED
    BY <1>2, <1>3, <1>4, <2>1, <2>2, BytesInOrder
<1>6. TypeOK' /\ Accounts'
  BY <1>1, <1>2, <1>3, <1>4, <1>5
     DEF IInv, TypeOK, Accounts, srcLen, CodedBytes
<1>7. Collected'
  BY <1>1, <1>2, <1>3 DEF IInv, Collected
<1>8. Pending'
  BY <1>1, <1>2, <1>3, <1>4, <1>5 DEF Pending
<1> QED
  BY <1>5, <1>6, <1>7, <1>8 DEF IInv, OutInOrder

\* and the copy of PCM to the buffer,
LEMMA FillIInv ==
  ASSUME IInv, Fill PROVE IInv'
<1>1. /\ pc = "fill" /\ blocks = 0 /\ bufptr < Needed
      /\ UNCHANGED <<frame, bufend, blocks, cbSrcLength, cbDstLength,
                     cbDstLengthUsed, dstLen, pcmEnd, out>>
  BY DEF IInv, Collected, Fill
<1>2. OutInOrder' /\ Pending'
  BY <1>1 DEF IInv, OutInOrder, Pending
<1>3. CASE srcLen <= 0
  <2>1. pc' = "idle" /\ UNCHANGED <<fed, buf, bufptr, cbSrcLengthUsed>>
    BY <1>3 DEF Fill
  <2>2. TypeOK' /\ Accounts' /\ Collected'
    BY <1>1, <2>1 DEF IInv, TypeOK, Accounts, Collected
  <2> QED
    BY <1>2, <2>2 DEF IInv
<1>4. CASE srcLen > 0
  <2> DEFINE tc == Smaller(Needed - bufptr, srcLen)
  <2>1. /\ buf' = [k \in DOMAIN buf |-> IF k \in bufptr..(bufptr + tc - 1)
                                       THEN fed + 1 + k - bufptr ELSE buf[k]]
        /\ bufptr' = bufptr + tc
        /\ cbSrcLengthUsed' = cbSrcLengthUsed + tc
        /\ fed' = fed + tc
        /\ pc' = IF bufptr + tc >= Needed THEN "encode" ELSE "fill"
    BY <1>4 DEF Fill, IInv, TypeOK, srcLen
  <2>2. /\ tc \in Nat /\ tc <= srcLen /\ bufptr + tc <= Needed
        /\ bufptr \in Nat /\ fed \in Nat /\ srcLen \in Nat
        /\ fed + srcLen <= PcmLength
    BY <1>1, <1>4 DEF IInv, TypeOK, Accounts, Smaller, srcLen
  <2> HIDE DEF tc
  <2>3. DOMAIN buf = 0..(Needed - 1)
        /\ \A k \in 0..(Needed - 1) : buf[k] \in 0..PcmLength
    BY DEF IInv, TypeOK
  <2>4. \A k \in 0..(Needed - 1) :
          buf'[k] = IF k \in bufptr..(bufptr + tc - 1)
                    THEN fed + 1 + k - bufptr ELSE buf[k]
    BY <2>1, <2>3
  <2>5. buf' \in [0..(Needed - 1) -> 0..PcmLength]
    <3>1. \A k \in 0..(Needed - 1) : k \in bufptr..(bufptr + tc - 1) =>
            fed + 1 + k - bufptr \in 0..PcmLength
      BY <2>2
    <3> QED
      BY <2>1, <2>3, <3>1
  <2>6. TypeOK'
    BY <1>1, <2>1, <2>2, <2>5 DEF IInv, TypeOK
  <2>7. Accounts'
    BY <1>1, <2>1, <2>2 DEF IInv, TypeOK, Accounts, srcLen
  <2>8. Collected'
    <3>1. /\ fed = pcmEnd + bufptr /\ pcmEnd \in Nat
          /\ \A k \in 0..(bufptr - 1) : buf[k] = pcmEnd + 1 + k
      BY DEF IInv, TypeOK, Collected
    <3>2. ASSUME NEW k \in 0..(bufptr' - 1) PROVE buf'[k] = pcmEnd' + 1 + k
      BY <1>1, <2>1, <2>2, <2>4, <3>1
    <3>3. fed' = pcmEnd' + bufptr' /\ blocks' = 0
      BY <1>1, <2>1, <2>2, <3>1
    <3>4. /\ IF pc' = "encode" THEN bufptr' = Needed ELSE bufptr' < Needed
          /\ pc' # "leftover"
      BY <2>1, <2>2
    <3> QED
      BY <3>2, <3>3, <3>4 DEF Collected
  <2> QED
    BY <1>2, <2>6, <2>7, <2>8 DEF IInv
<1>5. srcLen \in Int
  BY DEF IInv, TypeOK, srcLen
<1> QED
  BY <1>3, <1>4, <1>5

\* and the coding of a frame, with the delivery of what there is room for.
LEMMA EncodeIInv ==
  ASSUME IInv, Encode PROVE IInv'
<1> DEFINE tc == Smaller(FrameSize, dstLen)
<1>1. /\ pc = "encode" /\ frame' = frame + 1 /\ pcmEnd' = buf[Needed - 1]
      /\ bufptr' = 0 /\ Deliver(frame + 1, 0, tc) /\ blocks' = FrameSize - tc
      /\ pc' = IF dstLen' <= 0 THEN "idle" ELSE "fill"
      /\ UNCHANGED <<fed, buf, cbSrcLength, cbSrcLengthUsed, cbDstLength>>
  BY DEF Encode
<1>2. /\ tc \in Nat /\ tc <= FrameSize /\ tc <= dstLen
      /\ tc = FrameSize \/ tc = dstLen
      /\ dstLen \in Nat
  BY DEF IInv, TypeOK, Smaller
<1> HIDE DEF tc
<1>3. /\ out' = out \o Bytes(frame + 1, 0, tc)
      /\ cbDstLengthUsed' = cbDstLengthUsed + tc
      /\ dstLen' = dstLen - tc /\ bufend' = tc
  BY <1>1, <1>2 DEF Deliver
<1>4. /\ blocks = 0 /\ bufptr = Needed /\ frame \in Nat
      /\ Due(out, [frame |-> frame + 1, offset |-> 0])
      /\ out \in Seq(CodedBytes) /\ InOrder(out)
  BY <1>1 DEF IInv, TypeOK, Collected, Pending, OutInOrder, CodedBytes
<1>5. /\ out' \in Seq(CodedBytes) /\ InOrder(out')
      /\ 0 + tc < FrameSize =>
           Due(out', [frame |-> frame + 1, offset |-> 0 + tc])
      /\ 0 + tc = FrameSize /\ tc > 0 =>
           Due(out', [frame |-> (frame + 1) + 1, offset |-> 0])
  <2>1. 0 \in 0..FrameSize /\ 0 + tc <= FrameSize /\ frame + 1 \in Nat
    BY <1>2, <1>4
  <2> QED
    BY <1>2, <1>3, <1>4, <2>1, BytesInOrder
<1>6. 0 + tc = tc
  BY <1>2
<1>7. buf[Needed - 1] \in 0..PcmLength /\ fed = buf[Needed - 1]
  <2>1. Needed - 1 \in 0..(Needed - 1) /\ Needed \in Nat
    OBVIOUS
  <2>2. buf[Needed - 1] = pcmEnd + 1 + (Needed - 1) /\ fed = pcmEnd + Needed
    BY <1>4, <2>1 DEF IInv, Collected
  <2> QED
    BY <2>1, <2>2 DEF IInv, TypeOK
<1>8. TypeOK' /\ Accounts'
  BY <1>1, <1>2, <1>3, <1>4, <1>5, <1>7, SMTT(30)
     DEF IInv, TypeOK, Accounts, srcLen, CodedBytes
<1>9. Collected'
  BY <1>1, <1>2, <1>3, <1>7 DEF IInv, TypeOK, Collected
<1>10. Pending'
  BY <1>1, <1>2, <1>3, <1>5, <1>6 DEF Pending
<1> QED
  BY <1>5, <1>8, <1>9, <1>10 DEF IInv, OutInOrder

\* Every step preserves the invariant.
LEMMA NextIInv == IInv /\ [Next]_vars => IInv'
<1> SUFFICES ASSUME IInv, [Next]_vars PROVE IInv'
  OBVIOUS
<1>1. CASE Step
  BY <1>1, LeftoverIInv, FillIInv, EncodeIInv DEF Step
<1>2. CASE UNCHANGED vars
  <2>1. TypeOK' /\ Accounts'
    BY <1>2 DEF IInv, TypeOK, Accounts, vars, msd, srcLen
  <2>2. Collected' /\ Pending' /\ OutInOrder'
    BY <1>2 DEF IInv, Collected, Pending, OutInOrder, vars, msd
  <2> QED
    BY <2>1, <2>2 DEF IInv
<1> QED
  BY <1>1, <1>2, ConvertIInv DEF Next

\* The invariant holds in every reachable state.
THEOREM Invariance == Spec => []IInv
  BY InitIInv, NextIInv, PTL DEF Spec

\* Every variable of the conversion keeps its type.
THEOREM TypeCorrect == Spec => []TypeOK
  BY Invariance, PTL DEF IInv

\* No frame is coded over one that has not been delivered.
THEOREM EncodesWhenDrained == Spec => []EncodeWhenDrained
<1>1. IInv => EncodeWhenDrained
  BY DEF IInv, Collected, EncodeWhenDrained
<1> QED
  BY <1>1, Invariance, PTL

\* Every sample goes into one frame, and in its place.
THEOREM PcmIsInOrder == Spec => []PcmInOrder
<1>1. IInv => PcmInOrder
  BY DEF IInv, Collected, PcmInOrder
<1> QED
  BY <1>1, Invariance, PTL

\* The coded bytes come out in order, none lost and none repeated.
THEOREM OutputInOrder == Spec => []OutInOrder
  BY Invariance, PTL DEF IInv

\* A call returns with its source used up or its destination full.
LEMMA StepReturns ==
  ASSUME IInv, [Next]_vars, pc # "idle", pc' = "idle"
  PROVE  /\ cbDstLengthUsed' <= cbDstLength'
         /\ cbSrcLengthUsed' = cbSrcLength' \/ dstLen' = 0
<1>1. IInv'
  BY NextIInv
<1>2. /\ cbDstLengthUsed' <= cbDstLength' /\ dstLen' \in Nat
  BY <1>1 DEF IInv, TypeOK, Accounts
<1>3. CASE Leftover \/ Encode
  BY <1>2, <1>3 DEF Leftover, Encode
<1>4. CASE Fill
  BY <1>2, <1>4 DEF Fill, IInv, TypeOK, Accounts, srcLen
<1> QED
  BY <1>3, <1>4 DEF Next, Step, Convert, ConvertStart, Enter, vars

\* stream_convert_pcm never overruns the destination, and leaves source bytes
\* unread only when the destination is full.
THEOREM CallsReturnWhenDone == Spec => ReturnsWhenDone
<1>1. IInv /\ [Next]_vars =>
        [pc # "idle" /\ pc' = "idle" =>
           /\ cbDstLengthUsed' <= cbDstLength'
           /\ cbSrcLengthUsed' = cbSrcLength' \/ dstLen' = 0]_vars
  BY StepReturns
<1> QED
  BY <1>1, Invariance, PTL DEF Spec, ReturnsWhenDone

\* What was taken and what was delivered, counted in frames: the frames coded so
\* far hold the PCM up to pcmEnd, and their bytes are delivered or owed.
Sums ==
  /\ pcmEnd = frame * Needed
  /\ Len(out) + blocks = frame * FrameSize

\* A copy of tc bytes to the destination adds as many to the output.
LEMMA DeliverLength ==
  ASSUME NEW s \in Seq(CodedBytes),
         NEW f \in Nat, NEW o \in 0..FrameSize, NEW tc \in Nat,
         o + tc <= FrameSize
  PROVE  Len(s \o Bytes(f, o, tc)) = Len(s) + tc
<1> DEFINE r == Bytes(f, o, tc)
<1>1. r \in Seq(CodedBytes) /\ Len(r) = tc
  BY DEF Bytes, CodedBytes
<1> HIDE DEF r
<1>2. Len(s \o r) = Len(s) + Len(r)
  BY <1>1, ConcatProperties
<1>3. Len(s \o r) = Len(s) + tc
  BY <1>1, <1>2
<1> QED
  BY <1>3 DEF r

\* Every step keeps the two accounts balanced.
LEMMA SumsKept == IInv /\ Sums /\ [Next]_vars => Sums'
<1> SUFFICES ASSUME IInv, Sums, [Next]_vars PROVE Sums'
  OBVIOUS
<1>1. /\ out \in Seq(CodedBytes) /\ Len(out) \in Nat /\ frame \in Nat
      /\ blocks \in Nat /\ dstLen \in Nat
  BY DEF IInv, TypeOK, CodedBytes
<1>2. CASE Leftover
  <2> DEFINE tc == Smaller(blocks, dstLen)
  <2>1. /\ out' = out \o Bytes(frame, bufend, tc) /\ blocks' = blocks - tc
        /\ UNCHANGED <<frame, pcmEnd>>
    BY <1>2 DEF Leftover, Deliver
  <2>2. /\ tc \in Nat /\ tc <= blocks
        /\ bufend \in 0..FrameSize /\ bufend + blocks = FrameSize
    BY <1>1, <1>2 DEF Leftover, IInv, TypeOK, Collected, Pending, Smaller
  <2> HIDE DEF tc
  <2>3. Len(out') = Len(out) + tc
    <3>1. bufend + tc <= FrameSize
      BY <1>1, <2>2
    <3>2. Len(out \o Bytes(frame, bufend, tc)) = Len(out) + tc
      BY <1>1, <2>2, <3>1, DeliverLength
    <3> QED
      BY <2>1, <3>2, Zenon
  <2>4. blocks' = blocks - tc /\ UNCHANGED <<frame, pcmEnd>>
    BY <2>1
  <2>5. Len(out') + blocks' = Len(out) + blocks
    BY <1>1, <2>2, <2>3, <2>4
  <2> QED
    BY <2>4, <2>5 DEF Sums
<1>3. CASE Encode
  <2> DEFINE tc == Smaller(FrameSize, dstLen)
  <2>1. /\ out' = out \o Bytes(frame + 1, 0, tc) /\ blocks' = FrameSize - tc
        /\ frame' = frame + 1 /\ pcmEnd' = buf[Needed - 1]
    BY <1>3 DEF Encode, Deliver
  <2>2. tc \in Nat /\ tc <= FrameSize
    BY <1>1 DEF Smaller
  <2> HIDE DEF tc
  <2>3. Len(out') = Len(out) + tc
    <3>1. frame + 1 \in Nat /\ 0 \in 0..FrameSize /\ 0 + tc <= FrameSize
      BY <1>1, <2>2
    <3>2. Len(out \o Bytes(frame + 1, 0, tc)) = Len(out) + tc
      BY <1>1, <2>2, <3>1, DeliverLength
    <3> QED
      BY <2>1, <3>2, Zenon
  <2>4. blocks = 0 /\ buf[Needed - 1] = pcmEnd + Needed
    <3>1. /\ pc = "encode" /\ bufptr = Needed /\ pcmEnd \in Nat
          /\ Needed - 1 \in 0..(bufptr - 1)
      BY <1>3 DEF Encode, IInv, TypeOK, Collected
    <3> QED
      BY <3>1 DEF IInv, Collected
  <2>5. /\ (frame + 1) * Needed = frame * Needed + Needed
        /\ (frame + 1) * FrameSize = frame * FrameSize + FrameSize
    BY <1>1
  <2>6. Len(out') + blocks' = Len(out) + FrameSize
    <3>1. blocks' = FrameSize - tc
      BY <2>1
    <3> QED
      BY <1>1, <2>2, <2>3, <3>1
  <2>7. Len(out) = frame * FrameSize
    BY <1>1, <2>4 DEF Sums
  <2> QED
    BY <2>1, <2>4, <2>5, <2>6, <2>7 DEF Sums
<1>4. CASE Fill \/ UNCHANGED vars
  BY <1>4 DEF Fill, Sums, vars, msd
<1>5. ASSUME NEW n \in SrcSizes, NEW d \in DstSizes,
             Convert(n, d) \/ ConvertStart(n, d)
      PROVE  Sums'
  <2>1. CASE Convert(n, d)
    BY <2>1 DEF Convert, Sums, msd
  <2>2. CASE ConvertStart(n, d)
    <3>1. pcmEnd' = 0 /\ frame' = 0 /\ blocks' = 0 /\ out' = <<>>
      BY <2>2 DEF ConvertStart
    <3> QED
      BY <3>1 DEF Sums
  <2> QED
    BY <1>5, <2>1, <2>2
<1> QED
  BY <1>2, <1>3, <1>4, <1>5 DEF Next, Step

\* Between two calls, and at the head of the loop, the stream owes what it has
\* not delivered of the frames its PCM fills, and no byte more or less.
THEOREM StreamOwes == Spec => []Ledger
<1>1. Init => Sums
  BY DEF Init, Sums
<1>2. IInv /\ Sums => Ledger
  <2> SUFFICES ASSUME IInv, Sums, pc # "encode"
               PROVE  Len(out) + blocks = (fed \div Needed) * FrameSize
    BY DEF Ledger
  <2>1. /\ frame \in Nat /\ bufptr \in 0..(Needed - 1)
        /\ fed = frame * Needed + bufptr
    BY DEF IInv, TypeOK, Collected, Sums
  <2>2. (frame * Needed + bufptr) \div Needed = frame
    BY <2>1
  <2> QED
    BY <2>1, <2>2 DEF Sums
<1> QED
  BY <1>1, <1>2, SumsKept, Invariance, PTL DEF Spec
==============================================================================
