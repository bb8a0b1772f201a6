-------------------------- MODULE HubQueriesProofs --------------------------
(***************************************************************************)
(* The pages of the unbonding history, for every limit, every number of    *)
(* batches and every value of DEFAULT_LIMIT and MAX_LIMIT; and how far the *)
(* query of withdrawable coins can be from what a withdrawal pays.         *)
(***************************************************************************)
EXTENDS HubQueries, HubSolvencyProofs

(* The limit all_unbond_history works with.                                *)
PageLimit(limit) == Lesser(IF limit = None THEN DefaultLimit ELSE limit, MaxLimit)

Limits == (Nat \ {0}) \cup {None}

(* A page is never asked to be empty.                                      *)
LEMMA PageLimitPositive ==
  ASSUME NEW limit \in Limits
  PROVE  PageLimit(limit) \in Nat \ {0}
BY QueryAssumption DEF PageLimit, Limits, Lesser

(* How many numbers an interval has.                                       *)
LEMMA IntervalSize ==
  ASSUME NEW s \in Nat, NEW b \in Nat, s < b
  PROVE  Cardinality((s + 1)..b) = b - s
<1>1. s + 1 \in Int /\ b \in Int /\ ~(s + 1 > b)  OBVIOUS
<1>2. Cardinality((s + 1)..b) = b - (s + 1) + 1  BY <1>1, FS_Interval
<1> QED  BY <1>2

(* A query of the history after batch s shows the next batches, up to the  *)
(* limit.                                                                  *)
LEMMA QueryAfter ==
  ASSUME NEW N \in Nat, DOMAIN history = 1..N, NEW limit \in Limits, NEW s \in Nat,
         NEW start, start = s \/ (start = None /\ s = 0)
  PROVE  AllUnbondHistory(start, limit) =
           {b \in 1..N : s < b /\ b <= s + PageLimit(limit)}
<1> DEFINE lim == PageLimit(limit)
<1>1. lim \in Nat \ {0}  BY PageLimitPositive
<1>2. AfterStart(start) = {b \in 1..N : s < b}
  <2>1. None \notin Nat  BY ConfigAssumption
  <2> QED  BY <2>1 DEF AfterStart
<1>3. AllUnbondHistory(start, limit) =
        {b \in {x \in 1..N : s < x} :
           Cardinality({k \in {x \in 1..N : s < x} : k <= b}) <= lim}
      BY <1>2 DEF AllUnbondHistory, PageLimit
<1> HIDE DEF lim
<1>4. ASSUME NEW b \in 1..N, s < b
      PROVE  Cardinality({k \in {x \in 1..N : s < x} : k <= b}) = b - s
  <2>1. {k \in {x \in 1..N : s < x} : k <= b} = (s + 1)..b  BY <1>4
  <2>2. Cardinality((s + 1)..b) = b - s  BY <1>4, IntervalSize
  <2> QED  BY <2>1, <2>2
<1>5. \A b \in 1..N : s < b => (b - s <= lim <=> b <= s + lim)  BY <1>1
<1>6. ASSUME NEW b
      PROVE  b \in AllUnbondHistory(start, limit)
               <=> b \in 1..N /\ s < b /\ b <= s + lim
      BY <1>3, <1>4, <1>5
<1> QED  BY <1>6 DEF lim

-----------------------------------------------------------------------------
(* The pages *)

PagesEquation(f, limit) ==
  f = [n \in 1..MaxBatch |->
         IF n = 1 THEN AllUnbondHistory(None, limit)
         ELSE IF f[n - 1] = {} THEN {}
         ELSE AllUnbondHistory(Max(f[n - 1]), limit)]

(* Page n holds the n-th run of batches of the limit's length.             *)
NthPage(N, lim, n) == {b \in 1..N : (n - 1) * lim < b /\ b <= n * lim}

(* What follows a page is the next one, the first if there is none before. *)
LEMMA NextPage ==
  ASSUME NEW N \in Nat, DOMAIN history = 1..N, NEW limit \in Limits,
         NEW n \in Nat \ {0}, n # 1,
         NEW lim, lim = PageLimit(limit)
  PROVE  NthPage(N, lim, n) =
           IF NthPage(N, lim, n - 1) = {} THEN {}
           ELSE AllUnbondHistory(Max(NthPage(N, lim, n - 1)), limit)
<1>1. lim \in Nat \ {0}  BY PageLimitPositive
<1> DEFINE m == n - 1
           P == NthPage(N, lim, m)
<1>2. m \in Nat \ {0} /\ n = m + 1 /\ m - 1 \in Nat  OBVIOUS
<1>3. PICK x \in Nat : x = m * lim  BY <1>1, <1>2
<1>4. PICK w \in Nat : w = (m - 1) * lim  BY <1>1, <1>2
<1>5. x = w + lim
  <2>1. m * lim = (m - 1) * lim + lim  BY <1>1, <1>2
  <2> QED  BY <1>3, <1>4, <2>1
<1>6. n * lim = x + lim /\ (n - 1) * lim = x
  <2>1. (m + 1) * lim = m * lim + lim  BY <1>1, <1>2
  <2> QED  BY <1>2, <1>3, <2>1
<1>7. P = {b \in 1..N : w < b /\ b <= x}  BY <1>3, <1>4 DEF NthPage
<1>8. NthPage(N, lim, n) = {b \in 1..N : x < b /\ b <= x + lim}
      BY <1>6 DEF NthPage
<1>9. n - 1 = m  OBVIOUS
<1> HIDE DEF m, P
<1>10. CASE P = {}
  <2>1. N <= w
    <3>1. SUFFICES ASSUME w < N PROVE FALSE  BY <1>4
    <3>2. w + 1 \in P  BY <1>1, <1>4, <1>5, <1>7, <3>1
    <3> QED  BY <1>10, <3>2
  <2>2. NthPage(N, lim, n) = {}  BY <1>1, <1>3, <1>4, <1>5, <1>8, <2>1
  <2> QED  BY <1>9, <1>10, <2>2 DEF P
<1>11. CASE P # {}
  <2>1. PICK e \in P : TRUE  BY <1>11
  <2>2. PICK t \in Nat : t = IF x <= N THEN x ELSE N  BY <1>3
  <2>3. t \in P /\ \A y \in P : t >= y
    <3>1. e \in 1..N /\ w < e  BY <1>7, <2>1
    <3>2. t \in 1..N /\ w < t /\ t <= x  BY <1>1, <1>3, <1>4, <1>5, <2>2, <3>1
    <3>3. \A y \in P : y \in 1..N /\ y <= x  BY <1>7
    <3> QED  BY <1>3, <1>7, <2>2, <3>2, <3>3
  <2>4. P \subseteq Nat  BY <1>7
  <2>5. Max(P) = t
    <3>1. \A y \in P : (\A z \in P : y >= z) => y = t  BY <2>2, <2>3, <2>4
    <3> QED  BY <2>3, <3>1 DEF Max
  <2>6. AllUnbondHistory(t, limit) = {b \in 1..N : t < b /\ b <= t + lim}
        BY <2>2, QueryAfter
  <2>7. {b \in 1..N : t < b /\ b <= t + lim} = {b \in 1..N : x < b /\ b <= x + lim}
    <3>1. CASE x <= N  BY <2>2, <3>1
    <3>2. CASE ~(x <= N)  BY <1>1, <1>3, <2>2, <3>2
    <3> QED  BY <3>1, <3>2
  <2> QED  BY <1>8, <1>9, <1>11, <2>5, <2>6, <2>7 DEF P
<1> QED  BY <1>10, <1>11

(* The recursion of Page has the pages as its only solution.               *)
LEMMA PageIsNth ==
  ASSUME NEW N \in Nat, DOMAIN history = 1..N, NEW limit \in Limits,
         NEW n \in 1..MaxBatch
  PROVE  Page(limit)[n] = NthPage(N, PageLimit(limit), n)
<1> DEFINE lim == PageLimit(limit)
           f == [k \in 1..MaxBatch |-> NthPage(N, lim, k)]
           g == Page(limit)
<1>1. lim \in Nat \ {0}  BY PageLimitPositive
<1>2. MaxBatch \in Nat  BY HubAssumption
<1>3. NthPage(N, lim, 1) = AllUnbondHistory(None, limit)
  <2>1. AllUnbondHistory(None, limit) = {b \in 1..N : 0 < b /\ b <= 0 + lim}
        BY QueryAfter
  <2>2. (1 - 1) * lim = 0 /\ 1 * lim = 0 + lim  BY <1>1
  <2> QED  BY <2>1, <2>2 DEF NthPage
<1>4. \A k \in 1..MaxBatch : k # 1 =>
        NthPage(N, lim, k) =
          IF NthPage(N, lim, k - 1) = {} THEN {}
          ELSE AllUnbondHistory(Max(NthPage(N, lim, k - 1)), limit)
      BY <1>2, NextPage
<1> HIDE DEF lim
<1>5. PagesEquation(f, limit)
  <2>1. \A k \in 1..MaxBatch : k # 1 => f[k - 1] = NthPage(N, lim, k - 1)
    <3>1. \A k \in 1..MaxBatch : k # 1 => k - 1 \in 1..MaxBatch  BY <1>2
    <3> QED  BY <3>1
  <2>2. \A k \in 1..MaxBatch :
          NthPage(N, lim, k) =
            IF k = 1 THEN AllUnbondHistory(None, limit)
            ELSE IF f[k - 1] = {} THEN {}
            ELSE AllUnbondHistory(Max(f[k - 1]), limit)
    <3> HIDE DEF f
    <3> QED  BY <1>3, <1>4, <2>1
  <2> QED  BY <2>2 DEF PagesEquation
<1>6. PagesEquation(g, limit)
  <2>1. g = CHOOSE h : PagesEquation(h, limit)  BY DEF Page, PagesEquation
  <2> HIDE DEF f, g
  <2> QED  BY <1>5, <2>1
<1> HIDE DEF f, g
<1>7. \A k \in 1..MaxBatch :
        g[k] = IF k = 1 THEN AllUnbondHistory(None, limit)
               ELSE IF g[k - 1] = {} THEN {}
               ELSE AllUnbondHistory(Max(g[k - 1]), limit)
      BY <1>6 DEF PagesEquation
<1> DEFINE B == {k \in 1..MaxBatch : g[k] # NthPage(N, lim, k)}
<1>8. B = {}
  <2> SUFFICES ASSUME B # {} PROVE FALSE  OBVIOUS
  <2>1. B \in SUBSET Nat  BY <1>2
  <2>2. PICK k \in B : \A j \in B : k <= j  BY <2>1, LeastNatural
  <2>3. k \in 1..MaxBatch /\ g[k] # NthPage(N, lim, k)  OBVIOUS
  <2>4. k # 1  BY <1>3, <1>7, <2>3
  <2>5. k - 1 \in 1..MaxBatch /\ ~(k <= k - 1)  BY <1>2, <2>3, <2>4
  <2>6. k - 1 \notin B
    <3> HIDE DEF B
    <3> QED  BY <2>2, <2>5
  <2>7. g[k - 1] = NthPage(N, lim, k - 1)  BY <2>5, <2>6
  <2> HIDE DEF B
  <2> QED  BY <1>4, <1>7, <2>3, <2>4, <2>7
<1> QED  BY <1>8 DEF g, lim

(* Two pages have no batch in common.                                      *)
LEMMA PagesDisjoint ==
  ASSUME NEW N \in Nat, NEW lim \in Nat \ {0}, NEW m \in Nat \ {0}, NEW n \in Nat \ {0},
         m < n
  PROVE  NthPage(N, lim, m) \cap NthPage(N, lim, n) = {}
<1> SUFFICES ASSUME NEW b \in 1..N, b <= m * lim, (n - 1) * lim < b PROVE FALSE
    BY DEF NthPage
<1>1. m <= n - 1 /\ n - 1 \in Nat  OBVIOUS
<1>2. m * lim <= (n - 1) * lim  BY <1>1
<1>3. m * lim \in Nat /\ (n - 1) * lim \in Nat  BY <1>1
<1> QED  BY <1>2, <1>3

(* Every batch is on a page, no later than on the page of its number.      *)
LEMMA PagesCover ==
  ASSUME NEW N \in Nat, NEW lim \in Nat \ {0}, NEW b \in 1..N
  PROVE  \E n \in 1..b : b \in NthPage(N, lim, n)
<1> DEFINE q == (b - 1) \div lim
<1>1. b - 1 \in Nat  OBVIOUS
<1>2. q \in Nat /\ q * lim <= b - 1 /\ b - 1 < q * lim + lim  BY <1>1, DivBounds
<1> HIDE DEF q
<1>3. (q + 1) * lim = q * lim + lim /\ q * lim \in Nat /\ q <= q * lim  BY <1>2
<1>4. q + 1 \in 1..b  BY <1>2, <1>3
<1>5. (q + 1 - 1) * lim = q * lim  BY <1>2
<1>6. b \in NthPage(N, lim, q + 1)  BY <1>2, <1>3, <1>5 DEF NthPage
<1> QED  BY <1>4, <1>6

(* Reading all_unbond_history page after page, each started after the last *)
(* batch of the one before, shows every closed batch exactly once,         *)
(* whatever the limit, the default and the maximum.                        *)
THEOREM PagesAlwaysComplete == Spec => []PagesComplete
<1>1. Order => PagesComplete
  <2> SUFFICES ASSUME Order PROVE PagesComplete  OBVIOUS
  <2>1. PICK N \in Nat : DOMAIN history = 1..N
    <3>1. current_batch.id - 1 \in Nat  BY DEF Order, TypeOK
    <3> QED  BY <3>1 DEF Order, BatchesInOrder
  <2>2. 1..N \subseteq 1..MaxBatch /\ MaxBatch \in Nat
        BY <2>1, HubAssumption DEF Order, TypeOK, BatchIds
  <2>3. ASSUME NEW limit \in 1..(MaxLimit + 1) \cup {None}
        PROVE  /\ UNION {Page(limit)[n] : n \in 1..MaxBatch} = DOMAIN history
               /\ \A m, n \in 1..MaxBatch :
                    m # n => Page(limit)[m] \cap Page(limit)[n] = {}
    <3> DEFINE lim == PageLimit(limit)
    <3>1. limit \in Limits  BY QueryAssumption DEF Limits
    <3>2. lim \in Nat \ {0}  BY <3>1, PageLimitPositive
    <3>3. \A n \in 1..MaxBatch : Page(limit)[n] = NthPage(N, lim, n)
          BY <2>1, <3>1, PageIsNth
    <3> HIDE DEF lim
    <3>4. UNION {NthPage(N, lim, n) : n \in 1..MaxBatch} = 1..N
      <4>1. ASSUME NEW b \in 1..N
            PROVE  \E n \in 1..MaxBatch : b \in NthPage(N, lim, n)
        <5>1. PICK n \in 1..b : b \in NthPage(N, lim, n)  BY <3>2, PagesCover
        <5>2. n \in 1..MaxBatch
          <6>1. b \in 1..MaxBatch  BY <2>2
          <6> QED  BY <2>2, <6>1
        <5> QED  BY <5>1, <5>2
      <4>2. \A n \in 1..MaxBatch : NthPage(N, lim, n) \subseteq 1..N  BY DEF NthPage
      <4> QED  BY <4>1, <4>2
    <3>5. ASSUME NEW m \in 1..MaxBatch, NEW n \in 1..MaxBatch, m # n
          PROVE  NthPage(N, lim, m) \cap NthPage(N, lim, n) = {}
      <4>1. m \in Nat \ {0} /\ n \in Nat \ {0}  BY <2>2
      <4>2. CASE m < n  BY <3>2, <4>1, <4>2, PagesDisjoint
      <4>3. CASE n < m
        <5>1. NthPage(N, lim, n) \cap NthPage(N, lim, m) = {}
              BY <3>2, <4>1, <4>3, PagesDisjoint
        <5> QED  BY <5>1
      <4> QED  BY <3>5, <4>1, <4>2, <4>3
    <3>6. UNION {Page(limit)[n] : n \in 1..MaxBatch}
            = UNION {NthPage(N, lim, n) : n \in 1..MaxBatch}
          BY <3>3
    <3> QED  BY <2>1, <3>3, <3>4, <3>5, <3>6
  <2> QED  BY <2>3 DEF PagesComplete
<1> QED  BY <1>1, OrderCorrect, PTL

-----------------------------------------------------------------------------
(* The withdrawable coins                                                  *)

(* A user with a of the A requested in a batch is promised at the closing  *)
(* rate at most what he is paid, the coins the batch lost, and rounding.   *)
LEMMA PromiseKept ==
  ASSUME NEW A \in Nat \ {0}, NEW a \in Nat, a <= A, NEW rate \in Nat,
         NEW v \in Nat, NEW s \in Nat, MulDec(A, rate) <= v + s + 1
  PROVE  MulDec(a, rate)
           <= MulDec(a, FromRatio(v, A)) + s + (3 + A \div One)
<1> DEFINE q == MulDec(a, rate)
           u == MulDec(A, rate)
           r == FromRatio(v, A)
           p == MulDec(a, r)
           d == A \div One
<1>1. One \in Nat \ {0}  BY FixedPointAssumption
<1>2. q \in Nat /\ q * One <= a * rate  BY MulDecBounds
<1>3. u \in Nat /\ A * rate < u * One + One  BY MulDecBounds, MulDecClose
<1>4. r \in Nat /\ v * One < r * A + A  BY FromRatioBounds, FromRatioClose
<1>5. p \in Nat /\ a * r < p * One + One  BY <1>4, MulDecBounds, MulDecClose
<1>6. d \in Nat /\ A < d * One + One  BY <1>1, DivBounds
<1>7. u <= v + s + 1  OBVIOUS
<1> HIDE DEF q, u, r, p, d
<1>8. A * (q * One) <= a * ((v + (s + 2)) * One)
  <2>1. A * (q * One) <= A * (a * rate)
    <3>1. q * One \in Nat /\ a * rate \in Nat  BY <1>1, <1>2
    <3> QED  BY <1>2, <3>1
  <2>2. A * (a * rate) = a * (A * rate)  OBVIOUS
  <2>3. A * rate <= (v + (s + 2)) * One
    <3>1. u * One + One = (u + 1) * One  BY <1>1, <1>3
    <3>2. u + 1 <= v + (s + 2) /\ u + 1 \in Nat /\ v + (s + 2) \in Nat  BY <1>3, <1>7
    <3>3. (u + 1) * One <= (v + (s + 2)) * One  BY <1>1, <3>2
    <3>4. A * rate \in Nat /\ (u + 1) * One \in Nat /\ (v + (s + 2)) * One \in Nat
          BY <1>1, <3>2
    <3> QED  BY <1>3, <3>1, <3>3, <3>4
  <2>4. A * rate \in Nat /\ (v + (s + 2)) * One \in Nat  BY <1>1
  <2>5. a * (A * rate) <= a * ((v + (s + 2)) * One)  BY <2>3, <2>4
  <2>6. /\ A * (q * One) \in Nat /\ A * (a * rate) \in Nat
        /\ a * ((v + (s + 2)) * One) \in Nat
    <3>1. q * One \in Nat /\ a * rate \in Nat  BY <1>1, <1>2
    <3> QED  BY <2>4, <3>1
  <2> QED  BY <2>1, <2>2, <2>5, <2>6
<1>9. a * (v * One) <= A * (p * One + One + A)
  <2>1. a * (v * One) <= a * (r * A + A)
    <3>1. v * One \in Nat /\ r * A \in Nat  BY <1>1, <1>4
    <3>2. r * A + A \in Nat /\ v * One <= r * A + A  BY <1>4, <3>1
    <3> QED  BY <3>1, <3>2
  <2>2. a * (r * A + A) = A * (a * r + a)
    <3>1. a * (r * A + A) = a * (r * A) + a * A
      <4>1. PICK y \in Nat : y = r * A  BY <1>4
      <4>2. a * (y + A) = a * y + a * A  OBVIOUS
      <4> QED  BY <4>1, <4>2
    <3>2. A * (a * r + a) = A * (a * r) + A * a
      <4>1. PICK y \in Nat : y = a * r  BY <1>4
      <4>2. A * (y + a) = A * y + A * a  OBVIOUS
      <4> QED  BY <4>1, <4>2
    <3>3. a * (r * A) = A * (a * r) /\ a * A = A * a  BY <1>4
    <3> QED  BY <3>1, <3>2, <3>3
  <2>3. a * r + a \in Nat /\ p * One + One + A \in Nat /\ a * r + a <= p * One + One + A
    <3>1. a * r \in Nat /\ p * One \in Nat  BY <1>1, <1>4, <1>5
    <3> QED  BY <1>1, <1>5, <3>1
  <2>4. A * (a * r + a) <= A * (p * One + One + A)  BY <2>3
  <2>5. /\ a * (v * One) \in Nat /\ A * (a * r + a) \in Nat
        /\ A * (p * One + One + A) \in Nat
    <3>1. v * One \in Nat  BY <1>1
    <3> QED  BY <2>3, <3>1
  <2> QED  BY <2>1, <2>2, <2>4, <2>5
<1>10. a * ((s + 2) * One) <= A * ((s + 2) * One)
  <2>1. (s + 2) * One \in Nat  BY <1>1
  <2> QED  BY <2>1
<1>11. A * (q * One) <= A * (p * One + One + A + (s + 2) * One)
  <2>1. PICK e \in Nat, f \in Nat : e = v * One /\ f = (s + 2) * One  BY <1>1
  <2>2. PICK g \in Nat : g = p * One + One + A
    <3>1. p * One \in Nat  BY <1>1, <1>5
    <3> QED  BY <1>1, <3>1
  <2>3. (v + (s + 2)) * One = e + f  BY <1>1, <2>1
  <2>4. a * (e + f) = a * e + a * f /\ A * (g + f) = A * g + A * f  OBVIOUS
  <2>5. a * e <= A * g /\ a * f <= A * f  BY <1>9, <1>10, <2>1, <2>2
  <2>6. a * e \in Nat /\ a * f \in Nat /\ A * g \in Nat /\ A * f \in Nat  OBVIOUS
  <2>7. a * (e + f) <= A * (g + f)  BY <2>4, <2>5, <2>6
  <2>8. A * (q * One) <= a * (e + f)  BY <1>8, <2>3
  <2>9. A * (q * One) \in Nat /\ a * (e + f) \in Nat /\ A * (g + f) \in Nat
    <3>1. q * One \in Nat  BY <1>1, <1>2
    <3> QED  BY <3>1
  <2> QED  BY <2>1, <2>2, <2>7, <2>8, <2>9
<1>12. q * One <= p * One + One + A + (s + 2) * One
  <2>1. q * One \in Nat /\ p * One + One + A + (s + 2) * One \in Nat
    <3>1. q * One \in Nat /\ p * One \in Nat /\ (s + 2) * One \in Nat
          BY <1>1, <1>2, <1>5
    <3> QED  BY <1>1, <3>1
  <2>2. PICK y \in Nat, z \in Nat :
          y = q * One /\ z = p * One + One + A + (s + 2) * One
        BY <2>1
  <2>3. y * A <= z * A
    <3>1. A * y <= A * z  BY <1>11, <2>2
    <3>2. A * y = y * A /\ A * z = z * A  OBVIOUS
    <3> QED  BY <3>1, <3>2
  <2>4. y <= z  BY <2>3, Cancel
  <2> QED  BY <2>2, <2>4
<1>13. q * One < (p + s + (3 + d) + 1) * One
  <2>1. (p + s + (3 + d) + 1) * One = p * One + s * One + 4 * One + d * One
        BY <1>1, <1>5, <1>6
  <2>2. (s + 2) * One = s * One + 2 * One  BY <1>1
  <2>3. /\ q * One \in Nat /\ p * One \in Nat /\ s * One \in Nat /\ d * One \in Nat
        BY <1>1, <1>2, <1>5, <1>6
  <2> QED  BY <1>1, <1>6, <1>12, <2>1, <2>2, <2>3
<1>14. q < p + s + (3 + d) + 1
  <2>1. p + s + (3 + d) + 1 \in Nat  BY <1>5, <1>6
  <2> QED  BY <1>1, <1>2, <1>13, <2>1, Cancel
<1>15. q <= p + s + (3 + d)  BY <1>2, <1>5, <1>6, <1>14
<1> QED  BY <1>15 DEF q, p, r, d

(* He is paid at most what he was promised and the coins the batch won.    *)
LEMMA PromiseExceeded ==
  ASSUME NEW A \in Nat \ {0}, NEW a \in Nat, a <= A, NEW rate \in Nat,
         NEW v \in Nat, NEW s \in Nat, v <= MulDec(A, rate) + s
  PROVE  MulDec(a, FromRatio(v, A)) <= MulDec(a, rate) + s
<1> DEFINE q == MulDec(a, rate)
           u == MulDec(A, rate)
           r == FromRatio(v, A)
           p == MulDec(a, r)
<1>1. One \in Nat \ {0}  BY FixedPointAssumption
<1>2. q \in Nat /\ a * rate < q * One + One  BY MulDecBounds, MulDecClose
<1>3. u \in Nat /\ u * One <= A * rate  BY MulDecBounds
<1>4. r \in Nat /\ r * A <= v * One  BY FromRatioBounds
<1>5. p \in Nat /\ p * One <= a * r  BY <1>4, MulDecBounds
<1>6. v <= u + s  OBVIOUS
<1> HIDE DEF q, u, r, p
<1>7. A * (p * One) <= a * (v * One)
  <2>1. /\ p * One \in Nat /\ a * r \in Nat /\ r * A \in Nat /\ v * One \in Nat
        BY <1>1, <1>4, <1>5
  <2>2. A * (p * One) <= A * (a * r)  BY <1>5, <2>1
  <2>3. A * (a * r) = a * (r * A)  BY <1>4
  <2>4. a * (r * A) <= a * (v * One)  BY <1>4, <2>1
  <2>5. A * (p * One) \in Nat /\ A * (a * r) \in Nat /\ a * (v * One) \in Nat  BY <2>1
  <2> QED  BY <2>2, <2>3, <2>4, <2>5
<1>8. a * (v * One) <= A * (a * rate + s * One)
  <2>1. PICK f \in Nat, g \in Nat, h \in Nat :
          f = A * rate /\ g = s * One /\ h = a * rate
        BY <1>1
  <2>2. v * One <= f + g
    <3>1. v * One <= (u + s) * One  BY <1>1, <1>3, <1>6
    <3>2. (u + s) * One = u * One + s * One  BY <1>1, <1>3
    <3>3. v * One \in Nat /\ u * One \in Nat  BY <1>1, <1>3
    <3> QED  BY <1>3, <2>1, <3>1, <3>2, <3>3
  <2>3. a * (v * One) <= a * (f + g)
    <3>1. v * One \in Nat  BY <1>1
    <3> QED  BY <2>2, <3>1
  <2>4. a * (f + g) = a * f + a * g /\ A * (h + g) = A * h + A * g  OBVIOUS
  <2>5. a * f = A * h
    <3>1. a * (A * rate) = A * (a * rate)  OBVIOUS
    <3> QED  BY <2>1, <3>1
  <2>6. a * g <= A * g  OBVIOUS
  <2>7. /\ a * (v * One) \in Nat /\ a * f \in Nat /\ a * g \in Nat
        /\ A * h \in Nat /\ A * g \in Nat
    <3>1. v * One \in Nat  BY <1>1
    <3> QED  BY <3>1
  <2>8. a * (v * One) <= A * (h + g)  BY <2>3, <2>4, <2>5, <2>6, <2>7
  <2> QED  BY <2>1, <2>8
<1>9. p * One <= a * rate + s * One
  <2>1. PICK y \in Nat, z \in Nat : y = p * One /\ z = a * rate + s * One
    <3>1. p * One \in Nat /\ a * rate \in Nat /\ s * One \in Nat  BY <1>1, <1>5
    <3>2. a * rate + s * One \in Nat  BY <3>1
    <3> QED  BY <3>1, <3>2
  <2>2. A * y <= A * z
    <3>1. A * y \in Nat /\ a * (v * One) \in Nat /\ A * z \in Nat
      <4>1. v * One \in Nat  BY <1>1
      <4> QED  BY <4>1
    <3> QED  BY <1>7, <1>8, <2>1, <3>1
  <2>3. A * y = y * A /\ A * z = z * A  OBVIOUS
  <2>4. y * A <= z * A  BY <2>2, <2>3
  <2>5. y <= z  BY <2>4, Cancel
  <2> QED  BY <2>1, <2>5
<1>10. p * One < (q + s + 1) * One
  <2>1. (q + s + 1) * One = q * One + s * One + One  BY <1>1, <1>2
  <2>2. p * One \in Nat /\ q * One \in Nat /\ s * One \in Nat /\ a * rate \in Nat
        BY <1>1, <1>2, <1>5
  <2> QED  BY <1>1, <1>2, <1>9, <2>1, <2>2
<1>11. p < q + s + 1
  <2>1. q + s + 1 \in Nat  BY <1>2
  <2> QED  BY <1>1, <1>5, <1>10, <2>1, Cancel
<1>12. p <= q + s  BY <1>2, <1>5, <1>11
<1> QED  BY <1>12 DEF q, p, r

(* What the query promises a user, batch by batch.                         *)
Promised(user) ==
  [b \in DOMAIN history |->
     IF FinishedBefore(b)
       THEN MulDec(wait_list[user][b], history[b].withdraw_rate) ELSE 0]

(* What the missing coins and the roundings may cost a matured batch, and  *)
(* what coins in excess may add to it.                                     *)
Losses(t, s) ==
  [b \in MaturedBatches |-> IF s.negative THEN 0 ELSE SlashedShare(b, t, s)]
Gains(t, s) ==
  [b \in MaturedBatches |-> IF s.negative THEN SlashedShare(b, t, s) ELSE 0]
Roundings == [b \in MaturedBatches |-> 3 + history[b].amount \div One]

(* A matured batch: what a user is promised and what he is paid.           *)
LEMMA MaturedHonest ==
  ASSUME Requests, NEW t \in Nat, NEW x \in Nat,
         NEW s, s = FromSubtraction(t, x), Processable(t, s),
         NEW b \in MaturedBatches, NEW user \in Users
  PROVE  LET rate == history[b].withdraw_rate
             asked == wait_list[user][b]
             paid == MulDec(asked, FromRatio(ActualUnbondedOf(b, t, s), history[b].amount))
         IN /\ SlashedShare(b, t, s) \in Nat
            /\ SlashedShare(b, t, s) * t <= s.value * UnbondedAmount(b)
            /\ paid \in Nat
            /\ MulDec(asked, rate) <= paid + Losses(t, s)[b] + Roundings[b]
            /\ UnbondedAmount(b) > 0 => paid <= MulDec(asked, rate) + Gains(t, s)[b]
<1> DEFINE A == history[b].amount
           rate == history[b].withdraw_rate
           asked == wait_list[user][b]
           u == UnbondedAmount(b)
           share == SlashedShare(b, t, s)
           v == ActualUnbondedOf(b, t, s)
<1>1. /\ b \in DOMAIN history /\ b \in BatchIds /\ ~history[b].released
      /\ A \in Nat \ {0} /\ rate \in Nat /\ t \in Nat \ {0} /\ asked \in Nat
      /\ wait_list \in [Users -> [BatchIds -> Nat]]
  <2>1. b \in DOMAIN history /\ b > state.last_processed_batch
        BY DEF MaturedBatches
  <2>2. /\ b \in BatchIds /\ history[b] \in HistoryType
        /\ wait_list \in [Users -> [BatchIds -> Nat]]
        BY <2>1 DEF Requests, Order, TypeOK
  <2>3. b \in Nat /\ state.last_processed_batch \in Nat
        BY <2>2, HubAssumption DEF Requests, Order, TypeOK, StateType, BatchIds
  <2>4. ~history[b].released
    <3>1. ~(b <= state.last_processed_batch)  BY <2>1, <2>3
    <3> QED  BY <2>1, <3>1 DEF Requests, Order, BatchesInOrder
  <2>5. t > 0 /\ A > 0  BY DEF Processable
  <2> QED  BY <2>1, <2>2, <2>4, <2>5 DEF HistoryType
<1>2. asked <= A
  <2> DEFINE f == [w \in Users |-> wait_list[w][b]]
  <2>1. SumOf(f) = A  BY <1>1 DEF Requests, RequestsConserved, RequestsOf
  <2>2. f \in [Users -> Nat] /\ f[user] = asked /\ IsFiniteSet(Users)
        BY <1>1, HubAssumption
  <2> HIDE DEF f
  <2>3. f[user] <= SumOf(f)  BY <2>2, SumZero
  <2> QED  BY <2>1, <2>2, <2>3
<1>3. u = MulDec(A, rate) /\ u \in Nat
      BY <1>1, MulDecBounds DEF UnbondedAmount
<1>4. /\ share = MulDec(s.value, FromRatio(u, t))
      /\ s.negative => share >= 1
      /\ v = Released(u, share, s)
      BY DEF SlashedShare, Processable, ActualUnbondedOf, RoundedLoss, Released
<1>5. /\ Losses(t, s)[b] = IF s.negative THEN 0 ELSE share
      /\ Gains(t, s)[b] = IF s.negative THEN share ELSE 0
      /\ Roundings[b] = 3 + A \div One
      BY DEF Losses, Gains, Roundings
<1> HIDE DEF A, rate, asked, u, share, v
<1>6. /\ share \in Nat /\ share * t <= s.value * u
      /\ v \in Nat
      /\ u <= v + (IF s.negative THEN 0 ELSE share) + 1
      /\ u > 0 => v <= u + (IF s.negative THEN share ELSE 0)
  <2>1. s = FromSubtraction(t, x) /\ x \in Nat  OBVIOUS
  <2> QED  BY ONLY <1>1, <1>3, <1>4, <2>1, ReleaseBetween
<1>7. PICK l \in Nat, g \in Nat : l = Losses(t, s)[b] /\ g = Gains(t, s)[b]
      BY <1>5, <1>6
<1>8. MulDec(asked, rate) <= MulDec(asked, FromRatio(v, A)) + l + (3 + A \div One)
  <2>1. MulDec(A, rate) <= v + l + 1  BY <1>3, <1>5, <1>6, <1>7
  <2> QED  BY ONLY <1>1, <1>2, <1>6, <1>7, <2>1, PromiseKept
<1>9. u > 0 => MulDec(asked, FromRatio(v, A)) <= MulDec(asked, rate) + g
  <2>1. ASSUME u > 0 PROVE MulDec(asked, FromRatio(v, A)) <= MulDec(asked, rate) + g
    <3>1. v <= MulDec(A, rate) + g  BY <1>3, <1>5, <1>6, <1>7, <2>1
    <3> QED  BY ONLY <1>1, <1>2, <1>6, <1>7, <3>1, PromiseExceeded
  <2> QED  BY <2>1
<1>10. MulDec(asked, FromRatio(v, A)) \in Nat
      BY <1>1, <1>6, FromRatioBounds, MulDecBounds
<1> QED  BY <1>5, <1>6, <1>7, <1>8, <1>9, <1>10 DEF A, rate, asked, u, share, v

(* For every user the query differs from a withdrawal by the coins missing *)
(* or in excess and by the roundings.                                      *)
LEMMA QueryBounds ==
  ASSUME Requests, NEW t, t = TotalUnbonded, NEW x \in Nat,
         NEW s, s = FromSubtraction(t, x), Processable(t, s),
         NEW g, g = ReleasedHistory(t, s), NEW user \in Users
  PROVE  /\ WithdrawableUnbonded(user)
              <= FinishedAmount(user, g)
                   + (IF s.negative THEN 0 ELSE s.value) + SumOf(Roundings)
         /\ (\A b \in MaturedBatches : UnbondedAmount(b) > 0)
              /\ (\A b \in DOMAIN history :
                    IF history[b].released
                      THEN history[b].time < now - params.unbonding_period
                      ELSE history[b].time # now - params.unbonding_period)
              => FinishedAmount(user, g)
                   <= WithdrawableUnbonded(user)
                        + (IF s.negative THEN s.value ELSE 0)
<1> DEFINE M == MaturedBatches
           D == DOMAIN history
           u == [b \in M |-> UnbondedAmount(b)]
           q == Promised(user)
           p == [b \in D |-> Owed(user, b, g)]
           Paid(b) == MulDec(wait_list[user][b],
                             FromRatio(ActualUnbondedOf(b, t, s), history[b].amount))
           Worth(b) == MulDec(wait_list[user][b], history[b].withdraw_rate)
           ripe == now - params.unbonding_period
<1>1. /\ TypeOK /\ Order /\ M \subseteq D /\ D \subseteq BatchIds
      /\ \A b \in D : history[b] \in HistoryType
      /\ \A b \in D : wait_list[user][b] \in Nat
      BY DEF Requests, Order, TypeOK, MaturedBatches
<1>2. IsFiniteSet(M) /\ IsFiniteSet(D) /\ One \in Nat \ {0}
      BY <1>1, BatchesFinite, FS_Subset, FixedPointAssumption
<1>3. u \in [M -> Nat]
  <2>1. \A b \in M : UnbondedAmount(b) \in Nat
        BY <1>1, MulDecBounds DEF UnbondedAmount, HistoryType
  <2> QED  BY <2>1
<1>4. t = SumOf(u) /\ t \in Nat
  <2>1. t = SumOf(u)  BY DEF TotalUnbonded
  <2> HIDE DEF u, M
  <2> QED  BY <1>2, <1>3, <2>1, SumNat
<1>5. s.value \in Nat
  <2>1. t \in Nat /\ x \in Nat /\ s = FromSubtraction(t, x)  BY <1>4
  <2>2. s.value = IF t >= x THEN t - x ELSE x - t  BY ONLY <2>1, SubtractionParts
  <2> QED  BY <2>1, <2>2
<1>6. ASSUME NEW b \in M
      PROVE  /\ SlashedShare(b, t, s) \in Nat
             /\ SlashedShare(b, t, s) * t <= s.value * UnbondedAmount(b)
             /\ Paid(b) \in Nat
             /\ Worth(b) <= Paid(b) + Losses(t, s)[b] + Roundings[b]
             /\ UnbondedAmount(b) > 0 => Paid(b) <= Worth(b) + Gains(t, s)[b]
  <2>1. t \in Nat /\ b \in MaturedBatches  BY <1>4
  <2> QED  BY <2>1, MaturedHonest
<1>7. ASSUME NEW b \in D PROVE Worth(b) \in Nat
      BY <1>1, MulDecBounds DEF HistoryType
<1>8. /\ DOMAIN g = D
      /\ \A b \in M : g[b].released
           /\ g[b].withdraw_rate = FromRatio(ActualUnbondedOf(b, t, s), history[b].amount)
      /\ \A b \in D \ M : g[b] = history[b]
      BY <1>1 DEF ReleasedHistory, HistoryType
<1>9. /\ FinishedAmount(user, g) = SumOf(p)
      /\ \A b \in M : p[b] = Paid(b)
      /\ \A b \in D \ M : p[b] = IF history[b].released THEN Worth(b) ELSE 0
      BY <1>1, <1>8 DEF FinishedAmount, Owed
<1>10. /\ WithdrawableUnbonded(user) = SumOf(q)
       /\ \A b \in D : q[b] = IF history[b].time < ripe THEN Worth(b) ELSE 0
       BY DEF WithdrawableUnbonded, Promised, FinishedBefore
<1>11. q \in [D -> Nat] /\ p \in [D -> Nat]
  <2>1. \A b \in D : q[b] \in Nat  BY <1>7, <1>10
  <2>2. \A b \in D : p[b] \in Nat  BY <1>6, <1>7, <1>9
  <2>3. q = [b \in D |-> q[b]]  BY DEF Promised
  <2> QED  BY <2>1, <2>2, <2>3
<1> DEFINE l == Losses(t, s)
           e == Gains(t, s)
           r == Roundings
<1>12. /\ l \in [M -> Nat] /\ e \in [M -> Nat] /\ r \in [M -> Nat]
  <2>1. l \in [M -> Nat]  BY <1>6 DEF Losses
  <2>2. e \in [M -> Nat]  BY <1>6 DEF Gains
  <2>3. \A b \in M : 3 + history[b].amount \div One \in Nat
    <3>1. \A b \in M : history[b].amount \in Nat  BY <1>1 DEF HistoryType
    <3> QED  BY <1>2, <3>1, DivBounds
  <2>4. r \in [M -> Nat]  BY <2>3 DEF Roundings
  <2> QED  BY <2>1, <2>2, <2>4
<1>13. ASSUME NEW h \in [M -> Nat], NEW c \in BOOLEAN,
              \A b \in M : h[b] = IF c THEN SlashedShare(b, t, s) ELSE 0
       PROVE  SumOf(h) <= IF c THEN s.value ELSE 0
  <2>1. CASE ~c \/ M = {}
    <3>1. SumOf(h) = 0
      <4>1. \A b \in M : h[b] = 0  BY <1>13, <2>1
      <4>2. IsFiniteSet(M) /\ h \in [M -> Nat]  BY <1>2, <1>13
      <4> QED  BY ONLY <4>1, <4>2, SumZero
    <3> QED  BY <1>5, <3>1
  <2>2. CASE c /\ M # {}
    <3>1. t \in Nat \ {0}  BY <1>4, <2>2 DEF Processable
    <3>2. \A b \in M : h[b] * t <= s.value * u[b]  BY <1>6, <1>13, <2>2
    <3>3. h \in [M -> Nat]  BY <1>13
    <3> HIDE DEF u, M
    <3>4. SumOf(h) <= s.value
          BY ONLY <1>2, <1>3, <1>4, <1>5, <3>1, <3>2, <3>3, SharesWithin
    <3> QED  BY <2>2, <3>4
  <2> QED  BY <2>1, <2>2
<1>14. SumOf(l) <= IF s.negative THEN 0 ELSE s.value
  <2>1. \A b \in M : l[b] = IF ~s.negative THEN SlashedShare(b, t, s) ELSE 0
        BY DEF Losses
  <2>2. (~s.negative) \in BOOLEAN  OBVIOUS
  <2>3. SumOf(l) <= IF ~s.negative THEN s.value ELSE 0  BY <1>12, <1>13, <2>1, <2>2
  <2> QED  BY <2>3
<1>15. SumOf(e) <= IF s.negative THEN s.value ELSE 0
  <2>1. \A b \in M : e[b] = IF s.negative THEN SlashedShare(b, t, s) ELSE 0
        BY DEF Gains
  <2>2. s.negative \in BOOLEAN  BY <1>4 DEF FromSubtraction
  <2> QED  BY <1>12, <1>13, <2>1, <2>2
<1>16. SumOf(q) <= SumOf(p) + (IF s.negative THEN 0 ELSE s.value) + SumOf(r)
  <2>1. PICK f \in [M -> Nat] : \A b \in M : f[b] = l[b] + r[b]
    <3>1. [b \in M |-> l[b] + r[b]] \in [M -> Nat]  BY <1>12
    <3> QED  BY <3>1
  <2>2. SumOf(f) = SumOf(l) + SumOf(r)
    <3>1. f \in [M -> Int] /\ l \in [M -> Int] /\ r \in [M -> Int]  BY <1>12
    <3> HIDE DEF M, l, r
    <3> QED  BY ONLY <1>2, <2>1, <3>1, SumAdd
  <2>3. \A b \in M : q[b] <= p[b] + f[b]
    <3>1. ASSUME NEW b \in M PROVE q[b] <= p[b] + f[b]
      <4>1. /\ Worth(b) <= Paid(b) + l[b] + r[b] /\ p[b] = Paid(b)
            /\ Paid(b) \in Nat /\ f[b] = l[b] + r[b] /\ Worth(b) \in Nat
            /\ l[b] \in Nat /\ r[b] \in Nat
            BY <1>1, <1>6, <1>7, <1>9, <1>12, <2>1
      <4>2. q[b] <= Worth(b) /\ q[b] \in Nat  BY <1>1, <1>10, <4>1
      <4> HIDE DEF q, p, l, r, Worth, Paid
      <4> QED  BY <4>1, <4>2
    <3> QED  BY <3>1
  <2>4. \A b \in D \ M : q[b] <= p[b]
    <3>1. ASSUME NEW b \in D \ M PROVE q[b] <= p[b]
      <4>1. Worth(b) \in Nat  BY <1>7
      <4>2. CASE history[b].released  BY <1>9, <1>10, <4>1, <4>2
      <4>3. CASE ~history[b].released
        <5>1. ~(history[b].time < ripe)
          <6>1. SUFFICES ASSUME history[b].time < ripe PROVE FALSE  OBVIOUS
          <6>2. history[b].time \in Nat /\ ripe \in Int
                BY <1>1 DEF HistoryType, TypeOK, ConfigTypeOK, ParamFields
          <6>3. history[b].time <= ripe  BY <6>1, <6>2
          <6> QED  BY <1>1, <4>3, <6>3, RipeMatured
        <5> QED  BY <1>9, <1>10, <4>3, <5>1
      <4> QED  BY <4>2, <4>3
    <3> QED  BY <3>1
  <2>5. /\ q \in [D -> Int] /\ p \in [D -> Int] /\ f \in [M -> Int]
        /\ M \in SUBSET D
        BY <1>1, <1>11
  <2> HIDE DEF M, D, q, p, l, r
  <2>6. SumOf(q) <= SumOf(p) + SumOf(f)
        BY ONLY <1>2, <2>3, <2>4, <2>5, SumBounded
  <2>7. /\ SumOf(q) \in Nat /\ SumOf(p) \in Nat /\ SumOf(l) \in Nat
        /\ SumOf(r) \in Nat
        BY <1>2, <1>11, <1>12, SumNat
  <2> QED  BY <1>5, <1>14, <2>2, <2>6, <2>7
<1>17. ASSUME \A b \in M : UnbondedAmount(b) > 0,
              \A b \in D : IF history[b].released THEN history[b].time < ripe
                                                  ELSE history[b].time # ripe
       PROVE  SumOf(p) <= SumOf(q) + (IF s.negative THEN s.value ELSE 0)
  <2>1. \A b \in M : p[b] <= q[b] + e[b]
    <3>1. ASSUME NEW b \in M PROVE p[b] <= q[b] + e[b]
      <4>1. p[b] = Paid(b) /\ Paid(b) <= Worth(b) + e[b]  BY <1>6, <1>9, <1>17
      <4>2. history[b].time < ripe
        <5>1. history[b].time <= ripe /\ ~history[b].released
          <6>1. b \in Nat /\ b > state.last_processed_batch
                /\ state.last_processed_batch \in Nat
                BY <1>1, HubAssumption
                DEF MaturedBatches, BatchIds, TypeOK, StateType
          <6>2. b \in (state.last_processed_batch + 1)..b  BY <6>1
          <6>3. Releasable(b)  BY <6>2 DEF MaturedBatches
          <6> QED  BY <6>3 DEF Releasable
        <5>2. history[b].time \in Nat /\ ripe \in Int
              BY <1>1 DEF HistoryType, TypeOK, ConfigTypeOK, ParamFields
        <5>3. history[b].time # ripe  BY <1>1, <1>17, <5>1
        <5> HIDE DEF ripe
        <5> QED  BY <5>1, <5>2, <5>3
      <4>3. q[b] = Worth(b)  BY <1>1, <1>10, <4>2
      <4> HIDE DEF p, q, e, Paid, Worth
      <4> QED  BY <4>1, <4>3
    <3> QED  BY <3>1
  <2>2. \A b \in D \ M : p[b] <= q[b]
    <3>1. ASSUME NEW b \in D \ M PROVE p[b] <= q[b]
      <4>1. Worth(b) \in Nat  BY <1>7
      <4>2. CASE history[b].released
        <5>1. history[b].time < ripe  BY <1>17, <4>2
        <5> QED  BY <1>9, <1>10, <4>1, <4>2, <5>1
      <4>3. CASE ~history[b].released
        <5>1. p[b] = 0 /\ q[b] \in Nat  BY <1>9, <1>11, <4>3
        <5> HIDE DEF p, q
        <5> QED  BY <5>1
      <4> QED  BY <4>2, <4>3
    <3> QED  BY <3>1
  <2>3. /\ q \in [D -> Int] /\ p \in [D -> Int] /\ e \in [M -> Int]
        /\ M \in SUBSET D
        BY <1>1, <1>11, <1>12
  <2> HIDE DEF M, D, q, p, e
  <2>4. SumOf(p) <= SumOf(q) + SumOf(e)
        BY ONLY <1>2, <2>1, <2>2, <2>3, SumBounded
  <2>5. SumOf(q) \in Nat /\ SumOf(p) \in Nat /\ SumOf(e) \in Nat
        BY <1>2, <1>11, <1>12, SumNat
  <2> QED  BY <1>5, <1>15, <2>4, <2>5
<1> QED  BY <1>9, <1>10, <1>16, <1>17

(* What the query of withdrawable coins announces is within the bounds of  *)
(* QueryHonest of what a withdrawal made now would pay, whatever was       *)
(* slashed, donated or not yet paid, however the requests are spread over  *)
(* users and batches, and whatever the period is set to.                   *)
THEOREM QueryAlwaysHonest == Spec => []QueryHonest
<1> DEFINE Inv == Requests /\ Undelegated
<1>1. Init => Inv  BY InitRequests DEF Init, Undelegated
<1>2. Inv /\ [Next]_vars => Inv'
      BY NextRequests, StepUndelegates DEF Requests
<1>3. Inv => QueryHonest
  <2> SUFFICES ASSUME Requests, Undelegated PROVE QueryHonest  OBVIOUS
  <2> DEFINE t == TotalUnbonded
             x == ActualUnbonded
             s == FromSubtraction(t, x)
             g == ReleasedHistory(t, s)
             ripe == now - params.unbonding_period
             counted(b) == IF history[b].released THEN history[b].time < ripe
                           ELSE history[b].time # ripe
  <2>1. x \in Nat
    <3>1. /\ hub_balance \in Nat /\ state.prev_hub_balance \in Nat
          /\ state.actual_unbonded_amount \in Nat
          BY DEF Requests, Order, TypeOK, StateType
    <3>2. FromSubtraction(hub_balance, state.prev_hub_balance).value \in Nat
          BY <3>1, SubtractionParts
    <3> QED  BY <3>1, <3>2 DEF ActualUnbonded
  <2>2. SUFFICES ASSUME Processable(t, s), NEW user \in Users
        PROVE  /\ WithdrawableUnbonded(user)
                    <= FinishedAmount(user, g)
                         + (IF s.negative THEN 0 ELSE s.value) + SumOf(Roundings)
               /\ EveryBatchUndelegated /\ (\A b \in DOMAIN history : counted(b))
                    => FinishedAmount(user, g)
                         <= WithdrawableUnbonded(user)
                              + (IF s.negative THEN s.value ELSE 0)
        BY DEF QueryHonest, Roundings
  <2>3. ASSUME EveryBatchUndelegated, NEW b \in MaturedBatches
        PROVE  UnbondedAmount(b) > 0
    <3>1. b \in DOMAIN history /\ b > state.last_processed_batch
          BY DEF MaturedBatches
    <3>2. b \in Nat /\ state.last_processed_batch \in Nat
          BY <3>1, HubAssumption DEF Requests, Order, TypeOK, StateType, BatchIds
    <3>3. ~history[b].released
      <4>1. ~(b <= state.last_processed_batch)  BY <3>1, <3>2
      <4> QED  BY <3>1, <4>1 DEF Requests, Order, BatchesInOrder
    <3> QED  BY <2>3, <3>1, <3>3 DEF EveryBatchUndelegated, Undelegated
  <2> HIDE DEF x
  <2> QED  BY <2>1, <2>2, <2>3, QueryBounds
<1> QED  BY <1>1, <1>2, <1>3, PTL DEF Spec
=============================================================================
