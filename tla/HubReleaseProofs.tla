-------------------------- MODULE HubReleaseProofs --------------------------
(***************************************************************************)
(* What released batches are worth, for any parameters and block times.    *)
(* If every withdrawal falls in a block in which exactly the batches the   *)
(* chain has paid are ripe, every release is funded, a batch is worth what *)
(* the chain paid for it, and the hub is solvent: nothing but a batch paid *)
(* and not yet ripe, or ripe and not yet paid, can make a release wrong.   *)
(***************************************************************************)
EXTENDS HubSolvencyProofs

(* A value stored as a rate loses less than two coins and one for every    *)
(* 10^18 tokens.                                                           *)
LEMMA ValueKept ==
  ASSUME NEW v \in Nat, NEW A \in Nat \ {0}
  PROVE  /\ MulDec(A, FromRatio(v, A)) \in Nat /\ A \div One \in Nat
         /\ v <= MulDec(A, FromRatio(v, A)) + 1 + A \div One
<1> DEFINE r == FromRatio(v, A)
           m == MulDec(A, r)
           c == A \div One
<1>1. One \in Nat \ {0}  BY FixedPointAssumption
<1>2. r \in Nat /\ v * One < r * A + A  BY FromRatioBounds, FromRatioClose
<1>3. m \in Nat /\ A * r < m * One + One
  <2> HIDE DEF r
  <2> QED  BY <1>2, MulDecBounds, MulDecClose
<1>4. c \in Nat /\ A < c * One + One  BY <1>1, DivBounds
<1> HIDE DEF r, m, c
<1>5. v * One < (m + c + 2) * One
  <2>1. (m + c + 2) * One = m * One + c * One + One + One  BY <1>1, <1>3, <1>4
  <2>2. A * r = r * A /\ r * A \in Nat  BY <1>2
  <2>3. m * One \in Nat /\ c * One \in Nat /\ v * One \in Nat  BY <1>1, <1>3, <1>4
  <2> QED  BY <1>1, <1>2, <1>3, <1>4, <2>1, <2>2, <2>3
<1>6. v < m + c + 2
  <2>1. m + c + 2 \in Nat  BY <1>3, <1>4
  <2> QED  BY <1>1, <1>5, <2>1, Cancel
<1>7. v <= m + 1 + c  BY <1>3, <1>4, <1>6
<1> QED  BY <1>3, <1>4, <1>7 DEF r, m, c

-----------------------------------------------------------------------------

(* The claim of ReleaseAccurate about batches with these values.           *)
Covers(value, promised, arrived) ==
  /\ SumOf(value) >= SumOf(arrived)
  /\ \A b \in DOMAIN value :
       value[b] + (SumOf(promised) - SumOf(arrived)) >= arrived[b]

(* The shares in the difference s of t, the worth u of some batches, and   *)
(* the x coins that are counted for them.                                  *)
Shared(M, u, t, x, s, share) ==
  /\ t = SumOf(u)
  /\ s = FromSubtraction(t, x)
  /\ \A b \in M : /\ share[b] = MulDec(s.value, FromRatio(u[b], t))
                  /\ s.negative => share[b] >= 1

(* It holds of the batches of one release, if the coins that arrived for   *)
(* them are among those that are counted.                                  *)
LEMMA ReleaseCovers ==
  ASSUME NEW M, IsFiniteSet(M), NEW u \in [M -> Nat],
         NEW t \in Nat \ {0}, NEW x \in Nat, NEW s, NEW share \in [M -> Nat],
         Shared(M, u, t, x, s, share), NEW value \in [M -> Nat], NEW arrived \in [M -> Nat],
         \A b \in M : Released(u[b], share[b], s) + 1 <= value[b],
         \A b \in M : arrived[b] <= u[b],
         SumOf(arrived) <= x
  PROVE  Covers(value, u, arrived)
<1> DEFINE lost == [b \in M |-> IF s.negative THEN 0 ELSE share[b]]
<1>0. t = SumOf(u) /\ s = FromSubtraction(t, x)  BY DEF Shared
<1>1. /\ s.value \in Nat /\ s.value = IF t >= x THEN t - x ELSE x - t
      /\ s.negative <=> t < x
  <2>1. t \in Nat /\ x \in Nat /\ s = FromSubtraction(t, x)  BY <1>0
  <2>2. /\ s.value = IF t >= x THEN t - x ELSE x - t
        /\ s.negative <=> t < x
        BY ONLY <2>1, SubtractionParts
  <2> QED  BY <2>2
<1>2. lost \in [M -> Nat]  OBVIOUS
<1>3. ASSUME NEW b \in M
      PROVE  /\ u[b] <= value[b] + lost[b]
             /\ lost[b] * t <= s.value * u[b]
  <2>0. /\ share[b] = MulDec(s.value, FromRatio(u[b], t))
        /\ s.negative => share[b] >= 1
        BY DEF Shared
  <2>1. /\ u[b] \in Nat /\ share[b] \in Nat /\ value[b] \in Nat
        /\ Released(u[b], share[b], s) + 1 <= value[b]
        OBVIOUS
  <2>2. t \in Nat \ {0} /\ x \in Nat /\ s = FromSubtraction(t, x)  BY <1>0
  <2>3. /\ share[b] * t <= s.value * u[b]
        /\ Released(u[b], share[b], s) \in Nat
        /\ u[b] <= Released(u[b], share[b], s)
                     + (IF s.negative THEN 0 ELSE share[b]) + 1
        BY ONLY <2>0, <2>1, <2>2, ReleaseBetween
  <2>4. s.value * u[b] \in Nat /\ 0 * t = 0  BY <1>1, <2>1
  <2> QED  BY <2>1, <2>3, <2>4
<1>4. \A b \in M : u[b] \in Nat /\ value[b] \in Nat /\ arrived[b] \in Nat
      OBVIOUS
<1>5. /\ SumOf(u) \in Nat /\ SumOf(value) \in Nat /\ SumOf(arrived) \in Nat
      /\ SumOf(lost) \in Nat
      /\ \A b \in M : lost[b] <= SumOf(lost)
  <2> HIDE DEF lost
  <2> QED  BY <1>2, SumNat, SumZero
<1>6. \A b \in M : lost[b] \in Nat  BY <1>2
<1>7. CASE s.negative
  <2>1. \A b \in M : lost[b] = 0  BY <1>7
  <2> HIDE DEF lost
  <2>2. \A b \in M : u[b] <= value[b]  BY <1>3, <1>4, <2>1
  <2>3. SumOf(u) <= SumOf(value) /\ SumOf(arrived) <= SumOf(u)
    <3>1. u \in [M -> Int] /\ value \in [M -> Int] /\ arrived \in [M -> Int]
          OBVIOUS
    <3> QED  BY <2>2, <3>1, SumMonotone
  <2>4. ASSUME NEW b \in M
        PROVE  value[b] + (SumOf(u) - SumOf(arrived)) >= arrived[b]
    <3>1. arrived[b] <= u[b]  OBVIOUS
    <3> QED  BY <1>4, <1>5, <2>2, <2>3, <3>1
  <2> QED  BY <1>5, <2>3, <2>4 DEF Covers
<1>8. CASE ~s.negative
  <2>1. s.value = t - x  BY <1>1, <1>8
  <2>2. SumOf(lost) <= t - x
    <3> HIDE DEF lost
    <3>1. /\ IsFiniteSet(M) /\ u \in [M -> Nat] /\ t \in Nat \ {0} /\ t = SumOf(u)
          /\ \A b \in M : lost[b] * t <= s.value * u[b]
          BY <1>0, <1>3
    <3>2. PICK d \in Nat : d = s.value  BY <1>1
    <3>3. \A b \in M : lost[b] * t <= d * u[b]  BY <3>1, <3>2
    <3>4. SumOf(lost) <= d  BY ONLY <1>2, <3>1, <3>3, d \in Nat, SharesWithin
    <3> QED  BY <2>1, <3>2, <3>4
  <2>3. SumOf(u) <= SumOf(value) + SumOf(lost)
    <3> HIDE DEF lost
    <3>1. /\ IsFiniteSet(M) /\ M \in SUBSET M /\ u \in [M -> Int]
          /\ value \in [M -> Int] /\ lost \in [M -> Int]
          /\ \A b \in M : u[b] <= value[b] + lost[b]
          /\ \A b \in M \ M : u[b] <= value[b]
          BY <1>2, <1>3
    <3> QED  BY ONLY <3>1, SumBounded
  <2> HIDE DEF lost
  <2>4. SumOf(value) >= SumOf(arrived)  BY <1>0, <1>5, <2>2, <2>3
  <2>5. ASSUME NEW b \in M
        PROVE  value[b] + (SumOf(u) - SumOf(arrived)) >= arrived[b]
    <3>1. /\ arrived[b] <= u[b] /\ u[b] <= value[b] + lost[b]
          /\ lost[b] <= SumOf(lost)
          BY <1>3, <1>5
    <3> QED  BY <1>0, <1>4, <1>5, <1>6, <2>2, <3>1
  <2> QED  BY <2>4, <2>5 DEF Covers
<1> QED  BY <1>7, <1>8

(* If it holds of two sets of batches, then of both together.              *)
LEMMA CoversUnion ==
  ASSUME NEW S, IsFiniteSet(S), NEW R \in SUBSET S,
         NEW value \in [S -> Nat], NEW promised \in [S -> Nat],
         NEW arrived \in [S -> Nat], \A b \in S : arrived[b] <= promised[b],
         Covers(Part(value, R), Part(promised, R), Part(arrived, R)),
         Covers(Part(value, S \ R), Part(promised, S \ R), Part(arrived, S \ R))
  PROVE  Covers(value, promised, arrived)
<1> DEFINE Q == S \ R
<1>1. Q \in SUBSET S /\ IsFiniteSet(R) /\ IsFiniteSet(Q)
  <2>1. Q \in SUBSET S  OBVIOUS
  <2> HIDE DEF Q
  <2> QED  BY <2>1, FS_Subset
<1>2. /\ SumOf(value) = SumOf(Part(value, R)) + SumOf(Part(value, Q))
      /\ SumOf(promised) = SumOf(Part(promised, R)) + SumOf(Part(promised, Q))
      /\ SumOf(arrived) = SumOf(Part(arrived, R)) + SumOf(Part(arrived, Q))
  <2>1. /\ value \in [S -> Int] /\ promised \in [S -> Int] /\ arrived \in [S -> Int]
        /\ IsFiniteSet(S) /\ R \in SUBSET S
        OBVIOUS
  <2>2. SumOf(value) = SumOf(Part(value, R)) + SumOf(Part(value, Q))
        BY ONLY <2>1, SumParts
  <2>3. SumOf(promised) = SumOf(Part(promised, R)) + SumOf(Part(promised, Q))
        BY ONLY <2>1, SumParts
  <2>4. SumOf(arrived) = SumOf(Part(arrived, R)) + SumOf(Part(arrived, Q))
        BY ONLY <2>1, SumParts
  <2> QED  BY ONLY <2>2, <2>3, <2>4
<1>3. ASSUME NEW T \in {R, Q}
      PROVE  /\ SumOf(Part(value, T)) \in Nat
             /\ SumOf(Part(promised, T)) \in Nat
             /\ SumOf(Part(arrived, T)) \in Nat
             /\ SumOf(Part(arrived, T)) <= SumOf(Part(promised, T))
             /\ SumOf(Part(value, T)) >= SumOf(Part(arrived, T))
             /\ \A b \in T :
                  value[b] + (SumOf(Part(promised, T)) - SumOf(Part(arrived, T)))
                    >= arrived[b]
  <2>1. /\ Covers(Part(value, T), Part(promised, T), Part(arrived, T))
        /\ IsFiniteSet(T) /\ T \in SUBSET S
        BY <1>1
  <2> HIDE DEF Q
  <2>2. /\ Part(value, T) \in [T -> Nat] /\ Part(promised, T) \in [T -> Nat]
        /\ Part(arrived, T) \in [T -> Nat]
        /\ \A b \in T : /\ Part(value, T)[b] = value[b]
                        /\ Part(promised, T)[b] = promised[b]
                        /\ Part(arrived, T)[b] = arrived[b]
        BY <2>1 DEF Part
  <2>3. /\ SumOf(Part(value, T)) \in Nat /\ SumOf(Part(promised, T)) \in Nat
        /\ SumOf(Part(arrived, T)) \in Nat
        BY ONLY <2>1, <2>2, SumNat
  <2>4. SumOf(Part(arrived, T)) <= SumOf(Part(promised, T))
    <3>1. /\ Part(promised, T) \in [T -> Int] /\ Part(arrived, T) \in [T -> Int]
          /\ \A b \in T : Part(arrived, T)[b] <= Part(promised, T)[b]
          BY <2>1, <2>2
    <3> QED  BY ONLY <2>1, <3>1, SumMonotone
  <2>5. DOMAIN Part(value, T) = T  BY DEF Part
  <2> QED  BY <2>1, <2>2, <2>3, <2>4, <2>5 DEF Covers
<1>4. SumOf(value) >= SumOf(arrived)
  <2> HIDE DEF Q
  <2> QED  BY <1>2, <1>3
<1>5. ASSUME NEW b \in S
      PROVE  value[b] + (SumOf(promised) - SumOf(arrived)) >= arrived[b]
  <2>1. value[b] \in Nat /\ arrived[b] \in Nat  OBVIOUS
  <2>2. CASE b \in R
    <3> HIDE DEF Q
    <3> QED  BY <1>2, <1>3, <2>1, <2>2
  <2>3. CASE b \in Q
    <3> HIDE DEF Q
    <3> QED  BY <1>2, <1>3, <2>1, <2>3
  <2> QED  BY <2>2, <2>3
<1> QED  BY <1>4, <1>5 DEF Covers

-----------------------------------------------------------------------------
(* The batches and the chain's entries for them *)

EntriesType(h, ub) ==
  /\ DOMAIN h \subseteq BatchIds
  /\ \A b \in DOMAIN h : h[b] \in HistoryType
  /\ DOMAIN ub \subseteq DOMAIN h
  /\ \A b \in DOMAIN ub : ub[b] \in EntryType

Promised(h, b) == MulDec(h[b].amount, h[b].applied_exchange_rate)

(* A released batch was paid.                                              *)
Settled(h, ub) == \A b \in DOMAIN ub : h[b].released => ub[b].paid

(* A batch is promised what was undelegated for it, and the chain pays     *)
(* some of it.                                                             *)
Priced(h, ub) ==
  /\ \A b \in DOMAIN h :
       ~h[b].released => h[b].withdraw_rate = h[b].applied_exchange_rate
  /\ \A b \in DOMAIN ub : ub[b].amount > 0 /\ ub[b].amount <= Promised(h, b)

(* What was paid for batches that are not released.                        *)
Pending(h, ub) ==
  [b \in BatchIds |-> IF b \in DOMAIN ub /\ ub[b].paid /\ ~h[b].released
                        THEN ub[b].amount ELSE 0]

ReleasedOf(h) == {b \in DOMAIN h : h[b].released}

Worth(h) ==
  [b \in ReleasedOf(h) |->
     MulDec(h[b].amount, h[b].withdraw_rate) + 2 + h[b].amount \div One]

Promises(h) == [b \in ReleasedOf(h) |-> Promised(h, b)]

Arrivals(h, ub) ==
  [b \in ReleasedOf(h) |-> IF b \in DOMAIN ub THEN ub[b].amount ELSE 0]

Accurate(h, ub) == Covers(Worth(h), Promises(h), Arrivals(h, ub))

(* ReleaseAccurate is about the current history and entries.               *)
LEMMA AccurateNow ==
  /\ ReleaseAccurate <=> Accurate(history, unbonding)
  /\ ReleaseAccurate' <=> Accurate(history', unbonding')
<1>1. ReleaseAccurate <=> Accurate(history, unbonding)
      BY DEF ReleaseAccurate, Accurate, Covers, Worth, Promises, Arrivals, ReleasedOf,
             UnbondedAmount, Promised
<1>2. ReleaseAccurate' <=> Accurate(history', unbonding')
      BY DEF ReleaseAccurate, Accurate, Covers, Worth, Promises, Arrivals, ReleasedOf,
             UnbondedAmount, Promised
<1> QED  BY <1>1, <1>2

(* What is pending is an amount of coins for every batch.                  *)
LEMMA PendingType ==
  ASSUME NEW h, NEW ub, EntriesType(h, ub)
  PROVE  /\ Pending(h, ub) \in [BatchIds -> Nat] /\ Pending(h, ub) \in [BatchIds -> Int]
         /\ SumOf(Pending(h, ub)) \in Nat
<1>1. Pending(h, ub) \in [BatchIds -> Nat]
      BY DEF Pending, EntriesType, EntryType
<1>2. Pending(h, ub) \in [BatchIds -> Int]  BY <1>1
<1> QED  BY <1>1, <1>2, BatchesFinite, SumNat

(* The parts of the invariant that the history and the entries determine.  *)
InStep(h, ub, x) ==
  /\ EntriesType(h, ub)
  /\ Settled(h, ub)
  /\ Priced(h, ub)
  /\ SumOf(Pending(h, ub)) <= x
  /\ Accurate(h, ub)

(* The batch id is closed: the history h and the entries ub become g and w.*)
Closes(h, ub, g, w, id) ==
  /\ EntriesType(g, w) /\ id \in BatchIds /\ id \notin DOMAIN h
  /\ DOMAIN g = DOMAIN h \cup {id} /\ \A b \in DOMAIN h : g[b] = h[b]
  /\ g[id].released = FALSE
  /\ g[id].withdraw_rate = g[id].applied_exchange_rate
  /\ DOMAIN w = DOMAIN ub \/ DOMAIN w = DOMAIN ub \cup {id}
  /\ \A b \in DOMAIN ub : w[b] = ub[b]
  /\ id \in DOMAIN w => /\ w[id].amount = Promised(g, id) /\ w[id].paid = FALSE
                        /\ Promised(g, id) > 0

(* A closed batch is new, and what was undelegated for it is on its way.   *)
LEMMA CloseInStep ==
  ASSUME NEW h, NEW ub, NEW x, InStep(h, ub, x),
         NEW g, NEW w, NEW id, Closes(h, ub, g, w, id)
  PROVE  InStep(g, w, x)
<1>   /\ EntriesType(g, w) /\ id \in BatchIds /\ id \notin DOMAIN h
      /\ DOMAIN g = DOMAIN h \cup {id} /\ \A b \in DOMAIN h : g[b] = h[b]
      /\ g[id].released = FALSE
      /\ g[id].withdraw_rate = g[id].applied_exchange_rate
      /\ DOMAIN w = DOMAIN ub \/ DOMAIN w = DOMAIN ub \cup {id}
      /\ \A b \in DOMAIN ub : w[b] = ub[b]
      /\ id \in DOMAIN w => /\ w[id].amount = Promised(g, id) /\ w[id].paid = FALSE
                            /\ Promised(g, id) > 0
      BY DEF Closes
<1>1. /\ EntriesType(h, ub) /\ Settled(h, ub) /\ Priced(h, ub)
      /\ SumOf(Pending(h, ub)) <= x /\ Accurate(h, ub)
      /\ DOMAIN ub \subseteq DOMAIN h /\ id \notin DOMAIN ub
      BY DEF InStep, EntriesType
<1>2. Settled(g, w)
  <2>1. ASSUME NEW b \in DOMAIN w, g[b].released PROVE w[b].paid
    <3>1. b # id /\ b \in DOMAIN ub /\ b \in DOMAIN h  BY <1>1, <2>1
    <3>2. g[b] = h[b] /\ w[b] = ub[b]  BY <3>1
    <3> QED  BY <1>1, <2>1, <3>1, <3>2 DEF Settled
  <2> QED  BY <2>1 DEF Settled
<1>3. Priced(g, w)
  <2>1. ASSUME NEW b \in DOMAIN w
        PROVE  w[b].amount > 0 /\ w[b].amount <= Promised(g, b)
    <3>1. CASE b = id
      <4>1. w[b].amount = Promised(g, b) /\ Promised(g, b) > 0  BY <2>1, <3>1
      <4>2. w[b].amount \in Nat  BY <2>1 DEF EntriesType, EntryType
      <4> QED  BY <4>1, <4>2
    <3>2. CASE b # id
      <4>1. b \in DOMAIN ub /\ w[b] = ub[b] /\ g[b] = h[b]  BY <1>1, <2>1, <3>2
      <4> QED  BY <1>1, <4>1 DEF Priced, Promised
    <3> QED  BY <3>1, <3>2
  <2>2. ASSUME NEW b \in DOMAIN g, ~g[b].released
        PROVE  g[b].withdraw_rate = g[b].applied_exchange_rate
        BY <1>1, <2>2 DEF Priced
  <2> QED  BY <2>1, <2>2 DEF Priced
<1>4. Pending(g, w) = Pending(h, ub)
  <2>1. ASSUME NEW b \in BatchIds
        PROVE  (b \in DOMAIN w /\ w[b].paid /\ ~g[b].released)
                 <=> (b \in DOMAIN ub /\ ub[b].paid /\ ~h[b].released)
    <3>1. CASE b = id  BY <1>1, <3>1
    <3>2. CASE b # id  BY <1>1, <3>2
    <3> QED  BY <3>1, <3>2
  <2>2. ASSUME NEW b \in DOMAIN ub PROVE w[b].amount = ub[b].amount  OBVIOUS
  <2> QED  BY <2>1, <2>2 DEF Pending
<1>5. ReleasedOf(g) = ReleasedOf(h)  BY DEF ReleasedOf
<1>6. \A b \in ReleasedOf(h) : /\ b \in DOMAIN h /\ b # id /\ g[b] = h[b]
                               /\ b \in DOMAIN w <=> b \in DOMAIN ub
                               /\ b \in DOMAIN ub => w[b] = ub[b]
      BY DEF ReleasedOf
<1>7. Worth(g) = Worth(h) /\ Promises(g) = Promises(h) /\ Arrivals(g, w) = Arrivals(h, ub)
      BY <1>5, <1>6 DEF Worth, Promises, Promised, Arrivals
<1> QED  BY <1>1, <1>2, <1>3, <1>4, <1>7 DEF InStep, Accurate

(* The end of a block pays the entries that are due, and only these.       *)
LEMMA BlockInStep ==
  ASSUME NEW h, NEW ub, NEW n, NEW x \in Int, InStep(h, ub, x),
         NEW D, D = {b \in DOMAIN ub : ~ub[b].paid /\ ub[b].completion <= n},
         NEW w, w = [b \in DOMAIN ub |->
                       IF b \in D THEN [ub[b] EXCEPT !.paid = TRUE] ELSE ub[b]]
  PROVE  InStep(h, w, x + SumOf([b \in D |-> ub[b].amount]))
<1> DEFINE a == [b \in D |-> ub[b].amount]
<1>1. /\ EntriesType(h, ub) /\ Settled(h, ub) /\ Priced(h, ub)
      /\ SumOf(Pending(h, ub)) <= x /\ Accurate(h, ub)
      /\ \A b \in DOMAIN ub : ub[b] \in EntryType
      /\ DOMAIN w = DOMAIN ub /\ DOMAIN ub \subseteq BatchIds
      BY DEF InStep, EntriesType
<1>2. ASSUME NEW b \in DOMAIN ub
      PROVE  /\ w[b] \in EntryType /\ w[b].amount = ub[b].amount
             /\ w[b].completion = ub[b].completion
             /\ w[b].paid <=> (ub[b].paid \/ ub[b].completion <= n)
             /\ b \in D <=> (~ub[b].paid /\ ub[b].completion <= n)
  <2>1. ub[b] \in EntryType  BY <1>1
  <2>2. b \in D <=> (~ub[b].paid /\ ub[b].completion <= n)  OBVIOUS
  <2>3. CASE b \in D
    <3>1. w[b] = [ub[b] EXCEPT !.paid = TRUE]  BY <2>3
    <3> QED  BY <2>1, <2>2, <2>3, <3>1 DEF EntryType
  <2>4. CASE b \notin D
    <3>1. w[b] = ub[b]  BY <2>4
    <3> QED  BY <2>1, <2>2, <2>4, <3>1
  <2> QED  BY <2>3, <2>4
<1>3. EntriesType(h, w)  BY <1>1, <1>2 DEF EntriesType
<1>4. Settled(h, w)  BY <1>1, <1>2 DEF Settled
<1>5. Priced(h, w)  BY <1>1, <1>2 DEF Priced
<1>6. SumOf(Pending(h, w)) <= x + SumOf(a)
  <2>1. /\ Pending(h, w) \in [BatchIds -> Int] /\ SumOf(Pending(h, w)) \in Nat
        /\ Pending(h, ub) \in [BatchIds -> Int] /\ SumOf(Pending(h, ub)) \in Nat
        /\ \A b \in BatchIds : Pending(h, ub)[b] \in Nat
        BY <1>1, <1>3, PendingType
  <2>2. /\ D \in SUBSET BatchIds /\ IsFiniteSet(BatchIds) /\ IsFiniteSet(D)
        BY <1>1, BatchesFinite, FS_Subset
  <2>3. a \in [D -> Nat] /\ a \in [D -> Int] /\ \A b \in D : a[b] = ub[b].amount
        BY <1>1 DEF EntryType
  <2>4. SumOf(a) \in Nat
    <3> HIDE DEF a
    <3> QED  BY <2>2, <2>3, SumNat
  <2>5. ASSUME NEW b \in D PROVE Pending(h, w)[b] <= Pending(h, ub)[b] + a[b]
    <3>1. /\ b \in DOMAIN ub /\ b \in BatchIds /\ w[b].amount = ub[b].amount
          /\ ub[b].amount \in Nat /\ a[b] = ub[b].amount /\ Pending(h, ub)[b] \in Nat
          BY <1>1, <1>2, <2>1, <2>2, <2>3 DEF EntryType
    <3>2. Pending(h, w)[b] \in {0, w[b].amount}  BY <3>1 DEF Pending
    <3> HIDE DEF a
    <3> QED  BY <3>1, <3>2
  <2>6. ASSUME NEW b \in BatchIds \ D PROVE Pending(h, w)[b] <= Pending(h, ub)[b]
    <3>1. b \in DOMAIN ub => w[b].amount = ub[b].amount /\ (w[b].paid <=> ub[b].paid)
          BY <1>2
    <3>2. Pending(h, w)[b] = Pending(h, ub)[b]  BY <1>1, <3>1 DEF Pending
    <3> QED  BY <2>1, <3>2
  <2> HIDE DEF a
  <2>7. SumOf(Pending(h, w)) <= SumOf(Pending(h, ub)) + SumOf(a)
        BY ONLY <2>1, <2>2, <2>3, <2>5, <2>6, SumBounded
  <2> QED  BY <1>1, <2>1, <2>4, <2>7
<1>7. Arrivals(h, w) = Arrivals(h, ub)  BY <1>1, <1>2 DEF Arrivals
<1> QED  BY <1>1, <1>3, <1>4, <1>5, <1>6, <1>7 DEF InStep, Accurate

(* Slashing takes coins only from entries that are not paid, so not from   *)
(* what is pending or was released.                                        *)
LEMMA SlashInStep ==
  ASSUME NEW h, NEW ub, NEW x, InStep(h, ub, x),
         NEW c \in DOMAIN ub, ~ub[c].paid, NEW loss \in Nat, loss < ub[c].amount,
         NEW w, w = [ub EXCEPT ![c].amount = @ - loss]
  PROVE  InStep(h, w, x)
<1>1. /\ EntriesType(h, ub) /\ Settled(h, ub) /\ Priced(h, ub)
      /\ SumOf(Pending(h, ub)) <= x /\ Accurate(h, ub)
      /\ \A b \in DOMAIN ub : ub[b] \in EntryType
      /\ DOMAIN w = DOMAIN ub /\ DOMAIN ub \subseteq DOMAIN h
      BY DEF InStep, EntriesType
<1>2. /\ w[c] \in EntryType /\ w[c].amount = ub[c].amount - loss
      /\ w[c].completion = ub[c].completion /\ w[c].paid = ub[c].paid
      /\ ub[c].amount \in Nat
  <2>1. ub[c] \in EntryType  BY <1>1
  <2>2. ub[c].amount \in Nat /\ ub[c].amount - loss \in Nat  BY <2>1 DEF EntryType
  <2>3. w[c] = [ub[c] EXCEPT !.amount = ub[c].amount - loss]  OBVIOUS
  <2> QED  BY <2>1, <2>2, <2>3 DEF EntryType
<1>3. \A b \in DOMAIN ub : b # c => w[b] = ub[b]  OBVIOUS
<1>4. ~h[c].released
  <2>1. c \in DOMAIN h  BY <1>1
  <2> QED  BY <1>1, <2>1 DEF Settled
<1>5. EntriesType(h, w)  BY <1>1, <1>2, <1>3 DEF EntriesType
<1>6. \A b \in DOMAIN ub : w[b].completion = ub[b].completion /\ w[b].paid = ub[b].paid
      BY <1>2, <1>3
<1>7. Settled(h, w)  BY <1>1, <1>6 DEF Settled
<1>8. Priced(h, w)
  <2>1. Promised(h, c) \in Nat
    <3>1. h[c] \in HistoryType  BY <1>1 DEF EntriesType
    <3> QED  BY <3>1, MulDecBounds DEF Promised, HistoryType
  <2>2. w[c].amount > 0 /\ w[c].amount <= Promised(h, c)
    <3>1. ub[c].amount <= Promised(h, c)  BY <1>1 DEF Priced
    <3> QED  BY <1>2, <2>1, <3>1
  <2> QED  BY <1>1, <1>3, <2>2 DEF Priced
<1>9. Pending(h, w) = Pending(h, ub)
  <2>1. ASSUME NEW b \in BatchIds
        PROVE  (IF b \in DOMAIN w /\ w[b].paid /\ ~h[b].released THEN w[b].amount ELSE 0)
             = (IF b \in DOMAIN ub /\ ub[b].paid /\ ~h[b].released THEN ub[b].amount ELSE 0)
    <3>1. CASE b = c  BY <1>1, <1>2, <3>1
    <3>2. CASE b # c  BY <1>1, <1>3, <3>2
    <3> QED  BY <3>1, <3>2
  <2> QED  BY <2>1 DEF Pending
<1>10. Arrivals(h, w) = Arrivals(h, ub)
  <2>1. c \notin ReleasedOf(h)  BY <1>4 DEF ReleasedOf
  <2> QED  BY <1>1, <1>3, <2>1 DEF Arrivals
<1> QED  BY <1>1, <1>5, <1>7, <1>8, <1>9, <1>10 DEF InStep, Accurate

(* Coins have arrived once an entry is paid that is not released.          *)
LEMMA PaidFunded ==
  ASSUME NEW h, NEW ub, NEW x \in Int, InStep(h, ub, x),
         NEW b \in DOMAIN ub, ~h[b].released, ub[b].paid
  PROVE  x > 0
<1>1. /\ EntriesType(h, ub) /\ Priced(h, ub)
      /\ SumOf(Pending(h, ub)) <= x /\ b \in DOMAIN h /\ b \in BatchIds
      /\ ub[b] \in EntryType
      BY DEF InStep, EntriesType
<1>2. Pending(h, ub)[b] = ub[b].amount  BY <1>1 DEF Pending
<1>3. ub[b].amount > 0 /\ ub[b].amount \in Nat  BY <1>1 DEF Priced, EntryType
<1>4. /\ Pending(h, ub) \in [BatchIds -> Nat] /\ SumOf(Pending(h, ub)) \in Nat
      BY <1>1, PendingType
<1>5. Pending(h, ub)[b] <= SumOf(Pending(h, ub))
      BY <1>1, <1>4, BatchesFinite, SumZero
<1> QED  BY <1>1, <1>2, <1>3, <1>4, <1>5

(* The history g after the release of the batches M, to which x coins are  *)
(* given.                                                                  *)
Releases(h, g, M, x) ==
  LET u == [b \in M |-> Promised(h, b)]
      t == SumOf(u)
      s == FromSubtraction(t, x)
      share(b) == MulDec(s.value, FromRatio(u[b], t))
  IN /\ DOMAIN g = DOMAIN h
     /\ \A b \in DOMAIN h \ M : g[b] = h[b]
     /\ \A b \in M :
          /\ t > 0 /\ h[b].amount > 0
          /\ s.negative => share(b) >= 1
          /\ g[b].time = h[b].time /\ g[b].amount = h[b].amount
          /\ g[b].applied_exchange_rate = h[b].applied_exchange_rate
          /\ g[b].released = TRUE
          /\ g[b].withdraw_rate
               = FromRatio(Released(u[b], share(b), s), h[b].amount)

(* The batches of a release are worth what the chain paid for them.        *)
LEMMA ReleasedCovered ==
  ASSUME NEW h, NEW ub, NEW x \in Nat, InStep(h, ub, x),
         NEW M \in SUBSET DOMAIN h,
         \A b \in M : ~h[b].released /\ (b \in DOMAIN ub => ub[b].paid),
         NEW g, Releases(h, g, M, x), M \subseteq ReleasedOf(g)
  PROVE  Covers(Part(Worth(g), M), Part(Promises(g), M), Part(Arrivals(g, ub), M))
<1> DEFINE u == [b \in M |-> Promised(h, b)]
           t == SumOf(u)
           s == FromSubtraction(t, x)
           share == [b \in M |-> MulDec(s.value, FromRatio(u[b], t))]
           value == Part(Worth(g), M)
           arrived == Part(Arrivals(g, ub), M)
<1>1. /\ EntriesType(h, ub) /\ Settled(h, ub) /\ Priced(h, ub)
      /\ SumOf(Pending(h, ub)) <= x /\ IsFiniteSet(M) /\ IsFiniteSet(BatchIds)
      /\ M \in SUBSET BatchIds /\ DOMAIN ub \subseteq DOMAIN h
      /\ \A b \in DOMAIN h : h[b] \in HistoryType
      /\ \A b \in DOMAIN ub : ub[b] \in EntryType
  <2>1. M \in SUBSET BatchIds  BY DEF InStep, EntriesType
  <2> QED  BY <2>1, BatchesFinite, FS_Subset DEF InStep, EntriesType
<1>2. /\ u \in [M -> Nat] /\ t \in Nat
      /\ \A b \in M : /\ b \in DOMAIN h /\ h[b].amount \in Nat
                      /\ u[b] = Promised(h, b) /\ u[b] \in Nat
  <2>1. \A b \in M : Promised(h, b) \in Nat /\ h[b].amount \in Nat
        BY <1>1, MulDecBounds DEF Promised, HistoryType
  <2>2. u \in [M -> Nat]  BY <2>1
  <2>3. t \in Nat
    <3> HIDE DEF u
    <3> QED  BY <1>1, <2>2, SumNat
  <2> QED  BY <2>1, <2>2, <2>3
<1>3. \A b \in M :
         /\ t > 0 /\ h[b].amount > 0
         /\ s.negative => share[b] >= 1
         /\ g[b].amount = h[b].amount
         /\ g[b].applied_exchange_rate = h[b].applied_exchange_rate
         /\ g[b].withdraw_rate = FromRatio(Released(u[b], share[b], s), h[b].amount)
      BY DEF Releases
<1>4. Part(Promises(g), M) = u
  <2>1. \A b \in M : Promises(g)[b] = Promised(h, b)
        BY <1>3 DEF Promises, Promised
  <2> QED  BY <2>1 DEF Part
<1>5. /\ \A b \in M : value[b] = MulDec(g[b].amount, g[b].withdraw_rate) + 2
                                   + g[b].amount \div One
      /\ \A b \in M : arrived[b] = IF b \in DOMAIN ub THEN ub[b].amount ELSE 0
      /\ DOMAIN value = M /\ DOMAIN arrived = M
      BY DEF Part, Worth, Arrivals
<1>6. /\ value = [b \in M |-> value[b]] /\ arrived = [b \in M |-> arrived[b]]
      BY DEF Part
<1>7. arrived \in [M -> Nat] /\ \A b \in M : arrived[b] <= u[b]
  <2>1. ASSUME NEW b \in M PROVE arrived[b] \in Nat /\ arrived[b] <= u[b]
    <3>1. CASE b \in DOMAIN ub
      <4>1. ub[b].amount \in Nat /\ ub[b].amount <= Promised(h, b)
            BY <1>1, <3>1 DEF Priced, EntryType
      <4> QED  BY <1>2, <1>5, <3>1, <4>1
    <3>2. CASE b \notin DOMAIN ub  BY <1>2, <1>5, <3>2
    <3> QED  BY <3>1, <3>2
  <2> QED  BY <1>6, <2>1
<1>8. SumOf(arrived) <= x
  <2> DEFINE p == Pending(h, ub)
             q == [b \in BatchIds |-> IF b \in M THEN p[b] ELSE 0]
  <2>1. p \in [BatchIds -> Nat] /\ p \in [BatchIds -> Int] /\ SumOf(p) \in Nat
        BY <1>1, PendingType
  <2>2. arrived = [b \in M |-> p[b]]
    <3>1. ASSUME NEW b \in M PROVE arrived[b] = p[b]
      <4>1. b \in DOMAIN h /\ b \in BatchIds /\ ~h[b].released  BY <1>1
      <4>2. b \in DOMAIN ub => ub[b].paid  OBVIOUS
      <4> QED  BY <1>5, <4>1, <4>2 DEF Pending
    <3> QED  BY <1>6, <3>1
  <2> HIDE DEF p
  <2>3. SumOf(arrived) = SumOf(q)
    <3>1. SumOf([b \in M |-> p[b]]) = SumOf(q)  BY ONLY <1>1, <2>1, SumPart
    <3> QED  BY <2>2, <3>1
  <2>4. q \in [BatchIds -> Int] /\ \A b \in BatchIds : q[b] <= p[b]  BY <2>1
  <2> HIDE DEF q
  <2>5. SumOf(q) <= SumOf(p) /\ SumOf(q) \in Int
        BY ONLY <1>1, <2>1, <2>4, SumMonotone, SumInt
  <2>6. SumOf(p) <= x  BY <1>1 DEF p
  <2> QED  BY <2>1, <2>3, <2>5, <2>6
<1>9. CASE M = {}
  <2>1. value \in [M -> Nat] /\ DOMAIN value = M  BY <1>5, <1>9, <1>6
  <2> HIDE DEF value, arrived
  <2>2. SumOf(value) = 0 /\ SumOf(arrived) = 0  BY <1>1, <1>7, <1>9, <2>1, SumZero
  <2> QED  BY <1>4, <1>9, <2>1, <2>2 DEF Covers, value, arrived
<1>10. CASE M # {}
  <2>1. t \in Nat \ {0}  BY <1>2, <1>3, <1>10
  <2>2. s = FromSubtraction(t, x) /\ x \in Nat /\ t = SumOf(u)  OBVIOUS
  <2>3. \A b \in M : share[b] = MulDec(s.value, FromRatio(u[b], t))  OBVIOUS
  <2> HIDE DEF s, t, u, share, value, arrived
  <2>4. ASSUME NEW b \in M
        PROVE  /\ share[b] \in Nat /\ value[b] \in Nat
               /\ Released(u[b], share[b], s) + 1 <= value[b]
    <3>1. /\ u[b] \in Nat /\ share[b] = MulDec(s.value, FromRatio(u[b], t))
          /\ s.negative => share[b] >= 1
          BY <1>2, <1>3, <2>3
    <3>2. share[b] \in Nat /\ Released(u[b], share[b], s) \in Nat
          BY ONLY <2>1, <2>2, <3>1, ReleaseBetween
    <3>3. PICK v \in Nat, A \in Nat \ {0} :
             v = Released(u[b], share[b], s) /\ A = h[b].amount
          BY <1>2, <1>3, <3>2
    <3>4. value[b] = MulDec(A, FromRatio(v, A)) + 2 + A \div One
          BY <1>3, <1>5, <3>3
    <3>5. /\ MulDec(A, FromRatio(v, A)) \in Nat /\ A \div One \in Nat
          /\ v <= MulDec(A, FromRatio(v, A)) + 1 + A \div One
          BY <3>3, ValueKept
    <3> QED  BY <3>2, <3>3, <3>4, <3>5
  <2>5. share \in [M -> Nat] /\ value \in [M -> Nat]
    <3>1. share = [b \in M |-> share[b]]  BY DEF share
    <3> QED  BY <1>6, <2>4, <3>1
  <2>6. /\ Shared(M, u, t, x, s, share)
        /\ \A b \in M : Released(u[b], share[b], s) + 1 <= value[b]
        BY <1>3, <2>2, <2>3, <2>4 DEF Shared
  <2>7. /\ IsFiniteSet(M) /\ u \in [M -> Nat] /\ arrived \in [M -> Nat]
        /\ \A b \in M : arrived[b] <= u[b]
        BY <1>1, <1>2, <1>7
  <2>8. Covers(value, u, arrived)
        BY ONLY <1>8, <2>1, <2>2, <2>5, <2>6, <2>7, ReleaseCovers
  <2> QED  BY <1>4, <2>8 DEF value, arrived
<1> QED  BY <1>9, <1>10

(* A release empties what is pending, and adds to what is accurate.        *)
LEMMA ReleaseInStep ==
  ASSUME NEW h, NEW ub, NEW x \in Nat, InStep(h, ub, x),
         NEW M \in SUBSET DOMAIN h, \A b \in M : ~h[b].released,
         \A b \in DOMAIN ub : ~h[b].released => (b \in M <=> ub[b].paid),
         NEW g, EntriesType(g, ub), Releases(h, g, M, x), NEW y \in Nat
  PROVE  InStep(g, ub, y)
<1>1. /\ EntriesType(h, ub) /\ Settled(h, ub) /\ Priced(h, ub)
      /\ Accurate(h, ub) /\ DOMAIN ub \subseteq DOMAIN h /\ DOMAIN h \subseteq BatchIds
      /\ \A b \in DOMAIN ub : ub[b] \in EntryType
      BY DEF InStep, EntriesType
<1>2. /\ DOMAIN g = DOMAIN h
      /\ \A b \in DOMAIN h \ M : g[b] = h[b]
      /\ \A b \in M : /\ g[b].time = h[b].time /\ g[b].amount = h[b].amount
                      /\ g[b].applied_exchange_rate = h[b].applied_exchange_rate
                      /\ g[b].released = TRUE
  <2>1. /\ DOMAIN g = DOMAIN h
        /\ \A b \in DOMAIN h \ M : g[b] = h[b]
        BY DEF Releases
  <2>2. ASSUME NEW b \in M
        PROVE  /\ g[b].time = h[b].time /\ g[b].amount = h[b].amount
               /\ g[b].applied_exchange_rate = h[b].applied_exchange_rate
               /\ g[b].released = TRUE
        BY DEF Releases
  <2> QED  BY <2>1, <2>2
<1>3. \A b \in DOMAIN h : Promised(g, b) = Promised(h, b)
      BY <1>2 DEF Promised
<1>4. Settled(g, ub)
  <2>1. ASSUME NEW b \in DOMAIN ub, g[b].released PROVE ub[b].paid
    <3>1. CASE b \in M  BY <2>1, <3>1
    <3>2. CASE b \notin M
      <4>1. g[b] = h[b]  BY <1>1, <1>2, <2>1, <3>2
      <4> QED  BY <1>1, <2>1, <4>1 DEF Settled
    <3> QED  BY <3>1, <3>2
  <2> QED  BY <2>1 DEF Settled
<1>5. Priced(g, ub)
  <2>1. ASSUME NEW b \in DOMAIN h, ~g[b].released
        PROVE  g[b].withdraw_rate = g[b].applied_exchange_rate
    <3>1. b \notin M  BY <1>2, <2>1
    <3>2. g[b] = h[b]  BY <1>2, <3>1
    <3> QED  BY <1>1, <2>1, <3>2 DEF Priced
  <2> QED  BY <1>1, <1>2, <1>3, <2>1 DEF Priced
<1>6. SumOf(Pending(g, ub)) <= y
  <2>1. ASSUME NEW b \in BatchIds PROVE Pending(g, ub)[b] = 0
    <3>1. SUFFICES ASSUME b \in DOMAIN ub, ub[b].paid, ~g[b].released PROVE FALSE
          BY DEF Pending
    <3>2. b \in DOMAIN h /\ b \notin M  BY <1>1, <1>2, <3>1
    <3>3. ~h[b].released  BY <1>2, <3>1, <3>2
    <3> QED  BY <3>1, <3>2, <3>3
  <2>2. Pending(g, ub) \in [BatchIds -> Nat]  BY PendingType
  <2>3. SumOf(Pending(g, ub)) = 0  BY <2>1, <2>2, BatchesFinite, SumZero
  <2> QED  BY <2>3
<1>7. Accurate(g, ub)
  <2> DEFINE S == ReleasedOf(g)
             R == ReleasedOf(h)
  <2>1. S = R \cup M /\ R \cap M = {} /\ S \subseteq DOMAIN h
    <3>1. ASSUME NEW b \in DOMAIN h PROVE g[b].released <=> h[b].released \/ b \in M
      <4>1. CASE b \in M  BY <1>2, <4>1
      <4>2. CASE b \notin M  BY <1>2, <4>2
      <4> QED  BY <4>1, <4>2
    <3> QED  BY <1>2, <3>1 DEF ReleasedOf
  <2>2. M = S \ R /\ R \in SUBSET S /\ M \subseteq S  BY <2>1
  <2>3. IsFiniteSet(S)  BY <1>1, <2>1, BatchesFinite, FS_Subset
  <2>4. ASSUME NEW b \in S
        PROVE  /\ Worth(g)[b] \in Nat /\ Promises(g)[b] \in Nat
               /\ Arrivals(g, ub)[b] \in Nat
               /\ Arrivals(g, ub)[b] <= Promises(g)[b]
    <3>1. g[b] \in HistoryType /\ b \in DOMAIN g  BY <1>2, <2>1 DEF EntriesType
    <3>2. g[b].amount \in Nat /\ g[b].withdraw_rate \in Nat
          /\ g[b].applied_exchange_rate \in Nat
          BY <3>1 DEF HistoryType
    <3>3. /\ MulDec(g[b].amount, g[b].withdraw_rate) \in Nat /\ Promised(g, b) \in Nat
          /\ g[b].amount \div One \in Nat
          BY <3>2, MulDecBounds, DivBounds, FixedPointAssumption DEF Promised
    <3>4. Worth(g)[b] \in Nat /\ Promises(g)[b] = Promised(g, b)
          BY <3>3 DEF Worth, Promises
    <3>5. CASE b \in DOMAIN ub
      <4>1. Arrivals(g, ub)[b] = ub[b].amount /\ ub[b].amount \in Nat
            BY <1>1, <3>5 DEF Arrivals, EntryType
      <4>2. ub[b].amount <= Promised(g, b)  BY <1>5, <3>5 DEF Priced
      <4> QED  BY <3>3, <3>4, <4>1, <4>2
    <3>6. CASE b \notin DOMAIN ub
      <4>1. Arrivals(g, ub)[b] = 0  BY <3>6 DEF Arrivals
      <4> QED  BY <3>3, <3>4, <4>1
    <3> QED  BY <3>5, <3>6
  <2>5. /\ Worth(g) \in [S -> Nat] /\ Promises(g) \in [S -> Nat]
        /\ Arrivals(g, ub) \in [S -> Nat]
    <3>1. /\ Worth(g) = [b \in S |-> Worth(g)[b]]
          /\ Promises(g) = [b \in S |-> Promises(g)[b]]
          /\ Arrivals(g, ub) = [b \in S |-> Arrivals(g, ub)[b]]
          BY DEF Worth, Promises, Arrivals
    <3> HIDE DEF S
    <3> QED  BY <2>4, <3>1
  <2>6. Covers(Part(Worth(g), R), Part(Promises(g), R), Part(Arrivals(g, ub), R))
    <3>1. \A b \in R : b \in S /\ g[b] = h[b]  BY <1>2, <2>1
    <3>2. Part(Worth(g), R) = Worth(h)  BY <3>1 DEF Part, Worth
    <3>3. Part(Promises(g), R) = Promises(h)  BY <3>1 DEF Part, Promises, Promised
    <3>4. Part(Arrivals(g, ub), R) = Arrivals(h, ub)  BY <3>1 DEF Part, Arrivals
    <3> QED  BY <1>1, <3>2, <3>3, <3>4 DEF Accurate
  <2>7. Covers(Part(Worth(g), M), Part(Promises(g), M), Part(Arrivals(g, ub), M))
    <3>1. \A b \in M : ~h[b].released /\ (b \in DOMAIN ub => ub[b].paid)  OBVIOUS
    <3> QED  BY <2>2, <3>1, ReleasedCovered
  <2>8. Covers(Part(Worth(g), S \ R), Part(Promises(g), S \ R),
               Part(Arrivals(g, ub), S \ R))
        BY <2>2, <2>7
  <2> HIDE DEF S, R
  <2>9. Covers(Worth(g), Promises(g), Arrivals(g, ub))
        BY ONLY <2>2, <2>3, <2>4, <2>5, <2>6, <2>8, CoversUnion
  <2> QED  BY <2>9 DEF Accurate
<1> QED  BY <1>4, <1>5, <1>6, <1>7 DEF InStep

-----------------------------------------------------------------------------
(* The steps *)

(* The coins a release counts are those above the balance kept.            *)
LEMMA CountedCoins ==
  /\ Balances => /\ ActualUnbonded = hub_balance - state.prev_hub_balance
                 /\ ActualUnbonded \in Nat
  /\ Balances' => /\ ActualUnbonded' = hub_balance' - state'.prev_hub_balance
                  /\ ActualUnbonded' \in Nat
<1>1. ASSUME NEW H \in Nat, NEW P \in Nat, P <= H
      PROVE  0 + FromSubtraction(H, P).value = H - P /\ H - P \in Nat
      BY <1>1, SubtractionParts
<1>2. ASSUME Balances
      PROVE  /\ ActualUnbonded = hub_balance - state.prev_hub_balance
             /\ ActualUnbonded \in Nat
  <2>1. /\ hub_balance \in Nat /\ state.prev_hub_balance \in Nat
        /\ state.prev_hub_balance <= hub_balance /\ state.actual_unbonded_amount = 0
        BY <1>2 DEF Balances, Requests, Order, TypeOK, StateType
  <2> QED  BY <1>1, <2>1 DEF ActualUnbonded
<1>3. ASSUME Balances'
      PROVE  /\ ActualUnbonded' = hub_balance' - state'.prev_hub_balance
             /\ ActualUnbonded' \in Nat
  <2>1. /\ hub_balance' \in Nat /\ state'.prev_hub_balance \in Nat
        /\ state'.prev_hub_balance <= hub_balance' /\ state'.actual_unbonded_amount = 0
        BY <1>3 DEF Balances, Requests, Order, TypeOK, StateType
  <2> QED  BY <1>1, <2>1 DEF ActualUnbonded
<1> QED  BY <1>2, <1>3

(* Payments keep the record of the balance exact, whatever they release.   *)
LEMMA WithdrawBalances ==
  ASSUME Balances, NEW user \in Users, WithdrawUnbonded(user) PROVE Balances'
<1>1. Requests' /\ state \in StateType
      BY WithdrawRequests DEF Balances, Requests, Order, TypeOK
<1>2. state'.actual_unbonded_amount = 0 /\ state'.prev_hub_balance = hub_balance'
      BY <1>1 DEF WithdrawUnbonded, WithdrawUpTo, PayOut, StateType
<1>3. hub_balance' \in Nat  BY <1>1 DEF Requests, Order, TypeOK
<1> QED  BY <1>1, <1>2, <1>3 DEF Balances

(* The inductive invariant: the record of the balance and the batches are  *)
(* in step with the chain.                                                 *)
Timely == Balances /\ InStep(history, unbonding, ActualUnbonded)

(* A batch that is undelegated and not released is ripe when, and only     *)
(* when, the chain has paid for it.  It fails between the payment and the  *)
(* end of unbonding_period, and if that ends before the payment.           *)
InTime ==
  \A b \in DOMAIN unbonding :
    ~history[b].released => (b \in MaturedBatches <=> unbonding[b].paid)

(* Users withdraw only then.                                               *)
WithdrawsInTime == (\E user \in Users : WithdrawUnbonded(user)) => InTime

WithdrawalsInTime == [][WithdrawsInTime]_vars

(* A withdrawal releases batches that are not released yet.                *)
LEMMA MaturedFresh ==
  ASSUME Order
  PROVE  /\ MaturedBatches \in SUBSET DOMAIN history
         /\ \A b \in MaturedBatches : ~history[b].released
<1>1. MaturedBatches \in SUBSET DOMAIN history  BY DEF MaturedBatches
<1>2. ASSUME NEW b \in MaturedBatches PROVE ~history[b].released
  <2>1. b \in DOMAIN history /\ b > state.last_processed_batch
        BY DEF MaturedBatches
  <2>2. b \in Nat /\ state.last_processed_batch \in Nat
        BY <2>1, HubAssumption DEF Order, TypeOK, StateType, BatchIds
  <2>3. b \in (state.last_processed_batch + 1)..b  BY <2>1, <2>2
  <2> QED  BY <2>3 DEF MaturedBatches, Releasable
<1> QED  BY <1>1, <1>2

(* A withdrawal in time releases exactly what was paid.                    *)
LEMMA WithdrawTimely ==
  ASSUME Timely, InTime, NEW user \in Users, WithdrawUnbonded(user)
  PROVE  Timely'
<1> DEFINE M == MaturedBatches
           x == ActualUnbonded
<1>1. /\ Balances /\ Order /\ TypeOK /\ TypeOK' /\ Balances'
      /\ InStep(history, unbonding, x)
      /\ EntriesType(history, unbonding)
      BY WithdrawBalances DEF Timely, Balances, Requests, Order, InStep
<1>2. unbonding' = unbonding  BY DEF WithdrawUnbonded, WithdrawUpTo, PayOut
<1>3. /\ x \in Nat /\ ActualUnbonded' \in Nat
      /\ DOMAIN unbonding \subseteq DOMAIN history
      /\ \A b \in DOMAIN history : history[b] \in HistoryType
      BY <1>1, CountedCoins DEF EntriesType
<1>4. /\ M \in SUBSET DOMAIN history /\ \A b \in M : ~history[b].released
      /\ \A b \in DOMAIN unbonding :
           ~history[b].released => (b \in M <=> unbonding[b].paid)
      BY <1>1, MaturedFresh DEF InTime
<1>5. PICK t, s : /\ t = TotalUnbonded /\ s = FromSubtraction(t, x)
                  /\ Processable(t, s) /\ history' = ReleasedHistory(t, s)
      BY DEF WithdrawUnbonded, WithdrawUpTo, PayOut
<1>6. EntriesType(history', unbonding')
  <2>1. DOMAIN history' = DOMAIN history  BY <1>5 DEF ReleasedHistory
  <2> QED  BY <1>1, <1>2, <1>3, <2>1 DEF TypeOK, EntriesType
<1>7. Releases(history, history', M, x)
  <2> DEFINE u == [b \in M |-> Promised(history, b)]
  <2>1. \A b \in M : Promised(history, b) = UnbondedAmount(b)
        BY <1>1, <1>4 DEF InStep, Priced, Promised, UnbondedAmount
  <2>2. u = [b \in M |-> UnbondedAmount(b)]  BY <2>1
  <2>3. t = SumOf(u)  BY <1>5, <2>2 DEF TotalUnbonded
  <2>4. ASSUME NEW b \in M
        PROVE  LET share == MulDec(s.value, FromRatio(u[b], t))
               IN /\ t > 0 /\ history[b].amount > 0
                  /\ s.negative => share >= 1
                  /\ history'[b].time = history[b].time
                  /\ history'[b].amount = history[b].amount
                  /\ history'[b].applied_exchange_rate = history[b].applied_exchange_rate
                  /\ history'[b].released = TRUE
                  /\ history'[b].withdraw_rate
                       = FromRatio(Released(u[b], share, s), history[b].amount)
    <3>1. u[b] = UnbondedAmount(b)  BY <2>2
    <3>2. MulDec(s.value, FromRatio(u[b], t)) = SlashedShare(b, t, s)
          BY <3>1 DEF SlashedShare
    <3>3. /\ t > 0 /\ history[b].amount > 0
          /\ s.negative => SlashedShare(b, t, s) >= 1
          BY <1>5 DEF Processable
    <3>4. ActualUnbondedOf(b, t, s) = Released(u[b], SlashedShare(b, t, s), s)
          BY <3>1 DEF ActualUnbondedOf, RoundedLoss, Released
    <3>5. b \in DOMAIN history /\ history[b] \in HistoryType  BY <1>3, <1>4
    <3>6. history'[b] = [history[b] EXCEPT
             !.withdraw_rate = FromRatio(ActualUnbondedOf(b, t, s), history[b].amount),
             !.released = TRUE]
          BY <1>5, <3>5 DEF ReleasedHistory
    <3>7. /\ history'[b].time = history[b].time
          /\ history'[b].amount = history[b].amount
          /\ history'[b].applied_exchange_rate = history[b].applied_exchange_rate
          /\ history'[b].released = TRUE
          /\ history'[b].withdraw_rate
               = FromRatio(ActualUnbondedOf(b, t, s), history[b].amount)
          BY <3>5, <3>6 DEF HistoryType
    <3> HIDE DEF u
    <3> QED  BY <3>2, <3>3, <3>4, <3>7
  <2>5. /\ DOMAIN history' = DOMAIN history
        /\ \A b \in DOMAIN history \ M : history'[b] = history[b]
        BY <1>5 DEF ReleasedHistory
  <2> HIDE DEF M, x
  <2> QED  BY <1>5, <2>3, <2>4, <2>5 DEF Releases
<1> HIDE DEF M, x
<1>8. InStep(history', unbonding, ActualUnbonded')
  <2>1. PICK h, ub, g, y : /\ h = history /\ ub = unbonding
                           /\ g = history' /\ y = ActualUnbonded'
        OBVIOUS
  <2>2. /\ x \in Nat /\ InStep(h, ub, x)
        /\ M \in SUBSET DOMAIN h /\ \A b \in M : ~h[b].released
        /\ \A b \in DOMAIN ub : ~h[b].released => (b \in M <=> ub[b].paid)
        /\ EntriesType(g, ub) /\ Releases(h, g, M, x) /\ y \in Nat
        BY <1>1, <1>2, <1>3, <1>4, <1>6, <1>7, <2>1
  <2>3. InStep(g, ub, y)  BY ONLY <2>2, ReleaseInStep
  <2> QED  BY <2>1, <2>3
<1> QED  BY <1>1, <1>2, <1>8 DEF Timely

(* A burn that closes the batch undelegates what the batch is promised.    *)
LEMMA UnbondTimely ==
  ASSUME Timely, Balances',
         NEW user \in Users, NEW amount \in UnbondAmounts, Unbond(user, amount)
  PROVE  Timely'
<1>1. /\ Order /\ TypeOK /\ TypeOK' /\ current_batch.id \in Nat \ {0}
      /\ current_batch.id <= MaxBatch
      /\ DOMAIN history = 1..(current_batch.id - 1)
      /\ state \in StateType /\ MaxBatch \in Nat
      /\ InStep(history, unbonding, ActualUnbonded)
      /\ EntriesType(history, unbonding)
      BY HubAssumption
      DEF Timely, Balances, Requests, Order, TypeOK, BatchesInOrder, Unbond, InStep
<1>2. hub_balance' = hub_balance  BY DEF Unbond
<1>3. ActualUnbonded' = ActualUnbonded
  <2>1. /\ AfterSlashing \in StateType
        /\ AfterSlashing.prev_hub_balance = state.prev_hub_balance
        BY <1>1, AfterSlashingType DEF AfterSlashing, StateType
  <2>2. state'.prev_hub_balance = state.prev_hub_balance
        BY <2>1 DEF Unbond, JoinBatch, CloseBatch, StateType
  <2> QED  BY <1>2, <2>2, CountedCoins DEF Timely
<1>4. ASSUME InStep(history', unbonding', ActualUnbonded)
      PROVE  Timely'
      BY <1>2, <1>3, <1>4 DEF Timely
<1>5. CASE JoinBatch(amount)
  <2>1. history' = history /\ unbonding' = unbonding  BY <1>5 DEF JoinBatch
  <2> QED  BY <1>1, <1>4, <2>1
<1>6. CASE CloseBatch(amount)
  <2>1. PICK id, claim, rate, asked :
           /\ id = current_batch.id /\ claim = UndelegationAmount(amount)
           /\ rate = UnbondRate(amount) /\ asked = Requested(amount)
        OBVIOUS
  <2>2. /\ id \in BatchIds /\ id \notin DOMAIN history /\ id \notin DOMAIN unbonding
    <3>1. id \in BatchIds /\ id \notin DOMAIN history  BY <1>1, <2>1 DEF BatchIds
    <3> QED  BY <1>1, <3>1 DEF EntriesType
  <2>3. claim \in Nat /\ claim = MulDec(asked, rate)
    <3>1. amount \in Nat /\ amount <= supply /\ AmountWithFee(amount) >= 0
          BY HubAssumption DEF Unbond, WithinSupply
    <3>2. claim \in Nat  BY <1>1, <2>1, <3>1, UnbondTypes
    <3> QED  BY <2>1, <3>2 DEF UndelegationAmount
  <2>4. /\ history' = Put(history, id, [time |-> now, amount |-> asked,
                                        applied_exchange_rate |-> rate,
                                        withdraw_rate |-> rate, released |-> FALSE])
        /\ unbonding' = IF claim = 0 THEN unbonding
                        ELSE Put(unbonding, id,
                                 [amount |-> claim,
                                  completion |-> now + ChainUnbondingTime,
                                  paid |-> FALSE])
        BY <1>6, <2>1 DEF CloseBatch
  <2>5. /\ DOMAIN history' = DOMAIN history \cup {id}
        /\ \A b \in DOMAIN history : history'[b] = history[b]
        /\ history'[id] = [time |-> now, amount |-> asked,
                           applied_exchange_rate |-> rate,
                           withdraw_rate |-> rate, released |-> FALSE]
        BY <2>2, <2>4 DEF Put
  <2>6. /\ DOMAIN unbonding' = DOMAIN unbonding
             \/ DOMAIN unbonding' = DOMAIN unbonding \cup {id}
        /\ \A b \in DOMAIN unbonding : unbonding'[b] = unbonding[b]
        /\ id \in DOMAIN unbonding' =>
             /\ unbonding'[id] = [amount |-> claim,
                                  completion |-> now + ChainUnbondingTime,
                                  paid |-> FALSE]
             /\ claim > 0
    <3>1. CASE claim = 0  BY <2>2, <2>4, <3>1
    <3>2. CASE claim # 0
      <4>1. unbonding' = Put(unbonding, id, [amount |-> claim,
                                             completion |-> now + ChainUnbondingTime,
                                             paid |-> FALSE])
            BY <2>4, <3>2
      <4>2. claim > 0  BY <2>3, <3>2
      <4> QED  BY <2>2, <4>1, <4>2 DEF Put
    <3> QED  BY <3>1, <3>2
  <2>7. EntriesType(history', unbonding')
    <3>1. DOMAIN unbonding' \subseteq DOMAIN history'
          BY <1>1, <2>5, <2>6 DEF EntriesType
    <3> QED  BY <1>1, <3>1 DEF TypeOK, EntriesType
  <2>8. PICK h, ub, x, g, w :
           /\ h = history /\ ub = unbonding /\ x = ActualUnbonded
           /\ g = history' /\ w = unbonding'
        OBVIOUS
  <2>9. Promised(g, id) = claim /\ g[id].released = FALSE
        /\ g[id].withdraw_rate = g[id].applied_exchange_rate
        BY <2>3, <2>5, <2>8 DEF Promised
  <2>10. /\ InStep(h, ub, x)
         /\ EntriesType(g, w) /\ id \in BatchIds /\ id \notin DOMAIN h
         /\ DOMAIN g = DOMAIN h \cup {id}
         /\ \A b \in DOMAIN h : g[b] = h[b]
         /\ DOMAIN w = DOMAIN ub \/ DOMAIN w = DOMAIN ub \cup {id}
         /\ \A b \in DOMAIN ub : w[b] = ub[b]
         /\ id \in DOMAIN w => /\ w[id].amount = Promised(g, id)
                               /\ w[id].paid = FALSE /\ Promised(g, id) > 0
         BY <1>1, <2>2, <2>5, <2>6, <2>7, <2>8, <2>9
  <2>11. Closes(h, ub, g, w, id)  BY ONLY <2>9, <2>10 DEF Closes
  <2>12. InStep(g, w, x)  BY ONLY <2>10, <2>11, CloseInStep
  <2> QED  BY <1>4, <2>8, <2>12
<1> QED  BY <1>5, <1>6 DEF Unbond

(* The chain pays entries, or slashes one that is not paid.                *)
LEMMA ChainTimely ==
  ASSUME Timely, Balances',
         \/ \E interval \in BlockIntervals : EndBlock(interval)
         \/ \E b \in DOMAIN unbonding, loss \in UnbondingSlashes :
              SlashUnbonding(b, loss)
  PROVE  Timely'
<1>1. /\ Balances /\ hub_balance \in Nat /\ state.prev_hub_balance \in Nat
      /\ InStep(history, unbonding, ActualUnbonded)
      /\ ActualUnbonded \in Nat
      /\ ActualUnbonded = hub_balance - state.prev_hub_balance
      /\ ActualUnbonded' = hub_balance' - state'.prev_hub_balance
      BY CountedCoins DEF Timely, Balances, Requests, Order, TypeOK, StateType
<1>2. PICK h, ub, n, x : /\ h = history /\ ub = unbonding /\ n = now
                         /\ x = ActualUnbonded
      OBVIOUS
<1>3. InStep(h, ub, x) /\ x \in Nat /\ x \in Int  BY <1>1, <1>2
<1>4. ASSUME NEW interval \in BlockIntervals, EndBlock(interval)
      PROVE  Timely'
  <2>2. PICK D, w, a : /\ D = Due /\ w = unbonding'
                       /\ a = SumOf([b \in D |-> unbonding[b].amount])
        OBVIOUS
  <2>3. /\ D = {b \in DOMAIN ub : ~ub[b].paid /\ ub[b].completion <= n}
        /\ w = [b \in DOMAIN ub |->
                  IF b \in D THEN [ub[b] EXCEPT !.paid = TRUE] ELSE ub[b]]
        /\ a = SumOf([b \in D |-> ub[b].amount])
        /\ hub_balance' = hub_balance + a /\ history' = h /\ state' = state
        BY <1>2, <1>4, <2>2 DEF EndBlock, Due, ledgerVars
  <2>4. InStep(h, w, x + SumOf([b \in D |-> ub[b].amount]))
        BY ONLY <1>3, <2>3, BlockInStep
  <2>5. InStep(h, w, x + a)  BY <2>3, <2>4
  <2>6. a \in Nat
    <3>1. TypeOK  BY <1>1 DEF Balances, Requests, Order
    <3> QED  BY <2>2, <3>1, ArrivedNat
  <2>7. ActualUnbonded' = x + a  BY <1>1, <1>2, <2>3, <2>6
  <2> QED  BY <1>1, <2>2, <2>3, <2>5, <2>7 DEF Timely
<1>5. ASSUME NEW c \in DOMAIN unbonding, NEW loss \in UnbondingSlashes,
             SlashUnbonding(c, loss)
      PROVE  Timely'
  <2>1. PICK w : w = unbonding'  OBVIOUS
  <2>2. /\ c \in DOMAIN ub /\ ~ub[c].paid /\ loss \in Nat /\ loss < ub[c].amount
        /\ w = [ub EXCEPT ![c].amount = @ - loss]
        BY <1>2, <1>5, <2>1, HubAssumption DEF SlashUnbonding
  <2>3. history' = h /\ state' = state /\ hub_balance' = hub_balance
        BY <1>2, <1>5 DEF SlashUnbonding, ledgerVars
  <2>4. InStep(h, w, x)  BY ONLY <1>3, <2>2, SlashInStep
  <2>5. ActualUnbonded' = x  BY <1>1, <1>2, <2>3
  <2> QED  BY <1>1, <2>1, <2>3, <2>4, <2>5 DEF Timely
<1> QED  BY <1>4, <1>5

(* Other steps, a change of unbonding_period among them, leave the batches *)
(* alone and take no coins from the hub.                                   *)
LEMMA QuietTimely ==
  ASSUME Timely, Balances',
         \/ CheckSlashing
         \/ \E payment \in BondAmounts : Bond(payment)
         \/ \E reward \in RewardAmounts : UpdateGlobalIndex(reward)
         \/ Administer
         \/ \E loss \in StakeSlashes : SlashStake(loss)
         \/ \E amount \in Donations : Donate(amount)
         \/ UNCHANGED vars
  PROVE  Timely'
<1>1. /\ TypeOK /\ state \in StateType /\ hub_balance \in Nat
      /\ ActualUnbonded \in Nat /\ ActualUnbonded' \in Nat
      /\ ActualUnbonded = hub_balance - state.prev_hub_balance
      /\ ActualUnbonded' = hub_balance' - state'.prev_hub_balance
      /\ InStep(history, unbonding, ActualUnbonded)
      BY CountedCoins DEF Timely, Balances, Requests, Order, TypeOK
<1>2. /\ history' = history /\ unbonding' = unbonding
      BY DEF CheckSlashing, Bond, UpdateGlobalIndex, Administer, SlashStake, Donate,
             vars, ledgerVars, chainVars
<1>3. state'.prev_hub_balance = state.prev_hub_balance /\ hub_balance' >= hub_balance
  <2>1. hub_balance >= hub_balance  BY <1>1
  <2>2. /\ AfterSlashing \in StateType
        /\ AfterSlashing.prev_hub_balance = state.prev_hub_balance
        BY <1>1, AfterSlashingType DEF AfterSlashing, StateType
  <2>3. CASE CheckSlashing \/ \E payment \in BondAmounts : Bond(payment)
        BY <2>1, <2>2, <2>3 DEF CheckSlashing, Bond, chainVars, StateType
  <2>4. CASE \E reward \in RewardAmounts : UpdateGlobalIndex(reward)
        BY <1>1, <2>1, <2>4 DEF UpdateGlobalIndex, StateType
  <2>5. ASSUME NEW amount \in Donations, Donate(amount)
        PROVE  state' = state /\ hub_balance' >= hub_balance
    <3>1. amount \in Nat  BY HubAssumption
    <3> QED  BY <1>1, <2>5, <3>1 DEF Donate, ledgerVars
  <2>6. CASE Administer \/ (\E loss \in StakeSlashes : SlashStake(loss)) \/ UNCHANGED vars
        BY <2>1, <2>6 DEF Administer, SlashStake, vars, ledgerVars, chainVars
  <2> QED  BY <2>3, <2>4, <2>5, <2>6
<1>4. InStep(history, unbonding, ActualUnbonded')
  <2>1. ActualUnbonded' >= ActualUnbonded
    <3>1. state.prev_hub_balance \in Nat /\ hub_balance' \in Nat
          BY <1>1 DEF StateType, Balances, Requests, Order, TypeOK
    <3> QED  BY <1>1, <1>3, <3>1
  <2>2. SumOf(Pending(history, unbonding)) \in Nat
        BY <1>1, PendingType DEF InStep
  <2>3. SumOf(Pending(history, unbonding)) <= ActualUnbonded  BY <1>1 DEF InStep
  <2>4. SumOf(Pending(history, unbonding)) <= ActualUnbonded'
        BY <1>1, <2>1, <2>2, <2>3
  <2> QED  BY <1>1, <2>4 DEF InStep
<1> QED  BY <1>2, <1>4 DEF Timely

(* Every step keeps the hub and the chain in step, if withdrawals come in  *)
(* time.                                                                   *)
LEMMA NextTimely ==
  ASSUME Timely, [Next]_vars, [WithdrawsInTime]_vars
  PROVE  Timely'
<1>1. (\E user \in Users : WithdrawUnbonded(user)) => InTime
      BY WithdrawMoves DEF WithdrawsInTime, Timely, Balances, Requests, Order
<1>2. CASE \E user \in Users : WithdrawUnbonded(user)  BY <1>1, <1>2, WithdrawTimely
<1>3. CASE ~ \E user \in Users : WithdrawUnbonded(user)
  <2>1. Balances'  BY <1>3, OtherOwes DEF Timely
  <2>2. CASE \E user \in Users, amount \in UnbondAmounts : Unbond(user, amount)
        BY <2>1, <2>2, UnbondTimely
  <2>3. CASE \/ \E interval \in BlockIntervals : EndBlock(interval)
             \/ \E b \in DOMAIN unbonding, loss \in UnbondingSlashes :
                  SlashUnbonding(b, loss)
        BY <2>1, <2>3, ChainTimely
  <2>4. CASE \/ CheckSlashing
             \/ \E payment \in BondAmounts : Bond(payment)
             \/ \E reward \in RewardAmounts : UpdateGlobalIndex(reward)
             \/ Administer
             \/ \E loss \in StakeSlashes : SlashStake(loss)
             \/ \E amount \in Donations : Donate(amount)
             \/ UNCHANGED vars
        BY <2>1, <2>4, QuietTimely
  <2> QED  BY <1>3, <2>2, <2>3, <2>4 DEF Next, Message, Chain
<1> QED  BY <1>2, <1>3

(* Nothing is closed at the start.                                         *)
LEMMA InitTimely == ASSUME Init PROVE Timely
<1>1. /\ Balances /\ ActualUnbonded \in Nat  BY InitOwes, CountedCoins
<1>3. DOMAIN history = {} /\ DOMAIN unbonding = {}  BY DEF Init
<1>4. EntriesType(history, unbonding)  BY <1>3 DEF EntriesType
<1>5. Settled(history, unbonding)  BY <1>3 DEF Settled
<1>6. Priced(history, unbonding)  BY <1>3 DEF Priced
<1>7. SumOf(Pending(history, unbonding)) <= ActualUnbonded
  <2>1. \A b \in BatchIds : Pending(history, unbonding)[b] = 0  BY <1>3 DEF Pending
  <2>2. Pending(history, unbonding) \in [BatchIds -> Nat]  BY <1>4, PendingType
  <2>3. SumOf(Pending(history, unbonding)) = 0  BY <2>1, <2>2, BatchesFinite, SumZero
  <2> QED  BY <1>1, <2>3
<1>8. Accurate(history, unbonding)
  <2>1. ReleasedOf(history) = {}  BY <1>3 DEF ReleasedOf
  <2>2. /\ Worth(history) \in [{} -> Nat] /\ Arrivals(history, unbonding) \in [{} -> Nat]
        BY <2>1 DEF Worth, Arrivals
  <2>3. DOMAIN Worth(history) = {} /\ IsFiniteSet({})  BY <2>2, FS_EmptySet
  <2>4. SumOf(Worth(history)) = 0 /\ SumOf(Arrivals(history, unbonding)) = 0
        BY <2>2, <2>3, SumZero
  <2> QED  BY <2>3, <2>4 DEF Accurate, Covers
<1> QED  BY <1>1, <1>4, <1>5, <1>6, <1>7, <1>8 DEF Timely, InStep

(* The invariant holds, and a release in time is funded.                   *)
LEMMA AlwaysTimely == Spec /\ WithdrawalsInTime => []Timely
<1>1. Init => Timely  BY InitTimely
<1>2. Timely /\ [Next]_vars /\ [WithdrawsInTime]_vars => Timely'  BY NextTimely
<1> QED  BY <1>1, <1>2, PTL DEF Spec, WithdrawalsInTime

LEMMA TimelyFunded == ASSUME Timely, InTime PROVE ReleaseFunded
<1> SUFFICES ASSUME EveryBatchUndelegated, NEW b \in MaturedBatches
             PROVE  ActualUnbonded > 0
    BY DEF ReleaseFunded
<1>1. /\ Order /\ ActualUnbonded \in Nat
      /\ InStep(history, unbonding, ActualUnbonded)
      BY CountedCoins DEF Timely, Balances, Requests
<1>2. b \in DOMAIN unbonding /\ ~history[b].released
      BY <1>1, MaturedFresh DEF EveryBatchUndelegated
<1>3. unbonding[b].paid  BY <1>2 DEF InTime
<1> QED  BY <1>1, <1>2, <1>3, PaidFunded

(* Whatever the parameters, the blocks' lengths and the administrator do:  *)
(* if every withdrawal finds exactly the paid batches ripe, coins have     *)
(* arrived for the batches it releases, however earlier withdrawals        *)
(* overwrote the record of the balance.                                    *)
THEOREM ReleaseFundedInTime ==
  Spec /\ WithdrawalsInTime
    => [][(\E user \in Users : WithdrawUnbonded(user)) => ReleaseFunded]_vars
<1>1. Timely /\ [WithdrawsInTime]_vars
        => [(\E user \in Users : WithdrawUnbonded(user)) => ReleaseFunded]_vars
      BY TimelyFunded DEF WithdrawsInTime
<1> QED  BY <1>1, AlwaysTimely, PTL DEF WithdrawalsInTime

(* Then every batch is also worth what the chain paid for it, but for the  *)
(* roundings and its part of what was slashed: the balance change that     *)
(* process_withdraw_rate measures credits no arrival to another batch.     *)
(* The forgotten and the late arrival that the runs exhibit are the only   *)
(* ways in which it does.                                                  *)
THEOREM ReleaseAccurateInTime == Spec /\ WithdrawalsInTime => []ReleaseAccurate
<1>1. Timely => ReleaseAccurate  BY AccurateNow DEF Timely, InStep
<1> QED  BY <1>1, AlwaysTimely, PTL

(* And the hub can pay every user it owes, in any order, to the last coin. *)
THEOREM SolventInTime ==
  ASSUME InitialBond <= MaxStake, MaxBatch * (MaxBatch * MaxStake) <= One
  PROVE  Spec /\ WithdrawalsInTime => []Solvent
<1>1. Spec /\ WithdrawalsInTime => [][WithdrawsFunded]_vars
      BY ReleaseFundedInTime DEF WithdrawsFunded
<1> QED  BY <1>1, SharesAlwaysDistinct, SolventFollows, PTL
=============================================================================
