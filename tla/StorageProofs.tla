--------------------------- MODULE StorageProofs ---------------------------
(***************************************************************************)
(* What holds of each part of the storage layer for any number of tasks,   *)
(* connections, files and blocks, under its own specification: the memory  *)
(* budget, the rate limiter, the block cache, the lists of whole pieces,   *)
(* the write queue, the file handles and the spans of a block.             *)
(***************************************************************************)
EXTENDS MCStorage, CountingLemmas

(* ----------------------------- the budget ------------------------------ *)

(* By how much each permit has outgrown what was granted.                  *)
Growth == [u \in BudgetUsers |-> permit[u] - granted[u]]

(* The inductive invariant: the usage is what the permits hold, and a task *)
(* that wants memory has none and has seen a usage that it fits.           *)
BudgetInv ==
    /\ BudgetTypeOK
    /\ usage = SumOf(permit)
    /\ usage <= BudgetLimit + SumOf(Growth)
    /\ \A u \in BudgetUsers :
           /\ granted[u] <= permit[u]
           /\ wanted[u] > 0 => permit[u] = 0 /\ seen[u] + wanted[u] <= BudgetLimit

(* The type invariant, variable by variable; primed, below.                *)
LEMMA BudgetTypes ==
  BudgetTypeOK <=>
    /\ usage \in Nat /\ permit \in [BudgetUsers -> 0 .. BudgetLimit]
    /\ granted \in [BudgetUsers -> 0 .. BudgetLimit]
    /\ wanted \in [BudgetUsers -> 0 .. BudgetLimit]
    /\ seen \in [BudgetUsers -> Nat] /\ budgetCalls \in 0 .. MaxBudgetCalls
BY DEF BudgetTypeOK

LEMMA BudgetTypesNext ==
  BudgetTypeOK' <=>
    /\ usage' \in Nat /\ permit' \in [BudgetUsers -> 0 .. BudgetLimit]
    /\ granted' \in [BudgetUsers -> 0 .. BudgetLimit]
    /\ wanted' \in [BudgetUsers -> 0 .. BudgetLimit]
    /\ seen' \in [BudgetUsers -> Nat] /\ budgetCalls' \in 0 .. MaxBudgetCalls
BY DEF BudgetTypeOK

(* What changing one permit does to the sums.                              *)
LEMMA PermitChanged ==
  ASSUME BudgetInv, NEW u \in BudgetUsers,
         NEW p \in 0 .. BudgetLimit, NEW g \in 0 .. BudgetLimit, g <= p,
         permit' = [permit EXCEPT ![u] = p], granted' = [granted EXCEPT ![u] = g]
  PROVE  /\ SumOf(permit) \in Nat /\ SumOf(Growth) \in Nat
         /\ SumOf(permit') \in Nat /\ SumOf(Growth)' \in Nat
         /\ SumOf(permit') = (SumOf(permit) - permit[u]) + p
         /\ SumOf(Growth)' = (SumOf(Growth) - (permit[u] - granted[u])) + (p - g)
<1>1. /\ permit \in [BudgetUsers -> 0 .. BudgetLimit]
      /\ granted \in [BudgetUsers -> 0 .. BudgetLimit]
      /\ \A v \in BudgetUsers : granted[v] <= permit[v]
  BY BudgetTypes DEF BudgetInv
<1>2. permit \in [BudgetUsers -> Nat] /\ Growth \in [BudgetUsers -> Nat]
  BY <1>1, BudgetAssumption DEF Growth
<1>3. p \in Nat /\ p - g \in Nat
  BY BudgetAssumption
<1>4. Growth' = [Growth EXCEPT ![u] = p - g]
  BY <1>1 DEF Growth
<1>5. Growth[u] = permit[u] - granted[u]
  BY DEF Growth
<1>6. \A f : SumOf(f) = Cardinality(Cells(BudgetUsers, f))
  BY DEF SumOf, Cells, Row
<1>7. SumOf(Growth)' = Cardinality(Cells(BudgetUsers, Growth'))
  BY DEF SumOf, Cells, Row
<1>8. permit' \in [BudgetUsers -> Nat] /\ Growth' \in [BudgetUsers -> Nat]
  BY <1>2, <1>3, <1>4
<1>9. /\ Cardinality(Cells(BudgetUsers, permit)) \in Nat
      /\ Cardinality(Cells(BudgetUsers, Growth)) \in Nat
      /\ Cardinality(Cells(BudgetUsers, permit')) \in Nat
      /\ Cardinality(Cells(BudgetUsers, Growth')) \in Nat
  BY <1>2, <1>8, CellsFinite, BudgetAssumption
<1>a. /\ permit'[u] = p /\ \A v \in BudgetUsers : v # u => permit'[v] = permit[v]
      /\ Growth'[u] = p - g /\ \A v \in BudgetUsers : v # u => Growth'[v] = Growth[v]
  BY <1>2, <1>4
<1>b. \A f, h \in [BudgetUsers -> Nat] :
          (\A v \in BudgetUsers : v # u => h[v] = f[v]) =>
              Cardinality(Cells(BudgetUsers, h)) =
                  (Cardinality(Cells(BudgetUsers, f)) - f[u]) + h[u]
  BY CellsExcept, BudgetAssumption
<1>10. Cardinality(Cells(BudgetUsers, permit')) =
           (Cardinality(Cells(BudgetUsers, permit)) - permit[u]) + p
  BY <1>2, <1>8, <1>a, <1>b
<1>11. Cardinality(Cells(BudgetUsers, Growth')) =
           (Cardinality(Cells(BudgetUsers, Growth)) - Growth[u]) + (p - g)
  BY <1>2, <1>8, <1>a, <1>b
<1>. QED BY <1>5, <1>6, <1>7, <1>9, <1>10, <1>11

(* The sums change only with the permits.                                  *)
LEMMA PermitsUnchanged ==
  ASSUME BudgetInv, UNCHANGED <<permit, granted>>
  PROVE  SumOf(permit') = SumOf(permit) /\ SumOf(Growth)' = SumOf(Growth)
BY DEF SumOf, Growth

(* One step of a task or of the release keeps the budget's invariant.      *)
LEMMA BudgetStep ==
  ASSUME BudgetInv, [BudgetNext]_budgetVars
  PROVE  BudgetInv'
<1>. USE BudgetAssumption DEF Sizes
<1>0. /\ usage \in Nat /\ permit \in [BudgetUsers -> 0 .. BudgetLimit]
      /\ granted \in [BudgetUsers -> 0 .. BudgetLimit]
      /\ wanted \in [BudgetUsers -> 0 .. BudgetLimit]
      /\ seen \in [BudgetUsers -> Nat] /\ budgetCalls \in 0 .. MaxBudgetCalls
      /\ usage = SumOf(permit)
      /\ usage <= BudgetLimit + SumOf(Growth)
      /\ \A u \in BudgetUsers :
             /\ granted[u] <= permit[u]
             /\ wanted[u] > 0 => permit[u] = 0 /\ seen[u] + wanted[u] <= BudgetLimit
  BY BudgetTypes DEF BudgetInv
<1>1. ASSUME NEW u \in BudgetUsers, NEW n \in Sizes, LoadUsage(u, n)
      PROVE  BudgetInv'
  <2>1. UNCHANGED <<permit, granted, usage>>
    BY <1>1 DEF LoadUsage
  <2>2. BudgetTypeOK'
    <3>1. budgetCalls' \in 0 .. MaxBudgetCalls
      BY <1>0, <1>1 DEF LoadUsage, BudgetCall
    <3>. QED BY <1>0, <1>1, <2>1, <3>1, BudgetTypesNext DEF LoadUsage
  <2>3. \A v \in BudgetUsers :
             wanted'[v] > 0 => permit'[v] = 0 /\ seen'[v] + wanted'[v] <= BudgetLimit
    BY <1>0, <1>1 DEF LoadUsage
  <2>. QED BY <1>0, <2>1, <2>2, <2>3, PermitsUnchanged DEF BudgetInv
<1>2. ASSUME NEW u \in BudgetUsers, NEW n \in Sizes, Resize(u, n)
      PROVE  BudgetInv'
  <2> DEFINE g == IF n < granted[u] THEN n ELSE granted[u]
  <2>1. /\ permit' = [permit EXCEPT ![u] = n] /\ granted' = [granted EXCEPT ![u] = g]
        /\ UNCHANGED <<wanted, seen>> /\ usage' = usage + (n - permit[u]) /\ permit[u] > 0
    BY <1>0, <1>2 DEF Resize
  <2>2. n \in 0 .. BudgetLimit /\ g \in 0 .. BudgetLimit /\ g <= n /\ g <= granted[u]
        /\ (g = n \/ g = granted[u])
    BY <1>0
  <2>. HIDE DEF g
  <2>3. /\ SumOf(permit) \in Nat /\ SumOf(Growth) \in Nat
        /\ SumOf(permit') \in Nat /\ SumOf(Growth)' \in Nat
        /\ SumOf(permit') = (SumOf(permit) - permit[u]) + n
        /\ SumOf(Growth)' = (SumOf(Growth) - (permit[u] - granted[u])) + (n - g)
    BY <2>1, <2>2, PermitChanged
  <2>4. permit[u] \in 0 .. BudgetLimit /\ granted[u] \in 0 .. BudgetLimit /\ granted[u] <= permit[u]
    BY <1>0
  <2>5. usage' = SumOf(permit')
    BY <1>0, <2>1, <2>2, <2>3, <2>4
  <2>6. usage' <= BudgetLimit + SumOf(Growth)'
    BY <1>0, <2>1, <2>2, <2>3, <2>4
  <2>7. BudgetTypeOK'
    <3>1. budgetCalls' \in 0 .. MaxBudgetCalls
      BY <1>0, <1>2 DEF Resize, BudgetCall
    <3>. QED BY <1>0, <2>1, <2>2, <2>3, <2>5, <3>1, BudgetTypesNext
  <2>8. \A v \in BudgetUsers : granted'[v] <= permit'[v]
             /\ (wanted'[v] > 0 => permit'[v] = 0 /\ seen'[v] + wanted'[v] <= BudgetLimit)
    BY <1>0, <2>1, <2>2
  <2>. QED BY <2>5, <2>6, <2>7, <2>8 DEF BudgetInv
<1>3. ASSUME NEW u \in BudgetUsers, ExchangeUsage(u)
      PROVE  BudgetInv'
  <2>1. /\ permit' = [permit EXCEPT ![u] = wanted[u]]
        /\ granted' = [granted EXCEPT ![u] = wanted[u]]
        /\ wanted' = [wanted EXCEPT ![u] = 0] /\ seen' = [seen EXCEPT ![u] = 0]
        /\ UNCHANGED budgetCalls
        /\ usage' = usage + wanted[u] /\ wanted[u] > 0 /\ usage = seen[u]
    BY <1>3 DEF ExchangeUsage
  <2>2. wanted[u] \in 0 .. BudgetLimit /\ wanted[u] <= wanted[u] /\ permit[u] = 0 /\ granted[u] = 0
        /\ seen[u] + wanted[u] <= BudgetLimit /\ seen[u] \in Nat
    BY <1>0, <2>1
  <2>3. /\ SumOf(permit') \in Nat /\ SumOf(Growth)' \in Nat
        /\ SumOf(permit') = (SumOf(permit) - permit[u]) + wanted[u]
    BY <2>1, <2>2, PermitChanged
  <2>4. usage' = SumOf(permit')
    BY <1>0, <2>1, <2>2, <2>3
  <2>5. usage' <= BudgetLimit + SumOf(Growth)'
    BY <2>1, <2>2, <2>3
  <2>6. BudgetTypeOK'
    BY <1>0, <2>1, <2>2, <2>3, <2>4, BudgetTypesNext
  <2>7. \A v \in BudgetUsers : granted'[v] <= permit'[v]
             /\ (wanted'[v] > 0 => permit'[v] = 0 /\ seen'[v] + wanted'[v] <= BudgetLimit)
    BY <1>0, <2>1, <2>2
  <2>. QED BY <2>4, <2>5, <2>6, <2>7 DEF BudgetInv
<1>4. ASSUME NEW u \in BudgetUsers, ReloadUsage(u)
      PROVE  BudgetInv'
  <2>1. UNCHANGED <<permit, granted, usage, budgetCalls>>
    BY <1>4 DEF ReloadUsage
  <2>2. BudgetTypeOK'
    BY <1>0, <1>4, <2>1, BudgetTypesNext DEF ReloadUsage
  <2>3. \A v \in BudgetUsers :
             wanted'[v] > 0 => permit'[v] = 0 /\ seen'[v] + wanted'[v] <= BudgetLimit
    BY <1>0, <1>4 DEF ReloadUsage
  <2>. QED BY <1>0, <2>1, <2>2, <2>3, PermitsUnchanged DEF BudgetInv
<1>5. ASSUME NEW u \in BudgetUsers, Release(u)
      PROVE  BudgetInv'
  <2>1. /\ permit' = [permit EXCEPT ![u] = 0] /\ granted' = [granted EXCEPT ![u] = 0]
        /\ UNCHANGED <<wanted, seen, budgetCalls>> /\ usage' = usage - permit[u] /\ permit[u] > 0
    BY <1>5 DEF Release
  <2>2. 0 \in 0 .. BudgetLimit /\ 0 <= 0
    OBVIOUS
  <2>3. /\ SumOf(permit) \in Nat /\ SumOf(Growth) \in Nat
        /\ SumOf(permit') \in Nat /\ SumOf(Growth)' \in Nat
        /\ SumOf(permit') = (SumOf(permit) - permit[u]) + 0
        /\ SumOf(Growth)' = (SumOf(Growth) - (permit[u] - granted[u])) + (0 - 0)
    BY <2>1, <2>2, PermitChanged
  <2>4. permit[u] \in 0 .. BudgetLimit /\ granted[u] \in 0 .. BudgetLimit /\ granted[u] <= permit[u]
    BY <1>0
  <2>5. usage' = SumOf(permit')
    BY <1>0, <2>1, <2>3, <2>4
  <2>6. usage' <= BudgetLimit + SumOf(Growth)'
    BY <1>0, <2>1, <2>3, <2>4
  <2>7. BudgetTypeOK'
    BY <1>0, <2>1, <2>3, <2>5, BudgetTypesNext
  <2>8. \A v \in BudgetUsers : granted'[v] <= permit'[v]
             /\ (wanted'[v] > 0 => permit'[v] = 0 /\ seen'[v] + wanted'[v] <= BudgetLimit)
    BY <1>0, <2>1
  <2>. QED BY <2>5, <2>6, <2>7, <2>8 DEF BudgetInv
<1>6. ASSUME UNCHANGED budgetVars
      PROVE  BudgetInv'
  <2>1. UNCHANGED <<permit, granted, usage, wanted, seen, budgetCalls>>
    BY <1>6 DEF budgetVars
  <2>. QED BY <1>0, <2>1, BudgetTypesNext, PermitsUnchanged DEF BudgetInv
<1>. QED BY <1>1, <1>2, <1>3, <1>4, <1>5, <1>6 DEF BudgetNext

(* The usage is what the permits hold and goes beyond the limit only by    *)
(* what permits were grown by, for any number of tasks and whatever races: *)
(* an allocation checks the limit and exchanges the usage it has checked   *)
(* (MemoryBudget::try_allocate, allocate, MemoryPermit::resize, drop).     *)
THEOREM BudgetIsKept == BudgetSpec => [](BudgetTypeOK /\ BudgetKept)
<1>1. BudgetInit => BudgetInv
  <2>. SUFFICES ASSUME BudgetInit PROVE BudgetInv
    OBVIOUS
  <2>. USE BudgetAssumption
  <2>1. /\ \A u \in BudgetUsers : permit[u] = 0 /\ granted[u] = 0 /\ wanted[u] = 0
        /\ usage = 0
    BY DEF BudgetInit, Nobody
  <2>2. \A u \in BudgetUsers : Growth[u] = 0
    BY <2>1 DEF Growth
  <2>3. SumOf(permit) = 0 /\ SumOf(Growth) = 0
    <3>1. SumOf(permit) = 0
      BY <2>1, CellsOfNothing DEF SumOf, Cells, Row
    <3>2. SumOf(Growth) = 0
      BY <2>2, CellsOfNothing DEF SumOf, Cells, Row
    <3>. QED BY <3>1, <3>2
  <2>4. BudgetTypeOK
    BY BudgetTypes DEF BudgetInit, Nobody
  <2>. QED BY <2>1, <2>3, <2>4 DEF BudgetInv
<1>2. BudgetInv /\ [BudgetNext]_budgetVars => BudgetInv'
  BY BudgetStep
<1>3. BudgetInv => BudgetTypeOK /\ BudgetKept
  BY DEF BudgetInv, BudgetKept, Growth
<1>. QED BY <1>1, <1>2, <1>3, PTL DEF BudgetSpec

(* --------------------------- the rate limiter -------------------------- *)

(* What a connection that sleeps is ahead by: its block, but for the time  *)
(* it has yet to sleep.                                                    *)
Lag == [c \in Connections |-> IF passing[c] > 0 THEN (passing[c] + now) - wake[c] ELSE 0]
LagSum == Cardinality(Cells(Connections, Lag))

(* The inductive invariant.  What has passed, what the sleepers are ahead  *)
(* by and what is left in the bucket come from the full buckets, from the  *)
(* time the bucket has booked and from the time each connection has slept. *)
RateInv ==
    /\ RateTypeOK /\ updated <= now
    /\ \A c \in Connections : passing[c] > 0 => wake[c] <= now + passing[c]
    /\ passed + LagSum + tokens <=
           BucketSize * (1 + renewals) + updated + Cardinality(Connections) * now

(* The type invariant, variable by variable; primed, below.                *)
LEMMA RateTypes ==
  /\ RateTypeOK <=>
        /\ now \in 0 .. MaxTime /\ updated \in 0 .. MaxTime /\ tokens \in 0 .. BucketSize
        /\ wake \in [Connections -> Nat] /\ passing \in [Connections -> Nat] /\ passed \in Nat
        /\ renewals \in 0 .. MaxLimitChanges
  /\ BucketSize \in Nat /\ MaxTime \in Nat /\ MaxLimitChanges \in Nat
BY RateAssumption DEF RateTypeOK

LEMMA RateTypesNext ==
  RateTypeOK' <=>
        /\ now' \in 0 .. MaxTime /\ updated' \in 0 .. MaxTime /\ tokens' \in 0 .. BucketSize
        /\ wake' \in [Connections -> Nat] /\ passing' \in [Connections -> Nat] /\ passed' \in Nat
        /\ renewals' \in 0 .. MaxLimitChanges
BY DEF RateTypeOK

(* A connection is ahead by a number of bytes; primed, below.              *)
LEMMA LagTyped ==
  ASSUME RateInv
  PROVE  Lag \in [Connections -> Nat] /\ LagSum \in Nat
<1>1. ASSUME NEW c \in Connections
      PROVE  (IF passing[c] > 0 THEN (passing[c] + now) - wake[c] ELSE 0) \in Nat
  <2>1. passing[c] \in Nat /\ wake[c] \in Nat /\ now \in Nat
        /\ (passing[c] > 0 => wake[c] <= now + passing[c])
    BY RateTypes DEF RateInv
  <2>. QED BY <2>1
<1>2. Lag \in [Connections -> Nat]
  BY <1>1 DEF Lag
<1>. QED BY <1>2, CellsFinite, RateAssumption DEF LagSum

(* The next state's part of the invariant that makes its lags numbers.     *)
LEMMA LagTypedNext ==
  ASSUME RateTypeOK', \A c \in Connections : passing'[c] > 0 => wake'[c] <= now' + passing'[c]
  PROVE  Lag' \in [Connections -> Nat] /\ LagSum' \in Nat
<1>1. ASSUME NEW c \in Connections
      PROVE  (IF passing'[c] > 0 THEN (passing'[c] + now') - wake'[c] ELSE 0) \in Nat
  <2>1. passing'[c] \in Nat /\ wake'[c] \in Nat /\ now' \in Nat
        /\ (passing'[c] > 0 => wake'[c] <= now' + passing'[c])
    BY RateTypesNext, RateTypes
  <2>. QED BY <2>1
<1>2. Lag' \in [Connections -> Nat]
  BY <1>1 DEF Lag
<1>3. IsFiniteSet(Cells(Connections, Lag')) /\ Cardinality(Cells(Connections, Lag')) \in Nat
  BY <1>2, CellsFinite, RateAssumption
<1>. QED BY <1>2, <1>3 DEF LagSum

(* What a change of one connection does to the sum.                        *)
LEMMA LagChanged ==
  ASSUME RateInv, NEW c \in Connections, Lag' \in [Connections -> Nat],
         \A d \in Connections : d # c => Lag'[d] = Lag[d]
  PROVE  LagSum' = (LagSum - Lag[c]) + Lag'[c]
<1>1. Lag \in [Connections -> Nat]
  BY LagTyped
<1>2. \A f, h \in [Connections -> Nat] :
          (\A d \in Connections : d # c => h[d] = f[d]) =>
              Cardinality(Cells(Connections, h)) =
                  (Cardinality(Cells(Connections, f)) - f[c]) + h[c]
  BY CellsExcept, RateAssumption
<1>3. Cardinality(Cells(Connections, Lag')) =
          (Cardinality(Cells(Connections, Lag)) - Lag[c]) + Lag'[c]
  BY <1>1, <1>2
<1>. QED BY <1>3 DEF LagSum

(* A refill, an acquisition, a wake-up or a tick keeps the invariant.      *)
LEMMA RateStep ==
  ASSUME RateInv, [RateNext]_rateVars
  PROVE  RateInv'
<1> DEFINE N == Cardinality(Connections)
           full == BucketSize * (1 + renewals)
<1>0. /\ now \in 0 .. MaxTime /\ updated \in 0 .. MaxTime /\ tokens \in 0 .. BucketSize
      /\ wake \in [Connections -> Nat] /\ passing \in [Connections -> Nat] /\ passed \in Nat
      /\ renewals \in 0 .. MaxLimitChanges
      /\ BucketSize \in Nat /\ MaxTime \in Nat /\ MaxLimitChanges \in Nat
      /\ updated <= now
      /\ \A c \in Connections : passing[c] > 0 => wake[c] <= now + passing[c]
  BY RateTypes DEF RateInv
<1>a. passed + LagSum + tokens <= full + updated + N * now
  BY DEF RateInv
<1>b. Lag \in [Connections -> Nat] /\ LagSum \in Nat
  BY LagTyped
<1>c. N \in Nat /\ full \in Nat /\ N * now \in Nat
  BY <1>0, FS_CardinalityType, RateAssumption
<1>d. BlockSizes \subseteq Nat \ {0}
  BY RateAssumption
<1>1. ASSUME NEW c \in Connections, Passes(c)
      PROVE  RateInv'
  <2>1. /\ passing[c] > 0 /\ wake[c] <= now /\ passed' = passed + passing[c]
        /\ passing' = [passing EXCEPT ![c] = 0] /\ wake' = [wake EXCEPT ![c] = 0]
        /\ UNCHANGED <<now, tokens, updated, renewals>>
    BY <1>1 DEF Passes
  <2>2. RateTypeOK'
    BY <1>0, <2>1, RateTypesNext
  <2>3. \A d \in Connections : passing'[d] > 0 => wake'[d] <= now' + passing'[d]
    BY <1>0, <2>1
  <2>4. Lag' \in [Connections -> Nat] /\ LagSum' \in Nat
    BY <2>2, <2>3, LagTypedNext
  <2>5. \A d \in Connections : d # c => Lag'[d] = Lag[d]
    BY <1>0, <2>1 DEF Lag
  <2>6. Lag'[c] = 0 /\ Lag[c] = (passing[c] + now) - wake[c]
    BY <1>0, <2>1 DEF Lag
  <2>7. LagSum' = (LagSum - Lag[c]) + Lag'[c]
    BY <2>4, <2>5, LagChanged
  <2>8. passed' + LagSum' + tokens' <= full + updated + N * now
    <3>1. passing[c] \in Nat /\ wake[c] \in Nat
      BY <1>0
    <3>. HIDE DEF full, N
    <3>2. LagSum' <= LagSum - passing[c]
      BY <1>0, <1>b, <2>1, <2>6, <2>7, <3>1
    <3>. QED BY <1>0, <1>a, <1>b, <1>c, <2>1, <2>4, <3>1, <3>2
  <2>. QED BY <1>0, <2>1, <2>2, <2>3, <2>8 DEF RateInv
<1>2. ASSUME NEW c \in Connections, NEW n \in BlockSizes, Acquire(c, n)
      PROVE  RateInv'
  <2>1. n \in Nat /\ n > 0
    BY <1>d
  <2>2. /\ Refilled \in 0 .. BucketSize /\ Refilled <= tokens + (now - updated)
    BY <1>0 DEF Refilled
  <2>3. passing[c] = 0 /\ updated' = now /\ UNCHANGED <<now, renewals>>
    BY <1>2 DEF Acquire
  <2>4. CASE Refilled >= n
    <3>1. tokens' = Refilled - n /\ passed' = passed + n /\ UNCHANGED <<wake, passing>>
      BY <1>2, <2>4 DEF Acquire
    <3>. HIDE DEF full, N
    <3>2. RateTypeOK'
      BY <1>0, <2>1, <2>2, <2>3, <2>4, <3>1, RateTypesNext
    <3>3. LagSum' = LagSum
      BY <2>3, <3>1 DEF LagSum, Lag
    <3>4. passed' + LagSum' + tokens' <= full + updated' + N * now'
      BY <1>0, <1>a, <1>b, <1>c, <2>1, <2>2, <2>3, <3>1, <3>3
    <3>. QED BY <1>0, <2>3, <3>1, <3>2, <3>4 DEF RateInv, full, N
  <2>5. CASE ~(Refilled >= n)
    <3>1. /\ tokens' = 0 /\ wake' = [wake EXCEPT ![c] = now + (n - Refilled)]
          /\ passing' = [passing EXCEPT ![c] = n] /\ UNCHANGED passed
      BY <1>2, <2>5 DEF Acquire
    <3>2. n - Refilled \in Nat
      BY <2>1, <2>2, <2>5, <1>0
    <3>3. RateTypeOK'
      BY <1>0, <2>1, <2>3, <3>1, <3>2, RateTypesNext
    <3>4. \A d \in Connections : passing'[d] > 0 => wake'[d] <= now' + passing'[d]
      BY <1>0, <2>1, <2>2, <2>3, <3>1, <3>2
    <3>5. Lag' \in [Connections -> Nat] /\ LagSum' \in Nat
      BY <3>3, <3>4, LagTypedNext
    <3>6. \A d \in Connections : d # c => Lag'[d] = Lag[d]
      BY <1>0, <2>3, <3>1 DEF Lag
    <3>7. passing'[c] = n /\ wake'[c] = now + (n - Refilled)
      BY <1>0, <3>1
    <3>8. Lag[c] = 0
      BY <2>3 DEF Lag
    <3>9. Lag'[c] = (n + now) - (now + (n - Refilled))
      BY <2>1, <2>3, <3>7 DEF Lag
    <3>10. Lag'[c] = Refilled
      BY <1>0, <2>1, <2>2, <3>9
    <3>11. LagSum' = (LagSum - Lag[c]) + Lag'[c]
      BY <3>5, <3>6, LagChanged
    <3>. HIDE DEF full, N
    <3>12. LagSum' = LagSum + Refilled
      BY <1>b, <2>2, <3>8, <3>10, <3>11
    <3>13. passed' + LagSum' + tokens' <= full + updated' + N * now'
      BY <1>0, <1>a, <1>b, <1>c, <2>2, <2>3, <3>1, <3>12
    <3>. QED BY <1>0, <2>3, <3>3, <3>4, <3>13 DEF RateInv, full, N
  <2>. QED BY <2>4, <2>5
<1>3. ASSUME ChangeLimit
      PROVE  RateInv'
  <2>1. /\ renewals < MaxLimitChanges /\ renewals' = renewals + 1
        /\ tokens' = BucketSize /\ updated' = now /\ UNCHANGED <<now, wake, passing, passed>>
    BY <1>3 DEF ChangeLimit
  <2>2. RateTypeOK'
    BY <1>0, <2>1, RateTypesNext
  <2>3. LagSum' = LagSum
    BY <2>1 DEF LagSum, Lag
  <2>4. BucketSize * (1 + renewals') = full + BucketSize
    BY <1>0, <2>1
  <2>. HIDE DEF full, N
  <2>5. passed' + LagSum' + tokens' <= (full + BucketSize) + updated' + N * now'
    BY <1>0, <1>a, <1>b, <1>c, <2>1, <2>3
  <2>6. updated' <= now' /\ \A d \in Connections : passing'[d] > 0 => wake'[d] <= now' + passing'[d]
    BY <1>0, <2>1
  <2>. QED BY <2>2, <2>4, <2>5, <2>6 DEF RateInv, N
<1>4. ASSUME Tick
      PROVE  RateInv'
  <2>1. now < MaxTime /\ now' = now + 1
        /\ UNCHANGED <<tokens, updated, wake, passing, passed, renewals>>
    BY <1>4 DEF Tick
  <2>2. RateTypeOK'
    BY <1>0, <2>1, RateTypesNext
  <2>3. \A d \in Connections : passing'[d] > 0 => wake'[d] <= now' + passing'[d]
    <3>1. SUFFICES ASSUME NEW d \in Connections, passing'[d] > 0
                   PROVE  wake'[d] <= now' + passing'[d]
      OBVIOUS
    <3>2. passing[d] \in Nat /\ wake[d] \in Nat /\ wake[d] <= now + passing[d]
      BY <1>0, <2>1, <3>1
    <3>. QED BY <1>0, <2>1, <3>2
  <2>4. Lag' \in [Connections -> Nat] /\ LagSum' \in Nat
    BY <2>2, <2>3, LagTypedNext
  <2>5. \A d \in Connections : Lag'[d] <= Lag[d] + 1
    <3>1. SUFFICES ASSUME NEW d \in Connections PROVE Lag'[d] <= Lag[d] + 1
      OBVIOUS
    <3>2. passing[d] \in Nat /\ wake[d] \in Nat
      BY <1>0
    <3>. QED BY <1>0, <2>1, <3>2 DEF Lag
  <2>6. \A f, h \in [Connections -> Nat] :
            (\A d \in Connections : h[d] <= f[d] + 1) =>
                Cardinality(Cells(Connections, h)) <=
                    Cardinality(Cells(Connections, f)) + Cardinality(Connections)
    BY CellsGrow, RateAssumption
  <2>7. Cardinality(Cells(Connections, Lag')) <= Cardinality(Cells(Connections, Lag)) + N
    BY <1>b, <2>4, <2>5, <2>6
  <2>8. LagSum' <= LagSum + N
    BY <2>7 DEF LagSum
  <2>9. N * now' = N * now + N
    BY <1>0, <1>c, <2>1
  <2>. HIDE DEF full, N
  <2>10. passed' + LagSum' + tokens' <= full + updated + N * now'
    <3> DEFINE before == N * now
               after == N * now'
    <3>1. passed + LagSum + tokens <= full + updated + before /\ before \in Nat
      BY <1>a, <1>c
    <3>2. after = before + N
      BY <2>9
    <3>3. N \in Nat /\ full \in Nat /\ passed \in Nat /\ tokens \in Nat /\ updated \in Nat
          /\ LagSum \in Nat
      BY <1>0, <1>b, <1>c
    <3>4. passed' = passed /\ tokens' = tokens
      BY <2>1
    <3>. HIDE DEF before, after
    <3>5. passed + LagSum' + tokens <= full + updated + after
      <4>1. \A p, l, m, t, f, u, b, n \in Nat :
                p + l + t <= f + u + b /\ m <= l + n => p + m + t <= f + u + (b + n)
        OBVIOUS
      <4>. QED BY <2>4, <2>8, <3>1, <3>2, <3>3, <4>1
    <3>. QED BY <3>4, <3>5 DEF after
  <2>. QED BY <1>0, <2>1, <2>2, <2>3, <2>10 DEF RateInv, full, N
<1>5. ASSUME UNCHANGED rateVars
      PROVE  RateInv'
  <2>1. UNCHANGED <<now, tokens, updated, wake, passing, passed, renewals>>
    BY <1>5 DEF rateVars
  <2>2. LagSum' = LagSum
    BY <2>1 DEF LagSum, Lag
  <2>3. RateTypeOK'
    BY <1>0, <2>1, RateTypesNext
  <2>. QED BY <1>0, <1>a, <2>1, <2>2, <2>3 DEF RateInv
<1>. QED BY <1>1, <1>2, <1>3, <1>4, <1>5 DEF RateNext

(* However many connections share a limit and whatever they pass, what has *)
(* passed is bounded by the full buckets and by one unit per tick for the  *)
(* bucket and for each connection, not by the limit alone: a sleep refills *)
(* the bucket too (BandwidthLimiter::acquire, TokenBucket::try_consume).   *)
THEOREM RateIsBounded == RateSpec => [](RateTypeOK /\ RateBounded)
<1>1. RateInit => RateInv
  <2>. SUFFICES ASSUME RateInit PROVE RateInv
    OBVIOUS
  <2>1. /\ now = 0 /\ tokens = BucketSize /\ updated = 0 /\ passed = 0 /\ renewals = 0
        /\ wake = [c \in Connections |-> 0] /\ passing = [c \in Connections |-> 0]
    BY DEF RateInit
  <2>2. RateTypeOK
    BY <2>1, RateTypes
  <2>3. LagSum = 0
    BY <2>1, CellsOfNothing DEF LagSum, Lag
  <2>4. Cardinality(Connections) * now = 0 /\ BucketSize * (1 + renewals) = BucketSize
    <3>1. Cardinality(Connections) \in Nat /\ BucketSize \in Nat
      BY RateTypes, FS_CardinalityType, RateAssumption
    <3>. QED BY <2>1, <3>1
  <2>5. \A c \in Connections : ~(passing[c] > 0)
    BY <2>1
  <2>6. BucketSize \in Nat
    BY RateTypes
  <2>. QED BY <2>1, <2>2, <2>3, <2>4, <2>5, <2>6 DEF RateInv
<1>2. RateInv /\ [RateNext]_rateVars => RateInv'
  BY RateStep
<1>3. RateInv => RateTypeOK /\ RateBounded
  <2>. SUFFICES ASSUME RateInv PROVE RateBounded
    BY DEF RateInv
  <2> DEFINE N == Cardinality(Connections)
             full == BucketSize * (1 + renewals)
  <2>1. /\ now \in 0 .. MaxTime /\ updated \in 0 .. MaxTime /\ tokens \in 0 .. BucketSize
        /\ passed \in Nat /\ renewals \in 0 .. MaxLimitChanges
        /\ BucketSize \in Nat /\ MaxTime \in Nat /\ MaxLimitChanges \in Nat
        /\ updated <= now
    BY RateTypes DEF RateInv
  <2>2. passed + LagSum + tokens <= full + updated + N * now
    BY DEF RateInv
  <2>3. N \in Nat /\ full \in Nat /\ N * now \in Nat /\ LagSum \in Nat
    BY <2>1, LagTyped, FS_CardinalityType, RateAssumption
  <2>4. (N + 1) * now = N * now + now
    BY <2>1, <2>3
  <2>. HIDE DEF N, full
  <2>5. passed <= full + (N * now + now)
    BY <2>1, <2>2, <2>3
  <2>. QED BY <2>4, <2>5 DEF RateBounded, N, full
<1>. QED BY <1>1, <1>2, <1>3, PTL DEF RateSpec

(* --------------------------- the block cache --------------------------- *)

DataOf == {"none", "right", "wrong"}
Stages == {"idle", "verify", "drop", "take", "store", "storing", "read", "keep"}

(* Without an entry there are no blocks and nothing hashed.                *)
EmptyWithout == ~entry => hashed = 0 /\ \A b \in Blocks : blocks[b] = "none"

(* The memory counted is that of the blocks, unless the caches are being   *)
(* cleared or were cleared while a block came.                             *)
MemoryIsBlocks ==
    clearing = "none" /\ ~miscounted => memoryUsed = Cardinality(Present)

(* As long as there is a hash state it has been fed as far as it can be,   *)
(* and what it calls right is, but for blocks replaced since.              *)
HashedFar ==
    entry /\ hasher # "none" /\ (\A b \in Blocks : blocks[b] # "none") => hashed = BlockCount
HashedRight ==
    entry /\ hasher = "right" =>
        \A b \in Blocks : b <= hashed => blocks[b] = "right" \/ b \in swapped

(* A task that was not overtaken finds all of the piece when it verifies   *)
(* it, and all of it right when it takes it, but for blocks replaced.      *)
CompletesWhole ==
    \A t \in CacheTasks : cacheTask[t] \in {"verify", "take"} /\ t \notin overtaken =>
        entry /\ \A b \in Blocks : blocks[b] # "none"
TakesRight ==
    \A t \in CacheTasks : cacheTask[t] = "take" /\ t \notin overtaken =>
        hashed = BlockCount /\ \A b \in Blocks : blocks[b] = "right" \/ b \in swapped

(* What a task has in hand to store, or to keep, and what is kept.         *)
StoresHashed ==
    \A t \in CacheTasks :
        /\ inHand[t] # "wrong"
        /\ cacheTask[t] \in {"store", "storing"} => inHand[t] \in {"right", "swapped", "overtaken"}
KeptRight ==
    /\ pieceData # "wrong" /\ diskData # "wrong" /\ diskData # "unchecked"
    /\ claimed => diskData \notin {"none", "half"}

Completions == HashedFar /\ HashedRight /\ CompletesWhole /\ TakesRight
CachingInv ==
    CachingTypeOK /\ EmptyWithout /\ MemoryIsBlocks /\ Completions /\ StoresHashed /\ KeptRight

(* The type invariant, variable by variable; primed, below.                *)
LEMMA CachingTypes ==
  /\ CachingTypeOK <=>
        /\ blocks \in [Blocks -> DataOf]
        /\ entry \in BOOLEAN /\ claimed \in BOOLEAN /\ miscounted \in BOOLEAN
        /\ hashed \in 0 .. BlockCount /\ hasher \in DataOf /\ memoryUsed \in Int
        /\ pieceData \in Data \cup {"none"} /\ diskData \in Data \cup {"none", "half"}
        /\ cacheTask \in [CacheTasks -> Stages] /\ inHand \in [CacheTasks -> Data \cup {"none"}]
        /\ swapped \subseteq Blocks /\ overtaken \subseteq CacheTasks
        /\ clearing \in {"none", "hashes", "memory"} /\ cacheOps \in 0 .. MaxCacheOps
  /\ BlockCount \in Nat /\ MaxCacheOps \in Nat
BY CachingAssumption DEF CachingTypeOK, DataOf, Stages

LEMMA CachingTypesNext ==
  CachingTypeOK' <=>
        /\ blocks' \in [Blocks -> DataOf]
        /\ entry' \in BOOLEAN /\ claimed' \in BOOLEAN /\ miscounted' \in BOOLEAN
        /\ hashed' \in 0 .. BlockCount /\ hasher' \in DataOf /\ memoryUsed' \in Int
        /\ pieceData' \in Data \cup {"none"} /\ diskData' \in Data \cup {"none", "half"}
        /\ cacheTask' \in [CacheTasks -> Stages] /\ inHand' \in [CacheTasks -> Data \cup {"none"}]
        /\ swapped' \subseteq Blocks /\ overtaken' \subseteq CacheTasks
        /\ clearing' \in {"none", "hashes", "memory"} /\ cacheOps' \in 0 .. MaxCacheOps
BY DEF CachingTypeOK, DataOf, Stages

(* The hashed prefix is what it is chosen as.                              *)
LEMMA PrefixChosen ==
  ASSUME NEW bs, NEW from \in 0 .. BlockCount
  PROVE  /\ Prefix(bs, from) \in from .. BlockCount
         /\ \A b \in from + 1 .. Prefix(bs, from) : bs[b] # "none"
         /\ Prefix(bs, from) < BlockCount => bs[Prefix(bs, from) + 1] = "none"
<1> DEFINE runs == {n \in from .. BlockCount : \A b \in from + 1 .. n : bs[b] # "none"}
<1>1. BlockCount \in Nat /\ from \in Int /\ BlockCount \in Int /\ from \in Nat
  BY CachingTypes
<1>2. IsFiniteSet(from .. BlockCount)
  BY <1>1, FS_Interval
<1>3. runs \in SUBSET (from .. BlockCount) /\ runs \in SUBSET Nat /\ from \in runs
  BY <1>1
<1>. HIDE DEF runs
<1>4. IsFiniteSet(runs)
  BY <1>2, <1>3, FS_Subset
<1>5. PICK n \in runs : \A k \in runs : k <= n
  BY <1>3, <1>4, Greatest
<1>6. n \in from .. BlockCount /\ \A b \in from + 1 .. n : bs[b] # "none"
  BY <1>5 DEF runs
<1>7. ASSUME n < BlockCount, bs[n + 1] # "none" PROVE FALSE
  <2>1. n + 1 \in from .. BlockCount
    BY <1>1, <1>6, <1>7
  <2>2. \A b \in from + 1 .. n + 1 : bs[b] # "none"
    <3>1. \A b \in from + 1 .. n + 1 : b \in from + 1 .. n \/ b = n + 1
      BY <1>1, <1>6
    <3>. QED BY <1>6, <1>7, <3>1
  <2>3. n + 1 \in runs
    BY <2>1, <2>2 DEF runs
  <2>. QED BY <1>1, <1>5, <1>6, <2>3
<1>. QED BY <1>6, <1>7 DEF Prefix

(* The blocks of the piece are finitely many.                              *)
LEMMA BlocksFinite == IsFiniteSet(Blocks)
<1>1. 1 \in Int /\ BlockCount \in Int
  BY CachingTypes
<1>. QED BY <1>1, FS_Interval DEF Blocks

(* What counting the blocks comes to when one is added, and without any.   *)
LEMMA PresentCounted ==
  ASSUME CachingTypeOK
  PROVE  /\ IsFiniteSet(Present) /\ Cardinality(Present) \in Nat
         /\ \A b \in Blocks :
                Cardinality(Present \cup {b}) =
                    IF b \in Present THEN Cardinality(Present) ELSE Cardinality(Present) + 1
<1>1. Present \in SUBSET Blocks
  BY DEF Present
<1>2. IsFiniteSet(Present)
  BY <1>1, BlocksFinite, FS_Subset
<1>. QED BY <1>2, FS_CardinalityType, FS_AddElement

(* RemovePiece leaves nothing, keeps the count, and overtakes the others   *)
(* that have found the piece complete.                                     *)
LEMMA PieceRemoved ==
  ASSUME CachingInv, NEW t \in CacheTasks, RemovePiece(t),
         UNCHANGED <<clearing, miscounted>>,
         cacheTask'[t] \notin {"verify", "take"},
         \A u \in CacheTasks : u # t => cacheTask'[u] = cacheTask[u]
  PROVE  /\ blocks' \in [Blocks -> DataOf] /\ entry' = FALSE /\ hashed' = 0 /\ hasher' = "none"
         /\ memoryUsed' \in Int /\ EmptyWithout' /\ MemoryIsBlocks' /\ Completions'
         /\ hashed' \in 0 .. BlockCount /\ swapped' \subseteq Blocks
         /\ overtaken' \subseteq CacheTasks
<1>1. CachingTypeOK /\ MemoryIsBlocks
  BY DEF CachingInv
<1>2. /\ blocks' = [b \in Blocks |-> "none"] /\ entry' = FALSE /\ hashed' = 0 /\ hasher' = "none"
      /\ memoryUsed' = memoryUsed - Cardinality(Present) /\ swapped' = {}
      /\ overtaken' = Completing \ {t}
  BY DEF RemovePiece
<1>3. Present' = {}
  BY <1>2 DEF Present
<1>4. Cardinality(Present') = 0
  BY <1>3, FS_EmptySet
<1>5. Cardinality(Present) \in Nat /\ memoryUsed \in Int /\ BlockCount \in Nat
  BY <1>1, PresentCounted, CachingTypes
<1>6. blocks' \in [Blocks -> DataOf]
  BY <1>2 DEF DataOf
<1>7. \A u \in CacheTasks : cacheTask'[u] \in {"verify", "take"} => u \in overtaken'
  BY <1>2 DEF Completing
<1>8. Completions'
  BY <1>2, <1>7 DEF Completions, HashedFar, HashedRight, CompletesWhole, TakesRight
<1>9. EmptyWithout' /\ MemoryIsBlocks'
  BY <1>1, <1>2, <1>4, <1>5 DEF EmptyWithout, MemoryIsBlocks
<1>10. overtaken' \subseteq CacheTasks
  BY <1>2 DEF Completing
<1>. QED BY <1>2, <1>5, <1>6, <1>8, <1>9, <1>10

(* A step that leaves the blocks alone and completes nothing.              *)
LEMMA BlocksUnchanged ==
  ASSUME CachingInv, UNCHANGED pieceVars, UNCHANGED clearVars,
         \A u \in CacheTasks :
             cacheTask'[u] \in {"verify", "take"} => cacheTask'[u] = cacheTask[u]
  PROVE  /\ blocks' \in [Blocks -> DataOf] /\ entry' \in BOOLEAN /\ miscounted' \in BOOLEAN
         /\ hashed' \in 0 .. BlockCount /\ hasher' \in DataOf /\ memoryUsed' \in Int
         /\ swapped' \subseteq Blocks /\ overtaken' \subseteq CacheTasks
         /\ clearing' \in {"none", "hashes", "memory"}
         /\ EmptyWithout' /\ MemoryIsBlocks' /\ Completions'
<1>1. UNCHANGED <<blocks, entry, hashed, hasher, memoryUsed, swapped, overtaken, clearing,
                  miscounted>>
  BY DEF pieceVars, clearVars
<1>2. CachingTypeOK /\ EmptyWithout /\ MemoryIsBlocks
  BY DEF CachingInv
<1>3. HashedFar /\ HashedRight /\ CompletesWhole /\ TakesRight
  BY DEF CachingInv, Completions
<1>4. EmptyWithout' /\ MemoryIsBlocks'
  BY <1>1, <1>2 DEF EmptyWithout, MemoryIsBlocks, Present
<1>5. HashedFar' /\ HashedRight'
  BY <1>1, <1>3 DEF HashedFar, HashedRight
<1>6. CompletesWhole' /\ TakesRight'
  BY <1>1, <1>3 DEF CompletesWhole, TakesRight
<1>. QED BY <1>1, <1>2, <1>4, <1>5, <1>6, CachingTypes DEF Completions

(* Every step of a task and of the clears keeps the cache's invariant.     *)
LEMMA CachingStep ==
  ASSUME CachingInv, [CachingNext]_cachingVars
  PROVE  CachingInv'
<1>0. /\ blocks \in [Blocks -> DataOf]
      /\ entry \in BOOLEAN /\ claimed \in BOOLEAN /\ miscounted \in BOOLEAN
      /\ hashed \in 0 .. BlockCount /\ hasher \in DataOf /\ memoryUsed \in Int
      /\ pieceData \in Data \cup {"none"} /\ diskData \in Data \cup {"none", "half"}
      /\ cacheTask \in [CacheTasks -> Stages] /\ inHand \in [CacheTasks -> Data \cup {"none"}]
      /\ swapped \subseteq Blocks /\ overtaken \subseteq CacheTasks
      /\ clearing \in {"none", "hashes", "memory"} /\ cacheOps \in 0 .. MaxCacheOps
      /\ BlockCount \in Nat /\ MaxCacheOps \in Nat
  BY CachingTypes DEF CachingInv
<1>a. CachingTypeOK /\ EmptyWithout /\ MemoryIsBlocks /\ StoresHashed /\ KeptRight
  BY DEF CachingInv
<1>b. HashedFar /\ HashedRight /\ CompletesWhole /\ TakesRight
  BY DEF CachingInv, Completions
<1>1. ASSUME NEW t \in CacheTasks, NEW b \in Blocks, NEW data \in {"right", "wrong"},
             AddBlock(t, b, data)
      PROVE  CachingInv'
  <2> DEFINE new == [blocks EXCEPT ![b] = data]
             complete == \A c \in Blocks : new[c] # "none"
             state == IF entry THEN hasher ELSE "right"
             n == Prefix(new, hashed)
  <2>1. /\ cacheTask[t] = "idle" /\ cacheOps < MaxCacheOps /\ cacheOps' = cacheOps + 1
        /\ entry' = TRUE /\ blocks' = new
        /\ memoryUsed' = memoryUsed + (IF blocks[b] = "none" THEN 1 ELSE 0)
        /\ AdvanceHash(new, state, hashed)
        /\ (IF complete THEN cacheTask' = [cacheTask EXCEPT ![t] = "verify"]
           ELSE UNCHANGED cacheTask)
        /\ swapped' = (IF b <= hashed /\ blocks[b] # data THEN swapped \cup {b} ELSE swapped)
        /\ UNCHANGED <<pieceData, diskData, inHand, clearing, miscounted, claimed, overtaken>>
    BY <1>1 DEF AddBlock, AddCounting, Goes, Operation, clearVars
  <2>2. new \in [Blocks -> DataOf] /\ new[b] = data /\ \A c \in Blocks : c # b => new[c] = blocks[c]
    BY <1>0 DEF DataOf
  <2>3. /\ n \in hashed .. BlockCount
        /\ \A c \in hashed + 1 .. n : new[c] # "none"
        /\ n < BlockCount => new[n + 1] = "none"
    BY <1>0, PrefixChosen
  <2>4. IF state = "none" THEN hashed' = hashed /\ hasher' = state
        ELSE hashed' = n /\ hasher' = IF \E c \in hashed + 1 .. n : new[c] = "wrong"
                                      THEN "wrong" ELSE state
    BY <2>1 DEF AdvanceHash
  <2>5. state \in DataOf
    BY <1>0 DEF DataOf
  <2>. HIDE DEF new, state, n
  <2>6. CachingTypeOK'
    <3>1. hashed' \in 0 .. BlockCount /\ hasher' \in DataOf
      BY <1>0, <2>3, <2>4, <2>5 DEF DataOf
    <3>2. memoryUsed' \in Int /\ cacheOps' \in 0 .. MaxCacheOps
      BY <1>0, <2>1
    <3>3. cacheTask' \in [CacheTasks -> Stages]
      BY <1>0, <2>1 DEF Stages
    <3>4. swapped' \subseteq Blocks
      BY <1>0, <2>1
    <3>. QED BY <1>0, <2>1, <2>2, <3>1, <3>2, <3>3, <3>4, CachingTypesNext
  <2>7. EmptyWithout'
    BY <2>1 DEF EmptyWithout
  <2>8. MemoryIsBlocks'
    <3>1. Present' = Present \cup {b}
      BY <2>1, <2>2 DEF Present
    <3>2. b \in Present <=> blocks[b] # "none"
      BY DEF Present
    <3>3. Cardinality(Present') =
              IF blocks[b] # "none" THEN Cardinality(Present) ELSE Cardinality(Present) + 1
      BY <1>a, <3>1, <3>2, PresentCounted
    <3>4. Cardinality(Present) \in Nat
      BY <1>a, PresentCounted
    <3>. QED BY <1>a, <2>1, <3>3, <3>4 DEF MemoryIsBlocks
  <2>9. complete => n = BlockCount
    <3>1. n \in Int /\ n >= 0
      BY <1>0, <2>3
    <3>2. n < BlockCount => n + 1 \in Blocks
      BY <1>0, <3>1 DEF Blocks
    <3>. QED BY <1>0, <2>3, <3>1, <3>2
  <2>10. Completions'
    <3>1. HashedFar'
      BY <2>1, <2>4, <2>9 DEF HashedFar
    <3>2. HashedRight'
      <4>1. SUFFICES ASSUME hasher' = "right", NEW c \in Blocks, c <= hashed'
                     PROVE  new[c] = "right" \/ c \in swapped'
        BY <2>1 DEF HashedRight
      <4>2. state = "right" /\ hashed' = n /\ ~ \E d \in hashed + 1 .. n : new[d] = "wrong"
        BY <2>4, <4>1
      <4>3. CASE c <= hashed
        <5>1. c \in Nat /\ c > 0
          BY <1>0 DEF Blocks
        <5>2. entry /\ hasher = "right"
          BY <1>0, <1>a, <4>2, <4>3, <5>1 DEF EmptyWithout, state
        <5>3. blocks[c] = "right" \/ c \in swapped
          BY <1>b, <4>3, <5>2 DEF HashedRight
        <5>. QED BY <2>1, <2>2, <4>3, <5>3
      <4>4. CASE ~(c <= hashed)
        <5>1. c \in hashed + 1 .. n
          BY <1>0, <2>3, <4>1, <4>2, <4>4 DEF Blocks
        <5>. QED BY <2>2, <2>3, <4>2, <5>1 DEF DataOf
      <4>. QED BY <4>3, <4>4
    <3>3. ASSUME \A c \in Blocks : blocks[c] # "none" PROVE complete
      BY <2>2, <3>3
    <3>4. CompletesWhole'
      <4>1. SUFFICES ASSUME NEW u \in CacheTasks, cacheTask'[u] \in {"verify", "take"},
                            u \notin overtaken
                     PROVE  complete
        BY <2>1 DEF CompletesWhole
      <4>. QED BY <1>0, <1>b, <2>1, <3>3, <4>1 DEF CompletesWhole
    <3>5. TakesRight'
      <4>1. SUFFICES ASSUME NEW u \in CacheTasks, cacheTask'[u] = "take", u \notin overtaken
                     PROVE  hashed' = BlockCount
                            /\ \A c \in Blocks : new[c] = "right" \/ c \in swapped'
        BY <2>1 DEF TakesRight
      <4>2. cacheTask[u] = "take"
        BY <1>0, <2>1, <4>1
      <4>3. /\ hashed = BlockCount /\ complete
            /\ \A c \in Blocks : blocks[c] = "right" \/ c \in swapped
        BY <1>b, <3>3, <4>1, <4>2 DEF TakesRight, CompletesWhole
      <4>4. hashed' = BlockCount
        BY <2>4, <2>9, <4>3
      <4>5. b <= hashed
        BY <1>0, <4>3 DEF Blocks
      <4>. QED BY <2>1, <2>2, <4>3, <4>4, <4>5
    <3>. QED BY <3>1, <3>2, <3>4, <3>5 DEF Completions
  <2>11. StoresHashed' /\ KeptRight'
    <3>1. \A u \in CacheTasks : cacheTask'[u] \in {"store", "storing"} => cacheTask'[u] = cacheTask[u]
      BY <1>0, <2>1
    <3>. QED BY <1>a, <2>1, <3>1 DEF StoresHashed, KeptRight
  <2>. QED BY <2>6, <2>7, <2>8, <2>10, <2>11 DEF CachingInv
<1>2. ASSUME NEW t \in CacheTasks, Verify(t)
      PROVE  CachingInv'
  <2>1. /\ cacheTask[t] = "verify"
        /\ UNCHANGED <<blocks, entry, memoryUsed, swapped, overtaken, pieceData, diskData, inHand,
                       clearing, miscounted, claimed, cacheOps>>
    BY <1>2 DEF Verify, clearVars
  <2>2. \/ /\ cacheTask' = [cacheTask EXCEPT ![t] = "drop"] /\ UNCHANGED <<hashed, hasher>>
        \/ /\ hashed' = (IF ~entry \/ hasher = "none" THEN hashed ELSE BlockCount)
           /\ hasher' = "none"
           /\ cacheTask' = [cacheTask EXCEPT ![t] = IF hasher = "right" THEN "take" ELSE "drop"]
    BY <1>2 DEF Verify, Goes
  <2>3. CachingTypeOK'
    <3>1. hashed' \in 0 .. BlockCount /\ hasher' \in DataOf
      BY <1>0, <2>2 DEF DataOf
    <3>2. cacheTask' \in [CacheTasks -> Stages]
      BY <1>0, <2>2 DEF Stages
    <3>. QED BY <1>0, <2>1, <3>1, <3>2, CachingTypesNext
  <2>4. EmptyWithout' /\ MemoryIsBlocks'
    BY <1>a, <2>1, <2>2 DEF EmptyWithout, MemoryIsBlocks, Present
  <2>5. HashedFar' /\ HashedRight'
    BY <1>b, <2>1, <2>2 DEF HashedFar, HashedRight
  <2>6. \A u \in CacheTasks : u # t => cacheTask'[u] = cacheTask[u]
    BY <1>0, <2>2
  <2>7. \/ cacheTask'[t] = "drop"
        \/ /\ cacheTask'[t] = "take" /\ hasher = "right"
           /\ hashed' = (IF ~entry \/ hasher = "none" THEN hashed ELSE BlockCount)
    <3>1. CASE hasher = "right"
      BY <1>0, <2>2, <3>1
    <3>2. CASE hasher # "right"
      BY <1>0, <2>2, <3>2
    <3>. QED BY <3>1, <3>2
  <2>8. CompletesWhole'
    BY <1>b, <2>1, <2>6, <2>7 DEF CompletesWhole
  <2>9. TakesRight'
    <3>1. SUFFICES ASSUME NEW u \in CacheTasks, cacheTask'[u] = "take", u \notin overtaken
                   PROVE  hashed' = BlockCount
                          /\ \A c \in Blocks : blocks[c] = "right" \/ c \in swapped
      BY <2>1 DEF TakesRight
    <3>2. CASE u # t
      <4>1. hashed = BlockCount /\ \A c \in Blocks : blocks[c] = "right" \/ c \in swapped
        BY <1>b, <2>6, <3>1, <3>2 DEF TakesRight
      <4>. QED BY <2>2, <4>1
    <3>3. CASE u = t
      <4>1. hasher = "right" /\ entry /\ \A c \in Blocks : blocks[c] # "none"
        BY <1>b, <2>1, <2>7, <3>1, <3>3 DEF CompletesWhole
      <4>2. hashed = BlockCount /\ hashed' = BlockCount
        BY <1>b, <2>7, <3>1, <3>3, <4>1 DEF HashedFar
      <4>3. \A c \in Blocks : c <= hashed
        BY <1>0, <4>2 DEF Blocks
      <4>. QED BY <1>b, <4>1, <4>2, <4>3 DEF HashedRight
    <3>. QED BY <3>2, <3>3
  <2>10. StoresHashed' /\ KeptRight'
    BY <1>a, <2>1, <2>6, <2>7 DEF StoresHashed, KeptRight
  <2>. QED BY <2>3, <2>4, <2>5, <2>8, <2>9, <2>10 DEF CachingInv, Completions
<1>3. ASSUME NEW t \in CacheTasks, Drop(t)
      PROVE  CachingInv'
  <2>1. /\ cacheTask[t] = "drop" /\ RemovePiece(t) /\ cacheTask' = [cacheTask EXCEPT ![t] = "idle"]
        /\ UNCHANGED <<pieceData, diskData, inHand, clearing, miscounted, claimed, cacheOps>>
    BY <1>3 DEF Drop, Goes, clearVars
  <2>2. cacheTask'[t] = "idle" /\ \A u \in CacheTasks : u # t => cacheTask'[u] = cacheTask[u]
    BY <1>0, <2>1
  <2>3. /\ blocks' \in [Blocks -> DataOf] /\ entry' = FALSE /\ hasher' = "none"
        /\ memoryUsed' \in Int /\ EmptyWithout' /\ MemoryIsBlocks' /\ Completions'
        /\ hashed' \in 0 .. BlockCount /\ swapped' \subseteq Blocks
        /\ overtaken' \subseteq CacheTasks
    BY <2>1, <2>2, PieceRemoved
  <2>4. cacheTask' \in [CacheTasks -> Stages]
    BY <1>0, <2>1 DEF Stages
  <2>5. CachingTypeOK'
    BY <1>0, <2>1, <2>3, <2>4, CachingTypesNext DEF DataOf
  <2>6. StoresHashed' /\ KeptRight'
    BY <1>a, <2>1, <2>2 DEF StoresHashed, KeptRight
  <2>. QED BY <2>3, <2>5, <2>6 DEF CachingInv
<1>4. ASSUME NEW t \in CacheTasks, TakePiece(t)
      PROVE  CachingInv'
  <2>1. /\ cacheTask[t] = "take" /\ RemovePiece(t)
        /\ UNCHANGED <<diskData, clearing, miscounted, cacheOps>>
        /\ IF entry
           THEN /\ pieceData' = Taken(t) /\ inHand' = [inHand EXCEPT ![t] = Taken(t)]
                /\ cacheTask' = [cacheTask EXCEPT ![t] = "store"] /\ UNCHANGED claimed
           ELSE /\ cacheTask' = [cacheTask EXCEPT ![t] = "idle"]
                /\ claimed' = (claimed \/ t \notin overtaken) /\ UNCHANGED <<pieceData, inHand>>
    BY <1>4 DEF TakePiece, Goes, clearVars
  <2>2. /\ cacheTask'[t] \in {"idle", "store"} /\ (~entry => cacheTask'[t] = "idle")
        /\ \A u \in CacheTasks : u # t => cacheTask'[u] = cacheTask[u]
    BY <1>0, <2>1
  <2>3. /\ blocks' \in [Blocks -> DataOf] /\ entry' = FALSE /\ hasher' = "none"
        /\ memoryUsed' \in Int /\ EmptyWithout' /\ MemoryIsBlocks' /\ Completions'
        /\ hashed' \in 0 .. BlockCount /\ swapped' \subseteq Blocks
        /\ overtaken' \subseteq CacheTasks
    BY <2>1, <2>2, PieceRemoved
  <2>4. Taken(t) \in {"right", "swapped", "overtaken"}
    <3>1. SUFFICES ASSUME t \notin overtaken PROVE Whole /\ Wrong \subseteq swapped
      BY DEF Taken
    <3>2. /\ \A b \in Blocks : blocks[b] # "none"
          /\ \A b \in Blocks : blocks[b] = "right" \/ b \in swapped
      BY <1>b, <2>1, <3>1 DEF CompletesWhole, TakesRight
    <3>. QED BY <3>2 DEF Whole, Present, Wrong
  <2>5. UNCHANGED claimed
    <3>1. ~entry => t \in overtaken
      BY <1>b, <2>1 DEF CompletesWhole
    <3>. QED BY <1>0, <2>1, <3>1
  <2>6. CachingTypeOK'
    <3>1. cacheTask' \in [CacheTasks -> Stages]
      BY <1>0, <2>1 DEF Stages
    <3>2. pieceData' \in Data \cup {"none"} /\ inHand' \in [CacheTasks -> Data \cup {"none"}]
      BY <1>0, <2>1, <2>4 DEF Data
    <3>. QED BY <1>0, <2>1, <2>3, <2>5, <3>1, <3>2, CachingTypesNext DEF DataOf
  <2>7. StoresHashed'
    <3>1. \A u \in CacheTasks : u # t => inHand'[u] = inHand[u]
      BY <1>0, <2>1
    <3>2. IF entry THEN inHand'[t] = Taken(t) ELSE inHand'[t] = inHand[t]
      BY <1>0, <2>1
    <3>3. inHand'[t] # "wrong"
          /\ (cacheTask'[t] = "store" => inHand'[t] \in {"right", "swapped", "overtaken"})
      BY <1>a, <2>2, <2>4, <3>2 DEF StoresHashed
    <3>. QED BY <1>a, <2>2, <3>1, <3>3 DEF StoresHashed
  <2>8. KeptRight'
    BY <1>a, <2>1, <2>4, <2>5 DEF KeptRight
  <2>. QED BY <2>3, <2>6, <2>7, <2>8 DEF CachingInv
<1>5. ASSUME NEW t \in CacheTasks, StoreBegins(t)
      PROVE  CachingInv'
  <2>1. /\ cacheTask[t] = "store" /\ cacheTask' = [cacheTask EXCEPT ![t] = "storing"]
        /\ diskData' = (IF inHand[t] # "right" THEN inHand[t]
                        ELSE IF diskData = "none" THEN "half" ELSE diskData)
        /\ UNCHANGED pieceVars /\ UNCHANGED clearVars
        /\ UNCHANGED <<pieceData, inHand, claimed, cacheOps>>
    BY <1>5 DEF StoreBegins, Goes
  <2>2. cacheTask'[t] = "storing" /\ \A u \in CacheTasks : u # t => cacheTask'[u] = cacheTask[u]
    BY <1>0, <2>1
  <2>3. inHand[t] \in {"right", "swapped", "overtaken"}
    BY <1>a, <2>1 DEF StoresHashed
  <2>4. KeptRight' /\ StoresHashed'
    BY <1>a, <2>1, <2>2, <2>3 DEF KeptRight, StoresHashed
  <2>5. cacheTask' \in [CacheTasks -> Stages] /\ diskData' \in Data \cup {"none", "half"}
    BY <1>0, <2>1, <2>3 DEF Stages, Data
  <2>. QED BY <1>0, <2>1, <2>2, <2>4, <2>5, BlocksUnchanged, CachingTypesNext DEF CachingInv
<1>6. ASSUME NEW t \in CacheTasks, StoreEnds(t)
      PROVE  CachingInv'
  <2>1. /\ cacheTask[t] = "storing" /\ cacheTask' = [cacheTask EXCEPT ![t] = "idle"]
        /\ \/ \E u \in CacheTasks :
                 cacheTask[u] = "storing" /\ diskData' = inHand[u] /\ claimed' = TRUE
           \/ UNCHANGED <<diskData, claimed>>
        /\ inHand' = [inHand EXCEPT ![t] = "none"]
        /\ UNCHANGED pieceVars /\ UNCHANGED clearVars /\ UNCHANGED <<pieceData, cacheOps>>
    BY <1>6 DEF StoreEnds, Goes
  <2>2. cacheTask'[t] = "idle" /\ \A u \in CacheTasks : u # t => cacheTask'[u] = cacheTask[u]
    BY <1>0, <2>1
  <2>3. \/ diskData' \in {"right", "swapped", "overtaken"} /\ claimed' = TRUE
        \/ UNCHANGED <<diskData, claimed>>
    BY <1>a, <2>1 DEF StoresHashed
  <2>4. KeptRight'
    BY <1>a, <2>1, <2>3 DEF KeptRight
  <2>5. StoresHashed'
    <3>1. inHand'[t] = "none" /\ \A u \in CacheTasks : u # t => inHand'[u] = inHand[u]
      BY <1>0, <2>1
    <3>. QED BY <1>a, <2>2, <3>1 DEF StoresHashed
  <2>6. /\ cacheTask' \in [CacheTasks -> Stages] /\ diskData' \in Data \cup {"none", "half"}
        /\ claimed' \in BOOLEAN /\ inHand' \in [CacheTasks -> Data \cup {"none"}]
    BY <1>0, <2>1, <2>3 DEF Stages, Data
  <2>. QED BY <1>0, <2>1, <2>2, <2>4, <2>5, <2>6, BlocksUnchanged, CachingTypesNext DEF CachingInv
<1>7. ASSUME EvictPiece
      PROVE  CachingInv'
  <2>1. /\ pieceData' = "none" /\ cacheOps < MaxCacheOps /\ cacheOps' = cacheOps + 1
        /\ UNCHANGED pieceVars /\ UNCHANGED clearVars
        /\ UNCHANGED <<diskData, cacheTask, inHand, claimed>>
    BY <1>7 DEF EvictPiece, Operation
  <2>2. StoresHashed' /\ KeptRight'
    BY <1>a, <2>1 DEF StoresHashed, KeptRight
  <2>3. cacheOps' \in 0 .. MaxCacheOps
    BY <1>0, <2>1
  <2>. QED BY <1>0, <2>1, <2>2, <2>3, BlocksUnchanged, CachingTypesNext DEF CachingInv
<1>8. ASSUME NEW t \in CacheTasks, ReadPiece(t) \/ ReadFromDisk(t) \/ KeepPiece(t)
      PROVE  CachingInv'
  <2>1. /\ UNCHANGED pieceVars /\ UNCHANGED clearVars /\ UNCHANGED <<diskData, claimed>>
        /\ cacheOps' \in 0 .. MaxCacheOps
        /\ \/ cacheTask' = [cacheTask EXCEPT ![t] = "read"] /\ UNCHANGED <<pieceData, inHand>>
           \/ cacheTask' = [cacheTask EXCEPT ![t] = "idle"] /\ UNCHANGED <<pieceData, inHand>>
           \/ /\ cacheTask' = [cacheTask EXCEPT ![t] = "keep"] /\ UNCHANGED pieceData
              /\ inHand' = [inHand EXCEPT ![t] = IF diskData \in {"none", "half"} THEN "unchecked"
                                                 ELSE diskData]
           \/ /\ cacheTask' = [cacheTask EXCEPT ![t] = "idle"]
              /\ pieceData' = inHand[t] /\ inHand' = [inHand EXCEPT ![t] = "none"]
    <3>1. CASE ReadPiece(t)
      BY <1>0, <3>1 DEF ReadPiece, Goes, Operation
    <3>2. CASE ReadFromDisk(t)
      BY <1>0, <3>2 DEF ReadFromDisk, Goes
    <3>3. CASE KeepPiece(t)
      BY <1>0, <3>3 DEF KeepPiece, Goes
    <3>. QED BY <1>8, <3>1, <3>2, <3>3
  <2>2. /\ cacheTask'[t] \in {"read", "idle", "keep"}
        /\ \A u \in CacheTasks : u # t => cacheTask'[u] = cacheTask[u]
        /\ cacheTask' \in [CacheTasks -> Stages]
    BY <1>0, <2>1 DEF Stages
  <2>3. /\ pieceData' \in {pieceData, inHand[t]}
        /\ inHand'[t] \in {inHand[t], "none", "unchecked", diskData}
        /\ \A u \in CacheTasks : u # t => inHand'[u] = inHand[u]
    BY <1>0, <2>1
  <2>4. StoresHashed' /\ KeptRight'
    BY <1>a, <2>1, <2>2, <2>3 DEF StoresHashed, KeptRight
  <2>5. pieceData' \in Data \cup {"none"}
    BY <1>0, <2>3
  <2>6. inHand' \in [CacheTasks -> Data \cup {"none"}]
    BY <1>0, <2>1 DEF Data
  <2>. QED BY <1>0, <2>1, <2>2, <2>4, <2>5, <2>6, BlocksUnchanged, CachingTypesNext DEF CachingInv
<1>9. ASSUME ClearPieces
      PROVE  CachingInv'
  <2>1. /\ cacheOps < MaxCacheOps /\ cacheOps' = cacheOps + 1 /\ clearing' = "hashes"
        /\ blocks' = [b \in Blocks |-> "none"] /\ entry' = FALSE /\ hashed' = 0 /\ swapped' = {}
        /\ hasher' = (IF hasher = "right" /\ hashed < BlockCount THEN "wrong" ELSE hasher)
        /\ overtaken' = Completing
        /\ UNCHANGED <<memoryUsed, pieceData, diskData, cacheTask, inHand, claimed, miscounted>>
    BY <1>9 DEF ClearPieces, Operation
  <2>2. CachingTypeOK'
    <3>1. cacheOps' \in 0 .. MaxCacheOps /\ hashed' \in 0 .. BlockCount
      BY <1>0, <2>1
    <3>2. blocks' \in [Blocks -> DataOf] /\ hasher' \in DataOf
      BY <1>0, <2>1 DEF DataOf
    <3>3. swapped' \subseteq Blocks /\ overtaken' \subseteq CacheTasks
      BY <2>1 DEF Completing
    <3>. QED BY <1>0, <2>1, <3>1, <3>2, <3>3, CachingTypesNext
  <2>3. EmptyWithout' /\ MemoryIsBlocks'
    BY <2>1 DEF EmptyWithout, MemoryIsBlocks
  <2>4. \A u \in CacheTasks : cacheTask'[u] \in {"verify", "take"} => u \in overtaken'
    BY <2>1 DEF Completing
  <2>5. Completions'
    BY <2>1, <2>4 DEF Completions, HashedFar, HashedRight, CompletesWhole, TakesRight
  <2>6. StoresHashed' /\ KeptRight'
    BY <1>a, <2>1 DEF StoresHashed, KeptRight
  <2>. QED BY <2>2, <2>3, <2>5, <2>6 DEF CachingInv
<1>10. ASSUME ClearHashes
       PROVE  CachingInv'
  <2>1. /\ clearing = "hashes" /\ clearing' = "memory" /\ hasher' = "none"
        /\ UNCHANGED <<blocks, entry, hashed, memoryUsed, swapped, overtaken, pieceData, diskData,
                       cacheTask, inHand, claimed, miscounted, cacheOps>>
    BY <1>10 DEF ClearHashes
  <2>2. CachingTypeOK'
    BY <1>0, <2>1, CachingTypesNext DEF DataOf
  <2>3. EmptyWithout' /\ MemoryIsBlocks'
    BY <1>a, <2>1 DEF EmptyWithout, MemoryIsBlocks
  <2>4. Completions'
    BY <1>b, <2>1 DEF Completions, HashedFar, HashedRight, CompletesWhole, TakesRight
  <2>5. StoresHashed' /\ KeptRight'
    BY <1>a, <2>1 DEF StoresHashed, KeptRight
  <2>. QED BY <2>2, <2>3, <2>4, <2>5 DEF CachingInv
<1>11. ASSUME ClearMemory
       PROVE  CachingInv'
  <2>1. /\ clearing = "memory" /\ clearing' = "none" /\ memoryUsed' = 0 /\ pieceData' = "none"
        /\ miscounted' = entry
        /\ UNCHANGED <<blocks, entry, hashed, hasher, swapped, overtaken, diskData, cacheTask,
                       inHand, claimed, cacheOps>>
    BY <1>11 DEF ClearMemory
  <2>2. CachingTypeOK'
    <3>1. miscounted' \in BOOLEAN
      BY <1>0, <2>1, Zenon
    <3>. QED BY <1>0, <2>1, <3>1, CachingTypesNext DEF DataOf
  <2>3. EmptyWithout'
    BY <1>a, <2>1 DEF EmptyWithout
  <2>4. MemoryIsBlocks'
    <3>1. SUFFICES ASSUME ~entry PROVE Cardinality(Present') = 0
      BY <2>1 DEF MemoryIsBlocks
    <3>2. \A b \in Blocks : blocks'[b] = "none"
      BY <1>a, <2>1, <3>1 DEF EmptyWithout
    <3>3. Present' = {}
      BY <3>2 DEF Present
    <3>. QED BY <3>3, FS_EmptySet
  <2>5. Completions'
    BY <1>b, <2>1 DEF Completions, HashedFar, HashedRight, CompletesWhole, TakesRight
  <2>6. StoresHashed' /\ KeptRight'
    BY <1>a, <2>1 DEF StoresHashed, KeptRight
  <2>. QED BY <2>2, <2>3, <2>4, <2>5, <2>6 DEF CachingInv
<1>12. ASSUME UNCHANGED cachingVars
       PROVE  CachingInv'
  <2>1. UNCHANGED pieceVars /\ UNCHANGED clearVars
        /\ UNCHANGED <<pieceData, diskData, cacheTask, inHand, claimed, cacheOps>>
    BY <1>12 DEF cachingVars, pieceVars, clearVars
  <2>2. StoresHashed' /\ KeptRight'
    BY <1>a, <2>1 DEF StoresHashed, KeptRight
  <2>. QED BY <1>0, <2>1, <2>2, BlocksUnchanged, CachingTypesNext DEF CachingInv
<1>. QED BY <1>1, <1>2, <1>3, <1>4, <1>5, <1>6, <1>7, <1>8, <1>9, <1>10, <1>11, <1>12
     DEF CachingNext

(* For pieces of any number of blocks and any number of tasks, data that   *)
(* has failed its hash is never kept or written: what is wrong and kept    *)
(* had a block replaced after it was hashed, was taken by a task whose     *)
(* piece another had removed, or was read before the piece was on the disk *)
(* (and then never written); a piece is claimed valid only when it is on   *)
(* the disk, but for a task overtaken; and the memory counted is that of   *)
(* the blocks (CachingDiskManager::write_block and read_piece,             *)
(* BlockCache::add_block, finalize_and_verify, remove_piece, clear).       *)
THEOREM OnlyVerifiedIsStored == CachingSpec => [](CachingTypeOK /\ OnlyVerifiedStored)
<1>1. CachingInit => CachingInv
  <2>. SUFFICES ASSUME CachingInit PROVE CachingInv
    OBVIOUS
  <2>1. /\ blocks = [b \in Blocks |-> "none"] /\ entry = FALSE /\ hashed = 0 /\ hasher = "none"
        /\ memoryUsed = 0 /\ pieceData = "none" /\ diskData = "none"
        /\ cacheTask = [t \in CacheTasks |-> "idle"] /\ inHand = [t \in CacheTasks |-> "none"]
        /\ clearing = "none" /\ claimed = FALSE /\ miscounted = FALSE
        /\ swapped = {} /\ overtaken = {} /\ cacheOps = 0
    BY DEF CachingInit
  <2>2. CachingTypeOK
    <3>1. blocks \in [Blocks -> DataOf] /\ cacheTask \in [CacheTasks -> Stages]
          /\ inHand \in [CacheTasks -> Data \cup {"none"}]
      BY <2>1 DEF DataOf, Stages
    <3>2. hashed \in 0 .. BlockCount /\ cacheOps \in 0 .. MaxCacheOps
      BY <2>1, CachingTypes
    <3>3. entry \in BOOLEAN /\ claimed \in BOOLEAN /\ miscounted \in BOOLEAN
      <4>1. entry = FALSE /\ claimed = FALSE /\ miscounted = FALSE
        BY <2>1
      <4>. QED BY <4>1
    <3>4. memoryUsed \in Int /\ clearing \in {"none", "hashes", "memory"}
      BY <2>1
    <3>5. hasher \in DataOf /\ pieceData \in Data \cup {"none"}
          /\ diskData \in Data \cup {"none", "half"}
      BY <2>1 DEF DataOf
    <3>6. swapped \subseteq Blocks /\ overtaken \subseteq CacheTasks
      BY <2>1
    <3>. QED BY <3>1, <3>2, <3>3, <3>4, <3>5, <3>6, CachingTypes
  <2>3. Present = {}
    BY <2>1 DEF Present
  <2>4. EmptyWithout /\ MemoryIsBlocks
    BY <2>1, <2>3, FS_EmptySet DEF EmptyWithout, MemoryIsBlocks
  <2>5. Completions
    BY <2>1 DEF Completions, HashedFar, HashedRight, CompletesWhole, TakesRight
  <2>6. StoresHashed /\ KeptRight
    BY <2>1 DEF StoresHashed, KeptRight
  <2>. QED BY <2>2, <2>4, <2>5, <2>6 DEF CachingInv
<1>2. CachingInv /\ [CachingNext]_cachingVars => CachingInv'
  BY CachingStep
<1>3. CachingInv => CachingTypeOK /\ OnlyVerifiedStored
  BY DEF CachingInv, MemoryIsBlocks, KeptRight, OnlyVerifiedStored
<1>. QED BY <1>1, <1>2, <1>3, PTL DEF CachingSpec

(* --------------------- the lists of whole pieces ----------------------- *)

(* Lists of keys, none twice.                                              *)
KeyLists == {list \in Seq(CacheKeys) : IsInjective(list)}
Calls == {NoCall} \cup [at : CacheStages, key : CacheKeys, to : {"t1", "t2"}]

(* What the lists hold and what is on its way into one.                    *)
Bound == (IF Capacity = 0 THEN 1 ELSE Capacity) + overlapped
ListsInv ==
    /\ ListsTypeOK
    /\ held = Len(t1) + Len(t2) + Cardinality(CallsAt("promoted"))
              - Cardinality(CallsAt("count")) + twice
    /\ Len(t1) + Len(t2) + Cardinality(CallsAt("promoted")) + Cardinality(CallsAt("put")) <= Bound

(* The type invariant, variable by variable; primed, below.                *)
LEMMA ListsTypes ==
  ListsTypeOK <=>
    /\ t1 \in KeyLists /\ t2 \in KeyLists /\ b1 \in KeyLists /\ b2 \in KeyLists
    /\ target \in 0 .. Capacity /\ held \in Int /\ call \in [CacheUsers -> Calls]
    /\ twice \in Nat /\ overlapped \in Nat /\ cacheCalls \in 0 .. MaxCacheCalls
BY DEF ListsTypeOK, KeyLists, Calls

LEMMA ListsTypesNext ==
  ListsTypeOK' <=>
    /\ t1' \in KeyLists /\ t2' \in KeyLists /\ b1' \in KeyLists /\ b2' \in KeyLists
    /\ target' \in 0 .. Capacity /\ held' \in Int /\ call' \in [CacheUsers -> Calls]
    /\ twice' \in Nat /\ overlapped' \in Nat /\ cacheCalls' \in 0 .. MaxCacheCalls
BY DEF ListsTypeOK, KeyLists, Calls

(* One list after another.                                                 *)
LEMMA Joined ==
  ASSUME NEW S, NEW a \in Seq(S), NEW b \in Seq(S)
  PROVE  /\ a \o b \in Seq(S) /\ Len(a \o b) = Len(a) + Len(b)
         /\ \A j \in 1 .. Len(a) + Len(b) :
                (a \o b)[j] = IF j <= Len(a) THEN a[j] ELSE b[j - Len(a)]
OBVIOUS

(* What the operations on a list do to it.                                 *)
LEMMA KeyListLength == \A list \in KeyLists : Len(list) \in Nat
BY DEF KeyLists

(* A key leaves its list where it is found first, which is everywhere.     *)
LEMMA KeyLeaves ==
  ASSUME NEW list \in KeyLists, NEW k
  PROVE  /\ RemoveFirst(list, k) \in KeyLists
         /\ Len(RemoveFirst(list, k)) = IF Has(list, k) THEN Len(list) - 1 ELSE Len(list)
         /\ ~Has(RemoveFirst(list, k), k)
<1>1. list \in Seq(CacheKeys) /\ IsInjective(list) /\ Len(list) \in Nat
  BY DEF KeyLists
<1>2. CASE ~Has(list, k)
  <2>1. RemoveFirst(list, k) = list
    BY ONLY <1>2 DEF RemoveFirst, Has, Contains
  <2>. QED BY <1>2, <2>1
<1>3. CASE Has(list, k)
  <2>1. PICK i \in 1 .. Len(list) : list[i] = k
    BY <1>3 DEF Has, Contains
  <2>2. \A j \in 1 .. Len(list) : list[j] = k => j = i
    BY <1>1, <2>1 DEF IsInjective
  <2> DEFINE places == {j \in 1 .. Len(list) : list[j] = k}
             rest == RemoveFirst(list, k)
  <2>3. places = {i}
    BY <2>1, <2>2
  <2>4. Min({i}) = i
    BY DEF Min
  <2>5. rest = RemoveAt(list, IF places # {} THEN Min(places) ELSE 0)
    BY ONLY <2>1 DEF RemoveFirst, SelectInSeq
  <2>6. rest = SubSeq(list, 1, i - 1) \o SubSeq(list, i + 1, Len(list))
    BY <2>3, <2>4, <2>5 DEF RemoveAt
  <2>. HIDE DEF places, rest
  <2>7. /\ rest \in Seq(CacheKeys) /\ Len(rest) = Len(list) - 1
        /\ \A j \in 1 .. Len(rest) : rest[j] = IF j < i THEN list[j] ELSE list[j + 1]
    <3> DEFINE front == SubSeq(list, 1, i - 1)
               back == SubSeq(list, i + 1, Len(list))
    <3>1. /\ front \in Seq(CacheKeys) /\ Len(front) = i - 1
          /\ \A j \in 1 .. i - 1 : front[j] = list[j]
      BY <1>1
    <3>2. /\ back \in Seq(CacheKeys) /\ Len(back) = Len(list) - i
          /\ \A j \in 1 .. Len(list) - i : back[j] = list[i + j]
      BY <1>1
    <3>3. rest = front \o back
      BY <2>6
    <3>. HIDE DEF front, back
    <3>4. /\ rest \in Seq(CacheKeys) /\ Len(rest) = Len(front) + Len(back)
          /\ \A j \in 1 .. Len(front) + Len(back) :
                 rest[j] = IF j <= Len(front) THEN front[j] ELSE back[j - Len(front)]
      BY ONLY <3>1, <3>2, <3>3, Joined
    <3>5. Len(rest) = Len(list) - 1
      BY <1>1, <3>1, <3>2, <3>4
    <3>6. ASSUME NEW j \in 1 .. Len(rest)
          PROVE  rest[j] = IF j < i THEN list[j] ELSE list[j + 1]
      <4>1. CASE j < i
        BY <1>1, <3>1, <3>2, <3>4, <4>1
      <4>2. CASE ~(j < i)
        <5>1. j - (i - 1) \in 1 .. Len(list) - i /\ i + (j - (i - 1)) = j + 1
          BY <1>1, <3>5, <4>2
        <5>2. rest[j] = back[j - (i - 1)]
          BY <1>1, <3>1, <3>2, <3>4, <4>2
        <5>. QED BY <3>2, <4>2, <5>1, <5>2
      <4>. QED BY <4>1, <4>2
    <3>. QED BY <3>4, <3>5, <3>6
  <2>8. \A j \in 1 .. Len(rest) : j \in 1 .. Len(list) /\ j + 1 \in 1 .. Len(list)
    BY <1>1, <2>7
  <2>9. IsInjective(rest)
    <3>1. SUFFICES ASSUME NEW j \in 1 .. Len(rest), NEW m \in 1 .. Len(rest), rest[j] = rest[m]
                   PROVE  j = m
      BY <2>7 DEF IsInjective
    <3> DEFINE Old(n) == IF n < i THEN n ELSE n + 1
    <3>2. \A n \in 1 .. Len(rest) : Old(n) \in 1 .. Len(list) /\ rest[n] = list[Old(n)]
      BY <2>7, <2>8
    <3>3. Old(j) \in 1 .. Len(list) /\ Old(m) \in 1 .. Len(list) /\ list[Old(j)] = list[Old(m)]
      BY <3>1, <3>2
    <3>4. Old(j) = Old(m)
      <4>. HIDE DEF Old
      <4>. QED BY <1>1, <3>3 DEF IsInjective
    <3>. QED BY <3>4
  <2>10. ~Has(rest, k)
    BY <2>1, <2>2, <2>7, <2>8 DEF Has, Contains
  <2>. QED BY <1>3, <2>7, <2>9, <2>10 DEF rest, KeyLists
<1>. QED BY <1>2, <1>3

(* A key that the list has not is appended.                                *)
LEMMA KeyComes ==
  ASSUME NEW list \in KeyLists, NEW k \in CacheKeys, ~Has(list, k)
  PROVE  Append(list, k) \in KeyLists /\ Len(Append(list, k)) = Len(list) + 1
<1>1. list \in Seq(CacheKeys) /\ IsInjective(list) /\ Len(list) \in Nat
  BY DEF KeyLists
<1>2. /\ Append(list, k) \in Seq(CacheKeys) /\ Len(Append(list, k)) = Len(list) + 1
      /\ \A j \in 1 .. Len(list) + 1 :
             Append(list, k)[j] = IF j = Len(list) + 1 THEN k ELSE list[j]
  BY <1>1
<1>3. \A j \in 1 .. Len(list) : list[j] # k
  BY DEF Has, Contains
<1>4. \A j \in 1 .. Len(list) + 1 : j # Len(list) + 1 => j \in 1 .. Len(list)
  BY <1>1
<1>5. IsInjective(Append(list, k))
  BY <1>1, <1>2, <1>3, <1>4 DEF IsInjective
<1>. QED BY <1>2, <1>5 DEF KeyLists

(* A list that has the key already stays.                                  *)
LEMMA KeyAdded ==
  ASSUME NEW list \in KeyLists, NEW k \in CacheKeys
  PROVE  /\ Added(list, k) \in KeyLists
         /\ Len(Added(list, k)) = IF Has(list, k) THEN Len(list) ELSE Len(list) + 1
BY KeyComes DEF Added

(* A key that is used goes to the end.                                     *)
LEMMA KeyRenewed ==
  ASSUME NEW list \in KeyLists, NEW k \in CacheKeys, Has(list, k)
  PROVE  Renewed(list, k) \in KeyLists /\ Len(Renewed(list, k)) = Len(list)
<1>1. /\ RemoveFirst(list, k) \in KeyLists /\ ~Has(RemoveFirst(list, k), k)
      /\ Len(RemoveFirst(list, k)) = Len(list) - 1 /\ Len(list) \in Nat
  BY KeyLeaves DEF KeyLists
<1>2. /\ Renewed(list, k) \in KeyLists
      /\ Len(Renewed(list, k)) = Len(RemoveFirst(list, k)) + 1
  BY <1>1, KeyComes DEF Renewed
<1>. QED BY <1>1, <1>2

(* The least recently used leaves.                                         *)
LEMMA KeyPopped ==
  ASSUME NEW list \in KeyLists
  PROVE  /\ Popped(list) \in KeyLists
         /\ Len(Popped(list)) = IF list = <<>> THEN 0 ELSE Len(list) - 1
         /\ list = <<>> => Len(list) = 0
         /\ list # <<>> => Len(list) > 0 /\ Head(list) \in CacheKeys
<1>1. list \in Seq(CacheKeys) /\ IsInjective(list) /\ Len(list) \in Nat
  BY DEF KeyLists
<1>2. CASE list = <<>>
  BY <1>2 DEF Popped
<1>3. CASE list # <<>>
  <2>1. /\ Tail(list) \in Seq(CacheKeys) /\ Len(Tail(list)) = Len(list) - 1
        /\ \A j \in 1 .. Len(list) - 1 : Tail(list)[j] = list[j + 1]
        /\ Len(list) > 0 /\ Head(list) \in CacheKeys
    BY <1>1, <1>3
  <2>2. \A j \in 1 .. Len(list) - 1 : j + 1 \in 1 .. Len(list) /\ j \in Nat
    BY <1>1, <2>1
  <2>3. IsInjective(Tail(list))
    BY <1>1, <2>1, <2>2 DEF IsInjective
  <2>. QED BY <1>3, <2>1, <2>3 DEF Popped, KeyLists
<1>. QED BY <1>2, <1>3

(* A call that comes to another stage is counted there.                    *)
Moves(u, c) == call' = [call EXCEPT ![u] = c]
(* A call that moves from one stage to another is one less there and one   *)
(* more here.                                                              *)
LEMMA CallMoves ==
  ASSUME call \in [CacheUsers -> Calls], NEW u \in CacheUsers, NEW c \in Calls, Moves(u, c), NEW at
  PROVE  /\ call' \in [CacheUsers -> Calls]
         /\ Cardinality(CallsAt(at)) \in Nat /\ Cardinality(CallsAt(at)') \in Nat
         /\ call[u].at = at => Cardinality(CallsAt(at)) > 0
         /\ Cardinality(CallsAt(at)') =
                Cardinality(CallsAt(at)) - (IF call[u].at = at THEN 1 ELSE 0)
                                         + (IF c.at = at THEN 1 ELSE 0)
<1>. USE DEF Moves
<1>1. /\ CallsAt(at)' = IF c.at = at THEN CallsAt(at) \cup {u} ELSE CallsAt(at) \ {u}
      /\ u \in CallsAt(at) <=> call[u].at = at
      /\ CallsAt(at) \in SUBSET CacheUsers
  BY DEF CallsAt
<1>2. IsFiniteSet(CallsAt(at))
  BY <1>1, ListsAssumption, FS_Subset
<1>3. /\ Cardinality(CallsAt(at)) \in Nat
      /\ Cardinality(CallsAt(at) \cup {u}) =
             IF u \in CallsAt(at) THEN Cardinality(CallsAt(at)) ELSE Cardinality(CallsAt(at)) + 1
      /\ Cardinality(CallsAt(at) \ {u}) =
             IF u \in CallsAt(at) THEN Cardinality(CallsAt(at)) - 1 ELSE Cardinality(CallsAt(at))
      /\ Cardinality(CallsAt(at) \ {u}) \in Nat
  BY <1>2, FS_CardinalityType, FS_AddElement, FS_RemoveElement
<1>4. call' \in [CacheUsers -> Calls]
  OBVIOUS
<1>. QED BY <1>1, <1>3, <1>4

(* What enters a list was on its way into it, and room was made for it or  *)
(* it was counted as overlapped.                                           *)
LEMMA ListsStep == ListsInv /\ [ListsNext]_listVars => ListsInv'
<1>. SUFFICES ASSUME ListsInv, [ListsNext]_listVars PROVE ListsInv'
  OBVIOUS
<1>. DEFINE pd == Cardinality(CallsAt("promoted"))
            pt == Cardinality(CallsAt("put"))
            ct == Cardinality(CallsAt("count"))
            room == IF Capacity = 0 THEN 1 ELSE Capacity
<1>1. /\ t1 \in KeyLists /\ t2 \in KeyLists /\ b1 \in KeyLists /\ b2 \in KeyLists
      /\ target \in 0 .. Capacity /\ held \in Int /\ call \in [CacheUsers -> Calls]
      /\ twice \in Nat /\ overlapped \in Nat /\ cacheCalls \in 0 .. MaxCacheCalls
  BY ListsTypes DEF ListsInv
<1>2. held = Len(t1) + Len(t2) + pd - ct + twice /\ Len(t1) + Len(t2) + pd + pt <= room + overlapped
  BY DEF ListsInv, Bound
<1>3. Len(t1) \in Nat /\ Len(t2) \in Nat /\ Len(b1) \in Nat /\ Len(b2) \in Nat
  BY <1>1 DEF KeyLists
<1>numbers. held \in Int /\ twice \in Nat /\ overlapped \in Nat
  BY <1>1
<1>4. Capacity \in Nat /\ MaxCacheCalls \in Nat /\ room \in Nat
  BY ListsAssumption
<1>5. /\ NoCall \in Calls /\ NoCall.at = "none"
      /\ \A at \in CacheStages, k \in CacheKeys, to \in {"t1", "t2"} :
            /\ [at |-> at, key |-> k, to |-> to] \in Calls
            /\ [at |-> at, key |-> k, to |-> to].at = at
  BY DEF Calls, NoCall
<1>6. pd \in Nat /\ pt \in Nat /\ ct \in Nat
  <2>1. \A at : CallsAt(at) \in SUBSET CacheUsers
    BY DEF CallsAt
  <2>2. \A at : IsFiniteSet(CallsAt(at))
    BY <2>1, ListsAssumption, FS_Subset
  <2>. QED BY <2>2, FS_CardinalityType
<1>7. ASSUME call' = call PROVE pd' = pd /\ pt' = pt /\ ct' = ct
  BY <1>7 DEF CallsAt
<1>8. ASSUME NEW u \in CacheUsers, NEW from, call[u].at = from, NEW to,
             \/ Return(u) /\ to = "none"
             \/ /\ to \in CacheStages
                /\ \E k \in CacheKeys, list \in {"t1", "t2"} : Continue(u, to, k, list)
      PROVE  /\ call' \in [CacheUsers -> Calls]
             /\ pd' \in Nat /\ pt' \in Nat /\ ct' \in Nat
             /\ from = "promoted" => pd > 0
             /\ pd' = pd - (IF from = "promoted" THEN 1 ELSE 0) + (IF to = "promoted" THEN 1 ELSE 0)
             /\ pt' = pt - (IF from = "put" THEN 1 ELSE 0) + (IF to = "put" THEN 1 ELSE 0)
             /\ ct' = ct - (IF from = "count" THEN 1 ELSE 0) + (IF to = "count" THEN 1 ELSE 0)
  <2>1. PICK c \in Calls : c.at = to /\ Moves(u, c)
    BY <1>5, <1>8 DEF Continue, Return, Moves
  <2>. HIDE DEF pd, pt, ct
  <2>5. call \in [CacheUsers -> Calls] /\ Moves(u, c)
    BY ONLY <1>1, <2>1
  <2>2. /\ call' \in [CacheUsers -> Calls]
        /\ pd' \in Nat /\ (from = "promoted" => pd > 0)
        /\ pd' = pd - (IF from = "promoted" THEN 1 ELSE 0) + (IF to = "promoted" THEN 1 ELSE 0)
    BY ONLY <1>8, <2>1, <2>5, u \in CacheUsers, c \in Calls, CallMoves DEF pd
  <2>3. /\ pt' \in Nat
        /\ pt' = pt - (IF from = "put" THEN 1 ELSE 0) + (IF to = "put" THEN 1 ELSE 0)
    BY ONLY <1>8, <2>1, <2>5, u \in CacheUsers, c \in Calls, CallMoves DEF pt
  <2>4. /\ ct' \in Nat
        /\ ct' = ct - (IF from = "count" THEN 1 ELSE 0) + (IF to = "count" THEN 1 ELSE 0)
    BY ONLY <1>8, <2>1, <2>5, u \in CacheUsers, c \in Calls, CallMoves DEF ct
  <2>. QED BY <2>2, <2>3, <2>4
<1>returns. ASSUME NEW u \in CacheUsers, Return(u)
       PROVE  /\ call' \in [CacheUsers -> Calls]
              /\ pd' \in Nat /\ pt' \in Nat /\ ct' \in Nat
              /\ pd' = pd - (IF call[u].at = "promoted" THEN 1 ELSE 0)
              /\ pt' = pt - (IF call[u].at = "put" THEN 1 ELSE 0)
              /\ ct' = ct - (IF call[u].at = "count" THEN 1 ELSE 0)
  <2>1. \A to : to = "none" =>
            /\ call' \in [CacheUsers -> Calls]
            /\ pd' \in Nat /\ pt' \in Nat /\ ct' \in Nat
            /\ pd' = pd - (IF call[u].at = "promoted" THEN 1 ELSE 0) + (IF to = "promoted" THEN 1 ELSE 0)
            /\ pt' = pt - (IF call[u].at = "put" THEN 1 ELSE 0) + (IF to = "put" THEN 1 ELSE 0)
            /\ ct' = ct - (IF call[u].at = "count" THEN 1 ELSE 0) + (IF to = "count" THEN 1 ELSE 0)
    BY ONLY <1>8, <1>returns, u \in CacheUsers
  <2>. QED BY ONLY <1>6, <2>1
<1>9. \A u \in CacheUsers : call[u].at # "none" => call[u].key \in CacheKeys /\ call[u].to \in {"t1", "t2"}
  BY <1>1 DEF Calls, NoCall
<1>10. ASSUME /\ t1' \in KeyLists /\ t2' \in KeyLists /\ b1' \in KeyLists /\ b2' \in KeyLists
              /\ target' \in 0 .. Capacity /\ call' \in [CacheUsers -> Calls]
              /\ twice' \in Nat /\ overlapped' \in Nat /\ cacheCalls' \in 0 .. MaxCacheCalls,
              pd' \in Nat, pt' \in Nat, ct' \in Nat,
              held' = Len(t1') + Len(t2') + pd' - ct' + twice',
              Len(t1') + Len(t2') + pd' + pt' <= room + overlapped'
       PROVE  ListsInv'
  <2>1. Len(t1') \in Nat /\ Len(t2') \in Nat
    BY ONLY <1>10, KeyListLength
  <2>2. held' \in Int
    BY <1>10, <2>1
  <2>3. ListsTypeOK'
    BY <1>10, <2>2, ListsTypesNext
  <2>. QED BY <1>10, <2>3 DEF ListsInv, Bound
<1>. HIDE DEF pd, pt, ct, room
<1>11. ASSUME NEW u \in CacheUsers, Calling(u)
       PROVE  call[u] = NoCall /\ cacheCalls' \in 0 .. MaxCacheCalls
  BY <1>1, <1>4, <1>11 DEF Calling
<1>12. ASSUME NEW u \in CacheUsers, NEW k \in CacheKeys, Get(u, k) PROVE ListsInv'
  <2>1. t2' \in KeyLists /\ Len(t2') = Len(t2)
    BY <1>1, <1>12, KeyRenewed DEF Get
  <2>2. UNCHANGED <<t1, b1, b2, target, held, twice, overlapped>>
    BY <1>12 DEF Get
  <2>3. call[u] = NoCall /\ cacheCalls' \in 0 .. MaxCacheCalls
    BY <1>11, <1>12 DEF Get
  <2>4. CASE Has(t1, k)
    <3>1. Continue(u, "promote", k, "t2")
      BY <1>12, <2>4 DEF Get
    <3>2. call' \in [CacheUsers -> Calls] /\ pd' = pd /\ pt' = pt /\ ct' = ct
      <4>1. "promote" \in CacheStages
        BY DEF CacheStages
      <4>. QED BY ONLY <1>5, <1>6, <1>8, <2>3, <3>1, <4>1, u \in CacheUsers, k \in CacheKeys
    <3>. QED BY <1>1, <1>2, <1>6, <1>10, <2>1, <2>2, <2>3, <3>2
  <2>5. CASE ~Has(t1, k)
    <3>1. call' = call
      BY <1>12, <2>5 DEF Get
    <3>. QED BY <1>1, <1>2, <1>6, <1>7, <1>10, <2>1, <2>2, <2>3, <3>1
  <2>. QED BY <2>4, <2>5
<1>13. ASSUME NEW u \in CacheUsers, Promote(u) PROVE ListsInv'
  <2> DEFINE k == call[u].key
  <2>1. call[u].at = "promote" /\ UNCHANGED <<t2, b1, b2, target, held, twice, overlapped, cacheCalls>>
    BY <1>13 DEF Promote
  <2>2. k \in CacheKeys
    BY <1>9, <2>1
  <2>3. CASE Has(t1, k)
    <3>1. t1' = RemoveFirst(t1, k)
          /\ Continue(u, "promoted", k, "t2")
      BY <1>13, <2>3 DEF Promote
    <3>2. t1' \in KeyLists /\ Len(t1') = Len(t1) - 1
      BY <1>1, <2>3, <3>1, KeyLeaves
    <3>3. call' \in [CacheUsers -> Calls] /\ pd' = pd + 1 /\ pt' = pt /\ ct' = ct
      <4>1. "promoted" \in CacheStages
        BY DEF CacheStages, Entering
      <4>. QED BY ONLY <1>5, <1>6, <1>8, <2>1, <2>2, <3>1, <4>1, u \in CacheUsers
    <3>. QED BY <1>1, <1>2, <1>3, <1>6, <1>10, <2>1, <3>2, <3>3
  <2>4. CASE ~Has(t1, k)
    <3>1. UNCHANGED t1 /\ Return(u)
      BY <1>13, <2>4 DEF Promote
    <3>2. call' \in [CacheUsers -> Calls] /\ pd' = pd /\ pt' = pt /\ ct' = ct
      BY ONLY <1>6, <1>returns, <2>1, <3>1, u \in CacheUsers
    <3>. QED BY <1>1, <1>2, <1>6, <1>10, <2>1, <3>1, <3>2
  <2>. QED BY <2>3, <2>4
<1>14. ASSUME NEW u \in CacheUsers, Promoted(u) PROVE ListsInv'
  <2> DEFINE k == call[u].key
  <2>1. /\ call[u].at = "promoted" /\ t2' = Added(t2, k)
        /\ twice' = IF Has(t2, k) THEN twice + 1 ELSE twice
        /\ Return(u)
        /\ UNCHANGED <<t1, b1, b2, target, held, overlapped, cacheCalls>>
    BY <1>14 DEF Promoted
  <2>2. k \in CacheKeys
    BY <1>9, <2>1
  <2>3. t2' \in KeyLists /\ Len(t2') = IF Has(t2, k) THEN Len(t2) ELSE Len(t2) + 1
    BY <1>1, <2>1, <2>2, KeyAdded
  <2>4. /\ call' \in [CacheUsers -> Calls] /\ pd' = pd - 1 /\ pd' \in Nat
        /\ pt' = pt /\ ct' = ct
    BY ONLY <1>6, <1>returns, <2>1, u \in CacheUsers
  <2>. QED BY <1>1, <1>2, <1>3, <1>4, <1>6, <1>10, <2>1, <2>3, <2>4
<1>15. ASSUME NEW u \in CacheUsers, NEW k \in CacheKeys, InsertGhost(u, k) PROVE ListsInv'
  <2>1. /\ UNCHANGED <<t1, t2, held, twice>> /\ Meets(u)
        /\ Continue(u, Victim(target', ~Has(b1, k)), k, "t2")
    BY <1>15 DEF InsertGhost
  <2>2. call[u] = NoCall /\ cacheCalls' \in 0 .. MaxCacheCalls
    BY <1>11, <1>15 DEF InsertGhost
  <2>3. b1' \in KeyLists /\ b2' \in KeyLists
    BY <1>1, <1>15, KeyLeaves DEF InsertGhost
  <2>4. target' \in 0 .. Capacity
    <3>1. \A n \in Int : Clamp(n) \in 0 .. Capacity
      BY <1>4 DEF Clamp
    <3>2. \A m, n \in Nat : Delta(m, n) \in Int
      <4>1. SUFFICES ASSUME NEW m \in Nat, NEW n \in Nat PROVE Delta(m, n) \in Int
        OBVIOUS
      <4>2. (IF m = 0 THEN 1 ELSE m) \in Nat \ {0}
        OBVIOUS
      <4>3. \A d \in Nat \ {0} : n \div d \in Int
        OBVIOUS
      <4>. QED BY <4>2, <4>3 DEF Delta
    <3>3. Len(RemoveFirst(b1, k)) \in Nat /\ Len(RemoveFirst(b2, k)) \in Nat
      BY <1>1, KeyLeaves DEF KeyLists
    <3>4. \/ target' = Clamp(target + Delta(Len(RemoveFirst(b1, k)), Len(b2)))
          \/ target' = Clamp(target - Delta(Len(RemoveFirst(b2, k)), Len(b1)))
      BY <1>15 DEF InsertGhost
    <3>5. target \in Int
      BY <1>1, <1>4
    <3>6. CASE target' = Clamp(target + Delta(Len(RemoveFirst(b1, k)), Len(b2)))
      <4>1. Delta(Len(RemoveFirst(b1, k)), Len(b2)) \in Int
        BY ONLY <1>3, <3>2, <3>3
      <4>2. target + Delta(Len(RemoveFirst(b1, k)), Len(b2)) \in Int
        BY ONLY <3>5, <4>1
      <4>. QED BY ONLY <3>1, <3>6, <4>2
    <3>7. CASE target' = Clamp(target - Delta(Len(RemoveFirst(b2, k)), Len(b1)))
      <4>1. Delta(Len(RemoveFirst(b2, k)), Len(b1)) \in Int
        BY ONLY <1>3, <3>2, <3>3
      <4>2. target - Delta(Len(RemoveFirst(b2, k)), Len(b1)) \in Int
        BY ONLY <3>5, <4>1
      <4>. QED BY ONLY <3>1, <3>7, <4>2
    <3>. QED BY ONLY <3>4, <3>6, <3>7
  <2>5. Victim(target', ~Has(b1, k)) \in {"replaceT1", "replaceT2"}
    BY DEF Victim
  <2>6. call' \in [CacheUsers -> Calls] /\ pd' = pd /\ pt' = pt /\ ct' = ct
    <3>1. PICK at \in {"replaceT1", "replaceT2"} : at = Victim(target', ~Has(b1, k))
      BY <2>5
    <3>2. at \in CacheStages
      BY DEF CacheStages, Entering
    <3>3. Continue(u, at, k, "t2")
      BY ONLY <2>1, <3>1
    <3>. QED BY ONLY <1>5, <1>6, <1>8, <2>2, <3>2, <3>3, u \in CacheUsers, k \in CacheKeys,
                     at \in {"replaceT1", "replaceT2"}
  <2>7. overlapped' \in Nat /\ overlapped' >= overlapped
    BY <1>1, <2>1 DEF Meets
  <2>8. /\ t1' = t1 /\ t2' = t2 /\ held' = held /\ twice' = twice
        /\ held' = Len(t1') + Len(t2') + pd' - ct' + twice'
    BY ONLY <1>2, <2>1, <2>6
  <2>9. Len(t1') + Len(t2') + pd' + pt' <= room + overlapped'
    BY ONLY <1>2, <1>3, <1>4, <1>6, <1>numbers, <2>6, <2>7, <2>8
  <2>. QED BY ONLY <1>1, <1>6, <1>10, <2>2, <2>3, <2>4, <2>6, <2>7, <2>8, <2>9
<1>16. ASSUME NEW u \in CacheUsers, NEW k \in CacheKeys, MakeRoom(u, k) PROVE ListsInv'
  <2> DEFINE total == Len(t1) + Len(t2) + Len(b1) + Len(b2)
             full == Len(t1) + Len(b1) >= Capacity
             to == IF full /\ Len(t1) >= Capacity THEN "popT1"
                   ELSE IF full \/ total >= Capacity THEN Victim(target, FALSE) ELSE "put"
  <2>1. /\ UNCHANGED <<t1, t2, target, held, twice>> /\ Meets(u)
        /\ Continue(u, to, k, "t1")
    BY <1>16 DEF MakeRoom
  <2>2. call[u] = NoCall /\ cacheCalls' \in 0 .. MaxCacheCalls
    BY <1>11, <1>16 DEF MakeRoom
  <2>3. b1' \in KeyLists /\ b2' \in KeyLists
    <3>1. Popped(b1) \in KeyLists /\ Popped(b2) \in KeyLists
      BY <1>1, KeyPopped
    <3>2. (b1' = Popped(b1) \/ b1' = b1) /\ (b2' = Popped(b2) \/ b2' = b2)
      BY <1>16 DEF MakeRoom
    <3>. QED BY ONLY <1>1, <3>1, <3>2
  <2>4. overlapped' \in Nat /\ overlapped' >= overlapped
    BY <1>1, <2>1 DEF Meets
  <2>5. to \in {"popT1", "replaceT1", "replaceT2", "put"} /\ (to = "put" => total < Capacity)
    BY <1>3, <1>4 DEF Victim
  <2>. HIDE DEF total, full, to
  <2>6. to \in CacheStages
    BY <2>5 DEF CacheStages, Entering
  <2>7. /\ call' \in [CacheUsers -> Calls] /\ pd' = pd /\ ct' = ct
        /\ pt' = IF to = "put" THEN pt + 1 ELSE pt
    BY ONLY <1>5, <1>6, <1>8, <2>1, <2>2, <2>5, <2>6, u \in CacheUsers, k \in CacheKeys
  <2>8. CASE to # "put"
    BY <1>1, <1>2, <1>3, <1>4, <1>6, <1>10, <2>1, <2>2, <2>3, <2>4, <2>7, <2>8
  <2>9. CASE to = "put"
    <3>1. total < Capacity
      BY <2>5, <2>9
    <3>2. Len(t1) + Len(t2) < Capacity /\ room = Capacity
      BY <1>3, <1>4, <3>1 DEF total, room
    <3>3. Len(t1) + Len(t2) + pd + pt + 1 <= room + overlapped'
      <4>1. CASE Alone(u)
        <5>1. CallsAt("promoted") = {} /\ CallsAt("put") = {}
          BY <1>5, <2>2, <4>1 DEF Alone, CallsAt, Entering
        <5>2. pd = 0 /\ pt = 0
          BY <5>1, FS_EmptySet DEF pd, pt
        <5>. QED BY <1>1, <1>3, <1>4, <2>4, <3>2, <5>2
      <4>2. CASE ~Alone(u)
        <5>1. overlapped' = overlapped + 1
          BY <2>1, <4>2 DEF Meets
        <5>. QED BY <1>1, <1>2, <1>3, <1>4, <1>6, <5>1
      <4>. QED BY <4>1, <4>2
    <3>. QED BY <1>1, <1>2, <1>3, <1>4, <1>6, <1>10, <2>1, <2>2, <2>3, <2>4, <2>7, <2>9, <3>3
  <2>. QED BY <2>8, <2>9
<1>17. ASSUME NEW u \in CacheUsers, Evict(u) PROVE ListsInv'
  <2> DEFINE at == call[u].at
             list == IF at = "replaceT2" THEN t2 ELSE t1
  <2>1. /\ at \in {"popT1", "replaceT1", "replaceT2"}
        /\ t1' = IF at = "replaceT2" THEN t1 ELSE Popped(t1)
        /\ t2' = IF at = "replaceT2" THEN Popped(t2) ELSE t2
        /\ held' = IF list = <<>> THEN held ELSE held - 1
        /\ overlapped' = IF list = <<>> /\ ~(t1 = t2 /\ Alone(u)) THEN overlapped + 1 ELSE overlapped
        /\ Continue(u, "put", call[u].key, call[u].to)
        /\ UNCHANGED <<target, twice, cacheCalls>>
    BY <1>17 DEF Evict
  <2>2. call[u].key \in CacheKeys /\ call[u].to \in {"t1", "t2"}
    BY <1>9, <2>1
  <2>3. "put" \in CacheStages
    BY DEF CacheStages, Entering
  <2>4. call' \in [CacheUsers -> Calls] /\ pd' = pd /\ ct' = ct /\ pt' = pt + 1
    BY ONLY <1>5, <1>6, <1>8, <2>1, <2>2, <2>3, u \in CacheUsers
  <2>5. /\ t1' \in KeyLists /\ t2' \in KeyLists
        /\ Len(t1') + Len(t2') = IF list = <<>> THEN Len(t1) + Len(t2) ELSE Len(t1) + Len(t2) - 1
    <3>1. /\ Popped(t1) \in KeyLists /\ Popped(t2) \in KeyLists
          /\ Len(Popped(t1)) = IF t1 = <<>> THEN 0 ELSE Len(t1) - 1
          /\ Len(Popped(t2)) = IF t2 = <<>> THEN 0 ELSE Len(t2) - 1
          /\ (t1 = <<>> => Len(t1) = 0) /\ (t2 = <<>> => Len(t2) = 0)
      BY ONLY <1>1, KeyPopped
    <3>2. CASE at = "replaceT2"
      BY <1>1, <1>3, <2>1, <3>1, <3>2
    <3>3. CASE at # "replaceT2"
      BY <1>1, <1>3, <2>1, <3>1, <3>3
    <3>. QED BY <3>2, <3>3
  <2>6. b1' \in KeyLists
    <3>1. b1' = b1 \/ (t1 # <<>> /\ b1' = Added(b1, Head(t1)))
      BY <1>17 DEF Evict
    <3>2. t1 # <<>> => Head(t1) \in CacheKeys
      BY <1>1, KeyPopped
    <3>. QED BY <1>1, <3>1, <3>2, KeyAdded
  <2>7. b2' \in KeyLists
    <3>1. b2' = b2 \/ (t2 # <<>> /\ b2' = Added(b2, Head(t2)))
      BY <1>17 DEF Evict
    <3>2. t2 # <<>> => Head(t2) \in CacheKeys
      BY <1>1, KeyPopped
    <3>. QED BY <1>1, <3>1, <3>2, KeyAdded
  <2>8. overlapped' \in Nat
    BY <1>1, <2>1
  <2>. HIDE DEF list
  <2>9. CASE list # <<>>
    <3>1. /\ held' = held - 1 /\ overlapped' = overlapped
          /\ Len(t1') + Len(t2') = Len(t1) + Len(t2) - 1
          /\ target' = target /\ twice' = twice /\ cacheCalls' = cacheCalls
      BY <2>1, <2>5, <2>9
    <3>2. Len(t1') \in Nat /\ Len(t2') \in Nat
      BY <2>5 DEF KeyLists
    <3>3. /\ held' = Len(t1') + Len(t2') + pd' - ct' + twice'
          /\ Len(t1') + Len(t2') + pd' + pt' <= room + overlapped'
      BY ONLY <1>1, <1>2, <1>3, <1>4, <1>6, <2>4, <3>1, <3>2
    <3>. QED BY <1>1, <1>6, <1>10, <2>4, <2>5, <2>6, <2>7, <2>8, <3>1, <3>3
  <2>10. CASE list = <<>>
    <3>1. Len(t1) + Len(t2) + pd + pt + 1 <= room + overlapped'
      <4>1. CASE t1 = t2 /\ Alone(u)
        <5>1. CallsAt("promoted") = {} /\ CallsAt("put") = {}
          BY <1>5, <2>1, <4>1 DEF Alone, CallsAt, Entering
        <5>2. pd = 0 /\ pt = 0
          BY <5>1, FS_EmptySet DEF pd, pt
        <5>3. Len(t1) = 0 /\ Len(t2) = 0
          BY <1>1, <2>10, <4>1, KeyPopped DEF list
        <5>4. room >= 1
          BY <1>4 DEF room
        <5>. QED BY <1>1, <1>4, <2>8, <2>10, <2>1, <4>1, <5>2, <5>3, <5>4
      <4>2. CASE ~(t1 = t2 /\ Alone(u))
        <5>1. overlapped' = overlapped + 1
          BY <2>1, <2>10, <4>2
        <5>. QED BY <1>1, <1>2, <1>3, <1>4, <1>6, <5>1
      <4>. QED BY <4>1, <4>2
    <3>2. /\ held' = held /\ Len(t1') + Len(t2') = Len(t1) + Len(t2)
          /\ target' = target /\ twice' = twice /\ cacheCalls' = cacheCalls
      BY <2>1, <2>5, <2>10
    <3>3. Len(t1') \in Nat /\ Len(t2') \in Nat
      BY <2>5 DEF KeyLists
    <3>4. held' = Len(t1') + Len(t2') + pd' - ct' + twice'
      BY ONLY <1>1, <1>2, <1>3, <1>6, <2>4, <3>2, <3>3
    <3>5. Len(t1') + Len(t2') + pd' + pt' = Len(t1) + Len(t2) + pd + pt + 1
      BY ONLY <1>3, <1>6, <2>4, <3>2, <3>3
    <3>. QED BY <1>1, <1>6, <1>10, <2>4, <2>5, <2>6, <2>7, <2>8, <3>1, <3>2, <3>4, <3>5
  <2>. QED BY <2>9, <2>10
<1>18. ASSUME NEW u \in CacheUsers, Put(u) PROVE ListsInv'
  <2> DEFINE k == call[u].key
             list == IF call[u].to = "t1" THEN t1 ELSE t2
  <2>1. /\ call[u].at = "put"
        /\ t1' = IF call[u].to = "t1" THEN Added(t1, k) ELSE t1
        /\ t2' = IF call[u].to = "t1" THEN t2 ELSE Added(t2, k)
        /\ IF Has(list, k) THEN Return(u)
           ELSE Continue(u, "count", k, call[u].to)
        /\ UNCHANGED <<b1, b2, target, held, twice, overlapped, cacheCalls>>
    BY <1>18 DEF Put
  <2>2. call[u].key \in CacheKeys /\ call[u].to \in {"t1", "t2"}
    BY <1>9, <2>1
  <2>3. /\ t1' \in KeyLists /\ t2' \in KeyLists
        /\ Len(t1') + Len(t2') =
               IF Has(list, k) THEN Len(t1) + Len(t2) ELSE Len(t1) + Len(t2) + 1
    <3>. HIDE DEF k
    <3>3. /\ Added(t1, k) \in KeyLists /\ Added(t2, k) \in KeyLists
          /\ Len(Added(t1, k)) = IF Has(t1, k) THEN Len(t1) ELSE Len(t1) + 1
          /\ Len(Added(t2, k)) = IF Has(t2, k) THEN Len(t2) ELSE Len(t2) + 1
      <4>1. k \in CacheKeys
        BY <2>2 DEF k
      <4>. QED BY ONLY <1>1, <4>1, KeyAdded
    <3>1. CASE call[u].to = "t1"
      BY <1>1, <1>3, <2>1, <3>3, <3>1
    <3>2. CASE call[u].to # "t1"
      BY <1>1, <1>3, <2>1, <3>3, <3>2
    <3>. QED BY <3>1, <3>2
  <2>4. "count" \in CacheStages
    BY DEF CacheStages
  <2>. HIDE DEF list
  <2>5. CASE Has(list, k)
    <3>1. Return(u)
      BY <2>1, <2>5
    <3>2. call' \in [CacheUsers -> Calls] /\ pd' = pd /\ pt' = pt - 1 /\ pt' \in Nat /\ ct' = ct
      BY ONLY <1>6, <1>returns, <2>1, <3>1, u \in CacheUsers
    <3>3. /\ Len(t1') \in Nat /\ Len(t2') \in Nat
          /\ Len(t1') + Len(t2') = Len(t1) + Len(t2)
          /\ held' = held /\ twice' = twice /\ overlapped' = overlapped
      BY ONLY <2>1, <2>3, <2>5, KeyListLength
    <3>4. held' = Len(t1') + Len(t2') + pd' - ct' + twice'
      BY ONLY <1>2, <1>3, <1>6, <1>numbers, <3>2, <3>3
    <3>5. Len(t1') + Len(t2') + pd' + pt' <= room + overlapped'
      BY ONLY <1>2, <1>3, <1>4, <1>6, <1>numbers, <3>2, <3>3
    <3>. QED BY ONLY <1>1, <1>6, <1>10, <2>1, <2>3, <3>2, <3>4, <3>5
  <2>6. CASE ~Has(list, k)
    <3>1. Continue(u, "count", k, call[u].to)
      BY <2>1, <2>6
    <3>2. call' \in [CacheUsers -> Calls] /\ pd' = pd /\ pt' = pt - 1 /\ pt' \in Nat /\ ct' = ct + 1
      BY ONLY <1>5, <1>6, <1>8, <2>1, <2>2, <2>4, <3>1, u \in CacheUsers
    <3>3. /\ Len(t1') \in Nat /\ Len(t2') \in Nat
          /\ Len(t1') + Len(t2') = Len(t1) + Len(t2) + 1
          /\ held' = held /\ twice' = twice /\ overlapped' = overlapped
      BY ONLY <2>1, <2>3, <2>6, KeyListLength
    <3>4. held' = Len(t1') + Len(t2') + pd' - ct' + twice'
      BY ONLY <1>2, <1>3, <1>6, <1>numbers, <3>2, <3>3
    <3>5. Len(t1') + Len(t2') + pd' + pt' <= room + overlapped'
      BY ONLY <1>2, <1>3, <1>4, <1>6, <1>numbers, <3>2, <3>3
    <3>. QED BY ONLY <1>1, <1>6, <1>10, <2>1, <2>3, <3>2, <3>4, <3>5
  <2>. QED BY <2>5, <2>6
<1>19. ASSUME NEW u \in CacheUsers, Count(u) PROVE ListsInv'
  <2>1. /\ call[u].at = "count" /\ held' = held + 1 /\ Return(u)
        /\ UNCHANGED <<t1, t2, b1, b2, target, twice, overlapped, cacheCalls>>
    BY <1>19 DEF Count
  <2>2. call' \in [CacheUsers -> Calls] /\ pd' = pd /\ pt' = pt /\ ct' = ct - 1 /\ ct' \in Nat
    BY ONLY <1>6, <1>returns, <2>1, u \in CacheUsers
  <2>. QED BY <1>1, <1>2, <1>3, <1>6, <1>10, <2>1, <2>2
<1>20. ASSUME NEW u \in CacheUsers, NEW k \in CacheKeys, RemoveKey(u, k) PROVE ListsInv'
  <2>1. /\ Has(t1, k) \/ Has(t2, k)
        /\ t1' = RemoveFirst(t1, k) /\ t2' = IF Has(t1, k) THEN t2 ELSE RemoveFirst(t2, k)
        /\ held' = held - 1 /\ UNCHANGED <<b1, b2, target, call, twice, overlapped>>
    BY <1>20 DEF RemoveKey
  <2>2. cacheCalls' \in 0 .. MaxCacheCalls
    BY <1>11, <1>20 DEF RemoveKey
  <2>3. /\ t1' \in KeyLists /\ t2' \in KeyLists
        /\ Len(t1') + Len(t2') = Len(t1) + Len(t2) - 1
    BY <1>1, <1>3, <2>1, KeyLeaves
  <2>4. pd' = pd /\ pt' = pt /\ ct' = ct
    BY <1>7, <2>1
  <2>5. /\ Len(t1') \in Nat /\ Len(t2') \in Nat
        /\ held' = held - 1 /\ twice' = twice /\ overlapped' = overlapped
    BY ONLY <2>1, <2>3, KeyListLength
  <2>6. held' = Len(t1') + Len(t2') + pd' - ct' + twice'
    BY ONLY <1>2, <1>3, <1>6, <1>numbers, <2>3, <2>4, <2>5
  <2>7. Len(t1') + Len(t2') + pd' + pt' <= room + overlapped'
    BY ONLY <1>2, <1>3, <1>4, <1>6, <1>numbers, <2>3, <2>4, <2>5
  <2>. QED BY ONLY <1>1, <1>6, <1>10, <2>1, <2>2, <2>3, <2>4, <2>6, <2>7
<1>21. CASE UNCHANGED listVars
  <2>1. UNCHANGED <<t1, t2, b1, b2, target, held, call, twice, overlapped, cacheCalls>>
    BY <1>21 DEF listVars
  <2>2. pd' = pd /\ pt' = pt /\ ct' = ct
    BY <1>7, <2>1
  <2>. QED BY <1>1, <1>2, <1>6, <1>10, <2>1, <2>2
<1>. QED BY <1>12, <1>13, <1>14, <1>15, <1>16, <1>17, <1>18, <1>19, <1>20, <1>21 DEF ListsNext

(* The cache of whole pieces counts the memory of what it holds, for any   *)
(* capacity and any interleaving of get, insert and remove, and holds no   *)
(* more than its capacity and the insertions that met one another          *)
(* (PieceCache: promote_t1_to_t2, insert, replace, remove).                *)
THEOREM MemoryIsCounted == ListsSpec => [](ListsTypeOK /\ MemoryCounted)
<1>1. ListsInit => ListsInv
  <2>. SUFFICES ASSUME ListsInit PROVE ListsInv
    OBVIOUS
  <2>1. \A at : at # "none" => CallsAt(at) = {}
    BY DEF ListsInit, CallsAt, NoCall
  <2>2. Cardinality({}) = 0
    BY FS_EmptySet
  <2>3. <<>> \in KeyLists
    BY DEF KeyLists, IsInjective
  <2>4. ListsTypeOK
    BY <2>3, ListsAssumption, ListsTypes DEF ListsInit, Calls
  <2>5. /\ Cardinality(CallsAt("promoted")) = 0 /\ Cardinality(CallsAt("put")) = 0
        /\ Cardinality(CallsAt("count")) = 0
    BY <2>1, <2>2
  <2>. QED BY <2>4, <2>5, ListsAssumption DEF ListsInit, ListsInv, Bound
<1>2. ListsInv => ListsTypeOK /\ MemoryCounted
  <2>. SUFFICES ASSUME ListsInv PROVE MemoryCounted
    BY DEF ListsInv
  <2>1. \A at : CallsAt(at) \in SUBSET CacheUsers
    BY DEF CallsAt
  <2>2. \A at : IsFiniteSet(CallsAt(at))
    BY <2>1, ListsAssumption, FS_Subset
  <2>3. Cardinality(CallsAt("promoted")) \in Nat /\ Cardinality(CallsAt("put")) \in Nat
    BY <2>2, FS_CardinalityType
  <2>4. Len(t1) \in Nat /\ Len(t2) \in Nat /\ Bound \in Nat
    BY ListsAssumption, ListsTypes DEF ListsInv, KeyLists, Bound
  <2>. QED BY <2>3, <2>4 DEF ListsInv, MemoryCounted, Bound
<1>. QED BY <1>1, <1>2, ListsStep, PTL DEF ListsSpec

(* -------------------------- the write queue ---------------------------- *)

(* The places that an operation is to write, one by one.                   *)
Hits(op, p) == p[1] = op.file /\ op.at <= p[2] /\ p[2] < op.at + op.size
Queued == {submitted[i] : i \in 1 .. Len(submitted)}
Handed(w) == {dealt[w][i] : i \in 1 .. Len(dealt[w])}

(* Operations come in the order of their ids, and a worker has operations  *)
(* of its files that came before what is still in the queue.               *)
ComeInOrder ==
    /\ \A i, j \in 1 .. Len(submitted) : i < j => submitted[i].id < submitted[j].id
    /\ \A w \in WorkerIds : \A op \in Handed(w) :
           op.file % Workers = w /\ \A late \in Queued : op.id < late.id

(* A place that the order of its operations has not been lost for.         *)
Fine(p) == p \notin reordered /\ p \notin spoilt

(* None that waits is later than the latest; a worker's operations on one  *)
(* place are in their order.                                               *)
WaitInOrder ==
    /\ \A p \in Place : latest[p] <= writes
    /\ \A op \in Queued : op.id <= writes /\ \A p \in Place : Hits(op, p) => op.id <= latest[p]
    /\ \A w \in WorkerIds : \A op \in Handed(w) :
           op.id <= writes /\ \A p \in Place : Hits(op, p) => op.id <= latest[p]
    /\ \A w \in WorkerIds : \A i, j \in 1 .. Len(dealt[w]), p \in Place :
           i < j /\ Hits(dealt[w][i], p) /\ Hits(dealt[w][j], p) /\ p \notin reordered
           => dealt[w][i].id < dealt[w][j].id

(* What a place holds came before what waits for it, and if it is not the  *)
(* latest then the latest waits.                                           *)
HoldsOrWaits ==
    \A p \in Place : Fine(p) =>
        /\ content[p] <= latest[p]
        /\ \A op \in Queued \cup Handed(p[1] % Workers) : Hits(op, p) => content[p] < op.id
        /\ \/ content[p] = latest[p]
           \/ \E op \in Queued \cup Handed(p[1] % Workers) : Hits(op, p) /\ op.id = latest[p]

(* The handle is where the last write ended.                               *)
SeekLeftOut ==
    \A f \in QueueFiles : f \notin short /\ expected[f] # -1 => position[f] = expected[f]

QueueInv == QueueTypeOK /\ ComeInOrder /\ WaitInOrder /\ HoldsOrWaits /\ SeekLeftOut

(* The type invariant, variable by variable; primed, below.                *)
LEMMA QueueTypes ==
  QueueTypeOK <=>
    /\ submitted \in Seq(Operations) /\ dealt \in [WorkerIds -> Seq(Operations)]
    /\ position \in [QueueFiles -> Nat] /\ expected \in [QueueFiles -> Nat \cup {-1}]
    /\ content \in [Place -> 0 .. MaxWrites] /\ latest \in [Place -> 0 .. MaxWrites]
    /\ reordered \subseteq Place /\ spoilt \subseteq Place
    /\ short \subseteq QueueFiles /\ writes \in 0 .. MaxWrites
BY DEF QueueTypeOK

LEMMA QueueTypesNext ==
  QueueTypeOK' <=>
    /\ submitted' \in Seq(Operations) /\ dealt' \in [WorkerIds -> Seq(Operations)]
    /\ position' \in [QueueFiles -> Nat] /\ expected' \in [QueueFiles -> Nat \cup {-1}]
    /\ content' \in [Place -> 0 .. MaxWrites] /\ latest' \in [Place -> 0 .. MaxWrites]
    /\ reordered' \subseteq Place /\ spoilt' \subseteq Place
    /\ short' \subseteq QueueFiles /\ writes' \in 0 .. MaxWrites
BY DEF QueueTypeOK

(* An operation's fields, and what it is to write.                         *)
LEMMA OperationTyped ==
  ASSUME NEW op \in Operations
  PROVE  /\ op.id \in Nat /\ op.id \in 1 .. MaxWrites /\ op.file \in QueueFiles /\ op.file \in Nat
         /\ op.at \in Offsets /\ op.at \in Nat /\ op.size \in Nat /\ op.rank \in Nat
         /\ op.file % Workers \in WorkerIds
         /\ \A p \in Place : p \in Target(op) <=> Hits(op, p)
<1>1. /\ op.id \in 1 .. MaxWrites /\ op.file \in QueueFiles /\ op.at \in Offsets
      /\ op.size \in WriteSizes /\ op.rank \in Priorities
  BY DEF Operations
<1>2. /\ QueueFiles \subseteq Nat /\ Offsets \subseteq Nat /\ WriteSizes \subseteq Nat
      /\ MaxWrites \in Nat /\ Workers \in Nat \ {0}
  BY WriteQueueAssumption
<1>3. \A n \in Nat : n % Workers \in WorkerIds
  BY <1>2 DEF WorkerIds
<1>4. op.id \in Nat /\ op.file \in Nat /\ op.at \in Nat /\ op.size \in Nat
  <2>1. op.file \in Nat
    BY <1>1, <1>2
  <2>2. op.at \in Nat /\ op.size \in Nat
    BY <1>1, <1>2
  <2>3. op.id \in Nat
    BY <1>1, <1>2
  <2>. QED BY <2>1, <2>2, <2>3
<1>5. op.rank \in Nat
  BY ONLY <1>1 DEF Priorities
<1>6. \A p \in Place : p \in Target(op) <=> Hits(op, p)
  BY DEF Target, Covered, Hits
<1>. QED BY <1>1, <1>3, <1>4, <1>5, <1>6

(* Of two operations one is the sooner, and of three the first.            *)
LEMMA SoonerOrders ==
  ASSUME NEW a \in Operations, NEW b \in Operations
  PROVE  /\ ~Sooner(a, a)
         /\ Sooner(a, b) => ~Sooner(b, a)
         /\ a.id # b.id => Sooner(a, b) \/ Sooner(b, a)
         /\ \A c \in Operations : Sooner(a, b) /\ Sooner(b, c) => Sooner(a, c)
<1>1. /\ a.id \in Nat /\ a.file \in Nat /\ a.at \in Nat /\ a.rank \in Nat
      /\ b.id \in Nat /\ b.file \in Nat /\ b.at \in Nat /\ b.rank \in Nat
  BY OperationTyped
<1>2. ASSUME NEW c \in Operations, Sooner(a, b), Sooner(b, c) PROVE Sooner(a, c)
  <2>1. c.id \in Nat /\ c.file \in Nat /\ c.at \in Nat /\ c.rank \in Nat
    BY OperationTyped
  <2>. QED BY ONLY <1>1, <1>2, <2>1 DEF Sooner
<1>3. ~Sooner(a, a)
  BY ONLY <1>1 DEF Sooner
<1>4. Sooner(a, b) => ~Sooner(b, a)
  BY ONLY <1>1 DEF Sooner
<1>5. a.id # b.id => Sooner(a, b) \/ Sooner(b, a)
  BY ONLY <1>1 DEF Sooner
<1>. QED BY <1>2, <1>3, <1>4, <1>5

(* Sorting loses nothing, and what is sooner comes sooner.                 *)
LEMMA SortedInOrder ==
  ASSUME NEW ops \in SUBSET Operations, IsFiniteSet(ops),
         \A a, b \in ops : a.id = b.id => a = b
  PROVE  /\ InOrder(ops) \in Seq(ops)
         /\ ops = {InOrder(ops)[i] : i \in 1 .. Len(InOrder(ops))}
         /\ \A i, j \in 1 .. Len(InOrder(ops)) :
                i < j => Sooner(InOrder(ops)[i], InOrder(ops)[j])
<1>. DEFINE Before(op) == {first \in ops : Sooner(first, op)}
            n == Cardinality(ops)
            place == [op \in ops |-> Cardinality(Before(op)) + 1]
<1>1. \A op \in ops : Before(op) \in SUBSET ops /\ op \notin Before(op)
  BY SoonerOrders
<1>2. n \in Nat
  BY FS_CardinalityType
<1>3. \A op \in ops : IsFiniteSet(Before(op)) /\ Cardinality(Before(op)) \in Nat
  BY <1>1, FS_Subset, FS_CardinalityType
<1>4. \A op \in ops : Cardinality(Before(op)) < n
  <2>1. SUFFICES ASSUME NEW op \in ops PROVE Cardinality(Before(op)) < n
    OBVIOUS
  <2>2. Before(op) \in SUBSET ops /\ Before(op) # ops
    BY <1>1
  <2>. HIDE DEF Before
  <2>3. Cardinality(Before(op)) <= n /\ Cardinality(Before(op)) # n
    BY <2>2, FS_Subset
  <2>. QED BY <1>2, <1>3, <2>3
<1>5. ASSUME NEW a \in ops, NEW b \in ops, Sooner(a, b)
      PROVE  Cardinality(Before(a)) < Cardinality(Before(b))
  <2>1. Before(a) \subseteq Before(b)
    BY <1>5, SoonerOrders
  <2>2. a \in Before(b) /\ a \notin Before(a)
    BY <1>1, <1>5
  <2>3. Before(a) \in SUBSET Before(b) /\ Before(a) # Before(b)
    BY <2>1, <2>2
  <2>4. IsFiniteSet(Before(b)) /\ Cardinality(Before(a)) \in Nat /\ Cardinality(Before(b)) \in Nat
    BY <1>3
  <2>. HIDE DEF Before
  <2>5. /\ Cardinality(Before(a)) <= Cardinality(Before(b))
        /\ Cardinality(Before(a)) # Cardinality(Before(b))
    BY <2>3, <2>4, FS_Subset
  <2>. QED BY <2>4, <2>5
<1>6. \A a, b \in ops : a # b => Sooner(a, b) \/ Sooner(b, a)
  BY SoonerOrders
<1>. HIDE DEF Before
<1>7. \A op \in ops : place[op] \in 1 .. n /\ place[op] = Cardinality(Before(op)) + 1
  BY <1>2, <1>3, <1>4
<1>8. \A a, b \in ops : a # b => place[a] # place[b]
  <2>1. \A a, b \in ops : Sooner(a, b) => Cardinality(Before(a)) + 1 # Cardinality(Before(b)) + 1
    BY <1>3, <1>5
  <2>. QED BY <1>6, <1>7, <2>1
<1>9. place \in [ops -> 1 .. n]
  BY <1>7
<1>. HIDE DEF place
<1>10. \A i \in 1 .. n : \E op \in ops : place[op] = i
  <2>1. place \in Injection(ops, 1 .. n)
    BY <1>8, <1>9 DEF Injection, IsInjective
  <2>2. IsFiniteSet(1 .. n) /\ Cardinality(1 .. n) = n
    <3>1. 1 \in Int /\ n \in Int
      BY <1>2
    <3>2. IsFiniteSet(1 .. n) /\ Cardinality(1 .. n) = IF 1 > n THEN 0 ELSE n - 1 + 1
      BY <3>1, FS_Interval
    <3>. QED BY <1>2, <3>2
  <2>3. place \in Surjection(ops, 1 .. n)
    BY <2>1, <2>2, FS_Injection
  <2>. QED BY <2>3 DEF Surjection
<1>. DEFINE sorted == InOrder(ops)
<1>11. \A i \in 1 .. n : sorted[i] \in ops /\ place[sorted[i]] = i
  <2>1. SUFFICES ASSUME NEW i \in 1 .. n PROVE sorted[i] \in ops /\ place[sorted[i]] = i
    OBVIOUS
  <2>2. sorted[i] = CHOOSE op \in ops : Cardinality(Before(op)) = i - 1
    BY DEF InOrder, Before
  <2>3. \A op \in ops : place[op] = i <=> Cardinality(Before(op)) = i - 1
    BY <1>2, <1>3, <1>7
  <2>. QED BY <1>10, <2>2, <2>3
<1>12. sorted \in [1 .. n -> ops]
  <2> DEFINE inPlace(i) == CHOOSE op \in ops : Cardinality({first \in ops : Sooner(first, op)}) = i - 1
  <2>1. sorted = [i \in 1 .. n |-> inPlace(i)]
    BY DEF InOrder
  <2>. HIDE DEF inPlace, sorted, n
  <2>2. \A i \in 1 .. n : inPlace(i) \in ops
    BY <1>11, <2>1
  <2>. QED BY <2>1, <2>2
<1>. HIDE DEF sorted, n
<1>13. sorted \in Seq(ops) /\ Len(sorted) = n
  BY <1>2, <1>11, <1>12
<1>14. ASSUME NEW op \in ops PROVE \E i \in 1 .. n : sorted[i] = op
  BY <1>7, <1>8, <1>11
<1>15. ASSUME NEW i \in 1 .. n, NEW j \in 1 .. n, i < j PROVE Sooner(sorted[i], sorted[j])
  <2>1. sorted[i] # sorted[j]
    BY <1>2, <1>11, <1>15
  <2>2. Sooner(sorted[j], sorted[i]) => place[sorted[j]] < place[sorted[i]]
    BY <1>3, <1>5, <1>7, <1>11
  <2>3. ~(j < i)
    BY <1>2, <1>15
  <2>. QED BY <1>6, <1>11, <2>1, <2>2, <2>3
<1>. QED BY <1>11, <1>13, <1>14, <1>15 DEF sorted

(* Operations that wait, by their place in a channel.                      *)
LEMMA Waiting ==
  ASSUME QueueTypeOK
  PROVE  /\ Queued \subseteq Operations /\ \A w \in WorkerIds : Handed(w) \subseteq Operations
         /\ Len(submitted) \in Nat /\ \A w \in WorkerIds : Len(dealt[w]) \in Nat
         /\ \A i \in 1 .. Len(submitted) : submitted[i] \in Queued
         /\ \A w \in WorkerIds : \A i \in 1 .. Len(dealt[w]) : dealt[w][i] \in Handed(w)
         /\ \A p \in Place : /\ p[1] \in QueueFiles /\ p[1] % Workers \in WorkerIds
                             /\ latest[p] \in Nat /\ content[p] \in Nat
<1>1. /\ submitted \in Seq(Operations) /\ dealt \in [WorkerIds -> Seq(Operations)]
      /\ content \in [Place -> 0 .. MaxWrites] /\ latest \in [Place -> 0 .. MaxWrites]
  BY QueueTypes
<1>2. \A i \in 1 .. Len(submitted) : submitted[i] \in Operations
  BY <1>1
<1>3. \A w \in WorkerIds : \A i \in 1 .. Len(dealt[w]) : dealt[w][i] \in Operations
  BY <1>1
<1>4. Len(submitted) \in Nat /\ \A w \in WorkerIds : Len(dealt[w]) \in Nat
  BY <1>1
<1>5. ASSUME NEW p \in Place PROVE p[1] \in QueueFiles /\ p[1] % Workers \in WorkerIds
  <2>1. p[1] \in QueueFiles /\ p[1] \in Nat /\ Workers \in Nat \ {0}
    BY WriteQueueAssumption DEF Place
  <2>2. \A n \in Nat : n % Workers \in WorkerIds
    BY <2>1 DEF WorkerIds
  <2>. QED BY <2>1, <2>2
<1>6. \A p \in Place : latest[p] \in Nat /\ content[p] \in Nat
  <2>1. MaxWrites \in Nat
    BY WriteQueueAssumption
  <2>. QED BY <1>1, <2>1
<1>. QED BY <1>2, <1>3, <1>4, <1>5, <1>6 DEF Queued, Handed

(* Each action keeps the invariant.                                       *)
LEMMA SubmitKeeps ==
  ASSUME QueueInv, NEW f \in QueueFiles, NEW o \in Offsets, NEW size \in WriteSizes,
         NEW priority \in Priorities, Submit(f, o, size, priority)
  PROVE  QueueInv'
<1>. DEFINE op == [id |-> writes + 1, file |-> f, at |-> o, size |-> size, rank |-> priority]
<1>1. /\ writes' = writes + 1 /\ submitted' = Append(submitted, op)
      /\ latest' = [p \in Place |-> IF p \in Covered(f, o, size) THEN writes + 1 ELSE latest[p]]
      /\ writes < MaxWrites
      /\ UNCHANGED <<dealt, position, expected, content, reordered, short, spoilt>>
  BY DEF Submit
<1>2. QueueTypeOK /\ writes \in Nat /\ writes + 1 \in 1 .. MaxWrites /\ writes + 1 \in 0 .. MaxWrites
  BY <1>1, WriteQueueAssumption, QueueTypes DEF QueueInv
<1>3. /\ op \in Operations /\ op.id = writes + 1
      /\ \A p \in Place : p \in Covered(f, o, size) <=> Hits(op, p)
  BY <1>2 DEF Operations, Covered, Hits
<1>. HIDE DEF op
<1>4. /\ submitted' \in Seq(Operations) /\ Len(submitted') = Len(submitted) + 1
      /\ \A i \in 1 .. Len(submitted) : submitted'[i] = submitted[i]
      /\ submitted'[Len(submitted) + 1] = op
      /\ Len(submitted) \in Nat
  BY <1>1, <1>2, <1>3, QueueTypes
<1>5. QueueTypeOK'
  <2>1. latest \in [Place -> 0 .. MaxWrites]
    BY <1>2, QueueTypes
  <2>2. latest' \in [Place -> 0 .. MaxWrites]
    BY <1>1, <1>2, <2>1
  <2>. QED BY <1>1, <1>2, <1>4, <2>2, QueueTypes, QueueTypesNext
<1>6. Queued' = Queued \cup {op} /\ \A w : Handed(w)' = Handed(w)
  <2>1. \A w : Handed(w)' = Handed(w)
    BY <1>1 DEF Handed
  <2>2. \A i \in 1 .. Len(submitted') : i \in 1 .. Len(submitted) \/ i = Len(submitted) + 1
    BY <1>4
  <2>3. \A i \in 1 .. Len(submitted) : i \in 1 .. Len(submitted')
    BY <1>4
  <2>4. Len(submitted) + 1 \in 1 .. Len(submitted')
    BY <1>4
  <2>. QED BY <1>4, <2>1, <2>2, <2>3, <2>4 DEF Queued
<1>7. /\ \A p \in Place : latest'[p] = IF Hits(op, p) THEN writes + 1 ELSE latest[p]
      /\ \A p \in Place : latest[p] <= writes /\ latest[p] \in Nat
  <2>1. \A p \in Place : latest'[p] = IF Hits(op, p) THEN writes + 1 ELSE latest[p]
    BY <1>1, <1>3
  <2>. QED BY <1>2, <2>1, Waiting DEF QueueInv, WaitInOrder
<1>8. \A p \in Place : latest[p] <= latest'[p]
  BY <1>2, <1>7
<1>9. /\ \A it \in Queued : it \in Operations /\ it.id \in Nat /\ it.id <= writes
      /\ \A w \in WorkerIds : \A it \in Handed(w) :
            it \in Operations /\ it.id \in Nat /\ it.id <= writes
  BY <1>2, Waiting, OperationTyped DEF QueueInv, WaitInOrder
<1>10. ComeInOrder'
  <2>1. ASSUME NEW i \in 1 .. Len(submitted'), NEW j \in 1 .. Len(submitted'), i < j
        PROVE  submitted'[i].id < submitted'[j].id
    <3>1. i \in 1 .. Len(submitted) /\ submitted'[i] = submitted[i] /\ submitted[i] \in Queued
      BY <1>2, <1>4, <2>1, Waiting
    <3>2. CASE j \in 1 .. Len(submitted)
      BY <1>4, <2>1, <3>1, <3>2 DEF QueueInv, ComeInOrder
    <3>3. CASE j = Len(submitted) + 1
      BY <1>2, <1>3, <1>4, <1>9, <3>1, <3>3
    <3>. QED BY <1>4, <3>2, <3>3
  <2>2. ASSUME NEW w \in WorkerIds, NEW it \in Handed(w)'
        PROVE  it.file % Workers = w /\ \A late \in Queued' : it.id < late.id
    <3>1. it \in Handed(w) /\ it.id \in Nat /\ it.id <= writes
      BY <1>6, <1>9, <2>2
    <3>2. it.id < op.id
      BY <1>2, <1>3, <3>1
    <3>. QED BY <1>6, <3>1, <3>2 DEF QueueInv, ComeInOrder
  <2>. QED BY <2>1, <2>2 DEF ComeInOrder
<1>11. WaitInOrder'
  <2>1. \A p \in Place : latest'[p] <= writes'
    BY <1>1, <1>2, <1>7
  <2>2. ASSUME NEW it, it.id \in Nat, it.id <= writes,
               \A p \in Place : Hits(it, p) => it.id <= latest[p]
        PROVE  it.id <= writes' /\ \A p \in Place : Hits(it, p) => it.id <= latest'[p]
    BY <1>1, <1>2, <1>7, <2>2
  <2>3. op.id <= writes' /\ \A p \in Place : Hits(op, p) => op.id <= latest'[p]
    BY <1>1, <1>2, <1>3, <1>7
  <2>4. \A it \in Queued' : it.id <= writes' /\ \A p \in Place : Hits(it, p) => it.id <= latest'[p]
    BY <1>6, <1>9, <2>2, <2>3 DEF QueueInv, WaitInOrder
  <2>5. \A w \in WorkerIds : \A it \in Handed(w)' :
            it.id <= writes' /\ \A p \in Place : Hits(it, p) => it.id <= latest'[p]
    BY <1>6, <1>9, <2>2 DEF QueueInv, WaitInOrder
  <2>6. \A w \in WorkerIds : \A i, j \in 1 .. Len(dealt'[w]), p \in Place :
           i < j /\ Hits(dealt'[w][i], p) /\ Hits(dealt'[w][j], p) /\ p \notin reordered'
           => dealt'[w][i].id < dealt'[w][j].id
    BY <1>1 DEF QueueInv, WaitInOrder
  <2>. QED BY <2>1, <2>4, <2>5, <2>6 DEF WaitInOrder, Hits
<1>12. HoldsOrWaits'
  <2>1. SUFFICES ASSUME NEW p \in Place, Fine(p)'
                 PROVE  /\ content'[p] <= latest'[p]
                        /\ \A it \in Queued' \cup Handed(p[1] % Workers)' :
                               Hits(it, p) => content'[p] < it.id
                        /\ \/ content'[p] = latest'[p]
                           \/ \E it \in Queued' \cup Handed(p[1] % Workers)' :
                                  Hits(it, p) /\ it.id = latest'[p]
    BY DEF HoldsOrWaits, Hits
  <2>2. /\ content[p] <= latest[p]
        /\ \A it \in Queued \cup Handed(p[1] % Workers) : Hits(it, p) => content[p] < it.id
        /\ \/ content[p] = latest[p]
           \/ \E it \in Queued \cup Handed(p[1] % Workers) : Hits(it, p) /\ it.id = latest[p]
    BY <1>1, <2>1 DEF QueueInv, HoldsOrWaits, Fine
  <2>3. content'[p] = content[p] /\ content[p] \in Nat /\ latest[p] \in Nat /\ latest[p] <= writes
    BY <1>1, <1>2, <1>7, Waiting
  <2>4. content[p] < writes + 1
    BY <1>2, <2>2, <2>3
  <2>5. \A it \in Queued' \cup Handed(p[1] % Workers)' : Hits(it, p) => content'[p] < it.id
    BY <1>3, <1>6, <2>2, <2>3, <2>4
  <2>6. CASE Hits(op, p)
    BY <1>2, <1>3, <1>6, <1>7, <2>3, <2>4, <2>5, <2>6
  <2>7. CASE ~Hits(op, p)
    BY <1>6, <1>7, <2>2, <2>3, <2>5, <2>7
  <2>. QED BY <2>6, <2>7
<1>13. SeekLeftOut'
  BY <1>1 DEF QueueInv, SeekLeftOut
<1>. QED BY <1>5, <1>10, <1>11, <1>12, <1>13 DEF QueueInv

(* A worker has done with its first operation: the places that stay fine   *)
(* hold it where it was to go, and elsewhere what they held.               *)
LEMMA FirstIsDone ==
  ASSUME QueueInv, NEW w \in WorkerIds, dealt[w] # <<>>,
         dealt' = [dealt EXCEPT ![w] = Tail(@)],
         UNCHANGED <<submitted, latest, reordered, writes>>, spoilt \subseteq spoilt',
         \A p \in Place : p \notin spoilt' =>
             content'[p] = IF Hits(Head(dealt[w]), p) THEN Head(dealt[w]).id ELSE content[p]
  PROVE  /\ dealt' \in [WorkerIds -> Seq(Operations)]
         /\ ComeInOrder' /\ WaitInOrder' /\ HoldsOrWaits'
<1>. DEFINE op == Head(dealt[w])
            n == Len(dealt[w])
<1>1. \A p \in Place : p \notin spoilt' => content'[p] = IF Hits(op, p) THEN op.id ELSE content[p]
  OBVIOUS
<1>2. dealt \in [WorkerIds -> Seq(Operations)] /\ QueueTypeOK
  BY QueueTypes DEF QueueInv
<1>3. /\ n \in Nat /\ n > 0 /\ op = dealt[w][1] /\ op \in Operations
      /\ Tail(dealt[w]) \in Seq(Operations) /\ Len(Tail(dealt[w])) = n - 1
      /\ \A i \in 1 .. n - 1 : Tail(dealt[w])[i] = dealt[w][i + 1]
  <2>1. dealt[w] \in Seq(Operations) /\ dealt[w] # <<>>
    BY <1>2
  <2>. QED BY ONLY <2>1
<1>. HIDE DEF op, n
<1>4. op.id \in Nat /\ op.file \in Nat
  BY <1>3, OperationTyped
<1>6. /\ dealt' \in [WorkerIds -> Seq(Operations)] /\ dealt'[w] = Tail(dealt[w])
      /\ \A v \in WorkerIds : v # w => dealt'[v] = dealt[v]
  BY <1>2, <1>3
<1>7. /\ \A i \in 1 .. n - 1 : i + 1 \in 1 .. n /\ i + 1 > 1 /\ i \in Nat
      /\ \A i \in 1 .. n : i > 1 => i - 1 \in 1 .. n - 1 /\ (i - 1) + 1 = i
      /\ 1 \in 1 .. n
  BY <1>3
<1>8. /\ Queued' = Queued /\ op \in Handed(w)
      /\ \A v \in WorkerIds : v # w => Handed(v)' = Handed(v)
      /\ Handed(w)' \subseteq Handed(w) /\ Handed(w) \subseteq Handed(w)' \cup {op}
  <2>1. Queued' = Queued /\ \A v \in WorkerIds : v # w => Handed(v)' = Handed(v)
    BY <1>6 DEF Queued, Handed
  <2>2. op \in Handed(w)
    BY <1>3, <1>7 DEF Handed, n
  <2>3. Handed(w)' = {Tail(dealt[w])[i] : i \in 1 .. n - 1}
    BY <1>3, <1>6 DEF Handed
  <2>4. Handed(w) = {dealt[w][i] : i \in 1 .. n}
    BY DEF Handed, n
  <2>5. Handed(w)' \subseteq Handed(w)
    BY <1>3, <1>7, <2>3, <2>4
  <2>6. ASSUME NEW i \in 1 .. n PROVE dealt[w][i] \in Handed(w)' \cup {op}
    <3>1. CASE i = 1
      BY <1>3, <3>1
    <3>2. CASE i # 1
      <4>1. i - 1 \in 1 .. n - 1 /\ (i - 1) + 1 = i
        BY <1>3, <1>7, <3>2
      <4>2. Tail(dealt[w])[i - 1] = dealt[w][i]
        BY <1>3, <4>1
      <4>. QED BY <2>3, <4>1, <4>2
    <3>. QED BY <3>1, <3>2
  <2>. QED BY <2>1, <2>2, <2>4, <2>5, <2>6
<1>9. ASSUME NEW it \in Handed(w)', NEW p \in Place, Hits(it, p), Hits(op, p), p \notin reordered
      PROVE  op.id < it.id
  <2>1. PICK i \in 1 .. n - 1 : it = Tail(dealt[w])[i]
    BY <1>3, <1>6 DEF Handed
  <2>2. /\ it = dealt[w][i + 1] /\ i + 1 \in 1 .. n /\ 1 \in 1 .. n /\ 1 < i + 1
    BY <1>3, <1>7, <2>1
  <2>. QED BY <1>3, <1>9, <2>2 DEF QueueInv, WaitInOrder, n
<1>11. ComeInOrder'
  <2>1. \A i, j \in 1 .. Len(submitted') : i < j => submitted'[i].id < submitted'[j].id
    BY DEF QueueInv, ComeInOrder
  <2>2. \A v \in WorkerIds : \A it \in Handed(v)' :
            it.file % Workers = v /\ \A late \in Queued' : it.id < late.id
    BY <1>8 DEF QueueInv, ComeInOrder
  <2>. QED BY <2>1, <2>2 DEF ComeInOrder
<1>12. WaitInOrder'
  <2>1. /\ \A p \in Place : latest'[p] <= writes'
        /\ \A it \in Queued' :
               it.id <= writes' /\ \A p \in Place : Hits(it, p) => it.id <= latest'[p]
        /\ \A v \in WorkerIds : \A it \in Handed(v)' :
               it.id <= writes' /\ \A p \in Place : Hits(it, p) => it.id <= latest'[p]
    BY <1>8 DEF QueueInv, WaitInOrder
  <2>2. ASSUME NEW v \in WorkerIds, NEW i \in 1 .. Len(dealt'[v]), NEW j \in 1 .. Len(dealt'[v]), i < j,
               NEW p \in Place, Hits(dealt'[v][i], p), Hits(dealt'[v][j], p), p \notin reordered
        PROVE  dealt'[v][i].id < dealt'[v][j].id
    <3>1. CASE v # w
      BY <1>6, <2>2, <3>1 DEF QueueInv, WaitInOrder
    <3>2. CASE v = w
      <4>1. /\ i + 1 \in 1 .. n /\ j + 1 \in 1 .. n /\ i + 1 < j + 1
            /\ dealt'[w][i] = dealt[w][i + 1] /\ dealt'[w][j] = dealt[w][j + 1]
        BY <1>3, <1>6, <1>7, <2>2, <3>2
      <4>. QED BY <2>2, <3>2, <4>1 DEF QueueInv, WaitInOrder, n
    <3>. QED BY <3>1, <3>2
  <2>3. reordered' = reordered
    OBVIOUS
  <2>. QED BY ONLY <2>1, <2>2, <2>3 DEF WaitInOrder, Hits
<1>13. HoldsOrWaits'
  <2>1. SUFFICES ASSUME NEW p \in Place, Fine(p)'
                 PROVE  /\ content'[p] <= latest'[p]
                        /\ \A it \in Queued' \cup Handed(p[1] % Workers)' :
                               Hits(it, p) => content'[p] < it.id
                        /\ \/ content'[p] = latest'[p]
                           \/ \E it \in Queued' \cup Handed(p[1] % Workers)' :
                                  Hits(it, p) /\ it.id = latest'[p]
    BY DEF HoldsOrWaits, Hits
  <2> DEFINE v == p[1] % Workers
  <2>2. Fine(p) /\ p \notin reordered
    BY <2>1 DEF Fine
  <2>3. /\ content[p] <= latest[p]
        /\ \A it \in Queued \cup Handed(v) : Hits(it, p) => content[p] < it.id
        /\ \/ content[p] = latest[p]
           \/ \E it \in Queued \cup Handed(v) : Hits(it, p) /\ it.id = latest[p]
    BY <2>2 DEF QueueInv, HoldsOrWaits
  <2>4. v \in WorkerIds /\ content[p] \in Nat /\ latest[p] \in Nat /\ latest'[p] = latest[p]
    BY Waiting DEF QueueInv
  <2>5. content'[p] = IF Hits(op, p) THEN op.id ELSE content[p]
    BY <1>1, <2>1 DEF Fine
  <2>6. Hits(op, p) => v = w
    BY <1>8 DEF QueueInv, ComeInOrder, Hits
  <2>. HIDE DEF v
  <2>7. /\ Handed(v)' \subseteq Handed(v)
        /\ \A it \in Handed(v) : it \in Handed(v)' \/ it = op
    BY <1>8, <2>4
  <2>8. CASE ~Hits(op, p)
    <3>1. content'[p] = content[p]
      BY <2>5, <2>8
    <3>2. \A it \in Queued' \cup Handed(v)' : Hits(it, p) => content'[p] < it.id
      BY <1>8, <2>3, <2>7, <3>1
    <3>3. \/ content'[p] = latest'[p]
          \/ \E it \in Queued' \cup Handed(v)' : Hits(it, p) /\ it.id = latest'[p]
      BY <1>8, <2>3, <2>4, <2>7, <2>8, <3>1
    <3>. QED BY <2>3, <2>4, <3>1, <3>2, <3>3 DEF v
  <2>9. CASE Hits(op, p)
    <3>1. v = w /\ content'[p] = op.id
      BY <2>5, <2>6, <2>9
    <3>2. op.id <= latest[p] /\ content[p] < op.id
      BY <1>8, <2>3, <2>9, <3>1 DEF QueueInv, WaitInOrder
    <3>3. \A it \in Queued' : op.id < it.id
      BY <1>8 DEF QueueInv, ComeInOrder
    <3>4. \A it \in Handed(w)' : Hits(it, p) => op.id < it.id
      BY <1>9, <2>2, <2>9
    <3>5. CASE op.id = latest[p]
      BY <2>4, <3>1, <3>2, <3>3, <3>4, <3>5 DEF v
    <3>6. CASE op.id # latest[p]
      <4>1. PICK it \in Queued \cup Handed(v) : Hits(it, p) /\ it.id = latest[p]
        BY <1>4, <2>3, <2>4, <3>2
      <4>2. it # op
        BY <3>6, <4>1
      <4>3. it \in Queued' \cup Handed(v)'
        BY <1>8, <2>7, <4>1, <4>2
      <4>. QED BY <2>4, <3>1, <3>2, <3>3, <3>4, <4>1, <4>3 DEF v
    <3>. QED BY <3>5, <3>6
  <2>. QED BY <2>8, <2>9
<1>. QED BY <1>6, <1>11, <1>12, <1>13

(* Of the operations on a place the worker writes the earliest first,      *)
(* unless the sort turned them, and where it was to go, unless the file    *)
(* has seen a failure.                                                     *)
LEMMA WorkKeeps ==
  ASSUME QueueInv, NEW w \in WorkerIds, Work(w)
  PROVE  QueueInv'
<1>. DEFINE op == Head(dealt[w])
            at == IF expected[op.file] = op.at THEN position[op.file] ELSE op.at
<1>1. /\ dealt[w] # <<>> /\ dealt' = [dealt EXCEPT ![w] = Tail(@)]
      /\ UNCHANGED <<submitted, latest, reordered, writes>>
  BY DEF Work
<1>2. PICK done \in 0 .. op.size, told \in BOOLEAN :
        /\ told => done < op.size
        /\ position' = [position EXCEPT ![op.file] = at + done]
        /\ expected' = IF told THEN expected
                       ELSE [expected EXCEPT ![op.file] = op.at + op.size]
        /\ content' = [p \in Place |-> IF p \in Covered(op.file, at, done) THEN op.id ELSE content[p]]
        /\ short' = IF done = op.size THEN short ELSE short \cup {op.file}
        /\ spoilt' = IF op.file \in short' /\ (done # op.size \/ at # op.at)
                     THEN spoilt \cup Target(op) \cup Covered(op.file, at, done) ELSE spoilt
  BY DEF Work
<1>3. /\ submitted \in Seq(Operations) /\ dealt \in [WorkerIds -> Seq(Operations)]
      /\ position \in [QueueFiles -> Nat] /\ expected \in [QueueFiles -> Nat \cup {-1}]
      /\ content \in [Place -> 0 .. MaxWrites] /\ latest \in [Place -> 0 .. MaxWrites]
      /\ reordered \subseteq Place /\ spoilt \subseteq Place
      /\ short \subseteq QueueFiles /\ writes \in 0 .. MaxWrites
  BY QueueTypes DEF QueueInv
<1>4. op \in Operations
  <2>1. dealt[w] \in Seq(Operations) /\ dealt[w] # <<>>
    BY <1>1, <1>3
  <2>. QED BY ONLY <2>1
<1>. HIDE DEF op
<1>5. /\ op.id \in Nat /\ op.id \in 1 .. MaxWrites /\ op.file \in QueueFiles
      /\ op.at \in Nat /\ op.size \in Nat
      /\ \A p \in Place : p \in Target(op) <=> Hits(op, p)
  BY <1>4, OperationTyped
<1>. HIDE DEF at
<1>6. at \in Nat /\ (op.file \notin short => at = op.at)
  BY <1>3, <1>5 DEF QueueInv, SeekLeftOut, at
<1>7. done \in Nat
  BY <1>5
<1>8. QueueTypeOK'
  <2>1. position' \in [QueueFiles -> Nat]
    <3>1. at + done \in Nat
      BY <1>6, <1>7
    <3>. QED BY ONLY <1>2, <1>3, <3>1
  <2>2. expected' \in [QueueFiles -> Nat \cup {-1}]
    <3>1. op.at + op.size \in Nat \cup {-1}
      BY <1>5
    <3>. QED BY ONLY <1>2, <1>3, <3>1
  <2>3. content' \in [Place -> 0 .. MaxWrites]
    <3>1. op.id \in 0 .. MaxWrites
      BY <1>5, WriteQueueAssumption
    <3>. QED BY <1>2, <1>3, <3>1
  <2>4. short' \subseteq QueueFiles
    BY <1>2, <1>3, <1>5
  <2>5. spoilt' \subseteq Place
    BY <1>2, <1>3 DEF Target, Covered
  <2>6. dealt' \in [WorkerIds -> Seq(Operations)]
    <3>1. dealt[w] \in Seq(Operations)
      BY <1>3
    <3>2. Tail(dealt[w]) \in Seq(Operations)
      BY ONLY <1>1, <3>1
    <3>. QED BY ONLY <1>1, <1>3, <3>2
  <2>. QED BY <1>1, <1>3, <2>1, <2>2, <2>3, <2>4, <2>5, <2>6, QueueTypesNext
<1>9. ASSUME spoilt' = spoilt, ~(op.file \in short' /\ (done # op.size \/ at # op.at))
      PROVE  done = op.size /\ at = op.at
  <2>1. done # op.size => op.file \in short'
    BY <1>2
  <2>2. done = op.size
    BY <1>9, <2>1
  <2>3. short' = short
    BY <1>2, <2>2
  <2>. QED BY <1>6, <1>9, <2>2, <2>3
<1>10. ASSUME NEW p \in Place, p \notin spoilt'
       PROVE  content'[p] = IF Hits(op, p) THEN op.id ELSE content[p]
  <2>1. content'[p] = IF p \in Covered(op.file, at, done) THEN op.id ELSE content[p]
    BY <1>2
  <2>2. CASE op.file \in short' /\ (done # op.size \/ at # op.at)
    <3>1. p \notin Target(op) /\ p \notin Covered(op.file, at, done)
      BY <1>2, <1>10, <2>2
    <3>. QED BY <1>5, <2>1, <3>1
  <2>3. CASE ~(op.file \in short' /\ (done # op.size \/ at # op.at))
    <3>1. Covered(op.file, at, done) = Target(op)
      BY <1>2, <1>9, <2>3 DEF Target
    <3>. QED BY <1>5, <2>1, <3>1
  <2>. QED BY <2>2, <2>3
<1>11. ComeInOrder' /\ WaitInOrder' /\ HoldsOrWaits'
  <2>1. spoilt \subseteq spoilt'
    BY <1>2
  <2>2. \A p \in Place : p \notin spoilt' =>
             content'[p] = IF Hits(Head(dealt[w]), p) THEN Head(dealt[w]).id ELSE content[p]
    BY <1>10 DEF op
  <2>. QED BY <1>1, <2>1, <2>2, FirstIsDone
<1>12. SeekLeftOut'
  <2>1. SUFFICES ASSUME NEW f \in QueueFiles, f \notin short', expected'[f] # -1
                 PROVE  position'[f] = expected'[f]
    BY DEF SeekLeftOut
  <2>2. f \notin short
    BY <1>2, <2>1
  <2>3. CASE f # op.file
    <3>1. position'[f] = position[f] /\ expected'[f] = expected[f]
      BY <1>2, <1>3, <2>3
    <3>. QED BY <2>1, <2>2, <3>1 DEF QueueInv, SeekLeftOut
  <2>4. CASE f = op.file
    <3>1. at = op.at
      BY <1>6, <2>2, <2>4
    <3>2. done = op.size
      BY <1>2, <2>1, <2>4
    <3>3. ~told
      BY <1>2, <1>5, <3>2
    <3>4. expected'[f] = op.at + op.size /\ position'[f] = at + done
      BY <1>2, <1>3, <1>5, <2>4, <3>3
    <3>. QED BY <3>1, <3>2, <3>4
  <2>. QED BY <2>3, <2>4
<1>. QED BY <1>8, <1>11, <1>12 DEF QueueInv

LEMMA WorkFailsKeeps ==
  ASSUME QueueInv, NEW w \in WorkerIds, WorkFails(w)
  PROVE  QueueInv'
<1>1. /\ dealt[w] # <<>> /\ dealt' = [dealt EXCEPT ![w] = Tail(@)]
      /\ spoilt' = spoilt \cup Target(Head(dealt[w]))
      /\ UNCHANGED <<submitted, position, expected, content, latest, reordered, short, writes>>
  BY DEF WorkFails
<1>2. Head(dealt[w]) \in Operations
  <2>1. dealt \in [WorkerIds -> Seq(Operations)]
    BY QueueTypes DEF QueueInv
  <2>2. dealt[w] \in Seq(Operations) /\ dealt[w] # <<>>
    BY <1>1, <2>1
  <2>. QED BY ONLY <2>2
<1>3. \A p \in Place : p \notin spoilt' => ~Hits(Head(dealt[w]), p)
  BY <1>1, <1>2, OperationTyped
<1>4. \A p \in Place : p \notin spoilt' =>
          content'[p] = IF Hits(Head(dealt[w]), p) THEN Head(dealt[w]).id ELSE content[p]
  BY <1>1, <1>3
<1>5. spoilt \subseteq spoilt'
  BY <1>1
<1>6. /\ dealt' \in [WorkerIds -> Seq(Operations)]
      /\ ComeInOrder' /\ WaitInOrder' /\ HoldsOrWaits'
  BY <1>1, <1>4, <1>5, FirstIsDone
<1>7. QueueTypeOK'
  <2>1. spoilt' \subseteq Place
    BY <1>1, QueueTypes DEF QueueInv, Target, Covered
  <2>. QED BY <1>1, <1>6, <2>1, QueueTypes, QueueTypesNext DEF QueueInv
<1>8. SeekLeftOut'
  BY <1>1 DEF QueueInv, SeekLeftOut
<1>. QED BY <1>6, <1>7, <1>8 DEF QueueInv

(* The batch is the earliest of what waits, and each worker has its part   *)
(* of it behind what it had.                                               *)
LEMMA DispatchKeeps ==
  ASSUME QueueInv, Dispatch
  PROVE  QueueInv'
<1>1. PICK n \in 1 .. Len(submitted) :
        LET batch == {submitted[i] : i \in 1 .. n}
        IN /\ dealt' = [w \in WorkerIds |->
                 dealt[w] \o InOrder({op \in batch : op.file % Workers = w})]
           /\ reordered' = reordered \cup Overlapped(batch)
           /\ submitted' = SubSeq(submitted, n + 1, Len(submitted))
  BY DEF Dispatch
<1>. DEFINE batch == {submitted[i] : i \in 1 .. n}
            mine(w) == {op \in batch : op.file % Workers = w}
            added(w) == InOrder(mine(w))
            m == Len(submitted)
<1>2. UNCHANGED <<position, expected, content, latest, short, spoilt, writes>>
  BY DEF Dispatch
<1>3. /\ submitted \in Seq(Operations) /\ dealt \in [WorkerIds -> Seq(Operations)]
      /\ reordered \subseteq Place /\ QueueTypeOK
      /\ Queued \subseteq Operations /\ \A w \in WorkerIds : Handed(w) \subseteq Operations
  BY QueueTypes, Waiting DEF QueueInv
<1>4. m \in Nat /\ n \in Nat /\ n >= 1 /\ n <= m
  BY <1>3
<1>5. /\ submitted' \in Seq(Operations) /\ Len(submitted') = m - n
      /\ \A i \in 1 .. m - n : submitted'[i] = submitted[n + i]
  <2>1. submitted' = SubSeq(submitted, n + 1, m)
    BY <1>1
  <2>. HIDE DEF m
  <2>2. submitted \in Seq(Operations) /\ m = Len(submitted)
    BY <1>3 DEF m
  <2>. QED BY ONLY <1>4, <2>1, <2>2
<1>6. \A i, j \in 1 .. m : i < j => submitted[i].id < submitted[j].id
  BY DEF QueueInv, ComeInOrder
<1>7. \A i \in 1 .. m : submitted[i] \in Queued /\ submitted[i].id \in Nat
  <2>1. \A op \in Operations : op.id \in Nat
    BY OperationTyped
  <2>. QED BY <1>3, <2>1 DEF Queued
<1>8. Queued = {submitted[i] : i \in 1 .. m} /\ Queued' = {submitted[n + i] : i \in 1 .. m - n}
  BY <1>5 DEF Queued
<1>. HIDE DEF m
<1>9. /\ batch \subseteq Queued /\ Queued' \subseteq Queued
      /\ \A op \in Queued : op \in batch \/ op \in Queued'
      /\ \A early \in batch, late \in Queued' : early.id < late.id
      /\ \A a, b \in batch : a.id = b.id => a = b
  <2>1. /\ \A i \in 1 .. n : i \in 1 .. m
        /\ \A i \in 1 .. m - n : n + i \in 1 .. m
        /\ \A i \in 1 .. n, j \in 1 .. m - n : i < n + j
        /\ \A i \in 1 .. m : i \in 1 .. n \/ (i - n \in 1 .. m - n /\ n + (i - n) = i)
    BY <1>4
  <2>2. batch \subseteq Queued /\ Queued' \subseteq Queued
    BY <1>8, <2>1
  <2>3. \A i \in 1 .. m : submitted[i] \in batch \/ submitted[i] \in Queued'
    <3>1. SUFFICES ASSUME NEW i \in 1 .. m, i \notin 1 .. n PROVE submitted[i] \in Queued'
      OBVIOUS
    <3>2. i - n \in 1 .. m - n /\ submitted[n + (i - n)] = submitted[i]
      BY <2>1, <3>1
    <3>. QED BY <1>8, <3>2
  <2>4. \A early \in batch, late \in Queued' : early.id < late.id
    BY <1>6, <1>8, <2>1
  <2>5. \A i, j \in 1 .. m : submitted[i].id = submitted[j].id => submitted[i] = submitted[j]
    <3>1. SUFFICES ASSUME NEW i \in 1 .. m, NEW j \in 1 .. m, submitted[i].id = submitted[j].id
                   PROVE  i = j
      OBVIOUS
    <3>2. submitted[i].id \in Nat /\ submitted[j].id \in Nat
      BY <1>7
    <3>3. ~(submitted[i].id < submitted[j].id) /\ ~(submitted[j].id < submitted[i].id)
      BY ONLY <3>1, <3>2
    <3>4. ~(i < j) /\ ~(j < i)
      BY <1>6, <3>3
    <3>. QED BY <1>4, <3>4
  <2>6. \A a, b \in batch : a.id = b.id => a = b
    BY <2>1, <2>5
  <2>. QED BY <1>8, <2>2, <2>3, <2>4, <2>6
<1>10. IsFiniteSet(batch)
  <2> DEFINE nth == [i \in 1 .. n |-> submitted[i]]
  <2>1. nth \in Surjection(1 .. n, batch)
    BY DEF Surjection
  <2>2. IsFiniteSet(1 .. n)
    BY <1>4, FS_Interval
  <2>. HIDE DEF nth, batch
  <2>. QED BY <2>1, <2>2, FS_Surjection
<1>. HIDE DEF batch
<1>11. ASSUME NEW w \in WorkerIds
       PROVE  /\ added(w) \in Seq(Operations)
              /\ mine(w) = {added(w)[i] : i \in 1 .. Len(added(w))}
              /\ \A i, j \in 1 .. Len(added(w)) : i < j => Sooner(added(w)[i], added(w)[j])
  <2>1. mine(w) \in SUBSET Operations /\ mine(w) \in SUBSET batch
    BY <1>3, <1>9
  <2>2. \A a, b \in mine(w) : a.id = b.id => a = b
    BY <1>9
  <2>3. IsFiniteSet(mine(w))
    BY <1>10, <2>1, FS_Subset
  <2>. HIDE DEF mine
  <2>4. /\ added(w) \in Seq(mine(w))
        /\ mine(w) = {added(w)[i] : i \in 1 .. Len(added(w))}
        /\ \A i, j \in 1 .. Len(added(w)) : i < j => Sooner(added(w)[i], added(w)[j])
    BY <2>1, <2>2, <2>3, SortedInOrder
  <2>. HIDE DEF added
  <2>5. added(w) \in Seq(Operations)
    BY <2>1, <2>4
  <2>. QED BY <2>4, <2>5
<1>12. \A w \in WorkerIds : dealt'[w] = dealt[w] \o added(w)
  BY <1>1 DEF batch
<1>13. dealt' = [w \in WorkerIds |-> dealt'[w]]
  BY <1>1
<1>14. reordered' = reordered \cup Overlapped(batch) /\ Overlapped(batch) \subseteq Place
  BY <1>1 DEF batch, Overlapped
<1>. HIDE DEF added
<1>15. ASSUME NEW w \in WorkerIds
       PROVE  /\ dealt'[w] \in Seq(Operations) /\ Len(dealt'[w]) = Len(dealt[w]) + Len(added(w))
              /\ \A i \in 1 .. Len(dealt[w]) + Len(added(w)) :
                    dealt'[w][i] = IF i <= Len(dealt[w]) THEN dealt[w][i] ELSE added(w)[i - Len(dealt[w])]
              /\ Len(dealt[w]) \in Nat /\ Len(added(w)) \in Nat
  <2>1. dealt[w] \in Seq(Operations) /\ added(w) \in Seq(Operations)
    BY <1>3, <1>11
  <2> DEFINE had == dealt[w]
             got == added(w)
  <2>2. dealt'[w] = had \o got
    BY <1>12
  <2>3. Len(had) \in Nat /\ Len(got) \in Nat
    BY <2>1
  <2>. HIDE DEF had, got
  <2>4. had \in Seq(Operations) /\ got \in Seq(Operations)
    BY <2>1 DEF had, got
  <2>5. /\ had \o got \in Seq(Operations) /\ Len(had \o got) = Len(had) + Len(got)
        /\ \A i \in 1 .. Len(had) + Len(got) :
               (had \o got)[i] = IF i <= Len(had) THEN had[i] ELSE got[i - Len(had)]
    BY ONLY <2>4, Joined
  <2>. QED BY <2>2, <2>3, <2>5 DEF had, got
<1>16. QueueTypeOK'
  <2>1. dealt' \in [WorkerIds -> Seq(Operations)]
    BY <1>13, <1>15
  <2>2. reordered' \subseteq Place
    BY <1>3, <1>14
  <2>. QED BY <1>2, <1>3, <1>5, <2>1, <2>2, QueueTypes, QueueTypesNext
<1>17. \A w \in WorkerIds : Handed(w)' = Handed(w) \cup mine(w)
  <2>1. SUFFICES ASSUME NEW w \in WorkerIds PROVE Handed(w)' = Handed(w) \cup mine(w)
    OBVIOUS
  <2> DEFINE a == Len(dealt[w])
             b == Len(added(w))
  <2>2. /\ Handed(w) = {dealt[w][i] : i \in 1 .. a} /\ mine(w) = {added(w)[i] : i \in 1 .. b}
        /\ Handed(w)' = {dealt'[w][i] : i \in 1 .. a + b}
    BY <1>11, <1>15 DEF Handed
  <2>3. /\ a \in Nat /\ b \in Nat
        /\ \A i \in 1 .. a + b : dealt'[w][i] = IF i <= a THEN dealt[w][i] ELSE added(w)[i - a]
    BY <1>15
  <2>. HIDE DEF a, b, mine
  <2>4. \A i \in 1 .. a : i \in 1 .. a + b /\ dealt'[w][i] = dealt[w][i]
    BY <2>3
  <2>5. \A i \in 1 .. b : i + a \in 1 .. a + b /\ dealt'[w][i + a] = added(w)[i]
    <3>1. \A i \in 1 .. b : i + a \in 1 .. a + b /\ ~(i + a <= a) /\ (i + a) - a = i
      BY <2>3
    <3>. QED BY <2>3, <3>1
  <2>6. \A i \in 1 .. a + b : \/ i \in 1 .. a /\ dealt'[w][i] = dealt[w][i]
                              \/ i - a \in 1 .. b /\ dealt'[w][i] = added(w)[i - a]
    BY <2>3
  <2>7. Handed(w)' \subseteq Handed(w) \cup mine(w)
    BY <2>2, <2>6
  <2>8. Handed(w) \cup mine(w) \subseteq Handed(w)'
    BY <2>2, <2>4, <2>5
  <2>. QED BY <2>7, <2>8
<1>18. ComeInOrder'
  <2>1. ASSUME NEW i \in 1 .. Len(submitted'), NEW j \in 1 .. Len(submitted'), i < j
        PROVE  submitted'[i].id < submitted'[j].id
    <3>1. /\ i \in 1 .. m - n /\ j \in 1 .. m - n
          /\ n + i \in 1 .. m /\ n + j \in 1 .. m /\ n + i < n + j
      BY <1>4, <1>5, <2>1
    <3>. QED BY <1>5, <1>6, <3>1
  <2>2. ASSUME NEW w \in WorkerIds, NEW op \in Handed(w)'
        PROVE  op.file % Workers = w /\ \A late \in Queued' : op.id < late.id
    <3>1. CASE op \in Handed(w)
      BY <1>9, <3>1 DEF QueueInv, ComeInOrder
    <3>2. CASE op \in mine(w)
      BY <1>9, <3>2
    <3>. QED BY <1>17, <2>2, <3>1, <3>2
  <2>. QED BY <2>1, <2>2 DEF ComeInOrder
<1>19. WaitInOrder'
  <2>1. \A p \in Place : latest'[p] <= writes'
    BY <1>2 DEF QueueInv, WaitInOrder
  <2>2. \A op \in Queued : op.id <= writes' /\ \A p \in Place : Hits(op, p) => op.id <= latest'[p]
    BY <1>2 DEF QueueInv, WaitInOrder
  <2>3. \A op \in Queued' : op.id <= writes' /\ \A p \in Place : Hits(op, p) => op.id <= latest'[p]
    BY <1>9, <2>2
  <2>4. \A w \in WorkerIds : \A op \in Handed(w)' :
            op.id <= writes' /\ \A p \in Place : Hits(op, p) => op.id <= latest'[p]
    <3>1. \A w \in WorkerIds : \A op \in Handed(w) :
              op.id <= writes' /\ \A p \in Place : Hits(op, p) => op.id <= latest'[p]
      BY <1>2 DEF QueueInv, WaitInOrder
    <3>2. \A w \in WorkerIds : mine(w) \subseteq Queued
      BY <1>9
    <3>. QED BY <1>17, <2>2, <3>1, <3>2
  <2>5. ASSUME NEW w \in WorkerIds, NEW i \in 1 .. Len(dealt'[w]), NEW j \in 1 .. Len(dealt'[w]), i < j,
               NEW p \in Place, Hits(dealt'[w][i], p), Hits(dealt'[w][j], p), p \notin reordered'
        PROVE  dealt'[w][i].id < dealt'[w][j].id
    <3> DEFINE a == Len(dealt[w])
               b == Len(added(w))
    <3>1. /\ a \in Nat /\ b \in Nat /\ i \in 1 .. a + b /\ j \in 1 .. a + b
          /\ dealt'[w][i] = IF i <= a THEN dealt[w][i] ELSE added(w)[i - a]
          /\ dealt'[w][j] = IF j <= a THEN dealt[w][j] ELSE added(w)[j - a]
      BY <1>15
    <3>2. p \notin reordered
      BY <1>14, <2>5
    <3>3. CASE j <= a
      <4>1. i \in 1 .. a /\ j \in 1 .. a /\ dealt'[w][i] = dealt[w][i] /\ dealt'[w][j] = dealt[w][j]
        BY <2>5, <3>1, <3>3
      <4>. QED BY <2>5, <3>2, <4>1 DEF QueueInv, WaitInOrder
    <3>4. CASE i <= a /\ ~(j <= a)
      <4>1. i \in 1 .. a /\ j - a \in 1 .. b
        BY <3>1, <3>4
      <4>2. dealt'[w][i] \in Handed(w) /\ dealt'[w][j] \in Queued
        <5>1. dealt'[w][i] = dealt[w][i] /\ dealt'[w][j] = added(w)[j - a]
          BY <3>1, <3>4
        <5>2. added(w)[j - a] \in mine(w)
          BY <1>11, <4>1
        <5>. QED BY <1>9, <4>1, <5>1, <5>2 DEF Handed
      <4>. QED BY <4>2 DEF QueueInv, ComeInOrder
    <3>5. CASE ~(i <= a)
      <4> DEFINE early == added(w)[i - a]
                 late == added(w)[j - a]
      <4>1. /\ dealt'[w][i] = early /\ dealt'[w][j] = late
            /\ i - a \in 1 .. b /\ j - a \in 1 .. b /\ i - a < j - a
        <5>1. ~(j <= a)
          BY <2>5, <3>1, <3>5
        <5>2. i - a \in 1 .. b /\ j - a \in 1 .. b /\ i - a < j - a
          <6>1. /\ a \in Nat /\ b \in Nat /\ i \in 1 .. a + b /\ j \in 1 .. a + b
                /\ ~(i <= a) /\ ~(j <= a) /\ i < j
            BY <2>5, <3>1, <3>5, <5>1
          <6>. HIDE DEF a, b
          <6>2. i \in Int /\ j \in Int /\ i > a /\ j > a /\ i <= a + b /\ j <= a + b
            BY ONLY <6>1
          <6>. QED BY ONLY <6>1, <6>2
        <5>. QED BY <3>1, <3>5, <5>1, <5>2
      <4>2. Sooner(early, late) /\ early \in mine(w) /\ late \in mine(w)
        BY <1>11, <4>1
      <4>. HIDE DEF early, late
      <4>3. early \in batch /\ late \in batch /\ early \in Operations /\ late \in Operations
        BY <1>3, <1>9, <4>2
      <4>4. Hits(early, p) /\ Hits(late, p) /\ p \in Target(early) /\ p \in Target(late)
        BY <2>5, <4>1, <4>3, OperationTyped
      <4>5. /\ early.id \in Nat /\ late.id \in Nat /\ early.rank \in Nat /\ late.rank \in Nat
            /\ early.file \in Nat /\ early.at \in Nat /\ late.at \in Nat
            /\ early.file = late.file
        BY <4>3, <4>4, OperationTyped DEF Hits
      <4>6. ~ /\ late.id < early.id
              /\ early.rank < late.rank \/ (early.rank = late.rank /\ early.at < late.at)
        <5>1. p \notin Overlapped(batch)
          BY <1>14, <2>5
        <5>. QED BY <4>3, <4>4, <5>1 DEF Overlapped
      <4>7. \/ early.rank < late.rank \/ (early.rank = late.rank /\ early.at < late.at)
            \/ early.id < late.id
        BY ONLY <4>2, <4>5 DEF Sooner
      <4>8. early.id # late.id
        <5>1. early.id = late.id => early = late
          BY <1>9, <4>3
        <5>2. ~Sooner(early, early)
          BY <4>3, SoonerOrders
        <5>. QED BY <4>2, <5>1, <5>2
      <4>. QED BY <4>1, <4>5, <4>6, <4>7, <4>8
    <3>. QED BY <2>5, <3>1, <3>3, <3>4, <3>5
  <2>. QED BY <2>1, <2>3, <2>4, <2>5 DEF WaitInOrder, Hits
<1>20. HoldsOrWaits'
  <2>1. SUFFICES ASSUME NEW p \in Place, Fine(p)'
                 PROVE  /\ content'[p] <= latest'[p]
                        /\ \A it \in Queued' \cup Handed(p[1] % Workers)' :
                               Hits(it, p) => content'[p] < it.id
                        /\ \/ content'[p] = latest'[p]
                           \/ \E it \in Queued' \cup Handed(p[1] % Workers)' :
                                  Hits(it, p) /\ it.id = latest'[p]
    BY DEF HoldsOrWaits, Hits
  <2> DEFINE v == p[1] % Workers
  <2>2. Fine(p)
    BY <1>2, <1>14, <2>1 DEF Fine
  <2>3. /\ content[p] <= latest[p]
        /\ \A it \in Queued \cup Handed(v) : Hits(it, p) => content[p] < it.id
        /\ \/ content[p] = latest[p]
           \/ \E it \in Queued \cup Handed(v) : Hits(it, p) /\ it.id = latest[p]
    BY <2>2 DEF QueueInv, HoldsOrWaits
  <2>4. v \in WorkerIds
    BY Waiting DEF QueueInv
  <2>5. \A it \in Queued : Hits(it, p) => it.file % Workers = v
    BY DEF Hits
  <2>6. Handed(v)' = Handed(v) \cup mine(v)
    BY <1>17, <2>4
  <2>. HIDE DEF v
  <2>7. \A it \in Queued \cup Handed(v) : Hits(it, p) => it \in Queued' \cup Handed(v)'
    BY <1>9, <2>5, <2>6
  <2>8. Queued' \cup Handed(v)' \subseteq Queued \cup Handed(v)
    BY <1>9, <2>6
  <2>. QED BY <1>2, <2>3, <2>7, <2>8 DEF v
<1>21. SeekLeftOut'
  BY <1>2 DEF QueueInv, SeekLeftOut
<1>. QED BY <1>16, <1>18, <1>19, <1>20, <1>21 DEF QueueInv

(* When nothing waits any more, every place holds what was accepted last   *)
(* for it, for any files, workers, batches and lengths: sorting is stable, *)
(* a file has one worker, and a seek left out would have led where the     *)
(* last write ended; but for the places where a later operation of a batch *)
(* was sorted before one it overlaps, and for the places of writes that    *)
(* failed or that an earlier failure in the file put in the wrong place    *)
(* (IoQueue: submit, dispatch_batch; IoWorker: process_write).             *)
THEOREM LastWritesWin == QueueSpec => [](QueueTypeOK /\ LastWriteWins)
<1>1. QueueInit => QueueInv
  <2>. SUFFICES ASSUME QueueInit PROVE QueueInv
    OBVIOUS
  <2>. USE DEF QueueInit
  <2>1. MaxWrites \in Nat
    BY WriteQueueAssumption
  <2>2. QueueTypeOK
    BY <2>1, QueueTypes
  <2>3. Queued = {} /\ \A w \in WorkerIds : Handed(w) = {}
    BY DEF Queued, Handed
  <2>4. \A p \in Place : latest[p] = 0 /\ content[p] = 0
    OBVIOUS
  <2>5. \A p \in Place : p[1] % Workers \in WorkerIds
    BY <2>2, Waiting
  <2>6. ComeInOrder /\ WaitInOrder
    BY <2>3, <2>4 DEF ComeInOrder, WaitInOrder
  <2>7. HoldsOrWaits
    BY <2>3, <2>4, <2>5 DEF HoldsOrWaits
  <2>8. SeekLeftOut
    BY DEF SeekLeftOut
  <2>. QED BY <2>2, <2>6, <2>7, <2>8 DEF QueueInv
<1>2. QueueInv /\ [QueueNext]_queueVars => QueueInv'
  <2>1. CASE UNCHANGED queueVars
    <3>. SUFFICES ASSUME QueueInv PROVE QueueInv'
      BY <2>1
    <3>1. UNCHANGED <<submitted, dealt, position, expected, content, latest, reordered, short,
                    spoilt, writes>>
      BY <2>1 DEF queueVars
    <3>2. Queued' = Queued /\ \A w : Handed(w)' = Handed(w)
      BY <3>1 DEF Queued, Handed
    <3>3. QueueTypeOK'
      BY <3>1, QueueTypes, QueueTypesNext DEF QueueInv
    <3>4. ComeInOrder'
      BY <3>1, <3>2 DEF QueueInv, ComeInOrder
    <3>5. WaitInOrder'
      BY <3>1, <3>2 DEF QueueInv, WaitInOrder, Hits
    <3>6. HoldsOrWaits'
      BY <3>1, <3>2 DEF QueueInv, HoldsOrWaits, Fine, Hits
    <3>7. SeekLeftOut'
      BY <3>1 DEF QueueInv, SeekLeftOut
    <3>. QED BY <3>3, <3>4, <3>5, <3>6, <3>7 DEF QueueInv
  <2>. QED BY <2>1, SubmitKeeps, DispatchKeeps, WorkKeeps, WorkFailsKeeps DEF QueueNext
<1>3. QueueInv => QueueTypeOK /\ LastWriteWins
  <2>. SUFFICES ASSUME QueueInv, submitted = <<>>, \A w \in WorkerIds : dealt[w] = <<>>,
                       NEW p \in Place, p \notin reordered, p \notin spoilt
                PROVE  content[p] = latest[p]
    BY DEF QueueInv, LastWriteWins
  <2>1. Queued = {} /\ Handed(p[1] % Workers) = {}
    BY Waiting DEF QueueInv, Queued, Handed
  <2>. QED BY <2>1 DEF QueueInv, HoldsOrWaits, Fine
<1>. QED BY <1>1, <1>2, <1>3, PTL DEF QueueSpec

(* --------------------------- the file handles -------------------------- *)

(* The files that something has happened to.                               *)
Met == {f \in DiskFiles : \E what \in Mishaps : <<what, f>> \in mishaps}

(* Where the storage in use is, where a block of a file is looked for, and *)
(* where it must be: a copied file is at both places for as long as the    *)
(* move may still fail.                                                    *)
Here == PlaceOf(rootOf)
Home(f) == IF rootOf = "none" /\ moved[f] = "deleted" THEN "new" ELSE Here
Homes(f) ==
    IF rootOf = "none"
    THEN {p \in {"old", "new"} : \/ p = "old" /\ moved[f] # "deleted"
                                 \/ p = "new" /\ moved[f] # "here"}
    ELSE {p \in {Here} : <<"deleted", f>> \notin mishaps}

DiskOps == [kind : {"read", "write"}, block : DiskBlocks, root : Storages, span : Nat,
            step : {"find", "open", "use"}, handle : Nat, expects : BOOLEAN, found : BOOLEAN]
Handles == [file : DiskFiles, writes : BOOLEAN, place : Places, flight : SUBSET DiskBlocks]
DiskShape ==
    /\ cachedHandle \in [Storages -> [DiskFiles -> Nat]]
    /\ fileHandle \in Seq(Handles)
    /\ onDisk \in [Places -> [DiskFiles -> SUBSET DiskBlocks]]
    /\ fileThere \in [Places -> SUBSET DiskFiles]
    /\ moved \in [DiskFiles -> {"here", "copied", "deleted"}]
    /\ mishaps \subseteq Mishaps \X DiskFiles
    /\ rootOf \in Storages \cup {"none"} /\ newRoot \in Storages
    /\ diskOp \in [DiskTasks -> {DiskIdle} \cup DiskOps]
    /\ \A t \in DiskTasks : diskOp[t] # DiskIdle =>
           diskOp[t].span \in DOMAIN SpanFiles[diskOp[t].block]
    /\ sweeping \subseteq Storages \X DiskFiles
    /\ written \subseteq DiskBlocks

(* A cached handle and the handle of an operation are of their file, and   *)
(* where that is when they are of the registered storage.                  *)
CachedFits ==
    \A s \in Storages, f \in DiskFiles :
        cachedHandle[s][f] # 0 =>
            /\ cachedHandle[s][f] \in HandleIds /\ fileHandle[cachedHandle[s][f]].file = f
            /\ s = rootOf => fileHandle[cachedHandle[s][f]].place = Here
UsedFor(t) ==
    diskOp[t] # DiskIdle =>
        IF diskOp[t].step = "use"
        THEN /\ diskOp[t].handle \in HandleIds
             /\ fileHandle[diskOp[t].handle].file = FileAt(diskOp[t])
             /\ diskOp[t].root = rootOf => fileHandle[diskOp[t].handle].place = Here
        ELSE diskOp[t].handle = 0
UsedFits == \A t \in DiskTasks : UsedFor(t)

(* Nobody has the new storage before it is there, and no file moves before *)
(* the old one is out of the table.                                        *)
NotYetMoved ==
    /\ rootOf # "new" =>
         /\ newRoot = "new" /\ \A f \in DiskFiles : cachedHandle["new"][f] = 0
         /\ \A t \in DiskTasks : diskOp[t] # DiskIdle => diskOp[t].root = "old"
         /\ \A f \in DiskFiles : <<"deleted", f>> \notin mishaps
    /\ rootOf = "old" => \A f \in DiskFiles : moved[f] = "here"

(* The registered storage has one handle of a file, cached or in use,      *)
(* unless something has happened to the file.                              *)
Serves(h) ==
    /\ rootOf # "none"
    /\ \/ cachedHandle[rootOf][fileHandle[h].file] = h
       \/ \E t \in DiskTasks : /\ diskOp[t] # DiskIdle /\ diskOp[t].root = rootOf
                               /\ diskOp[t].handle = h
OneServes ==
    \A g, h \in HandleIds :
        /\ Serves(g) /\ Serves(h)
        /\ fileHandle[g].file = fileHandle[h].file /\ fileHandle[g].file \notin Met
        => g = h

(* A block is on the disk or on its way there, through the handle that     *)
(* everybody who looks for it uses.                                        *)
OnItsWay(b, f) ==
    \E h \in HandleIds :
        /\ fileHandle[h].file = f /\ b \in fileHandle[h].flight /\ fileHandle[h].place = Home(f)
        /\ \A g \in HandleIds : Serves(g) /\ fileHandle[g].file = f => g = h
Kept(b, f) == f \in Met \/ b \in onDisk[Home(f)][f] \/ OnItsWay(b, f)
WrittenKept == \A b \in written : \A i \in DOMAIN SpanFiles[b] : Kept(b, SpanFiles[b][i])
WritingFor(t) ==
    diskOp[t] # DiskIdle /\ diskOp[t].kind = "write" =>
        \A i \in DOMAIN SpanFiles[diskOp[t].block] :
            i < diskOp[t].span => Kept(diskOp[t].block, SpanFiles[diskOp[t].block][i])
WritingKept == \A t \in DiskTasks : WritingFor(t)

(* What a read expects was written, and what it has found so far is there. *)
ReadsFor(t) ==
    diskOp[t] # DiskIdle /\ diskOp[t].kind = "read" =>
        /\ diskOp[t].expects => diskOp[t].block \in written
        /\ diskOp[t].found /\ diskOp[t].root = rootOf =>
               \A i \in DOMAIN SpanFiles[diskOp[t].block] :
                   i < diskOp[t].span =>
                       diskOp[t].block \in onDisk[Here][SpanFiles[diskOp[t].block][i]]
ReadsKept == \A t \in DiskTasks : ReadsFor(t)

(* Nothing is on its way to a file that is being moved, and its copy holds *)
(* what it holds.                                                          *)
Quiet(f) == \A h \in HandleIds : fileHandle[h].file = f => fileHandle[h].flight = {}
StillFiles ==
    rootOf = "none" =>
        \A f \in DiskFiles :
            moved[f] # "here" /\ f \notin Met =>
                Quiet(f) /\ (moved[f] = "copied" => onDisk["old"][f] \subseteq onDisk["new"][f])

(* The files, and in them what reads have found, are where they must be.   *)
FilesThere == \A f \in DiskFiles : \A p \in Homes(f) : f \in fileThere[p]
ConfirmedThere ==
    \A b \in confirmed : \A i \in DOMAIN SpanFiles[b] :
        \A p \in Homes(SpanFiles[b][i]) : b \in onDisk[p][SpanFiles[b][i]]

DiskInv ==
    /\ DiskShape /\ CachedFits /\ UsedFits /\ NotYetMoved /\ OneServes
    /\ WrittenKept /\ WritingKept /\ ReadsKept /\ StillFiles /\ FilesThere
    /\ confirmed \subseteq DiskBlocks /\ ConfirmedThere /\ missedReads \subseteq Met

(* What the steps have in common that move no file: handles stay what they *)
(* are, a handle that serves has served, or is the one of its file and     *)
(* nothing is on its way through the others, no data is lost on its way,   *)
(* and to a file that moves nothing more is on its way.                    *)
HandlesStay ==
    /\ UNCHANGED <<rootOf, newRoot, moved>> /\ mishaps \subseteq mishaps'
    /\ HandleIds \subseteq HandleIds'
    /\ \A h \in HandleIds : /\ fileHandle'[h].file = fileHandle[h].file
                            /\ fileHandle'[h].place = fileHandle[h].place
ServersStay ==
    \A g \in HandleIds' :
        Serves(g)' /\ fileHandle'[g].file \notin Met' =>
            \/ g \in HandleIds /\ Serves(g)
            \/ /\ \A k \in HandleIds' :
                      Serves(k)' /\ fileHandle'[k].file = fileHandle'[g].file => k = g
               /\ Quiet(fileHandle'[g].file)
NothingLost ==
    /\ \A p \in Places : /\ fileThere[p] \subseteq fileThere'[p]
                          /\ \A f \in DiskFiles : onDisk[p][f] \subseteq onDisk'[p][f]
    /\ \A h \in HandleIds : \A b \in fileHandle[h].flight :
           \/ b \in fileHandle'[h].flight
           \/ b \in onDisk'[fileHandle[h].place][fileHandle[h].file]
           \/ fileHandle[h].file \in Met'
QuietStays ==
    rootOf = "none" =>
        \A f \in DiskFiles :
            Quiet(f) /\ f \notin Met' =>
                /\ Quiet(f)' /\ onDisk'["old"][f] = onDisk["old"][f]
                /\ onDisk'["new"][f] = onDisk["new"][f]

(* The files are looked for where they were, and fewer places matter.      *)
LEMMA HomesStay ==
  ASSUME DiskShape, HandlesStay
  PROVE  /\ Here' = Here /\ Here \in Places /\ Met \subseteq Met' /\ UNCHANGED rootOf
         /\ \A f \in DiskFiles : /\ Home(f)' = Home(f) /\ Home(f) \in Places
                                 /\ Homes(f)' \subseteq Homes(f) /\ Homes(f) \subseteq Places
<1>1. newRoot \in Storages /\ UNCHANGED <<rootOf, newRoot, moved>> /\ mishaps \subseteq mishaps'
  BY DEF DiskShape, HandlesStay
<1>2. Here' = Here /\ Here \in Places
  BY <1>1 DEF Here, PlaceOf, Places, Storages
<1>3. Met \subseteq Met'
  BY <1>1 DEF Met
<1>4. ASSUME NEW f \in DiskFiles
      PROVE  /\ Home(f)' = Home(f) /\ Home(f) \in Places
             /\ Homes(f)' \subseteq Homes(f) /\ Homes(f) \subseteq Places
  BY <1>1, <1>2 DEF Home, Homes, Places, Storages
<1>. QED BY <1>1, <1>2, <1>3, <1>4

(* What is kept stays kept.                                                *)
LEMMA KeptStays ==
  ASSUME DiskShape, HandlesStay, ServersStay, NothingLost,
         NEW b \in DiskBlocks, NEW f \in DiskFiles, Kept(b, f)
  PROVE  Kept(b, f)'
<1>1. Home(f)' = Home(f) /\ Home(f) \in Places /\ Met \subseteq Met'
  BY HomesStay
<1>2. CASE f \in Met'
  BY <1>2 DEF Kept
<1>3. CASE f \notin Met' /\ b \in onDisk[Home(f)][f]
  BY <1>1, <1>3 DEF Kept, NothingLost
<1>4. CASE f \notin Met' /\ OnItsWay(b, f)
  <2>1. PICK h \in HandleIds :
            /\ fileHandle[h].file = f /\ b \in fileHandle[h].flight
            /\ fileHandle[h].place = Home(f)
            /\ \A g \in HandleIds : Serves(g) /\ fileHandle[g].file = f => g = h
    BY <1>4 DEF OnItsWay
  <2>2. b \in fileHandle'[h].flight \/ b \in onDisk'[Home(f)][f]
    BY <1>4, <2>1 DEF NothingLost
  <2>3. h \in HandleIds' /\ fileHandle'[h].file = f /\ fileHandle'[h].place = Home(f)'
    BY <1>1, <2>1 DEF HandlesStay
  <2>4. \A g \in HandleIds' : Serves(g)' /\ fileHandle'[g].file = f => g = h
    BY <1>4, <2>1 DEF ServersStay, HandlesStay, Quiet
  <2>. QED BY <1>1, <2>2, <2>3, <2>4 DEF Kept, OnItsWay
<1>. QED BY <1>1, <1>2, <1>3, <1>4 DEF Kept

(* One handle serves, still.                                               *)
LEMMA OneServesStays ==
  ASSUME DiskShape, OneServes, HandlesStay, ServersStay
  PROVE  OneServes'
<1>1. Met \subseteq Met'
  BY HomesStay
<1>. QED BY <1>1 DEF OneServes, HandlesStay, ServersStay

(* What was written is kept, still.                                        *)
LEMMA WrittenStays ==
  ASSUME DiskInv, HandlesStay, ServersStay, NothingLost, UNCHANGED written
  PROVE  WrittenKept'
<1>1. WrittenKept /\ written \subseteq DiskBlocks /\ DiskShape
  BY DEF DiskInv, DiskShape
<1>2. \A b \in DiskBlocks : \A i \in DOMAIN SpanFiles[b] : SpanFiles[b][i] \in DiskFiles
  BY DiskAssumption
<1>3. SUFFICES ASSUME NEW b \in written, NEW i \in DOMAIN SpanFiles[b]
               PROVE  Kept(b, SpanFiles[b][i])'
  BY DEF WrittenKept
<1>4. b \in DiskBlocks /\ SpanFiles[b][i] \in DiskFiles /\ Kept(b, SpanFiles[b][i])
  BY <1>1, <1>2 DEF WrittenKept
<1>. QED BY <1>1, <1>4, KeptStays

(* Every block lies in one file at least.                                  *)
LEMMA SpansTyped ==
  ASSUME NEW b \in DiskBlocks
  PROVE  /\ Len(SpanFiles[b]) \in Nat \ {0}
         /\ DOMAIN SpanFiles[b] = 1 .. Len(SpanFiles[b])
         /\ \A i \in DOMAIN SpanFiles[b] : SpanFiles[b][i] \in DiskFiles
<1>1. SpanFiles[b] \in Seq(DiskFiles) /\ SpanFiles[b] # <<>>
  BY DiskAssumption
<1>. QED BY <1>1

(* An operation, field by field.                                           *)
LEMMA OpTyped ==
  ASSUME DiskShape, NEW t \in DiskTasks, diskOp[t] # DiskIdle
  PROVE  /\ diskOp[t] \in DiskOps
         /\ diskOp[t].kind \in {"read", "write"} /\ diskOp[t].block \in DiskBlocks
         /\ diskOp[t].root \in Storages /\ diskOp[t].span \in Nat
         /\ diskOp[t].step \in {"find", "open", "use"} /\ diskOp[t].handle \in Nat
         /\ diskOp[t].expects \in BOOLEAN /\ diskOp[t].found \in BOOLEAN
         /\ diskOp[t].span \in DOMAIN SpanFiles[diskOp[t].block]
         /\ FileAt(diskOp[t]) \in DiskFiles
<1>1. diskOp[t] \in DiskOps /\ diskOp[t].span \in DOMAIN SpanFiles[diskOp[t].block]
  BY DEF DiskShape
<1>2. diskOp[t].block \in DiskBlocks
  BY <1>1 DEF DiskOps
<1>3. FileAt(diskOp[t]) \in DiskFiles
  BY <1>1, <1>2, SpansTyped DEF FileAt
<1>. QED BY <1>1, <1>2, <1>3 DEF DiskOps

(* A handle, field by field.                                               *)
LEMMA HandleTyped ==
  ASSUME DiskShape
  PROVE  /\ Len(fileHandle) \in Nat /\ HandleIds = 1 .. Len(fileHandle)
         /\ \A h \in HandleIds :
                /\ fileHandle[h] \in Handles /\ h \in Nat \ {0}
                /\ fileHandle[h].file \in DiskFiles /\ fileHandle[h].place \in Places
                /\ fileHandle[h].flight \in SUBSET DiskBlocks
<1>1. fileHandle \in Seq(Handles)
  BY DEF DiskShape
<1>2. \A h \in 1 .. Len(fileHandle) : fileHandle[h] \in Handles
  BY <1>1
<1>. QED BY <1>1, <1>2 DEF HandleIds, Handles

(* What moves is still, and every file is there.                           *)
LEMMA StillStays ==
  ASSUME DiskInv, HandlesStay, NothingLost, QuietStays
  PROVE  StillFiles' /\ FilesThere'
<1>1. DiskShape /\ StillFiles /\ FilesThere
  BY DEF DiskInv
<1>2. /\ Met \subseteq Met' /\ UNCHANGED <<rootOf, moved>>
      /\ \A f \in DiskFiles : Homes(f)' \subseteq Homes(f) /\ Homes(f) \subseteq Places
  BY <1>1, HomesStay DEF HandlesStay
<1>3. StillFiles'
  <2>1. SUFFICES ASSUME rootOf = "none", NEW f \in DiskFiles, moved[f] # "here", f \notin Met'
                 PROVE  /\ Quiet(f)'
                        /\ moved[f] = "copied" => onDisk'["old"][f] \subseteq onDisk'["new"][f]
    BY <1>2 DEF StillFiles
  <2>2. Quiet(f) /\ (moved[f] = "copied" => onDisk["old"][f] \subseteq onDisk["new"][f])
    BY <1>1, <1>2, <2>1 DEF StillFiles
  <2>. QED BY <2>1, <2>2 DEF QuietStays
<1>4. FilesThere'
  BY <1>1, <1>2 DEF FilesThere, NothingLost
<1>. QED BY <1>3, <1>4

(* The parts of the invariant that follow when only one task has changed.  *)
LEMMA OthersStay ==
  ASSUME DiskInv, HandlesStay, ServersStay, NothingLost, written \subseteq written',
         NEW t, \A u \in DiskTasks : u # t => diskOp'[u] = diskOp[u],
         t \in DiskTasks => WritingFor(t)' /\ ReadsFor(t)'
  PROVE  OneServes' /\ WritingKept' /\ ReadsKept'
<1>0. DiskShape
  BY DEF DiskInv
<1>1. OneServes'
  BY OneServesStays DEF DiskInv
<1>2. Here' = Here /\ UNCHANGED rootOf /\ Here \in Places
  BY <1>0, HomesStay
<1>3. ASSUME NEW u \in DiskTasks, u # t PROVE WritingFor(u)' /\ ReadsFor(u)'
  <2>1. diskOp'[u] = diskOp[u] /\ WritingFor(u) /\ ReadsFor(u) /\ DiskShape
    BY <1>3 DEF DiskInv, WritingKept, ReadsKept
  <2>2. CASE diskOp[u] = DiskIdle
    BY <2>1, <2>2 DEF WritingFor, ReadsFor
  <2>3. CASE diskOp[u] # DiskIdle
    <3>1. /\ diskOp[u].block \in DiskBlocks
          /\ \A i \in DOMAIN SpanFiles[diskOp[u].block] :
                 SpanFiles[diskOp[u].block][i] \in DiskFiles
      BY <2>1, <2>3, OpTyped, SpansTyped
    <3>2. WritingFor(u)'
      <4>1. SUFFICES ASSUME diskOp[u].kind = "write", NEW b, b = diskOp[u].block,
                            NEW i \in DOMAIN SpanFiles[b], i < diskOp[u].span
                     PROVE  Kept(b, SpanFiles[b][i])'
        BY <2>1 DEF WritingFor
      <4>2. b \in DiskBlocks /\ SpanFiles[b][i] \in DiskFiles /\ Kept(b, SpanFiles[b][i])
        BY <2>1, <2>3, <3>1, <4>1 DEF WritingFor
      <4>. QED BY <1>0, <4>2, KeptStays
    <3>3. ReadsFor(u)'
      BY <1>2, <2>1, <2>3, <3>1 DEF ReadsFor, NothingLost
    <3>. QED BY <3>2, <3>3
  <2>. QED BY <2>2, <2>3
<1>. QED BY <1>1, <1>3 DEF WritingKept, ReadsKept

(* What was found is there, still.                                         *)
LEMMA ConfirmedStays ==
  ASSUME DiskInv, HandlesStay, NothingLost, UNCHANGED confirmed
  PROVE  ConfirmedThere' /\ confirmed' \subseteq DiskBlocks
<1>1. \A f \in DiskFiles : Homes(f)' \subseteq Homes(f) /\ Homes(f) \subseteq Places
  BY HomesStay DEF DiskInv
<1>2. \A b \in DiskBlocks : \A i \in DOMAIN SpanFiles[b] : SpanFiles[b][i] \in DiskFiles
  BY SpansTyped
<1>. QED BY <1>1, <1>2 DEF DiskInv, ConfirmedThere, NothingLost

(* A step that leaves the handles and the files as they are.               *)
LEMMA HandlesUntouched ==
  ASSUME UNCHANGED <<fileHandle, onDisk, fileThere, moved, rootOf, newRoot, mishaps>>
  PROVE  HandlesStay /\ NothingLost /\ QuietStays
BY DEF HandlesStay, NothingLost, QuietStays, Quiet, HandleIds


(* A task that begins uses no handle and has no span behind it.            *)
LEMMA BeginKeeps ==
  ASSUME DiskInv, NEW t \in DiskTasks, DiskBegin(t)
  PROVE  DiskInv'
<1>. USE DEF DiskHistory, Layout
<1>0. DiskShape /\ CachedFits /\ UsedFits /\ NotYetMoved /\ missedReads \subseteq Met
  BY DEF DiskInv
<1>1. PICK kind \in {"read", "write"}, b \in DiskBlocks :
          diskOp' = [diskOp EXCEPT ![t] =
             [kind |-> kind, block |-> b, root |-> rootOf, span |-> 1, step |-> "find",
              handle |-> 0, expects |-> b \in written, found |-> TRUE]]
  BY DEF DiskBegin
<1> DEFINE op == [kind |-> kind, block |-> b, root |-> rootOf, span |-> 1, step |-> "find",
                  handle |-> 0, expects |-> b \in written, found |-> TRUE]
<1>2. /\ UNCHANGED <<cachedHandle, fileHandle, onDisk, fileThere, moved, newRoot, rootOf, sweeping,
                     written, confirmed, missedReads, mishaps>>
      /\ rootOf # "none" /\ diskOp[t] = DiskIdle
  BY DEF DiskBegin
<1>3. /\ diskOp'[t] = op /\ \A u \in DiskTasks : u # t => diskOp'[u] = diskOp[u]
      /\ rootOf \in Storages
  BY <1>0, <1>1, <1>2 DEF DiskShape
<1>4. op \in DiskOps /\ op # DiskIdle
  <2>1. (b \in written) \in BOOLEAN /\ rootOf \in Storages
    BY <1>3
  <2>. QED BY <2>1 DEF DiskOps, DiskIdle
<1>5. /\ op.kind = kind /\ op.block = b /\ op.root = rootOf /\ op.span = 1 /\ op.step = "find"
      /\ op.handle = 0 /\ (op.expects => b \in written)
  OBVIOUS
<1>. HIDE DEF op
<1>6. DiskShape'
  <2>1. diskOp' \in [DiskTasks -> {DiskIdle} \cup DiskOps]
    BY <1>0, <1>1, <1>4 DEF DiskShape, op
  <2>2. 1 \in DOMAIN SpanFiles[b]
    BY SpansTyped
  <2>3. \A u \in DiskTasks : diskOp'[u] # DiskIdle =>
           diskOp'[u].span \in DOMAIN SpanFiles[diskOp'[u].block]
    BY <1>0, <1>3, <1>5, <2>2 DEF DiskShape
  <2>. QED BY <1>0, <1>2, <2>1, <2>3 DEF DiskShape
<1>7. CachedFits'
  BY <1>0, <1>2 DEF CachedFits, HandleIds, Here, PlaceOf
<1>8. UsedFits'
  <2>1. UsedFor(t)'
    BY <1>3, <1>5 DEF UsedFor
  <2>2. ASSUME NEW u \in DiskTasks, u # t PROVE UsedFor(u)'
    <3>1. diskOp'[u] = diskOp[u] /\ UsedFor(u)
      BY <1>0, <1>3, <2>2 DEF UsedFits
    <3>. QED BY <1>2, <3>1 DEF UsedFor, HandleIds, Here, PlaceOf, FileAt
  <2>. QED BY <2>1, <2>2 DEF UsedFits
<1>9. NotYetMoved'
  BY <1>0, <1>2, <1>3, <1>5 DEF NotYetMoved, Storages
<1>10. HandlesStay /\ NothingLost /\ QuietStays
  BY <1>2, HandlesUntouched
<1>11. ServersStay
  <2>1. HandleIds' = HandleIds /\ rootOf' = rootOf /\ \A g \in HandleIds : g # 0
    BY <1>0, <1>2, HandleTyped DEF HandleIds
  <2>. QED BY <1>2, <1>3, <1>5, <2>1 DEF ServersStay, Serves
<1>12. WritingFor(t)' /\ ReadsFor(t)'
  <2>1. \A i \in DOMAIN SpanFiles[b] : ~(i < 1)
    BY SpansTyped
  <2>. QED BY <1>2, <1>3, <1>5, <2>1 DEF WritingFor, ReadsFor
<1>13. written \subseteq written' /\ UNCHANGED <<written, confirmed>>
  BY <1>2
<1>14. OneServes' /\ WritingKept' /\ ReadsKept' /\ StillFiles' /\ FilesThere'
  BY <1>3, <1>10, <1>11, <1>12, <1>13, OthersStay, StillStays
<1>15. WrittenKept' /\ ConfirmedThere' /\ confirmed' \subseteq DiskBlocks
  BY <1>10, <1>11, <1>13, WrittenStays, ConfirmedStays
<1>16. missedReads' \subseteq Met'
  BY <1>0, <1>2, <1>10, HomesStay
<1>. QED BY <1>6, <1>7, <1>8, <1>9, <1>14, <1>15, <1>16 DEF DiskInv

(* A cached handle served before the task took it.                         *)
LEMMA FindKeeps ==
  ASSUME DiskInv, NEW t \in DiskTasks, FindHandle(t)
  PROVE  DiskInv'
<1>. USE DEF DiskHistory, Layout
<1>0. DiskShape /\ CachedFits /\ UsedFits /\ NotYetMoved /\ missedReads \subseteq Met
  BY DEF DiskInv
<1> DEFINE op == diskOp[t]
           f == FileAt(op)
           h == cachedHandle[op.root][f]
<1>1. /\ op # DiskIdle /\ op.step = "find"
      /\ UNCHANGED <<fileHandle, onDisk, fileThere, moved, newRoot, rootOf, sweeping, written,
                     confirmed, missedReads, mishaps>>
      /\ \/ /\ h # 0 /\ diskOp' = [diskOp EXCEPT ![t].step = "use", ![t].handle = h]
            /\ UNCHANGED cachedHandle
         \/ /\ diskOp' = [diskOp EXCEPT ![t].step = "open"]
            /\ cachedHandle' \in {cachedHandle, [cachedHandle EXCEPT ![op.root][f] = 0]}
  BY DEF FindHandle
<1>2. /\ op \in DiskOps /\ op.root \in Storages /\ f \in DiskFiles /\ op.block \in DiskBlocks
      /\ op.span \in Nat /\ op.span \in DOMAIN SpanFiles[op.block] /\ op.handle = 0
      /\ h \in Nat
  <2>1. UsedFor(t)
    BY <1>0 DEF UsedFits
  <2>2. op.handle = 0
    BY <1>1, <2>1 DEF UsedFor
  <2>. QED BY <1>0, <1>1, <2>2, OpTyped DEF DiskShape
<1>3. /\ diskOp'[t] # DiskIdle /\ diskOp'[t] \in DiskOps
      /\ diskOp'[t].kind = op.kind /\ diskOp'[t].block = op.block /\ diskOp'[t].root = op.root
      /\ diskOp'[t].span = op.span /\ diskOp'[t].expects = op.expects
      /\ diskOp'[t].found = op.found
      /\ \/ diskOp'[t].step = "use" /\ diskOp'[t].handle = h /\ h # 0
         \/ diskOp'[t].step = "open" /\ diskOp'[t].handle = 0
      /\ \A u \in DiskTasks : u # t => diskOp'[u] = diskOp[u]
      /\ diskOp' \in [DiskTasks -> {DiskIdle} \cup DiskOps]
  <2>1. diskOp \in [DiskTasks -> {DiskIdle} \cup DiskOps]
    BY <1>0 DEF DiskShape
  <2>2. CASE h # 0 /\ diskOp' = [diskOp EXCEPT ![t].step = "use", ![t].handle = h]
    <3>1. diskOp'[t] = [op EXCEPT !.step = "use", !.handle = h]
          /\ \A u \in DiskTasks : u # t => diskOp'[u] = diskOp[u]
      BY <2>1, <2>2
    <3>2. [op EXCEPT !.step = "use", !.handle = h] \in DiskOps
      BY <1>2 DEF DiskOps
    <3>3. diskOp' \in [DiskTasks -> {DiskIdle} \cup DiskOps]
      BY <2>1, <2>2, <3>1, <3>2
    <3>. QED BY <1>2, <2>2, <3>1, <3>2, <3>3 DEF DiskOps, DiskIdle
  <2>3. CASE diskOp' = [diskOp EXCEPT ![t].step = "open"]
    <3>1. diskOp'[t] = [op EXCEPT !.step = "open"]
          /\ \A u \in DiskTasks : u # t => diskOp'[u] = diskOp[u]
      BY <2>1, <2>3
    <3>2. [op EXCEPT !.step = "open"] \in DiskOps
      BY <1>2 DEF DiskOps
    <3>3. diskOp' \in [DiskTasks -> {DiskIdle} \cup DiskOps]
      BY <2>1, <2>3, <3>1, <3>2
    <3>. QED BY <1>2, <2>3, <3>1, <3>2, <3>3 DEF DiskOps, DiskIdle
  <2>. QED BY <1>1, <2>2, <2>3
<1>4. /\ cachedHandle' \in [Storages -> [DiskFiles -> Nat]]
      /\ \A s \in Storages, g \in DiskFiles : cachedHandle'[s][g] \in {0, cachedHandle[s][g]}
      /\ diskOp'[t].step = "use" => cachedHandle' = cachedHandle
  <2>1. cachedHandle \in [Storages -> [DiskFiles -> Nat]]
    BY <1>0 DEF DiskShape
  <2>2. cachedHandle' = cachedHandle
        \/ /\ cachedHandle' = [cachedHandle EXCEPT ![op.root][f] = 0]
           /\ diskOp' = [diskOp EXCEPT ![t].step = "open"]
    BY <1>1
  <2>3. CASE cachedHandle' = cachedHandle
    BY <2>1, <2>3
  <2>4. CASE cachedHandle' = [cachedHandle EXCEPT ![op.root][f] = 0]
             /\ diskOp' = [diskOp EXCEPT ![t].step = "open"]
    <3>1. diskOp'[t].step = "open"
      <4>1. diskOp'[t] = [op EXCEPT !.step = "open"]
        BY <1>0, <2>4 DEF DiskShape
      <4>. QED BY <1>2, <4>1 DEF DiskOps
    <3>. QED BY <1>2, <2>1, <2>4, <3>1
  <2>. QED BY <2>2, <2>3, <2>4
<1>. HIDE DEF op, f, h
<1>5. DiskShape'
  <2>1. \A u \in DiskTasks : diskOp'[u] # DiskIdle =>
           diskOp'[u].span \in DOMAIN SpanFiles[diskOp'[u].block]
    BY <1>0, <1>2, <1>3 DEF DiskShape
  <2>. QED BY <1>0, <1>1, <1>3, <1>4, <2>1 DEF DiskShape
<1>6. HandleIds' = HandleIds /\ rootOf' = rootOf /\ Here' = Here
      /\ \A g \in HandleIds : g # 0
  BY <1>0, <1>1, HandleTyped DEF HandleIds, Here, PlaceOf
<1>7. CachedFits'
  BY <1>0, <1>1, <1>4, <1>6 DEF CachedFits
<1>8. h # 0 => /\ h \in HandleIds /\ fileHandle[h].file = f
               /\ op.root = rootOf => fileHandle[h].place = Here
  BY <1>0, <1>2 DEF CachedFits, h
<1>9. UsedFits'
  <2>1. UsedFor(t)'
    BY <1>1, <1>3, <1>6, <1>8 DEF UsedFor, FileAt, f
  <2>2. ASSUME NEW u \in DiskTasks, u # t PROVE UsedFor(u)'
    <3>1. diskOp'[u] = diskOp[u] /\ UsedFor(u)
      BY <1>0, <1>3, <2>2 DEF UsedFits
    <3>. QED BY <1>1, <1>6, <3>1 DEF UsedFor, FileAt
  <2>. QED BY <2>1, <2>2 DEF UsedFits
<1>10. NotYetMoved'
  <2>1. \A g \in DiskFiles : cachedHandle'["new"][g] \in {0, cachedHandle["new"][g]}
    BY <1>4 DEF Storages
  <2>. QED BY <1>0, <1>1, <1>3, <2>1 DEF NotYetMoved, op
<1>11. HandlesStay /\ NothingLost /\ QuietStays
  BY <1>1, HandlesUntouched
<1>12. ServersStay
  <2>1. SUFFICES ASSUME NEW g \in HandleIds, Serves(g)' PROVE Serves(g)
    BY <1>6 DEF ServersStay
  <2>2. g # 0 /\ fileHandle'[g].file = fileHandle[g].file /\ fileHandle[g].file \in DiskFiles
    BY <1>0, <1>1, <1>6, HandleTyped
  <2>3. CASE cachedHandle'[rootOf][fileHandle[g].file] = g
    <3>1. rootOf \in Storages
      BY <1>0, <1>6, <2>1 DEF DiskShape, Serves
    <3>. QED BY <1>4, <2>2, <2>3, <3>1 DEF Serves, Storages
  <2>4. CASE \E u \in DiskTasks : /\ diskOp'[u] # DiskIdle /\ diskOp'[u].root = rootOf
                                  /\ diskOp'[u].handle = g
    <3>1. PICK u \in DiskTasks : /\ diskOp'[u] # DiskIdle /\ diskOp'[u].root = rootOf
                                 /\ diskOp'[u].handle = g
      BY <2>4
    <3>2. CASE u # t
      BY <1>3, <1>6, <2>1, <3>1, <3>2 DEF Serves
    <3>3. CASE u = t
      <4>1. op.root = rootOf /\ h = g /\ fileHandle[g].file = f /\ rootOf # "none"
        BY <1>3, <1>6, <1>8, <2>1, <2>2, <3>1, <3>3 DEF Serves
      <4>. QED BY <4>1 DEF Serves, h
    <3>. QED BY <3>2, <3>3
  <2>. QED BY <1>6, <2>1, <2>2, <2>3, <2>4 DEF Serves
<1>13. WritingFor(t)' /\ ReadsFor(t)'
  <2>1. WritingFor(t) /\ ReadsFor(t)
    BY DEF DiskInv, WritingKept, ReadsKept
  <2>2. \A b \in DiskBlocks, g \in DiskFiles : Kept(b, g) => Kept(b, g)'
    BY <1>0, <1>11, <1>12, KeptStays
  <2>3. \A i \in DOMAIN SpanFiles[op.block] : SpanFiles[op.block][i] \in DiskFiles
    BY <1>2, SpansTyped
  <2>4. WritingFor(t)'
    BY <1>1, <1>2, <1>3, <1>6, <2>1, <2>2, <2>3 DEF WritingFor, op
  <2>5. ReadsFor(t)'
    BY <1>1, <1>2, <1>3, <1>6, <2>1 DEF ReadsFor, op
  <2>. QED BY <2>4, <2>5
<1>14. written \subseteq written' /\ UNCHANGED <<written, confirmed>>
  BY <1>1
<1>15. OneServes' /\ WritingKept' /\ ReadsKept' /\ StillFiles' /\ FilesThere'
  BY <1>3, <1>11, <1>12, <1>13, <1>14, OthersStay, StillStays
<1>16. WrittenKept' /\ ConfirmedThere' /\ confirmed' \subseteq DiskBlocks
  BY <1>11, <1>12, <1>14, WrittenStays, ConfirmedStays
<1>17. missedReads' \subseteq Met'
  BY <1>0, <1>1, <1>11, HomesStay
<1>. QED BY <1>5, <1>7, <1>9, <1>10, <1>15, <1>16, <1>17 DEF DiskInv

(* The task has the span it had, through whatever handle.                  *)
LEMMA SameSpan ==
  ASSUME DiskInv, HandlesStay, ServersStay, NothingLost, written \subseteq written',
         NEW t \in DiskTasks, diskOp[t] # DiskIdle,
         diskOp'[t].kind = diskOp[t].kind, diskOp'[t].block = diskOp[t].block,
         diskOp'[t].root = diskOp[t].root, diskOp'[t].span = diskOp[t].span,
         diskOp'[t].expects = diskOp[t].expects, diskOp'[t].found = diskOp[t].found
  PROVE  WritingFor(t)' /\ ReadsFor(t)'
<1>1. WritingFor(t) /\ ReadsFor(t) /\ DiskShape
  BY DEF DiskInv, WritingKept, ReadsKept
<1>2. Here' = Here /\ Here \in Places /\ rootOf' = rootOf
  BY <1>1, HomesStay DEF HandlesStay
<1>3. /\ diskOp[t].block \in DiskBlocks
      /\ \A i \in DOMAIN SpanFiles[diskOp[t].block] :
             SpanFiles[diskOp[t].block][i] \in DiskFiles
  BY <1>1, OpTyped, SpansTyped
<1>4. WritingFor(t)'
  <2>1. SUFFICES ASSUME diskOp[t].kind = "write", NEW b, b = diskOp[t].block,
                        NEW i \in DOMAIN SpanFiles[b], i < diskOp[t].span
                 PROVE  Kept(b, SpanFiles[b][i])'
    BY DEF WritingFor
  <2>2. b \in DiskBlocks /\ SpanFiles[b][i] \in DiskFiles /\ Kept(b, SpanFiles[b][i])
    BY <1>1, <1>3, <2>1 DEF WritingFor
  <2>. QED BY <1>1, <2>2, KeptStays
<1>5. ReadsFor(t)'
  BY <1>1, <1>2, <1>3 DEF ReadsFor, NothingLost
<1>. QED BY <1>4, <1>5

(* An operation that returns early leaves nothing behind.                  *)
LEMMA EndKeeps ==
  ASSUME DiskInv, NEW t \in DiskTasks, diskOp' = [diskOp EXCEPT ![t] = DiskIdle],
         UNCHANGED <<cachedHandle, fileHandle, onDisk, fileThere, moved, newRoot, rootOf, sweeping,
                     written, confirmed, mishaps>>,
         missedReads' \subseteq Met
  PROVE  DiskInv'
<1>0. DiskShape /\ CachedFits /\ UsedFits /\ NotYetMoved
  BY DEF DiskInv
<1>1. /\ diskOp'[t] = DiskIdle /\ \A u \in DiskTasks : u # t => diskOp'[u] = diskOp[u]
      /\ diskOp' \in [DiskTasks -> {DiskIdle} \cup DiskOps]
  BY <1>0 DEF DiskShape
<1>2. HandlesStay /\ NothingLost /\ QuietStays
  BY HandlesUntouched
<1>3. HandleIds' = HandleIds /\ Here' = Here
  BY DEF HandleIds, Here, PlaceOf
<1>4. ServersStay
  BY <1>1, <1>3 DEF ServersStay, Serves
<1>5. WritingFor(t)' /\ ReadsFor(t)'
  BY <1>1 DEF WritingFor, ReadsFor
<1>6. DiskShape'
  BY <1>0, <1>1 DEF DiskShape
<1>7. CachedFits' /\ NotYetMoved'
  BY <1>0, <1>1, <1>3 DEF CachedFits, NotYetMoved
<1>8. UsedFits'
  <2>1. ASSUME NEW u \in DiskTasks PROVE UsedFor(u)'
    BY <1>0, <1>1, <1>3 DEF UsedFits, UsedFor, FileAt
  <2>. QED BY <2>1 DEF UsedFits
<1>9. OneServes' /\ WritingKept' /\ ReadsKept' /\ StillFiles' /\ FilesThere'
  BY <1>1, <1>2, <1>4, <1>5, OthersStay, StillStays
<1>10. WrittenKept' /\ ConfirmedThere' /\ confirmed' \subseteq DiskBlocks
  BY <1>2, <1>4, WrittenStays, ConfirmedStays
<1>11. missedReads' \subseteq Met'
  BY <1>0, <1>2, HomesStay
<1>. QED BY <1>6, <1>7, <1>8, <1>9, <1>10, <1>11 DEF DiskInv

(* A file that is not there has been deleted by a move that failed.        *)
LEMMA GoneWasDeleted ==
  ASSUME DiskInv, rootOf # "none", NEW f \in DiskFiles, f \notin fileThere[Here]
  PROVE  f \in Met
<1>1. Here \notin Homes(f)
  BY DEF DiskInv, FilesThere
<1>2. <<"deleted", f>> \in mishaps
  BY <1>1 DEF Homes
<1>. QED BY <1>2 DEF Met, Mishaps

(* A new handle serves alone, unless the file is opened twice.             *)
LEMMA OpenKeeps ==
  ASSUME DiskInv, NEW t \in DiskTasks, OpenHandle(t)
  PROVE  DiskInv'
<1>. USE DEF DiskHistory, Layout
<1>0. DiskShape /\ CachedFits /\ UsedFits /\ NotYetMoved /\ missedReads \subseteq Met
  BY DEF DiskInv
<1> DEFINE op == diskOp[t]
           f == FileAt(op)
           h == Len(fileHandle) + 1
           at == PlaceOf(op.root)
           new == [file |-> f, writes |-> op.kind = "write", place |-> at, flight |-> {}]
           reopened == {fileHandle[g].file :
                         g \in {b \in HandleIds : fileHandle[b].file = f /\ Busy(b)}}
<1>1. /\ op # DiskIdle /\ op.step = "open"
      /\ UNCHANGED <<moved, newRoot, rootOf, sweeping, written, confirmed>>
      /\ \/ /\ diskOp' = [diskOp EXCEPT ![t] = DiskIdle]
            /\ f \notin fileThere[at]
            /\ missedReads' \subseteq missedReads \cup (IF op.root = rootOf THEN {f} ELSE {})
            /\ UNCHANGED <<cachedHandle, fileHandle, onDisk, fileThere, mishaps>>
         \/ /\ fileHandle' = Append(fileHandle, new)
            /\ fileThere' = [fileThere EXCEPT ![at] = @ \cup {f}]
            /\ onDisk' = [onDisk EXCEPT ![at][f] = onDisk[at][f]]
            /\ cachedHandle' = [cachedHandle EXCEPT ![op.root][f] = h]
            /\ diskOp' = [diskOp EXCEPT ![t].step = "use", ![t].handle = h]
            /\ mishaps' = mishaps \cup {"split"} \X reopened
            /\ UNCHANGED missedReads
  BY DEF OpenHandle, OpenKeeping, Happens
<1>2. /\ op \in DiskOps /\ op.root \in Storages /\ f \in DiskFiles /\ op.block \in DiskBlocks
      /\ op.span \in Nat /\ op.span \in DOMAIN SpanFiles[op.block]
      /\ diskOp \in [DiskTasks -> {DiskIdle} \cup DiskOps]
      /\ cachedHandle \in [Storages -> [DiskFiles -> Nat]] /\ fileHandle \in Seq(Handles)
      /\ onDisk \in [Places -> [DiskFiles -> SUBSET DiskBlocks]]
      /\ fileThere \in [Places -> SUBSET DiskFiles]
  BY <1>0, <1>1, OpTyped DEF DiskShape
<1>3. HandleIds = 1 .. Len(fileHandle) /\ Len(fileHandle) \in Nat
  BY <1>0, HandleTyped
<1>4. at \in Places /\ (op.root = rootOf => at = Here /\ rootOf # "none")
  BY <1>0, <1>2 DEF DiskShape, PlaceOf, Places, Storages, Here
<1>5. Here' = Here
  BY <1>1 DEF Here, PlaceOf
<1>6. CASE /\ diskOp' = [diskOp EXCEPT ![t] = DiskIdle]
           /\ f \notin fileThere[at]
           /\ missedReads' \subseteq missedReads \cup (IF op.root = rootOf THEN {f} ELSE {})
           /\ UNCHANGED <<cachedHandle, fileHandle, onDisk, fileThere, mishaps>>
  <2>1. op.root = rootOf => f \in Met
    BY <1>2, <1>4, <1>6, GoneWasDeleted
  <2>2. missedReads' \subseteq Met
    BY <1>0, <1>6, <2>1
  <2>. QED BY <1>1, <1>6, <2>2, EndKeeps
<1>7. CASE /\ fileHandle' = Append(fileHandle, new)
           /\ fileThere' = [fileThere EXCEPT ![at] = @ \cup {f}]
           /\ onDisk' = [onDisk EXCEPT ![at][f] = onDisk[at][f]]
           /\ cachedHandle' = [cachedHandle EXCEPT ![op.root][f] = h]
           /\ diskOp' = [diskOp EXCEPT ![t].step = "use", ![t].handle = h]
           /\ mishaps' = mishaps \cup {"split"} \X reopened
           /\ UNCHANGED missedReads
  <2>1. new \in Handles /\ new.file = f /\ new.place = at /\ new.flight = {}
    <3>1. (op.kind = "write") \in BOOLEAN
      OBVIOUS
    <3>. QED BY <1>2, <1>4, <3>1 DEF Handles
  <2>. HIDE DEF new
  <2>2. /\ HandleIds' = 1 .. Len(fileHandle) + 1 /\ fileHandle' \in Seq(Handles)
        /\ \A g \in HandleIds : fileHandle'[g] = fileHandle[g]
        /\ fileHandle'[h] = new /\ h \in HandleIds' /\ h \notin HandleIds /\ h # 0
        /\ HandleIds' = HandleIds \cup {h} /\ h \in Nat
    <3>1. /\ fileHandle' \in Seq(Handles) /\ Len(fileHandle') = Len(fileHandle) + 1
          /\ \A g \in 1 .. Len(fileHandle) : fileHandle'[g] = fileHandle[g]
          /\ fileHandle'[Len(fileHandle) + 1] = new
      BY <1>2, <1>7, <2>1
    <3>. QED BY <1>3, <3>1 DEF HandleIds
  <2>3. /\ diskOp'[t] # DiskIdle /\ diskOp'[t] \in DiskOps
        /\ diskOp'[t].kind = op.kind /\ diskOp'[t].block = op.block /\ diskOp'[t].root = op.root
        /\ diskOp'[t].span = op.span /\ diskOp'[t].expects = op.expects
        /\ diskOp'[t].found = op.found /\ diskOp'[t].step = "use" /\ diskOp'[t].handle = h
        /\ \A u \in DiskTasks : u # t => diskOp'[u] = diskOp[u]
        /\ diskOp' \in [DiskTasks -> {DiskIdle} \cup DiskOps]
    <3>1. diskOp'[t] = [op EXCEPT !.step = "use", !.handle = h]
          /\ \A u \in DiskTasks : u # t => diskOp'[u] = diskOp[u]
      BY <1>2, <1>7
    <3>2. [op EXCEPT !.step = "use", !.handle = h] \in DiskOps
      BY <1>2, <2>2 DEF DiskOps
    <3>3. diskOp' \in [DiskTasks -> {DiskIdle} \cup DiskOps]
      BY <1>2, <1>7, <3>1, <3>2
    <3>. QED BY <1>2, <3>1, <3>2, <3>3 DEF DiskOps, DiskIdle
  <2>4. /\ cachedHandle' \in [Storages -> [DiskFiles -> Nat]] /\ cachedHandle'[op.root][f] = h
        /\ \A s \in Storages, g \in DiskFiles :
               s # op.root \/ g # f => cachedHandle'[s][g] = cachedHandle[s][g]
    BY <1>2, <1>7, <2>2
  <2>5. /\ mishaps \subseteq mishaps' /\ mishaps' \subseteq Mishaps \X DiskFiles
        /\ \A x \in DiskFiles : <<"deleted", x>> \in mishaps' => <<"deleted", x>> \in mishaps
        /\ \A g \in HandleIds : fileHandle[g].file = f /\ Busy(g) => f \in Met'
    <3>1. reopened \subseteq {f}
      OBVIOUS
    <3>2. \A g \in HandleIds : fileHandle[g].file = f /\ Busy(g) => <<"split", f>> \in mishaps'
      BY <1>7
    <3>. QED BY <1>0, <1>2, <1>7, <3>1, <3>2 DEF DiskShape, Mishaps, Met
  <2>6. onDisk' = onDisk
    BY <1>2, <1>4, <1>7
  <2>7. /\ fileThere' \in [Places -> SUBSET DiskFiles]
        /\ \A p \in Places : fileThere[p] \subseteq fileThere'[p]
    BY <1>2, <1>4, <1>7
  <2>. HIDE DEF op, f, h, reopened, at
  <2>8. DiskShape'
    <3>1. \A u \in DiskTasks : diskOp'[u] # DiskIdle =>
             diskOp'[u].span \in DOMAIN SpanFiles[diskOp'[u].block]
      BY <1>0, <1>2, <2>3 DEF DiskShape
    <3>. QED BY <1>0, <1>1, <2>2, <2>3, <2>4, <2>5, <2>6, <2>7, <3>1 DEF DiskShape
  <2>9. CachedFits'
    <3>1. SUFFICES ASSUME NEW s \in Storages, NEW g \in DiskFiles, cachedHandle'[s][g] # 0
                   PROVE  /\ cachedHandle'[s][g] \in HandleIds'
                          /\ fileHandle'[cachedHandle'[s][g]].file = g
                          /\ s = rootOf => fileHandle'[cachedHandle'[s][g]].place = Here
      BY <1>1, <1>5 DEF CachedFits
    <3>2. CASE s = op.root /\ g = f
      BY <1>4, <2>1, <2>2, <2>4, <3>2
    <3>3. CASE s # op.root \/ g # f
      <4>1. cachedHandle'[s][g] = cachedHandle[s][g] /\ cachedHandle[s][g] # 0
        BY <2>4, <3>1, <3>3
      <4>2. /\ cachedHandle[s][g] \in HandleIds /\ fileHandle[cachedHandle[s][g]].file = g
            /\ s = rootOf => fileHandle[cachedHandle[s][g]].place = Here
        BY <1>0, <4>1 DEF CachedFits
      <4>. QED BY <2>2, <4>1, <4>2
    <3>. QED BY <3>2, <3>3
  <2>10. UsedFits'
    <3>1. UsedFor(t)'
      BY <1>1, <1>4, <1>5, <2>1, <2>2, <2>3 DEF UsedFor, FileAt, f
    <3>2. ASSUME NEW u \in DiskTasks, u # t PROVE UsedFor(u)'
      <4>1. diskOp'[u] = diskOp[u] /\ UsedFor(u)
        BY <1>0, <2>3, <3>2 DEF UsedFits
      <4>. QED BY <1>1, <1>5, <2>2, <4>1 DEF UsedFor, FileAt
    <3>. QED BY <3>1, <3>2 DEF UsedFits
  <2>11. NotYetMoved'
    <3>1. rootOf # "new" => op.root = "old"
      BY <1>0, <1>1 DEF NotYetMoved, op
    <3>2. rootOf # "new" => \A x \in DiskFiles : cachedHandle'["new"][x] = 0
      BY <1>0, <2>4, <3>1 DEF NotYetMoved, Storages
    <3>. QED BY <1>0, <1>1, <2>3, <2>5, <3>1, <3>2 DEF NotYetMoved
  <2>12. HandlesStay /\ NothingLost /\ QuietStays
    <3>1. HandlesStay
      BY <1>1, <2>2, <2>5 DEF HandlesStay
    <3>2. NothingLost
      BY <2>2, <2>6, <2>7 DEF NothingLost
    <3>3. QuietStays
      BY <2>1, <2>2, <2>6 DEF QuietStays, Quiet
    <3>. QED BY <3>1, <3>2, <3>3
  <2>13. ServersStay
    <3>1. \A u \in DiskTasks : diskOp[u] # DiskIdle => diskOp[u].handle \in {0} \cup HandleIds
      BY <1>0 DEF UsedFits, UsedFor
    <3>2. \A g \in HandleIds : g # 0 /\ g # h /\ fileHandle[g].file \in DiskFiles
      BY <1>0, <2>2, HandleTyped
    <3>3. \A s \in Storages, g \in DiskFiles : cachedHandle[s][g] # h
      BY <1>0, <2>2 DEF CachedFits
    <3>4. rootOf # "none" => rootOf \in Storages
      BY <1>0 DEF DiskShape
    <3>5. ASSUME NEW g \in HandleIds, Serves(g)', fileHandle[g].file \notin Met'
          PROVE  Serves(g) /\ (op.root = rootOf => fileHandle[g].file # f)
      <4>1. fileHandle'[g].file = fileHandle[g].file /\ g # 0 /\ g # h
            /\ fileHandle[g].file \in DiskFiles /\ rootOf \in Storages /\ rootOf # "none"
        BY <1>1, <2>2, <3>2, <3>4, <3>5 DEF Serves
      <4>2. CASE cachedHandle'[rootOf][fileHandle[g].file] = g
        BY <2>4, <4>1, <4>2 DEF Serves
      <4>3. CASE \E u \in DiskTasks : /\ diskOp'[u] # DiskIdle /\ diskOp'[u].root = rootOf
                                      /\ diskOp'[u].handle = g
        <5>1. PICK u \in DiskTasks : /\ diskOp'[u] # DiskIdle /\ diskOp'[u].root = rootOf
                                     /\ diskOp'[u].handle = g
          BY <4>3
        <5>2. u # t /\ diskOp[u] # DiskIdle /\ diskOp[u].root = rootOf /\ diskOp[u].handle = g
          BY <2>3, <4>1, <5>1
        <5>3. Serves(g) /\ Busy(g)
          BY <4>1, <5>2 DEF Serves, Busy, InUse
        <5>. QED BY <2>5, <3>5, <5>3
      <4>. QED BY <1>1, <3>5, <4>1, <4>2, <4>3 DEF Serves
    <3>6. ASSUME NEW g \in HandleIds', g \notin HandleIds, Serves(g)' PROVE op.root = rootOf
      <4>1. g = h /\ fileHandle'[g].file = f /\ f \in DiskFiles /\ rootOf \in Storages
        BY <1>1, <1>2, <2>1, <2>2, <3>4, <3>6 DEF Serves
      <4>2. CASE cachedHandle'[rootOf][f] = g
        BY <1>2, <2>4, <3>3, <4>1, <4>2
      <4>3. CASE \E u \in DiskTasks : /\ diskOp'[u] # DiskIdle /\ diskOp'[u].root = rootOf
                                      /\ diskOp'[u].handle = g
        BY <2>2, <2>3, <3>1, <4>1, <4>3
      <4>. QED BY <1>1, <3>6, <4>1, <4>2, <4>3 DEF Serves
    <3>7. ASSUME NEW g \in HandleIds', g \notin HandleIds, Serves(g)',
                 fileHandle'[g].file \notin Met'
          PROVE  /\ \A k \in HandleIds' :
                        Serves(k)' /\ fileHandle'[k].file = fileHandle'[g].file => k = g
                 /\ Quiet(fileHandle'[g].file)
      <4>1. op.root = rootOf /\ g = h /\ fileHandle'[g].file = f /\ f \notin Met'
        BY <2>1, <2>2, <3>6, <3>7
      <4>2. Quiet(f)
        BY <2>5, <4>1 DEF Busy, Settled, Quiet
      <4>. QED BY <2>2, <3>5, <4>1, <4>2
    <3>. QED BY <2>2, <3>5, <3>7 DEF ServersStay
  <2>14. WritingFor(t)' /\ ReadsFor(t)' /\ written \subseteq written' /\ UNCHANGED written
    BY <1>1, <2>3, <2>12, <2>13, SameSpan DEF op
  <2>15. OneServes' /\ WritingKept' /\ ReadsKept' /\ StillFiles' /\ FilesThere'
    BY <2>3, <2>12, <2>13, <2>14, OthersStay, StillStays
  <2>16. WrittenKept' /\ ConfirmedThere' /\ confirmed' \subseteq DiskBlocks
    BY <1>1, <2>12, <2>13, WrittenStays, ConfirmedStays
  <2>17. missedReads' \subseteq Met'
    BY <1>0, <1>7, <2>12, HomesStay
  <2>. QED BY <2>8, <2>9, <2>10, <2>11, <2>15, <2>16, <2>17 DEF DiskInv
<1>. QED BY <1>1, <1>6, <1>7

(* What the steps that use a handle know of it.                            *)
LEMMA InHand ==
  ASSUME DiskInv, NEW t \in DiskTasks, diskOp[t] # DiskIdle, diskOp[t].step = "use"
  PROVE  /\ diskOp[t].handle \in HandleIds
         /\ fileHandle[diskOp[t].handle].file = FileAt(diskOp[t])
         /\ diskOp[t].root = rootOf =>
                fileHandle[diskOp[t].handle].place = Here /\ Serves(diskOp[t].handle)
<1>1. UsedFor(t)
  BY DEF DiskInv, UsedFits
<1>2. diskOp[t].root = rootOf => rootOf # "none"
  BY OpTyped DEF DiskInv, Storages
<1>. QED BY <1>1, <1>2 DEF UsedFor, Serves

(* The next span of an operation, or none.                                 *)
LastSpan(t) == diskOp[t].span = Len(SpanFiles[diskOp[t].block])
Onward(t, found) ==
    IF LastSpan(t) THEN diskOp'[t] = DiskIdle
    ELSE /\ diskOp'[t] # DiskIdle
         /\ diskOp'[t].kind = diskOp[t].kind /\ diskOp'[t].block = diskOp[t].block
         /\ diskOp'[t].root = diskOp[t].root /\ diskOp'[t].span = diskOp[t].span + 1
         /\ diskOp'[t].step = "find" /\ diskOp'[t].handle = 0
         /\ diskOp'[t].expects = diskOp[t].expects /\ diskOp'[t].found = found

(* The operation after a span: the next span, or none.                     *)
LEMMA NextSpan ==
  ASSUME DiskShape, NEW t \in DiskTasks, diskOp[t] # DiskIdle, NEW found \in BOOLEAN,
         diskOp' = [diskOp EXCEPT ![t] =
             IF LastSpan(t) THEN DiskIdle
             ELSE [diskOp[t] EXCEPT !.span = diskOp[t].span + 1, !.step = "find", !.handle = 0,
                                    !.found = found]]
  PROVE  /\ diskOp' \in [DiskTasks -> {DiskIdle} \cup DiskOps]
         /\ \A u \in DiskTasks : u # t => diskOp'[u] = diskOp[u]
         /\ \A u \in DiskTasks : diskOp'[u] # DiskIdle =>
                diskOp'[u].span \in DOMAIN SpanFiles[diskOp'[u].block]
         /\ Onward(t, found)
<1> DEFINE b == diskOp[t].block
           n == diskOp[t].span
           next == [diskOp[t] EXCEPT !.span = n + 1, !.step = "find", !.handle = 0,
                                     !.found = found]
<1>1. /\ diskOp \in [DiskTasks -> {DiskIdle} \cup DiskOps]
      /\ \A u \in DiskTasks : diskOp[u] # DiskIdle =>
             diskOp[u].span \in DOMAIN SpanFiles[diskOp[u].block]
  BY DEF DiskShape
<1>2. diskOp[t] \in DiskOps /\ b \in DiskBlocks /\ n \in DOMAIN SpanFiles[b]
  BY OpTyped
<1>3. DOMAIN SpanFiles[b] = 1 .. Len(SpanFiles[b]) /\ Len(SpanFiles[b]) \in Nat
  BY <1>2, SpansTyped
<1>4. n \in Nat /\ n + 1 \in Nat /\ (n # Len(SpanFiles[b]) => n + 1 \in DOMAIN SpanFiles[b])
  BY <1>2, <1>3
<1>5. /\ next \in DiskOps /\ next # DiskIdle
      /\ next.kind = diskOp[t].kind /\ next.block = b /\ next.root = diskOp[t].root
      /\ next.span = n + 1 /\ next.step = "find" /\ next.handle = 0
      /\ next.expects = diskOp[t].expects /\ next.found = found
  <2>1. 0 \in Nat
    OBVIOUS
  <2>. QED BY <1>2, <1>4, <2>1 DEF DiskOps, DiskIdle
<1>. HIDE DEF next
<1>6. CASE n = Len(SpanFiles[b])
  <2>1. diskOp' = [diskOp EXCEPT ![t] = DiskIdle]
    BY <1>6 DEF LastSpan
  <2>2. diskOp'[t] = DiskIdle /\ \A u \in DiskTasks : u # t => diskOp'[u] = diskOp[u]
    BY <1>1, <2>1
  <2>3. diskOp' \in [DiskTasks -> {DiskIdle} \cup DiskOps]
    BY <1>1, <2>1
  <2>. QED BY <1>1, <1>6, <2>2, <2>3 DEF Onward, LastSpan
<1>7. CASE n # Len(SpanFiles[b])
  <2>1. diskOp' = [diskOp EXCEPT ![t] = next]
    BY <1>7 DEF next, LastSpan
  <2>2. diskOp'[t] = next /\ \A u \in DiskTasks : u # t => diskOp'[u] = diskOp[u]
    BY <1>1, <2>1
  <2>3. diskOp' \in [DiskTasks -> {DiskIdle} \cup DiskOps]
    BY <1>1, <1>5, <2>1
  <2>4. \A u \in DiskTasks : diskOp'[u] # DiskIdle =>
            diskOp'[u].span \in DOMAIN SpanFiles[diskOp'[u].block]
    BY <1>1, <1>4, <1>5, <1>7, <2>2
  <2>. QED BY <1>5, <1>7, <2>2, <2>3, <2>4 DEF Onward, LastSpan
<1>. QED BY <1>6, <1>7

(* What a write leaves is on its way through the only handle that serves.  *)
LEMMA WriteKeeps ==
  ASSUME DiskInv, NEW t \in DiskTasks, WriteSpan(t)
  PROVE  DiskInv'
<1>. USE DEF DiskHistory, Layout
<1>0. DiskShape /\ CachedFits /\ UsedFits /\ NotYetMoved /\ missedReads \subseteq Met
      /\ WritingFor(t)
  BY DEF DiskInv, WritingKept
<1>1. PICK b, n, k : b = diskOp[t].block /\ n = diskOp[t].span /\ k = diskOp[t].handle
  OBVIOUS
<1>2. /\ diskOp[t] # DiskIdle /\ diskOp[t].kind = "write" /\ diskOp[t].step = "use"
      /\ fileHandle[k].flight = {}
      /\ fileHandle' = [fileHandle EXCEPT ![k].flight = {b}]
      /\ diskOp' = [diskOp EXCEPT ![t] =
             IF n = Len(SpanFiles[b]) THEN DiskIdle
             ELSE [diskOp[t] EXCEPT !.span = n + 1, !.step = "find", !.handle = 0]]
      /\ written' = IF n = Len(SpanFiles[b]) THEN written \cup {b} ELSE written
      /\ mishaps' = mishaps \cup
             {"late"} \X (IF diskOp[t].root = rootOf THEN {} ELSE {FileAt(diskOp[t])})
      /\ UNCHANGED <<cachedHandle, onDisk, fileThere, moved, newRoot, rootOf, sweeping, confirmed,
                     missedReads>>
  BY <1>1 DEF WriteSpan, Settled, Happens
<1>3. /\ diskOp[t] \in DiskOps /\ b \in DiskBlocks /\ n \in DOMAIN SpanFiles[b]
      /\ diskOp[t].found \in BOOLEAN /\ n \in Nat
      /\ DOMAIN SpanFiles[b] = 1 .. Len(SpanFiles[b]) /\ Len(SpanFiles[b]) \in Nat
      /\ \A i \in DOMAIN SpanFiles[b] : SpanFiles[b][i] \in DiskFiles
  BY <1>0, <1>1, <1>2, OpTyped, SpansTyped
<1>4. /\ k \in HandleIds /\ fileHandle[k].file = SpanFiles[b][n]
      /\ diskOp[t].root = rootOf => fileHandle[k].place = Here /\ Serves(k)
  BY <1>1, <1>2, InHand DEF FileAt
<1>5. /\ diskOp' \in [DiskTasks -> {DiskIdle} \cup DiskOps]
      /\ \A u \in DiskTasks : u # t => diskOp'[u] = diskOp[u]
      /\ \A u \in DiskTasks : diskOp'[u] # DiskIdle =>
             diskOp'[u].span \in DOMAIN SpanFiles[diskOp'[u].block]
      /\ IF n = Len(SpanFiles[b]) THEN diskOp'[t] = DiskIdle
         ELSE /\ diskOp'[t] # DiskIdle
              /\ diskOp'[t].kind = "write" /\ diskOp'[t].block = b
              /\ diskOp'[t].root = diskOp[t].root /\ diskOp'[t].span = n + 1
              /\ diskOp'[t].step = "find" /\ diskOp'[t].handle = 0
  <2>1. PICK found \in BOOLEAN : found = diskOp[t].found
    BY <1>3
  <2>2. [diskOp[t] EXCEPT !.span = n + 1, !.step = "find", !.handle = 0]
        = [diskOp[t] EXCEPT !.span = n + 1, !.step = "find", !.handle = 0, !.found = found]
    BY <1>3, <2>1 DEF DiskOps
  <2>3. diskOp' = [diskOp EXCEPT ![t] =
             IF LastSpan(t) THEN DiskIdle
             ELSE [diskOp[t] EXCEPT !.span = diskOp[t].span + 1, !.step = "find", !.handle = 0,
                                    !.found = found]]
    BY <1>1, <1>2, <2>2 DEF LastSpan
  <2>4. DiskShape /\ diskOp[t] # DiskIdle
    BY <1>0, <1>2
  <2>5. Onward(t, found)
    BY <2>3, <2>4, NextSpan, Zenon
  <2>6. /\ diskOp' \in [DiskTasks -> {DiskIdle} \cup DiskOps]
        /\ \A u \in DiskTasks : u # t => diskOp'[u] = diskOp[u]
        /\ \A u \in DiskTasks : diskOp'[u] # DiskIdle =>
               diskOp'[u].span \in DOMAIN SpanFiles[diskOp'[u].block]
    BY <2>3, <2>4, NextSpan, Zenon
  <2>. QED BY <1>1, <1>2, <2>5, <2>6 DEF Onward, LastSpan
<1>6. /\ rootOf' = rootOf /\ Here' = Here /\ mishaps \subseteq mishaps'
      /\ mishaps' \subseteq Mishaps \X DiskFiles
      /\ \A f \in DiskFiles : <<"deleted", f>> \in mishaps' => <<"deleted", f>> \in mishaps
      /\ diskOp[t].root # rootOf => SpanFiles[b][n] \in Met'
  <2>1. mishaps \subseteq Mishaps \X DiskFiles /\ FileAt(diskOp[t]) = SpanFiles[b][n]
    BY <1>0, <1>1 DEF DiskShape, FileAt
  <2>2. mishaps' \subseteq Mishaps \X DiskFiles
    BY <1>2, <1>3, <2>1 DEF Mishaps
  <2>3. diskOp[t].root # rootOf => <<"late", SpanFiles[b][n]>> \in mishaps'
    BY <1>2, <2>1
  <2>. QED BY <1>2, <1>3, <2>2, <2>3 DEF Here, PlaceOf, Met, Mishaps
<1>7. /\ HandleIds' = HandleIds /\ fileHandle' \in Seq(Handles) /\ \A g \in HandleIds : g # 0
      /\ fileHandle'[k].flight = {b}
      /\ \A g \in HandleIds : /\ fileHandle'[g].file = fileHandle[g].file
                              /\ fileHandle'[g].place = fileHandle[g].place
                              /\ g # k => fileHandle'[g] = fileHandle[g]
  <2>1. /\ fileHandle \in Seq(Handles) /\ HandleIds = 1 .. Len(fileHandle)
        /\ Len(fileHandle) \in Nat
    BY <1>0, HandleTyped DEF DiskShape
  <2>2. fileHandle[k] \in Handles /\ k \in 1 .. Len(fileHandle)
    BY <1>4, <2>1
  <2>3. [fileHandle[k] EXCEPT !.flight = {b}] \in Handles
    BY <1>3, <2>2 DEF Handles
  <2>4. /\ fileHandle' = [fileHandle EXCEPT ![k] = [fileHandle[k] EXCEPT !.flight = {b}]]
        /\ fileHandle' \in Seq(Handles) /\ Len(fileHandle') = Len(fileHandle)
    BY <1>2, <2>1, <2>2, <2>3
  <2>5. /\ fileHandle'[k] = [fileHandle[k] EXCEPT !.flight = {b}]
        /\ \A g \in HandleIds : g # k => fileHandle'[g] = fileHandle[g]
    BY <2>1, <2>2, <2>4
  <2>6. \A g \in HandleIds : g # 0
    BY <2>1
  <2>7. HandleIds' = HandleIds
    BY <2>4 DEF HandleIds
  <2>. QED BY <2>2, <2>4, <2>5, <2>6, <2>7 DEF Handles
<1>8. written \subseteq written' /\ written' \subseteq written \cup {b}
      /\ written' \subseteq DiskBlocks
  BY <1>0, <1>2, <1>3 DEF DiskShape
<1>9. DiskShape'
  BY <1>0, <1>2, <1>5, <1>6, <1>7, <1>8 DEF DiskShape
<1>10. CachedFits' /\ NotYetMoved'
  <2>1. CachedFits'
    BY <1>0, <1>2, <1>6, <1>7 DEF CachedFits
  <2>2. \A u \in DiskTasks : diskOp'[u] # DiskIdle =>
            diskOp[u] # DiskIdle /\ diskOp'[u].root = diskOp[u].root
    BY <1>2, <1>5
  <2>. QED BY <1>0, <1>2, <1>6, <2>1, <2>2 DEF NotYetMoved
<1>11. UsedFits'
  <2>1. UsedFor(t)'
    BY <1>5 DEF UsedFor
  <2>2. ASSUME NEW u \in DiskTasks, u # t PROVE UsedFor(u)'
    <3>1. diskOp'[u] = diskOp[u] /\ UsedFor(u)
      BY <1>0, <1>5, <2>2 DEF UsedFits
    <3>. QED BY <1>6, <1>7, <3>1 DEF UsedFor, FileAt
  <2>. QED BY <2>1, <2>2 DEF UsedFits
<1>12. HandlesStay /\ NothingLost /\ QuietStays
  <2>1. HandlesStay
    BY <1>2, <1>6, <1>7 DEF HandlesStay
  <2>2. NothingLost
    BY <1>2, <1>7 DEF NothingLost
  <2>3. rootOf = "none" => diskOp[t].root # rootOf
    BY <1>3 DEF DiskOps, Storages
  <2>4. QuietStays
    BY <1>2, <1>4, <1>6, <1>7, <2>3 DEF QuietStays, Quiet
  <2>. QED BY <2>1, <2>2, <2>4
<1>13. ServersStay
  <2>1. ASSUME NEW g \in HandleIds, Serves(g)' PROVE Serves(g)
    BY <1>2, <1>5, <1>6, <1>7, <2>1 DEF Serves
  <2>. QED BY <1>7, <2>1 DEF ServersStay
<1>14. ASSUME NEW i \in DOMAIN SpanFiles[b], i =< n
       PROVE  Kept(b, SpanFiles[b][i])'
  <2>1. PICK f \in DiskFiles : f = SpanFiles[b][i]
    BY <1>3
  <2>2. CASE i < n
    <3>1. Kept(b, f)
      BY <1>0, <1>1, <1>2, <1>14, <2>1, <2>2 DEF WritingFor
    <3>. QED BY <1>0, <1>3, <1>12, <1>13, <2>1, <3>1, KeptStays
  <2>3. CASE i = n /\ f \notin Met'
    <3>1. f \notin Met /\ diskOp[t].root = rootOf
      BY <1>0, <1>6, <1>12, <2>1, <2>3, HomesStay
    <3>2. \A g \in HandleIds : Serves(g)' /\ fileHandle'[g].file = f => g = k
      <4>1. SUFFICES ASSUME NEW g \in HandleIds, Serves(g)', fileHandle'[g].file = f
                     PROVE  g = k
        OBVIOUS
      <4>2. Serves(g) /\ fileHandle[g].file = f
        BY <1>2, <1>5, <1>6, <1>7, <4>1 DEF Serves
      <4>. QED BY <1>4, <2>1, <2>3, <3>1, <4>2 DEF DiskInv, OneServes
    <3>3. Home(f)' = Here
      BY <1>2, <1>3, <1>6, <3>1 DEF Home, DiskOps, Storages
    <3>4. OnItsWay(b, f)'
      BY <1>4, <1>7, <2>1, <2>3, <3>1, <3>2, <3>3 DEF OnItsWay
    <3>. QED BY <2>1, <3>4 DEF Kept
  <2>4. CASE f \in Met'
    BY <2>1, <2>4 DEF Kept
  <2>5. i < n \/ i = n
    BY <1>3, <1>14
  <2>. QED BY <2>2, <2>3, <2>4, <2>5
<1>15. WritingFor(t)' /\ ReadsFor(t)'
  <2>1. CASE diskOp'[t] = DiskIdle
    BY <2>1 DEF WritingFor, ReadsFor
  <2>2. CASE diskOp'[t] # DiskIdle
    <3>1. /\ diskOp'[t].kind = "write" /\ diskOp'[t].block = b /\ diskOp'[t].span = n + 1
      BY <1>5, <2>2
    <3>2. \A i \in DOMAIN SpanFiles[b] : i < n + 1 => i =< n
      BY <1>3
    <3>3. SUFFICES ASSUME NEW i \in DOMAIN SpanFiles[b], i < n + 1
                   PROVE  Kept(b, SpanFiles[b][i])'
      BY <3>1 DEF WritingFor, ReadsFor
    <3>. QED BY <1>14, <3>2, <3>3
  <2>. QED BY <2>1, <2>2
<1>16. OneServes' /\ WritingKept' /\ ReadsKept' /\ StillFiles' /\ FilesThere'
  BY <1>5, <1>8, <1>12, <1>13, <1>15, OthersStay, StillStays
<1>17. WrittenKept'
  <2>1. SUFFICES ASSUME NEW c \in written', NEW i \in DOMAIN SpanFiles[c]
                 PROVE  Kept(c, SpanFiles[c][i])'
    BY DEF WrittenKept
  <2>2. c \in DiskBlocks /\ SpanFiles[c][i] \in DiskFiles
    BY <1>8, <2>1, SpansTyped
  <2>3. CASE c \in written
    <3>1. Kept(c, SpanFiles[c][i])
      BY <2>1, <2>3 DEF DiskInv, WrittenKept
    <3>. QED BY <1>0, <1>12, <1>13, <2>2, <3>1, KeptStays
  <2>4. CASE c \notin written
    <3>1. c = b /\ n = Len(SpanFiles[b])
      BY <1>2, <1>8, <2>1, <2>4
    <3>2. i =< n
      BY <1>3, <2>1, <3>1
    <3>. QED BY <1>14, <2>1, <3>1, <3>2
  <2>. QED BY <2>3, <2>4
<1>18. ConfirmedThere' /\ confirmed' \subseteq DiskBlocks
  BY <1>2, <1>12, ConfirmedStays
<1>19. missedReads' \subseteq Met'
  BY <1>0, <1>2, <1>12, HomesStay
<1>. QED BY <1>9, <1>10, <1>11, <1>16, <1>17, <1>18, <1>19 DEF DiskInv

(* A handle whose data has reached the file or never will.                 *)
LEMMA SettledKeeps ==
  ASSUME DiskInv, NEW k \in HandleIds, fileHandle[k].flight # {},
         fileHandle' = [fileHandle EXCEPT ![k].flight = {}],
         UNCHANGED <<cachedHandle, fileThere, moved, newRoot, rootOf, diskOp, sweeping, written,
                     confirmed, missedReads>>,
         onDisk' \in [Places -> [DiskFiles -> SUBSET DiskBlocks]],
         \A p \in Places, f \in DiskFiles :
             /\ onDisk[p][f] \subseteq onDisk'[p][f]
             /\ f # fileHandle[k].file => onDisk'[p][f] = onDisk[p][f],
         mishaps \subseteq mishaps', mishaps' \subseteq Mishaps \X DiskFiles,
         \A f \in DiskFiles : <<"deleted", f>> \in mishaps' => <<"deleted", f>> \in mishaps,
         \/ fileHandle[k].file \in Met'
         \/ fileHandle[k].flight \subseteq onDisk'[fileHandle[k].place][fileHandle[k].file]
  PROVE  DiskInv'
<1>0. DiskShape /\ CachedFits /\ UsedFits /\ NotYetMoved /\ missedReads \subseteq Met
  BY DEF DiskInv
<1>1. /\ fileHandle \in Seq(Handles) /\ HandleIds = 1 .. Len(fileHandle)
      /\ Len(fileHandle) \in Nat /\ fileHandle[k] \in Handles
      /\ \A g \in HandleIds : g # 0
  BY <1>0, HandleTyped DEF DiskShape
<1>2. /\ HandleIds' = HandleIds /\ fileHandle' \in Seq(Handles)
      /\ fileHandle'[k].flight = {}
      /\ \A g \in HandleIds : /\ fileHandle'[g].file = fileHandle[g].file
                              /\ fileHandle'[g].place = fileHandle[g].place
                              /\ g # k => fileHandle'[g] = fileHandle[g]
  <2>1. [fileHandle[k] EXCEPT !.flight = {}] \in Handles
    BY <1>1 DEF Handles
  <2>2. /\ fileHandle' = [fileHandle EXCEPT ![k] = [fileHandle[k] EXCEPT !.flight = {}]]
        /\ fileHandle' \in Seq(Handles) /\ Len(fileHandle') = Len(fileHandle)
    BY <1>1, <2>1
  <2>3. /\ fileHandle'[k] = [fileHandle[k] EXCEPT !.flight = {}]
        /\ \A g \in HandleIds : g # k => fileHandle'[g] = fileHandle[g]
    BY <1>1, <2>2
  <2>4. HandleIds' = HandleIds
    BY <2>2 DEF HandleIds
  <2>. QED BY <1>1, <2>2, <2>3, <2>4 DEF Handles
<1>3. rootOf' = rootOf /\ Here' = Here
  BY DEF Here, PlaceOf
<1>4. DiskShape'
  BY <1>0, <1>2 DEF DiskShape
<1>5. CachedFits' /\ NotYetMoved'
  BY <1>0, <1>2, <1>3 DEF CachedFits, NotYetMoved
<1>6. UsedFits'
  BY <1>0, <1>2, <1>3 DEF UsedFits, UsedFor, FileAt
<1>7. HandlesStay /\ NothingLost /\ QuietStays
  <2>1. HandlesStay
    BY <1>2 DEF HandlesStay
  <2>2. NothingLost
    BY <1>2 DEF NothingLost
  <2>3. QuietStays
    BY <1>2 DEF QuietStays, Quiet, Places, Storages
  <2>. QED BY <2>1, <2>2, <2>3
<1>8. ServersStay
  BY <1>2, <1>3 DEF ServersStay, Serves
<1>9. OneServes' /\ WritingKept' /\ ReadsKept' /\ StillFiles' /\ FilesThere'
  <2>1. PICK u : u \notin DiskTasks
    BY NoSetContainsEverything
  <2>. QED BY <1>7, <1>8, <2>1, OthersStay, StillStays
<1>10. WrittenKept' /\ ConfirmedThere' /\ confirmed' \subseteq DiskBlocks
  BY <1>7, <1>8, WrittenStays, ConfirmedStays
<1>11. missedReads' \subseteq Met'
  BY <1>0, <1>7, HomesStay
<1>. QED BY <1>4, <1>5, <1>6, <1>9, <1>10, <1>11 DEF DiskInv

(* What was on its way is there.                                           *)
LEMMA ReachKeeps ==
  ASSUME DiskInv, NEW k \in HandleIds, Reaches(k)
  PROVE  DiskInv'
<1>. USE DEF DiskHistory
<1>0. DiskShape
  BY DEF DiskInv
<1>1. PICK p, f : p = fileHandle[k].place /\ f = fileHandle[k].file
  OBVIOUS
<1>2. /\ onDisk' = [onDisk EXCEPT ![p][f] = @ \cup fileHandle[k].flight]
      /\ fileHandle' = [fileHandle EXCEPT ![k].flight = {}] /\ fileHandle[k].flight # {}
      /\ UNCHANGED <<cachedHandle, fileThere, moved, newRoot, rootOf, diskOp, sweeping, written,
                     confirmed, missedReads, mishaps>>
  BY <1>1 DEF Reaches, Settled
<1>3. /\ f \in DiskFiles /\ p \in Places /\ fileHandle[k].flight \in SUBSET DiskBlocks
      /\ onDisk \in [Places -> [DiskFiles -> SUBSET DiskBlocks]]
      /\ mishaps \subseteq Mishaps \X DiskFiles
  BY <1>0, <1>1, HandleTyped DEF DiskShape
<1>4. /\ onDisk' \in [Places -> [DiskFiles -> SUBSET DiskBlocks]]
      /\ \A q \in Places, g \in DiskFiles :
             /\ onDisk[q][g] \subseteq onDisk'[q][g]
             /\ g # f => onDisk'[q][g] = onDisk[q][g]
      /\ fileHandle[k].flight \subseteq onDisk'[p][f]
  BY <1>2, <1>3
<1>. QED BY <1>1, <1>2, <1>3, <1>4, SettledKeeps

(* What never reaches its file is marked.                                  *)
LEMMA NeverKeeps ==
  ASSUME DiskInv, NEW k \in HandleIds, NeverReaches(k)
  PROVE  DiskInv'
<1>. USE DEF DiskHistory, Layout
<1>0. DiskShape
  BY DEF DiskInv
<1>1. /\ fileHandle' = [fileHandle EXCEPT ![k].flight = {}] /\ fileHandle[k].flight # {}
      /\ UNCHANGED <<cachedHandle, onDisk, fileThere, moved, newRoot, rootOf, diskOp, sweeping,
                     written, confirmed, missedReads>>
      /\ mishaps' = mishaps \cup {"failed"} \X {fileHandle[k].file}
  BY DEF NeverReaches, Settled, Happens
<1>2. /\ fileHandle[k].file \in DiskFiles /\ mishaps \subseteq Mishaps \X DiskFiles
      /\ onDisk \in [Places -> [DiskFiles -> SUBSET DiskBlocks]]
  BY <1>0, HandleTyped DEF DiskShape
<1>3. /\ mishaps \subseteq mishaps' /\ mishaps' \subseteq Mishaps \X DiskFiles
      /\ \A f \in DiskFiles : <<"deleted", f>> \in mishaps' => <<"deleted", f>> \in mishaps
      /\ fileHandle[k].file \in Met'
  <2>1. <<"failed", fileHandle[k].file>> \in mishaps'
    BY <1>1
  <2>. QED BY <1>1, <1>2, <2>1 DEF Mishaps, Met
<1>. QED BY <1>1, <1>2, <1>3, SettledKeeps

(* A read waits for its handle, so what was on its way is there.           *)
LEMMA ReadKeeps ==
  ASSUME DiskInv, NEW t \in DiskTasks, ReadSpan(t)
  PROVE  DiskInv'
<1>. USE DEF DiskHistory, Layout
<1>0. DiskShape /\ CachedFits /\ UsedFits /\ NotYetMoved /\ missedReads \subseteq Met
      /\ ReadsFor(t) /\ confirmed \subseteq DiskBlocks /\ ConfirmedThere /\ WrittenKept
  BY DEF DiskInv, ReadsKept
<1>1. PICK b, n, k, f, p : /\ b = diskOp[t].block /\ n = diskOp[t].span /\ k = diskOp[t].handle
                           /\ f = fileHandle[k].file /\ p = fileHandle[k].place
  OBVIOUS
<1>2. PICK here \in BOOLEAN : here <=> b \in onDisk[p][f]
  OBVIOUS
<1>3. PICK found \in BOOLEAN : found <=> diskOp[t].found /\ here
  OBVIOUS
<1>4. /\ diskOp[t] # DiskIdle /\ diskOp[t].kind = "read" /\ diskOp[t].step = "use"
      /\ fileHandle[k].flight = {}
      /\ UNCHANGED <<cachedHandle, fileHandle, onDisk, fileThere, moved, newRoot, rootOf, sweeping,
                     written, mishaps>>
  BY <1>1 DEF ReadSpan, Settled
<1>5. /\ diskOp[t] \in DiskOps /\ b \in DiskBlocks /\ n \in DOMAIN SpanFiles[b]
      /\ diskOp[t].found \in BOOLEAN /\ diskOp[t].expects \in BOOLEAN /\ n \in Nat
      /\ DOMAIN SpanFiles[b] = 1 .. Len(SpanFiles[b]) /\ Len(SpanFiles[b]) \in Nat
      /\ \A i \in DOMAIN SpanFiles[b] : SpanFiles[b][i] \in DiskFiles
  BY <1>0, <1>1, <1>4, OpTyped, SpansTyped
<1>6. confirmed' \subseteq confirmed \cup
          (IF LastSpan(t) /\ found /\ diskOp[t].root = rootOf THEN {b} ELSE {})
      /\ missedReads' \subseteq missedReads \cup
          (IF diskOp[t].expects /\ ~here /\ diskOp[t].root = rootOf THEN {f} ELSE {})
  BY <1>1, <1>2, <1>3 DEF ReadSpan, LastSpan
<1>7. diskOp' = [diskOp EXCEPT ![t] =
          IF LastSpan(t) THEN DiskIdle
          ELSE [diskOp[t] EXCEPT !.span = diskOp[t].span + 1, !.step = "find", !.handle = 0,
                                 !.found = found]]
  <2>1. diskOp' = [diskOp EXCEPT ![t] =
            IF LastSpan(t) THEN DiskIdle
            ELSE [diskOp[t] EXCEPT !.span = @ + 1, !.step = "find", !.handle = 0,
                                   !.found = @ /\ b \in onDisk[p][f]]]
    BY <1>1 DEF ReadSpan, LastSpan
  <2>2. found = (diskOp[t].found /\ b \in onDisk[p][f])
    BY <1>2, <1>3, <1>5
  <2>3. [diskOp[t] EXCEPT !.span = @ + 1, !.step = "find", !.handle = 0,
                          !.found = @ /\ b \in onDisk[p][f]]
        = [diskOp[t] EXCEPT !.span = diskOp[t].span + 1, !.step = "find", !.handle = 0,
                            !.found = found]
    BY <1>5, <2>2 DEF DiskOps
  <2>. QED BY <2>1, <2>3
<1>8. /\ Onward(t, found)
      /\ diskOp' \in [DiskTasks -> {DiskIdle} \cup DiskOps]
      /\ \A u \in DiskTasks : u # t => diskOp'[u] = diskOp[u]
      /\ \A u \in DiskTasks : diskOp'[u] # DiskIdle =>
             diskOp'[u].span \in DOMAIN SpanFiles[diskOp'[u].block]
  <2>1. DiskShape /\ diskOp[t] # DiskIdle
    BY <1>0, <1>4
  <2>. QED BY <1>7, <2>1, NextSpan, Zenon
<1>9. diskOp'[t] # DiskIdle =>
          /\ diskOp'[t].kind = "read" /\ diskOp'[t].block = b
          /\ diskOp'[t].root = diskOp[t].root /\ diskOp'[t].span = n + 1
          /\ diskOp'[t].step = "find" /\ diskOp'[t].handle = 0
          /\ diskOp'[t].expects = diskOp[t].expects /\ diskOp'[t].found = found
  BY <1>1, <1>4, <1>8 DEF Onward
<1>10. /\ k \in HandleIds /\ f = SpanFiles[b][n] /\ f \in DiskFiles
       /\ diskOp[t].root = rootOf => p = Here /\ Serves(k)
  BY <1>1, <1>4, <1>5, InHand DEF FileAt
<1>11. rootOf' = rootOf /\ Here' = Here /\ HandleIds' = HandleIds
       /\ \A g \in HandleIds : g # 0
  BY <1>0, <1>4, HandleTyped DEF HandleIds, Here, PlaceOf
<1>12. ASSUME found, diskOp[t].root = rootOf, NEW i \in DOMAIN SpanFiles[b], i =< n
       PROVE  b \in onDisk[Here][SpanFiles[b][i]]
  <2>1. CASE i < n
    BY <1>0, <1>1, <1>3, <1>4, <1>12, <2>1 DEF ReadsFor
  <2>2. CASE i = n
    BY <1>2, <1>3, <1>10, <1>12, <2>2
  <2>. QED BY <1>5, <1>12, <2>1, <2>2
<1>13. /\ diskOp[t].root = rootOf => rootOf # "none"
       /\ rootOf # "none" => \A g \in DiskFiles : Home(g) = Here /\ Homes(g) \subseteq {Here}
  BY <1>5 DEF DiskOps, Storages, Home, Homes
<1>14. DiskShape'
  BY <1>0, <1>4, <1>8 DEF DiskShape
<1>15. CachedFits' /\ NotYetMoved'
  <2>1. CachedFits'
    BY <1>0, <1>4, <1>11 DEF CachedFits
  <2>2. \A u \in DiskTasks : diskOp'[u] # DiskIdle =>
            diskOp[u] # DiskIdle /\ diskOp'[u].root = diskOp[u].root
    BY <1>4, <1>8, <1>9
  <2>. QED BY <1>0, <1>4, <2>1, <2>2 DEF NotYetMoved
<1>16. UsedFits'
  <2>1. UsedFor(t)'
    BY <1>9 DEF UsedFor
  <2>2. ASSUME NEW u \in DiskTasks, u # t PROVE UsedFor(u)'
    <3>1. diskOp'[u] = diskOp[u] /\ UsedFor(u)
      BY <1>0, <1>8, <2>2 DEF UsedFits
    <3>. QED BY <1>4, <1>11, <3>1 DEF UsedFor, FileAt
  <2>. QED BY <2>1, <2>2 DEF UsedFits
<1>17. HandlesStay /\ NothingLost /\ QuietStays /\ written \subseteq written' /\ UNCHANGED written
  BY <1>4, HandlesUntouched
<1>18. ServersStay
  <2>1. ASSUME NEW g \in HandleIds, Serves(g)' PROVE Serves(g)
    BY <1>4, <1>8, <1>9, <1>11, <2>1 DEF Serves
  <2>. QED BY <1>11, <2>1 DEF ServersStay
<1>19. WritingFor(t)' /\ ReadsFor(t)'
  <2>1. CASE diskOp'[t] = DiskIdle
    BY <2>1 DEF WritingFor, ReadsFor
  <2>2. CASE diskOp'[t] # DiskIdle
    <3>1. \A i \in DOMAIN SpanFiles[b] : i < n + 1 => i =< n
      BY <1>5
    <3>2. diskOp[t].expects => b \in written
      BY <1>0, <1>1, <1>4 DEF ReadsFor
    <3>. QED BY <1>4, <1>9, <1>11, <1>12, <2>2, <3>1, <3>2 DEF WritingFor, ReadsFor
  <2>. QED BY <2>1, <2>2
<1>20. OneServes' /\ WritingKept' /\ ReadsKept' /\ StillFiles' /\ FilesThere'
  BY <1>8, <1>17, <1>18, <1>19, OthersStay, StillStays
<1>21. WrittenKept'
  BY <1>17, <1>18, WrittenStays
<1>22. ConfirmedThere' /\ confirmed' \subseteq DiskBlocks
  <2>1. ASSUME LastSpan(t), found, diskOp[t].root = rootOf, NEW i \in DOMAIN SpanFiles[b]
        PROVE  b \in onDisk[Here][SpanFiles[b][i]]
    <3>1. i =< n
      BY <1>1, <1>5, <2>1 DEF LastSpan
    <3>. QED BY <1>12, <2>1, <3>1
  <2>2. confirmed' \subseteq DiskBlocks
    BY <1>0, <1>5, <1>6
  <2>3. ASSUME NEW c \in confirmed', NEW i \in DOMAIN SpanFiles[c], NEW q \in Homes(SpanFiles[c][i])'
        PROVE  c \in onDisk'[q][SpanFiles[c][i]]
    <3>1. c \in DiskBlocks /\ SpanFiles[c][i] \in DiskFiles
      BY <2>2, <2>3, SpansTyped
    <3>2. q \in Homes(SpanFiles[c][i])
      BY <1>0, <1>17, <2>3, <3>1, HomesStay
    <3>3. CASE c \in confirmed
      BY <1>0, <1>4, <2>3, <3>2, <3>3 DEF ConfirmedThere
    <3>4. CASE c \notin confirmed
      <4>1. c = b /\ LastSpan(t) /\ found /\ diskOp[t].root = rootOf
        BY <1>6, <2>3, <3>4
      <4>. QED BY <1>4, <1>13, <2>1, <2>3, <3>1, <3>2, <4>1
    <3>. QED BY <3>3, <3>4
  <2>. QED BY <2>2, <2>3 DEF ConfirmedThere
<1>23. missedReads' \subseteq Met'
  <2>1. ASSUME diskOp[t].expects, ~here, diskOp[t].root = rootOf, f \notin Met PROVE FALSE
    <3>1. Kept(b, f) /\ Home(f) = Here
      BY <1>0, <1>1, <1>4, <1>5, <1>10, <1>13, <2>1 DEF ReadsFor, WrittenKept
    <3>2. b \notin onDisk[Here][f]
      BY <1>2, <1>10, <2>1
    <3>3. PICK g \in HandleIds :
              /\ b \in fileHandle[g].flight
              /\ \A h \in HandleIds : Serves(h) /\ fileHandle[h].file = f => h = g
      BY <2>1, <3>1, <3>2 DEF Kept, OnItsWay
    <3>4. k = g
      BY <1>1, <1>10, <2>1, <3>3
    <3>. QED BY <1>4, <3>3, <3>4
  <2>2. missedReads' \subseteq Met
    BY <1>0, <1>6, <2>1
  <2>. QED BY <1>0, <1>17, <2>2, HomesStay
<1>. QED BY <1>14, <1>15, <1>16, <1>20, <1>21, <1>22, <1>23 DEF DiskInv

(* An eviction or a flush takes entries away and touches nothing else.     *)
LEMMA SweepKeeps ==
  ASSUME DiskInv, Sweep \/ SweepOne
  PROVE  DiskInv'
<1>. USE DEF DiskHistory, Layout
<1>0. /\ DiskShape /\ CachedFits /\ UsedFits /\ NotYetMoved /\ missedReads \subseteq Met
      /\ WritingKept /\ ReadsKept
      /\ cachedHandle \in [Storages -> [DiskFiles -> Nat]]
  BY DEF DiskInv, DiskShape
<1>1. /\ UNCHANGED <<fileHandle, onDisk, fileThere, moved, newRoot, rootOf, diskOp, written,
                     confirmed, missedReads, mishaps>>
      /\ sweeping' \subseteq Storages \X DiskFiles
      /\ \/ UNCHANGED cachedHandle
         \/ \E s \in Storages, f \in DiskFiles :
                cachedHandle' = [cachedHandle EXCEPT ![s][f] = 0]
  <2>1. CASE Sweep
    BY <2>1 DEF Sweep
  <2>2. CASE SweepOne
    <3>1. PICK key \in sweeping :
              /\ sweeping' = sweeping \ {key}
              /\ cachedHandle' = [cachedHandle EXCEPT ![key[1]][key[2]] = 0]
              /\ UNCHANGED <<fileHandle, Layout, diskOp, DiskHistory, mishaps, diskOps>>
      BY <2>2 DEF SweepOne
    <3>2. key[1] \in Storages /\ key[2] \in DiskFiles
      BY <1>0, <3>1 DEF DiskShape
    <3>3. sweeping' \subseteq Storages \X DiskFiles
      BY <1>0, <3>1 DEF DiskShape
    <3>. QED BY <3>1, <3>2, <3>3
  <2>. QED BY <2>1, <2>2
<1>2. /\ cachedHandle' \in [Storages -> [DiskFiles -> Nat]]
      /\ \A s \in Storages, f \in DiskFiles : cachedHandle'[s][f] \in {0, cachedHandle[s][f]}
  <2>1. CASE UNCHANGED cachedHandle
    BY <1>0, <2>1
  <2>2. ASSUME NEW s \in Storages, NEW f \in DiskFiles,
               cachedHandle' = [cachedHandle EXCEPT ![s][f] = 0]
        PROVE  /\ cachedHandle' \in [Storages -> [DiskFiles -> Nat]]
               /\ \A r \in Storages, g \in DiskFiles :
                      cachedHandle'[r][g] \in {0, cachedHandle[r][g]}
    BY <1>0, <2>2
  <2>. QED BY <1>1, <2>1, <2>2
<1>3. /\ rootOf' = rootOf /\ Here' = Here /\ HandleIds' = HandleIds
      /\ rootOf # "none" => rootOf \in Storages
      /\ \A g \in HandleIds : g # 0 /\ fileHandle[g].file \in DiskFiles
  BY <1>0, <1>1, HandleTyped DEF HandleIds, Here, PlaceOf, DiskShape
<1>4. DiskShape' /\ CachedFits'
  <2>1. DiskShape'
    BY <1>0, <1>1, <1>2 DEF DiskShape
  <2>2. CachedFits'
    <3>1. SUFFICES ASSUME NEW s \in Storages, NEW f \in DiskFiles, cachedHandle'[s][f] # 0
                   PROVE  /\ cachedHandle'[s][f] \in HandleIds
                          /\ fileHandle[cachedHandle'[s][f]].file = f
                          /\ s = rootOf => fileHandle[cachedHandle'[s][f]].place = Here
      BY <1>1, <1>3 DEF CachedFits
    <3>2. cachedHandle'[s][f] = cachedHandle[s][f]
      BY <1>2, <3>1
    <3>. QED BY <1>0, <3>1, <3>2 DEF CachedFits
  <2>. QED BY <2>1, <2>2
<1>5. UsedFits' /\ NotYetMoved'
  <2>1. NotYetMoved'
    <3>1. \A f \in DiskFiles : cachedHandle'["new"][f] \in {0, cachedHandle["new"][f]}
      BY <1>2 DEF Storages
    <3>. QED BY <1>0, <1>1, <3>1 DEF NotYetMoved
  <2>. QED BY <1>0, <1>1, <1>3, <2>1 DEF UsedFits, UsedFor, FileAt
<1>6. HandlesStay /\ NothingLost /\ QuietStays
  BY <1>1, HandlesUntouched
<1>7. ServersStay
  BY <1>1, <1>2, <1>3 DEF ServersStay, Serves
<1>8. written \subseteq written' /\ UNCHANGED <<written, confirmed>>
  BY <1>1
<1>9. OneServes' /\ WritingKept' /\ ReadsKept' /\ StillFiles' /\ FilesThere'
  <2>1. PICK u : u \notin DiskTasks
    BY NoSetContainsEverything
  <2>2. \A v \in DiskTasks : v # u => diskOp'[v] = diskOp[v]
    BY <1>1
  <2>. QED BY <1>6, <1>7, <1>8, <2>1, <2>2, OthersStay, StillStays
<1>10. WrittenKept' /\ ConfirmedThere' /\ confirmed' \subseteq DiskBlocks
  BY <1>6, <1>7, <1>8, WrittenStays, ConfirmedStays
<1>11. missedReads' \subseteq Met'
  BY <1>0, <1>1, <1>6, HomesStay
<1>. QED BY <1>4, <1>5, <1>9, <1>10, <1>11 DEF DiskInv

(* What every block and file shows is shown of what was or is written.     *)
LEMMA KeptAll ==
  ASSUME DiskInv, UNCHANGED <<written, diskOp>>,
         \A b \in DiskBlocks, f \in DiskFiles : Kept(b, f) => Kept(b, f)'
  PROVE  WrittenKept' /\ WritingKept'
<1>1. DiskShape /\ WrittenKept /\ WritingKept /\ written \subseteq DiskBlocks
  BY DEF DiskInv, DiskShape
<1>2. \A b \in DiskBlocks : \A i \in DOMAIN SpanFiles[b] : SpanFiles[b][i] \in DiskFiles
  BY SpansTyped
<1>3. WrittenKept'
  BY <1>1, <1>2 DEF WrittenKept
<1>4. ASSUME NEW t \in DiskTasks PROVE WritingFor(t)'
  <2>1. SUFFICES ASSUME diskOp[t] # DiskIdle, diskOp[t].kind = "write", NEW b, b = diskOp[t].block,
                        NEW i \in DOMAIN SpanFiles[b], i < diskOp[t].span
                 PROVE  Kept(b, SpanFiles[b][i])'
    BY DEF WritingFor
  <2>2. b \in DiskBlocks /\ SpanFiles[b][i] \in DiskFiles
    BY <1>1, <1>2, <2>1, OpTyped
  <2>3. Kept(b, SpanFiles[b][i])
    BY <1>1, <2>1 DEF WritingKept, WritingFor
  <2>. QED BY <2>2, <2>3
<1>. QED BY <1>3, <1>4 DEF WritingKept

(* Where the files are does not change while no storage is registered.     *)
LEMMA UnregisterKeeps ==
  ASSUME DiskInv, Unregister
  PROVE  DiskInv'
<1>1. UNCHANGED <<cachedHandle, fileHandle, onDisk, fileThere, moved, newRoot, diskOp, sweeping,
                  written, confirmed, missedReads, mishaps>>
      /\ rootOf = "old" /\ rootOf' = "none"
  BY DEF Unregister, DiskHistory
<1>2. /\ DiskShape /\ CachedFits /\ UsedFits /\ NotYetMoved
      /\ \A f \in DiskFiles : moved[f] = "here" /\ <<"deleted", f>> \notin mishaps
  BY <1>1 DEF DiskInv, NotYetMoved
<1>3. /\ Here' = Here /\ Here = "old" /\ HandleIds' = HandleIds /\ Met' = Met
      /\ \A f \in DiskFiles : /\ Home(f) = "old" /\ Home(f)' = "old"
                              /\ Homes(f)' = {"old"} /\ Homes(f) = {"old"}
  <2>1. Here' = Here /\ Here = "old" /\ HandleIds' = HandleIds /\ Met' = Met
    BY <1>1 DEF Here, PlaceOf, HandleIds, Met
  <2>. QED BY <1>1, <1>2, <2>1 DEF Home, Homes
<1>4. \A h \in HandleIds : ~Serves(h)'
  BY <1>1 DEF Serves
<1>5. DiskShape' /\ CachedFits' /\ UsedFits' /\ NotYetMoved'
  <2>1. DiskShape'
    BY <1>1, <1>2 DEF DiskShape
  <2>2. CachedFits'
    BY <1>1, <1>2, <1>3 DEF CachedFits, Storages
  <2>3. UsedFits'
    BY <1>1, <1>2, <1>3 DEF UsedFits, UsedFor, FileAt, NotYetMoved
  <2>4. NotYetMoved'
    BY <1>1, <1>2 DEF NotYetMoved
  <2>. QED BY <2>1, <2>2, <2>3, <2>4
<1>6. OneServes'
  BY <1>3, <1>4 DEF OneServes
<1>7. ASSUME NEW b \in DiskBlocks, NEW f \in DiskFiles, Kept(b, f) PROVE Kept(b, f)'
  BY <1>1, <1>3, <1>4, <1>7 DEF Kept, OnItsWay
<1>8. WrittenKept' /\ WritingKept'
  BY <1>1, <1>7, KeptAll
<1>9. ReadsKept' /\ StillFiles' /\ FilesThere' /\ ConfirmedThere'
  <2>1. ReadsKept'
    BY <1>1, <1>2 DEF DiskInv, ReadsKept, ReadsFor, NotYetMoved
  <2>2. StillFiles'
    BY <1>1, <1>2 DEF StillFiles
  <2>3. FilesThere'
    BY <1>1, <1>3 DEF DiskInv, FilesThere
  <2>4. \A b \in confirmed : \A i \in DOMAIN SpanFiles[b] : SpanFiles[b][i] \in DiskFiles
    BY SpansTyped DEF DiskInv
  <2>5. ConfirmedThere'
    BY <1>1, <1>3, <2>4 DEF DiskInv, ConfirmedThere
  <2>. QED BY <2>1, <2>2, <2>3, <2>5
<1>10. confirmed' \subseteq DiskBlocks /\ missedReads' \subseteq Met'
  BY <1>1, <1>3 DEF DiskInv
<1>. QED BY <1>5, <1>6, <1>8, <1>9, <1>10 DEF DiskInv

(* What a step of a move must show: the handles stay those of their files, *)
(* and what is kept stays kept.  Nobody has a handle of the storage that   *)
(* the move registers.                                                     *)
LEMMA MovingKeeps ==
  ASSUME DiskInv, rootOf = "none", rootOf' \in {"none", "new"},
         UNCHANGED <<cachedHandle, diskOp, sweeping, written, confirmed, missedReads>>,
         HandleIds' = HandleIds, fileHandle' \in Seq(Handles),
         \A h \in HandleIds : fileHandle'[h].file = fileHandle[h].file,
         onDisk' \in [Places -> [DiskFiles -> SUBSET DiskBlocks]],
         fileThere' \in [Places -> SUBSET DiskFiles],
         moved' \in [DiskFiles -> {"here", "copied", "deleted"}], newRoot' \in Storages,
         mishaps \subseteq mishaps', mishaps' \subseteq Mishaps \X DiskFiles,
         \A b \in DiskBlocks, f \in DiskFiles :
             Kept(b, f) /\ (\A h \in HandleIds : ~Serves(h) /\ ~Serves(h)') => Kept(b, f)',
         NotYetMoved', StillFiles', FilesThere', ConfirmedThere'
  PROVE  DiskInv'
<1>1. DiskShape /\ CachedFits /\ UsedFits /\ NotYetMoved
  BY DEF DiskInv
<1>2. /\ \A f \in DiskFiles : cachedHandle["new"][f] = 0
      /\ \A t \in DiskTasks : diskOp[t] # DiskIdle => diskOp[t].root = "old"
      /\ \A h \in HandleIds : h # 0 /\ fileHandle[h].file \in DiskFiles
  BY <1>1, HandleTyped DEF NotYetMoved
<1>3. \A h \in HandleIds : ~Serves(h) /\ ~Serves(h)'
  BY <1>2 DEF Serves
<1>4. DiskShape'
  <2>1. rootOf' \in Storages \cup {"none"}
    BY DEF Storages
  <2>. QED BY <1>1, <2>1 DEF DiskShape
<1>5. CachedFits' /\ UsedFits'
  <2>1. CachedFits'
    BY <1>1, <1>2 DEF CachedFits, Storages
  <2>2. ASSUME NEW t \in DiskTasks PROVE UsedFor(t)'
    BY <1>1, <1>2 DEF UsedFits, UsedFor, FileAt
  <2>. QED BY <2>1, <2>2 DEF UsedFits
<1>6. OneServes'
  BY <1>3 DEF OneServes
<1>7. WrittenKept' /\ WritingKept'
  BY <1>3, KeptAll
<1>8. ReadsKept'
  BY <1>2 DEF DiskInv, ReadsKept, ReadsFor
<1>9. confirmed' \subseteq DiskBlocks /\ missedReads' \subseteq Met'
  BY DEF DiskInv, Met
<1>. QED BY <1>4, <1>5, <1>6, <1>7, <1>8, <1>9 DEF DiskInv

(* A moved handle is of its file, with what was on its way.                *)
LEMMA RelocatedTyped ==
  ASSUME DiskShape, NEW files, NEW to \in Places, Relocated(files, to)
  PROVE  /\ fileHandle' \in Seq(Handles) /\ HandleIds' = HandleIds
         /\ \A h \in HandleIds :
                /\ fileHandle'[h].file = fileHandle[h].file
                /\ fileHandle'[h].flight = fileHandle[h].flight
                /\ fileHandle[h].file \notin files =>
                       fileHandle'[h].place = fileHandle[h].place
<1>1. /\ fileHandle \in Seq(Handles) /\ HandleIds = 1 .. Len(fileHandle)
      /\ Len(fileHandle) \in Nat /\ \A h \in HandleIds : fileHandle[h] \in Handles
  BY HandleTyped DEF DiskShape
<1>2. fileHandle' = [h \in HandleIds |->
          IF fileHandle[h].place = "old" /\ fileHandle[h].file \in files
          THEN [fileHandle[h] EXCEPT !.place = to] ELSE fileHandle[h]]
  BY DEF Relocated
<1>3. ASSUME NEW h \in HandleIds
      PROVE  /\ fileHandle'[h] \in Handles
             /\ fileHandle'[h].file = fileHandle[h].file
             /\ fileHandle'[h].flight = fileHandle[h].flight
             /\ fileHandle[h].file \notin files => fileHandle'[h].place = fileHandle[h].place
  <2>1. fileHandle[h] \in Handles
    BY <1>1
  <2>2. \/ fileHandle'[h] = [fileHandle[h] EXCEPT !.place = to] /\ fileHandle[h].file \in files
        \/ fileHandle'[h] = fileHandle[h]
    BY <1>2
  <2>. QED BY <2>1, <2>2 DEF Handles
<1>4. fileHandle' \in [1 .. Len(fileHandle) -> Handles]
  BY <1>1, <1>2, <1>3
<1>5. fileHandle' \in Seq(Handles) /\ Len(fileHandle') = Len(fileHandle)
  BY <1>1, <1>4
<1>. QED BY <1>3, <1>5 DEF HandleIds

(* The files with something on its way to them are marked, and no other    *)
(* mark appears.                                                           *)
LEMMA LateMarked ==
  ASSUME DiskShape, NEW files \in SUBSET DiskFiles, Happens("late", InFlight(files))
  PROVE  /\ mishaps \subseteq mishaps' /\ mishaps' \subseteq Mishaps \X DiskFiles
         /\ \A f \in DiskFiles : <<"deleted", f>> \in mishaps' => <<"deleted", f>> \in mishaps
         /\ \A f \in files : f \in Met' \/ Quiet(f)
<1>1. mishaps' = mishaps \cup {"late"} \X InFlight(files) /\ mishaps \subseteq Mishaps \X DiskFiles
  BY DEF Happens, DiskShape
<1>2. InFlight(files) \subseteq DiskFiles
  BY DEF InFlight
<1>3. ASSUME NEW f \in files, ~Quiet(f) PROVE <<"late", f>> \in mishaps'
  BY <1>1, <1>3 DEF InFlight, Quiet, Settled
<1>. QED BY <1>1, <1>2, <1>3 DEF Mishaps, Met

(* A rename takes everything along, what is on its way too.                *)
LEMMA RenameKeeps ==
  ASSUME DiskInv, MoveRenames
  PROVE  DiskInv'
<1>. USE DEF DiskHistory
<1>1. /\ rootOf = "none" /\ rootOf' = "new" /\ \A f \in DiskFiles : moved[f] = "here"
      /\ Relocated(DiskFiles, "new") /\ Happens("late", InFlight(DiskFiles))
      /\ onDisk' = [onDisk EXCEPT !["new"] = onDisk["old"], !["old"] = [f \in DiskFiles |-> {}]]
      /\ fileThere' = [fileThere EXCEPT !["new"] = fileThere["old"], !["old"] = {}]
      /\ UNCHANGED <<cachedHandle, moved, newRoot, diskOp, sweeping, written, confirmed,
                     missedReads>>
  BY DEF MoveRenames
<1>2. DiskShape /\ FilesThere /\ ConfirmedThere /\ confirmed \subseteq DiskBlocks /\ newRoot = "new"
  BY <1>1 DEF DiskInv, NotYetMoved
<1>3. /\ onDisk \in [Places -> [DiskFiles -> SUBSET DiskBlocks]]
      /\ fileThere \in [Places -> SUBSET DiskFiles] /\ moved' \in [DiskFiles -> {"here", "copied", "deleted"}]
      /\ newRoot' \in Storages /\ "new" \in Places /\ "old" \in Places
  BY <1>1, <1>2 DEF DiskShape, Places, Storages
<1>4. /\ onDisk' \in [Places -> [DiskFiles -> SUBSET DiskBlocks]]
      /\ onDisk'["new"] = onDisk["old"]
      /\ fileThere' \in [Places -> SUBSET DiskFiles] /\ fileThere'["new"] = fileThere["old"]
  BY <1>1, <1>3
<1>5. /\ fileHandle' \in Seq(Handles) /\ HandleIds' = HandleIds
      /\ \A h \in HandleIds : fileHandle'[h].file = fileHandle[h].file
  BY <1>1, <1>2, <1>3, RelocatedTyped
<1>6. /\ mishaps \subseteq mishaps' /\ mishaps' \subseteq Mishaps \X DiskFiles
      /\ \A f \in DiskFiles : f \in Met' \/ Quiet(f)
  BY <1>1, <1>2, LateMarked
<1>7. \A f \in DiskFiles : /\ Home(f) = "old" /\ Home(f)' = "new" /\ Homes(f)' \subseteq {"new"}
                           /\ "old" \in Homes(f)
  BY <1>1, <1>2 DEF Home, Homes, Here, PlaceOf
<1>8. ASSUME NEW b \in DiskBlocks, NEW f \in DiskFiles, Kept(b, f) PROVE Kept(b, f)'
  <2>1. CASE f \in Met
    BY <1>6, <2>1 DEF Kept, Met
  <2>2. CASE b \in onDisk[Home(f)][f]
    BY <1>4, <1>7, <2>2 DEF Kept
  <2>3. CASE OnItsWay(b, f)
    BY <1>6, <2>3 DEF OnItsWay, Quiet, Kept
  <2>. QED BY <1>8, <2>1, <2>2, <2>3 DEF Kept
<1>9. NotYetMoved' /\ StillFiles'
  BY <1>1 DEF NotYetMoved, StillFiles
<1>10. FilesThere'
  BY <1>2, <1>4, <1>7 DEF FilesThere
<1>11. ConfirmedThere'
  <2>1. \A b \in confirmed : \A i \in DOMAIN SpanFiles[b] : SpanFiles[b][i] \in DiskFiles
    BY <1>2, SpansTyped
  <2>. QED BY <1>1, <1>2, <1>4, <1>7, <2>1 DEF ConfirmedThere
<1>. QED BY <1>1, <1>3, <1>4, <1>5, <1>6, <1>8, <1>9, <1>10, <1>11, MovingKeeps

(* The copy holds what the file holds, unless something is on its way.     *)
LEMMA CopyKeeps ==
  ASSUME DiskInv, NEW f \in DiskFiles, CopyFile(f)
  PROVE  DiskInv'
<1>. USE DEF DiskHistory
<1>1. /\ rootOf = "none" /\ rootOf' = rootOf /\ moved[f] = "here"
      /\ moved' = [moved EXCEPT ![f] = "copied"] /\ Happens("late", InFlight({f}))
      /\ onDisk' = [onDisk EXCEPT !["new"][f] = onDisk["old"][f]]
      /\ fileThere' = [fileThere EXCEPT !["new"] = @ \cup {f}]
      /\ UNCHANGED <<cachedHandle, fileHandle, newRoot, diskOp, sweeping, written, confirmed,
                     missedReads>>
  BY DEF CopyFile
<1>2. /\ DiskShape /\ NotYetMoved /\ StillFiles /\ FilesThere /\ ConfirmedThere
      /\ confirmed \subseteq DiskBlocks
  BY DEF DiskInv
<1>3. /\ onDisk \in [Places -> [DiskFiles -> SUBSET DiskBlocks]]
      /\ fileThere \in [Places -> SUBSET DiskFiles]
      /\ moved \in [DiskFiles -> {"here", "copied", "deleted"}]
      /\ newRoot' \in Storages /\ "new" \in Places /\ "old" \in Places
      /\ fileHandle' \in Seq(Handles) /\ HandleIds' = HandleIds
  BY <1>1, <1>2 DEF DiskShape, Places, Storages, HandleIds
<1>4. /\ onDisk' \in [Places -> [DiskFiles -> SUBSET DiskBlocks]]
      /\ onDisk'["old"] = onDisk["old"] /\ onDisk'["new"][f] = onDisk["old"][f]
      /\ \A g \in DiskFiles : g # f => onDisk'["new"][g] = onDisk["new"][g]
  BY <1>1, <1>3
<1>5. /\ fileThere' \in [Places -> SUBSET DiskFiles] /\ f \in fileThere'["new"]
      /\ \A p \in Places : fileThere[p] \subseteq fileThere'[p]
  BY <1>1, <1>3
<1>6. /\ moved' \in [DiskFiles -> {"here", "copied", "deleted"}] /\ moved'[f] = "copied"
      /\ \A g \in DiskFiles : g # f => moved'[g] = moved[g]
  BY <1>1, <1>3
<1>7. /\ mishaps \subseteq mishaps' /\ mishaps' \subseteq Mishaps \X DiskFiles
      /\ \A g \in DiskFiles : <<"deleted", g>> \in mishaps' => <<"deleted", g>> \in mishaps
      /\ f \in Met' \/ Quiet(f)
  BY <1>1, <1>2, LateMarked
<1>8. /\ \A g \in DiskFiles : Home(g)' = Home(g) /\ (Home(g) = "old" \/ (g # f /\ Home(g) = "new"))
      /\ \A g \in DiskFiles : g # f => Homes(g)' = Homes(g) /\ Homes(g) \subseteq Places
      /\ "old" \in Homes(f) /\ Homes(f)' = {"old", "new"}
  <2>1. ASSUME NEW g \in DiskFiles
        PROVE  Home(g)' = Home(g) /\ (Home(g) = "old" \/ (g # f /\ Home(g) = "new"))
    <3>1. Here = "old" /\ Here' = "old"
      BY <1>1 DEF Here, PlaceOf
    <3>2. /\ rootOf = "none" /\ rootOf' = "none" /\ moved[f] # "deleted" /\ moved'[f] # "deleted"
          /\ g # f => moved'[g] = moved[g]
      BY <1>1, <1>6
    <3>3. Home(g)' = Home(g)
      BY <3>1, <3>2 DEF Home
    <3>4. Home(g) = "old" \/ (g # f /\ Home(g) = "new")
      BY <3>1, <3>2 DEF Home
    <3>. QED BY <3>3, <3>4
  <2>2. \A g \in DiskFiles : g # f => Homes(g)' = Homes(g) /\ Homes(g) \subseteq Places
    BY <1>1, <1>6 DEF Homes, Places, Storages
  <2>. QED BY <1>1, <1>6, <2>1, <2>2 DEF Homes
<1>9. ASSUME NEW b \in DiskBlocks, NEW g \in DiskFiles, Kept(b, g),
             \A h \in HandleIds : ~Serves(h) /\ ~Serves(h)'
      PROVE  Kept(b, g)'
  <2>1. CASE g \in Met
    BY <1>7, <2>1 DEF Kept, Met
  <2>2. CASE b \in onDisk[Home(g)][g]
    BY <1>4, <1>8, <2>2 DEF Kept
  <2>3. CASE OnItsWay(b, g)
    <3>1. OnItsWay(b, g)'
      BY <1>1, <1>3, <1>8, <1>9, <2>3 DEF OnItsWay
    <3>. QED BY <3>1 DEF Kept
  <2>. QED BY <1>9, <2>1, <2>2, <2>3 DEF Kept
<1>10. NotYetMoved'
  BY <1>1, <1>2, <1>7 DEF NotYetMoved
<1>11. StillFiles'
  <2>1. \A g \in DiskFiles : Quiet(g)' <=> Quiet(g)
    BY <1>1, <1>3 DEF Quiet
  <2>2. \A g \in DiskFiles : g \notin Met' => g \notin Met
    BY <1>7 DEF Met
  <2>. QED BY <1>1, <1>2, <1>4, <1>6, <1>7, <2>1, <2>2 DEF StillFiles
<1>12. FilesThere'
  BY <1>2, <1>3, <1>5, <1>8 DEF FilesThere
<1>13. ConfirmedThere'
  <2>1. SUFFICES ASSUME NEW b \in confirmed, NEW i \in DOMAIN SpanFiles[b],
                        NEW p \in Homes(SpanFiles[b][i])'
                 PROVE  b \in onDisk'[p][SpanFiles[b][i]]
    BY <1>1 DEF ConfirmedThere
  <2>2. PICK g \in DiskFiles : g = SpanFiles[b][i]
    BY <1>2, SpansTyped
  <2>3. \A q \in Homes(g) : b \in onDisk[q][g]
    BY <1>2, <2>2 DEF ConfirmedThere
  <2>4. CASE g = f
    BY <1>4, <1>8, <2>1, <2>2, <2>3, <2>4
  <2>5. CASE g # f
    <3>1. p \in Homes(g) /\ p \in {"old", "new"}
      BY <1>1, <1>8, <2>1, <2>2, <2>5 DEF Homes
    <3>. QED BY <1>4, <2>2, <2>3, <2>5, <3>1
  <2>. QED BY <2>4, <2>5
<1>. QED BY <1>1, <1>3, <1>4, <1>5, <1>6, <1>7, <1>9, <1>10, <1>11, <1>12, <1>13, MovingKeeps

(* What is deleted is in the copy.                                         *)
LEMMA DeleteKeeps ==
  ASSUME DiskInv, NEW f \in DiskFiles, DeleteFile(f)
  PROVE  DiskInv'
<1>. USE DEF DiskHistory
<1>1. /\ rootOf = "none" /\ rootOf' = rootOf /\ moved[f] = "copied"
      /\ moved' = [moved EXCEPT ![f] = "deleted"] /\ Relocated({f}, "unlinked")
      /\ onDisk' = [onDisk EXCEPT !["unlinked"][f] = onDisk["old"][f], !["old"][f] = {}]
      /\ fileThere' = [fileThere EXCEPT !["old"] = @ \ {f}]
      /\ UNCHANGED <<cachedHandle, newRoot, diskOp, sweeping, written, confirmed, missedReads,
                     mishaps>>
  BY DEF DeleteFile
<1>2. /\ DiskShape /\ NotYetMoved /\ StillFiles /\ FilesThere /\ ConfirmedThere
      /\ confirmed \subseteq DiskBlocks /\ mishaps \subseteq Mishaps \X DiskFiles
  BY DEF DiskInv, DiskShape
<1>3. /\ onDisk \in [Places -> [DiskFiles -> SUBSET DiskBlocks]]
      /\ fileThere \in [Places -> SUBSET DiskFiles]
      /\ moved \in [DiskFiles -> {"here", "copied", "deleted"}]
      /\ newRoot' \in Storages /\ "new" \in Places /\ "old" \in Places /\ "unlinked" \in Places
  BY <1>1, <1>2 DEF DiskShape, Places, Storages
<1>4. /\ onDisk' \in [Places -> [DiskFiles -> SUBSET DiskBlocks]]
      /\ onDisk'["new"] = onDisk["new"]
      /\ \A g \in DiskFiles : g # f => onDisk'["old"][g] = onDisk["old"][g]
  <2>1. PICK gone, left : /\ gone = [onDisk["unlinked"] EXCEPT ![f] = onDisk["old"][f]]
                          /\ left = [onDisk["old"] EXCEPT ![f] = {}]
    OBVIOUS
  <2>2. /\ gone \in [DiskFiles -> SUBSET DiskBlocks] /\ left \in [DiskFiles -> SUBSET DiskBlocks]
        /\ \A g \in DiskFiles : g # f => left[g] = onDisk["old"][g]
    BY <1>3, <2>1
  <2>3. onDisk' = [onDisk EXCEPT !["unlinked"] = gone, !["old"] = left]
    BY <1>1, <1>3, <2>1
  <2>. QED BY <1>3, <2>2, <2>3
<1>5. /\ fileThere' \in [Places -> SUBSET DiskFiles] /\ fileThere'["new"] = fileThere["new"]
      /\ \A g \in DiskFiles : g # f /\ g \in fileThere["old"] => g \in fileThere'["old"]
  BY <1>1, <1>3
<1>6. /\ moved' \in [DiskFiles -> {"here", "copied", "deleted"}] /\ moved'[f] = "deleted"
      /\ \A g \in DiskFiles : g # f => moved'[g] = moved[g]
  BY <1>1, <1>3
<1>7. /\ fileHandle' \in Seq(Handles) /\ HandleIds' = HandleIds
      /\ \A h \in HandleIds : /\ fileHandle'[h].file = fileHandle[h].file
                              /\ fileHandle'[h].flight = fileHandle[h].flight
                              /\ fileHandle[h].file # f =>
                                     fileHandle'[h].place = fileHandle[h].place
  BY <1>1, <1>2, <1>3, RelocatedTyped
<1>8. f \notin Met => Quiet(f) /\ onDisk["old"][f] \subseteq onDisk["new"][f]
  BY <1>1, <1>2 DEF StillFiles
<1>9. /\ \A g \in DiskFiles : g # f => /\ Home(g)' = Home(g) /\ Home(g) \in {"old", "new"}
                                       /\ Homes(g)' = Homes(g) /\ Homes(g) \subseteq {"old", "new"}
      /\ Home(f) = "old" /\ Home(f)' = "new" /\ Homes(f)' = {"new"} /\ "new" \in Homes(f)
  <2>1. \A g \in DiskFiles : g # f => /\ Home(g)' = Home(g) /\ Home(g) \in {"old", "new"}
    BY <1>1, <1>6 DEF Home, Here, PlaceOf
  <2>2. \A g \in DiskFiles : g # f => Homes(g)' = Homes(g) /\ Homes(g) \subseteq {"old", "new"}
    BY <1>1, <1>6 DEF Homes
  <2>3. Home(f) = "old" /\ Home(f)' = "new"
    BY <1>1, <1>6 DEF Home, Here, PlaceOf
  <2>. QED BY <1>1, <1>6, <2>1, <2>2, <2>3 DEF Homes
<1>10. ASSUME NEW b \in DiskBlocks, NEW g \in DiskFiles, Kept(b, g),
              \A h \in HandleIds : ~Serves(h) /\ ~Serves(h)'
       PROVE  Kept(b, g)'
  <2>0. Met' = Met
    BY <1>1 DEF Met
  <2>1. CASE g \in Met
    BY <2>0, <2>1 DEF Kept
  <2>2. CASE g = f /\ g \notin Met
    <3>1. ~OnItsWay(b, f)
      BY <1>8, <2>2 DEF OnItsWay, Quiet
    <3>2. b \in onDisk'[Home(f)'][f]
      BY <1>4, <1>8, <1>9, <1>10, <2>2, <3>1 DEF Kept
    <3>. QED BY <2>2, <3>2 DEF Kept
  <2>3. CASE g # f /\ b \in onDisk[Home(g)][g]
    BY <1>4, <1>9, <2>3 DEF Kept
  <2>4. CASE g # f /\ OnItsWay(b, g)
    <3>1. OnItsWay(b, g)'
      BY <1>7, <1>9, <1>10, <2>4 DEF OnItsWay
    <3>. QED BY <3>1 DEF Kept
  <2>. QED BY <1>10, <2>1, <2>2, <2>3, <2>4 DEF Kept
<1>11. NotYetMoved'
  BY <1>1, <1>2 DEF NotYetMoved
<1>12. StillFiles'
  <2>1. \A g \in DiskFiles : Quiet(g)' <=> Quiet(g)
    BY <1>7 DEF Quiet
  <2>2. Met' = Met
    BY <1>1 DEF Met
  <2>. QED BY <1>1, <1>2, <1>4, <1>6, <2>1, <2>2 DEF StillFiles
<1>13. FilesThere'
  BY <1>2, <1>5, <1>9 DEF FilesThere
<1>14. ConfirmedThere'
  <2>1. SUFFICES ASSUME NEW b \in confirmed, NEW i \in DOMAIN SpanFiles[b],
                        NEW p \in Homes(SpanFiles[b][i])'
                 PROVE  b \in onDisk'[p][SpanFiles[b][i]]
    BY <1>1 DEF ConfirmedThere
  <2>2. PICK g \in DiskFiles : g = SpanFiles[b][i]
    BY <1>2, SpansTyped
  <2>3. \A q \in Homes(g) : b \in onDisk[q][g]
    BY <1>2, <2>2 DEF ConfirmedThere
  <2>4. CASE g = f
    BY <1>4, <1>9, <2>1, <2>2, <2>3, <2>4
  <2>5. CASE g # f
    <3>1. p \in Homes(g) /\ p \in {"old", "new"}
      BY <1>1, <1>9, <2>1, <2>2, <2>5
    <3>. QED BY <1>4, <2>2, <2>3, <2>5, <3>1
  <2>. QED BY <2>4, <2>5
<1>. QED BY <1>1, <1>2, <1>3, <1>4, <1>5, <1>6, <1>7, <1>10, <1>11, <1>12, <1>13, <1>14, MovingKeeps

(* A move by copies registers the place of the copies.                     *)
LEMMA EndsKeeps ==
  ASSUME DiskInv, MoveEnds
  PROVE  DiskInv'
<1>. USE DEF DiskHistory
<1>1. /\ rootOf = "none" /\ rootOf' = "new" /\ \A f \in DiskFiles : moved[f] = "deleted"
      /\ UNCHANGED <<cachedHandle, fileHandle, onDisk, fileThere, moved, newRoot, diskOp, sweeping,
                     written, confirmed, missedReads, mishaps>>
  BY DEF MoveEnds
<1>2. /\ DiskShape /\ StillFiles /\ FilesThere /\ ConfirmedThere /\ newRoot = "new"
      /\ confirmed \subseteq DiskBlocks
  BY <1>1 DEF DiskInv, NotYetMoved
<1>3. HandleIds' = HandleIds /\ Met' = Met
  BY <1>1 DEF HandleIds, Met
<1>4. \A f \in DiskFiles : /\ Home(f) = "new" /\ Home(f)' = "new" /\ Homes(f)' \subseteq {"new"}
                           /\ "new" \in Homes(f)
  BY <1>1, <1>2 DEF Home, Homes, Here, PlaceOf
<1>5. ASSUME NEW b \in DiskBlocks, NEW f \in DiskFiles, Kept(b, f),
             \A h \in HandleIds : ~Serves(h) /\ ~Serves(h)'
      PROVE  Kept(b, f)'
  BY <1>1, <1>3, <1>4, <1>5 DEF Kept, OnItsWay
<1>6. NotYetMoved' /\ StillFiles' /\ FilesThere'
  <2>1. FilesThere'
    BY <1>1, <1>2, <1>4 DEF FilesThere
  <2>. QED BY <1>1, <2>1 DEF NotYetMoved, StillFiles
<1>7. ConfirmedThere'
  <2>1. \A b \in confirmed : \A i \in DOMAIN SpanFiles[b] : SpanFiles[b][i] \in DiskFiles
    BY <1>2, SpansTyped
  <2>. QED BY <1>1, <1>2, <1>4, <2>1 DEF ConfirmedThere
<1>. QED BY <1>1, <1>2, <1>3, <1>5, <1>6, <1>7, MovingKeeps DEF DiskShape

(* What a move that fails has deleted is marked; the rest is where it was. *)
LEMMA FailsKeeps ==
  ASSUME DiskInv, MoveFails
  PROVE  DiskInv'
<1>. USE DEF DiskHistory
<1>1. /\ rootOf = "none" /\ rootOf' = "new" /\ newRoot' = "old"
      /\ mishaps' = mishaps \cup {"deleted"} \X {f \in DiskFiles : moved[f] = "deleted"}
      /\ UNCHANGED <<cachedHandle, fileHandle, onDisk, fileThere, moved, diskOp, sweeping, written,
                     confirmed, missedReads>>
  BY DEF MoveFails, Happens
<1>2. /\ DiskShape /\ FilesThere /\ ConfirmedThere /\ confirmed \subseteq DiskBlocks
      /\ mishaps \subseteq Mishaps \X DiskFiles
  BY DEF DiskInv, DiskShape
<1>3. /\ HandleIds' = HandleIds /\ mishaps \subseteq mishaps'
      /\ mishaps' \subseteq Mishaps \X DiskFiles /\ newRoot' \in Storages
      /\ \A f \in DiskFiles : moved[f] = "deleted" => <<"deleted", f>> \in mishaps' /\ f \in Met'
  BY <1>1, <1>2 DEF HandleIds, Met, Mishaps, Storages
<1>4. \A f \in DiskFiles :
          /\ Home(f)' = "old" /\ Homes(f)' \subseteq {"old"}
          /\ moved[f] # "deleted" => Home(f) = "old" /\ "old" \in Homes(f)
          /\ moved[f] = "deleted" => Homes(f)' = {}
  <2>1. \A f \in DiskFiles : /\ Home(f)' = "old"
                             /\ moved[f] # "deleted" => Home(f) = "old"
    BY <1>1 DEF Home, Here, PlaceOf
  <2>2. \A f \in DiskFiles : moved[f] # "deleted" => "old" \in Homes(f)
    BY <1>1 DEF Homes
  <2>3. \A f \in DiskFiles : /\ Homes(f)' \subseteq {"old"}
                             /\ moved[f] = "deleted" => Homes(f)' = {}
    BY <1>1, <1>3 DEF Homes, Here, PlaceOf
  <2>. QED BY <2>1, <2>2, <2>3
<1>5. ASSUME NEW b \in DiskBlocks, NEW f \in DiskFiles, Kept(b, f),
             \A h \in HandleIds : ~Serves(h) /\ ~Serves(h)'
      PROVE  Kept(b, f)'
  <2>1. CASE f \in Met \/ moved[f] = "deleted"
    BY <1>3, <2>1 DEF Kept, Met
  <2>2. CASE moved[f] # "deleted" /\ f \notin Met
    BY <1>1, <1>3, <1>4, <1>5, <2>2 DEF Kept, OnItsWay
  <2>. QED BY <2>1, <2>2
<1>6. NotYetMoved' /\ StillFiles'
  BY <1>1 DEF NotYetMoved, StillFiles
<1>7. FilesThere'
  BY <1>1, <1>2, <1>4 DEF FilesThere
<1>8. ConfirmedThere'
  <2>1. \A b \in confirmed : \A i \in DOMAIN SpanFiles[b] : SpanFiles[b][i] \in DiskFiles
    BY <1>2, SpansTyped
  <2>. QED BY <1>1, <1>2, <1>4, <2>1 DEF ConfirmedThere
<1>. QED BY <1>1, <1>2, <1>3, <1>5, <1>6, <1>7, <1>8, MovingKeeps DEF DiskShape

(* At the start there are no handles and nothing was written.              *)
LEMMA DiskStarts ==
  ASSUME DiskInit
  PROVE  DiskInv
<1>1. /\ cachedHandle = [s \in Storages |-> [f \in DiskFiles |-> 0]]
      /\ fileHandle = <<>>
      /\ onDisk = [p \in Places |-> [f \in DiskFiles |-> {}]]
      /\ fileThere = [p \in Places |-> IF p = "old" THEN DiskFiles ELSE {}]
      /\ moved = [f \in DiskFiles |-> "here"] /\ newRoot = "new" /\ rootOf = "old"
      /\ diskOp = [t \in DiskTasks |-> DiskIdle] /\ sweeping = {}
      /\ written = {} /\ confirmed = {} /\ missedReads = {} /\ mishaps = {}
  BY DEF DiskInit
<1>2. HandleIds = {} /\ fileHandle \in Seq(Handles)
  BY <1>1 DEF HandleIds
<1>3. \A t \in DiskTasks : diskOp[t] = DiskIdle
  BY <1>1
<1>4. DiskShape
  <2>1. cachedHandle \in [Storages -> [DiskFiles -> Nat]]
    BY <1>1
  <2>2. diskOp \in [DiskTasks -> {DiskIdle} \cup DiskOps]
    BY <1>1
  <2>3. /\ onDisk \in [Places -> [DiskFiles -> SUBSET DiskBlocks]]
        /\ fileThere \in [Places -> SUBSET DiskFiles]
        /\ moved \in [DiskFiles -> {"here", "copied", "deleted"}]
    BY <1>1
  <2>. QED BY <1>1, <1>2, <1>3, <2>1, <2>2, <2>3 DEF DiskShape, Storages
<1>5. CachedFits /\ UsedFits /\ NotYetMoved
  BY <1>1, <1>3 DEF CachedFits, UsedFits, UsedFor, NotYetMoved, Storages
<1>6. OneServes /\ WrittenKept /\ WritingKept /\ ReadsKept /\ ConfirmedThere
  BY <1>1, <1>2, <1>3
     DEF OneServes, WrittenKept, WritingKept, WritingFor, ReadsKept, ReadsFor, ConfirmedThere
<1>7. StillFiles /\ FilesThere
  BY <1>1 DEF StillFiles, FilesThere, Homes, Here, PlaceOf, Places, Storages
<1>. QED BY <1>1, <1>4, <1>5, <1>6, <1>7 DEF DiskInv

(* The number of the calls is within its bound.                            *)
DiskBound == diskOps \in 0 .. MaxDiskOps

(* Only a call that begins changes their number.                           *)
LEMMA DiskBoundStays ==
  DiskInv /\ DiskBound /\ [DiskNext]_diskVars => DiskBound'
<1>. SUFFICES ASSUME DiskInv, DiskBound, [DiskNext]_diskVars PROVE DiskBound'
  OBVIOUS
<1>1. ASSUME NEW t \in DiskTasks, DiskBegin(t) PROVE DiskBound'
  <2>1. PICK b \in DiskBlocks : diskOps' = diskOps + Len(SpanFiles[b]) /\ diskOps' <= MaxDiskOps
    BY <1>1 DEF DiskBegin
  <2>2. Len(SpanFiles[b]) \in Nat /\ MaxDiskOps \in Nat /\ diskOps \in Nat
    BY SpansTyped, DiskAssumption DEF DiskBound
  <2>. QED BY <2>1, <2>2 DEF DiskBound
<1>2. ASSUME \/ \E t \in DiskTasks : \/ FindHandle(t) \/ OpenHandle(t) \/ WriteSpan(t)
                                     \/ ReadSpan(t) \/ DiskOpFails(t)
             \/ \E h \in HandleIds : Reaches(h) \/ NeverReaches(h)
             \/ Sweep \/ SweepOne \/ Unregister \/ MoveRenames \/ MoveEnds \/ MoveFails
             \/ \E f \in DiskFiles : CopyFile(f) \/ DeleteFile(f)
             \/ UNCHANGED diskVars
      PROVE  diskOps' = diskOps
  BY <1>2 DEF FindHandle, OpenHandle, OpenKeeping, WriteSpan, ReadSpan, DiskOpFails, Reaches,
              NeverReaches, Sweep, SweepOne, Unregister, MoveRenames, MoveEnds, MoveFails, CopyFile,
              DeleteFile, diskVars
<1>. QED BY <1>1, <1>2 DEF DiskNext, DiskBound

LEMMA DiskTyped == DiskInv /\ DiskBound => DiskTypeOK
<1>. SUFFICES ASSUME DiskInv, DiskBound PROVE DiskTypeOK
  OBVIOUS
<1>1. cachedHandle \in [Storages -> [DiskFiles -> 0 .. Len(fileHandle)]]
  <2>1. cachedHandle \in [Storages -> [DiskFiles -> Nat]] /\ Len(fileHandle) \in Nat
    BY DEF DiskInv, DiskShape
  <2>2. \A s \in Storages, f \in DiskFiles : cachedHandle[s][f] \in 0 .. Len(fileHandle)
    BY <2>1 DEF DiskInv, CachedFits, HandleIds
  <2>. QED BY <2>1, <2>2
<1>2. ASSUME NEW t \in DiskTasks, diskOp[t] # DiskIdle
      PROVE  diskOp[t].handle \in 0 .. Len(fileHandle)
  <2>1. Len(fileHandle) \in Nat
    BY DEF DiskInv, DiskShape
  <2>2. diskOp[t].handle = 0 \/ diskOp[t].handle \in HandleIds
    BY <1>2 DEF DiskInv, UsedFits, UsedFor
  <2>. QED BY <2>1, <2>2 DEF HandleIds
<1>3. /\ fileHandle \in Seq(Handles) /\ onDisk \in [Places -> [DiskFiles -> SUBSET DiskBlocks]]
      /\ fileThere \in [Places -> SUBSET DiskFiles]
      /\ moved \in [DiskFiles -> {"here", "copied", "deleted"}]
      /\ mishaps \subseteq Mishaps \X DiskFiles
      /\ rootOf \in Storages \cup {"none"} /\ newRoot \in Storages
  BY DEF DiskInv, DiskShape
<1>. QED BY <1>1, <1>2, <1>3 DEF DiskTypeOK, DiskBound, Handles

(* A read of the registered storage finds every block whose write had      *)
(* returned, unless its file has met with one of the four mishaps, and     *)
(* what a read has found is not lost but by a move that fails when it has  *)
(* deleted the file: through evictions, flushes, failures behind a handle, *)
(* late writers and moves that rename or copy, for any number of tasks,    *)
(* files, blocks and handles (disk/manager.rs write_block, read_block and  *)
(* FileHandleCache, engine/mod.rs move_torrent_data).                      *)
THEOREM WritesAreFound == DiskSpec => [](DiskTypeOK /\ WritesAreRead)
<1>1. DiskInit => DiskInv /\ DiskBound
  BY DiskStarts, DiskAssumption DEF DiskInit, DiskBound
<1>2. DiskInv /\ [DiskNext]_diskVars => DiskInv'
  <2>1. SUFFICES ASSUME DiskInv, [DiskNext]_diskVars PROVE DiskInv'
    OBVIOUS
  <2>2. ASSUME NEW t \in DiskTasks,
               DiskBegin(t) \/ FindHandle(t) \/ OpenHandle(t) \/ WriteSpan(t) \/ ReadSpan(t)
        PROVE  DiskInv'
    BY <2>1, <2>2, BeginKeeps, FindKeeps, OpenKeeps, WriteKeeps, ReadKeeps
  <2>3. ASSUME NEW t \in DiskTasks, DiskOpFails(t) PROVE DiskInv'
    <3>1. /\ diskOp' = [diskOp EXCEPT ![t] = DiskIdle] /\ missedReads' \subseteq Met
          /\ UNCHANGED <<cachedHandle, fileHandle, onDisk, fileThere, moved, newRoot, rootOf,
                         sweeping, written, confirmed, mishaps>>
      BY <2>1, <2>3 DEF DiskOpFails, DiskHistory, Layout, DiskInv
    <3>. QED BY <2>1, <3>1, EndKeeps
  <2>4. ASSUME NEW h \in HandleIds, Reaches(h) \/ NeverReaches(h) PROVE DiskInv'
    BY <2>1, <2>4, ReachKeeps, NeverKeeps
  <2>5. CASE Sweep \/ SweepOne \/ Unregister \/ MoveRenames \/ MoveEnds \/ MoveFails
    BY <2>1, <2>5, SweepKeeps, UnregisterKeeps, RenameKeeps, EndsKeeps, FailsKeeps
  <2>6. ASSUME NEW f \in DiskFiles, CopyFile(f) \/ DeleteFile(f) PROVE DiskInv'
    BY <2>1, <2>6, CopyKeeps, DeleteKeeps
  <2>7. CASE UNCHANGED diskVars
    <3>1. /\ UNCHANGED <<cachedHandle, fileHandle, onDisk, fileThere, moved, newRoot, rootOf, diskOp,
                         sweeping, written, confirmed, missedReads, mishaps>>
          /\ HandleIds' = HandleIds /\ Here' = Here /\ Met' = Met
          /\ \A f \in DiskFiles : Home(f)' = Home(f) /\ Homes(f)' = Homes(f)
      BY <2>7 DEF diskVars, HandleIds, Here, PlaceOf, Met, Home, Homes
    <3>2. DiskShape' /\ CachedFits' /\ UsedFits' /\ NotYetMoved'
      BY <2>1, <3>1 DEF DiskInv, DiskShape, CachedFits, UsedFits, UsedFor, FileAt, NotYetMoved
    <3>3. OneServes' /\ HandlesStay /\ NothingLost /\ QuietStays /\ ServersStay
      <4>1. HandlesStay /\ NothingLost /\ QuietStays
        BY <3>1, HandlesUntouched
      <4>. QED BY <2>1, <3>1, <4>1 DEF DiskInv, OneServes, Serves, ServersStay
    <3>4. WrittenKept' /\ WritingKept'
      <4>1. DiskShape
        BY <2>1 DEF DiskInv
      <4>2. \A b \in DiskBlocks, f \in DiskFiles : Kept(b, f) => Kept(b, f)'
        BY <3>3, <4>1, KeptStays
      <4>. QED BY <2>1, <3>1, <4>2, KeptAll
    <3>5. ReadsKept' /\ StillFiles' /\ FilesThere' /\ ConfirmedThere'
      <4>1. ReadsKept'
        BY <2>1, <3>1 DEF DiskInv, ReadsKept, ReadsFor
      <4>2. StillFiles' /\ FilesThere' /\ ConfirmedThere'
        BY <2>1, <3>1, <3>3, StillStays, ConfirmedStays
      <4>. QED BY <4>1, <4>2
    <3>. QED BY <2>1, <3>1, <3>2, <3>3, <3>4, <3>5 DEF DiskInv
  <2>. QED BY <2>1, <2>2, <2>3, <2>4, <2>5, <2>6, <2>7 DEF DiskNext
<1>3. DiskInv /\ DiskBound => DiskTypeOK /\ WritesAreRead
  <2>1. SUFFICES ASSUME DiskInv, DiskBound PROVE DiskTypeOK /\ WritesAreRead
    OBVIOUS
  <2>2. \A f \in missedReads : \E what \in Mishaps : <<what, f>> \in mishaps
    BY <2>1 DEF DiskInv, Met
  <2>3. ASSUME rootOf # "none", NEW b \in confirmed, NEW i \in DOMAIN SpanFiles[b],
               <<"deleted", SpanFiles[b][i]>> \notin mishaps
        PROVE  b \in onDisk[PlaceOf(rootOf)][SpanFiles[b][i]]
    <3>1. Here \in Homes(SpanFiles[b][i])
      BY <2>3 DEF Homes
    <3>. QED BY <2>1, <2>3, <3>1 DEF DiskInv, ConfirmedThere, Here
  <2>4. WritesAreRead
    BY <2>2, <2>3 DEF WritesAreRead
  <2>. QED BY <2>1, <2>4, DiskTyped
<1>. QED BY <1>1, <1>2, <1>3, DiskBoundStays, PTL DEF DiskSpec

(* ------------------------- the spans of a block ------------------------ *)

(* The sums of lengths up to a place: what Offset is chosen as.            *)
SumsTo(n, g) ==
    /\ g \in [1 .. n -> Nat]
    /\ \A i \in 1 .. n : g[i] = IF i = 1 THEN 0 ELSE g[i - 1] + lengths[i - 1]

(* There are such sums up to the end: the greatest place up to which there *)
(* are cannot be an earlier one.                                           *)
LEMMA SumsExist ==
  ASSUME lengths \in [Files -> Nat]
  PROVE  \E g : SumsTo(FileCount + 1, g)
<1>. DEFINE ns == {n \in 1 .. FileCount + 1 : \E g : SumsTo(n, g)}
<1>1. FileCount \in Nat /\ FileCount + 1 \in Nat /\ 1 \in 1 .. FileCount + 1
  BY SpansAssumption
<1>2. 1 \in ns
  <2>. DEFINE g == [i \in 1 .. 1 |-> 0]
  <2>1. SumsTo(1, g)
    BY DEF SumsTo
  <2>. QED BY <1>1, <2>1
<1>3. IsFiniteSet(ns) /\ ns \subseteq Nat
  <2>1. 1 \in Int /\ FileCount + 1 \in Int
    BY <1>1
  <2>2. IsFiniteSet(1 .. FileCount + 1)
    BY <2>1, FS_Interval
  <2>3. ns \subseteq 1 .. FileCount + 1
    OBVIOUS
  <2>4. ns \subseteq Nat
    BY <1>1, <2>3
  <2>. QED BY <2>2, <2>3, <2>4, FS_Subset
<1>4. PICK m \in ns : \A n \in ns : n <= m
  <2>. HIDE DEF ns
  <2>. QED BY <1>2, <1>3, Greatest
<1>5. PICK g : SumsTo(m, g)
  BY <1>4
<1>6. m \in Nat /\ m >= 1 /\ m <= FileCount + 1
  BY <1>1, <1>4
<1>7. CASE m # FileCount + 1
  <2>. DEFINE h == [i \in 1 .. m + 1 |-> IF i <= m THEN g[i] ELSE g[m] + lengths[m]]
  <2>1. m \in Files /\ lengths[m] \in Nat /\ m + 1 \in 1 .. FileCount + 1
    BY <1>1, <1>6, <1>7 DEF Files
  <2>2. g \in [1 .. m -> Nat] /\ g[m] \in Nat
    BY <1>5, <1>6 DEF SumsTo
  <2>3. ASSUME NEW i \in 1 .. m + 1
        PROVE  h[i] \in Nat /\ h[i] = IF i = 1 THEN 0 ELSE h[i - 1] + lengths[i - 1]
    <3>1. CASE i <= m
      <4>1. i \in 1 .. m /\ (i # 1 => i - 1 \in 1 .. m /\ i - 1 <= m /\ i - 1 \in 1 .. m + 1)
        BY <1>6, <2>3, <3>1
      <4>2. g[i] = IF i = 1 THEN 0 ELSE g[i - 1] + lengths[i - 1]
        BY <1>5, <4>1 DEF SumsTo
      <4>3. h[i] = g[i] /\ (i # 1 => h[i - 1] = g[i - 1])
        BY <2>3, <3>1, <4>1
      <4>. QED BY <2>2, <4>1, <4>2, <4>3
    <3>2. CASE ~(i <= m)
      <4>1. i = m + 1 /\ i # 1 /\ i - 1 = m /\ m \in 1 .. m + 1 /\ m <= m
        BY <1>6, <2>3, <3>2
      <4>2. h[i] = g[m] + lengths[m] /\ h[m] = g[m]
        BY <2>3, <3>2, <4>1
      <4>. QED BY <2>1, <2>2, <4>1, <4>2
    <3>. QED BY <3>1, <3>2
  <2>4. h \in [1 .. m + 1 -> Nat]
    BY <2>3
  <2>. HIDE DEF h
  <2>5. SumsTo(m + 1, h)
    BY <2>3, <2>4 DEF SumsTo
  <2>6. m + 1 \in ns
    BY <2>1, <2>5
  <2>. QED BY <1>4, <1>6, <2>6
<1>. QED BY <1>5, <1>7

(* Where a file begins is where the one before it ends; primed, below.     *)
LEMMA OffsetsSum ==
  ASSUME lengths \in [Files -> Nat]
  PROVE  /\ Offset[1] = 0
         /\ \A i \in 1 .. FileCount + 1 : Offset[i] \in Nat
         /\ \A i \in Files : Offset[i + 1] = Offset[i] + lengths[i]
<1>. DEFINE Body(g) == [i \in 1 .. FileCount + 1 |->
                          IF i = 1 THEN 0 ELSE g[i - 1] + lengths[i - 1]]
<1>1. FileCount \in Nat \ {0} /\ FileCount + 1 \in Nat
  BY SpansAssumption
<1>2. Offset = CHOOSE g : g = Body(g)
  BY DEF Offset
<1>3. PICK g : SumsTo(FileCount + 1, g)
  BY SumsExist
<1>4. g = Body(g)
  BY <1>3 DEF SumsTo
<1>5. Offset = Body(Offset)
  <2>. HIDE DEF Body
  <2>. QED BY <1>2, <1>4
<1>6. \A i \in 1 .. FileCount + 1 :
          Offset[i] = IF i = 1 THEN 0 ELSE Offset[i - 1] + lengths[i - 1]
  BY <1>5
<1>7. Offset[1] = 0
  BY <1>1, <1>6
<1>8. ASSUME NEW i \in Files PROVE Offset[i + 1] = Offset[i] + lengths[i]
  <2>1. i + 1 \in 1 .. FileCount + 1 /\ i + 1 # 1 /\ (i + 1) - 1 = i
    BY <1>1, <1>8 DEF Files
  <2>. QED BY <1>6, <2>1
(* The numbers up to some place are natural, and that place is the last.   *)
<1>9. \A i \in 1 .. FileCount + 1 : Offset[i] \in Nat
  <2>. DEFINE ns == {n \in 1 .. FileCount + 1 : \A i \in 1 .. n : Offset[i] \in Nat}
  <2>1. 1 \in ns
    <3>1. 1 \in 1 .. FileCount + 1 /\ \A i \in 1 .. 1 : i = 1
      BY <1>1
    <3>. QED BY <1>7, <3>1
  <2>2. IsFiniteSet(ns) /\ ns \subseteq Nat
    <3>1. 1 \in Int /\ FileCount + 1 \in Int
      BY <1>1
    <3>2. IsFiniteSet(1 .. FileCount + 1)
      BY <3>1, FS_Interval
    <3>3. ns \subseteq 1 .. FileCount + 1
      OBVIOUS
    <3>4. ns \subseteq Nat
      BY <1>1, <3>3
    <3>. QED BY <3>2, <3>3, <3>4, FS_Subset
  <2>3. PICK m \in ns : \A n \in ns : n <= m
    <3>. HIDE DEF ns
    <3>. QED BY <2>1, <2>2, Greatest
  <2>4. m \in Nat /\ m >= 1 /\ m <= FileCount + 1 /\ \A i \in 1 .. m : Offset[i] \in Nat
    BY <1>1, <2>3
  <2>5. CASE m # FileCount + 1
    <3>1. m \in Files /\ lengths[m] \in Nat /\ m + 1 \in 1 .. FileCount + 1
      BY <1>1, <2>4, <2>5 DEF Files
    <3>2. Offset[m] \in Nat
      BY <2>4
    <3>3. Offset[m + 1] \in Nat
      BY <1>8, <3>1, <3>2
    <3>4. \A i \in 1 .. m + 1 : i = m + 1 \/ i \in 1 .. m
      BY <2>4
    <3>5. m + 1 \in ns
      BY <2>4, <3>1, <3>3, <3>4
    <3>. QED BY <2>3, <2>4, <3>5
  <2>. QED BY <2>4, <2>5
<1>. QED BY <1>7, <1>8, <1>9

(* No file begins behind the end of the last.                              *)
LEMMA OffsetsWithin ==
  ASSUME lengths \in [Files -> Nat]
  PROVE  TotalLength \in Nat /\ \A i \in 1 .. FileCount + 1 : Offset[i] <= TotalLength
<1>. DEFINE n == FileCount + 1
            ns == {m \in 0 .. FileCount : \A i \in n - m .. n : Offset[i] <= Offset[n]}
<1>1. FileCount \in Nat \ {0} /\ n \in 1 .. n /\ FileCount + 1 \in Nat
  BY SpansAssumption
<1>2. /\ \A i \in 1 .. n : Offset[i] \in Nat
      /\ \A i \in Files : Offset[i + 1] = Offset[i] + lengths[i]
  BY OffsetsSum
<1>3. 0 \in ns
  <2>1. \A i \in n - 0 .. n : i = n
    BY <1>1
  <2>. QED BY <1>1, <1>2, <2>1
<1>4. IsFiniteSet(ns) /\ ns \subseteq Nat
  <2>1. 0 \in Int /\ FileCount \in Int
    BY <1>1
  <2>2. IsFiniteSet(0 .. FileCount)
    BY <2>1, FS_Interval
  <2>3. ns \subseteq 0 .. FileCount
    OBVIOUS
  <2>4. ns \subseteq Nat
    BY <1>1, <2>3
  <2>. QED BY <2>2, <2>3, <2>4, FS_Subset
<1>5. PICK m \in ns : \A k \in ns : k <= m
  <2>. HIDE DEF ns
  <2>. QED BY <1>3, <1>4, Greatest
<1>6. m \in Nat /\ m <= FileCount /\ \A i \in n - m .. n : Offset[i] <= Offset[n]
  BY <1>1, <1>5
<1>7. m = FileCount
  <2>1. SUFFICES ASSUME m < FileCount PROVE FALSE
    BY <1>1, <1>6
  <2>2. PICK f : f = n - (m + 1)
    OBVIOUS
  <2>3. /\ f \in Files /\ f + 1 \in n - m .. n /\ f \in 1 .. n /\ f + 1 \in 1 .. n
        /\ n - (m + 1) = f /\ m + 1 \in 0 .. FileCount
    BY <1>1, <1>6, <2>1, <2>2 DEF Files
  <2>4. Offset[f] <= Offset[n]
    <3>1. Offset[f + 1] = Offset[f] + lengths[f] /\ lengths[f] \in Nat
      BY <1>2, <2>3
    <3>2. Offset[f + 1] <= Offset[n] /\ Offset[f] \in Nat /\ Offset[n] \in Nat
      BY <1>1, <1>2, <1>6, <2>3
    <3>. QED BY <3>1, <3>2
  <2>5. \A i \in f .. n : i = f \/ i \in n - m .. n
    BY <1>1, <1>6, <2>2, <2>3
  <2>6. m + 1 \in ns
    BY <1>6, <2>3, <2>4, <2>5
  <2>. QED BY <1>5, <1>6, <2>6
<1>8. \A i \in 1 .. n : i \in n - m .. n
  BY <1>1, <1>7
<1>. QED BY <1>1, <1>2, <1>6, <1>8 DEF TotalLength

(* What is left of a block when the loop is over.                          *)
LEMMA LeftOver ==
  ASSUME NEW total \in Nat, NEW from \in Nat, NEW size \in Nat, NEW cur \in Nat, NEW left \in Nat,
         cur + left = from + size, left = 0 \/ total <= cur,
         \/ from = cur
         \/ from < total /\ cur <= total
  PROVE  left = IF total <= from THEN size
                ELSE IF total <= from + size THEN (from + size) - total ELSE 0
<1>1. CASE from = cur
  BY <1>1
<1>2. CASE from < total /\ cur <= total
  BY <1>2
<1>. QED BY <1>1, <1>2

(* The inductive invariant: the loop is not past the place where it goes   *)
(* on, and the spans are of files passed.                                  *)
SpansInv ==
    /\ SpansTypeOK /\ lengths \in [Files -> FileLengths]
    /\ spans \in Seq([file : Files, at : Nat, size : Nat])
    /\ block \in [from : Nat, size : Nat]
    /\ remaining > 0 => Offset[spanFile] <= cursor
    /\ spans = <<>> => cursor = block.from
    /\ spans # <<>> => block.from < Offset[spanFile] /\ cursor <= Offset[spanFile]
    /\ SpansCover

(* The loop begins at the first file with the whole block.                 *)
LEMMA SpansBegin == SpansInit => SpansInv
<1>. SUFFICES ASSUME SpansInit PROVE SpansInv
  OBVIOUS
<1>1. /\ FileCount \in Nat \ {0} /\ FileLengths \subseteq Nat /\ PieceLengths \subseteq Nat \ {0}
  BY SpansAssumption
<1>2. lengths \in [Files -> Nat] /\ pieceLength \in Nat \ {0}
  BY <1>1 DEF SpansInit
<1>3. Offset[1] = 0 /\ TotalLength \in Nat
  <2>1. FileCount + 1 \in 1 .. FileCount + 1
    BY <1>1
  <2>. QED BY <1>2, <2>1, OffsetsSum DEF TotalLength
<1>4. pieceCount \in Nat
  <2>1. pieceCount = (TotalLength + pieceLength - 1) \div pieceLength \/ pieceCount \in HashCounts
    BY DEF SpansInit, PieceCounts
  <2>2. CASE pieceCount = (TotalLength + pieceLength - 1) \div pieceLength
    <3>1. TotalLength + pieceLength - 1 \in Nat
      BY <1>2, <1>3
    <3>2. \A a \in Nat, l \in Nat \ {0} : a \div l \in Nat
      OBVIOUS
    <3>. QED BY <1>2, <2>2, <3>1, <3>2
  <2>3. CASE pieceCount \in HashCounts
    BY <2>3, SpansAssumption
  <2>. QED BY <2>1, <2>2, <2>3
<1>5. block \in [from : Nat, size : Nat]
  <2>1. PICK i \in 0 .. pieceCount - 1, o \in 0 .. pieceLength, n \in 0 .. pieceLength :
            block = [from |-> i * pieceLength + o, size |-> n]
    BY DEF SpansInit, BlocksOf
  <2>2. i \in Nat /\ o \in Nat /\ n \in Nat
    BY <1>2, <1>4
  <2>3. i * pieceLength \in Nat
    BY <1>2, <2>2
  <2>4. i * pieceLength + o \in Nat
    BY <2>2, <2>3
  <2>. QED BY <2>1, <2>2, <2>4
<1>6. spanFile = 1 /\ cursor = block.from /\ remaining = block.size /\ spans = <<>>
  BY DEF SpansInit
<1>7. SpansTypeOK
  BY <1>1, <1>2, <1>4, <1>5, <1>6 DEF SpansTypeOK
<1>8. SpansCover
  <2>1. DOMAIN spans = {}
    BY <1>6
  <2>2. ASSUME SpansDone
        PROVE  remaining = IF TotalLength <= block.from THEN block.size
                           ELSE IF TotalLength <= block.from + block.size
                           THEN (block.from + block.size) - TotalLength ELSE 0
    <3>1. remaining = 0
      BY <1>1, <1>6, <2>2 DEF SpansDone
    <3>. QED BY <1>3, <1>5, <1>6, <3>1, LeftOver
  <2>. QED BY <1>6, <2>1, <2>2 DEF SpansCover
<1>. QED BY <1>3, <1>5, <1>6, <1>7, <1>8 DEF SpansInv, SpansInit

(* The loop passes a file: it takes a span of it or has been behind it.    *)
LEMMA SpansStep == SpansInv /\ [SpanStep]_spanVars => SpansInv'
<1>. SUFFICES ASSUME SpansInv, [SpanStep]_spanVars PROVE SpansInv'
  OBVIOUS
<1>. USE DEF spanVars
<1>1. CASE UNCHANGED spanVars
  <2>1. UNCHANGED <<Offset, TotalLength, SpansDone>>
    BY <1>1 DEF Offset, TotalLength, SpansDone
  <2>. QED BY <1>1, <2>1 DEF SpansInv, SpansTypeOK, SpansCover
<1>2. CASE SpanStep
  <2>. DEFINE start == Offset[spanFile]
              end == Offset[spanFile] + lengths[spanFile]
              take == Take(remaining, end - cursor)
              span == [file |-> spanFile, at |-> cursor - start, size |-> take]
  <2>1. /\ spanFile \in Files /\ remaining > 0 /\ spanFile' = spanFile + 1
        /\ UNCHANGED <<lengths, pieceLength, pieceCount, block>>
        /\ IF start <= cursor /\ cursor < end
           THEN spans' = Append(spans, span) /\ cursor' = cursor + take
                /\ remaining' = remaining - take
           ELSE UNCHANGED <<spans, cursor, remaining>>
    BY <1>2 DEF SpanStep
  <2>2. /\ FileCount \in Nat \ {0} /\ FileLengths \subseteq Nat
        /\ lengths \in [Files -> Nat] /\ cursor \in Nat /\ remaining \in Nat
        /\ block.from \in Nat /\ block.size \in Nat
    BY SpansAssumption DEF SpansInv, SpansTypeOK
  <2>3. /\ start \in Nat /\ lengths[spanFile] \in Nat /\ end \in Nat
        /\ Offset[spanFile + 1] = end /\ start <= cursor
        /\ spanFile + 1 \in 1 .. FileCount + 1 /\ spanFile \in 1 .. FileCount + 1
    <3>1. spanFile \in 1 .. FileCount + 1 /\ spanFile + 1 \in 1 .. FileCount + 1
      BY <2>1, <2>2 DEF Files
    <3>2. start \in Nat /\ lengths[spanFile] \in Nat /\ Offset[spanFile + 1] = end
      BY <2>1, <2>2, <3>1, OffsetsSum
    <3>. QED BY <2>1, <3>1, <3>2 DEF SpansInv
  <2>4. Offset' = Offset /\ TotalLength' = TotalLength
    BY <2>1 DEF Offset, TotalLength
  <2>5. /\ cursor + remaining = block.from + block.size
        /\ spans = <<>> => cursor = block.from
        /\ spans # <<>> => block.from < start /\ cursor <= start
        /\ spans \in Seq([file : Files, at : Nat, size : Nat])
    BY DEF SpansInv, SpansCover
  <2>6. start <= end
    <3>1. \A a, b \in Nat : a <= a + b
      OBVIOUS
    <3>. QED BY <2>3, <3>1
  <2>. HIDE DEF start, end
  <2>7. TotalLength \in Nat /\ end <= TotalLength
    BY <2>2, <2>3, OffsetsWithin
  <2>8. ASSUME SpansDone', cursor' \in Nat, remaining' \in Nat,
               cursor' + remaining' = block.from + block.size,
               remaining' > 0 => end <= cursor',
               cursor' = block.from \/ (block.from < end /\ cursor' <= end)
        PROVE  remaining' = IF TotalLength <= block.from THEN block.size
                            ELSE IF TotalLength <= block.from + block.size
                            THEN (block.from + block.size) - TotalLength ELSE 0
    <3>1. remaining' = 0 \/ TotalLength <= cursor'
      <4>1. CASE spanFile' > FileCount /\ remaining' > 0
        <5>1. spanFile + 1 = FileCount + 1
          BY <2>1, <2>2, <4>1 DEF Files
        <5>2. end = TotalLength
          BY <2>3, <5>1 DEF TotalLength
        <5>. QED BY <2>8, <4>1, <5>2
      <4>. QED BY <2>8, <4>1 DEF SpansDone
    <3>2. block.from = cursor' \/ (block.from < TotalLength /\ cursor' <= TotalLength)
      BY <2>2, <2>3, <2>7, <2>8
    <3>. QED BY <2>2, <2>7, <2>8, <3>1, <3>2, LeftOver
  <2>9. CASE cursor < end
    <3>1. /\ take \in Nat /\ take > 0 /\ take <= remaining /\ cursor + take <= end
          /\ take < remaining => cursor + take = end
      BY <2>1, <2>2, <2>3, <2>9 DEF Take
    <3>2. spans' = Append(spans, span) /\ cursor' = cursor + take /\ remaining' = remaining - take
      BY <2>1, <2>3, <2>9
    <3>. HIDE DEF take
    <3>3. /\ span \in [file : Files, at : Nat, size : Nat]
          /\ span.file = spanFile /\ span.at = cursor - start /\ span.size = take
      BY <2>1, <2>2, <2>3, <3>1
    <3>. HIDE DEF span
    <3>4. cursor' \in Nat /\ remaining' \in Nat
      BY <2>2, <3>1, <3>2
    <3>5. SpansTypeOK'
      BY <2>1, <2>2, <2>3, <3>4 DEF SpansInv, SpansTypeOK
    <3>6. remaining' > 0 => Offset'[spanFile'] <= cursor'
      BY <2>1, <2>2, <2>3, <2>4, <3>1, <3>2
    <3>7. /\ spans' \in Seq([file : Files, at : Nat, size : Nat]) /\ spans' # <<>>
          /\ Len(spans) \in Nat /\ Len(spans') = Len(spans) + 1
          /\ DOMAIN spans = 1 .. Len(spans) /\ DOMAIN spans' = 1 .. Len(spans) + 1
          /\ \A k \in 1 .. Len(spans) : spans'[k] = spans[k]
          /\ spans'[Len(spans) + 1] = span
      <4>. DEFINE Spans == [file : Files, at : Nat, size : Nat]
      <4>1. spans \in Seq(Spans) /\ span \in Spans /\ spans' = Append(spans, span)
        BY <2>5, <3>2, <3>3
      <4>. HIDE DEF Spans
      <4>2. /\ spans' \in Seq(Spans) /\ Len(spans') = Len(spans) + 1
            /\ Len(spans) \in Nat /\ DOMAIN spans = 1 .. Len(spans)
            /\ DOMAIN spans' = 1 .. Len(spans')
        BY ONLY <4>1
      <4>3. /\ \A k \in 1 .. Len(spans) : spans'[k] = spans[k]
            /\ spans'[Len(spans) + 1] = span
        BY ONLY <4>1
      <4>4. spans' # <<>>
        BY ONLY <4>1, <4>2
      <4>. QED BY <4>2, <4>3, <4>4 DEF Spans
    <3>8. cursor' = Offset[span.file] + span.at + span.size
      BY <2>2, <2>3, <3>1, <3>2, <3>3 DEF start
    <3>9. ASSUME NEW k \in DOMAIN spans'
          PROVE  /\ spans'[k].size > 0
                 /\ spans'[k].at + spans'[k].size <= lengths[spans'[k].file]
                 /\ Offset[spans'[k].file] + spans'[k].at =
                      IF k = 1 THEN block.from
                      ELSE Offset[spans'[k - 1].file] + spans'[k - 1].at + spans'[k - 1].size
      <4>1. CASE k \in 1 .. Len(spans)
        <5>1. spans'[k] = spans[k] /\ (k # 1 => spans'[k - 1] = spans[k - 1])
          BY <3>7, <4>1
        <5>. QED BY <3>7, <4>1, <5>1 DEF SpansInv, SpansCover
      <4>2. CASE k \notin 1 .. Len(spans)
        <5>1. k = Len(spans) + 1 /\ spans'[k] = span /\ (k # 1 => spans'[k - 1] = spans[k - 1])
          BY <3>7, <3>9, <4>2
        <5>2. span.at + span.size <= lengths[spanFile]
          BY <2>2, <2>3, <3>1, <3>3 DEF start, end
        <5>3. Offset[span.file] + span.at = cursor
          BY <2>2, <2>3, <3>3 DEF start
        <5>4. cursor = IF k = 1 THEN block.from
                       ELSE Offset[spans[k - 1].file] + spans[k - 1].at + spans[k - 1].size
          <6>1. CASE k = 1
            <7>1. spans = <<>>
              BY <2>5, <3>7, <5>1, <6>1
            <7>. QED BY <2>5, <6>1, <7>1
          <6>2. CASE k # 1
            <7>1. spans # <<>> /\ k - 1 = Len(spans)
              BY <2>5, <3>7, <5>1, <6>2
            <7>. QED BY <6>2, <7>1 DEF SpansInv, SpansCover
          <6>. QED BY <6>1, <6>2
        <5>. QED BY <3>1, <3>3, <5>1, <5>2, <5>3, <5>4
      <4>. QED BY <4>1, <4>2
    <3>10. cursor' + remaining' = block.from + block.size
      BY <2>2, <2>5, <3>1, <3>2
    <3>11. block.from < Offset'[spanFile'] /\ cursor' <= Offset'[spanFile']
      <4>1. block.from <= cursor
        BY <2>2, <2>3, <2>5
      <4>. QED BY <2>1, <2>2, <2>3, <2>4, <2>9, <3>1, <3>2, <4>1
    <3>12. SpansCover'
      <4>1. spans'[Len(spans')] = span
        BY <3>7
      <4>2. SpansDone' =>
              remaining' = IF TotalLength <= block.from THEN block.size
                           ELSE IF TotalLength <= block.from + block.size
                           THEN (block.from + block.size) - TotalLength ELSE 0
        BY <2>1, <2>3, <2>4, <2>8, <3>4, <3>6, <3>10, <3>11
      <4>. QED BY <2>1, <2>4, <3>8, <3>9, <3>10, <4>1, <4>2 DEF SpansCover
    <3>. QED BY <2>1, <2>4, <2>5, <3>5, <3>6, <3>7, <3>11, <3>12 DEF SpansInv
  <2>10. CASE ~(cursor < end)
    <3>1. UNCHANGED <<spans, cursor, remaining>>
      BY <2>1, <2>10
    <3>2. SpansTypeOK'
      BY <2>1, <2>2, <2>3, <3>1 DEF SpansInv, SpansTypeOK
    <3>3. Offset'[spanFile'] <= cursor'
      BY <2>1, <2>2, <2>3, <2>4, <2>10, <3>1
    <3>4. spans # <<>> => block.from < end /\ cursor <= end
      <4>1. spans # <<>> => block.from < start /\ cursor <= start
        BY <2>5
      <4>. QED BY <2>2, <2>3, <2>6, <4>1
    <3>5. SpansDone' =>
            remaining' = IF TotalLength <= block.from THEN block.size
                         ELSE IF TotalLength <= block.from + block.size
                         THEN (block.from + block.size) - TotalLength ELSE 0
      BY <2>1, <2>2, <2>3, <2>4, <2>5, <2>8, <3>1, <3>3, <3>4
    <3>6. SpansCover'
      BY <2>1, <2>4, <3>1, <3>5 DEF SpansInv, SpansCover
    <3>7. spans' # <<>> => block.from < Offset'[spanFile'] /\ cursor' <= Offset'[spanFile']
      BY <2>1, <2>3, <2>4, <3>1, <3>4
    <3>. QED BY <2>1, <2>4, <2>5, <3>1, <3>2, <3>3, <3>6, <3>7 DEF SpansInv
  <2>. QED BY <2>9, <2>10
<1>. QED BY <1>1, <1>2

(* Whatever files there are, empty ones included, however long pieces and  *)
(* blocks are and however many pieces there are said to be: the loop's     *)
(* spans are the bytes of the block, each once and in order, and what is   *)
(* left over at the end is what lies behind the last file, no more and no  *)
(* less (block_file_spans, build_storage, piece_count).                    *)
THEOREM BlocksAreCovered == SpansSpec => [](SpansTypeOK /\ SpansCover)
<1>1. SpansInv => SpansTypeOK /\ SpansCover
  BY DEF SpansInv
<1>. QED BY <1>1, SpansBegin, SpansStep, PTL DEF SpansSpec

(* --------------------------- side by side ------------------------------ *)

(* A step of a part leaves the others alone.                               *)
LEMMA PartsApart ==
  ASSUME [StorageNext]_<<part, diskVars, spanVars, cachingVars, listVars, budgetVars, rateVars,
                         queueVars>>
  PROVE  /\ [DiskNext]_diskVars /\ [SpanStep]_spanVars /\ [CachingNext]_cachingVars
         /\ [ListsNext]_listVars /\ [BudgetNext]_budgetVars /\ [RateNext]_rateVars
         /\ [QueueNext]_queueVars
BY DEF StorageNext, OtherVars

(* The storage as a whole: what the parts promise each for itself holds of *)
(* them side by side, for any constants.                                   *)
THEOREM StorageKept ==
  StorageSpec => [](/\ StorageTypeOK /\ WritesAreRead /\ SpansCover /\ OnlyVerifiedStored
                    /\ MemoryCounted /\ BudgetKept /\ RateBounded /\ LastWriteWins)
<1>1. StorageInit => /\ DiskInit /\ SpansInit /\ CachingInit /\ ListsInit /\ BudgetInit
                     /\ RateInit /\ QueueInit
  BY DEF StorageInit
<1>2. StorageSpec => DiskSpec /\ SpansSpec
  BY <1>1, PartsApart, PTL DEF StorageSpec, DiskSpec, SpansSpec
<1>3. StorageSpec => CachingSpec /\ ListsSpec
  BY <1>1, PartsApart, PTL DEF StorageSpec, CachingSpec, ListsSpec
<1>4. StorageSpec => BudgetSpec /\ RateSpec /\ QueueSpec
  BY <1>1, PartsApart, PTL DEF StorageSpec, BudgetSpec, RateSpec, QueueSpec
<1>5. DiskTypeOK /\ SpansTypeOK /\ CachingTypeOK /\ ListsTypeOK /\ BudgetTypeOK /\ RateTypeOK
      /\ QueueTypeOK => StorageTypeOK
  BY DEF StorageTypeOK
<1>. QED BY <1>2, <1>3, <1>4, <1>5, WritesAreFound, BlocksAreCovered, OnlyVerifiedIsStored,
            MemoryIsCounted, BudgetIsKept, RateIsBounded, LastWritesWin, PTL
=============================================================================

