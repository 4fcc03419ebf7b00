-------------------- MODULE CurrentPeriodOverviewProofs --------------------
(***************************************************************************)
(* Proofs about the estimator, for every amount bound, every number of     *)
(* metered prices and every set of price kinds and currencies.             *)
(***************************************************************************)
EXTENDS CurrentPeriodOverview, TLAPS

\* The k metered prices that follow the plan's price.
Metered(k) == [i \in 1..k |-> MeteredPrice]

\* Every snapshot is a plan of at most one non-metered price followed by
\* its metered prices, one meter line per metered price.
LEMMA SnapshotShape ==
    ASSUME NEW s \in Snapshots
    PROVE  \E ps \in Plans, k \in 0..MaxMeters :
              /\ s.prices = ps \o Metered(k)
              /\ s.prices # <<>>
              /\ s.meters \in [1..k -> MeterLines]
              /\ s.status \in Statuses
              /\ s.amount \in Paid(ps)
              /\ s.org \in OrgPresence
<1>1. PICK ps \in Plans : \E k \in 0..MaxMeters : s \in Snapshot(ps, k)
  BY DEF Snapshots
<1>2. PICK k \in 0..MaxMeters : s \in Snapshot(ps, k)
  BY <1>1
<1>3. QED
  BY <1>2 DEF Snapshots, Snapshot, Metered

\* The indices of the fixed prices of a snapshot.
FixedIndices(s) == {i \in 1..Len(s.prices) : s.prices[i].amount_type = "fixed"}

\* prices.find(amount_type === 'fixed') finds the plan's price when that is
\* a fixed price, and nothing otherwise: metered prices are never fixed.
LEMMA BasePriceOfPlan ==
    ASSUME NEW ps \in Plans, NEW k \in 0..MaxMeters,
           NEW s, s.prices = ps \o Metered(k)
    PROVE  BasePriceIndex(s) =
               IF ps # <<>> /\ ps[1].amount_type = "fixed" THEN 1 ELSE 0
<1>1. BasePriceIndex(s) = IF FixedIndices(s) # {} THEN Min(FixedIndices(s)) ELSE 0
  BY DEF BasePriceIndex, SelectInSeq, FixedIndices
<1>2. CASE ps = <<>>
  <2>1. s.prices = Metered(k)
    BY <1>2
  <2>2. FixedIndices(s) = {}
    BY <2>1 DEF FixedIndices, Metered, MeteredPrice, Price
  <2>3. QED
    BY <1>1, <1>2, <2>2
<1>3. CASE ps # <<>>
  <2>1. PICK p \in StaticPrices : ps = <<p>>
    BY <1>3 DEF Plans
  <2>2. /\ Len(s.prices) = k + 1
        /\ s.prices[1] = p
        /\ \A j \in 2..k + 1 : s.prices[j] = MeteredPrice
    BY <2>1 DEF Metered
  <2>3. FixedIndices(s) = IF p.amount_type = "fixed" THEN {1} ELSE {}
    BY <2>2 DEF FixedIndices, MeteredPrice, Price
  <2>4. Min({1}) = 1
    BY DEF Min
  <2>5. QED
    BY <1>1, <1>3, <2>1, <2>3, <2>4
<1>4. QED
  BY <1>2, <1>3

\* The reduction's seed, basePrice?.price_amount || 0, is a whole amount of
\* minor units for every snapshot: no undefined leaks out of the optional
\* chain into the sum.  It is the spec's fixed_price ?? 0 (section 4.2),
\* except for a pay-what-you-want plan, whose amount it drops.
THEOREM InitialTotalIsFixedPrice ==
    ASSUME NEW s \in Snapshots
    PROVE  /\ InitialTotal(s) \in Amounts
           /\ InitialTotal(s) =
                  IF s.prices[1].amount_type = "custom" THEN 0 ELSE SpecFixedPrice(s)
<1> USE ConstantsAssumption
<1>1. PICK ps \in Plans, k \in 0..MaxMeters :
          /\ s.prices = ps \o Metered(k)
          /\ s.prices # <<>>
  BY SnapshotShape
<1>2. BasePriceIndex(s) = IF ps # <<>> /\ ps[1].amount_type = "fixed" THEN 1 ELSE 0
  BY <1>1, BasePriceOfPlan
<1>3. CASE ps = <<>>
  <2>1. k > 0 /\ s.prices[1] = MeteredPrice
    BY <1>1, <1>3 DEF Metered
  <2>2. InitialTotal(s) = 0
    BY <1>2, <1>3 DEF InitialTotal, BasePriceAmount
  <2>3. SpecFixedPrice(s) = 0 /\ s.prices[1].amount_type # "custom"
    BY <1>1, <2>1 DEF SpecFixedPrice, MeteredPrice, Price
  <2>4. QED
    BY <2>2, <2>3 DEF Amounts
<1>4. CASE ps # <<>>
  <2>1. PICK p \in StaticPrices : ps = <<p>>
    BY <1>4 DEF Plans
  <2>2. s.prices[1] = p
    BY <1>1, <2>1 DEF Metered
  <2>3. CASE p.amount_type = "fixed"
    <3>1. PICK a \in Amounts : p = Price("fixed", a)
      BY <2>3 DEF StaticPrices, Price
    <3>2. BasePriceAmount(s) = a
      BY <1>2, <2>1, <2>2, <2>3, <3>1 DEF BasePriceAmount, Price
    <3>3. a \notin {Undefined, 0} => InitialTotal(s) = a
      BY <3>2 DEF InitialTotal
    <3>4. a \in Nat /\ Undefined \notin Nat
      BY DEF Amounts
    <3>5. InitialTotal(s) = a
      BY <3>2, <3>3, <3>4 DEF InitialTotal
    <3>6. SpecFixedPrice(s) = a /\ s.prices[1].amount_type = "fixed"
      BY <1>1, <2>2, <3>1 DEF SpecFixedPrice, Price
    <3>7. QED
      BY <3>5, <3>6
  <2>4. CASE p.amount_type # "fixed"
    <3>1. InitialTotal(s) = 0
      BY <1>2, <2>1, <2>4 DEF InitialTotal, BasePriceAmount
    <3>2. p.amount_type \in {"custom", "free"}
      BY <2>4 DEF StaticPrices, Price
    <3>3. s.prices[1].amount_type = "free" => SpecFixedPrice(s) = 0
      BY <1>1 DEF SpecFixedPrice
    <3>4. QED
      BY <2>2, <3>1, <3>2, <3>3 DEF Amounts
  <2>5. QED
    BY <2>3, <2>4
<1>5. QED
  BY <1>3, <1>4

\* The note "Final charges may vary" is shown exactly when the spec marks
\* the estimate provisional: meters.length > 0 iff meters is not empty.
LEMMA ProvisionalIffMetered ==
    ASSUME NEW s \in Snapshots
    PROVE  (Len(s.meters) > 0) = (s.meters # <<>>)
<1>1. PICK ps \in Plans, k \in 0..MaxMeters : s.meters \in [1..k -> MeterLines]
  BY SnapshotShape
<1>2. Len(s.meters) = k
  BY <1>1
<1>3. s.meters = <<>> <=> k = 0
  BY <1>1
<1>4. QED
  BY <1>2, <1>3

\* For a snapshot with an organization and without a pay-what-you-want
\* price, the panel renders the spec's estimate exactly when, for an
\* active subscription, the reduce over the meter lines equals its seed
\* plus the sum of the accrued amounts.  Everything but the reduction (the
\* status guard, the base price lookup, the `|| 0` default and the
\* provisional note) agrees with the spec by this lemma; the reduction
\* itself is left to TLC.
LEMMA RenderMatchesSpecUpToReduce ==
    ASSUME NEW s \in Snapshots, s.org = TRUE,
           s.prices[1].amount_type # "custom"
    PROVE  Render(s) = SpecEstimate(s)
               <=> (s.status = "active" =>
                       TotalAmount(s) = InitialTotal(s) + SumAccrued(s.meters))
<1>1. CASE s.status # "active"
  BY <1>1 DEF Render, SpecEstimate
<1>2. CASE s.status = "active"
  <2>1. Render(s) = [total |-> TotalAmount(s), provisional |-> Len(s.meters) > 0]
    BY <1>2 DEF Render
  <2>2. SpecEstimate(s) = [total |-> InitialTotal(s) + SumAccrued(s.meters),
                           provisional |-> s.meters # <<>>]
    BY <1>2, InitialTotalIsFixedPrice DEF SpecEstimate
  <2>3. (Len(s.meters) > 0) = (s.meters # <<>>)
    BY ProvisionalIffMetered
  <2>4. QED
    BY <1>2, <2>1, <2>2, <2>3
<1>3. QED
  BY <1>1, <1>2

\* A snapshot's first price is a plan price of a kind in StaticKinds, or
\* a metered price.
LEMMA FirstPriceKind ==
    ASSUME NEW s \in Snapshots
    PROVE  s.prices[1].amount_type \in StaticKinds \cup {"metered_unit"}
<1>1. PICK ps \in Plans, k \in 0..MaxMeters :
          s.prices = ps \o Metered(k) /\ s.prices # <<>>
  BY SnapshotShape
<1>2. CASE ps = <<>>
  BY <1>1, <1>2 DEF Metered, MeteredPrice, Price
<1>3. CASE ps # <<>>
  <2>1. PICK p \in StaticPrices : ps = <<p>>
    BY <1>3 DEF Plans
  <2>2. QED
    BY <1>1, <2>1 DEF Metered, StaticPrices
<1>4. QED
  BY <1>2, <1>3

\* The panel shows the snapshot it was last rendered with.
RenderedFromSub == sub \in Snapshots /\ view = Render(sub)

\* The reduce over an active subscription's meter lines is its seed plus
\* the sum of the accrued amounts.
ReduceIsSum ==
    sub.status = "active" =>
        TotalAmount(sub) = InitialTotal(sub) + SumAccrued(sub.meters)

LEMMA RenderedFromSubInvariant == Spec => []RenderedFromSub
<1>1. Init => RenderedFromSub
  BY DEF Init, RenderedFromSub
<1>2. RenderedFromSub /\ [Next]_vars => RenderedFromSub'
  BY DEF RenderedFromSub, Next, Refetch, vars
<1>3. QED
  BY <1>1, <1>2, PTL DEF Spec

\* For products without pay-what-you-want prices and with the organization
\* loaded (the instance of the period_estimate run, here for every amount
\* bound, number of meters and set of currencies), the panel shows the
\* spec's estimate in every reachable state exactly when the code's
\* subscription.meters.reduce adds up the accrued amounts onto its seed.
\* What a reduce computes for every input needs induction over the list;
\* TLC checks that part on the run's instance.
THEOREM EstimateMatchesSpecUpToReduce ==
    ASSUME "custom" \notin StaticKinds, OrgPresence = {TRUE}
    PROVE  Spec => [](EstimateMatchesSpec <=> ReduceIsSum)
<1>1. RenderedFromSub => (EstimateMatchesSpec <=> ReduceIsSum)
  <2> SUFFICES ASSUME RenderedFromSub
               PROVE  EstimateMatchesSpec <=> ReduceIsSum
    OBVIOUS
  <2>1. sub \in Snapshots /\ view = Render(sub)
    BY DEF RenderedFromSub
  <2>2. sub.org = TRUE
    BY <2>1, SnapshotShape
  <2>3. sub.prices[1].amount_type # "custom"
    BY <2>1, FirstPriceKind
  <2>4. QED
    BY <2>1, <2>2, <2>3, RenderMatchesSpecUpToReduce
       DEF EstimateMatchesSpec, ReduceIsSum
<1>2. QED
  BY <1>1, RenderedFromSubInvariant, PTL

=============================================================================
