------------------------- MODULE CurrentPeriodOverview -------------------------
(***************************************************************************)
(* The "Current Period Overview" panel of the customer portal: the billing *)
(* period estimator.  Its input is the subscription snapshot `sub` the     *)
(* portal last fetched; each new snapshot re-renders the panel, whose      *)
(* output `view` is either nothing (the component returns null) or the     *)
(* estimated total with its "Final charges may vary" note.                 *)
(*                                                                         *)
(* The estimate is checked against the formula of the specification,       *)
(* section 4.2: total = (fixed_price ?? 0) + sum of the accrued amounts,   *)
(* provisional iff there is a metered line, nothing unless active.         *)
(***************************************************************************)
EXTENDS Naturals, Sequences, SequencesExt

CONSTANTS
    MaxAmount,     \* largest amount (minor units) of a price or a meter line
    MaxMeters,     \* largest number of metered prices on a subscription
    StaticKinds,   \* amount types the product's non-metered price may have
    Currencies,    \* currencies of the subscription and of its meter lines
    OrgPresence,   \* whether subscription.product.organization may be set
    Undefined,     \* the JavaScript values undefined,
    NaN,           \* NaN
    Null,          \* and null, none of them a number
    Thrown         \* the render throws (a TypeError)

ASSUME ConstantsAssumption ==
    /\ MaxAmount \in Nat \ {0}
    /\ MaxMeters \in Nat \ {0}
    /\ StaticKinds \subseteq {"fixed", "custom", "free"}
    /\ Currencies # {}
    /\ OrgPresence \subseteq BOOLEAN /\ OrgPresence # {}
    /\ {Undefined, NaN, Null, Thrown} \cap Nat = {}

VARIABLES
    sub,    \* the `subscription` prop
    view    \* what the panel renders: Null, Thrown or [total, provisional]

vars == <<sub, view>>

Amounts == 0..MaxAmount

Statuses == {"active", "past_due", "canceled"}

\* A metered price carries no price_amount; a custom (pay what you want)
\* price neither: what the customer pays is the subscription's `amount`.
Price(kind, a) == [amount_type |-> kind, price_amount |-> a]

MeteredPrice == Price("metered_unit", Undefined)

\* One line of `meters`: the amount accrued on a meter and its currency.
MeterLines == [amount: Amounts, currency: Currencies]

\* The non-metered prices a product may have, of the kinds in StaticKinds.
StaticPrices ==
    {q \in {Price("fixed", a) : a \in Amounts}
               \cup {Price(k, Undefined) : k \in {"custom", "free"}} :
        q.amount_type \in StaticKinds}

\* A product has at most one non-metered price.
Plans == {<<p>> : p \in StaticPrices} \cup {<<>>}

\* The subscription's `amount`: the fixed price, the amount the customer
\* chose for a custom price, and 0 otherwise.
Paid(ps) ==
    IF ps = <<>> THEN {0}
    ELSE CASE ps[1].amount_type = "fixed"  -> {ps[1].price_amount}
           [] ps[1].amount_type = "custom" -> Amounts
           [] OTHER                        -> {0}

\* The snapshots of a subscription to plan ps with k metered prices, each
\* of which contributes one line to `meters`.
Snapshot(ps, k) ==
    [status: Statuses,
     prices: {ps \o [i \in 1..k |-> MeteredPrice]},
     meters: [1..k -> MeterLines],
     amount: Paid(ps),
     currency: Currencies,
     org: OrgPresence]

\* A product has at least one price.
Snapshots ==
    {s \in UNION {UNION {Snapshot(ps, k) : k \in 0..MaxMeters} : ps \in Plans} :
        s.prices # <<>>}

-----------------------------------------------------------------------------
(* The code.                                                               *)

\* The reducer (acc, meter) => acc + meter.amount, with JavaScript `+` on
\* the values that occur: undefined or NaN poison the sum.  The meter's
\* currency is not looked at.
JsAdd(acc, meter) ==
    IF acc \in {Undefined, NaN} THEN NaN ELSE acc + meter.amount

\* subscription.prices.find((price) => price.amount_type === 'fixed'),
\* as an index (0 when there is none).
BasePriceIndex(s) == SelectInSeq(s.prices, LAMBDA p : p.amount_type = "fixed")

\* basePrice?.price_amount
BasePriceAmount(s) ==
    IF BasePriceIndex(s) = 0 THEN Undefined
    ELSE s.prices[BasePriceIndex(s)].price_amount

\* Faulty variant: the `|| 0` default is dropped.
InitialTotalWithoutDefault(s) == BasePriceAmount(s)

\* basePrice?.price_amount || 0: undefined and 0 are falsy.
InitialTotal(s) ==
    IF BasePriceAmount(s) \in {Undefined, 0} THEN 0 ELSE BasePriceAmount(s)

\* Faulty variant: the reduction starts from 0 instead of the base price.
TotalAmountFromZero(s) == FoldLeft(JsAdd, 0, s.meters)

\* subscription.meters.reduce((acc, meter) => acc + meter.amount, ...)
TotalAmount(s) == FoldLeft(JsAdd, InitialTotal(s), s.meters)

\* The panel: the theme lookup reads organization.slug first (it throws
\* when there is no organization), then null unless active, else the total
\* and, when there are metered lines, the note that final charges may vary.
Render(s) ==
    IF ~s.org THEN Thrown
    ELSE IF s.status # "active" THEN Null
    ELSE [total |-> TotalAmount(s), provisional |-> Len(s.meters) > 0]

Init ==
    /\ sub \in Snapshots
    /\ view = Render(sub)

\* The portal hands the panel a newly fetched snapshot; it re-renders.
Refetch ==
    /\ \E s \in Snapshots \ {sub} :
          /\ sub' = s
          /\ view' = Render(s)

Next == Refetch

Spec == Init /\ [][Next]_vars

-----------------------------------------------------------------------------
(* The specification's estimator (section 4.2).                            *)

\* fixed_price ?? 0: the amount of the plan's non-metered component.
SpecFixedPrice(s) ==
    IF s.prices # <<>> /\ s.prices[1].amount_type = "fixed"
    THEN s.prices[1].price_amount
    ELSE IF s.prices # <<>> /\ s.prices[1].amount_type = "custom"
         THEN s.amount
         ELSE 0

\* The sum of the accrued amounts, by a recursive function on the prefix.
SumAccrued(ms) ==
    LET f[i \in 0..Len(ms)] == IF i = 0 THEN 0 ELSE f[i - 1] + ms[i].amount
    IN  f[Len(ms)]

SpecEstimate(s) ==
    IF s.status # "active" THEN Null
    ELSE [total |-> SpecFixedPrice(s) + SumAccrued(s.meters),
          provisional |-> s.meters # <<>>]

-----------------------------------------------------------------------------
(* Properties.                                                             *)

\* The panel shows a whole amount of minor units whenever it shows a total:
\* no undefined or NaN can leak out of the price lookup into the sum.
TypeOK ==
    /\ sub \in Snapshots
    /\ view \in {Null, Thrown} \cup [total: Nat, provisional: BOOLEAN]

\* The rendered estimate is the specification's: nothing unless active,
\* otherwise fixed price (or 0) plus every accrued amount, marked
\* provisional exactly when a metered line exists (spec section 8).
EstimateMatchesSpec == view = SpecEstimate(sub)

\* Spec sections 4.2 and 7: mixed currencies are a contract violation the
\* estimator rejects rather than summing; a total is shown only when every
\* metered line is in the subscription's currency.
MixedCurrencyNotTotalled ==
    view \in [total: Nat, provisional: BOOLEAN]
        => \A i \in DOMAIN sub.meters : sub.meters[i].currency = sub.currency

\* Spec section 7: a subscription without an organization renders nothing
\* rather than crashing the portal.
EstimateMissingOrganizationRendersNothing == ~sub.org => view = Null

=============================================================================
