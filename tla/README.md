# Verification of the Polar web client's customer-portal components

This directory contains TLA+ models of the asynchronous components of
`src/clients/apps/web/src`. It has TLC configurations that check the models on
small instances and TLAPS proofs of the safety properties of the
subscription card and the order card, of the
estimator's arithmetic up to its reduce, including the
refinements of two abstract single-slot trackers (uncancel and invoice). `PROJECT.json` holds the machine-readable inventory: components,
runs, mutants, the definition-to-source map, findings, hazards and theorems.

## The system

The repository slice has seven React/TypeScript files.

| File | What it does | Model |
|---|---|---|
| `components/Subscriptions/CustomerSubscriptionDetails.tsx` | The customer's subscription card. It memoises a primary action: Change Plan, or Uncancel while a cancellation at period end is still ahead. The Uncancel `onClick` awaits the uncancel mutation and then `revalidate('customer_portal')`. The card also opens the change-plan and cancellation modals. | `SubscriptionDetails` (partly), refining `UncancelTracker` |
| `components/CustomerPortal/CurrentPeriodOverview.tsx` | The estimate for the current period: the fixed base price (or 0) plus the amounts accrued on each meter. It notes that the charges are provisional when meters exist and renders nothing unless the subscription is active. | `CurrentPeriodOverview` |
| `components/CustomerPortal/CustomerPortalOrder.tsx` | An order's card: a benefit-grants query keyed by order id, and Download Invoice, which awaits the invoice mutation and then calls `window.open`. | `PortalOrder`, refining `InvoiceTracker` |
| `components/Accounts/AccountsList.tsx` | The payout accounts. Continue setup and Open dashboard each POST for a link and then redirect. | `AccountLinks` |
| `app/(main)/login/magic-link/authenticate/ClientPage.tsx` | A magic-link submit that sets `loading` and posts a native form. | not modelled |
| `components/Meter/MeterForm.tsx` | A form layout. The property field is hidden when the aggregation is `count`. | not modelled |
| `app/(main)/dashboard/(create)/layout.tsx` | A static layout. | not modelled |

### How the parts interact

All four modelled components are views over server state, and they follow
the same pattern:

- the component reads a snapshot (a prop or a query result);
- a user action starts a react-query mutation;
- the mutation's `isPending` is the only guard against repeated clicks;
- once the promise settles, a continuation runs, either revalidate or `window.open`.

The server state (`sub`) moves independently. Periods end, cancellations
take effect, and other tabs change plans. The hard cases are the
interleavings of those server steps with an outstanding handler.

## Modules

### `SubscriptionDetails` (card plus the backend it talks to)

**State.** The module's variables are:

- `sub`: the server's subscription;
- `snap`: the `subscription` prop;
- `now`: one clock shared by the browser and the server;
- `action`: the memoised `primaryAction`, holding its label and `loading`;
- `req[i]`: the phase of the i-th Uncancel handler;
- `nreq`: the number of Uncancel clicks so far;
- `showChangePlan` and `showCancel`: the two modal flags.

The subscription is abstracted to four fields: status, `cancel_at_period_end`,
period end, and whether the organization is present.

**Helpers.**

- `ResolvePrimaryAction` is the memo body, lines 43-73.
- `Rerender` recomputes the memo on every render. The dependency
  `uncancelSubscription` is a fresh object on every render, so the memo is
  recomputed whenever the card renders.
- `CardOutcome` models the organization guard. Line 45 runs before line 75,
  so a missing organization gives `"error"` (the render throws).

**Actions.**

- `ClickUncancel` is the button click, enabled while not `loading`.
- `ServerUncancel(i)` is the server, modelled from the spec because it is not under `src/`.
- `UncancelSucceeded(i)` and `UncancelFailed(i)` are the settling of `mutateAsync`.
  These two re-render the card only when i is the latest mutate call:
  react-query's `isPending` follows only the latest call.
- `RevalidateDone(i)` is revalidate resolving with a fresh snapshot.
- The remaining actions are the modal open and hide steps and the modals'
  successful outcomes (`PlanChanged`, `CancelConfirmed`), the server's
  `PeriodEnds`, and `Tick`.
  - `Tick` does not re-render: nothing in the code does when time passes.

**Fairness.** Weak fairness is assumed on four actions:

- `ServerUncancel`, because the network delivers;
- `UncancelSucceeded`, because a resolved promise runs its continuation;
- `UncancelFailed` from `"err"`, because a mutation the server rejected
  rejects `mutateAsync`. A transport failure is never forced;
- `RevalidateDone`, because revalidate resolves.

Users, the clock and billing get no fairness. Until this sitting the model
had no fairness for a rejected mutation, so a rejected request could keep
`isPending` true forever. The refinement's liveness fails without it.

**Refinement.** `UncancelTracker` is the spec's single-slot pending-request
tracker (§4.1, §5, §9) over the server's subscription. Its variables are
`sub` and `slot`, which is `"free"`, `"sent"` (not yet handled) or
`"answered"` (handled by the server). Its actions:

- `Request`: only while the slot is free;
- `Serve`: once per request; clears `cancel_at_period_end` of an active
  subscription;
- `Settle`: from `"sent"` (a transport failure) or `"answered"`;
- `Cancel` and `PeriodEnds`: the customer and the billing cycle.

Weak fairness says a pending request is handled and a pending mutation
settles. `SubscriptionDetails` instantiates it as `Uncancels`, with
`slot <- UncancelSlot`: `"free"` unless `isPending`, else the latest click's
phase. `ImplementsUncancelTracker == Uncancels!UncancelSpec` is checked as a
property. The modals' open and hide steps, `PlanChanged`, `RevalidateDone`
and `Tick` are stutters of the tracker.

### `CurrentPeriodOverview` (the estimator)

**State.**

- `sub`: the snapshot;
- `view`: what is rendered: `Null`, `Thrown` (the render throws) or a total
  with the provisional flag.

**Snapshots.** `Snapshots` contains every subscription with at most one
non-metered price and 0..`MaxMeters` metered prices. Each meter line has an
amount and a currency, and the subscription has a currency and may lack its
organization. The sets `Currencies` and `OrgPresence` choose which of these
cases a run explores.

**The code's computation.**

- `BasePriceIndex` is `prices.find` (`SelectInSeq`).
- `InitialTotal` is `|| 0`.
- `JsAdd` is JavaScript `+`. `undefined` and `NaN` are model values, which
  poison the sum.
- `TotalAmount` is the `reduce` (`FoldLeft`). The reducer reads
  `meter.amount` and never the line's currency.
- `Render` first dereferences `organization.slug` (line 15), which throws
  when the organization is missing, then applies the status guard.

**The spec's formula.** The code's result is compared with `SpecEstimate`, the
formula of spec §4.2. It is written independently, with its own recursive sum
`SumAccrued`.

**Actions.** `Refetch` hands the panel a new snapshot.

**The spec's error rules.** `MixedCurrencyNotTotalled` (spec §4.2, §7) says a
total is shown only when every line is in the subscription's currency.
`EstimateMissingOrganizationRendersNothing` (spec §7) says a subscription
without an organization renders nothing. Each meter line
carries a currency of its own, which the code's meter type does not have:
it stands for the mixed-currency input of spec §4.2, which §3 rules out
upstream and §4.2 and §7 ask the estimator to reject. Only
`MixedCurrencyNotTotalled` depends on it.

### `PortalOrder` (order card)

**State.**

- `order`: the prop;
- `grants`: the query data, per order id;
- `req[i]`: the order a click was made on, and its phase;
- `nreq`: the number of clicks;
- `opened`: the invoice windows opened.

**Actions.**

- `ClickDownload`, disabled while `isPending`;
- `ServerInvoice`;
- `InvoiceOpened`, the continuation after `await`;
- `InvoiceFailed`, a rejection that goes unhandled;
- `GrantsFetched`;
- `ShowOrder`, the parent passing another order.

**Fairness.** Weak fairness holds on the server answering and on the
continuation.

**Refinement.** `InvoiceTracker` is the spec's single-slot pending-request
tracker (§5, §9), with three variables:

- `order`: the order shown;
- `inflight`: `{}` or the order of the one request in flight;
- `invoices`: the orders whose invoice was opened.

Its actions are `Request` (only when the slot is free), `Deliver`, `Fail` and
`SwitchOrder`. Weak fairness says a request in flight eventually completes.

`PortalOrder` instantiates it as `Tracker` with this mapping:

- `inflight <- PendingOrder`: the latest click's order while `isPending`;
- `invoices <- OpenedOrders`: the orders of the opened windows.

`ImplementsTracker == Tracker!TrackerSpec` is checked as a property.
`ServerInvoice` and `GrantsFetched` are stutters of the tracker.

### `AccountLinks` (payout accounts table)

**State.**

- `shown[a]`: each row's `account.status`;
- `pauseProp`: the `pauseActions` prop (`"true"`, `"false"` or not passed;
  `pauseActions === true` is `Paused`);
- `req[i]`: each click's account, link kind and phase;
- `nreq`: the number of clicks;
- `location`: the URL last assigned to `window.location.href`;
- `page`: the table loaded, or left.

**Actions.**

- `ContinueSetup(a)`: rendered when the account is neither active nor under
  review, and disabled while paused;
- `OpenDashboard(a)`: rendered when the account is active, and never disabled;
- `LinkAnswered(i)`: the POST answers with a link, or `unwrap` throws and the
  rejection goes unhandled;
- `Redirect(i)`: the href assignment. A later one replaces a pending
  navigation;
- `Unload`: the browser leaves the page;
- `StatusChanged`, `PauseChanged`: the parent re-renders the table.

Neither handler has a pending guard, so several handlers race.

**Fairness.** The backend answers every POST, a resolved promise runs its
continuation, and the browser carries out an assigned navigation. Users and
the parent get no fairness.

### `SubscriptionDetailsProofs`, `CurrentPeriodOverviewProofs`, `PortalOrderProofs`

These modules hold the TLAPS proofs (see below).

## Runs

| Run | Checks | Result |
|---|---|---|
| `subscription_card` | `SingleUncancelInFlight`, `NoUncancelForEndedSubscription` (Uncancel is never rendered for a snapshot that shows the subscription ended), `ImplementsUncancelTracker` (the card and backend refine the single-slot uncancel tracker, fairness included) | pass, 4180 states |
| `reoffer_before_refresh` | `NoReofferBeforeRefresh` | **violation**: after the uncancel succeeds, `isPending` is false while revalidate still runs, so Uncancel is offered again on the stale snapshot |
| `cancel_during_uncancel` | `OneMutationInFlight` | **violation**: the re-offered Uncancel is clicked while the first refresh runs; the refreshed card offers Unsubscribe, a cancellation is confirmed while the second uncancel is in flight, and that uncancel then clears it (spec §5) |
| `uncancel_after_period_end` | `UncancelIssuedBeforePeriodEnd` | **violation**: time passes without a re-render, so the memoised Uncancel is clicked after `current_period_end` |
| `missing_organization` | `MissingOrganizationRendersNothing` | **violation**: the memo dereferences `organization` before the `return null` guard |
| `period_estimate` | `TypeOK` (never NaN), `EstimateMatchesSpec` for fixed and free prices | pass, 192 states |
| `estimate_custom_price` | `EstimateMatchesSpec` with pay-what-you-want prices | **violation**: only `'fixed'` prices are counted, so a custom price's amount is dropped |
| `invoice_download` | `SingleInvoiceRequestInFlight`, `EveryDownloadSettles` (each click opens the invoice of the order it was made on, or fails), `ImplementsTracker` (the card refines the single-slot tracker, fairness included) | pass, 900 states |
| `estimate_mixed_currency` | `MixedCurrencyNotTotalled` | **violation**: a line in another currency is summed into the total |
| `estimate_missing_organization` | `EstimateMissingOrganizationRendersNothing` | **violation**: `organization.slug` throws before any guard |
| `account_links` | `EveryLinkClickSettles` (each click ends with the page left or its request failed, however handlers of several rows race for `window.location.href`) | pass, 11,151 states |

The deadlock check is off in every run. A finished card legitimately has
nothing left to do: all clicks are used, the clock is at its bound, and every
handler has settled.

**Bounds.**

- **Subscription card:** `MaxClicks = 2`, `MaxTime = 3`, `Period = 2`. Two
  clicks are the least that can race. The clock bound lets a period end
  (initial period end 1 or 2) and a renewal happen, both before and after a click.
- **Estimator:** two meters and amounts 0..2. This covers an empty meter
  list, a zero amount, the `|| 0` falsy case, and sums over more than one meter.
- **Order card:** two orders, so the prop can change under a pending request,
  and two clicks.
- **Accounts table:** two accounts, so that handlers of two rows race for
  `window.location.href`, and two clicks. There are three statuses
  (onboarding started, under review, active), so that each button, and
  neither, is rendered.
- **Estimator error runs:** two currencies, or an organization that may be
  missing. The passing run keeps one currency and a loaded organization,
  since those are the cases the spec's formula covers.

**Mutants.** Each property of a passing run was checked against a plausible
bug in the code it is about:

| Property | Mutant |
|---|---|
| `SingleUncancelInFlight` | `loading` ignored |
| `NoUncancelForEndedSubscription` | the memo's `current_period_end > now` test dropped |
| `TypeOK` (estimator) | `|| 0` dropped |
| `EstimateMatchesSpec` | reduce seeded with 0 |
| `SingleInvoiceRequestInFlight` | button not disabled |
| `EveryDownloadSettles` | continuation reading the order shown now |
| `ImplementsTracker` | continuation reading the order shown now |
| `ImplementsUncancelTracker` | a failed mutation sent again (a retry) |
| `EveryLinkClickSettles` | continuation that never assigns the href |

## Proofs

`SubscriptionDetailsProofs` proves the following for all values of the
constants, under `ConstantsAssumption`:

- `TypeCorrect`: `Spec => []TypeOK`, the lemma the other proofs use;
- `SingleUncancelInFlightHolds`: `Spec => []SingleUncancelInFlight`;
- `IInvHolds`: `Spec => []IInv`;
- `ImplementsUncancelTrackerSafety`: `Spec => UncancelSafety`, the safety
  part of the refinement of `UncancelTracker`;
- `NoUncancelForEndedSubscriptionHolds`:
  `Spec => []NoUncancelForEndedSubscription`.

Two lemmas state the memo's rules of spec §8 for every snapshot and time:
`ResolveUncancelIff` (the label is Uncancel iff the subscription is
canceled, `cancel_at_period_end` is set and the period end is still ahead)
and `ResolveChangePlan` (Change Plan only when customer updates are allowed
and the subscription is not canceled, so the two are exclusive).

`NoUncancelForEndedSubscription` is not inductive either: the memo is not
recomputed when time passes, so it needs to know when the memo was computed.
`RInv` adds two conjuncts to `IInv`:

- `SubEndsAfterPeriod`: a canceled server subscription has its period end
  at or before `now` (billing ends it only once the period is over);
- `RenderedFromSnapshot`: the memo equals `ResolvePrimaryAction(snap, t,
  Pending)` for some past time `t`, and if the snapshot is canceled its
  period end is at or before `t`.

A snapshot is a copy of `sub`, taken after the server ended it, so a
canceled snapshot's period end lies before every later render. Every
re-render takes `t = now`; `Tick` keeps the old `t`. By `ResolveUncancelIff`,
an Uncancel needs `periodEnd > t`, which a canceled snapshot never has. The
lemma `ResolveSameFlag` replaces the loading flag by an equivalent one, and
`RenderedNow` and `KeepRendered` cover the two kinds of step.

`SingleUncancelInFlight` is not inductive by itself, because a click is
guarded only by `action.loading`. The strengthening `IInv` adds three conjuncts:

- `OnlyLatestInFlight`: only slot `nreq` can be in flight;
- `UnusedAfterLatest`: slots above `nreq` are idle;
- `LoadingIsPending`: a rendered Uncancel's `loading` equals `isPending` of the latest call.

The argument runs as follows. A click is enabled only when `loading` is false,
so by `LoadingIsPending` the latest call is not in flight. By
`OnlyLatestInFlight`, nothing is in flight, and so the new slot is the only
one in flight. Every action that re-renders passes the current `Pending`
as the loading flag. The settle actions re-render only when they settle the
latest call, and otherwise leave `Pending` unchanged. TLC checked `IInv`
first, with `MaxClicks = 3` and both values of `AllowCustomerUpdates`.

The proof has one step per action and one lemma each for `Init` and the
re-render rule (`RerenderLoading`, `PendingUnchanged`).

The uncancel refinement uses `IInv` before and after each step:

- A click is `Request`: `LoadingIsPending` turns the enabled button into
  `~Pending`, so the slot was free.
- `ServerUncancel(i)` is `Serve`: by `OnlyLatestInFlight`, i is the latest
  click, so the slot was `"sent"` and becomes `"answered"`
  (lemma `SlotOfLatest`).
- `UncancelSucceeded` and `UncancelFailed` are `Settle`: after them no click
  is in flight (lemma `SlotFreed`).
- `RevalidateDone` touches a click that is not in flight, so the slot is
  unchanged.
- `CancelConfirmed` is `Cancel`, and `PeriodEnds` is `PeriodEnds`. The
  abstract spec drops the clock, so the guard `now >= periodEnd` is a
  strengthening.

`CurrentPeriodOverviewProofs` proves the following for every bound on the
meters, every set of amounts and currencies, and both organization cases:

- `InitialTotalIsFixedPrice`: for every snapshot, `InitialTotal` (the
  `find` of the fixed price, then `|| 0`) is an amount, and it equals the
  spec's fixed price, except for a custom price, which the code counts as 0;
- `EstimateMatchesSpecUpToReduce`: with no custom prices and a loaded
  organization, `Spec => [](EstimateMatchesSpec <=> ReduceIsSum)`, where
  `ReduceIsSum` says the code's `reduce` over the meters equals the
  initial total plus the spec's `SumAccrued`.

The second theorem shows that everything the panel renders, apart from the
sum itself, is what spec §4.2 says: the status guard, the provisional flag
(`ProvisionalIffMetered`: provisional iff there is a metered price) and the
base price. It rests on `SnapshotShape`, which takes a snapshot apart into
its plan (one static price or none) and its metered prices;
`BasePriceOfPlan`, which computes `prices.find` on that shape; and
`RenderedFromSubInvariant`, which says the view is always rendered from the
current snapshot. `Snapshots` is written with record sets and single-binder
unions so that the provers can take a snapshot apart.

`PortalOrderProofs` proves the following for every set of orders and every
number of clicks:

- `SingleInvoiceRequestInFlightHolds`: `Spec => []SingleInvoiceRequestInFlight`;
- `PortalIInvHolds`: `Spec => []IInv`;
- `ImplementsTrackerSafety`: `Spec => TrackerSafety`. This is the safety part
  of the refinement: the tracker's initial condition and
  `[][Tracker!TrackerNext]_(Tracker!tvars)` under the mapping above.

Here `IInv` is `TypeOK /\ OnlyLatestInFlight`. `isPending` looks at the latest
click only, so the Download guard rules out a second request only if no
earlier click can still be in flight.

The refinement proof is one lemma for `Init` and one for a step, which
assumes `IInv` before and after the step:

- a click is `Request`: the slot was empty, and it holds the shown order;
- `ServerInvoice` and `GrantsFetched` leave the mapped state unchanged;
- `InvoiceOpened` is `Deliver`. Its order is the slot's, because the settled
  click is the latest;
- `InvoiceFailed` is `Fail`;
- `ShowOrder` is `SwitchOrder`.

The fairness part of `ImplementsTracker` stays with TLC.

**What stays with TLC only:**

- Liveness: `EveryDownloadSettles`,
  `EveryLinkClickSettles`, and the fairness conjuncts of `ImplementsTracker`
  and `ImplementsUncancelTracker`.
  TLAPS does not handle fairness or ENABLED.
- The reduce of the estimator: `ReduceIsSum`, and through it
  `EstimateMatchesSpec` and the estimator's `TypeOK` (the total is a
  number). `TotalAmount` is a `FoldLeft` and `SumAccrued` a recursive
  function; equating them for every meter list needs induction over the
  list, and the library's induction theorems take an operator parameter,
  which the installed provers cannot instantiate. TLC checks them on up to
  two meters.

## Not modelled

**Parts of the modelled files:**

- The date and amount labels of the card (lines 80-158). They are formatting
  derived from the same snapshot as the memo, so no property can tell them
  apart from it.
- The accounts table's header and cells (lines 22-52, 116-127) are layout
  only.

**Whole files:**

- `MeterForm` and the layout have no state machine. `MeterForm` wires
  form fields, which the spec (§1) puts out of scope. Its one conditional
  shows the property field unless the aggregation is `count`.
- `ClientPage`. Its only state is a `loading` flag set before a native
  form POST, and what follows is browser navigation. The spec (§1) puts the
  magic-link flow out of scope. A model would only restate the
  button's `disabled={loading}`. The page never resets `loading`, which
  matters if the browser restores the page from its back-forward cache;
  this is listed as a hazard, with no statement saying what should happen.

**The backend and the modals' internals.** These are not under `src/` and
are modelled from the spec, marked `spec_modelled` in the map:

- `ServerUncancel`, `PeriodEnds`, `PlanChanged`, `CancelConfirmed`;
- the parent's `isCanceled`;
- the estimator's `Refetch`.

**Assumptions about code outside `src/`.** Two behaviours the card's
properties rest on cannot be checked against this repository:

- `RevalidateDone` sets the snapshot to the server's subscription. This
  assumes that `revalidate('customer_portal')` re-renders the parent route
  with a fresh subscription.
- `UncancelFailed` from `"err"` assumes that the mutation hook rejects
  `mutateAsync` when the server refuses the request.

**Hazards with no property.** The following are listed in `PROJECT.json`
with the reason no property checks them:

- After a rejected uncancel, the card keeps its snapshot
  (`CustomerSubscriptionDetails.tsx:66`). Spec §7 asks only that no client
  state be applied and that the control re-enable, which the handler does by
  construction.
- The order of the uncancel, the period end and revalidate (line 67) is
  settled by what the refresh returns, which is the assumption above.
- Which of several racing account links wins (`AccountsList.tsx:129`), and
  a redirect that lands after actions were paused (line 100). Spec §1 treats
  account-link redirection as an out-of-scope pass-through, so nothing states
  what should happen. `EveryLinkClickSettles` shows only that no issued link
  is lost.

## Plan for the remaining work

1. **Grants empty state.** Relating `ShowsNoGrants` to the query state needs
   a statement of what shows while loading; none exists yet.
2. **A fixed variant of the card.** Prove the action property
   `UncancelIssuedBeforePeriodEnd` in a variant whose memo is recomputed
   when time passes (keyed on the clock), the fix the violation suggests.
3. **The reduce.** If a prover that can instantiate induction becomes
   available, prove `ReduceIsSum` by induction on the meter list; together
   with `EstimateMatchesSpecUpToReduce` it gives `EstimateMatchesSpec`.
