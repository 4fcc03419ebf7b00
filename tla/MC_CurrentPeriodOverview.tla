---------------------- MODULE MC_CurrentPeriodOverview ----------------------
(* Model-checking instance of CurrentPeriodOverview: amounts up to 2 minor *)
(* units and up to two metered prices, so that a zero price, a zero line,  *)
(* a usage-only plan and a sum of several lines all occur.                 *)
EXTENDS CurrentPeriodOverview

MC_MaxAmount == 2
MC_MaxMeters == 2
\* Products whose static price is a fixed or a free price.
MC_StaticKinds == {"fixed", "free"}
\* Products of every kind, pay-what-you-want included.
MC_AllStaticKinds == {"fixed", "free", "custom"}
\* One currency, or a subscription whose meter lines may differ from it.
MC_OneCurrency == {"usd"}
MC_TwoCurrencies == {"usd", "eur"}
\* The organization is always loaded, or may be missing.
MC_OrgLoaded == {TRUE}
MC_OrgMaybeMissing == {TRUE, FALSE}
=============================================================================
