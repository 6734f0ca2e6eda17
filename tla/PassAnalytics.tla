---------------------------- MODULE PassAnalytics ----------------------------
(***************************************************************************)
(* The figures that creators are shown, computed from the Pass rows: the   *)
(* revenue, the growth, churn and retention of subscribers, and the        *)
(* purchases of one tier.                                                  *)
(*                                                                         *)
(* A day of the model begins at midnight, where normalizeDateToDay puts    *)
(* the current time and where the edges of the intervals are.              *)
(***************************************************************************)
EXTENDS Integers, Functions, PassLifecycle

CONSTANTS
  Periods,    \* the accepted periods, in days
  DailyUpTo,  \* 90: longer periods are shown by the week
  Week        \* 7

ASSUME AnalyticsAssumption ==
  Periods \subseteq Nat \ {0} /\ DailyUpTo \in Nat /\ Week \in Nat \ {0}

PassesOf(k) == {p \in PassIds : CreatorOf[passes[p].tier] = k}
Start(days) == now - days + 1

-----------------------------------------------------------------------------
(* Every pass counts with the price its tier has now.                      *)
Worth == [p \in PassIds |-> Price[passes[p].tier]]

Revenue(ids) == SumFunctionOnSet(Worth, ids)

Selected(k, days) ==
  {p \in PassesOf(k) : passes[p].purchasedAt >= Start(days) \/ passes[p].expiresAt >= Start(days)}

BucketLength(days) == IF days <= DailyUpTo THEN 1 ELSE Week
BucketCount(days) == (days + BucketLength(days) - 1) \div BucketLength(days)

SubscriberGrowth(k, days) ==
  [i \in 1..BucketCount(days) |->
     LET from == Start(days) + (i - 1) * BucketLength(days)
         to == from + BucketLength(days)
     IN  Cardinality({p \in Selected(k, days) : passes[p].purchasedAt <= to /\ passes[p].expiresAt > from})]

ActiveOn(k, days, day) ==
  {p \in Selected(k, days) : passes[p].purchasedAt <= day /\ passes[p].expiresAt > day}

Churned(k, days) == {p \in ActiveOn(k, days, Start(days)) : passes[p].expiresAt <= now}

-----------------------------------------------------------------------------
(* The figures of one tier.                                                *)
TierPurchases(t, days) ==
  {p \in PassIds : passes[p].tier = t /\ passes[p].purchasedAt \in Start(days)..now}

ActivePasses(t) == {p \in PassIds : passes[p].tier = t /\ passes[p].active /\ passes[p].expiresAt > now}

(* Mutant: a day ends with the first moment of the next one.               *)
PurchasesByDayInclusive(t, days) ==
  [i \in 1..days |->
     Cardinality({p \in TierPurchases(t, days) :
                    /\ passes[p].purchasedAt >= Start(days) + i - 1
                    /\ passes[p].purchasedAt <= Start(days) + i})]

PurchasesByDay(t, days) ==
  [i \in 1..days |->
     Cardinality({p \in TierPurchases(t, days) :
                    /\ passes[p].purchasedAt >= Start(days) + i - 1
                    /\ passes[p].purchasedAt < Start(days) + i})]

-----------------------------------------------------------------------------
(* The days of a tier's chart add up to the purchases shown beside it:     *)
(* every purchase falls into exactly one day (TiersService.getAnalytics).  *)
DaysAddUp ==
  \A t \in Tiers, days \in Periods :
     SumFunction(PurchasesByDay(t, days)) = Cardinality(TierPurchases(t, days))

(* The last column of a creator's growth chart counts at least the passes  *)
(* that the analytics of her tiers call active, in every period: the       *)
(* selection made before the columns are computed loses none of them.      *)
GrowthShowsActive ==
  \A k \in Creators, days \in Periods :
     SubscriberGrowth(k, days)[BucketCount(days)]
       >= Cardinality(UNION {ActivePasses(t) : t \in {t \in Tiers : CreatorOf[t] = k}})

(* Churn and retention speak of the same subscribers: whoever was there at *)
(* the start has left or is still there, and the others are newcomers, so  *)
(* that the two rates make up at least the whole.                          *)
ChurnMeetsRetention ==
  \A k \in Creators, days \in Periods :
     LET before == ActiveOn(k, days, Start(days))
         after == ActiveOn(k, days, now)
     IN  /\ Cardinality(Churned(k, days)) + Cardinality(before \cap after) = Cardinality(before)
         /\ \A p \in after \ before : passes[p].purchasedAt > Start(days)

(* The amounts of the earnings records, each a copy of the tier's price.   *)
Amount == [e \in earnings |-> Price[passes[e.pass].tier]]

(* The revenue shown to a creator exceeds what was recorded as earned by   *)
(* exactly the prices of trials and of passes that tier changes made:      *)
(* getRevenue and getEarnings add up passes, not earnings records.         *)
RevenueExplained ==
  \A k \in Creators :
     Revenue(PassesOf(k))
       = SumFunctionOnSet(Amount, {e \in earnings : e.pass \in PassesOf(k)})
         + Revenue({p \in PassesOf(k) : passes[p].trialUsed \/ passes[p].via = "change"})

(* The figures a creator is shown agree with each other and with the books.*)
FiguresAgree == DaysAddUp /\ GrowthShowsActive /\ ChurnMeetsRetention /\ RevenueExplained
=============================================================================
