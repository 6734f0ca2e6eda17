-------------------------- MODULE MCPassLifecycle --------------------------
(***************************************************************************)
(* Small instances of PassLifecycle, with the figures of PassAnalytics.    *)
(***************************************************************************)
EXTENDS PassAnalytics, TLC

CONSTANTS k1, k2, t1, t2, t3, f1, f2

(* One creator with a dear tier and a cheap one that is short and has a    *)
(* trial.                                                                  *)
OneCreatorOf == t1 :> k1 @@ t2 :> k1
TwoIds == t1 :> 1 @@ t2 :> 2
TwoPrices == t1 :> 2 @@ t2 :> 1
LongAndShort == t1 :> 2 @@ t2 :> 1
TrialOnSecond == t1 :> 0 @@ t2 :> 1

(* A second creator besides, who has given the chain id 1 to a tier too.   *)
TwoCreatorsOf == t1 :> k1 @@ t2 :> k1 @@ t3 :> k2
SharedIds == t1 :> 1 @@ t2 :> 2 @@ t3 :> 1
ThreePrices == t1 :> 2 @@ t2 :> 1 @@ t3 :> 1
ThreeDurations == t1 :> 2 @@ t2 :> 2 @@ t3 :> 2
ThreeTrials == t1 :> 0 @@ t2 :> 1 @@ t3 :> 0

(* What a creator may block.                                               *)
FirstBlock == {<<k1, f1>>}

(* A single plain tier.                                                    *)
SoleCreatorOf == t1 :> k1
SoleOne == t1 :> 1
SoleZero == t1 :> 0
SoleTwo == t1 :> 2

(* Purchasers are interchangeable.                                         *)
PurchaserSymmetry == Permutations(Purchasers)
=============================================================================
