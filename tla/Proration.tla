------------------------------ MODULE Proration ------------------------------
(***************************************************************************)
(* The arithmetic of changeTier (passes.service.ts): how many days the new *)
(* pass gets for what is left of the old one.  Days and prices are         *)
(* naturals.                                                               *)
(***************************************************************************)
EXTENDS Naturals

(* Mutant: the time that has passed is not deducted.                       *)
WholeDuration(total, elapsed) == total

(* Math.max(0, totalDurationMs - elapsedMs)                                *)
RemainingDays(total, elapsed) ==
  IF elapsed < total THEN total - elapsed ELSE 0

(* Mutant: no minimum.                                                     *)
FlooredOnly(n) == n

AtLeastOne(n) == IF n < 1 THEN 1 ELSE n

(* remainingRatio is 0/0 for a tier of no days; the NaN reaches the new    *)
(* expiry, unless the new tier is free, and the insert fails.              *)
Computable(oldDuration, newPrice) == newPrice > 0 => oldDuration > 0

(* finalDurationDays: the remaining value buys days at the new price.      *)
ConvertedDays(oldPrice, oldDuration, elapsed, newPrice, newDuration) ==
  AtLeastOne(
    IF newPrice > 0
    THEN (oldPrice * RemainingDays(oldDuration, elapsed) * newDuration)
           \div (oldDuration * newPrice)
    ELSE newDuration)
=============================================================================
