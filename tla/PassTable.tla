------------------------------ MODULE PassTable ------------------------------
(***************************************************************************)
(* The rows that the pass handlers share: Pass, EarningsRecord, Block, the *)
(* active flag of Tier and the deletion timestamp of Fan                   *)
(* (prisma/schema.prisma), with the rules that every sale applies to them. *)
(*                                                                         *)
(* Time is counted in days and starts at 1, so that 0 stands for a null    *)
(* timestamp.  Passes are numbered in the order in which they are created  *)
(* and are never deleted; 0 stands for a null pass reference.              *)
(***************************************************************************)
EXTENDS Naturals, Sequences, FiniteSets

CONSTANTS
  Fans,       \* Stellar addresses of fans
  Tiers,      \* Tier.id
  Creators,   \* Creator.id
  CreatorOf,  \* Tier.creatorId
  OnChainId,  \* Tier.onChainId, unique per creator only
  Price,      \* Tier.priceUsdc, in whole units
  Duration,   \* Tier.durationDays
  TrialDays,  \* Tier.trialDays, 0 for a tier without a trial
  Blockable,  \* the <<creator, fan>> pairs a creator may block and unblock
  Synced,     \* the tiers whose active flag the indexer may write
  Togglers,   \* the fans that use the auto-renew switch
  MaxSales,   \* bound: a sale begins and ends with at most so many passes
  MaxPasses,  \* bound: a renewal or tier change leaves at most so many
  MaxNow      \* bound: the last day

ASSUME TableAssumption ==
  /\ CreatorOf \in [Tiers -> Creators]
  /\ OnChainId \in [Tiers -> Nat]
  /\ Price \in [Tiers -> Nat]
  /\ Duration \in [Tiers -> Nat]
  /\ TrialDays \in [Tiers -> Nat]
  /\ Blockable \subseteq Creators \X Fans
  /\ Synced \subseteq Tiers
  /\ Togglers \subseteq Fans
  /\ MaxSales \in 0..MaxPasses
  /\ MaxPasses \in Nat
  /\ MaxNow \in Nat

VARIABLES
  now,         \* new Date()
  passes,      \* the Pass rows, in order of creation
  earnings,    \* the EarningsRecord rows
  blocks,      \* the Block rows: <<creator, fan>>
  offered,     \* the tiers with active = true
  deletionAt,  \* Fan.deletionRequestedAt, 0 when null
  locked       \* passes whose row an open transaction has updated

tableVars == <<now, passes, earnings, blocks, offered, deletionAt, locked>>

-----------------------------------------------------------------------------
(* via, from, found and seen are history: the handler that created the     *)
(* row, the pass it replaces (0 for a sale that replaces none), and how    *)
(* many rows there were when that pass was found open, and when the        *)
(* fan's prior passes on the tier were read.                               *)
Origins == {"gift", "bundle", "renewal", "change"}

Pass == [tier : Tiers, fan : Fans, purchasedAt : Nat, expiresAt : Nat,
         active : BOOLEAN, trialUsed : BOOLEAN, autoRenew : BOOLEAN,
         supersededBy : Nat, via : Origins, from : Nat, found : Nat,
         seen : Nat]

(* The code's row holds the amount, a copy of the tier's price; pass is    *)
(* history, for the record does not name the pass it was created with.     *)
Earning == [pass : Nat, payer : Fans]

TableTypeOK ==
  /\ now \in Nat
  /\ passes \in Seq(Pass)
  /\ earnings \in SUBSET Earning
  /\ blocks \in SUBSET (Creators \X Fans)
  /\ offered \in SUBSET Tiers
  /\ deletionAt \in [Fans -> Nat]
  /\ locked \in SUBSET Nat

TableInit ==
  /\ now = 1
  /\ passes = <<>>
  /\ earnings = {}
  /\ blocks = {}
  /\ offered = Tiers
  /\ deletionAt = [f \in Fans |-> 0]
  /\ locked = {}

-----------------------------------------------------------------------------
(* The rules of a sale.                                                    *)

PassIds == DOMAIN passes

Blocked(t, f) == <<CreatorOf[t], f>> \in blocks

(* tx.pass.findMany({ where: { fanId, tierId } })                          *)
PriorPasses(f, t) == {p \in PassIds : passes[p].fan = f /\ passes[p].tier = t}

(* Mutant: only passes that are still active are looked at.                *)
TrialSpentWhileActive(f, t) ==
  \E p \in PriorPasses(f, t) : passes[p].trialUsed /\ passes[p].active

(* A trial on the tier closes it: no later sale, paid or not, is allowed.  *)
TrialSpent(f, t) == \E p \in PriorPasses(f, t) : passes[p].trialUsed

FirstSaleIsTrial(f, t) == PriorPasses(f, t) = {} /\ TrialDays[t] > 0

(* The row a sale creates, with the schema's defaults for the rest.        *)
NewPass(t, f, at, days, trial, via, from) ==
  [tier |-> t, fan |-> f, purchasedAt |-> at, expiresAt |-> at + days,
   active |-> TRUE, trialUsed |-> trial, autoRenew |-> FALSE,
   supersededBy |-> 0, via |-> via, from |-> from, found |-> 0, seen |-> 0]

(* A self-purchase: the first one on a tier with a trial is the trial.     *)
SoldPass(t, f, at, via, from) ==
  LET trial == FirstSaleIsTrial(f, t)
  IN  [NewPass(t, f, at, IF trial THEN TrialDays[t] ELSE Duration[t],
               trial, via, from) EXCEPT !.seen = Len(passes)]

(* Mutant: the reference to the successor is left at its temporary value.  *)
ReplaceLeavingTemporary(p, row) ==
  Append([passes EXCEPT ![p].active = FALSE, ![p].supersededBy = p], row)

(* A pass is closed and points to the row that replaces it.                *)
Replace(p, row) ==
  Append([passes EXCEPT ![p].active = FALSE,
                        ![p].supersededBy = Len(passes) + 1], row)

RoomToSell(n) == Len(passes) + n <= MaxSales

RoomToReplace == Len(passes) < MaxPasses

-----------------------------------------------------------------------------
(* Steps of the environment and of one-statement handlers.                 *)

Tick ==
  /\ now < MaxNow
  /\ now' = now + 1
  /\ UNCHANGED <<passes, earnings, blocks, offered, deletionAt, locked>>

BlockFan(k, f) ==
  /\ blocks' = blocks \cup {<<k, f>>}
  /\ UNCHANGED <<now, passes, earnings, offered, deletionAt, locked>>

UnblockFan(k, f) ==
  /\ <<k, f>> \in blocks
  /\ blocks' = blocks \ {<<k, f>>}
  /\ UNCHANGED <<now, passes, earnings, offered, deletionAt, locked>>

(* The indexer writes Tier.active (handleTierDeactivated, and              *)
(* upsertFromChain when a tier_created event is processed again).          *)
DeactivateTier(t) ==
  /\ t \in offered
  /\ offered' = offered \ {t}
  /\ UNCHANGED <<now, passes, earnings, blocks, deletionAt, locked>>

ReactivateTier(t) ==
  /\ t \notin offered
  /\ offered' = offered \cup {t}
  /\ UNCHANGED <<now, passes, earnings, blocks, deletionAt, locked>>

(* Mutant: passes with auto-renewal on are left to the renewal run.        *)
ExpiredUnlessRenewed ==
  {p \in PassIds : /\ passes[p].active /\ passes[p].expiresAt < now
                   /\ ~ passes[p].autoRenew}

Expired == {p \in PassIds : passes[p].active /\ passes[p].expiresAt < now}

(* pass.updateMany: waits for the rows another transaction has updated.    *)
DeactivateExpiredPasses ==
  /\ Expired # {} /\ Expired \cap locked = {}
  /\ passes' = [p \in PassIds |->
                  [passes[p] EXCEPT !.active = @ /\ p \notin Expired]]
  /\ UNCHANGED <<now, earnings, blocks, offered, deletionAt, locked>>

ToggleAutoRenew(p, enable) ==
  /\ p \in PassIds /\ p \notin locked
  /\ passes[p].fan \in Togglers
  /\ passes[p].autoRenew # enable
  /\ passes' = [passes EXCEPT ![p].autoRenew = enable]
  /\ UNCHANGED <<now, earnings, blocks, offered, deletionAt, locked>>

TableNext ==
  \/ Tick
  \/ \E b \in Blockable : BlockFan(b[1], b[2]) \/ UnblockFan(b[1], b[2])
  \/ \E t \in Synced : DeactivateTier(t) \/ ReactivateTier(t)
  \/ DeactivateExpiredPasses
  \/ \E p \in PassIds, b \in BOOLEAN : ToggleAutoRenew(p, b)
=============================================================================
