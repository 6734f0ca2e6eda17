---------------------------- MODULE PassRenewal ----------------------------
(***************************************************************************)
(* processExpiredPassesForAutoRenew of passes.service.ts, started by an    *)
(* hourly cron that does not wait for the run before it, and mintPass,     *)
(* which only it calls.  A renewer is one run in progress: a list of the   *)
(* passes found due, then for each a transaction that updates the pass,    *)
(* charges on chain (StellarService.renewPass, up to thirty seconds) and   *)
(* mints the successor; any error rolls the transaction back, and two      *)
(* more statements record the failure and switch auto-renewal off.         *)
(***************************************************************************)
EXTENDS PassTable

CONSTANTS
  Renewers,
  MaxAttempts  \* bound: a run starts while each due pass has fewer

ASSUME RenewalAssumption == MaxAttempts \in Nat /\ IsFiniteSet(Renewers)

VARIABLES
  run,       \* run[r]: where run r stands
  attempts,  \* attempts[p]: how many RenewalAttempt rows of each final status
  charges,   \* charges[p]: renew_pass transactions for p that succeeded
  unknown,   \* unknown[p]: those submitted whose outcome the API did not see
  orphaned   \* history: orphaned[p], outcomes for p that no row will record

renewalVars == <<run, attempts, charges, unknown, orphaned>>

Ids == 1..MaxPasses

Phases == {"idle", "loop", "begun", "charged", "minted", "failed", "recorded"}

(* todo: the rest of the list; cur: the pass at hand; open: its database   *)
(* transaction is open, and holds the row lock; built: the row created in  *)
(* the transaction; listed (history): how many rows there were when the    *)
(* list was read.                                                          *)
Run == [pc : Phases, todo : SUBSET Ids, cur : 0..MaxPasses, open : BOOLEAN,
        built : Seq(Pass), listed : Nat]

NoRun == [pc |-> "idle", todo |-> {}, cur |-> 0, open |-> FALSE,
          built |-> <<>>, listed |-> 0]

RenewalTypeOK ==
  /\ run \in [Renewers -> Run]
  /\ attempts \in [Ids -> [success : Nat, failed : Nat]]
  /\ charges \in [Ids -> Nat]
  /\ unknown \in [Ids -> Nat]
  /\ orphaned \in [Ids -> Nat]

RenewalInit ==
  /\ run = [r \in Renewers |-> NoRun]
  /\ attempts = [p \in Ids |-> [success |-> 0, failed |-> 0]]
  /\ charges = [p \in Ids |-> 0]
  /\ unknown = [p \in Ids |-> 0]
  /\ orphaned = [p \in Ids |-> 0]

-----------------------------------------------------------------------------
Goto(r, pc) == run' = [run EXCEPT ![r].pc = pc]

(* The loop goes on with the other passes of its list.                     *)
NextPass(r) ==
  run' = [run EXCEPT ![r] =
            [NoRun EXCEPT !.pc = "loop", !.todo = run[r].todo \ {run[r].cur},
                          !.listed = run[r].listed]]

(* The lock goes with the transaction that holds it.                       *)
Unlock(r) == locked' = IF run[r].open THEN locked \ {run[r].cur} ELSE locked

(* Mutant: the failure is not recorded.                                    *)
RollBackSilently(r) ==
  /\ run' = [run EXCEPT ![r].pc = "recorded", ![r].open = FALSE,
                        ![r].built = <<>>]
  /\ Unlock(r)
  /\ UNCHANGED <<now, passes, earnings, blocks, offered, deletionAt>>

(* Mutant: the transaction stays open.                                     *)
RollBackForgotten(r) ==
  /\ run' = [run EXCEPT ![r].pc = "failed", ![r].open = FALSE,
                        ![r].built = <<>>]
  /\ UNCHANGED tableVars

(* The transaction ends with nothing written.                              *)
RollBack(r) ==
  /\ run' = [run EXCEPT ![r].pc = "failed", ![r].open = FALSE,
                        ![r].built = <<>>]
  /\ Unlock(r)
  /\ UNCHANGED <<now, passes, earnings, blocks, offered, deletionAt>>

DueForRenewal == {p \in PassIds : /\ passes[p].active
                                  /\ passes[p].expiresAt <= now
                                  /\ passes[p].autoRenew
                                  /\ passes[p].supersededBy = 0}

Begun(p) == attempts[p].success + attempts[p].failed + orphaned[p]

RenewalScan(r) ==
  /\ run[r].pc = "idle"
  /\ DueForRenewal # {}
  /\ \A p \in DueForRenewal : Begun(p) < MaxAttempts
  /\ run' = [run EXCEPT ![r] = [NoRun EXCEPT !.pc = "loop",
                                             !.todo = DueForRenewal,
                                             !.listed = Len(passes)]]
  /\ UNCHANGED <<tableVars, attempts, charges, unknown, orphaned>>

(* The transaction opens and its first update takes the row lock; the pass *)
(* is whatever it has become since the list was read.                      *)
RenewalBegin(r, p) ==
  /\ run[r].pc = "loop" /\ p \in run[r].todo
  /\ p \notin locked
  /\ run' = [run EXCEPT ![r].pc = "begun", ![r].cur = p,
                        ![r].open = TRUE]
  /\ locked' = locked \cup {p}
  /\ UNCHANGED <<now, passes, earnings, blocks, offered, deletionAt,
                 attempts, charges, unknown, orphaned>>

(* The wait for the lock outlasts the transaction's time limit.            *)
RenewalWaitExpires(r, p) ==
  /\ run[r].pc = "loop" /\ p \in run[r].todo
  /\ p \in locked
  /\ run' = [run EXCEPT ![r].pc = "failed", ![r].cur = p]
  /\ UNCHANGED <<tableVars, attempts, charges, unknown, orphaned>>

-----------------------------------------------------------------------------
(* StellarService.renewPass, inside the open transaction.                  *)

ChargeSucceeds(r) ==
  /\ run[r].pc = "begun"
  /\ charges' = [charges EXCEPT ![run[r].cur] = @ + 1]
  /\ Goto(r, "charged")
  /\ UNCHANGED <<tableVars, attempts, unknown, orphaned>>

(* Simulation, submission or the transaction itself fails: no charge.      *)
ChargeFails(r) ==
  /\ run[r].pc = "begun"
  /\ RollBack(r)
  /\ UNCHANGED <<attempts, charges, unknown, orphaned>>

(* poll throws, on a failed request or at its deadline, with the           *)
(* transaction submitted.                                                  *)
ChargeUnseen(r) ==
  /\ run[r].pc = "begun"
  /\ unknown' = [unknown EXCEPT ![run[r].cur] = @ + 1]
  /\ RollBack(r)
  /\ UNCHANGED <<attempts, charges, orphaned>>

(* The ledger settles such a transaction either way.                       *)
UnseenSettles(p, success) ==
  /\ unknown[p] > 0
  /\ unknown' = [unknown EXCEPT ![p] = @ - 1]
  /\ charges' = [charges EXCEPT ![p] = IF success THEN @ + 1 ELSE @]
  /\ UNCHANGED <<tableVars, run, attempts, orphaned>>

-----------------------------------------------------------------------------
(* mintPass(tier.onChainId, fan.stellarAddress, { tx, txHash })            *)

(* tier.findFirst({ onChainId, active: true }), whatever the creator.      *)
MintTiers(p) == {t \in offered : OnChainId[t] = OnChainId[passes[p].tier]}

Sellable(t, f) == ~ Blocked(t, f) /\ ~ TrialSpent(f, t)

RenewalMint(r, t) ==
  LET p == run[r].cur
      f == passes[p].fan
  IN  /\ run[r].pc = "charged" /\ run[r].open
      /\ t \in MintTiers(p) /\ Sellable(t, f)
      /\ run' = [run EXCEPT ![r].pc = "minted",
                            ![r].built = <<[SoldPass(t, f, now, "renewal", p)
                                             EXCEPT !.found = run[r].listed]>>]
      /\ UNCHANGED <<tableVars, attempts, charges, unknown, orphaned>>

RenewalMintRefused(r) ==
  LET p == run[r].cur
  IN  /\ run[r].pc = "charged" /\ run[r].open
      /\ \/ MintTiers(p) = {}
         \/ \E t \in MintTiers(p) : ~ Sellable(t, passes[p].fan)
      /\ RollBack(r)
      /\ UNCHANGED <<attempts, charges, unknown, orphaned>>

(* Prisma ends an interactive transaction at its time limit, wherever the  *)
(* callback stands: the lock is gone while the charge is still awaited.    *)
RenewalTxExpires(r) ==
  /\ run[r].open
  /\ run' = [run EXCEPT ![r].open = FALSE, ![r].built = <<>>]
  /\ Unlock(r)
  /\ UNCHANGED <<now, passes, earnings, blocks, offered, deletionAt,
                 attempts, charges, unknown, orphaned>>

(* The callback's next statement then fails.                               *)
RenewalFindsTxClosed(r) ==
  /\ run[r].pc \in {"charged", "minted"} /\ ~ run[r].open
  /\ RollBack(r)
  /\ UNCHANGED <<attempts, charges, unknown, orphaned>>

RenewalCommit(r) ==
  /\ run[r].pc = "minted" /\ run[r].open
  /\ RoomToReplace
  /\ LET p == run[r].cur
         row == run[r].built[1]
         new == Len(passes) + 1
     IN  /\ passes' = Replace(p, row)
         /\ earnings' = IF row.trialUsed THEN earnings
                        ELSE earnings \cup {[pass |-> new, payer |-> row.fan]}
         /\ attempts' = [attempts EXCEPT ![p].success = @ + 1]
         /\ locked' = locked \ {p}
  /\ NextPass(r)
  /\ UNCHANGED <<now, blocks, offered, deletionAt,
                 charges, unknown, orphaned>>

-----------------------------------------------------------------------------
(* The catch block.                                                        *)

(* Mutant: the row says SUCCESS.                                           *)
RenewalRecordSuccess(r) ==
  /\ run[r].pc = "failed"
  /\ attempts' = [attempts EXCEPT ![run[r].cur].success = @ + 1]
  /\ Goto(r, "recorded")
  /\ UNCHANGED <<tableVars, charges, unknown, orphaned>>

RenewalRecordFailure(r) ==
  /\ run[r].pc = "failed"
  /\ attempts' = [attempts EXCEPT ![run[r].cur].failed = @ + 1]
  /\ Goto(r, "recorded")
  /\ UNCHANGED <<tableVars, charges, unknown, orphaned>>

(* Mutant: the pass the transaction had closed is opened again.            *)
RenewalDisableAndReopen(r) ==
  /\ run[r].pc = "recorded"
  /\ run[r].cur \notin locked
  /\ passes' = [passes EXCEPT ![run[r].cur].autoRenew = FALSE,
                              ![run[r].cur].active = TRUE]
  /\ NextPass(r)
  /\ UNCHANGED <<now, earnings, blocks, offered, deletionAt, locked,
                 attempts, charges, unknown, orphaned>>

RenewalDisable(r) ==
  /\ run[r].pc = "recorded"
  /\ run[r].cur \notin locked
  /\ passes' = [passes EXCEPT ![run[r].cur].autoRenew = FALSE]
  /\ NextPass(r)
  /\ UNCHANGED <<now, earnings, blocks, offered, deletionAt, locked,
                 attempts, charges, unknown, orphaned>>

RenewalDone(r) ==
  /\ run[r].pc = "loop" /\ run[r].todo = {}
  /\ run' = [run EXCEPT ![r] = NoRun]
  /\ UNCHANGED <<tableVars, attempts, charges, unknown, orphaned>>

(* The process restarts, or a statement of the catch block throws: the run *)
(* is gone, its open transaction rolled back, and what it knew of the      *)
(* charge with it.                                                         *)
RunLost(r, submitted) ==
  /\ run[r].pc # "idle"
  /\ submitted => run[r].pc = "begun"
  /\ LET p == run[r].cur
         knew == run[r].pc \in {"charged", "minted", "failed"}
     IN  /\ orphaned' = IF knew \/ submitted
                        THEN [orphaned EXCEPT ![p] = @ + 1] ELSE orphaned
         /\ unknown' = IF submitted
                       THEN [unknown EXCEPT ![p] = @ + 1] ELSE unknown
  /\ Unlock(r)
  /\ run' = [run EXCEPT ![r] = NoRun]
  /\ UNCHANGED <<now, passes, earnings, blocks, offered, deletionAt,
                 attempts, charges>>

RenewalStep(r) ==
  \/ RenewalScan(r)
  \/ \E p \in PassIds : RenewalBegin(r, p) \/ RenewalWaitExpires(r, p)
  \/ ChargeSucceeds(r) \/ ChargeFails(r) \/ ChargeUnseen(r)
  \/ \E t \in Tiers : RenewalMint(r, t)
  \/ RenewalMintRefused(r) \/ RenewalFindsTxClosed(r) \/ RenewalCommit(r)
  \/ RenewalRecordFailure(r) \/ RenewalDisable(r) \/ RenewalDone(r)

RenewalNext ==
  \/ \E r \in Renewers : RenewalStep(r) \/ RenewalTxExpires(r)
  \/ \E r \in Renewers, b \in BOOLEAN : RunLost(r, b)
  \/ \E p \in PassIds, b \in BOOLEAN : UnseenSettles(p, b)
=============================================================================
