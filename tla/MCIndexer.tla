----------------------------- MODULE MCIndexer -----------------------------
(***************************************************************************)
(* Small instances of Indexer: what the contract has emitted.              *)
(***************************************************************************)
EXTENDS Indexer

CONSTANTS k1, k2, f1, f2

Registers(l, k) == [kind |-> "creator", ledger |-> l, creator |-> k]
Opens(l, id, k) == [kind |-> "tier", ledger |-> l, tier |-> id, creator |-> k]
Closes(l, id, k) == [kind |-> "closed", ledger |-> l, tier |-> id, creator |-> k]
Mints(l, p, id, f) ==
  [kind |-> "pass", ledger |-> l, pass |-> p, tier |-> id, fan |-> f]

(* One tier from its creation to its end, sold twice in one ledger.        *)
TierLife == <<Registers(1, k1), Opens(1, 1, k1), Mints(2, 1, 1, f1),
              Mints(2, 2, 1, f2), Closes(3, 1, k1)>>

(* Two creators, of whom the second may be unknown to the API; a fan buys  *)
(* twice on one tier, and another on the tier of the second.               *)
TwoOwners == <<Opens(1, 1, k1), Opens(1, 2, k2), Mints(1, 1, 1, f1),
               Mints(2, 2, 1, f1), Mints(2, 3, 2, f2)>>

FirstTrial == {<<k1, 1>>}
FirstBlock == {<<k1, f1>>}
=============================================================================
