--------------------------- MODULE PassTierChange ---------------------------
(***************************************************************************)
(* changeTier of passes.service.ts: the owner swaps an active pass for one *)
(* on another tier of the same creator.  The checks and the pro-rating     *)
(* read the pass before the transaction that replaces it opens.            *)
(***************************************************************************)
EXTENDS PassTable, Proration

CONSTANT Changers

VARIABLE change  \* change[c]: the validated request c, before its commit;
                 \* found (history): how many rows there were at its check

changeVars == <<change>>

NoChange == [op |-> "none"]

ChangeRequest == [op : {"change"}, pass : Nat, tier : Tiers, fan : Fans,
                  days : Nat \ {0}, at : Nat, trialUsed : BOOLEAN,
                  autoRenew : BOOLEAN, found : Nat]

ChangeTypeOK == change \in [Changers -> {NoChange} \cup ChangeRequest]

ChangeInit == change = [c \in Changers |-> NoChange]

DaysFor(p, t) ==
  LET old == passes[p].tier
  IN  ConvertedDays(Price[old], Duration[old], now - passes[p].purchasedAt,
                    Price[t], Duration[t])

(* Mutant: any pass that has not expired may be changed.                   *)
Unexpired(p) == passes[p].expiresAt >= now

Changeable(p) == passes[p].active /\ passes[p].expiresAt >= now

ChangeRead(c, p, t) ==
  /\ change[c] = NoChange
  /\ p \in PassIds
  /\ Changeable(p)
  /\ t # passes[p].tier /\ t \in offered
  /\ CreatorOf[t] = CreatorOf[passes[p].tier]
  /\ Computable(Duration[passes[p].tier], Price[t])
  /\ change' = [change EXCEPT ![c] =
       [op |-> "change", pass |-> p, tier |-> t, fan |-> passes[p].fan,
        days |-> DaysFor(p, t), at |-> now,
        trialUsed |-> passes[p].trialUsed,
        autoRenew |-> passes[p].autoRenew, found |-> Len(passes)]]
  /\ UNCHANGED tableVars

(* The update waits for the row lock of a renewal; it tests nothing again. *)
ChangeCommit(c) ==
  /\ change[c].op = "change"
  /\ RoomToReplace
  /\ change[c].pass \notin locked
  /\ LET r == change[c]
         row == [NewPass(r.tier, r.fan, r.at, r.days, r.trialUsed, "change",
                         r.pass) EXCEPT !.autoRenew = r.autoRenew,
                                        !.found = r.found]
     IN  passes' = Replace(r.pass, row)
  /\ change' = [change EXCEPT ![c] = NoChange]
  /\ UNCHANGED <<now, earnings, blocks, offered, deletionAt, locked>>

ChangeFails(c) ==
  /\ change[c] # NoChange
  /\ change' = [change EXCEPT ![c] = NoChange]
  /\ UNCHANGED tableVars

ChangeNext == \E c \in Changers :
  \/ \E p \in PassIds, t \in Tiers : ChangeRead(c, p, t)
  \/ ChangeCommit(c)
  \/ ChangeFails(c)
=============================================================================
