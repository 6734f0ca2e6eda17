--------------------------- MODULE PassLifecycle ---------------------------
(***************************************************************************)
(* The life of a pass: sales, tier changes, expiry, auto-renewal and the   *)
(* fan's deletion request, all over the same tables.  Every component's    *)
(* steps interleave; an empty set of actors leaves a component out.        *)
(***************************************************************************)
EXTENDS PassPurchase, PassTierChange, PassRenewal, FanDeletion

vars == <<tableVars, purchaseVars, changeVars, renewalVars, deletionVars>>

Init ==
  /\ TableInit /\ PurchaseInit /\ ChangeInit /\ RenewalInit /\ DeletionInit

Next ==
  \/ TableNext /\ UNCHANGED <<purchaseVars, changeVars, renewalVars, deletionVars>>
  \/ PurchaseNext /\ UNCHANGED <<changeVars, renewalVars, deletionVars>>
  \/ ChangeNext /\ UNCHANGED <<purchaseVars, renewalVars, deletionVars>>
  \/ RenewalNext /\ UNCHANGED <<purchaseVars, changeVars, deletionVars>>
  \/ DeletionNext /\ UNCHANGED <<purchaseVars, changeVars, renewalVars>>

Spec == Init /\ [][Next]_vars

(* @Cron keeps firing, and a run goes on as long as the process lives.     *)
(* Strong for the cron's update: PostgreSQL grants a row lock in the order *)
(* of arrival, so later transactions cannot keep it from its turn.         *)
Fairness ==
  /\ SF_vars(DeactivateExpiredPasses
               /\ UNCHANGED <<purchaseVars, changeVars, renewalVars, deletionVars>>)
  /\ \A r \in Renewers :
       WF_vars(RenewalStep(r) /\ UNCHANGED <<purchaseVars, changeVars, deletionVars>>)

FairSpec == Spec /\ Fairness

-----------------------------------------------------------------------------
(* Every variable holds what the handlers can put there.                   *)
TypeOK ==
  /\ TableTypeOK /\ PurchaseTypeOK /\ ChangeTypeOK
  /\ RenewalTypeOK /\ DeletionTypeOK

(* A pass that names a successor is closed, and the successor is a later   *)
(* pass of the same fan that was created to replace it.  Two handlers set  *)
(* the reference, each in a transaction built from an earlier read.        *)
SupersededConsistent ==
  \A p \in PassIds :
    LET q == passes[p].supersededBy
    IN  q # 0 => /\ ~ passes[p].active
                 /\ q \in PassIds /\ p < q
                 /\ passes[q].from = p
                 /\ passes[q].fan = passes[p].fan

(* Money follows passes: each pass that was sold, and was not a trial, has *)
(* exactly one earnings record; a trial and a tier change have none.       *)
EarningsMatchSales ==
  /\ \A p \in PassIds :
       (\E e \in earnings : e.pass = p)
         <=> (passes[p].via # "change" /\ ~ passes[p].trialUsed)
  /\ \A e \in earnings : e.pass \in PassIds
  /\ \A d, e \in earnings : d.pass = e.pass => d = e

(* The recipient of a gift does not pay for it, and nobody pays for the    *)
(* pass of another fan in any other way.                                   *)
PayerIsOwnerUnlessGift ==
  \A e \in earnings :
    (e.payer = passes[e.pass].fan) <=> (passes[e.pass].via # "gift")

(* What is on the books is right: the records are those of the sales, and  *)
(* each names the one who paid, whichever requests overlapped.             *)
BooksRight == EarningsMatchSales /\ PayerIsOwnerUnlessGift

Settling(p) == {r \in Renewers : /\ run[r].cur = p
                                 /\ run[r].pc \in {"charged", "minted", "failed"}}

(* No charge on chain goes unexplained: each one, and each transaction of  *)
(* unknown outcome, has a RenewalAttempt row, is still being handled by a  *)
(* run, or belonged to a process that restarted.                           *)
ChargesAccounted ==
  \A p \in PassIds :
    charges[p] + unknown[p]
      <= attempts[p].success + attempts[p].failed + orphaned[p]
           + Cardinality(Settling(p))

Successors(p, how) == {q \in PassIds : passes[q].from = p /\ passes[q].via = how}

(* A SUCCESS attempt stands for one renewed pass, and only for one.        *)
SuccessMeansRenewed ==
  \A p \in PassIds : attempts[p].success = Cardinality(Successors(p, "renewal"))

(* One pass turns into two only when requests overlap: whichever handler   *)
(* replaces a pass again, a tier change or a renewal run, has found it     *)
(* open before the other one committed.  (Neither looks again when it      *)
(* commits, and a pass that is closed stays in the lists of runs.)         *)
ForkedByOverlapOnly ==
  \A p, q \in PassIds :
    p < q /\ passes[p].from # 0 /\ passes[p].from = passes[q].from
      => passes[q].found < p

(* A trial closes its tier, and is the first pass on it: a bundle or a     *)
(* renewal that sells the fan another pass there, or a trial after another *)
(* pass, has read the fan's passes before that one was committed.          *)
TrialClosesTier ==
  \A p, q \in PassIds :
    /\ p < q /\ passes[q].via \in {"bundle", "renewal"}
    /\ passes[p].fan = passes[q].fan /\ passes[p].tier = passes[q].tier
    /\ passes[p].trialUsed \/ passes[q].trialUsed
    => passes[q].seen < p

-----------------------------------------------------------------------------
NewIds == DOMAIN passes' \ PassIds

Bundled(w) ==
  purchase[w].op = "bundle" /\ purchase'[w].op = "none" /\ NewIds # {}

(* A bundle is sold whole, whatever happens to its tiers meanwhile: as     *)
(* many passes as ids, each on a tier of its own that has one of them.     *)
BundleWhole ==
  [][\A w \in Purchasers : Bundled(w) =>
       /\ Cardinality(NewIds) = Cardinality(purchase[w].asked)
       /\ \A p \in NewIds : OnChainId[passes'[p].tier] \in purchase[w].asked
       /\ \A p, q \in NewIds : passes'[p].tier = passes'[q].tier => p = q]_vars

ValueKept(q) ==
  LET p == passes'[q].from
      old == passes'[p].tier
      new == passes'[q].tier
      daysOn(x) == passes'[x].expiresAt - passes'[q].purchasedAt
  IN  daysOn(q) > 1 => daysOn(q) * Price[new] * Duration[old]
                         <= daysOn(p) * Price[old] * Duration[new]

(* A tier change of a pass as it was sold, so neither a trial nor itself   *)
(* converted, gives no more days on the same price per day than the pass   *)
(* had left, but for the minimum of one day.                               *)
SoldPassKeepsValue ==
  [][\A q \in NewIds :
       /\ passes'[q].via = "change" /\ ~ passes'[q].trialUsed
       /\ passes'[passes'[q].from].via # "change"
       => ValueKept(q)]_vars

(* A pass that was closed, by expiry, replacement or deletion, stays so.   *)
ClosedStaysClosed ==
  [][\A p \in PassIds : ~ passes[p].active => ~ passes'[p].active]_vars

-----------------------------------------------------------------------------
Overdue(p) ==
  p \in PassIds /\ passes[p].active /\ passes[p].expiresAt < now

(* An active pass that is past its expiry is eventually closed.            *)
ExpiredGetsClosed == \A p \in Ids : Overdue(p) ~> ~ Overdue(p)

(* No run waits for ever, for another run's row lock or anything else.     *)
EveryRunEnds == \A r \in Renewers : run[r].pc # "idle" ~> run[r].pc = "idle"

(* A pass with auto-renewal on that expires is renewed or its failure      *)
(* recorded, unless its owner turns auto-renewal off or replaces the pass. *)
AutoRenewServed ==
  \A p \in Ids :
    Overdue(p) /\ passes[p].autoRenew
      ~> /\ p \in PassIds
         /\ \/ Begun(p) > 0
            \/ ~ passes[p].autoRenew
            \/ passes[p].supersededBy # 0
=============================================================================
