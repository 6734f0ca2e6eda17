---------------------------- MODULE PassPurchase ----------------------------
(***************************************************************************)
(* The two REST handlers that sell passes, giftPass and purchaseBundle of  *)
(* passes.service.ts.  Both read the tiers and the creators' blocks, then  *)
(* open a transaction that creates the rows; other requests run at every   *)
(* await in between.  A purchaser is one request slot of the API.          *)
(***************************************************************************)
EXTENDS PassTable

CONSTANT Purchasers

VARIABLE purchase  \* purchase[w]: what request w has read and built so far

purchaseVars == <<purchase>>

NoPurchase == [op |-> "none"]

GiftRequest == [op : {"gift"}, tier : Tiers, sender : Fans,
                recipient : Fans, at : Nat]

(* todo: the tiers whose row is still to be created in the transaction;    *)
(* rows: those created, visible to others only at the commit;              *)
(* asked: the request's tierIds.                                           *)
BundleRequest == [op : {"bundle"}, fan : Fans, asked : SUBSET Nat,
                  todo : SUBSET Tiers, rows : Seq(Pass), at : Nat]

PurchaseTypeOK ==
  purchase \in [Purchasers -> {NoPurchase} \cup GiftRequest \cup BundleRequest]

PurchaseInit == purchase = [w \in Purchasers |-> NoPurchase]

End(w) == purchase' = [purchase EXCEPT ![w] = NoPurchase]

-----------------------------------------------------------------------------
(* giftPass: the recipient gets a full-length pass, never a trial, and the *)
(* sender's earnings record is written in the same transaction.            *)

GiftRead(w, t, s, r) ==
  /\ purchase[w] = NoPurchase
  /\ RoomToSell(1)
  /\ s # r
  /\ t \in offered
  /\ ~ Blocked(t, r)
  /\ purchase' = [purchase EXCEPT ![w] =
       [op |-> "gift", tier |-> t, sender |-> s, recipient |-> r, at |-> now]]
  /\ UNCHANGED tableVars

GiftedPass(g) ==
  NewPass(g.tier, g.recipient, g.at, Duration[g.tier], FALSE, "gift", 0)

GiftCommit(w) ==
  /\ purchase[w].op = "gift"
  /\ RoomToSell(1)
  /\ LET g == purchase[w]
     IN  /\ passes' = Append(passes, GiftedPass(g))
         /\ earnings' = earnings \cup
                          {[pass |-> Len(passes) + 1, payer |-> g.sender]}
  /\ End(w)
  /\ UNCHANGED <<now, blocks, offered, deletionAt, locked>>

-----------------------------------------------------------------------------
(* purchaseBundle                                                          *)

(* findMany({ onChainId: { in: tierIds }, active: true }), whatever the    *)
(* creator.                                                                *)
TiersFor(ids) == {t \in offered : OnChainId[t] \in ids}

(* Mutant: the bundle is sold if any of its tiers is.                      *)
SomeFound(ids) == TiersFor(ids) # {}

(* The request goes on when the query returns as many tiers as ids.        *)
AllFound(ids) == Cardinality(TiersFor(ids)) = Cardinality(ids)

BundleRead(w, ids, f) ==
  /\ purchase[w] = NoPurchase
  /\ RoomToSell(Cardinality(ids))
  /\ AllFound(ids)
  /\ \A t \in TiersFor(ids) : ~ Blocked(t, f)
  /\ purchase' = [purchase EXCEPT ![w] =
       [op |-> "bundle", fan |-> f, asked |-> ids, todo |-> TiersFor(ids),
        rows |-> <<>>, at |-> now]]
  /\ UNCHANGED tableVars

(* One turn of the loop in the transaction: read the prior passes, then    *)
(* create the row.                                                         *)
BundleMint(w, t) ==
  /\ purchase[w].op = "bundle" /\ t \in purchase[w].todo
  /\ ~ TrialSpent(purchase[w].fan, t)
  /\ LET b == purchase[w]
     IN  purchase' = [purchase EXCEPT
           ![w].todo = @ \ {t},
           ![w].rows = Append(@, SoldPass(t, b.fan, b.at, "bundle", 0))]
  /\ UNCHANGED tableVars

(* "Trial already used for this tier": the transaction rolls back.         *)
BundleRefuse(w, t) ==
  /\ purchase[w].op = "bundle" /\ t \in purchase[w].todo
  /\ TrialSpent(purchase[w].fan, t)
  /\ End(w)
  /\ UNCHANGED tableVars

(* Mutant: trials are charged as well.                                     *)
ChargedWithTrials(rows) == DOMAIN rows

Charged(rows) == {i \in DOMAIN rows : ~ rows[i].trialUsed}

BundleCommit(w) ==
  /\ purchase[w].op = "bundle" /\ purchase[w].todo = {}
  /\ RoomToSell(Len(purchase[w].rows))
  /\ LET b == purchase[w]
     IN  /\ passes' = passes \o b.rows
         /\ earnings' = earnings \cup
              {[pass |-> Len(passes) + i, payer |-> b.fan] : i \in Charged(b.rows)}
  /\ End(w)
  /\ UNCHANGED <<now, blocks, offered, deletionAt, locked>>

(* A statement fails or the process restarts: nothing of the transaction   *)
(* reaches the tables.                                                     *)
PurchaseFails(w) ==
  /\ purchase[w] # NoPurchase
  /\ End(w)
  /\ UNCHANGED tableVars

(* PurchaseBundleDto: one to five distinct ids.                            *)
BundleIds == {ids \in SUBSET {OnChainId[t] : t \in Tiers} :
                Cardinality(ids) \in 1..5}

PurchaseNext == \E w \in Purchasers :
  \/ \E t \in Tiers, s \in Fans, r \in Fans : GiftRead(w, t, s, r)
  \/ GiftCommit(w)
  \/ \E ids \in BundleIds, f \in Fans : BundleRead(w, ids, f)
  \/ \E t \in Tiers : BundleMint(w, t) \/ BundleRefuse(w, t)
  \/ BundleCommit(w)
  \/ PurchaseFails(w)
=============================================================================
