---------------------------- MODULE TierCatalogue ----------------------------
(***************************************************************************)
(* The tiers of one creator: their creation by the creator and by the      *)
(* indexer, and the transaction that reorders them.  The module declares   *)
(* the requests in progress, which TierContent and ContentSchedule share:  *)
(* a request serves one operation and is never used again, so that the     *)
(* number of requests bounds what can happen.                              *)
(***************************************************************************)
EXTENDS Naturals, Sequences, FiniteSets, FiniteSetsExt, SequencesExt

CONSTANTS
    Tiers,     \* on-chain ids
    Requests,  \* positive numbers
    FirstTiers \* tiers the creator has created before

VARIABLES
    tier,      \* the rows, keyed by on-chain id: exists, sortOrder, lock
    keys,      \* TierContentKey: the versions stored for each tier
    req,       \* the requests
    lastOrder  \* history: the order of the last reordering that committed

Free == 0
Existing == {t \in Tiers : tier[t].exists}

\* What a request holds: its operation, its place, and what it has read.
Unused == [op |-> "none", at |-> "new", tier |-> 0, pass |-> 0, first |-> 0, ver |-> 0, content |-> 0, waited |-> 0, gone |-> 0,
           order |-> <<>>, old |-> <<>>, todo |-> {}, late |-> {}]

Begin(r, call) ==
    /\ req[r] = Unused
    /\ req' = [req EXCEPT ![r] = call]
\* An answered request remembers only what the properties speak of.
Answer(r, how) ==
    req' = [req EXCEPT ![r] = IF req[r].op = "rotate" /\ how = "ok"
                              THEN [Unused EXCEPT !.op = "rotate", !.at = how, !.tier = req[r].tier]
                              ELSE [Unused EXCEPT !.at = how]]
BeginEnd(r, how) == req[r] = Unused /\ req' = [req EXCEPT ![r].at = how]
Refuse(r) == BeginEnd(r, "refused")
Ended(r) == req[r].at \in {"ok", "refused"}

CatalogueInit ==
    /\ tier = [t \in Tiers |-> [exists |-> t \in FirstTiers, sort |-> 0, lock |-> Free]]
    /\ keys = [t \in Tiers |-> IF t \in FirstTiers THEN {1} ELSE {}]
    /\ req = [r \in Requests |-> Unused]
    /\ lastOrder = <<>>

\* All the tiers of the request and their first keys, or nothing: an on-chain
\* id that is taken rolls the transaction back.
BulkCreate(r, new) ==
    /\ IF new \intersect Existing = {}
       THEN /\ BeginEnd(r, "ok")
            /\ tier' = [t \in Tiers |-> IF t \in new THEN [tier[t] EXCEPT !.exists = TRUE] ELSE tier[t]]
            /\ keys' = [t \in Tiers |-> IF t \in new THEN {1} ELSE keys[t]]
       ELSE /\ Refuse(r)
            /\ UNCHANGED <<tier, keys>>
    /\ UNCHANGED lastOrder

\* The indexer creates the row of a tier it sees first, without a content key.
\* Its update of a row that exists changes nothing that is modelled here.
UpsertFromChain(t) ==
    /\ t \notin Existing
    /\ tier' = [tier EXCEPT ![t].exists = TRUE]
    /\ UNCHANGED <<keys, req, lastOrder>>

\* The order must name every tier of the creator once; this is checked before
\* the transaction.
ReorderRead(r, order) ==
    /\ IF ToSet(order) = Existing
       THEN Begin(r, [Unused EXCEPT !.op = "reorder", !.at = "updating", !.order = order])
       ELSE Refuse(r)
    /\ UNCHANGED <<tier, keys, lastOrder>>

NextRow(r) == req[r].order[Len(req[r].old) + 1]
Updating(r) == req[r].op = "reorder" /\ req[r].at = "updating"
MoreRows(r) == Updating(r) /\ Len(req[r].old) < Len(req[r].order)

\* Mutant: the updates are not one transaction.
ReorderUpdateAlone(r) ==
    /\ MoreRows(r)
    /\ tier' = [tier EXCEPT ![NextRow(r)].sort = Len(req[r].old)]
    /\ req' = [req EXCEPT ![r].old = Append(@, tier[NextRow(r)].sort)]
    /\ UNCHANGED <<keys, lastOrder>>

\* One update of the transaction: it takes the row's lock and keeps it.
ReorderUpdate(r) ==
    /\ MoreRows(r) /\ tier[NextRow(r)].lock = Free
    /\ tier' = [tier EXCEPT ![NextRow(r)] = [@ EXCEPT !.sort = Len(req[r].old), !.lock = r]]
    /\ req' = [req EXCEPT ![r].old = Append(@, tier[NextRow(r)].sort)]
    /\ UNCHANGED <<keys, lastOrder>>

Unlocked(r, rows) == [t \in Tiers |-> IF rows[t].lock = r THEN [rows[t] EXCEPT !.lock = Free] ELSE rows[t]]

ReorderCommit(r) ==
    /\ Updating(r) /\ ~MoreRows(r)
    /\ tier' = Unlocked(r, tier)
    /\ lastOrder' = req[r].order
    /\ Answer(r, "ok")
    /\ UNCHANGED keys

\* The rows a transaction has updated, as they were before it.
Restored(r) ==
    [t \in Tiers |-> IF tier[t].lock = r
                     THEN [tier[t] EXCEPT !.sort = req[r].old[CHOOSE i \in DOMAIN req[r].old : req[r].order[i] = t]]
                     ELSE tier[t]]

\* Two transactions wait for each other's rows: PostgreSQL rolls one back.
ReorderDeadlock(r, q) ==
    /\ MoreRows(r) /\ MoreRows(q)
    /\ tier[NextRow(r)].lock = q /\ tier[NextRow(q)].lock = r
    /\ tier' = Unlocked(r, Restored(r))
    /\ Answer(r, "refused")
    /\ UNCHANGED <<keys, lastOrder>>

CatalogueSteps(r) ==
    \/ ReorderUpdate(r) \/ ReorderCommit(r)
    \/ \E q \in Requests \ {r} : ReorderDeadlock(r, q)
\* A request that names no tier changes nothing and is left out.
Orders == UNION {SetToSeqs(some) : some \in SUBSET Tiers \ {{}}}
CatalogueRequests(r) ==
    \/ \E new \in SUBSET Tiers \ {{}} : BulkCreate(r, new)
    \/ \E order \in Orders : ReorderRead(r, order)
=============================================================================
