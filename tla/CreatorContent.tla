--------------------------- MODULE CreatorContent ---------------------------
(***************************************************************************)
(* The tiers of a creator, their encrypted content and its schedule, with  *)
(* requests, scheduler runs, the indexer, passes that come and go, and     *)
(* restarts of the process in any order.                                   *)
(***************************************************************************)
EXTENDS ContentSchedule

ASSUME ContentAssumption ==
    /\ Requests \subseteq Nat \ {0} /\ IsFiniteSet(Requests) /\ Passes \subseteq Nat \ {0}
    /\ IsFiniteSet(Tiers) /\ TierOf \in [Passes -> Tiers]
    /\ Delays \subseteq Nat /\ UnlockTtl \in Nat /\ MaxLatency \in Nat

contentVars == <<tier, keys, req, lastOrder, pass, contents, tokens, schedules, faults>>

Init == CatalogueInit /\ ContentInit /\ ScheduleInit

Tick == ContentTick /\ ScheduleTick /\ UNCHANGED <<catalogue, pass, contents, faults>>

\* A pass that expires counts as valid for a run that began before.
PassMoves ==
    /\ \E p \in Passes :
          \/ (PassSold(p) \/ PassCloses(p)) /\ UNCHANGED req
          \/ /\ PassExpires(p)
             /\ req' = [r \in Requests |-> IF req[r].op = "run" /\ req[r].at \in {"loop", "active"}
                                           THEN [req[r] EXCEPT !.late = @ \union {p}] ELSE req[r]]
    /\ UNCHANGED <<catalogue, contents, tokens, schedules, faults>>

Indexed == \E t \in Tiers : UpsertFromChain(t) /\ UNCHANGED <<content, schedules, faults>>

\* Every request in progress is lost; open transactions are rolled back.
Restart ==
    /\ faults < MaxFaults
    /\ faults' = faults + 1
    /\ tier' = [t \in Tiers |-> IF tier[t].lock = Free THEN tier[t]
                                ELSE [Restored(tier[t].lock)[t] EXCEPT !.lock = Free]]
    /\ schedules' = [i \in DOMAIN schedules |->
                       [schedules[i] EXCEPT !.lost = @ \/ \E r \in Requests : req[r].op = "run" /\ req[r].todo # {}
                                                            /\ req[r].at \in {"active", "found"} /\ NextDue(r) = i]]
    /\ req' = [r \in Requests |-> IF req[r] = Unused \/ Ended(r) THEN req[r]
                                   ELSE [Unused EXCEPT !.at = "refused"]]
    /\ UNCHANGED <<keys, lastOrder, content>>

Step(r) ==
    \/ CatalogueSteps(r) /\ UNCHANGED <<content, schedules, faults>>
    \/ ContentSteps(r) /\ UNCHANGED <<schedules, faults>>
    \/ ScheduleSteps(r)
Arrive(r) ==
    \/ CatalogueRequests(r) /\ UNCHANGED <<content, schedules, faults>>
    \/ ContentRequests(r) /\ UNCHANGED <<schedules, faults>>
    \/ ScheduleRequests(r)

\* Requests are taken in the order of their numbers, which loses nothing.
NextRequest(r) == \A q \in Requests : q < r => req[q] # Unused

Next ==
    \/ Tick \/ PassMoves \/ Indexed \/ Restart
    \/ \E r \in Requests : Step(r) \/ (NextRequest(r) /\ Arrive(r))

Spec == Init /\ [][Next]_contentVars

\* Every statement is answered in the end, and PostgreSQL breaks deadlocks.
FairSpec == Spec /\ WF_contentVars(\E r \in Requests : Step(r))

-----------------------------------------------------------------------------
(* The versions of a tier's keys have no gap, and every rotation that      *)
(* reported success added one: of two rotations that read the same key one *)
(* is refused, and no key is ever lost (rotateTierContentKey).             *)
Rotations(t) == {r \in Requests : req[r].op = "rotate" /\ req[r].tier = t /\ req[r].at = "ok"}
EveryRotationCounts ==
    \A t \in Tiers : keys[t] # {} => keys[t] = 1..(1 + Cardinality(Rotations(t)))

(* Whatever was encrypted can still be decrypted: the key that content was *)
(* encrypted with is stored, however rotations overlap its creation.       *)
ContentDecryptable == \A i \in DOMAIN contents : contents[i].key \in keys[contents[i].tier]

(* A fan is handed a key that is at least as new as the newest one at the  *)
(* moment of the request; content that it does not open is older or newer  *)
(* by a rotation (getFanEncryptedContentKey reads the two on their own).   *)
HandedKeyFits ==
    \A r \in Requests : req[r].op = "fanKey" /\ req[r].at = "ok" =>
        /\ req[r].ver >= req[r].first
        /\ req[r].content \notin {0, req[r].ver} => Rotations(req[r].tier) # {}

(* Keys are kept and handed out so that content can be opened.             *)
KeysSound == EveryRotationCounts /\ ContentDecryptable /\ HandedKeyFits

(* A token opens content at most for its lifetime, and the time its        *)
(* request waited, after the fan's last valid pass ended.                  *)
AccessEndsSoon == \A k \in tokens : Accepted(k) => k.gone <= UnlockTtl + MaxLatency

(* However runs overlap, fail and restart, the holder of a pass gets at    *)
(* most one notice of a schedule for it, and none before its time.         *)
NotifiedOnce ==
    \A i \in DOMAIN schedules : \A p \in Passes :
        schedules[i].sent[p] <= 1 /\ (schedules[i].sent[p] = 1 => schedules[i].active /\ schedules[i].wait = 0)

(* Who held a valid pass when the content became active, and still does,   *)
(* has had the notice once the run is past it, unless a statement failed   *)
(* or the process stopped between the activation and the notices: then     *)
(* nobody is ever told (activateDueContent does not come back to a row).   *)
NobodyForgotten ==
    \A i \in DOMAIN schedules :
        schedules[i].active /\ ~schedules[i].lost
        /\ (\A r \in Requests : req[r].op = "run" /\ req[r].at \in {"active", "found"} => NextDue(r) # i)
        => \A p \in schedules[i].audience : pass[p] = "valid" => schedules[i].sent[p] = 1

(* Every holder of a pass gets the notice, and nobody gets it twice.       *)
NoticesRight == NotifiedOnce /\ NobodyForgotten

(* The tiers of a reordering stand as one request put them, never as a mix *)
(* of two that overlapped or of one that was rolled back (reorderTiers).   *)
OrderOfOneRequest ==
    (\A t \in Tiers : tier[t].lock = Free) =>
        \A i \in DOMAIN lastOrder : tier[lastOrder[i]].sort = i - 1

(* Every request ends, given that PostgreSQL breaks deadlocks: no run of   *)
(* the scheduler goes round in circles over rows that another one          *)
(* activates, and the work in progress always runs out.                    *)
EveryRequestEnds == []<>(\A r \in Requests : req[r] = Unused \/ Ended(r))
=============================================================================
