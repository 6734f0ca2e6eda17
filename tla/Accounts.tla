------------------------------ MODULE Accounts ------------------------------
(***************************************************************************)
(* The account of one wallet: its sessions, its fan row and the deletion   *)
(* of both, with requests in any order.                                    *)
(***************************************************************************)
EXTENDS FanErasure

accountVars == <<user, users, sessions, access, req, fan, fans, hasPass, hasGift, creator, faults>>

ASSUME AccountAssumption ==
    /\ Requests \subseteq Nat \ {0}
    /\ SessionTtl \in Nat /\ AccessTtl \in Nat \ {0} /\ MaxLatency \in Nat /\ MaxFaults \in Nat
    /\ CoolingOff \in Nat /\ MaxLatency < CoolingOff /\ CoolingOff < Never
    /\ ExportCooldown \in Nat /\ ExportCooldown < Never

Init == SessionsInit /\ FanInit

-----------------------------------------------------------------------------
Tick == SessionsTick /\ FanTick

Step(r) == FanSteps(r) \/ (SessionSteps(r) /\ UNCHANGED <<fanVars, faults>>)
Arrive(r) == FanRequests(r) \/ (SessionRequests(r) /\ UNCHANGED <<fanVars, faults>>)

\* Requests are taken in the order of their numbers, which loses nothing.
NextRequest(r) == \A q \in Requests : q < r => req[q] # Unused

Next ==
    \/ Tick \/ Bought \/ Gave
    \/ \E r \in Requests : Step(r) \/ (NextRequest(r) /\ Arrive(r))

Spec == Init /\ [][Next]_accountVars

-----------------------------------------------------------------------------
(* No access token is accepted for longer than its lifetime, and the time  *)
(* its request took, after its session ended: by logout, by expiry or with *)
(* the account.  (JwtAuthGuard itself looks at neither session nor user.)  *)
AccessEndsSoon == \A k \in access : k.gone < AccessTtl + MaxLatency

(* An account that was reported deleted stays deleted, however logins,     *)
(* sales and other deletions overlap with permanentlyDeleteFan: its user,  *)
(* its sessions and its fan row do not come back.                          *)
Erased(r) == req[r].op = "erase" /\ req[r].at = "ok"
ErasedForGood ==
    \A r \in Requests : Erased(r) =>
        user # req[r].user /\ fan.id # req[r].fan /\ \A t \in Tokens : sessions[t].user # req[r].user

(* A fan row that has not asked for deletion, or not for long enough, is   *)
(* removed only together with the user row that a deletion in progress     *)
(* found: by the cascade of its second statement.  Nor is it anonymized,   *)
(* and a pass that was sold stays on record whatever is deleted around it. *)
Removed == fan.id # None /\ fan'.id # fan.id
ByCascade == \E r \in Requests : req[r].op = "erase" /\ req[r].at = "fanGone" /\ req[r].user = fan.user
NobodyErasedUnasked ==
    [][/\ Removed => ~hasPass /\ (CanFinalizeDeletion(fan) \/ ByCascade)
       /\ fan'.anonymized => fan'.asked # Never
       /\ hasPass => hasPass']_accountVars

(* A fan who gets an export did not have another one answered within the   *)
(* cooldown, less the time that one took, before asking: more than one a   *)
(* day takes requests that overlap.                                        *)
ExportsSpaced ==
    \A r \in Requests : req[r].op = "export" /\ req[r].at = "ok" => req[r].gap + MaxLatency >= ExportCooldown

(* What a fan has paid stays on record after the deletion of the account.  *)
EarningsKept == [][hasGift => hasGift']_accountVars
=============================================================================
