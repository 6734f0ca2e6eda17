----------------------------- MODULE CreatorDesk -----------------------------
(***************************************************************************)
(* The smaller services around a creator, with requests in any order: the  *)
(* cached profile, webhooks and API keys, and the reports of a user.       *)
(***************************************************************************)
EXTENDS PartnerAccess

CONSTANT DailyReports   \* the limit of five reports a day

VARIABLES
    reports,  \* Report rows of the user that were created today
    crowd     \* history: the most reports in progress at one moment of the day

ASSUME DeskAssumption ==
    /\ Requests \subseteq Nat \ {0} /\ IsFiniteSet(Requests)
    /\ CacheTtl \in Nat /\ MaxLatency \in Nat /\ DailyReports \in Nat \ {0}

deskVars == <<version, replaced, cache, fresh, req, faults, partner, reports, crowd>>
today == <<reports, crowd>>

Init == ProfileInit /\ PartnerInit /\ reports = 0 /\ crowd = 0

-----------------------------------------------------------------------------
Reporting == {r \in Requests : req[r].at = "counted"}

\* submitReport counts the day's rows, looks the target up, and adds a row.
\* Mutant: off by one.
LimitExceeded == reports > DailyReports

LimitReached == reports >= DailyReports

ReportCount(r) ==
    /\ IF LimitReached THEN BeginEnd(r, "refused") ELSE Begin(r, [Unused EXCEPT !.op = "report", !.at = "counted"])
    /\ crowd' = LET now == Cardinality(Reporting \union {r}) IN IF now > crowd THEN now ELSE crowd
    /\ UNCHANGED <<row, copy, faults, partner, reports>>

ReportCreate(r) ==
    /\ r \in Reporting
    /\ reports' = reports + 1 /\ Succeed(r, Unused)
    /\ UNCHANGED <<row, copy, faults, partner, crowd>>

ReportRefused(r) ==
    /\ r \in Reporting
    /\ Throw(r)
    /\ UNCHANGED <<row, copy, faults, partner, today>>

-----------------------------------------------------------------------------
\* A tick that ends a day starts the count of the reports again.
Tick ==
    /\ ProfileTick /\ UNCHANGED partner
    /\ \/ UNCHANGED today
       \/ reports' = 0 /\ crowd' = Cardinality(Reporting)

\* A call of Redis or of the database fails, or the process restarts: the rest
\* of the request does not happen.
RequestFails(r) ==
    /\ faults < MaxFaults /\ InProgress(r)
    /\ faults' = faults + 1
    /\ Throw(r)
    /\ UNCHANGED <<row, copy, partner, today>>

Step(r) ==
    \/ ProfileSteps(r) /\ UNCHANGED <<partner, today>>
    \/ PartnerSteps(r) /\ UNCHANGED today
    \/ ReportCreate(r) \/ ReportRefused(r) \/ RequestFails(r)
Arrive(r) ==
    \/ ProfileRequests(r) /\ UNCHANGED <<partner, today>>
    \/ PartnerRequests(r) /\ UNCHANGED today
    \/ ReportCount(r)

\* Requests are taken in the order of their numbers, which loses nothing.
NextRequest(r) == \A q \in Requests : q < r => req[q] # Unused

Next == Tick \/ \E r \in Requests : Step(r) \/ (NextRequest(r) /\ Arrive(r))

Spec == Init /\ [][Next]_deskVars

-----------------------------------------------------------------------------
(* No profile is shown that was replaced longer ago than the entry's       *)
(* lifetime and the time a request took to store it, whatever edits forget *)
(* to drop the entry and whatever Redis fails to do.                       *)
StaleEndsSoon == \A r \in Requests : req[r].lag <= CacheTtl + MaxLatency

(* Once an update has dropped the entry, no older profile is in the cache, *)
(* unless a request that had read the row before stored it afterwards.     *)
DropHolds == cache # NoEntry /\ ~cache.crossed => cache.version >= fresh

(* What a visitor is shown is as fresh as the cache promises.              *)
ProfileFresh == StaleEndsSoon /\ DropHolds

(* A webhook that was removed hears of no more sales than the ones that    *)
(* were being announced when it was: no sale that comes later lists it,    *)
(* and no call to it, though it may fail, is made a second time.           *)
RemovedHookFades == \A h \in Numbers \ hooks : heard[h] <= listing[h]

(* The day's reports exceed the limit by no more than the requests that    *)
(* were in progress beside the one that reached it, also across midnight.  *)
ReportsBounded == reports <= DailyReports + (IF crowd > 0 THEN crowd - 1 ELSE 0)
=============================================================================
