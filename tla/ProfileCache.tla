---------------------------- MODULE ProfileCache ----------------------------
(***************************************************************************)
(* A creator's public profile: the row, which is here no more than a       *)
(* version number, and the copy of it that XCacheInterceptor keeps under   *)
(* "creator:<address>" in Redis.  A call of Redis that fails is swallowed. *)
(*                                                                         *)
(* The module declares the requests in progress, which PartnerAccess and   *)
(* CreatorDesk share; each serves one operation and is never used again.   *)
(***************************************************************************)
EXTENDS Naturals, FiniteSets, SequencesExt

CONSTANTS
    Requests,    \* positive numbers
    CacheTtl,    \* the lifetime of an entry (@CacheTTL), in ticks
    MaxLatency,  \* bound: ticks that a request may take
    MaxFaults    \* bound: calls that fail and requests that are lost

VARIABLES
    version,   \* the profile row
    replaced,  \* history: ticks since each version ceased to be the row
    cache,     \* the entry, or NoEntry
    fresh,     \* history: the newest version whose update has dropped the entry
    req,       \* the requests
    faults

NoEntry == [version |-> 0, age |-> 0, crossed |-> FALSE]

\* What a request holds: its operation, its place, and what it has read or shown.
\* crossed: an update has dropped the entry since the row was read (history).
Unused == [op |-> "none", at |-> "new", waited |-> 0, version |-> 0, lag |-> 0, crossed |-> FALSE,
           key |-> 0, todo |-> {}]

Begin(r, call) == req[r] = Unused /\ req' = [req EXCEPT ![r] = call]
BeginEnd(r, how) == req[r] = Unused /\ req' = [req EXCEPT ![r].at = how]
\* An answered request remembers only what the properties speak of.
Succeed(r, shown) == req' = [req EXCEPT ![r] = [shown EXCEPT !.at = "ok"]]
Throw(r) == req' = [req EXCEPT ![r] = [Unused EXCEPT !.at = "refused"]]
InProgress(r) == req[r].at \notin {"new", "ok", "refused"}

ProfileInit ==
    /\ version = 1 /\ fresh = 1
    /\ replaced = [v \in 1..Cardinality(Requests) + 1 |-> 0]
    /\ cache = NoEntry
    /\ req = [r \in Requests |-> Unused]
    /\ faults = 0

row == <<version, replaced>>
copy == <<cache, fresh>>

-----------------------------------------------------------------------------
\* GET /creators/:address: the entry, if Redis has it and answers ...
GetHit(r) ==
    /\ cache # NoEntry
    /\ req[r] = Unused
    /\ req' = [req EXCEPT ![r] = [Unused EXCEPT !.at = "ok", !.lag = replaced[cache.version]]]
    /\ UNCHANGED <<row, copy, faults>>

GetMiss(r) ==
    /\ \/ cache = NoEntry /\ UNCHANGED faults
       \/ cache # NoEntry /\ faults < MaxFaults /\ faults' = faults + 1
    /\ Begin(r, [Unused EXCEPT !.op = "get", !.at = "missed"])
    /\ UNCHANGED <<row, copy>>

\* ... or the row, which is shown at once ...
GetRow(r) ==
    /\ req[r].at = "missed"
    /\ req' = [req EXCEPT ![r].at = "read", ![r].version = version]
    /\ UNCHANGED <<row, copy, faults>>

\* ... and stored behind the answer.
GetStore(r) ==
    /\ req[r].at = "read"
    /\ cache' = [version |-> req[r].version, age |-> 0, crossed |-> req[r].crossed]
    /\ Succeed(r, Unused)
    /\ UNCHANGED <<row, fresh, faults>>

\* CreatorsService.update and uploadAvatar: the row, then the entry.
NewVersion == version' = version + 1 /\ UNCHANGED replaced

UpdateRow(r) ==
    /\ NewVersion
    /\ Begin(r, [Unused EXCEPT !.op = "update", !.at = "written", !.version = version + 1])
    /\ UNCHANGED <<copy, faults>>

Dropped(v) ==
    /\ cache' = NoEntry
    /\ fresh' = IF v > fresh THEN v ELSE fresh

UpdateDrop(r) ==
    /\ req[r].at = "written"
    /\ Dropped(req[r].version)
    /\ req' = [q \in Requests |->
                 IF q = r THEN [Unused EXCEPT !.at = "ok"]
                 ELSE [req[q] EXCEPT !.crossed = @ \/ req[q].at = "read"]]
    /\ UNCHANGED <<row, faults>>

\* updateCategories, and what administrators set (AdminService), leave the entry.
EditQuietly(r) ==
    /\ NewVersion
    /\ BeginEnd(r, "ok")
    /\ UNCHANGED <<copy, faults>>

-----------------------------------------------------------------------------
AgedRow ==
    replaced' = [v \in DOMAIN replaced |->
                   IF v < version /\ replaced[v] <= CacheTtl + MaxLatency THEN replaced[v] + 1 ELSE replaced[v]]

\* Mutant: an entry has no lifetime.
AgedEntryNever == UNCHANGED cache

AgedEntry ==
    cache' = IF cache = NoEntry \/ cache.age = CacheTtl THEN NoEntry ELSE [cache EXCEPT !.age = @ + 1]

ProfileTick ==
    /\ \A r \in Requests : InProgress(r) => req[r].waited < MaxLatency
    /\ req' = [r \in Requests |-> IF InProgress(r) THEN [req[r] EXCEPT !.waited = @ + 1] ELSE req[r]]
    /\ AgedRow /\ AgedEntry
    /\ UNCHANGED <<version, fresh, faults>>

ProfileSteps(r) == GetRow(r) \/ GetStore(r) \/ UpdateDrop(r)
ProfileRequests(r) == GetHit(r) \/ GetMiss(r) \/ UpdateRow(r) \/ EditQuietly(r)
=============================================================================
