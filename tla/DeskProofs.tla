----------------------------- MODULE DeskProofs -----------------------------
(***************************************************************************)
(* The services around a creator, for any number of requests in any order: *)
(* what the cache shows is never older than its lifetime allows, a removed *)
(* hook fades away, and a user's reports stay bounded.                     *)
(***************************************************************************)
EXTENDS CreatorDesk, FiniteSetTheorems, TLAPS

Versions == 1..Cardinality(Requests) + 1

Entry == [version : Nat, age : Nat, crossed : BOOLEAN]

Call == [op : {"none", "get", "update", "announce", "use", "report"},
         at : {"new", "ok", "refused", "missed", "read", "written", "sending", "found", "counted"},
         waited : Nat, version : Nat, lag : Nat, crossed : BOOLEAN,
         key : Nat, todo : SUBSET Nat]

TableTypes ==
  /\ version \in Nat /\ replaced \in [Versions -> Nat]
  /\ cache \in Entry /\ fresh \in Nat
  /\ hooks \in SUBSET Nat
  /\ reports \in Nat /\ crowd \in Nat

(* Every version but the first was written by a request of its own.        *)
Used == {r \in Requests : req[r].at # "new"}

VersionsCounted == 1 <= version /\ version <= Cardinality(Used) + 1

(* The row is not replaced, and the copy was made from a row that had been *)
(* replaced for no longer than the request that made it took.              *)
CopySound ==
  /\ fresh <= version
  /\ \A v \in Versions : v >= version => replaced[v] = 0
  /\ cache # NoEntry =>
       /\ 1 <= cache.version /\ cache.version <= version /\ cache.age <= CacheTtl
       /\ replaced[cache.version] <= cache.age + MaxLatency
  /\ DropHolds

(* What a request holds, compared with what the row is now.                *)
ReadingSound(c) ==
  c.at = "read" =>
    /\ 1 <= c.version /\ c.version <= version
    /\ replaced[c.version] <= c.waited
    /\ ~c.crossed => c.version >= fresh

CallSound(c) ==
  /\ c.waited <= MaxLatency
  /\ c.lag <= CacheTtl + MaxLatency
  /\ c.at = "written" => c.version <= version
  /\ ReadingSound(c)

(* A request that has passed the limit was in progress when the limit was  *)
(* not yet reached.                                                        *)
ReportsCounted ==
  /\ Cardinality(Reporting) <= crowd
  /\ reports + Cardinality(Reporting) <= DailyReports + (IF crowd > 0 THEN crowd - 1 ELSE 0)

DeskInv ==
  /\ TableTypes /\ VersionsCounted /\ CopySound /\ ReportsCounted
  /\ req \in [Requests -> Call]
  /\ \A r \in Requests : CallSound(req[r])

-----------------------------------------------------------------------------
(* Counting the requests.                                                  *)
LEMMA Counts ==
  ASSUME NEW S \in SUBSET Requests
  PROVE  IsFiniteSet(S) /\ Cardinality(S) \in Nat /\ Cardinality(S) <= Cardinality(Requests)
BY DeskAssumption, FS_Subset, FS_CardinalityType DEF DeskAssumption

LEMMA MoreCounts ==
  ASSUME NEW S \in SUBSET Requests, NEW T \in SUBSET S
  PROVE  Cardinality(T) <= Cardinality(S)
BY Counts, FS_Subset

LEMMA VersionInRange ==
  ASSUME DeskInv
  PROVE  version \in Versions /\ \A v \in Nat : 1 <= v /\ v <= version => v \in Versions
<1>1. Used \in SUBSET Requests
  BY DEF Used
<1>2. Cardinality(Used) \in Nat /\ Cardinality(Requests) \in Nat
      /\ Cardinality(Used) <= Cardinality(Requests)
  BY <1>1, Counts
<1>3. QED
  BY <1>2 DEF DeskInv, TableTypes, VersionsCounted, Versions

LEMMA UnusedTypes == Unused \in Call /\ Unused.at = "new" /\ Unused.waited = 0 /\ Unused.lag = 0
                     /\ Unused.todo = {}
BY DEF Unused, Call

-----------------------------------------------------------------------------
(* A step in which one request moves.                                      *)
Moved(r, c) == c \in Call /\ c.at # "new" /\ req' = [req EXCEPT ![r] = c]

Kept == \A c \in Call : CallSound(c) => CallSound(c)'

LEMMA RequestStep ==
  ASSUME DeskInv, NEW r \in Requests, NEW c, Moved(r, c), CallSound(c)', Kept,
         TableTypes', VersionsCounted', CopySound', ReportsCounted'
  PROVE  DeskInv'
<1>1. req \in [Requests -> Call] /\ c \in Call
  BY DEF DeskInv, Moved
<1>2. req' \in [Requests -> Call] /\ req'[r] = c
      /\ \A q \in Requests : q # r => req'[q] = req[q]
  BY <1>1 DEF Moved
<1>3. ASSUME NEW q \in Requests PROVE CallSound(req[q])'
  <2>1. PICK d \in Call : d = req'[q]
    BY <1>2
  <2>2. CallSound(d)'
    <3>1. CASE q = r
      BY <1>2, <2>1, <3>1
    <3>2. CASE q # r
      BY <1>2, <2>1, <3>2 DEF DeskInv, Kept
    <3>3. QED
      BY <3>1, <3>2
  <2>3. QED
    BY <2>1, <2>2
<1>4. QED
  BY <1>2, <1>3 DEF DeskInv

LEMMA UsedGrows ==
  ASSUME DeskInv, NEW r \in Requests, NEW c, Moved(r, c)
  PROVE  /\ Cardinality(Used) \in Nat /\ Cardinality(Used') \in Nat
         /\ Cardinality(Used) <= Cardinality(Used')
         /\ req[r].at = "new" => Cardinality(Used') = Cardinality(Used) + 1
<1>1. Used \in SUBSET Requests /\ Used' \in SUBSET Requests
  BY DEF Used
<1>2. Used' = Used \cup {r}
  BY DEF Used, Moved, DeskInv
<1>3. req[r].at = "new" => r \notin Used
  BY DEF Used
<1>4. QED
  BY <1>1, <1>2, <1>3, Counts, MoreCounts, FS_AddElement

LEMMA ReportsUntouched ==
  ASSUME DeskInv, NEW r \in Requests, NEW c, Moved(r, c), c.at # "counted", UNCHANGED today
  PROVE  ReportsCounted'
<1>1. Reporting \in SUBSET Requests /\ Reporting' \in SUBSET Reporting
  BY DEF Reporting, Moved, DeskInv
<1>2. Cardinality(Reporting) \in Nat /\ Cardinality(Reporting') \in Nat
      /\ Cardinality(Reporting') <= Cardinality(Reporting)
  BY <1>1, Counts, MoreCounts
<1>3. QED
  BY <1>2, DeskAssumption DEF ReportsCounted, DeskInv, TableTypes, today, DeskAssumption

(* A step that leaves the profile and the day's reports alone.             *)
LEMMA QuietStep ==
  ASSUME DeskInv, NEW r \in Requests, NEW c, Moved(r, c), c.at # "counted", CallSound(c),
         UNCHANGED <<row, copy, today>>, hooks' \in SUBSET Nat
  PROVE  DeskInv'
<1>1. TableTypes'
  BY DEF DeskInv, TableTypes, row, copy, today
<1>2. Kept /\ CallSound(c)'
  BY DEF Kept, CallSound, ReadingSound, row, copy
<1>3. VersionsCounted'
  BY UsedGrows DEF DeskInv, TableTypes, VersionsCounted, row
<1>4. CopySound'
  BY DEF DeskInv, CopySound, DropHolds, row, copy
<1>5. ReportsCounted'
  BY ReportsUntouched
<1>6. QED
  BY <1>1, <1>2, <1>3, <1>4, <1>5, RequestStep

(* A step in which a request is answered and leaves nothing behind.        *)
LEMMA EndStep ==
  ASSUME DeskInv, NEW r \in Requests, NEW a \in {"ok", "refused"},
         req' = [req EXCEPT ![r] = [Unused EXCEPT !.at = a]]
  PROVE  /\ Moved(r, [Unused EXCEPT !.at = a])
         /\ CallSound([Unused EXCEPT !.at = a]) /\ [Unused EXCEPT !.at = a].at # "counted"
<1>1. PICK c : c = [Unused EXCEPT !.at = a]
  OBVIOUS
<1>2. c \in Call /\ c.at = a /\ c.waited = 0 /\ c.lag = 0 /\ c.todo = {}
  BY <1>1, UnusedTypes DEF Call
<1>3. Moved(r, c) /\ CallSound(c) /\ c.at # "counted"
  BY <1>1, <1>2, DeskAssumption DEF Moved, CallSound, ReadingSound, DeskAssumption
<1>4. QED
  BY <1>1, <1>3

LEMMA EndsAsUnused ==
  ASSUME DeskInv, NEW r \in Requests, NEW a \in {"ok", "refused"}, BeginEnd(r, a)
  PROVE  req' = [req EXCEPT ![r] = [Unused EXCEPT !.at = a]] /\ req[r].at = "new"
BY UnusedTypes DEF BeginEnd, DeskInv

-----------------------------------------------------------------------------
(* A visitor looks at the profile.                                         *)
LEMMA GetHitStep ==
  ASSUME DeskInv, NEW r \in Requests, GetHit(r), UNCHANGED <<partner, today>>
  PROVE  DeskInv'
<1>1. PICK c : c = [Unused EXCEPT !.at = "ok", !.lag = replaced[cache.version]]
  OBVIOUS
<1>2. cache.version \in Versions
  BY VersionInRange DEF GetHit, DeskInv, TableTypes, CopySound, Entry
<1>3. replaced[cache.version] \in Nat /\ replaced[cache.version] <= CacheTtl + MaxLatency
  BY <1>2, DeskAssumption DEF GetHit, DeskInv, TableTypes, CopySound, Entry, DeskAssumption
<1>4. c \in Call /\ c.at = "ok" /\ c.waited = 0 /\ c.lag = replaced[cache.version]
      /\ c.todo = {}
  BY <1>1, <1>3, UnusedTypes DEF Call
<1>5. Moved(r, c) /\ CallSound(c) /\ c.at # "counted"
  BY <1>1, <1>3, <1>4, DeskAssumption DEF GetHit, Moved, CallSound, ReadingSound, DeskAssumption
<1>6. UNCHANGED <<row, copy, today>> /\ hooks' \in SUBSET Nat
  BY DEF GetHit, partner, DeskInv, TableTypes
<1>7. QED
  BY <1>5, <1>6, QuietStep

LEMMA GetMissStep ==
  ASSUME DeskInv, NEW r \in Requests, GetMiss(r), UNCHANGED <<partner, today>>
  PROVE  DeskInv'
<1>1. PICK c : c = [Unused EXCEPT !.op = "get", !.at = "missed"]
  OBVIOUS
<1>2. c \in Call /\ c.at = "missed" /\ c.waited = 0 /\ c.lag = 0
  BY <1>1, UnusedTypes DEF Call
<1>3. Moved(r, c) /\ CallSound(c) /\ c.at # "counted"
  BY <1>1, <1>2, DeskAssumption DEF GetMiss, Begin, Moved, CallSound, ReadingSound, DeskAssumption
<1>4. UNCHANGED <<row, copy, today>> /\ hooks' \in SUBSET Nat
  BY DEF GetMiss, partner, DeskInv, TableTypes
<1>5. QED
  BY <1>3, <1>4, QuietStep

LEMMA GetRowStep ==
  ASSUME DeskInv, NEW r \in Requests, GetRow(r), UNCHANGED <<partner, today>>
  PROVE  DeskInv'
<1>1. PICK d \in Call : d = req[r] /\ CallSound(d) /\ d.at = "missed"
  BY DEF DeskInv, GetRow
<1>2. PICK c : c = [d EXCEPT !.at = "read", !.version = version]
  OBVIOUS
<1>3. version \in Nat /\ version \in Versions
  BY VersionInRange DEF DeskInv, TableTypes
<1>4. c \in Call /\ c.at = "read" /\ c.version = version /\ c.waited = d.waited /\ c.waited \in Nat
      /\ c.lag = d.lag
  BY <1>1, <1>2, <1>3 DEF Call
<1>5. Moved(r, c)
  BY <1>1, <1>2, <1>4 DEF GetRow, Moved, DeskInv
<1>6. 1 <= version /\ replaced[version] = 0 /\ fresh <= version
  BY <1>3 DEF DeskInv, VersionsCounted, CopySound
<1>7. CallSound(c) /\ c.at # "counted"
  BY <1>1, <1>3, <1>4, <1>6 DEF CallSound, ReadingSound
<1>8. UNCHANGED <<row, copy, today>> /\ hooks' \in SUBSET Nat
  BY DEF GetRow, partner, DeskInv, TableTypes
<1>9. QED
  BY <1>5, <1>7, <1>8, QuietStep

LEMMA GetStoreStep ==
  ASSUME DeskInv, NEW r \in Requests, GetStore(r), UNCHANGED <<partner, today>>
  PROVE  DeskInv'
<1>1. PICK d \in Call : d = req[r] /\ CallSound(d) /\ d.at = "read"
  BY DEF DeskInv, GetStore
<1>2. PICK c : c = [Unused EXCEPT !.at = "ok"]
  OBVIOUS
<1>3. Moved(r, c) /\ CallSound(c) /\ c.at = "ok"
  <2>1. req' = [req EXCEPT ![r] = [Unused EXCEPT !.at = "ok"]]
    BY DEF GetStore, Succeed
  <2>2. c.at = "ok"
    BY <1>2, UnusedTypes DEF Call
  <2>3. QED
    BY <1>2, <2>1, <2>2, EndStep
<1>4. cache' = [version |-> d.version, age |-> 0, crossed |-> d.crossed]
      /\ UNCHANGED <<row, fresh>>
  BY <1>1 DEF GetStore
<1>5. d.version \in Nat /\ d.waited \in Nat /\ d.crossed \in BOOLEAN
      /\ 1 <= d.version /\ d.version <= version
  BY <1>1 DEF Call, CallSound, ReadingSound
<1>6. TableTypes' /\ VersionsCounted'
  BY <1>3, <1>4, <1>5, UsedGrows
     DEF DeskInv, TableTypes, VersionsCounted, Entry, row, partner, today
<1>7. CopySound'
  <2>1. cache'.version = d.version /\ cache'.age = 0 /\ cache'.crossed = d.crossed
    BY <1>4
  <2>2. replaced'[cache'.version] \in Nat /\ replaced'[cache'.version] <= d.waited
    BY <1>1, <1>4, <1>5, <2>1, VersionInRange DEF CallSound, ReadingSound, DeskInv, TableTypes, row
  <2>3. d.waited <= MaxLatency
    BY <1>1 DEF CallSound
  <2>4. cache'.age <= CacheTtl /\ replaced'[cache'.version] <= cache'.age + MaxLatency
    BY <1>5, <2>1, <2>2, <2>3, DeskAssumption DEF DeskAssumption
  <2>5. DropHolds'
    BY <1>1, <1>4, <2>1 DEF CallSound, ReadingSound, DropHolds
  <2>6. QED
    BY <1>4, <1>5, <2>1, <2>4, <2>5 DEF DeskInv, CopySound, row
<1>8. Kept /\ CallSound(c)'
  BY <1>3, <1>4 DEF Kept, CallSound, ReadingSound, row
<1>9. ReportsCounted'
  BY <1>3, ReportsUntouched
<1>10. QED
  BY <1>3, <1>6, <1>7, <1>8, <1>9, RequestStep

(* The row changes.                                                        *)
LEMMA NewVersionStep ==
  ASSUME DeskInv, NEW r \in Requests, NEW c, Moved(r, c), c.at \notin {"counted", "read"},
         req[r].at = "new", NewVersion, UNCHANGED <<copy, partner, today>>, CallSound(c)'
  PROVE  DeskInv'
<1>1. TableTypes'
  BY DEF DeskInv, TableTypes, NewVersion, copy, partner, today
<1>2. VersionsCounted'
  BY UsedGrows DEF DeskInv, TableTypes, VersionsCounted, NewVersion
<1>3. version' = version + 1 /\ version \in Nat /\ UNCHANGED <<replaced, cache, fresh>>
  BY DEF DeskInv, TableTypes, NewVersion, copy
<1>4. CopySound'
  BY <1>3 DEF DeskInv, TableTypes, CopySound, DropHolds, Entry, Versions
<1>5. ASSUME NEW d \in Call, CallSound(d) PROVE CallSound(d)'
  BY <1>3, <1>5 DEF CallSound, ReadingSound, Call
<1>6. ReportsCounted'
  BY ReportsUntouched
<1>7. QED
  BY <1>1, <1>2, <1>4, <1>5, <1>6, RequestStep DEF Kept

LEMMA UpdateRowStep ==
  ASSUME DeskInv, NEW r \in Requests, UpdateRow(r), UNCHANGED <<partner, today>>
  PROVE  DeskInv'
<1>1. PICK c : c = [Unused EXCEPT !.op = "update", !.at = "written", !.version = version + 1]
  OBVIOUS
<1>2. version \in Nat /\ version' = version + 1
  BY DEF DeskInv, TableTypes, UpdateRow, NewVersion
<1>3. c \in Call /\ c.at = "written" /\ c.waited = 0 /\ c.lag = 0 /\ c.version = version'
  <2>1. PICK n \in Nat : n = version + 1
    BY <1>2
  <2>2. QED
    BY <1>1, <1>2, <2>1, UnusedTypes DEF Call
<1>4. Moved(r, c) /\ req[r].at = "new"
  BY <1>1, <1>3, UnusedTypes DEF UpdateRow, Begin, Moved
<1>5. CallSound(c)'
  BY <1>2, <1>3, DeskAssumption DEF CallSound, ReadingSound, DeskAssumption
<1>6. QED
  BY <1>3, <1>4, <1>5, NewVersionStep DEF UpdateRow

LEMMA EditQuietlyStep ==
  ASSUME DeskInv, NEW r \in Requests, EditQuietly(r), UNCHANGED <<partner, today>>
  PROVE  DeskInv'
<1>1. PICK c : c = [Unused EXCEPT !.at = "ok"]
  OBVIOUS
<1>2. Moved(r, c) /\ CallSound(c) /\ c.at = "ok" /\ req[r].at = "new"
  <2>1. c.at = "ok"
    BY <1>1, UnusedTypes DEF Call
  <2>2. QED
    BY <1>1, <2>1, EndsAsUnused, EndStep DEF EditQuietly
<1>3. CallSound(c)'
  BY <1>2 DEF CallSound, ReadingSound
<1>4. QED
  BY <1>2, <1>3, NewVersionStep DEF EditQuietly

(* The entry is dropped, and whoever is between row and entry is crossed.  *)
LEMMA UpdateDropStep ==
  ASSUME DeskInv, NEW r \in Requests, UpdateDrop(r), UNCHANGED <<partner, today>>
  PROVE  DeskInv'
<1>1. PICK d \in Call : d = req[r] /\ CallSound(d) /\ d.at = "written"
  BY DEF DeskInv, UpdateDrop
<1>2. d.version \in Nat /\ d.version <= version /\ version \in Nat /\ fresh \in Nat
  BY <1>1 DEF DeskInv, TableTypes, CallSound, Call
<1>3. UNCHANGED row /\ cache' = NoEntry /\ fresh' \in {fresh, d.version}
  BY <1>1 DEF UpdateDrop, Dropped
<1>4. PICK c : c = [Unused EXCEPT !.at = "ok"]
  OBVIOUS
<1>5. c \in Call /\ c.at = "ok" /\ c.waited = 0 /\ c.lag = 0 /\ c.todo = {}
  BY <1>4, UnusedTypes DEF Call
<1>6. req' = [q \in Requests |->
                IF q = r THEN c ELSE [req[q] EXCEPT !.crossed = @ \/ req[q].at = "read"]]
  BY <1>4 DEF UpdateDrop
<1>7. ASSUME NEW q \in Requests
      PROVE  /\ req'[q] \in Call /\ CallSound(req[q])'
             /\ req'[q].at = "new" <=> req[q].at = "new"
             /\ req'[q].at = "counted" <=> req[q].at = "counted"
  <2>1. PICK n : n = req'[q]
    OBVIOUS
  <2>2. CASE q = r
    <3>1. n = c
      BY <1>6, <2>1, <2>2
    <3>2. CallSound(n)'
      BY <1>5, <3>1, DeskAssumption DEF CallSound, ReadingSound, DeskAssumption
    <3>3. QED
      BY <1>1, <1>5, <2>1, <2>2, <3>1, <3>2
  <2>3. CASE q # r
    <3>1. PICK o \in Call : o = req[q] /\ CallSound(o)
      BY DEF DeskInv
    <3>2. n = [o EXCEPT !.crossed = @ \/ o.at = "read"]
      BY <1>6, <2>1, <2>3, <3>1
    <3>3. PICK b \in BOOLEAN : b = (o.crossed \/ o.at = "read")
      BY Zenon
    <3>4. n = [o EXCEPT !.crossed = b]
      BY <3>1, <3>2, <3>3 DEF Call
    <3>5. n \in Call /\ n.at = o.at /\ n.version = o.version /\ n.waited = o.waited
          /\ n.lag = o.lag /\ n.todo = o.todo /\ n.crossed = b
      BY <3>1, <3>4 DEF Call
    <3>6. n.at = "read" => n.crossed
      BY <3>3, <3>5
    <3>7. CallSound(n)'
      BY <1>3, <3>1, <3>5, <3>6 DEF CallSound, ReadingSound, row
    <3>8. QED
      BY <2>1, <3>1, <3>5, <3>7
  <2>4. QED
    BY <2>2, <2>3
<1>8. Used' = Used /\ Reporting' = Reporting
  BY <1>7 DEF Used, Reporting
<1>9. TableTypes'
  BY <1>2, <1>3 DEF DeskInv, TableTypes, NoEntry, Entry, row, partner, today
<1>10. VersionsCounted' /\ ReportsCounted'
  BY <1>3, <1>8 DEF DeskInv, VersionsCounted, ReportsCounted, row, today
<1>11. CopySound'
  BY <1>2, <1>3 DEF DeskInv, CopySound, DropHolds, row
<1>12. req' \in [Requests -> Call]
  BY <1>6, <1>7
<1>13. QED
  BY <1>7, <1>9, <1>10, <1>11, <1>12 DEF DeskInv

-----------------------------------------------------------------------------
(* Hooks and keys.                                                         *)
LEMMA EndsQuietly ==
  ASSUME DeskInv, NEW r \in Requests, NEW a \in {"ok", "refused"},
         req' = [req EXCEPT ![r] = [Unused EXCEPT !.at = a]],
         UNCHANGED <<row, copy, today>>, hooks' \in SUBSET Nat
  PROVE  DeskInv'
BY EndStep, QuietStep

LEMMA HookSteps ==
  ASSUME DeskInv, NEW r \in Requests, HookRequests(r), UNCHANGED today
  PROVE  DeskInv'
<1>1. r \in Nat /\ hooks \in SUBSET Nat
  BY DeskAssumption DEF DeskAssumption, DeskInv, TableTypes
<1>2. CASE RegisterHook(r)
  <2>1. hooks' \in SUBSET Nat
    BY <1>1, <1>2 DEF RegisterHook
  <2>2. QED
    BY <1>2, <2>1, EndsAsUnused, EndsQuietly DEF RegisterHook
<1>3. CASE Announce(r)
  <2>1. PICK c : c = [Unused EXCEPT !.op = "announce", !.at = "sending", !.todo = hooks]
    OBVIOUS
  <2>2. c \in Call /\ c.at = "sending" /\ c.waited = 0 /\ c.lag = 0
    BY <1>1, <2>1, UnusedTypes DEF Call
  <2>3. Moved(r, c) /\ CallSound(c)
    BY <1>3, <2>1, <2>2, DeskAssumption
       DEF Announce, Begin, Moved, CallSound, ReadingSound, DeskAssumption
  <2>4. QED
    BY <1>1, <1>3, <2>2, <2>3, QuietStep DEF Announce, partner
<1>4. ASSUME NEW h, RemoveHook(r, h) PROVE DeskInv'
  <2>1. hooks' \in SUBSET Nat
    BY <1>1, <1>4 DEF RemoveHook
  <2>2. PICK a \in {"ok", "refused"} : BeginEnd(r, a)
    BY <1>4 DEF RemoveHook
  <2>3. QED
    BY <1>4, <2>1, <2>2, EndsAsUnused, EndsQuietly DEF RemoveHook
<1>5. QED
  BY <1>2, <1>3, <1>4 DEF HookRequests

LEMMA KeySteps ==
  ASSUME DeskInv, NEW r \in Requests, KeyRequests(r), UNCHANGED today
  PROVE  DeskInv'
<1>1. r \in Nat /\ hooks \in SUBSET Nat
  BY DeskAssumption DEF DeskAssumption, DeskInv, TableTypes
<1>2. CASE CreateKey(r)
  BY <1>1, <1>2, EndsAsUnused, EndsQuietly DEF CreateKey
<1>3. ASSUME NEW k, DeleteKey(r, k) PROVE DeskInv'
  BY <1>1, <1>3, EndsAsUnused, EndsQuietly DEF DeleteKey
<1>4. ASSUME NEW k \in Nat, UseKey(r, k) PROVE DeskInv'
  <2>1. UNCHANGED <<row, copy, today>> /\ hooks' \in SUBSET Nat
    BY <1>1, <1>4 DEF UseKey, partner
  <2>2. CASE k \in apiKeys
    <3>1. PICK c : c = [Unused EXCEPT !.op = "use", !.at = "found", !.key = k]
      OBVIOUS
    <3>2. c \in Call /\ c.at = "found" /\ c.waited = 0 /\ c.lag = 0
      BY <1>4, <3>1, UnusedTypes DEF Call
    <3>3. Moved(r, c) /\ CallSound(c)
      BY <1>4, <2>2, <3>1, <3>2, DeskAssumption
         DEF UseKey, Begin, Moved, CallSound, ReadingSound, DeskAssumption
    <3>4. QED
      BY <2>1, <3>2, <3>3, QuietStep
  <2>3. CASE k \notin apiKeys
    BY <1>4, <2>1, <2>3, EndsAsUnused, EndsQuietly DEF UseKey
  <2>4. QED
    BY <2>2, <2>3
<1>5. {0} \union Requests \subseteq Nat
  BY DeskAssumption DEF DeskAssumption
<1>6. QED
  BY <1>2, <1>3, <1>4, <1>5 DEF KeyRequests, Numbers

LEMMA SendStep ==
  ASSUME DeskInv, NEW r \in Requests, NEW h, Send(r, h), UNCHANGED today
  PROVE  DeskInv'
<1>1. PICK d \in Call : d = req[r] /\ CallSound(d) /\ d.at = "sending"
  BY DEF DeskInv, Send
<1>2. PICK c : c = [d EXCEPT !.todo = d.todo \ {h}]
  OBVIOUS
<1>3. c \in Call /\ c.at = "sending" /\ c.waited = d.waited /\ c.lag = d.lag
  BY <1>1, <1>2 DEF Call
<1>4. Moved(r, c)
  BY <1>1, <1>2, <1>3 DEF Send, Sent, Moved, DeskInv
<1>5. CallSound(c)
  BY <1>1, <1>3 DEF CallSound, ReadingSound
<1>6. QED
  BY <1>3, <1>4, <1>5, QuietStep DEF Send, partner, DeskInv, TableTypes

LEMMA AnnounceEndsStep ==
  ASSUME DeskInv, NEW r \in Requests, AnnounceEnds(r), UNCHANGED today
  PROVE  DeskInv'
<1>1. req' = [req EXCEPT ![r] = [Unused EXCEPT !.at = "ok"]]
  BY UnusedTypes DEF AnnounceEnds, Succeed, Unused
<1>2. QED
  BY <1>1, EndsQuietly DEF AnnounceEnds, partner, DeskInv, TableTypes

LEMMA TouchKeyStep ==
  ASSUME DeskInv, NEW r \in Requests, TouchKey(r), UNCHANGED today
  PROVE  DeskInv'
<1>1. UNCHANGED <<row, copy, today>> /\ hooks' \in SUBSET Nat
  BY DEF TouchKey, partner, DeskInv, TableTypes
<1>2. Succeed(r, Unused) \/ Throw(r)
  BY DEF TouchKey
<1>3. QED
  BY <1>1, <1>2, EndsQuietly DEF Succeed, Throw

-----------------------------------------------------------------------------
(* The reports of a user.                                                  *)
LEMMA ReportsSame ==
  ASSUME DeskInv, NEW r \in Requests, NEW c, Moved(r, c), CallSound(c),
         UNCHANGED <<row, copy, partner>>, reports' \in Nat, crowd' \in Nat, ReportsCounted'
  PROVE  DeskInv'
<1>1. TableTypes'
  BY DEF DeskInv, TableTypes, row, copy, partner
<1>2. Kept /\ CallSound(c)'
  BY DEF Kept, CallSound, ReadingSound, row, copy
<1>3. VersionsCounted'
  BY UsedGrows DEF DeskInv, TableTypes, VersionsCounted, row
<1>4. CopySound'
  BY DEF DeskInv, CopySound, DropHolds, row, copy
<1>5. QED
  BY <1>1, <1>2, <1>3, <1>4, RequestStep

LEMMA ReportCountStep ==
  ASSUME DeskInv, NEW r \in Requests, ReportCount(r)
  PROVE  DeskInv'
<1>1. Reporting \in SUBSET Requests /\ Reporting \cup {r} \in SUBSET Requests
      /\ Reporting \in SUBSET (Reporting \cup {r})
  BY DEF Reporting
<1>2. PICK n \in Nat, m \in Nat :
        n = Cardinality(Reporting) /\ m = Cardinality(Reporting \cup {r}) /\ n <= m
  BY <1>1, Counts, MoreCounts
<1>3. reports \in Nat /\ crowd \in Nat /\ crowd' \in Nat /\ reports' = reports
      /\ crowd' >= crowd /\ crowd' >= m
  BY <1>2 DEF DeskInv, TableTypes, ReportCount
<1>4. UNCHANGED <<row, copy, partner>>
  BY DEF ReportCount
<1>5. DailyReports \in Nat /\ DailyReports >= 1
  BY DeskAssumption DEF DeskAssumption
<1>6. CASE LimitReached
  <2>1. BeginEnd(r, "refused")
    BY <1>6 DEF ReportCount
  <2>2. PICK c : c = [Unused EXCEPT !.at = "refused"]
    OBVIOUS
  <2>3. Moved(r, c) /\ CallSound(c) /\ c.at # "counted"
    BY <2>1, <2>2, EndsAsUnused, EndStep
  <2>4. Reporting' \in SUBSET Reporting
    BY <2>3 DEF Moved, Reporting, DeskInv
  <2>5. Cardinality(Reporting') \in Nat /\ Cardinality(Reporting') <= n
    BY <1>1, <1>2, <2>4, Counts, MoreCounts
  <2>6. n <= crowd /\ reports + n <= DailyReports + (IF crowd > 0 THEN crowd - 1 ELSE 0)
    BY <1>2 DEF DeskInv, ReportsCounted
  <2>7. ReportsCounted'
    BY <1>3, <1>5, <2>5, <2>6 DEF ReportsCounted
  <2>8. QED
    BY <1>3, <1>4, <2>3, <2>7, ReportsSame
<1>7. CASE ~LimitReached
  <2>1. PICK c : c = [Unused EXCEPT !.op = "report", !.at = "counted"]
    OBVIOUS
  <2>2. c \in Call /\ c.at = "counted" /\ c.waited = 0 /\ c.lag = 0
    BY <2>1, UnusedTypes DEF Call
  <2>3. Moved(r, c) /\ CallSound(c) /\ req[r].at = "new"
    BY <1>7, <2>1, <2>2, UnusedTypes, DeskAssumption
       DEF ReportCount, Begin, Moved, CallSound, ReadingSound, DeskAssumption
  <2>4. Reporting' = Reporting \cup {r} /\ r \notin Reporting
    BY <2>2, <2>3 DEF Moved, Reporting, DeskInv
  <2>5. m = n + 1 /\ Cardinality(Reporting') = m
    BY <1>1, <1>2, <2>4, Counts, FS_AddElement
  <2>6. reports < DailyReports
    BY <1>3, <1>5, <1>7 DEF LimitReached
  <2>7. ReportsCounted'
    BY <1>2, <1>3, <1>5, <2>5, <2>6 DEF ReportsCounted
  <2>8. QED
    BY <1>3, <1>4, <2>3, <2>7, ReportsSame
<1>8. QED
  BY <1>6, <1>7

LEMMA ReportCreateStep ==
  ASSUME DeskInv, NEW r \in Requests, ReportCreate(r)
  PROVE  DeskInv'
<1>1. PICK c : c = [Unused EXCEPT !.at = "ok"]
  OBVIOUS
<1>2. Moved(r, c) /\ CallSound(c) /\ c.at # "counted"
  BY <1>1, EndStep DEF ReportCreate, Succeed
<1>3. Reporting' = Reporting \ {r} /\ r \in Reporting /\ Reporting \in SUBSET Requests
  BY <1>2 DEF ReportCreate, Moved, Reporting, DeskInv
<1>4. PICK n \in Nat : n = Cardinality(Reporting) /\ Cardinality(Reporting') = n - 1
  BY <1>3, Counts, FS_RemoveElement
<1>5. reports \in Nat /\ crowd \in Nat /\ reports' = reports + 1 /\ crowd' = crowd
  BY DEF DeskInv, TableTypes, ReportCreate
<1>6. n <= crowd /\ reports + n <= DailyReports + (IF crowd > 0 THEN crowd - 1 ELSE 0)
  BY <1>4 DEF DeskInv, ReportsCounted
<1>7. DailyReports \in Nat
  BY DeskAssumption DEF DeskAssumption
<1>8. ReportsCounted'
  BY <1>4, <1>5, <1>6, <1>7 DEF ReportsCounted
<1>9. QED
  BY <1>2, <1>5, <1>8, ReportsSame DEF ReportCreate

LEMMA ThrowStep ==
  ASSUME DeskInv, NEW r \in Requests, ReportRefused(r) \/ RequestFails(r)
  PROVE  DeskInv'
BY EndsQuietly DEF ReportRefused, RequestFails, Throw, partner, DeskInv, TableTypes

-----------------------------------------------------------------------------
(* Time passes: what has been replaced, what is cached and what a request  *)
(* has read age together.                                                  *)
LEMMA TickStep ==
  ASSUME DeskInv, Tick
  PROVE  DeskInv'
<1>1. version \in Nat /\ version \in Versions /\ UNCHANGED <<version, fresh, partner>>
  BY VersionInRange DEF DeskInv, TableTypes, Tick, ProfileTick
<1>2. CacheTtl \in Nat /\ MaxLatency \in Nat /\ DailyReports \in Nat \ {0}
  BY DeskAssumption DEF DeskAssumption
<1>3. /\ replaced' \in [Versions -> Nat]
      /\ \A v \in Versions : replaced[v] \in Nat /\ replaced'[v] <= replaced[v] + 1
      /\ \A v \in Versions : v >= version => replaced'[v] = replaced[v]
  BY <1>1, <1>2 DEF DeskInv, TableTypes, Tick, ProfileTick, AgedRow, Versions
<1>4. \/ cache' = NoEntry
      \/ /\ cache # NoEntry /\ cache.age # CacheTtl
         /\ cache' = [cache EXCEPT !.age = @ + 1]
  BY DEF Tick, ProfileTick, AgedEntry
<1>5. cache' \in Entry /\ CopySound'
  <2>1. CASE cache' = NoEntry
    BY <1>1, <1>3, <2>1 DEF DeskInv, CopySound, DropHolds, NoEntry, Entry
  <2>2. CASE /\ cache # NoEntry /\ cache.age # CacheTtl
             /\ cache' = [cache EXCEPT !.age = @ + 1]
    <3>1. PICK a \in Nat : a = cache.age /\ cache' = [cache EXCEPT !.age = a + 1]
      BY <2>2 DEF DeskInv, TableTypes, Entry
    <3>2. PICK b \in Nat : b = a + 1
      BY <3>1
    <3>3. cache' \in Entry /\ cache'.version = cache.version /\ cache'.crossed = cache.crossed
          /\ cache'.age = b
      BY <3>1, <3>2 DEF DeskInv, TableTypes, Entry
    <3>4. cache.version \in Nat /\ 1 <= cache.version /\ cache.version <= version
          /\ a <= CacheTtl /\ replaced[cache.version] <= a + MaxLatency
      BY <2>2, <3>1 DEF DeskInv, TableTypes, CopySound, Entry
    <3>5. cache.version \in Versions
      BY <3>4, VersionInRange
    <3>6. b <= CacheTtl /\ replaced'[cache.version] <= b + MaxLatency
      BY <1>2, <1>3, <2>2, <3>1, <3>2, <3>4, <3>5
    <3>7. DropHolds'
      BY <1>1, <2>2, <3>3 DEF DeskInv, CopySound, DropHolds
    <3>8. QED
      BY <1>1, <1>3, <3>3, <3>4, <3>6, <3>7 DEF DeskInv, CopySound
  <2>3. QED
    BY <1>4, <2>1, <2>2
<1>6. ASSUME NEW q \in Requests
      PROVE  /\ req'[q] \in Call /\ CallSound(req[q])'
             /\ req'[q].at = req[q].at
  <2>1. PICK o \in Call : o = req[q] /\ CallSound(o)
    BY DEF DeskInv
  <2>2. PICK n : n = req'[q]
    OBVIOUS
  <2>3. CASE InProgress(q)
    <3>1. o.waited \in Nat /\ o.waited < MaxLatency
      BY <2>1, <2>3 DEF Tick, ProfileTick, Call
    <3>2. PICK w \in Nat : w = o.waited + 1
      BY <3>1
    <3>3. n = [o EXCEPT !.waited = w]
      BY <2>1, <2>2, <2>3, <3>2 DEF Tick, ProfileTick
    <3>4. n \in Call /\ n.at = o.at /\ n.version = o.version /\ n.crossed = o.crossed
          /\ n.lag = o.lag /\ n.todo = o.todo /\ n.waited = w
      BY <2>1, <3>3 DEF Call
    <3>5. w <= MaxLatency
      BY <1>2, <3>1, <3>2
    <3>6. ReadingSound(n)'
      <4>1. CASE n.at # "read"
        BY <4>1 DEF ReadingSound
      <4>2. CASE n.at = "read"
        <5>1. o.version \in Nat /\ 1 <= o.version /\ o.version <= version
              /\ replaced[o.version] <= o.waited /\ (~o.crossed => o.version >= fresh)
          BY <2>1, <3>4, <4>2 DEF CallSound, ReadingSound, Call
        <5>2. o.version \in Versions
          BY <5>1, VersionInRange
        <5>3. replaced'[o.version] <= w
          BY <1>3, <3>1, <3>2, <5>1, <5>2
        <5>4. QED
          BY <1>1, <3>4, <5>1, <5>3 DEF ReadingSound
      <4>3. QED
        BY <4>1, <4>2
    <3>7. CallSound(n)'
      BY <1>1, <2>1, <3>4, <3>5, <3>6 DEF CallSound
    <3>8. QED
      BY <2>1, <2>2, <3>4, <3>7
  <2>4. CASE ~InProgress(q)
    <3>1. n = o /\ o.at # "read"
      BY <2>1, <2>2, <2>4 DEF Tick, ProfileTick, InProgress
    <3>2. CallSound(n)'
      BY <1>1, <2>1, <3>1 DEF CallSound, ReadingSound
    <3>3. QED
      BY <2>1, <2>2, <3>1, <3>2
  <2>5. QED
    BY <2>3, <2>4
<1>7. Used' = Used /\ Reporting' = Reporting
  BY <1>6 DEF Used, Reporting
<1>8. TableTypes' /\ ReportsCounted'
  <2>1. PICK n \in Nat : n = Cardinality(Reporting)
    BY Counts DEF Reporting
  <2>2. CASE UNCHANGED today
    BY <1>1, <1>3, <1>5, <1>7, <2>2 DEF DeskInv, TableTypes, ReportsCounted, partner, today
  <2>3. CASE reports' = 0 /\ crowd' = n
    <3>1. Cardinality(Reporting') = n
      BY <1>7, <2>1
    <3>2. 0 + n <= DailyReports + (IF n > 0 THEN n - 1 ELSE 0)
      BY <1>2
    <3>3. QED
      BY <1>1, <1>3, <1>5, <2>3, <3>1, <3>2 DEF DeskInv, TableTypes, ReportsCounted, partner
  <2>4. QED
    BY <2>1, <2>2, <2>3 DEF Tick
<1>9. VersionsCounted'
  BY <1>1, <1>7 DEF DeskInv, VersionsCounted
<1>10. req' \in [Requests -> Call]
  <2>1. DOMAIN req' = Requests
    BY DEF Tick, ProfileTick
  <2>2. req' = [q \in Requests |-> req'[q]]
    BY <2>1 DEF Tick, ProfileTick
  <2>3. QED
    BY <1>6, <2>2
<1>11. QED
  BY <1>5, <1>6, <1>8, <1>9, <1>10 DEF DeskInv

-----------------------------------------------------------------------------
LEMMA DeskInit == Init => DeskInv
<1> SUFFICES ASSUME Init PROVE DeskInv
  OBVIOUS
<1>1. req = [r \in Requests |-> Unused] /\ version = 1 /\ fresh = 1
      /\ replaced = [v \in Versions |-> 0] /\ cache = NoEntry /\ hooks = {0}
      /\ reports = 0 /\ crowd = 0
  BY DEF Init, ProfileInit, PartnerInit, Versions
<1>2. Used = {} /\ Reporting = {} /\ Cardinality(Used) = 0 /\ Cardinality(Reporting) = 0
  BY <1>1, UnusedTypes, FS_EmptySet DEF Used, Reporting
<1>3. TableTypes
  BY <1>1 DEF TableTypes, NoEntry, Entry
<1>4. VersionsCounted /\ ReportsCounted
  BY <1>1, <1>2, DeskAssumption DEF VersionsCounted, ReportsCounted, DeskAssumption
<1>5. CopySound
  BY <1>1 DEF CopySound, DropHolds
<1>6. CallSound(Unused)
  BY UnusedTypes, DeskAssumption DEF CallSound, ReadingSound, DeskAssumption
<1>7. QED
  BY <1>1, <1>3, <1>4, <1>5, <1>6, UnusedTypes DEF DeskInv

LEMMA DeskStays == DeskInv /\ UNCHANGED deskVars => DeskInv'
BY DEF deskVars, partner, DeskInv, TableTypes, VersionsCounted, CopySound, ReportsCounted, DropHolds, CallSound,
       ReadingSound, Used, Reporting

LEMMA DeskNext == DeskInv /\ [Next]_deskVars => DeskInv'
<1> SUFFICES ASSUME DeskInv, [Next]_deskVars PROVE DeskInv'
  OBVIOUS
<1>1. CASE Tick
  BY <1>1, TickStep
<1>2. ASSUME NEW r \in Requests, Step(r) PROVE DeskInv'
  <2>1. CASE ProfileSteps(r) /\ UNCHANGED <<partner, today>>
    BY <2>1, GetRowStep, GetStoreStep, UpdateDropStep DEF ProfileSteps
  <2>2. CASE PartnerSteps(r) /\ UNCHANGED today
    BY <2>2, SendStep, AnnounceEndsStep, TouchKeyStep DEF PartnerSteps
  <2>3. CASE ReportCreate(r) \/ ReportRefused(r) \/ RequestFails(r)
    BY <2>3, ReportCreateStep, ThrowStep
  <2>4. QED
    BY <1>2, <2>1, <2>2, <2>3 DEF Step
<1>3. ASSUME NEW r \in Requests, Arrive(r) PROVE DeskInv'
  <2>1. CASE ProfileRequests(r) /\ UNCHANGED <<partner, today>>
    BY <2>1, GetHitStep, GetMissStep, UpdateRowStep, EditQuietlyStep DEF ProfileRequests
  <2>2. CASE PartnerRequests(r) /\ UNCHANGED today
    BY <2>2, HookSteps, KeySteps DEF PartnerRequests
  <2>3. CASE ReportCount(r)
    BY <2>3, ReportCountStep
  <2>4. QED
    BY <1>3, <2>1, <2>2, <2>3 DEF Arrive
<1>4. CASE UNCHANGED deskVars
  BY <1>4, DeskStays
<1>5. QED
  BY <1>1, <1>2, <1>3, <1>4 DEF Next

(* The inductive invariant holds in every state of every run.              *)
LEMMA DeskHolds == Spec => []DeskInv
BY DeskInit, DeskNext, PTL DEF Spec

(* XCacheInterceptor: what a visitor is shown was the row at most the      *)
(* entry's lifetime and one request ago, and is no older than an update    *)
(* that dropped the entry before the row was read.                         *)
THEOREM CacheSound == Spec => []ProfileFresh
<1>1. DeskInv => ProfileFresh
  BY DEF DeskInv, CopySound, CallSound, ProfileFresh, StaleEndsSoon
<1>2. QED
  BY <1>1, DeskHolds, PTL

(* submitReport: a day's reports exceed the limit by no more than the      *)
(* requests that were in progress together.                                *)
THEOREM ReportsSound == Spec => []ReportsBounded
<1>1. ASSUME DeskInv PROVE ReportsBounded
  <2>1. Cardinality(Reporting) \in Nat
    BY Counts DEF Reporting
  <2>2. QED
    BY <1>1, <2>1, DeskAssumption
       DEF DeskInv, TableTypes, ReportsCounted, ReportsBounded, DeskAssumption
<1>2. QED
  BY <1>1, DeskHolds, PTL

-----------------------------------------------------------------------------
(* A removed hook.  Each announcement that was still to call it at its     *)
(* removal is one call that it may yet get, and no announcement joins.     *)
HookSound(h) ==
  /\ h \in hooks => heard[h] = 0
  /\ h \notin hooks => heard[h] + Cardinality(Calling(h)) <= listing[h]
  /\ h \in Requests /\ req[h].at = "new" => h \notin hooks /\ listing[h] = 0

HookInv ==
  /\ listing \in [Numbers -> Nat] /\ heard \in [Numbers -> Nat]
  /\ \A h \in Numbers : HookSound(h)

(* Nothing to call joins, and no request is new again.                     *)
Fades(q) == req'[q].todo \subseteq req[q].todo /\ (req'[q].at = "new" => req[q].at = "new")

LEMMA CallingCounts ==
  ASSUME NEW h
  PROVE  IsFiniteSet(Calling(h)) /\ Cardinality(Calling(h)) \in Nat
<1>1. Calling(h) \in SUBSET Requests
  BY DEF Calling
<1>2. QED
  BY <1>1, Counts

LEMMA FadingStep ==
  ASSUME DeskInv, HookInv, \A q \in Requests : Fades(q), UNCHANGED <<hooks, listing, heard>>
  PROVE  HookInv'
<1>1. ASSUME NEW h \in Numbers PROVE HookSound(h)'
  <2>1. Calling(h) \in SUBSET Requests /\ Calling(h)' \in SUBSET Calling(h)
    BY DEF Calling, Fades
  <2>2. PICK n \in Nat, m \in Nat :
          n = Cardinality(Calling(h)) /\ m = Cardinality(Calling(h)') /\ m <= n
    BY <2>1, Counts, MoreCounts
  <2>3. heard[h] \in Nat /\ listing[h] \in Nat /\ HookSound(h)
    BY DEF HookInv
  <2>4. h \notin hooks => heard[h] + m <= listing[h]
    BY <2>2, <2>3 DEF HookSound
  <2>5. h \in Requests /\ req'[h].at = "new" => req[h].at = "new"
    BY DEF Fades
  <2>6. QED
    BY <2>2, <2>3, <2>4, <2>5 DEF HookSound
<1>2. QED
  BY <1>1 DEF HookInv

LEMMA OneFades ==
  ASSUME DeskInv, NEW r \in Requests, NEW c, c.todo \subseteq req[r].todo, c.at # "new",
         req' = [req EXCEPT ![r] = c]
  PROVE  \A q \in Requests : Fades(q)
BY DEF DeskInv, Fades

LEMMA EndFades ==
  ASSUME DeskInv, NEW r \in Requests, NEW a \in {"ok", "refused"},
         req' = [req EXCEPT ![r] = [Unused EXCEPT !.at = a]]
  PROVE  \A q \in Requests : Fades(q)
<1>1. PICK c : c = [Unused EXCEPT !.at = a]
  OBVIOUS
<1>2. c.at # "new" /\ c.todo = {}
  BY <1>1 DEF Unused
<1>3. QED
  BY <1>1, <1>2, OneFades

LEMMA BeginEndFades ==
  ASSUME DeskInv, NEW r \in Requests, NEW a \in {"ok", "refused"}, BeginEnd(r, a)
  PROVE  \A q \in Requests : Fades(q)
BY EndsAsUnused, EndFades

LEMMA ProfileFades ==
  ASSUME DeskInv, NEW r \in Requests, ProfileSteps(r) \/ ProfileRequests(r)
  PROVE  \A q \in Requests : Fades(q)
<1>1. CASE GetRow(r)
  <2>1. PICK d \in Call : d = req[r]
    BY DEF DeskInv
  <2>2. PICK c : c = [d EXCEPT !.at = "read", !.version = version]
    OBVIOUS
  <2>3. c.at = "read" /\ c.todo = d.todo
    BY <2>1, <2>2 DEF Call
  <2>4. req' = [req EXCEPT ![r] = c]
    BY <1>1, <2>1, <2>2 DEF GetRow, DeskInv
  <2>5. QED
    BY <2>1, <2>3, <2>4, OneFades
<1>2. CASE GetStore(r)
  BY <1>2, EndFades DEF GetStore, Succeed
<1>3. CASE UpdateDrop(r)
  <2>1. PICK c : c = [Unused EXCEPT !.at = "ok"]
    OBVIOUS
  <2>2. c.at = "ok" /\ c.todo = {}
    BY <2>1 DEF Unused
  <2>3. ASSUME NEW q \in Requests, q # r PROVE Fades(q)
    <3>1. PICK d \in Call : d = req[q]
      BY DEF DeskInv
    <3>2. PICK b : b = (d.crossed \/ d.at = "read")
      OBVIOUS
    <3>3. req'[q] = [d EXCEPT !.crossed = b]
      BY <1>3, <2>3, <3>1, <3>2 DEF UpdateDrop, Call
    <3>4. req'[q].at = d.at /\ req'[q].todo = d.todo
      BY <3>1, <3>3 DEF Call
    <3>5. QED
      BY <3>1, <3>4 DEF Fades
  <2>4. req'[r] = c
    BY <1>3, <2>1 DEF UpdateDrop
  <2>5. Fades(r)
    BY <2>2, <2>4 DEF Fades
  <2>6. QED
    BY <2>3, <2>5
<1>4. CASE GetHit(r)
  <2>1. PICK n : n = replaced[cache.version]
    OBVIOUS
  <2>2. PICK c : c = [Unused EXCEPT !.at = "ok", !.lag = n]
    OBVIOUS
  <2>3. c.at = "ok" /\ c.todo = {}
    BY <2>2 DEF Unused
  <2>4. req' = [req EXCEPT ![r] = c]
    BY <1>4, <2>1, <2>2 DEF GetHit
  <2>5. QED
    BY <2>3, <2>4, OneFades
<1>5. CASE GetMiss(r)
  <2>1. PICK c : c = [Unused EXCEPT !.op = "get", !.at = "missed"]
    OBVIOUS
  <2>2. c.at = "missed" /\ c.todo = {}
    BY <2>1 DEF Unused
  <2>3. QED
    BY <1>5, <2>1, <2>2, OneFades DEF GetMiss, Begin
<1>6. CASE UpdateRow(r)
  <2>1. PICK n : n = version + 1
    OBVIOUS
  <2>2. PICK c : c = [Unused EXCEPT !.op = "update", !.at = "written", !.version = n]
    OBVIOUS
  <2>3. c.at = "written" /\ c.todo = {}
    BY <2>2 DEF Unused
  <2>4. QED
    BY <1>6, <2>1, <2>2, <2>3, OneFades DEF UpdateRow, Begin
<1>7. CASE EditQuietly(r)
  BY <1>7, BeginEndFades DEF EditQuietly
<1>8. QED
  BY <1>1, <1>2, <1>3, <1>4, <1>5, <1>6, <1>7 DEF ProfileSteps, ProfileRequests

LEMMA KeyFades ==
  ASSUME DeskInv, NEW r \in Requests, KeyRequests(r) \/ TouchKey(r)
  PROVE  (\A q \in Requests : Fades(q)) /\ UNCHANGED <<hooks, listing, heard>>
<1>1. CASE TouchKey(r)
  <2>1. Succeed(r, Unused) \/ Throw(r)
    BY <1>1 DEF TouchKey
  <2>2. QED
    BY <1>1, <2>1, EndFades DEF TouchKey, Succeed, Throw, partner
<1>2. CASE CreateKey(r)
  BY <1>2, BeginEndFades DEF CreateKey
<1>3. ASSUME NEW k, DeleteKey(r, k)
      PROVE  (\A q \in Requests : Fades(q)) /\ UNCHANGED <<hooks, listing, heard>>
  BY <1>3, BeginEndFades DEF DeleteKey
<1>4. ASSUME NEW k, UseKey(r, k)
      PROVE  (\A q \in Requests : Fades(q)) /\ UNCHANGED <<hooks, listing, heard>>
  <2>1. UNCHANGED <<hooks, listing, heard>>
    BY <1>4 DEF UseKey, partner
  <2>2. CASE k \in apiKeys
    <3>1. PICK c : c = [Unused EXCEPT !.op = "use", !.at = "found", !.key = k]
      OBVIOUS
    <3>2. c.at = "found" /\ c.todo = {}
      BY <3>1 DEF Unused
    <3>3. req' = [req EXCEPT ![r] = c]
      BY <1>4, <2>2, <3>1 DEF UseKey, Begin
    <3>4. QED
      BY <2>1, <3>2, <3>3, OneFades
  <2>3. CASE k \notin apiKeys
    BY <1>4, <2>1, <2>3, BeginEndFades DEF UseKey
  <2>4. QED
    BY <2>2, <2>3
<1>5. QED
  BY <1>1, <1>2, <1>3, <1>4 DEF KeyRequests

LEMMA ReportFades ==
  ASSUME DeskInv, NEW r \in Requests,
         ReportCount(r) \/ ReportCreate(r) \/ ReportRefused(r) \/ RequestFails(r)
  PROVE  (\A q \in Requests : Fades(q)) /\ UNCHANGED partner
<1>1. UNCHANGED partner
  BY DEF ReportCount, ReportCreate, ReportRefused, RequestFails
<1>2. CASE BeginEnd(r, "refused")
  BY <1>1, <1>2, BeginEndFades
<1>3. CASE Begin(r, [Unused EXCEPT !.op = "report", !.at = "counted"])
  <2>1. PICK c : c = [Unused EXCEPT !.op = "report", !.at = "counted"]
    OBVIOUS
  <2>2. c.at = "counted" /\ c.todo = {}
    BY <2>1 DEF Unused
  <2>3. QED
    BY <1>1, <1>3, <2>1, <2>2, OneFades DEF Begin
<1>4. CASE Succeed(r, Unused) \/ Throw(r)
  BY <1>1, <1>4, EndFades DEF Succeed, Throw
<1>5. QED
  BY <1>2, <1>3, <1>4 DEF ReportCount, ReportCreate, ReportRefused, RequestFails

LEMMA TickFades ==
  ASSUME DeskInv, Tick
  PROVE  (\A q \in Requests : Fades(q)) /\ UNCHANGED partner
<1>1. ASSUME NEW q \in Requests PROVE Fades(q)
  <2>1. PICK d \in Call : d = req[q]
    BY DEF DeskInv
  <2>2. PICK n : n = d.waited + 1
    OBVIOUS
  <2>3. req'[q] = d \/ req'[q] = [d EXCEPT !.waited = n]
    BY <2>1, <2>2 DEF Tick, ProfileTick
  <2>4. req'[q].at = d.at /\ req'[q].todo = d.todo
    BY <2>1, <2>3 DEF Call
  <2>5. QED
    BY <2>1, <2>4 DEF Fades
<1>2. QED
  BY <1>1 DEF Tick

(* A request of the hooks: only its own request and its hook change.       *)
LEMMA HookRequestStep ==
  ASSUME DeskInv, HookInv, NEW r \in Requests, HookRequests(r)
  PROVE  HookInv'
<1>1. req[r] = Unused /\ req[r].at = "new" /\ req[r].todo = {}
  BY DEF HookRequests, RegisterHook, Announce, RemoveHook, Begin, BeginEnd, Unused
<1>2. r \in Numbers /\ req \in [Requests -> Call]
  BY DEF Numbers, DeskInv
<1>3. CASE RegisterHook(r)
  <2>1. /\ \A q \in Requests : Fades(q)
        /\ hooks' = hooks \union {r} /\ UNCHANGED <<listing, heard>>
    BY <1>3, BeginEndFades DEF RegisterHook
  <2>2. req'[r].at = "ok"
    BY <1>2, <1>3 DEF RegisterHook, BeginEnd, Call
  <2>3. heard[r] = 0
    <3>1. PICK n \in Nat : n = Cardinality(Calling(r))
      BY CallingCounts
    <3>2. heard[r] \in Nat /\ heard[r] + n <= 0
      BY <1>1, <1>2, <3>1 DEF HookInv, HookSound
    <3>3. QED
      BY <3>2
  <2>4. ASSUME NEW h \in Numbers PROVE HookSound(h)'
    <3>1. CASE h = r
      BY <2>1, <2>2, <2>3, <3>1 DEF HookSound
    <3>2. CASE h # r
      <4>1. Calling(h) \in SUBSET Requests /\ Calling(h)' \in SUBSET Calling(h)
        BY <2>1 DEF Calling, Fades
      <4>2. PICK n \in Nat, m \in Nat :
              n = Cardinality(Calling(h)) /\ m = Cardinality(Calling(h)') /\ m <= n
        BY <4>1, Counts, MoreCounts
      <4>3. heard[h] \in Nat /\ listing[h] \in Nat /\ HookSound(h)
        BY DEF HookInv
      <4>4. h \notin hooks => heard[h] + m <= listing[h]
        BY <4>2, <4>3 DEF HookSound
      <4>5. h \in Requests /\ req'[h].at = "new" => req[h].at = "new"
        BY <2>1 DEF Fades
      <4>6. QED
        BY <2>1, <3>2, <4>2, <4>3, <4>4, <4>5 DEF HookSound
    <3>3. QED
      BY <3>1, <3>2
  <2>5. QED
    BY <2>1, <2>4 DEF HookInv
<1>4. CASE Announce(r)
  <2>1. PICK c : c = [Unused EXCEPT !.op = "announce", !.at = "sending", !.todo = hooks]
    OBVIOUS
  <2>2. c.at = "sending" /\ c.todo = hooks
    BY <2>1 DEF Unused
  <2>3. req' = [req EXCEPT ![r] = c] /\ UNCHANGED <<hooks, listing, heard>>
    BY <1>4, <2>1 DEF Announce, Begin, partner
  <2>4. req'[r] = c /\ \A q \in Requests : q # r => req'[q] = req[q]
    BY <1>2, <2>3
  <2>5. ASSUME NEW h \in Numbers PROVE HookSound(h)'
    <3>1. HookSound(h)
      BY DEF HookInv
    <3>2. h \notin hooks => Calling(h)' = Calling(h)
      BY <1>1, <2>2, <2>4 DEF Calling
    <3>3. h \in Requests /\ req'[h].at = "new" => req[h].at = "new"
      BY <2>2, <2>4
    <3>4. QED
      BY <2>3, <3>1, <3>2, <3>3 DEF HookSound
  <2>6. QED
    BY <2>3, <2>5 DEF HookInv
<1>5. ASSUME NEW x \in Numbers, RemoveHook(r, x) PROVE HookInv'
  <2>1. /\ \A q \in Requests : Fades(q)
        /\ hooks' = hooks \ {x} /\ UNCHANGED heard
    BY <1>5, BeginEndFades DEF RemoveHook
  <2>2. CASE x \notin hooks
    <3>1. UNCHANGED <<hooks, listing, heard>>
      BY <1>5, <2>1, <2>2 DEF RemoveHook
    <3>2. QED
      BY <2>1, <3>1, FadingStep
  <2>3. CASE x \in hooks
    <3>1. PICK n \in Nat : n = Cardinality(Calling(x))
      BY CallingCounts
    <3>2. listing' = [listing EXCEPT ![x] = n] /\ listing' \in [Numbers -> Nat]
      BY <1>5, <2>3, <3>1 DEF RemoveHook, HookInv
    <3>3. heard[x] = 0 /\ (x \in Requests => req[x].at # "new")
      BY <1>5, <2>3 DEF HookInv, HookSound
    <3>4. ASSUME NEW h \in Numbers PROVE HookSound(h)'
      <4>1. Calling(h) \in SUBSET Requests /\ Calling(h)' \in SUBSET Calling(h)
        BY <2>1 DEF Calling, Fades
      <4>2. PICK k \in Nat, m \in Nat :
              k = Cardinality(Calling(h)) /\ m = Cardinality(Calling(h)') /\ m <= k
        BY <4>1, Counts, MoreCounts
      <4>3. h \in Requests /\ req'[h].at = "new" => req[h].at = "new"
        BY <2>1 DEF Fades
      <4>4. CASE h = x
        <5>1. k = n /\ 0 + m <= n /\ listing'[h] = n /\ heard'[h] = 0
          BY <2>1, <3>1, <3>2, <3>3, <4>2, <4>4 DEF HookInv
        <5>2. QED
          BY <2>1, <3>3, <4>2, <4>3, <4>4, <5>1 DEF HookSound
      <4>5. CASE h # x
        <5>1. heard[h] \in Nat /\ listing[h] \in Nat /\ HookSound(h)
          BY DEF HookInv
        <5>2. listing'[h] = listing[h]
          BY <3>2, <4>5 DEF HookInv
        <5>3. h \notin hooks => heard[h] + m <= listing[h]
          BY <4>2, <5>1 DEF HookSound
        <5>4. QED
          BY <2>1, <4>2, <4>3, <4>5, <5>1, <5>2, <5>3 DEF HookSound
      <4>6. QED
        BY <4>4, <4>5
    <3>5. QED
      BY <2>1, <3>2, <3>4 DEF HookInv
  <2>4. QED
    BY <2>2, <2>3
<1>6. QED
  BY <1>3, <1>4, <1>5 DEF HookRequests

(* A call to a hook that is gone is one that was to come at its removal.   *)
LEMMA SendHookStep ==
  ASSUME DeskInv, HookInv, NEW r \in Requests, NEW x, Send(r, x)
  PROVE  HookInv'
<1>1. PICK d \in Call : d = req[r] /\ d.at = "sending" /\ x \in d.todo
  BY DEF DeskInv, Send
<1>2. PICK c : c = [d EXCEPT !.todo = d.todo \ {x}]
  OBVIOUS
<1>3. c.at = "sending" /\ c.todo = d.todo \ {x}
  BY <1>1, <1>2 DEF Call
<1>4. req' = [req EXCEPT ![r] = c]
  BY <1>1, <1>2 DEF Send, Sent, DeskInv
<1>5. \A q \in Requests : Fades(q)
  BY <1>1, <1>3, <1>4, OneFades
<1>6. UNCHANGED <<hooks, listing>>
  BY DEF Send
<1>7. CASE x \in hooks \/ x \notin Numbers
  <2>1. heard' = heard
    BY <1>7 DEF Send, HookInv
  <2>2. QED
    BY <1>5, <1>6, <2>1, FadingStep
<1>8. CASE x \notin hooks /\ x \in Numbers
  <2>1. PICK a \in Nat : a = heard[x] /\ heard' = [heard EXCEPT ![x] = a + 1]
    BY <1>8 DEF Send, HookInv
  <2>2. heard' \in [Numbers -> Nat] /\ heard'[x] = a + 1
        /\ \A h \in Numbers : h # x => heard'[h] = heard[h]
    BY <1>8, <2>1 DEF HookInv
  <2>3. Calling(x)' = Calling(x) \ {r} /\ r \in Calling(x)
    BY <1>1, <1>3, <1>4 DEF Calling, DeskInv
  <2>4. PICK n \in Nat : n = Cardinality(Calling(x)) /\ Cardinality(Calling(x)') = n - 1
    BY <2>3, CallingCounts, FS_RemoveElement
  <2>5. ASSUME NEW h \in Numbers PROVE HookSound(h)'
    <3>1. Calling(h) \in SUBSET Requests /\ Calling(h)' \in SUBSET Calling(h)
      BY <1>5 DEF Calling, Fades
    <3>2. PICK k \in Nat, m \in Nat :
            k = Cardinality(Calling(h)) /\ m = Cardinality(Calling(h)') /\ m <= k
      BY <3>1, Counts, MoreCounts
    <3>3. h \in Requests /\ req'[h].at = "new" => req[h].at = "new"
      BY <1>5 DEF Fades
    <3>4. heard[h] \in Nat /\ listing[h] \in Nat /\ HookSound(h)
      BY DEF HookInv
    <3>5. CASE h = x
      <4>1. a + n <= listing[h]
        BY <1>8, <2>1, <2>4, <3>4, <3>5 DEF HookSound
      <4>2. (a + 1) + m <= listing[h]
        BY <2>4, <3>2, <3>4, <3>5, <4>1
      <4>3. QED
        BY <1>6, <1>8, <2>2, <3>2, <3>3, <3>4, <3>5, <4>2 DEF HookSound
    <3>6. CASE h # x
      <4>1. h \notin hooks => heard[h] + m <= listing[h]
        BY <3>2, <3>4 DEF HookSound
      <4>2. QED
        BY <1>6, <2>2, <3>2, <3>3, <3>4, <3>6, <4>1 DEF HookSound
    <3>7. QED
      BY <3>5, <3>6
  <2>6. QED
    BY <1>6, <2>2, <2>5 DEF HookInv
<1>9. QED
  BY <1>7, <1>8

LEMMA HookNext == DeskInv /\ HookInv /\ [Next]_deskVars => HookInv'
<1> SUFFICES ASSUME DeskInv, HookInv, [Next]_deskVars PROVE HookInv'
  OBVIOUS
<1>1. CASE Tick
  BY <1>1, TickFades, FadingStep DEF partner
<1>2. ASSUME NEW r \in Requests, Step(r) PROVE HookInv'
  <2>1. CASE ProfileSteps(r) /\ UNCHANGED <<partner, today>>
    BY <2>1, ProfileFades, FadingStep DEF partner
  <2>2. CASE TouchKey(r)
    BY <2>2, KeyFades, FadingStep
  <2>3. CASE AnnounceEnds(r)
    BY <2>3, EndFades, FadingStep DEF AnnounceEnds, Succeed, partner
  <2>4. ASSUME NEW h, Send(r, h) PROVE HookInv'
    BY <2>4, SendHookStep
  <2>5. CASE ReportCreate(r) \/ ReportRefused(r) \/ RequestFails(r)
    BY <2>5, ReportFades, FadingStep DEF partner
  <2>6. QED
    BY <1>2, <2>1, <2>2, <2>3, <2>4, <2>5 DEF Step, PartnerSteps
<1>3. ASSUME NEW r \in Requests, Arrive(r) PROVE HookInv'
  <2>1. CASE ProfileRequests(r) /\ UNCHANGED <<partner, today>>
    BY <2>1, ProfileFades, FadingStep DEF partner
  <2>2. CASE HookRequests(r)
    BY <2>2, HookRequestStep
  <2>3. CASE KeyRequests(r)
    BY <2>3, KeyFades, FadingStep
  <2>4. CASE ReportCount(r)
    BY <2>4, ReportFades, FadingStep DEF partner
  <2>5. QED
    BY <1>3, <2>1, <2>2, <2>3, <2>4 DEF Arrive, PartnerRequests
<1>4. CASE UNCHANGED deskVars
  BY <1>4 DEF deskVars, partner, HookInv, HookSound, Calling
<1>5. QED
  BY <1>1, <1>2, <1>3, <1>4 DEF Next

LEMMA HookInit == Init => HookInv
<1> SUFFICES ASSUME Init PROVE HookInv
  OBVIOUS
<1>1. /\ req = [r \in Requests |-> Unused] /\ hooks = {0}
      /\ listing = [h \in Numbers |-> 0] /\ heard = [h \in Numbers |-> 0]
  BY DEF Init, ProfileInit, PartnerInit
<1>2. ASSUME NEW h \in Numbers PROVE HookSound(h)
  <2>1. Calling(h) = {}
    BY <1>1, UnusedTypes DEF Calling
  <2>2. Cardinality(Calling(h)) = 0
    BY <2>1, FS_EmptySet
  <2>3. h \in Requests => h # 0
    BY DeskAssumption DEF DeskAssumption
  <2>4. QED
    BY <1>1, <2>2, <2>3 DEF HookSound
<1>3. QED
  BY <1>1, <1>2 DEF HookInv

(* WebhooksService: a removed hook hears of no more sales than were being  *)
(* announced at its removal, however many announcements run, fail or are   *)
(* cut off by a restart beside it.                                         *)
THEOREM RemovedHookSound == Spec => []RemovedHookFades
<1>1. ASSUME DeskInv, HookInv PROVE RemovedHookFades
  <2>1. ASSUME NEW h \in Numbers, h \notin hooks PROVE heard[h] <= listing[h]
    <3>1. PICK n \in Nat : n = Cardinality(Calling(h))
      BY CallingCounts
    <3>2. heard[h] \in Nat /\ listing[h] \in Nat /\ heard[h] + n <= listing[h]
      BY <1>1, <2>1, <3>1 DEF HookInv, HookSound
    <3>3. QED
      BY <3>2
  <2>2. QED
    BY <2>1 DEF RemovedHookFades
<1>2. QED
  BY <1>1, DeskHolds, HookInit, HookNext, PTL DEF Spec
=============================================================================
