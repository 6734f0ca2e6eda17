--------------------------- MODULE IndexerProofs ---------------------------
(***************************************************************************)
(* The event indexer, for any log of events, any number of jobs beside the *)
(* poller, and any faults: what its handlers read stays usable until they  *)
(* write, a row stays once it is there, and the table is a projection of   *)
(* the log.                                                                *)
(***************************************************************************)
EXTENDS Indexer, FiniteSetTheorems, TLAPS

(* The events of the ledgers up to n are the first ones of the log.        *)
UpTo(n) == {i \in DOMAIN Log : Log[i].ledger <= n}

LEMMA LogTypes ==
  /\ DOMAIN Log = 1..Len(Log) /\ Len(Log) \in Nat
  /\ \A i \in DOMAIN Log : Log[i] \in Event /\ Log[i].ledger \in Nat
<1>1. Log \in Seq(Event)
  BY IndexerAssumption
<1>2. \A e \in Event : e.ledger \in Nat
  BY DEF Event
<1>3. QED
  BY <1>1, <1>2

LEMMA UpToFinite ==
  ASSUME NEW n \in Nat
  PROVE  /\ IsFiniteSet(UpTo(n)) /\ Cardinality(UpTo(n)) \in Nat
         /\ Cardinality(UpTo(n)) <= Len(Log)
<1>1. IsFiniteSet(1..Len(Log)) /\ Cardinality(1..Len(Log)) = Len(Log)
  BY LogTypes, FS_Interval
<1>2. UpTo(n) \in SUBSET (1..Len(Log))
  BY LogTypes DEF UpTo
<1>3. IsFiniteSet(UpTo(n)) /\ Cardinality(UpTo(n)) <= Cardinality(1..Len(Log))
  BY <1>1, <1>2, FS_Subset
<1>4. QED
  BY <1>1, <1>3, FS_CardinalityType

LEMMA UpToIsPrefix ==
  ASSUME NEW n \in Nat, NEW i \in DOMAIN Log
  PROVE  i \in UpTo(n) <=> i <= Cardinality(UpTo(n))
<1>. DEFINE c == Cardinality(UpTo(n))
<1>1. i \in 1..Len(Log) /\ c \in Nat /\ IsFiniteSet(UpTo(n))
  BY LogTypes, UpToFinite
<1>2. ASSUME i \in UpTo(n) PROVE i <= c
  <2>1. \A j \in 1..i : j \in UpTo(n)
    BY <1>1, <1>2, LogTypes, IndexerAssumption DEF UpTo
  <2>2. 1..i \in SUBSET UpTo(n)
    BY <2>1
  <2>3. Cardinality(1..i) = i
    BY <1>1, FS_Interval
  <2>4. QED
    BY <1>1, <2>2, <2>3, FS_Subset
<1>3. ASSUME i \notin UpTo(n) PROVE ~ i <= c
  <2>1. ASSUME NEW j \in UpTo(n) PROVE j < i
    <3>1. j \in DOMAIN Log /\ Log[j].ledger <= n /\ ~ Log[i].ledger <= n
      BY <1>3 DEF UpTo
    <3>2. i <= j => Log[i].ledger <= Log[j].ledger
      BY <3>1, IndexerAssumption
    <3>3. Log[i].ledger \in Nat /\ Log[j].ledger \in Nat /\ j \in Nat /\ i \in Nat
      BY <3>1, LogTypes
    <3>4. QED
      BY <3>1, <3>2, <3>3
  <2>2. PICK m \in Nat : i = m + 1
    BY <1>1
  <2>3. UpTo(n) \in SUBSET (1..m)
    <3>1. \A j \in UpTo(n) : j \in 1..Len(Log)
      BY LogTypes DEF UpTo
    <3>2. QED
      BY <1>1, <2>1, <2>2, <3>1
  <2>4. IsFiniteSet(1..m) /\ Cardinality(1..m) = m
    BY FS_Interval
  <2>5. c <= m
    BY <2>3, <2>4, FS_Subset
  <2>6. QED
    BY <1>1, <2>2, <2>5
<1>4. QED
  BY <1>2, <1>3

-----------------------------------------------------------------------------
(* What a worker holds is sound: its page is part of what the chain has    *)
(* emitted, and a handler that is about to write has a pass_minted event   *)
(* before it, of a tier that exists.  A row it has seen is still there.    *)
PageSound(w) ==
  /\ work[w].next >= 1
  /\ work[w].last <= Cardinality(UpTo(tip))

ReadSound(w) ==
  LET r == work[w].read
      e == At(w)
  IN  r # NoRead =>
        /\ ~ PageDone(w)
        /\ e.kind = "pass" /\ e.pass # 0
        /\ tiers[<<r.creator, e.tier>>].status # "none"
        /\ r.exists => rows[e.pass] # NoRow

WorkInv ==
  /\ TypeOK
  /\ \A w \in Workers : PageSound(w) /\ ReadSound(w)

(* The event that a worker handles has been emitted.                       *)
LEMMA EventAt ==
  ASSUME WorkInv, NEW w \in Workers, ~ PageDone(w)
  PROVE  work[w].next \in DOMAIN Log /\ work[w].next \in Emitted
<1>1. work[w].next \in Nat /\ work[w].last \in Nat /\ tip \in Nat
  BY DEF WorkInv, TypeOK, Work
<1>2. /\ Cardinality(UpTo(tip)) \in Nat /\ Cardinality(UpTo(tip)) <= Len(Log)
      /\ Len(Log) \in Nat /\ DOMAIN Log = 1..Len(Log)
  BY <1>1, UpToFinite, LogTypes
<1>3. /\ work[w].next >= 1 /\ work[w].next <= work[w].last
      /\ work[w].last <= Cardinality(UpTo(tip))
  BY <1>1 DEF WorkInv, PageSound, PageDone
<1>4. work[w].next \in DOMAIN Log
  BY <1>1, <1>2, <1>3
<1>5. work[w].next \in UpTo(tip)
  BY <1>1, <1>2, <1>3, <1>4, UpToIsPrefix
<1>6. QED
  BY <1>4, <1>5 DEF Emitted, UpTo

LEMMA EventKinds ==
  ASSUME NEW i \in DOMAIN Log
  PROVE  /\ Log[i].kind = "creator" => Log[i].creator \in Creators
         /\ Log[i].kind \in {"tier", "closed"} =>
              Log[i].creator \in Creators /\ Log[i].tier \in TierIds
         /\ Log[i].kind = "pass" =>
              /\ i \in PassEvents
              /\ Log[i].pass \in PassNos /\ Log[i].fan \in Fans
              /\ Log[i].tier \in TierIds
<1>1. Log[i] \in Event
  BY LogTypes
<1>2. Log[i].kind # "creator" => Log[i].tier \in TierIds
  BY DEF TierIds
<1>3. Log[i].kind = "pass" => i \in PassEvents /\ Log[i].pass \in PassNos
  BY DEF PassEvents, PassNos
<1>4. Log[i].kind = "creator" => Log[i].creator \in Creators
  BY <1>1 DEF Event
<1>5. Log[i].kind \in {"tier", "closed"} => Log[i].creator \in Creators
  BY <1>1 DEF Event
<1>6. Log[i].kind = "pass" => Log[i].fan \in Fans
  BY <1>1 DEF Event
<1>7. QED
  BY <1>2, <1>3, <1>4, <1>5, <1>6

-----------------------------------------------------------------------------
(* What no step ever undoes: the chain, the rows with their owner and their*)
(* kind, the tiers.                                                        *)
Grows ==
  /\ tip' >= tip /\ tip' \in Nat
  /\ creators \subseteq creators'
  /\ \A p \in PassNos : rows[p] # NoRow =>
       /\ rows'[p] # NoRow
       /\ rows'[p].fan = rows[p].fan
       /\ rows'[p].creator = rows[p].creator
       /\ rows'[p].trial = rows[p].trial
       /\ rows'[p].seen = rows[p].seen
  /\ \A t \in Creators \X TierIds :
       tiers[t].status # "none" => tiers'[t].status # "none"

LEMMA NextEventTypes ==
  ASSUME WorkInv, NEW w \in Workers, NextEvent(w)
  PROVE  /\ work' \in [Workers -> Work]
         /\ \A v \in Workers : v # w => work'[v] = work[v]
         /\ work'[w].next = work[w].next + 1
         /\ work'[w].last = work[w].last
         /\ work'[w].read = NoRead
<1>. DEFINE c == [work[w] EXCEPT !.next = @ + 1, !.read = NoRead]
<1>1. work \in [Workers -> Work]
  BY DEF WorkInv, TypeOK
<1>2. c \in Work
  <2>1. work[w] \in Work
    BY <1>1
  <2>2. work[w].next + 1 \in Nat /\ NoRead \in {NoRead} \cup Read
    BY <2>1 DEF Work
  <2>3. QED
    BY <2>1, <2>2 DEF Work
<1>3. c.next = work[w].next + 1 /\ c.last = work[w].last /\ c.read = NoRead
  BY <1>1 DEF Work
<1>4. work' = [work EXCEPT ![w] = c]
  BY DEF NextEvent
<1>. HIDE DEF c
<1>5. QED
  BY <1>1, <1>2, <1>3, <1>4

(* A page fetched from some ledger on, or an empty list.                   *)
LEMMA FetchTypes ==
  ASSUME WorkInv, NEW w \in Workers, NEW from \in Nat, Fetch(w, from)
  PROVE  /\ work' \in [Workers -> Work]
         /\ \A v \in Workers : v # w => work'[v] = work[v]
         /\ work'[w].next >= 1 /\ work'[w].last <= Cardinality(UpTo(tip))
         /\ work'[w].read = NoRead
<1>. DEFINE below == {i \in DOMAIN Log : Log[i].ledger < from}
            skipped == Cardinality(below)
            all == Cardinality(Emitted)
<1>1. work \in [Workers -> Work] /\ tip \in Nat
  BY DEF WorkInv, TypeOK
<1>2. Emitted = UpTo(tip) /\ all \in Nat
  BY <1>1, UpToFinite DEF Emitted, UpTo
<1>3. skipped \in Nat
  <2>1. below \in SUBSET UpTo(from)
    BY LogTypes DEF UpTo
  <2>2. IsFiniteSet(below)
    BY <2>1, UpToFinite, FS_Subset
  <2>3. QED
    BY <2>2, FS_CardinalityType
<1>4. ASSUME NEW k \in Work, k.next >= 1, k.last <= all, k.read = NoRead,
             work' = [work EXCEPT ![w] = k]
      PROVE  /\ work' \in [Workers -> Work]
             /\ \A v \in Workers : v # w => work'[v] = work[v]
             /\ work'[w].next >= 1 /\ work'[w].last <= Cardinality(UpTo(tip))
             /\ work'[w].read = NoRead
  BY <1>1, <1>2, <1>4
<1>5. Page(from) \in Work /\ Page(from).next >= 1 /\ Page(from).last <= all
      /\ Page(from).read = NoRead
  <2>. DEFINE last == IF skipped + PageLimit < all THEN skipped + PageLimit ELSE all
  <2>1. Page(from) = [next |-> skipped + 1, last |-> last, read |-> NoRead]
    BY DEF Page
  <2>2. last \in Nat /\ last <= all
    BY <1>2, <1>3, IndexerAssumption
  <2>3. skipped + 1 \in Nat /\ skipped + 1 >= 1
    BY <1>3
  <2>. HIDE DEF last, skipped, all
  <2>4. QED
    BY <2>1, <2>2, <2>3 DEF Work
<1>6. NoWork \in Work /\ NoWork.next >= 1 /\ NoWork.last <= all
      /\ NoWork.read = NoRead
  BY <1>2 DEF NoWork, Work
<1>7. QED
  BY <1>4, <1>5, <1>6 DEF Fetch

LEMMA UpToGrows ==
  ASSUME NEW m \in Nat, NEW n \in Nat, m <= n
  PROVE  /\ Cardinality(UpTo(m)) <= Cardinality(UpTo(n))
         /\ Cardinality(UpTo(m)) \in Nat /\ Cardinality(UpTo(n)) \in Nat
<1>1. UpTo(m) \in SUBSET UpTo(n)
  BY LogTypes DEF UpTo
<1>2. QED
  BY <1>1, UpToFinite, FS_Subset

(* What a worker holds stays sound while others move.                      *)
LEMMA HeldStaysSound ==
  ASSUME WorkInv, Grows, NEW v \in Workers, work'[v] = work[v]
  PROVE  PageSound(v)' /\ ReadSound(v)'
<1>1. PageSound(v) /\ ReadSound(v) /\ tip \in Nat /\ work[v] \in Work
  BY DEF WorkInv, TypeOK
<1>2. PageSound(v)'
  BY <1>1, UpToGrows DEF PageSound, Grows, Work
<1>3. At(v)' = At(v) /\ PageDone(v)' = PageDone(v)
  BY DEF At, PageDone
<1>4. ASSUME work[v].read # NoRead
      PROVE  /\ work[v].read.creator \in Creators
             /\ At(v).pass \in PassNos /\ At(v).tier \in TierIds
  <2>1. work[v].read \in Read
    BY <1>1, <1>4 DEF Work
  <2>2. At(v).kind = "pass" /\ ~ PageDone(v)
    BY <1>1, <1>4 DEF ReadSound
  <2>3. work[v].next \in DOMAIN Log
    BY <2>2, EventAt
  <2>4. QED
    BY <2>1, <2>2, <2>3, EventKinds DEF Read, At
<1>5. ReadSound(v)'
  BY <1>1, <1>3, <1>4 DEF ReadSound, Grows
<1>6. QED
  BY <1>2, <1>5

(* A worker with nothing read has nothing to keep sound.                   *)
LEMMA NothingRead ==
  ASSUME NEW v \in Workers, work'[v].read = NoRead
  PROVE  ReadSound(v)'
BY DEF ReadSound

-----------------------------------------------------------------------------
(* The types, in three parts.                                              *)
TableTypes ==
  /\ creators \in SUBSET Creators
  /\ users \in SUBSET Creators
  /\ tiers \in [Creators \X TierIds -> Tier]
  /\ rows \in [PassNos -> {NoRow} \cup Row]
  /\ blocks \in SUBSET (Creators \X Fans)
  /\ earned \in [PassNos -> Nat]
  /\ pending \in SUBSET PassNos

LoopTypes ==
  /\ tip \in Nat /\ checkpoint \in Nat
  /\ poll \in [pc : {"idle", "ready", "working"}, latest : Nat]
  /\ job \in [Jobs -> [pc : {"new", "running", "working", "done", "lost"},
                       ledger : Nat, to : Nat]]
  /\ restarts \in Nat

LEMMA TypeParts ==
  TypeOK <=> TableTypes /\ LoopTypes /\ work \in [Workers -> Work]
BY DEF TypeOK, TableTypes, LoopTypes

LEMMA TypePartsNext ==
  TypeOK' <=> TableTypes' /\ LoopTypes' /\ work' \in [Workers -> Work]
BY DEF TypeOK, TableTypes, LoopTypes

LEMMA RowsSame ==
  ASSUME WorkInv, UNCHANGED <<tip, creators, rows, tiers>>
  PROVE  Grows
BY DEF WorkInv, TypeOK, Grows

LEMMA TierSet ==
  ASSUME WorkInv, NEW t \in Creators \X TierIds, NEW c \in Tier,
         c.status # "none",
         tiers' = [tiers EXCEPT ![t] = c],
         UNCHANGED <<tip, creators, rows>>
  PROVE  /\ tiers' \in [Creators \X TierIds -> Tier]
         /\ Grows
<1>1. tiers \in [Creators \X TierIds -> Tier] /\ tip \in Nat
  BY DEF WorkInv, TypeOK
<1>2. tiers' \in [Creators \X TierIds -> Tier]
  BY <1>1
<1>3. \A u \in Creators \X TierIds :
        tiers[u].status # "none" => tiers'[u].status # "none"
  BY <1>1
<1>4. QED
  BY <1>1, <1>2, <1>3 DEF Grows

LEMMA RowSet ==
  ASSUME WorkInv, NEW p \in PassNos, NEW c \in Row,
         rows[p] # NoRow => /\ c.fan = rows[p].fan /\ c.creator = rows[p].creator
                            /\ c.trial = rows[p].trial /\ c.seen = rows[p].seen,
         rows' = [rows EXCEPT ![p] = c],
         UNCHANGED <<tip, creators, tiers>>
  PROVE  /\ rows' \in [PassNos -> {NoRow} \cup Row]
         /\ Grows
<1>1. rows \in [PassNos -> {NoRow} \cup Row] /\ tip \in Nat
  BY DEF WorkInv, TypeOK
<1>2. rows' \in [PassNos -> {NoRow} \cup Row]
  BY <1>1
<1>3. c # NoRow
  BY DEF Row, NoRow
<1>4. \A q \in PassNos : rows[q] # NoRow =>
        /\ rows'[q] # NoRow
        /\ rows'[q].fan = rows[q].fan
        /\ rows'[q].creator = rows[q].creator
        /\ rows'[q].trial = rows[q].trial
        /\ rows'[q].seen = rows[q].seen
  BY <1>1, <1>3
<1>5. QED
  BY <1>1, <1>2, <1>4 DEF Grows

(* The handlers, one by one: the tables stay well typed and only grow.     *)
LEMMA HandlersGrow ==
  ASSUME WorkInv, NEW w \in Workers, ProcessEvent(w)
  PROVE  TableTypes' /\ Grows
<1>. DEFINE e == At(w)
            r == work[w].read
<1>1. /\ TableTypes /\ ~ PageDone(w) /\ UNCHANGED tip /\ work[w] \in Work
      /\ ReadSound(w)
  BY TypeParts DEF ProcessEvent, HandleCreatorRegistered, HandleTierCreated,
     HandleTierDeactivated, PassMintedRead, PassMintedDropped, PassCreated,
     PassRefused, PassUpdated, EventFails, Handling, WorkInv, TypeOK
<1>2. work[w].next \in DOMAIN Log /\ e = Log[work[w].next]
  BY <1>1, EventAt DEF At
<1>. HIDE DEF e
<1>3. CASE UNCHANGED dbVars
  BY <1>1, <1>3, RowsSame DEF dbVars, TableTypes
<1>4. CASE HandleCreatorRegistered(w)
  <2>1. e.kind = "creator" /\ users' = users \cup {e.creator}
    BY <1>4 DEF HandleCreatorRegistered, Handling, e
  <2>2. e.creator \in Creators
    BY <1>2, <2>1, EventKinds
  <2>3. UNCHANGED <<creators, tiers, rows, blocks, earned, pending>>
    BY <1>4 DEF HandleCreatorRegistered
  <2>4. QED
    BY <1>1, <2>1, <2>2, <2>3, RowsSame DEF TableTypes
<1>5. CASE HandleTierCreated(w) \/ HandleTierDeactivated(w)
  <2>. DEFINE t == <<e.creator, e.tier>>
  <2>1. e.kind \in {"tier", "closed"}
    BY <1>5 DEF HandleTierCreated, HandleTierDeactivated, Handling, e
  <2>2. t \in Creators \X TierIds
    BY <1>2, <2>1, EventKinds
  <2>3. UNCHANGED <<creators, users, rows, blocks, earned, pending>>
    BY <1>5 DEF HandleTierCreated, HandleTierDeactivated
  <2>4. \/ tiers' = tiers
        \/ \E s \in {"active", "closed"} :
             tiers' = [tiers EXCEPT ![t] = [tiers[t] EXCEPT !.status = s]]
    BY <1>5 DEF HandleTierCreated, HandleTierDeactivated, e
  <2>5. CASE tiers' = tiers
    BY <1>1, <2>3, <2>5, RowsSame DEF TableTypes
  <2>6. ASSUME NEW s \in {"active", "closed"},
               tiers' = [tiers EXCEPT ![t] = [tiers[t] EXCEPT !.status = s]]
        PROVE  TableTypes' /\ Grows
    <3>1. /\ [tiers[t] EXCEPT !.status = s] \in Tier
          /\ [tiers[t] EXCEPT !.status = s].status # "none"
      BY <1>1, <2>2 DEF TableTypes, Tier
    <3>. HIDE DEF t
    <3>2. tiers' \in [Creators \X TierIds -> Tier] /\ Grows
      BY <1>1, <2>2, <2>3, <2>6, <3>1, TierSet
    <3>3. QED
      BY <1>1, <2>3, <3>2 DEF TableTypes
  <2>7. QED
    BY <2>4, <2>5, <2>6
<1>6. CASE PassCreated(w)
  <2>. DEFINE trial == r.first /\ tiers[<<r.creator, e.tier>>].trial
              c == [fan |-> e.fan, creator |-> r.creator, trial |-> trial,
                    until |-> IF trial THEN "trial" ELSE "chain",
                    seen |-> r.seen]
  <2>1. e.kind = "pass" /\ r # NoRead /\ rows[e.pass] = NoRow
    BY <1>6 DEF PassCreated, Handling, e
  <2>2. e.pass \in PassNos /\ e.fan \in Fans /\ e.tier \in TierIds
    BY <1>2, <2>1, EventKinds
  <2>3. r \in Read
    BY <1>1, <2>1 DEF Work
  <2>4. c \in Row
    BY <2>2, <2>3 DEF Read, Row
  <2>5. /\ rows' = [rows EXCEPT ![e.pass] = c]
        /\ pending' = Charged(e.pass, trial)
        /\ UNCHANGED <<creators, users, tiers, blocks, earned>>
    BY <1>6 DEF PassCreated, e
  <2>. HIDE DEF c, trial
  <2>6. rows' \in [PassNos -> {NoRow} \cup Row] /\ Grows
    BY <1>1, <2>1, <2>2, <2>4, <2>5, RowSet
  <2>7. pending' \in SUBSET PassNos
    BY <1>1, <2>2, <2>5 DEF Charged, TableTypes
  <2>8. QED
    BY <1>1, <2>5, <2>6, <2>7 DEF TableTypes
<1>7. CASE PassUpdated(w)
  <2>. DEFINE c == [rows[e.pass] EXCEPT !.until = "chain"]
  <2>1. e.kind = "pass" /\ r # NoRead /\ r.exists
    BY <1>7 DEF PassUpdated, Handling, e
  <2>2. e.pass \in PassNos
    BY <1>2, <2>1, EventKinds
  <2>3. rows[e.pass] # NoRow
    BY <1>1, <2>1 DEF ReadSound, e
  <2>4. rows[e.pass] \in Row
    BY <1>1, <2>2, <2>3 DEF TableTypes
  <2>5. /\ c \in Row /\ c.fan = rows[e.pass].fan
        /\ c.creator = rows[e.pass].creator /\ c.trial = rows[e.pass].trial
        /\ c.seen = rows[e.pass].seen
    BY <2>4 DEF Row
  <2>6. /\ rows' = [rows EXCEPT ![e.pass] = c]
        /\ UNCHANGED <<creators, users, tiers, blocks, earned, pending>>
    BY <1>7 DEF PassUpdated, e
  <2>. HIDE DEF c
  <2>7. rows' \in [PassNos -> {NoRow} \cup Row] /\ Grows
    BY <1>1, <2>2, <2>5, <2>6, RowSet
  <2>8. QED
    BY <1>1, <2>6, <2>7 DEF TableTypes
<1>8. QED
  BY <1>3, <1>4, <1>5, <1>6, <1>7
     DEF ProcessEvent, PassMintedRead, PassMintedDropped, PassRefused, EventFails

(* What the handler has read is sound when it reads it.                    *)
LEMMA ReadTypes ==
  ASSUME WorkInv, NEW w \in Workers, NEW k \in Creators, PassMintedRead(w, k)
  PROVE  /\ work' \in [Workers -> Work]
         /\ \A v \in Workers : v # w => work'[v] = work[v]
         /\ work'[w].next = work[w].next /\ work'[w].last = work[w].last
         /\ work'[w].read = [creator |-> k, exists |-> rows[At(w).pass] # NoRow,
              first |-> IsFirstTime(PriorRows(At(w).fan, k, At(w).tier)),
              spent |-> TrialSpent(PriorRows(At(w).fan, k, At(w).tier)),
              seen |-> Stored]
<1>. DEFINE prior == PriorRows(At(w).fan, k, At(w).tier)
            rec == [creator |-> k, exists |-> rows[At(w).pass] # NoRow,
                    first |-> IsFirstTime(prior), spent |-> TrialSpent(prior),
                    seen |-> Stored]
            c == [work[w] EXCEPT !.read = rec]
<1>1. work \in [Workers -> Work] /\ work[w] \in Work
  BY DEF WorkInv, TypeOK
<1>2. \A S : IsFirstTime(S) \in BOOLEAN /\ TrialSpent(S) \in BOOLEAN
  BY DEF IsFirstTime, TrialSpent
<1>3. work' = [work EXCEPT ![w] = c]
  BY DEF PassMintedRead
<1>. HIDE DEF prior
<1>4. rec \in Read
  BY <1>2 DEF Read, Stored
<1>. HIDE DEF rec
<1>5. c \in Work /\ c.next = work[w].next /\ c.last = work[w].last /\ c.read = rec
  BY <1>1, <1>4 DEF Work
<1>. HIDE DEF c
<1>6. QED
  BY <1>1, <1>3, <1>5 DEF rec, prior

LEMMA HandlersHold ==
  ASSUME WorkInv, NEW w \in Workers, ProcessEvent(w)
  PROVE  /\ work' \in [Workers -> Work]
         /\ \A v \in Workers : PageSound(v)' /\ ReadSound(v)'
<1>1. Grows
  BY HandlersGrow
<1>2. /\ ~ PageDone(w) /\ UNCHANGED tip /\ PageSound(w) /\ work[w] \in Work
      /\ tip \in Nat
  BY DEF ProcessEvent, HandleCreatorRegistered, HandleTierCreated,
     HandleTierDeactivated, PassMintedRead, PassMintedDropped, PassCreated,
     PassRefused, PassUpdated, EventFails, Handling, WorkInv, TypeOK
<1>3. CASE NextEvent(w)
  <2>1. /\ work' \in [Workers -> Work]
        /\ \A v \in Workers : v # w => work'[v] = work[v]
        /\ work'[w].next = work[w].next + 1 /\ work'[w].last = work[w].last
        /\ work'[w].read = NoRead
    BY <1>3, NextEventTypes
  <2>2. PageSound(w)' /\ ReadSound(w)'
    BY <1>2, <2>1, NothingRead DEF PageSound, Work
  <2>3. QED
    BY <1>1, <2>1, <2>2, HeldStaysSound
<1>4. ASSUME NEW k \in Creators, PassMintedRead(w, k)
      PROVE  /\ work' \in [Workers -> Work]
             /\ \A v \in Workers : PageSound(v)' /\ ReadSound(v)'
  <2>1. /\ work' \in [Workers -> Work]
        /\ \A v \in Workers : v # w => work'[v] = work[v]
        /\ work'[w].next = work[w].next /\ work'[w].last = work[w].last
    BY <1>4, ReadTypes
  <2>2. /\ work'[w].read.creator = k
        /\ work'[w].read.exists => rows[At(w).pass] # NoRow
    <3>. DEFINE here == rows[At(w).pass] # NoRow
                fst == IsFirstTime(PriorRows(At(w).fan, k, At(w).tier))
                spt == TrialSpent(PriorRows(At(w).fan, k, At(w).tier))
    <3>1. work'[w].read = [creator |-> k, exists |-> here, first |-> fst, spent |-> spt,
                          seen |-> Stored]
      BY <1>4, ReadTypes
    <3>. HIDE DEF fst, spt
    <3>2. work'[w].read.creator = k /\ work'[w].read.exists = here
      BY <3>1
    <3>3. QED
      BY <3>2
  <2>3. PageSound(w)'
    BY <1>2, <2>1 DEF PageSound
  <2>4. At(w)' = At(w) /\ ~ PageDone(w)'
    BY <1>2, <2>1 DEF At, PageDone
  <2>5. /\ At(w).kind = "pass" /\ At(w).pass # 0
        /\ tiers[<<k, At(w).tier>>].status # "none"
        /\ rows' = rows /\ tiers' = tiers
    BY <1>4 DEF PassMintedRead, Handling, SellersOf, dbVars
  <2>6. ReadSound(w)'
    BY <2>2, <2>4, <2>5 DEF ReadSound
  <2>7. QED
    BY <1>1, <2>1, <2>3, <2>6, HeldStaysSound
<1>5. QED
  BY <1>3, <1>4 DEF ProcessEvent, HandleCreatorRegistered, HandleTierCreated,
     HandleTierDeactivated, PassMintedDropped, PassCreated, PassRefused,
     PassUpdated, EventFails

-----------------------------------------------------------------------------
(* The whole step.                                                         *)
LEMMA WorkInvInit ==
  ASSUME Init
  PROVE  WorkInv
<1>1. NoTier \in Tier /\ NoRow \in {NoRow} \cup Row /\ NoWork \in Work
  BY DEF NoTier, Tier, NoWork, Work
<1>2. TypeOK
  BY <1>1, IndexerAssumption DEF Init, TypeOK
<1>3. 0 \in Nat /\ tip = 0
  BY DEF Init
<1>4. ASSUME NEW w \in Workers PROVE PageSound(w) /\ ReadSound(w)
  BY <1>3, UpToFinite DEF Init, PageSound, ReadSound, NoWork
<1>5. QED
  BY <1>2, <1>4 DEF WorkInv

(* A step that moves no worker.                                            *)
LEMMA WorkIdle ==
  ASSUME WorkInv, Grows, UNCHANGED work, TableTypes', LoopTypes'
  PROVE  WorkInv'
<1>1. work \in [Workers -> Work]
  BY DEF WorkInv, TypeOK
<1>2. \A v \in Workers : PageSound(v)' /\ ReadSound(v)'
  BY HeldStaysSound
<1>3. TypeOK'
  BY <1>1, TypePartsNext
<1>4. QED
  BY <1>2, <1>3 DEF WorkInv

(* A step that gives one worker a page.                                    *)
LEMMA WorkFetched ==
  ASSUME WorkInv, NEW w \in Workers, NEW from \in Nat, Fetch(w, from),
         UNCHANGED <<tip, dbVars>>, LoopTypes'
  PROVE  WorkInv'
<1>1. TableTypes' /\ Grows /\ tip' = tip
  BY TypeParts, RowsSame DEF WorkInv, TableTypes, dbVars
<1>2. /\ work' \in [Workers -> Work]
      /\ \A v \in Workers : v # w => work'[v] = work[v]
      /\ work'[w].next >= 1 /\ work'[w].last <= Cardinality(UpTo(tip))
      /\ work'[w].read = NoRead
  BY FetchTypes
<1>3. PageSound(w)' /\ ReadSound(w)'
  BY <1>1, <1>2, NothingRead DEF PageSound
<1>4. \A v \in Workers : PageSound(v)' /\ ReadSound(v)'
  BY <1>1, <1>2, <1>3, HeldStaysSound
<1>5. QED
  BY <1>1, <1>2, <1>4, TypePartsNext DEF WorkInv

LEMMA WorkInvStep ==
  ASSUME WorkInv, [Next]_vars
  PROVE  WorkInv' /\ Grows
<1>. USE IndexerAssumption
<1>1. TableTypes /\ LoopTypes /\ work \in [Workers -> Work]
  BY TypeParts DEF WorkInv
<1>2. CASE UNCHANGED vars
  <2>1. TableTypes' /\ LoopTypes' /\ Grows
    BY <1>1, <1>2, RowsSame DEF vars, dbVars, TableTypes, LoopTypes
  <2>2. QED
    BY <1>2, <2>1, WorkIdle DEF vars
<1>3. CASE CloseLedger
  <2>1. TableTypes' /\ LoopTypes' /\ Grows
    BY <1>1, <1>3 DEF CloseLedger, dbVars, TableTypes, LoopTypes, Grows
  <2>2. QED
    BY <1>3, <2>1, WorkIdle DEF CloseLedger
<1>4. ASSUME NEW k \in Creators, RegisterCreator(k) PROVE WorkInv' /\ Grows
  <2>1. TableTypes' /\ LoopTypes' /\ Grows
    BY <1>1, <1>4 DEF RegisterCreator, TableTypes, LoopTypes, Grows
  <2>2. QED
    BY <1>4, <2>1, WorkIdle DEF RegisterCreator
<1>5. ASSUME NEW t \in TrialTiers, CreateTrialTier(t) PROVE WorkInv' /\ Grows
  <2>1. tiers' \in [Creators \X TierIds -> Tier] /\ Grows
    <3>. DEFINE c == [status |-> "active", trial |-> TRUE]
    <3>1. c \in Tier /\ c.status # "none"
      BY DEF Tier
    <3>2. /\ tiers' = [tiers EXCEPT ![t] = c]
          /\ UNCHANGED <<tip, creators, rows>>
      BY <1>5 DEF CreateTrialTier
    <3>. HIDE DEF c
    <3>3. CASE t \in Creators \X TierIds
      BY <3>1, <3>2, <3>3, TierSet
    <3>4. CASE t \notin Creators \X TierIds
      <4>1. tiers' = tiers
        BY <1>1, <3>2, <3>4 DEF TableTypes
      <4>2. QED
        BY <1>1, <3>2, <4>1, RowsSame DEF TableTypes
    <3>5. QED
      BY <3>3, <3>4
  <2>2. TableTypes' /\ LoopTypes'
    BY <1>1, <1>5, <2>1 DEF CreateTrialTier, TableTypes, LoopTypes
  <2>3. QED
    BY <1>5, <2>1, <2>2, WorkIdle DEF CreateTrialTier
<1>6. ASSUME NEW b \in Blockable, SetBlock(b) PROVE WorkInv' /\ Grows
  <2>1. Grows
    BY <1>6, RowsSame DEF SetBlock
  <2>2. b \in Creators \X Fans
    OBVIOUS
  <2>3. TableTypes' /\ LoopTypes'
    BY <1>1, <1>6, <2>2 DEF SetBlock, TableTypes, LoopTypes
  <2>4. QED
    BY <1>6, <2>1, <2>3, WorkIdle DEF SetBlock
<1>7. ASSUME PollBegin \/ PollSave \/ \E j \in Jobs : JobNextLedger(j) \/ JobDone(j)
      PROVE  WorkInv' /\ Grows
  <2>1. UNCHANGED <<tip, dbVars, work, restarts>>
    BY <1>7 DEF PollBegin, PollSave, JobNextLedger, JobDone
  <2>2. TableTypes' /\ Grows
    BY <1>1, <2>1, RowsSame DEF dbVars, TableTypes
  <2>3. LoopTypes'
    <3>1. CASE PollBegin
      BY <1>1, <2>1, <3>1 DEF PollBegin, LoopTypes
    <3>2. CASE PollSave
      BY <1>1, <2>1, <3>2 DEF PollSave, LoopTypes
    <3>3. ASSUME NEW j \in Jobs, JobNextLedger(j) PROVE LoopTypes'
      <4>. DEFINE c == [job[j] EXCEPT !.pc = "running", !.ledger = @ + 1]
      <4>1. job' = [job EXCEPT ![j] = c]
        BY <1>1, <3>3 DEF JobNextLedger, LoopTypes
      <4>2. /\ job[j] \in [pc : {"new", "running", "working", "done", "lost"},
                           ledger : Nat, to : Nat]
            /\ job[j].ledger + 1 \in Nat
        BY <1>1 DEF LoopTypes
      <4>3. c \in [pc : {"new", "running", "working", "done", "lost"},
                   ledger : Nat, to : Nat]
        BY <4>2
      <4>. HIDE DEF c
      <4>4. job' \in [Jobs -> [pc : {"new", "running", "working", "done", "lost"},
                               ledger : Nat, to : Nat]]
        BY <1>1, <4>1, <4>3 DEF LoopTypes
      <4>5. UNCHANGED <<tip, checkpoint, poll, restarts>>
        BY <3>3 DEF JobNextLedger
      <4>6. QED
        BY <1>1, <4>4, <4>5 DEF LoopTypes
    <3>4. ASSUME NEW j \in Jobs, JobDone(j) PROVE LoopTypes'
      BY <1>1, <2>1, <3>4 DEF JobDone, LoopTypes
    <3>5. QED
      BY <1>7, <3>1, <3>2, <3>3, <3>4
  <2>4. QED
    BY <2>1, <2>2, <2>3, WorkIdle
<1>8. CASE PollFetch
  <2>1. LoopTypes' /\ UNCHANGED <<tip, dbVars>> /\ Fetch("poller", checkpoint)
    BY <1>1, <1>8 DEF PollFetch, LoopTypes
  <2>2. checkpoint \in Nat /\ "poller" \in Workers
    BY <1>1 DEF LoopTypes, Workers
  <2>3. QED
    BY <2>1, <2>2, WorkFetched, RowsSame DEF dbVars
<1>9. ASSUME NEW j \in Jobs, JobFetch(j) PROVE WorkInv' /\ Grows
  <2>1. LoopTypes' /\ UNCHANGED <<tip, dbVars>> /\ Fetch(j, job[j].ledger)
    BY <1>1, <1>9 DEF JobFetch, LoopTypes
  <2>2. job[j].ledger \in Nat /\ j \in Workers
    BY <1>1 DEF LoopTypes, Workers
  <2>3. QED
    BY <2>1, <2>2, WorkFetched, RowsSame DEF dbVars
<1>10. ASSUME NEW j \in Jobs, NEW from \in 1..MaxLedger, NEW to \in 1..MaxLedger,
              JobStart(j, from, to)
       PROVE  WorkInv' /\ Grows
  <2>1. TableTypes' /\ Grows /\ UNCHANGED work
    BY <1>1, <1>10, RowsSame DEF JobStart, dbVars, TableTypes
  <2>2. LoopTypes'
    BY <1>1, <1>10 DEF JobStart, LoopTypes
  <2>3. QED
    BY <2>1, <2>2, WorkIdle
<1>11. ASSUME NEW w \in Workers, ProcessEvent(w) PROVE WorkInv' /\ Grows
  <2>1. UNCHANGED <<tip, checkpoint, poll, job, restarts>>
    BY <1>11 DEF ProcessEvent, HandleCreatorRegistered, HandleTierCreated,
       HandleTierDeactivated, PassMintedRead, PassMintedDropped, PassCreated,
       PassRefused, PassUpdated, EventFails, Handling
  <2>2. LoopTypes'
    BY <1>1, <2>1 DEF LoopTypes
  <2>3. QED
    BY <1>11, <2>2, HandlersGrow, HandlersHold, TypePartsNext DEF WorkInv
<1>12. ASSUME NEW p \in PassNos, EarningsWritten(p) \/ EarningsFail(p)
       PROVE  WorkInv' /\ Grows
  <2>1. UNCHANGED work /\ LoopTypes' /\ Grows
    BY <1>1, <1>12, RowsSame DEF EarningsWritten, EarningsFail, LoopTypes
  <2>2. earned' \in [PassNos -> Nat] /\ pending' \in SUBSET PassNos
    <3>1. CASE EarningsWritten(p)
      <4>1. earned' = [earned EXCEPT ![p] = earned[p] + 1]
        BY <3>1 DEF EarningsWritten
      <4>2. earned \in [PassNos -> Nat] /\ earned[p] + 1 \in Nat
        BY <1>1 DEF TableTypes
      <4>3. QED
        BY <1>1, <3>1, <4>1, <4>2 DEF EarningsWritten, TableTypes
    <3>2. CASE EarningsFail(p)
      BY <1>1, <3>2 DEF EarningsFail, TableTypes
    <3>3. QED
      BY <1>12, <3>1, <3>2
  <2>3. TableTypes'
    BY <1>1, <1>12, <2>2 DEF EarningsWritten, EarningsFail, TableTypes
  <2>4. QED
    BY <2>1, <2>3, WorkIdle
<1>13. CASE Restart
  <2>1. TableTypes' /\ Grows /\ tip' = tip
    BY <1>1, <1>13, RowsSame DEF Restart, TableTypes
  <2>2. LoopTypes'
    <3>. DEFINE JobState == [pc : {"new", "running", "working", "done", "lost"},
                             ledger : Nat, to : Nat]
    <3>1. \A j \in Jobs : job[j] \in JobState /\ [job[j] EXCEPT !.pc = "lost"] \in JobState
      BY <1>1 DEF LoopTypes
    <3>2. job' \in [Jobs -> JobState]
      BY <1>13, <3>1 DEF Restart
    <3>3. poll' \in [pc : {"idle", "ready", "working"}, latest : Nat]
      BY <1>13 DEF Restart
    <3>4. restarts' \in Nat /\ tip' \in Nat /\ checkpoint' \in Nat
      BY <1>1, <1>13 DEF Restart, LoopTypes
    <3>5. QED
      BY <3>2, <3>3, <3>4 DEF LoopTypes
  <2>3. work' = [w \in Workers |-> NoWork] /\ NoWork \in Work
    BY <1>13 DEF Restart, NoWork, Work
  <2>4. work' \in [Workers -> Work]
    BY <2>3
  <2>5. ASSUME NEW v \in Workers PROVE PageSound(v)' /\ ReadSound(v)'
    <3>1. work'[v].next = 1 /\ work'[v].last = 0 /\ work'[v].read = NoRead
      BY <2>3 DEF NoWork
    <3>2. tip' \in Nat /\ Cardinality(UpTo(tip')) \in Nat
      BY <1>1, <2>1, UpToFinite DEF LoopTypes
    <3>3. QED
      BY <3>1, <3>2, NothingRead DEF PageSound
  <2>6. QED
    BY <2>1, <2>2, <2>4, <2>5, TypePartsNext DEF WorkInv
<1>14. CASE Next
  BY <1>3, <1>4, <1>5, <1>6, <1>7, <1>8, <1>9, <1>10, <1>11, <1>12, <1>13, <1>14
     DEF Next, PollStep, JobStep, Workers
<1>15. QED
  BY <1>2, <1>14

(* Every variable keeps its type, whatever the log, and what a worker holds*)
(* stays sound until it is used.                                           *)
THEOREM IndexerTypes == Spec => []TypeOK
<1>1. WorkInv => TypeOK
  BY DEF WorkInv
<1>2. QED
  BY <1>1, WorkInvInit, WorkInvStep, PTL DEF Spec

-----------------------------------------------------------------------------
(* The steps that write the Pass table or the earnings records.            *)
LEMMA TableSteps ==
  ASSUME [Next]_vars
  PROVE  \/ UNCHANGED <<rows, earned, pending>>
         \/ \E w \in Workers : PassCreated(w) \/ PassUpdated(w)
         \/ \E p \in PassNos : EarningsWritten(p) \/ EarningsFail(p)
         \/ Restart
<1>1. CASE UNCHANGED vars
  BY <1>1 DEF vars, dbVars
<1>2. ASSUME NEW w \in Workers, ProcessEvent(w)
      PROVE  UNCHANGED <<rows, earned, pending>> \/ PassCreated(w) \/ PassUpdated(w)
  BY <1>2 DEF ProcessEvent, HandleCreatorRegistered, HandleTierCreated,
     HandleTierDeactivated, PassMintedRead, PassMintedDropped, PassRefused,
     EventFails, dbVars
<1>3. ASSUME NEW j \in Jobs, JobFetch(j) \/ JobNextLedger(j) \/ JobDone(j)
      PROVE  UNCHANGED <<rows, earned, pending>>
  BY <1>3 DEF JobFetch, JobNextLedger, JobDone, dbVars
<1>4. ASSUME NEW j \in Jobs, NEW from \in 1..MaxLedger, NEW to \in 1..MaxLedger,
             JobStart(j, from, to)
      PROVE  UNCHANGED <<rows, earned, pending>>
  BY <1>4 DEF JobStart, dbVars
<1>5. CASE PollBegin \/ PollFetch \/ PollSave
  BY <1>5 DEF PollBegin, PollFetch, PollSave, dbVars
<1>6. CASE CloseLedger
  BY <1>6 DEF CloseLedger, dbVars
<1>7. ASSUME NEW k \in Creators, RegisterCreator(k)
      PROVE  UNCHANGED <<rows, earned, pending>>
  BY <1>7 DEF RegisterCreator
<1>8. ASSUME NEW t \in TrialTiers, CreateTrialTier(t)
      PROVE  UNCHANGED <<rows, earned, pending>>
  BY <1>8 DEF CreateTrialTier
<1>9. ASSUME NEW b \in Blockable, SetBlock(b)
      PROVE  UNCHANGED <<rows, earned, pending>>
  BY <1>9 DEF SetBlock
<1>10. "poller" \in Workers /\ \A j \in Jobs : j \in Workers
  BY DEF Workers
<1>11. QED
  BY <1>1, <1>2, <1>3, <1>4, <1>5, <1>6, <1>7, <1>8, <1>9, <1>10
     DEF Next, PollStep, JobStep

(* The row that a worker inserts: of the event it handles, on what it has  *)
(* read.                                                                   *)
LEMMA CreatedRow ==
  ASSUME WorkInv, NEW w \in Workers, PassCreated(w)
  PROVE  LET i == work[w].next
             r == work[w].read
         IN  /\ i \in PassEvents /\ i \in Emitted /\ Log[i].pass \in PassNos
             /\ r \in Read /\ ~ r.spent
             /\ rows[Log[i].pass] = NoRow
             /\ \E c \in Row :
                  /\ rows' = [rows EXCEPT ![Log[i].pass] = c]
                  /\ c.fan = Log[i].fan /\ c.creator = r.creator /\ c.seen = r.seen
                  /\ c.trial => r.first /\ tiers[<<r.creator, Log[i].tier>>].trial
                  /\ c.trial => pending' = pending
                  /\ ~ c.trial => pending' = pending \cup {Log[i].pass}
             /\ UNCHANGED <<tip, earned>>
<1>. DEFINE e == At(w)
            i == work[w].next
            r == work[w].read
            trial == r.first /\ tiers[<<r.creator, e.tier>>].trial
            c == [fan |-> e.fan, creator |-> r.creator, trial |-> trial,
                  until |-> IF trial THEN "trial" ELSE "chain",
                  seen |-> r.seen]
<1>1. /\ ~ PageDone(w) /\ e.kind = "pass" /\ r # NoRead /\ ~ r.spent
      /\ rows[e.pass] = NoRow
      /\ rows' = [rows EXCEPT ![e.pass] = c]
      /\ pending' = Charged(e.pass, trial)
      /\ UNCHANGED <<tip, earned>>
  BY DEF PassCreated, Handling
<1>2. i \in DOMAIN Log /\ i \in Emitted /\ e = Log[i]
  BY <1>1, EventAt DEF At
<1>. HIDE DEF e
<1>3. i \in PassEvents /\ e.pass \in PassNos /\ e.fan \in Fans
  BY <1>1, <1>2, EventKinds
<1>4. r \in Read
  BY <1>1 DEF WorkInv, TypeOK, Work
<1>5. trial \in BOOLEAN /\ (trial => r.first /\ tiers[<<r.creator, e.tier>>].trial)
  OBVIOUS
<1>. HIDE DEF trial
<1>6. c \in Row
  BY <1>3, <1>4, <1>5 DEF Row, Read
<1>7. /\ c.fan = e.fan /\ c.creator = r.creator /\ c.trial = trial
      /\ c.seen = r.seen
  OBVIOUS
<1>8. trial => pending' = pending
  BY <1>1 DEF Charged
<1>9. ~ trial => pending' = pending \cup {e.pass}
  BY <1>1 DEF Charged
<1>. HIDE DEF c
<1>10. \E d \in Row :
         /\ rows' = [rows EXCEPT ![e.pass] = d]
         /\ d.fan = e.fan /\ d.creator = r.creator /\ d.seen = r.seen
         /\ d.trial => r.first /\ tiers[<<r.creator, e.tier>>].trial
         /\ d.trial => pending' = pending
         /\ ~ d.trial => pending' = pending \cup {e.pass}
  <2>1. c.trial => r.first /\ tiers[<<r.creator, e.tier>>].trial /\ pending' = pending
    BY <1>5, <1>7, <1>8, Zenon
  <2>2. ~ c.trial => pending' = pending \cup {e.pass}
    BY <1>7, <1>9, Zenon
  <2>3. QED
    BY <1>1, <1>6, <1>7, <2>1, <2>2, Zenon
<1>11. QED
  BY <1>1, <1>2, <1>3, <1>4, <1>10, Zenon

(* The row that a worker updates keeps its owner and its kind, and nothing *)
(* is charged.                                                             *)
LEMMA UpdatedRow ==
  ASSUME WorkInv, NEW w \in Workers, PassUpdated(w)
  PROVE  /\ UNCHANGED <<earned, pending, tip>>
         /\ \A p \in PassNos : /\ rows'[p] = NoRow <=> rows[p] = NoRow
                               /\ rows'[p].fan = rows[p].fan
                               /\ rows'[p].creator = rows[p].creator
                               /\ rows'[p].trial = rows[p].trial
                               /\ rows'[p].seen = rows[p].seen
<1>1. /\ UNCHANGED <<earned, pending, tip>> /\ work[w].read.exists
      /\ work[w].read # NoRead
      /\ rows' = [rows EXCEPT ![At(w).pass].until = "chain"]
  BY DEF PassUpdated, Handling
<1>2. rows \in [PassNos -> {NoRow} \cup Row] /\ ReadSound(w)
  BY DEF WorkInv, TypeOK
<1>3. /\ ~ PageDone(w) /\ At(w).kind = "pass"
      /\ rows[At(w).pass] # NoRow
  BY <1>1, <1>2 DEF ReadSound
<1>4. At(w).pass \in PassNos
  BY <1>3, EventAt, EventKinds DEF At
<1>5. rows[At(w).pass] \in Row
  BY <1>2, <1>3, <1>4
<1>. DEFINE c == [rows[At(w).pass] EXCEPT !.until = "chain"]
<1>6. /\ c # NoRow /\ c.fan = rows[At(w).pass].fan
      /\ c.creator = rows[At(w).pass].creator /\ c.trial = rows[At(w).pass].trial
      /\ c.seen = rows[At(w).pass].seen
  BY <1>5 DEF Row, NoRow
<1>7. rows' = [rows EXCEPT ![At(w).pass] = c]
  BY <1>1
<1>. HIDE DEF c
<1>8. QED
  BY <1>1, <1>2, <1>3, <1>4, <1>6, <1>7

-----------------------------------------------------------------------------
(* The earnings.  Stated pass by pass, without the counting.               *)
EarnedOnceFor(p) ==
  /\ earned[p] \in {0, 1}
  /\ p \in pending => earned[p] = 0
  /\ earned[p] = 1 \/ p \in pending => rows[p] # NoRow /\ ~ rows[p].trial

EarnedInv == \A p \in PassNos : EarnedOnceFor(p)

LEMMA EarnedInvEnough ==
  ASSUME TypeOK, EarnedInv
  PROVE  EarnedOnce
<1>1. ASSUME NEW p \in PassNos
      PROVE  earned[p] + (IF p \in pending THEN 1 ELSE 0) <= 1
  <2>1. earned[p] \in {0, 1} /\ (p \in pending => earned[p] = 0)
    BY DEF EarnedInv, EarnedOnceFor
  <2>2. QED
    BY <2>1
<1>2. ASSUME NEW p \in PassNos, earned[p] > 0 \/ p \in pending
      PROVE  rows[p] # NoRow /\ ~ rows[p].trial
  <2>1. earned[p] = 1 \/ p \in pending
    BY <1>2 DEF EarnedInv, EarnedOnceFor
  <2>2. QED
    BY <2>1 DEF EarnedInv, EarnedOnceFor
<1>3. QED
  BY <1>1, <1>2 DEF EarnedOnce

(* A new row is charged for unless it is a trial.                          *)
LEMMA EarnedOnInsert ==
  ASSUME WorkInv, EarnedInv, NEW p \in PassNos, NEW c \in Row,
         rows[p] = NoRow, rows' = [rows EXCEPT ![p] = c], earned' = earned,
         c.trial => pending' = pending,
         ~ c.trial => pending' = pending \cup {p}
  PROVE  EarnedInv'
<1>1. rows \in [PassNos -> {NoRow} \cup Row] /\ earned \in [PassNos -> Nat]
  BY DEF WorkInv, TypeOK
<1>2. c # NoRow
  BY DEF Row, NoRow
<1>3. earned[p] = 0 /\ p \notin pending
  BY DEF EarnedInv, EarnedOnceFor
<1>4. EarnedOnceFor(p)'
  <2>1. rows'[p] = c /\ earned'[p] \in {0, 1} /\ earned'[p] = 0 /\ earned'[p] # 1
    BY <1>1, <1>3
  <2>2. p \in pending' => ~ c.trial
    BY <1>3, Zenon
  <2>3. QED
    BY <1>2, <2>1, <2>2, Zenon DEF EarnedOnceFor
<1>5. ASSUME NEW q \in PassNos, q # p PROVE EarnedOnceFor(q)'
  <2>1. rows'[q] = rows[q] /\ earned'[q] = earned[q]
    BY <1>1, <1>5
  <2>2. q \in pending' => q \in pending
    BY <1>5, Zenon
  <2>3. EarnedOnceFor(q)
    BY DEF EarnedInv
  <2>4. QED
    BY <2>1, <2>2, <2>3, Zenon DEF EarnedOnceFor
<1>6. QED
  BY <1>4, <1>5 DEF EarnedInv

LEMMA EarnedInvStep ==
  ASSUME WorkInv, EarnedInv, [Next]_vars
  PROVE  EarnedInv'
<1>1. /\ rows \in [PassNos -> {NoRow} \cup Row] /\ earned \in [PassNos -> Nat]
      /\ Grows
  BY WorkInvStep DEF WorkInv, TypeOK
<1>2. ASSUME UNCHANGED <<earned, pending>>,
             \A p \in PassNos : rows[p] # NoRow =>
               rows'[p] # NoRow /\ rows'[p].trial = rows[p].trial
      PROVE  EarnedInv'
  BY <1>2 DEF EarnedInv, EarnedOnceFor
<1>3. CASE UNCHANGED <<rows, earned, pending>>
  BY <1>3 DEF EarnedInv, EarnedOnceFor
<1>4. ASSUME NEW w \in Workers, PassCreated(w) PROVE EarnedInv'
  BY <1>4, CreatedRow, EarnedOnInsert, Zenon
<1>5. ASSUME NEW w \in Workers, PassUpdated(w) PROVE EarnedInv'
  BY <1>1, <1>2, <1>5, UpdatedRow
<1>6. ASSUME NEW p \in PassNos, EarningsWritten(p) PROVE EarnedInv'
  <2>1. /\ p \in pending /\ pending' = pending \ {p} /\ rows' = rows
        /\ earned' = [earned EXCEPT ![p] = earned[p] + 1]
    BY <1>6 DEF EarningsWritten
  <2>2. earned[p] = 0 /\ rows[p] # NoRow /\ ~ rows[p].trial
    BY <2>1 DEF EarnedInv, EarnedOnceFor
  <2>3. earned'[p] = 1
    BY <1>1, <2>1, <2>2
  <2>4. EarnedOnceFor(p)'
    BY <2>1, <2>2, <2>3 DEF EarnedOnceFor
  <2>5. ASSUME NEW q \in PassNos, q # p PROVE EarnedOnceFor(q)'
    BY <1>1, <2>1, <2>5 DEF EarnedInv, EarnedOnceFor
  <2>6. QED
    BY <2>4, <2>5 DEF EarnedInv
<1>7. ASSUME NEW p \in PassNos, EarningsFail(p) PROVE EarnedInv'
  BY <1>7 DEF EarningsFail, EarnedInv, EarnedOnceFor
<1>8. CASE Restart
  BY <1>8 DEF Restart, EarnedInv, EarnedOnceFor
<1>9. QED
  BY <1>3, <1>4, <1>5, <1>6, <1>7, <1>8, TableSteps

(* A chain sale earns at most once and a trial nothing, however many jobs  *)
(* go over the event again, whatever fails, and wherever it restarts.      *)
THEOREM EarnedOnceSound == Spec => []EarnedOnce
<1>1. Init => EarnedInv
  BY DEF Init, EarnedInv, EarnedOnceFor
<1>2. WorkInv => TypeOK
  BY DEF WorkInv
<1>3. QED
  BY <1>1, <1>2, WorkInvInit, WorkInvStep, EarnedInvStep, EarnedInvEnough,
     PTL DEF Spec

-----------------------------------------------------------------------------
(* The projection.  The owner that the table shows of a pass is the one its*)
(* only event names.                                                       *)
LEMMA FanMintedIs ==
  ASSUME NEW i \in PassEvents
  PROVE  Log[i].pass \in PassNos /\ FanMinted[Log[i].pass] = Log[i].fan
<1>. DEFINE p == Log[i].pass
            m == CHOOSE j \in PassEvents : Log[j].pass = p
<1>1. p \in PassNos
  BY DEF PassNos
<1>2. m \in PassEvents /\ Log[m].pass = p
  OBVIOUS
<1>3. m = i
  BY <1>2, IndexerAssumption DEF PassEvents
<1>4. FanMinted[p] = Log[m].fan
  BY <1>1 DEF FanMinted
<1>5. QED
  BY <1>1, <1>3, <1>4

(* Events, once emitted, stay so.                                          *)
LEMMA AnnouncedGrows ==
  ASSUME WorkInv, Grows
  PROVE  Announced \subseteq Announced' /\ Announced' \subseteq PassNos
<1>1. tip \in Nat /\ tip' \in Nat /\ tip <= tip'
  BY DEF WorkInv, TypeOK, Grows
<1>2. Emitted \subseteq Emitted'
  BY <1>1, LogTypes DEF Emitted
<1>3. QED
  BY <1>2 DEF Announced, PassNos

LEMMA OwnerSame ==
  ASSUME \A p \in PassNos : rows'[p].fan = rows[p].fan
  PROVE  Owner' = Owner
BY DEF Owner

LEMMA ProjectionStep ==
  ASSUME WorkInv, [Next]_vars
  PROVE  Projection!Next \/ UNCHANGED <<Announced, Owner>>
<1>1. Grows /\ rows \in [PassNos -> {NoRow} \cup Row]
  BY WorkInvStep DEF WorkInv, TypeOK
<1>2. Announced \subseteq Announced' /\ Announced' \subseteq PassNos
  BY <1>1, AnnouncedGrows
<1>3. CASE Owner' = Owner
  BY <1>2, <1>3 DEF Projection!Next, Projection!Announce
<1>4. ASSUME NEW w \in Workers, PassCreated(w)
      PROVE  Projection!Next
  <2>. DEFINE i == work[w].next
              p == Log[i].pass
  <2>1. /\ i \in PassEvents /\ i \in Emitted /\ p \in PassNos
        /\ rows[p] = NoRow /\ tip' = tip
    BY <1>4, CreatedRow
  <2>2. PICK c \in Row : rows' = [rows EXCEPT ![p] = c] /\ c.fan = Log[i].fan
    BY <1>4, CreatedRow
  <2>3. FanMinted[p] = Log[i].fan
    BY <2>1, FanMintedIs
  <2>4. p \in Announced /\ Announced' = Announced
    BY <2>1 DEF Announced, Emitted
  <2>. HIDE DEF p
  <2>5. Owner[p] = "none"
    BY <2>1 DEF Owner, NoRow
  <2>6. Owner' = [Owner EXCEPT ![p] = FanMinted[p]]
    BY <1>1, <2>1, <2>2, <2>3 DEF Owner
  <2>7. QED
    BY <2>1, <2>4, <2>5, <2>6 DEF Projection!Next, Projection!Index
<1>5. ASSUME NEW w \in Workers, PassUpdated(w)
      PROVE  Owner' = Owner
  BY <1>5, UpdatedRow, OwnerSame
<1>6. CASE rows' = rows
  BY <1>3, <1>6 DEF Owner
<1>7. QED
  BY <1>3, <1>4, <1>5, <1>6, TableSteps DEF EarningsWritten, EarningsFail, Restart

(* The Pass table is a projection of the contract's events: a row appears  *)
(* only for a pass whose event the chain has emitted, shows the fan that   *)
(* the event names, and is there to stay, whatever fails or starts again.  *)
THEOREM ProjectionImplemented == Spec => ImplementsProjection
<1>1. Init => Projection!Init
  <2> SUFFICES ASSUME Init PROVE Projection!Init
    OBVIOUS
  <2>1. Emitted = {}
    <3>1. ASSUME NEW i \in DOMAIN Log PROVE ~ Log[i].ledger <= 0
      BY LogTypes, IndexerAssumption
    <3>2. QED
      BY <3>1 DEF Init, Emitted
  <2>2. Announced = {}
    BY <2>1 DEF Announced
  <2>3. Owner = [p \in PassNos |-> "none"]
    <3>1. \A p \in PassNos : rows[p] = NoRow
      BY DEF Init
    <3>2. NoRow.fan = "none"
      BY DEF NoRow
    <3>3. QED
      BY <3>1, <3>2 DEF Owner
  <2>4. QED
    BY <2>2, <2>3 DEF Projection!Init
<1>2. WorkInv /\ [Next]_vars => Projection!Next \/ UNCHANGED <<Announced, Owner>>
  BY ProjectionStep
<1>3. QED
  BY <1>1, <1>2, WorkInvInit, WorkInvStep,
     PTL DEF Spec, ImplementsProjection, Projection!Spec

-----------------------------------------------------------------------------
(* Trials.  What a handler has read of the passes that had rows stays true *)
(* of them until it writes, whoever adds rows in between: the two may      *)
(* share a trial only by rows that the other's look-up did not see.        *)
SameSale(p, f, k) == rows[p].fan = f /\ rows[p].creator = k

KeptBy(r, e) ==
  r # NoRead =>
    /\ r.seen \subseteq Stored
    /\ \A p \in r.seen \cap Sells(e.tier) :
         SameSale(p, e.fan, r.creator) => ~ r.first /\ (rows[p].trial => r.spent)

ReadKept(w) == KeptBy(work[w].read, At(w))

SeenStored == \A p \in Stored : rows[p].seen \subseteq Stored

TrialInv ==
  /\ TrialSharedByOverlapOnly
  /\ SeenStored
  /\ \A w \in Workers : ReadKept(w)

(* What a step does to what a worker has read.                             *)
LEMMA ReadSteps ==
  ASSUME WorkInv, [Next]_vars, NEW w \in Workers
  PROVE  \/ work'[w] = work[w]
         \/ work'[w].read = NoRead
         \/ \E k \in Creators : PassMintedRead(w, k)
<1>1. CASE UNCHANGED work
  BY <1>1
<1>2. ASSUME NEW v \in Workers, ProcessEvent(v)
      PROVE  \/ work'[w] = work[w]
             \/ work'[w].read = NoRead
             \/ \E k \in Creators : PassMintedRead(w, k)
  <2>1. CASE NextEvent(v)
    BY <2>1, NextEventTypes
  <2>2. ASSUME NEW k \in Creators, PassMintedRead(v, k)
        PROVE  work'[w] = work[w] \/ PassMintedRead(w, k)
    BY <2>2, ReadTypes
  <2>3. QED
    BY <1>2, <2>1, <2>2 DEF ProcessEvent, HandleCreatorRegistered,
       HandleTierCreated, HandleTierDeactivated, PassMintedDropped, PassCreated,
       PassRefused, PassUpdated, EventFails
<1>3. ASSUME NEW v \in Workers, NEW from \in Nat, Fetch(v, from)
      PROVE  work'[w] = work[w] \/ work'[w].read = NoRead
  BY <1>3, FetchTypes
<1>4. CASE PollFetch
  <2>1. checkpoint \in Nat /\ "poller" \in Workers /\ Fetch("poller", checkpoint)
    BY <1>4 DEF WorkInv, TypeOK, Workers, PollFetch
  <2>2. QED
    BY <1>3, <2>1
<1>5. ASSUME NEW j \in Jobs, JobFetch(j)
      PROVE  work'[w] = work[w] \/ work'[w].read = NoRead
  <2>1. job[j].ledger \in Nat /\ j \in Workers /\ Fetch(j, job[j].ledger)
    BY <1>5 DEF WorkInv, TypeOK, Workers, JobFetch
  <2>2. QED
    BY <1>3, <2>1
<1>6. CASE Restart
  BY <1>6 DEF Restart, NoWork
<1>7. CASE UNCHANGED vars
  BY <1>1, <1>7 DEF vars
<1>8. CASE Next
  <2>1. "poller" \in Workers /\ \A j \in Jobs : j \in Workers
    BY DEF Workers
  <2>2. CASE PollStep
    BY <1>1, <1>2, <1>4, <2>1, <2>2 DEF PollStep, PollBegin, PollSave
  <2>3. ASSUME NEW j \in Jobs, JobStep(j)
        PROVE  \/ work'[w] = work[w]
               \/ work'[w].read = NoRead
               \/ \E k \in Creators : PassMintedRead(w, k)
    BY <1>1, <1>2, <1>5, <2>1, <2>3 DEF JobStep, JobNextLedger, JobDone
  <2>4. QED
    BY <1>1, <1>6, <1>8, <2>2, <2>3
       DEF Next, CloseLedger, RegisterCreator, CreateTrialTier, SetBlock,
           JobStart, EarningsWritten, EarningsFail
<1>9. QED
  BY <1>7, <1>8

LEMMA KeptStays ==
  ASSUME Grows, NEW r, NEW e, KeptBy(r, e)
  PROVE  KeptBy(r, e)'
<1>1. Stored \subseteq Stored'
  BY DEF Stored, Grows
<1>2. \A p \in Stored : /\ rows'[p].fan = rows[p].fan
                        /\ rows'[p].creator = rows[p].creator
                        /\ rows'[p].trial = rows[p].trial
  BY DEF Stored, Grows
<1>3. QED
  BY <1>1, <1>2 DEF KeptBy, SameSale

(* The read itself sees every row that is there.                           *)
LEMMA KeptWhenRead ==
  ASSUME WorkInv, NEW w \in Workers, NEW k \in Creators, PassMintedRead(w, k)
  PROVE  KeptBy(work'[w].read, At(w))
<1>1. PICK e : e = At(w)
  OBVIOUS
<1>. DEFINE prior == PriorRows(e.fan, k, e.tier)
            here == rows[e.pass] # NoRow
            fst == IsFirstTime(prior)
            spt == TrialSpent(prior)
<1>2. work'[w].read = [creator |-> k, exists |-> here, first |-> fst,
                       spent |-> spt, seen |-> Stored]
  BY <1>1, ReadTypes
<1>3. PICK r : r = work'[w].read
  OBVIOUS
<1>4. /\ r.creator = k /\ r.seen = Stored
      /\ r.first = fst /\ r.spent = spt
  <2>. HIDE DEF here, fst, spt
  <2>1. QED
    BY <1>2, <1>3
<1>5. ASSUME NEW p \in Stored \cap Sells(e.tier), SameSale(p, e.fan, k)
      PROVE  ~ r.first /\ (rows[p].trial => r.spent)
  <2>1. p \in prior
    BY <1>5 DEF PriorRows, SameSale
  <2>2. prior # {} /\ (rows[p].trial => TrialSpent(prior))
    BY <2>1 DEF TrialSpent
  <2>3. ~ fst /\ (rows[p].trial => spt)
    BY <2>2 DEF IsFirstTime
  <2>. HIDE DEF fst, spt
  <2>4. QED
    BY <1>4, <2>3, Zenon
<1>6. KeptBy(r, e)
  BY <1>4, <1>5 DEF KeptBy
<1>7. QED
  BY <1>1, <1>3, <1>6

LEMMA ReadsKept ==
  ASSUME WorkInv, TrialInv, [Next]_vars, NEW w \in Workers
  PROVE  ReadKept(w)'
<1>1. Grows
  BY WorkInvStep
<1>2. CASE work'[w] = work[w]
  <2>1. PICK r, e : r = work[w].read /\ e = At(w)
    OBVIOUS
  <2>2. work'[w].read = r /\ At(w)' = e
    BY <1>2, <2>1 DEF At
  <2>3. KeptBy(r, e)
    BY <2>1 DEF TrialInv, ReadKept
  <2>4. KeptBy(r, e)'
    BY <1>1, <2>3, KeptStays
  <2>5. QED
    BY <2>2, <2>4 DEF ReadKept
<1>3. CASE work'[w].read = NoRead
  BY <1>3 DEF ReadKept, KeptBy
<1>4. ASSUME NEW k \in Creators, PassMintedRead(w, k)
      PROVE  ReadKept(w)'
  <2>1. PICK r, e : r = work'[w].read /\ e = At(w)
    OBVIOUS
  <2>2. At(w)' = e
    BY <1>4, <2>1, ReadTypes DEF At
  <2>3. KeptBy(r, e)
    BY <1>4, <2>1, KeptWhenRead
  <2>4. KeptBy(r, e)'
    BY <1>1, <2>3, KeptStays
  <2>5. QED
    BY <2>1, <2>2, <2>4 DEF ReadKept
<1>5. QED
  BY <1>2, <1>3, <1>4, ReadSteps

(* Steps that leave the owners and kinds of all rows.                      *)
RowsAlike ==
  \A p \in PassNos : /\ rows'[p] = NoRow <=> rows[p] = NoRow
                     /\ rows'[p].fan = rows[p].fan
                     /\ rows'[p].creator = rows[p].creator
                     /\ rows'[p].trial = rows[p].trial
                     /\ rows'[p].seen = rows[p].seen

LEMMA TrialAlike ==
  ASSUME TrialSharedByOverlapOnly, SeenStored, RowsAlike
  PROVE  TrialSharedByOverlapOnly' /\ SeenStored'
<1>1. Stored' = Stored
  BY DEF RowsAlike, Stored
<1>2. \A p \in Stored : /\ rows'[p].fan = rows[p].fan
                        /\ rows'[p].creator = rows[p].creator
                        /\ rows'[p].trial = rows[p].trial
                        /\ rows'[p].seen = rows[p].seen
  BY DEF RowsAlike, Stored
<1>3. QED
  BY <1>1, <1>2 DEF TrialSharedByOverlapOnly, SeenStored

(* A trial goes to a fan of whom the look-up saw no row there, a chain pass*)
(* to one of whom it saw no trial; and no other look-up saw the new row.   *)
LEMMA TrialOnInsert ==
  ASSUME WorkInv, TrialSharedByOverlapOnly, SeenStored,
         NEW i \in PassEvents, NEW c \in Row, NEW r \in Read,
         rows[Log[i].pass] = NoRow, rows' = [rows EXCEPT ![Log[i].pass] = c],
         KeptBy(r, Log[i]), ~ r.spent,
         c.fan = Log[i].fan, c.creator = r.creator, c.seen = r.seen,
         c.trial => r.first
  PROVE  TrialSharedByOverlapOnly' /\ SeenStored'
<1>1. PICK n : n = Log[i].pass
  OBVIOUS
<1>2. rows \in [PassNos -> {NoRow} \cup Row] /\ n \in PassNos
  BY <1>1 DEF WorkInv, TypeOK, PassNos
<1>3. r # NoRead /\ c # NoRow
  BY DEF Read, NoRead, Row, NoRow
<1>4. /\ n \notin Stored
      /\ Stored' = Stored \cup {n}
      /\ rows'[n] = c /\ \A p \in Stored : rows'[p] = rows[p]
  BY <1>1, <1>2, <1>3 DEF Stored
<1>5. c.seen \subseteq Stored
  BY <1>3 DEF KeptBy
<1>6. SeenStored'
  BY <1>4, <1>5 DEF SeenStored
<1>7. ASSUME NEW id, n \in Sells(id) PROVE id = Log[i].tier
  <2>1. PICK j \in PassEvents : Log[j].tier = id /\ Log[j].pass = n
    BY <1>7 DEF Sells
  <2>2. j = i
    BY <1>1, <2>1, IndexerAssumption DEF PassEvents
  <2>3. QED
    BY <2>1, <2>2
<1>8. ASSUME NEW p \in Stored, NEW id, p \in Sells(id), n \in Sells(id),
             rows[p].fan = c.fan, rows[p].creator = c.creator, p \in c.seen
      PROVE  ~ c.trial /\ ~ rows[p].trial
  <2>1. p \in r.seen \cap Sells(Log[i].tier)
    BY <1>7, <1>8
  <2>2. SameSale(p, Log[i].fan, r.creator)
    BY <1>8 DEF SameSale
  <2>3. ~ r.first /\ (rows[p].trial => r.spent)
    BY <1>3, <2>1, <2>2, Zenon DEF KeptBy
  <2>4. QED
    BY <2>3, Zenon
<1>9. ASSUME NEW id \in TierIds, NEW p \in Stored' \cap Sells(id),
             NEW q \in Stored' \cap Sells(id),
             p # q, rows'[p].trial, rows'[p].fan = rows'[q].fan,
             rows'[p].creator = rows'[q].creator
      PROVE  p \notin rows'[q].seen /\ q \notin rows'[p].seen
  <2>1. CASE p = n
    <3>1. q \in Stored /\ rows'[q] = rows[q]
      BY <1>4, <1>9, <2>1
    <3>2. p \notin rows[q].seen
      BY <1>4, <2>1, <3>1 DEF SeenStored
    <3>3. rows[q].fan = c.fan /\ rows[q].creator = c.creator /\ c.trial
      BY <1>4, <1>9, <2>1, <3>1
    <3>4. q \notin c.seen
      BY <1>8, <1>9, <2>1, <3>1, <3>3
    <3>5. QED
      BY <1>4, <2>1, <3>1, <3>2, <3>4
  <2>2. CASE q = n
    <3>1. p \in Stored /\ rows'[p] = rows[p]
      BY <1>4, <1>9, <2>2
    <3>2. q \notin rows[p].seen
      BY <1>4, <2>2, <3>1 DEF SeenStored
    <3>3. rows[p].fan = c.fan /\ rows[p].creator = c.creator /\ rows[p].trial
      BY <1>4, <1>9, <2>2, <3>1
    <3>4. p \notin c.seen
      BY <1>8, <1>9, <2>2, <3>1, <3>3
    <3>5. QED
      BY <1>4, <2>2, <3>1, <3>2, <3>4
  <2>3. CASE p # n /\ q # n
    <3>1. /\ p \in Stored \cap Sells(id) /\ rows'[p] = rows[p]
          /\ q \in Stored \cap Sells(id) /\ rows'[q] = rows[q]
      BY <1>4, <1>9, <2>3
    <3>2. QED
      BY <1>9, <3>1 DEF TrialSharedByOverlapOnly
  <2>4. QED
    BY <2>1, <2>2, <2>3
<1>10. TrialSharedByOverlapOnly'
  BY <1>9 DEF TrialSharedByOverlapOnly
<1>11. QED
  BY <1>6, <1>10

LEMMA TrialInvStep ==
  ASSUME WorkInv, TrialInv, [Next]_vars
  PROVE  TrialInv'
<1>1. \A w \in Workers : ReadKept(w)'
  BY ReadsKept
<1>2. CASE RowsAlike
  BY <1>1, <1>2, TrialAlike DEF TrialInv
<1>3. ASSUME NEW w \in Workers, PassCreated(w) PROVE TrialInv'
  <2>1. PICK i, r : i = work[w].next /\ r = work[w].read
    OBVIOUS
  <2>2. /\ i \in PassEvents /\ r \in Read /\ ~ r.spent
        /\ rows[Log[i].pass] = NoRow
    BY <1>3, <2>1, CreatedRow
  <2>3. PICK c \in Row : /\ rows' = [rows EXCEPT ![Log[i].pass] = c]
                         /\ c.fan = Log[i].fan /\ c.creator = r.creator
                         /\ c.seen = r.seen
                         /\ c.trial => r.first
    BY <1>3, <2>1, CreatedRow
  <2>4. KeptBy(r, Log[i])
    BY <2>1 DEF TrialInv, ReadKept, At
  <2>5. TrialSharedByOverlapOnly' /\ SeenStored'
    <3>1. TrialSharedByOverlapOnly /\ SeenStored
      BY DEF TrialInv
    <3>2. QED
      BY <2>2, <2>3, <2>4, <3>1, TrialOnInsert
  <2>6. QED
    BY <1>1, <2>5 DEF TrialInv
<1>4. ASSUME NEW w \in Workers, PassUpdated(w) PROVE RowsAlike
  BY <1>4, UpdatedRow DEF RowsAlike
<1>5. rows' = rows => RowsAlike
  BY DEF RowsAlike
<1>6. ASSUME NEW p \in PassNos, EarningsWritten(p) \/ EarningsFail(p)
      PROVE  rows' = rows
  BY <1>6 DEF EarningsWritten, EarningsFail
<1>7. Restart => rows' = rows
  BY DEF Restart
<1>8. UNCHANGED <<rows, earned, pending>> => rows' = rows
  OBVIOUS
<1>9. QED
  BY <1>2, <1>3, <1>4, <1>5, <1>6, <1>7, <1>8, TableSteps

(* A trial closes its tier to the fan who had it, whatever jobs run beside *)
(* the poller, whatever fails and wherever it restarts: a fan has a second *)
(* pass beside a trial there only when two workers had both looked up his  *)
(* passes before either stored the row.                                    *)
THEOREM TrialSharedByOverlapSound == Spec => []TrialSharedByOverlapOnly
<1>1. ASSUME Init PROVE TrialInv
  <2>1. Stored = {}
    BY <1>1 DEF Init, Stored
  <2>2. ASSUME NEW w \in Workers PROVE work[w].read = NoRead
    BY <1>1 DEF Init, NoWork
  <2>3. QED
    BY <2>1, <2>2 DEF TrialInv, TrialSharedByOverlapOnly, SeenStored, ReadKept, KeptBy
<1>2. TrialInv => TrialSharedByOverlapOnly
  BY DEF TrialInv
<1>3. WorkInv /\ TrialInv /\ [Next]_vars => TrialInv'
  BY TrialInvStep
<1>4. QED
  BY <1>1, <1>2, <1>3, WorkInvInit, WorkInvStep, PTL DEF Spec

-----------------------------------------------------------------------------
(* Coverage.  Nothing fails, a page holds all events, nobody is blocked, no*)
(* tier has a trial, no id is zero, and a pass comes after its tier.       *)
Undisturbed ==
  /\ Faults = {} /\ Blockable = {} /\ TrialTiers = {}
  /\ Len(Log) <= PageLimit
  /\ \A i \in DOMAIN Log :
       /\ Log[i].kind = "tier" => Log[i].tier # 0
       /\ Log[i].kind = "pass" /\ Known(Log[i].tier) =>
            /\ Log[i].pass # 0
            /\ \E j \in DOMAIN Log :
                 /\ j < i /\ Log[j].kind = "tier" /\ Log[j].tier = Log[i].tier
                 /\ Log[j].creator \in Registered

(* Then no reading of a handler ever stands in the way of a row.           *)
OpenInv ==
  /\ Registered \subseteq creators
  /\ blocks = {}
  /\ \A t \in Creators \X TierIds : ~ tiers[t].trial
  /\ \A p \in PassNos : rows[p] # NoRow => ~ rows[p].trial
  /\ \A w \in Workers : work[w].read # NoRead => ~ work[w].read.spent

(* The tier or the pass of the event is in the database.                   *)
Covered(i) ==
  /\ Log[i].kind = "tier" /\ Log[i].creator \in Registered =>
       tiers[<<Log[i].creator, Log[i].tier>>].status # "none"
  /\ Log[i].kind = "pass" /\ Known(Log[i].tier) => rows[Log[i].pass] # NoRow

(* The poller has covered what its checkpoint has left behind, and what it *)
(* has passed on its page, which reaches the ledger it will save.          *)
CoverInv ==
  /\ poll.latest <= tip
  /\ \A i \in DOMAIN Log : Log[i].ledger <= checkpoint => Covered(i)
  /\ poll.pc = "working" =>
       \A i \in DOMAIN Log :
         /\ i < work["poller"].next => Covered(i)
         /\ Log[i].ledger <= poll.latest => i <= work["poller"].last

(* Nothing covered is ever uncovered.                                      *)
LEMMA CoveredStays ==
  ASSUME Grows, NEW i \in DOMAIN Log, Covered(i)
  PROVE  Covered(i)'
<1>1. CASE Log[i].kind = "tier"
  BY <1>1, EventKinds DEF Covered, Grows
<1>2. CASE Log[i].kind = "pass"
  BY <1>2, EventKinds DEF Covered, Grows, Known
<1>3. CASE Log[i].kind \notin {"tier", "pass"}
  BY <1>3 DEF Covered
<1>4. QED
  BY <1>1, <1>2, <1>3

(* The event that a worker has dealt with is covered, provided the earlier *)
(* ones were.                                                              *)
LEMMA HandledIsCovered ==
  ASSUME Undisturbed, WorkInv, OpenInv, NEW w \in Workers, ProcessEvent(w),
         work'[w].next # work[w].next, NEW i \in DOMAIN Log, i = work[w].next,
         \A j \in DOMAIN Log : j < i => Covered(j)
  PROVE  Covered(i)'
<1>1. Grows /\ TypeOK /\ ReadSound(w)
  BY HandlersGrow DEF WorkInv
<1>2. At(w) = Log[i]
  BY DEF At
<1>3. ASSUME Log[i].kind = "tier", Log[i].creator \in Registered
      PROVE  tiers'[<<Log[i].creator, Log[i].tier>>].status # "none"
  <2>. DEFINE t == <<Log[i].creator, Log[i].tier>>
  <2>1. HandleTierCreated(w)
    BY <1>2, <1>3 DEF ProcessEvent, HandleCreatorRegistered, HandleTierDeactivated,
       PassMintedRead, PassMintedDropped, PassCreated, PassRefused, PassUpdated,
       EventFails, Handling, Undisturbed
  <2>2. t \in Creators \X TierIds
    BY <1>3, EventKinds
  <2>3. Log[i].tier # 0 /\ Log[i].creator \in creators
    BY <1>3 DEF Undisturbed, OpenInv
  <2>4. tiers' = [tiers EXCEPT ![t].status = "active"]
    BY <1>2, <2>1, <2>3 DEF HandleTierCreated
  <2>5. tiers[t] \in Tier
    BY <1>1, <2>2 DEF TypeOK
  <2>. HIDE DEF t
  <2>6. tiers'[t].status = "active"
    BY <1>1, <2>2, <2>4, <2>5 DEF TypeOK, Tier
  <2>7. QED
    BY <2>6 DEF t
<1>4. ASSUME Log[i].kind = "pass", Known(Log[i].tier)
      PROVE  rows'[Log[i].pass] # NoRow
  <2>. DEFINE p == Log[i].pass
              r == work[w].read
  <2>1. p \in PassNos /\ p # 0
    BY <1>4, EventKinds DEF Undisturbed
  <2>2. SellersOf(Log[i].tier) # {}
    <3>1. PICK j \in DOMAIN Log : /\ j < i /\ Log[j].kind = "tier"
                                  /\ Log[j].tier = Log[i].tier
                                  /\ Log[j].creator \in Registered
      BY <1>4 DEF Undisturbed
    <3>2. tiers[<<Log[j].creator, Log[i].tier>>].status # "none"
      BY <3>1 DEF Covered
    <3>3. Log[j].creator \in Creators
      BY <3>1, EventKinds
    <3>4. QED
      BY <3>2, <3>3 DEF SellersOf
  <2>3. \A k \in Creators : ~ PassMintedRead(w, k)
    BY ReadTypes
  <2>4. ~ PassMintedDropped(w)
    BY <1>2, <2>1, <2>2 DEF PassMintedDropped, OpenInv
  <2>5. PassCreated(w) \/ PassRefused(w) \/ PassUpdated(w)
    BY <1>2, <1>4, <2>3, <2>4 DEF ProcessEvent, HandleCreatorRegistered,
       HandleTierCreated, HandleTierDeactivated, EventFails, Handling, Undisturbed
  <2>6. CASE PassCreated(w)
    <3>1. PICK c \in Row : rows' = [rows EXCEPT ![p] = c]
      BY <2>6, CreatedRow
    <3>2. c # NoRow
      BY DEF Row, NoRow
    <3>3. QED
      BY <1>1, <2>1, <3>1, <3>2 DEF TypeOK
  <2>7. CASE PassRefused(w)
    <3>1. r # NoRead /\ (r.spent \/ rows[p] # NoRow) /\ rows' = rows
      BY <1>2, <2>7 DEF PassRefused, dbVars
    <3>2. QED
      BY <3>1 DEF OpenInv
  <2>8. CASE PassUpdated(w)
    <3>1. r # NoRead /\ r.exists
      BY <2>8 DEF PassUpdated
    <3>2. rows[p] # NoRow
      BY <1>1, <1>2, <3>1 DEF ReadSound
    <3>3. QED
      BY <1>1, <2>1, <3>2 DEF Grows
  <2>9. QED
    BY <2>5, <2>6, <2>7, <2>8
<1>5. QED
  BY <1>3, <1>4 DEF Covered, Known

(* Tiers have a trial only from the API, blocks come only from there.      *)
LEMMA TrialsFromApi ==
  ASSUME Undisturbed, WorkInv, OpenInv, [Next]_vars
  PROVE  /\ Registered \subseteq creators' /\ blocks' = {}
         /\ \A t \in Creators \X TierIds : ~ tiers'[t].trial
<1>1. Grows /\ tiers \in [Creators \X TierIds -> Tier]
  BY WorkInvStep DEF WorkInv, TypeOK
<1>2. Registered \subseteq creators'
  BY <1>1 DEF Grows, OpenInv
<1>3. UNCHANGED blocks
  <2>1. ASSUME NEW w \in Workers, ProcessEvent(w) PROVE UNCHANGED blocks
    BY <2>1 DEF ProcessEvent, HandleCreatorRegistered, HandleTierCreated,
       HandleTierDeactivated, PassMintedRead, PassMintedDropped, PassCreated,
       PassRefused, PassUpdated, EventFails, dbVars
  <2>2. "poller" \in Workers /\ \A j \in Jobs : j \in Workers
    BY DEF Workers
  <2>3. QED
    BY <2>1, <2>2 DEF Undisturbed, Next, vars, dbVars, PollStep, JobStep, PollBegin,
       PollFetch, PollSave, JobFetch, JobNextLedger, JobDone, JobStart, CloseLedger,
       RegisterCreator, CreateTrialTier, EarningsWritten, EarningsFail, Restart
<1>4. ASSUME NEW w \in Workers, ProcessEvent(w)
      PROVE  \/ tiers' = tiers
             \/ \E t \in Creators \X TierIds, s \in {"active", "closed"} :
                  tiers' = [tiers EXCEPT ![t].status = s]
  <2>. DEFINE t == <<At(w).creator, At(w).tier>>
  <2>1. CASE HandleTierCreated(w) \/ HandleTierDeactivated(w)
    <3>1. ~ PageDone(w) /\ At(w).kind \in {"tier", "closed"}
      BY <2>1 DEF HandleTierCreated, HandleTierDeactivated, Handling
    <3>2. t \in Creators \X TierIds
      BY <3>1, EventAt, EventKinds DEF At
    <3>3. tiers' = tiers \/ \E s \in {"active", "closed"} :
                              tiers' = [tiers EXCEPT ![t].status = s]
      BY <2>1 DEF HandleTierCreated, HandleTierDeactivated
    <3>. HIDE DEF t
    <3>4. QED
      BY <3>2, <3>3
  <2>2. QED
    BY <1>4, <2>1 DEF ProcessEvent, HandleCreatorRegistered, PassMintedRead,
       PassMintedDropped, PassCreated, PassRefused, PassUpdated, EventFails, dbVars
<1>5. \/ tiers' = tiers
      \/ \E t \in Creators \X TierIds, s \in {"active", "closed"} :
           tiers' = [tiers EXCEPT ![t].status = s]
  <2>1. "poller" \in Workers /\ \A j \in Jobs : j \in Workers
    BY DEF Workers
  <2>2. QED
    BY <1>4, <2>1 DEF Undisturbed, Next, vars, dbVars, PollStep, JobStep, PollBegin,
       PollFetch, PollSave, JobFetch, JobNextLedger, JobDone, JobStart, CloseLedger,
       RegisterCreator, SetBlock, EarningsWritten, EarningsFail, Restart
<1>6. \A t \in Creators \X TierIds : ~ tiers'[t].trial
  <2>1. CASE tiers' = tiers
    BY <2>1 DEF OpenInv
  <2>2. ASSUME NEW t \in Creators \X TierIds, NEW s \in {"active", "closed"},
               tiers' = [tiers EXCEPT ![t].status = s]
        PROVE  \A u \in Creators \X TierIds : ~ tiers'[u].trial
    <3>. DEFINE c == [tiers[t] EXCEPT !.status = s]
    <3>1. c.trial = tiers[t].trial
      BY <1>1 DEF Tier
    <3>2. tiers' = [tiers EXCEPT ![t] = c]
      BY <2>2
    <3>. HIDE DEF c
    <3>3. QED
      BY <1>1, <3>1, <3>2 DEF OpenInv
  <2>3. QED
    BY <1>5, <2>1, <2>2
<1>7. QED
  BY <1>2, <1>3, <1>6 DEF OpenInv

LEMMA OpenInvStep ==
  ASSUME Undisturbed, WorkInv, OpenInv, [Next]_vars
  PROVE  OpenInv'
<1>1. /\ Registered \subseteq creators' /\ blocks' = {}
      /\ \A t \in Creators \X TierIds : ~ tiers'[t].trial
  BY TrialsFromApi
<1>2. \A p \in PassNos : rows'[p] # NoRow => ~ rows'[p].trial
  <2>1. CASE RowsAlike
    BY <2>1 DEF RowsAlike, OpenInv
  <2>2. ASSUME NEW w \in Workers, PassCreated(w)
        PROVE  \A p \in PassNos : rows'[p] # NoRow => ~ rows'[p].trial
    <3>1. PICK i, k : i = work[w].next /\ k = work[w].read.creator
      OBVIOUS
    <3>2. PICK c \in Row : /\ rows' = [rows EXCEPT ![Log[i].pass] = c]
                           /\ c.trial => tiers[<<k, Log[i].tier>>].trial
      BY <2>2, <3>1, CreatedRow
    <3>3. i \in PassEvents /\ work[w].read \in Read
      BY <2>2, <3>1, CreatedRow
    <3>4. <<k, Log[i].tier>> \in Creators \X TierIds
      BY <3>1, <3>3, EventKinds DEF Read, PassEvents
    <3>5. ~ c.trial
      BY <3>2, <3>4 DEF OpenInv
    <3>6. rows \in [PassNos -> {NoRow} \cup Row]
      BY DEF WorkInv, TypeOK
    <3>7. QED
      BY <3>2, <3>5, <3>6 DEF OpenInv
  <2>3. ASSUME NEW w \in Workers, PassUpdated(w) PROVE RowsAlike
    BY <2>3, UpdatedRow DEF RowsAlike
  <2>4. rows' = rows => RowsAlike
    BY DEF RowsAlike
  <2>5. ASSUME NEW p \in PassNos, EarningsWritten(p) \/ EarningsFail(p)
        PROVE  rows' = rows
    BY <2>5 DEF EarningsWritten, EarningsFail
  <2>6. Restart => rows' = rows
    BY DEF Restart
  <2>7. UNCHANGED <<rows, earned, pending>> => rows' = rows
    OBVIOUS
  <2>8. QED
    BY <2>1, <2>2, <2>3, <2>4, <2>5, <2>6, <2>7, TableSteps
<1>3. ASSUME NEW w \in Workers, work'[w].read # NoRead PROVE ~ work'[w].read.spent
  <2>1. CASE work'[w] = work[w]
    BY <1>3, <2>1 DEF OpenInv
  <2>2. ASSUME NEW k \in Creators, PassMintedRead(w, k)
        PROVE  ~ work'[w].read.spent
    <3>. DEFINE prior == PriorRows(At(w).fan, k, At(w).tier)
                here == rows[At(w).pass] # NoRow
                fst == IsFirstTime(prior)
                spt == TrialSpent(prior)
    <3>1. work'[w].read = [creator |-> k, exists |-> here, first |-> fst, spent |-> spt,
                           seen |-> Stored]
      BY <2>2, ReadTypes
    <3>2. \A p \in prior : ~ rows[p].trial
      BY DEF PriorRows, Stored, OpenInv
    <3>3. ~ spt
      BY <3>2 DEF TrialSpent
    <3>. HIDE DEF here, fst, spt
    <3>4. work'[w].read.spent = spt
      BY <3>1
    <3>5. QED
      BY <3>3, <3>4, Zenon
  <2>3. QED
    BY <1>3, <2>1, <2>2, ReadSteps
<1>4. QED
  BY <1>1, <1>2, <1>3 DEF OpenInv

(* What a step does to the poller.                                         *)
LEMMA PollerSteps ==
  ASSUME WorkInv, [Next]_vars
  PROVE  \/ UNCHANGED <<checkpoint, poll>> /\ work'["poller"] = work["poller"]
         \/ PollBegin \/ PollFetch \/ PollSave \/ ProcessEvent("poller")
         \/ Restart
<1>1. "poller" \in Workers /\ \A j \in Jobs : j \in Workers /\ j # "poller"
  BY IndexerAssumption DEF Workers
<1>2. ASSUME NEW j \in Jobs, ProcessEvent(j)
      PROVE  UNCHANGED <<checkpoint, poll>> /\ work'["poller"] = work["poller"]
  <2>1. UNCHANGED <<checkpoint, poll>>
    BY <1>2 DEF ProcessEvent, HandleCreatorRegistered, HandleTierCreated,
       HandleTierDeactivated, PassMintedRead, PassMintedDropped, PassCreated,
       PassRefused, PassUpdated, EventFails, Handling
  <2>2. CASE NextEvent(j)
    BY <1>1, <2>1, <2>2, NextEventTypes
  <2>3. ASSUME NEW k \in Creators, PassMintedRead(j, k)
        PROVE  work'["poller"] = work["poller"]
    BY <1>1, <2>3, ReadTypes
  <2>4. QED
    BY <1>2, <2>1, <2>2, <2>3 DEF ProcessEvent, HandleCreatorRegistered,
       HandleTierCreated, HandleTierDeactivated, PassMintedDropped, PassCreated,
       PassRefused, PassUpdated, EventFails
<1>3. ASSUME NEW j \in Jobs, JobFetch(j)
      PROVE  UNCHANGED <<checkpoint, poll>> /\ work'["poller"] = work["poller"]
  <2>1. job[j].ledger \in Nat /\ Fetch(j, job[j].ledger)
    BY <1>3 DEF WorkInv, TypeOK, JobFetch
  <2>2. QED
    BY <1>1, <1>3, <2>1, FetchTypes DEF JobFetch
<1>4. CASE UNCHANGED vars
  BY <1>4 DEF vars
<1>5. CASE Next
  BY <1>2, <1>3, <1>5 DEF Next, PollStep, JobStep, JobNextLedger, JobDone, JobStart,
     CloseLedger, RegisterCreator, CreateTrialTier, SetBlock, EarningsWritten,
     EarningsFail
<1>6. QED
  BY <1>4, <1>5

(* A page that starts at a ledger skips only what lies before it, and ends *)
(* with the last event there is.                                           *)
LEMMA PageHolds ==
  ASSUME Undisturbed, WorkInv, NEW from \in Nat, NEW i \in DOMAIN Log
  PROVE  /\ i < Page(from).next => Log[i].ledger < from
         /\ Log[i].ledger <= tip => i <= Page(from).last
<1>. DEFINE below == {j \in DOMAIN Log : Log[j].ledger < from}
            skipped == Cardinality(below)
            all == Cardinality(Emitted)
<1>1. tip \in Nat /\ Emitted = UpTo(tip)
  BY DEF WorkInv, TypeOK, Emitted, UpTo
<1>2. all \in Nat /\ all <= Len(Log) /\ Len(Log) \in Nat
  BY <1>1, UpToFinite, LogTypes
<1>3. skipped \in Nat /\ (i <= skipped => i \in below)
  <2>1. CASE from = 0
    <3>1. below = {}
      BY <2>1, LogTypes
    <3>2. skipped = 0
      BY <3>1, FS_EmptySet
    <3>3. QED
      BY <3>2, LogTypes
  <2>2. CASE from # 0
    <3>1. PICK m \in Nat : from = m + 1
      BY <2>2
    <3>2. below = UpTo(m)
      BY <3>1, LogTypes DEF UpTo
    <3>3. QED
      BY <3>2, UpToFinite, UpToIsPrefix
  <2>3. QED
    BY <2>1, <2>2
<1>4. Page(from).next = skipped + 1
  BY DEF Page
<1>5. Page(from).last = IF skipped + PageLimit < all THEN skipped + PageLimit ELSE all
  BY DEF Page
<1>6. ASSUME i < Page(from).next PROVE Log[i].ledger < from
  <2>1. i \in Nat
    BY LogTypes
  <2>2. i <= skipped
    BY <1>3, <1>4, <1>6, <2>1
  <2>3. QED
    BY <1>3, <2>2
<1>7. Page(from).last = all
  <2>. HIDE DEF all, skipped
  <2>1. PageLimit \in Nat /\ Len(Log) <= PageLimit
    BY IndexerAssumption DEF Undisturbed
  <2>2. QED
    BY <1>2, <1>3, <1>5, <2>1
<1>8. Log[i].ledger <= tip => i <= all
  BY <1>1, UpToIsPrefix DEF UpTo
<1>9. QED
  BY <1>6, <1>7, <1>8

LEMMA CoverInvStep ==
  ASSUME Undisturbed, WorkInv, OpenInv, CoverInv, [Next]_vars
  PROVE  CoverInv'
<1>1. Grows /\ TypeOK /\ "poller" \in Workers
  BY WorkInvStep DEF WorkInv, Workers
<1>2. /\ tip \in Nat /\ tip' \in Nat /\ tip <= tip' /\ checkpoint \in Nat
      /\ poll \in [pc : {"idle", "ready", "working"}, latest : Nat]
      /\ work["poller"].next \in Nat /\ work["poller"].last \in Nat
  BY <1>1 DEF TypeOK, Grows, Work
<1>3. \A i \in DOMAIN Log : Covered(i) => Covered(i)'
  BY <1>1, CoveredStays
<1>4. CASE UNCHANGED <<checkpoint, poll>> /\ work'["poller"] = work["poller"]
  BY <1>2, <1>3, <1>4 DEF CoverInv
<1>5. CASE PollBegin
  <2>1. poll'.pc = "ready" /\ poll'.latest = tip /\ UNCHANGED <<tip, checkpoint>>
    BY <1>5 DEF PollBegin
  <2>2. QED
    BY <1>2, <1>3, <2>1 DEF CoverInv
<1>6. CASE PollFetch
  <2>1. work' = [work EXCEPT !["poller"] = Page(checkpoint)]
    BY <1>6 DEF PollFetch, Fetch, Undisturbed
  <2>2. work'["poller"] = Page(checkpoint)
    BY <1>1, <2>1 DEF TypeOK
  <2>3. poll'.latest = poll.latest /\ UNCHANGED <<tip, checkpoint>>
    BY <1>2, <1>6 DEF PollFetch
  <2>4. ASSUME NEW i \in DOMAIN Log
        PROVE  /\ i < work'["poller"].next => Covered(i)'
               /\ Log[i].ledger <= poll.latest => i <= work'["poller"].last
    <3>1. Log[i].ledger \in Nat
      BY LogTypes
    <3>2. Log[i].ledger < checkpoint => Covered(i)
      BY <1>2, <3>1 DEF CoverInv
    <3>3. Log[i].ledger <= poll.latest => Log[i].ledger <= tip
      BY <1>2, <3>1 DEF CoverInv
    <3>4. QED
      BY <1>2, <1>3, <2>2, <3>2, <3>3, PageHolds
  <2>5. QED
    BY <1>3, <2>3, <2>4 DEF CoverInv
<1>7. CASE PollSave
  <2>1. /\ poll.pc = "working" /\ checkpoint' = poll.latest /\ tip' = tip
        /\ poll'.pc = "idle" /\ poll'.latest = poll.latest
        /\ work["poller"].next > work["poller"].last
    BY <1>2, <1>7 DEF PollSave, PageDone
  <2>2. ASSUME NEW i \in DOMAIN Log, Log[i].ledger <= poll.latest
        PROVE  Covered(i)
    <3>1. i <= work["poller"].last /\ i \in Nat
      BY <2>1, <2>2, LogTypes DEF CoverInv
    <3>2. i < work["poller"].next
      BY <1>2, <2>1, <3>1
    <3>3. QED
      BY <2>1, <3>2 DEF CoverInv
  <2>3. QED
    BY <1>3, <2>1, <2>2 DEF CoverInv
<1>8. CASE ProcessEvent("poller")
  <2>1. UNCHANGED <<tip, checkpoint, poll>>
    BY <1>8 DEF ProcessEvent, HandleCreatorRegistered, HandleTierCreated,
       HandleTierDeactivated, PassMintedRead, PassMintedDropped, PassCreated,
       PassRefused, PassUpdated, EventFails, Handling
  <2>2. /\ work'["poller"].last = work["poller"].last
        /\ \/ work'["poller"].next = work["poller"].next
           \/ work'["poller"].next = work["poller"].next + 1
    <3>1. CASE NextEvent("poller")
      BY <1>1, <3>1, NextEventTypes
    <3>2. ASSUME NEW k \in Creators, PassMintedRead("poller", k)
          PROVE  /\ work'["poller"].last = work["poller"].last
                 /\ work'["poller"].next = work["poller"].next
      BY <1>1, <3>2, ReadTypes
    <3>3. QED
      BY <1>8, <3>1, <3>2 DEF ProcessEvent, HandleCreatorRegistered,
         HandleTierCreated, HandleTierDeactivated, PassMintedDropped, PassCreated,
         PassRefused, PassUpdated, EventFails
  <2>3. ASSUME poll.pc = "working", NEW i \in DOMAIN Log, i < work'["poller"].next
        PROVE  Covered(i)'
    <3>1. i \in Nat
      BY LogTypes
    <3>2. CASE i < work["poller"].next
      BY <1>3, <2>3, <3>2 DEF CoverInv
    <3>3. CASE ~ i < work["poller"].next
      <4>1. i = work["poller"].next /\ work'["poller"].next # work["poller"].next
        BY <1>2, <2>2, <2>3, <3>1, <3>3
      <4>2. \A j \in DOMAIN Log : j < i => Covered(j)
        BY <2>3, <4>1 DEF CoverInv
      <4>3. QED
        BY <1>1, <1>8, <4>1, <4>2, HandledIsCovered
    <3>4. QED
      BY <3>2, <3>3
  <2>4. QED
    BY <1>3, <2>1, <2>2, <2>3 DEF CoverInv
<1>9. CASE Restart
  <2>1. /\ poll'.pc = "idle" /\ poll'.latest = 0 /\ UNCHANGED <<tip, checkpoint>>
    BY <1>9 DEF Restart
  <2>2. QED
    BY <1>2, <1>3, <2>1 DEF CoverInv
<1>10. QED
  BY <1>4, <1>5, <1>6, <1>7, <1>8, <1>9, PollerSteps

(* While nothing fails, what the checkpoint has left behind is never lost, *)
(* wherever the process restarts and whatever jobs run beside the poller.  *)
THEOREM CheckpointCoversSound ==
  ASSUME Undisturbed
  PROVE  Spec => []CheckpointCovers
<1>1. Init => OpenInv
  BY IndexerAssumption DEF Init, OpenInv, NoTier, NoWork
<1>2. Init => CoverInv
  <2>1. \A i \in DOMAIN Log : Log[i].ledger \in Nat /\ Log[i].ledger > 0
    BY LogTypes, IndexerAssumption
  <2>2. QED
    BY <2>1 DEF Init, CoverInv
<1>3. CoverInv => CheckpointCovers
  BY DEF CoverInv, CheckpointCovers, Covered, PassEvents
<1>4. WorkInv /\ OpenInv /\ CoverInv /\ [Next]_vars => OpenInv' /\ CoverInv'
  BY OpenInvStep, CoverInvStep
<1>5. QED
  BY <1>1, <1>2, <1>3, <1>4, WorkInvInit, WorkInvStep, PTL DEF Spec
=============================================================================
