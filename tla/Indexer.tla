------------------------------ MODULE Indexer ------------------------------
(***************************************************************************)
(* The event indexer: indexer.service.ts, with the upsertFromChain methods *)
(* of tiers.service.ts and passes.service.ts.  It copies the contract's    *)
(* events into the database.  A poller remembers a checkpoint; an          *)
(* administrator's jobs go over a range of ledgers again, beside it.       *)
(*                                                                         *)
(* The chain is a constant log of events that becomes visible as the tip   *)
(* moves.  A worker's page is an interval of that log.                     *)
(***************************************************************************)
EXTENDS Naturals, Sequences, FiniteSets

CONSTANTS
  Creators, Fans,
  Log,          \* the contract's events, in order
  MaxLedger,    \* bound: the last ledger
  PageLimit,    \* events that one getEvents call returns at most
  MaxRange,     \* ledgers that one job may cover
  Jobs,         \* bound: the jobs that are ever started
  Faults,       \* what may fail: "rpc", "db"
  MaxRestarts,  \* bound: process restarts
  Registered,   \* creators that registered through the API at the start
  TrialTiers,   \* <<creator, tier id>> that the API may create, with a trial
  Blockable     \* <<creator, fan>> that a creator may block

(* creator_registered, tier_created, tier_deactivated and pass_minted.     *)
Event ==
  [kind : {"creator"}, ledger : Nat, creator : Creators]
  \cup [kind : {"tier", "closed"}, ledger : Nat, tier : Nat, creator : Creators]
  \cup [kind : {"pass"}, ledger : Nat, pass : Nat, tier : Nat, fan : Fans]

ASSUME IndexerAssumption ==
  /\ Log \in Seq(Event)
  /\ \A i, j \in DOMAIN Log :
       /\ i <= j => Log[i].ledger <= Log[j].ledger
       /\ /\ Log[i].kind = "pass" /\ Log[j].kind = "pass"
          /\ Log[i].pass = Log[j].pass
          => i = j
  /\ \A i \in DOMAIN Log : Log[i].ledger > 0
  /\ MaxLedger \in Nat /\ PageLimit \in Nat \ {0} /\ MaxRange \in Nat
  /\ MaxRestarts \in Nat /\ "poller" \notin Jobs
  /\ Faults \subseteq {"rpc", "db"}
  /\ Registered \subseteq Creators
  /\ TrialTiers \subseteq Creators \X Nat
  /\ Blockable \subseteq Creators \X Fans

TierIds == {Log[i].tier : i \in {j \in DOMAIN Log : Log[j].kind # "creator"}}
PassEvents == {i \in DOMAIN Log : Log[i].kind = "pass"}
PassNos == {Log[i].pass : i \in PassEvents}

VARIABLES
  tip,         \* the latest ledger
  checkpoint,  \* IndexerCheckpoint.lastLedger
  creators,    \* Creator rows, which only the API creates
  users,       \* User rows with role CREATOR, created from events
  tiers,       \* Tier rows, by <<creatorId, onChainId>>
  rows,        \* Pass rows, by onChainId
  blocks,      \* Block rows
  earned,      \* earned[p]: EarningsRecord rows written for pass p
  pending,     \* passes whose earnings record is being written, unawaited
  poll,        \* the poller: where it stands, the tip it read
  job,         \* job[j]: where it stands, the ledger at hand, the last one
  work,        \* work[w]: the page of worker w and what its handler has read
  restarts

dbVars == <<creators, users, tiers, rows, blocks, earned, pending>>
vars == <<tip, checkpoint, dbVars, poll, job, work, restarts>>

-----------------------------------------------------------------------------
Workers == {"poller"} \cup Jobs

NoTier == [status |-> "none", trial |-> FALSE]
Tier == [status : {"none", "active", "closed"}, trial : BOOLEAN]

Sells(id) == {Log[i].pass : i \in {j \in PassEvents : Log[j].tier = id}}

(* until: whether the row's expiry is the trial's end or the chain's;      *)
(* seen (history): the passes that had rows at the look-up before it.      *)
NoRow == [fan |-> "none"]
Row == [fan : Fans, creator : Creators, trial : BOOLEAN,
        until : {"trial", "chain"}, seen : SUBSET PassNos]

(* What handlePassMinted has read when it comes to the write.              *)
NoRead == [creator |-> "none"]
Read == [creator : Creators, exists : BOOLEAN, first : BOOLEAN, spent : BOOLEAN,
         seen : SUBSET PassNos]

NoWork == [next |-> 1, last |-> 0, read |-> NoRead]
Work == [next : Nat, last : Nat, read : {NoRead} \cup Read]

TypeOK ==
  /\ tip \in Nat /\ checkpoint \in Nat
  /\ creators \in SUBSET Creators
  /\ users \in SUBSET Creators
  /\ tiers \in [Creators \X TierIds -> Tier]
  /\ rows \in [PassNos -> {NoRow} \cup Row]
  /\ blocks \in SUBSET (Creators \X Fans)
  /\ earned \in [PassNos -> Nat]
  /\ pending \in SUBSET PassNos
  /\ poll \in [pc : {"idle", "ready", "working"}, latest : Nat]
  /\ job \in [Jobs -> [pc : {"new", "running", "working", "done", "lost"},
                       ledger : Nat, to : Nat]]
  /\ work \in [Workers -> Work]
  /\ restarts \in Nat

Init ==
  /\ tip = 0 /\ checkpoint = 0
  /\ creators = Registered
  /\ users = {}
  /\ tiers = [t \in Creators \X TierIds |-> NoTier]
  /\ rows = [p \in PassNos |-> NoRow]
  /\ blocks = {}
  /\ earned = [p \in PassNos |-> 0]
  /\ pending = {}
  /\ poll = [pc |-> "idle", latest |-> 0]
  /\ job = [j \in Jobs |-> [pc |-> "new", ledger |-> 0, to |-> 0]]
  /\ work = [w \in Workers |-> NoWork]
  /\ restarts = 0

-----------------------------------------------------------------------------
(* The chain and the API.                                                  *)

CloseLedger ==
  /\ tip < MaxLedger
  /\ tip' = tip + 1
  /\ UNCHANGED <<checkpoint, dbVars, poll, job, work, restarts>>

RegisterCreator(k) ==
  /\ k \notin creators
  /\ creators' = creators \cup {k}
  /\ UNCHANGED <<tip, checkpoint, users, tiers, rows, blocks, earned, pending,
                 poll, job, work, restarts>>

(* bulkCreate: the insert fails when the creator has a tier of that id.    *)
CreateTrialTier(t) ==
  /\ t[1] \in creators
  /\ tiers[t].status = "none"
  /\ tiers' = [tiers EXCEPT ![t] = [status |-> "active", trial |-> TRUE]]
  /\ UNCHANGED <<tip, checkpoint, creators, users, rows, blocks, earned,
                 pending, poll, job, work, restarts>>

SetBlock(b) ==
  /\ blocks' = IF b \in blocks THEN blocks \ {b} ELSE blocks \cup {b}
  /\ UNCHANGED <<tip, checkpoint, creators, users, tiers, rows, earned,
                 pending, poll, job, work, restarts>>

-----------------------------------------------------------------------------
(* Fetching.                                                               *)

Emitted == {i \in DOMAIN Log : Log[i].ledger <= tip}

(* getEvents from a ledger on returns the first events, up to the limit.   *)
Page(from) ==
  LET skipped == Cardinality({i \in DOMAIN Log : Log[i].ledger < from})
      all == Cardinality(Emitted)
  IN  [next |-> skipped + 1,
       last |-> IF skipped + PageLimit < all THEN skipped + PageLimit ELSE all,
       read |-> NoRead]

PageDone(w) == work[w].next > work[w].last

(* getContractEvents turns a failed call into an empty list.               *)
Fetch(w, from) ==
  \/ work' = [work EXCEPT ![w] = Page(from)]
  \/ "rpc" \in Faults /\ work' = [work EXCEPT ![w] = NoWork]

(* processNewEvents.  The checkpoint has no other writer, so reading it    *)
(* and the latest ledger is one step; it does nothing unless that ledger   *)
(* is new.                                                                 *)
PollBegin ==
  /\ poll.pc = "idle"
  /\ checkpoint < tip
  /\ poll' = [pc |-> "ready", latest |-> tip]
  /\ UNCHANGED <<tip, checkpoint, dbVars, job, work, restarts>>

PollFetch ==
  /\ poll.pc = "ready"
  /\ Fetch("poller", checkpoint)
  /\ poll' = [poll EXCEPT !.pc = "working"]
  /\ UNCHANGED <<tip, checkpoint, dbVars, job, restarts>>

(* Mutant: the checkpoint moves while events are still to be processed.    *)
PollSaveEarly ==
  /\ poll.pc = "working"
  /\ checkpoint' = poll.latest
  /\ poll' = [poll EXCEPT !.pc = "idle"]
  /\ UNCHANGED <<tip, dbVars, job, work, restarts>>

PollSave ==
  /\ poll.pc = "working" /\ PageDone("poller")
  /\ checkpoint' = poll.latest
  /\ poll' = [poll EXCEPT !.pc = "idle"]
  /\ UNCHANGED <<tip, dbVars, job, work, restarts>>

(* startReindex, and startReplayHistory once it has found its ledgers.     *)
JobStart(j, from, to) ==
  /\ job[j].pc = "new"
  /\ from <= to /\ (to - from) + 1 <= MaxRange
  /\ job' = [job EXCEPT ![j] = [pc |-> "running", ledger |-> from, to |-> to]]
  /\ UNCHANGED <<tip, checkpoint, dbVars, poll, work, restarts>>

(* One turn of the loop: every event from that ledger on, not only its own.*)
JobFetch(j) ==
  /\ job[j].pc = "running" /\ job[j].ledger <= job[j].to
  /\ Fetch(j, job[j].ledger)
  /\ job' = [job EXCEPT ![j].pc = "working"]
  /\ UNCHANGED <<tip, checkpoint, dbVars, poll, restarts>>

(* Mutant: the loop does not advance.                                      *)
JobSameLedger(j) ==
  /\ job[j].pc = "working" /\ PageDone(j)
  /\ job' = [job EXCEPT ![j].pc = "running"]
  /\ UNCHANGED <<tip, checkpoint, dbVars, poll, work, restarts>>

JobNextLedger(j) ==
  /\ job[j].pc = "working" /\ PageDone(j)
  /\ job' = [job EXCEPT ![j].pc = "running", ![j].ledger = @ + 1]
  /\ UNCHANGED <<tip, checkpoint, dbVars, poll, work, restarts>>

JobDone(j) ==
  /\ job[j].pc = "running" /\ job[j].ledger > job[j].to
  /\ job' = [job EXCEPT ![j].pc = "done"]
  /\ UNCHANGED <<tip, checkpoint, dbVars, poll, work, restarts>>

-----------------------------------------------------------------------------
(* processEvent, for the event at the head of a worker's page.             *)

At(w) == Log[work[w].next]

Handling(w, kind) ==
  /\ ~ PageDone(w)
  /\ At(w).kind = kind
  /\ UNCHANGED <<tip, checkpoint, poll, job, restarts>>

NextEvent(w) ==
  work' = [work EXCEPT ![w].next = @ + 1, ![w].read = NoRead]

(* Mutant: the event's ledger is taken for the address.                    *)
LedgerRegistered(w) ==
  /\ Handling(w, "creator")
  /\ users' = users \cup {At(w).ledger}
  /\ NextEvent(w)
  /\ UNCHANGED <<creators, tiers, rows, blocks, earned, pending>>

(* Only the User row: the Creator row is made by the API alone.            *)
HandleCreatorRegistered(w) ==
  /\ Handling(w, "creator")
  /\ users' = users \cup {At(w).creator}
  /\ NextEvent(w)
  /\ UNCHANGED <<creators, tiers, rows, blocks, earned, pending>>

(* A zero id counts as missing, and an unregistered creator's tier is      *)
(* dropped.  trialDays is not among the columns it writes.                 *)
HandleTierCreated(w) ==
  LET e == At(w)
      t == <<e.creator, e.tier>>
  IN  /\ Handling(w, "tier")
      /\ tiers' = IF e.tier # 0 /\ e.creator \in creators
                  THEN [tiers EXCEPT ![t].status = "active"]
                  ELSE tiers
      /\ NextEvent(w)
      /\ UNCHANGED <<creators, users, rows, blocks, earned, pending>>

HandleTierDeactivated(w) ==
  LET e == At(w)
      t == <<e.creator, e.tier>>
  IN  /\ Handling(w, "closed")
      /\ tiers' = IF /\ e.tier # 0 /\ e.creator \in creators
                     /\ tiers[t].status # "none"
                  THEN [tiers EXCEPT ![t].status = "closed"]
                  ELSE tiers
      /\ NextEvent(w)
      /\ UNCHANGED <<creators, users, rows, blocks, earned, pending>>

(* tier.findFirst({ where: { onChainId } }), whatever the creator.         *)
SellersOf(id) == {k \in Creators : tiers[<<k, id>>].status # "none"}

Stored == {p \in PassNos : rows[p] # NoRow}

PriorRows(f, k, id) ==
  {p \in Stored \cap Sells(id) : rows[p].fan = f /\ rows[p].creator = k}

IsFirstTime(prior) == prior = {}

(* Mutant: the trial that was used is not looked for.                      *)
TrialNeverSpent(prior) == FALSE

TrialSpent(prior) == \E p \in prior : rows[p].trial

PassMintedRead(w, k) ==
  LET e == At(w)
      prior == PriorRows(e.fan, k, e.tier)
  IN  /\ Handling(w, "pass") /\ work[w].read = NoRead
      /\ e.pass # 0
      /\ k \in SellersOf(e.tier) /\ <<k, e.fan>> \notin blocks
      /\ work' = [work EXCEPT ![w].read =
                    [creator |-> k, exists |-> rows[e.pass] # NoRow,
                     first |-> IsFirstTime(prior), spent |-> TrialSpent(prior),
                     seen |-> Stored]]
      /\ UNCHANGED dbVars

(* Mutant: a blocked fan loses the row.                                    *)
PassMintedRemoved(w) ==
  LET e == At(w)
  IN  /\ Handling(w, "pass") /\ work[w].read = NoRead
      /\ e.pass # 0
      /\ \E k \in SellersOf(e.tier) : <<k, e.fan>> \in blocks
      /\ rows' = [rows EXCEPT ![e.pass] = NoRow]
      /\ NextEvent(w)
      /\ UNCHANGED <<creators, users, tiers, blocks, earned, pending>>

(* No tier, or the fan is blocked: the event is dropped.                   *)
PassMintedDropped(w) ==
  LET e == At(w)
  IN  /\ Handling(w, "pass") /\ work[w].read = NoRead
      /\ \/ e.pass = 0
         \/ SellersOf(e.tier) = {}
         \/ \E k \in SellersOf(e.tier) : <<k, e.fan>> \in blocks
      /\ NextEvent(w)
      /\ UNCHANGED dbVars

(* Mutant: a trial is charged as well.                                     *)
ChargedAlways(p, trial) == pending \cup {p}

Charged(p, trial) == IF trial THEN pending ELSE pending \cup {p}

(* Mutant: onChainId is not unique.                                        *)
PassCreatedTwice(w) ==
  LET e == At(w)
      r == work[w].read
      trial == r.first /\ tiers[<<r.creator, e.tier>>].trial
  IN  /\ Handling(w, "pass") /\ r # NoRead
      /\ ~ r.exists /\ ~ r.spent
      /\ rows' = [rows EXCEPT ![e.pass] =
                    [fan |-> e.fan, creator |-> r.creator, trial |-> trial,
                     until |-> IF trial THEN "trial" ELSE "chain",
                     seen |-> r.seen]]
      /\ pending' = Charged(e.pass, trial)
      /\ NextEvent(w)
      /\ UNCHANGED <<creators, users, tiers, blocks, earned>>

(* onChainId is unique: an insert that comes second fails.                 *)
PassCreated(w) ==
  LET e == At(w)
      r == work[w].read
      trial == r.first /\ tiers[<<r.creator, e.tier>>].trial
  IN  /\ Handling(w, "pass") /\ r # NoRead
      /\ ~ r.exists /\ ~ r.spent /\ rows[e.pass] = NoRow
      /\ rows' = [rows EXCEPT ![e.pass] =
                    [fan |-> e.fan, creator |-> r.creator, trial |-> trial,
                     until |-> IF trial THEN "trial" ELSE "chain",
                     seen |-> r.seen]]
      /\ pending' = Charged(e.pass, trial)
      /\ NextEvent(w)
      /\ UNCHANGED <<creators, users, tiers, blocks, earned>>

PassRefused(w) ==
  LET r == work[w].read
  IN  /\ Handling(w, "pass") /\ r # NoRead
      /\ ~ r.exists /\ (r.spent \/ rows[At(w).pass] # NoRow)
      /\ NextEvent(w)
      /\ UNCHANGED dbVars

PassUpdated(w) ==
  /\ Handling(w, "pass") /\ work[w].read # NoRead
  /\ work[w].read.exists
  /\ rows' = [rows EXCEPT ![At(w).pass].until = "chain"]
  /\ NextEvent(w)
  /\ UNCHANGED <<creators, users, tiers, blocks, earned, pending>>

(* processEvent logs any error and goes on.                                *)
EventFails(w) ==
  /\ "db" \in Faults
  /\ \E kind \in {"creator", "tier", "closed", "pass"} : Handling(w, kind)
  /\ NextEvent(w)
  /\ UNCHANGED dbVars

ProcessEvent(w) ==
  \/ HandleCreatorRegistered(w)
  \/ HandleTierCreated(w)
  \/ HandleTierDeactivated(w)
  \/ \E k \in Creators : PassMintedRead(w, k)
  \/ PassMintedDropped(w)
  \/ PassCreated(w) \/ PassRefused(w) \/ PassUpdated(w)
  \/ EventFails(w)

-----------------------------------------------------------------------------
(* The earnings record of a chain sale is written without being awaited.   *)

EarningsWritten(p) ==
  /\ p \in pending
  /\ earned' = [earned EXCEPT ![p] = @ + 1]
  /\ pending' = pending \ {p}
  /\ UNCHANGED <<tip, checkpoint, creators, users, tiers, rows, blocks,
                 poll, job, work, restarts>>

EarningsFail(p) ==
  /\ "db" \in Faults
  /\ p \in pending
  /\ pending' = pending \ {p}
  /\ UNCHANGED <<tip, checkpoint, creators, users, tiers, rows, blocks, earned,
                 poll, job, work, restarts>>

(* The checkpoint is all that survives; the job map is in memory.          *)
Restart ==
  /\ restarts < MaxRestarts
  /\ restarts' = restarts + 1
  /\ pending' = {}
  /\ poll' = [pc |-> "idle", latest |-> 0]
  /\ job' = [j \in Jobs |-> IF job[j].pc \in {"running", "working"}
                            THEN [job[j] EXCEPT !.pc = "lost"] ELSE job[j]]
  /\ work' = [w \in Workers |-> NoWork]
  /\ UNCHANGED <<tip, checkpoint, creators, users, tiers, rows, blocks, earned>>

-----------------------------------------------------------------------------
PollStep == PollBegin \/ PollFetch \/ PollSave \/ ProcessEvent("poller")

JobStep(j) == JobFetch(j) \/ JobNextLedger(j) \/ JobDone(j) \/ ProcessEvent(j)

Next ==
  \/ CloseLedger
  \/ \E k \in Creators : RegisterCreator(k)
  \/ \E t \in TrialTiers : CreateTrialTier(t)
  \/ \E b \in Blockable : SetBlock(b)
  \/ PollStep
  \/ \E j \in Jobs : JobStep(j)
  \/ \E j \in Jobs, from, to \in 1..MaxLedger : JobStart(j, from, to)
  \/ \E p \in PassNos : EarningsWritten(p) \/ EarningsFail(p)
  \/ Restart

Spec == Init /\ [][Next]_vars

(* setInterval keeps polling, and an awaited call returns.                 *)
FairSpec ==
  /\ Spec
  /\ WF_vars(PollStep)
  /\ \A j \in Jobs : WF_vars(JobStep(j))

-----------------------------------------------------------------------------
(* The Pass table is a projection of the chain's events: see the module.   *)
FanMinted == [p \in PassNos |-> Log[CHOOSE i \in PassEvents : Log[i].pass = p].fan]

Announced == {Log[i].pass : i \in PassEvents \cap Emitted}
Owner == [p \in PassNos |-> rows[p].fan]

Projection == INSTANCE EventProjection WITH
  Minted <- PassNos, FanOf <- FanMinted, NoFan <- "none",
  announced <- Announced, owner <- Owner

ImplementsProjection == Projection!Spec

(* A chain sale never earns twice, however many workers see its event, and *)
(* a trial earns nothing.                                                  *)
EarnedOnce ==
  \A p \in PassNos :
    /\ earned[p] + (IF p \in pending THEN 1 ELSE 0) <= 1
    /\ earned[p] > 0 \/ p \in pending => rows[p] # NoRow /\ ~ rows[p].trial

(* A trial closes its tier, and is the first sale there: where a fan has   *)
(* another pass beside one, each was indexed by a worker that looked up    *)
(* the fan's passes before the other was stored.                           *)
TrialSharedByOverlapOnly ==
  \A id \in TierIds : \A p, q \in Stored \cap Sells(id) :
    /\ p # q /\ rows[p].trial
    /\ rows[p].fan = rows[q].fan /\ rows[p].creator = rows[q].creator
    => p \notin rows[q].seen /\ q \notin rows[p].seen

(* An event the checkpoint has left behind is never lost: unless the       *)
(* tier's creator is unknown, its pass has a row.                          *)
Known(id) == \E i \in DOMAIN Log : /\ Log[i].kind = "tier" /\ Log[i].tier = id
                                   /\ Log[i].creator \in Registered
CheckpointCovers ==
  \A i \in PassEvents :
    Log[i].ledger <= checkpoint /\ Known(Log[i].tier) => rows[Log[i].pass] # NoRow

(* Every pass that the contract mints on a known tier is indexed.          *)
EventuallyIndexed ==
  \A i \in PassEvents :
    i \in Emitted /\ Known(Log[i].tier) ~> rows[Log[i].pass] # NoRow

(* A job that has started ends, or its process has restarted.              *)
JobsEnd == \A j \in Jobs : job[j].pc = "running" ~> job[j].pc \in {"done", "lost"}
=============================================================================
