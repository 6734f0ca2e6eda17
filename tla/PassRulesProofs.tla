--------------------------- MODULE PassRulesProofs ---------------------------
(***************************************************************************)
(* The rules of the passes, for any number of requests and runs: the       *)
(* account that a renewal gives of its charges, what its SUCCESS rows      *)
(* stand for, what a tier change may give for the pass it takes, forks,    *)
(* the trial rule, the bundles, and the figures that creators are shown.   *)
(***************************************************************************)
EXTENDS PassLifecycleProofs, PassAnalytics, FiniteSetTheorems

-----------------------------------------------------------------------------
(* Charges on chain.                                                       *)

(* What the counters of a pass say, for every id that a pass may get.      *)
ChargesCovered ==
  \A p \in Ids :
    charges[p] + unknown[p]
      <= attempts[p].success + attempts[p].failed + orphaned[p]
           + Cardinality(Settling(p))

SettlingPhases == {"charged", "minted", "failed"}
Settles(v, p) == v.cur = p /\ v.pc \in SettlingPhases

(* One run more or less is settling a pass.                                *)
LEMMA SettlingMoves ==
  ASSUME TypeInv, NEW r \in Renewers, NEW v \in Run, run' = [run EXCEPT ![r] = v], NEW p
  PROVE  /\ Cardinality(Settling(p)) \in Nat /\ Cardinality(Settling(p)') \in Nat
         /\ Cardinality(Settling(p)') + (IF Settles(run[r], p) THEN 1 ELSE 0)
              = Cardinality(Settling(p)) + (IF Settles(v, p) THEN 1 ELSE 0)
<1> DEFINE others == Settling(p) \ {r}
<1>1. run \in [Renewers -> Run]
  BY DEF TypeInv, TypeOK, RenewalTypeOK
<1>2. IsFiniteSet(Renewers)
  BY RenewalAssumption
<1>3. Settling(p) \in SUBSET Renewers
  BY DEF Settling
<1>4. IsFiniteSet(Settling(p)) /\ IsFiniteSet(others)
  BY <1>2, <1>3, FS_Subset
<1>5. r \in Settling(p) <=> Settles(run[r], p)
  BY DEF Settling, Settles, SettlingPhases
<1>6. Settling(p)' = IF Settles(v, p) THEN others \cup {r} ELSE others
  <2>1. run'[r] = v /\ \A s \in Renewers : s # r => run'[s] = run[s]
    BY <1>1
  <2>2. \A s \in Renewers : s \in Settling(p)' <=> IF s = r THEN Settles(v, p) ELSE s \in Settling(p)
    BY <2>1 DEF Settling, Settles, SettlingPhases
  <2>3. Settling(p)' \in SUBSET Renewers
    BY DEF Settling
  <2>4. QED
    BY <1>3, <2>2, <2>3
<1>7. Settling(p) = IF Settles(run[r], p) THEN others \cup {r} ELSE others
  BY <1>3, <1>5
<1>8. r \notin others /\ Cardinality(others) \in Nat
      /\ Cardinality(others \cup {r}) = Cardinality(others) + 1
  BY <1>4, FS_CardinalityType, FS_AddElement
<1> HIDE DEF others
<1>9. QED
  BY <1>6, <1>7, <1>8

(* A step of one run that counts as many outcomes as it brings about.      *)
One(b) == IF b THEN 1 ELSE 0
Brought(p) == charges[p] + unknown[p]
Told(p) == attempts[p].success + attempts[p].failed + orphaned[p]

Balanced(r) ==
  /\ run' = [run EXCEPT ![r] = run'[r]]
  /\ \A p \in Ids : Brought(p)' + Told(p) + One(Settles(run[r], p))
                      <= Brought(p) + Told(p)' + One(Settles(run'[r], p))

LEMMA CountsTypes ==
  ASSUME TypeInv
  PROVE  \A p \in Ids : Brought(p) \in Nat /\ Told(p) \in Nat
BY DEF TypeInv, TypeOK, RenewalTypeOK, Brought, Told

LEMMA BalancedStep ==
  ASSUME TypeInv, TypeInv', ChargesCovered, NEW r \in Renewers, Balanced(r)
  PROVE  ChargesCovered'
<1>1. PICK v \in Run : v = run'[r]
  BY DEF TypeInv, TypeOK, RenewalTypeOK
<1>2. run' = [run EXCEPT ![r] = v]
  BY <1>1 DEF Balanced
<1>3. ASSUME NEW p \in Ids
      PROVE  Brought(p)' <= Told(p)' + Cardinality(Settling(p)')
  <2>1. /\ Cardinality(Settling(p)) \in Nat /\ Cardinality(Settling(p)') \in Nat
        /\ Cardinality(Settling(p)') + One(Settles(run[r], p))
             = Cardinality(Settling(p)) + One(Settles(v, p))
    BY <1>2, SettlingMoves DEF One
  <2>2. /\ Brought(p) \in Nat /\ Brought(p)' \in Nat
        /\ Told(p) \in Nat /\ Told(p)' \in Nat
    <3>1. /\ charges' \in [Ids -> Nat] /\ unknown' \in [Ids -> Nat]
          /\ orphaned' \in [Ids -> Nat]
          /\ attempts' \in [Ids -> [success : Nat, failed : Nat]]
      BY DEF TypeInv, TypeOK, RenewalTypeOK, Ids
    <3>2. Brought(p)' \in Nat
      BY <3>1 DEF Brought
    <3>3. attempts'[p].success \in Nat /\ attempts'[p].failed \in Nat /\ orphaned'[p] \in Nat
      BY <3>1
    <3>4. Told(p)' \in Nat
      BY <3>3 DEF Told
    <3>5. QED
      BY <3>2, <3>4, CountsTypes
  <2>3. Brought(p) <= Told(p) + Cardinality(Settling(p))
    BY DEF ChargesCovered, Brought, Told
  <2>4. Brought(p)' + Told(p) + One(Settles(run[r], p))
          <= Brought(p) + Told(p)' + One(Settles(v, p))
    BY <1>1 DEF Balanced
  <2>5. One(Settles(run[r], p)) \in Nat /\ One(Settles(v, p)) \in Nat
    BY DEF One
  <2>6. QED
    BY <2>1, <2>2, <2>3, <2>4, <2>5
<1>4. QED
  BY <1>3 DEF ChargesCovered, Brought, Told

(* A step that leaves the counters alone may only take up a pass.          *)
LEMMA QuietlyBalanced ==
  ASSUME TypeInv, NEW r \in Renewers, UNCHANGED <<attempts, charges, unknown, orphaned>>,
         run' = [run EXCEPT ![r] = run'[r]],
         \A p \in Ids : Settles(run[r], p) => Settles(run'[r], p)
  PROVE  Balanced(r)
<1>1. ASSUME NEW p \in Ids
      PROVE  Brought(p)' + Told(p) + One(Settles(run[r], p))
               <= Brought(p) + Told(p)' + One(Settles(run'[r], p))
  <2>1. Brought(p) \in Nat /\ Told(p) \in Nat
    BY CountsTypes
  <2>2. Brought(p)' = Brought(p) /\ Told(p)' = Told(p)
    BY DEF Brought, Told
  <2>3. One(Settles(run[r], p)) <= One(Settles(run'[r], p))
        /\ One(Settles(run[r], p)) \in Nat /\ One(Settles(run'[r], p)) \in Nat
    BY DEF One
  <2>4. QED
    BY <2>1, <2>2, <2>3
<1>2. QED
  BY <1>1 DEF Balanced

(* A charge is brought about by the run that takes it up.                  *)
LEMMA BroughtBalanced ==
  ASSUME TypeInv, NEW r \in Renewers, UNCHANGED <<attempts, orphaned>>,
         run[r].pc = "begun", run' = [run EXCEPT ![r] = run'[r]],
         run'[r].cur = run[r].cur, run'[r].pc \in SettlingPhases,
         \/ charges' = [charges EXCEPT ![run[r].cur] = @ + 1] /\ UNCHANGED unknown
         \/ unknown' = [unknown EXCEPT ![run[r].cur] = @ + 1] /\ UNCHANGED charges
  PROVE  Balanced(r)
<1>1. ASSUME NEW p \in Ids
      PROVE  Brought(p)' + Told(p) + One(Settles(run[r], p))
               <= Brought(p) + Told(p)' + One(Settles(run'[r], p))
  <2>1. /\ charges[p] \in Nat /\ unknown[p] \in Nat
        /\ charges \in [Ids -> Nat] /\ unknown \in [Ids -> Nat]
    BY DEF TypeInv, TypeOK, RenewalTypeOK
  <2>2. Told(p)' = Told(p) /\ Told(p) \in Nat
    BY CountsTypes DEF Told
  <2>3. One(Settles(run[r], p)) = 0
    BY DEF One, Settles, SettlingPhases
  <2>4. One(Settles(run'[r], p)) = One(p = run[r].cur)
    BY DEF One, Settles
  <2>5. Brought(p)' = Brought(p) + One(p = run[r].cur) /\ Brought(p) \in Nat
    BY <2>1 DEF Brought, One
  <2>6. One(p = run[r].cur) \in Nat
    BY DEF One
  <2>7. QED
    BY <2>2, <2>3, <2>4, <2>5, <2>6
<1>2. QED
  BY <1>1 DEF Balanced

(* A run that is done with a pass, or lost, leaves a record of it.         *)
LEMMA ToldBalanced ==
  ASSUME TypeInv, NEW r \in Renewers, UNCHANGED <<charges, unknown, orphaned>>,
         run' = [run EXCEPT ![r] = run'[r]], run[r].cur \in Ids,
         \/ attempts' = [attempts EXCEPT ![run[r].cur].success = @ + 1]
         \/ attempts' = [attempts EXCEPT ![run[r].cur].failed = @ + 1]
  PROVE  Balanced(r)
<1>1. ASSUME NEW p \in Ids
      PROVE  Brought(p)' + Told(p) + One(Settles(run[r], p))
               <= Brought(p) + Told(p)' + One(Settles(run'[r], p))
  <2>1. /\ attempts[p].success \in Nat /\ attempts[p].failed \in Nat /\ orphaned[p] \in Nat
        /\ attempts \in [Ids -> [success : Nat, failed : Nat]]
    BY DEF TypeInv, TypeOK, RenewalTypeOK
  <2>2. Brought(p)' = Brought(p) /\ Brought(p) \in Nat
    BY CountsTypes DEF Brought
  <2>3. Told(p)' = Told(p) + One(p = run[r].cur) /\ Told(p) \in Nat
    <3>1. PICK c \in Ids : c = run[r].cur
      OBVIOUS
    <3>2. PICK s \in Nat, f \in Nat, o \in Nat :
            /\ s = attempts[p].success /\ f = attempts[p].failed /\ o = orphaned[p]
            /\ orphaned'[p] = o
      BY <2>1
    <3>3. CASE p # c
      <4>1. attempts'[p] = attempts[p]
        BY <2>1, <3>1, <3>3
      <4>2. QED
        BY <3>1, <3>2, <3>3, <4>1 DEF Told, One
    <3>4. CASE p = c
      <4>1. \/ attempts'[p].success = s + 1 /\ attempts'[p].failed = f
            \/ attempts'[p].success = s /\ attempts'[p].failed = f + 1
        BY <2>1, <3>1, <3>2, <3>4
      <4>2. attempts'[p].success + attempts'[p].failed = s + f + 1
        BY <4>1
      <4>3. QED
        BY <3>1, <3>2, <3>4, <4>2 DEF Told, One
    <3>5. QED
      BY <3>3, <3>4
  <2>4. One(Settles(run[r], p)) <= One(p = run[r].cur)
        /\ One(Settles(run[r], p)) \in Nat
    BY DEF One, Settles
  <2>5. One(Settles(run'[r], p)) \in Nat /\ One(p = run[r].cur) \in Nat
    BY DEF One
  <2>6. QED
    BY <2>2, <2>3, <2>4, <2>5
<1>2. QED
  BY <1>1 DEF Balanced

LEMMA LostBalanced ==
  ASSUME TypeInv, NEW r \in Renewers, NEW b \in BOOLEAN, RunLost(r, b)
  PROVE  Balanced(r)
<1> DEFINE knew == run[r].pc \in SettlingPhases
<1>1. /\ b => run[r].pc = "begun" /\ ~ knew
      /\ orphaned' = IF knew \/ b THEN [orphaned EXCEPT ![run[r].cur] = @ + 1] ELSE orphaned
      /\ unknown' = IF b THEN [unknown EXCEPT ![run[r].cur] = @ + 1] ELSE unknown
      /\ run' = [run EXCEPT ![r] = NoRun] /\ UNCHANGED <<attempts, charges>>
  BY DEF RunLost, SettlingPhases
<1>2. run' = [run EXCEPT ![r] = run'[r]] /\ run'[r] = NoRun
  BY <1>1 DEF TypeInv, TypeOK, RenewalTypeOK
<1>3. ASSUME NEW p \in Ids
      PROVE  Brought(p)' + Told(p) + One(Settles(run[r], p))
               <= Brought(p) + Told(p)' + One(Settles(run'[r], p))
  <2> DEFINE here == p = run[r].cur
  <2>1. /\ attempts[p].success \in Nat /\ attempts[p].failed \in Nat
        /\ charges[p] \in Nat /\ orphaned[p] \in Nat /\ unknown[p] \in Nat
        /\ orphaned \in [Ids -> Nat] /\ unknown \in [Ids -> Nat]
    BY DEF TypeInv, TypeOK, RenewalTypeOK
  <2>2. One(Settles(run[r], p)) = One(here /\ knew)
    BY DEF One, Settles
  <2>3. One(Settles(run'[r], p)) = 0
    BY <1>2 DEF One, Settles, SettlingPhases, NoRun
  <2>4. orphaned'[p] = orphaned[p] + One(here /\ (knew \/ b))
    BY <1>1, <2>1 DEF One
  <2>5. unknown'[p] = unknown[p] + One(here /\ b)
    BY <1>1, <2>1 DEF One
  <2> HIDE DEF knew, here
  <2>6. One(here /\ knew) + One(here /\ b) = One(here /\ (knew \/ b))
        /\ One(here /\ knew) \in Nat /\ One(here /\ b) \in Nat
    <3>1. b => ~ knew
      BY <1>1
    <3>2. CASE here /\ b
      BY <3>1, <3>2 DEF One
    <3>3. CASE ~ (here /\ b)
      BY <3>3 DEF One
    <3>4. QED
      BY <3>2, <3>3
  <2>7. Brought(p)' = Brought(p) + One(here /\ b) /\ Brought(p) \in Nat
    <3>1. charges' = charges
      BY <1>1
    <3>2. PICK n \in Nat : n = One(here /\ b)
      BY <2>6
    <3>3. unknown'[p] = unknown[p] + n
      BY <2>5, <3>2
    <3>4. Brought(p)' = Brought(p) + n /\ Brought(p) \in Nat
      BY <2>1, <3>1, <3>3 DEF Brought
    <3>5. QED
      BY <3>2, <3>4
  <2>8. Told(p)' = Told(p) + One(here /\ (knew \/ b)) /\ Told(p) \in Nat
    <3>1. attempts' = attempts
      BY <1>1
    <3>2. PICK n \in Nat : n = One(here /\ (knew \/ b))
      BY DEF One
    <3>3. orphaned'[p] = orphaned[p] + n
      BY <2>4, <3>2
    <3>4. Told(p)' = Told(p) + n /\ Told(p) \in Nat
      BY <2>1, <3>1, <3>3 DEF Told
    <3>5. QED
      BY <3>2, <3>4
  <2>9. QED
    BY <2>2, <2>3, <2>6, <2>7, <2>8
<1>4. QED
  BY <1>2, <1>3 DEF Balanced

(* What a step makes of its run.                                           *)
LEMMA RunBecomes ==
  ASSUME TypeInv, NEW r \in Renewers, NEW v, run' = [run EXCEPT ![r] = v]
  PROVE  run'[r] = v /\ run' = [run EXCEPT ![r] = run'[r]]
BY DEF TypeInv, TypeOK, RenewalTypeOK

LEMMA RunFieldsMove ==
  ASSUME TypeInv, NEW r \in Renewers, NEW pc, NEW cur, NEW open, NEW built
  PROVE  /\ LET v == [run[r] EXCEPT !.pc = pc]
            IN  v.pc = pc /\ v.cur = run[r].cur /\ v.todo = run[r].todo
                /\ v.listed = run[r].listed
         /\ LET v == [run[r] EXCEPT !.pc = pc, !.open = open, !.built = built]
            IN  v.pc = pc /\ v.cur = run[r].cur /\ v.todo = run[r].todo
                /\ v.listed = run[r].listed
         /\ LET v == [run[r] EXCEPT !.open = open, !.built = built]
            IN  v.pc = run[r].pc /\ v.cur = run[r].cur /\ v.todo = run[r].todo
                /\ v.listed = run[r].listed
         /\ LET v == [run[r] EXCEPT !.pc = pc, !.built = built]
            IN  v.pc = pc /\ v.cur = run[r].cur /\ v.todo = run[r].todo
                /\ v.listed = run[r].listed
BY RunFields DEF Run

LEMMA GotoBecomes ==
  ASSUME TypeInv, NEW r \in Renewers, NEW pc, Goto(r, pc)
  PROVE  run'[r].pc = pc /\ run'[r].cur = run[r].cur /\ run'[r].todo = run[r].todo
         /\ run'[r].listed = run[r].listed /\ run' = [run EXCEPT ![r] = run'[r]]
<1> DEFINE v == [run[r] EXCEPT !.pc = pc]
<1>1. run' = [run EXCEPT ![r] = v]
  BY DEF Goto, TypeInv, TypeOK, RenewalTypeOK
<1>2. /\ v.pc = pc /\ v.cur = run[r].cur /\ v.todo = run[r].todo
      /\ v.listed = run[r].listed
  BY RunFieldsMove
<1> HIDE DEF v
<1>3. QED
  BY <1>1, <1>2, RunBecomes

LEMMA RollBackBecomes ==
  ASSUME TypeInv, NEW r \in Renewers, RollBack(r)
  PROVE  run'[r].pc = "failed" /\ run'[r].cur = run[r].cur /\ run'[r].todo = run[r].todo
         /\ run'[r].listed = run[r].listed /\ run' = [run EXCEPT ![r] = run'[r]]
<1> DEFINE v == [run[r] EXCEPT !.pc = "failed", !.open = FALSE, !.built = <<>>]
<1>1. run' = [run EXCEPT ![r] = v]
  BY DEF RollBack, TypeInv, TypeOK, RenewalTypeOK
<1>2. /\ v.pc = "failed" /\ v.cur = run[r].cur /\ v.todo = run[r].todo
      /\ v.listed = run[r].listed
  BY RunFieldsMove
<1> HIDE DEF v
<1>3. QED
  BY <1>1, <1>2, RunBecomes

LEMMA NextPassBecomes ==
  ASSUME TypeInv, NEW r \in Renewers, NextPass(r)
  PROVE  run'[r].pc = "loop" /\ run'[r].todo = run[r].todo \ {run[r].cur}
         /\ run'[r].listed = run[r].listed /\ run' = [run EXCEPT ![r] = run'[r]]
<1> DEFINE rest == run[r].todo \ {run[r].cur}
           v == [NoRun EXCEPT !.pc = "loop", !.todo = rest, !.listed = run[r].listed]
<1>1. run' = [run EXCEPT ![r] = v]
  BY DEF NextPass
<1>2. v.pc = "loop" /\ v.todo = rest /\ v.listed = run[r].listed
  BY DEF NoRun
<1> HIDE DEF v
<1>3. QED
  BY <1>1, <1>2, RunBecomes

(* Every step of a run, and its loss.                                      *)
LEMMA StepBalanced ==
  ASSUME TypeInv, NEW r \in Renewers, RenewalStep(r) \/ RenewalTxExpires(r)
  PROVE  Balanced(r)
<1> USE DEF tableVars
<1>1. CASE RenewalScan(r)
  <2>1. run' = [run EXCEPT ![r] = run'[r]] /\ run[r].pc = "idle"
    BY <1>1, RunBecomes DEF RenewalScan
  <2>2. QED
    BY <1>1, <2>1, QuietlyBalanced DEF RenewalScan, Settles, SettlingPhases
<1>2. ASSUME NEW p \in PassIds, RenewalBegin(r, p) \/ RenewalWaitExpires(r, p)
      PROVE  Balanced(r)
  <2>1. \E v : run' = [run EXCEPT ![r] = v]
    BY <1>2 DEF RenewalBegin, RenewalWaitExpires, TypeInv, TypeOK, RenewalTypeOK
  <2>2. run' = [run EXCEPT ![r] = run'[r]] /\ run[r].pc = "loop"
    BY <1>2, <2>1, RunBecomes DEF RenewalBegin, RenewalWaitExpires
  <2>3. UNCHANGED <<attempts, charges, unknown, orphaned>>
    BY <1>2 DEF RenewalBegin, RenewalWaitExpires
  <2>4. QED
    BY <2>2, <2>3, QuietlyBalanced DEF Settles, SettlingPhases
<1>3. CASE ChargeSucceeds(r)
  BY <1>3, GotoBecomes, BroughtBalanced DEF ChargeSucceeds, SettlingPhases
<1>4. CASE ChargeUnseen(r)
  BY <1>4, RollBackBecomes, BroughtBalanced DEF ChargeUnseen, SettlingPhases
<1>5. CASE ChargeFails(r) \/ RenewalMintRefused(r) \/ RenewalFindsTxClosed(r)
  <2>1. RollBack(r) /\ UNCHANGED <<attempts, charges, unknown, orphaned>>
    BY <1>5 DEF ChargeFails, RenewalMintRefused, RenewalFindsTxClosed
  <2>2. QED
    BY <2>1, RollBackBecomes, QuietlyBalanced DEF Settles, SettlingPhases
<1>6. ASSUME NEW t \in Tiers, RenewalMint(r, t)
      PROVE  Balanced(r)
  <2> DEFINE sold == SoldPass(t, passes[run[r].cur].fan, now, "renewal", run[r].cur)
             built == <<[sold EXCEPT !.found = run[r].listed]>>
             v == [run[r] EXCEPT !.pc = "minted", !.built = built]
  <2>1. run' = [run EXCEPT ![r] = v]
    BY <1>6 DEF RenewalMint, TypeInv, TypeOK, RenewalTypeOK
  <2> HIDE DEF built
  <2>2. v.pc = "minted" /\ v.cur = run[r].cur
    BY RunFieldsMove
  <2> HIDE DEF v
  <2>3. run'[r] = v /\ run' = [run EXCEPT ![r] = run'[r]]
    BY <2>1, RunBecomes
  <2>4. UNCHANGED <<attempts, charges, unknown, orphaned>>
    BY <1>6 DEF RenewalMint
  <2>5. QED
    BY <2>2, <2>3, <2>4, QuietlyBalanced DEF Settles, SettlingPhases
<1>7. CASE RenewalTxExpires(r)
  <2> DEFINE v == [run[r] EXCEPT !.open = FALSE, !.built = <<>>]
  <2>1. run' = [run EXCEPT ![r] = v]
    BY <1>7 DEF RenewalTxExpires, TypeInv, TypeOK, RenewalTypeOK
  <2>2. v.pc = run[r].pc /\ v.cur = run[r].cur
    BY RunFieldsMove
  <2> HIDE DEF v
  <2>3. run'[r] = v /\ run' = [run EXCEPT ![r] = run'[r]]
    BY <2>1, RunBecomes
  <2>4. QED
    BY <1>7, <2>2, <2>3, QuietlyBalanced DEF RenewalTxExpires, Settles
<1>8. CASE RenewalCommit(r)
  <2>1. run[r].cur \in Ids
    BY <1>8, RunFields DEF RenewalCommit, RunSound, PassIds, Ids, TypeInv, TypeOK, TableTypeOK
  <2>2. /\ attempts' = [attempts EXCEPT ![run[r].cur].success = @ + 1]
        /\ UNCHANGED <<charges, unknown, orphaned>> /\ NextPass(r)
    BY <1>8 DEF RenewalCommit
  <2>3. QED
    BY <2>1, <2>2, NextPassBecomes, ToldBalanced
<1>9. CASE RenewalRecordFailure(r)
  <2>1. run[r].cur \in Ids
    BY <1>9, RunFields DEF RenewalRecordFailure, RunSound, PassIds, Ids, TypeInv, TypeOK, TableTypeOK
  <2>2. QED
    BY <1>9, <2>1, GotoBecomes, ToldBalanced DEF RenewalRecordFailure
<1>10. CASE RenewalDisable(r)
  BY <1>10, NextPassBecomes, QuietlyBalanced DEF RenewalDisable, Settles, SettlingPhases
<1>11. CASE RenewalDone(r)
  BY <1>11, RunBecomes, QuietlyBalanced DEF RenewalDone, Settles, SettlingPhases
<1>12. QED
  BY <1>1, <1>2, <1>3, <1>4, <1>5, <1>6, <1>7, <1>8, <1>9, <1>10, <1>11
     DEF RenewalStep

LEMMA ChargesStep ==
  ASSUME TypeInv, TypeInv', ChargesCovered, [Next]_vars
  PROVE  ChargesCovered'
<1>1. CASE UNCHANGED renewalVars
  BY <1>1 DEF renewalVars, ChargesCovered, Settling
<1>2. ASSUME NEW r \in Renewers, RenewalStep(r) \/ RenewalTxExpires(r)
      PROVE  ChargesCovered'
  BY <1>2, StepBalanced, BalancedStep
<1>3. ASSUME NEW r \in Renewers, NEW b \in BOOLEAN, RunLost(r, b)
      PROVE  ChargesCovered'
  BY <1>3, LostBalanced, BalancedStep
<1>4. ASSUME NEW q \in PassIds, NEW b \in BOOLEAN, UnseenSettles(q, b)
      PROVE  ChargesCovered'
  <2>1. ASSUME NEW p \in Ids
        PROVE  Brought(p)' <= Told(p)' + Cardinality(Settling(p)')
    <3>1. Settling(p)' = Settling(p) /\ Told(p)' = Told(p)
      BY <1>4 DEF UnseenSettles, Settling, Told
    <3>2. /\ charges[p] \in Nat /\ unknown[p] \in Nat
          /\ charges \in [Ids -> Nat] /\ unknown \in [Ids -> Nat]
      BY DEF TypeInv, TypeOK, RenewalTypeOK
    <3>3. charges'[p] <= charges[p] + One(p = q) /\ charges'[p] \in Nat
      BY <1>4, <3>2 DEF UnseenSettles, One
    <3>4. unknown'[p] + One(p = q) = unknown[p] /\ unknown'[p] \in Int
      BY <1>4, <3>2 DEF UnseenSettles, One
    <3>5. One(p = q) \in Nat
      BY DEF One
    <3>6. Brought(p)' <= Brought(p) /\ Brought(p)' \in Int /\ Brought(p) \in Nat
      BY <3>2, <3>3, <3>4, <3>5 DEF Brought
    <3>7. Brought(p) <= Told(p) + Cardinality(Settling(p)) /\ Told(p) \in Nat
      BY CountsTypes DEF ChargesCovered, Brought, Told
    <3>8. Cardinality(Settling(p)) \in Nat
      <4>1. IsFiniteSet(Renewers) /\ Settling(p) \in SUBSET Renewers
        BY RenewalAssumption DEF Settling
      <4>2. QED
        BY <4>1, FS_Subset, FS_CardinalityType
    <3>9. QED
      BY <3>1, <3>6, <3>7, <3>8
  <2>2. QED
    BY <2>1 DEF ChargesCovered, Brought, Told
<1>5. QED
  BY <1>1, <1>2, <1>3, <1>4 DEF Next, RenewalNext, vars

(* No charge goes unexplained: of every renew_pass transaction that        *)
(* succeeded, or may yet, there is a RenewalAttempt row, or a run that has *)
(* still to write it, or the run was lost with its process; whichever runs *)
(* overlap on a pass, and also when its transaction ends under a run.      *)
THEOREM ChargesExplained == Spec => []ChargesAccounted
<1>1. Init => ChargesCovered
  <2> SUFFICES ASSUME Init, NEW p \in Ids
               PROVE  charges[p] + unknown[p]
                        <= attempts[p].success + attempts[p].failed + orphaned[p]
                             + Cardinality(Settling(p))
    BY DEF ChargesCovered
  <2>1. Settling(p) = {}
    BY DEF Init, RenewalInit, Settling, NoRun
  <2>2. Cardinality(Settling(p)) = 0
    BY <2>1, FS_EmptySet
  <2>3. QED
    BY <2>2 DEF Init, RenewalInit
<1>2. TypeInv /\ [Next]_vars => TypeInv'
  BY TypeInvStep
<1>3. TypeInv /\ ChargesCovered /\ [Next]_vars => ChargesCovered'
  BY <1>2, ChargesStep
<1>4. TypeInv /\ ChargesCovered => ChargesAccounted
  <2>1. TypeInv => PassIds \subseteq Ids
    BY LenProperties, TableAssumption DEF TypeInv, TypeOK, TableTypeOK, PassIds, Ids
  <2>2. QED
    BY <2>1 DEF ChargesCovered, ChargesAccounted
<1>5. QED
  BY InitTypeInv, <1>1, <1>2, <1>3, <1>4, PTL DEF Spec

-----------------------------------------------------------------------------
(* What a step adds to the table.                                          *)

(* Passes that are sold, and replace none.                                 *)
OnlySales == \A q \in NewIds : passes'[q].via \in {"gift", "bundle"} /\ passes'[q].from = 0

LEMMA NothingAdded ==
  ASSUME PassIds' = PassIds
  PROVE  OnlySales
BY DEF OnlySales, NewIds, PassIds

LEMMA SalesAdd ==
  ASSUME TypeInv, PurchaseNext
  PROVE  OnlySales
<1>1. ASSUME UNCHANGED passes
      PROVE  OnlySales
  BY <1>1, NothingAdded DEF PassIds
<1>2. ASSUME NEW w \in Purchasers, GiftCommit(w)
      PROVE  OnlySales
  <2> DEFINE row == GiftedPass(purchase[w])
  <2>1. purchase[w] \in GiftRequest
    BY <1>2 DEF GiftCommit, TypeInv, TypeOK, PurchaseTypeOK, NoPurchase, BundleRequest
  <2>2. row \in Pass /\ Fresh(row, purchase[w].recipient, "gift", 0)
    BY <2>1, NewPassType, NewFresh, TableAssumption
       DEF GiftRequest, GiftedPass, Origins
  <2>3. passes' = Append(passes, row)
    BY <1>2 DEF GiftCommit
  <2> HIDE DEF row
  <2>4. <<row>> \in Seq(Pass) /\ passes' = passes \o <<row>> /\ DOMAIN <<row>> = {1}
    BY <2>2, <2>3 DEF TypeInv, TypeOK, TableTypeOK
  <2>5. NewIds = {Len(passes) + 1} /\ passes'[Len(passes) + 1] = row
    <3>1. passes \in Seq(Pass)
      BY DEF TypeInv, TypeOK, TableTypeOK
    <3>2. PICK rows \in Seq(Pass) : rows = <<row>> /\ DOMAIN rows = {1} /\ rows[1] = row
      BY <2>4
    <3>3. /\ NewIds = {Len(passes) + i : i \in DOMAIN rows}
          /\ \A i \in DOMAIN rows : passes'[Len(passes) + i] = rows[i]
      BY <2>4, <3>1, <3>2, AddedIds
    <3>4. QED
      BY <3>2, <3>3
  <2>6. QED
    BY <2>2, <2>5 DEF OnlySales, Fresh
<1>3. ASSUME NEW w \in Purchasers, BundleCommit(w)
      PROVE  OnlySales
  <2> DEFINE rows == purchase[w].rows
  <2>1. purchase[w] \in BundleRequest
    BY <1>3 DEF BundleCommit, TypeInv, TypeOK, PurchaseTypeOK, NoPurchase, GiftRequest
  <2>2. rows \in Seq(Pass) /\ passes' = passes \o rows
    BY <1>3, <2>1 DEF BundleCommit, BundleRequest
  <2>3. \A i \in DOMAIN rows : rows[i].via = "bundle" /\ rows[i].from = 0
    BY <1>3 DEF BundleCommit, TypeInv, RequestsSound, PurchaseSound, Fresh
  <2> HIDE DEF rows
  <2>4. /\ NewIds = {Len(passes) + i : i \in DOMAIN rows}
        /\ \A i \in DOMAIN rows : passes'[Len(passes) + i] = rows[i]
    <3>1. passes \in Seq(Pass)
      BY DEF TypeInv, TypeOK, TableTypeOK
    <3>2. QED
      BY <2>2, <3>1, AddedIds
  <2>5. QED
    BY <2>3, <2>4 DEF OnlySales
<1>4. QED
  BY <1>1, <1>2, <1>3
     DEF PurchaseNext, tableVars, GiftRead, BundleRead, BundleMint,
         BundleRefuse, PurchaseFails

(* A run adds a row, and says SUCCESS, only when it commits.               *)
LEMMA RunsAdd ==
  ASSUME TypeInv, RenewalNext, \A r \in Renewers : ~ RenewalCommit(r)
  PROVE  /\ PassIds' = PassIds
         /\ \A p \in Ids : attempts'[p].success = attempts[p].success
<1> DEFINE Same == /\ PassIds' = PassIds
                   /\ \A p \in Ids : attempts'[p].success = attempts[p].success
<1>1. ASSUME NEW r \in Renewers, RenewalDisable(r)
      PROVE  Same
  BY <1>1 DEF RenewalDisable, PassIds
<1>2. ASSUME NEW r \in Renewers, UNCHANGED <<passes, attempts>>
      PROVE  Same
  BY <1>2 DEF PassIds
<1>3. ASSUME NEW r \in Renewers, RenewalRecordFailure(r)
      PROVE  Same
  <2>1. attempts \in [Ids -> [success : Nat, failed : Nat]]
    BY DEF TypeInv, TypeOK, RenewalTypeOK
  <2>2. attempts' = [attempts EXCEPT ![run[r].cur].failed = @ + 1]
    BY <1>3 DEF RenewalRecordFailure
  <2>3. \A p \in Ids : attempts'[p].success = attempts[p].success
    BY <2>1, <2>2
  <2>4. PassIds' = PassIds
    BY <1>3 DEF RenewalRecordFailure, tableVars, PassIds
  <2>5. QED
    BY <2>3, <2>4
<1>4. ASSUME NEW r \in Renewers,
             \/ RenewalScan(r) \/ ChargeSucceeds(r) \/ RenewalDone(r)
             \/ \E p \in PassIds : RenewalBegin(r, p) \/ RenewalWaitExpires(r, p)
             \/ \E t \in Tiers : RenewalMint(r, t)
             \/ \E b \in BOOLEAN : RunLost(r, b)
             \/ RenewalTxExpires(r)
      PROVE  UNCHANGED <<passes, attempts>>
  BY <1>4 DEF RenewalScan, ChargeSucceeds, RenewalDone, RenewalBegin,
              RenewalWaitExpires, RenewalMint, RunLost, RenewalTxExpires, tableVars
<1>5. ASSUME NEW r \in Renewers,
             \/ ChargeFails(r) \/ ChargeUnseen(r)
             \/ RenewalMintRefused(r) \/ RenewalFindsTxClosed(r)
      PROVE  UNCHANGED <<passes, attempts>>
  BY <1>5 DEF ChargeFails, ChargeUnseen, RenewalMintRefused,
              RenewalFindsTxClosed, RollBack
<1>6. ASSUME NEW p \in PassIds, NEW b \in BOOLEAN, UnseenSettles(p, b)
      PROVE  Same
  BY <1>6 DEF UnseenSettles, tableVars, PassIds
<1>7. ASSUME NEW r \in Renewers, RenewalStep(r)
      PROVE  Same
  <2> HIDE DEF Same
  <2>1. QED
    BY <1>1, <1>2, <1>3, <1>4, <1>5, <1>7 DEF RenewalStep
<1> HIDE DEF Same
<1>8. Same
  BY <1>2, <1>4, <1>6, <1>7 DEF RenewalNext
<1>9. QED
  BY <1>8 DEF Same

(* The rows of the table stay in number under every other step.            *)
LEMMA StepAdds ==
  ASSUME TypeInv, [Next]_vars
  PROVE  \/ \E r \in Renewers : RenewalCommit(r)
         \/ /\ \A p \in Ids : attempts'[p].success = attempts[p].success
            /\ \/ \E c \in Changers : ChangeCommit(c)
               \/ OnlySales
<1>1. CASE UNCHANGED vars
  BY <1>1, NothingAdded DEF vars, tableVars, renewalVars, PassIds
<1>2. CASE TableNext /\ UNCHANGED renewalVars
  <2>1. PassIds' = PassIds
    <3>1. CASE DeactivateExpiredPasses
      BY <3>1 DEF DeactivateExpiredPasses, PassIds
    <3>2. ASSUME NEW p \in PassIds, NEW b \in BOOLEAN, ToggleAutoRenew(p, b)
          PROVE  PassIds' = PassIds
      BY <3>2 DEF ToggleAutoRenew, PassIds
    <3>3. QED
      BY <1>2, <3>1, <3>2
         DEF TableNext, Tick, BlockFan, UnblockFan, DeactivateTier,
             ReactivateTier, PassIds
  <2>2. QED
    BY <1>2, <2>1, NothingAdded DEF renewalVars
<1>3. CASE PurchaseNext /\ UNCHANGED renewalVars
  BY <1>3, SalesAdd DEF renewalVars
<1>4. CASE ChangeNext /\ UNCHANGED renewalVars
  BY <1>4, NothingAdded
     DEF ChangeNext, ChangeRead, ChangeFails, tableVars, renewalVars, PassIds
<1>5. CASE RenewalNext
  BY <1>5, RunsAdd, NothingAdded
<1>6. CASE DeletionNext /\ UNCHANGED renewalVars
  <2>1. PassIds' = PassIds
    BY <1>6 DEF DeletionNext, tableVars, DeletionRead, DeletionCommit,
                DeletionFails, PassIds
  <2>2. QED
    BY <1>6, <2>1, NothingAdded DEF renewalVars
<1>7. QED
  BY <1>1, <1>2, <1>3, <1>4, <1>5, <1>6 DEF Next

(* The row of a renewal, and that of a tier change.                        *)
LEMMA RenewalAdds ==
  ASSUME TypeInv, NEW r \in Renewers, RenewalCommit(r)
  PROVE  /\ run[r].cur \in PassIds /\ NewIds = {Len(passes) + 1}
         /\ passes'[Len(passes) + 1].via = "renewal"
         /\ passes'[Len(passes) + 1].from = run[r].cur
         /\ passes'[Len(passes) + 1].found = run[r].built[1].found
<1> DEFINE p == run[r].cur
           row == run[r].built[1]
<1>1. /\ p \in PassIds /\ RoomToReplace /\ row \in Pass
      /\ Fresh(row, passes[p].fan, "renewal", p)
  BY RunFields, ElementOfSeq DEF RenewalCommit, RunSound
<1>2. passes' = Replace(p, row)
  BY DEF RenewalCommit
<1> HIDE DEF p, row
<1>3. NewIds = {Len(passes) + 1} /\ passes'[Len(passes) + 1] = row
  BY <1>1, <1>2, ReplacedRow
<1>4. QED
  BY <1>1, <1>3 DEF Fresh, p, row

LEMMA ChangeAdds ==
  ASSUME TypeInv, NEW c \in Changers, ChangeCommit(c)
  PROVE  /\ change[c].pass \in PassIds /\ NewIds = {Len(passes) + 1}
         /\ passes'[Len(passes) + 1].via = "change"
         /\ passes'[Len(passes) + 1].from = change[c].pass
         /\ passes'[Len(passes) + 1].found = change[c].found
<1>1. PICK row \in Pass :
        /\ Fresh(row, passes[change[c].pass].fan, "change", change[c].pass)
        /\ row.found = change[c].found
        /\ passes' = Replace(change[c].pass, row)
  BY ChangedRow
<1>2. NewIds = {Len(passes) + 1} /\ passes'[Len(passes) + 1] = row
  BY <1>1, ChangedRow, ReplacedRow
<1>3. QED
  BY <1>1, <1>2, ChangedRow DEF Fresh

(* Old rows keep their place in the chain of replacements, and what        *)
(* history notes in them.                                                  *)
LEMMA FromKept ==
  ASSUME TypeInv, TableStepOK
  PROVE  /\ PassIds' = PassIds \cup NewIds /\ PassIds \cap NewIds = {}
         /\ \A p \in PassIds : /\ passes'[p].from = passes[p].from
                               /\ passes'[p].via = passes[p].via
                               /\ passes'[p].found = passes[p].found
                               /\ passes'[p].seen = passes[p].seen
                               /\ passes'[p].fan = passes[p].fan
                               /\ passes'[p].tier = passes[p].tier
                               /\ passes'[p].trialUsed = passes[p].trialUsed
BY DEF TableStepOK, RowsKept, RowKept, NewIds, PassIds

-----------------------------------------------------------------------------
(* SUCCESS rows.                                                           *)

SuccessCounted ==
  \A p \in Ids : attempts[p].success = Cardinality(Successors(p, "renewal"))

LEMMA SuccessStep ==
  ASSUME TypeInv, SuccessCounted, [Next]_vars
  PROVE  SuccessCounted'
<1>1. TableStepOK
  BY TypeInvStep
<1>2. \A p \in Ids : /\ attempts[p].success \in Nat
                     /\ attempts \in [Ids -> [success : Nat, failed : Nat]]
  BY DEF TypeInv, TypeOK, RenewalTypeOK
<1>3. ASSUME \A q \in NewIds : passes'[q].via # "renewal",
             \A p \in Ids : attempts'[p].success = attempts[p].success
      PROVE  SuccessCounted'
  <2>1. ASSUME NEW p \in Ids
        PROVE  Successors(p, "renewal")' = Successors(p, "renewal")
    BY <1>1, <1>3, FromKept DEF Successors
  <2>2. QED
    BY <1>3, <2>1 DEF SuccessCounted
<1>4. ASSUME NEW r \in Renewers, RenewalCommit(r)
      PROVE  SuccessCounted'
  <2>1. PICK cur, new : cur = run[r].cur /\ new = Len(passes) + 1
    OBVIOUS
  <2>2. /\ cur \in Ids /\ NewIds = {new} /\ new \notin PassIds
        /\ passes'[new].via = "renewal" /\ passes'[new].from = cur
    <3>1. PassIds \subseteq Ids
      BY LenProperties, TableAssumption DEF TypeInv, TypeOK, TableTypeOK, PassIds, Ids
    <3>2. QED
      BY <1>1, <1>4, <2>1, <3>1, RenewalAdds, FromKept
  <2>3. attempts' = [attempts EXCEPT ![cur].success = @ + 1]
    BY <1>4, <2>1 DEF RenewalCommit
  <2>4. ASSUME NEW p \in Ids
        PROVE  attempts'[p].success = Cardinality(Successors(p, "renewal")')
    <3>1. PICK S : S = Successors(p, "renewal")
      OBVIOUS
    <3>2. IsFiniteSet(S) /\ new \notin S
      <4>1. Len(passes) \in Nat /\ PassIds = 1..Len(passes)
        BY LenProperties DEF TypeInv, TypeOK, TableTypeOK, PassIds
      <4>2. IsFiniteSet(PassIds) /\ S \in SUBSET PassIds
        BY <3>1, <4>1, FS_Interval DEF Successors
      <4>3. QED
        BY <2>2, <4>2, FS_Subset
    <3>3. Successors(p, "renewal")' = IF p = cur THEN S \cup {new} ELSE S
      BY <1>1, <2>2, <3>1, FromKept DEF Successors
    <3>4. attempts[p].success = Cardinality(S)
      BY <3>1 DEF SuccessCounted
    <3>5. Cardinality(S \cup {new}) = Cardinality(S) + 1
      BY <3>2, FS_AddElement
    <3>6. attempts'[p].success = IF p = cur THEN attempts[p].success + 1
                                 ELSE attempts[p].success
      BY <1>2, <2>3
    <3>7. QED
      BY <3>3, <3>4, <3>5, <3>6
  <2>5. QED
    BY <2>4 DEF SuccessCounted
<1>5. CASE \E c \in Changers : ChangeCommit(c)
  BY <1>3, <1>5, StepAdds, ChangeAdds, <1>4
<1>6. CASE OnlySales
  BY <1>3, <1>4, <1>6, StepAdds DEF OnlySales
<1>7. QED
  BY <1>4, <1>5, <1>6, StepAdds

(* A SUCCESS row stands for one renewed pass, and every renewed pass has   *)
(* one: the row and the pass come of the same transaction, and no other    *)
(* statement writes either.                                                *)
THEOREM SuccessIsRenewal == Spec => []SuccessMeansRenewed
<1>1. Init => SuccessCounted
  <2> SUFFICES ASSUME Init, NEW p \in Ids
               PROVE  attempts[p].success = Cardinality(Successors(p, "renewal"))
    BY DEF SuccessCounted
  <2>1. Successors(p, "renewal") = {}
    BY DEF Init, TableInit, Successors, PassIds
  <2>2. QED
    BY <2>1, FS_EmptySet DEF Init, RenewalInit
<1>2. TypeInv /\ [Next]_vars => TypeInv'
  BY TypeInvStep
<1>3. TypeInv /\ SuccessCounted /\ [Next]_vars => SuccessCounted'
  BY SuccessStep
<1>4. TypeInv /\ SuccessCounted => SuccessMeansRenewed
  <2>1. TypeInv => PassIds \subseteq Ids
    BY LenProperties, TableAssumption DEF TypeInv, TypeOK, TableTypeOK, PassIds, Ids
  <2>2. QED
    BY <2>1 DEF SuccessCounted, SuccessMeansRenewed
<1>5. QED
  BY InitTypeInv, <1>1, <1>2, <1>3, <1>4, PTL DEF Spec

-----------------------------------------------------------------------------
(* The value of a tier change.                                             *)

FullTerms == \A p \in PassIds : FullTerm(passes[p])

LEMMA FullTermsStep ==
  ASSUME TypeInv, FullTerms, [Next]_vars
  PROVE  FullTerms'
<1>1. TableStepOK
  BY TypeInvStep
<1>2. ASSUME NEW p \in PassIds'
      PROVE  FullTerm(passes'[p])
  <2>1. CASE p \in PassIds
    BY <1>1, <2>1 DEF FullTerms, FullTerm, TableStepOK, RowsKept, RowKept
  <2>2. CASE p \notin PassIds
    BY <1>1, <2>2 DEF TableStepOK
  <2>3. QED
    BY <2>1, <2>2
<1>3. QED
  BY <1>2 DEF FullTerms, FullTerm, PassIds

LEMMA DivBound == \A m \in Nat, n \in Nat \ {0} : (m \div n) * n <= m
BY SMT

(* More than one day was paid for in full.                                 *)
LEMMA DaysPaidFor ==
  ASSUME NEW oldPrice \in Nat, NEW oldDuration \in Nat, NEW elapsed \in Int,
         NEW newPrice \in Nat, NEW newDuration \in Nat, NEW days \in Nat,
         Computable(oldDuration, newPrice),
         days = ConvertedDays(oldPrice, oldDuration, elapsed, newPrice, newDuration),
         days > 1
  PROVE  days * newPrice * oldDuration
           <= RemainingDays(oldDuration, elapsed) * oldPrice * newDuration
<1> DEFINE left == RemainingDays(oldDuration, elapsed)
           worth == oldPrice * left * newDuration
           rate == oldDuration * newPrice
<1>1. left \in Nat
  BY DEF RemainingDays
<1> HIDE DEF left
<1>2. worth \in Nat /\ worth = left * oldPrice * newDuration
  BY <1>1
<1>3. rate \in Nat /\ \A n \in Nat : n * newPrice * oldDuration = n * rate
  OBVIOUS
<1>4. CASE newPrice > 0
  <2>1. days = worth \div rate
    BY <1>4 DEF ConvertedDays, AtLeastOne, left
  <2>2. rate \in Nat \ {0}
    BY <1>4 DEF Computable
  <2> HIDE DEF worth, rate
  <2>3. days * rate <= worth
    BY <1>2, <2>1, <2>2, DivBound
  <2>4. QED
    BY <1>2, <1>3, <2>3 DEF left
<1>5. CASE ~ (newPrice > 0)
  <2>1. newPrice = 0
    BY <1>5
  <2>2. days * newPrice * oldDuration = 0
    BY <2>1
  <2> HIDE DEF worth
  <2>3. QED
    BY <1>2, <2>2 DEF left
<1>6. QED
  BY <1>4, <1>5

LEMMA ChangedValue ==
  ASSUME TypeInv, FullTerms, NEW c \in Changers, ChangeCommit(c),
         NEW q \in NewIds, ~ passes'[q].trialUsed,
         passes'[passes'[q].from].via # "change"
  PROVE  ValueKept(q)
<1> DEFINE req == change[c]
           built == NewPass(req.tier, req.fan, req.at, req.days, req.trialUsed,
                            "change", req.pass)
<1>1. req \in ChangeRequest /\ req.pass \in PassIds
  <2>1. change[c].op = "change" /\ change[c] \in {NoChange} \cup ChangeRequest
    BY DEF ChangeCommit, ChangeTypeOK, TypeInv, TypeOK
  <2>2. change[c] \in ChangeRequest
    BY <2>1 DEF NoChange
  <2>3. change[c].pass \in PassIds
    BY <2>1 DEF TypeInv, RequestsSound, ChangeSound
  <2>4. QED
    BY <2>2, <2>3
<1>2. PICK p, old : p = req.pass /\ old = passes[p]
  OBVIOUS
<1>3. /\ req.fan = old.fan /\ req.trialUsed = old.trialUsed /\ Prorated(req, old)
  BY <1>2 DEF ChangeCommit, TypeInv, RequestsSound, ChangeSound
<1>4. old \in Pass /\ p \in PassIds /\ p \in Nat
  BY <1>1, <1>2, ElementOfSeq, LenProperties DEF TypeInv, TypeOK, TableTypeOK, PassIds
<1>5. PICK row : row = [built EXCEPT !.autoRenew = req.autoRenew, !.found = req.found]
  OBVIOUS
<1>6. /\ row.tier = req.tier /\ row.purchasedAt = req.at
      /\ row.expiresAt = req.at + req.days /\ row.trialUsed = req.trialUsed
  BY <1>5 DEF NewPass
<1>7. row \in Pass /\ Fresh(row, old.fan, "change", p)
  <2>1. built \in Pass
    BY <1>1, NewPassType DEF ChangeRequest, Origins
  <2>2. Fresh(built, old.fan, "change", p)
    BY <1>2, <1>3, NewFresh
  <2>3. req.autoRenew \in BOOLEAN /\ req.found \in Nat
    BY <1>1 DEF ChangeRequest
  <2> HIDE DEF built, req
  <2>4. /\ row \in Pass /\ row.fan = built.fan /\ row.via = built.via
        /\ row.from = built.from /\ row.supersededBy = built.supersededBy
        /\ row.trialUsed = built.trialUsed /\ row.expiresAt = built.expiresAt
        /\ row.purchasedAt = built.purchasedAt /\ row.tier = built.tier
    BY <1>5, <2>1, <2>3 DEF Pass
  <2>5. QED
    BY <2>2, <2>4 DEF Fresh, FullTerm
<1>8. passes' = Replace(p, row) /\ RoomToReplace
  BY <1>2, <1>5 DEF ChangeCommit
<1>9. /\ q = Len(passes) + 1 /\ passes'[q] = row /\ TableStepOK
  BY <1>2, <1>4, <1>7, <1>8, ReplacedRow
<1>10. passes'[q].from = p /\ RowKept(old, passes'[p])
  BY <1>2, <1>4, <1>7, <1>9 DEF Fresh, TableStepOK, RowsKept
<1>11. PICK at, days, t : at = req.at /\ days = req.days /\ t = req.tier
  OBVIOUS
<1>12. /\ at \in Nat /\ days \in Nat /\ t \in Tiers /\ old.tier \in Tiers
       /\ old.purchasedAt \in Nat /\ old.expiresAt \in Nat
       /\ Price[t] \in Nat /\ Duration[t] \in Nat
       /\ Price[old.tier] \in Nat /\ Duration[old.tier] \in Nat
  BY <1>1, <1>4, <1>11, TableAssumption DEF ChangeRequest, Pass
<1>13. /\ Computable(Duration[old.tier], Price[t])
       /\ days = ConvertedDays(Price[old.tier], Duration[old.tier],
                               at - old.purchasedAt, Price[t], Duration[t])
       /\ at <= old.expiresAt
  BY <1>3, <1>11 DEF Prorated
<1>14. old.expiresAt = old.purchasedAt + Duration[old.tier]
  <2>1. ~ old.trialUsed /\ old.via # "change"
    <3>1. ~ row.trialUsed /\ passes'[p].via # "change"
      BY <1>9, <1>10
    <3> HIDE DEF req
    <3>2. QED
      BY <1>3, <1>6, <1>10, <3>1 DEF RowKept
  <2>2. QED
    BY <1>2, <1>4, <2>1 DEF FullTerms, FullTerm
<1>15. RemainingDays(Duration[old.tier], at - old.purchasedAt) = old.expiresAt - at
  BY <1>12, <1>13, <1>14 DEF RemainingDays
<1>16. /\ passes'[q].expiresAt - passes'[q].purchasedAt = days
       /\ passes'[p].expiresAt - passes'[q].purchasedAt = old.expiresAt - at
       /\ passes'[q].tier = t /\ passes'[p].tier = old.tier
  <2>1. /\ passes'[q].expiresAt = at + days /\ passes'[q].purchasedAt = at
        /\ passes'[q].tier = t
    BY <1>6, <1>9, <1>11
  <2>2. passes'[p].expiresAt = old.expiresAt /\ passes'[p].tier = old.tier
    BY <1>10 DEF RowKept
  <2>3. QED
    BY <1>12, <2>1, <2>2
<1> HIDE DEF req, built
<1>17. days > 1 => days * Price[t] * Duration[old.tier]
                     <= (old.expiresAt - at) * Price[old.tier] * Duration[t]
  <2>1. at - old.purchasedAt \in Int
    BY <1>12
  <2>2. QED
    BY <1>12, <1>13, <1>15, <2>1, DaysPaidFor
<1>18. QED
  BY <1>10, <1>16, <1>17 DEF ValueKept

(* A tier change gives no more than was paid: for a pass as it was sold,   *)
(* the days on the new tier cost at most what the days left on the old one *)
(* had cost, for any two tiers and at any time before the expiry, but for  *)
(* the one day that changeTier gives at least.  The price of the request   *)
(* is computed before its transaction, and still the one to charge in it.  *)
THEOREM ValueOfSoldPassKept == Spec => SoldPassKeepsValue
<1> DEFINE Kept == \A q \in NewIds :
                     /\ passes'[q].via = "change" /\ ~ passes'[q].trialUsed
                     /\ passes'[passes'[q].from].via # "change"
                     => ValueKept(q)
<1>1. ASSUME TypeInv, FullTerms, [Next]_vars
      PROVE  Kept
  <2> SUFFICES ASSUME NEW q \in NewIds, passes'[q].via = "change",
                      ~ passes'[q].trialUsed,
                      passes'[passes'[q].from].via # "change"
               PROVE  ValueKept(q)
    OBVIOUS
  <2>1. CASE \E r \in Renewers : RenewalCommit(r)
    BY <1>1, <2>1, RenewalAdds
  <2>2. CASE \E c \in Changers : ChangeCommit(c)
    BY <1>1, <2>2, ChangedValue
  <2>3. CASE OnlySales
    BY <2>3 DEF OnlySales
  <2>4. QED
    BY <1>1, <2>1, <2>2, <2>3, StepAdds
<1>2. Init => FullTerms
  BY DEF Init, TableInit, FullTerms, PassIds
<1>3. TypeInv /\ [Next]_vars => TypeInv'
  BY TypeInvStep
<1>4. TypeInv /\ FullTerms /\ [Next]_vars => FullTerms'
  BY FullTermsStep
<1>5. TypeInv /\ FullTerms /\ [Next]_vars => [Kept]_vars
  BY <1>1
<1>6. QED
  BY InitTypeInv, <1>2, <1>3, <1>4, <1>5, PTL DEF Spec, SoldPassKeepsValue, Kept

-----------------------------------------------------------------------------
(* The steps that add rows.                                                *)
LEMMA OthersAddNothing ==
  ASSUME TypeInv, [Next]_vars, \A c \in Changers : ~ ChangeCommit(c),
         \A w \in Purchasers : ~ GiftCommit(w) /\ ~ BundleCommit(w),
         \A r \in Renewers : ~ RenewalCommit(r)
  PROVE  NewIds = {}
<1> SUFFICES PassIds' = PassIds
  BY DEF NewIds, PassIds
<1>1. CASE UNCHANGED vars
  BY <1>1 DEF vars, tableVars, PassIds
<1>2. CASE TableNext
  <2>1. CASE DeactivateExpiredPasses
    BY <2>1 DEF DeactivateExpiredPasses, PassIds
  <2>2. ASSUME NEW p \in PassIds, NEW b \in BOOLEAN, ToggleAutoRenew(p, b)
        PROVE  PassIds' = PassIds
    BY <2>2 DEF ToggleAutoRenew, PassIds
  <2>3. QED
    BY <1>2, <2>1, <2>2
       DEF TableNext, Tick, BlockFan, UnblockFan, DeactivateTier, ReactivateTier, PassIds
<1>3. CASE PurchaseNext
  BY <1>3 DEF PurchaseNext, tableVars, GiftRead, BundleRead, BundleMint, BundleRefuse,
              PurchaseFails, PassIds
<1>4. CASE ChangeNext
  BY <1>4 DEF ChangeNext, ChangeRead, ChangeFails, tableVars, PassIds
<1>5. CASE RenewalNext
  BY <1>5, RunsAdd
<1>6. CASE DeletionNext
  BY <1>6 DEF DeletionNext, tableVars, DeletionRead, DeletionCommit, DeletionFails, PassIds
<1>7. QED
  BY <1>1, <1>2, <1>3, <1>4, <1>5, <1>6 DEF Next

(* A run gets a row into its transaction by minting it, in no other step.  *)
MintsOnly(r) ==
  /\ run' = [run EXCEPT ![r] = run'[r]]
  /\ run'[r].pc = "minted" /\ run'[r].open => \E t \in Tiers : RenewalMint(r, t)

LEMMA MintedByMint ==
  ASSUME TypeInv, NEW r \in Renewers,
         \/ RenewalStep(r) \/ RenewalTxExpires(r)
         \/ \E b \in BOOLEAN : RunLost(r, b)
  PROVE  MintsOnly(r)
<1>1. ASSUME NEW v, run' = [run EXCEPT ![r] = v], v.pc # "minted" \/ ~ v.open
      PROVE  MintsOnly(r)
  BY <1>1, RunBecomes DEF MintsOnly
<1>2. CASE RenewalScan(r)
  <2> DEFINE v == [NoRun EXCEPT !.pc = "loop", !.todo = DueForRenewal,
                                !.listed = Len(passes)]
  <2>1. v.pc = "loop"
    BY DEF NoRun
  <2>2. run' = [run EXCEPT ![r] = v]
    BY <1>2 DEF RenewalScan
  <2> HIDE DEF v
  <2>3. QED
    BY <1>1, <2>1, <2>2
<1>3. ASSUME NEW p \in PassIds, RenewalBegin(r, p)
      PROVE  MintsOnly(r)
  <2> DEFINE v == [run[r] EXCEPT !.pc = "begun", !.cur = p, !.open = TRUE]
  <2>1. v.pc = "begun"
    BY RunFields DEF Run
  <2>2. run' = [run EXCEPT ![r] = v]
    BY <1>3 DEF RenewalBegin, TypeInv, TypeOK, RenewalTypeOK
  <2> HIDE DEF v
  <2>3. QED
    BY <1>1, <2>1, <2>2
<1>4. ASSUME NEW p \in PassIds, RenewalWaitExpires(r, p)
      PROVE  MintsOnly(r)
  <2> DEFINE v == [run[r] EXCEPT !.pc = "failed", !.cur = p]
  <2>1. v.pc = "failed"
    BY RunFields DEF Run
  <2>2. run' = [run EXCEPT ![r] = v]
    BY <1>4 DEF RenewalWaitExpires, TypeInv, TypeOK, RenewalTypeOK
  <2> HIDE DEF v
  <2>3. QED
    BY <1>1, <2>1, <2>2
<1>5. ASSUME NEW pc, Goto(r, pc), pc # "minted"
      PROVE  MintsOnly(r)
  BY <1>5, GotoBecomes DEF MintsOnly
<1>6. ASSUME RollBack(r)
      PROVE  MintsOnly(r)
  BY <1>6, RollBackBecomes DEF MintsOnly
<1>7. ASSUME NEW t \in Tiers, RenewalMint(r, t)
      PROVE  MintsOnly(r)
  <2>1. \E v : run' = [run EXCEPT ![r] = v]
    BY <1>7 DEF RenewalMint, TypeInv, TypeOK, RenewalTypeOK
  <2>2. run' = [run EXCEPT ![r] = run'[r]]
    BY <2>1, RunBecomes
  <2>3. QED
    BY <1>7, <2>2 DEF MintsOnly
<1>8. CASE RenewalTxExpires(r)
  <2> DEFINE v == [run[r] EXCEPT !.open = FALSE, !.built = <<>>]
  <2>1. run' = [run EXCEPT ![r] = v]
    BY <1>8 DEF RenewalTxExpires, TypeInv, TypeOK, RenewalTypeOK
  <2>2. ~ v.open
    BY RunFields DEF Run
  <2> HIDE DEF v
  <2>3. QED
    BY <1>1, <2>1, <2>2
<1>9. ASSUME NextPass(r)
      PROVE  MintsOnly(r)
  BY <1>9, NextPassBecomes DEF MintsOnly
<1>10. ASSUME run' = [run EXCEPT ![r] = NoRun]
       PROVE  MintsOnly(r)
  BY <1>1, <1>10 DEF NoRun
<1>11. CASE RenewalDone(r) \/ \E b \in BOOLEAN : RunLost(r, b)
  BY <1>10, <1>11 DEF RunLost, RenewalDone
<1>12. CASE RenewalCommit(r) \/ RenewalDisable(r)
  BY <1>9, <1>12 DEF RenewalCommit, RenewalDisable
<1>13. CASE ChargeSucceeds(r) \/ RenewalRecordFailure(r)
  BY <1>5, <1>13 DEF ChargeSucceeds, RenewalRecordFailure
<1>14. CASE ChargeFails(r) \/ ChargeUnseen(r) \/ RenewalMintRefused(r)
            \/ RenewalFindsTxClosed(r)
  BY <1>6, <1>14 DEF ChargeFails, ChargeUnseen, RenewalMintRefused, RenewalFindsTxClosed
<1>15. QED
  BY <1>2, <1>3, <1>4, <1>7, <1>8, <1>11, <1>12, <1>13, <1>14 DEF RenewalStep

(* What becomes of a request.                                              *)
LEMMA PurchaseMoves ==
  ASSUME TypeInv, PurchaseNext, NEW w \in Purchasers
  PROVE  \/ purchase'[w] = purchase[w]
         \/ purchase'[w].op # "bundle"
         \/ /\ \E ids \in BundleIds, f \in Fans : BundleRead(w, ids, f)
            /\ purchase'[w].rows = <<>>
         \/ \E t \in Tiers : BundleMint(w, t)
<1>1. purchase \in [Purchasers -> {NoPurchase} \cup GiftRequest \cup BundleRequest]
  BY DEF TypeInv, TypeOK, PurchaseTypeOK
<1>2. PICK v \in Purchasers :
        \/ \E t \in Tiers, s \in Fans, u \in Fans : GiftRead(v, t, s, u)
        \/ GiftCommit(v)
        \/ \E ids \in BundleIds, f \in Fans : BundleRead(v, ids, f)
        \/ \E t \in Tiers : BundleMint(v, t) \/ BundleRefuse(v, t)
        \/ BundleCommit(v)
        \/ PurchaseFails(v)
  BY DEF PurchaseNext
<1>3. CASE v # w
  BY <1>1, <1>2, <1>3
     DEF GiftRead, GiftCommit, BundleRead, BundleMint, BundleRefuse, BundleCommit,
         PurchaseFails, End
<1>4. CASE v = w /\ \E t \in Tiers, s \in Fans, u \in Fans : GiftRead(v, t, s, u)
  BY <1>1, <1>4 DEF GiftRead
<1>5. CASE v = w /\ End(v)
  BY <1>1, <1>5 DEF End, NoPurchase
<1>6. CASE v = w /\ \E ids \in BundleIds, f \in Fans : BundleRead(v, ids, f)
  <2>1. PICK ids \in BundleIds, f \in Fans : BundleRead(w, ids, f)
    BY <1>6
  <2>2. purchase'[w].rows = <<>>
    BY <1>1, <2>1 DEF BundleRead
  <2>3. QED
    BY <2>1, <2>2
<1>7. QED
  BY <1>2, <1>3, <1>4, <1>5, <1>6
     DEF GiftCommit, BundleRefuse, BundleCommit, PurchaseFails

-----------------------------------------------------------------------------
(* Forks: a pass is replaced again only by a request or a run that found   *)
(* it open before the other one committed.                                 *)

(* Whatever has replaced p came after the first n passes.                  *)
OpenSince(p, n) == \A q \in PassIds : passes[q].from = p => q > n

(* A pass that has been replaced is closed, so that no request and no run  *)
(* that reads the table takes it up again.                                 *)
ReplacedClosed ==
  \A q \in PassIds : passes[q].from # 0 => /\ passes[q].from \in PassIds
                                           /\ ~ passes[passes[q].from].active

(* Requests and runs know how far the table was when they found their      *)
(* passes open.                                                            *)
ChangeFound(c) ==
  change[c].op = "change" => /\ change[c].found <= Len(passes)
                             /\ OpenSince(change[c].pass, change[c].found)

RunListed(r) ==
  /\ run[r].listed <= Len(passes)
  /\ \A p \in run[r].todo : OpenSince(p, run[r].listed)
  /\ run[r].pc \notin {"idle", "loop"} => run[r].cur \in run[r].todo
  /\ run[r].pc = "minted" /\ run[r].open => run[r].built[1].found = run[r].listed

ForkInv ==
  /\ ForkedByOverlapOnly
  /\ ReplacedClosed
  /\ \A c \in Changers : ChangeFound(c)
  /\ \A r \in Renewers : RunListed(r)

(* New rows come behind all that were there.                               *)
LEMMA NewIdsBehind ==
  ASSUME TypeInv, TableStepOK
  PROVE  /\ Len(passes) \in Nat /\ Len(passes') \in Nat /\ Len(passes) <= Len(passes')
         /\ \A p \in PassIds : p \in Nat \ {0} /\ p <= Len(passes)
         /\ \A q \in NewIds : q \in Nat \ {0} /\ q > Len(passes)
<1>1. passes \in Seq(Pass) /\ passes' \in Seq(Pass) /\ PassIds \subseteq PassIds'
  BY DEF TypeInv, TypeOK, TableTypeOK, TableStepOK, RowsKept
<1>2. /\ Len(passes) \in Nat /\ Len(passes') \in Nat
      /\ PassIds = 1..Len(passes) /\ PassIds' = 1..Len(passes')
  BY <1>1, LenProperties DEF PassIds
<1>3. Len(passes) <= Len(passes')
  <2>1. CASE Len(passes) = 0
    BY <1>2, <2>1
  <2>2. CASE Len(passes) # 0
    <3>1. Len(passes) \in PassIds'
      BY <1>1, <1>2, <2>2
    <3>2. QED
      BY <1>2, <3>1
  <2>3. QED
    BY <2>1, <2>2
<1>4. NewIds = PassIds' \ PassIds
  BY DEF NewIds, PassIds
<1>5. QED
  BY <1>2, <1>3, <1>4

LEMMA OpenStays ==
  ASSUME TypeInv, TableStepOK, NEW p, NEW n \in Nat, n <= Len(passes), OpenSince(p, n)
  PROVE  OpenSince(p, n)' /\ n <= Len(passes')
<1>1. n <= Len(passes') /\ \A q \in NewIds : q > n
  BY NewIdsBehind
<1>2. QED
  BY <1>1, FromKept DEF OpenSince

(* A pass that is active has not been replaced.                            *)
LEMMA ActiveOpen ==
  ASSUME TypeInv, ReplacedClosed, NEW p \in PassIds, passes[p].active, NEW n
  PROVE  OpenSince(p, n)
<1>1. p # 0
  BY LenProperties DEF TypeInv, TypeOK, TableTypeOK, PassIds
<1>2. QED
  BY <1>1 DEF ReplacedClosed, OpenSince

(* The rows that a step adds keep the rule, if each replaces none, or is   *)
(* the only one and replaces a pass that was open as long as it says.      *)
LEMMA ForkRows ==
  ASSUME TypeInv, TableStepOK, ForkedByOverlapOnly, ReplacedClosed,
         \/ \A q \in NewIds : passes'[q].from = 0
         \/ \E q, p, n : /\ NewIds = {q} /\ p \in PassIds /\ ~ passes'[p].active
                         /\ passes'[q].from = p /\ passes'[q].found = n
                         /\ n \in Nat /\ OpenSince(p, n)
  PROVE  ForkedByOverlapOnly' /\ ReplacedClosed'
<1>1. /\ PassIds' = PassIds \cup NewIds /\ PassIds \cap NewIds = {}
      /\ \A p \in PassIds : passes'[p].from = passes[p].from
                            /\ passes'[p].found = passes[p].found
  BY FromKept
<1>2. /\ Len(passes) \in Nat
      /\ \A p \in PassIds : p \in Nat \ {0} /\ p <= Len(passes)
      /\ \A q \in NewIds : q \in Nat \ {0} /\ q > Len(passes)
  BY NewIdsBehind
<1>3. \A p \in PassIds : ~ passes[p].active => ~ passes'[p].active
  BY DEF TableStepOK, RowsKept, RowKept
<1>4. CASE \A q \in NewIds : passes'[q].from = 0
  <2>1. ForkedByOverlapOnly'
    BY <1>1, <1>4 DEF ForkedByOverlapOnly
  <2>2. ReplacedClosed'
    BY <1>1, <1>3, <1>4 DEF ReplacedClosed
  <2>3. QED
    BY <2>1, <2>2
<1>5. ASSUME NEW q, NEW p \in PassIds, NEW n \in Nat, NewIds = {q}, ~ passes'[p].active,
             passes'[q].from = p, passes'[q].found = n, OpenSince(p, n)
      PROVE  ForkedByOverlapOnly' /\ ReplacedClosed'
  <2>1. \A i \in PassIds : i < q /\ ~ (q < i)
    BY <1>2, <1>5
  <2>2. ASSUME NEW i \in PassIds', NEW j \in PassIds', i < j,
               passes'[i].from # 0, passes'[i].from = passes'[j].from
        PROVE  passes'[j].found < i
    <3>1. CASE i \in PassIds /\ j \in PassIds
      BY <1>1, <2>2, <3>1 DEF ForkedByOverlapOnly
    <3>2. CASE i \in PassIds /\ j = q
      BY <1>1, <1>2, <1>5, <2>2, <3>2 DEF OpenSince
    <3>3. i # q
      BY <1>1, <1>2, <1>5, <2>1, <2>2
    <3>4. QED
      BY <1>1, <1>5, <3>1, <3>2, <3>3
  <2>3. ForkedByOverlapOnly'
    BY <2>2 DEF ForkedByOverlapOnly, PassIds
  <2>4. ReplacedClosed'
    BY <1>1, <1>3, <1>5 DEF ReplacedClosed
  <2>5. QED
    BY <2>3, <2>4
<1>6. QED
  BY <1>4, <1>5

LEMMA ReplaceCloses ==
  ASSUME TypeInv, NEW p \in PassIds, NEW row, passes' = Replace(p, row)
  PROVE  ~ passes'[p].active
<1> DEFINE closed == [passes EXCEPT ![p].active = FALSE, ![p].supersededBy = Len(passes) + 1]
<1>1. /\ passes \in Seq(Pass) /\ Len(passes) \in Nat /\ PassIds = 1..Len(passes)
      /\ \A q \in PassIds : passes[q] \in Pass
  BY LenProperties, ElementOfSeq DEF TypeInv, TypeOK, TableTypeOK, PassIds
<1>2. closed = [q \in PassIds |-> closed[q]]
  BY <1>1 DEF PassIds
<1>3. closed[p] = [passes[p] EXCEPT !.active = FALSE, !.supersededBy = Len(passes) + 1]
  BY DEF PassIds
<1>4. ~ closed[p].active
  BY <1>1, <1>3 DEF Pass
<1>5. passes' = Append(closed, row)
  BY DEF Replace
<1> HIDE DEF closed
<1>6. Len(closed) = Len(passes) /\ DOMAIN closed = PassIds
  BY <1>1, <1>2
<1>7. passes'[p] = closed[p]
  BY <1>1, <1>2, <1>5, <1>6
<1>8. QED
  BY <1>4, <1>7

(* Whichever of the two handlers commits.                                  *)
LEMMA ForkRowsStep ==
  ASSUME TypeInv, TableStepOK, ForkInv, [Next]_vars
  PROVE  ForkedByOverlapOnly' /\ ReplacedClosed'
<1>1. ASSUME NEW c \in Changers, ChangeCommit(c)
      PROVE  ForkedByOverlapOnly' /\ ReplacedClosed'
  <2>1. PICK p, new, n : /\ p = change[c].pass /\ new = Len(passes) + 1
                         /\ n = change[c].found
    OBVIOUS
  <2>2. /\ p \in PassIds /\ NewIds = {new}
        /\ passes'[new].from = p /\ passes'[new].found = n
    BY <1>1, <2>1, ChangeAdds
  <2>3. OpenSince(p, n) /\ n \in Nat
    BY <1>1, <2>1
       DEF ForkInv, ChangeFound, ChangeCommit, TypeInv, TypeOK, ChangeTypeOK,
           NoChange, ChangeRequest
  <2>4. ~ passes'[p].active
    BY <1>1, <2>1, ChangedRow, ReplaceCloses
  <2>5. QED
    BY <2>2, <2>3, <2>4, ForkRows DEF ForkInv
<1>2. ASSUME NEW r \in Renewers, RenewalCommit(r)
      PROVE  ForkedByOverlapOnly' /\ ReplacedClosed'
  <2>1. PICK p, new, n : p = run[r].cur /\ new = Len(passes) + 1 /\ n = run[r].listed
    OBVIOUS
  <2>2. OpenSince(p, n) /\ run[r].built[1].found = n
    BY <1>2, <2>1 DEF ForkInv, RunListed, RenewalCommit
  <2>3. /\ p \in PassIds /\ NewIds = {new}
        /\ passes'[new].from = p /\ passes'[new].found = n
    BY <1>2, <2>1, <2>2, RenewalAdds
  <2>4. n \in Nat
    BY <2>1, RunFields DEF Run
  <2>5. ~ passes'[p].active
    <3>1. \E row : passes' = Replace(p, row)
      BY <1>2, <2>1 DEF RenewalCommit
    <3>2. QED
      BY <2>3, <3>1, ReplaceCloses
  <2>6. QED
    BY <2>2, <2>3, <2>4, <2>5, ForkRows DEF ForkInv
<1>3. CASE OnlySales
  BY <1>3, ForkRows DEF OnlySales, ForkInv
<1>4. QED
  BY <1>1, <1>2, <1>3, StepAdds

LEMMA ChangesFoundStep ==
  ASSUME TypeInv, TableStepOK, ForkInv, [Next]_vars, NEW c \in Changers
  PROVE  ChangeFound(c)'
<1>1. change \in [Changers -> {NoChange} \cup ChangeRequest]
  BY DEF TypeInv, TypeOK, ChangeTypeOK
<1>2. CASE change'[c] = change[c]
  <2>1. PICK p, n : p = change[c].pass /\ n = change[c].found
    OBVIOUS
  <2>2. CASE change[c].op = "change"
    <3>1. n \in Nat /\ n <= Len(passes) /\ OpenSince(p, n)
      BY <1>1, <2>1, <2>2 DEF ForkInv, ChangeFound, NoChange, ChangeRequest
    <3>2. OpenSince(p, n)' /\ n <= Len(passes')
      BY <3>1, OpenStays
    <3>3. QED
      BY <1>2, <2>1, <3>2 DEF ChangeFound, OpenSince
  <2>3. QED
    BY <1>2, <2>2 DEF ChangeFound
<1>3. ASSUME NEW p \in PassIds, NEW t \in Tiers, ChangeRead(c, p, t)
      PROVE  ChangeFound(c)'
  <2>1. PICK n : n = Len(passes)
    OBVIOUS
  <2>2. n \in Nat /\ n <= Len(passes)
    BY <2>1, NewIdsBehind
  <2>3. OpenSince(p, n)
    BY <1>3, ActiveOpen DEF ChangeRead, Changeable, ForkInv
  <2>4. OpenSince(p, n)' /\ n <= Len(passes')
    BY <2>2, <2>3, OpenStays
  <2>5. change'[c].pass = p /\ change'[c].found = n
    BY <1>1, <1>3, <2>1 DEF ChangeRead
  <2>6. QED
    BY <2>4, <2>5 DEF ChangeFound, OpenSince
<1>4. CASE change' = [change EXCEPT ![c] = NoChange]
  BY <1>1, <1>4 DEF ChangeFound, NoChange
<1>5. CASE ChangeNext
  <2>1. PICK d \in Changers :
          \/ \E p \in PassIds, t \in Tiers : ChangeRead(d, p, t)
          \/ ChangeCommit(d) \/ ChangeFails(d)
    BY <1>5 DEF ChangeNext
  <2>2. CASE d # c
    <3>1. change'[c] = change[c]
      BY <1>1, <2>1, <2>2 DEF ChangeRead, ChangeCommit, ChangeFails
    <3>2. QED
      BY <1>2, <3>1
  <2>3. CASE d = c
    BY <1>3, <1>4, <2>1, <2>3 DEF ChangeCommit, ChangeFails
  <2>4. QED
    BY <2>2, <2>3
<1>6. CASE UNCHANGED change
  BY <1>2, <1>6
<1>7. QED
  BY <1>5, <1>6 DEF Next, vars, changeVars

(* A run takes up what it has found due, and drops it when it is done.     *)
Holds(r) ==
  /\ run' = [run EXCEPT ![r] = run'[r]]
  /\ \/ /\ run'[r].todo \subseteq run[r].todo
        /\ run'[r].listed = run[r].listed
     \/ run'[r].todo \subseteq DueForRenewal /\ run'[r].listed = Len(passes)
     \/ run'[r].todo = {} /\ run'[r].listed = 0
  /\ run'[r].pc \notin {"idle", "loop"} => run'[r].cur \in run'[r].todo

LEMMA RunHolds ==
  ASSUME TypeInv, NEW r \in Renewers, RunListed(r),
         \/ RenewalStep(r) \/ RenewalTxExpires(r)
         \/ \E b \in BOOLEAN : RunLost(r, b)
  PROVE  Holds(r)
<1>1. ASSUME NEW v, run' = [run EXCEPT ![r] = v],
             \/ v.todo \subseteq run[r].todo /\ v.listed = run[r].listed
             \/ v.todo \subseteq DueForRenewal /\ v.listed = Len(passes)
             \/ v.todo = {} /\ v.listed = 0,
             v.pc \notin {"idle", "loop"} => v.cur \in v.todo
      PROVE  Holds(r)
  BY <1>1, RunBecomes DEF Holds
<1>2. CASE RenewalScan(r)
  <2> DEFINE v == [NoRun EXCEPT !.pc = "loop", !.todo = DueForRenewal,
                                !.listed = Len(passes)]
  <2>1. v.pc = "loop" /\ v.todo = DueForRenewal /\ v.listed = Len(passes)
    BY DEF NoRun
  <2>2. run' = [run EXCEPT ![r] = v]
    BY <1>2 DEF RenewalScan
  <2> HIDE DEF v
  <2>3. QED
    BY <1>1, <2>1, <2>2
<1>3. ASSUME NEW p \in PassIds, RenewalBegin(r, p)
      PROVE  Holds(r)
  <2> DEFINE v == [run[r] EXCEPT !.pc = "begun", !.cur = p, !.open = TRUE]
  <2>1. /\ v.pc = "begun" /\ v.cur = p /\ v.todo = run[r].todo
        /\ v.listed = run[r].listed /\ p \in run[r].todo
    BY <1>3, RunFields DEF Run, RenewalBegin
  <2>2. run' = [run EXCEPT ![r] = v]
    BY <1>3 DEF RenewalBegin, TypeInv, TypeOK, RenewalTypeOK
  <2> HIDE DEF v
  <2>3. QED
    BY <1>1, <2>1, <2>2
<1>4. ASSUME NEW p \in PassIds, RenewalWaitExpires(r, p)
      PROVE  Holds(r)
  <2> DEFINE v == [run[r] EXCEPT !.pc = "failed", !.cur = p]
  <2>1. /\ v.pc = "failed" /\ v.cur = p /\ v.todo = run[r].todo
        /\ v.listed = run[r].listed /\ p \in run[r].todo
    BY <1>4, RunFields DEF Run, RenewalWaitExpires
  <2>2. run' = [run EXCEPT ![r] = v]
    BY <1>4 DEF RenewalWaitExpires, TypeInv, TypeOK, RenewalTypeOK
  <2> HIDE DEF v
  <2>3. QED
    BY <1>1, <2>1, <2>2
<1>5. ASSUME run[r].pc \notin {"idle", "loop"},
             NEW pc, Goto(r, pc)
      PROVE  Holds(r)
  BY <1>5, GotoBecomes DEF Holds, RunListed
<1>6. ASSUME run[r].pc \notin {"idle", "loop"}, RollBack(r)
      PROVE  Holds(r)
  BY <1>6, RollBackBecomes DEF Holds, RunListed
<1>7. ASSUME NEW t \in Tiers, RenewalMint(r, t)
      PROVE  Holds(r)
  <2> DEFINE sold == SoldPass(t, passes[run[r].cur].fan, now, "renewal", run[r].cur)
             built == <<[sold EXCEPT !.found = run[r].listed]>>
             v == [run[r] EXCEPT !.pc = "minted", !.built = built]
  <2>1. run' = [run EXCEPT ![r] = v] /\ run[r].pc = "charged"
    BY <1>7 DEF RenewalMint, TypeInv, TypeOK, RenewalTypeOK
  <2> HIDE DEF built
  <2>2. /\ v.pc = "minted" /\ v.cur = run[r].cur /\ v.todo = run[r].todo
        /\ v.listed = run[r].listed
    BY RunFieldsMove
  <2> HIDE DEF v
  <2>3. QED
    BY <1>1, <2>1, <2>2 DEF RunListed
<1>8. CASE RenewalTxExpires(r)
  <2> DEFINE v == [run[r] EXCEPT !.open = FALSE, !.built = <<>>]
  <2>1. run' = [run EXCEPT ![r] = v]
    BY <1>8 DEF RenewalTxExpires, TypeInv, TypeOK, RenewalTypeOK
  <2>2. /\ v.pc = run[r].pc /\ v.cur = run[r].cur /\ v.todo = run[r].todo
        /\ v.listed = run[r].listed
    BY RunFieldsMove
  <2> HIDE DEF v
  <2>3. QED
    BY <1>1, <2>1, <2>2 DEF RunListed
<1>9. ASSUME NextPass(r)
      PROVE  Holds(r)
  BY <1>9, NextPassBecomes DEF Holds
<1>10. ASSUME run' = [run EXCEPT ![r] = NoRun]
       PROVE  Holds(r)
  BY <1>1, <1>10 DEF NoRun
<1>11. CASE \E b \in BOOLEAN : RunLost(r, b)
  BY <1>10, <1>11 DEF RunLost
<1>12. CASE RenewalDone(r)
  BY <1>10, <1>12 DEF RenewalDone
<1>13. CASE RenewalCommit(r) \/ RenewalDisable(r)
  BY <1>9, <1>13 DEF RenewalCommit, RenewalDisable
<1>14. CASE ChargeSucceeds(r) \/ RenewalRecordFailure(r)
  BY <1>5, <1>14 DEF ChargeSucceeds, RenewalRecordFailure
<1>15. CASE ChargeFails(r) \/ ChargeUnseen(r) \/ RenewalMintRefused(r)
            \/ RenewalFindsTxClosed(r)
  BY <1>6, <1>15 DEF ChargeFails, ChargeUnseen, RenewalMintRefused, RenewalFindsTxClosed
<1>16. QED
  BY <1>2, <1>3, <1>4, <1>7, <1>8, <1>11, <1>12, <1>13, <1>14, <1>15 DEF RenewalStep

(* The row that a run mints, and what it notes in it.                      *)
Minted(row, r, t) ==
  /\ row.found = run[r].listed /\ row.seen = Len(passes)
  /\ row.tier = t /\ row.fan = passes[run[r].cur].fan
  /\ row.trialUsed => PriorPasses(row.fan, t) = {}
  /\ row.purchasedAt = now

LEMMA RunBuilds ==
  ASSUME TypeInv, NEW r \in Renewers, NEW t \in Tiers, RenewalMint(r, t)
  PROVE  \E row \in Pass : /\ Minted(row, r, t) /\ run'[r].built[1] = row
                           /\ run'[r].listed = run[r].listed
<1>1. PICK p, f, sold : /\ p = run[r].cur /\ f = passes[p].fan
                        /\ sold = SoldPass(t, f, now, "renewal", p)
  OBVIOUS
<1>2. /\ p \in PassIds /\ p \in Nat /\ passes \in Seq(Pass) /\ passes[p] \in Pass
      /\ now \in Nat /\ run[r].listed \in Nat
  BY <1>1, RunFields, ElementOfSeq, LenProperties
     DEF RenewalMint, RunSound, Run, TypeInv, TypeOK, TableTypeOK, PassIds
<1>3. /\ sold \in Pass /\ Fresh(sold, f, "renewal", p) /\ sold.seen = Len(passes)
      /\ sold.tier = t /\ sold.trialUsed = FirstSaleIsTrial(f, t)
      /\ sold.purchasedAt = now
  <2>1. f \in Fans /\ "renewal" \in Origins
    BY <1>1, <1>2 DEF Pass, Origins
  <2>2. QED
    BY <1>1, <1>2, <2>1, SoldRow
<1>4. PICK row : row = [sold EXCEPT !.found = run[r].listed]
  OBVIOUS
<1>5. /\ row \in Pass /\ row.found = run[r].listed /\ row.seen = Len(passes)
      /\ row.tier = t /\ row.fan = f /\ row.trialUsed = FirstSaleIsTrial(f, t)
      /\ row.purchasedAt = now
  <2>1. sold.fan = f
    BY <1>3 DEF Fresh
  <2>2. QED
    BY <1>2, <1>3, <1>4, <2>1, FoundNoted
<1>6. run'[r] = [run[r] EXCEPT !.pc = "minted", !.built = <<row>>]
  BY <1>1, <1>4 DEF RenewalMint, TypeInv, TypeOK, RenewalTypeOK
<1>7. run'[r].built = <<row>> /\ run'[r].listed = run[r].listed
  BY <1>6, RunFields DEF Run
<1>8. row.trialUsed => PriorPasses(row.fan, t) = {}
  BY <1>5 DEF FirstSaleIsTrial
<1>9. Minted(row, r, t)
  BY <1>1, <1>5, <1>8 DEF Minted
<1>10. run'[r].built[1] = row
  BY <1>7
<1>11. QED
  BY <1>5, <1>7, <1>9, <1>10

LEMMA RunsListedStep ==
  ASSUME TypeInv, TableStepOK, ForkInv, [Next]_vars, NEW r \in Renewers
  PROVE  RunListed(r)'
<1>1. CASE run'[r] = run[r]
  <2>1. PICK v : v = run[r] /\ v = run'[r]
    BY <1>1
  <2>2. v.listed \in Nat /\ v.listed <= Len(passes)
    BY <2>1, RunFields DEF Run, ForkInv, RunListed
  <2>3. v.listed <= Len(passes') /\ \A p \in v.todo : OpenSince(p, v.listed)'
    <3>1. PICK n : n = v.listed
      OBVIOUS
    <3>2. n <= Len(passes')
      BY <2>2, <3>1, NewIdsBehind
    <3>3. \A p \in v.todo : OpenSince(p, n)'
      BY <2>1, <2>2, <3>1, OpenStays DEF ForkInv, RunListed
    <3>4. QED
      BY <3>1, <3>2, <3>3
  <2>4. QED
    BY <2>1, <2>3 DEF ForkInv, RunListed, OpenSince
<1>2. ASSUME NEW s \in Renewers,
             \/ RenewalStep(s) \/ RenewalTxExpires(s)
             \/ \E b \in BOOLEAN : RunLost(s, b)
      PROVE  RunListed(r)'
  <2>1. Holds(s) /\ MintsOnly(s)
    BY <1>2, RunHolds, MintedByMint DEF ForkInv
  <2>2. CASE s # r
    <3>1. run'[r] = run[r]
      BY <2>1, <2>2 DEF Holds, TypeInv, TypeOK, RenewalTypeOK
    <3>2. QED
      BY <1>1, <3>1
  <2>3. CASE s = r
    <3>1. PICK n, v : n = run'[r].listed /\ v = run'[r]
      OBVIOUS
    <3>2. n \in Nat /\ n <= Len(passes) /\ \A p \in v.todo : OpenSince(p, n)
      <4>1. /\ run[r].listed \in Nat /\ run[r].listed <= Len(passes)
            /\ \A p \in run[r].todo : OpenSince(p, run[r].listed)
        BY RunFields DEF Run, ForkInv, RunListed
      <4>2. Len(passes) \in Nat
        BY NewIdsBehind
      <4>3. \A p \in DueForRenewal : OpenSince(p, Len(passes))
        BY ActiveOpen DEF DueForRenewal, ForkInv
      <4>4. QED
        BY <2>1, <2>3, <3>1, <4>1, <4>2, <4>3 DEF Holds
    <3>3. n <= Len(passes') /\ \A p \in v.todo : OpenSince(p, n)'
      BY <3>2, OpenStays, NewIdsBehind
    <3>4. v.pc = "minted" /\ v.open => v.built[1].found = n
      <4>1. SUFFICES ASSUME v.pc = "minted", v.open
                     PROVE  v.built[1].found = n
        OBVIOUS
      <4>2. PICK t \in Tiers : RenewalMint(r, t)
        BY <2>1, <2>3, <3>1, <4>1 DEF MintsOnly
      <4>3. QED
        BY <3>1, <4>2, RunBuilds DEF Minted
    <3>5. v.pc \notin {"idle", "loop"} => v.cur \in v.todo
      BY <2>1, <2>3, <3>1 DEF Holds
    <3>6. QED
      BY <3>1, <3>3, <3>4, <3>5 DEF RunListed, OpenSince
  <2>4. QED
    BY <2>2, <2>3
<1>3. CASE UNCHANGED run
  BY <1>1, <1>3
<1>4. CASE RenewalNext
  BY <1>2, <1>3, <1>4 DEF RenewalNext, UnseenSettles
<1>5. QED
  BY <1>3, <1>4 DEF Next, vars, renewalVars

(* One pass turns into two only when requests overlap, for any number of   *)
(* tier changes and renewal runs: whatever replaces a pass again had found *)
(* it open before the row that replaced it first was committed, be it at   *)
(* the check of a tier change or when a run read its list.                 *)
THEOREM ForksNeedOverlap == Spec => []ForkedByOverlapOnly
<1>1. Init => ForkInv
  <2> SUFFICES ASSUME Init PROVE ForkInv
    OBVIOUS
  <2>1. PassIds = {} /\ Len(passes) = 0
    BY DEF Init, TableInit, PassIds
  <2>2. \A c \in Changers : ChangeFound(c)
    BY DEF Init, ChangeInit, ChangeFound, NoChange
  <2>3. \A r \in Renewers : RunListed(r)
    BY <2>1 DEF Init, RenewalInit, RunListed, NoRun
  <2>4. QED
    BY <2>1, <2>2, <2>3 DEF ForkInv, ForkedByOverlapOnly, ReplacedClosed
<1>2. TypeInv /\ [Next]_vars => TypeInv' /\ TableStepOK
  BY TypeInvStep
<1>3. TypeInv /\ ForkInv /\ [Next]_vars => ForkInv'
  BY <1>2, ForkRowsStep, ChangesFoundStep, RunsListedStep DEF ForkInv
<1>4. ForkInv => ForkedByOverlapOnly
  BY DEF ForkInv
<1>5. QED
  BY InitTypeInv, <1>1, <1>2, <1>3, <1>4, PTL DEF Spec

-----------------------------------------------------------------------------
(* The trial that closes its tier.                                         *)

(* Among the passes that a sale has read there is none of the fan on the   *)
(* tier that forbids it: no trial, and none at all if it is a trial.       *)
Looked(row) ==
  /\ row.seen <= Len(passes)
  /\ \A p \in PassIds :
       /\ p <= row.seen
       /\ passes[p].fan = row.fan /\ passes[p].tier = row.tier
       => ~ passes[p].trialUsed /\ ~ row.trialUsed

RowLooked(q) ==
  passes[q].via \in {"bundle", "renewal"} => passes[q].seen < q /\ Looked(passes[q])

RowsLooked == \A q \in PassIds : RowLooked(q)

BundleLooked(w) ==
  purchase[w].op = "bundle" =>
    \A i \in DOMAIN purchase[w].rows : Looked(purchase[w].rows[i])

RunLooked(r) ==
  run[r].pc = "minted" /\ run[r].open => Looked(run[r].built[1])

TrialInv ==
  /\ RowsLooked
  /\ \A w \in Purchasers : BundleLooked(w)
  /\ \A r \in Renewers : RunLooked(r)

LEMMA RowsLookedSound ==
  ASSUME TypeInv, RowsLooked
  PROVE  TrialClosesTier
<1> SUFFICES ASSUME NEW p \in PassIds, NEW q \in PassIds, p < q,
                    passes[q].via \in {"bundle", "renewal"},
                    passes[p].fan = passes[q].fan, passes[p].tier = passes[q].tier,
                    passes[p].trialUsed \/ passes[q].trialUsed
             PROVE  passes[q].seen < p
  BY DEF TrialClosesTier
<1>1. passes \in Seq(Pass)
  BY DEF TypeInv, TypeOK, TableTypeOK
<1>2. p \in Nat /\ passes[q].seen \in Nat
  <2>1. p \in Nat /\ passes[q] \in Pass
    BY <1>1, ElementOfSeq, LenProperties DEF PassIds
  <2>2. QED
    BY <2>1 DEF Pass
<1>3. ~ (p <= passes[q].seen)
  BY DEF RowsLooked, RowLooked, Looked
<1>4. QED
  BY <1>2, <1>3

(* What was read is read: rows that are added later come behind it, and    *)
(* those that were there keep their fan, tier and trial.                   *)
LEMMA LookedStays ==
  ASSUME TypeInv, TableStepOK, NEW x, NEW y, Looked(x), x.seen \in Nat,
         y.seen = x.seen, y.fan = x.fan, y.tier = x.tier, y.trialUsed = x.trialUsed
  PROVE  Looked(y)'
<1>1. /\ Len(passes) \in Nat /\ Len(passes') \in Nat /\ Len(passes) <= Len(passes')
      /\ \A q \in NewIds : q \in Nat \ {0} /\ q > Len(passes)
  BY NewIdsBehind
<1>2. x.seen <= Len(passes)
  BY DEF Looked
<1>3. y.seen <= Len(passes')
  BY <1>1, <1>2
<1>4. ASSUME NEW p \in PassIds', p <= y.seen, passes'[p].fan = y.fan,
             passes'[p].tier = y.tier
      PROVE  ~ passes'[p].trialUsed /\ ~ y.trialUsed
  <2>1. p \in PassIds
    BY <1>1, <1>2, <1>4, FromKept
  <2>2. QED
    BY <1>4, <2>1, FromKept DEF Looked
<1>5. QED
  BY <1>3, <1>4 DEF Looked, PassIds

(* The rows that a step adds keep the rule if they have looked.            *)
LEMMA RowsLookedStay ==
  ASSUME TypeInv, TableStepOK, RowsLooked,
         \A q \in NewIds :
           \/ passes'[q].via \in {"gift", "change"}
           \/ Looked(passes'[q])
  PROVE  RowsLooked'
<1>1. passes \in Seq(Pass) /\ passes' \in Seq(Pass)
  BY DEF TypeInv, TypeOK, TableTypeOK, TableStepOK
<1>2. /\ \A q \in PassIds : passes[q].seen \in Nat
      /\ \A q \in PassIds' : passes'[q].seen \in Nat
  <2>1. /\ \A q \in PassIds : passes[q] \in Pass
        /\ \A q \in PassIds' : passes'[q] \in Pass
    BY <1>1, ElementOfSeq DEF PassIds
  <2>2. QED
    BY <2>1 DEF Pass
<1>3. ASSUME NEW q \in PassIds', passes'[q].via \in {"bundle", "renewal"}
      PROVE  RowLooked(q)'
  <2>1. PICK y : y = passes'[q]
    OBVIOUS
  <2>2. CASE q \in PassIds
    <3>1. PICK x : x = passes[q]
      OBVIOUS
    <3>2. /\ y.seen = x.seen /\ y.fan = x.fan /\ y.tier = x.tier
          /\ y.trialUsed = x.trialUsed /\ y.via = x.via
      BY <2>1, <2>2, <3>1, FromKept
    <3>3. Looked(x) /\ x.seen < q /\ x.seen \in Nat
      BY <1>2, <1>3, <2>1, <2>2, <3>1, <3>2 DEF RowsLooked, RowLooked
    <3>4. Looked(y)'
      BY <3>2, <3>3, LookedStays
    <3>5. QED
      BY <2>1, <3>2, <3>3, <3>4 DEF RowLooked, Looked
  <2>3. CASE q \notin PassIds
    <3>1. q \in NewIds
      BY <1>3, <2>3 DEF NewIds, PassIds
    <3>2. Looked(y) /\ y.seen \in Nat
      BY <1>2, <1>3, <2>1, <3>1
    <3>3. Looked(y)'
      BY <3>2, LookedStays
    <3>4. y.seen < q
      BY <3>1, <3>2, NewIdsBehind DEF Looked
    <3>5. QED
      BY <2>1, <3>3, <3>4 DEF RowLooked, Looked
  <2>4. QED
    BY <2>2, <2>3
<1>4. QED
  BY <1>3 DEF RowsLooked, RowLooked, PassIds

(* The rows of the four handlers that commit.                              *)
LEMMA AddedLooked ==
  ASSUME TypeInv, TableStepOK, TrialInv, [Next]_vars
  PROVE  \A q \in NewIds : \/ passes'[q].via \in {"gift", "change"}
                           \/ Looked(passes'[q])
<1>1. ASSUME NEW w \in Purchasers, GiftCommit(w), NEW q \in NewIds
      PROVE  passes'[q].via = "gift"
  <2>1. PICK row : row = GiftedPass(purchase[w])
    OBVIOUS
  <2>2. purchase[w] \in GiftRequest
    BY <1>1 DEF GiftCommit, TypeInv, TypeOK, PurchaseTypeOK, NoPurchase, BundleRequest
  <2>3. row \in Pass /\ row.via = "gift"
    <3>1. row \in Pass
      BY <2>1, <2>2, NewPassType, TableAssumption DEF GiftRequest, GiftedPass, Origins
    <3>2. QED
      BY <2>1, <3>1 DEF GiftedPass, NewPass
  <2>4. passes' = Append(passes, row) /\ passes \in Seq(Pass)
    BY <1>1, <2>1 DEF GiftCommit, TypeInv, TypeOK, TableTypeOK
  <2>5. /\ <<row>> \in Seq(Pass) /\ passes' = passes \o <<row>> /\ DOMAIN <<row>> = {1}
        /\ <<row>>[1] = row
    BY <2>3, <2>4
  <2>6. PICK rows \in Seq(Pass) : /\ DOMAIN rows = {1} /\ rows[1] = row
                                  /\ passes' = passes \o rows
    BY <2>5
  <2>7. PICK i \in DOMAIN rows : q = Len(passes) + i /\ passes'[q] = rows[i]
    BY <1>1, <2>4, <2>6, AddedIds
  <2>8. QED
    BY <2>3, <2>6, <2>7
<1>2. ASSUME NEW w \in Purchasers, BundleCommit(w), NEW q \in NewIds
      PROVE  Looked(passes'[q])
  <2>1. PICK b \in BundleRequest : b = purchase[w] /\ b.op = "bundle"
    BY <1>2 DEF BundleCommit, TypeInv, TypeOK, PurchaseTypeOK, NoPurchase, GiftRequest
  <2>2. b.rows \in Seq(Pass) /\ passes' = passes \o b.rows /\ passes \in Seq(Pass)
    BY <1>2, <2>1 DEF BundleCommit, BundleRequest, TypeInv, TypeOK, TableTypeOK
  <2>3. PICK i \in DOMAIN b.rows : q = Len(passes) + i /\ passes'[q] = b.rows[i]
    <3>1. /\ NewIds = {Len(passes) + i : i \in DOMAIN b.rows}
          /\ \A i \in DOMAIN b.rows : passes'[Len(passes) + i] = b.rows[i]
      BY <2>2, AddedIds
    <3>2. QED
      BY <1>2, <3>1
  <2>4. Looked(b.rows[i])
    BY <2>1 DEF TrialInv, BundleLooked
  <2>5. QED
    BY <2>3, <2>4
<1>3. ASSUME NEW c \in Changers, ChangeCommit(c), NEW q \in NewIds
      PROVE  passes'[q].via = "change"
  BY <1>3, ChangeAdds
<1>4. ASSUME NEW r \in Renewers, RenewalCommit(r), NEW q \in NewIds
      PROVE  Looked(passes'[q])
  <2>1. PICK p, row : p = run[r].cur /\ row = run[r].built[1]
    OBVIOUS
  <2>2. /\ p \in PassIds /\ RoomToReplace /\ row \in Pass
        /\ Fresh(row, passes[p].fan, "renewal", p) /\ passes' = Replace(p, row)
    BY <1>4, <2>1, RunFields, ElementOfSeq DEF RenewalCommit, RunSound
  <2>3. passes'[q] = row
    BY <1>4, <2>2, ReplacedRow
  <2>4. Looked(row)
    BY <1>4, <2>1 DEF TrialInv, RunLooked, RenewalCommit
  <2>5. QED
    BY <2>3, <2>4
<1>5. CASE NewIds = {}
  BY <1>5
<1>6. QED
  BY <1>1, <1>2, <1>3, <1>4, <1>5, OthersAddNothing

(* A turn of the loop of a bundle: request b becomes c by the row of t.    *)
Turn(b, c, t, row) ==
  /\ t \in b.todo /\ c.todo = b.todo \ {t}
  /\ c.fan = b.fan /\ c.asked = b.asked /\ c.at = b.at
  /\ Len(b.rows) \in Nat /\ Len(c.rows) = Len(b.rows) + 1
  /\ DOMAIN b.rows = 1..Len(b.rows) /\ DOMAIN c.rows = 1..Len(b.rows) + 1
  /\ \A i \in 1..Len(b.rows) : c.rows[i] = b.rows[i]
  /\ c.rows[Len(b.rows) + 1] = row
  /\ row.tier = t /\ row.fan = b.fan /\ row.purchasedAt = b.at
  /\ row.seen = Len(passes) /\ ~ TrialSpent(b.fan, t)
  /\ row.trialUsed => PriorPasses(b.fan, t) = {}

LEMMA BundleBuilds ==
  ASSUME TypeInv, NEW w \in Purchasers, NEW t \in Tiers, BundleMint(w, t)
  PROVE  \E b \in BundleRequest, c \in BundleRequest, row \in Pass :
           b = purchase[w] /\ c = purchase'[w] /\ Turn(b, c, t, row)
<1>1. PICK b \in BundleRequest : b = purchase[w] /\ b.op = "bundle"
  BY DEF BundleMint, TypeInv, TypeOK, PurchaseTypeOK, NoPurchase, GiftRequest
<1>2. PICK row : row = SoldPass(t, b.fan, b.at, "bundle", 0)
  OBVIOUS
<1>3. /\ row \in Pass /\ row.tier = t /\ row.fan = b.fan /\ row.seen = Len(passes)
      /\ row.purchasedAt = b.at /\ row.trialUsed = FirstSaleIsTrial(b.fan, t)
  <2>1. b.fan \in Fans /\ b.at \in Nat /\ "bundle" \in Origins /\ 0 \in Nat
    BY <1>1 DEF BundleRequest, Origins
  <2>2. passes \in Seq(Pass)
    BY DEF TypeInv, TypeOK, TableTypeOK
  <2>3. QED
    BY <1>2, <2>1, <2>2, SoldRow DEF Fresh
<1>4. ~ TrialSpent(b.fan, t) /\ t \in b.todo
  BY <1>1 DEF BundleMint
<1>5. PICK c : c = [b EXCEPT !.todo = @ \ {t}, !.rows = Append(@, row)]
  OBVIOUS
<1>6. /\ c.op = "bundle" /\ c.fan = b.fan /\ c.todo = b.todo \ {t} /\ c.at = b.at
      /\ c.rows = Append(b.rows, row) /\ c.asked = b.asked
  BY <1>1, <1>5 DEF BundleRequest
<1>7. /\ b.rows \in Seq(Pass) /\ Len(b.rows) \in Nat
      /\ DOMAIN b.rows = 1..Len(b.rows) /\ DOMAIN c.rows = 1..Len(b.rows) + 1
      /\ \A i \in 1..Len(b.rows) : c.rows[i] = b.rows[i]
      /\ c.rows[Len(b.rows) + 1] = row
      /\ c.rows \in Seq(Pass) /\ Len(c.rows) = Len(b.rows) + 1
  BY <1>1, <1>3, <1>6, AppendProperties, LenProperties DEF BundleRequest
<1>8. c \in BundleRequest
  BY <1>1, <1>5, <1>6, <1>7 DEF BundleRequest
<1>9. purchase'[w] = c
  <2>1. purchase' = [purchase EXCEPT ![w].todo = @ \ {t}, ![w].rows = Append(@, row)]
    BY <1>1, <1>2 DEF BundleMint
  <2>2. QED
    BY <1>1, <1>5, <2>1 DEF TypeInv, TypeOK, PurchaseTypeOK
<1>10. row.trialUsed => PriorPasses(b.fan, t) = {}
  BY <1>3 DEF FirstSaleIsTrial
<1>11. Turn(b, c, t, row)
  BY <1>3, <1>4, <1>6, <1>7, <1>10 DEF Turn
<1>12. QED
  BY <1>1, <1>3, <1>8, <1>9, <1>11

(* A row that is sold has looked at the whole table.                       *)
LEMMA SoldLooked ==
  ASSUME TypeInv, NEW row \in Pass, row.seen = Len(passes),
         ~ TrialSpent(row.fan, row.tier),
         row.trialUsed => PriorPasses(row.fan, row.tier) = {}
  PROVE  Looked(row)
<1>1. Len(passes) \in Nat
  BY LenProperties DEF TypeInv, TypeOK, TableTypeOK
<1>2. row.seen <= Len(passes)
  BY <1>1
<1>3. ASSUME NEW p \in PassIds, passes[p].fan = row.fan, passes[p].tier = row.tier
      PROVE  ~ passes[p].trialUsed /\ ~ row.trialUsed
  BY <1>3 DEF TrialSpent, PriorPasses
<1>4. QED
  BY <1>2, <1>3 DEF Looked

LEMMA BundlesLookedStep ==
  ASSUME TypeInv, TableStepOK, TrialInv, [Next]_vars, NEW w \in Purchasers
  PROVE  BundleLooked(w)'
<1>1. purchase \in [Purchasers -> {NoPurchase} \cup GiftRequest \cup BundleRequest]
  BY DEF TypeInv, TypeOK, PurchaseTypeOK
<1>2. ASSUME NEW row \in Pass, Looked(row)
      PROVE  Looked(row)'
  BY <1>2, LookedStays DEF Pass
<1>3. CASE purchase'[w] = purchase[w]
  <2>1. SUFFICES ASSUME NEW b \in BundleRequest, b = purchase[w], b = purchase'[w],
                        NEW i \in DOMAIN b.rows
                 PROVE  Looked(b.rows[i])'
    BY <1>1, <1>3 DEF BundleLooked, NoPurchase, GiftRequest
  <2>2. PICK row \in Pass : row = b.rows[i]
    <3>1. b.rows \in Seq(Pass)
      BY DEF BundleRequest
    <3>2. QED
      BY <3>1, ElementOfSeq, LenProperties
  <2>3. Looked(row)
    BY <2>1, <2>2 DEF TrialInv, BundleLooked, BundleRequest
  <2>4. Looked(row)'
    BY <1>2, <2>3
  <2>5. QED
    BY <2>2, <2>4
<1>4. ASSUME NEW t \in Tiers, BundleMint(w, t)
      PROVE  BundleLooked(w)'
  <2>1. PICK b \in BundleRequest, c \in BundleRequest, row \in Pass :
          b = purchase[w] /\ c = purchase'[w] /\ Turn(b, c, t, row)
    BY <1>4, BundleBuilds
  <2>2. ASSUME NEW i \in DOMAIN c.rows
        PROVE  Looked(c.rows[i])'
    <3>1. PICK x : x = c.rows[i]
      OBVIOUS
    <3>2. x \in Pass
      <4>1. c.rows \in Seq(Pass)
        BY DEF BundleRequest
      <4>2. QED
        BY <2>2, <3>1, <4>1, ElementOfSeq
    <3>3. ASSUME i \in 1..Len(b.rows)
          PROVE  Looked(x)
      <4>1. i \in DOMAIN b.rows /\ x = b.rows[i]
        BY <2>1, <3>1, <3>3 DEF Turn
      <4>2. b.op = "bundle"
        BY DEF BundleRequest
      <4>3. QED
        BY <2>1, <4>1, <4>2 DEF TrialInv, BundleLooked
    <3>4. ASSUME i = Len(b.rows) + 1
          PROVE  Looked(x)
      <4>1. x = row
        BY <2>1, <3>1, <3>4 DEF Turn
      <4>2. /\ row.seen = Len(passes) /\ ~ TrialSpent(row.fan, row.tier)
            /\ row.trialUsed => PriorPasses(row.fan, row.tier) = {}
        BY <2>1 DEF Turn
      <4>3. QED
        BY <4>1, <4>2, SoldLooked
    <3>5. Looked(x)
      <4>1. i \in 1..Len(b.rows) \/ i = Len(b.rows) + 1
        BY <2>1, <2>2 DEF Turn
      <4>2. QED
        BY <3>3, <3>4, <4>1
    <3>6. Looked(x)'
      BY <1>2, <3>2, <3>5
    <3>7. QED
      BY <3>1, <3>6
  <2>3. QED
    BY <2>1, <2>2 DEF BundleLooked
<1>5. CASE purchase'[w].op # "bundle" \/ purchase'[w].rows = <<>>
  BY <1>5 DEF BundleLooked
<1>6. CASE PurchaseNext
  BY <1>3, <1>4, <1>5, <1>6, PurchaseMoves
<1>7. CASE UNCHANGED purchase
  BY <1>3, <1>7
<1>8. QED
  BY <1>6, <1>7 DEF Next, vars, purchaseVars

LEMMA RunsLookedStep ==
  ASSUME TypeInv, TableStepOK, TrialInv, [Next]_vars, NEW r \in Renewers
  PROVE  RunLooked(r)'
<1>1. ASSUME NEW row \in Pass, Looked(row)
      PROVE  Looked(row)'
  BY <1>1, LookedStays DEF Pass
<1>2. CASE run'[r] = run[r]
  <2>1. CASE run[r].pc = "minted" /\ run[r].open
    <3>1. PICK row : row = run[r].built[1]
      OBVIOUS
    <3>2. row \in Pass /\ Looked(row)
      BY <2>1, <3>1, RunFields, ElementOfSeq DEF RunSound, TrialInv, RunLooked
    <3>3. Looked(row)'
      BY <1>1, <3>2
    <3>4. QED
      BY <1>2, <3>1, <3>3 DEF RunLooked, Looked
  <2>2. QED
    BY <1>2, <2>1 DEF RunLooked
<1>3. ASSUME NEW s \in Renewers,
             \/ RenewalStep(s) \/ RenewalTxExpires(s)
             \/ \E b \in BOOLEAN : RunLost(s, b)
      PROVE  RunLooked(r)'
  <2>1. MintsOnly(s)
    BY <1>3, MintedByMint
  <2>2. CASE s # r
    <3>1. run'[r] = run[r]
      BY <2>1, <2>2 DEF MintsOnly, TypeInv, TypeOK, RenewalTypeOK
    <3>2. QED
      BY <1>2, <3>1
  <2>3. CASE s = r
    <3>1. SUFFICES ASSUME run'[r].pc = "minted", run'[r].open
                   PROVE  \E row : row = run'[r].built[1] /\ Looked(row)'
      BY DEF RunLooked, Looked
    <3>2. PICK t \in Tiers : RenewalMint(r, t)
      BY <2>1, <2>3, <3>1 DEF MintsOnly
    <3>3. PICK row \in Pass : Minted(row, r, t) /\ run'[r].built[1] = row
      BY <3>2, RunBuilds
    <3>4. /\ ~ TrialSpent(row.fan, row.tier) /\ row.seen = Len(passes)
          /\ row.trialUsed => PriorPasses(row.fan, row.tier) = {}
      BY <3>2, <3>3 DEF RenewalMint, Sellable, Minted
    <3>5. Looked(row)'
      BY <1>1, <3>4, SoldLooked
    <3>6. QED
      BY <3>3, <3>5
  <2>4. QED
    BY <2>2, <2>3
<1>4. CASE UNCHANGED run
  BY <1>2, <1>4
<1>5. CASE RenewalNext
  BY <1>3, <1>4, <1>5 DEF RenewalNext, UnseenSettles
<1>6. QED
  BY <1>4, <1>5 DEF Next, vars, renewalVars

(* A trial closes its tier, and is the first pass on it, but for sales     *)
(* that overlap: whatever bundles and renewal runs do at the same time, a  *)
(* pass sold beside a trial has read the fan's passes on the tier before   *)
(* the other one was committed.                                            *)
THEOREM TrialRuleSound == Spec => []TrialClosesTier
<1>1. Init => TrialInv
  BY DEF Init, TableInit, PurchaseInit, RenewalInit, TrialInv, RowsLooked, BundleLooked,
         RunLooked, NoPurchase, NoRun, PassIds
<1>2. TypeInv /\ [Next]_vars => TypeInv' /\ TableStepOK
  BY TypeInvStep
<1>3. TypeInv /\ TrialInv /\ [Next]_vars => TrialInv'
  <2>1. TypeInv /\ TrialInv /\ [Next]_vars => RowsLooked'
    BY <1>2, AddedLooked, RowsLookedStay DEF TrialInv
  <2>2. QED
    BY <1>2, <2>1, BundlesLookedStep, RunsLookedStep DEF TrialInv
<1>4. TypeInv /\ TrialInv => TrialClosesTier
  BY RowsLookedSound DEF TrialInv
<1>5. QED
  BY InitTypeInv, <1>1, <1>2, <1>3, <1>4, PTL DEF Spec

-----------------------------------------------------------------------------
(* What a bundle sells.                                                    *)

(* The tiers of the request are those still to do and those of the rows,   *)
(* each once; they have ids that were asked for, and are as many.          *)
BundleExact(b) ==
  b.op = "bundle" =>
    /\ IsFiniteSet(b.todo) /\ Cardinality(b.todo) + Len(b.rows) = Cardinality(b.asked)
    /\ \A t \in b.todo : OnChainId[t] \in b.asked
    /\ \A i \in DOMAIN b.rows : /\ OnChainId[b.rows[i].tier] \in b.asked
                                /\ b.rows[i].tier \notin b.todo
    /\ \A i, j \in DOMAIN b.rows : b.rows[i].tier = b.rows[j].tier => i = j

BundlesExact == \A w \in Purchasers : BundleExact(purchase[w])

LEMMA MintExact ==
  ASSUME TypeInv, NEW w \in Purchasers, NEW t \in Tiers, BundleMint(w, t),
         BundleExact(purchase[w])
  PROVE  BundleExact(purchase'[w])
<1>1. PICK b \in BundleRequest, c \in BundleRequest, row \in Pass :
        b = purchase[w] /\ c = purchase'[w] /\ Turn(b, c, t, row)
  BY BundleBuilds
<1>2. b.op = "bundle"
  BY DEF BundleRequest
<1>3. IsFiniteSet(c.todo) /\ Cardinality(c.todo) + Len(c.rows) = Cardinality(c.asked)
  <2>1. IsFiniteSet(b.todo) /\ Cardinality(b.todo) + Len(b.rows) = Cardinality(b.asked)
    BY <1>1, <1>2 DEF BundleExact
  <2>2. /\ c.asked = b.asked /\ c.todo = b.todo \ {t} /\ t \in b.todo
        /\ Len(b.rows) \in Nat /\ Len(c.rows) = Len(b.rows) + 1
    BY <1>1 DEF Turn
  <2>3. /\ IsFiniteSet(c.todo) /\ Cardinality(c.todo) = Cardinality(b.todo) - 1
        /\ Cardinality(b.todo) \in Nat
    BY <2>1, <2>2, FS_RemoveElement, FS_CardinalityType
  <2>4. QED
    BY <2>1, <2>2, <2>3
<1>4. /\ \A s \in b.todo : OnChainId[s] \in b.asked
      /\ \A i \in DOMAIN b.rows : /\ OnChainId[b.rows[i].tier] \in b.asked
                                   /\ b.rows[i].tier \notin b.todo
      /\ \A i, j \in DOMAIN b.rows : b.rows[i].tier = b.rows[j].tier => i = j
  BY <1>1, <1>2 DEF BundleExact
<1>5. /\ t \in b.todo /\ c.todo = b.todo \ {t} /\ c.asked = b.asked
      /\ DOMAIN b.rows = 1..Len(b.rows) /\ c.rows[Len(b.rows) + 1].tier = t
      /\ \A i \in DOMAIN b.rows : c.rows[i] = b.rows[i]
      /\ \A i \in DOMAIN c.rows : i \in DOMAIN b.rows \/ i = Len(b.rows) + 1
  BY <1>1 DEF Turn
<1>6. \A i \in DOMAIN c.rows : /\ OnChainId[c.rows[i].tier] \in c.asked
                               /\ c.rows[i].tier \notin c.todo
  BY <1>4, <1>5
<1>7. \A i, j \in DOMAIN c.rows : c.rows[i].tier = c.rows[j].tier => i = j
  BY <1>4, <1>5
<1>8. \A s \in c.todo : OnChainId[s] \in c.asked
  BY <1>4, <1>5
<1>9. QED
  BY <1>1, <1>3, <1>6, <1>7, <1>8 DEF BundleExact

LEMMA BundlesExactStep ==
  ASSUME TypeInv, IsFiniteSet(Tiers), BundlesExact, [Next]_vars
  PROVE  BundlesExact'
<1> SUFFICES ASSUME NEW w \in Purchasers PROVE BundleExact(purchase'[w])
  BY DEF BundlesExact, BundleExact
<1>1. purchase \in [Purchasers -> {NoPurchase} \cup GiftRequest \cup BundleRequest]
      /\ BundleExact(purchase[w])
  BY DEF TypeInv, TypeOK, PurchaseTypeOK, BundlesExact
<1>2. CASE purchase'[w] = purchase[w]
  BY <1>1, <1>2
<1>3. CASE purchase'[w].op # "bundle"
  BY <1>3 DEF BundleExact
<1>4. ASSUME NEW ids \in BundleIds, NEW f \in Fans, BundleRead(w, ids, f)
      PROVE  BundleExact(purchase'[w])
  <2>1. PICK b : b = [op |-> "bundle", fan |-> f, asked |-> ids, todo |-> TiersFor(ids),
                      rows |-> <<>>, at |-> now]
    OBVIOUS
  <2>2. purchase'[w] = b
    BY <1>1, <1>4, <2>1 DEF BundleRead
  <2>3. /\ b.todo = TiersFor(ids) /\ b.asked = ids /\ DOMAIN b.rows = {} /\ Len(b.rows) = 0
    BY <2>1
  <2>4. TiersFor(ids) \in SUBSET Tiers /\ \A t \in TiersFor(ids) : OnChainId[t] \in ids
    BY DEF TiersFor, TypeInv, TypeOK, TableTypeOK
  <2>5. IsFiniteSet(TiersFor(ids)) /\ Cardinality(TiersFor(ids)) \in Nat
    BY <2>4, FS_Subset, FS_CardinalityType
  <2>6. Cardinality(TiersFor(ids)) = Cardinality(ids)
    BY <1>4 DEF BundleRead, AllFound
  <2>7. QED
    BY <2>2, <2>3, <2>4, <2>5, <2>6 DEF BundleExact
<1>5. CASE \E t \in Tiers : BundleMint(w, t)
  BY <1>1, <1>5, MintExact
<1>6. CASE PurchaseNext
  BY <1>2, <1>3, <1>4, <1>5, <1>6, PurchaseMoves
<1>7. CASE UNCHANGED purchase
  BY <1>2, <1>7
<1>8. QED
  BY <1>6, <1>7 DEF Next, vars, purchaseVars

(* The passes that the commit adds.                                        *)
LEMMA CommitWhole ==
  ASSUME TypeInv, BundlesExact, NEW w \in Purchasers, BundleCommit(w)
  PROVE  /\ Cardinality(NewIds) = Cardinality(purchase[w].asked)
         /\ \A p \in NewIds : OnChainId[passes'[p].tier] \in purchase[w].asked
         /\ \A p, q \in NewIds : passes'[p].tier = passes'[q].tier => p = q
<1>1. PICK b \in BundleRequest : b = purchase[w] /\ BundleExact(b) /\ b.op = "bundle"
  BY DEF BundleCommit, TypeInv, TypeOK, PurchaseTypeOK, NoPurchase, GiftRequest, BundlesExact
<1>2. /\ b.rows \in Seq(Pass) /\ passes' = passes \o b.rows /\ b.todo = {}
      /\ passes \in Seq(Pass)
  BY <1>1 DEF BundleCommit, BundleRequest, TypeInv, TypeOK, TableTypeOK
<1>3. /\ NewIds = {Len(passes) + i : i \in DOMAIN b.rows}
      /\ \A i \in DOMAIN b.rows : passes'[Len(passes) + i] = b.rows[i]
  BY <1>2, AddedIds
<1>4. /\ Len(passes) \in Nat /\ Len(b.rows) \in Nat /\ DOMAIN b.rows = 1..Len(b.rows)
  BY <1>2, LenProperties
<1>5. Cardinality(NewIds) = Len(b.rows)
  <2>1. PICK m \in Nat, n \in Nat : m = Len(passes) /\ n = Len(b.rows)
    BY <1>4
  <2>2. NewIds = (m + 1)..(m + n)
    <3>1. NewIds = {m + i : i \in 1..n}
      BY <1>3, <1>4, <2>1
    <3>2. \A x \in (m + 1)..(m + n) : x - m \in 1..n /\ x = m + (x - m)
      OBVIOUS
    <3>3. \A i \in 1..n : m + i \in (m + 1)..(m + n)
      OBVIOUS
    <3>4. QED
      BY <3>1, <3>2, <3>3
  <2>3. Cardinality((m + 1)..(m + n)) = n
    BY FS_Interval
  <2>4. QED
    BY <2>1, <2>2, <2>3
<1>6. Cardinality(b.asked) = Len(b.rows)
  BY <1>1, <1>2, <1>4, FS_EmptySet DEF BundleExact
<1>7. ASSUME NEW p \in NewIds
      PROVE  OnChainId[passes'[p].tier] \in b.asked
  BY <1>1, <1>3 DEF BundleExact
<1>8. ASSUME NEW p \in NewIds, NEW q \in NewIds, passes'[p].tier = passes'[q].tier
      PROVE  p = q
  <2>1. PICK i \in DOMAIN b.rows, j \in DOMAIN b.rows :
          /\ p = Len(passes) + i /\ passes'[p] = b.rows[i]
          /\ q = Len(passes) + j /\ passes'[q] = b.rows[j]
    BY <1>3
  <2>2. i = j
    BY <1>1, <1>8, <2>1 DEF BundleExact
  <2>3. QED
    BY <2>1, <2>2
<1>9. QED
  BY <1>1, <1>5, <1>6, <1>7, <1>8

(* A bundle is sold whole, whatever happens to its tiers, prices and the   *)
(* fan's other passes between its check and its commit: it adds as many    *)
(* passes as ids were asked for, each on a tier of its own that has one of *)
(* them.  (Which tier stands for an id is left open where creators share   *)
(* it, since an id is unique per creator only; the table of tiers only has *)
(* to be finite.)                                                          *)
THEOREM BundleSoldWhole ==
  ASSUME IsFiniteSet(Tiers)
  PROVE  Spec => BundleWhole
<1> DEFINE Whole == \A w \in Purchasers : Bundled(w) =>
              /\ Cardinality(NewIds) = Cardinality(purchase[w].asked)
              /\ \A p \in NewIds : OnChainId[passes'[p].tier] \in purchase[w].asked
              /\ \A p, q \in NewIds : passes'[p].tier = passes'[q].tier => p = q
<1>1. Init => BundlesExact
  BY DEF Init, PurchaseInit, BundlesExact, BundleExact, NoPurchase
<1>2. TypeInv /\ [Next]_vars => TypeInv'
  BY TypeInvStep
<1>3. TypeInv /\ BundlesExact /\ [Next]_vars => BundlesExact'
  BY BundlesExactStep
<1>4. ASSUME TypeInv, BundlesExact, [Next]_vars
      PROVE  Whole
  <2> SUFFICES ASSUME NEW w \in Purchasers, Bundled(w)
               PROVE  BundleCommit(w)
    BY <1>4, CommitWhole
  <2>1. purchase \in [Purchasers -> {NoPurchase} \cup GiftRequest \cup BundleRequest]
    BY <1>4 DEF TypeInv, TypeOK, PurchaseTypeOK
  <2>2. /\ purchase[w].op = "bundle" /\ purchase'[w].op = "none" /\ NewIds # {}
    BY DEF Bundled
  <2>3. PurchaseNext
    BY <1>4, <2>2 DEF Next, vars, purchaseVars
  <2>4. PICK v \in Purchasers :
          \/ \E t \in Tiers, s \in Fans, u \in Fans : GiftRead(v, t, s, u)
          \/ GiftCommit(v)
          \/ \E ids \in BundleIds, f \in Fans : BundleRead(v, ids, f)
          \/ \E t \in Tiers : BundleMint(v, t) \/ BundleRefuse(v, t)
          \/ BundleCommit(v)
          \/ PurchaseFails(v)
    BY <2>3 DEF PurchaseNext
  <2>5. v = w
    <3>1. SUFFICES ASSUME v # w PROVE purchase'[w] = purchase[w]
      BY <2>2
    <3>2. QED
      BY <2>1, <2>4, <3>1
         DEF GiftRead, GiftCommit, BundleRead, BundleMint, BundleRefuse, BundleCommit,
             PurchaseFails, End
  <2>6. passes' # passes
    BY <2>2 DEF NewIds, PassIds
  <2>7. QED
    BY <2>2, <2>4, <2>5, <2>6
       DEF GiftRead, GiftCommit, BundleRead, BundleMint, BundleRefuse, PurchaseFails, tableVars
<1> HIDE DEF Whole
<1>5. TypeInv /\ BundlesExact /\ [Next]_vars => [Whole]_vars
  BY <1>4
<1>6. QED
  BY InitTypeInv, <1>1, <1>2, <1>3, <1>5, PTL DEF Spec, BundleWhole, Whole

-----------------------------------------------------------------------------
(* Sums over finite sets: the fold of the community modules, by the least  *)
(* set that would disobey its equation.                                    *)

LEMMA DisjointSizes ==
  ASSUME NEW A, NEW B, IsFiniteSet(A), IsFiniteSet(B), A \cap B = {}
  PROVE  Cardinality(A \cup B) = Cardinality(A) + Cardinality(B)
<1>1. PICK both, common : both = A \cup B /\ common = A \cap B
  OBVIOUS
<1>2. Cardinality(both) = Cardinality(A) + Cardinality(B) - Cardinality(common)
  BY <1>1, FS_Union
<1>3. Cardinality(common) = 0
  BY <1>1, FS_EmptySet
<1>4. Cardinality(A) \in Nat /\ Cardinality(B) \in Nat
  BY FS_CardinalityType
<1>5. QED
  BY <1>1, <1>2, <1>3, <1>4

LEMMA LeastNumber ==
  ASSUME NEW N, N \subseteq Nat, N # {}
  PROVE  \E n \in N : \A m \in N : n <= m
<1> DEFINE R == OpToRel(<, Nat)
<1>1. IsWellFoundedOn(R, Nat)
  BY NatLessThanWellFounded
<1>2. \A m, n \in Nat : m < n => <<m, n>> \in R
  BY DEF OpToRel
<1> HIDE DEF R
<1>3. PICK n \in N : \A m \in N : <<m, n>> \notin R
  BY <1>1, WFMin
<1>4. \A m \in N : ~ (m < n)
  BY <1>2, <1>3
<1>5. QED
  BY <1>4

LEMMA LeastSet ==
  ASSUME NEW S, IsFiniteSet(S), NEW Bad, Bad \subseteq SUBSET S, Bad # {}
  PROVE  \E T \in Bad : \A U \in Bad : U \subseteq T => U = T
<1> DEFINE Sizes == {Cardinality(T) : T \in Bad}
<1>1. \A T \in Bad : IsFiniteSet(T)
  BY FS_Subset
<1>2. Sizes \subseteq Nat /\ Sizes # {}
  BY <1>1, FS_CardinalityType
<1>3. PICK n \in Sizes : \A m \in Sizes : n <= m
  <2> HIDE DEF Sizes
  <2> QED
    BY <1>2, LeastNumber
<1>4. PICK T \in Bad : Cardinality(T) = n
  BY <1>3
<1>5. ASSUME NEW U \in Bad, U \subseteq T
      PROVE  U = T
  <2>1. Cardinality(U) <= Cardinality(T) /\ (Cardinality(T) = Cardinality(U) => T = U)
    BY <1>1, <1>5, FS_Subset
  <2>2. Cardinality(T) <= Cardinality(U)
    BY <1>3, <1>4, <1>5
  <2>3. Cardinality(T) \in Nat /\ Cardinality(U) \in Nat
    BY <1>1, <1>5, FS_CardinalityType
  <2>4. QED
    BY <2>1, <2>2, <2>3
<1>6. QED
  BY <1>5

(* g adds f up over every subset of S, one chosen element after another.   *)
Adds(g, f, S) ==
  g = [s \in SUBSET S |->
         IF s = {} THEN 0
         ELSE f[CHOOSE x \in s : TRUE] + g[s \ {CHOOSE x \in s : TRUE}]]

Adder(f, S) == CHOOSE g : Adds(g, f, S)

LEMMA SumUnfolds ==
  ASSUME NEW f, NEW S
  PROVE  SumFunctionOnSet(f, S) = Adder(f, S)[S]
BY DEF SumFunctionOnSet, FoldFunctionOnSet, MapThenFoldSet, Adder, Adds

LEMMA AddsNone ==
  ASSUME NEW f, NEW S, NEW g, Adds(g, f, S)
  PROVE  g[{}] = 0
<1>1. {} \in SUBSET S
  OBVIOUS
<1>2. QED
  BY <1>1 DEF Adds

LEMMA AddsOnce ==
  ASSUME NEW f, NEW S, NEW g, Adds(g, f, S), NEW s \in SUBSET S, s # {}
  PROVE  g[s] = f[CHOOSE x \in s : TRUE] + g[s \ {CHOOSE x \in s : TRUE}]
BY DEF Adds

LEMMA ChosenIn ==
  ASSUME NEW s, s # {}
  PROVE  (CHOOSE x \in s : TRUE) \in s
OBVIOUS

LEMMA AddsAlike ==
  ASSUME NEW f, NEW S, NEW g, Adds(g, f, S),
         NEW T, NEW h, Adds(h, f, T), T \subseteq S, IsFiniteSet(T)
  PROVE  \A s \in SUBSET T : g[s] = h[s]
<1> DEFINE Bad == {s \in SUBSET T : g[s] # h[s]}
<1>1. SUFFICES ASSUME Bad # {}
               PROVE  FALSE
  OBVIOUS
<1>2. PICK s \in Bad : \A u \in Bad : u \subseteq s => u = s
  <2> HIDE DEF Bad
  <2>1. Bad \subseteq SUBSET T
    BY DEF Bad
  <2> QED
    BY <1>1, <2>1, LeastSet
<1>3. s \in SUBSET T /\ s \in SUBSET S /\ g[s] # h[s]
  BY <1>2
<1>4. s # {}
  <2>1. g[{}] = 0 /\ h[{}] = 0
    BY AddsNone
  <2>2. QED
    BY <1>3, <2>1
<1> DEFINE x == CHOOSE y \in s : TRUE
<1>5. x \in s
  BY <1>4, ChosenIn
<1>6. g[s] = f[x] + g[s \ {x}] /\ h[s] = f[x] + h[s \ {x}]
  BY <1>3, <1>4, AddsOnce
<1> HIDE DEF x
<1>7. s \ {x} \notin Bad /\ s \ {x} \subseteq T
  BY <1>2, <1>3, <1>5
<1>8. g[s \ {x}] = h[s \ {x}]
  BY <1>7
<1>9. QED
  BY <1>3, <1>6, <1>8

LEMMA AdderAdds ==
  ASSUME NEW f, NEW S, IsFiniteSet(S)
  PROVE  Adds(Adder(f, S), f, S)
<1> DEFINE Bad == {s \in SUBSET S : ~ \E g : Adds(g, f, s)}
<1>1. ASSUME Bad # {}
      PROVE  FALSE
  <2>1. PICK s \in Bad : \A u \in Bad : u \subseteq s => u = s
    <3> HIDE DEF Bad
    <3>1. Bad \subseteq SUBSET S
      BY DEF Bad
    <3> QED
      BY <1>1, <3>1, LeastSet
  <2>2. s \subseteq S
    BY <2>1
  <2>3. \A u \in SUBSET s : u # s => Adds(Adder(f, u), f, u)
    <3>1. ASSUME NEW u \in SUBSET s, u # s
          PROVE  \E g : Adds(g, f, u)
      BY <2>1, <2>2, <3>1
    <3> QED
      BY <3>1 DEF Adder
  <2> DEFINE chosen(u) == CHOOSE x \in u : TRUE
             G == [u \in SUBSET s |-> IF u = {} THEN 0
                                      ELSE f[chosen(u)] + Adder(f, u \ {chosen(u)})[u \ {chosen(u)}]]
  <2>4. ASSUME NEW u \in SUBSET s, u # s
        PROVE  G[u] = Adder(f, u)[u]
    <3>1. Adds(Adder(f, u), f, u)
      BY <2>3, <2>4
    <3>2. CASE u = {}
      <4>1. Adder(f, u)[u] = 0
        BY <3>1, <3>2, AddsNone
      <4>2. G[u] = 0
        BY <3>2
      <4> HIDE DEF G
      <4>3. QED
        BY <4>1, <4>2
    <3>3. CASE u # {}
      <4>1. PICK x : x = chosen(u)
        OBVIOUS
      <4>2. x \in u
        BY <3>3, <4>1, ChosenIn
      <4>3. Adder(f, u)[u] = f[x] + Adder(f, u)[u \ {x}]
        <5> HIDE DEF G
        <5>1. PICK h : h = Adder(f, u)
          OBVIOUS
        <5>2. Adds(h, f, u) /\ u \in SUBSET u
          BY <3>1, <5>1
        <5>3. h[u] = f[chosen(u)] + h[u \ {chosen(u)}]
          BY <3>3, <5>2, AddsOnce
        <5>4. QED
          BY <4>1, <5>1, <5>3
      <4>4. Adds(Adder(f, u \ {x}), f, u \ {x})
        BY <2>3, <2>4, <4>2
      <4>5. IsFiniteSet(u \ {x})
        BY <2>2, <2>4, FS_Subset
      <4>6. Adder(f, u)[u \ {x}] = Adder(f, u \ {x})[u \ {x}]
        BY <3>1, <4>4, <4>5, AddsAlike
      <4>7. G[u] = f[x] + Adder(f, u \ {x})[u \ {x}]
        BY <3>3, <4>1
      <4>8. QED
        BY <4>3, <4>6, <4>7
    <3>4. QED
      BY <3>2, <3>3
  <2>5. ASSUME NEW u \in SUBSET s, u # {}
        PROVE  G[u] = f[chosen(u)] + G[u \ {chosen(u)}]
    <3>1. PICK x : x = chosen(u)
      OBVIOUS
    <3>2. x \in u
      BY <2>5, <3>1, ChosenIn
    <3>3. G[u \ {x}] = Adder(f, u \ {x})[u \ {x}]
      <4>1. u \ {x} \in SUBSET s /\ u \ {x} # s
        BY <2>5, <3>2
      <4> HIDE DEF G
      <4> QED
        BY <2>4, <4>1
    <3>4. G[u] = f[x] + Adder(f, u \ {x})[u \ {x}]
      BY <2>5, <3>1
    <3>5. QED
      BY <3>1, <3>3, <3>4
  <2>6. Adds(G, f, s)
    <3>1. G = [u \in SUBSET s |-> IF u = {} THEN 0 ELSE f[chosen(u)] + G[u \ {chosen(u)}]]
      <4>1. ASSUME NEW u \in SUBSET s
            PROVE  G[u] = IF u = {} THEN 0 ELSE f[chosen(u)] + G[u \ {chosen(u)}]
        <5>1. u = {} => G[u] = 0
          OBVIOUS
        <5> HIDE DEF G
        <5>2. u # {} => G[u] = f[chosen(u)] + G[u \ {chosen(u)}]
          BY <2>5
        <5> HIDE DEF chosen
        <5>3. QED
          BY <5>1, <5>2
      <4>2. G = [u \in SUBSET s |-> G[u]]
        OBVIOUS
      <4> HIDE DEF G
      <4> QED
        BY <4>1, <4>2
    <3> HIDE DEF G
    <3> QED
      BY <3>1 DEF Adds
  <2>7. QED
    BY <2>1, <2>6
<1>2. \E g : Adds(g, f, S)
  BY <1>1
<1>3. QED
  BY <1>2 DEF Adder

LEMMA SumOfSubset ==
  ASSUME NEW f, NEW S, IsFiniteSet(S), NEW T \in SUBSET S
  PROVE  Adder(f, S)[T] = SumFunctionOnSet(f, T)
<1>1. IsFiniteSet(T)
  BY FS_Subset
<1>2. Adds(Adder(f, S), f, S) /\ Adds(Adder(f, T), f, T)
  BY <1>1, AdderAdds
<1>3. \A s \in SUBSET T : Adder(f, S)[s] = Adder(f, T)[s]
  <2>1. PICK g, h : g = Adder(f, S) /\ h = Adder(f, T)
    OBVIOUS
  <2>2. Adds(g, f, S) /\ Adds(h, f, T)
    BY <1>2, <2>1
  <2>3. \A s \in SUBSET T : g[s] = h[s]
    BY <1>1, <2>2, AddsAlike
  <2>4. QED
    BY <2>1, <2>3
<1>4. QED
  BY <1>3, SumUnfolds

LEMMA SumOfNone ==
  ASSUME NEW f
  PROVE  SumFunctionOnSet(f, {}) = 0
<1>1. PICK g : g = Adder(f, {})
  OBVIOUS
<1>2. Adds(g, f, {})
  BY <1>1, AdderAdds, FS_EmptySet
<1>3. g[{}] = 0
  BY <1>2, AddsNone
<1>4. QED
  BY <1>1, <1>3, SumUnfolds

(* The equation of the fold.                                               *)
LEMMA SumChooses ==
  ASSUME NEW f, NEW S, IsFiniteSet(S), S # {}
  PROVE  \E x \in S : SumFunctionOnSet(f, S) = f[x] + SumFunctionOnSet(f, S \ {x})
<1>1. PICK x : x = CHOOSE y \in S : TRUE
  OBVIOUS
<1>2. x \in S
  BY <1>1, ChosenIn
<1>3. PICK g : g = Adder(f, S)
  OBVIOUS
<1>4. Adds(g, f, S) /\ S \in SUBSET S
  BY <1>3, AdderAdds
<1>5. g[S] = f[x] + g[S \ {x}]
  BY <1>1, <1>4, AddsOnce
<1>6. g[S] = SumFunctionOnSet(f, S)
  BY <1>3, SumUnfolds
<1>7. g[S \ {x}] = SumFunctionOnSet(f, S \ {x})
  <2>1. S \ {x} \in SUBSET S
    OBVIOUS
  <2>2. QED
    BY <1>3, <2>1, SumOfSubset
<1>8. QED
  BY <1>2, <1>5, <1>6, <1>7

LEMMA SumIsNat ==
  ASSUME NEW f, NEW S, IsFiniteSet(S), \A x \in S : f[x] \in Nat
  PROVE  \A T \in SUBSET S : SumFunctionOnSet(f, T) \in Nat
<1> DEFINE Bad == {T \in SUBSET S : SumFunctionOnSet(f, T) \notin Nat}
<1>1. ASSUME Bad # {}
      PROVE  FALSE
  <2>1. PICK T \in Bad : \A U \in Bad : U \subseteq T => U = T
    <3>1. Bad \subseteq SUBSET S
      OBVIOUS
    <3> HIDE DEF Bad
    <3> QED
      BY <1>1, <3>1, LeastSet
  <2>2. T \subseteq S /\ IsFiniteSet(T) /\ SumFunctionOnSet(f, T) \notin Nat
    BY <2>1, FS_Subset
  <2>3. T # {}
    BY <2>2, SumOfNone
  <2>4. PICK x \in T : SumFunctionOnSet(f, T) = f[x] + SumFunctionOnSet(f, T \ {x})
    BY <2>2, <2>3, SumChooses
  <2>5. SumFunctionOnSet(f, T \ {x}) \in Nat
    BY <2>1, <2>2, <2>4
  <2>6. QED
    BY <2>2, <2>4, <2>5
<1>2. QED
  BY <1>1

(* Any element may be taken first: with the least set for which one may    *)
(* not, compare the element chosen there.                                  *)
LEMMA SumTakes ==
  ASSUME NEW f, NEW S, IsFiniteSet(S), \A x \in S : f[x] \in Nat
  PROVE  \A x \in S : SumFunctionOnSet(f, S) = f[x] + SumFunctionOnSet(f, S \ {x})
<1> DEFINE Bad == {T \in SUBSET S : \E x \in T :
                     SumFunctionOnSet(f, T) # f[x] + SumFunctionOnSet(f, T \ {x})}
<1>1. ASSUME Bad # {}
      PROVE  FALSE
  <2>1. PICK T \in Bad : \A U \in Bad : U \subseteq T => U = T
    <3>1. Bad \subseteq SUBSET S
      OBVIOUS
    <3> HIDE DEF Bad
    <3> QED
      BY <1>1, <3>1, LeastSet
  <2>2. T \subseteq S /\ IsFiniteSet(T)
    BY <2>1, FS_Subset
  <2>3. PICK x \in T : SumFunctionOnSet(f, T) # f[x] + SumFunctionOnSet(f, T \ {x})
    BY <2>1
  <2>4. PICK c \in T : SumFunctionOnSet(f, T) = f[c] + SumFunctionOnSet(f, T \ {c})
    BY <2>2, <2>3, SumChooses
  <2>5. c # x
    BY <2>3, <2>4
  <2>6. T \ {c} \notin Bad /\ T \ {x} \notin Bad
    <3> HIDE DEF Bad
    <3> QED
      BY <2>1, <2>3, <2>4
  <2>7. PICK rest : rest = (T \ {x}) \ {c}
    OBVIOUS
  <2>8. (T \ {c}) \ {x} = rest
    BY <2>7
  <2>9. SumFunctionOnSet(f, T \ {c}) = f[x] + SumFunctionOnSet(f, rest)
    BY <2>2, <2>3, <2>5, <2>6, <2>8
  <2>10. SumFunctionOnSet(f, T \ {x}) = f[c] + SumFunctionOnSet(f, rest)
    BY <2>2, <2>4, <2>5, <2>6, <2>7
  <2>11. SumFunctionOnSet(f, rest) \in Nat /\ f[x] \in Nat /\ f[c] \in Nat
    BY <2>2, <2>7, SumIsNat
  <2>12. QED
    BY <2>3, <2>4, <2>9, <2>10, <2>11
<1>2. QED
  BY <1>1

(* A sum over two disjoint sets is the sum of the sums.                    *)
LEMMA SumSplits ==
  ASSUME NEW f, NEW S, IsFiniteSet(S), \A x \in S : f[x] \in Nat, NEW A \in SUBSET S
  PROVE  SumFunctionOnSet(f, S) = SumFunctionOnSet(f, A) + SumFunctionOnSet(f, S \ A)
<1> DEFINE Bad == {T \in SUBSET (S \ A) :
                     SumFunctionOnSet(f, A \cup T) # SumFunctionOnSet(f, A) + SumFunctionOnSet(f, T)}
<1>1. ASSUME Bad # {}
      PROVE  FALSE
  <2>1. PICK T \in Bad : \A U \in Bad : U \subseteq T => U = T
    <3>1. Bad \subseteq SUBSET S
      OBVIOUS
    <3> HIDE DEF Bad
    <3> QED
      BY <1>1, <3>1, LeastSet
  <2>2. T \subseteq S \ A /\ IsFiniteSet(T) /\ IsFiniteSet(A \cup T)
    <3>1. A \cup T \in SUBSET S /\ T \in SUBSET S
      BY <2>1
    <3>2. QED
      BY <2>1, <3>1, FS_Subset
  <2>3. SumFunctionOnSet(f, A) \in Nat
    BY SumIsNat
  <2>4. T # {}
    <3>1. SumFunctionOnSet(f, A \cup T) # SumFunctionOnSet(f, A) + SumFunctionOnSet(f, T)
      BY <2>1
    <3>2. T = {} => A \cup T = A
      OBVIOUS
    <3>3. QED
      BY <2>3, <3>1, <3>2, SumOfNone
  <2>5. PICK x \in T : TRUE
    BY <2>4
  <2>6. SumFunctionOnSet(f, T) = f[x] + SumFunctionOnSet(f, T \ {x})
    BY <2>2, <2>5, SumTakes
  <2>7. SumFunctionOnSet(f, A \cup T) = f[x] + SumFunctionOnSet(f, A \cup (T \ {x}))
    <3>1. (A \cup T) \ {x} = A \cup (T \ {x})
      BY <2>2, <2>5
    <3>2. \A y \in A \cup T : f[y] \in Nat
      BY <2>2
    <3>3. SumFunctionOnSet(f, A \cup T) = f[x] + SumFunctionOnSet(f, (A \cup T) \ {x})
      BY <2>2, <2>5, <3>2, SumTakes
    <3>4. QED
      BY <3>1, <3>3
  <2>8. SumFunctionOnSet(f, A \cup (T \ {x})) = SumFunctionOnSet(f, A) + SumFunctionOnSet(f, T \ {x})
    BY <2>1, <2>2, <2>5
  <2>9. SumFunctionOnSet(f, T \ {x}) \in Nat /\ f[x] \in Nat
    <3>1. T \ {x} \in SUBSET S
      BY <2>2
    <3>2. QED
      BY <2>2, <2>5, <3>1, SumIsNat
  <2>10. SumFunctionOnSet(f, A \cup T) # SumFunctionOnSet(f, A) + SumFunctionOnSet(f, T)
    BY <2>1
  <2>11. QED
    BY <2>3, <2>6, <2>7, <2>8, <2>9, <2>10
<1>2. A \cup (S \ A) = S
  OBVIOUS
<1>3. QED
  BY <1>1, <1>2

(* A sum is carried over by a one-to-one map that keeps the summands.      *)
LEMMA SumCarried ==
  ASSUME NEW f, NEW S, IsFiniteSet(S), NEW g, NEW h,
         \A x \in S : f[x] \in Nat /\ f[x] = g[h[x]],
         \A x, y \in S : h[x] = h[y] => x = y
  PROVE  SumFunctionOnSet(f, S) = SumFunctionOnSet(g, {h[x] : x \in S})
<1> DEFINE Onto(T) == {h[x] : x \in T}
           Bad == {T \in SUBSET S : SumFunctionOnSet(f, T) # SumFunctionOnSet(g, Onto(T))}
<1>1. ASSUME Bad # {}
      PROVE  FALSE
  <2>1. PICK T \in Bad : \A U \in Bad : U \subseteq T => U = T
    <3>1. Bad \subseteq SUBSET S
      OBVIOUS
    <3> HIDE DEF Bad
    <3> QED
      BY <1>1, <3>1, LeastSet
  <2>2. T \subseteq S /\ IsFiniteSet(T)
    BY <2>1, FS_Subset
  <2>3. T # {}
    <3>1. Onto({}) = {}
      OBVIOUS
    <3>2. QED
      BY <2>1, <3>1, SumOfNone
  <2>4. PICK x \in T : TRUE
    BY <2>3
  <2>5. SumFunctionOnSet(f, T) = f[x] + SumFunctionOnSet(f, T \ {x})
    BY <2>2, SumTakes
  <2>6. IsFiniteSet(Onto(T)) /\ \A y \in Onto(T) : g[y] \in Nat
    <3>1. \A y \in Onto(T) : g[y] \in Nat
      BY <2>2
    <3>2. IsFiniteSet(Onto(T))
      <4> DEFINE F == [y \in T |-> h[y]]
      <4>1. F \in Surjection(T, Onto(T))
        BY DEF Surjection
      <4>2. QED
        BY <2>2, <4>1, FS_Surjection
    <3>3. QED
      BY <3>1, <3>2
  <2>7. SumFunctionOnSet(g, Onto(T)) = g[h[x]] + SumFunctionOnSet(g, Onto(T) \ {h[x]})
    <3>1. h[x] \in Onto(T)
      OBVIOUS
    <3> HIDE DEF Onto
    <3>2. QED
      BY <2>6, <3>1, SumTakes
  <2>8. Onto(T) \ {h[x]} = Onto(T \ {x})
    <3>1. \A y \in T : y # x => h[y] # h[x]
      BY <2>2
    <3>2. \A z : z \in Onto(T) \ {h[x]} <=> z \in Onto(T \ {x})
      BY <3>1
    <3>3. QED
      BY <3>2
  <2>9. SumFunctionOnSet(f, T \ {x}) = SumFunctionOnSet(g, Onto(T \ {x}))
    BY <2>1, <2>2, <2>4
  <2>10. SumFunctionOnSet(f, T) # SumFunctionOnSet(g, Onto(T))
    BY <2>1
  <2>11. f[x] = g[h[x]]
    BY <2>2
  <2>12. QED
    BY <2>5, <2>7, <2>8, <2>9, <2>10, <2>11
<1>2. QED
  BY <1>1

(* Counting by classes: the sizes of the classes add up to the whole.      *)
LEMMA SumOfClasses ==
  ASSUME NEW P, IsFiniteSet(P), NEW D, IsFiniteSet(D), NEW d, \A p \in P : d[p] \in D,
         NEW C, \A i \in D : \A p : p \in C[i] <=> p \in P /\ d[p] = i,
         NEW c, \A i \in D : c[i] = Cardinality(C[i])
  PROVE  SumFunctionOnSet(c, D) = Cardinality(P)
<1> DEFINE In(E) == {p \in P : d[p] \in E}
           Bad == {E \in SUBSET D : SumFunctionOnSet(c, E) # Cardinality(In(E))}
<1>1. \A i \in D : c[i] \in Nat
  <2>1. \A i \in D : IsFiniteSet(C[i])
    <3>1. \A i \in D : C[i] \in SUBSET P
      OBVIOUS
    <3>2. QED
      BY <3>1, FS_Subset
  <2>2. QED
    BY <2>1, FS_CardinalityType
<1>2. ASSUME Bad # {}
      PROVE  FALSE
  <2>1. PICK E \in Bad : \A U \in Bad : U \subseteq E => U = E
    <3>1. Bad \subseteq SUBSET D
      OBVIOUS
    <3> HIDE DEF Bad
    <3> QED
      BY <1>2, <3>1, LeastSet
  <2>2. E \subseteq D /\ IsFiniteSet(E)
    BY <2>1, FS_Subset
  <2>3. E # {}
    <3>1. SumFunctionOnSet(c, E) # Cardinality(In(E))
      BY <2>1
    <3>2. E = {} => In(E) = {}
      OBVIOUS
    <3> HIDE DEF In
    <3>3. QED
      BY <3>1, <3>2, SumOfNone, FS_EmptySet
  <2>4. PICK i \in E : TRUE
    BY <2>3
  <2>5. SumFunctionOnSet(c, E) = c[i] + SumFunctionOnSet(c, E \ {i})
    BY <1>1, <2>2, SumTakes
  <2>6. SumFunctionOnSet(c, E \ {i}) = Cardinality(In(E \ {i}))
    BY <2>1, <2>2, <2>4
  <2>7. PICK Class : Class = C[i] /\ \A p : p \in Class <=> p \in P /\ d[p] = i
    BY <2>2
  <2>8. IsFiniteSet(Class) /\ IsFiniteSet(In(E \ {i}))
    <3>1. Class \in SUBSET P /\ In(E \ {i}) \in SUBSET P
      BY <2>7
    <3>2. QED
      BY <3>1, FS_Subset
  <2>9. In(E) = Class \cup In(E \ {i}) /\ Class \cap In(E \ {i}) = {}
    BY <2>7
  <2>10. Cardinality(In(E)) = Cardinality(Class) + Cardinality(In(E \ {i}))
    <3>1. PICK A, B : A = Class /\ B = In(E \ {i})
      OBVIOUS
    <3>2. IsFiniteSet(A) /\ IsFiniteSet(B) /\ A \cap B = {}
      BY <2>8, <2>9, <3>1
    <3>3. Cardinality(A \cup B) = Cardinality(A) + Cardinality(B)
      BY <3>2, DisjointSizes
    <3>4. In(E) = A \cup B
      BY <2>9, <3>1
    <3> HIDE DEF In
    <3>5. QED
      BY <3>1, <3>3, <3>4
  <2>11. SumFunctionOnSet(c, E) # Cardinality(In(E))
    BY <2>1
  <2>12. c[i] = Cardinality(Class)
    BY <2>2, <2>7
  <2>13. QED
    BY <2>5, <2>6, <2>10, <2>11, <2>12
<1>3. In(D) = P
  OBVIOUS
<1>4. QED
  BY <1>2, <1>3

-----------------------------------------------------------------------------
(* Nothing is dated in the future: every handler takes the current time    *)
(* before it writes, and the rows wait in its request or its transaction.  *)

PurchaseDated(b) ==
  /\ b.op = "gift" => b.at <= now
  /\ b.op = "bundle" => b.at <= now /\ \A i \in DOMAIN b.rows : b.rows[i].purchasedAt <= now

ChangeDated(q) == q.op = "change" => q.at <= now

RunDated(v) == v.pc = "minted" /\ v.open => v.built[1].purchasedAt <= now

RowsDated == \A p \in PassIds : passes[p].purchasedAt <= now

DatedInv ==
  /\ RowsDated
  /\ \A w \in Purchasers : PurchaseDated(purchase[w])
  /\ \A c \in Changers : ChangeDated(change[c])
  /\ \A r \in Renewers : RunDated(run[r])

LEMMA NowGrows ==
  ASSUME TypeInv, [Next]_vars
  PROVE  now \in Nat /\ now' \in Nat /\ now <= now'
<1> DEFINE Grows == now \in Nat /\ now' \in Nat /\ now <= now'
<1>1. now \in Nat
  BY DEF TypeInv, TypeOK, TableTypeOK
<1>2. ASSUME now' = now
      PROVE  Grows
  BY <1>1, <1>2
<1>3. CASE Tick
  BY <1>1, <1>3 DEF Tick
<1>4. CASE TableNext /\ ~ Tick
  <2>1. now' = now
    BY <1>4 DEF TableNext, BlockFan, UnblockFan, DeactivateTier, ReactivateTier,
                DeactivateExpiredPasses, ToggleAutoRenew
  <2>2. QED
    BY <1>1, <2>1
<1>5. CASE PurchaseNext
  <2>1. now' = now
    BY <1>5 DEF PurchaseNext, tableVars, GiftRead, GiftCommit, BundleRead, BundleMint,
                BundleRefuse, BundleCommit, PurchaseFails
  <2>2. QED
    BY <1>1, <2>1
<1>6. CASE ChangeNext \/ DeletionNext
  <2>1. now' = now
    BY <1>6 DEF ChangeNext, tableVars, ChangeRead, ChangeCommit, ChangeFails,
                DeletionNext, DeletionRead, DeletionCommit, DeletionFails
  <2>2. QED
    BY <1>1, <2>1
<1>7. CASE RenewalNext
  <2>1. ASSUME NEW r \in Renewers, RenewalStep(r)
        PROVE  now' = now
    BY <2>1 DEF RenewalStep, tableVars, RollBack, RenewalScan, RenewalBegin,
                RenewalWaitExpires, ChargeSucceeds, ChargeFails, ChargeUnseen, RenewalMint,
                RenewalMintRefused, RenewalFindsTxClosed, RenewalCommit,
                RenewalRecordFailure, RenewalDisable, RenewalDone
  <2>2. now' = now
    BY <1>7, <2>1 DEF RenewalNext, tableVars, RenewalTxExpires, RunLost, UnseenSettles
  <2>3. QED
    BY <1>1, <2>2
<1>8. CASE UNCHANGED vars
  BY <1>1, <1>8 DEF vars, tableVars
<1>9. QED
  BY <1>3, <1>4, <1>5, <1>6, <1>7, <1>8 DEF Next

(* The date of a row that is added.                                        *)
LEMMA AddedDated ==
  ASSUME TypeInv, DatedInv, [Next]_vars
  PROVE  \A q \in NewIds : passes'[q].purchasedAt <= now
<1>1. passes \in Seq(Pass)
  BY DEF TypeInv, TypeOK, TableTypeOK
<1>2. ASSUME NEW w \in Purchasers, GiftCommit(w)
      PROVE  \A q \in NewIds : passes'[q].purchasedAt <= now
  <2> DEFINE row == GiftedPass(purchase[w])
  <2>1. purchase[w] \in GiftRequest /\ PurchaseDated(purchase[w])
    BY <1>2 DEF GiftCommit, TypeInv, TypeOK, PurchaseTypeOK, NoPurchase, BundleRequest, DatedInv
  <2>2. row \in Pass
    BY <2>1, NewPassType, TableAssumption DEF GiftRequest, GiftedPass, Origins
  <2>3. row.purchasedAt <= now
    BY <2>1 DEF GiftedPass, NewPass, GiftRequest, PurchaseDated
  <2>4. passes' = Append(passes, row)
    BY <1>2 DEF GiftCommit
  <2> HIDE DEF row
  <2>5. PICK rows \in Seq(Pass) : /\ rows = <<row>> /\ DOMAIN rows = {1} /\ rows[1] = row
                                  /\ passes' = passes \o rows
    <3>1. <<row>> \in Seq(Pass) /\ passes' = passes \o <<row>> /\ DOMAIN <<row>> = {1}
      BY <1>1, <2>2, <2>4
    <3>2. QED
      BY <3>1
  <2>6. /\ NewIds = {Len(passes) + i : i \in DOMAIN rows}
        /\ \A i \in DOMAIN rows : passes'[Len(passes) + i] = rows[i]
    BY <1>1, <2>5, AddedIds
  <2>7. QED
    BY <2>3, <2>5, <2>6
<1>3. ASSUME NEW w \in Purchasers, BundleCommit(w)
      PROVE  \A q \in NewIds : passes'[q].purchasedAt <= now
  <2>1. PICK b \in BundleRequest : b = purchase[w] /\ PurchaseDated(b) /\ b.op = "bundle"
    BY <1>3 DEF BundleCommit, TypeInv, TypeOK, PurchaseTypeOK, NoPurchase, GiftRequest, DatedInv
  <2>2. b.rows \in Seq(Pass) /\ passes' = passes \o b.rows
    BY <1>3, <2>1 DEF BundleCommit, BundleRequest
  <2>3. /\ NewIds = {Len(passes) + i : i \in DOMAIN b.rows}
        /\ \A i \in DOMAIN b.rows : passes'[Len(passes) + i] = b.rows[i]
    BY <1>1, <2>2, AddedIds
  <2>4. QED
    BY <2>1, <2>3 DEF PurchaseDated
<1>4. ASSUME NEW c \in Changers, ChangeCommit(c)
      PROVE  \A q \in NewIds : passes'[q].purchasedAt <= now
  <2>1. PICK row \in Pass :
          /\ Fresh(row, passes[change[c].pass].fan, "change", change[c].pass)
          /\ passes' = Replace(change[c].pass, row)
          /\ row.purchasedAt <= now
    BY <1>4, ChangedRow DEF DatedInv, ChangeDated, ChangeCommit
  <2>2. change[c].pass \in PassIds /\ RoomToReplace
    BY <1>4, ChangedRow
  <2>3. QED
    BY <2>1, <2>2, ReplacedRow
<1>5. ASSUME NEW r \in Renewers, RenewalCommit(r)
      PROVE  \A q \in NewIds : passes'[q].purchasedAt <= now
  <2>1. PICK p, row : p = run[r].cur /\ row = run[r].built[1]
    OBVIOUS
  <2>2. /\ p \in PassIds /\ RoomToReplace /\ row \in Pass
        /\ Fresh(row, passes[p].fan, "renewal", p)
    BY <1>5, <2>1, RunFields, ElementOfSeq DEF RenewalCommit, RunSound
  <2>3. row.purchasedAt <= now
    BY <1>5, <2>1 DEF DatedInv, RunDated, RenewalCommit
  <2>4. passes' = Replace(p, row)
    BY <1>5, <2>1 DEF RenewalCommit
  <2>5. QED
    BY <2>2, <2>3, <2>4, ReplacedRow
<1>6. QED
  BY <1>2, <1>3, <1>4, <1>5, OthersAddNothing

LEMMA RowsDatedStep ==
  ASSUME TypeInv, DatedInv, [Next]_vars
  PROVE  RowsDated'
<1>1. now \in Nat /\ now' \in Nat /\ now <= now'
  BY NowGrows
<1>2. TableStepOK
  BY TypeInvStep
<1>3. ASSUME NEW p \in PassIds'
      PROVE  passes'[p].purchasedAt <= now'
  <2>1. passes'[p].purchasedAt \in Nat
    <3>1. passes' \in Seq(Pass)
      BY <1>2 DEF TableStepOK
    <3>2. passes'[p] \in Pass
      BY <1>3, <3>1, ElementOfSeq, LenProperties DEF PassIds
    <3>3. QED
      BY <3>2 DEF Pass
  <2>2. passes'[p].purchasedAt <= now
    <3>1. CASE p \in NewIds
      BY <3>1, AddedDated
    <3>2. CASE p \in PassIds
      BY <1>2, <3>2 DEF TableStepOK, RowsKept, RowKept, DatedInv, RowsDated
    <3>3. QED
      BY <1>3, <3>1, <3>2 DEF NewIds, PassIds
  <2>3. QED
    BY <1>1, <2>1, <2>2
<1>4. QED
  BY <1>3 DEF RowsDated, PassIds

LEMMA PurchasesDatedStep ==
  ASSUME TypeInv, DatedInv, [Next]_vars
  PROVE  \A w \in Purchasers : PurchaseDated(purchase[w])'
<1> SUFFICES ASSUME NEW w \in Purchasers
             PROVE  PurchaseDated(purchase[w])'
  OBVIOUS
<1>1. /\ purchase \in [Purchasers -> {NoPurchase} \cup GiftRequest \cup BundleRequest]
      /\ PurchaseDated(purchase[w])
  BY DEF TypeInv, TypeOK, PurchaseTypeOK, DatedInv
<1>2. now \in Nat /\ now' \in Nat /\ now <= now'
  BY NowGrows
<1>3. PICK b : b = purchase'[w]
  OBVIOUS
<1>4. CASE purchase'[w] = purchase[w]
  <2>1. PurchaseDated(b)
    BY <1>1, <1>3, <1>4
  <2>2. b.op = "gift" => b.at \in Nat
    BY <1>1, <1>3, <1>4 DEF NoPurchase, GiftRequest, BundleRequest
  <2>3. b.op = "bundle" => b.at \in Nat /\ \A i \in DOMAIN b.rows : b.rows[i].purchasedAt \in Nat
    <3>1. b.op = "bundle" => b.at \in Nat /\ b.rows \in Seq(Pass)
      BY <1>1, <1>3, <1>4 DEF NoPurchase, GiftRequest, BundleRequest
    <3>2. ASSUME NEW rows \in Seq(Pass), NEW i \in DOMAIN rows
          PROVE  rows[i].purchasedAt \in Nat
      <4>1. rows[i] \in Pass
        BY <3>2, ElementOfSeq, LenProperties
      <4>2. QED
        BY <4>1 DEF Pass
    <3>3. QED
      BY <3>1, <3>2
  <2>4. PurchaseDated(b)'
    BY <1>2, <2>1, <2>2, <2>3 DEF PurchaseDated
  <2>5. QED
    BY <1>3, <2>4
<1>5. CASE b.op \notin {"gift", "bundle"}
  BY <1>3, <1>5 DEF PurchaseDated
<1>6. ASSUME NEW t \in Tiers, NEW s \in Fans, NEW f \in Fans, GiftRead(w, t, s, f)
      PROVE  PurchaseDated(purchase[w])'
  <2>1. b = [op |-> "gift", tier |-> t, sender |-> s, recipient |-> f, at |-> now]
    BY <1>1, <1>3, <1>6 DEF GiftRead
  <2>2. b.op = "gift" /\ b.at = now
    BY <2>1
  <2>3. QED
    BY <1>2, <1>3, <2>2 DEF PurchaseDated
<1>7. ASSUME NEW ids \in BundleIds, NEW f \in Fans, BundleRead(w, ids, f)
      PROVE  PurchaseDated(purchase[w])'
  <2>1. b = [op |-> "bundle", fan |-> f, asked |-> ids, todo |-> TiersFor(ids),
             rows |-> <<>>, at |-> now]
    BY <1>1, <1>3, <1>7 DEF BundleRead
  <2>2. b.op = "bundle" /\ b.at = now /\ DOMAIN b.rows = {}
    BY <2>1
  <2>3. QED
    BY <1>2, <1>3, <2>2 DEF PurchaseDated
<1>8. ASSUME NEW t \in Tiers, BundleMint(w, t)
      PROVE  PurchaseDated(purchase[w])'
  <2>1. PICK a \in BundleRequest, c \in BundleRequest, row \in Pass :
          a = purchase[w] /\ c = purchase'[w] /\ Turn(a, c, t, row)
    BY <1>8, BundleBuilds
  <2>2. b = c /\ PurchaseDated(a) /\ a.op = "bundle" /\ b.op = "bundle"
    BY <1>1, <1>3, <2>1 DEF BundleRequest
  <2>3. row.purchasedAt = a.at
    BY <2>1 DEF Turn
  <2>5. b.op = "bundle" /\ b.at = a.at
    BY <2>1, <2>2 DEF Turn
  <2>6. a.at \in Nat /\ a.at <= now
    BY <2>2 DEF PurchaseDated, BundleRequest
  <2>7. a.rows \in Seq(Pass)
    BY DEF BundleRequest
  <2>8. /\ Len(a.rows) \in Nat /\ DOMAIN a.rows = 1..Len(a.rows)
        /\ DOMAIN b.rows = 1..Len(a.rows) + 1
        /\ \A i \in 1..Len(a.rows) : b.rows[i] = a.rows[i]
        /\ b.rows[Len(a.rows) + 1] = row
    BY <2>1, <2>2 DEF Turn
  <2>9. ASSUME NEW i \in DOMAIN b.rows
        PROVE  b.rows[i].purchasedAt <= now'
    <3>1. CASE i = Len(a.rows) + 1
      BY <1>2, <2>3, <2>6, <2>8, <3>1
    <3>2. CASE i \in DOMAIN a.rows
      <4>1. b.rows[i] = a.rows[i] /\ a.rows[i] \in Pass /\ a.rows[i].purchasedAt <= now
        BY <2>2, <2>7, <2>8, <3>2, ElementOfSeq DEF PurchaseDated
      <4>2. a.rows[i].purchasedAt \in Nat
        BY <4>1 DEF Pass
      <4>3. QED
        BY <1>2, <4>1, <4>2
    <3>3. QED
      BY <2>8, <2>9, <3>1, <3>2
  <2>10. QED
    BY <1>2, <1>3, <2>5, <2>6, <2>9 DEF PurchaseDated
<1>9. CASE PurchaseNext
  <2>1. PICK v \in Purchasers :
          \/ \E t \in Tiers, s \in Fans, f \in Fans : GiftRead(v, t, s, f)
          \/ GiftCommit(v)
          \/ \E ids \in BundleIds, f \in Fans : BundleRead(v, ids, f)
          \/ \E t \in Tiers : BundleMint(v, t) \/ BundleRefuse(v, t)
          \/ BundleCommit(v)
          \/ PurchaseFails(v)
    BY <1>9 DEF PurchaseNext
  <2>2. CASE v # w
    <3>1. purchase'[w] = purchase[w]
      BY <1>1, <2>1, <2>2
         DEF GiftRead, GiftCommit, BundleRead, BundleMint, BundleRefuse, BundleCommit,
             PurchaseFails, End
    <3>2. QED
      BY <1>4, <3>1
  <2>3. CASE v = w /\ End(v)
    BY <1>1, <1>3, <1>5, <2>3 DEF End, NoPurchase
  <2>4. QED
    BY <1>6, <1>7, <1>8, <2>1, <2>2, <2>3
       DEF GiftCommit, BundleRefuse, BundleCommit, PurchaseFails
<1>10. CASE UNCHANGED purchase
  BY <1>4, <1>10
<1>11. QED
  BY <1>9, <1>10 DEF Next, vars, purchaseVars

LEMMA ChangesDatedStep ==
  ASSUME TypeInv, DatedInv, [Next]_vars
  PROVE  \A c \in Changers : ChangeDated(change[c])'
<1> SUFFICES ASSUME NEW c \in Changers
             PROVE  ChangeDated(change[c])'
  OBVIOUS
<1>1. change \in [Changers -> {NoChange} \cup ChangeRequest] /\ ChangeDated(change[c])
  BY DEF TypeInv, TypeOK, ChangeTypeOK, DatedInv
<1>2. now \in Nat /\ now' \in Nat /\ now <= now'
  BY NowGrows
<1>3. PICK q : q = change'[c]
  OBVIOUS
<1>4. CASE change'[c] = change[c]
  <2>1. ChangeDated(q) /\ (q.op = "change" => q.at \in Nat)
    BY <1>1, <1>3, <1>4 DEF NoChange, ChangeRequest
  <2>2. ChangeDated(q)'
    BY <1>2, <2>1 DEF ChangeDated
  <2>3. QED
    BY <1>3, <2>2
<1>5. CASE q.op # "change"
  BY <1>3, <1>5 DEF ChangeDated
<1>6. ASSUME NEW p \in PassIds, NEW t \in Tiers, ChangeRead(c, p, t)
      PROVE  ChangeDated(change[c])'
  <2>1. q.at = now
    BY <1>1, <1>3, <1>6 DEF ChangeRead
  <2>2. QED
    BY <1>2, <1>3, <2>1 DEF ChangeDated
<1>7. CASE ChangeNext
  <2>1. PICK d \in Changers :
          \/ \E p \in PassIds, t \in Tiers : ChangeRead(d, p, t)
          \/ ChangeCommit(d) \/ ChangeFails(d)
    BY <1>7 DEF ChangeNext
  <2>2. CASE d # c
    <3>1. change'[c] = change[c]
      BY <1>1, <2>1, <2>2 DEF ChangeRead, ChangeCommit, ChangeFails
    <3>2. QED
      BY <1>4, <3>1
  <2>3. CASE d = c /\ (ChangeCommit(d) \/ ChangeFails(d))
    BY <1>1, <1>3, <1>5, <2>3 DEF ChangeCommit, ChangeFails, NoChange
  <2>4. QED
    BY <1>6, <2>1, <2>2, <2>3
<1>8. CASE UNCHANGED change
  BY <1>4, <1>8
<1>9. QED
  BY <1>7, <1>8 DEF Next, vars, changeVars

LEMMA RunsDatedStep ==
  ASSUME TypeInv, DatedInv, [Next]_vars
  PROVE  \A r \in Renewers : RunDated(run[r])'
<1> SUFFICES ASSUME NEW r \in Renewers
             PROVE  RunDated(run[r])'
  OBVIOUS
<1>1. run \in [Renewers -> Run] /\ RunDated(run[r])
  BY DEF TypeInv, TypeOK, RenewalTypeOK, DatedInv
<1>2. now \in Nat /\ now' \in Nat /\ now <= now'
  BY NowGrows
<1>3. PICK v : v = run'[r]
  OBVIOUS
<1>4. CASE run'[r] = run[r]
  <2>1. RunDated(v)
    BY <1>1, <1>3, <1>4
  <2>2. v.pc = "minted" /\ v.open => v.built[1].purchasedAt \in Nat
    <3>1. SUFFICES ASSUME v.pc = "minted", v.open
                   PROVE  v.built[1] \in Pass
      BY DEF Pass
    <3>2. v.built \in Seq(Pass) /\ Len(v.built) = 1
      BY <1>3, <1>4, <3>1, RunFields DEF RunSound
    <3>3. QED
      BY <3>2, ElementOfSeq
  <2>3. RunDated(v)'
    BY <1>2, <2>1, <2>2 DEF RunDated
  <2>4. QED
    BY <1>3, <2>3
<1>5. CASE ~ (v.pc = "minted" /\ v.open)
  BY <1>3, <1>5 DEF RunDated
<1>6. ASSUME NEW t \in Tiers, RenewalMint(r, t)
      PROVE  RunDated(run[r])'
  <2>1. PICK row \in Pass : row.purchasedAt = now /\ run'[r].built[1] = row
    BY <1>6, RunBuilds DEF Minted
  <2>2. QED
    BY <1>2, <1>3, <2>1 DEF RunDated
<1>7. CASE RenewalNext
  <2>1. CASE \E s \in Renewers : \/ RenewalStep(s) \/ RenewalTxExpires(s)
                                  \/ \E b \in BOOLEAN : RunLost(s, b)
    <3>1. PICK s \in Renewers : MintsOnly(s)
      BY <2>1, MintedByMint
    <3>2. CASE s # r
      <4>1. run'[r] = run[r]
        BY <1>1, <3>1, <3>2 DEF MintsOnly
      <4>2. QED
        BY <1>4, <4>1
    <3>3. CASE s = r
      BY <1>3, <1>5, <1>6, <3>1, <3>3 DEF MintsOnly
    <3>4. QED
      BY <3>2, <3>3
  <2>2. CASE \E p \in PassIds, b \in BOOLEAN : UnseenSettles(p, b)
    BY <1>4, <2>2 DEF UnseenSettles
  <2>3. QED
    BY <1>7, <2>1, <2>2 DEF RenewalNext
<1>8. CASE UNCHANGED run
  BY <1>4, <1>8
<1>9. QED
  BY <1>7, <1>8 DEF Next, vars, renewalVars

LEMMA DatedAlways == Spec => [](TypeInv /\ DatedInv)
<1>1. Init => DatedInv
  BY DEF Init, TableInit, PurchaseInit, ChangeInit, RenewalInit, DatedInv, RowsDated,
         PurchaseDated, ChangeDated, RunDated, NoPurchase, NoChange, NoRun, PassIds
<1>2. TypeInv /\ [Next]_vars => TypeInv'
  BY TypeInvStep
<1>3. TypeInv /\ DatedInv /\ [Next]_vars => DatedInv'
  <2>1. ASSUME TypeInv, DatedInv, [Next]_vars
        PROVE  DatedInv'
    BY <2>1, RowsDatedStep, PurchasesDatedStep, ChangesDatedStep, RunsDatedStep DEF DatedInv
  <2>2. QED
    BY <2>1
<1>4. QED
  BY InitTypeInv, <1>1, <1>2, <1>3, PTL DEF Spec

-----------------------------------------------------------------------------
(* The figures.                                                            *)

LEMMA RowsTyped ==
  ASSUME TypeInv
  PROVE  /\ IsFiniteSet(PassIds) /\ now \in Nat
         /\ \A p \in PassIds : /\ passes[p] \in Pass
                               /\ passes[p].tier \in Tiers /\ passes[p].purchasedAt \in Nat
                               /\ passes[p].expiresAt \in Nat
<1>1. passes \in Seq(Pass) /\ now \in Nat
  BY DEF TypeInv, TypeOK, TableTypeOK
<1>2. Len(passes) \in Nat /\ PassIds = 1..Len(passes)
  BY <1>1, LenProperties DEF PassIds
<1>3. IsFiniteSet(PassIds)
  BY <1>2, FS_Interval
<1>4. \A p \in PassIds : passes[p] \in Pass
  BY <1>1, <1>2, ElementOfSeq
<1>5. QED
  BY <1>1, <1>3, <1>4 DEF Pass

LEMMA PeriodTyped ==
  ASSUME TypeInv, NEW days \in Periods
  PROVE  /\ days \in Nat /\ days >= 1
         /\ Start(days) \in Int /\ Start(days) <= now /\ Start(days) + days = now + 1
         /\ BucketLength(days) \in Nat \ {0}
BY RowsTyped, AnalyticsAssumption DEF Start, BucketLength

LEMMA DaysSound ==
  ASSUME TypeInv
  PROVE  DaysAddUp
<1> SUFFICES ASSUME NEW t \in Tiers, NEW days \in Periods
             PROVE  SumFunction(PurchasesByDay(t, days)) = Cardinality(TierPurchases(t, days))
  BY DEF DaysAddUp
<1>1. PICK n, from : n = days /\ from = Start(days)
  OBVIOUS
<1>2. n \in Nat /\ n >= 1 /\ from \in Int /\ from + n = now + 1 /\ now \in Nat
  BY <1>1, PeriodTyped, RowsTyped
<1>3. PICK P, c : P = TierPurchases(t, days) /\ c = PurchasesByDay(t, days)
  OBVIOUS
<1>4. P \in SUBSET PassIds /\ IsFiniteSet(P)
  BY <1>3, RowsTyped, FS_Subset DEF TierPurchases
<1>5. \A p \in P : passes[p].purchasedAt \in from..now
  BY <1>1, <1>3 DEF TierPurchases
<1>6. c = [i \in 1..n |-> Cardinality({p \in P : /\ passes[p].purchasedAt >= from + i - 1
                                                /\ passes[p].purchasedAt < from + i})]
  BY <1>1, <1>3 DEF PurchasesByDay
<1>7. PICK d, C :
        /\ d = [p \in P |-> passes[p].purchasedAt - from + 1]
        /\ C = [i \in 1..n |-> {p \in P : /\ passes[p].purchasedAt >= from + i - 1
                                         /\ passes[p].purchasedAt < from + i}]
  OBVIOUS
<1>8. \A p \in P : d[p] \in 1..n
  BY <1>2, <1>5, <1>7
<1>9. \A i \in 1..n : c[i] = Cardinality(C[i])
  BY <1>6, <1>7
<1>10. ASSUME NEW i \in 1..n
       PROVE  \A p : p \in C[i] <=> p \in P /\ d[p] = i
  <2>1. \A p \in P : (passes[p].purchasedAt >= from + i - 1 /\ passes[p].purchasedAt < from + i)
                       <=> d[p] = i
    BY <1>2, <1>5, <1>7
  <2>2. QED
    BY <1>7, <2>1
<1>11. SumFunctionOnSet(c, 1..n) = Cardinality(P)
  <2>1. PICK D : D = 1..n
    OBVIOUS
  <2>2. IsFiniteSet(D)
    BY <1>2, <2>1, FS_Interval
  <2>3. /\ \A p \in P : d[p] \in D
        /\ \A i \in D : \A p : p \in C[i] <=> p \in P /\ d[p] = i
        /\ \A i \in D : c[i] = Cardinality(C[i])
    BY <1>8, <1>9, <1>10, <2>1
  <2>4. SumFunctionOnSet(c, D) = Cardinality(P)
    BY <1>4, <2>2, <2>3, SumOfClasses
  <2>5. QED
    BY <2>1, <2>4
<1>12. DOMAIN c = 1..n
  BY <1>6
<1>13. QED
  BY <1>3, <1>11, <1>12 DEF SumFunction

(* The last column: the columns before it end within the period, and all   *)
(* of them together reach its end.                                         *)
LEMMA RoundedUp ==
  \A n \in Nat \ {0}, b \in Nat \ {0} :
    LET c == (n + b - 1) \div b
    IN  c \in Nat \ {0} /\ (c - 1) * b < n /\ n <= c * b
BY SMT

LEMMA GrowthSound ==
  ASSUME TypeInv, DatedInv
  PROVE  GrowthShowsActive
<1> SUFFICES ASSUME NEW k \in Creators, NEW days \in Periods
             PROVE  SubscriberGrowth(k, days)[BucketCount(days)]
                      >= Cardinality(UNION {ActivePasses(t) : t \in {t \in Tiers : CreatorOf[t] = k}})
  BY DEF GrowthShowsActive
<1>1. PICK n, from, b, c : /\ n = days /\ from = Start(days)
                           /\ b = BucketLength(days) /\ c = BucketCount(days)
  OBVIOUS
<1>2. /\ n \in Nat \ {0} /\ from \in Int /\ from + n = now + 1 /\ now \in Nat
      /\ b \in Nat \ {0}
  BY <1>1, PeriodTyped, RowsTyped
<1>3. c \in Nat \ {0} /\ (c - 1) * b < n /\ n <= c * b
  BY <1>1, <1>2, RoundedUp DEF BucketCount
<1>4. PICK last, end : last = from + (c - 1) * b /\ end = last + b
  OBVIOUS
<1>5. last \in Int /\ end \in Int /\ last <= now /\ now <= end
  <2>1. PICK m \in Nat : m = (c - 1) * b
    BY <1>2, <1>3
  <2>2. c * b = m + b
    BY <1>2, <1>3, <2>1
  <2>3. QED
    BY <1>2, <1>3, <1>4, <2>1, <2>2
<1> DEFINE column == {p \in Selected(k, days) : passes[p].purchasedAt <= end /\ passes[p].expiresAt > last}
           shown == UNION {ActivePasses(t) : t \in {t \in Tiers : CreatorOf[t] = k}}
<1>6. SubscriberGrowth(k, days)[BucketCount(days)] = Cardinality(column)
  BY <1>1, <1>3, <1>4 DEF SubscriberGrowth
<1>7. shown \subseteq column
  <2> SUFFICES ASSUME NEW p \in shown
               PROVE  p \in column
    OBVIOUS
  <2>1. /\ p \in PassIds /\ CreatorOf[passes[p].tier] = k /\ passes[p].expiresAt > now
    BY DEF ActivePasses
  <2>2. /\ passes[p].purchasedAt \in Nat /\ passes[p].expiresAt \in Nat
        /\ passes[p].purchasedAt <= now
    BY <2>1, RowsTyped DEF DatedInv, RowsDated
  <2>3. p \in Selected(k, days)
    <3>1. passes[p].expiresAt >= Start(days)
      BY <1>1, <1>2, <2>1, <2>2
    <3>2. QED
      BY <2>1, <3>1 DEF Selected, PassesOf
  <2>4. passes[p].purchasedAt <= end /\ passes[p].expiresAt > last
    BY <1>2, <1>5, <2>1, <2>2
  <2>5. QED
    BY <2>3, <2>4
<1>8. column \in SUBSET PassIds
  BY DEF Selected, PassesOf
<1> HIDE DEF column, shown
<1>9. IsFiniteSet(column)
  BY <1>8, RowsTyped, FS_Subset
<1>10. Cardinality(shown) <= Cardinality(column) /\ IsFiniteSet(shown)
  BY <1>7, <1>9, FS_Subset
<1>11. Cardinality(shown) \in Nat /\ Cardinality(column) \in Nat
  BY <1>9, <1>10, FS_CardinalityType
<1>12. QED
  BY <1>6, <1>10, <1>11 DEF shown

LEMMA ChurnSound ==
  ASSUME TypeInv
  PROVE  ChurnMeetsRetention
<1> SUFFICES ASSUME NEW k \in Creators, NEW days \in Periods
             PROVE  LET before == ActiveOn(k, days, Start(days))
                        after == ActiveOn(k, days, now)
                    IN  /\ Cardinality(Churned(k, days)) + Cardinality(before \cap after) = Cardinality(before)
                        /\ \A p \in after \ before : passes[p].purchasedAt > Start(days)
  BY DEF ChurnMeetsRetention
<1>1. PICK before, after, churned : /\ before = ActiveOn(k, days, Start(days))
                                    /\ after = ActiveOn(k, days, now)
                                    /\ churned = Churned(k, days)
  OBVIOUS
<1>2. Start(days) \in Int /\ Start(days) <= now /\ now \in Nat
  BY PeriodTyped, RowsTyped
<1>3. Selected(k, days) \in SUBSET PassIds
  BY DEF Selected, PassesOf
<1>4. \A p \in Selected(k, days) : passes[p].purchasedAt \in Nat /\ passes[p].expiresAt \in Nat
  BY <1>3, RowsTyped
<1>5. churned = {p \in before : passes[p].expiresAt <= now}
  BY <1>1 DEF Churned
<1>6. before \cap after = {p \in before : passes[p].expiresAt > now}
  <2>1. ASSUME NEW p \in before, passes[p].expiresAt > now
        PROVE  p \in after
    BY <1>1, <1>2, <1>4, <2>1 DEF ActiveOn
  <2>2. \A p \in after : passes[p].expiresAt > now
    BY <1>1 DEF ActiveOn
  <2>3. QED
    BY <2>1, <2>2
<1>7. before \in SUBSET PassIds /\ before \subseteq Selected(k, days)
  BY <1>1, <1>3 DEF ActiveOn
<1>8. IsFiniteSet(churned) /\ IsFiniteSet(before \cap after)
  <2>1. churned \in SUBSET PassIds /\ before \cap after \in SUBSET PassIds
    BY <1>5, <1>7
  <2>2. QED
    BY <2>1, RowsTyped, FS_Subset
<1>9. before = churned \cup (before \cap after) /\ churned \cap (before \cap after) = {}
  <2>1. \A p \in before : ~ (passes[p].expiresAt <= now) <=> passes[p].expiresAt > now
    BY <1>2, <1>4, <1>7
  <2>2. QED
    BY <1>5, <1>6, <2>1
<1>10. Cardinality(churned) + Cardinality(before \cap after) = Cardinality(before)
  <2>1. PICK stayed : stayed = before \cap after
    OBVIOUS
  <2>2. Cardinality(churned \cup stayed) = Cardinality(churned) + Cardinality(stayed)
    BY <1>8, <1>9, <2>1, DisjointSizes
  <2>3. churned \cup stayed = before
    BY <1>9, <2>1
  <2>4. QED
    BY <2>1, <2>2, <2>3
<1>11. ASSUME NEW p \in after \ before
       PROVE  passes[p].purchasedAt > Start(days)
  <2>1. p \in Selected(k, days) /\ passes[p].expiresAt > now
    BY <1>1 DEF ActiveOn
  <2>2. ~ (passes[p].purchasedAt <= Start(days) /\ passes[p].expiresAt > Start(days))
    BY <1>1, <2>1 DEF ActiveOn
  <2>3. QED
    BY <1>2, <1>4, <2>1, <2>2
<1>12. QED
  BY <1>1, <1>10, <1>11

(* Every earnings record belongs to one pass, which is no trial and made   *)
(* by no tier change, and each such pass has one.                          *)
LEMMA RevenueSound ==
  ASSUME TypeInv, EarningsMatchSales
  PROVE  RevenueExplained
<1> SUFFICES ASSUME NEW k \in Creators
             PROVE  Revenue(PassesOf(k))
                      = SumFunctionOnSet(Amount, {e \in earnings : e.pass \in PassesOf(k)})
                        + Revenue({p \in PassesOf(k) : passes[p].trialUsed \/ passes[p].via = "change"})
  BY DEF RevenueExplained
<1> DEFINE unpaid == {p \in PassesOf(k) : passes[p].trialUsed \/ passes[p].via = "change"}
           records == {e \in earnings : e.pass \in PassesOf(k)}
<1>1. PassesOf(k) \in SUBSET PassIds /\ IsFiniteSet(PassesOf(k))
  BY RowsTyped, FS_Subset DEF PassesOf
<1>2. \A p \in PassesOf(k) : Worth[p] = Price[passes[p].tier] /\ Worth[p] \in Nat
  BY <1>1, RowsTyped, TableAssumption DEF Worth
<1>3. Revenue(PassesOf(k)) = Revenue(unpaid) + Revenue(PassesOf(k) \ unpaid)
  <2>1. unpaid \in SUBSET PassesOf(k)
    OBVIOUS
  <2> HIDE DEF unpaid
  <2>2. QED
    BY <1>1, <1>2, <2>1, SumSplits DEF Revenue
<1> DEFINE h == [e \in records |-> e.pass]
<1>4. \A e, d \in records : h[e] = h[d] => e = d
  BY DEF EarningsMatchSales
<1>5. {h[e] : e \in records} = PassesOf(k) \ unpaid
  <2>1. \A e \in records : h[e] \in PassesOf(k) \ unpaid
    BY <1>1 DEF EarningsMatchSales
  <2>2. ASSUME NEW p \in PassesOf(k) \ unpaid
        PROVE  \E e \in records : h[e] = p
    <3>1. PICK e \in earnings : e.pass = p
      BY <1>1 DEF EarningsMatchSales
    <3>2. QED
      BY <3>1
  <2> HIDE DEF h, records, unpaid
  <2>3. \A p : p \in {h[e] : e \in records} <=> p \in PassesOf(k) \ unpaid
    BY <2>1, <2>2
  <2>4. QED
    BY <2>3
<1>6. IsFiniteSet(records)
  <2>1. h \in Injection(records, PassesOf(k))
    BY <1>4 DEF Injection, IsInjective
  <2> HIDE DEF h, records
  <2>2. QED
    BY <1>1, <2>1, FS_Injection
<1>7. \A e \in records : Amount[e] \in Nat /\ Amount[e] = Worth[h[e]]
  BY <1>2 DEF Amount
<1>8. SumFunctionOnSet(Amount, records) = Revenue(PassesOf(k) \ unpaid)
  <2> HIDE DEF h, records, unpaid
  <2>1. SumFunctionOnSet(Amount, records) = SumFunctionOnSet(Worth, {h[e] : e \in records})
    BY <1>4, <1>6, <1>7, SumCarried
  <2>2. QED
    BY <1>5, <2>1 DEF Revenue
<1>9. Revenue(unpaid) \in Nat /\ Revenue(PassesOf(k) \ unpaid) \in Nat
  <2>1. unpaid \in SUBSET PassesOf(k) /\ PassesOf(k) \ unpaid \in SUBSET PassesOf(k)
    OBVIOUS
  <2> HIDE DEF unpaid
  <2>2. QED
    BY <1>1, <1>2, <2>1, SumIsNat DEF Revenue
<1>10. QED
  BY <1>3, <1>8, <1>9

(* The figures a creator is shown agree with each other and with the       *)
(* books, for every period, price and number of passes: each purchase is   *)
(* in exactly one day of its chart, the last column of the growth chart    *)
(* counts the active passes, churn and retention split the same            *)
(* subscribers, and what getRevenue shows beyond the earnings records is   *)
(* the price of trials and of passes that tier changes made.               *)
THEOREM FiguresSound == Spec => []FiguresAgree
<1>1. ASSUME TypeInv, DatedInv, SalesInv
      PROVE  FiguresAgree
  BY <1>1, DaysSound, GrowthSound, ChurnSound, RevenueSound DEF FiguresAgree, SalesInv
<1>2. TypeInv /\ DatedInv /\ SalesInv => FiguresAgree
  BY <1>1
<1>3. QED
  BY DatedAlways, SalesInvAlways, <1>2, PTL
=============================================================================
