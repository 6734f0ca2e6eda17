------------------------ MODULE PassLifecycleProofs ------------------------
(***************************************************************************)
(* What TLAPS proves of PassLifecycle, for every set of fans, tiers and    *)
(* actors and every value of the bounds.                                   *)
(***************************************************************************)
EXTENDS PassLifecycle, SequenceTheorems, TLAPS

-----------------------------------------------------------------------------
(* Type correctness.                                                       *)

(* What the requests in flight hold agrees with the table they will write. *)

(* A pass that was sold, and not as a trial, lasts as long as its tier     *)
(* says.                                                                   *)
FullTerm(row) ==
  row.via # "change" /\ ~ row.trialUsed
    => row.expiresAt = row.purchasedAt + Duration[row.tier]

(* A row built to replace pass p, or none when p = 0, by the handler via.  *)
Fresh(row, fan, via, p) ==
  /\ row.fan = fan /\ row.via = via /\ row.from = p /\ row.supersededBy = 0
  /\ FullTerm(row)

PurchaseSound(w) ==
  purchase[w].op = "bundle" =>
    \A i \in DOMAIN purchase[w].rows :
      Fresh(purchase[w].rows[i], purchase[w].fan, "bundle", 0)

(* What request q paid for follows from the pass it gives up.              *)
Prorated(q, old) ==
  /\ Computable(Duration[old.tier], Price[q.tier])
  /\ q.days = ConvertedDays(Price[old.tier], Duration[old.tier],
                            q.at - old.purchasedAt, Price[q.tier], Duration[q.tier])
  /\ q.at <= old.expiresAt

ChangeSound(c) ==
  change[c].op = "change" =>
    /\ change[c].pass \in PassIds
    /\ LET old == passes[change[c].pass]
       IN  /\ change[c].fan = old.fan /\ change[c].trialUsed = old.trialUsed
           /\ Prorated(change[c], old)

RunSound(r) ==
  /\ run[r].pc \notin {"idle", "loop"} => run[r].cur \in PassIds
  /\ run[r].pc = "minted" /\ run[r].open =>
       /\ Len(run[r].built) = 1
       /\ Fresh(run[r].built[1], passes[run[r].cur].fan, "renewal", run[r].cur)

RequestsSound ==
  /\ \A w \in Purchasers : PurchaseSound(w)
  /\ \A c \in Changers : ChangeSound(c)
  /\ \A r \in Renewers : RunSound(r)

(* Type correctness is inductive together with that: a commit writes what  *)
(* an earlier step has read or built.                                      *)
TypeInv ==
  /\ TypeOK
  /\ Len(passes) <= MaxPasses
  /\ RequestsSound

(* The rows the handlers build are Pass rows.                              *)
LEMMA NewPassType ==
  ASSUME NEW t \in Tiers, NEW f \in Fans, NEW at \in Nat, NEW days \in Nat,
         NEW trial \in BOOLEAN, NEW via \in Origins, NEW from \in Nat
  PROVE  NewPass(t, f, at, days, trial, via, from) \in Pass
BY DEF NewPass, Pass

LEMMA NewFresh ==
  ASSUME NEW t, NEW f, NEW at, NEW days, NEW trial, NEW via, NEW from,
         trial \/ via = "change" \/ days = Duration[t]
  PROVE  Fresh(NewPass(t, f, at, days, trial, via, from), f, via, from)
BY DEF Fresh, FullTerm, NewPass

(* What history notes in a row leaves the rest of it alone.                *)
LEMMA FoundNoted ==
  ASSUME NEW x \in Pass, NEW n \in Nat
  PROVE  LET y == [x EXCEPT !.found = n]
         IN  /\ y \in Pass /\ y.found = n /\ y.seen = x.seen
             /\ y.tier = x.tier /\ y.fan = x.fan /\ y.purchasedAt = x.purchasedAt
             /\ y.expiresAt = x.expiresAt /\ y.active = x.active
             /\ y.trialUsed = x.trialUsed /\ y.autoRenew = x.autoRenew
             /\ y.supersededBy = x.supersededBy /\ y.via = x.via /\ y.from = x.from
BY DEF Pass

LEMMA SeenNoted ==
  ASSUME NEW x \in Pass, NEW n \in Nat
  PROVE  LET y == [x EXCEPT !.seen = n]
         IN  /\ y \in Pass /\ y.seen = n /\ y.found = x.found
             /\ y.tier = x.tier /\ y.fan = x.fan /\ y.purchasedAt = x.purchasedAt
             /\ y.expiresAt = x.expiresAt /\ y.active = x.active
             /\ y.trialUsed = x.trialUsed /\ y.autoRenew = x.autoRenew
             /\ y.supersededBy = x.supersededBy /\ y.via = x.via /\ y.from = x.from
BY DEF Pass

(* What a row that is sold is like.                                        *)
LEMMA SoldRow ==
  ASSUME passes \in Seq(Pass), NEW t \in Tiers, NEW f \in Fans, NEW at \in Nat,
         NEW via \in Origins, NEW from \in Nat
  PROVE  LET row == SoldPass(t, f, at, via, from)
         IN  /\ row \in Pass /\ Fresh(row, f, via, from)
             /\ row.tier = t /\ row.purchasedAt = at /\ row.active
             /\ row.expiresAt = at + (IF FirstSaleIsTrial(f, t)
                                      THEN TrialDays[t] ELSE Duration[t])
             /\ row.trialUsed = FirstSaleIsTrial(f, t) /\ row.seen = Len(passes)
<1> DEFINE trial == FirstSaleIsTrial(f, t)
           days == IF trial THEN TrialDays[t] ELSE Duration[t]
           new == NewPass(t, f, at, days, trial, via, from)
<1>1. trial \in BOOLEAN
  BY DEF FirstSaleIsTrial
<1>2. days \in Nat /\ Len(passes) \in Nat
  BY TableAssumption, LenProperties
<1>3. new \in Pass
  BY <1>1, <1>2, NewPassType
<1>4. /\ new.tier = t /\ new.fan = f /\ new.purchasedAt = at /\ new.active
      /\ new.expiresAt = at + days /\ new.trialUsed = trial
      /\ Fresh(new, f, via, from)
  BY NewFresh DEF NewPass
<1>5. SoldPass(t, f, at, via, from) = [new EXCEPT !.seen = Len(passes)]
  BY DEF SoldPass
<1> HIDE DEF new
<1>6. PICK row : row = [new EXCEPT !.seen = Len(passes)]
  OBVIOUS
<1>7. /\ row \in Pass /\ row.tier = t /\ row.fan = f /\ row.purchasedAt = at
      /\ row.active /\ row.expiresAt = at + days /\ row.trialUsed = trial
      /\ row.supersededBy = new.supersededBy /\ row.via = new.via
      /\ row.from = new.from
  BY <1>2, <1>3, <1>4, <1>6, SeenNoted
<1>8. Fresh(row, f, via, from) /\ row.seen = Len(passes)
  BY <1>2, <1>3, <1>4, <1>6, <1>7, SeenNoted DEF Fresh, FullTerm
<1>9. QED
  BY <1>5, <1>6, <1>7, <1>8

(* Integer division, as the provers know it.                               *)
LEMMA DivType == \A m \in Nat, n \in Nat \ {0} : m \div n \in Nat
BY SMT

(* The converted term is a number of days, one at least, whenever the      *)
(* arithmetic of the code is defined.                                      *)
LEMMA ConvertedDaysType ==
  ASSUME NEW oldPrice \in Nat, NEW oldDuration \in Nat, NEW elapsed \in Int,
         NEW newPrice \in Nat, NEW newDuration \in Nat,
         Computable(oldDuration, newPrice)
  PROVE  /\ ConvertedDays(oldPrice, oldDuration, elapsed, newPrice, newDuration) \in Nat
         /\ ConvertedDays(oldPrice, oldDuration, elapsed, newPrice, newDuration) >= 1
<1> DEFINE left == RemainingDays(oldDuration, elapsed)
           days == IF newPrice > 0
                   THEN (oldPrice * left * newDuration) \div (oldDuration * newPrice)
                   ELSE newDuration
<1>1. left \in Nat
  BY DEF RemainingDays
<1>2. days \in Nat
  <2>1. CASE newPrice > 0
    <3>1. oldPrice * left * newDuration \in Nat
      BY <1>1
    <3>2. oldDuration * newPrice \in Nat \ {0}
      BY <2>1 DEF Computable
    <3>3. QED
      BY <2>1, <3>1, <3>2, DivType
  <2>2. CASE ~ (newPrice > 0)
    BY <2>2
  <2>3. QED
    BY <2>1, <2>2
<1>3. ConvertedDays(oldPrice, oldDuration, elapsed, newPrice, newDuration) = AtLeastOne(days)
  BY DEF ConvertedDays
<1> HIDE DEF days
<1>4. QED
  BY <1>2, <1>3 DEF AtLeastOne

LEMMA NoRunType == NoRun \in Run
BY TableAssumption, EmptySeq DEF NoRun, Run, Phases

LEMMA InitTypeInv == Init => TypeInv
<1> SUFFICES ASSUME Init PROVE TypeInv
  OBVIOUS
<1> USE DEF Init, TableInit, PurchaseInit, ChangeInit, RenewalInit, DeletionInit
<1>1. passes \in Seq(Pass) /\ Len(passes) = 0
  BY EmptySeq
<1>2. TableTypeOK
  BY <1>1 DEF TableTypeOK
<1>3. PurchaseTypeOK /\ ChangeTypeOK /\ DeletionTypeOK
  BY DEF PurchaseTypeOK, ChangeTypeOK, DeletionTypeOK
<1>5. RenewalTypeOK
  BY NoRunType DEF RenewalTypeOK
<1>6. Len(passes) <= MaxPasses
  BY <1>1, TableAssumption
<1>7. RequestsSound
  BY DEF RequestsSound, PurchaseSound, ChangeSound, RunSound,
         NoPurchase, NoChange, NoRun
<1>8. QED
  BY <1>2, <1>3, <1>5, <1>6, <1>7 DEF TypeInv, TypeOK

(* Editing the rows in place leaves a table of the same length.            *)
LEMMA EditedTable ==
  ASSUME passes \in Seq(Pass), NEW T, T = [p \in PassIds |-> T[p]],
         \A p \in PassIds : T[p] \in Pass
  PROVE  T \in Seq(Pass) /\ Len(T) = Len(passes) /\ DOMAIN T = PassIds
<1>1. Len(passes) \in Nat /\ PassIds = 1..Len(passes)
  BY LenProperties DEF PassIds
<1>2. T \in [1..Len(passes) -> Pass]
  BY <1>1
<1>3. T \in Seq(Pass)
  BY <1>1, <1>2, SeqDef
<1>4. Len(T) \in Nat /\ DOMAIN T = 1..Len(T)
  BY <1>3, LenProperties
<1>5. QED
  BY <1>1, <1>2, <1>3, <1>4

(* What every step leaves of a row: all but the flags active and           *)
(* autoRenew and the reference to a successor, and active only falls.      *)
RowKept(old, new) ==
  /\ new.tier = old.tier /\ new.fan = old.fan
  /\ new.purchasedAt = old.purchasedAt /\ new.expiresAt = old.expiresAt
  /\ new.trialUsed = old.trialUsed
  /\ new.via = old.via /\ new.from = old.from
  /\ new.found = old.found /\ new.seen = old.seen
  /\ new.active => old.active

(* An edit that does not replace the pass leaves the reference as well.    *)
RowEdited(old, new) == RowKept(old, new) /\ new.supersededBy = old.supersededBy

RowsKept ==
  /\ PassIds \subseteq PassIds'
  /\ \A p \in PassIds : RowKept(passes[p], passes'[p])

(* What SupersededConsistent says of the reference from p to q.            *)
Link(T, p, q) ==
  /\ ~ T[p].active
  /\ q \in DOMAIN T /\ p < q
  /\ T[q].from = p
  /\ T[q].fan = T[p].fan

(* A reference is one that was there, or a sound one.                      *)
LinksSound ==
  \A p \in PassIds' :
    LET q == passes'[p].supersededBy
    IN  q # 0 => \/ p \in PassIds /\ passes[p].supersededBy = q
                 \/ Link(passes', p, q)

(* What every step does to the table.                                      *)
TableStepOK ==
  /\ passes' \in Seq(Pass)
  /\ Len(passes') <= MaxPasses
  /\ RowsKept
  /\ LinksSound
  /\ \A p \in PassIds' : p \notin PassIds => FullTerm(passes'[p])

LEMMA SameTable ==
  ASSUME TypeInv, passes' = passes
  PROVE  TableStepOK
BY DEF TypeInv, TypeOK, TableTypeOK, TableStepOK, RowsKept, RowKept, LinksSound,
       PassIds

LEMMA EditedTableStep ==
  ASSUME TypeInv, passes' = [p \in PassIds |-> passes'[p]],
         \A p \in PassIds : passes'[p] \in Pass /\ RowEdited(passes[p], passes'[p])
  PROVE  TableStepOK
<1>1. passes \in Seq(Pass)
  BY DEF TypeInv, TypeOK, TableTypeOK
<1>2. passes' \in Seq(Pass) /\ Len(passes') = Len(passes) /\ DOMAIN passes' = PassIds
  BY <1>1, EditedTable
<1>3. QED
  BY <1>2 DEF TypeInv, TableStepOK, RowsKept, RowEdited, LinksSound, PassIds

(* Rows are added behind the others.                                       *)
LEMMA AddedRows ==
  ASSUME TypeInv, NEW rows \in Seq(Pass), passes' = passes \o rows,
         Len(passes) + Len(rows) <= MaxPasses,
         \A i \in DOMAIN rows : rows[i].supersededBy = 0 /\ FullTerm(rows[i])
  PROVE  TableStepOK
<1>1. passes \in Seq(Pass)
  BY DEF TypeInv, TypeOK, TableTypeOK
<1>2. /\ passes' \in Seq(Pass) /\ Len(passes') = Len(passes) + Len(rows)
      /\ \A i \in 1..Len(passes) + Len(rows) :
           passes'[i] = IF i <= Len(passes) THEN passes[i] ELSE rows[i - Len(passes)]
  BY <1>1, ConcatProperties
<1>3. /\ Len(passes) \in Nat /\ Len(rows) \in Nat
      /\ PassIds = 1..Len(passes) /\ PassIds' = 1..(Len(passes) + Len(rows))
  BY <1>1, <1>2, LenProperties DEF PassIds
<1>4. \A p \in PassIds : p \in PassIds' /\ passes'[p] = passes[p]
  BY <1>2, <1>3
<1>5. \A p \in PassIds' :
        p \notin PassIds => passes'[p].supersededBy = 0 /\ FullTerm(passes'[p])
  <2> SUFFICES ASSUME NEW p \in PassIds', p \notin PassIds
               PROVE  passes'[p].supersededBy = 0 /\ FullTerm(passes'[p])
    OBVIOUS
  <2>1. passes'[p] = rows[p - Len(passes)] /\ p - Len(passes) \in 1..Len(rows)
    BY <1>2, <1>3
  <2>2. QED
    BY <2>1, LenProperties
<1>6. QED
  BY <1>2, <1>4, <1>5 DEF TableStepOK, RowsKept, RowKept, LinksSound

(* The ids that rows added behind the others get.                          *)
LEMMA AddedIds ==
  ASSUME passes \in Seq(Pass), NEW rows \in Seq(Pass), passes' = passes \o rows
  PROVE  /\ NewIds = {Len(passes) + i : i \in DOMAIN rows}
         /\ \A i \in DOMAIN rows : passes'[Len(passes) + i] = rows[i]
<1>1. /\ passes' \in Seq(Pass) /\ Len(passes') = Len(passes) + Len(rows)
      /\ \A i \in 1..Len(passes) + Len(rows) :
           passes'[i] = IF i <= Len(passes) THEN passes[i] ELSE rows[i - Len(passes)]
  BY ConcatProperties
<1>2. /\ Len(passes) \in Nat /\ Len(rows) \in Nat
      /\ DOMAIN passes = 1..Len(passes) /\ DOMAIN rows = 1..Len(rows)
      /\ DOMAIN passes' = 1..(Len(passes) + Len(rows))
  BY <1>1, LenProperties
<1>3. \A i \in DOMAIN rows : passes'[Len(passes) + i] = rows[i]
  <2> SUFFICES ASSUME NEW i \in DOMAIN rows
               PROVE  passes'[Len(passes) + i] = rows[i]
    OBVIOUS
  <2>1. /\ Len(passes) + i \in 1..Len(passes) + Len(rows)
        /\ ~ (Len(passes) + i <= Len(passes))
        /\ (Len(passes) + i) - Len(passes) = i
    BY <1>2
  <2>2. QED
    BY <1>1, <2>1
<1>4. ASSUME NEW p \in NewIds
      PROVE  \E i \in DOMAIN rows : p = Len(passes) + i
  <2>1. p \in Nat /\ Len(passes) < p /\ p <= Len(passes) + Len(rows)
    BY <1>2 DEF NewIds, PassIds
  <2>2. p - Len(passes) \in DOMAIN rows /\ p = Len(passes) + (p - Len(passes))
    BY <1>2, <2>1
  <2>3. QED
    BY <2>2
<1>5. ASSUME NEW i \in DOMAIN rows
      PROVE  Len(passes) + i \in NewIds
  BY <1>2 DEF NewIds, PassIds
<1>6. QED
  BY <1>3, <1>4, <1>5

(* A row with some of those three columns written is still such a row.     *)
LEMMA RowSuperseded ==
  ASSUME NEW r \in Pass, NEW s \in Nat
  PROVE  LET new == [r EXCEPT !.active = FALSE, !.supersededBy = s]
         IN  /\ new \in Pass
             /\ RowKept(r, new) /\ ~ new.active
<1>1. [r EXCEPT !.active = FALSE, !.supersededBy = s] \in Pass
  BY DEF Pass
<1>2. RowKept(r, [r EXCEPT !.active = FALSE, !.supersededBy = s])
  BY DEF Pass, RowKept
<1>3. ~ [r EXCEPT !.active = FALSE, !.supersededBy = s].active
  BY DEF Pass
<1>4. QED
  BY <1>1, <1>2, <1>3

LEMMA RowClosed ==
  ASSUME NEW r \in Pass, NEW b \in BOOLEAN
  PROVE  /\ [r EXCEPT !.active = @ /\ b] \in Pass
         /\ RowEdited(r, [r EXCEPT !.active = @ /\ b])
<1>1. [r EXCEPT !.active = @ /\ b] \in Pass
  BY DEF Pass
<1>2. RowEdited(r, [r EXCEPT !.active = @ /\ b])
  BY DEF Pass, RowKept, RowEdited
<1>3. QED
  BY <1>1, <1>2

LEMMA RowRenewEdited ==
  ASSUME NEW r \in Pass, NEW b \in BOOLEAN
  PROVE  /\ [r EXCEPT !.autoRenew = b] \in Pass
         /\ RowEdited(r, [r EXCEPT !.autoRenew = b])
<1>1. [r EXCEPT !.autoRenew = b] \in Pass
  BY DEF Pass
<1>2. RowEdited(r, [r EXCEPT !.autoRenew = b])
  BY DEF Pass, RowKept, RowEdited
<1>3. QED
  BY <1>1, <1>2

LEMMA ReplacedRow ==
  ASSUME TypeInv, NEW p \in PassIds, NEW row \in Pass, NEW via,
         Fresh(row, passes[p].fan, via, p),
         passes' = Replace(p, row), RoomToReplace
  PROVE  /\ TableStepOK
         /\ NewIds = {Len(passes) + 1} /\ passes'[Len(passes) + 1] = row
<1> DEFINE new == Len(passes) + 1
           closed == [passes EXCEPT ![p].active = FALSE, ![p].supersededBy = new]
<1>1. passes \in Seq(Pass) /\ Len(passes) \in Nat /\ PassIds = 1..Len(passes)
  BY LenProperties DEF TypeInv, TypeOK, TableTypeOK, PassIds
<1>2. \A q \in PassIds : passes[q] \in Pass
  BY <1>1, ElementOfSeq
<1>3. closed = [q \in PassIds |-> closed[q]]
  BY <1>1 DEF PassIds
<1>4. closed[p] = [passes[p] EXCEPT !.active = FALSE, !.supersededBy = new]
  BY DEF PassIds
<1>5. \A q \in PassIds : q # p => closed[q] = passes[q]
  BY DEF PassIds
<1>6. passes' = Append(closed, row)
  BY DEF Replace
<1>7. new \in Nat
  BY <1>1
<1> HIDE DEF closed, new
<1>8. closed[p] \in Pass /\ RowKept(passes[p], closed[p]) /\ ~ closed[p].active
  <2> DEFINE row1 == [passes[p] EXCEPT !.active = FALSE, !.supersededBy = new]
  <2>1. row1 \in Pass /\ RowKept(passes[p], row1) /\ ~ row1.active
    BY <1>2, <1>7, RowSuperseded
  <2> HIDE DEF row1
  <2>2. QED
    BY <1>4, <2>1 DEF row1
<1>9. \A q \in PassIds : closed[q] \in Pass /\ RowKept(passes[q], closed[q])
  BY <1>2, <1>5, <1>8 DEF RowKept
<1>10. closed \in Seq(Pass) /\ Len(closed) = Len(passes) /\ DOMAIN closed = PassIds
  BY <1>1, <1>3, <1>9, EditedTable
<1>11. /\ passes' \in Seq(Pass) /\ Len(passes') = Len(passes) + 1
       /\ \A q \in PassIds : passes'[q] = closed[q]
       /\ passes'[new] = row
  BY <1>1, <1>6, <1>10, AppendProperties DEF new
<1>12. PassIds' = PassIds \cup {new} /\ p < new
  BY <1>1, <1>11, LenProperties DEF PassIds, new
<1>13. Len(passes') <= MaxPasses
  BY <1>1, <1>11, TableAssumption DEF RoomToReplace
<1>14. LinksSound
  <2> SUFFICES ASSUME NEW q \in PassIds', passes'[q].supersededBy # 0,
                      ~ (q \in PassIds /\ passes[q].supersededBy = passes'[q].supersededBy)
               PROVE  Link(passes', q, passes'[q].supersededBy)
    BY DEF LinksSound
  <2>1. q # new
    BY <1>11 DEF Fresh
  <2>2. q = p
    BY <1>5, <1>11, <1>12, <2>1
  <2>3. passes'[p].supersededBy = new
    BY <1>2, <1>4, <1>11 DEF Pass
  <2>4. passes'[p].fan = passes[p].fan /\ ~ passes'[p].active
    BY <1>8, <1>11 DEF RowKept
  <2>5. new \in DOMAIN passes'
    BY <1>12 DEF PassIds
  <2>6. QED
    BY <1>11, <1>12, <2>2, <2>3, <2>4, <2>5 DEF Link, Fresh
<1>15. TableStepOK
  <2>1. \A q \in PassIds' : q \notin PassIds => FullTerm(passes'[q])
    BY <1>11, <1>12 DEF Fresh
  <2>2. RowsKept
    BY <1>9, <1>11, <1>12 DEF RowsKept
  <2>3. QED
    BY <1>11, <1>13, <1>14, <2>1, <2>2 DEF TableStepOK
<1>16. NewIds = {new}
  BY <1>1, <1>12 DEF NewIds, PassIds, new
<1>17. QED
  BY <1>11, <1>15, <1>16 DEF new

-----------------------------------------------------------------------------
(* A request stays sound under the steps of the others.                    *)
LEMMA PurchasesKept ==
  ASSUME TypeInv, UNCHANGED purchase
  PROVE  \A w \in Purchasers : PurchaseSound(w)'
BY DEF TypeInv, RequestsSound, PurchaseSound

LEMMA ChangeKept ==
  ASSUME TypeInv, TableStepOK, NEW c \in Changers, change'[c] = change[c]
  PROVE  ChangeSound(c)'
<1> SUFFICES ASSUME change[c].op = "change"
             PROVE  ChangeSound(c)'
  BY DEF ChangeSound
<1>1. PICK p : p = change[c].pass
  OBVIOUS
<1>2. /\ p \in PassIds /\ Prorated(change[c], passes[p])
      /\ change[c].fan = passes[p].fan /\ change[c].trialUsed = passes[p].trialUsed
  BY <1>1 DEF TypeInv, RequestsSound, ChangeSound
<1>3. p \in PassIds' /\ RowKept(passes[p], passes'[p])
  BY <1>2 DEF TableStepOK, RowsKept
<1>4. /\ Prorated(change[c], passes'[p])
      /\ change[c].fan = passes'[p].fan /\ change[c].trialUsed = passes'[p].trialUsed
  BY <1>2, <1>3 DEF Prorated, RowKept
<1>5. QED
  BY <1>1, <1>3, <1>4 DEF ChangeSound, Prorated

LEMMA ChangesKept ==
  ASSUME TypeInv, TableStepOK, UNCHANGED change
  PROVE  \A c \in Changers : ChangeSound(c)'
BY ChangeKept

LEMMA RunsKept ==
  ASSUME TypeInv, TableStepOK, NEW r \in Renewers, run'[r] = run[r]
  PROVE  RunSound(r)'
BY DEF TypeInv, RequestsSound, RunSound, TableStepOK, RowsKept, RowKept

LEMMA TableTypeStep ==
  ASSUME TypeInv, TableNext,
         UNCHANGED <<purchaseVars, changeVars, renewalVars, deletionVars>>
  PROVE  TypeInv' /\ TableStepOK
<1> USE DEF tableVars, purchaseVars, changeVars, renewalVars, deletionVars
<1>1. /\ TableTypeOK /\ PurchaseTypeOK /\ ChangeTypeOK /\ RenewalTypeOK
      /\ DeletionTypeOK
  BY DEF TypeInv, TypeOK
<1>2. \A p \in PassIds : passes[p] \in Pass
  BY <1>1, ElementOfSeq, LenProperties DEF TableTypeOK, PassIds
<1>3. PurchaseTypeOK' /\ ChangeTypeOK' /\ RenewalTypeOK' /\ DeletionTypeOK'
  BY <1>1 DEF PurchaseTypeOK, ChangeTypeOK, RenewalTypeOK, DeletionTypeOK
<1>4. SUFFICES TableStepOK /\ TableTypeOK'
  BY <1>3, PurchasesKept, ChangesKept, RunsKept
     DEF TypeInv, TypeOK, TableStepOK, RequestsSound
<1>5. CASE Tick
  BY <1>1, <1>5, SameTable DEF Tick, TableTypeOK
<1>6. ASSUME NEW b \in Blockable, BlockFan(b[1], b[2]) \/ UnblockFan(b[1], b[2])
      PROVE  TableStepOK /\ TableTypeOK'
  <2>1. <<b[1], b[2]>> \in Creators \X Fans
    BY TableAssumption
  <2>2. QED
    BY <1>1, <1>6, <2>1, SameTable DEF BlockFan, UnblockFan, TableTypeOK
<1>7. ASSUME NEW t \in Synced, DeactivateTier(t) \/ ReactivateTier(t)
      PROVE  TableStepOK /\ TableTypeOK'
  BY <1>1, <1>7, TableAssumption, SameTable
     DEF DeactivateTier, ReactivateTier, TableTypeOK
<1>8. CASE DeactivateExpiredPasses
  <2>1. \A p \in PassIds : passes'[p] \in Pass /\ RowEdited(passes[p], passes'[p])
    <3> SUFFICES ASSUME NEW p \in PassIds
                 PROVE  passes'[p] \in Pass /\ RowEdited(passes[p], passes'[p])
      OBVIOUS
    <3>1. passes'[p] = [passes[p] EXCEPT !.active = @ /\ p \notin Expired]
      BY <1>8 DEF DeactivateExpiredPasses
    <3>2. (p \notin Expired) \in BOOLEAN
      OBVIOUS
    <3>3. QED
      BY <1>2, <3>1, <3>2, RowClosed
  <2>2. passes' = [p \in PassIds |-> passes'[p]]
    BY <1>8 DEF DeactivateExpiredPasses
  <2>3. QED
    BY <1>1, <1>8, <2>1, <2>2, EditedTableStep
       DEF DeactivateExpiredPasses, TableTypeOK, TableStepOK
<1>9. ASSUME NEW q \in PassIds, NEW b \in BOOLEAN, ToggleAutoRenew(q, b)
      PROVE  TableStepOK /\ TableTypeOK'
  <2>1. \A p \in PassIds : passes'[p] \in Pass /\ RowEdited(passes[p], passes'[p])
    <3> SUFFICES ASSUME NEW p \in PassIds
                 PROVE  passes'[p] \in Pass /\ RowEdited(passes[p], passes'[p])
      OBVIOUS
    <3>1. passes'[p] = IF p = q THEN [passes[p] EXCEPT !.autoRenew = b] ELSE passes[p]
      BY <1>9 DEF ToggleAutoRenew, PassIds
    <3>2. QED
      BY <1>2, <3>1, RowRenewEdited DEF RowKept, RowEdited
  <2>2. passes' = [p \in PassIds |-> passes'[p]]
    BY <1>1, <1>9 DEF ToggleAutoRenew, PassIds, TableTypeOK
  <2>3. QED
    BY <1>1, <1>9, <2>1, <2>2, EditedTableStep
       DEF ToggleAutoRenew, TableTypeOK, TableStepOK
<1>10. QED
  BY <1>5, <1>6, <1>7, <1>8, <1>9 DEF TableNext

LEMMA PurchaseTypeStep ==
  ASSUME TypeInv, PurchaseNext,
         UNCHANGED <<changeVars, renewalVars, deletionVars>>
  PROVE  TypeInv' /\ TableStepOK
<1> USE DEF tableVars, changeVars, renewalVars, deletionVars
<1>1. /\ TableTypeOK /\ PurchaseTypeOK /\ ChangeTypeOK /\ RenewalTypeOK
      /\ DeletionTypeOK
  BY DEF TypeInv, TypeOK
<1>2. ChangeTypeOK' /\ RenewalTypeOK' /\ DeletionTypeOK'
  BY <1>1 DEF ChangeTypeOK, RenewalTypeOK, DeletionTypeOK
<1>3. SUFFICES /\ TableStepOK /\ TableTypeOK' /\ PurchaseTypeOK'
               /\ \A v \in Purchasers : PurchaseSound(v)'
  BY <1>2, ChangesKept, RunsKept
     DEF TypeInv, TypeOK, TableStepOK, RequestsSound
<1>4. \A w \in Purchasers :
        /\ purchase[w] \in {NoPurchase} \cup GiftRequest \cup BundleRequest
        /\ purchase[w].op = "gift" => purchase[w] \in GiftRequest
        /\ purchase[w].op = "bundle" => purchase[w] \in BundleRequest
  BY <1>1 DEF PurchaseTypeOK, NoPurchase, GiftRequest, BundleRequest
<1>5. /\ Len(passes) \in Nat /\ MaxSales \in Nat /\ MaxPasses \in Nat
      /\ MaxSales <= MaxPasses
  BY <1>1, LenProperties, TableAssumption DEF TableTypeOK
<1>6. ASSUME UNCHANGED tableVars
      PROVE  TableStepOK /\ TableTypeOK'
  BY <1>1, <1>6, SameTable DEF TableTypeOK
<1>7. ASSUME NEW w \in Purchasers, End(w)
      PROVE  PurchaseTypeOK' /\ \A v \in Purchasers : PurchaseSound(v)'
  BY <1>1, <1>7 DEF End, PurchaseTypeOK, TypeInv, RequestsSound, PurchaseSound,
                    NoPurchase
<1>8. ASSUME NEW w \in Purchasers, NEW t \in Tiers, NEW s \in Fans,
             NEW r \in Fans, GiftRead(w, t, s, r)
      PROVE  /\ TableStepOK /\ TableTypeOK' /\ PurchaseTypeOK'
              /\ \A v \in Purchasers : PurchaseSound(v)'
  <2>1. [op |-> "gift", tier |-> t, sender |-> s, recipient |-> r, at |-> now]
          \in GiftRequest
    BY <1>1 DEF GiftRequest, TableTypeOK
  <2>2. PurchaseTypeOK' /\ \A v \in Purchasers : PurchaseSound(v)'
    BY <1>1, <1>8, <2>1 DEF GiftRead, PurchaseTypeOK, TypeInv, RequestsSound,
                            PurchaseSound
  <2>3. QED
    BY <1>6, <1>8, <2>2 DEF GiftRead
<1>9. ASSUME NEW w \in Purchasers, GiftCommit(w)
      PROVE  /\ TableStepOK /\ TableTypeOK' /\ PurchaseTypeOK'
              /\ \A v \in Purchasers : PurchaseSound(v)'
  <2> DEFINE g == purchase[w]
             row == GiftedPass(g)
  <2>1. g \in GiftRequest
    BY <1>4, <1>9 DEF GiftCommit
  <2>2. row \in Pass
    <3>1. /\ g.tier \in Tiers /\ g.recipient \in Fans /\ g.at \in Nat
          /\ Duration[g.tier] \in Nat
      BY <2>1, TableAssumption DEF GiftRequest
    <3>2. "gift" \in Origins
      BY DEF Origins
    <3>3. QED
      BY <3>1, <3>2, NewPassType DEF GiftedPass
  <2>3. passes' = Append(passes, row) /\ RoomToSell(1)
    BY <1>9 DEF GiftCommit
  <2>4. passes' = passes \o <<row>> /\ <<row>> \in Seq(Pass) /\ Len(<<row>>) = 1
    BY <1>1, <2>2, <2>3, AppendIsConcat DEF TableTypeOK
  <2>5. TableStepOK
    <3>1. Len(passes) + Len(<<row>>) <= MaxPasses
      BY <1>5, <2>3, <2>4 DEF RoomToSell
    <3>2. Fresh(row, g.recipient, "gift", 0)
      BY NewFresh DEF GiftedPass
    <3> HIDE DEF row
    <3>4. \A i \in DOMAIN <<row>> : <<row>>[i].supersededBy = 0 /\ FullTerm(<<row>>[i])
      BY <3>2 DEF Fresh
    <3>3. QED
      BY <2>4, <3>1, <3>4, AddedRows
  <2>6. earnings' \in SUBSET Earning
    <3>1. [pass |-> Len(passes) + 1, payer |-> g.sender] \in Earning
      BY <1>5, <2>1 DEF Earning, GiftRequest
    <3>2. QED
      BY <1>1, <1>9, <3>1 DEF GiftCommit, TableTypeOK
  <2>7. TableTypeOK'
    BY <1>1, <1>9, <2>5, <2>6 DEF GiftCommit, TableTypeOK, TableStepOK
  <2>8. QED
    BY <1>7, <1>9, <2>5, <2>7 DEF GiftCommit
<1>10. ASSUME NEW w \in Purchasers, NEW ids \in BundleIds, NEW f \in Fans,
              BundleRead(w, ids, f)
       PROVE  /\ TableStepOK /\ TableTypeOK' /\ PurchaseTypeOK'
              /\ \A v \in Purchasers : PurchaseSound(v)'
  <2>1. ids \in SUBSET Nat /\ TiersFor(ids) \in SUBSET Tiers
    BY <1>1, TableAssumption DEF BundleIds, TiersFor, TableTypeOK
  <2>2. [op |-> "bundle", fan |-> f, asked |-> ids, todo |-> TiersFor(ids),
         rows |-> <<>>, at |-> now] \in BundleRequest
    BY <1>1, <2>1, EmptySeq DEF BundleRequest, TableTypeOK
  <2>3. PurchaseTypeOK' /\ \A v \in Purchasers : PurchaseSound(v)'
    BY <1>1, <1>10, <2>2 DEF BundleRead, PurchaseTypeOK, TypeInv, RequestsSound,
                             PurchaseSound
  <2>4. QED
    BY <1>6, <1>10, <2>3 DEF BundleRead
<1>11. ASSUME NEW w \in Purchasers, NEW t \in Tiers, BundleMint(w, t)
       PROVE  /\ TableStepOK /\ TableTypeOK' /\ PurchaseTypeOK'
              /\ \A v \in Purchasers : PurchaseSound(v)'
  <2> DEFINE b == purchase[w]
             row == SoldPass(t, b.fan, b.at, "bundle", 0)
  <2>1. b \in BundleRequest
    BY <1>4, <1>11 DEF BundleMint
  <2>2. row \in Pass
    <3>1. b.fan \in Fans /\ b.at \in Nat /\ "bundle" \in Origins
      BY <2>1 DEF BundleRequest, Origins
    <3>2. QED
      BY <1>1, <3>1, SoldRow DEF TableTypeOK
  <2>3. Append(b.rows, row) \in Seq(Pass)
    <3> HIDE DEF row
    <3>1. b.rows \in Seq(Pass)
      BY <2>1 DEF BundleRequest
    <3>2. QED
      BY <2>2, <3>1, AppendProperties
  <2>4. purchase' = [purchase EXCEPT ![w] =
                       [b EXCEPT !.todo = @ \ {t}, !.rows = Append(@, row)]]
    <3> HIDE DEF row
    <3>1. purchase' = [purchase EXCEPT ![w].todo = @ \ {t},
                                       ![w].rows = Append(@, row)]
      BY <1>11 DEF BundleMint, row
    <3>2. QED
      BY <1>1, <3>1 DEF PurchaseTypeOK
  <2>5. [b EXCEPT !.todo = @ \ {t}, !.rows = Append(@, row)] \in BundleRequest
    <3> HIDE DEF row
    <3>1. QED
      BY <2>1, <2>3 DEF BundleRequest
  <2>6. PurchaseTypeOK'
    <3> HIDE DEF row, b
    <3>1. QED
      BY <1>1, <2>4, <2>5 DEF PurchaseTypeOK
  <2>7. \A v \in Purchasers : PurchaseSound(v)'
    <3>1. Fresh(row, b.fan, "bundle", 0)
      BY <1>1, <2>1, SoldRow DEF BundleRequest, Origins, TableTypeOK
    <3>2. \A i \in DOMAIN b.rows : Fresh(b.rows[i], b.fan, "bundle", 0)
      BY <1>11 DEF BundleMint, TypeInv, RequestsSound, PurchaseSound
    <3> HIDE DEF row
    <3>3. b.rows \in Seq(Pass)
      BY <2>1 DEF BundleRequest
    <3>4. \A i \in DOMAIN Append(b.rows, row) :
            Fresh(Append(b.rows, row)[i], b.fan, "bundle", 0)
      BY <2>2, <2>3, <3>1, <3>2, <3>3, AppendProperties, LenProperties
    <3>5. /\ purchase'[w].rows = Append(b.rows, row) /\ purchase'[w].fan = b.fan
      BY <1>1, <2>1, <2>4 DEF PurchaseTypeOK, BundleRequest
    <3>6. \A v \in Purchasers : v # w => purchase'[v] = purchase[v]
      BY <1>1, <2>4 DEF PurchaseTypeOK
    <3> HIDE DEF b
    <3>7. QED
      BY <3>4, <3>5, <3>6 DEF TypeInv, RequestsSound, PurchaseSound
  <2>8. QED
    BY <1>6, <1>11, <2>6, <2>7 DEF BundleMint
<1>12. ASSUME NEW w \in Purchasers, NEW t \in Tiers, BundleRefuse(w, t)
       PROVE  /\ TableStepOK /\ TableTypeOK' /\ PurchaseTypeOK'
              /\ \A v \in Purchasers : PurchaseSound(v)'
  BY <1>6, <1>7, <1>12 DEF BundleRefuse
<1>13. ASSUME NEW w \in Purchasers, BundleCommit(w)
       PROVE  /\ TableStepOK /\ TableTypeOK' /\ PurchaseTypeOK'
              /\ \A v \in Purchasers : PurchaseSound(v)'
  <2> DEFINE b == purchase[w]
  <2>1. b \in BundleRequest
    BY <1>4, <1>13 DEF BundleCommit
  <2>2. b.rows \in Seq(Pass) /\ b.fan \in Fans /\ Len(b.rows) \in Nat
    BY <2>1, LenProperties DEF BundleRequest
  <2>3. passes' = passes \o b.rows /\ RoomToSell(Len(b.rows))
    BY <1>13 DEF BundleCommit
  <2>4. TableStepOK
    <3>1. Len(passes) + Len(b.rows) <= MaxPasses
      BY <1>5, <2>2, <2>3 DEF RoomToSell
    <3>2. \A i \in DOMAIN b.rows : b.rows[i].supersededBy = 0 /\ FullTerm(b.rows[i])
      BY <1>13 DEF BundleCommit, TypeInv, RequestsSound, PurchaseSound, Fresh
    <3> HIDE DEF b
    <3>3. QED
      BY <2>2, <2>3, <3>1, <3>2, AddedRows
  <2>5. earnings' \in SUBSET Earning
    <3>1. \A i \in Charged(b.rows) :
            [pass |-> Len(passes) + i, payer |-> b.fan] \in Earning
      BY <1>5, <2>2, LenProperties DEF Charged, Earning
    <3>2. earnings' = earnings \cup
            {[pass |-> Len(passes) + i, payer |-> b.fan] : i \in Charged(b.rows)}
      BY <1>13 DEF BundleCommit
    <3> HIDE DEF b
    <3>3. QED
      BY <1>1, <3>1, <3>2 DEF TableTypeOK
  <2>6. TableTypeOK'
    BY <1>1, <1>13, <2>4, <2>5 DEF BundleCommit, TableTypeOK, TableStepOK
  <2>7. QED
    BY <1>7, <1>13, <2>4, <2>6 DEF BundleCommit
<1>14. ASSUME NEW w \in Purchasers, PurchaseFails(w)
       PROVE  /\ TableStepOK /\ TableTypeOK' /\ PurchaseTypeOK'
              /\ \A v \in Purchasers : PurchaseSound(v)'
  BY <1>6, <1>7, <1>14 DEF PurchaseFails
<1>15. QED
  BY <1>8, <1>9, <1>10, <1>11, <1>12, <1>13, <1>14 DEF PurchaseNext

(* The row that a change commits.                                          *)
LEMMA ChangedRow ==
  ASSUME TypeInv, NEW c \in Changers, ChangeCommit(c)
  PROVE  /\ change[c].pass \in PassIds /\ RoomToReplace
         /\ \E row \in Pass :
              /\ Fresh(row, passes[change[c].pass].fan, "change", change[c].pass)
              /\ row.purchasedAt = change[c].at /\ row.found = change[c].found
              /\ passes' = Replace(change[c].pass, row)
<1> DEFINE q == change[c]
           new == NewPass(q.tier, q.fan, q.at, q.days, q.trialUsed, "change", q.pass)
           row == [new EXCEPT !.autoRenew = q.autoRenew, !.found = q.found]
<1>1. q \in ChangeRequest /\ q.pass \in PassIds
  BY DEF ChangeCommit, ChangeTypeOK, NoChange, TypeInv, TypeOK,
         RequestsSound, ChangeSound
<1>2. new \in Pass /\ q.autoRenew \in BOOLEAN /\ q.found \in Nat
  <2>1. /\ q.tier \in Tiers /\ q.fan \in Fans /\ q.at \in Nat /\ q.days \in Nat
        /\ q.trialUsed \in BOOLEAN /\ q.autoRenew \in BOOLEAN /\ q.found \in Nat
        /\ q.pass \in Nat /\ "change" \in Origins
    BY <1>1 DEF ChangeRequest, Origins
  <2>2. QED
    BY <2>1, NewPassType
<1>3. passes' = Replace(q.pass, row) /\ RoomToReplace
  BY DEF ChangeCommit
<1>4. /\ Fresh(new, passes[q.pass].fan, "change", q.pass)
      /\ new.purchasedAt = q.at
  <2>1. Fresh(new, q.fan, "change", q.pass)
    BY NewFresh
  <2>2. q.fan = passes[q.pass].fan
    BY DEF ChangeCommit, TypeInv, RequestsSound, ChangeSound
  <2>3. QED
    BY <2>1, <2>2 DEF NewPass
<1> HIDE DEF new
<1>5. /\ row \in Pass /\ row.found = q.found /\ row.trialUsed = new.trialUsed
      /\ row.purchasedAt = new.purchasedAt /\ row.expiresAt = new.expiresAt
      /\ row.fan = new.fan /\ row.via = new.via /\ row.from = new.from
      /\ row.tier = new.tier /\ row.supersededBy = new.supersededBy
  BY <1>2 DEF Pass
<1> HIDE DEF row
<1>6. Fresh(row, passes[q.pass].fan, "change", q.pass)
  BY <1>4, <1>5 DEF Fresh, FullTerm
<1>7. QED
  BY <1>1, <1>3, <1>4, <1>5, <1>6

LEMMA ChangeTypeStep ==
  ASSUME TypeInv, ChangeNext,
         UNCHANGED <<purchaseVars, renewalVars, deletionVars>>
  PROVE  TypeInv' /\ TableStepOK
<1> USE DEF tableVars, purchaseVars, renewalVars, deletionVars
<1>1. /\ TableTypeOK /\ PurchaseTypeOK /\ ChangeTypeOK /\ RenewalTypeOK
      /\ DeletionTypeOK
  BY DEF TypeInv, TypeOK
<1>2. PurchaseTypeOK' /\ RenewalTypeOK' /\ DeletionTypeOK'
  BY <1>1 DEF PurchaseTypeOK, RenewalTypeOK, DeletionTypeOK
<1>3. SUFFICES /\ TableStepOK /\ TableTypeOK' /\ ChangeTypeOK'
               /\ \A c \in Changers : ChangeSound(c)'
  BY <1>2, PurchasesKept, RunsKept
     DEF TypeInv, TypeOK, TableStepOK, RequestsSound
<1>4. ASSUME UNCHANGED tableVars
      PROVE  TableStepOK /\ TableTypeOK'
  BY <1>1, <1>4, SameTable DEF TableTypeOK
<1>5. ASSUME NEW c \in Changers, NEW p \in PassIds, NEW t \in Tiers,
             ChangeRead(c, p, t)
      PROVE  /\ TableStepOK /\ TableTypeOK' /\ ChangeTypeOK'
             /\ \A d \in Changers : ChangeSound(d)'
  <2>1. passes[p] \in Pass /\ p \in Nat
    BY <1>1, ElementOfSeq, LenProperties DEF TableTypeOK, PassIds
  <2>2. DaysFor(p, t) \in Nat \ {0} /\ Len(passes) \in Nat
    <3> DEFINE old == passes[p].tier
    <3>1. /\ old \in Tiers
          /\ Price[old] \in Nat /\ Duration[old] \in Nat
          /\ Price[t] \in Nat /\ Duration[t] \in Nat
      BY <2>1, TableAssumption DEF Pass
    <3>2. now - passes[p].purchasedAt \in Int
      BY <1>1, <2>1 DEF Pass, TableTypeOK
    <3>3. Computable(Duration[old], Price[t])
      BY <1>5 DEF ChangeRead
    <3> HIDE DEF old
    <3> DEFINE elapsed == now - passes[p].purchasedAt
    <3>4. DaysFor(p, t) = ConvertedDays(Price[old], Duration[old], elapsed,
                                        Price[t], Duration[t])
      BY DEF DaysFor, old
    <3>5. elapsed \in Int
      BY <3>2
    <3> HIDE DEF elapsed
    <3>6. QED
      <4>1. /\ DaysFor(p, t) \in Nat /\ DaysFor(p, t) >= 1
        BY <3>1, <3>3, <3>4, <3>5, ConvertedDaysType
      <4>2. Len(passes) \in Nat
        BY <1>1, LenProperties DEF TableTypeOK
      <4>3. QED
        BY <4>1, <4>2
  <2> DEFINE request ==
        [op |-> "change", pass |-> p, tier |-> t, fan |-> passes[p].fan,
         days |-> DaysFor(p, t), at |-> now,
         trialUsed |-> passes[p].trialUsed, autoRenew |-> passes[p].autoRenew,
         found |-> Len(passes)]
  <2>3. request \in ChangeRequest
    BY <1>1, <2>1, <2>2 DEF ChangeRequest, Pass, TableTypeOK
  <2>4. change' = [change EXCEPT ![c] = request]
    BY <1>5 DEF ChangeRead
  <2> HIDE DEF request
  <2>5. ChangeTypeOK'
    BY <1>1, <2>3, <2>4 DEF ChangeTypeOK
  <2>6. TableStepOK /\ TableTypeOK' /\ passes' = passes
    BY <1>4, <1>5 DEF ChangeRead
  <2>7. /\ request.pass = p /\ request.fan = passes[p].fan
        /\ request.trialUsed = passes[p].trialUsed /\ Prorated(request, passes[p])
    BY <1>5 DEF request, Prorated, DaysFor, ChangeRead, Changeable
  <2>8. \A d \in Changers : ChangeSound(d)'
    <3>1. change'[c] = request /\ \A d \in Changers : d # c => change'[d] = change[d]
      BY <1>1, <2>4 DEF ChangeTypeOK
    <3>2. ChangeSound(c)'
      BY <2>6, <2>7, <3>1 DEF ChangeSound, PassIds, Prorated
    <3>3. QED
      BY <2>6, <3>1, <3>2, ChangeKept
  <2>9. QED
    BY <2>5, <2>6, <2>8
<1>6. ASSUME TableStepOK, NEW c \in Changers,
             change' = [change EXCEPT ![c] = NoChange]
      PROVE  ChangeTypeOK' /\ \A d \in Changers : ChangeSound(d)'
  <2>1. ChangeTypeOK'
    BY <1>1, <1>6 DEF ChangeTypeOK
  <2>2. \A d \in Changers : ChangeSound(d)'
    <3>1. ChangeSound(c)'
      BY <1>1, <1>6 DEF ChangeSound, ChangeTypeOK, NoChange
    <3>2. \A d \in Changers : d # c => change'[d] = change[d]
      BY <1>1, <1>6 DEF ChangeTypeOK
    <3>3. QED
      BY <1>6, <3>1, <3>2, ChangeKept
  <2>3. QED
    BY <2>1, <2>2
<1>7. ASSUME NEW c \in Changers, ChangeCommit(c)
      PROVE  /\ TableStepOK /\ TableTypeOK' /\ ChangeTypeOK'
             /\ \A d \in Changers : ChangeSound(d)'
  <2>1. TableStepOK
    BY <1>7, ChangedRow, ReplacedRow
  <2>2. TableTypeOK'
    BY <1>1, <1>7, <2>1 DEF ChangeCommit, TableTypeOK, TableStepOK
  <2>3. QED
    BY <1>6, <1>7, <2>1, <2>2 DEF ChangeCommit
<1>8. ASSUME NEW c \in Changers, ChangeFails(c)
      PROVE  /\ TableStepOK /\ TableTypeOK' /\ ChangeTypeOK'
             /\ \A d \in Changers : ChangeSound(d)'
  BY <1>4, <1>6, <1>8 DEF ChangeFails
<1>9. QED
  BY <1>5, <1>7, <1>8 DEF ChangeNext

LEMMA DeletionTypeStep ==
  ASSUME TypeInv, DeletionNext,
         UNCHANGED <<purchaseVars, changeVars, renewalVars>>
  PROVE  TypeInv' /\ TableStepOK
<1> USE DEF tableVars, purchaseVars, changeVars, renewalVars
<1>1. /\ TableTypeOK /\ PurchaseTypeOK /\ ChangeTypeOK /\ RenewalTypeOK
      /\ DeletionTypeOK
  BY DEF TypeInv, TypeOK
<1>2. PurchaseTypeOK' /\ ChangeTypeOK' /\ RenewalTypeOK'
  BY <1>1 DEF PurchaseTypeOK, ChangeTypeOK, RenewalTypeOK
<1>3. SUFFICES TableStepOK /\ TableTypeOK' /\ DeletionTypeOK'
  BY <1>2, PurchasesKept, ChangesKept, RunsKept
     DEF TypeInv, TypeOK, TableStepOK, RequestsSound
<1>4. ASSUME NEW e \in Erasers, NEW f \in Fans, DeletionRead(e, f)
      PROVE  TableStepOK /\ TableTypeOK' /\ DeletionTypeOK'
  BY <1>1, <1>4, SameTable
     DEF DeletionRead, TableTypeOK, DeletionTypeOK, DeletionRequest
<1>5. ASSUME NEW e \in Erasers, DeletionCommit(e)
      PROVE  TableStepOK /\ TableTypeOK' /\ DeletionTypeOK'
  <2> DEFINE f == deletion[e].fan
             cancelled == {p \in PassIds : passes[p].fan = f /\ passes[p].active}
  <2>1. f \in Fans
    BY <1>1, <1>5 DEF DeletionCommit, DeletionTypeOK, DeletionRequest, NoDeletion
  <2>2. passes' = [p \in PassIds |->
                     [passes[p] EXCEPT !.active = @ /\ p \notin cancelled]]
    BY <1>5 DEF DeletionCommit
  <2>3. \A p \in PassIds : passes'[p] \in Pass /\ RowEdited(passes[p], passes'[p])
    <3> SUFFICES ASSUME NEW p \in PassIds
                 PROVE  passes'[p] \in Pass /\ RowEdited(passes[p], passes'[p])
      OBVIOUS
    <3> HIDE DEF cancelled
    <3>1. passes'[p] = [passes[p] EXCEPT !.active = @ /\ p \notin cancelled]
      BY <2>2
    <3>2. (p \notin cancelled) \in BOOLEAN /\ passes[p] \in Pass
      BY <1>1, ElementOfSeq, LenProperties DEF TableTypeOK, PassIds
    <3>3. QED
      BY <3>1, <3>2, RowClosed
  <2>4. TableStepOK
    <3> HIDE DEF cancelled
    <3>1. passes' = [p \in PassIds |-> passes'[p]]
      BY <2>2
    <3>2. QED
      BY <2>3, <3>1, EditedTableStep
  <2>5. TableTypeOK' /\ DeletionTypeOK'
    BY <1>1, <1>5, <2>1, <2>4
       DEF DeletionCommit, TableTypeOK, TableStepOK, DeletionTypeOK
  <2>6. QED
    BY <2>4, <2>5
<1>6. ASSUME NEW e \in Erasers, DeletionFails(e)
      PROVE  TableStepOK /\ TableTypeOK' /\ DeletionTypeOK'
  BY <1>1, <1>6, SameTable DEF DeletionFails, TableTypeOK, DeletionTypeOK
<1>7. QED
  BY <1>4, <1>5, <1>6 DEF DeletionNext

-----------------------------------------------------------------------------
(* The steps of a run.                                                     *)

(* A run moves to a state that is typed and sound, the others stay.        *)
LEMMA RunMoves ==
  ASSUME TypeInv, TableStepOK, NEW r \in Renewers, NEW v \in Run,
         run' = [run EXCEPT ![r] = v], RunSound(r)'
  PROVE  /\ run' \in [Renewers -> Run] /\ run'[r] = v
         /\ \A s \in Renewers : RunSound(s)'
<1>1. run \in [Renewers -> Run]
  BY DEF TypeInv, TypeOK, RenewalTypeOK
<1>2. \A s \in Renewers : s # r => run'[s] = run[s]
  BY <1>1
<1>3. QED
  BY <1>1, <1>2, RunsKept

(* The row a run mints.                                                    *)
LEMMA MintedRow ==
  ASSUME TypeInv, NEW p \in PassIds, NEW t \in Tiers
  PROVE  LET row == SoldPass(t, passes[p].fan, now, "renewal", p)
         IN  row \in Pass /\ Fresh(row, passes[p].fan, "renewal", p)
<1>1. passes \in Seq(Pass) /\ now \in Nat
  BY DEF TypeInv, TypeOK, TableTypeOK
<1>2. passes[p] \in Pass /\ p \in Nat
  BY <1>1, ElementOfSeq, LenProperties DEF PassIds
<1>3. passes[p].fan \in Fans /\ "renewal" \in Origins
  BY <1>2 DEF Pass, Origins
<1>4. QED
  BY <1>1, <1>2, <1>3, SoldRow

LEMMA RunFields ==
  ASSUME TypeInv, NEW r \in Renewers
  PROVE  /\ run[r] \in Run
         /\ run[r].pc \in Phases /\ run[r].todo \subseteq Ids
         /\ run[r].cur \in 0..MaxPasses /\ run[r].open \in BOOLEAN
         /\ run[r].built \in Seq(Pass)
         /\ RunSound(r)
BY DEF TypeInv, TypeOK, RenewalTypeOK, RequestsSound, Run

(* RollBack and the steps that only move the program counter.              *)
LEMMA GotoMoves ==
  ASSUME TypeInv, NEW r \in Renewers, NEW pc \in Phases \ {"minted"},
         run[r].pc \notin {"idle", "loop"}, UNCHANGED passes, Goto(r, pc)
  PROVE  run' \in [Renewers -> Run] /\ \A s \in Renewers : RunSound(s)'
<1> DEFINE v == [run[r] EXCEPT !.pc = pc]
<1>1. v \in Run /\ v.pc = pc /\ v.cur = run[r].cur
  BY RunFields DEF Run
<1>2. run' = [run EXCEPT ![r] = v]
  BY DEF Goto, TypeInv, TypeOK, RenewalTypeOK
<1> HIDE DEF v
<1>3. run'[r] = v
  BY <1>2 DEF TypeInv, TypeOK, RenewalTypeOK
<1>4. RunSound(r)'
  BY <1>1, <1>3, RunFields DEF RunSound, PassIds
<1>5. QED
  BY <1>1, <1>2, <1>4, RunMoves, SameTable

LEMMA RollBackMoves ==
  ASSUME TypeInv, NEW r \in Renewers, run[r].pc \notin {"idle", "loop"},
         RollBack(r)
  PROVE  /\ run' \in [Renewers -> Run] /\ \A s \in Renewers : RunSound(s)'
         /\ TableStepOK /\ TableTypeOK'
<1> DEFINE v == [run[r] EXCEPT !.pc = "failed", !.open = FALSE, !.built = <<>>]
<1>1. v \in Run /\ v.pc = "failed" /\ v.cur = run[r].cur
  <2>1. "failed" \in Phases /\ <<>> \in Seq(Pass)
    BY EmptySeq DEF Phases
  <2>2. QED
    BY <2>1, RunFields DEF Run
<1>2. run' = [run EXCEPT ![r] = v]
  BY DEF RollBack, TypeInv, TypeOK, RenewalTypeOK
<1> HIDE DEF v
<1>3. run'[r] = v
  BY <1>2 DEF TypeInv, TypeOK, RenewalTypeOK
<1>4. passes' = passes
  BY DEF RollBack
<1>5. RunSound(r)'
  BY <1>1, <1>3, <1>4, RunFields DEF RunSound, PassIds
<1>6. TableTypeOK'
  BY DEF RollBack, Unlock, TypeInv, TypeOK, TableTypeOK
<1>7. QED
  BY <1>1, <1>2, <1>4, <1>5, <1>6, RunMoves, SameTable

LEMMA NextPassMoves ==
  ASSUME TypeInv, TableStepOK, NEW r \in Renewers, NextPass(r)
  PROVE  run' \in [Renewers -> Run] /\ \A s \in Renewers : RunSound(s)'
<1> DEFINE rest == run[r].todo \ {run[r].cur}
           v == [NoRun EXCEPT !.pc = "loop", !.todo = rest, !.listed = run[r].listed]
<1>1. v \in Run /\ v.pc = "loop"
  <2>1. rest \in SUBSET Ids
    BY RunFields
  <2>2. NoRun \in Run /\ "loop" \in Phases /\ run[r].listed \in Nat
    BY NoRunType, RunFields DEF Phases, Run
  <2> HIDE DEF rest
  <2>3. QED
    BY <2>1, <2>2 DEF Run
<1>2. run' = [run EXCEPT ![r] = v]
  BY DEF NextPass
<1> HIDE DEF v
<1>3. run'[r] = v
  BY <1>2 DEF TypeInv, TypeOK, RenewalTypeOK
<1>4. RunSound(r)'
  BY <1>1, <1>3 DEF RunSound
<1>5. QED
  BY <1>1, <1>2, <1>4, RunMoves

(* Counting one more.                                                      *)
LEMMA Counted ==
  ASSUME NEW f \in [Ids -> Nat], NEW p \in Ids
  PROVE  [f EXCEPT ![p] = @ + 1] \in [Ids -> Nat]
OBVIOUS

LEMMA AttemptCounted ==
  ASSUME NEW f \in [Ids -> [success : Nat, failed : Nat]], NEW p \in Ids
  PROVE  /\ [f EXCEPT ![p].success = @ + 1] \in [Ids -> [success : Nat, failed : Nat]]
         /\ [f EXCEPT ![p].failed = @ + 1] \in [Ids -> [success : Nat, failed : Nat]]
OBVIOUS

LEMMA RenewalTypeStep ==
  ASSUME TypeInv, RenewalNext,
         UNCHANGED <<purchaseVars, changeVars, deletionVars>>
  PROVE  TypeInv' /\ TableStepOK
<1> DEFINE RunsOK == /\ run' \in [Renewers -> Run]
                     /\ \A s \in Renewers : RunSound(s)'
           CountsOK == /\ attempts' \in [Ids -> [success : Nat, failed : Nat]]
                       /\ charges' \in [Ids -> Nat]
                       /\ unknown' \in [Ids -> Nat]
                       /\ orphaned' \in [Ids -> Nat]
           Goal == RunsOK /\ CountsOK /\ TableStepOK /\ TableTypeOK'
<1>1. /\ TableTypeOK /\ PurchaseTypeOK /\ ChangeTypeOK /\ RenewalTypeOK
      /\ DeletionTypeOK
  BY DEF TypeInv, TypeOK
<1>2. PurchaseTypeOK' /\ ChangeTypeOK' /\ DeletionTypeOK'
  BY <1>1 DEF PurchaseTypeOK, ChangeTypeOK, DeletionTypeOK,
              purchaseVars, changeVars, deletionVars
<1>3. SUFFICES Goal
  BY <1>2, PurchasesKept, ChangesKept
     DEF TypeInv, TypeOK, RenewalTypeOK, TableStepOK, RequestsSound,
         purchaseVars, changeVars
<1>4. /\ Len(passes) \in Nat /\ PassIds = 1..Len(passes) /\ MaxPasses \in Nat
      /\ PassIds \subseteq Ids /\ passes \in Seq(Pass)
  BY <1>1, LenProperties, TableAssumption DEF TypeInv, TableTypeOK, PassIds, Ids
<1>5. ASSUME UNCHANGED tableVars
      PROVE  TableStepOK /\ TableTypeOK'
  BY <1>1, <1>5, SameTable DEF TableTypeOK, tableVars
<1>6. ASSUME UNCHANGED <<attempts, charges, unknown, orphaned>>
      PROVE  CountsOK
  BY <1>1, <1>6 DEF RenewalTypeOK
<1>7. ASSUME NEW r \in Renewers, RenewalScan(r)
      PROVE  Goal
  <2> DEFINE v == [NoRun EXCEPT !.pc = "loop", !.todo = DueForRenewal,
                                !.listed = Len(passes)]
  <2>1. DueForRenewal \in SUBSET Ids
    BY <1>4 DEF DueForRenewal
  <2>2. v \in Run /\ v.pc = "loop"
    BY <1>4, <2>1, NoRunType DEF Run, Phases
  <2>3. run' = [run EXCEPT ![r] = v]
    BY <1>7 DEF RenewalScan
  <2>4. TableStepOK /\ TableTypeOK' /\ CountsOK
    BY <1>5, <1>6, <1>7 DEF RenewalScan
  <2> HIDE DEF v
  <2>5. RunSound(r)'
    BY <1>1, <2>2, <2>3 DEF RunSound, RenewalTypeOK
  <2>6. QED
    BY <2>2, <2>3, <2>4, <2>5, RunMoves
<1>8. ASSUME NEW r \in Renewers, NEW p \in PassIds, RenewalBegin(r, p)
      PROVE  Goal
  <2> DEFINE v == [run[r] EXCEPT !.pc = "begun", !.cur = p, !.open = TRUE]
  <2>1. p \in 0..MaxPasses /\ p \in Nat
    BY <1>4 DEF Ids
  <2>2. v \in Run /\ v.pc = "begun" /\ v.cur = p
    BY <2>1, RunFields DEF Run, Phases
  <2>3. run' = [run EXCEPT ![r] = v]
    BY <1>1, <1>8 DEF RenewalBegin, RenewalTypeOK
  <2> HIDE DEF v
  <2>4. CountsOK
    BY <1>6, <1>8 DEF RenewalBegin
  <2>5. TableTypeOK' /\ passes' = passes
    BY <1>1, <1>8, <2>1 DEF RenewalBegin, TableTypeOK
  <2>6. RunSound(r)'
    BY <1>1, <2>2, <2>3, <2>5 DEF RunSound, RenewalTypeOK, PassIds
  <2>7. QED
    BY <2>2, <2>3, <2>4, <2>5, <2>6, RunMoves, SameTable
<1>9. ASSUME NEW r \in Renewers, NEW p \in PassIds, RenewalWaitExpires(r, p)
      PROVE  Goal
  <2> DEFINE v == [run[r] EXCEPT !.pc = "failed", !.cur = p]
  <2>1. p \in 0..MaxPasses
    BY <1>4 DEF Ids
  <2>2. v \in Run /\ v.pc = "failed" /\ v.cur = p
    BY <2>1, RunFields DEF Run, Phases
  <2>3. run' = [run EXCEPT ![r] = v]
    BY <1>1, <1>9 DEF RenewalWaitExpires, RenewalTypeOK
  <2> HIDE DEF v
  <2>4. CountsOK /\ TableStepOK /\ TableTypeOK' /\ passes' = passes
    BY <1>5, <1>6, <1>9 DEF RenewalWaitExpires, tableVars
  <2>5. RunSound(r)'
    BY <1>1, <2>2, <2>3, <2>4 DEF RunSound, RenewalTypeOK, PassIds
  <2>6. QED
    BY <2>2, <2>3, <2>4, <2>5, RunMoves
<1>10. ASSUME NEW r \in Renewers, ChargeSucceeds(r)
       PROVE  Goal
  <2>1. CountsOK
    BY <1>1, <1>4, <1>10, RunFields, Counted
       DEF ChargeSucceeds, RenewalTypeOK, RunSound
  <2>2. "charged" \in Phases \ {"minted"}
    BY DEF Phases
  <2>3. RunsOK
    BY <1>10, <2>2, GotoMoves DEF ChargeSucceeds, tableVars
  <2>4. QED
    BY <1>5, <1>10, <2>1, <2>3 DEF ChargeSucceeds
<1>11. ASSUME NEW r \in Renewers, ChargeFails(r)
       PROVE  Goal
  BY <1>6, <1>11, RollBackMoves DEF ChargeFails
<1>12. ASSUME NEW r \in Renewers, ChargeUnseen(r)
       PROVE  Goal
  <2>1. CountsOK
    BY <1>1, <1>4, <1>12, RunFields, Counted
       DEF ChargeUnseen, RenewalTypeOK, RunSound
  <2>2. QED
    BY <1>12, <2>1, RollBackMoves DEF ChargeUnseen
<1>13. ASSUME NEW r \in Renewers, NEW t \in Tiers, RenewalMint(r, t)
       PROVE  Goal
  <2> DEFINE p == run[r].cur
             sold == SoldPass(t, passes[p].fan, now, "renewal", p)
             row == [sold EXCEPT !.found = run[r].listed]
             v == [run[r] EXCEPT !.pc = "minted", !.built = <<row>>]
  <2>1. p \in PassIds
    BY <1>13, RunFields DEF RenewalMint, RunSound
  <2>2. row \in Pass /\ Fresh(row, passes[p].fan, "renewal", p)
    <3>1. PICK x \in Pass : x = sold /\ Fresh(x, passes[p].fan, "renewal", p)
      BY <2>1, MintedRow
    <3>2. run[r].listed \in Nat
      BY RunFields DEF Run
    <3>3. PICK y : y = [x EXCEPT !.found = run[r].listed]
      OBVIOUS
    <3>4. /\ y \in Pass /\ y.tier = x.tier /\ y.fan = x.fan
          /\ y.purchasedAt = x.purchasedAt /\ y.expiresAt = x.expiresAt
          /\ y.trialUsed = x.trialUsed /\ y.supersededBy = x.supersededBy
          /\ y.via = x.via /\ y.from = x.from
      BY <3>2, <3>3, FoundNoted
    <3> HIDE DEF p
    <3>5. Fresh(y, passes[p].fan, "renewal", p)
      BY <3>1, <3>4 DEF Fresh, FullTerm
    <3>6. QED
      BY <3>1, <3>3, <3>4, <3>5
  <2>3. run' = [run EXCEPT ![r] = v]
    BY <1>1, <1>13 DEF RenewalMint, RenewalTypeOK
  <2>4. TableStepOK /\ TableTypeOK' /\ CountsOK /\ passes' = passes
    BY <1>5, <1>6, <1>13 DEF RenewalMint, tableVars
  <2> HIDE DEF row
  <2>5. <<row>> \in Seq(Pass) /\ Len(<<row>>) = 1 /\ <<row>>[1] = row
    BY <2>2
  <2>6. v \in Run /\ v.cur = p /\ v.built = <<row>>
    BY <2>5, RunFields DEF Run, Phases
  <2> HIDE DEF v
  <2>7. RunSound(r)'
    BY <1>1, <2>1, <2>2, <2>3, <2>4, <2>5, <2>6 DEF RunSound, RenewalTypeOK, PassIds
  <2>8. QED
    BY <2>3, <2>4, <2>6, <2>7, RunMoves
<1>14. ASSUME NEW r \in Renewers, RenewalMintRefused(r) \/ RenewalFindsTxClosed(r)
       PROVE  Goal
  BY <1>6, <1>14, RollBackMoves DEF RenewalMintRefused, RenewalFindsTxClosed
<1>15. ASSUME NEW r \in Renewers, RenewalTxExpires(r)
       PROVE  Goal
  <2> DEFINE v == [run[r] EXCEPT !.open = FALSE, !.built = <<>>]
  <2>1. <<>> \in Seq(Pass)
    BY EmptySeq
  <2>2. v \in Run /\ v.pc = run[r].pc /\ v.cur = run[r].cur /\ v.open = FALSE
    BY <2>1, RunFields DEF Run
  <2>3. run' = [run EXCEPT ![r] = v]
    BY <1>1, <1>15 DEF RenewalTxExpires, RenewalTypeOK
  <2> HIDE DEF v
  <2>4. CountsOK /\ TableTypeOK' /\ passes' = passes
    BY <1>1, <1>6, <1>15 DEF RenewalTxExpires, Unlock, TableTypeOK
  <2>5. RunSound(r)'
    BY <1>1, <2>2, <2>3, <2>4, RunFields DEF RunSound, RenewalTypeOK, PassIds
  <2>6. QED
    BY <2>2, <2>3, <2>4, <2>5, RunMoves, SameTable
<1>16. ASSUME NEW r \in Renewers, RenewalCommit(r)
       PROVE  Goal
  <2> DEFINE p == run[r].cur
             row == run[r].built[1]
  <2>1. p \in PassIds /\ row \in Pass
    BY <1>16, RunFields, ElementOfSeq DEF RenewalCommit, RunSound
  <2>2. passes' = Replace(p, row) /\ RoomToReplace
    BY <1>16 DEF RenewalCommit
  <2>3. TableStepOK
    <3>1. Fresh(row, passes[p].fan, "renewal", p)
      BY <1>16, RunFields DEF RenewalCommit, RunSound
    <3> HIDE DEF p, row
    <3>2. QED
      BY <2>1, <2>2, <3>1, ReplacedRow
  <2>4. earnings' \in SUBSET Earning
    <3>1. [pass |-> Len(passes) + 1, payer |-> row.fan] \in Earning
      <4>1. PICK n \in Nat : n = Len(passes) + 1
        BY <1>4
      <4>2. row.fan \in Fans
        BY <2>1 DEF Pass
      <4>3. QED
        BY <4>1, <4>2 DEF Earning
    <3>2. QED
      BY <1>1, <1>16, <3>1 DEF RenewalCommit, TableTypeOK
  <2>5. TableTypeOK'
    BY <1>1, <1>16, <2>3, <2>4 DEF RenewalCommit, TableTypeOK, TableStepOK
  <2>6. CountsOK
    BY <1>1, <1>4, <1>16, <2>1, AttemptCounted DEF RenewalCommit, RenewalTypeOK
  <2>7. RunsOK
    BY <1>16, <2>3, NextPassMoves DEF RenewalCommit
  <2>8. QED
    BY <2>3, <2>5, <2>6, <2>7
<1>17. ASSUME NEW r \in Renewers, RenewalRecordFailure(r)
       PROVE  Goal
  <2>1. CountsOK
    BY <1>1, <1>4, <1>17, RunFields, AttemptCounted
       DEF RenewalRecordFailure, RenewalTypeOK, RunSound
  <2>2. "recorded" \in Phases \ {"minted"}
    BY DEF Phases
  <2>3. RunsOK
    BY <1>17, <2>2, GotoMoves DEF RenewalRecordFailure, tableVars
  <2>4. QED
    BY <1>5, <1>17, <2>1, <2>3 DEF RenewalRecordFailure
<1>18. ASSUME NEW r \in Renewers, RenewalDisable(r)
       PROVE  Goal
  <2>1. \A p \in PassIds : passes'[p] \in Pass /\ RowEdited(passes[p], passes'[p])
    <3> SUFFICES ASSUME NEW p \in PassIds
                 PROVE  passes'[p] \in Pass /\ RowEdited(passes[p], passes'[p])
      OBVIOUS
    <3>1. passes'[p] = IF p = run[r].cur THEN [passes[p] EXCEPT !.autoRenew = FALSE]
                       ELSE passes[p]
      BY <1>18 DEF RenewalDisable, PassIds
    <3>2. passes[p] \in Pass
      BY <1>4, ElementOfSeq
    <3>3. CASE p = run[r].cur
      BY <3>1, <3>2, <3>3, RowRenewEdited
    <3>4. CASE p # run[r].cur
      BY <3>1, <3>2, <3>4 DEF RowKept, RowEdited
    <3>5. QED
      BY <3>3, <3>4
  <2>2. passes' = [p \in PassIds |-> passes'[p]]
    BY <1>4, <1>18 DEF RenewalDisable, PassIds
  <2>3. TableStepOK
    BY <2>1, <2>2, EditedTableStep
  <2>4. TableTypeOK' /\ CountsOK
    BY <1>1, <1>6, <1>18, <2>3 DEF RenewalDisable, TableTypeOK, TableStepOK
  <2>5. QED
    BY <1>18, <2>3, <2>4, NextPassMoves DEF RenewalDisable
<1>19. ASSUME NEW r \in Renewers, run' = [run EXCEPT ![r] = NoRun], TableStepOK
       PROVE  RunsOK
  <2>1. RunSound(r)'
    BY <1>1, <1>19 DEF RunSound, NoRun, RenewalTypeOK
  <2>2. QED
    BY <1>19, <2>1, NoRunType, RunMoves
<1>20. ASSUME NEW r \in Renewers, RenewalDone(r)
       PROVE  Goal
  BY <1>5, <1>6, <1>19, <1>20 DEF RenewalDone
<1>21. ASSUME NEW r \in Renewers, NEW b \in BOOLEAN, RunLost(r, b)
       PROVE  Goal
  <2>1. CountsOK
    BY <1>1, <1>4, <1>21, RunFields, Counted
       DEF RunLost, RenewalTypeOK, RunSound
  <2>2. TableStepOK /\ TableTypeOK'
    BY <1>1, <1>21, SameTable DEF RunLost, Unlock, TableTypeOK
  <2>3. QED
    BY <1>19, <1>21, <2>1, <2>2 DEF RunLost
<1>22. ASSUME NEW p \in PassIds, NEW b \in BOOLEAN, UnseenSettles(p, b)
       PROVE  Goal
  <2>1. CountsOK
    <3>1. /\ unknown \in [Ids -> Nat] /\ charges \in [Ids -> Nat] /\ p \in Ids
          /\ unknown[p] \in Nat /\ unknown[p] > 0 /\ charges[p] \in Nat
      BY <1>1, <1>4, <1>22 DEF UnseenSettles, RenewalTypeOK
    <3>2. PICK u \in Nat, n \in Nat :
            /\ u = unknown[p] - 1 /\ n = IF b THEN charges[p] + 1 ELSE charges[p]
      BY <3>1
    <3>3. unknown' = [unknown EXCEPT ![p] = u] /\ charges' = [charges EXCEPT ![p] = n]
      BY <1>22, <3>2 DEF UnseenSettles
    <3>4. unknown' \in [Ids -> Nat] /\ charges' \in [Ids -> Nat]
      BY <3>1, <3>2, <3>3
    <3>5. QED
      BY <1>1, <1>22, <3>4 DEF UnseenSettles, RenewalTypeOK
  <2>2. TableStepOK /\ TableTypeOK'
    BY <1>5, <1>22 DEF UnseenSettles
  <2>3. RunsOK
    BY <1>1, <1>22, <2>2, RunsKept DEF UnseenSettles, RenewalTypeOK
  <2>4. QED
    BY <2>1, <2>2, <2>3
<1> HIDE DEF Goal
<1>23. ASSUME NEW r \in Renewers, RenewalStep(r)
       PROVE  Goal
  BY <1>7, <1>8, <1>9, <1>10, <1>11, <1>12, <1>13, <1>14, <1>16, <1>17, <1>18,
     <1>20, <1>23
     DEF RenewalStep
<1>24. QED
  BY <1>15, <1>21, <1>22, <1>23 DEF RenewalNext

-----------------------------------------------------------------------------
LEMMA TypeInvStep ==
  ASSUME TypeInv, [Next]_vars
  PROVE  TypeInv' /\ TableStepOK
<1>1. CASE UNCHANGED vars
  <2>1. TypeInv'
    BY <1>1
       DEF vars, tableVars, purchaseVars, changeVars, renewalVars, deletionVars,
           TypeInv, TypeOK, TableTypeOK, PurchaseTypeOK, ChangeTypeOK,
           RenewalTypeOK, DeletionTypeOK, RequestsSound, PurchaseSound,
           ChangeSound, RunSound, PassIds
  <2>2. QED
    BY <1>1, <2>1, SameTable DEF vars, tableVars
<1>2. CASE Next
  BY <1>2, TableTypeStep, PurchaseTypeStep, ChangeTypeStep, RenewalTypeStep,
     DeletionTypeStep
     DEF Next
<1>3. QED
  BY <1>1, <1>2

(* Every handler leaves every table and every request in flight well       *)
(* typed, whatever the interleaving, however many actors there are.        *)
THEOREM TypeCorrect == Spec => []TypeOK
<1>1. TypeInv /\ [Next]_vars => TypeInv'
  BY TypeInvStep
<1>2. TypeInv => TypeOK
  BY DEF TypeInv
<1>3. QED
  BY InitTypeInv, <1>1, <1>2, PTL DEF Spec

(* No handler opens a pass again that was closed.                          *)
THEOREM ClosedForGood == Spec => ClosedStaysClosed
<1>1. TypeInv /\ [Next]_vars => TypeInv'
  BY TypeInvStep
<1>2. TypeInv /\ [Next]_vars
        => [\A p \in PassIds : ~ passes[p].active => ~ passes'[p].active]_vars
  BY TypeInvStep DEF TableStepOK, RowsKept, RowKept
<1>3. QED
  BY InitTypeInv, <1>1, <1>2, PTL DEF Spec, ClosedStaysClosed

(* The chain of replacements is sound at all times: two handlers write it, *)
(* changeTier and the renewal run, each from what it read before.          *)
THEOREM SupersededSound == Spec => []SupersededConsistent
<1>1. Init => SupersededConsistent
  BY DEF Init, TableInit, SupersededConsistent, PassIds
<1>2. ASSUME TypeInv, SupersededConsistent, [Next]_vars
      PROVE  SupersededConsistent'
  <2>1. TableStepOK
    BY <1>2, TypeInvStep
  <2> DEFINE next(p) == passes'[p].supersededBy
  <2>2. SUFFICES ASSUME NEW p \in PassIds', next(p) # 0
                 PROVE  Link(passes', p, next(p))
    BY DEF SupersededConsistent, Link, PassIds
  <2> DEFINE q == next(p)
  <2>3. CASE p \in PassIds /\ passes[p].supersededBy = q
    <3>1. Link(passes, p, q)
      BY <1>2, <2>2, <2>3 DEF SupersededConsistent, Link, PassIds
    <3>2. RowKept(passes[p], passes'[p]) /\ RowKept(passes[q], passes'[q])
          /\ q \in PassIds'
      BY <2>1, <2>3, <3>1 DEF TableStepOK, RowsKept, Link, PassIds
    <3> HIDE DEF next
    <3>3. QED
      BY <3>1, <3>2 DEF RowKept, Link, PassIds
  <2>4. CASE ~ (p \in PassIds /\ passes[p].supersededBy = q)
    BY <2>1, <2>2, <2>4 DEF TableStepOK, LinksSound
  <2>5. QED
    BY <2>3, <2>4
<1>3. TypeInv /\ [Next]_vars => TypeInv'
  BY TypeInvStep
<1>4. QED
  BY InitTypeInv, <1>1, <1>2, <1>3, PTL DEF Spec

-----------------------------------------------------------------------------
(* Money follows passes: the earnings records match the passes sold, and   *)
(* the payer is the right fan.                                             *)

(* giftPass refuses a gift to oneself before it comes to the transaction.  *)
GiftsGiven ==
  \A w \in Purchasers :
    purchase[w].op = "gift" => purchase[w].sender # purchase[w].recipient

SalesInv == EarningsMatchSales /\ PayerIsOwnerUnlessGift /\ GiftsGiven

-----------------------------------------------------------------------------
(* The passes and the records that a step adds agree with one another.     *)
Booked(records) ==
  /\ earnings' = earnings \cup records
  /\ \A e \in records :
       /\ e.pass \in NewIds
       /\ (e.payer = passes'[e.pass].fan) <=> (passes'[e.pass].via # "gift")
  /\ \A p \in NewIds :
       (\E e \in records : e.pass = p)
         <=> (passes'[p].via # "change" /\ ~ passes'[p].trialUsed)
  /\ \A d, e \in records : d.pass = e.pass => d = e

(* Such a step keeps the books in order, since rows keep what they are.    *)
LEMMA BooksKept ==
  ASSUME TableStepOK, EarningsMatchSales, PayerIsOwnerUnlessGift,
         NEW records, Booked(records)
  PROVE  EarningsMatchSales' /\ PayerIsOwnerUnlessGift'
<1>1. /\ PassIds \subseteq PassIds'
      /\ \A p \in PassIds : /\ passes'[p].fan = passes[p].fan
                            /\ passes'[p].via = passes[p].via
                            /\ passes'[p].trialUsed = passes[p].trialUsed
  BY DEF TableStepOK, RowsKept, RowKept
<1>2. NewIds = PassIds' \ PassIds
  BY DEF NewIds, PassIds
<1>3. \A e \in earnings : e.pass \in PassIds
  BY DEF EarningsMatchSales
<1>4. \A e \in earnings' : e \in earnings \/ e \in records
  BY DEF Booked
<1>5. earnings \subseteq earnings' /\ records \subseteq earnings'
  BY DEF Booked
<1>6. EarningsMatchSales'
  <2>1. ASSUME NEW p \in PassIds'
        PROVE  (\E e \in earnings' : e.pass = p)
                 <=> (passes'[p].via # "change" /\ ~ passes'[p].trialUsed)
    <3>1. CASE p \in PassIds
      <4>1. (\E e \in earnings' : e.pass = p) <=> (\E e \in earnings : e.pass = p)
        BY <1>2, <1>4, <1>5, <3>1 DEF Booked
      <4>2. QED
        BY <1>1, <3>1, <4>1 DEF EarningsMatchSales
    <3>2. CASE p \notin PassIds
      <4>1. (\E e \in earnings' : e.pass = p) <=> (\E e \in records : e.pass = p)
        BY <1>3, <1>4, <1>5, <3>2
      <4>2. QED
        BY <1>2, <2>1, <3>2, <4>1 DEF Booked
    <3>3. QED
      BY <3>1, <3>2
  <2>2. \A e \in earnings' : e.pass \in PassIds'
    BY <1>1, <1>2, <1>3, <1>4 DEF Booked
  <2>3. \A d, e \in earnings' : d.pass = e.pass => d = e
    BY <1>2, <1>3, <1>4 DEF Booked, EarningsMatchSales
  <2>4. QED
    BY <2>1, <2>2, <2>3 DEF EarningsMatchSales
<1>7. PayerIsOwnerUnlessGift'
  BY <1>1, <1>3, <1>4 DEF Booked, PayerIsOwnerUnlessGift
<1>8. QED
  BY <1>6, <1>7

(* A step that sells nothing.                                              *)
LEMMA NothingBooked ==
  ASSUME PassIds' = PassIds, earnings' = earnings
  PROVE  Booked({})
BY DEF Booked, NewIds, PassIds

-----------------------------------------------------------------------------
(* What a sale adds.                                                       *)

LEMMA GiftBooked ==
  ASSUME TypeInv, GiftsGiven, NEW w \in Purchasers, GiftCommit(w)
  PROVE  \E records : Booked(records)
<1> DEFINE g == purchase[w]
           row == GiftedPass(g)
           new == Len(passes) + 1
           record == [pass |-> new, payer |-> g.sender]
<1>1. g \in GiftRequest
  BY DEF GiftCommit, TypeInv, TypeOK, PurchaseTypeOK, NoPurchase, BundleRequest
<1>2. row \in Pass
  <2>1. /\ g.tier \in Tiers /\ g.recipient \in Fans /\ g.at \in Nat
        /\ Duration[g.tier] \in Nat /\ "gift" \in Origins
    BY <1>1, TableAssumption DEF GiftRequest, Origins
  <2>2. QED
    BY <2>1, NewPassType DEF GiftedPass
<1>3. row.via = "gift" /\ ~ row.trialUsed /\ row.fan = g.recipient
  BY DEF GiftedPass, NewPass
<1>4. passes \in Seq(Pass) /\ passes' = Append(passes, row)
  BY DEF GiftCommit, TypeInv, TypeOK, TableTypeOK
<1>5. earnings' = earnings \cup {record}
  BY DEF GiftCommit
<1>6. g.sender # g.recipient
  BY DEF GiftCommit, GiftsGiven
<1>7. record.pass = new /\ record.payer = g.sender
  OBVIOUS
<1> HIDE DEF row, g, record
<1>8. passes' = passes \o <<row>> /\ <<row>> \in Seq(Pass)
  BY <1>2, <1>4, AppendIsConcat
<1>9. NewIds = {new} /\ passes'[new] = row
  <2>1. DOMAIN <<row>> = {1} /\ <<row>>[1] = row
    OBVIOUS
  <2>2. /\ NewIds = {Len(passes) + i : i \in DOMAIN <<row>>}
        /\ \A i \in DOMAIN <<row>> : passes'[Len(passes) + i] = <<row>>[i]
    BY <1>4, <1>8, AddedIds
  <2>3. QED
    BY <2>1, <2>2
<1> HIDE DEF new
<1>10. Booked({record})
  BY <1>3, <1>5, <1>6, <1>7, <1>9 DEF Booked
<1>11. QED
  BY <1>10

LEMMA BundleBooked ==
  ASSUME TypeInv, NEW w \in Purchasers, BundleCommit(w)
  PROVE  \E records : Booked(records)
<1> DEFINE b == purchase[w]
           n == Len(passes)
           record(i) == [pass |-> n + i, payer |-> b.fan]
           records == {record(i) : i \in Charged(b.rows)}
<1>1. b \in BundleRequest
  BY DEF BundleCommit, TypeInv, TypeOK, PurchaseTypeOK, NoPurchase, GiftRequest
<1>2. /\ b.rows \in Seq(Pass) /\ passes \in Seq(Pass)
      /\ passes' = passes \o b.rows
  BY <1>1 DEF BundleRequest, BundleCommit, TypeInv, TypeOK, TableTypeOK
<1>3. \A i \in DOMAIN b.rows : b.rows[i].via = "bundle" /\ b.rows[i].fan = b.fan
  BY DEF BundleCommit, TypeInv, RequestsSound, PurchaseSound, Fresh
<1>4. earnings' = earnings \cup records
  BY DEF BundleCommit
<1>5. n \in Nat /\ DOMAIN b.rows \subseteq Nat
  BY <1>2, LenProperties
<1> HIDE DEF b, n
<1>6. /\ NewIds = {n + i : i \in DOMAIN b.rows}
      /\ \A i \in DOMAIN b.rows : passes'[n + i] = b.rows[i]
  BY <1>2, AddedIds DEF n
<1>7. \A i \in DOMAIN b.rows, j \in DOMAIN b.rows : n + i = n + j => i = j
  BY <1>5
<1>8. Charged(b.rows) \subseteq DOMAIN b.rows
  BY DEF Charged
<1>9. \A i \in DOMAIN b.rows : record(i).pass = n + i /\ record(i).payer = b.fan
  OBVIOUS
<1> HIDE DEF record
<1>10. \A e \in records :
         /\ e.pass \in NewIds
         /\ (e.payer = passes'[e.pass].fan) <=> (passes'[e.pass].via # "gift")
  BY <1>3, <1>6, <1>8, <1>9
<1>11. \A d, e \in records : d.pass = e.pass => d = e
  BY <1>7, <1>8, <1>9
<1>12. \A i \in DOMAIN b.rows :
         (\E e \in records : e.pass = n + i) <=> ~ b.rows[i].trialUsed
  <2> SUFFICES ASSUME NEW i \in DOMAIN b.rows
               PROVE  (\E e \in records : e.pass = n + i) <=> ~ b.rows[i].trialUsed
    OBVIOUS
  <2>1. (\E e \in records : e.pass = n + i) <=> i \in Charged(b.rows)
    BY <1>7, <1>8, <1>9
  <2>2. QED
    BY <2>1 DEF Charged
<1>13. \A p \in NewIds :
         (\E e \in records : e.pass = p)
           <=> (passes'[p].via # "change" /\ ~ passes'[p].trialUsed)
  BY <1>3, <1>6, <1>12
<1>14. QED
  BY <1>4, <1>10, <1>11, <1>13 DEF Booked

LEMMA ChangeBooked ==
  ASSUME TypeInv, NEW c \in Changers, ChangeCommit(c)
  PROVE  Booked({})
<1>1. PICK row \in Pass :
        /\ Fresh(row, passes[change[c].pass].fan, "change", change[c].pass)
        /\ passes' = Replace(change[c].pass, row)
  BY ChangedRow
<1>2. NewIds = {Len(passes) + 1} /\ passes'[Len(passes) + 1] = row
  BY <1>1, ChangedRow, ReplacedRow
<1>3. earnings' = earnings
  BY DEF ChangeCommit
<1>4. QED
  BY <1>1, <1>2, <1>3 DEF Booked, Fresh

LEMMA RenewalBooked ==
  ASSUME TypeInv, NEW r \in Renewers, RenewalCommit(r)
  PROVE  \E records : Booked(records)
<1> DEFINE p == run[r].cur
           row == run[r].built[1]
           new == Len(passes) + 1
           record == [pass |-> new, payer |-> row.fan]
           records == IF row.trialUsed THEN {} ELSE {record}
<1>1. /\ p \in PassIds /\ RoomToReplace /\ row \in Pass
      /\ Fresh(row, passes[p].fan, "renewal", p)
  BY RunFields, ElementOfSeq DEF RenewalCommit, RunSound
<1>2. passes' = Replace(p, row)
  BY DEF RenewalCommit
<1>3. earnings' = earnings \cup records
  BY DEF RenewalCommit
<1>4. record.pass = new /\ record.payer = row.fan
  OBVIOUS
<1> HIDE DEF p, row, record
<1>5. NewIds = {new} /\ passes'[new] = row
  BY <1>1, <1>2, ReplacedRow
<1> HIDE DEF new
<1>6. Booked(records)
  BY <1>1, <1>3, <1>4, <1>5 DEF Booked, Fresh
<1>7. QED
  BY <1>6

-----------------------------------------------------------------------------
LEMMA GiftsGivenStep ==
  ASSUME TypeInv, GiftsGiven, [Next]_vars
  PROVE  GiftsGiven'
<1>1. purchase \in [Purchasers -> {NoPurchase} \cup GiftRequest \cup BundleRequest]
  BY DEF TypeInv, TypeOK, PurchaseTypeOK
<1>2. CASE UNCHANGED purchase
  BY <1>2 DEF GiftsGiven
<1>3. ASSUME NEW w \in Purchasers, \A v \in Purchasers : v # w => purchase'[v] = purchase[v],
             purchase'[w].op = "gift" => purchase'[w].sender # purchase'[w].recipient
      PROVE  GiftsGiven'
  BY <1>3 DEF GiftsGiven
<1>4. ASSUME NEW w \in Purchasers, End(w)
      PROVE  GiftsGiven'
  BY <1>1, <1>3, <1>4 DEF End, NoPurchase
<1>5. ASSUME NEW w \in Purchasers, NEW t \in Tiers, NEW s \in Fans,
             NEW f \in Fans, GiftRead(w, t, s, f)
      PROVE  GiftsGiven'
  BY <1>1, <1>3, <1>5 DEF GiftRead
<1>6. ASSUME NEW w \in Purchasers, NEW ids \in BundleIds, NEW f \in Fans,
             BundleRead(w, ids, f)
      PROVE  GiftsGiven'
  BY <1>1, <1>3, <1>6 DEF BundleRead
<1>7. ASSUME NEW w \in Purchasers, NEW t \in Tiers, BundleMint(w, t)
      PROVE  GiftsGiven'
  <2>1. purchase[w] \in BundleRequest
    BY <1>1, <1>7 DEF BundleMint, NoPurchase, GiftRequest
  <2>2. PICK row : purchase' = [purchase EXCEPT ![w].todo = @ \ {t},
                                               ![w].rows = Append(@, row)]
    BY <1>7 DEF BundleMint
  <2>3. purchase'[w].op = "bundle"
    BY <1>1, <2>1, <2>2 DEF BundleRequest
  <2>4. \A v \in Purchasers : v # w => purchase'[v] = purchase[v]
    BY <1>1, <2>2
  <2>5. QED
    BY <1>3, <2>3, <2>4
<1>8. CASE PurchaseNext
  BY <1>4, <1>5, <1>6, <1>7, <1>8
     DEF PurchaseNext, GiftCommit, BundleRefuse, BundleCommit, PurchaseFails
<1>9. QED
  BY <1>2, <1>8 DEF Next, vars, purchaseVars

(* Every step either sells nothing or books what it sells.                 *)
LEMMA StepBooked ==
  ASSUME TypeInv, GiftsGiven, [Next]_vars
  PROVE  \E records : Booked(records)
<1>1. ASSUME UNCHANGED <<passes, earnings>>
      PROVE  Booked({})
  BY <1>1, NothingBooked DEF PassIds
<1>2. CASE UNCHANGED vars
  BY <1>1, <1>2 DEF vars, tableVars
<1>3. CASE TableNext
  <2>1. PassIds' = PassIds /\ earnings' = earnings
    <3>1. CASE DeactivateExpiredPasses
      BY <3>1 DEF DeactivateExpiredPasses, PassIds
    <3>2. ASSUME NEW p \in PassIds, NEW b \in BOOLEAN, ToggleAutoRenew(p, b)
          PROVE  PassIds' = PassIds /\ earnings' = earnings
      BY <3>2 DEF ToggleAutoRenew, PassIds
    <3>3. QED
      BY <1>3, <3>1, <3>2
         DEF TableNext, Tick, BlockFan, UnblockFan, DeactivateTier,
             ReactivateTier, PassIds
  <2>2. QED
    BY <2>1, NothingBooked
<1>4. CASE PurchaseNext
  BY <1>1, <1>4, GiftBooked, BundleBooked
     DEF PurchaseNext, tableVars, GiftRead, BundleRead, BundleMint,
         BundleRefuse, PurchaseFails
<1>5. CASE ChangeNext
  BY <1>1, <1>5, ChangeBooked DEF ChangeNext, tableVars, ChangeRead, ChangeFails
<1>6. CASE RenewalNext
  <2>1. ASSUME NEW r \in Renewers, RenewalDisable(r)
        PROVE  Booked({})
    BY <2>1, NothingBooked DEF RenewalDisable, PassIds
  <2>2. ASSUME NEW r \in Renewers, RollBack(r) \/ RenewalTxExpires(r)
        PROVE  Booked({})
    BY <1>1, <2>2 DEF RollBack, RenewalTxExpires
  <2>3. ASSUME NEW r \in Renewers,
               \/ ChargeFails(r) \/ ChargeUnseen(r)
               \/ RenewalMintRefused(r) \/ RenewalFindsTxClosed(r)
        PROVE  Booked({})
    BY <2>2, <2>3
       DEF ChargeFails, ChargeUnseen, RenewalMintRefused, RenewalFindsTxClosed
  <2>4. ASSUME NEW r \in Renewers,
               \/ RenewalScan(r) \/ ChargeSucceeds(r)
               \/ RenewalRecordFailure(r) \/ RenewalDone(r)
               \/ \E p \in PassIds : RenewalBegin(r, p) \/ RenewalWaitExpires(r, p)
               \/ \E t \in Tiers : RenewalMint(r, t)
               \/ \E b \in BOOLEAN : RunLost(r, b)
        PROVE  Booked({})
    BY <1>1, <2>4
       DEF RenewalScan, ChargeSucceeds, RenewalRecordFailure, RenewalDone,
           RenewalBegin, RenewalWaitExpires, RenewalMint, RunLost, tableVars
  <2>5. ASSUME NEW p \in PassIds, NEW b \in BOOLEAN, UnseenSettles(p, b)
        PROVE  Booked({})
    BY <1>1, <2>5 DEF UnseenSettles, tableVars
  <2>6. ASSUME NEW r \in Renewers, RenewalStep(r)
        PROVE  \E records : Booked(records)
    BY <2>1, <2>3, <2>4, <2>6, RenewalBooked DEF RenewalStep
  <2>7. QED
    BY <1>6, <2>2, <2>4, <2>5, <2>6 DEF RenewalNext
<1>7. CASE DeletionNext
  <2>1. ASSUME NEW e \in Erasers, DeletionCommit(e)
        PROVE  Booked({})
    BY <2>1, NothingBooked DEF DeletionCommit, PassIds
  <2>2. QED
    BY <1>1, <1>7, <2>1 DEF DeletionNext, tableVars, DeletionRead, DeletionFails
<1>8. QED
  BY <1>2, <1>3, <1>4, <1>5, <1>6, <1>7 DEF Next

LEMMA SalesInvStep ==
  ASSUME TypeInv, SalesInv, [Next]_vars
  PROVE  SalesInv'
<1>1. PICK records : Booked(records)
  BY StepBooked DEF SalesInv
<1>2. TableStepOK
  BY TypeInvStep
<1>3. QED
  BY <1>1, <1>2, BooksKept, GiftsGivenStep DEF SalesInv

LEMMA SalesInvAlways == Spec => []SalesInv
<1>1. Init => SalesInv
  BY DEF Init, TableInit, PurchaseInit, NoPurchase, SalesInv, EarningsMatchSales,
         PayerIsOwnerUnlessGift, GiftsGiven, PassIds
<1>2. TypeInv /\ [Next]_vars => TypeInv'
  BY TypeInvStep
<1>3. TypeInv /\ SalesInv /\ [Next]_vars => SalesInv'
  BY SalesInvStep
<1>4. QED
  BY InitTypeInv, <1>1, <1>2, <1>3, PTL DEF Spec

(* What is on the books is right.  Every pass that was sold, and was not a *)
(* trial, has exactly one earnings record, and there are no others; a      *)
(* record names the owner of its pass as the payer, but for a gift, where  *)
(* it names somebody else: whichever of the three sales handlers made it   *)
(* and whatever ran in between.                                            *)
THEOREM BooksSound == Spec => []BooksRight
<1>1. SalesInv => BooksRight
  BY DEF SalesInv, BooksRight
<1>2. QED
  BY SalesInvAlways, <1>1, PTL
=============================================================================
