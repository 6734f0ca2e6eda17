---------------------------- MODULE ContentProofs ----------------------------
(***************************************************************************)
(* The tiers of a creator and their content, for any tiers, passes and     *)
(* requests that overlap, runs of the scheduler and restarts.              *)
(***************************************************************************)
EXTENDS CreatorContent, FiniteSetTheorems, SequenceTheorems, WellFoundedInduction, TLAPS

CallOps == {"none", "reorder", "createContent", "rotate", "fanKey", "unlock", "run"}
CallPlaces == {"new", "ok", "refused", "updating", "read", "wrapped", "loop", "active", "found"}
Calls == [op : CallOps, at : CallPlaces, tier : Tiers \union {0}, pass : Passes \union {0}, first : Nat, ver : Nat,
          content : Nat, waited : Nat, gone : Nat, order : Seq(Tiers), old : Seq(Nat), todo : SUBSET Nat,
          late : SUBSET Passes]
TierRows == [exists : BOOLEAN, sort : Nat, lock : Requests \union {Free}]
ScheduleRows == [tier : Tiers, wait : Nat, active : BOOLEAN, lost : BOOLEAN, audience : SUBSET Passes,
                 sent : [Passes -> Nat]]

ReqOK == req \in [Requests -> Calls]
TierOK == tier \in [Tiers -> TierRows]
KeysOK == keys \in [Tiers -> SUBSET Nat]
PassOK == pass \in [Passes -> {"none", "valid", "expired", "closed"}]

-----------------------------------------------------------------------------
(* A row that is locked was updated by the transaction that holds the lock,*)
(* and every row that a transaction has updated is locked by it.           *)
LocksHeld ==
    /\ \A t \in Tiers : \A r \in Requests : tier[t].lock = r =>
          Updating(r) /\ \E i \in 1..Len(req[r].old) : req[r].order[i] = t
    /\ \A r \in Requests : Updating(r) =>
          /\ Len(req[r].old) <= Len(req[r].order)
          /\ \A i, j \in 1..Len(req[r].order) : req[r].order[i] = req[r].order[j] => i = j
          /\ \A i \in 1..Len(req[r].old) : tier[req[r].order[i]].lock = r /\ tier[req[r].order[i]].sort = i - 1

(* Without what open transactions have written, the tiers stand in the     *)
(* order that was committed last.                                          *)
CommittedOrder ==
    /\ lastOrder \in Seq(Tiers)
    /\ \A k \in 1..Len(lastOrder) :
          /\ tier[lastOrder[k]].lock = Free => tier[lastOrder[k]].sort = k - 1
          /\ \A r \in Requests : \A i \in 1..Len(req[r].old) :
                Updating(r) /\ req[r].order[i] = lastOrder[k] => req[r].old[i] = k - 1

OrderInv == ReqOK /\ TierOK /\ LocksHeld /\ CommittedOrder

-----------------------------------------------------------------------------
(* What a request knows of the keys of its tier.                           *)
KeyCall(c) ==
    /\ c.op \in {"createContent", "rotate"} /\ c.at = "read" => c.tier \in Tiers /\ c.ver \in keys[c.tier]
    /\ c.op = "rotate" /\ c.at = "ok" => c.tier \in Tiers /\ keys[c.tier] # {}
    /\ c.op = "fanKey" =>
          /\ c.tier \in Tiers /\ (c.first = 0 \/ c.first \in keys[c.tier]) /\ c.at \in {"read", "wrapped", "ok"}
          /\ c.at # "read" => c.ver \in keys[c.tier] /\ c.ver >= c.first
          /\ c.at = "ok" => c.content = 0 \/ c.content \in keys[c.tier]

KeysInv ==
    /\ KeysOK
    /\ \A t \in Tiers : /\ keys[t] = {} \/ keys[t] = 1..(1 + Cardinality(Rotations(t)))
                        /\ keys[t] # {} => tier[t].exists = TRUE
    /\ \A r \in Requests : KeyCall(req[r])
    /\ contents \in Seq([tier : Tiers, key : Nat]) /\ ContentDecryptable

-----------------------------------------------------------------------------
(* How long a token, or a request for one, may have outlived the pass.     *)
AccessInv ==
    /\ \A r \in Requests : Waiting(r) => req[r].gone <= req[r].waited /\ req[r].waited <= MaxLatency
    /\ \A k \in tokens : /\ k = [fan |-> k.fan, tier |-> k.tier, age |-> k.age, gone |-> k.gone]
                         /\ k.age \in Nat /\ k.gone \in Nat /\ k.gone <= k.age + MaxLatency

-----------------------------------------------------------------------------
OnRow(r, i) == req[r].op = "run" /\ req[r].at \in {"active", "found"} /\ NextDue(r) = i

(* A run works on rows whose time has come; the row it works on it has     *)
(* activated itself, and nobody has been told of it yet.                   *)
RunOK(r) ==
    /\ req[r].at \in {"loop", "active", "found"}
    /\ \A i \in req[r].todo : i \in 1..Len(schedules) /\ schedules[i].wait = 0
    /\ req[r].at # "loop" =>
          /\ req[r].todo # {} /\ schedules[NextDue(r)].active = TRUE
          /\ \A p \in Passes : schedules[NextDue(r)].sent[p] = 0
          /\ \A q \in Requests : OnRow(q, NextDue(r)) => q = r
          /\ req[r].at = "found" =>
                \A p \in schedules[NextDue(r)].audience : pass[p] = "valid" => p \in req[r].late

RowOK(i) ==
    /\ schedules[i].active = FALSE => \A p \in Passes : schedules[i].sent[p] = 0
    /\ schedules[i].active = TRUE => schedules[i].wait = 0
    /\ \A p \in Passes : schedules[i].sent[p] <= 1
    /\ \A p \in schedules[i].audience : pass[p] # "none" /\ TierOf[p] = schedules[i].tier
    /\ schedules[i].active = TRUE /\ schedules[i].lost = FALSE /\ (\A r \in Requests : ~OnRow(r, i)) =>
          \A p \in schedules[i].audience : pass[p] = "valid" => schedules[i].sent[p] = 1

NoticesInv ==
    /\ PassOK /\ schedules \in Seq(ScheduleRows)
    /\ \A r \in Requests : req[r].op = "run" => RunOK(r)
    /\ \A i \in 1..Len(schedules) : RowOK(i)

-----------------------------------------------------------------------------
(* Numbers and requests.                                                   *)

LEMMA Smallest ==
  ASSUME NEW S, S \subseteq Nat, S # {}
  PROVE  Min(S) \in S /\ \A y \in S : Min(S) <= y
<1> DEFINE R == OpToRel(<, Nat)
<1>1. IsWellFoundedOn(R, Nat)
  BY NatLessThanWellFounded
<1> HIDE DEF R
<1>2. \E x \in S : \A y \in S : ~ (<<y, x>> \in R)
  BY <1>1, WFMin
<1>3. \A x, y \in Nat : y < x => <<y, x>> \in R
  BY DEF R, OpToRel
<1>4. PICK x \in S : \A y \in S : ~ (<<y, x>> \in R)
  BY <1>2
<1>5. \A y \in S : ~ (y < x)
  BY <1>3, <1>4
<1>6. \A y \in S : x <= y
  BY <1>5
<1>7. QED
  BY <1>6 DEF Min

LEMMA Largest ==
  ASSUME NEW S, NEW n \in Nat, S \subseteq 0..n, S # {}
  PROVE  Max(S) \in S /\ \A y \in S : y <= Max(S)
<1> DEFINE T == {m \in 0..n : n - m \in S}
<1>1. T \subseteq Nat
  OBVIOUS
<1>2. T # {}
  <2>1. PICK x \in S : x \in 0..n
    OBVIOUS
  <2>2. n - x \in 0..n /\ n - (n - x) = x
    BY <2>1
  <2>3. QED
    BY <2>1, <2>2
<1>3. Min(T) \in T /\ \A m \in T : Min(T) <= m
  BY <1>1, <1>2, Smallest
<1>4. PICK x \in S : x = n - Min(T) /\ Min(T) \in 0..n
  BY <1>3
<1>5. ASSUME NEW y \in S PROVE y <= x
  <2>1. y \in 0..n /\ n - y \in 0..n /\ n - (n - y) = y
    OBVIOUS
  <2>2. n - y \in T
    BY <2>1
  <2>3. Min(T) <= n - y
    BY <1>3, <2>2
  <2>4. QED
    BY <1>4, <2>1, <2>3
<1>6. \E z \in S : \A y \in S : z >= y
  <2>1. \A y \in S : x >= y
    BY <1>4, <1>5
  <2>2. QED
    BY <2>1
<1>7. Max(S) \in S /\ \A y \in S : Max(S) >= y
  BY <1>6 DEF Max
<1>8. QED
  BY <1>7

LEMMA RotationsCount ==
  ASSUME NEW t
  PROVE  IsFiniteSet(Rotations(t)) /\ Cardinality(Rotations(t)) \in Nat
<1>1. Rotations(t) \in SUBSET Requests /\ IsFiniteSet(Requests)
  BY ContentAssumption DEF Rotations, ContentAssumption
<1>2. QED
  BY <1>1, FS_Subset, FS_CardinalityType

LEMMA NewestKey ==
  ASSUME KeysInv, NEW t \in Tiers, keys[t] # {}
  PROVE  /\ Newest(t) = 1 + Cardinality(Rotations(t)) /\ Newest(t) \in keys[t] /\ Newest(t) \in Nat
         /\ \A v \in keys[t] : v <= Newest(t)
<1>1. PICK n \in Nat : n = Cardinality(Rotations(t))
  BY RotationsCount
<1>2. keys[t] = 1..(1 + n)
  BY <1>1 DEF KeysInv
<1>3. keys[t] \subseteq 0..(1 + n) /\ 1 + n \in Nat /\ 1 + n \in keys[t]
  BY <1>2
<1>4. Newest(t) \in keys[t] /\ \A v \in keys[t] : v <= Newest(t)
  BY <1>3, Largest DEF Newest
<1>5. QED
  BY <1>1, <1>2, <1>3, <1>4

LEMMA UnusedCall == Unused \in Calls /\ \A how \in {"ok", "refused"} : [Unused EXCEPT !.at = how] \in Calls
<1>1. <<>> \in Seq(Tiers) /\ <<>> \in Seq(Nat)
  BY EmptySeq
<1>2. QED
  BY <1>1 DEF Unused, Calls, CallOps, CallPlaces

LEMMA OpsAndPlaces ==
  /\ "createContent" \in CallOps /\ "rotate" \in CallOps /\ "fanKey" \in CallOps /\ "unlock" \in CallOps /\ "run" \in CallOps
  /\ "reorder" \in CallOps /\ "updating" \in CallPlaces /\ "read" \in CallPlaces /\ "wrapped" \in CallPlaces
  /\ "ok" \in CallPlaces /\ "refused" \in CallPlaces /\ "loop" \in CallPlaces
BY DEF CallOps, CallPlaces

LEMMA Changed ==
  ASSUME ReqOK, NEW r \in Requests, NEW call \in Calls, req' = [req EXCEPT ![r] = call]
  PROVE  ReqOK' /\ req'[r] = call /\ \A q \in Requests \ {r} : req'[q] = req[q]
BY DEF ReqOK

(* Only r moves, and its operation is one of these before and after.       *)
Only(r, ops) ==
    /\ req[r].op \in ops /\ req'[r].op \in ops
    /\ \A q \in Requests \ {r} : req'[q] = req[q]

LEMMA Began ==
  ASSUME ReqOK, NEW r \in Requests, NEW call \in Calls, Begin(r, call)
  PROVE  ReqOK' /\ req'[r] = call /\ req[r] = Unused /\ Only(r, {"none", call.op})
<1>1. req' = [req EXCEPT ![r] = call] /\ req[r] = Unused
  BY DEF Begin
<1>2. ReqOK' /\ req'[r] = call /\ \A q \in Requests \ {r} : req'[q] = req[q]
  BY <1>1, Changed
<1>3. Unused.op = "none"
  BY DEF Unused
<1>4. QED
  BY <1>1, <1>2, <1>3 DEF Only

LEMMA BeganEnded ==
  ASSUME ReqOK, NEW r \in Requests, NEW how \in {"ok", "refused"}, BeginEnd(r, how)
  PROVE  ReqOK' /\ req'[r] = [Unused EXCEPT !.at = how] /\ req[r] = Unused /\ Only(r, {"none"})
<1>1. req' = [req EXCEPT ![r] = [Unused EXCEPT !.at = how]] /\ req[r] = Unused
  BY DEF BeginEnd
<1>2. ReqOK' /\ req'[r] = [Unused EXCEPT !.at = how] /\ \A q \in Requests \ {r} : req'[q] = req[q]
  BY <1>1, Changed, UnusedCall
<1>3. Unused.op = "none" /\ [Unused EXCEPT !.at = how].op = "none"
  BY DEF Unused
<1>4. QED
  BY <1>1, <1>2, <1>3 DEF Only

LEMMA Answered ==
  ASSUME ReqOK, NEW r \in Requests, NEW how \in {"ok", "refused"}, Answer(r, how)
  PROVE  /\ ReqOK' /\ Only(r, {"none", req[r].op})
         /\ req'[r].at = how
         /\ ~ (req[r].op = "rotate" /\ how = "ok") => req'[r] = [Unused EXCEPT !.at = how] /\ req'[r].op = "none"
         /\ req[r].op = "rotate" /\ how = "ok" =>
               /\ req'[r].op = "rotate" /\ req'[r].tier = req[r].tier
<1>1. CASE ~ (req[r].op = "rotate" /\ how = "ok")
  <2>1. req' = [req EXCEPT ![r] = [Unused EXCEPT !.at = how]]
    BY <1>1 DEF Answer
  <2>2. ReqOK' /\ req'[r] = [Unused EXCEPT !.at = how] /\ \A q \in Requests \ {r} : req'[q] = req[q]
    BY <2>1, Changed, UnusedCall
  <2>3. [Unused EXCEPT !.at = how].op = "none" /\ [Unused EXCEPT !.at = how].at = how
    BY DEF Unused
  <2>4. QED
    BY <1>1, <2>2, <2>3 DEF Only
<1>2. CASE req[r].op = "rotate" /\ how = "ok"
  <2> DEFINE call == [Unused EXCEPT !.op = "rotate", !.at = how, !.tier = req[r].tier]
  <2>1. req' = [req EXCEPT ![r] = call]
    BY <1>2 DEF Answer
  <2>2. req[r].tier \in Tiers \union {0}
    BY DEF ReqOK, Calls
  <2>3. call \in Calls /\ call.op = "rotate" /\ call.at = how /\ call.tier = req[r].tier
    BY <2>2, UnusedCall, OpsAndPlaces DEF Calls
  <2> HIDE DEF call
  <2>4. ReqOK' /\ req'[r] = call /\ \A q \in Requests \ {r} : req'[q] = req[q]
    BY <2>1, <2>3, Changed
  <2>5. QED
    BY <1>2, <2>3, <2>4 DEF Only
<1>3. QED
  BY <1>1, <1>2

-----------------------------------------------------------------------------
(* The transaction that reorders the tiers.                                *)

USE DEF Free

LEMMA OrdersAre ==
  ASSUME NEW order \in Orders
  PROVE  order \in Seq(Tiers) /\ \A i, j \in 1..Len(order) : order[i] = order[j] => i = j
<1>1. PICK some \in SUBSET Tiers : order \in SetToSeqs(some)
  BY DEF Orders
<1>2. PICK n \in Nat : n = Cardinality(some)
  BY ContentAssumption, FS_Subset, FS_CardinalityType DEF ContentAssumption
<1>3. order \in [1..n -> some] /\ \A i, j \in 1..n : i # j => order[i] # order[j]
  BY <1>1, <1>2 DEF SetToSeqs
<1>4. order \in Seq(Tiers) /\ Len(order) = n
  BY <1>3
<1>5. QED
  BY <1>3, <1>4

(* Nothing of the reordering is touched.                                   *)
LEMMA OrderFrame ==
  ASSUME OrderInv, ReqOK', tier' = tier, lastOrder' = lastOrder,
         \A q \in Requests : req'[q] = req[q] \/ (req[q].op # "reorder" /\ req'[q].op # "reorder")
  PROVE  OrderInv'
<1>1. \A q \in Requests : /\ Updating(q)' <=> Updating(q)
                          /\ Updating(q) => req'[q] = req[q]
  BY DEF Updating
<1>2. TierOK'
  BY DEF OrderInv, TierOK
<1>3. \A t \in Tiers : tier[t] = tier'[t]
  OBVIOUS
<1>4. LocksHeld'
  <2>1. ASSUME NEW t \in Tiers, NEW q \in Requests, tier[t].lock = q
        PROVE  Updating(q)' /\ \E i \in 1..Len(req'[q].old) : req'[q].order[i] = t
    <3>1. Updating(q) /\ \E i \in 1..Len(req[q].old) : req[q].order[i] = t
      BY <2>1 DEF OrderInv, LocksHeld
    <3>2. QED
      BY <1>1, <3>1
  <2>2. ASSUME NEW r \in Requests, Updating(r)'
        PROVE  /\ Len(req'[r].old) <= Len(req'[r].order)
               /\ \A i, j \in 1..Len(req'[r].order) : req'[r].order[i] = req'[r].order[j] => i = j
               /\ \A i \in 1..Len(req'[r].old) : tier[req'[r].order[i]].lock = r /\ tier[req'[r].order[i]].sort = i - 1
    <3>1. Updating(r) /\ req'[r] = req[r]
      BY <1>1, <2>2
    <3>2. QED
      BY <3>1 DEF OrderInv, LocksHeld
  <2>3. QED
    BY <1>3, <2>1, <2>2 DEF LocksHeld
<1>5. CommittedOrder'
  <2>1. ASSUME NEW k \in 1..Len(lastOrder), NEW r \in Requests, Updating(r)', NEW i \in 1..Len(req'[r].old),
               req'[r].order[i] = lastOrder[k]
        PROVE  req'[r].old[i] = k - 1
    <3>1. Updating(r) /\ req'[r] = req[r]
      BY <1>1, <2>1
    <3>2. QED
      BY <2>1, <3>1 DEF OrderInv, CommittedOrder
  <2>2. QED
    BY <2>1 DEF OrderInv, CommittedOrder, Updating
<1>6. QED
  BY <1>2, <1>4, <1>5 DEF OrderInv

LEMMA RestoredRow ==
  ASSUME OrderInv, NEW r \in Requests, NEW t \in Tiers, tier[t].lock = r
  PROVE  /\ Restored(r)[t] \in TierRows /\ Restored(r)[t].exists = tier[t].exists /\ Restored(r)[t].lock = r
         /\ \A k \in 1..Len(lastOrder) : lastOrder[k] = t => Restored(r)[t].sort = k - 1
<1>1. r # 0 /\ tier[t] \in TierRows /\ req[r] \in Calls
  BY ContentAssumption DEF ContentAssumption, OrderInv, TierOK, ReqOK
<1>2. Updating(r) /\ \E i \in 1..Len(req[r].old) : req[r].order[i] = t
  BY <1>1 DEF OrderInv, LocksHeld
<1>3. req[r].old \in Seq(Nat) /\ DOMAIN req[r].old = 1..Len(req[r].old)
  BY <1>1, LenProperties DEF Calls
<1> DEFINE i == CHOOSE j \in DOMAIN req[r].old : req[r].order[j] = t
<1>4. i \in 1..Len(req[r].old) /\ req[r].order[i] = t
  BY <1>2, <1>3
<1>5. Restored(r)[t] = [tier[t] EXCEPT !.sort = req[r].old[i]]
  BY DEF Restored
<1> HIDE DEF i
<1>6. req[r].old[i] \in Nat
  BY <1>3, <1>4, ElementOfSeq
<1>7. ASSUME NEW k \in 1..Len(lastOrder), lastOrder[k] = t PROVE req[r].old[i] = k - 1
  BY <1>2, <1>4, <1>7 DEF OrderInv, CommittedOrder
<1>8. QED
  BY <1>1, <1>5, <1>6, <1>7 DEF TierRows

(* The transactions of some requests are rolled back, or all of them.      *)
LEMMA RolledBack ==
  ASSUME OrderInv, NEW L, L \subseteq Requests, lastOrder' = lastOrder, ReqOK', TierOK',
         \A q \in Requests : IF q \in L THEN req'[q].op # "reorder" ELSE req'[q] = req[q],
         \A t \in Tiers : tier[t].lock \notin L => tier'[t] = tier[t],
         \A t \in Tiers : tier[t].lock \in L =>
            tier'[t].lock = Free /\ tier'[t].sort = Restored(tier[t].lock)[t].sort
  PROVE  OrderInv'
<1>1. \A q \in Requests : Updating(q)' => Updating(q) /\ req'[q] = req[q] /\ q \notin L
  BY DEF Updating
<1>2. Free \notin L
  BY ContentAssumption DEF ContentAssumption
<1>3. LocksHeld'
  <2>1. ASSUME NEW t \in Tiers, NEW q \in Requests, tier'[t].lock = q
        PROVE  Updating(q)' /\ \E i \in 1..Len(req'[q].old) : req'[q].order[i] = t
    <3>1. tier'[t] = tier[t] /\ q \notin L
      <4>1. q # 0
        BY ContentAssumption DEF ContentAssumption
      <4>2. tier[t].lock \notin L
        BY <2>1, <4>1
      <4>3. QED
        BY <2>1, <4>2
    <3>2. Updating(q) /\ \E i \in 1..Len(req[q].old) : req[q].order[i] = t
      BY <2>1, <3>1 DEF OrderInv, LocksHeld
    <3>3. req'[q] = req[q]
      BY <3>1
    <3>4. QED
      BY <3>2, <3>3 DEF Updating
  <2>2. ASSUME NEW r \in Requests, Updating(r)'
        PROVE  /\ Len(req'[r].old) <= Len(req'[r].order)
               /\ \A i, j \in 1..Len(req'[r].order) : req'[r].order[i] = req'[r].order[j] => i = j
               /\ \A i \in 1..Len(req'[r].old) : tier'[req'[r].order[i]].lock = r /\ tier'[req'[r].order[i]].sort = i - 1
    <3>1. Updating(r) /\ req'[r] = req[r] /\ r \notin L
      BY <1>1, <2>2
    <3>2. req[r].order \in Seq(Tiers) /\ req[r].old \in Seq(Nat)
      BY DEF OrderInv, ReqOK, Calls
    <3>3. /\ Len(req[r].old) <= Len(req[r].order)
          /\ \A i, j \in 1..Len(req[r].order) : req[r].order[i] = req[r].order[j] => i = j
          /\ \A i \in 1..Len(req[r].old) : tier[req[r].order[i]].lock = r /\ tier[req[r].order[i]].sort = i - 1
      BY <3>1 DEF OrderInv, LocksHeld
    <3>4. ASSUME NEW i \in 1..Len(req[r].old) PROVE tier'[req[r].order[i]] = tier[req[r].order[i]]
      <4>1. i \in 1..Len(req[r].order)
        BY <3>2, <3>3, LenProperties
      <4>2. req[r].order[i] \in Tiers
        BY <3>2, <4>1, ElementOfSeq
      <4>3. QED
        BY <3>1, <3>3, <4>2
    <3>5. QED
      BY <3>1, <3>3, <3>4
  <2>3. QED
    BY <2>1, <2>2 DEF LocksHeld
<1>4. CommittedOrder'
  <2>1. ASSUME NEW k \in 1..Len(lastOrder), tier'[lastOrder[k]].lock = Free PROVE tier'[lastOrder[k]].sort = k - 1
    <3>1. PICK t \in Tiers : t = lastOrder[k]
      BY ElementOfSeq DEF OrderInv, CommittedOrder
    <3>2. CASE tier[t].lock \in L
      <4>1. PICK q \in Requests : q = tier[t].lock /\ q \in L
        BY <3>2
      <4>2. tier'[t].sort = Restored(q)[t].sort
        BY <3>2, <4>1
      <4>3. QED
        BY <3>1, <4>1, <4>2, RestoredRow
    <3>3. CASE tier[t].lock \notin L
      BY <2>1, <3>1, <3>3 DEF OrderInv, CommittedOrder
    <3>4. QED
      BY <3>2, <3>3
  <2>2. ASSUME NEW k \in 1..Len(lastOrder), NEW r \in Requests, Updating(r)', NEW i \in 1..Len(req'[r].old),
               req'[r].order[i] = lastOrder[k]
        PROVE  req'[r].old[i] = k - 1
    <3>1. Updating(r) /\ req'[r] = req[r]
      BY <1>1, <2>2
    <3>2. QED
      BY <2>2, <3>1 DEF OrderInv, CommittedOrder
  <2>3. QED
    BY <2>1, <2>2 DEF OrderInv, CommittedOrder
<1>5. QED
  BY <1>3, <1>4 DEF OrderInv

LEMMA UpdateOrder ==
  ASSUME OrderInv, NEW r \in Requests, ReorderUpdate(r)
  PROVE  OrderInv' /\ Only(r, {"none", "reorder"}) /\ \A t \in Tiers : tier'[t].exists = tier[t].exists
<1> DEFINE n == Len(req[r].old)
           x == req[r].order[n + 1]
           call == [req[r] EXCEPT !.old = Append(req[r].old, tier[x].sort)]
           row == [tier[x] EXCEPT !.sort = n, !.lock = r]
<1>1. Updating(r) /\ n < Len(req[r].order) /\ x = NextRow(r) /\ tier[x].lock = Free
  BY DEF ReorderUpdate, MoreRows, NextRow
<1>2. req[r] \in Calls /\ req[r].order \in Seq(Tiers) /\ req[r].old \in Seq(Nat)
  BY DEF OrderInv, ReqOK, Calls
<1>3. n \in Nat /\ Len(req[r].order) \in Nat
  BY <1>2, LenProperties
<1>4. x \in Tiers
  BY <1>1, <1>2, <1>3, ElementOfSeq
<1>5. tier[x] \in TierRows /\ tier[x].sort \in Nat
  BY <1>4 DEF OrderInv, TierOK, TierRows
<1>6. Append(req[r].old, tier[x].sort) \in Seq(Nat) /\ Len(Append(req[r].old, tier[x].sort)) = n + 1
      /\ Append(req[r].old, tier[x].sort)[n + 1] = tier[x].sort
      /\ \A i \in 1..n : Append(req[r].old, tier[x].sort)[i] = req[r].old[i]
  BY <1>2, <1>3, <1>5
<1>7. req' = [req EXCEPT ![r] = call] /\ tier' = [tier EXCEPT ![x] = row] /\ lastOrder' = lastOrder
  BY <1>1 DEF ReorderUpdate
<1>8. /\ call \in Calls /\ call.op = req[r].op /\ call.at = req[r].at /\ call.order = req[r].order
      /\ call.old = Append(req[r].old, tier[x].sort)
  BY <1>2, <1>6 DEF Calls
<1>9. row \in TierRows /\ row.sort = n /\ row.lock = r /\ row.exists = tier[x].exists
  BY <1>3, <1>5 DEF TierRows
<1> HIDE DEF call, row
<1>10. ReqOK' /\ req'[r] = call /\ \A q \in Requests \ {r} : req'[q] = req[q]
  BY <1>7, <1>8, Changed DEF OrderInv
<1>11. TierOK' /\ tier'[x] = row /\ \A t \in Tiers \ {x} : tier'[t] = tier[t]
  BY <1>4, <1>7, <1>9 DEF OrderInv, TierOK
<1>12. /\ \A q \in Requests : Updating(q)' <=> Updating(q)
       /\ \A q \in Requests : req'[q].order = req[q].order
       /\ Len(req'[r].old) = n + 1 /\ req'[r].old[n + 1] = tier[x].sort
       /\ \A i \in 1..n : req'[r].old[i] = req[r].old[i]
  BY <1>6, <1>8, <1>10 DEF Updating
<1>13. r # 0 /\ \A i \in 1..n : req[r].order[i] # x /\ i \in 1..Len(req[r].order)
  <2>1. n + 1 \in 1..Len(req[r].order)
    BY <1>1, <1>3
  <2>2. ASSUME NEW i \in 1..n PROVE req[r].order[i] # x /\ i \in 1..Len(req[r].order)
    <3>1. i \in 1..Len(req[r].order) /\ i # n + 1
      BY <1>1, <1>3
    <3>2. QED
      BY <1>1, <2>1, <3>1 DEF OrderInv, LocksHeld
  <2>3. QED
    BY <2>2, ContentAssumption DEF ContentAssumption
<1>14. LocksHeld'
  <2>1. ASSUME NEW t \in Tiers, NEW q \in Requests, tier'[t].lock = q
        PROVE  Updating(q)' /\ \E i \in 1..Len(req'[q].old) : req'[q].order[i] = t
    <3>1. CASE t = x
      <4>1. q = r /\ n + 1 \in 1..Len(req'[r].old) /\ req'[r].order[n + 1] = t
        BY <1>3, <1>9, <1>11, <1>12, <2>1, <3>1
      <4>2. QED
        BY <1>1, <1>12, <4>1
    <3>2. CASE t # x
      <4>1. tier[t].lock = q
        BY <1>11, <2>1, <3>2
      <4>2. Updating(q) /\ \E i \in 1..Len(req[q].old) : req[q].order[i] = t
        BY <4>1 DEF OrderInv, LocksHeld
      <4>3. PICK i \in 1..Len(req[q].old) : req[q].order[i] = t
        BY <4>2
      <4>4. i \in 1..Len(req'[q].old) /\ req'[q].order[i] = t
        <5>1. CASE q = r
          BY <1>3, <1>12, <4>3, <5>1
        <5>2. CASE q # r
          BY <1>10, <4>3, <5>2
        <5>3. QED
          BY <5>1, <5>2
      <4>5. QED
        BY <1>12, <4>2, <4>4
    <3>3. QED
      BY <3>1, <3>2
  <2>2. ASSUME NEW q \in Requests, Updating(q)'
        PROVE  /\ Len(req'[q].old) <= Len(req'[q].order)
               /\ \A i, j \in 1..Len(req'[q].order) : req'[q].order[i] = req'[q].order[j] => i = j
               /\ \A i \in 1..Len(req'[q].old) : tier'[req'[q].order[i]].lock = q /\ tier'[req'[q].order[i]].sort = i - 1
    <3>1. Updating(q) /\ req'[q].order = req[q].order
      BY <1>12, <2>2
    <3>2. \A i, j \in 1..Len(req'[q].order) : req'[q].order[i] = req'[q].order[j] => i = j
      BY <3>1 DEF OrderInv, LocksHeld
    <3>3. /\ Len(req[q].old) <= Len(req[q].order)
          /\ \A i \in 1..Len(req[q].old) : tier[req[q].order[i]].lock = q /\ tier[req[q].order[i]].sort = i - 1
      BY <3>1 DEF OrderInv, LocksHeld
    <3>4. \A i \in 1..Len(req[q].old) : req[q].order[i] \in Tiers
      <4>1. req[q].order \in Seq(Tiers) /\ req[q].old \in Seq(Nat)
        BY DEF OrderInv, ReqOK, Calls
      <4>2. \A i \in 1..Len(req[q].old) : i \in 1..Len(req[q].order)
        BY <3>3, <4>1, LenProperties
      <4>3. QED
        BY <4>1, <4>2, ElementOfSeq
    <3>5. CASE q = r
      <4>1. Len(req'[r].old) <= Len(req'[r].order)
        BY <1>1, <1>3, <1>12
      <4>2. ASSUME NEW i \in 1..(n + 1) PROVE tier'[req[r].order[i]].lock = r /\ tier'[req[r].order[i]].sort = i - 1
        <5>1. CASE i = n + 1
          BY <1>3, <1>9, <1>11, <5>1
        <5>2. CASE i # n + 1
          <6>1. i \in 1..n /\ req[r].order[i] # x
            BY <1>3, <1>13, <5>2
          <6>2. QED
            BY <1>11, <3>3, <3>4, <3>5, <6>1
        <5>3. QED
          BY <5>1, <5>2
      <4>3. QED
        BY <1>12, <3>2, <3>5, <4>1, <4>2
    <3>6. CASE q # r
      <4>1. req'[q] = req[q]
        BY <1>10, <3>6
      <4>2. ASSUME NEW i \in 1..Len(req[q].old) PROVE req[q].order[i] # x
        <5>1. q # 0 /\ tier[req[q].order[i]].lock = q
          BY <3>3, ContentAssumption DEF ContentAssumption
        <5>2. QED
          BY <1>1, <5>1
      <4>3. QED
        BY <1>11, <3>2, <3>3, <3>4, <4>1, <4>2, SMTT(30)
    <3>7. QED
      BY <3>5, <3>6
  <2>3. QED
    BY <2>1, <2>2 DEF LocksHeld
<1>15. CommittedOrder'
  <2>1. ASSUME NEW k \in 1..Len(lastOrder), tier'[lastOrder[k]].lock = Free PROVE tier'[lastOrder[k]].sort = k - 1
    <3>1. PICK t \in Tiers : t = lastOrder[k]
      BY ElementOfSeq DEF OrderInv, CommittedOrder
    <3>2. t # x
      BY <1>9, <1>11, <1>13, <2>1, <3>1
    <3>3. QED
      BY <1>11, <2>1, <3>1, <3>2 DEF OrderInv, CommittedOrder
  <2>2. ASSUME NEW k \in 1..Len(lastOrder), NEW q \in Requests, Updating(q)', NEW i \in 1..Len(req'[q].old),
               req'[q].order[i] = lastOrder[k]
        PROVE  req'[q].old[i] = k - 1
    <3>1. Updating(q) /\ req[q].order[i] = lastOrder[k]
      BY <1>12, <2>2
    <3>2. CASE q = r /\ i = n + 1
      <4>1. x = lastOrder[k] /\ tier[lastOrder[k]].lock = Free
        BY <1>1, <3>1, <3>2
      <4>2. QED
        BY <1>12, <3>2, <4>1 DEF OrderInv, CommittedOrder
    <3>3. CASE ~(q = r /\ i = n + 1)
      <4>1. i \in 1..Len(req[q].old) /\ req'[q].old[i] = req[q].old[i]
        BY <1>3, <1>10, <1>12, <3>3, SMTT(30)
      <4>2. QED
        BY <3>1, <4>1 DEF OrderInv, CommittedOrder
    <3>4. QED
      BY <3>2, <3>3
  <2>3. QED
    BY <1>7, <2>1, <2>2 DEF OrderInv, CommittedOrder
<1>16. \A t \in Tiers : tier'[t].exists = tier[t].exists
  BY <1>9, <1>11
<1>17. Only(r, {"none", "reorder"})
  BY <1>1, <1>8, <1>10 DEF Only, Updating
<1>18. QED
  BY <1>10, <1>11, <1>14, <1>15, <1>16, <1>17 DEF OrderInv

LEMMA CommitOrder ==
  ASSUME OrderInv, NEW r \in Requests, ReorderCommit(r)
  PROVE  OrderInv' /\ Only(r, {"none", "reorder"}) /\ \A t \in Tiers : tier'[t].exists = tier[t].exists
<1>1. Updating(r) /\ ~MoreRows(r) /\ Answer(r, "ok") /\ tier' = Unlocked(r, tier) /\ lastOrder' = req[r].order
  BY DEF ReorderCommit
<1>2. req[r].op = "reorder" /\ req[r].order \in Seq(Tiers) /\ req[r].old \in Seq(Nat) /\ ReqOK
  BY <1>1 DEF Updating, OrderInv, ReqOK, Calls
<1>3. ReqOK' /\ Only(r, {"none", "reorder"}) /\ req'[r].op = "none" /\ \A q \in Requests \ {r} : req'[q] = req[q]
  BY <1>1, <1>2, Answered DEF Only
<1>4. ASSUME NEW t \in Tiers
      PROVE  /\ tier'[t] \in TierRows /\ tier'[t].exists = tier[t].exists /\ tier'[t].sort = tier[t].sort
             /\ tier'[t].lock # r
             /\ tier[t].lock # r => tier'[t] = tier[t]
             /\ tier[t].lock = r => tier'[t].lock = Free
  <2>1. tier[t] \in TierRows /\ r # 0
    BY ContentAssumption DEF OrderInv, TierOK, ContentAssumption
  <2>2. tier'[t] = IF tier[t].lock = r THEN [tier[t] EXCEPT !.lock = Free] ELSE tier[t]
    BY <1>1 DEF Unlocked
  <2>3. QED
    BY <2>1, <2>2 DEF TierRows
<1>5. TierOK'
  <2>1. tier' = [t \in Tiers |-> IF tier[t].lock = r THEN [tier[t] EXCEPT !.lock = Free] ELSE tier[t]]
    BY <1>1 DEF Unlocked
  <2>2. QED
    BY <1>4, <2>1 DEF TierOK
<1>6. /\ Len(req[r].old) = Len(req[r].order) /\ Len(req[r].order) \in Nat
      /\ \A i \in 1..Len(req[r].order) : tier[req[r].order[i]].lock = r /\ tier[req[r].order[i]].sort = i - 1
  <2>1. Len(req[r].old) \in Nat /\ Len(req[r].order) \in Nat
    BY <1>2, LenProperties
  <2>2. ~(Len(req[r].old) < Len(req[r].order)) /\ Len(req[r].old) <= Len(req[r].order)
    BY <1>1 DEF MoreRows, OrderInv, LocksHeld
  <2>3. Len(req[r].old) = Len(req[r].order)
    BY <2>1, <2>2
  <2>4. QED
    BY <1>1, <2>1, <2>3 DEF OrderInv, LocksHeld
<1>7. \A q \in Requests : Updating(q)' => Updating(q) /\ q # r /\ req'[q] = req[q]
  BY <1>3 DEF Updating
<1>8. LocksHeld'
  <2>1. ASSUME NEW t \in Tiers, NEW q \in Requests, tier'[t].lock = q
        PROVE  Updating(q)' /\ \E i \in 1..Len(req'[q].old) : req'[q].order[i] = t
    <3>1. q # 0
      BY ContentAssumption DEF ContentAssumption
    <3>2. q # r /\ tier[t].lock = q
      BY <1>4, <2>1, <3>1
    <3>3. Updating(q) /\ \E i \in 1..Len(req[q].old) : req[q].order[i] = t
      BY <3>2 DEF OrderInv, LocksHeld
    <3>4. req'[q] = req[q]
      BY <1>3, <3>2
    <3>5. QED
      BY <3>3, <3>4 DEF Updating
  <2>2. ASSUME NEW q \in Requests, Updating(q)'
        PROVE  /\ Len(req'[q].old) <= Len(req'[q].order)
               /\ \A i, j \in 1..Len(req'[q].order) : req'[q].order[i] = req'[q].order[j] => i = j
               /\ \A i \in 1..Len(req'[q].old) : tier'[req'[q].order[i]].lock = q /\ tier'[req'[q].order[i]].sort = i - 1
    <3>1. Updating(q) /\ q # r /\ req'[q] = req[q]
      BY <1>7, <2>2
    <3>2. /\ Len(req[q].old) <= Len(req[q].order)
          /\ \A i, j \in 1..Len(req[q].order) : req[q].order[i] = req[q].order[j] => i = j
          /\ \A i \in 1..Len(req[q].old) : tier[req[q].order[i]].lock = q /\ tier[req[q].order[i]].sort = i - 1
      BY <3>1 DEF OrderInv, LocksHeld
    <3>3. \A i \in 1..Len(req[q].old) : req[q].order[i] \in Tiers
      <4>1. req[q].order \in Seq(Tiers) /\ req[q].old \in Seq(Nat)
        BY DEF OrderInv, ReqOK, Calls
      <4>2. \A i \in 1..Len(req[q].old) : i \in 1..Len(req[q].order)
        BY <3>2, <4>1, LenProperties
      <4>3. QED
        BY <4>1, <4>2, ElementOfSeq
    <3>4. \A i \in 1..Len(req[q].old) : tier'[req[q].order[i]] = tier[req[q].order[i]]
      BY <1>4, <3>1, <3>2, <3>3
    <3>5. \A i \in 1..Len(req[q].old) : tier'[req[q].order[i]].lock = q /\ tier'[req[q].order[i]].sort = i - 1
      BY <3>2, <3>4
    <3>6. QED
      BY <3>1, <3>2, <3>5
  <2>3. QED
    BY <2>1, <2>2 DEF LocksHeld
<1>9. CommittedOrder'
  <2>1. ASSUME NEW k \in 1..Len(req[r].order) PROVE tier'[req[r].order[k]].sort = k - 1
    BY <1>2, <1>4, <1>6, ElementOfSeq
  <2>2. ASSUME NEW k \in 1..Len(req[r].order), NEW q \in Requests, Updating(q)', NEW i \in 1..Len(req'[q].old),
               req'[q].order[i] = req[r].order[k]
        PROVE  req'[q].old[i] = k - 1
    <3>1. Updating(q) /\ q # r /\ req'[q] = req[q]
      BY <1>7, <2>2
    <3>2. tier[req[q].order[i]].lock = q
      BY <2>2, <3>1 DEF OrderInv, LocksHeld
    <3>3. tier[req[r].order[k]].lock = r
      BY <1>6
    <3>4. QED
      BY <2>2, <3>1, <3>2, <3>3
  <2>3. QED
    BY <1>1, <1>2, <2>1, <2>2 DEF CommittedOrder
<1>10. QED
  BY <1>3, <1>4, <1>5, <1>8, <1>9 DEF OrderInv

LEMMA DeadlockOrder ==
  ASSUME OrderInv, NEW r \in Requests, NEW q \in Requests, ReorderDeadlock(r, q)
  PROVE  OrderInv' /\ Only(r, {"none", "reorder"}) /\ \A t \in Tiers : tier'[t].exists = tier[t].exists
<1>1. /\ Updating(r) /\ Answer(r, "refused") /\ tier' = Unlocked(r, Restored(r)) /\ lastOrder' = lastOrder
  BY DEF ReorderDeadlock, MoreRows
<1>2. ReqOK' /\ Only(r, {"none", "reorder"}) /\ req'[r].op = "none" /\ \A p \in Requests \ {r} : req'[p] = req[p]
  BY <1>1, Answered DEF Only, OrderInv, Updating
<1>3. ASSUME NEW t \in Tiers
      PROVE  /\ tier'[t] \in TierRows /\ tier'[t].exists = tier[t].exists
             /\ tier[t].lock # r => tier'[t] = tier[t]
             /\ tier[t].lock = r => tier'[t].lock = Free /\ tier'[t].sort = Restored(r)[t].sort
  <2>1. tier[t] \in TierRows
    BY DEF OrderInv, TierOK
  <2>2. tier'[t] = IF Restored(r)[t].lock = r THEN [Restored(r)[t] EXCEPT !.lock = Free] ELSE Restored(r)[t]
    BY <1>1 DEF Unlocked
  <2>3. CASE tier[t].lock = r
    <3>1. Restored(r)[t] \in TierRows /\ Restored(r)[t].exists = tier[t].exists /\ Restored(r)[t].lock = r
      BY <2>3, RestoredRow
    <3>2. PICK w : w = Restored(r)[t]
      OBVIOUS
    <3>3. QED
      BY <2>2, <2>3, <3>1, <3>2 DEF TierRows
  <2>4. CASE tier[t].lock # r
    <3>1. Restored(r)[t] = tier[t]
      BY <2>4 DEF Restored
    <3>2. QED
      BY <2>1, <2>2, <2>4, <3>1
  <2>5. QED
    BY <2>3, <2>4
<1>4. TierOK'
  <2>1. tier' = [t \in Tiers |-> IF Restored(r)[t].lock = r THEN [Restored(r)[t] EXCEPT !.lock = Free] ELSE Restored(r)[t]]
    BY <1>1 DEF Unlocked
  <2>2. QED
    BY <1>3, <2>1 DEF TierOK
<1>5. OrderInv'
  <2> DEFINE L == {r}
  <2>1. \A p \in Requests : IF p \in L THEN req'[p].op # "reorder" ELSE req'[p] = req[p]
    BY <1>2
  <2>2. \A t \in Tiers : tier[t].lock \in L =>
            tier'[t].lock = Free /\ tier'[t].sort = Restored(tier[t].lock)[t].sort
    BY <1>3
  <2>3. \A t \in Tiers : tier[t].lock \notin L => tier'[t] = tier[t]
    BY <1>3
  <2>4. L \subseteq Requests
    OBVIOUS
  <2> HIDE DEF L
  <2>5. QED
    BY <1>1, <1>2, <1>4, <2>1, <2>2, <2>3, <2>4, RolledBack
<1>6. QED
  BY <1>2, <1>3, <1>5

(* Rows that are created leave the reordering alone.                       *)
LEMMA CreatedOrder ==
  ASSUME OrderInv, NEW new, tier' = [t \in Tiers |-> IF t \in new THEN [tier[t] EXCEPT !.exists = TRUE] ELSE tier[t]],
         ReqOK', lastOrder' = lastOrder, \A q \in Requests : req'[q] = req[q] \/ (req[q].op # "reorder" /\ req'[q].op # "reorder")
  PROVE  OrderInv' /\ \A t \in Tiers : tier'[t].exists = (tier[t].exists \/ t \in new)
<1>1. ASSUME NEW t \in Tiers
      PROVE  /\ tier'[t] \in TierRows /\ tier'[t].sort = tier[t].sort /\ tier'[t].lock = tier[t].lock
             /\ tier'[t].exists = (tier[t].exists \/ t \in new)
  <2>1. tier[t] \in TierRows
    BY DEF OrderInv, TierOK
  <2>2. QED
    BY <2>1 DEF TierRows
<1>2. TierOK'
  BY <1>1 DEF TierOK
<1>3. \A q \in Requests : /\ Updating(q)' <=> Updating(q)
                          /\ Updating(q) => req'[q] = req[q]
  BY DEF Updating
<1>4. \A q \in Requests : Updating(q) => \A i \in 1..Len(req[q].old) : req[q].order[i] \in Tiers
  <2>1. ASSUME NEW q \in Requests, Updating(q), NEW i \in 1..Len(req[q].old) PROVE req[q].order[i] \in Tiers
    <3>1. req[q].order \in Seq(Tiers) /\ req[q].old \in Seq(Nat) /\ Len(req[q].old) <= Len(req[q].order)
      BY <2>1 DEF OrderInv, ReqOK, Calls, LocksHeld
    <3>2. i \in 1..Len(req[q].order)
      BY <3>1, LenProperties
    <3>3. QED
      BY <3>1, <3>2, ElementOfSeq
  <2>2. QED
    BY <2>1
<1>5. LocksHeld'
  <2>1. ASSUME NEW t \in Tiers, NEW q \in Requests, tier'[t].lock = q
        PROVE  Updating(q)' /\ \E i \in 1..Len(req'[q].old) : req'[q].order[i] = t
    <3>1. Updating(q) /\ \E i \in 1..Len(req[q].old) : req[q].order[i] = t
      BY <1>1, <2>1 DEF OrderInv, LocksHeld
    <3>2. QED
      BY <1>3, <3>1
  <2>2. ASSUME NEW q \in Requests, Updating(q)'
        PROVE  /\ Len(req'[q].old) <= Len(req'[q].order)
               /\ \A i, j \in 1..Len(req'[q].order) : req'[q].order[i] = req'[q].order[j] => i = j
               /\ \A i \in 1..Len(req'[q].old) : tier'[req'[q].order[i]].lock = q /\ tier'[req'[q].order[i]].sort = i - 1
    <3>1. Updating(q) /\ req'[q] = req[q]
      BY <1>3, <2>2
    <3>2. QED
      BY <1>1, <1>4, <3>1 DEF OrderInv, LocksHeld
  <2>3. QED
    BY <2>1, <2>2 DEF LocksHeld
<1>6. CommittedOrder'
  <2>1. \A k \in 1..Len(lastOrder) : lastOrder[k] \in Tiers
    BY ElementOfSeq DEF OrderInv, CommittedOrder
  <2>2. ASSUME NEW k \in 1..Len(lastOrder), tier'[lastOrder[k]].lock = Free PROVE tier'[lastOrder[k]].sort = k - 1
    BY <1>1, <2>1, <2>2 DEF OrderInv, CommittedOrder
  <2>3. ASSUME NEW k \in 1..Len(lastOrder), NEW q \in Requests, Updating(q)', NEW i \in 1..Len(req'[q].old),
               req'[q].order[i] = lastOrder[k]
        PROVE  req'[q].old[i] = k - 1
    BY <1>3, <2>3 DEF OrderInv, CommittedOrder
  <2>4. QED
    BY <2>2, <2>3 DEF OrderInv, CommittedOrder
<1>7. QED
  BY <1>1, <1>2, <1>5, <1>6 DEF OrderInv

LEMMA ReadOrder ==
  ASSUME OrderInv, NEW r \in Requests, NEW order \in Orders, ReorderRead(r, order)
  PROVE  OrderInv' /\ Only(r, {"none", "reorder"}) /\ tier' = tier
<1>1. tier' = tier /\ lastOrder' = lastOrder
  BY DEF ReorderRead
<1>2. CASE ToSet(order) # Existing
  <2>1. ReqOK' /\ Only(r, {"none"})
    BY <1>2, BeganEnded DEF ReorderRead, Refuse, OrderInv
  <2>2. \A q \in Requests : req'[q] = req[q] \/ (req[q].op # "reorder" /\ req'[q].op # "reorder")
    BY <2>1 DEF Only
  <2>3. QED
    BY <1>1, <2>1, <2>2, OrderFrame DEF Only
<1>3. CASE ToSet(order) = Existing
  <2> DEFINE call == [Unused EXCEPT !.op = "reorder", !.at = "updating", !.order = order]
  <2>1. order \in Seq(Tiers) /\ \A i, j \in 1..Len(order) : order[i] = order[j] => i = j
    BY OrdersAre
  <2>2. Unused.old = <<>> /\ Unused.op = "none" /\ Unused \in Calls
    BY UnusedCall DEF Unused
  <2>3. /\ call \in Calls /\ call.op = "reorder" /\ call.at = "updating" /\ call.order = order /\ call.old = <<>>
    BY <2>1, <2>2 DEF Calls, CallOps, CallPlaces
  <2>4. Begin(r, call)
    BY <1>3 DEF ReorderRead
  <2> HIDE DEF call
  <2>5. ReqOK' /\ req'[r] = call /\ req[r] = Unused /\ Only(r, {"none", "reorder"})
    BY <2>3, <2>4, Began DEF OrderInv
  <2>6. \A q \in Requests \ {r} : req'[q] = req[q]
    BY <2>5 DEF Only
  <2>7. ~Updating(r) /\ Len(call.old) = 0 /\ Len(order) \in Nat
    BY <2>1, <2>2, <2>3, <2>5, LenProperties DEF Updating
  <2>8. LocksHeld'
    <3>1. ASSUME NEW t \in Tiers, NEW q \in Requests, tier[t].lock = q
          PROVE  Updating(q)' /\ \E i \in 1..Len(req'[q].old) : req'[q].order[i] = t
      <4>1. Updating(q) /\ \E i \in 1..Len(req[q].old) : req[q].order[i] = t
        BY <3>1 DEF OrderInv, LocksHeld
      <4>2. req'[q] = req[q]
        BY <2>6, <2>7, <4>1
      <4>3. QED
        BY <4>1, <4>2 DEF Updating
    <3>2. ASSUME NEW q \in Requests, Updating(q)'
          PROVE  /\ Len(req'[q].old) <= Len(req'[q].order)
                 /\ \A i, j \in 1..Len(req'[q].order) : req'[q].order[i] = req'[q].order[j] => i = j
                 /\ \A i \in 1..Len(req'[q].old) : tier[req'[q].order[i]].lock = q /\ tier[req'[q].order[i]].sort = i - 1
      <4>1. CASE q = r
        BY <2>1, <2>3, <2>5, <2>7, <4>1
      <4>2. CASE q # r
        <5>1. req'[q] = req[q] /\ Updating(q)
          BY <2>6, <3>2, <4>2 DEF Updating
        <5>2. QED
          BY <5>1 DEF OrderInv, LocksHeld
      <4>3. QED
        BY <4>1, <4>2
    <3>3. QED
      BY <1>1, <3>1, <3>2 DEF LocksHeld
  <2>9. CommittedOrder'
    <3>1. ASSUME NEW k \in 1..Len(lastOrder), NEW q \in Requests, Updating(q)', NEW i \in 1..Len(req'[q].old),
                 req'[q].order[i] = lastOrder[k]
          PROVE  req'[q].old[i] = k - 1
      <4>1. q # r
        BY <2>5, <2>7, <3>1
      <4>2. req'[q] = req[q] /\ Updating(q)
        BY <2>6, <3>1, <4>1 DEF Updating
      <4>3. QED
        BY <3>1, <4>2 DEF OrderInv, CommittedOrder
    <3>2. QED
      BY <1>1, <3>1 DEF OrderInv, CommittedOrder
  <2>10. TierOK'
    BY <1>1 DEF OrderInv, TierOK
  <2>11. QED
    BY <1>1, <2>5, <2>8, <2>9, <2>10 DEF OrderInv
<1>4. QED
  BY <1>2, <1>3

-----------------------------------------------------------------------------
(* Keys.                                                                   *)

RotatedOk(c) == c.op = "rotate" /\ c.at = "ok"

(* What a request knows of the keys stays true when keys are added.        *)
LEMMA KeyCallKept ==
  ASSUME NEW c, KeyCall(c), \A t \in Tiers : keys[t] \subseteq keys'[t]
  PROVE  KeyCall(c)'
BY DEF KeyCall

LEMMA RotationsSame ==
  ASSUME \A q \in Requests : req'[q] = req[q] \/ (~RotatedOk(req[q]) /\ ~RotatedOk(req'[q])), NEW t
  PROVE  Rotations(t)' = Rotations(t)
BY DEF Rotations, RotatedOk

(* No key is added.                                                        *)
LEMMA KeysFrame ==
  ASSUME KeysInv, keys' = keys,
         \A q \in Requests : \/ req'[q] = req[q]
                             \/ ~RotatedOk(req[q]) /\ ~RotatedOk(req'[q]) /\ KeyCall(req'[q]),
         \A t \in Tiers : tier[t].exists = TRUE => tier'[t].exists = TRUE,
         contents' \in Seq([tier : Tiers, key : Nat]),
         \A i \in 1..Len(contents') : contents'[i].key \in keys[contents'[i].tier]
  PROVE  KeysInv'
<1>1. \A t \in Tiers : Rotations(t)' = Rotations(t)
  BY RotationsSame
<1>2. ASSUME NEW q \in Requests PROVE KeyCall(req[q])'
  <2>1. PICK c : c = req'[q]
    OBVIOUS
  <2>2. KeyCall(c)
    BY <2>1 DEF KeysInv
  <2>3. KeyCall(c)'
    BY <2>2, KeyCallKept
  <2>4. QED
    BY <2>1, <2>3 DEF KeyCall
<1>3. KeysOK' /\ ContentDecryptable'
  BY LenProperties DEF KeysInv, KeysOK, ContentDecryptable
<1>4. ASSUME NEW t \in Tiers
      PROVE  /\ keys'[t] = {} \/ keys'[t] = 1..(1 + Cardinality(Rotations(t)'))
             /\ keys'[t] # {} => tier'[t].exists = TRUE
  BY <1>1 DEF KeysInv
<1>5. QED
  BY <1>2, <1>3, <1>4 DEF KeysInv

LEMMA NoKeyCall ==
  ASSUME NEW c, c.op \in {"none", "reorder", "unlock", "run"}
  PROVE  KeyCall(c) /\ ~RotatedOk(c)
BY DEF KeyCall, RotatedOk

LEMMA KeysAside ==
  ASSUME KeysInv, keys' = keys, contents' = contents,
         \A q \in Requests : \/ req'[q] = req[q]
                             \/ ~RotatedOk(req[q]) /\ req'[q].op \in {"none", "reorder", "unlock", "run"},
         \A t \in Tiers : tier[t].exists = TRUE => tier'[t].exists = TRUE
  PROVE  KeysInv'
<1>1. \A q \in Requests : \/ req'[q] = req[q]
                          \/ ~RotatedOk(req[q]) /\ ~RotatedOk(req'[q]) /\ KeyCall(req'[q])
  BY NoKeyCall
<1>2. contents' \in Seq([tier : Tiers, key : Nat]) /\ \A i \in 1..Len(contents') : contents'[i].key \in keys[contents'[i].tier]
  BY LenProperties DEF KeysInv, ContentDecryptable
<1>3. QED
  BY <1>1, <1>2, KeysFrame

(* A request that touches only its own call, and no key.                   *)
LEMMA OwnCall ==
  ASSUME KeysInv, NEW r \in Requests, keys' = keys, contents' = contents, tier' = tier,
         \A q \in Requests \ {r} : req'[q] = req[q],
         ~RotatedOk(req[r]), ~RotatedOk(req'[r]), KeyCall(req'[r])
  PROVE  KeysInv'
<1>1. contents' \in Seq([tier : Tiers, key : Nat]) /\ \A i \in 1..Len(contents') : contents'[i].key \in keys[contents'[i].tier]
  BY LenProperties DEF KeysInv, ContentDecryptable
<1>2. \A q \in Requests : \/ req'[q] = req[q]
                          \/ ~RotatedOk(req[q]) /\ ~RotatedOk(req'[q]) /\ KeyCall(req'[q])
  OBVIOUS
<1>3. QED
  BY <1>1, <1>2, KeysFrame

KeyOps == {"none", "createContent", "rotate", "fanKey"}
KeyStep(r) == ReqOK' /\ Only(r, KeyOps) /\ KeysInv' /\ tier' = tier

LEMMA RefusedKeys ==
  ASSUME ReqOK, KeysInv, NEW r \in Requests, Refuse(r), UNCHANGED <<catalogue, content>>
  PROVE  KeyStep(r)
<1>1. ReqOK' /\ Only(r, {"none"})
  BY BeganEnded DEF Refuse
<1>2. keys' = keys /\ contents' = contents /\ tier' = tier
  BY DEF catalogue, content
<1>3. KeyCall(req'[r]) /\ ~RotatedOk(req'[r]) /\ ~RotatedOk(req[r])
  BY <1>1, NoKeyCall DEF Only
<1>4. QED
  BY <1>1, <1>2, <1>3, OwnCall DEF KeyStep, Only, KeyOps

LEMMA ReadKeyKeys ==
  ASSUME ReqOK, KeysInv, NEW r \in Requests, NEW t \in Tiers, NEW op \in {"createContent", "rotate"}, ReadKey(r, op, t)
  PROVE  KeyStep(r)
<1> DEFINE call == [Unused EXCEPT !.op = op, !.at = "read", !.tier = t, !.ver = Newest(t)]
<1>1. CASE t \in Existing /\ keys[t] # {}
  <2>1. Begin(r, call) /\ UNCHANGED <<catalogue, content>>
    BY <1>1 DEF ReadKey
  <2>2. Newest(t) \in keys[t] /\ Newest(t) \in Nat
    BY <1>1, NewestKey
  <2>3. call \in Calls /\ call.op = op /\ call.at = "read" /\ call.tier = t /\ call.ver = Newest(t)
    <3>1. PICK ver \in Nat : ver = Newest(t)
      BY <2>2
    <3>2. op \in CallOps
      BY DEF CallOps
    <3>3. QED
      BY <3>1, <3>2, UnusedCall, OpsAndPlaces DEF Calls
  <2> HIDE DEF call
  <2>4. ReqOK' /\ req'[r] = call /\ req[r] = Unused /\ Only(r, {"none", op})
    BY <2>1, <2>3, Began
  <2>5. KeyCall(req'[r]) /\ ~RotatedOk(req'[r]) /\ ~RotatedOk(req[r])
    BY <2>2, <2>3, <2>4 DEF KeyCall, RotatedOk, Unused
  <2>6. keys' = keys /\ contents' = contents /\ tier' = tier
    BY <2>1 DEF catalogue, content
  <2>7. QED
    BY <2>4, <2>5, <2>6, OwnCall DEF KeyStep, Only, KeyOps
<1>2. CASE ~(t \in Existing /\ keys[t] # {})
  BY <1>2, RefusedKeys DEF ReadKey
<1>3. QED
  BY <1>1, <1>2

LEMMA KeyAskedKeys ==
  ASSUME ReqOK, KeysInv, NEW r \in Requests, NEW p \in Passes, KeyAsked(r, p)
  PROVE  KeyStep(r)
<1>1. PICK t \in Tiers : t = TierOf[p]
  BY ContentAssumption DEF ContentAssumption
<1> DEFINE first == Max(keys[t] \union {0})
           call == [Unused EXCEPT !.op = "fanKey", !.at = "read", !.tier = t, !.first = first]
<1>2. CASE t \in Existing /\ Holds(FanOf[p], t)
  <2>1. Begin(r, call) /\ UNCHANGED <<catalogue, content>>
    BY <1>1, <1>2 DEF KeyAsked
  <2>2. first \in Nat /\ (first = 0 \/ first \in keys[t])
    <3>1. PICK n \in Nat : n = Cardinality(Rotations(t))
      BY RotationsCount
    <3>2. keys[t] = {} \/ keys[t] = 1..(1 + n)
      BY <3>1 DEF KeysInv
    <3>3. keys[t] \union {0} \subseteq 0..(1 + n) /\ 1 + n \in Nat
      BY <3>2
    <3>4. first \in keys[t] \union {0}
      BY <3>3, Largest
    <3>5. QED
      BY <3>3, <3>4
  <2> HIDE DEF first
  <2>3. call \in Calls /\ call.op = "fanKey" /\ call.at = "read" /\ call.tier = t /\ call.first = first
    BY <2>2, UnusedCall, OpsAndPlaces DEF Calls
  <2> HIDE DEF call
  <2>4. ReqOK' /\ req'[r] = call /\ req[r] = Unused /\ Only(r, {"none", "fanKey"})
    BY <2>1, <2>3, Began
  <2>5. KeyCall(req'[r]) /\ ~RotatedOk(req'[r]) /\ ~RotatedOk(req[r])
    BY <2>2, <2>3, <2>4 DEF KeyCall, RotatedOk, Unused
  <2>6. keys' = keys /\ contents' = contents /\ tier' = tier
    BY <2>1 DEF catalogue, content
  <2>7. QED
    BY <2>4, <2>5, <2>6, OwnCall DEF KeyStep, Only, KeyOps
<1>3. CASE ~(t \in Existing /\ Holds(FanOf[p], t))
  BY <1>1, <1>3, RefusedKeys DEF KeyAsked
<1>4. QED
  BY <1>2, <1>3

LEMMA KeyFoundKeys ==
  ASSUME ReqOK, KeysInv, NEW r \in Requests, KeyFound(r)
  PROVE  KeyStep(r)
<1>1. req[r].op = "fanKey" /\ req[r].at = "read" /\ keys' = keys /\ contents' = contents /\ tier' = tier
  BY DEF KeyFound, catalogue, content
<1>2. KeyCall(req[r]) /\ req[r].tier \in Tiers /\ req[r] \in Calls
  BY <1>1 DEF KeysInv, KeyCall, ReqOK
<1>3. CASE keys[req[r].tier] = {}
  <2>1. ReqOK' /\ Only(r, {"none", "fanKey"}) /\ req'[r].op = "none"
    BY <1>1, <1>3, Answered DEF KeyFound
  <2>2. KeyCall(req'[r]) /\ ~RotatedOk(req'[r]) /\ ~RotatedOk(req[r])
    BY <1>1, <2>1, NoKeyCall DEF RotatedOk
  <2>3. QED
    BY <1>1, <2>1, <2>2, OwnCall DEF KeyStep, Only, KeyOps
<1>4. CASE keys[req[r].tier] # {}
  <2> DEFINE newest == Newest(req[r].tier)
             call == [req[r] EXCEPT !.at = "wrapped", !.ver = newest]
  <2>1. req' = [req EXCEPT ![r] = call]
    BY <1>4 DEF KeyFound
  <2>2. newest \in keys[req[r].tier] /\ newest \in Nat /\ \A v \in keys[req[r].tier] : v <= newest
    BY <1>2, <1>4, NewestKey
  <2> HIDE DEF newest
  <2>3. /\ call \in Calls /\ call.op = "fanKey" /\ call.at = "wrapped" /\ call.tier = req[r].tier
        /\ call.first = req[r].first /\ call.ver = newest
    BY <1>1, <1>2, <2>2 DEF Calls, CallOps, CallPlaces
  <2> HIDE DEF call
  <2>4. ReqOK' /\ req'[r] = call /\ \A q \in Requests \ {r} : req'[q] = req[q]
    BY <2>1, <2>3, Changed
  <2>5. call.ver >= call.first
    BY <1>1, <1>2, <2>2, <2>3 DEF KeyCall
  <2>6. KeyCall(req'[r]) /\ ~RotatedOk(req'[r]) /\ ~RotatedOk(req[r])
    BY <1>1, <1>2, <2>2, <2>3, <2>4, <2>5 DEF KeyCall, RotatedOk
  <2>7. QED
    BY <1>1, <2>3, <2>4, <2>6, OwnCall DEF KeyStep, Only, KeyOps
<1>5. QED
  BY <1>3, <1>4

LEMMA StoredContent ==
  ASSUME KeysInv, NEW i \in 1..Len(contents)
  PROVE  contents[i].tier \in Tiers /\ contents[i].key \in Nat /\ contents[i].key \in keys[contents[i].tier]
<1>1. contents \in Seq([tier : Tiers, key : Nat]) /\ ContentDecryptable
  BY DEF KeysInv
<1>2. contents[i] \in [tier : Tiers, key : Nat] /\ i \in DOMAIN contents
  BY <1>1, ElementOfSeq, LenProperties
<1>3. QED
  BY <1>1, <1>2 DEF ContentDecryptable

LEMMA LastContentKey ==
  ASSUME KeysInv, NEW t \in Tiers
  PROVE  LastContent(t) \in Nat /\ (LastContent(t) = 0 \/ LastContent(t) \in keys[t])
<1> DEFINE of == {i \in DOMAIN contents : contents[i].tier = t}
<1>1. contents \in Seq([tier : Tiers, key : Nat]) /\ DOMAIN contents = 1..Len(contents) /\ Len(contents) \in Nat
  BY LenProperties DEF KeysInv
<1>2. CASE of = {}
  BY <1>2 DEF LastContent
<1>3. CASE of # {}
  <2>1. of \subseteq 0..Len(contents)
    BY <1>1
  <2>2. Max(of) \in of
    BY <1>1, <1>3, <2>1, Largest
  <2>3. PICK i \in 1..Len(contents) : i = Max(of) /\ contents[i].tier = t
    BY <1>1, <2>2
  <2>4. contents[i].key \in keys[t] /\ contents[i].key \in Nat
    BY <2>3, StoredContent
  <2>5. LastContent(t) = contents[i].key
    BY <1>3, <2>3 DEF LastContent
  <2>6. QED
    BY <2>4, <2>5
<1>4. QED
  BY <1>2, <1>3

LEMMA KeyHandedKeys ==
  ASSUME ReqOK, KeysInv, NEW r \in Requests, KeyHanded(r)
  PROVE  KeyStep(r)
<1>1. req[r].op = "fanKey" /\ req[r].at = "wrapped" /\ keys' = keys /\ contents' = contents /\ tier' = tier
  BY DEF KeyHanded, catalogue, content
<1>2. KeyCall(req[r]) /\ req[r].tier \in Tiers /\ req[r] \in Calls
  BY <1>1 DEF KeysInv, KeyCall, ReqOK
<1> DEFINE last == LastContent(req[r].tier)
           call == [req[r] EXCEPT !.at = "ok", !.content = last]
<1>3. req' = [req EXCEPT ![r] = call]
  BY DEF KeyHanded
<1>4. last \in Nat /\ (last = 0 \/ last \in keys[req[r].tier])
  BY <1>2, LastContentKey
<1> HIDE DEF last
<1>5. /\ call \in Calls /\ call.op = "fanKey" /\ call.at = "ok" /\ call.tier = req[r].tier
      /\ call.first = req[r].first /\ call.ver = req[r].ver /\ call.content = last
  BY <1>1, <1>2, <1>4 DEF Calls, CallOps, CallPlaces
<1> HIDE DEF call
<1>6. ReqOK' /\ req'[r] = call /\ \A q \in Requests \ {r} : req'[q] = req[q]
  BY <1>3, <1>5, Changed
<1>7. KeyCall(req'[r]) /\ ~RotatedOk(req'[r]) /\ ~RotatedOk(req[r])
  BY <1>1, <1>2, <1>4, <1>5, <1>6 DEF KeyCall, RotatedOk
<1>8. QED
  BY <1>1, <1>5, <1>6, <1>7, OwnCall DEF KeyStep, Only, KeyOps

LEMMA CreateContentKeys ==
  ASSUME ReqOK, KeysInv, NEW r \in Requests, CreateContent(r)
  PROVE  KeyStep(r)
<1> DEFINE item == [tier |-> req[r].tier, key |-> req[r].ver]
<1>1. /\ req[r].op = "createContent" /\ req[r].at = "read" /\ keys' = keys /\ tier' = tier
      /\ contents' = Append(contents, item)
  BY DEF CreateContent, catalogue
<1>2. req[r].tier \in Tiers /\ req[r].ver \in keys[req[r].tier] /\ req[r].ver \in Nat
  BY <1>1 DEF KeysInv, KeyCall, ReqOK, Calls
<1>3. item \in [tier : Tiers, key : Nat] /\ item.key \in keys[item.tier]
  BY <1>2
<1> HIDE DEF item
<1>4. contents \in Seq([tier : Tiers, key : Nat]) /\ DOMAIN contents = 1..Len(contents) /\ Len(contents) \in Nat
  BY LenProperties DEF KeysInv
<1>5. /\ contents' \in Seq([tier : Tiers, key : Nat]) /\ Len(contents') = Len(contents) + 1
      /\ contents'[Len(contents) + 1] = item /\ \A i \in 1..Len(contents) : contents'[i] = contents[i]
  BY <1>1, <1>3, <1>4
<1>6. ASSUME NEW i \in 1..Len(contents') PROVE contents'[i].key \in keys[contents'[i].tier]
  <2>1. CASE i = Len(contents) + 1
    BY <1>3, <1>5, <2>1
  <2>2. CASE i # Len(contents) + 1
    <3>1. i \in 1..Len(contents)
      BY <1>4, <1>5, <2>2
    <3>2. QED
      BY <1>5, <3>1, StoredContent
  <2>3. QED
    BY <2>1, <2>2
<1>7. ReqOK' /\ Only(r, {"none", "createContent"}) /\ req'[r].op = "none"
  BY <1>1, Answered DEF CreateContent
<1>8. KeyCall(req'[r]) /\ ~RotatedOk(req'[r]) /\ ~RotatedOk(req[r])
  BY <1>1, <1>7, NoKeyCall DEF RotatedOk
<1>9. \A q \in Requests : \/ req'[q] = req[q]
                          \/ ~RotatedOk(req[q]) /\ ~RotatedOk(req'[q]) /\ KeyCall(req'[q])
  BY <1>7, <1>8 DEF Only
<1>10. KeysInv'
  BY <1>1, <1>5, <1>6, <1>9, KeysFrame
<1>11. QED
  BY <1>1, <1>7, <1>10 DEF KeyStep, Only, KeyOps

(* Of two rotations that read the same version one is refused; the other   *)
(* adds the next version and is counted.                                   *)
LEMMA RotateKeyKeys ==
  ASSUME ReqOK, KeysInv, NEW r \in Requests, RotateKey(r)
  PROVE  KeyStep(r)
<1> DEFINE next == req[r].ver + 1
<1>1. req[r].op = "rotate" /\ req[r].at = "read" /\ tier' = tier /\ contents' = contents
  BY DEF RotateKey, content
<1>2. PICK t \in Tiers : t = req[r].tier /\ req[r].ver \in keys[t] /\ req[r].ver \in Nat
  BY <1>1 DEF KeysInv, KeyCall, ReqOK, Calls
<1>3. ~RotatedOk(req[r])
  BY <1>1 DEF RotatedOk
<1>4. CASE next \in keys[t]
  <2>1. Answer(r, "refused") /\ keys' = keys
    BY <1>2, <1>4 DEF RotateKey
  <2>2. ReqOK' /\ Only(r, {"none", "rotate"}) /\ req'[r].op = "none"
    BY <1>1, <2>1, Answered
  <2>3. KeyCall(req'[r]) /\ ~RotatedOk(req'[r])
    BY <2>2, NoKeyCall
  <2>4. QED
    BY <1>1, <1>3, <2>1, <2>2, <2>3, OwnCall DEF KeyStep, Only, KeyOps
<1>5. CASE next \notin keys[t]
  <2>1. Answer(r, "ok") /\ keys' = [keys EXCEPT ![t] = keys[t] \union {next}]
    BY <1>2, <1>5 DEF RotateKey
  <2>2. /\ ReqOK' /\ Only(r, {"none", "rotate"}) /\ \A q \in Requests \ {r} : req'[q] = req[q]
        /\ req'[r].op = "rotate" /\ req'[r].tier = t /\ req'[r].at = "ok"
    BY <1>1, <1>2, <2>1, Answered DEF Only
  <2>3. PICK n \in Nat : n = Cardinality(Rotations(t)) /\ IsFiniteSet(Rotations(t))
    BY RotationsCount
  <2>4. keys[t] = 1..(1 + n)
    BY <1>2, <2>3 DEF KeysInv
  <2>5. next = n + 2
    BY <1>2, <1>5, <2>4
  <2>6. keys'[t] = 1..(n + 2)
    <3>1. keys'[t] = keys[t] \union {next}
      BY <1>2, <2>1 DEF KeysInv, KeysOK
    <3>2. (1..(1 + n)) \union {n + 2} = 1..(n + 2)
      OBVIOUS
    <3>3. QED
      BY <2>4, <2>5, <3>1, <3>2
  <2>7. Rotations(t)' = Rotations(t) \union {r} /\ r \notin Rotations(t)
    BY <1>1, <2>2 DEF Rotations
  <2>8. Cardinality(Rotations(t)') = n + 1
    BY <2>3, <2>7, FS_AddElement
  <2>9. \A u \in Tiers \ {t} : keys'[u] = keys[u] /\ Rotations(u)' = Rotations(u)
    BY <1>1, <2>1, <2>2 DEF Rotations, KeysInv, KeysOK
  <2>10. \A u \in Tiers : keys[u] \subseteq keys'[u]
    BY <2>4, <2>6, <2>9
  <2>11. KeysOK'
    BY <1>2, <2>1 DEF KeysInv, KeysOK
  <2>12. ASSUME NEW u \in Tiers
         PROVE  /\ keys'[u] = {} \/ keys'[u] = 1..(1 + Cardinality(Rotations(u)'))
                /\ keys'[u] # {} => tier'[u].exists = TRUE
    <3>1. CASE u = t
      <4>1. 1 + (n + 1) = n + 2
        OBVIOUS
      <4>2. Rotations(u)' = Rotations(t)'
        BY <3>1 DEF Rotations
      <4>3. keys'[u] = 1..(1 + Cardinality(Rotations(u)'))
        BY <2>6, <2>8, <3>1, <4>1, <4>2
      <4>4. tier[u].exists = TRUE
        BY <1>2, <3>1 DEF KeysInv
      <4>5. QED
        BY <1>1, <4>3, <4>4
    <3>2. CASE u # t
      BY <1>1, <2>9, <3>2 DEF KeysInv
    <3>3. QED
      BY <3>1, <3>2
  <2>13. ASSUME NEW q \in Requests PROVE KeyCall(req[q])'
    <3>1. CASE q = r
      <4>1. n + 2 \in keys'[t]
        BY <2>6
      <4>2. QED
        BY <1>2, <2>2, <3>1, <4>1 DEF KeyCall
    <3>2. CASE q # r
      <4>1. PICK c : c = req[q] /\ c = req'[q]
        BY <2>2, <3>2
      <4>2. KeyCall(c)
        BY <4>1 DEF KeysInv
      <4>3. KeyCall(c)'
        BY <2>10, <4>2, KeyCallKept
      <4>4. QED
        BY <4>1, <4>3 DEF KeyCall
    <3>3. QED
      BY <3>1, <3>2
  <2>14. contents' \in Seq([tier : Tiers, key : Nat]) /\ ContentDecryptable'
    <3>1. contents \in Seq([tier : Tiers, key : Nat]) /\ DOMAIN contents = 1..Len(contents)
      BY LenProperties DEF KeysInv
    <3>2. \A i \in 1..Len(contents) : contents[i].key \in keys'[contents[i].tier]
      BY <2>10, StoredContent
    <3>3. QED
      BY <1>1, <3>1, <3>2 DEF ContentDecryptable
  <2>15. KeysInv'
    BY <2>11, <2>12, <2>13, <2>14 DEF KeysInv
  <2>16. QED
    BY <1>1, <2>2, <2>15 DEF KeyStep, Only, KeyOps
<1>6. QED
  BY <1>4, <1>5

(* Tiers that are created get their first key with their row.              *)
LEMMA CreatedKeys ==
  ASSUME OrderInv, KeysInv, NEW r \in Requests, NEW new \in SUBSET Tiers, BulkCreate(r, new), contents' = contents
  PROVE  OrderInv' /\ Only(r, {"none"}) /\ KeysInv'
<1>1. lastOrder' = lastOrder
  BY DEF BulkCreate
<1>2. CASE new \intersect Existing # {}
  <2>1. BeginEnd(r, "refused") /\ tier' = tier /\ keys' = keys
    BY <1>2 DEF BulkCreate, Refuse
  <2>2. ReqOK' /\ Only(r, {"none"})
    BY <2>1, BeganEnded DEF OrderInv
  <2>3. OrderInv'
    BY <1>1, <2>1, <2>2, OrderFrame DEF Only
  <2>4. \A q \in Requests : \/ req'[q] = req[q]
                            \/ ~RotatedOk(req[q]) /\ req'[q].op \in {"none", "reorder", "unlock", "run"}
    BY <2>2 DEF Only, RotatedOk
  <2>5. QED
    BY <2>1, <2>2, <2>3, <2>4, KeysAside
<1>3. CASE new \intersect Existing = {}
  <2>1. /\ BeginEnd(r, "ok")
        /\ tier' = [t \in Tiers |-> IF t \in new THEN [tier[t] EXCEPT !.exists = TRUE] ELSE tier[t]]
        /\ keys' = [t \in Tiers |-> IF t \in new THEN {1} ELSE keys[t]]
    BY <1>3 DEF BulkCreate
  <2>2. ReqOK' /\ Only(r, {"none"})
    BY <2>1, BeganEnded DEF OrderInv
  <2>3. OrderInv' /\ \A t \in Tiers : tier'[t].exists = (tier[t].exists \/ t \in new)
    BY <1>1, <2>1, <2>2, CreatedOrder, ZenonT(60) DEF Only
  <2>4. \A t \in new : keys[t] = {} /\ tier[t].exists = FALSE
    BY <1>3 DEF OrderInv, TierOK, TierRows, Existing, KeysInv
  <2>5. \A q \in Requests : req'[q] = req[q] \/ (~RotatedOk(req[q]) /\ ~RotatedOk(req'[q]))
    BY <2>2 DEF Only, RotatedOk
  <2>6. \A t \in Tiers : Rotations(t)' = Rotations(t)
    BY <2>5, RotationsSame
  <2>7. \A t \in new : Cardinality(Rotations(t)') = 0
    <3>1. ASSUME NEW t \in new PROVE Rotations(t) = {}
      BY <2>4 DEF Rotations, KeysInv, KeyCall
    <3>2. QED
      BY <2>6, <3>1, FS_EmptySet
  <2>8. \A t \in Tiers : keys[t] \subseteq keys'[t]
    BY <2>1, <2>4
  <2>9. KeysOK'
    BY <2>1 DEF KeysInv, KeysOK
  <2>10. ASSUME NEW t \in Tiers
         PROVE  /\ keys'[t] = {} \/ keys'[t] = 1..(1 + Cardinality(Rotations(t)'))
                /\ keys'[t] # {} => tier'[t].exists = TRUE
    <3>1. CASE t \in new
      <4>1. keys'[t] = {1}
        BY <2>1, <3>1
      <4>2. {1} = 1..1
        OBVIOUS
      <4>3. tier'[t].exists = TRUE
        BY <2>3, <3>1
      <4>4. QED
        BY <2>7, <3>1, <4>1, <4>2, <4>3
    <3>2. CASE t \notin new
      <4>1. keys'[t] = keys[t] /\ tier'[t] = tier[t]
        BY <2>1, <3>2
      <4>2. QED
        BY <2>6, <4>1 DEF KeysInv
    <3>3. QED
      BY <3>1, <3>2
  <2>11. ASSUME NEW q \in Requests PROVE KeyCall(req[q])'
    <3>1. CASE q = r
      BY <2>2, <3>1 DEF KeyCall, Only
    <3>2. CASE q # r
      <4>1. PICK c : c = req[q] /\ c = req'[q]
        BY <2>2, <3>2 DEF Only
      <4>2. KeyCall(c)
        BY <4>1 DEF KeysInv
      <4>3. KeyCall(c)'
        BY <2>8, <4>2, KeyCallKept
      <4>4. QED
        BY <4>1, <4>3 DEF KeyCall
    <3>3. QED
      BY <3>1, <3>2
  <2>12. contents' \in Seq([tier : Tiers, key : Nat]) /\ ContentDecryptable'
    <3>1. contents \in Seq([tier : Tiers, key : Nat]) /\ DOMAIN contents = 1..Len(contents)
      BY LenProperties DEF KeysInv
    <3>2. \A i \in 1..Len(contents) : contents[i].key \in keys'[contents[i].tier]
      BY <2>8, StoredContent
    <3>3. QED
      BY <3>1, <3>2 DEF ContentDecryptable
  <2>13. QED
    BY <2>2, <2>3, <2>9, <2>10, <2>11, <2>12 DEF KeysInv
<1>4. QED
  BY <1>2, <1>3

LEMMA KeysAreSound == ASSUME ReqOK, KeysInv PROVE KeysSound
<1>1. EveryRotationCounts
  BY DEF KeysInv, EveryRotationCounts
<1>2. ASSUME NEW r \in Requests, req[r].op = "fanKey", req[r].at = "ok"
      PROVE  /\ req[r].ver >= req[r].first
             /\ req[r].content \notin {0, req[r].ver} => Rotations(req[r].tier) # {}
  <2>1. /\ req[r].tier \in Tiers /\ req[r].ver >= req[r].first /\ req[r].ver \in keys[req[r].tier]
        /\ req[r].content = 0 \/ req[r].content \in keys[req[r].tier]
    BY <1>2 DEF KeysInv, KeyCall
  <2>2. ASSUME Rotations(req[r].tier) = {} PROVE req[r].content \in {0, req[r].ver}
    <3>1. Cardinality(Rotations(req[r].tier)) = 0
      BY <2>2, FS_EmptySet
    <3>2. keys[req[r].tier] = 1..1
      BY <2>1, <3>1 DEF KeysInv
    <3>3. req[r].ver = 1 /\ (req[r].content = 0 \/ req[r].content = 1)
      BY <2>1, <3>2
    <3>4. QED
      BY <3>3
  <2>3. QED
    BY <2>1, <2>2
<1>3. HandedKeyFits
  BY <1>2 DEF HandedKeyFits
<1>4. QED
  BY <1>1, <1>3 DEF KeysSound, KeysInv

-----------------------------------------------------------------------------
(* Tokens.                                                                 *)

AsideOps == {"none", "unlock", "run"}
AsideStep(r, op) ==
    /\ ReqOK' /\ Only(r, {"none", op})
    /\ tier' = tier /\ keys' = keys /\ lastOrder' = lastOrder /\ contents' = contents

(* Tiers, their order, keys and content are left alone.                    *)
LEMMA Aside ==
  ASSUME OrderInv, KeysInv, ReqOK', tier' = tier, keys' = keys, lastOrder' = lastOrder, contents' = contents,
         \A q \in Requests : req'[q] = req[q] \/ (req[q].op \in AsideOps /\ req'[q].op \in AsideOps)
  PROVE  OrderInv' /\ KeysInv'
<1>1. \A q \in Requests : req'[q] = req[q] \/ (req[q].op # "reorder" /\ req'[q].op # "reorder")
  BY DEF AsideOps
<1>2. \A q \in Requests : \/ req'[q] = req[q]
                          \/ ~RotatedOk(req[q]) /\ req'[q].op \in {"none", "reorder", "unlock", "run"}
  BY DEF AsideOps, RotatedOk
<1>3. OrderInv'
  BY <1>1, OrderFrame
<1>4. KeysInv'
  BY <1>2, KeysAside
<1>5. QED
  BY <1>3, <1>4

(* No token is issued, and no request for one begins.                      *)
LEMMA AccessFrame ==
  ASSUME AccessInv, tokens' = tokens, \A q \in Requests : req'[q] = req[q] \/ ~Waiting(q)'
  PROVE  AccessInv'
BY DEF AccessInv, Waiting

LEMMA UnlockAskedAccess ==
  ASSUME ReqOK, AccessInv, NEW r \in Requests, NEW p \in Passes, UnlockAsked(r, p)
  PROVE  AsideStep(r, "unlock") /\ AccessInv'
<1>1. tokens' = tokens /\ tier' = tier /\ keys' = keys /\ lastOrder' = lastOrder /\ contents' = contents
  BY DEF UnlockAsked, catalogue, content
<1>2. CASE TierOf[p] \in Existing /\ Holds(FanOf[p], TierOf[p])
  <2>1. Begin(r, UnlockCall(p))
    BY <1>2 DEF UnlockAsked
  <2>2. TierOf[p] \in Tiers /\ Gone(FanOf[p], TierOf[p], 0) = 0
    BY <1>2, ContentAssumption DEF ContentAssumption, Gone
  <2>3. UnlockCall(p) \in Calls /\ UnlockCall(p).op = "unlock" /\ UnlockCall(p).gone = 0 /\ UnlockCall(p).waited = 0
    <3>1. PICK t \in Tiers : t = TierOf[p]
      BY <2>2
    <3>2. UnlockCall(p) = [Unused EXCEPT !.op = "unlock", !.at = "read", !.tier = t, !.pass = p, !.gone = 0]
      BY <2>2, <3>1 DEF UnlockCall
    <3>3. Unused.waited = 0
      BY DEF Unused
    <3>4. QED
      BY <3>2, <3>3, UnusedCall, OpsAndPlaces, ZenonT(60) DEF Calls
  <2>4. PICK call \in Calls : call = UnlockCall(p)
    BY <2>3
  <2>5. ReqOK' /\ req'[r] = call /\ Only(r, {"none", "unlock"})
    BY <2>1, <2>3, <2>4, Began
  <2>6. \A q \in Requests \ {r} : req'[q] = req[q]
    BY <2>5 DEF Only
  <2>7. \A q \in Requests : Waiting(q)' => req'[q].gone <= req'[q].waited /\ req'[q].waited <= MaxLatency
    BY <2>3, <2>4, <2>5, <2>6, ContentAssumption DEF AccessInv, Waiting, ContentAssumption
  <2>8. QED
    BY <1>1, <2>5, <2>7 DEF AccessInv, AsideStep, Only
<1>3. CASE ~(TierOf[p] \in Existing /\ Holds(FanOf[p], TierOf[p]))
  <2>1. ReqOK' /\ Only(r, {"none"})
    BY <1>3, BeganEnded DEF UnlockAsked, Refuse
  <2>2. \A q \in Requests : req'[q] = req[q] \/ ~Waiting(q)'
    BY <2>1 DEF Only, Waiting
  <2>3. QED
    BY <1>1, <2>1, <2>2, AccessFrame DEF AsideStep, Only
<1>4. QED
  BY <1>2, <1>3

LEMMA UnlockIssuedAccess ==
  ASSUME ReqOK, AccessInv, NEW r \in Requests, UnlockIssued(r)
  PROVE  AsideStep(r, "unlock") /\ AccessInv'
<1> DEFINE k == [fan |-> FanOf[req[r].pass], tier |-> req[r].tier, age |-> 0, gone |-> req[r].gone]
<1>1. /\ Waiting(r) /\ req[r].op = "unlock" /\ tokens' = tokens \union {k}
      /\ tier' = tier /\ keys' = keys /\ lastOrder' = lastOrder /\ contents' = contents
  BY DEF UnlockIssued, Waiting, catalogue
<1>2. ReqOK' /\ Only(r, {"none", "unlock"}) /\ req'[r].op = "none"
  BY <1>1, Answered DEF UnlockIssued
<1>3. req[r].gone \in Nat /\ req[r].waited \in Nat /\ req[r].gone <= req[r].waited /\ req[r].waited <= MaxLatency
  BY <1>1 DEF AccessInv, ReqOK, Calls
<1>4. req[r].gone <= 0 + MaxLatency
  BY <1>3, ContentAssumption DEF ContentAssumption
<1>5. /\ k = [fan |-> k.fan, tier |-> k.tier, age |-> k.age, gone |-> k.gone]
      /\ k.age \in Nat /\ k.gone \in Nat /\ k.gone <= k.age + MaxLatency
  BY <1>3, <1>4
<1> HIDE DEF k
<1>6. \A q \in Requests : Waiting(q)' => req'[q] = req[q] /\ Waiting(q)
  BY <1>2 DEF Only, Waiting
<1>7. QED
  BY <1>1, <1>2, <1>5, <1>6 DEF AccessInv, AsideStep, Only

LEMMA TickAccess ==
  ASSUME OrderInv, KeysInv, AccessInv, Tick
  PROVE  /\ OrderInv' /\ KeysInv' /\ AccessInv'
         /\ \A q \in Requests : req'[q] = req[q] \/ (req[q].op # "run" /\ req'[q].op # "run")
<1>1. /\ tier' = tier /\ keys' = keys /\ lastOrder' = lastOrder /\ contents' = contents /\ pass' = pass
      /\ \A r \in Requests : Waiting(r) => req[r].waited < MaxLatency
      /\ req' = [r \in Requests |->
                   IF Waiting(r)
                   THEN [req[r] EXCEPT !.waited = @ + 1, !.gone = Gone(FanOf[req[r].pass], req[r].tier, @)]
                   ELSE req[r]]
      /\ tokens' = {[k EXCEPT !.age = @ + 1, !.gone = Gone(k.fan, k.tier, @)] : k \in {k \in tokens : Accepted(k)}}
  BY DEF Tick, ContentTick, catalogue
<1>2. \A n \in Nat : \A fan, t : Gone(fan, t, n) \in Nat /\ Gone(fan, t, n) <= n + 1
  BY DEF Gone
<1>3. ASSUME NEW r \in Requests
      PROVE  /\ req'[r] \in Calls
             /\ ~Waiting(r) => req'[r] = req[r]
             /\ Waiting(r) => /\ req'[r].op = "unlock" /\ req'[r].waited = req[r].waited + 1
                              /\ req'[r].gone <= req[r].gone + 1 /\ req'[r].gone \in Nat
  <2>1. req[r] \in Calls /\ req[r].gone \in Nat /\ req[r].waited \in Nat /\ req[r].waited + 1 \in Nat
    BY DEF OrderInv, ReqOK, Calls
  <2>2. PICK gone \in Nat : gone = Gone(FanOf[req[r].pass], req[r].tier, req[r].gone) /\ gone <= req[r].gone + 1
    BY <1>2, <2>1
  <2> DEFINE call == [req[r] EXCEPT !.waited = req[r].waited + 1, !.gone = gone]
  <2>3. req'[r] = IF Waiting(r) THEN call ELSE req[r]
    BY <1>1, <2>2
  <2>4. call \in Calls /\ call.op = req[r].op /\ call.waited = req[r].waited + 1 /\ call.gone = gone
    BY <2>1 DEF Calls
  <2> HIDE DEF call
  <2>5. QED
    BY <2>1, <2>2, <2>3, <2>4 DEF Waiting
<1>4. ReqOK'
  BY <1>1, <1>3 DEF ReqOK
<1>5. \A q \in Requests : req'[q] = req[q] \/ (req[q].op \in AsideOps /\ req'[q].op \in AsideOps)
  BY <1>3 DEF AsideOps, Waiting
<1>6. OrderInv' /\ KeysInv'
  BY <1>1, <1>4, <1>5, Aside
<1>7. ASSUME NEW r \in Requests, Waiting(r)' PROVE req'[r].gone <= req'[r].waited /\ req'[r].waited <= MaxLatency
  <2>1. Waiting(r)
    BY <1>3, <1>7 DEF Waiting
  <2>2. req[r].gone \in Nat /\ req[r].waited \in Nat /\ req[r].gone <= req[r].waited /\ req[r].waited < MaxLatency
    BY <1>1, <2>1 DEF AccessInv, OrderInv, ReqOK, Calls
  <2>3. QED
    BY <1>3, <2>1, <2>2, ContentAssumption DEF ContentAssumption
<1>8. ASSUME NEW k \in tokens'
      PROVE  /\ k = [fan |-> k.fan, tier |-> k.tier, age |-> k.age, gone |-> k.gone]
             /\ k.age \in Nat /\ k.gone \in Nat /\ k.gone <= k.age + MaxLatency
  <2>1. PICK old \in tokens : k = [old EXCEPT !.age = old.age + 1, !.gone = Gone(old.fan, old.tier, old.gone)]
    BY <1>1
  <2>2. /\ old = [fan |-> old.fan, tier |-> old.tier, age |-> old.age, gone |-> old.gone]
        /\ old.age \in Nat /\ old.gone \in Nat /\ old.gone <= old.age + MaxLatency
    BY DEF AccessInv
  <2>3. PICK gone \in Nat : gone = Gone(old.fan, old.tier, old.gone) /\ gone <= old.gone + 1
    BY <1>2, <2>2
  <2>4. k = [fan |-> old.fan, tier |-> old.tier, age |-> old.age + 1, gone |-> gone]
    BY <2>1, <2>2, <2>3
  <2>5. k.age = old.age + 1 /\ k.gone = gone /\ k = [fan |-> k.fan, tier |-> k.tier, age |-> k.age, gone |-> k.gone]
    BY <2>4
  <2>6. k.gone <= k.age + MaxLatency
    BY <2>2, <2>3, <2>5, ContentAssumption DEF ContentAssumption
  <2>7. QED
    BY <2>2, <2>5, <2>6
<1>9. \A q \in Requests : req'[q] = req[q] \/ (req[q].op # "run" /\ req'[q].op # "run")
  BY <1>3 DEF Waiting
<1>10. QED
  BY <1>6, <1>7, <1>8, <1>9 DEF AccessInv

LEMMA AccessIsSound == ASSUME AccessInv PROVE AccessEndsSoon
<1>1. ASSUME NEW k \in tokens, Accepted(k) PROVE k.gone <= UnlockTtl + MaxLatency
  <2>1. k.age \in Nat /\ k.gone \in Nat /\ k.gone <= k.age + MaxLatency /\ k.age <= UnlockTtl
    BY <1>1 DEF AccessInv, Accepted
  <2>2. QED
    BY <2>1, ContentAssumption DEF ContentAssumption
<1>2. QED
  BY <1>1 DEF AccessEndsSoon

-----------------------------------------------------------------------------
(* Notices.                                                                *)

(* No run moves, and no row of the schedule or pass.                       *)
LEMMA NoticesFrame ==
  ASSUME NoticesInv, schedules' = schedules, pass' = pass,
         \A q \in Requests : req'[q] = req[q] \/ (req[q].op # "run" /\ req'[q].op # "run")
  PROVE  NoticesInv'
<1>1. \A q \in Requests : req'[q].op = "run" => req'[q] = req[q] /\ NextDue(q)' = NextDue(q)
  BY DEF NextDue
<1>2. \A q \in Requests : \A i : OnRow(q, i)' <=> OnRow(q, i)
  BY <1>1 DEF OnRow
<1>3. ASSUME NEW r \in Requests, req'[r].op = "run" PROVE RunOK(r)'
  <2>1. req'[r] = req[r] /\ NextDue(r)' = NextDue(r)
    BY <1>1, <1>3
  <2>2. RunOK(r)
    BY <1>3, <2>1 DEF NoticesInv
  <2>3. \A q \in Requests : OnRow(q, NextDue(r))' <=> OnRow(q, NextDue(r))
    BY <1>1, <2>1 DEF OnRow
  <2>4. QED
    BY <2>1, <2>2, <2>3 DEF RunOK
<1>4. ASSUME NEW i \in 1..Len(schedules) PROVE RowOK(i)'
  BY <1>2 DEF NoticesInv, RowOK
<1>5. QED
  BY <1>3, <1>4 DEF NoticesInv, PassOK

LEMMA ScheduleRow ==
  ASSUME NoticesInv, NEW i \in 1..Len(schedules)
  PROVE  /\ schedules[i] \in ScheduleRows /\ schedules[i].active \in BOOLEAN /\ schedules[i].lost \in BOOLEAN
         /\ schedules[i].wait \in Nat /\ schedules[i].sent \in [Passes -> Nat] /\ schedules[i].audience \subseteq Passes
         /\ schedules[i].tier \in Tiers /\ i \in DOMAIN schedules /\ i \in Nat
<1>1. schedules[i] \in ScheduleRows
  BY ElementOfSeq DEF NoticesInv
<1>2. i \in DOMAIN schedules /\ Len(schedules) \in Nat
  BY LenProperties DEF NoticesInv
<1>3. QED
  BY <1>1, <1>2 DEF ScheduleRows

LEMMA RowWritten ==
  ASSUME NoticesInv, NEW i \in 1..Len(schedules), NEW row \in ScheduleRows, schedules' = [schedules EXCEPT ![i] = row]
  PROVE  /\ schedules' \in Seq(ScheduleRows) /\ Len(schedules') = Len(schedules) /\ schedules'[i] = row
         /\ \A j \in 1..Len(schedules) : j # i => schedules'[j] = schedules[j]
<1>1. schedules \in Seq(ScheduleRows)
  BY DEF NoticesInv
<1>2. QED
  BY <1>1

LEMMA NextDueRow ==
  ASSUME NoticesInv, NEW r \in Requests, req[r].op = "run", req[r].todo # {}
  PROVE  NextDue(r) \in req[r].todo /\ NextDue(r) \in 1..Len(schedules) /\ schedules[NextDue(r)].wait = 0
<1>1. \A i \in req[r].todo : i \in 1..Len(schedules) /\ schedules[i].wait = 0
  BY DEF NoticesInv, RunOK
<1>2. Len(schedules) \in Nat
  BY LenProperties DEF NoticesInv
<1>3. req[r].todo \subseteq Nat
  BY <1>1, <1>2
<1>4. NextDue(r) \in req[r].todo
  BY <1>3, Smallest DEF NextDue
<1>5. QED
  BY <1>1, <1>4

(* A run that works on no row moves.                                       *)
LEMMA RunAside ==
  ASSUME NoticesInv, NEW r \in Requests, schedules' = schedules, pass' = pass,
         \A q \in Requests \ {r} : req'[q] = req[q], \A i : ~OnRow(r, i) /\ ~OnRow(r, i)',
         req'[r].op = "run" => RunOK(r)'
  PROVE  NoticesInv'
<1>1. \A q \in Requests \ {r} : req'[q] = req[q] /\ NextDue(q)' = NextDue(q)
  BY DEF NextDue
<1>2. \A q \in Requests : \A i : OnRow(q, i)' <=> OnRow(q, i)
  BY <1>1 DEF OnRow
<1>3. ASSUME NEW q \in Requests, req'[q].op = "run" PROVE RunOK(q)'
  <2>1. CASE q = r
    BY <1>3, <2>1
  <2>2. CASE q # r
    <3>1. req'[q] = req[q] /\ NextDue(q)' = NextDue(q)
      BY <1>1, <2>2
    <3>2. RunOK(q)
      BY <1>3, <3>1 DEF NoticesInv
    <3>3. PICK i : i = NextDue(q)
      OBVIOUS
    <3>4. QED
      BY <1>2, <3>1, <3>2, <3>3 DEF RunOK
  <2>3. QED
    BY <2>1, <2>2
<1>4. ASSUME NEW i \in 1..Len(schedules) PROVE RowOK(i)'
  BY <1>2 DEF NoticesInv, RowOK
<1>5. QED
  BY <1>3, <1>4 DEF NoticesInv, PassOK

(* A run moves on its row, which no other run works on.                    *)
LEMMA RunMoved ==
  ASSUME NoticesInv, NEW r \in Requests, NEW i \in 1..Len(schedules), pass' = pass,
         \A q \in Requests \ {r} : req'[q] = req[q],
         schedules' \in Seq(ScheduleRows), Len(schedules') = Len(schedules), schedules'[i].wait = schedules[i].wait,
         \A j \in 1..Len(schedules) : j # i => schedules'[j] = schedules[j],
         \A q \in Requests \ {r} : ~OnRow(q, i),
         \A j : (OnRow(r, j) => j = i) /\ (OnRow(r, j)' => j = i),
         req'[r].op = "run" => RunOK(r)', RowOK(i)'
  PROVE  NoticesInv'
<1>1. \A q \in Requests \ {r} : req'[q] = req[q] /\ NextDue(q)' = NextDue(q)
  BY DEF NextDue
<1>2. \A q \in Requests \ {r} : \A j : OnRow(q, j)' <=> OnRow(q, j)
  BY <1>1 DEF OnRow
<1>3. \A j \in 1..Len(schedules) : schedules'[j].wait = schedules[j].wait
  OBVIOUS
<1>4. ASSUME NEW q \in Requests, req'[q].op = "run", q # r PROVE RunOK(q)'
  <2>1. req'[q] = req[q] /\ NextDue(q)' = NextDue(q)
    BY <1>1, <1>4
  <2>2. RunOK(q) /\ req[q].op = "run"
    BY <1>4, <2>1 DEF NoticesInv
  <2>3. \A j \in req'[q].todo : j \in 1..Len(schedules') /\ schedules'[j].wait = 0
    BY <1>3, <2>1, <2>2 DEF RunOK
  <2>4. CASE req[q].at = "loop"
    BY <2>1, <2>2, <2>3, <2>4 DEF RunOK
  <2>5. CASE req[q].at # "loop"
    <3>1. PICK j \in 1..Len(schedules) : j = NextDue(q)
      BY <2>2, <2>5, NextDueRow DEF RunOK
    <3>2. OnRow(q, j)
      BY <2>2, <2>5, <3>1 DEF OnRow, RunOK
    <3>3. schedules'[j] = schedules[j] /\ j # i
      BY <1>4, <3>2
    <3>4. \A p \in Requests : OnRow(p, j)' => p = q
      BY <1>2, <2>2, <2>5, <3>1, <3>3 DEF RunOK
    <3>5. QED
      BY <2>1, <2>2, <2>3, <3>1, <3>3, <3>4 DEF RunOK
  <2>6. QED
    BY <2>4, <2>5
<1>5. ASSUME NEW j \in 1..Len(schedules), j # i PROVE RowOK(j)'
  <2>1. schedules'[j] = schedules[j] /\ RowOK(j)
    BY <1>5 DEF NoticesInv
  <2>2. (\A q \in Requests : ~OnRow(q, j)') => \A q \in Requests : ~OnRow(q, j)
    BY <1>2, <1>5
  <2>3. QED
    BY <2>1, <2>2 DEF RowOK
<1>6. QED
  BY <1>4, <1>5 DEF NoticesInv, PassOK

(* A run takes up rows, and has told nobody yet.                           *)
LEMMA RunStartNotices ==
  ASSUME ReqOK, NoticesInv, NEW r \in Requests, RunStart(r)
  PROVE  AsideStep(r, "run") /\ NoticesInv'
<1>1. PICK batch \in SUBSET DueRows : Begin(r, [Unused EXCEPT !.op = "run", !.at = "loop", !.todo = batch])
  BY DEF RunStart, kSubset
<1>2. /\ tier' = tier /\ keys' = keys /\ lastOrder' = lastOrder /\ contents' = contents
      /\ schedules' = schedules /\ pass' = pass
  BY DEF RunStart, catalogue, content
<1>3. DOMAIN schedules = 1..Len(schedules) /\ Len(schedules) \in Nat
  BY LenProperties DEF NoticesInv
<1>4. \A i \in batch : i \in 1..Len(schedules) /\ schedules[i].wait = 0
  BY <1>1, <1>3 DEF DueRows, Due
<1>5. batch \subseteq Nat
  BY <1>3, <1>4
<1> DEFINE call == [Unused EXCEPT !.op = "run", !.at = "loop", !.todo = batch]
<1>6. call \in Calls /\ call.op = "run" /\ call.at = "loop" /\ call.todo = batch
  BY <1>5, UnusedCall, OpsAndPlaces DEF Calls
<1>7. Begin(r, call)
  BY <1>1
<1> HIDE DEF call
<1>8. ReqOK' /\ req'[r] = call /\ req[r] = Unused /\ Only(r, {"none", "run"})
  BY <1>6, <1>7, Began
<1>9. \A i : ~OnRow(r, i) /\ ~OnRow(r, i)'
  BY <1>6, <1>8 DEF OnRow, Unused
<1>10. RunOK(r)'
  BY <1>2, <1>4, <1>6, <1>8 DEF RunOK
<1>11. NoticesInv'
  BY <1>2, <1>8, <1>9, <1>10, RunAside DEF Only
<1>12. QED
  BY <1>2, <1>8, <1>11 DEF AsideStep, Only

(* The call of a run after a step.                                         *)
LEMMA RunCall ==
  ASSUME ReqOK, NEW r \in Requests, req[r].op = "run", NEW at \in {"loop", "active", "found"},
         NEW todo \in SUBSET Nat, NEW late \in SUBSET Passes,
         req' = [req EXCEPT ![r] = [req[r] EXCEPT !.at = at, !.todo = todo, !.late = late]]
  PROVE  /\ ReqOK' /\ Only(r, {"run"}) /\ \A q \in Requests \ {r} : req'[q] = req[q]
         /\ req'[r].op = "run" /\ req'[r].at = at /\ req'[r].todo = todo /\ req'[r].late = late
<1> DEFINE call == [req[r] EXCEPT !.at = at, !.todo = todo, !.late = late]
<1>1. call \in Calls /\ call.op = "run" /\ call.at = at /\ call.todo = todo /\ call.late = late
  <2>1. at \in CallPlaces
    BY DEF CallPlaces
  <2>2. req[r] \in Calls
    BY DEF ReqOK
  <2>3. QED
    BY <2>1, <2>2 DEF Calls
<1>2. req' = [req EXCEPT ![r] = call]
  OBVIOUS
<1> HIDE DEF call
<1>3. ReqOK' /\ req'[r] = call /\ \A q \in Requests \ {r} : req'[q] = req[q]
  BY <1>1, <1>2, Changed
<1>4. QED
  BY <1>1, <1>3 DEF Only

(* The update of a run makes the row active, so that no other run has it.  *)
LEMMA RunActivatesNotices ==
  ASSUME ReqOK, NoticesInv, NEW r \in Requests, RunActivates(r)
  PROVE  AsideStep(r, "run") /\ NoticesInv'
<1>1. /\ req[r].op = "run" /\ req[r].at = "loop" /\ req[r].todo # {}
      /\ tier' = tier /\ keys' = keys /\ lastOrder' = lastOrder /\ contents' = contents /\ pass' = pass
  BY DEF RunActivates, InLoop, catalogue, content
<1>2. PICK i \in 1..Len(schedules) : i = NextDue(r) /\ i \in req[r].todo /\ schedules[i].wait = 0
  BY <1>1, NextDueRow
<1>3. schedules[i].active = FALSE
  BY <1>2, ScheduleRow DEF RunActivates
<1> DEFINE holders == {p \in Passes : pass[p] = "valid" /\ TierOf[p] = schedules[i].tier}
           row == [schedules[i] EXCEPT !.active = TRUE, !.audience = holders]
<1>4. schedules' = [schedules EXCEPT ![i] = row]
  BY <1>2 DEF RunActivates
<1>5. /\ row \in ScheduleRows /\ row.active = TRUE /\ row.audience = holders /\ row.wait = 0
      /\ row.sent = schedules[i].sent /\ row.tier = schedules[i].tier
  BY <1>2, ScheduleRow DEF ScheduleRows
<1> HIDE DEF row
<1>6. /\ schedules' \in Seq(ScheduleRows) /\ Len(schedules') = Len(schedules) /\ schedules'[i] = row
      /\ \A j \in 1..Len(schedules) : j # i => schedules'[j] = schedules[j]
  BY <1>4, <1>5, RowWritten
<1>7. req[r].todo \in SUBSET Nat /\ req[r].late \in SUBSET Passes /\ req[r] \in Calls
  BY DEF ReqOK, Calls
<1>8. req' = [req EXCEPT ![r] = [req[r] EXCEPT !.at = "active", !.todo = req[r].todo, !.late = req[r].late]]
  <2>1. [req[r] EXCEPT !.at = "active"] = [req[r] EXCEPT !.at = "active", !.todo = req[r].todo, !.late = req[r].late]
    BY <1>7 DEF Calls
  <2>2. QED
    BY <2>1 DEF RunActivates
<1>9. /\ ReqOK' /\ Only(r, {"run"}) /\ \A q \in Requests \ {r} : req'[q] = req[q]
      /\ req'[r].op = "run" /\ req'[r].at = "active" /\ req'[r].todo = req[r].todo
  <2>1. PICK at \in {"loop", "active", "found"} : at = "active"
    OBVIOUS
  <2>2. req' = [req EXCEPT ![r] = [req[r] EXCEPT !.at = at, !.todo = req[r].todo, !.late = req[r].late]]
    BY <1>8, <2>1
  <2>3. QED
    BY <1>1, <1>7, <2>1, <2>2, RunCall, ZenonT(60)
<1>10. NextDue(r)' = i
  BY <1>2, <1>9 DEF NextDue
<1>11. \A q \in Requests : ~OnRow(q, i)
  BY <1>3 DEF OnRow, NoticesInv, RunOK
<1>12. \A j : (OnRow(r, j) => j = i) /\ (OnRow(r, j)' => j = i)
  BY <1>2, <1>10 DEF OnRow
<1>13. \A q \in Requests : OnRow(q, i)' => q = r
  BY <1>9, <1>11 DEF OnRow, NextDue
<1>14. \A p \in Passes : row.sent[p] = 0
  BY <1>3, <1>5 DEF NoticesInv, RowOK
<1>15. \A j \in req[r].todo : j \in 1..Len(schedules) /\ schedules'[j].wait = 0
  <2>1. \A j \in req[r].todo : j \in 1..Len(schedules) /\ schedules[j].wait = 0
    BY <1>1 DEF NoticesInv, RunOK
  <2>2. QED
    BY <1>5, <1>6, <2>1
<1>16. RunOK(r)'
  BY <1>1, <1>5, <1>6, <1>9, <1>10, <1>13, <1>14, <1>15 DEF RunOK
<1>17. OnRow(r, i)'
  BY <1>9, <1>10 DEF OnRow
<1>18. RowOK(i)'
  BY <1>1, <1>5, <1>6, <1>14, <1>17 DEF RowOK
<1>19. schedules'[i].wait = schedules[i].wait
  BY <1>2, <1>5, <1>6
<1>20. NoticesInv'
  BY <1>1, <1>6, <1>9, <1>11, <1>12, <1>16, <1>18, <1>19, RunMoved
<1>21. QED
  BY <1>1, <1>9, <1>20 DEF AsideStep, Only

(* A row that another run has activated is left to it.                     *)
LEMMA RunSkipsNotices ==
  ASSUME ReqOK, NoticesInv, NEW r \in Requests, RunSkips(r)
  PROVE  AsideStep(r, "run") /\ NoticesInv'
<1>1. /\ req[r].op = "run" /\ req[r].at = "loop" /\ schedules' = schedules
      /\ tier' = tier /\ keys' = keys /\ lastOrder' = lastOrder /\ contents' = contents /\ pass' = pass
  BY DEF RunSkips, InLoop, catalogue, content
<1> DEFINE left == req[r].todo \ {NextDue(r)}
<1>2. left \in SUBSET Nat /\ req[r].late \in SUBSET Passes /\ req[r] \in Calls /\ left \subseteq req[r].todo
  BY DEF ReqOK, Calls
<1>3. req' = [req EXCEPT ![r] = [req[r] EXCEPT !.at = "loop", !.todo = left, !.late = req[r].late]]
  <2>1. [req[r] EXCEPT !.todo = left] = [req[r] EXCEPT !.at = "loop", !.todo = left, !.late = req[r].late]
    BY <1>1, <1>2 DEF Calls
  <2>2. QED
    BY <2>1 DEF RunSkips
<1> HIDE DEF left
<1>4. /\ ReqOK' /\ Only(r, {"run"}) /\ \A q \in Requests \ {r} : req'[q] = req[q]
      /\ req'[r].op = "run" /\ req'[r].at = "loop" /\ req'[r].todo = left
  BY <1>1, <1>2, <1>3, RunCall, ZenonT(60)
<1>5. \A i : ~OnRow(r, i) /\ ~OnRow(r, i)'
  BY <1>1, <1>4 DEF OnRow
<1>6. RunOK(r)'
  BY <1>1, <1>2, <1>4 DEF NoticesInv, RunOK
<1>7. NoticesInv'
  BY <1>1, <1>4, <1>5, <1>6, RunAside
<1>8. QED
  BY <1>1, <1>4, <1>7 DEF AsideStep, Only

LEMMA RunEndsNotices ==
  ASSUME ReqOK, NoticesInv, NEW r \in Requests, RunEnds(r)
  PROVE  AsideStep(r, "run") /\ NoticesInv'
<1>1. /\ req[r].op = "run" /\ req[r].at = "loop" /\ schedules' = schedules
      /\ tier' = tier /\ keys' = keys /\ lastOrder' = lastOrder /\ contents' = contents /\ pass' = pass
  BY DEF RunEnds, InLoop, catalogue, content
<1>2. ReqOK' /\ Only(r, {"none", "run"}) /\ req'[r].op = "none"
  BY <1>1, Answered DEF RunEnds
<1>3. \A i : ~OnRow(r, i) /\ ~OnRow(r, i)'
  BY <1>1, <1>2 DEF OnRow
<1>4. NoticesInv'
  BY <1>1, <1>2, <1>3, RunAside DEF Only
<1>5. QED
  BY <1>1, <1>2, <1>4 DEF AsideStep, Only

(* The run that has activated a row.                                       *)
LEMMA RunOnRow ==
  ASSUME ReqOK, NoticesInv, NEW r \in Requests, req[r].op = "run", req[r].at # "loop"
  PROVE  \E i \in 1..Len(schedules) :
            /\ i = NextDue(r) /\ i \in req[r].todo /\ OnRow(r, i) /\ RowOK(i)
            /\ schedules[i].wait = 0 /\ schedules[i].active = TRUE /\ \A p \in Passes : schedules[i].sent[p] = 0
            /\ \A q \in Requests \ {r} : ~OnRow(q, i)
            /\ \A j : OnRow(r, j) => j = i
            /\ req[r].at = "found" => \A p \in schedules[i].audience : pass[p] = "valid" => p \in req[r].late
<1>1. RunOK(r) /\ req[r].todo # {} /\ req[r].at \in {"active", "found"}
  BY DEF NoticesInv, RunOK
<1>2. PICK i \in 1..Len(schedules) : i = NextDue(r) /\ i \in req[r].todo /\ schedules[i].wait = 0
  BY <1>1, NextDueRow
<1>3. OnRow(r, i) /\ \A j : OnRow(r, j) => j = i
  BY <1>1, <1>2 DEF OnRow
<1>4. /\ schedules[i].active = TRUE /\ \A p \in Passes : schedules[i].sent[p] = 0
      /\ \A q \in Requests : OnRow(q, i) => q = r
      /\ req[r].at = "found" => \A p \in schedules[i].audience : pass[p] = "valid" => p \in req[r].late
  BY <1>1, <1>2 DEF RunOK
<1>5. RowOK(i)
  BY DEF NoticesInv
<1>6. QED
  BY <1>2, <1>3, <1>4, <1>5

(* Who held a pass at the activation and still does is found.              *)
LEMMA RunFindsNotices ==
  ASSUME ReqOK, NoticesInv, NEW r \in Requests, RunFindsPasses(r)
  PROVE  AsideStep(r, "run") /\ NoticesInv'
<1>1. /\ req[r].op = "run" /\ req[r].at = "active" /\ schedules' = schedules
      /\ tier' = tier /\ keys' = keys /\ lastOrder' = lastOrder /\ contents' = contents /\ pass' = pass
  BY DEF RunFindsPasses, catalogue, content
<1>2. PICK i \in 1..Len(schedules) :
            /\ i = NextDue(r) /\ i \in req[r].todo /\ OnRow(r, i) /\ RowOK(i)
            /\ schedules[i].wait = 0 /\ schedules[i].active = TRUE /\ \A p \in Passes : schedules[i].sent[p] = 0
            /\ \A q \in Requests \ {r} : ~OnRow(q, i)
            /\ \A j : OnRow(r, j) => j = i
  BY <1>1, RunOnRow
<1> DEFINE late == {p \in Passes : /\ TierOf[p] = schedules[i].tier
                                   /\ \/ pass[p] = "valid"
                                      \/ pass[p] = "expired" /\ p \in req[r].late}
<1>3. \A p \in schedules[i].audience : pass[p] = "valid" => p \in late
  BY <1>2, ScheduleRow DEF RowOK
<1>4. late \in SUBSET Passes /\ req[r].todo \in SUBSET Nat /\ req[r] \in Calls
  BY DEF ReqOK, Calls
<1>5. req' = [req EXCEPT ![r] = [req[r] EXCEPT !.at = "found", !.late = late]]
  BY <1>2 DEF RunFindsPasses
<1> HIDE DEF late
<1>6. PICK at \in {"loop", "active", "found"} : at = "found"
  OBVIOUS
<1>7. req' = [req EXCEPT ![r] = [req[r] EXCEPT !.at = at, !.todo = req[r].todo, !.late = late]]
  <2>1. [req[r] EXCEPT !.at = "found", !.late = late] = [req[r] EXCEPT !.at = at, !.todo = req[r].todo, !.late = late]
    BY <1>4, <1>6 DEF Calls
  <2>2. QED
    BY <1>5, <2>1
<1>8. /\ ReqOK' /\ Only(r, {"run"}) /\ \A q \in Requests \ {r} : req'[q] = req[q]
      /\ req'[r].op = "run" /\ req'[r].at = "found" /\ req'[r].todo = req[r].todo /\ req'[r].late = late
  BY <1>1, <1>4, <1>6, <1>7, RunCall
<1>9. NextDue(r)' = i
  BY <1>2, <1>8 DEF NextDue
<1>10. \A q \in Requests : \A j : OnRow(q, j)' <=> OnRow(q, j)
  <2>1. \A j : OnRow(r, j)' <=> OnRow(r, j)
    BY <1>1, <1>2, <1>8, <1>9 DEF OnRow
  <2>2. QED
    BY <1>8, <2>1 DEF OnRow, NextDue
<1>11. RunOK(r)'
  <2>1. RunOK(r)
    BY <1>1 DEF NoticesInv
  <2>2. \A q \in Requests : OnRow(q, i)' => q = r
    BY <1>2, <1>10
  <2>3. QED
    BY <1>1, <1>2, <1>3, <1>8, <1>9, <2>1, <2>2 DEF RunOK
<1>12. RowOK(i)'
  BY <1>1, <1>2, <1>10 DEF RowOK
<1>13. schedules \in Seq(ScheduleRows)
  BY DEF NoticesInv
<1>14. NoticesInv'
  BY <1>1, <1>2, <1>8, <1>10, <1>11, <1>12, <1>13, RunMoved
<1>15. QED
  BY <1>1, <1>8, <1>14 DEF AsideStep, Only

(* The notices go out once: nobody had one, and no other run has the row.  *)
LEMMA RunNotifiesNotices ==
  ASSUME ReqOK, NoticesInv, NEW r \in Requests, RunNotifies(r)
  PROVE  AsideStep(r, "run") /\ NoticesInv'
<1>1. /\ req[r].op = "run" /\ req[r].at = "found"
      /\ tier' = tier /\ keys' = keys /\ lastOrder' = lastOrder /\ contents' = contents /\ pass' = pass
  BY DEF RunNotifies, catalogue, content
<1>2. PICK i \in 1..Len(schedules) :
            /\ i = NextDue(r) /\ i \in req[r].todo /\ OnRow(r, i) /\ RowOK(i)
            /\ schedules[i].wait = 0 /\ schedules[i].active = TRUE /\ \A p \in Passes : schedules[i].sent[p] = 0
            /\ \A q \in Requests \ {r} : ~OnRow(q, i)
            /\ \A j : OnRow(r, j) => j = i
            /\ \A p \in schedules[i].audience : pass[p] = "valid" => p \in req[r].late
  BY <1>1, RunOnRow
<1> DEFINE sent == [p \in Passes |-> IF p \in req[r].late THEN schedules[i].sent[p] + 1 ELSE schedules[i].sent[p]]
           row == [schedules[i] EXCEPT !.sent = sent]
           left == req[r].todo \ {i}
<1>3. schedules' = [schedules EXCEPT ![i] = row]
  BY <1>2 DEF RunNotifies
<1>4. sent \in [Passes -> Nat] /\ \A p \in Passes : sent[p] <= 1 /\ (p \in req[r].late => sent[p] = 1)
  BY <1>2
<1> HIDE DEF sent
<1>5. /\ row \in ScheduleRows /\ row.active = TRUE /\ row.audience = schedules[i].audience /\ row.wait = 0
      /\ row.sent = sent /\ row.tier = schedules[i].tier
  BY <1>2, <1>4, ScheduleRow DEF ScheduleRows
<1> HIDE DEF row
<1>6. /\ schedules' \in Seq(ScheduleRows) /\ Len(schedules') = Len(schedules) /\ schedules'[i] = row
      /\ \A j \in 1..Len(schedules) : j # i => schedules'[j] = schedules[j]
  BY <1>3, <1>5, RowWritten
<1>7. left \in SUBSET Nat /\ req[r] \in Calls /\ left \subseteq req[r].todo /\ {} \in SUBSET Passes
  BY DEF ReqOK, Calls
<1>8. req' = [req EXCEPT ![r] = [req[r] EXCEPT !.at = "loop", !.todo = left, !.late = {}]]
  BY <1>2 DEF RunNotifies
<1> HIDE DEF left
<1>9. /\ ReqOK' /\ Only(r, {"run"}) /\ \A q \in Requests \ {r} : req'[q] = req[q]
      /\ req'[r].op = "run" /\ req'[r].at = "loop" /\ req'[r].todo = left
  BY <1>1, <1>7, <1>8, RunCall
<1>10. \A j : ~OnRow(r, j)'
  BY <1>9 DEF OnRow
<1>11. RunOK(r)'
  <2>1. \A j \in left : j \in 1..Len(schedules) /\ schedules[j].wait = 0
    BY <1>1, <1>7 DEF NoticesInv, RunOK
  <2>2. \A j \in left : j \in 1..Len(schedules) /\ schedules'[j].wait = 0
    BY <1>5, <1>6, <2>1
  <2>3. QED
    BY <1>6, <1>9, <2>2 DEF RunOK
<1>12. \A p \in row.audience : p \in Passes /\ pass[p] # "none" /\ TierOf[p] = row.tier /\ (pass[p] = "valid" => sent[p] = 1)
  BY <1>2, <1>4, <1>5, ScheduleRow DEF RowOK
<1>13. RowOK(i)'
  BY <1>1, <1>4, <1>5, <1>6, <1>12 DEF RowOK
<1>14. schedules'[i].wait = schedules[i].wait
  BY <1>2, <1>5, <1>6
<1>15. NoticesInv'
  BY <1>1, <1>2, <1>6, <1>9, <1>10, <1>11, <1>13, <1>14, RunMoved
<1>16. QED
  BY <1>1, <1>9, <1>15 DEF AsideStep, Only

(* A statement that fails before the activation leaves the row to another  *)
(* run; after it, the row counts as lost.                                  *)
LEMMA RunFailsNotices ==
  ASSUME ReqOK, NoticesInv, NEW r \in Requests, RunFails(r)
  PROVE  AsideStep(r, "run") /\ NoticesInv'
<1>1. /\ req[r].op = "run" /\ req[r].todo # {}
      /\ tier' = tier /\ keys' = keys /\ lastOrder' = lastOrder /\ contents' = contents /\ pass' = pass
  BY DEF RunFails, catalogue, content
<1>2. PICK i \in 1..Len(schedules) : i = NextDue(r) /\ i \in req[r].todo /\ schedules[i].wait = 0
  BY <1>1, NextDueRow
<1> DEFINE left == req[r].todo \ {i}
           lost == schedules[i].lost \/ req[r].at # "loop"
           row == [schedules[i] EXCEPT !.lost = lost]
<1>3. schedules' = [schedules EXCEPT ![i] = row]
  BY <1>2 DEF RunFails
<1>4. lost \in BOOLEAN
  OBVIOUS
<1>5. lost = IF req[r].at = "loop" THEN schedules[i].lost ELSE TRUE
  BY ScheduleRow
<1> HIDE DEF lost
<1>6. /\ row \in ScheduleRows /\ row.active = schedules[i].active /\ row.audience = schedules[i].audience
      /\ row.wait = 0 /\ row.sent = schedules[i].sent /\ row.tier = schedules[i].tier /\ row.lost = lost
  BY <1>2, <1>4, ScheduleRow DEF ScheduleRows
<1>7. schedules[i].lost = lost => row = schedules[i]
  BY ScheduleRow DEF ScheduleRows
<1> HIDE DEF row
<1>8. /\ schedules' \in Seq(ScheduleRows) /\ Len(schedules') = Len(schedules) /\ schedules'[i] = row
      /\ \A j \in 1..Len(schedules) : j # i => schedules'[j] = schedules[j]
  BY <1>3, <1>6, RowWritten
<1>9. left \in SUBSET Nat /\ req[r].late \in SUBSET Passes /\ req[r] \in Calls /\ left \subseteq req[r].todo
  BY DEF ReqOK, Calls
<1>10. req' = [req EXCEPT ![r] = [req[r] EXCEPT !.at = "loop", !.todo = left, !.late = req[r].late]]
  <2>1. [req[r] EXCEPT !.at = "loop", !.todo = left] = [req[r] EXCEPT !.at = "loop", !.todo = left, !.late = req[r].late]
    BY <1>9 DEF Calls
  <2>2. QED
    BY <1>2, <2>1 DEF RunFails
<1> HIDE DEF left
<1>11. /\ ReqOK' /\ Only(r, {"run"}) /\ \A q \in Requests \ {r} : req'[q] = req[q]
       /\ req'[r].op = "run" /\ req'[r].at = "loop" /\ req'[r].todo = left
  BY <1>1, <1>9, <1>10, RunCall, ZenonT(60)
<1>12. \A j : ~OnRow(r, j)'
  BY <1>11 DEF OnRow
<1>13. RunOK(r)'
  <2>1. \A j \in left : j \in 1..Len(schedules) /\ schedules[j].wait = 0
    BY <1>1, <1>9 DEF NoticesInv, RunOK
  <2>2. \A j \in left : j \in 1..Len(schedules) /\ schedules'[j].wait = 0
    BY <1>6, <1>8, <2>1
  <2>3. QED
    BY <1>8, <1>11, <2>2 DEF RunOK
<1>14. CASE req[r].at = "loop"
  <2>1. schedules' = schedules
    <3>1. row = schedules[i]
      BY <1>5, <1>7, <1>14
    <3>2. schedules \in Seq(ScheduleRows)
      BY DEF NoticesInv
    <3>3. QED
      BY <1>3, <3>1, <3>2
  <2>2. \A j : ~OnRow(r, j)
    BY <1>14 DEF OnRow
  <2>3. NoticesInv'
    BY <1>1, <1>11, <1>12, <1>13, <2>1, <2>2, RunAside
  <2>4. QED
    BY <1>1, <1>11, <2>3 DEF AsideStep, Only
<1>15. CASE req[r].at # "loop"
  <2>1. PICK k \in 1..Len(schedules) :
            /\ k = NextDue(r) /\ RowOK(k) /\ \A q \in Requests \ {r} : ~OnRow(q, k)
            /\ \A j : OnRow(r, j) => j = k
    BY <1>1, <1>15, RunOnRow
  <2>2. i = k
    BY <1>2, <2>1
  <2>3. RowOK(i) /\ row.lost = TRUE
    BY <1>5, <1>6, <1>15, <2>1, <2>2
  <2>4. RowOK(i)'
    BY <1>1, <1>6, <1>8, <2>3, ZenonT(60) DEF RowOK
  <2>5. schedules'[i].wait = schedules[i].wait
    BY <1>2, <1>6, <1>8
  <2>6. NoticesInv'
    BY <1>1, <1>8, <1>11, <1>12, <1>13, <2>1, <2>2, <2>4, <2>5, RunMoved
  <2>7. QED
    BY <1>1, <1>11, <2>6 DEF AsideStep, Only
<1>16. QED
  BY <1>14, <1>15

(* A row of the schedule begins inactive, and nobody has been told.        *)
LEMMA CreateScheduleNotices ==
  ASSUME ReqOK, NoticesInv, NEW r \in Requests, NEW t \in Tiers, NEW delay \in Delays, CreateSchedule(r, t, delay)
  PROVE  AsideStep(r, "run") /\ NoticesInv'
<1>1. tier' = tier /\ keys' = keys /\ lastOrder' = lastOrder /\ contents' = contents /\ pass' = pass
  BY DEF CreateSchedule, catalogue, content
<1>2. PICK how \in {"ok", "refused"} : BeginEnd(r, how)
  BY DEF CreateSchedule, Refuse
<1>3. ReqOK' /\ Only(r, {"none"})
  BY <1>2, BeganEnded
<1>4. \A q \in Requests : req'[q] = req[q] \/ (req[q].op # "run" /\ req'[q].op # "run")
  BY <1>3 DEF Only
<1>5. CASE schedules' = schedules
  BY <1>1, <1>3, <1>4, <1>5, NoticesFrame DEF AsideStep, Only
<1>6. CASE schedules' # schedules
  <2> DEFINE row == [tier |-> t, wait |-> delay, active |-> FALSE, lost |-> FALSE,
                     audience |-> {}, sent |-> [p \in Passes |-> 0]]
  <2>1. schedules' = Append(schedules, row)
    BY <1>6 DEF CreateSchedule
  <2>2. row \in ScheduleRows /\ row.active = FALSE /\ row.audience = {} /\ \A p \in Passes : row.sent[p] = 0
    BY ContentAssumption DEF ContentAssumption, ScheduleRows
  <2> HIDE DEF row
  <2>3. schedules \in Seq(ScheduleRows) /\ Len(schedules) \in Nat
    BY LenProperties DEF NoticesInv
  <2>4. /\ schedules' \in Seq(ScheduleRows) /\ Len(schedules') = Len(schedules) + 1
        /\ schedules'[Len(schedules) + 1] = row /\ \A i \in 1..Len(schedules) : schedules'[i] = schedules[i]
    BY <2>1, <2>2, <2>3
  <2>5. \A q \in Requests : req'[q].op = "run" => req'[q] = req[q] /\ NextDue(q)' = NextDue(q)
    BY <1>4 DEF NextDue
  <2>6. \A q \in Requests : \A i : OnRow(q, i)' <=> OnRow(q, i)
    BY <1>4, <2>5 DEF OnRow
  <2>7. ASSUME NEW q \in Requests, req'[q].op = "run" PROVE RunOK(q)'
    <3>1. req'[q] = req[q] /\ NextDue(q)' = NextDue(q)
      BY <2>5, <2>7
    <3>2. RunOK(q) /\ req[q].op = "run"
      BY <2>7, <3>1 DEF NoticesInv
    <3>3. \A j \in req'[q].todo : j \in 1..Len(schedules') /\ schedules'[j].wait = 0
      BY <2>3, <2>4, <3>1, <3>2 DEF RunOK
    <3>4. CASE req[q].at = "loop"
      BY <3>1, <3>2, <3>3, <3>4 DEF RunOK
    <3>5. CASE req[q].at # "loop"
      <4>1. PICK j \in 1..Len(schedules) : j = NextDue(q)
        BY <3>2, <3>5, NextDueRow DEF RunOK
      <4>2. schedules'[j] = schedules[j]
        BY <2>4
      <4>3. \A p \in Requests : OnRow(p, j)' <=> OnRow(p, j)
        BY <2>6
      <4>4. QED
        BY <1>1, <3>1, <3>2, <3>3, <4>1, <4>2, <4>3 DEF RunOK
    <3>6. QED
      BY <3>4, <3>5
  <2>8. ASSUME NEW i \in 1..Len(schedules') PROVE RowOK(i)'
    <3>1. CASE i = Len(schedules) + 1
      BY <2>2, <2>4, <3>1 DEF RowOK
    <3>2. CASE i # Len(schedules) + 1
      <4>1. i \in 1..Len(schedules)
        BY <2>3, <2>4, <3>2
      <4>2. schedules'[i] = schedules[i] /\ RowOK(i)
        BY <2>4, <4>1 DEF NoticesInv
      <4>3. QED
        BY <1>1, <2>6, <4>2 DEF RowOK
    <3>3. QED
      BY <3>1, <3>2
  <2>9. QED
    BY <1>1, <1>3, <2>4, <2>7, <2>8 DEF NoticesInv, PassOK, AsideStep, Only
<1>7. QED
  BY <1>5, <1>6

(* Time only brings the moment of a row closer.                            *)
LEMMA TickNotices ==
  ASSUME NoticesInv, Tick, \A q \in Requests : req'[q] = req[q] \/ (req[q].op # "run" /\ req'[q].op # "run")
  PROVE  NoticesInv'
<1>1. pass' = pass /\ schedules' = [i \in DOMAIN schedules |-> [schedules[i] EXCEPT !.wait = IF @ > 0 THEN @ - 1 ELSE 0]]
  BY DEF Tick, ScheduleTick
<1>2. DOMAIN schedules = 1..Len(schedules) /\ Len(schedules) \in Nat
  BY LenProperties DEF NoticesInv
<1>3. ASSUME NEW i \in 1..Len(schedules)
      PROVE  /\ schedules'[i] \in ScheduleRows /\ schedules'[i].active = schedules[i].active
             /\ schedules'[i].lost = schedules[i].lost /\ schedules'[i].audience = schedules[i].audience
             /\ schedules'[i].sent = schedules[i].sent /\ schedules'[i].tier = schedules[i].tier
             /\ schedules[i].wait = 0 => schedules'[i].wait = 0
  <2>1. PICK wait \in Nat : wait = (IF schedules[i].wait > 0 THEN schedules[i].wait - 1 ELSE 0) /\ (schedules[i].wait = 0 => wait = 0)
    BY ScheduleRow
  <2>2. schedules'[i] = [schedules[i] EXCEPT !.wait = wait]
    BY <1>1, <1>2, <2>1
  <2>3. QED
    BY <2>1, <2>2, ScheduleRow DEF ScheduleRows
<1>4. schedules' \in Seq(ScheduleRows) /\ Len(schedules') = Len(schedules)
  <2>1. PICK n \in Nat : n = Len(schedules)
    BY <1>2
  <2>2. schedules' = [i \in 1..n |-> schedules'[i]]
    BY <1>1, <1>2, <2>1
  <2>3. schedules' \in [1..n -> ScheduleRows]
    BY <1>3, <2>1, <2>2
  <2>4. schedules' \in Seq(ScheduleRows) /\ Len(schedules') = n
    BY <2>3
  <2>5. QED
    BY <2>1, <2>4
<1>5. \A q \in Requests : req'[q].op = "run" => req'[q] = req[q] /\ NextDue(q)' = NextDue(q)
  BY DEF NextDue
<1>6. \A q \in Requests : \A i : OnRow(q, i)' <=> OnRow(q, i)
  BY <1>5 DEF OnRow
<1>7. ASSUME NEW q \in Requests, req'[q].op = "run" PROVE RunOK(q)'
  <2>1. req'[q] = req[q] /\ NextDue(q)' = NextDue(q)
    BY <1>5, <1>7
  <2>2. RunOK(q) /\ req[q].op = "run"
    BY <1>7, <2>1 DEF NoticesInv
  <2>3. \A j \in req'[q].todo : j \in 1..Len(schedules') /\ schedules'[j].wait = 0
    BY <1>3, <1>4, <2>1, <2>2 DEF RunOK
  <2>4. CASE req[q].at = "loop"
    BY <2>1, <2>2, <2>3, <2>4 DEF RunOK
  <2>5. CASE req[q].at # "loop"
    <3>1. PICK j \in 1..Len(schedules) : j = NextDue(q)
      BY <2>2, <2>5, NextDueRow DEF RunOK
    <3>2. \A p \in Requests : OnRow(p, j)' <=> OnRow(p, j)
      BY <1>6
    <3>3. QED
      BY <1>1, <1>3, <2>1, <2>2, <2>3, <3>1, <3>2 DEF RunOK
  <2>6. QED
    BY <2>4, <2>5
<1>8. ASSUME NEW i \in 1..Len(schedules') PROVE RowOK(i)'
  <2>1. i \in 1..Len(schedules) /\ RowOK(i)
    BY <1>4 DEF NoticesInv
  <2>2. QED
    BY <1>1, <1>3, <1>6, <2>1 DEF RowOK
<1>9. QED
  BY <1>1, <1>4, <1>7, <1>8 DEF NoticesInv, PassOK

(* A pass that has ended does not become valid again.                      *)
LEMMA PassMovesAll ==
  ASSUME OrderInv, KeysInv, AccessInv, NoticesInv, PassMoves
  PROVE  OrderInv' /\ KeysInv' /\ AccessInv' /\ NoticesInv'
<1>1. /\ tier' = tier /\ keys' = keys /\ lastOrder' = lastOrder /\ contents' = contents
      /\ tokens' = tokens /\ schedules' = schedules
  BY DEF PassMoves, catalogue
<1>2. PICK x \in Passes :
          \/ (PassSold(x) \/ PassCloses(x)) /\ UNCHANGED req
          \/ /\ PassExpires(x)
             /\ req' = [r \in Requests |-> IF req[r].op = "run" /\ req[r].at \in {"loop", "active"}
                                           THEN [req[r] EXCEPT !.late = @ \union {x}] ELSE req[r]]
  BY DEF PassMoves
<1>3. PassOK' /\ \A p \in Passes : /\ pass'[p] = "valid" /\ pass[p] # "none" => pass[p] = "valid"
                                   /\ pass[p] # "none" => pass'[p] # "none"
  BY <1>2 DEF NoticesInv, PassOK, PassSold, PassCloses, PassExpires
<1>4. ASSUME NEW q \in Requests
      PROVE  /\ req'[q] \in Calls
             /\ req'[q] = req[q] \/ (req[q].op = "run" /\ req'[q].op = "run")
             /\ req'[q].op = req[q].op /\ req'[q].at = req[q].at /\ req'[q].todo = req[q].todo
             /\ req[q].at = "found" => req'[q].late = req[q].late
  <2>1. req[q] \in Calls
    BY DEF OrderInv, ReqOK
  <2>2. CASE req' = req
    BY <2>1, <2>2
  <2>3. CASE req' # req
    <3> DEFINE call == [req[q] EXCEPT !.late = req[q].late \union {x}]
    <3>1. req'[q] = IF req[q].op = "run" /\ req[q].at \in {"loop", "active"} THEN call ELSE req[q]
      BY <1>2, <2>3
    <3>2. call \in Calls /\ call.op = req[q].op /\ call.at = req[q].at /\ call.todo = req[q].todo
      BY <2>1 DEF Calls
    <3> HIDE DEF call
    <3>3. QED
      BY <2>1, <3>1, <3>2
  <2>4. QED
    BY <2>2, <2>3
<1>5. ReqOK'
  <2>1. req' \in [Requests -> Calls]
    <3>1. CASE req' = req
      BY <3>1 DEF OrderInv, ReqOK
    <3>2. CASE req' # req
      BY <1>2, <1>4, <3>2
    <3>3. QED
      BY <3>1, <3>2
  <2>2. QED
    BY <2>1 DEF ReqOK
<1>6. OrderInv' /\ KeysInv'
  <2>1. \A q \in Requests : req'[q] = req[q] \/ (req[q].op \in AsideOps /\ req'[q].op \in AsideOps)
    BY <1>4 DEF AsideOps
  <2>2. QED
    BY <1>1, <1>5, <2>1, Aside
<1>7. AccessInv'
  <2>1. \A q \in Requests : req'[q] = req[q] \/ ~Waiting(q)'
    BY <1>4 DEF Waiting
  <2>2. QED
    BY <1>1, <2>1, AccessFrame
<1>8. \A q \in Requests : NextDue(q)' = NextDue(q) /\ \A i : OnRow(q, i)' <=> OnRow(q, i)
  BY <1>4 DEF OnRow, NextDue
<1>9. ASSUME NEW q \in Requests, req'[q].op = "run" PROVE RunOK(q)'
  <2>1. RunOK(q) /\ req[q].op = "run"
    BY <1>4, <1>9 DEF NoticesInv
  <2>2. CASE req[q].at = "loop"
    BY <1>1, <1>4, <2>1, <2>2 DEF RunOK
  <2>3. CASE req[q].at # "loop"
    <3>1. PICK j \in 1..Len(schedules) : j = NextDue(q)
      BY <2>1, <2>3, NextDueRow DEF RunOK
    <3>2. RowOK(j) /\ schedules[j].audience \subseteq Passes
      BY ScheduleRow DEF NoticesInv
    <3>3. \A p \in Requests : OnRow(p, j)' <=> OnRow(p, j)
      BY <1>8
    <3>4. req'[q].at = "found" => \A p \in schedules[j].audience : pass'[p] = "valid" => p \in req'[q].late
      BY <1>3, <1>4, <2>1, <2>3, <3>1, <3>2 DEF RunOK, RowOK
    <3>5. QED
      BY <1>1, <1>4, <1>8, <2>1, <3>1, <3>3, <3>4 DEF RunOK
  <2>4. QED
    BY <2>2, <2>3
<1>10. ASSUME NEW i \in 1..Len(schedules) PROVE RowOK(i)'
  <2>1. RowOK(i) /\ schedules[i].audience \subseteq Passes
    BY ScheduleRow DEF NoticesInv
  <2>2. QED
    BY <1>1, <1>3, <1>8, <2>1 DEF RowOK
<1>11. NoticesInv'
  BY <1>1, <1>3, <1>9, <1>10 DEF NoticesInv
<1>12. QED
  BY <1>6, <1>7, <1>11

-----------------------------------------------------------------------------
(* The steps that are not a request's own.                                 *)

(* A tier that the indexer creates has no key yet.                         *)
LEMMA IndexedAll ==
  ASSUME OrderInv, KeysInv, AccessInv, NoticesInv, Indexed
  PROVE  OrderInv' /\ KeysInv' /\ AccessInv' /\ NoticesInv'
<1>1. PICK t \in Tiers : tier' = [tier EXCEPT ![t].exists = TRUE]
  BY DEF Indexed, UpsertFromChain
<1>2. /\ keys' = keys /\ req' = req /\ lastOrder' = lastOrder /\ contents' = contents /\ tokens' = tokens
      /\ pass' = pass /\ schedules' = schedules
  BY DEF Indexed, UpsertFromChain, content
<1> DEFINE new == {t}
<1>3. tier' = [u \in Tiers |-> IF u \in new THEN [tier[u] EXCEPT !.exists = TRUE] ELSE tier[u]]
  BY <1>1 DEF OrderInv, TierOK
<1> HIDE DEF new
<1>4. ReqOK' /\ \A q \in Requests : req'[q] = req[q]
  BY <1>2 DEF OrderInv, ReqOK
<1>5. OrderInv' /\ \A u \in Tiers : tier'[u].exists = (tier[u].exists \/ u \in new)
  BY <1>2, <1>3, <1>4, CreatedOrder
<1>6. KeysInv'
  <2>1. \A u \in Tiers : tier[u].exists = TRUE => tier'[u].exists = TRUE
    BY <1>5
  <2>2. QED
    BY <1>2, <2>1, KeysAside
<1>7. AccessInv' /\ NoticesInv'
  BY <1>2, AccessFrame, NoticesFrame
<1>8. QED
  BY <1>5, <1>6, <1>7

(* A restart loses what was in progress, and rolls transactions back.      *)
LEMMA RestartAll ==
  ASSUME OrderInv, KeysInv, AccessInv, NoticesInv, Restart
  PROVE  OrderInv' /\ KeysInv' /\ AccessInv' /\ NoticesInv'
<1>1. /\ tier' = [t \in Tiers |-> IF tier[t].lock = Free THEN tier[t]
                                  ELSE [Restored(tier[t].lock)[t] EXCEPT !.lock = Free]]
      /\ schedules' = [i \in DOMAIN schedules |->
                         [schedules[i] EXCEPT !.lost = @ \/ \E r \in Requests : req[r].op = "run" /\ req[r].todo # {}
                                                              /\ req[r].at \in {"active", "found"} /\ NextDue(r) = i]]
      /\ req' = [r \in Requests |-> IF req[r] = Unused \/ Ended(r) THEN req[r] ELSE [Unused EXCEPT !.at = "refused"]]
      /\ keys' = keys /\ lastOrder' = lastOrder /\ pass' = pass /\ contents' = contents /\ tokens' = tokens
  BY DEF Restart, content
<1>2. Unused.op = "none" /\ [Unused EXCEPT !.at = "refused"].op = "none" /\ [Unused EXCEPT !.at = "refused"] \in Calls
  BY UnusedCall DEF Unused
<1>3. \A q \in Requests : \/ req'[q] = req[q] /\ (req[q] = Unused \/ Ended(q))
                          \/ req'[q].op = "none" /\ ~Ended(q)
  BY <1>1, <1>2
<1>4. ReqOK'
  <2>1. \A q \in Requests : req'[q] \in Calls
    BY <1>1, <1>2 DEF OrderInv, ReqOK
  <2>2. QED
    BY <1>1, <2>1 DEF ReqOK
<1>5. ASSUME NEW t \in Tiers
      PROVE  /\ tier'[t] \in TierRows /\ tier'[t].exists = tier[t].exists
             /\ tier[t].lock = Free => tier'[t] = tier[t]
             /\ tier[t].lock # Free => tier'[t].lock = Free /\ tier'[t].sort = Restored(tier[t].lock)[t].sort
  <2>1. tier[t] \in TierRows
    BY DEF OrderInv, TierOK
  <2>2. CASE tier[t].lock = Free
    BY <1>1, <2>1, <2>2
  <2>3. CASE tier[t].lock # Free
    <3>1. PICK r \in Requests : r = tier[t].lock
      BY <2>1, <2>3 DEF TierRows
    <3>2. PICK w \in TierRows : w = Restored(r)[t] /\ w.exists = tier[t].exists
      BY <3>1, RestoredRow
    <3>3. tier'[t] = [w EXCEPT !.lock = Free]
      BY <1>1, <2>3, <3>1, <3>2
    <3>4. QED
      BY <2>3, <3>1, <3>2, <3>3 DEF TierRows
  <2>4. QED
    BY <2>2, <2>3
<1>6. TierOK'
  BY <1>1, <1>5 DEF TierOK
<1>7. OrderInv'
  <2> DEFINE L == {q \in Requests : req'[q].op # "reorder"}
  <2>1. \A q \in Requests : IF q \in L THEN req'[q].op # "reorder" ELSE req'[q] = req[q]
    BY <1>3
  <2>2. ASSUME NEW t \in Tiers, tier[t].lock # Free PROVE tier[t].lock \in L
    <3>1. PICK r \in Requests : r = tier[t].lock
      BY <2>2 DEF OrderInv, TierOK, TierRows
    <3>2. Updating(r)
      BY <3>1 DEF OrderInv, LocksHeld
    <3>3. ~(req[r] = Unused \/ Ended(r))
      BY <1>2, <3>2 DEF Updating, Ended
    <3>4. QED
      BY <1>3, <3>1, <3>3
  <2>3. \A t \in Tiers : tier[t].lock \notin L => tier'[t] = tier[t]
    BY <1>5, <2>2
  <2>4. \A t \in Tiers : tier[t].lock \in L => tier[t].lock # Free
    BY ContentAssumption DEF ContentAssumption
  <2>5. \A t \in Tiers : tier[t].lock \in L =>
            tier'[t].lock = Free /\ tier'[t].sort = Restored(tier[t].lock)[t].sort
    BY <1>5, <2>4
  <2>6. L \subseteq Requests
    OBVIOUS
  <2> HIDE DEF L
  <2>7. QED
    BY <1>1, <1>4, <1>6, <2>1, <2>3, <2>5, <2>6, RolledBack
<1>8. KeysInv'
  <2>1. \A q \in Requests : \/ req'[q] = req[q]
                            \/ ~RotatedOk(req[q]) /\ req'[q].op \in {"none", "reorder", "unlock", "run"}
    BY <1>3 DEF RotatedOk, Ended
  <2>2. \A t \in Tiers : tier[t].exists = TRUE => tier'[t].exists = TRUE
    BY <1>5
  <2>3. QED
    BY <1>1, <2>1, <2>2, KeysAside
<1>9. AccessInv'
  <2>1. \A q \in Requests : req'[q] = req[q] \/ ~Waiting(q)'
    BY <1>3 DEF Waiting
  <2>2. QED
    BY <1>1, <2>1, AccessFrame
<1>10. \A q \in Requests : req'[q].op # "run"
  <2>1. ASSUME NEW q \in Requests, req'[q].op = "run" PROVE FALSE
    <3>1. req[q].op = "run" /\ Ended(q)
      BY <1>2, <1>3, <2>1
    <3>2. QED
      BY <3>1 DEF NoticesInv, RunOK, Ended
  <2>2. QED
    BY <2>1
<1>11. ASSUME NEW i \in 1..Len(schedules)
       PROVE  /\ schedules'[i] \in ScheduleRows /\ schedules'[i].active = schedules[i].active
              /\ schedules'[i].audience = schedules[i].audience /\ schedules'[i].wait = schedules[i].wait
              /\ schedules'[i].sent = schedules[i].sent /\ schedules'[i].tier = schedules[i].tier
              /\ schedules'[i].lost = FALSE => schedules[i].lost = FALSE /\ \A r \in Requests : ~OnRow(r, i)
  <2> DEFINE onIt == \E r \in Requests : req[r].op = "run" /\ req[r].todo # {} /\ req[r].at \in {"active", "found"} /\ NextDue(r) = i
  <2>1. PICK lost \in BOOLEAN : lost = (schedules[i].lost \/ onIt)
    OBVIOUS
  <2>2. schedules'[i] = [schedules[i] EXCEPT !.lost = lost]
    BY <1>1, <2>1, ScheduleRow
  <2>3. lost = FALSE => ~onIt /\ schedules[i].lost = FALSE
    BY <2>1, ScheduleRow
  <2>4. ~onIt => \A r \in Requests : ~OnRow(r, i)
    BY DEF OnRow, NoticesInv, RunOK
  <2> HIDE DEF onIt
  <2>5. QED
    BY <2>2, <2>3, <2>4, ScheduleRow DEF ScheduleRows
<1>12. schedules' \in Seq(ScheduleRows) /\ Len(schedules') = Len(schedules)
  <2>1. PICK n \in Nat : n = Len(schedules) /\ DOMAIN schedules = 1..n
    BY LenProperties DEF NoticesInv
  <2>2. schedules' = [i \in 1..n |-> schedules'[i]]
    BY <1>1, <2>1
  <2>3. schedules' \in [1..n -> ScheduleRows]
    BY <1>11, <2>1, <2>2
  <2>4. schedules' \in Seq(ScheduleRows) /\ Len(schedules') = n
    BY <2>3
  <2>5. QED
    BY <2>1, <2>4
<1>13. ASSUME NEW i \in 1..Len(schedules') PROVE RowOK(i)'
  <2>1. i \in 1..Len(schedules) /\ RowOK(i)
    BY <1>12 DEF NoticesInv
  <2>2. schedules'[i].lost = FALSE => schedules[i].lost = FALSE /\ \A r \in Requests : ~OnRow(r, i)
    BY <1>11, <2>1
  <2>3. /\ schedules'[i].active = schedules[i].active /\ schedules'[i].audience = schedules[i].audience
        /\ schedules'[i].wait = schedules[i].wait /\ schedules'[i].sent = schedules[i].sent
        /\ schedules'[i].tier = schedules[i].tier
    BY <1>11, <2>1
  <2>4. ASSUME schedules'[i].active = TRUE, schedules'[i].lost = FALSE, NEW p \in schedules[i].audience, pass[p] = "valid"
        PROVE  schedules[i].sent[p] = 1
    <3>1. schedules[i].active = TRUE /\ schedules[i].lost = FALSE /\ \A r \in Requests : ~OnRow(r, i)
      BY <2>2, <2>3, <2>4
    <3>2. QED
      BY <2>1, <2>4, <3>1 DEF RowOK
  <2>5. pass' = pass
    BY <1>1
  <2>6. QED
    BY <2>1, <2>3, <2>4, <2>5 DEF RowOK
<1>14. NoticesInv'
  BY <1>1, <1>10, <1>12, <1>13 DEF NoticesInv, PassOK
<1>15. QED
  BY <1>7, <1>8, <1>9, <1>14

-----------------------------------------------------------------------------
(* All parts of the invariant together.                                    *)

ContentInv == OrderInv /\ KeysInv /\ AccessInv /\ NoticesInv

LEMMA ContentStarts == Init => ContentInv
<1> SUFFICES ASSUME Init PROVE ContentInv
  OBVIOUS
<1>1. /\ tier = [t \in Tiers |-> [exists |-> t \in FirstTiers, sort |-> 0, lock |-> Free]]
      /\ keys = [t \in Tiers |-> IF t \in FirstTiers THEN {1} ELSE {}]
      /\ req = [r \in Requests |-> Unused] /\ lastOrder = <<>>
      /\ pass = [p \in Passes |-> "none"] /\ contents = <<>> /\ tokens = {} /\ schedules = <<>>
  BY DEF Init, CatalogueInit, ContentInit, ScheduleInit
<1>2. Unused.op = "none" /\ \A r \in Requests : req[r] = Unused
  BY <1>1 DEF Unused
<1>3. \A r \in Requests : ~Updating(r) /\ ~Waiting(r) /\ KeyCall(req[r])
  BY <1>2 DEF Updating, Waiting, KeyCall
<1>4. OrderInv
  <2>1. ReqOK
    BY <1>1, UnusedCall DEF ReqOK
  <2>2. TierOK
    BY <1>1 DEF TierOK, TierRows
  <2>3. \A t \in Tiers : tier[t].lock \notin Requests
    BY <1>1, ContentAssumption DEF ContentAssumption
  <2>4. LocksHeld
    BY <1>3, <2>3 DEF LocksHeld
  <2>5. lastOrder \in Seq(Tiers) /\ Len(lastOrder) = 0
    BY <1>1
  <2>6. CommittedOrder
    BY <2>5 DEF CommittedOrder
  <2>7. QED
    BY <2>1, <2>2, <2>4, <2>6 DEF OrderInv
<1>5. KeysInv
  <2>1. KeysOK
    BY <1>1 DEF KeysOK
  <2>2. ASSUME NEW t \in Tiers
        PROVE  /\ keys[t] = {} \/ keys[t] = 1..(1 + Cardinality(Rotations(t)))
               /\ keys[t] # {} => tier[t].exists = TRUE
    <3>1. Rotations(t) = {}
      BY <1>2 DEF Rotations
    <3>2. Cardinality(Rotations(t)) = 0
      BY <3>1, FS_EmptySet
    <3>3. {1} = 1..(1 + 0)
      OBVIOUS
    <3>4. keys[t] = {} \/ keys[t] = 1..(1 + Cardinality(Rotations(t)))
      BY <1>1, <3>2, <3>3
    <3>5. keys[t] # {} => tier[t].exists = TRUE
      BY <1>1
    <3>6. QED
      BY <3>4, <3>5
  <2>3. contents \in Seq([tier : Tiers, key : Nat]) /\ DOMAIN contents = {}
    BY <1>1
  <2>4. QED
    BY <1>3, <2>1, <2>2, <2>3 DEF KeysInv, ContentDecryptable
<1>6. AccessInv
  BY <1>1, <1>3 DEF AccessInv
<1>7. NoticesInv
  <2>1. schedules \in Seq(ScheduleRows) /\ Len(schedules) = 0
    BY <1>1
  <2>2. QED
    BY <1>1, <1>2, <2>1 DEF NoticesInv, PassOK
<1>8. QED
  BY <1>4, <1>5, <1>6, <1>7 DEF ContentInv

LEMMA CatalogueKeeps ==
  ASSUME ContentInv, NEW r \in Requests, CatalogueSteps(r) \/ CatalogueRequests(r), UNCHANGED <<content, schedules, faults>>
  PROVE  ContentInv'
<1>1. OrderInv /\ KeysInv /\ AccessInv /\ NoticesInv /\ ReqOK
  BY DEF ContentInv, OrderInv
<1>2. contents' = contents /\ tokens' = tokens /\ pass' = pass /\ schedules' = schedules
  BY DEF content
<1>3. ASSUME NEW ops, Only(r, ops), ops \subseteq {"none", "reorder"} PROVE AccessInv' /\ NoticesInv'
  <2>1. \A q \in Requests : req'[q] = req[q] \/ (req[q].op # "run" /\ req'[q].op # "run" /\ ~Waiting(q)')
    BY <1>3 DEF Only, Waiting
  <2>2. QED
    BY <1>1, <1>2, <2>1, AccessFrame, NoticesFrame
<1>4. ASSUME OrderInv', Only(r, {"none", "reorder"}), keys' = keys, \A t \in Tiers : tier'[t].exists = tier[t].exists
      PROVE  ContentInv'
  <2>1. \A q \in Requests : \/ req'[q] = req[q]
                            \/ ~RotatedOk(req[q]) /\ req'[q].op \in {"none", "reorder", "unlock", "run"}
    BY <1>4 DEF Only, RotatedOk
  <2>2. \A t \in Tiers : tier[t].exists = TRUE => tier'[t].exists = TRUE
    BY <1>4
  <2>3. KeysInv'
    BY <1>1, <1>2, <1>4, <2>1, <2>2, KeysAside
  <2>4. QED
    BY <1>3, <1>4, <2>3 DEF ContentInv
<1>5. CASE ReorderUpdate(r)
  <2>1. keys' = keys
    BY <1>5 DEF ReorderUpdate
  <2>2. QED
    BY <1>1, <1>4, <1>5, <2>1, UpdateOrder
<1>6. CASE ReorderCommit(r)
  <2>1. keys' = keys
    BY <1>6 DEF ReorderCommit
  <2>2. QED
    BY <1>1, <1>4, <1>6, <2>1, CommitOrder
<1>7. ASSUME NEW q \in Requests \ {r}, ReorderDeadlock(r, q) PROVE ContentInv'
  <2>1. keys' = keys
    BY <1>7 DEF ReorderDeadlock
  <2>2. QED
    BY <1>1, <1>4, <1>7, <2>1, DeadlockOrder
<1>8. ASSUME NEW new \in SUBSET Tiers, BulkCreate(r, new) PROVE ContentInv'
  <2>1. OrderInv' /\ Only(r, {"none"}) /\ KeysInv'
    BY <1>1, <1>2, <1>8, CreatedKeys
  <2>2. QED
    BY <1>3, <2>1 DEF ContentInv
<1>9. ASSUME NEW order \in Orders, ReorderRead(r, order) PROVE ContentInv'
  <2>1. keys' = keys
    BY <1>9 DEF ReorderRead
  <2>2. QED
    BY <1>1, <1>4, <1>9, <2>1, ReadOrder
<1>10. QED
  BY <1>5, <1>6, <1>7, <1>8, <1>9 DEF CatalogueSteps, CatalogueRequests

LEMMA ContentKeeps ==
  ASSUME ContentInv, NEW r \in Requests, ContentSteps(r) \/ ContentRequests(r), UNCHANGED <<schedules, faults>>
  PROVE  ContentInv'
<1>1. OrderInv /\ KeysInv /\ AccessInv /\ NoticesInv /\ ReqOK
  BY DEF ContentInv, OrderInv
<1>2. ASSUME KeyStep(r), lastOrder' = lastOrder, tokens' = tokens, pass' = pass PROVE ContentInv'
  <2>1. \A q \in Requests : \/ req'[q] = req[q]
                            \/ req[q].op # "reorder" /\ req'[q].op # "reorder" /\ req[q].op # "run" /\ req'[q].op # "run" /\ ~Waiting(q)'
    BY <1>2 DEF KeyStep, Only, KeyOps, Waiting
  <2>2. OrderInv'
    BY <1>1, <1>2, <2>1, OrderFrame DEF KeyStep
  <2>3. AccessInv' /\ NoticesInv'
    BY <1>1, <1>2, <2>1, AccessFrame, NoticesFrame
  <2>4. QED
    BY <1>2, <2>2, <2>3 DEF KeyStep, ContentInv
<1>3. ASSUME AsideStep(r, "unlock"), AccessInv', pass' = pass PROVE ContentInv'
  <2>1. \A q \in Requests : req'[q] = req[q] \/ (req[q].op \in AsideOps /\ req'[q].op \in AsideOps)
    BY <1>3 DEF AsideStep, AsideOps, Only
  <2>2. OrderInv' /\ KeysInv'
    BY <1>1, <1>3, <2>1, Aside DEF AsideStep
  <2>3. \A q \in Requests : req'[q] = req[q] \/ (req[q].op # "run" /\ req'[q].op # "run")
    BY <1>3 DEF AsideStep, Only
  <2>4. NoticesInv'
    BY <1>1, <1>3, <2>3, NoticesFrame
  <2>5. QED
    BY <1>3, <2>2, <2>4 DEF ContentInv
<1>4. CASE CreateContent(r)
  BY <1>1, <1>2, <1>4, CreateContentKeys DEF CreateContent, catalogue
<1>5. CASE RotateKey(r)
  BY <1>1, <1>2, <1>5, RotateKeyKeys DEF RotateKey, content
<1>6. CASE KeyFound(r)
  BY <1>1, <1>2, <1>6, KeyFoundKeys DEF KeyFound, catalogue, content
<1>7. CASE KeyHanded(r)
  BY <1>1, <1>2, <1>7, KeyHandedKeys DEF KeyHanded, catalogue, content
<1>8. CASE UnlockIssued(r)
  BY <1>1, <1>3, <1>8, UnlockIssuedAccess DEF UnlockIssued
<1>9. ASSUME NEW t \in Tiers, NEW op \in {"createContent", "rotate"}, ReadKey(r, op, t) PROVE ContentInv'
  BY <1>1, <1>2, <1>9, ReadKeyKeys DEF ReadKey, catalogue, content
<1>10. ASSUME NEW p \in Passes, KeyAsked(r, p) PROVE ContentInv'
  BY <1>1, <1>2, <1>10, KeyAskedKeys DEF KeyAsked, catalogue, content
<1>11. ASSUME NEW p \in Passes, UnlockAsked(r, p) PROVE ContentInv'
  BY <1>1, <1>3, <1>11, UnlockAskedAccess DEF UnlockAsked, content
<1>12. QED
  BY <1>4, <1>5, <1>6, <1>7, <1>8, <1>9, <1>10, <1>11 DEF ContentSteps, ContentRequests

LEMMA ScheduleKeeps ==
  ASSUME ContentInv, NEW r \in Requests, ScheduleSteps(r) \/ ScheduleRequests(r)
  PROVE  ContentInv'
<1>1. OrderInv /\ KeysInv /\ AccessInv /\ NoticesInv /\ ReqOK
  BY DEF ContentInv, OrderInv
<1>2. AsideStep(r, "run") /\ NoticesInv'
  BY <1>1, RunActivatesNotices, RunSkipsNotices, RunFindsNotices, RunNotifiesNotices, RunFailsNotices, RunEndsNotices,
     RunStartNotices, CreateScheduleNotices DEF ScheduleSteps, ScheduleRequests
<1>3. tokens' = tokens
  BY DEF ScheduleSteps, ScheduleRequests, RunActivates, RunSkips, RunFindsPasses, RunNotifies, RunFails, RunEnds,
     RunStart, CreateSchedule, content
<1>4. \A q \in Requests : req'[q] = req[q] \/ (req[q].op \in AsideOps /\ req'[q].op \in AsideOps)
  BY <1>2 DEF AsideStep, AsideOps, Only
<1>5. OrderInv' /\ KeysInv'
  BY <1>1, <1>2, <1>4, Aside DEF AsideStep
<1>6. \A q \in Requests : req'[q] = req[q] \/ ~Waiting(q)'
  BY <1>2 DEF AsideStep, Only, Waiting
<1>7. QED
  BY <1>1, <1>2, <1>3, <1>5, <1>6, AccessFrame DEF ContentInv

LEMMA ContentStays == ContentInv /\ [Next]_contentVars => ContentInv'
<1> SUFFICES ASSUME ContentInv, [Next]_contentVars PROVE ContentInv'
  OBVIOUS
<1>1. OrderInv /\ KeysInv /\ AccessInv /\ NoticesInv
  BY DEF ContentInv
<1>2. CASE Tick
  BY <1>1, <1>2, TickAccess, TickNotices DEF ContentInv
<1>3. CASE PassMoves
  BY <1>1, <1>3, PassMovesAll DEF ContentInv
<1>4. CASE Indexed
  BY <1>1, <1>4, IndexedAll DEF ContentInv
<1>5. CASE Restart
  BY <1>1, <1>5, RestartAll DEF ContentInv
<1>6. ASSUME NEW r \in Requests, Step(r) \/ Arrive(r) PROVE ContentInv'
  BY <1>6, CatalogueKeeps, ContentKeeps, ScheduleKeeps DEF Step, Arrive
<1>7. CASE UNCHANGED contentVars
  <2>1. ReqOK' /\ \A q \in Requests : req'[q] = req[q]
    BY <1>1, <1>7 DEF contentVars, OrderInv, ReqOK
  <2>2. OrderInv'
    BY <1>1, <1>7, <2>1, OrderFrame DEF contentVars
  <2>3. KeysInv'
    BY <1>1, <1>7, <2>1, KeysAside DEF contentVars
  <2>4. AccessInv' /\ NoticesInv'
    BY <1>1, <1>7, <2>1, AccessFrame, NoticesFrame DEF contentVars
  <2>5. QED
    BY <2>2, <2>3, <2>4 DEF ContentInv
<1>8. QED
  BY <1>2, <1>3, <1>4, <1>5, <1>6, <1>7 DEF Next

(* The four parts of the invariant hold in every state: the catalogue with *)
(* its locks, the keys, the tokens and the notices.                        *)
THEOREM ContentHolds == Spec => []ContentInv
<1>1. QED
  BY ContentStarts, ContentStays, PTL DEF Spec

-----------------------------------------------------------------------------
(* Reordering a creator's tiers is atomic for any number of transactions   *)
(* that interleave row by row, deadlock, are rolled back or meet a         *)
(* restart: when no row is locked, the tiers of the last reordering that   *)
(* committed stand in its order (reorderTiers).                            *)
THEOREM OrderSound == Spec => []OrderOfOneRequest
<1>1. OrderInv => OrderOfOneRequest
  <2> SUFFICES ASSUME OrderInv, \A t \in Tiers : tier[t].lock = Free, NEW i \in DOMAIN lastOrder
               PROVE  tier[lastOrder[i]].sort = i - 1
    BY DEF OrderOfOneRequest
  <2>1. lastOrder \in Seq(Tiers)
    BY DEF OrderInv, CommittedOrder
  <2>2. i \in 1..Len(lastOrder) /\ lastOrder[i] \in Tiers
    BY <2>1, LenProperties, ElementOfSeq
  <2>3. QED
    BY <2>2 DEF OrderInv, CommittedOrder
<1>2. ContentInv => OrderOfOneRequest
  BY <1>1 DEF ContentInv
<1>3. QED
  BY <1>2, ContentHolds, PTL

(* No key of a tier is ever lost, every rotation that was reported done    *)
(* added the next version, all content can be decrypted with a stored key, *)
(* and a fan is never handed a key older than the newest one at the        *)
(* request, for any rotations, uploads and requests that overlap           *)
(* (rotateTierContentKey, createTierContent, getFanEncryptedContentKey).   *)
THEOREM KeysStaySound == Spec => []KeysSound
<1>1. ContentInv => KeysSound
  BY KeysAreSound DEF ContentInv, OrderInv
<1>2. QED
  BY <1>1, ContentHolds, PTL

(* A token that unlockContent has signed opens content at most its         *)
(* lifetime, and the latency of the request, longer than the fan's last    *)
(* valid pass lasted.                                                      *)
THEOREM TokensEndSoon == Spec => []AccessEndsSoon
<1>1. ContentInv => AccessEndsSoon
  BY AccessIsSound DEF ContentInv
<1>2. QED
  BY <1>1, ContentHolds, PTL

(* For any number of scheduler runs that overlap, fail or stop with the    *)
(* process: a pass holder gets at most one notice of a scheduled item,     *)
(* none before its time, and who held a valid pass at the activation and   *)
(* kept it gets one, unless the run that activated it broke off            *)
(* (activateDueContent).                                                   *)
THEOREM NoticesStayRight == Spec => []NoticesRight
<1>1. NoticesInv => NoticesRight
  <2> SUFFICES ASSUME NoticesInv PROVE NoticesRight
    OBVIOUS
  <2>1. \A i \in DOMAIN schedules : i \in 1..Len(schedules)
    BY LenProperties DEF NoticesInv
  <2>2. ASSUME NEW i \in DOMAIN schedules, NEW p \in Passes
        PROVE  schedules[i].sent[p] <= 1 /\ (schedules[i].sent[p] = 1 => schedules[i].active /\ schedules[i].wait = 0)
    <3>1. RowOK(i) /\ schedules[i].active \in BOOLEAN
      BY <2>1, ScheduleRow DEF NoticesInv
    <3>2. schedules[i].sent[p] <= 1
      BY <3>1 DEF RowOK
    <3>3. schedules[i].sent[p] = 1 => schedules[i].active = TRUE
      BY <3>1 DEF RowOK
    <3>4. QED
      BY <3>1, <3>2, <3>3 DEF RowOK
  <2>3. NotifiedOnce
    BY <2>2 DEF NotifiedOnce
  <2>4. ASSUME NEW i \in DOMAIN schedules, schedules[i].active, ~schedules[i].lost,
               \A r \in Requests : req[r].op = "run" /\ req[r].at \in {"active", "found"} => NextDue(r) # i,
               NEW p \in schedules[i].audience, pass[p] = "valid"
        PROVE  schedules[i].sent[p] = 1
    <3>1. RowOK(i) /\ schedules[i].active \in BOOLEAN /\ schedules[i].lost \in BOOLEAN
      BY <2>1, ScheduleRow DEF NoticesInv
    <3>2. schedules[i].active = TRUE /\ schedules[i].lost = FALSE
      BY <2>4, <3>1
    <3>3. \A r \in Requests : ~OnRow(r, i)
      BY <2>4 DEF OnRow
    <3>4. QED
      BY <2>4, <3>1, <3>2, <3>3 DEF RowOK
  <2>5. NobodyForgotten
    BY <2>4 DEF NobodyForgotten
  <2>6. QED
    BY <2>3, <2>5 DEF NoticesRight
<1>2. ContentInv => NoticesRight
  BY <1>1 DEF ContentInv
<1>3. QED
  BY <1>2, ContentHolds, PTL
=============================================================================
