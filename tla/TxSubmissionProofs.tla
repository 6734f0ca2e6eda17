------------------------- MODULE TxSubmissionProofs -------------------------
(***************************************************************************)
(* The write side of the Stellar client, for any number of renewals and    *)
(* attempts: no renewal is charged twice, what the client says is true,    *)
(* and it implements what the renewal loop relies on.                      *)
(***************************************************************************)
EXTENDS TxSubmission, TLAPS

(* A transaction or a record exists for the last attempt of a call only,   *)
(* and not before that attempt was submitted: an attempt whose outcome is  *)
(* open is never followed by another one.                                  *)
LastAttemptOnly ==
    \A h \in Hashes : net[h].is # None \/ store[h] # None =>
        h[2] = sub[h[1]].attempt /\ sub[h[1]].at \notin {"start", "built"}

(* An answer of the node that is on its way is still true.                 *)
SeenIsTrue ==
    \A r \in Renewals : sub[r].at = "asked" /\ sub[r].seen \in {"SUCCESS", "FAILED"} =>
        net[Hash(r)].is = sub[r].seen

TxInv == TypeOK /\ LastAttemptOnly /\ SeenIsTrue /\ ClientTruthful

USE SubmissionAssumption DEF Hashes, Statuses, Running, None

LEMMA HashInHashes == ASSUME TypeOK, NEW r \in Renewals PROVE Hash(r) \in Hashes
BY DEF TypeOK, Call, Hash

LEMMA InitTxInv == Init => TxInv
<1>1. SUFFICES ASSUME Init PROVE TxInv
  OBVIOUS
<1>2. TypeOK
  BY <1>1 DEF Init, TypeOK, Call
<1>3. LastAttemptOnly /\ SeenIsTrue
  BY <1>1 DEF Init, LastAttemptOnly, SeenIsTrue
<1>4. ClientTruthful
  BY <1>1, HashInHashes, <1>2 DEF Init, ClientTruthful, RecordsTrue, ToldHashApplied, PendingIsPolled
<1>5. QED
  BY <1>2, <1>3, <1>4 DEF TxInv

-----------------------------------------------------------------------------
(* The ledger's steps. *)

LEMMA ApplyTxInv ==
  ASSUME TxInv, NEW h \in Hashes, NEW result \in {"SUCCESS", "FAILED"}, Apply(h, result)
  PROVE  TxInv'
<1> USE DEF TxInv
<1>1. TypeOK'
  BY DEF TypeOK, Apply
<1>2. LastAttemptOnly'
  BY DEF TypeOK, Apply, LastAttemptOnly
<1>3. SeenIsTrue'
  BY HashInHashes DEF TypeOK, Apply, SeenIsTrue, Hash
<1>4. RecordsTrue' /\ ToldHashApplied'
  BY DEF TypeOK, Apply, ClientTruthful, RecordsTrue, ToldHashApplied
<1>5. PendingIsPolled'
  BY DEF Apply, ClientTruthful, PendingIsPolled, Hash
<1>6. QED
  BY <1>1, <1>2, <1>3, <1>4, <1>5 DEF ClientTruthful

LEMMA ExpireTxInv == ASSUME TxInv, NEW h \in Hashes, Expire(h) PROVE TxInv'
<1> USE DEF TxInv
<1>1. TypeOK'
  BY DEF TypeOK, Expire
<1>2. LastAttemptOnly'
  BY DEF TypeOK, Expire, LastAttemptOnly
<1>3. SeenIsTrue'
  BY HashInHashes DEF TypeOK, Expire, SeenIsTrue, Hash
<1>4. RecordsTrue' /\ ToldHashApplied'
  BY DEF TypeOK, Expire, ClientTruthful, RecordsTrue, ToldHashApplied
<1>5. PendingIsPolled'
  BY DEF Expire, ClientTruthful, PendingIsPolled, Hash
<1>6. QED
  BY <1>1, <1>2, <1>3, <1>4, <1>5 DEF ClientTruthful

LEMMA OtherTxInv == ASSUME TxInv, OtherTx PROVE TxInv'
<1> USE DEF TxInv
<1>1. TypeOK'
  BY DEF TypeOK, OtherTx
<1>2. LastAttemptOnly' /\ SeenIsTrue'
  BY DEF OtherTx, LastAttemptOnly, SeenIsTrue, Hash
<1>3. ClientTruthful'
  BY DEF OtherTx, ClientTruthful, RecordsTrue, ToldHashApplied, PendingIsPolled, Hash
<1>4. QED
  BY <1>1, <1>2, <1>3

-----------------------------------------------------------------------------
(* The steps of a call. *)

(* Record keeps the types, and afterwards the hash has a place in the map. *)
LEMMA RecordKeepsType ==
  ASSUME TypeOK, NEW h \in Hashes, NEW status \in Statuses, Record(h, status)
  PROVE  /\ order' \in Seq(Hashes)
         /\ store' \in [Hashes -> Statuses \union {None}]
         /\ \E i \in DOMAIN order' : order'[i] = h
<1>1. store' \in [Hashes -> Statuses \union {None}]
  BY DEF TypeOK, Record
<1>2. CASE Contains(order, h)
  <2>1. order' = order /\ order \in Seq(Hashes)
    BY <1>2 DEF TypeOK, Record
  <2>2. \E i \in 1..Len(order) : order[i] = h
    BY <1>2 DEF Contains
  <2>3. DOMAIN order = 1..Len(order)
    BY <2>1
  <2>4. QED
    BY <1>1, <2>1, <2>2, <2>3
<1>3. CASE ~Contains(order, h)
  <2>1. order' = Append(order, h)
    BY <1>3 DEF Record
  <2>2. order' \in Seq(Hashes) /\ Len(order') = Len(order) + 1 /\ order'[Len(order) + 1] = h
    BY <2>1 DEF TypeOK
  <2>3. Len(order) + 1 \in DOMAIN order'
    BY <2>2 DEF TypeOK
  <2>4. QED
    BY <1>1, <2>2, <2>3
<1>4. QED
  BY <1>2, <1>3

(* No transaction and no record of a call exists before it has submitted.  *)
LEMMA NothingBeforeSubmit ==
  ASSUME TxInv, NEW r \in Renewals, sub[r].at \in {"start", "built"},
         NEW h \in Hashes, h[1] = r
  PROVE  net[h].is = None /\ store[h] = None
BY DEF TxInv, LastAttemptOnly

(* A step of call r that leaves the ledger and the records alone.          *)
LEMMA QuietStep ==
  ASSUME TxInv, NEW r \in Renewals, TypeOK', UNCHANGED <<store, net>>,
         \A q \in Renewals \ {r} : sub'[q] = sub[q],
         sub'[r].told = sub[r].told,
         \/ /\ sub[r].at \in {"start", "built"}
            /\ sub'[r].at \in {"start", "built", "threw"}
         \/ /\ sub[r].at \in {"polling", "asked"} /\ sub'[r].attempt = sub[r].attempt
            /\ \/ sub'[r].at = "asked"
               \/ sub'[r].at = "threw" /\ sub'[r].seen = "lost",
         sub'[r].at = "asked" /\ sub'[r].seen \in {"SUCCESS", "FAILED"} =>
            net[Hash(r)].is = sub'[r].seen /\ sub'[r].attempt = sub[r].attempt
  PROVE  TxInv'
<1> USE DEF TxInv
<1>1. LastAttemptOnly'
  <2> SUFFICES ASSUME NEW h \in Hashes, net[h].is # None \/ store[h] # None
               PROVE  h[2] = sub'[h[1]].attempt /\ sub'[h[1]].at \notin {"start", "built"}
    BY DEF LastAttemptOnly
  <2>1. h[2] = sub[h[1]].attempt /\ sub[h[1]].at \notin {"start", "built"} /\ h[1] \in Renewals
    BY DEF LastAttemptOnly
  <2>2. CASE h[1] = r
    BY <2>1, <2>2
  <2>3. CASE h[1] # r
    BY <2>1, <2>3
  <2>4. QED
    BY <2>2, <2>3
<1>2. SeenIsTrue'
  <2> SUFFICES ASSUME NEW q \in Renewals, sub'[q].at = "asked", sub'[q].seen \in {"SUCCESS", "FAILED"}
               PROVE  net[<<q, sub'[q].attempt>>].is = sub'[q].seen
    BY DEF SeenIsTrue, Hash
  <2>1. QED
    BY DEF SeenIsTrue, Hash
<1>3. RecordsTrue' /\ ToldHashApplied'
  BY DEF ClientTruthful, RecordsTrue, ToldHashApplied
<1>4. PendingIsPolled'
  <2> SUFFICES ASSUME NEW q \in Renewals, store[<<q, sub'[q].attempt>>] = "PENDING"
               PROVE  sub'[q].at \in {"polling", "asked"} \/ (sub'[q].at = "threw" /\ sub'[q].seen = "lost")
    BY DEF PendingIsPolled, Hash
  <2>1. CASE q = r /\ sub[r].at \in {"start", "built"}
    <3>1. <<r, sub'[r].attempt>> \in Hashes
      BY DEF TypeOK, Call
    <3>2. QED
      BY <2>1, <3>1, NothingBeforeSubmit
  <2>2. CASE q # r \/ sub[r].at \in {"polling", "asked"}
    BY <2>2 DEF ClientTruthful, PendingIsPolled, Hash
  <2>3. QED
    BY <2>1, <2>2
<1>5. QED
  BY <1>1, <1>2, <1>3, <1>4 DEF ClientTruthful

(* A step of call r replaces its record by another one.                    *)
LEMMA OneCallMoves ==
  ASSUME TypeOK, NEW r \in Renewals, NEW c \in Call, sub' = [sub EXCEPT ![r] = c]
  PROVE  /\ sub' \in [Renewals -> Call] /\ sub'[r] = c
         /\ \A q \in Renewals \ {r} : sub'[q] = sub[q]
BY DEF TypeOK

(* A step of call r that writes its record: the status is what the ledger  *)
(* says if it is final, and PENDING only while the call goes on.           *)
LEMMA RecordingStep ==
  ASSUME TxInv, NEW r \in Renewals, NEW c \in Call, sub' = [sub EXCEPT ![r] = c], TypeOK',
         NEW status \in Statuses, Record(Hash(r), status),
         sub[r].at \in {"built", "polling", "asked"},
         c.attempt = sub[r].attempt, c.at \in {"polling", "returned", "threw"},
         \A h \in Hashes : h # Hash(r) \/ net[h].is # None => net'[h] = net[h],
         status = "PENDING" => c.at = "polling",
         status \in {"SUCCESS", "FAILED"} => net'[Hash(r)].is = status,
         \A h \in c.told : h \in sub[r].told \/ store'[h] = "SUCCESS"
  PROVE  TxInv'
<1> USE DEF TxInv
<1>1. /\ sub'[r] = c /\ \A q \in Renewals \ {r} : sub'[q] = sub[q]
      /\ Hash(r) \in Hashes
      /\ store'[Hash(r)] = status /\ \A h \in Hashes \ {Hash(r)} : store'[h] = store[h]
  BY OneCallMoves, HashInHashes DEF TypeOK, Record
<1>2. \A q \in Renewals : Hash(q)' \in Hashes /\ Hash(q)' = Hash(q)
  <2>1. \A q \in Renewals : sub'[q].attempt = sub[q].attempt
    BY <1>1
  <2>2. QED
    BY <2>1, HashInHashes DEF Hash
<1>3. \A q \in Renewals \ {r} : Hash(q) # Hash(r)
  BY DEF Hash
<1>4. LastAttemptOnly'
  <2> SUFFICES ASSUME NEW h \in Hashes, net'[h].is # None \/ store'[h] # None
               PROVE  h[2] = sub'[h[1]].attempt /\ sub'[h[1]].at \notin {"start", "built"}
    BY DEF LastAttemptOnly
  <2>1. CASE h = Hash(r)
    BY <1>1, <2>1 DEF Hash
  <2>2. CASE h # Hash(r)
    <3>1. h[2] = sub[h[1]].attempt /\ sub[h[1]].at \notin {"start", "built"} /\ h[1] \in Renewals
      BY <1>1, <2>2 DEF LastAttemptOnly
    <3>2. QED
      BY <1>1, <3>1
  <2>3. QED
    BY <2>1, <2>2
<1>5. SeenIsTrue'
  <2> SUFFICES ASSUME NEW q \in Renewals, sub'[q].at = "asked", sub'[q].seen \in {"SUCCESS", "FAILED"}
               PROVE  net'[Hash(q)'].is = sub'[q].seen
    BY DEF SeenIsTrue
  <2>1. q # r /\ sub'[q] = sub[q]
    BY <1>1
  <2>2. QED
    BY <1>2, <1>3, <2>1 DEF SeenIsTrue
<1>6. RecordsTrue'
  <2> SUFFICES ASSUME NEW h \in Hashes, store'[h] \in {"SUCCESS", "FAILED"} PROVE net'[h].is = store'[h]
    BY DEF RecordsTrue
  <2>1. CASE h = Hash(r)
    BY <1>1, <2>1
  <2>2. CASE h # Hash(r)
    BY <1>1, <2>2 DEF ClientTruthful, RecordsTrue
  <2>3. QED
    BY <2>1, <2>2
<1>7. ToldHashApplied'
  <2> SUFFICES ASSUME NEW q \in Renewals, NEW h \in sub'[q].told PROVE net'[h].is = "SUCCESS"
    BY DEF ToldHashApplied
  <2>1. h \in Hashes
    BY DEF TypeOK, Call
  <2>2. CASE h \in sub[q].told
    <3>1. net[h].is = "SUCCESS"
      BY <2>2 DEF ClientTruthful, ToldHashApplied
    <3>2. QED
      BY <2>1, <3>1
  <2>3. CASE h \notin sub[q].told
    <3>1. store'[h] = "SUCCESS"
      BY <1>1, <2>3
    <3>2. QED
      BY <1>6, <2>1, <3>1 DEF RecordsTrue
  <2>4. QED
    BY <2>2, <2>3
<1>8. PendingIsPolled'
  <2> SUFFICES ASSUME NEW q \in Renewals, store'[Hash(q)'] = "PENDING"
               PROVE  sub'[q].at \in {"polling", "asked"} \/ (sub'[q].at = "threw" /\ sub'[q].seen = "lost")
    BY DEF PendingIsPolled
  <2>1. CASE q = r
    BY <1>1, <1>2, <2>1
  <2>2. CASE q # r
    BY <1>1, <1>2, <1>3, <2>2 DEF ClientTruthful, PendingIsPolled
  <2>3. QED
    BY <2>1, <2>2
<1>9. QED
  BY <1>4, <1>5, <1>6, <1>7, <1>8 DEF ClientTruthful

-----------------------------------------------------------------------------
(* What a call's record becomes in each step.                              *)
LEMMA MovedToBuilt ==
  ASSUME NEW c \in Call, NEW n \in Nat
  PROVE  LET d == [c EXCEPT !.at = "built", !.seq = n] IN d \in Call /\ d.at = "built" /\ d.told = c.told
BY DEF Call

LEMMA MovedToAsked ==
  ASSUME NEW c \in Call, NEW seen \in {"SUCCESS", "FAILED", "NOT_FOUND"}, c.left > 0
  PROVE  LET d == [c EXCEPT !.at = "asked", !.left = @ - 1, !.seen = seen]
         IN  d \in Call /\ d.at = "asked" /\ d.seen = seen /\ d.told = c.told /\ d.attempt = c.attempt
<1>1. c.left - 1 \in 0..MaxPolls
  BY DEF Call
<1>2. QED
  BY <1>1 DEF Call

LEMMA MovedToReturned ==
  ASSUME NEW c \in Call, NEW h \in Hashes
  PROVE  LET d == [c EXCEPT !.at = "returned", !.told = {h}]
         IN  d \in Call /\ d.at = "returned" /\ d.told = {h} /\ d.attempt = c.attempt
<1> HIDE DEF Hashes
<1>1. QED
  BY DEF Call

LEMMA Moved ==
  ASSUME NEW c \in Call
  PROVE  /\ LET d == [c EXCEPT !.at = "polling", !.left = MaxPolls]
            IN  d \in Call /\ d.at = "polling" /\ d.told = c.told /\ d.attempt = c.attempt
         /\ LET d == [c EXCEPT !.at = "threw"]
            IN  d \in Call /\ d.at = "threw" /\ d.told = c.told /\ d.attempt = c.attempt
         /\ LET d == [c EXCEPT !.at = "polling"]
            IN  d \in Call /\ d.at = "polling" /\ d.told = c.told /\ d.attempt = c.attempt
         /\ LET d == [c EXCEPT !.at = "threw", !.seen = "lost"]
            IN  d \in Call /\ d.at = "threw" /\ d.seen = "lost" /\ d.told = c.told /\ d.attempt = c.attempt
         /\ c.attempt < MaxRetries =>
              LET d == [c EXCEPT !.at = "start", !.attempt = @ + 1]
              IN  d \in Call /\ d.at = "start" /\ d.told = c.told
<1>1. LET d == [c EXCEPT !.at = "polling", !.left = MaxPolls]
      IN  d \in Call /\ d.at = "polling" /\ d.told = c.told /\ d.attempt = c.attempt
  <2>1. MaxPolls \in 0..MaxPolls
    OBVIOUS
  <2>2. QED
    BY <2>1 DEF Call
<1>2. LET d == [c EXCEPT !.at = "threw"]
      IN  d \in Call /\ d.at = "threw" /\ d.told = c.told /\ d.attempt = c.attempt
  BY DEF Call
<1>3. LET d == [c EXCEPT !.at = "polling"]
      IN  d \in Call /\ d.at = "polling" /\ d.told = c.told /\ d.attempt = c.attempt
  BY DEF Call
<1>4. LET d == [c EXCEPT !.at = "threw", !.seen = "lost"]
      IN  d \in Call /\ d.at = "threw" /\ d.seen = "lost" /\ d.told = c.told /\ d.attempt = c.attempt
  BY DEF Call
<1>5. ASSUME c.attempt < MaxRetries
      PROVE  LET d == [c EXCEPT !.at = "start", !.attempt = @ + 1]
             IN  d \in Call /\ d.at = "start" /\ d.told = c.told
  <2>1. c.attempt + 1 \in 1..MaxRetries
    BY <1>5 DEF Call
  <2>2. QED
    BY <2>1 DEF Call
<1>6. QED
  BY <1>1, <1>2, <1>3, <1>4, <1>5, Zenon

LEMMA BuildInv == ASSUME TxInv, NEW r \in Renewals, Build(r) PROVE TxInv'
<1> DEFINE c == [sub[r] EXCEPT !.at = "built", !.seq = sequence + 1]
<1>1. TypeOK /\ sub[r] \in Call
  BY DEF TxInv, TypeOK
<1>2. sub[r].at = "start" /\ c \in Call /\ c.at = "built" /\ c.told = sub[r].told
  <2>1. sequence + 1 \in Nat
    BY <1>1 DEF TypeOK
  <2>2. QED
    BY <1>1, <2>1, MovedToBuilt DEF Build
<1>3. sub' = [sub EXCEPT ![r] = c] /\ UNCHANGED <<order, store, sequence, net, others>>
  BY DEF Build
<1> HIDE DEF c
<1>4. TypeOK' /\ sub'[r] = c /\ \A q \in Renewals \ {r} : sub'[q] = sub[q]
  BY <1>1, <1>2, <1>3, OneCallMoves DEF TypeOK
<1>5. QED
  BY <1>2, <1>3, <1>4, QuietStep

LEMMA AnswerLostInv == ASSUME TxInv, NEW r \in Renewals, AnswerLost(r) PROVE TxInv'
<1> DEFINE c == [sub[r] EXCEPT !.at = "threw", !.seen = "lost"]
<1>1. TypeOK /\ sub[r] \in Call
  BY DEF TxInv, TypeOK
<1>2. /\ sub[r].at = "asked" /\ c \in Call /\ c.at = "threw" /\ c.seen = "lost"
      /\ c.told = sub[r].told /\ c.attempt = sub[r].attempt
  BY <1>1, Moved DEF AnswerLost
<1>3. sub' = [sub EXCEPT ![r] = c] /\ UNCHANGED <<order, store, sequence, net, others>>
  BY DEF AnswerLost
<1> HIDE DEF c
<1>4. TypeOK' /\ sub'[r] = c /\ \A q \in Renewals \ {r} : sub'[q] = sub[q]
  BY <1>1, <1>2, <1>3, OneCallMoves DEF TypeOK
<1>5. QED
  BY <1>2, <1>3, <1>4, QuietStep

LEMMA AskInv == ASSUME TxInv, NEW r \in Renewals, Ask(r) PROVE TxInv'
<1> DEFINE seen == IF net[Hash(r)].is \in {"SUCCESS", "FAILED"} THEN net[Hash(r)].is ELSE "NOT_FOUND"
           c == [sub[r] EXCEPT !.at = "asked", !.left = @ - 1, !.seen = seen]
<1>1. TypeOK /\ sub[r] \in Call /\ sub[r].at = "polling" /\ sub[r].left > 0
  BY DEF TxInv, TypeOK, Ask
<1>2. seen \in {"SUCCESS", "FAILED", "NOT_FOUND"} /\ (seen # "NOT_FOUND" => net[Hash(r)].is = seen)
  OBVIOUS
<1>3. sub' = [sub EXCEPT ![r] = c] /\ UNCHANGED <<order, store, sequence, net, others>>
  BY DEF Ask
<1> HIDE DEF seen
<1>4. /\ c \in Call /\ c.at = "asked" /\ c.seen = seen
      /\ c.told = sub[r].told /\ c.attempt = sub[r].attempt
  BY <1>1, <1>2, MovedToAsked
<1> HIDE DEF c
<1>5. TypeOK' /\ sub'[r] = c /\ \A q \in Renewals \ {r} : sub'[q] = sub[q]
  BY <1>1, <1>3, <1>4, OneCallMoves DEF TypeOK
<1>6. QED
  BY <1>1, <1>2, <1>3, <1>4, <1>5, QuietStep

LEMMA SubmitBadSeqInv == ASSUME TxInv, NEW r \in Renewals, SubmitBadSeq(r) PROVE TxInv'
<1>1. TypeOK /\ sub[r] \in Call /\ sub[r].at = "built" /\ UNCHANGED <<order, store, sequence, net, others>>
  BY DEF TxInv, TypeOK, SubmitBadSeq
<1>2. ASSUME NEW c \in Call, sub' = [sub EXCEPT ![r] = c], c.at \in {"start", "threw"}, c.told = sub[r].told
      PROVE  TxInv'
  <2>1. TypeOK' /\ sub'[r] = c /\ \A q \in Renewals \ {r} : sub'[q] = sub[q]
    BY <1>1, <1>2, OneCallMoves DEF TypeOK
  <2>2. QED
    BY <1>1, <1>2, <2>1, QuietStep
<1>3. CASE sub[r].attempt < MaxRetries
  <2> DEFINE c == [sub[r] EXCEPT !.at = "start", !.attempt = @ + 1]
  <2>1. sub' = [sub EXCEPT ![r] = c]
    BY <1>3 DEF SubmitBadSeq
  <2>2. c \in Call /\ c.at = "start" /\ c.told = sub[r].told
    BY <1>1, <1>3, Moved
  <2> HIDE DEF c
  <2>3. QED
    BY <1>2, <2>1, <2>2
<1>4. CASE ~ (sub[r].attempt < MaxRetries)
  <2> DEFINE c == [sub[r] EXCEPT !.at = "threw"]
  <2>1. sub' = [sub EXCEPT ![r] = c]
    BY <1>4 DEF SubmitBadSeq, Throw
  <2>2. c \in Call /\ c.at = "threw" /\ c.told = sub[r].told
    BY <1>1, Moved
  <2> HIDE DEF c
  <2>3. QED
    BY <1>2, <2>1, <2>2
<1>5. QED
  BY <1>3, <1>4

(* The node may have queued the transaction of a submission that failed.   *)
LEMMA SubmitFailsInv == ASSUME TxInv, NEW r \in Renewals, SubmitFails(r) PROVE TxInv'
<1> DEFINE c == [sub[r] EXCEPT !.at = "threw"]
<1>1. TypeOK /\ sub[r] \in Call /\ sub[r].at = "built" /\ UNCHANGED <<order, store, sequence, others>>
  BY DEF TxInv, TypeOK, SubmitFails
<1>2. c \in Call /\ c.at = "threw" /\ c.told = sub[r].told /\ c.attempt = sub[r].attempt
  BY <1>1, Moved
<1>3. sub' = [sub EXCEPT ![r] = c]
  BY DEF SubmitFails, Throw
<1> HIDE DEF c
<1>4. sub' \in [Renewals -> Call] /\ sub'[r] = c /\ \A q \in Renewals \ {r} : sub'[q] = sub[q]
  BY <1>1, <1>2, <1>3, OneCallMoves
<1>5. CASE UNCHANGED net
  <2>1. TypeOK'
    BY <1>1, <1>4, <1>5 DEF TypeOK
  <2>2. QED
    BY <1>1, <1>2, <1>4, <1>5, <2>1, QuietStep
<1>6. CASE net' = [net EXCEPT ![Hash(r)] = [seq |-> sub[r].seq, is |-> "queued"]]
  <2>1. /\ Hash(r) \in Hashes /\ net'[Hash(r)].is = "queued"
        /\ \A h \in Hashes \ {Hash(r)} : net'[h] = net[h]
        /\ net[Hash(r)].is = None /\ store[Hash(r)] = None
    <3>1. Hash(r) \in Hashes /\ Hash(r)[1] = r
      BY <1>1, HashInHashes DEF Hash
    <3>2. QED
      BY <1>1, <1>6, <3>1, NothingBeforeSubmit DEF TypeOK
  <2>2. TypeOK'
    <3>1. net' \in [Hashes -> [seq : Nat, is : {None, "queued", "SUCCESS", "FAILED", "expired"}]]
      <4>1. sub[r].seq \in Nat
        BY <1>1 DEF Call
      <4>2. QED
        BY <1>1, <1>6, <2>1, <4>1 DEF TypeOK
    <3>2. QED
      BY <1>1, <1>4, <3>1 DEF TypeOK
  <2>3. \A q \in Renewals : Hash(q)' = Hash(q) /\ Hash(q) \in Hashes
    BY <1>1, <1>2, <1>4, HashInHashes DEF Hash
  <2>4. LastAttemptOnly'
    <3> SUFFICES ASSUME NEW h \in Hashes, net'[h].is # None \/ store[h] # None
                 PROVE  h[2] = sub'[h[1]].attempt /\ sub'[h[1]].at \notin {"start", "built"}
      BY <1>1 DEF LastAttemptOnly
    <3>1. CASE h = Hash(r)
      BY <1>2, <1>4, <3>1 DEF Hash
    <3>2. CASE h # Hash(r)
      <4>1. h[2] = sub[h[1]].attempt /\ sub[h[1]].at \notin {"start", "built"} /\ h[1] \in Renewals
        BY <2>1, <3>2 DEF TxInv, LastAttemptOnly
      <4>2. QED
        BY <1>1, <1>4, <4>1
    <3>3. QED
      BY <3>1, <3>2
  <2>5. SeenIsTrue'
    <3> SUFFICES ASSUME NEW q \in Renewals, sub'[q].at = "asked", sub'[q].seen \in {"SUCCESS", "FAILED"}
                 PROVE  net'[Hash(q)'].is = sub'[q].seen
      BY DEF SeenIsTrue
    <3>1. q # r /\ Hash(q) # Hash(r)
      BY <1>2, <1>4 DEF Hash
    <3>2. QED
      BY <1>4, <2>1, <2>3, <3>1 DEF TxInv, SeenIsTrue
  <2>6. RecordsTrue'
    BY <1>1, <2>1 DEF TxInv, ClientTruthful, RecordsTrue
  <2>7. ToldHashApplied'
    <3> SUFFICES ASSUME NEW q \in Renewals, NEW h \in sub'[q].told PROVE net'[h].is = "SUCCESS"
      BY DEF ToldHashApplied
    <3>1. h \in sub[q].told
      BY <1>2, <1>4
    <3>2. h \in Hashes
      BY <1>1, <3>1 DEF TypeOK, Call
    <3>3. QED
      BY <2>1, <3>1, <3>2 DEF TxInv, ClientTruthful, ToldHashApplied
  <2>8. PendingIsPolled'
    <3> SUFFICES ASSUME NEW q \in Renewals, store[Hash(q)] = "PENDING"
                 PROVE  sub'[q].at \in {"polling", "asked"} \/ (sub'[q].at = "threw" /\ sub'[q].seen = "lost")
      BY <1>1, <2>3 DEF PendingIsPolled
    <3>1. q # r
      BY <2>1
    <3>2. QED
      BY <1>4, <3>1 DEF TxInv, ClientTruthful, PendingIsPolled
  <2>9. QED
    BY <2>2, <2>4, <2>5, <2>6, <2>7, <2>8 DEF TxInv, ClientTruthful
<1>7. QED
  BY <1>5, <1>6 DEF SubmitFails

LEMMA SubmitPutOffInv == ASSUME TxInv, NEW r \in Renewals, SubmitPutOff(r) PROVE TxInv'
<1> DEFINE c == [sub[r] EXCEPT !.at = "polling", !.left = MaxPolls]
<1>1. TypeOK /\ sub[r] \in Call /\ Hash(r) \in Hashes
  BY HashInHashes DEF TxInv, TypeOK
<1>2. /\ c \in Call /\ c.at = "polling" /\ c.told = sub[r].told /\ c.attempt = sub[r].attempt
  BY <1>1, Moved
<1>3. /\ sub' = [sub EXCEPT ![r] = c] /\ Record(Hash(r), "PENDING") /\ UNCHANGED <<sequence, net, others>>
      /\ sub[r].at = "built"
  BY DEF SubmitPutOff
<1> HIDE DEF c
<1>4. TypeOK'
  BY <1>1, <1>2, <1>3, OneCallMoves, RecordKeepsType DEF TypeOK
<1>5. net[Hash(r)].is = sub[r].seen \/ "PENDING" # "FAILED"
  BY <1>3 DEF TxInv, SeenIsTrue
<1>6. QED
  BY <1>1, <1>2, <1>3, <1>4, <1>5, RecordingStep

LEMMA AnswerPendingInv == ASSUME TxInv, NEW r \in Renewals, AnswerPending(r) PROVE TxInv'
<1> DEFINE c == [sub[r] EXCEPT !.at = "polling"]
<1>1. TypeOK /\ sub[r] \in Call /\ Hash(r) \in Hashes
  BY HashInHashes DEF TxInv, TypeOK
<1>2. /\ c \in Call /\ c.at = "polling" /\ c.told = sub[r].told /\ c.attempt = sub[r].attempt
  BY <1>1, Moved
<1>3. /\ sub' = [sub EXCEPT ![r] = c] /\ Record(Hash(r), "PENDING") /\ UNCHANGED <<sequence, net, others>>
      /\ sub[r].at = "asked"
  BY DEF AnswerPending
<1> HIDE DEF c
<1>4. TypeOK'
  BY <1>1, <1>2, <1>3, OneCallMoves, RecordKeepsType DEF TypeOK
<1>5. net[Hash(r)].is = sub[r].seen \/ "PENDING" # "FAILED"
  BY <1>3 DEF TxInv, SeenIsTrue
<1>6. QED
  BY <1>1, <1>2, <1>3, <1>4, <1>5, RecordingStep

LEMMA AnswerFailedInv == ASSUME TxInv, NEW r \in Renewals, AnswerFailed(r) PROVE TxInv'
<1> DEFINE c == [sub[r] EXCEPT !.at = "threw"]
<1>1. TypeOK /\ sub[r] \in Call /\ Hash(r) \in Hashes
  BY HashInHashes DEF TxInv, TypeOK
<1>2. /\ c \in Call /\ c.at = "threw" /\ c.told = sub[r].told /\ c.attempt = sub[r].attempt
  BY <1>1, Moved
<1>3. /\ sub' = [sub EXCEPT ![r] = c] /\ Record(Hash(r), "FAILED") /\ UNCHANGED <<sequence, net, others>>
      /\ sub[r].at = "asked" /\ sub[r].seen = "FAILED"
  BY DEF AnswerFailed, Throw
<1> HIDE DEF c
<1>4. TypeOK'
  BY <1>1, <1>2, <1>3, OneCallMoves, RecordKeepsType DEF TypeOK
<1>5. net[Hash(r)].is = sub[r].seen \/ "FAILED" # "FAILED"
  BY <1>3 DEF TxInv, SeenIsTrue
<1>6. QED
  BY <1>1, <1>2, <1>3, <1>4, <1>5, RecordingStep

LEMMA PollTimeoutInv == ASSUME TxInv, NEW r \in Renewals, PollTimeout(r) PROVE TxInv'
<1> DEFINE c == [sub[r] EXCEPT !.at = "threw"]
<1>1. TypeOK /\ sub[r] \in Call /\ Hash(r) \in Hashes
  BY HashInHashes DEF TxInv, TypeOK
<1>2. /\ c \in Call /\ c.at = "threw" /\ c.told = sub[r].told /\ c.attempt = sub[r].attempt
  BY <1>1, Moved
<1>3. /\ sub' = [sub EXCEPT ![r] = c] /\ Record(Hash(r), "NOT_FOUND") /\ UNCHANGED <<sequence, net, others>>
      /\ sub[r].at = "polling"
  BY DEF PollTimeout, Throw
<1> HIDE DEF c
<1>4. TypeOK'
  BY <1>1, <1>2, <1>3, OneCallMoves, RecordKeepsType DEF TypeOK
<1>5. net[Hash(r)].is = sub[r].seen \/ "NOT_FOUND" # "FAILED"
  BY <1>3 DEF TxInv, SeenIsTrue
<1>6. QED
  BY <1>1, <1>2, <1>3, <1>4, <1>5, RecordingStep

LEMMA SubmitQueuedInv == ASSUME TxInv, NEW r \in Renewals, SubmitQueued(r) PROVE TxInv'
<1> DEFINE c == [sub[r] EXCEPT !.at = "polling", !.left = MaxPolls]
<1>1. TypeOK /\ sub[r] \in Call /\ Hash(r) \in Hashes /\ Hash(r)[1] = r
  BY HashInHashes DEF TxInv, TypeOK, Hash
<1>2. /\ c \in Call /\ c.at = "polling" /\ c.told = sub[r].told /\ c.attempt = sub[r].attempt
  BY <1>1, Moved
<1>3. /\ sub' = [sub EXCEPT ![r] = c] /\ Record(Hash(r), "PENDING") /\ UNCHANGED <<sequence, others>>
      /\ net' = [net EXCEPT ![Hash(r)] = [seq |-> sub[r].seq, is |-> "queued"]]
      /\ sub[r].at = "built"
  BY DEF SubmitQueued
<1> HIDE DEF c
<1>4. net' \in [Hashes -> [seq : Nat, is : {None, "queued", "SUCCESS", "FAILED", "expired"}]]
  <2>1. sub[r].seq \in Nat
    BY <1>1 DEF Call
  <2>2. QED
    BY <1>1, <1>3, <2>1 DEF TypeOK
<1>5. TypeOK'
  BY <1>1, <1>2, <1>3, <1>4, OneCallMoves, RecordKeepsType DEF TypeOK
<1>6. net[Hash(r)].is = None /\ \A h \in Hashes \ {Hash(r)} : net'[h] = net[h]
  BY <1>1, <1>3, NothingBeforeSubmit DEF TypeOK
<1>7. QED
  BY <1>1, <1>2, <1>3, <1>5, <1>6, RecordingStep

LEMMA AnswerSuccessInv == ASSUME TxInv, NEW r \in Renewals, AnswerSuccess(r) PROVE TxInv'
<1>1. TypeOK /\ sub[r] \in Call /\ Hash(r) \in Hashes
  BY HashInHashes DEF TxInv, TypeOK
<1>2. /\ Record(Hash(r), "SUCCESS") /\ UNCHANGED <<sequence, net, others>>
      /\ sub[r].at = "asked" /\ sub[r].seen = "SUCCESS"
  BY DEF AnswerSuccess
<1>3. order' \in Seq(Hashes) /\ store' \in [Hashes -> Statuses \union {None}]
  BY <1>1, <1>2, RecordKeepsType
<1>4. PICK i \in DOMAIN order' :
        FirstSuccess(i) /\ sub' = [sub EXCEPT ![r].at = "returned", ![r].told = {order'[i]}]
  BY DEF AnswerSuccess
<1>5. order'[i] \in Hashes /\ store'[order'[i]] = "SUCCESS"
  <2>1. i \in 1..i /\ order'[i] \in Hashes
    BY <1>3
  <2>2. QED
    BY <1>4, <2>1 DEF FirstSuccess
<1> DEFINE c == [sub[r] EXCEPT !.at = "returned", !.told = {order'[i]}]
<1>6. c \in Call /\ c.at = "returned" /\ c.told = {order'[i]} /\ c.attempt = sub[r].attempt
  BY <1>1, <1>5, MovedToReturned
<1>7. sub' = [sub EXCEPT ![r] = c]
  BY <1>4
<1> HIDE DEF c
<1>8. TypeOK'
  BY <1>1, <1>2, <1>3, <1>6, <1>7, OneCallMoves DEF TypeOK
<1>9. net[Hash(r)].is = "SUCCESS"
  BY <1>2 DEF TxInv, SeenIsTrue
<1>10. QED
  BY <1>1, <1>2, <1>5, <1>6, <1>7, <1>8, <1>9, RecordingStep

-----------------------------------------------------------------------------
(* The theorems. *)

LEMMA NextTxInv == TxInv /\ [Next]_txVars => TxInv'
<1> SUFFICES ASSUME TxInv, [Next]_txVars PROVE TxInv'
  OBVIOUS
<1>1. CASE UNCHANGED txVars
  BY <1>1 DEF txVars, TxInv, TypeOK, LastAttemptOnly, SeenIsTrue, ClientTruthful, RecordsTrue, ToldHashApplied,
              PendingIsPolled, Hash
<1>2. CASE Ledger
  <2>1. PICK h \in Hashes : Expire(h) \/ \E result \in {"SUCCESS", "FAILED"} : Apply(h, result)
    BY <1>2 DEF Ledger
  <2>2. QED
    BY <2>1, ExpireTxInv, ApplyTxInv
<1>3. CASE OtherTx
  BY <1>3, OtherTxInv
<1>4. CASE \E r \in Renewals : RenewPass(r)
  <2>1. PICK r \in Renewals : RenewPass(r)
    BY <1>4
  <2>2. QED
    BY <2>1, BuildInv, SubmitQueuedInv, SubmitPutOffInv, SubmitBadSeqInv, SubmitFailsInv, AskInv,
       AnswerSuccessInv, AnswerFailedInv, AnswerPendingInv, AnswerLostInv, PollTimeoutInv DEF RenewPass
<1>5. QED
  BY <1>1, <1>2, <1>3, <1>4 DEF Next

LEMMA SpecTxInv == Spec => []TxInv
BY InitTxInv, NextTxInv, PTL DEF Spec

(* A renewal has at most one transaction that was applied with success,    *)
(* however many calls compete for the account's sequence numbers, however  *)
(* often each submits and whatever the node answers: only the last attempt *)
(* of a call was ever submitted (SorobanTransactionBuilder.execute).       *)
THEOREM ChargedOnceSound == Spec => []ChargedOnce
<1>1. TxInv => ChargedOnce
  <2> SUFFICES ASSUME TxInv, NEW r \in Renewals, NEW h \in Succeeded(r), NEW g \in Succeeded(r) PROVE h = g
    BY DEF ChargedOnce
  <2>1. /\ h \in Hashes /\ g \in Hashes /\ h[1] = r /\ g[1] = r
        /\ net[h].is # None /\ net[g].is # None
    BY DEF Succeeded
  <2>2. h[2] = sub[r].attempt /\ g[2] = sub[r].attempt
    BY <2>1 DEF TxInv, LastAttemptOnly
  <2>3. QED
    BY <2>1, <2>2
<1>2. QED
  BY <1>1, SpecTxInv, PTL

(* A record that is final says what the ledger says, the hash a renewal is *)
(* told was applied with success, and no path out of poll leaves a record  *)
(* PENDING except the one on which the query itself fails (poll, txStore). *)
THEOREM TruthfulSound == Spec => []ClientTruthful
<1>1. TxInv => ClientTruthful
  BY DEF TxInv
<1>2. QED
  BY <1>1, SpecTxInv, PTL

-----------------------------------------------------------------------------
(* The refinement. *)

(* What a step of call r may do, as far as PassCharge can tell.            *)
CallStep(r) ==
  /\ \A q \in Renewals \ {r} : sub'[q] = sub[q]
  /\ sub[r].at \in Running /\ sub'[r].at \in Running \union {"returned", "threw"}
  /\ \A h \in Hashes : net'[h].is = "SUCCESS" <=> net[h].is = "SUCCESS"
  /\ sub'[r].at = "returned" => net[Hash(r)].is = "SUCCESS"

LEMMA RenewPassCallStep == ASSUME TxInv, NEW r \in Renewals, RenewPass(r) PROVE CallStep(r)
<1>1. TypeOK /\ sub[r] \in Call /\ Hash(r) \in Hashes /\ Hash(r)[1] = r
  BY HashInHashes DEF TxInv, TypeOK, Hash
<1>2. ASSUME NEW c \in Call, sub' = [sub EXCEPT ![r] = c], UNCHANGED net, sub[r].at \in Running,
             c.at = "returned" => net[Hash(r)].is = "SUCCESS"
      PROVE  CallStep(r)
  <2>1. sub'[r] = c /\ \A q \in Renewals \ {r} : sub'[q] = sub[q]
    BY <1>1, <1>2, OneCallMoves
  <2>2. c.at \in Running \union {"returned", "threw"}
    BY DEF Call
  <2>3. QED
    BY <1>2, <2>1, <2>2 DEF CallStep
<1>3. CASE AnswerLost(r)
  <2> DEFINE c == [sub[r] EXCEPT !.at = "threw", !.seen = "lost"]
  <2>1. c \in Call /\ c.at # "returned"
    BY <1>1, <1>3, Moved DEF AnswerLost
  <2>2. sub' = [sub EXCEPT ![r] = c] /\ UNCHANGED net /\ sub[r].at \in Running
    BY <1>3 DEF AnswerLost
  <2> HIDE DEF c
  <2>3. QED
    BY <1>2, <2>1, <2>2
<1>4. CASE SubmitPutOff(r)
  <2> DEFINE c == [sub[r] EXCEPT !.at = "polling", !.left = MaxPolls]
  <2>1. c \in Call /\ c.at # "returned"
    BY <1>1, <1>4, Moved DEF SubmitPutOff
  <2>2. sub' = [sub EXCEPT ![r] = c] /\ UNCHANGED net /\ sub[r].at \in Running
    BY <1>4 DEF SubmitPutOff
  <2> HIDE DEF c
  <2>3. QED
    BY <1>2, <2>1, <2>2
<1>5. CASE AnswerPending(r)
  <2> DEFINE c == [sub[r] EXCEPT !.at = "polling"]
  <2>1. c \in Call /\ c.at # "returned"
    BY <1>1, <1>5, Moved DEF AnswerPending
  <2>2. sub' = [sub EXCEPT ![r] = c] /\ UNCHANGED net /\ sub[r].at \in Running
    BY <1>5 DEF AnswerPending
  <2> HIDE DEF c
  <2>3. QED
    BY <1>2, <2>1, <2>2
<1>6. CASE AnswerFailed(r)
  <2> DEFINE c == [sub[r] EXCEPT !.at = "threw"]
  <2>1. c \in Call /\ c.at # "returned"
    BY <1>1, <1>6, Moved DEF AnswerFailed
  <2>2. sub' = [sub EXCEPT ![r] = c] /\ UNCHANGED net /\ sub[r].at \in Running
    BY <1>6 DEF AnswerFailed, Throw
  <2> HIDE DEF c
  <2>3. QED
    BY <1>2, <2>1, <2>2
<1>7. CASE PollTimeout(r)
  <2> DEFINE c == [sub[r] EXCEPT !.at = "threw"]
  <2>1. c \in Call /\ c.at # "returned"
    BY <1>1, <1>7, Moved DEF PollTimeout
  <2>2. sub' = [sub EXCEPT ![r] = c] /\ UNCHANGED net /\ sub[r].at \in Running
    BY <1>7 DEF PollTimeout, Throw
  <2> HIDE DEF c
  <2>3. QED
    BY <1>2, <2>1, <2>2
<1>8. CASE Build(r)
  <2> DEFINE c == [sub[r] EXCEPT !.at = "built", !.seq = sequence + 1]
  <2>1. sequence + 1 \in Nat
    BY <1>1 DEF TypeOK
  <2>2. c \in Call /\ c.at # "returned"
    BY <1>1, <2>1, MovedToBuilt
  <2>3. sub' = [sub EXCEPT ![r] = c] /\ UNCHANGED net /\ sub[r].at \in Running
    BY <1>8 DEF Build
  <2> HIDE DEF c
  <2>4. QED
    BY <1>2, <2>2, <2>3
<1>9. CASE Ask(r)
  <2> DEFINE seen == IF net[Hash(r)].is \in {"SUCCESS", "FAILED"} THEN net[Hash(r)].is ELSE "NOT_FOUND"
             c == [sub[r] EXCEPT !.at = "asked", !.left = @ - 1, !.seen = seen]
  <2>1. seen \in {"SUCCESS", "FAILED", "NOT_FOUND"} /\ sub[r].left > 0
    BY <1>9 DEF Ask
  <2>2. sub' = [sub EXCEPT ![r] = c] /\ UNCHANGED net /\ sub[r].at \in Running
    BY <1>9 DEF Ask
  <2> HIDE DEF seen
  <2>3. c \in Call /\ c.at # "returned"
    BY <1>1, <2>1, MovedToAsked
  <2> HIDE DEF c
  <2>4. QED
    BY <1>2, <2>2, <2>3
<1>10. CASE SubmitBadSeq(r)
  <2>1. sub[r].at \in Running /\ UNCHANGED net
    BY <1>10 DEF SubmitBadSeq
  <2>2. CASE sub[r].attempt < MaxRetries
    <3> DEFINE c == [sub[r] EXCEPT !.at = "start", !.attempt = @ + 1]
    <3>1. sub' = [sub EXCEPT ![r] = c]
      BY <1>10, <2>2 DEF SubmitBadSeq
    <3>2. c \in Call /\ c.at = "start"
      BY <1>1, <2>2, Moved
    <3> HIDE DEF c
    <3>3. QED
      BY <1>2, <2>1, <3>1, <3>2
  <2>3. CASE ~ (sub[r].attempt < MaxRetries)
    <3> DEFINE c == [sub[r] EXCEPT !.at = "threw"]
    <3>1. sub' = [sub EXCEPT ![r] = c]
      BY <1>10, <2>3 DEF SubmitBadSeq, Throw
    <3>2. c \in Call /\ c.at = "threw"
      BY <1>1, Moved
    <3> HIDE DEF c
    <3>3. QED
      BY <1>2, <2>1, <3>1, <3>2
  <2>4. QED
    BY <2>2, <2>3
<1>11. CASE SubmitQueued(r) \/ SubmitFails(r)
  <2>1. sub[r].at = "built" /\ net[Hash(r)].is = None
    BY <1>1, <1>11, NothingBeforeSubmit DEF SubmitQueued, SubmitFails
  <2>2. PICK c \in Call : sub' = [sub EXCEPT ![r] = c] /\ c.at \in {"polling", "threw"}
    <3>1. CASE SubmitQueued(r)
      <4>1. sub' = [sub EXCEPT ![r] = [sub[r] EXCEPT !.at = "polling", !.left = MaxPolls]]
        BY <3>1 DEF SubmitQueued
      <4>2. QED
        BY <1>1, <4>1, Moved
    <3>2. CASE SubmitFails(r)
      <4>1. sub' = [sub EXCEPT ![r] = [sub[r] EXCEPT !.at = "threw"]]
        BY <3>2 DEF SubmitFails, Throw
      <4>2. QED
        BY <1>1, <4>1, Moved
    <3>3. QED
      BY <1>11, <3>1, <3>2
  <2>3. sub'[r] = c /\ \A q \in Renewals \ {r} : sub'[q] = sub[q]
    BY <1>1, <2>2, OneCallMoves
  <2>4. \A h \in Hashes : net'[h].is = "SUCCESS" <=> net[h].is = "SUCCESS"
    <3>1. CASE UNCHANGED net
      BY <3>1
    <3>2. CASE net' = [net EXCEPT ![Hash(r)] = [seq |-> sub[r].seq, is |-> "queued"]]
      <4>1. net'[Hash(r)].is = "queued" /\ \A h \in Hashes \ {Hash(r)} : net'[h] = net[h]
        BY <1>1, <3>2 DEF TypeOK
      <4>2. QED
        BY <2>1, <4>1
    <3>3. QED
      BY <1>11, <3>1, <3>2 DEF SubmitQueued, SubmitFails
  <2>5. QED
    BY <2>1, <2>2, <2>3, <2>4 DEF CallStep
<1>12. CASE AnswerSuccess(r)
  <2>1. net[Hash(r)].is = "SUCCESS" /\ UNCHANGED net /\ sub[r].at \in Running
    BY <1>12 DEF AnswerSuccess, TxInv, SeenIsTrue
  <2>2. PICK h : sub' = [sub EXCEPT ![r] = [sub[r] EXCEPT !.at = "returned", !.told = {h}]]
    BY <1>12 DEF AnswerSuccess
  <2>3. sub' \in [Renewals -> Call]
    BY AnswerSuccessInv, <1>12 DEF TxInv, TypeOK
  <2>4. sub'[r] \in Call /\ sub' = [sub EXCEPT ![r] = sub'[r]]
    BY <1>1, <2>2, <2>3 DEF TypeOK
  <2>5. QED
    BY <1>2, <2>1, <2>4
<1>13. QED
  BY <1>3, <1>4, <1>5, <1>6, <1>7, <1>8, <1>9, <1>10, <1>11, <1>12 DEF RenewPass

LEMMA SameSuccesses ==
  ASSUME \A h \in Hashes : net'[h].is = "SUCCESS" <=> net[h].is = "SUCCESS"
  PROVE  Applied' = Applied
BY DEF Applied, Succeeded

LEMMA CallStepMaps == ASSUME TxInv, NEW r \in Renewals, CallStep(r)
                      PROVE  Charge!Next \/ UNCHANGED <<AnswerGiven, Applied>>
<1>1. Applied' = Applied
  BY SameSuccesses DEF CallStep
<1>2. AnswerGiven[r] = "open" /\ AnswerGiven \in [Renewals -> {"open", "success", "failure"}]
  BY DEF CallStep, AnswerGiven
<1>3. CASE sub'[r].at \in Running
  <2>1. AnswerGiven' = AnswerGiven
    BY <1>3 DEF CallStep, AnswerGiven
  <2>2. QED
    BY <1>1, <2>1
<1>4. CASE sub'[r].at = "threw"
  <2>1. AnswerGiven' = [AnswerGiven EXCEPT ![r] = "failure"]
    BY <1>4 DEF CallStep, AnswerGiven
  <2>2. Charge!Tell(r, "failure")
    BY <1>1, <1>2, <2>1 DEF Charge!Tell
  <2>3. QED
    BY <2>2 DEF Charge!Next
<1>5. CASE sub'[r].at = "returned"
  <2>1. AnswerGiven' = [AnswerGiven EXCEPT ![r] = "success"]
    BY <1>5 DEF CallStep, AnswerGiven
  <2>2. r \in Applied
    <3>1. Hash(r) \in {r} \X (1..MaxRetries) /\ net[Hash(r)].is = "SUCCESS"
      BY <1>5 DEF CallStep, TxInv, TypeOK, Call, Hash
    <3>2. QED
      BY <3>1 DEF Applied, Succeeded
  <2>3. Charge!Tell(r, "success")
    BY <1>1, <1>2, <2>1, <2>2 DEF Charge!Tell
  <2>4. QED
    BY <2>3 DEF Charge!Next
<1>6. QED
  BY <1>3, <1>4, <1>5 DEF CallStep

(* The ledger charges a renewal that it has not charged before.            *)
LEMMA LedgerMaps == ASSUME TxInv, Ledger PROVE Charge!Next \/ UNCHANGED <<AnswerGiven, Applied>>
<1>1. PICK h \in Hashes : Expire(h) \/ \E result \in {"SUCCESS", "FAILED"} : Apply(h, result)
  BY DEF Ledger
<1>2. AnswerGiven' = AnswerGiven
  BY <1>1 DEF Expire, Apply, AnswerGiven
<1>3. CASE Expire(h) \/ Apply(h, "FAILED")
  <2>1. \A g \in Hashes : net'[g].is = "SUCCESS" <=> net[g].is = "SUCCESS"
    BY <1>3 DEF Expire, Apply, TxInv, TypeOK
  <2>2. QED
    BY <1>2, <2>1, SameSuccesses
<1>4. CASE Apply(h, "SUCCESS")
  <2> DEFINE r == h[1]
  <2>1. r \in Renewals /\ h \in {r} \X (1..MaxRetries) /\ net[h].is = "queued"
    BY <1>4 DEF Apply
  <2>2. net'[h].is = "SUCCESS" /\ \A g \in Hashes \ {h} : net'[g] = net[g]
    BY <1>4 DEF Apply, TxInv, TypeOK
  <2>3. r \notin Applied
    <3> SUFFICES ASSUME NEW g \in Succeeded(r) PROVE FALSE
      BY DEF Applied
    <3>1. g \in Hashes /\ g[1] = r /\ net[g].is = "SUCCESS"
      BY <2>1 DEF Succeeded
    <3>2. g[2] = sub[r].attempt /\ h[2] = sub[r].attempt
      BY <2>1, <3>1 DEF TxInv, LastAttemptOnly
    <3>3. g = h
      BY <3>1, <3>2
    <3>4. QED
      BY <2>1, <3>1, <3>3
  <2>4. Applied' = Applied \union {r}
    <3>1. ASSUME NEW q \in Renewals \ {r} PROVE Succeeded(q)' = Succeeded(q)
      BY <2>1, <2>2 DEF Succeeded
    <3>2. h \in Succeeded(r)'
      BY <2>1, <2>2 DEF Succeeded
    <3>3. QED
      BY <2>1, <3>1, <3>2 DEF Applied
  <2>5. Charge!Charge(r)
    BY <1>2, <2>3, <2>4 DEF Charge!Charge
  <2>6. QED
    BY <2>1, <2>5 DEF Charge!Next
<1>5. QED
  BY <1>1, <1>3, <1>4

(* The client implements PassCharge: a renewal's charge is applied once at *)
(* most and before the renewal is told of success; a renewal that is told  *)
(* of failure may still be charged (renewPass, execute and poll).          *)
THEOREM ChargeImplemented == Spec => ImplementsCharge
<1>1. Init => Charge!Init
  <2> SUFFICES ASSUME Init PROVE Charge!Init
    OBVIOUS
  <2>1. AnswerGiven = [r \in Renewals |-> "open"]
    BY DEF Init, AnswerGiven
  <2>2. Applied = {}
    BY DEF Init, Applied, Succeeded
  <2>3. QED
    BY <2>1, <2>2 DEF Charge!Init
<1>2. TxInv /\ [Next]_txVars => [Charge!Next]_<<AnswerGiven, Applied>>
  <2> SUFFICES ASSUME TxInv, [Next]_txVars PROVE Charge!Next \/ UNCHANGED <<AnswerGiven, Applied>>
    OBVIOUS
  <2>1. CASE UNCHANGED txVars
    BY <2>1 DEF txVars, AnswerGiven, Applied, Succeeded
  <2>2. CASE Ledger
    BY <2>2, LedgerMaps
  <2>3. CASE OtherTx
    BY <2>3 DEF OtherTx, AnswerGiven, Applied, Succeeded
  <2>4. CASE \E r \in Renewals : RenewPass(r)
    BY <2>4, RenewPassCallStep, CallStepMaps
  <2>5. QED
    BY <2>1, <2>2, <2>3, <2>4 DEF Next
<1>3. QED
  BY <1>1, <1>2, SpecTxInv, PTL DEF Spec, ImplementsCharge, Charge!Spec
=============================================================================
