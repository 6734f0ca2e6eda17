---------------------------- MODULE TxSubmission ----------------------------
(***************************************************************************)
(* The write side of the Stellar client: renewPass, which builds, submits  *)
(* and polls a transaction (SorobanTransactionBuilder.execute and poll),   *)
(* and txStore, the map of records that all calls share.  All transactions *)
(* are sent from the one administrator's account, so that calls in         *)
(* progress at once compete for its sequence numbers.                      *)
(*                                                                         *)
(* A hash is <<renewal, attempt>>: the transactions of two calls differ in *)
(* the pass, and those of two attempts in the sequence number.             *)
(***************************************************************************)
EXTENDS Naturals, Sequences, SequencesExt

CONSTANTS
    Renewals,     \* calls of renewPass, one for a pass
    MaxRetries,   \* MAX_RETRIES
    MaxPolls,     \* queries that fit in POLL_TIMEOUT_MS
    MaxOthers     \* bound: transactions that others send from the account

ASSUME SubmissionAssumption ==
    MaxRetries \in Nat \ {0} /\ MaxPolls \in Nat \ {0} /\ MaxOthers \in Nat

Hashes == Renewals \X (1..MaxRetries)
None == "none"

VARIABLES
    sub,       \* a call of renewPass: where it is, attempt, sequence number, queries left
    order,     \* the keys of txStore in the order of their insertion
    store,     \* status of the record of each hash, or None
    sequence,  \* external: the account's sequence number on the ledger
    net,       \* external: what became of each transaction, with its number
    others     \* external: transactions of others applied so far

txVars == <<sub, order, store, sequence, net, others>>

Running == {"start", "built", "polling", "asked"}
Statuses == {"PENDING", "SUCCESS", "FAILED", "NOT_FOUND"}

Call == [at : Running \union {"returned", "threw"}, attempt : 1..MaxRetries, seq : Nat, left : 0..MaxPolls,
         seen : {"SUCCESS", "FAILED", "NOT_FOUND", "lost"}, told : SUBSET Hashes]

TypeOK ==
    /\ sub \in [Renewals -> Call]
    /\ order \in Seq(Hashes)
    /\ store \in [Hashes -> Statuses \union {None}]
    /\ sequence \in Nat
    /\ net \in [Hashes -> [seq : Nat, is : {None, "queued", "SUCCESS", "FAILED", "expired"}]]
    /\ others \in 0..MaxOthers

Init ==
    /\ sub = [r \in Renewals |-> [at |-> "start", attempt |-> 1, seq |-> 0, left |-> MaxPolls,
                                  seen |-> "NOT_FOUND", told |-> {}]]
    /\ order = <<>> /\ store = [h \in Hashes |-> None]
    /\ sequence = 0 /\ others = 0
    /\ net = [h \in Hashes |-> [seq |-> 0, is |-> None]]

Hash(r) == <<r, sub[r].attempt>>

-----------------------------------------------------------------------------
(* The ledger (external). *)

\* The next transaction in sequence is applied; its number is spent even if it fails.
Apply(h, result) ==
    /\ net[h].is = "queued" /\ net[h].seq = sequence + 1
    /\ net' = [net EXCEPT ![h].is = result]
    /\ sequence' = sequence + 1
    /\ UNCHANGED <<sub, order, store, others>>

\* A queued transaction passes its time bound (setTimeout(30)) or is overtaken.
Expire(h) ==
    /\ net[h].is = "queued"
    /\ net' = [net EXCEPT ![h].is = "expired"]
    /\ UNCHANGED <<sub, order, store, sequence, others>>

\* A registration, an upgrade or an operator's transaction spends a number.
OtherTx ==
    /\ others < MaxOthers
    /\ others' = others + 1 /\ sequence' = sequence + 1
    /\ UNCHANGED <<sub, order, store, net>>

-----------------------------------------------------------------------------
(* renewPass. *)

\* Map.set: a new key goes to the end, an old one keeps its place.
Record(h, status) ==
    /\ store' = [store EXCEPT ![h] = status]
    /\ order' = IF Contains(order, h) THEN order ELSE Append(order, h)

Throw(r) == sub' = [sub EXCEPT ![r].at = "threw"]

\* execute fetches the account and builds the transaction with the next number.
Build(r) ==
    /\ sub[r].at = "start"
    /\ sub' = [sub EXCEPT ![r].at = "built", ![r].seq = sequence + 1]
    /\ UNCHANGED <<order, store, sequence, net, others>>

\* The node queues the transaction and poll writes the first record.
SubmitQueued(r) ==
    /\ sub[r].at = "built" /\ sub[r].seq > sequence
    /\ net' = [net EXCEPT ![Hash(r)] = [seq |-> sub[r].seq, is |-> "queued"]]
    /\ Record(Hash(r), "PENDING")
    /\ sub' = [sub EXCEPT ![r].at = "polling", ![r].left = MaxPolls]
    /\ UNCHANGED <<sequence, others>>

\* The node answers TRY_AGAIN_LATER, which submit takes for a success.
SubmitPutOff(r) ==
    /\ sub[r].at = "built"
    /\ Record(Hash(r), "PENDING")
    /\ sub' = [sub EXCEPT ![r].at = "polling", ![r].left = MaxPolls]
    /\ UNCHANGED <<sequence, net, others>>

\* The number was spent by another call: fetch the account again, or give up.
SubmitBadSeq(r) ==
    /\ sub[r].at = "built" /\ sub[r].seq <= sequence
    /\ IF sub[r].attempt < MaxRetries
       THEN sub' = [sub EXCEPT ![r].at = "start", ![r].attempt = @ + 1]
       ELSE Throw(r)
    /\ UNCHANGED <<order, store, sequence, net, others>>

\* Mutant: any error is a reason to try again.
SubmitFailsAndRetries(r) ==
    /\ sub[r].at = "built" /\ sub[r].attempt < MaxRetries
    /\ sub' = [sub EXCEPT ![r].at = "start", ![r].attempt = @ + 1]
    /\ sub[r].seq > sequence
    /\ net' = [net EXCEPT ![Hash(r)] = [seq |-> sub[r].seq, is |-> "queued"]]
    /\ UNCHANGED <<order, store, sequence, others>>

\* Simulation or submission fails; the node may have queued it all the same.
SubmitFails(r) ==
    /\ sub[r].at = "built"
    /\ Throw(r)
    /\ \/ UNCHANGED net
       \/ /\ sub[r].seq > sequence
          /\ net' = [net EXCEPT ![Hash(r)] = [seq |-> sub[r].seq, is |-> "queued"]]
    /\ UNCHANGED <<order, store, sequence, others>>

\* The node looks the transaction up; the answer is still on its way.
Ask(r) ==
    /\ sub[r].at = "polling" /\ sub[r].left > 0
    /\ sub' = [sub EXCEPT ![r].at = "asked", ![r].left = @ - 1,
                          ![r].seen = IF net[Hash(r)].is \in {"SUCCESS", "FAILED"}
                                      THEN net[Hash(r)].is ELSE "NOT_FOUND"]
    /\ UNCHANGED <<order, store, sequence, net, others>>

\* renewPass answers with the first key of the map whose record says SUCCESS.
FirstSuccess(i) == \A j \in 1..i : store'[order'[j]] = "SUCCESS" <=> j = i

AnswerSuccess(r) ==
    /\ sub[r].at = "asked" /\ sub[r].seen = "SUCCESS"
    /\ Record(Hash(r), "SUCCESS")
    /\ \E i \in DOMAIN order' :
          FirstSuccess(i) /\ sub' = [sub EXCEPT ![r].at = "returned", ![r].told = {order'[i]}]
    /\ UNCHANGED <<sequence, net, others>>

\* Mutant: the result is returned, as if it had succeeded.
AnswerFailedReturned(r) ==
    /\ sub[r].at = "asked" /\ sub[r].seen = "FAILED"
    /\ Record(Hash(r), "FAILED")
    /\ sub' = [sub EXCEPT ![r].at = "returned"]
    /\ UNCHANGED <<sequence, net, others>>

AnswerFailed(r) ==
    /\ sub[r].at = "asked" /\ sub[r].seen = "FAILED"
    /\ Record(Hash(r), "FAILED")
    /\ Throw(r)
    /\ UNCHANGED <<sequence, net, others>>

AnswerPending(r) ==
    /\ sub[r].at = "asked" /\ sub[r].seen = "NOT_FOUND"
    /\ Record(Hash(r), "PENDING")
    /\ sub' = [sub EXCEPT ![r].at = "polling"]
    /\ UNCHANGED <<sequence, net, others>>

\* The query itself fails: poll ends and the record stays as it is.
AnswerLost(r) ==
    /\ sub[r].at = "asked"
    /\ sub' = [sub EXCEPT ![r].at = "threw", ![r].seen = "lost"]
    /\ UNCHANGED <<order, store, sequence, net, others>>

\* Mutant: what is not known by now is taken to have failed.
PollTimeoutAsFailure(r) ==
    /\ sub[r].at = "polling" /\ sub[r].left = 0
    /\ Record(Hash(r), "FAILED")
    /\ Throw(r)
    /\ UNCHANGED <<sequence, net, others>>

PollTimeout(r) ==
    /\ sub[r].at = "polling" /\ sub[r].left = 0
    /\ Record(Hash(r), "NOT_FOUND")
    /\ Throw(r)
    /\ UNCHANGED <<sequence, net, others>>

RenewPass(r) ==
    \/ Build(r) \/ SubmitQueued(r) \/ SubmitPutOff(r) \/ SubmitBadSeq(r) \/ SubmitFails(r)
    \/ Ask(r) \/ AnswerSuccess(r) \/ AnswerFailed(r) \/ AnswerPending(r) \/ AnswerLost(r)
    \/ PollTimeout(r)

Ledger == \E h \in Hashes : Expire(h) \/ \E result \in {"SUCCESS", "FAILED"} : Apply(h, result)

Next == Ledger \/ OtherTx \/ \E r \in Renewals : RenewPass(r)

Spec == Init /\ [][Next]_txVars

-----------------------------------------------------------------------------
Succeeded(r) == {h \in {r} \X (1..MaxRetries) : net[h].is = "SUCCESS"}

(* The client implements what a renewal relies on: PassCharge, where a     *)
(* renewal is charged when any of its transactions has been applied.       *)
AnswerGiven == [r \in Renewals |-> CASE sub[r].at = "returned" -> "success"
                                     [] sub[r].at = "threw" -> "failure"
                                     [] OTHER -> "open"]
Applied == {r \in Renewals : Succeeded(r) # {}}
Charge == INSTANCE PassCharge WITH answer <- AnswerGiven, charged <- Applied
ImplementsCharge == Charge!Spec

(* At most one transaction of a call succeeds, though it is built and      *)
(* submitted up to MaxRetries times, also after the caller has given up.   *)
ChargedOnce == \A r \in Renewals : \A h, g \in Succeeded(r) : h = g

(* A record that says SUCCESS or FAILED says what the ledger says, for as  *)
(* long as the process runs (GET /stellar/tx/:hash reads the records).     *)
RecordsTrue == \A h \in Hashes : store[h] \in {"SUCCESS", "FAILED"} => net[h].is = store[h]

(* The hash a renewal is told is that of a transaction that was applied    *)
(* with success, though it may be another renewal's.                       *)
ToldHashApplied == \A r \in Renewals : \A h \in sub[r].told : net[h].is = "SUCCESS"

(* A record is left PENDING without a poll in progress only by a query     *)
(* that failed: no other path out of poll forgets to settle its record.    *)
PendingIsPolled ==
    \A r \in Renewals : store[Hash(r)] = "PENDING" =>
        sub[r].at \in {"polling", "asked"} \/ (sub[r].at = "threw" /\ sub[r].seen = "lost")

(* What the client says is true, to its callers and in its records.        *)
ClientTruthful == RecordsTrue /\ ToldHashApplied /\ PendingIsPolled
=============================================================================
