---------------------------- MODULE FanDeletion ----------------------------
(***************************************************************************)
(* requestDeletion of fans.service.ts: the check of the fan row, then the  *)
(* transaction that cancels the fan's active passes and stamps the         *)
(* request.  An eraser is one DELETE /fans/:address/account in progress.   *)
(***************************************************************************)
EXTENDS PassTable

CONSTANT Erasers

VARIABLE deletion  \* deletion[e]: the request e that passed its check

deletionVars == <<deletion>>

NoDeletion == [op |-> "none"]

DeletionRequest == [op : {"delete"}, fan : Fans]

DeletionTypeOK == deletion \in [Erasers -> {NoDeletion} \cup DeletionRequest]

DeletionInit == deletion = [e \in Erasers |-> NoDeletion]

DeletionRead(e, f) ==
  /\ deletion[e] = NoDeletion
  /\ deletionAt[f] = 0
  /\ deletion' = [deletion EXCEPT ![e] = [op |-> "delete", fan |-> f]]
  /\ UNCHANGED tableVars

(* cancelAllActivePasses waits for the rows a renewal has updated.         *)
DeletionCommit(e) ==
  LET f == deletion[e].fan
      cancelled == {p \in PassIds : passes[p].fan = f /\ passes[p].active}
  IN  /\ deletion[e].op = "delete"
      /\ cancelled \cap locked = {}
      /\ passes' = [p \in PassIds |->
                      [passes[p] EXCEPT !.active = @ /\ p \notin cancelled]]
      /\ deletionAt' = [deletionAt EXCEPT ![f] = now]
      /\ deletion' = [deletion EXCEPT ![e] = NoDeletion]
      /\ UNCHANGED <<now, earnings, blocks, offered, locked>>

DeletionFails(e) ==
  /\ deletion[e] # NoDeletion
  /\ deletion' = [deletion EXCEPT ![e] = NoDeletion]
  /\ UNCHANGED tableVars

DeletionNext == \E e \in Erasers :
  \/ \E f \in Fans : DeletionRead(e, f)
  \/ DeletionCommit(e)
  \/ DeletionFails(e)
=============================================================================
