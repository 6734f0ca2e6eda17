----------------------------- MODULE PassCharge -----------------------------
(***************************************************************************)
(* What a renewal may rely on when it asks the Stellar client to renew a   *)
(* pass, and not how the client does it: the pass is charged at most once  *)
(* however often the client submits, a caller that is told of success has  *)
(* been charged, and a caller that is told of failure may still be.        *)
(***************************************************************************)
CONSTANT Renewals   \* the calls of renewPass

VARIABLES
    answer,   \* "open" | "success" | "failure": what the caller was told
    charged   \* the renewals whose charge the ledger has applied

Init == answer = [r \in Renewals |-> "open"] /\ charged = {}

Charge(r) == r \notin charged /\ charged' = charged \union {r} /\ UNCHANGED answer

Tell(r, what) ==
    /\ answer[r] = "open"
    /\ what = "success" => r \in charged
    /\ answer' = [answer EXCEPT ![r] = what]
    /\ UNCHANGED charged

Next == \E r \in Renewals : Charge(r) \/ Tell(r, "success") \/ Tell(r, "failure")

Spec == Init /\ [][Next]_<<answer, charged>>
=============================================================================
