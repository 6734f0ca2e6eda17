-------------------------- MODULE EventProjection --------------------------
(***************************************************************************)
(* What the indexer promises of the Pass table, with nothing said of how:  *)
(* the table is a projection of the contract's pass_minted events.  A row  *)
(* appears only for a pass the contract has minted, with the fan it was    *)
(* minted to, and stays.                                                   *)
(***************************************************************************)
CONSTANTS
  Minted,  \* the passes the contract ever mints
  FanOf,   \* the fan each is minted to
  NoFan    \* the owner of a row that does not exist

VARIABLES
  announced,  \* the passes whose event the chain has emitted
  owner       \* the fan of the row of each pass that has one

Init ==
  /\ announced = {}
  /\ owner = [p \in Minted |-> NoFan]

Announce ==
  /\ announced' \in SUBSET Minted
  /\ announced \subseteq announced'
  /\ UNCHANGED owner

Index(p) ==
  /\ p \in announced
  /\ owner[p] = NoFan
  /\ owner' = [owner EXCEPT ![p] = FanOf[p]]
  /\ UNCHANGED announced

Next == Announce \/ \E p \in Minted : Index(p)

Spec == Init /\ [][Next]_<<announced, owner>>
=============================================================================
