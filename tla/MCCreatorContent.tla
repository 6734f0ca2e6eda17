-------------------------- MODULE MCCreatorContent --------------------------
(* Small instances of CreatorContent. *)
EXTENDS CreatorContent
OneFan == [p \in Passes |-> "f1"]
FirstTier == [p \in Passes |-> 1]
=============================================================================
