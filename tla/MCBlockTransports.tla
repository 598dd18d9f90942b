------------------------- MODULE MCBlockTransports -------------------------
(* Small instances of BlockTransports for TLC. *)
EXTENDS BlockTransports, TLC

CONSTANTS p1

(* Every peer has all the blocks. *)
Everything == [p \in Peers |-> MaxHeight]

(* No peer has anything of the kind. *)
Nothing == [p \in Peers |-> 0]
=============================================================================
