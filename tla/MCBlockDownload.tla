-------------------------- MODULE MCBlockDownload --------------------------
(* Small instances of BlockDownload for TLC. *)
EXTENDS BlockDownload, TLC

CONSTANTS p1, p2

(* Every peer has all the blocks. *)
Everything == [p \in Peers |-> MaxHeight]

(* No peer has anything of the kind. *)
Nothing == [p \in Peers |-> 0]

(* Only p2 sends compact blocks, and only the first of them is usable. *)
CompactFromP2 == [p \in Peers |-> IF p = p2 THEN 1 ELSE 0]

(* p2 has the witness and MWEB data of the first block only. *)
FirstFromP2 == [p \in Peers |-> IF p = p2 THEN 1 ELSE MaxHeight]
=============================================================================
