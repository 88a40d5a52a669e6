----------------------------- MODULE MCCatalog -----------------------------
(***************************************************************************)
(* One procedure with two definitions, one of which binds the one block;   *)
(* two requests at a time, four in all.                                    *)
(***************************************************************************)
EXTENDS Catalog

CONSTANTS bound, free, block
MCBindsOf == [d \in {bound, free} |-> IF d = bound THEN {block} ELSE {}]
=============================================================================
