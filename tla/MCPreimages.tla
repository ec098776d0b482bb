----------------------------- MODULE MCPreimages -----------------------------
(***************************************************************************)
(* One storage key and two preimages of different lengths, each of which   *)
(* the service may also ask for with the other's length.                   *)
(***************************************************************************)
EXTENDS Preimages

MCKeys == [k \in {"k"} |-> 1]
MCBlobs == [h \in {"a", "b"} |-> IF h = "a" THEN 1 ELSE 2]
=============================================================================
