---------------------------- MODULE MCGuarantors ----------------------------
(***************************************************************************)
(* Guarantors on four validators, two for each of two cores, rotations of  *)
(* two slots and epochs of four.  The two validator sets share keys at     *)
(* different places, and every entropy draws a shuffle of its own.  A      *)
(* block with an attempt too many is one that safrole refuses.             *)
(***************************************************************************)
EXTENDS Guarantors

MCValidatorSets == {<<1, 2, 3, 4>>, <<3, 1, 5, 2>>}
MCConvictions == {{}, {3}}
MCDraws(r) == [k \in 1..4 |-> (r + 4) * (k + 2) * (r + k + 3)]
MCSigners == {<<1>>, <<4, 1>>} \cup {<<1, 2>>, <<1, 3>>, <<1, 4>>, <<2, 3>>, <<2, 4>>, <<3, 4>>}
MCTickets == {<<>>, <<[id |-> 1, attempt |-> MaxAttempts, sound |-> TRUE]>>}
=============================================================================
