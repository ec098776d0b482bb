---------------------------- MODULE MCWorkReports ----------------------------
(***************************************************************************)
(* WorkReports on two cores, three validators and three packages in a      *)
(* dependency chain, over chains with at most one block that some stages   *)
(* refuse, an old slot included.  The windows are as tight as the code's   *)
(* (history 2, timeout 2, rings 3: 2 + 2 = 3 + 1), the cores' reports just *)
(* fit a block's gas, and a gap of 3 slots passes the whole ready ring.    *)
(***************************************************************************)
EXTENDS WorkReports

MCPackages == 1..3
MCDeps == <<{}, {1}, {1, 2}>>
MCGas == [p \in MCPackages |-> 1]
MCGaps == {-1, 1, 3}

\* The first n of three validators assure the same cores.
By(n, bits) == [i \in 1..n |-> [index |-> i - 1, bits |-> bits, sound |-> TRUE]]

MCAssurances == {<<>>, By(3, {0}), By(3, {0, 1})}

On(c, p) == [core |-> c, pkg |-> p, sound |-> TRUE]
MCGuarantees ==
  {<<>>, <<On(0, 1)>>, <<On(0, 3)>>, <<On(0, 2), On(1, 3)>>}
=============================================================================
