----------------------------- MODULE MCSafrole -----------------------------
(***************************************************************************)
(* Safrole with epochs of three slots whose last is the tail: two blocks   *)
(* can fill a contest of three tickets out of five, and the gaps skip a    *)
(* phase, a tail or a whole epoch.                                         *)
(***************************************************************************)
EXTENDS Safrole

MCValidatorSets == {<<1, 2>>, <<3, 2>>}
MCConvictions == {{}, {2}}

T(ids) == [i \in DOMAIN ids |-> [id |-> ids[i], attempt |-> 0, sound |-> TRUE]]

MCTickets ==
  {T(<<>>), T(<<1>>), T(<<3>>), T(<<2, 4>>), T(<<1, 2, 5>>),
   T(<<4, 2>>), T(<<1, 1>>),
   [T(<<3>>) EXCEPT ![1].sound = FALSE], [T(<<3>>) EXCEPT ![1].attempt = 3]}
=============================================================================
