--------------------------- MODULE MCBlockRecords ---------------------------
(***************************************************************************)
(* Two cores, the second of which shares a guarantor with the first; pools *)
(* of two, two queues, epochs of two slots, a gap that skips one and at    *)
(* most one block of which a stage refuses its part.                       *)
(***************************************************************************)
EXTENDS BlockRecords

MCFirstPools == [c \in Cores |-> IF c = 0 THEN <<"a">> ELSE <<>>]
MCQueues == {<<"a", "b">>, <<"b">>}
MCSigners == [c \in Cores |-> IF c = 0 THEN {0, 1} ELSE {1}]
MCAuthor(slot) == slot % 2
MCExtrinsics ==
  {<<>>, [c \in {0} |-> "a"], [c \in {0} |-> "b"], [c \in {0, 1} |-> "b"]}
MCGaps == {-1, 1, 4}
MCAssurerSets == {{0, 1}}
=============================================================================
