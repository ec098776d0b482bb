------------------------------- MODULE MCPVM -------------------------------
(* Instances of PVM: every code of two bytes, longer ones that loop, that   *)
(* run on past the cap of the count or are begun in the middle of a block,  *)
(* and programs that use the memory.                                        *)
EXTENDS PVM

I(op) == [op |-> op, bit |-> TRUE, target |-> 0]
To(op, target) == [op |-> op, bit |-> TRUE, target |-> target]
Hidden(op) == [op |-> op, bit |-> FALSE, target |-> 1]

Alphabet ==
  {I("plain"), I("ecalli"), I("trap"), I("undefined"), I("fallthrough"), I("djump"),
   Hidden("ecalli"), Hidden("branch"), Hidden("undefined")}
    \cup {To("jump", t) : t \in 0..3} \cup {To("branch", t) : t \in {1, 3}}

Pairs == [1..2 -> Alphabet]

\* A loop over a host call.
Calling == <<I("ecalli"), To("jump", 1)>>

\* Loops with more instructions than are counted, host calls among them or not.
Long ==
  { <<I("plain"), I("plain"), I("plain"), To("jump", 1)>>,
    <<I("plain"), I("ecalli"), I("ecalli"), To("jump", 1)>>,
    <<To("branch", 3), I("ecalli"), I("plain"), I("plain"), To("branch", 1)>> }

\* A cheap block, and code behind it that no block start is seen before.
Unmarked ==
  { <<I("trap"), I("undefined"), I("plain"), I("plain"), I("djump")>>,
    <<I("fallthrough"), Hidden("plain"), Hidden("plain"), Hidden("plain"), I("ecalli")>> }

Touching ==
  { <<I("sbrk"), I("store"), I("load"), I("djump")>>,
    <<I("sbrk"), To("jump", 1)>> }

\* No data and one page each of stack and arguments; read-only data, or 1, 2 or
\* 3 bytes of read-write data in a zone of 4, or a page more for the heap; or
\* nothing but two pages of arguments.
Small == [olen |-> 0, wlen |-> 0, z |-> 0, s |-> 1, args |-> 1]
Sizes ==
  { [olen |-> 0, wlen |-> 0, z |-> 0, s |-> 0, args |-> 4],
    [olen |-> 1, wlen |-> 0, z |-> 0, s |-> 1, args |-> 2],
    [olen |-> 0, wlen |-> 1, z |-> 0, s |-> 1, args |-> 2],
    [olen |-> 0, wlen |-> 2, z |-> 1, s |-> 4, args |-> 4],
    [olen |-> 1, wlen |-> 3, z |-> 0, s |-> 2, args |-> 1] }

From(codes, layouts, entries) ==
  [code : codes, table : {<<1, 2, 4>>}, entry : entries, layout : layouts]

MCPrograms ==
  From(Pairs, {Small}, 1..3) \cup From(Long, {Small}, 1..4)
    \cup From(Unmarked, {Small}, 1..5) \cup From(Touching, Sizes, {1, 2})

MCBudgets == {-1, 0, 1, 2, 3, 12}

MCCalling == From({Calling}, {Small}, {1})
=============================================================================
