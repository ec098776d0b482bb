------------------------------- MODULE Program -------------------------------
(***************************************************************************)
(* A decoded program blob (src/pvm.rs, Program and deblob): where control  *)
(* goes after an instruction, which places are basic-block starts, and     *)
(* what a basic block costs.                                               *)
(*                                                                         *)
(* A place is a byte of the code.  bit is its bit in the bitmask: it is    *)
(* set where the blob says that an opcode is, and bytes without it can be  *)
(* executed all the same.  Nothing is asked of a blob: it may start in the *)
(* middle of a block, and its blocks may be of any length.                 *)
(***************************************************************************)
EXTENDS Integers, Sequences, FiniteSetsExt

CONSTANTS
  Programs,  \* the programs: [code, table, entry, layout]
  MaxSkip,   \* bytes that skip looks at (24)
  CostCap    \* instructions of a block that are counted (1,000,000)

\* Classes of opcodes with the same effect on control.
Classes == {"plain", "load", "store", "sbrk", "ecalli", "trap", "fallthrough",
            "jump", "branch", "djump", "undefined"}

\* A target is a place of the code, or 0 for an index that is none.
Instructions == [op : Classes, bit : BOOLEAN, target : Nat]

PastEnd(p) == Len(p.code) + 1
Places(p) == 1..PastEnd(p)

\* Vm::new takes the pc it is given; any past the end is as good as the end.
Entry(p) == p.entry

\* zeta: past its end the code is traps.
Op(p, i) == IF i = PastEnd(p) THEN "trap" ELSE p.code[i].op

IsTerminator(op) == op \in {"trap", "fallthrough", "jump", "branch", "djump"}
IsValidOpcode(op) == op # "undefined"

\* i + 1 + skip: the next opcode bit or the end, but not beyond MaxSkip bytes.
NextPlace(p, i) ==
  Min({i + 1 + MaxSkip}
        \cup {k \in (i + 1)..PastEnd(p) : k = PastEnd(p) \/ p.code[k].bit})

\* mark: the end of the code, or a valid opcode.
Markable(p, i) ==
  i = PastEnd(p) \/ (p.code[i].bit /\ IsValidOpcode(p.code[i].op))

EndsBlock(p, i) == p.code[i].bit /\ IsTerminator(p.code[i].op)

\* basic_blocks
Blocks(p) ==
  {i \in Places(p) :
     /\ Markable(p, i)
     /\ \/ i = 1 /\ i # PastEnd(p)
        \/ \E k \in DOMAIN p.code : EndsBlock(p, k) /\ NextPlace(p, k) = i}

\* block_start_of: where there is none before i it is the first byte.
BlockStartOf(p, i) == Max({1} \cup {b \in Blocks(p) : b <= i})

\* How many instructions run from a place on, as far as the next terminator.
BlockLength(p) ==
  LET count[i \in Places(p)] ==
        IF IsTerminator(Op(p, i)) THEN 1 ELSE 1 + count[NextPlace(p, i)]
  IN  count

\* block_gas_cost: the count is given up once it passes the cap.
BlockGasCost(p, i) == Min({BlockLength(p)[i], CostCap + 1})

\* What the gate asks for at i.
GateCost(p, i) == BlockGasCost(p, BlockStartOf(p, i))

\* i starts a block whose instructions were all counted.
Counted(p, i) == i \in Blocks(p) /\ BlockLength(p)[i] <= CostCap + 1

ASSUME ProgramConstants ==
  /\ CostCap \in Nat /\ MaxSkip \in Nat
  /\ \A p \in Programs : /\ p.code \in Seq(Instructions) /\ p.table \in Seq(Nat)
                         /\ Entry(p) \in Places(p)
=============================================================================
