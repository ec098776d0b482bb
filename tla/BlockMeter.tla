----------------------------- MODULE BlockMeter -----------------------------
(***************************************************************************)
(* What the virtual machine promises about gas: a machine that runs a      *)
(* basic block at a time.  A block is entered at its start, or where the   *)
(* program begins, and only if the gas covers what the gate asks for,      *)
(* which is paid at that moment.  If the block was counted to its end that *)
(* is all it costs, however it ends.  Otherwise a trap still costs it and  *)
(* no more, and leaving by a jump settles for the instructions that ran.   *)
(* Nothing else is charged but host calls.                                 *)
(***************************************************************************)
EXTENDS Integers

CONSTANTS
  Programs,
  Entry(_),        \* where a program begins
  Blocks(_),       \* its block starts
  PastEnd(_),      \* the place after its last
  GateCost(_, _),  \* what the gate asks for at a place of a program
  Counted(_, _),   \* a block starts there whose instructions were all counted
  HostGas,         \* gas of a host call (10)
  Reserves,        \* gas a host call may set aside for others: a register
  Signed,          \* the values of gas
  Wrap(_)          \* a number as one of them

VARIABLES
  program,
  block,     \* where the block the machine is in, or enters next, was entered
  inside,    \* it has been entered
  gas,
  status

vars == <<program, block, inside, gas, status>>

Init ==
  /\ program \in Programs
  /\ block = Entry(program)
  /\ inside = FALSE
  /\ gas \in Signed
  /\ status = "Running"

\* The gas after leaving the block by a jump or for good, if it was g.
Settled(g) ==
  IF Counted(program, block) THEN {g}
  ELSE {Wrap(g + GateCost(program, block) - ran) : ran \in 1..PastEnd(program)}

\* What a step inside the block, which is paid for, comes to.
Inside(g) ==
  \/ /\ inside' = TRUE /\ block' = block /\ gas' = g
     /\ status' \in {"Running", "HostCall", "Panic", "PageFault"}
  \/ /\ inside' = TRUE /\ block' = block /\ gas' \in Settled(g)
     /\ status' = "Halt"
  \/ /\ inside' = FALSE /\ block' \in Blocks(program) /\ gas' \in Settled(g)
     /\ status' = "Running"

Enter ==
  /\ status = "Running" /\ ~inside
  /\ gas >= GateCost(program, block)
  /\ Inside(gas - GateCost(program, block))
  /\ program' = program

Refuse ==
  /\ status = "Running" /\ ~inside
  /\ gas < GateCost(program, block)
  /\ status' = "OutOfGas"
  /\ UNCHANGED <<program, block, inside, gas>>

Continue ==
  /\ status = "Running" /\ inside
  /\ Inside(gas)
  /\ program' = program

Serve ==
  /\ status = "HostCall"
  /\ \E r \in Reserves \cup {0} : gas' = Wrap(gas - HostGas - Wrap(r))
  /\ status' = "Running"
  /\ UNCHANGED <<program, block, inside>>

Next == Enter \/ Refuse \/ Continue \/ Serve

Spec == Init /\ [][Next]_vars
=============================================================================
