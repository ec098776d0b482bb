-------------------------------- MODULE PVM --------------------------------
(***************************************************************************)
(* The interpreter of service code (src/pvm.rs, src/pvm_exec.rs): one step *)
(* is one instruction, or the host call that the accumulate invocation     *)
(* handles for it (run_service_raw in src/accumulate_exec.rs).             *)
(*                                                                         *)
(* Registers are left out: an address, a branch condition, a dynamic jump  *)
(* and the size given to sbrk may be anything.  Gas is an i64 that wraps.  *)
(***************************************************************************)
EXTENDS Program, Memory

CONSTANTS
  Budgets,    \* gas a program may be given
  Widths,     \* bytes of an access: 1, 2, 4, 8
  Lengths,    \* bytes of a range that a host call is given: a register
  HostGas,    \* gas of a host call (10)
  Reserves    \* gas a host call may set aside for others: a register

\* An i64, and what a number, or the bits of a register, are as one.
Signed == (0 - HalfWord)..(HalfWord - 1)
Wrap(x) == ((x + HalfWord) % Word) - HalfWord

ASSUME PVMConstants ==
  /\ {HalfWord, PageSize, ZoneSize, AddrSpace} \subseteq Nat \ {0}
  /\ Budgets \subseteq Signed /\ HostGas \in Nat
  /\ Reserves \subseteq 0..(Word - 1) /\ Lengths \subseteq 0..(Word - 1)
  /\ Widths \subseteq Nat

\* The sizes that a blob gives beside its code: [olen, wlen, z, s], and those of
\* the arguments it is started with.
Layouts == {p.layout : p \in Programs}

\* Whole pages (4096 divides 2^16, 2^24 and 2^32), arguments that fit, and a
\* zone of the heap that ends below the stack: lengths are of three bytes and z
\* of two in the code, the arguments three numbers.
ASSUME LayoutConstants ==
  /\ InputSize \in Nat /\ \A size \in {ZoneSize, InputSize, AddrSpace} : size % PageSize = 0
  /\ \A l \in Layouts :
       /\ l \in [olen : Nat, wlen : Nat, z : Nat, s : Nat, args : Nat]
       /\ l.args <= InputSize
       /\ HeapBase(l.olen) + CeilTo(ZoneSize, l.wlen + l.z * PageSize)
            <= AddrSpace - 2 * ZoneSize - InputSize - CeilTo(PageSize, l.s)

Start(l) == Spi(l.olen, l.wlen, l.z, l.s, l.args)

VARIABLES
  program,
  pc,
  gas,
  gas_charged,  \* the block that pc is in has passed the gas gate
  blk_cost,     \* what that block costs
  blk_spent,    \* what of it has been charged
  memory,
  status,       \* what the last step returned
  gate,         \* history: where the gate was last met
  hosted,       \* history: a host call was made since
  heap_start    \* history: where the heap ended at first

meter == <<gas, gas_charged, blk_cost, blk_spent, gate, hosted>>
vars == <<program, pc, meter, memory, status, heap_start>>

Init ==
  /\ program \in Programs
  /\ pc = Entry(program)
  /\ gas \in Budgets
  /\ gas_charged = FALSE /\ blk_cost = 0 /\ blk_spent = 0
  /\ memory = Start(program.layout)
  /\ status = "Running"
  /\ gate = pc /\ hosted = FALSE
  /\ heap_start = memory.heap_top

-----------------------------------------------------------------------------
(* The gas gate.                                                           *)

EntryCost == GateCost(program, pc)

Cost == IF gas_charged THEN blk_cost ELSE EntryCost
Spent == IF gas_charged THEN blk_spent + 1 ELSE 1

Affordable == gas_charged \/ gas >= EntryCost

\* The instruction at pc runs: it is charged, its block has passed the gate.
Runs(ops) == status = "Running" /\ Affordable /\ Op(program, pc) \in ops

Charge(total, charged) ==
  /\ gas' = Wrap(gas - total)
  /\ gas_charged' = charged
  /\ blk_cost' = Cost /\ blk_spent' = Spent
  /\ gate' = IF gas_charged THEN gate ELSE pc
  /\ hosted' = (gas_charged /\ hosted)
  /\ UNCHANGED <<program, heap_start>>

OutOfGas ==
  /\ status = "Running" /\ ~Affordable
  /\ status' = "OutOfGas"
  /\ UNCHANGED <<program, pc, meter, memory, heap_start>>

-----------------------------------------------------------------------------
(* What an instruction may come to.                                        *)

After == NextPlace(program, pc)

\* On to the next instruction of the block.
Proceed ==
  /\ Charge(1, TRUE)
  /\ pc' = After /\ status' = "Running"

\* Bug: the next block is taken to be paid with this one.
GoToPaid(i) ==
  /\ Charge(1, gas_charged)
  /\ pc' = i /\ status' = "Running"

\* Bug: the instruction that ends a block is not charged.
GoToFree(i) ==
  /\ Charge(0, FALSE)
  /\ pc' = i /\ status' = "Running"

\* To the start of a block: the gate is next.
GoTo(i) ==
  /\ Charge(1, FALSE)
  /\ pc' = i /\ status' = "Running"

\* Bug: a trap is charged like any other instruction.
StopUncharged(exit) ==
  /\ Charge(1, TRUE)
  /\ pc' = pc /\ status' = exit

\* charge_block_remainder: a trap uses up the whole block.
Stop(exit) ==
  /\ Charge(1 + Cost - Spent, TRUE)
  /\ pc' = pc /\ status' = exit

\* Bug: the target is taken as it is.
JumpAnywhere(target) == GoTo(target) /\ memory' = memory

\* jump
Jump(target) ==
  /\ IF target \in Blocks(program) THEN GoTo(target) ELSE Stop("Panic")
  /\ memory' = memory

-----------------------------------------------------------------------------
(* The instructions, by class.                                             *)

Plain == Runs({"plain"}) /\ Proceed /\ memory' = memory

Trap == Runs({"trap", "undefined"}) /\ Stop("Panic") /\ memory' = memory

Access ==
  /\ Runs({"load", "store"})
  /\ \E address \in 0..AddrSpace - 1, len \in Widths :
       LET found == Check(memory, address, len, Op(program, pc) = "store")
       IN  IF found = "Ok" THEN Proceed ELSE Stop(found)
  /\ memory' = memory

\* The size is a register of which the low 32 bits count.
SbrkCall ==
  /\ Runs({"sbrk"})
  /\ \E size \in 0..AddrSpace - 1 : memory' = Sbrk(memory, size)
  /\ Proceed

Fallthrough == Runs({"fallthrough"}) /\ Jump(After)

StaticJump == Runs({"jump"}) /\ Jump(program.code[pc].target)

\* Taken or not, both ways have to be block starts.
Branch ==
  /\ Runs({"branch"})
  /\ LET target == program.code[pc].target
     IN  IF {target, After} \subseteq Blocks(program)
         THEN GoTo(target) \/ GoTo(After)
         ELSE Stop("Panic")
  /\ memory' = memory

\* djump: an entry of the jump table, the address that halts, or neither.
DynamicJump ==
  /\ Runs({"djump"})
  /\ \/ /\ Charge(1, TRUE)
        /\ pc' = pc /\ status' = "Halt" /\ memory' = memory
     \/ \E i \in DOMAIN program.table : Jump(program.table[i])
     \/ Stop("Panic") /\ memory' = memory

\* The pc stays at the ecalli until the call has been handled.
Ecalli ==
  /\ Runs({"ecalli"})
  /\ Charge(1, TRUE)
  /\ pc' = pc /\ status' = "HostCall" /\ memory' = memory

\* host and advance_host: the call is charged whatever gas is left, and a
\* transfer with a memo what it reserves, cast to an i64, which may be negative.
Host ==
  /\ status = "HostCall"
  /\ \E r \in Reserves \cup {0} : gas' = Wrap(gas - HostGas - Wrap(r))
  /\ hosted' = TRUE
  /\ pc' = After /\ status' = "Running"
  /\ UNCHANGED <<program, gas_charged, blk_cost, blk_spent, gate, memory, heap_start>>

Next ==
  \/ OutOfGas
  \/ Plain \/ Trap \/ Access \/ SbrkCall
  \/ Fallthrough \/ StaticJump \/ Branch \/ DynamicJump
  \/ Ecalli \/ Host

\* One thread runs the program and nothing blocks it.
Spec == Init /\ [][Next]_vars /\ WF_vars(Next)

-----------------------------------------------------------------------------
(* What it promises.                                                       *)

Exits == {"Halt", "Panic", "PageFault", "OutOfGas"}

\* The variables have their types.
TypeOK ==
  /\ program \in Programs /\ {pc, gate} \subseteq Places(program)
  /\ gas \in Signed /\ {blk_cost, blk_spent} \subseteq Nat
  /\ {gas_charged, hosted} \subseteq BOOLEAN
  /\ status \in Exits \cup {"Running", "HostCall"}

\* The gate is met at block starts only, however control comes there: by
\* falling off a block, by a jump, or through the table of dynamic ones, so
\* that what it charges is the block about to run.  The first gate is the
\* exception: the program begins wherever it was told to
\* (pvm.rs 425-438, 530-564, accumulate_exec.rs 385).
GateAtStarts ==
  ~gas_charged => \/ pc \in Blocks(program)
                  \/ blk_spent = 0 /\ pc = Entry(program)

\* In a block that starts where the gate was met and was counted to its end the
\* instructions alone never take gas below zero: host calls do, which are
\* charged without a look at what is left
\* (pvm.rs 351-363, 432, 440, 444, accumulate_exec.rs 463, 612).
OverdraftIsHosts ==
  gas < 0 => blk_spent = 0 \/ hosted \/ ~Counted(program, gate)

\* What a machine that pays at the gate would have left: the part of the block's
\* cost not charged yet is taken off, and a trap has made up for it.
MeterGas ==
  IF gas_charged /\ status \in {"Running", "HostCall"}
  THEN Wrap(gas - (blk_cost - blk_spent)) ELSE gas

MeterBlock == IF gas_charged THEN gate ELSE pc

Meter == INSTANCE BlockMeter WITH
  block <- MeterBlock, inside <- gas_charged, gas <- MeterGas

\* Charging instruction by instruction comes to the same as paying at the gate
\* for the block, whatever it stops at: in full if it was counted to its end,
\* and by a trap in any block, also one that ran on for longer or was entered
\* in its middle (pvm.rs 379-382, 425-467, accumulate_exec.rs 400-402).
ChargesByBlock == Meter!Spec

\* What sbrk handed out is there: between the first break and the present one
\* every byte can be written, and the break stays in the zone of the heap,
\* whatever sizes were asked for and however they meet the pages
\* (pvm.rs 67-91, accumulate_exec.rs 123-129).
HeapIsWritable ==
  /\ memory.heap_top <= memory.heap_max
  /\ \A x \in heap_start..(memory.heap_top - 1) : Writable(memory, x)

\* Host calls judge a range page by page, and refuse one of more pages than
\* there are without a look at them; instructions judge byte by byte.  They
\* agree on every range whose end is a u64, past the end of the address space
\* too (pvm.rs 127-145, 161-180, accumulate_exec.rs 490, 508-509).
AccessorsAgree ==
  \A address \in 0..(AddrSpace - 1), len \in Lengths, write \in BOOLEAN :
    address + len <= Word =>
      (RangeOk(memory, address, len, write)
         <=> Check(memory, address, len, write) = "Ok")

\* Every program comes to an exit, loops included, unless its gas is raised for
\* ever, which takes a host call that reserves a negative amount or gas that
\* wraps (pvm.rs 403-410, 432, accumulate_exec.rs 612).
ExitsUnlessRefilled == <>[][gas' <= gas]_vars => <>(status \in Exits)

\* Every program comes to an exit: what docs/pvm.md:438 says of metering.
Exited == <>(status \in Exits)
=============================================================================
