------------------------ MODULE MCImplementsPipeline ------------------------
(***************************************************************************)
(* ReportPipeline driven by block import: every step is a block of         *)
(* WorkReports, and the abstract state is read off its rings.  Two         *)
(* packages, the second depending on the first, and six blocks: enough for *)
(* a dependency to be in xi for as long as it can be needed, and for a     *)
(* package to be reported and accumulated again.                           *)
(***************************************************************************)
EXTENDS ReportPipeline

CONSTANTS Validators, Gas, BlockGas, ReportGas, MaxDependencies, Gaps, SlotRange,
          AssuranceExtrinsics, GuaranteeExtrinsics, MaxRefused

VARIABLES tau, codeRho, ready, accumulated, history, arrived, batch, queuedAt, refused

Code == INSTANCE WorkReports WITH rho <- codeRho

AllVars == <<vars, Code!vars>>

ReadOff == rho = Code!PackagesOnCores /\ pending = Code!Entries

CodeInit == Code!Init /\ ReadOff
CodeNext ==
  /\ Code!Next
  /\ rho' = (Code!PackagesOnCores)'
  /\ pending' = (Code!Entries)'
CodeSpec == CodeInit /\ [][CodeNext]_AllVars

\* With valid blocks, block import implements ReportPipeline: its ring buffers
\* are the windows over past blocks that the abstract guards read
\* (block_import.rs 166-189, accumulate.rs 343-372).
ImplementsPipeline == Spec

MCPackages == 1..2
MCDeps == <<{}, {1}>>
MCGas == [p \in MCPackages |-> 1]
MCGaps == {1, 4}

\* The first n of three validators assure the same cores.
By(n, bits) == [i \in 1..n |-> [index |-> i - 1, bits |-> bits, sound |-> TRUE]]
MCAssurances == {By(3, bits) : bits \in SUBSET {0, 1}}

On(c, p) == [core |-> c, pkg |-> p, sound |-> TRUE]
MCGuarantees ==
  {<<>>} \cup {<<On(c, p)>> : c \in 0..1, p \in MCPackages}
    \cup {<<On(0, p), On(1, 3 - p)>> : p \in MCPackages}
=============================================================================
