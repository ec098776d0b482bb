# minimal-jam in TLA+

Specifications of the state transitions of minimal-jam (`src/`, Rust), model
checked with TLC and, for the theorems listed below, proved with TLAPS.

minimal-jam is the state-transition function of a JAM node: `import_block`
(`src/src/block_import.rs`) takes a state and a block and returns the next
state. There are no threads, no I/O and no storage in it. What is hard in it is
not scheduling but *sequence*: state that one block writes is read several
blocks, a rotation or an epoch later; windows of different lengths (recent
history, accumulated set, assurance timeout) have to fit together; slots and
whole epochs are skipped; each stage of a block reads some of its inputs from
the state before the block and some from what an earlier stage just wrote; and
a stage that meets an error leaves its part of the state as it was while the
rest of the block goes on. Test vectors of single transitions reach none of
that. In these specifications one step is one block (or one stage of it), and
the properties relate blocks.

## Inventory

| Component | Source | State | Operations | Hard behaviours |
|---|---|---|---|---|
| Block import | `block_import.rs` | all of sigma | `import_block`: statistics, pools, safrole, disputes, assurances, reports, accumulate, preimages, history, in this order | outcomes of stages are ignored; `known_packages`, offenders, pools and staged validators are read from different moments |
| Safrole | `safrole.rs` | tau, eta, lambda, kappa, gamma_k, gamma_z, gamma_a, gamma_s | within-epoch advance, ticket contest, epoch change | skipped phases and epochs; markers published an epoch before they bind; offenders nulled late |
| Disputes | `disputes.rs` | psi (good, bad, wonky, offenders), clears rho | verdicts, culprits, faults | late culprits and faults, keys of two epochs, one validator in several roles |
| Assurances | `assurances.rs` | clears rho | availability, timeout | super-majority, timeout of reports that nobody assures |
| Reports | `reports.rs` | fills rho; core and service statistics | guarantor assignment, credentials, validity of a report | assignment of the previous rotation or epoch, duplicates, dependencies in the same block |
| Accumulation queue | `accumulate.rs` | theta (ready), xi (accumulated) | partition, edit, priority, gas bound, ring shifts | skipped slots, dependency chains, candidates cut off by gas |
| Service accumulation | `accumulate_exec.rs`, `accumulate.rs:230-341` | accounts, storage, preimage requests, privileges, queues, staged validators | host calls, checkpoint, deferred transfers | rollback, ejection, transfers between services of one block, privileges that change hands within it |
| Preimages | `preimages.rs`, `block_import.rs:426-438` | requests and blobs | provision | unsolicited or repeated provision, which the import stores all the same |
| Authorizations | `authorizations.rs`, `next_auth_pools` | alpha, phi | consume, enqueue | pool at its limit, queue index of the slot |
| Recent history | `history.rs`, `crypto.rs`, `next_recent_blocks` | beta | back-fill, MMR append, push | state root of the parent, MMR carries |
| Statistics | `statistics.rs`, `next_statistics` | pi | counters per validator | epoch change, index into the validators of which epoch |
| PVM | `pvm.rs`, `pvm_exec.rs`, `run_service_raw` | pc, registers, memory, gas | instruction step, host call | gas charged per block and per instruction at once, an entry point nobody checks, blocks longer than are counted, gas that host calls overdraw or raise, pages against bytes, a heap that meets read-write data inside a page |
| State trie and codecs | `trie.rs`, `state.rs`, `state_key.rs`, `types.rs`, `bytes.rs`, `hexutil.rs` | none | serialization, merkle root | recursion over key bits |
| Crypto | `crypto.rs`, `ring.rs` | none | hashes, signatures, ring proofs | none modelled: functions of their arguments |

What makes each correct:

- **Disputes**: one verdict per report for ever; nobody is convicted twice; a
  verdict costs fresh offenders; a report found bad or wonky leaves its core.
- **Report pipeline** (reports, assurances, queue, accumulated set): a package
  is in one stage at a time; an available report is never lost; it is
  accumulated once per report and after its dependencies; a dependency is not
  forgotten before its dependents learn of it; an entry of the ready queue
  lives exactly an epoch of slots unless accumulated.
- **Safrole**: the contest keeps the best tickets of *this* epoch; what seals
  an epoch was proven by, or drawn from, the validators active in it; the
  published marker and the sealing keys agree; offenders leave the active set.
- **Guarantors**: a guarantee is judged by the assignment its guarantors had;
  nobody guarantees for two cores in a rotation; every core is staffed.
- **Services**: every unit of balance is in an account, on its way to one, or
  accounted for as burnt, cut off, overwritten or minted; a service that is gone
  does nothing; the next id is free; privileges, authorizer queues and staged
  validators change by the hand of who was entitled; a block's accumulation ends.
- **Preimages**: the footprint counts what the account holds; a preimage is held
  exactly if its request says so; a status only moves on; a forgotten preimage
  is kept for the expunge period.
- **Block records**: an authorizer serves one report each time it is issued;
  beefy roots commit to every accumulation root; activity records are those of
  the epoch they are kept for.
- **PVM**: gas is taken as if every basic block were paid for where it is
  entered, which is at its start but for the first; in a block that was counted
  to its end instructions never overdraw; a program comes to an end unless its
  gas is raised; what `sbrk` handed out can be written; host calls and
  instructions agree on what is accessible.

## Modules

| Module | Models | Uses |
|---|---|---|
| `Disputes` | the disputes transition, and rho, tau, kappa, lambda between blocks | |
| `Assurances` | the assurances transition as operators on rho | |
| `AccumulateQueue` | theta, xi, edit, priority, gas bound, shifts as operators | |
| `WorkReports` | one block's path of work reports through disputes, assurances, reports and accumulation | `Assurances`, `AccumulateQueue` |
| `ReportPipeline` | the abstract specification of that path | implemented by `WorkReports` (`ImplementsPipeline`) |
| `Safrole` | the safrole transition and what block import feeds it | |
| `Guarantors` | assignment and credentials of guarantees on top of the safrole state | `Safrole` |
| `Services` | the accumulation of one block's services: invocations with checkpoints, host calls on accounts and on privileges, rounds of deferred transfers | |
| `Preimages` | storage, preimage requests and blobs of one account over blocks | |
| `Totals` | the total of a function, counted unit by unit: a cardinality, of which finite-set theorems speak | used by `Services` and `Preimages` |
| `BlockRecords` | pools, queues, recent blocks with the mountain range, activity records | |
| `Program` | any code with any bitmask: what runs after what, basic blocks, their starts, what the gate asks for | |
| `Memory` | the page map, `sbrk`, the two access checks, the standard layout | |
| `PVM` | the interpreter: gas gate, instructions by class, exits, the host call | `Program`, `Memory` |
| `BlockMeter` | the abstract machine that runs and pays for a basic block at a time | implemented by `PVM` (`ChargesByBlock`) |
| `DisputesProofs`, `WorkReportsProofs`, `ReportPipelineProofs`, `ServicesProofs`, `PreimagesProofs`, `BlockRecordsProofs`, `PVMProofs` | theorems | the module each is named for |
| `ValidatorsProofs` | theorems about the validators' part of a block | `Guarantors`, and with it `Safrole` |
| `MC*` | instances for TLC; `MCImplementsPipeline` drives `ReportPipeline` by the steps of `WorkReports` and reads the abstract state off the rings | |

### Correspondence with the code

The variables have the names of the code's `State` fields. `rho` is a function
from cores to `NoReport` or a record; `ready` and `accumulated` are the ring
buffers, indexed from 0 as in the code; `history` keeps only the reported
packages of `beta`. In `Disputes` the vectors of psi are bags (functions to
`Nat`), because the code sorts them without removing duplicates and a set would
hide that.

A step of `Disputes` is one disputes transition or one thing that block import
does to its inputs between two of them (`Advance`, `AssignReport`,
`ClearCore`). A step of `WorkReports` is one `import_block`, with the stages as
operators in the code's order, each reading the state the code gives it:
`known_packages` and the rings from before the block, rho from the stage
before. `import_block` looks at no stage's outcome, so the step is the same for
a block that a stage refuses: the stage changes nothing, `refused` counts it and
the rest of the block is applied. A step of `Safrole` is one block: `Advance`, `EnterEpoch` or `Refuse`
is the safrole transition, and `Rest` is what disputes (`offenders`) and the
designate call (`iota`) of the same block do after safrole read both.
`Guarantors` adds to that step the guarantees of the block, judged in the
posterior safrole state as the code does.

A step of `Services` is one host call, or one turn of the loops of
`accumulate_core` and `run_service_raw`: `ctx` and `cp` are the locals of the
same names, `exec` the state threaded from service to service, `pending` and
`inbox` the deferred transfers (`pending` and `by_dest` in the code). A program
is any sequence of calls that ends by `Halt` or `Trap`; only calls that change
something are steps, the refused ones change nothing. `chi` are the privileges;
`setBy` records who set an authorizer queue or the staged validators, which are
not themselves in the model. A step of `Preimages` is
one host call of one service, the beginning of a block (where its preimages are
judged) or its end (where they are stored, `refused` or not). A step of
`BlockRecords` is one block, whatever of it is `refusing`: pools, beta and records
look at no outcome. A step of `PVM` is one instruction, or the host call
that `run_service_raw` handles between two of them; `program`, `pc`, `gas`,
`gas_charged`, `blk_cost`, `blk_spent` and `memory` are the fields of the code,
and `status` is what `step` returned. A place is a byte of the code (numbered from
1), or the end, past which all is traps.

Variables marked *history variables* are not in the program: they record what
properties need of the past (when a package was reported, which tickets were
accepted, who was assigned where) and no action reads them in a guard that the
program has.

### Abstractions

- A hash is its arguments, or an integer where the code orders it: distinct
  inputs have distinct hashes.
- A signature or proof is the key that made it, or a flag `sound` on the record
  it belongs to. A signature nobody could make is in the instances, so that the
  checks that refuse it are exercised.
- A work report is its package; a package has one exports root, so a segment
  lookup is a dependency like a prerequisite. Its gas is the sum over its
  results.
- The entropy `eta[0]` is the slot of the block that folded its VRF output in.
  The shuffle's draws are an arbitrary function of the entropy.
- In `Services` an account is its balance and whether its code is there, the
  transfers on their way to one service are their sum, and `MaxCalls` stands for
  gas: an invocation makes at most that many calls and may be cut off before any
  of them. That an invocation makes finitely many calls is a bound of the model
  and not of the code, whose gas a transfer can raise (`halting`).
- In `Preimages` keys and values are their lengths and a blob is its hash.
- In `BlockRecords` the roots of block n are n, and a node of the mountain range
  is the sequence of the roots below it, so that what a super-peak commits to can
  be read off it.
- In `PVM` registers and the bytes of memory are left out: an address, a branch
  condition, the entry of a dynamic jump, the size given to `sbrk` and what a
  transfer reserves may be anything. Opcodes with the same effect on control are
  one class; targets are places, since operands are not decoded. Nothing is asked
  of a blob, as the code asks nothing: the bitmask may hide opcodes, the program
  may begin anywhere (`Vm::new` is told 5 and looks at nothing), blocks may be
  longer than `block_gas_cost` counts. Gas is an i64 that wraps, as the release
  build has it, and so is a reserve, which the code casts from a u64.
- In `Memory` a length is a u64 and sums and differences of the page check wrap,
  in the release build again.
- In `WorkReports`, credentials, anchor, authorizer and service checks of a
  guarantee are one flag; `Guarantors` has the credentials.

## Runs

| Run | Instance | Shows |
|---|---|---|
| `disputes` | 3 validators of 4 keys, 2 reports, 2 cores, epochs of 2 slots, slots to 4 | `OneVerdict`, `VerdictsCostOffenders`, `ConvictedOnce`, `VerdictClearsRho` |
| `work_reports` | 3 packages in a chain, 2 cores, 3 validators, rings of 3, gaps of 1 and 3 slots, 5 blocks, one of which stages may refuse and which may have an old slot | nothing held twice, lost, disordered, delayed but by gas, or evicted early |
| `implements_pipeline` | 2 packages, gaps of 1 and 4 slots, 6 valid blocks, otherwise the same | block import implements `ReportPipeline`; once per report, dependencies first, none forgotten |
| `safrole` | 2 validators of 3 keys, epochs of 3 slots with a tail of 1, gaps of 0 to 4 slots, slots to 9 | the safrole properties |
| `guarantors` | 4 validators in two sets, 2 cores, rotations of 2, epochs of 4, slots to 8, blocks with tickets that safrole refuses | the assignment properties |
| `services` | 3 services, 2 of them with code, calls up to 2 each, 2 cores, privileges shared by both and handed on, 2 rounds, a ring of 7 ids, at most 4 accounts | balance accounted for, nobody acts that is gone or without the privilege, the next id is free, the block ends |
| `preimages` | 2 preimages, 1 key, 2 lengths, expunge period 1, gaps 1 and 2, slots to 6, blocks with refused preimages | footprint, blobs and statuses agree; statuses move on; forgotten preimages are kept |
| `block_records` | 2 cores, 2 validators, pools of 2, histories of 2, epochs of 2 slots, a gap that skips one, 4 blocks, at most one of which safrole or reports refuse their part of, an old slot included | `AuthorizedOnce`, `BeefyCommitsAll`, `RecordsMatchLog` |
| `pvm` | every code of two bytes, begun at each place, and longer ones that loop, are longer than the count's cap of 2, begin inside a block or use the memory; gas -1 to 12 in a word of 64; reserves 1, 31, 32 and 60; pages of 2 bytes, zones of 4, an address space of 30, six layouts, ranges of up to 63 bytes | `GateAtStarts`, `OverdraftIsHosts`, `ChargesByBlock`, `HeapIsWritable`, `AccessorsAgree`, `ExitsUnlessRefilled` |
| `halting` | a loop over a host call, which reserves 1 or 60 in a word of 64 | `Exited` fails: 60 is -4 |
| `offenders_set`, `provision` | as `disputes` and `preimages` | two places where the code differs from its comments |

**Why the bounds are enough.** The windows of the report pipeline are as tight
as the code's. With history H, timeout T and epoch E the code has H = 8, T = 5,
E = 12, that is T <= H and H + T = E + 1; the instances have H = 2, T = 2,
E = 3. Shortening E by one, or lengthening the timeout by one, violates
properties at once (two of the mutants do that), so the instances sit on the
edge the code sits on. Five or six blocks pass each window twice, and a gap
of 3 or 4 slots passes the whole ring of 3. One refused block in a chain, by one
stage or by several, is enough to break each promise that a refusal can break. The gas of two reports just fits a block, as two
cores' reports just fit in the code (2 * 10,000,000 = 20,000,000). Votes scale:
with three validators a good verdict takes 3 and a wonky one 1 positive
judgement, the code's `2V/3 + 1` and `V/3`. Safrole's slots to 9 hold three
epoch changes, enough for a staged set to become the previous set, and the gap
of 4 skips an epoch. Slots to 8 in `guarantors` take a staged set to `kappa`
with the other still in `lambda`.

Two calls per invocation let a service checkpoint and go on, create and pay, or
eject and send; two rounds let a transfer be answered and the answer be cut off
by the bound on rounds (16 in the code); the ring of 7 ids with a step of 2
wraps within a block, and 4 accounts on it leave a free id (`ServicesConstants`
asks for that, as 2^32 ids do). Two cores let the assigner of one try the
other's. Slots to 6 with an expunge period of 1 take a
request through all its statuses and once round again: solicited, provided,
forgotten, solicited again, forgotten again, dropped. Four blocks fill pools and
histories of 2 and carry the mountain range into its third peak.

Two bytes over an alphabet of all classes, some without their opcode bit, with
targets that are a start, the middle, the end or no place at all, meet every rule
of the block structure; `skip` looks at 2 bytes, so that it is cut off by an opcode,
by the end and by its bound. The longer codes add loops, host calls between two
gates, blocks of more instructions than the cap of 2 lets count, with host calls
past it, and code behind a cheap block that no start is seen before. Gas of -1 to
3 ends between any two instructions and 12 outlasts the longest program that does
not loop. In a word of 64 the reserves are 1, the largest and the smallest i64 (31,
and 32, which is -32) and -4, so that a host call lowers gas, raises it and wraps it
both ways.

In an address space of 30 bytes a range can straddle the heap's last page, the
stack and the wrap to address 0. The layouts map 2 to 6 pages, so that ranges of 5 to
12 bytes are refused for their number of pages or not, depending on the layout and
on the pages the heap has gained; one has two neighbouring pages and nothing else, which
a range of 3 bytes may fill. 34 bytes are more than the address space and still
end in the word from every address, 63 only from the first two.

The exceptions that the properties make are met in these instances: uncounted
blocks overdraw without a host call, the first gate is met off a start, and
`blk_spent` exceeds `blk_cost` at a trap, which gives gas back.

**Deadlock** is checked in all runs but those of `Services`, `Preimages` and
`PVM`. The accumulation of a block really ends (`done`, which `Terminates` says
is reached and from which no step leads on), a program really stops at an exit,
and `Preimages` stops at the bound `MaxSlot`. Elsewhere, where a bound ends the
chain, a step `AtBound` says so; it is the bound of the model and not a step of
the program.

**Fairness.** `Services` and `PVM` assume weak fairness of their whole
next-state relation. One thread runs a block's services one after the other, and
within one the instructions of its program, and waits for nothing, so a step that
can be taken is taken. It is not assumed that a service halts rather than traps,
that it stops sending, or which way a branch goes: a loop ends because gas does.
`ExitsUnlessRefilled` therefore asks that from some step on gas is never raised, and
that is a condition on the program and not a fairness assumption; a program that
raises it for ever is what `halting` finds. `Terminates` is about the rounds of a
block only: that one invocation ends is the bound `MaxCalls`. For blocks no
liveness is claimed, since nothing in the code schedules them: what must happen
"eventually" is stated as what the next block does (`OnlyGasDelays`) or as a
bound on age (`QueueLifetime`).

**Refused blocks.** Whether a block that a stage refuses ever reaches
`import_block` is up to its callers; the import goes on after every error. Each
property says what it asks of the chain:

- `AvailableIsKept`, `DependenciesInOrder` and `OnlyGasDelays` hold whatever the
  stages refuse, old slots included.
- `PackagesHeldOnce` asks that neither safrole nor assurances refused a block.
  Both refusals let a report stay on its core for longer than beta remembers it
  (safrole leaves tau behind, assurances leave a stale report on its core), and a
  report that is still on its core can then be guaranteed again. Without either
  condition TLC finds it violated in the same instance.
- Refused guarantees alone break none of them. They enter beta, where they keep a
  package from being reported and satisfy the dependency of a report whose
  dependency never ran: that report waits in theta until its index comes round.
- `QueueLifetime` and `NoEarlyEviction` ask that safrole refused none: theta is
  rotated for the refused slot and tau stays, so that the next block counts the
  skipped slots again and empties indices that are in use.
- `BlobsHaveRequests` and `ForgottenIsKept` hold with preimages that nobody asked
  for; `FootprintMatches` and `StatusMovesOn` ask for accepted ones, since the
  stamp inserts a request that was never counted, or wipes a status.

- `AuthorizedOnce` and `BeefyCommitsAll` hold whatever is refused. Refused reports
  take their authorizers out of the pools and their guarantors are credited, but
  only accepted reports count as authorized. `RecordsMatchLog` asks that safrole
  refused none: tau stays, and the next block rotates the records again.
- `OneCorePerRotation` counts the guarantees of blocks that safrole accepts. A
  block of the next epoch that safrole refuses for its tickets is judged by the
  sets of this one: without the condition TLC finds a validator that guarantees
  for two cores in two such blocks. `JudgedAsAssigned` holds after them.

`implements_pipeline` and `provision` import valid blocks; `disputes` and
`safrole` include refused extrinsics. `preimages` leaves out what `provision`
shows (`WithdrawsLate`): that a service withdraws a request in the very block
that provides it.

## Divergences found

1. `src/src/disputes.rs:230` calls the psi vectors sets. A validator named as
   culprit and as fault in one extrinsic is stored in `psi.offenders` twice:
   both checks look only at the offenders before the block (`offenders_set`).
2. `src/docs/pvm.md:438` says that gas metering guarantees halting. What a transfer
   with a memo reserves is a register, which `src/src/accumulate_exec.rs:612` casts
   from u64 to i64 before it subtracts it: a value of 2^63 or more raises the gas,
   and a loop over such a transfer never exits (`halting`).
3. `src/src/block_import.rs:424` says that provision leaves the footprint
   unchanged because requests were counted when solicited. If the service
   forgets the request in the same block, the stamp inserts it again, uncounted
   (`provision`), and forgetting it later takes 2 items off that were never added.

Differences that no run checks: a new service is not always funded from the
creator's balance, as `accumulate_exec.rs:878` has it, since the subtraction of
line 880 saturates and nothing checks the balance before (`SupplyAccounted` keeps
the difference in its ledger as minted); `pvm.rs:426-427` says that the whole block
must be affordable before any of it runs, which it need not be if the program
begins inside it (`accumulate_exec.rs:385`) or if it is longer than
`pvm.rs:359` counts; `pvm.rs:116-117` says that an absurd length is refused at once,
but `address + len - 1` of line 132 wraps in a release build, and a range whose end
wraps just below its first page is accepted as empty; `block_import.rs:101-112` counts a guarantor
once per block where `statistics.rs:95-99` counts every signature (the comment
in `block_import.rs:6` speaks of per-credential counts); transfers that are
still pending after 16 rounds are dropped (`accumulate.rs:299`), after their
senders paid for them; and the module comment `accumulate.rs:16-22` says that
bless, assign, new and others return HUH, that privileges are carried unchanged
and that rollback ignores the checkpoint, while the code implements all of them.

## Theorems

All hold for every value of the constants that the modules' `ASSUME`s allow,
and are checked by `tlapm` without gaps.

**`DisputesProofs`.** `TypeCorrect`, `AtMostOneVerdict`, `NeverConvictedTwice`,
`VerdictsClearCores`, `EveryVerdictCosts`. The invariant is the type invariant
with `OneVerdict`.
Strictly ascending targets give at most one finding per report in one
extrinsic, and `AlreadyJudged` makes the three counts zero before it, so their
sum stays at most one. The action properties follow from the guards of one
transition and the type invariant. For `EveryVerdictCosts` the invariant counts
finite sets: the keys that the culprits of a block name are new to the offenders,
are named once, and each for one report, so that pairs of a new bad report and a
number up to `MinCulprits` map one to one into them (`ShareOfEach`).

**`ReportPipelineProofs`.** `TypeCorrect`, `StagesAreExclusive`,
`DependenciesRemembered`, `AccumulatedOncePerReport`, `DependencyOrder`, from
`WindowsFit`: `AssuranceTimeout <= MaxHistory` and `MaxHistory +
AssuranceTimeout <= EpochLength + 1`. None of the properties is inductive.
`OneStage` needs to know that a report on a core is recent, so that beta still
refuses its package, which the code never checks against rho; a waiting entry's
dependencies must have been reported within reach of xi. The invariant bounds
the age of what is on the cores, orders the two stamps of a package by the
stage it is in, and says of each dependency of a report in flight that it is
recent, remembered or still waited for. The two inequalities are used where
these ages meet the windows, and nowhere else.

**`WorkReportsProofs`.** `TypeCorrect`, `DependenciesStruckOff`, `AfterDependencies`,
`ReportGasBounded`, `GasDelays`, `AvailableKept`, `ReadyLifetimes`,
`QueueLifetimes`, `EvictionInTime`, `ReportsHeldOnce`, `PackagesOnce`,
`RingsAreWindows`, `ImplementsPipeline`, `ValidBlocks`. Three things come first.
What the recursive functions of `AccumulateQueue` return: `Keep` by induction
over the prefixes of a sequence, `Priority` over its calls (what a call returns
waits only for what earlier calls returned, and a call that finds nothing to
return leaves only entries that wait), `WithinGas` from sums over prefixes. The
arithmetic of the ring theta: which slot an index stands for, when it comes round,
and which indices a gap empties. And the two facts about the code's constants
that `ReportsFit` names. Each property then has its own invariant over whole
blocks:

- what an entry no longer waits for was accumulated, however long ago it was
  struck off, and so was all of xi (`StruckOff`): with the order in which
  `Priority` returns, a batch never runs ahead of its dependencies;
- no report asks for more than `ReportGas` (`GasBounded`): a batch that the gas
  bound cut off has less than that left, and one that it did not cut off leaves
  no entry that waits for nothing. The reports without dependencies come first
  and fit, since those of all cores do;
- index i of theta holds what was queued in the last slot of that index
  (`Lifetimes`), so that only indices of slots more than a ring ago are emptied;
- a report on a core is remembered by beta for as long as it waits there and is
  neither in theta nor in xi (`HeldOnce`), so that it cannot be guaranteed again
  before it is known.

The refinement maps theta to the set of its entries and each core to the package
it holds. The abstract guards speak of windows over stamps where the code reads
rings, and `RingsAreWindows` says that these agree as long as nothing was
refused. `ImplementsPipeline` takes that as a hypothesis on the behaviour
(`[]NoneRefused`), and `ValidBlocks` gets it from `MaxRefused = 0`. The theorems
of `ReportPipelineProofs` are about every behaviour of the abstract
specification; by the refinement they hold of such chains of blocks with
`PackagesOnCores` for rho and `Entries` for pending.

**`ValidatorsProofs`**, the safrole part. `TypeCorrect`, `ContestStaysCurrent`,
`TheContestKeepsTheBest`, `EpochsAreSealedByTheActiveSet`, `OffendersLoseTheirPlace`, `MarkersAreKept`.
The sort is proved by rank: places are distinct, every place is taken, so the
sorted contest has the ids of the unsorted one and distinct ids ascend
strictly; truncation and the outside-in order keep what is needed. What truncation drops
is at a later place, so worse than what stays; and a full contest only improves,
since a ticket worse than all it held has more than `EpochLength` tickets up to
it, so that what an earlier block dropped stays worse than all that later ones
keep. The
invariant ties the contest to the ring and entropy of the epoch, the marker to
the contest while the tail lasts, and the nulled keys to the offenders of each
of the last two epoch changes.

**`ValidatorsProofs`**, the guarantors. `GuaranteesAreJudgedAsMade`,
`OneCoreForEachRotation`, `CoresAreStaffed`. A slot's epoch, and its turn within the epoch, are functions of its rotation, because rotations divide the
epoch (`GuarantorConstants`): so the slots of a rotation have one assignment, and
the slot one period back stands for the whole rotation before. The invariant says
of every remembered assignment in the window that it is the active set's if it is
of the epoch of tau and the previous set's if not; an epoch change moves the
first kind into the second, and the window never reaches a third. Nothing is
asked of the draws, which are arbitrary numbers for each entropy (`DrawConstants`). For the second theorem the invariant
gives each signature a slot of its rotation and a place there whose key signed
and whose core is the one signed for; a key has one place in a set, which the
theorem asks of the sets that services stage (`DistinctValidators`: nothing in
the code refuses a set with a key twice). For the third the shuffle is
shown to permute: after n draws what was drawn and what is left are together the
places of the unshuffled cores, each once, which is an induction over the draws
by the least draw that breaks it. In the unshuffled order every core has
`GroupSize` places, a permutation keeps that number, and the rotation by a
number of cores maps the cores one to one.

**`ServicesProofs`.** `TypeCorrect`, `NobodyActsAfterEjection`, `PowersAreEarned`,
`NextIdStaysFree`, `SupplyIsAccounted`. The invariant says of the context and of the one it falls back
to that the running service has its account in it and that code is only found in
accounts; the latter is what makes an invocation start from an account, since the
code is looked up through it. For the privileges it relates both contexts to the
state the invocation started from: whatever differs was changed by who held the
power then, however a trap or a checkpoint mixes the two. The next id is free by
counting: among more places of the ring in a row than there are accounts, one is
nobody's (`ServicesConstants` says that the ring has that room).

`SupplyIsAccounted` is about the sum of all balances. A total is the number of
the units in it (`Totals`), so that crediting, debiting and removing an account,
and merging the transfers of two services, are disjoint unions of finite sets
(`TotalApart`, `TotalChanged`, `TotalMerge`). The invariant says that the running
context and the one it falls back to are each *funded*: what they hold, have
under way and have overwritten is what the block's state held when the service
was invoked, and what their new accounts added. Both are, so a trap falls
back to a funded one, and what goes into the block's state and its ledger at the
end of an invocation keeps the sum.

**`PreimagesProofs`.** `TypeCorrect`, `BlobsMatchStatuses`, `StatusesMoveOn` and
`PurgedAfterExpunge`, with or without `WithdrawsLate` and `MayRefuse`, and
`FootprintIsKept`. The extrinsic is judged before the services run and
stored after them, so the invariant carries what the judgement found through
the host calls: a request that the block will stamp is still unprovided, if it
is still there (`Awaited`). A request for a length that is not the preimage's
is never provided (`OnlyTrueLength`), so that dropping it takes no blob away. The
status of a forgotten preimage tells when it was forgotten last
(`LastForgotten`), which is what the expunge period is counted from.
`FootprintIsKept` counts items and octets as cardinalities and totals. It has the
hypothesis `~WithdrawsLate`, as the run `preimages` has: the stamp that ends a
block inserts a status, and only while what the block provides stays requested
does it fall on a request that `solicit` counted. The run `provision` shows that
the hypothesis cannot be dropped.

**`BlockRecordsProofs`.** `EntriesAuthorizeOnce`, `RecordsAreOfTheirEpochs`, `BeefyRootsCommitToAll`. What
consuming, refilling and trimming do to a pool is counted by an injection: every
entry of the new pool is drawn from a place of the old one, each place used once,
and a used entry's place is not among them. For the records the invariant says
that they are the counts over the log for the epoch of tau and for the greatest
epoch before it; the counts grow by at most one with each block, in its own epoch
only. `BeefyRootsCommitToAll` is an induction over the peaks of the mountain
range: a carry moves what the peaks below the first free place held, and the new
root, into that place, so that appending adds one root to what the super-peak
commits to and takes none from it. Each entry of beta then keeps the super-peak of
its block, whatever histories drop at the other end.

**`PVMProofs`.** `TypeCorrect`, `GateMetAtStarts`, `InstructionsNeverOverdraw`,
`ImplementsBlockMeter`, `HeapStaysWritable` and `ChecksAlwaysAgree`, for every code
and bitmask, every entry point, any host calls and reserves, and every layout that
fits. Gas wraps, so the first lemmas say what wrapping is: a number and its i64
differ by whole words, two of them that differ by less than a word are the same,
and subtracting in two steps is subtracting the sum. That a block has a length at
all rests on control going on: the next place is a later one, the last is a trap,
so the place nearest the end from which no count existed would have a next one
from which one does.
That number (`Left`) is one more than its successor's, and the invariant has four
parts. `Placed`: a block that passed the gate was charged for what the gate asks
where it was met, and no more instructions ran than there are places since.
`Metered`: in a counted block the charge and what is left make up the cost.
`Covered`: gas covers what is left of a counted block unless a host call was made
since the gate. `AtCall`: a pending host call is inside a block that passed the
gate, and something of it is left. `Covered` needs `Metered`, as what gas has to
cover is known only through it; nothing is claimed of blocks that are not counted
but `Placed`, which is what bounds the settlement of `BlockMeter` for them. The
refinement maps the gas to what a machine that pays at the gate would have, and
the block to the place where the gate was met.

`HeapStaysWritable` and `ChecksAlwaysAgree` are about the memory, for every layout
that fits in the address space (`LayoutConstants`; the code reads lengths from
three bytes and the number of pages from two, which fit in 2^32). The heap is
kept as pages: every page from that of the first break to that of the present
one is writable, since nothing else is ever mapped there: read-only data ends
below the heap's zone and stack and arguments begin above it, and a page that is
there keeps its permission. The two checks of an access agree because the zone
that nobody may access ends with a page, so that a byte is accessible exactly if
its page is (`BytesByPage`); a range whose pages are all there has no more pages
than there are (`RangePagesFit`), so that the early refusal refuses nothing else;
and past the end of the address space the byte check comes to address 0 and the
page check to a page that is never mapped (`PagesOK`, `PastTheEnd`).

Type invariants are proved and not run: the theorems `TypeCorrect` name the
`TypeOK` of their modules. `StagesAreExclusive` states the lemma about
`ReportPipeline` that the others rest on.

**Model-checked only.** The two liveness properties `Terminates` and `ExitsUnlessRefilled`:
liveness under fairness and `ENABLED` are out of the prover's reach. Every
invariant and every other action property that a passing run checks is the
statement of a theorem, two of them under a hypothesis that the run has too:
`FootprintIsKept` (`~WithdrawsLate`) and `ImplementsPipeline` (`[]NoneRefused`).

## Not modelled

- Cryptography, codecs, the state trie and key derivation: functions of their
  arguments without state, covered by the repository's vectors. The trie is a
  recursion over key bits.
- Of the PVM, what the instructions compute, and how a blob is cut into code,
  bitmask and jump table and operands are decoded: byte by byte, which the
  repository's vectors cover.
- That sums of balances stay below 2^64: balances are natural numbers and what a
  new account costs is a constant.
- Of the accumulation, `yield` and the output root, the gas that `always_acc`
  grants, the contents of operands and the read-only host calls.
- The core and service statistics and the tickets and preimages of the activity
  records, which are sums over one block.
- The stand-alone statistics transition, which is not what the import runs.
- `src/examples`, a tool without state.

There is no module that composes all the stages of `import_block`. Each stage is
in the module of the components it shares state with, which takes what the other
stages do to that state as inputs: `Rest` in `Safrole`, `judged` and `tickets` in
`WorkReports`, `Advance` in `Disputes`. A product of all of them would be beyond
TLC and would add no step that these lack.

## What is left

1. **Ledger**: an abstract specification of the balances, which `Services`
   implements; `SInv` of `ServicesProofs` is most of the argument.
2. **Decoding**: the operand layouts as pure functions on bytes.
3. **Trie**: the merkle recursion against a reference over small key sets.
