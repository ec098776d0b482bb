------------------------------ MODULE Disputes ------------------------------
(***************************************************************************)
(* The disputes state transition (src/disputes.rs): verdicts on work       *)
(* reports, culprits, faults, and the clearing of availability             *)
(* assignments of reports that were not found good.                        *)
(*                                                                         *)
(* The code keeps psi.good, psi.bad, psi.wonky and psi.offenders as sorted *)
(* vectors.  A sorted vector is a bag, so each is a function to Nat here:  *)
(* a hash or a key stored twice is visible.  Hashes and keys are integers  *)
(* because the code orders them; a signature is the key that made it, over *)
(* the message its record states.                                          *)
(***************************************************************************)
EXTENDS Integers, Sequences, FiniteSets

CONSTANTS
  Reports,         \* hashes of work reports, integers ordered as the byte strings are
  Keys,            \* Ed25519 validator keys, integers ordered as the byte strings are
  Cores,           \* indices of rho
  NoReport,        \* rho[c] of a core that holds no report
  EpochLength,     \* slots in an epoch (12 in the code)
  SuperMajority,   \* judgements of a verdict, and the positive ones of a good one (5)
  WonkyVotes,      \* positive judgements of a wonky verdict (2)
  MinCulprits,     \* culprits a bad verdict must come with (2)
  ValidatorSets,   \* the key sequences safrole may activate
  Extrinsics,      \* the disputes extrinsics a block may carry
  MaxSlot          \* bound on tau, for model checking

VARIABLES
  verdicts,        \* psi.good, psi.bad, psi.wonky: [Kinds -> [Reports -> Nat]]
  offenders,       \* psi.offenders: [Keys -> Nat]
  rho,             \* the report whose availability each core awaits
  tau,             \* the slot of the parent block
  kappa, lambda    \* validator keys of the current and of the previous epoch

vars == <<verdicts, offenders, rho, tau, kappa, lambda>>

Kinds == {"good", "bad", "wonky"}

Judgement == [index : Nat, vote : BOOLEAN, signer : Keys]
Verdict == [target : Reports, age : Nat, votes : [1..SuperMajority -> Judgement]]
Culprit == [target : Reports, key : Keys, signer : Keys]
Fault == [target : Reports, key : Keys, vote : BOOLEAN, signer : Keys]
DisputesExtrinsic ==
  [verdicts : Seq(Verdict), culprits : Seq(Culprit), faults : Seq(Fault)]

ASSUME DisputesConstants ==
  /\ Reports \subseteq Int /\ Keys \subseteq Int
  /\ NoReport \notin Reports
  /\ EpochLength \in Nat \ {0} /\ MinCulprits \in Nat
  /\ SuperMajority \in Nat /\ WonkyVotes \in Nat
  /\ 0 < WonkyVotes /\ WonkyVotes < SuperMajority
  /\ ValidatorSets \subseteq Seq(Keys) /\ ValidatorSets # {}
  /\ \A ext \in Extrinsics : ext \in DisputesExtrinsic

-----------------------------------------------------------------------------
(* Helpers of the source file.                                             *)

\* The order the code asks of verdicts, judgements, culprits and faults.
StrictlyAscending(s) == \A i, j \in DOMAIN s : i < j => s[i] < s[j]

Epoch == tau \div EpochLength

\* Bug: a wonky report can be judged again.
IsJudgedForgetsWonky(r) == \E k \in {"good", "bad"} : verdicts[k][r] > 0

IsJudged(r) == \E k \in Kinds : verdicts[k][r] > 0

ValidatorKeys == {kappa[i] : i \in DOMAIN kappa} \cup {lambda[i] : i \in DOMAIN lambda}

-----------------------------------------------------------------------------
(* Verdicts.                                                               *)

Positive(v) == Cardinality({i \in DOMAIN v.votes : v.votes[i].vote})

\* A split that is none of the three is an error of the extrinsic.
VoteKind(v) ==
  CASE Positive(v) = SuperMajority -> "good"
    [] Positive(v) = 0             -> "bad"
    [] Positive(v) = WonkyVotes    -> "wonky"
    [] OTHER                       -> "split"

\* The validator set a verdict's judgements are verified against.
JudgingKeys(v) == IF v.age = Epoch THEN kappa ELSE lambda

VerdictOK(v) ==
  /\ v.age = Epoch \/ v.age + 1 = Epoch
  /\ StrictlyAscending([i \in DOMAIN v.votes |-> v.votes[i].index])
  /\ ~ IsJudged(v.target)
  /\ \A i \in DOMAIN v.votes :
        /\ v.votes[i].index < Len(JudgingKeys(v))
        /\ v.votes[i].signer = JudgingKeys(v)[v.votes[i].index + 1]
  /\ VoteKind(v) \in Kinds

VerdictsOK(ext) ==
  /\ StrictlyAscending([i \in DOMAIN ext.verdicts |-> ext.verdicts[i].target])
  /\ \A i \in DOMAIN ext.verdicts : VerdictOK(ext.verdicts[i])

\* The verdicts of the extrinsic that find r to be of kind k.
Findings(ext, k, r) ==
  {i \in DOMAIN ext.verdicts :
     ext.verdicts[i].target = r /\ VoteKind(ext.verdicts[i]) = k}

\* psi.good', psi.bad' and psi.wonky': every result is pushed on its vector.
Judged(ext) ==
  [k \in Kinds |-> [r \in Reports |->
     verdicts[k][r] + Cardinality(Findings(ext, k, r))]]

-----------------------------------------------------------------------------
(* Culprits (guarantors of a bad report) and faults (votes against the     *)
(* verdict).  Both look targets up in the verdicts of this extrinsic too,  *)
(* but offenders only in the state before it.                              *)

CulpritOK(c, ext) ==
  /\ Judged(ext)["bad"][c.target] > 0
  /\ c.key \in ValidatorKeys
  /\ offenders[c.key] = 0
  /\ c.signer = c.key

\* Bug: one validator may be named twice.
CulpritsOKUnordered(ext) == \A i \in DOMAIN ext.culprits : CulpritOK(ext.culprits[i], ext)

CulpritsOK(ext) ==
  /\ StrictlyAscending([i \in DOMAIN ext.culprits |-> ext.culprits[i].key])
  /\ \A i \in DOMAIN ext.culprits : CulpritOK(ext.culprits[i], ext)

\* Bug: a convicted validator can be convicted again.
FaultOKAnyOffender(f, ext) ==
  LET inBad  == Judged(ext)["bad"][f.target] > 0
      inGood == Judged(ext)["good"][f.target] > 0
  IN  inBad # inGood /\ f.vote = inBad /\ f.key \in ValidatorKeys /\ f.signer = f.key

FaultOK(f, ext) ==
  LET inBad  == Judged(ext)["bad"][f.target] > 0
      inGood == Judged(ext)["good"][f.target] > 0
  IN  /\ inBad # inGood
      /\ f.vote = inBad
      /\ f.key \in ValidatorKeys
      /\ offenders[f.key] = 0
      /\ f.signer = f.key

FaultsOK(ext) ==
  /\ StrictlyAscending([i \in DOMAIN ext.faults |-> ext.faults[i].key])
  /\ \A i \in DOMAIN ext.faults : FaultOK(ext.faults[i], ext)

\* A new bad verdict names enough culprits, a new good one a fault.
VerdictsJustified(ext) ==
  \A i \in DOMAIN ext.verdicts :
    LET v == ext.verdicts[i] IN
    /\ VoteKind(v) = "bad" =>
         Cardinality({c \in DOMAIN ext.culprits : ext.culprits[c].target = v.target})
           >= MinCulprits
    /\ VoteKind(v) = "good" =>
         \E f \in DOMAIN ext.faults : ext.faults[f].target = v.target

\* `run` gets past every early return.
DisputesOK(ext) ==
  /\ VerdictsOK(ext) /\ CulpritsOK(ext) /\ FaultsOK(ext) /\ VerdictsJustified(ext)

-----------------------------------------------------------------------------
(* The posterior state.                                                    *)

\* The culprits, or the faults, that name key k.
Naming(s, k) == {i \in DOMAIN s : s[i].key = k}

\* psi.offenders': the culprits' keys, then the faults' keys, are pushed.
Offending(ext) ==
  [k \in Keys |-> offenders[k] + Cardinality(Naming(ext.culprits, k))
                               + Cardinality(Naming(ext.faults, k))]

\* Bug: a wonky report stays on its core.
ClearedReportsOnlyBad(ext) ==
  {ext.verdicts[i].target : i \in {j \in DOMAIN ext.verdicts :
                                     VoteKind(ext.verdicts[j]) = "bad"}}

\* Reports this extrinsic found bad or wonky leave rho.
ClearedReports(ext) ==
  {ext.verdicts[i].target : i \in {j \in DOMAIN ext.verdicts :
                                     VoteKind(ext.verdicts[j]) \in {"bad", "wonky"}}}

RhoDagger(ext) ==
  [c \in Cores |-> IF rho[c] \in ClearedReports(ext) THEN NoReport ELSE rho[c]]

\* `transition`: an extrinsic with any error leaves the state as it was.
Transition(ext) ==
  /\ IF DisputesOK(ext)
       THEN /\ verdicts' = Judged(ext)
            /\ offenders' = Offending(ext)
            /\ rho' = RhoDagger(ext)
       ELSE UNCHANGED <<verdicts, offenders, rho>>
  /\ UNCHANGED <<tau, kappa, lambda>>

-----------------------------------------------------------------------------
(* What the rest of the block import does to the state disputes read.      *)

\* Safrole advances the slot; when that enters a later epoch the validator
\* sets rotate, once however many epochs were skipped.
Advance(slot, next) ==
  /\ tau < slot
  /\ tau' = slot
  /\ IF slot \div EpochLength > Epoch
       THEN lambda' = kappa /\ kappa' = next
       ELSE next = kappa /\ UNCHANGED <<kappa, lambda>>
  /\ UNCHANGED <<verdicts, offenders, rho>>

\* The reports transition puts a report on a free core.
AssignReport(c, r) ==
  /\ rho[c] = NoReport
  /\ rho' = [rho EXCEPT ![c] = r]
  /\ UNCHANGED <<verdicts, offenders, tau, kappa, lambda>>

\* Assurances clear a core whose report is available or timed out.
ClearCore(c) ==
  /\ rho[c] # NoReport
  /\ rho' = [rho EXCEPT ![c] = NoReport]
  /\ UNCHANGED <<verdicts, offenders, tau, kappa, lambda>>

Init ==
  /\ verdicts = [k \in Kinds |-> [r \in Reports |-> 0]]
  /\ offenders = [k \in Keys |-> 0]
  /\ rho = [c \in Cores |-> NoReport]
  /\ tau = 0
  /\ kappa \in ValidatorSets
  /\ lambda \in ValidatorSets

Next ==
  \/ \E ext \in Extrinsics : Transition(ext)
  \/ \E slot \in 1..MaxSlot, next \in ValidatorSets : Advance(slot, next)
  \/ \E c \in Cores, r \in Reports : AssignReport(c, r)
  \/ \E c \in Cores : ClearCore(c)

Spec == Init /\ [][Next]_vars

-----------------------------------------------------------------------------
(* Properties.                                                             *)

\* The types of psi, rho and the validator sets, as src/disputes.rs State has them.
TypeOK ==
  /\ verdicts \in [Kinds -> [Reports -> Nat]]
  /\ offenders \in [Keys -> Nat]
  /\ rho \in [Cores -> Reports \cup {NoReport}]
  /\ tau \in Nat
  /\ kappa \in Seq(Keys) /\ lambda \in Seq(Keys)

\* Over all the blocks of the chain a report gets at most one verdict: it is
\* in one of psi.good, psi.bad and psi.wonky, and there once (the ordering of
\* the verdicts of one extrinsic and the AlreadyJudged test across extrinsics).
OneVerdict ==
  \A r \in Reports :
    verdicts["good"][r] + verdicts["bad"][r] + verdicts["wonky"][r] <= 1

Offenders == {k \in Keys : offenders[k] > 0}

\* Every bad verdict of the chain has cost MinCulprits validators, and every
\* good one a validator, their place, and no conviction pays for two verdicts
\* of one kind: culprits and faults name fresh keys, each key once.
VerdictsCostOffenders ==
  LET Count(k) == Cardinality({r \in Reports : verdicts[k][r] > 0})
  IN  /\ Cardinality(Offenders) >= MinCulprits * Count("bad")
      /\ Cardinality(Offenders) >= Count("good")

\* A validator that an earlier block convicted is never convicted again
\* (OffenderAlreadyReported), whatever the later extrinsics hold.
ConvictedOnce ==
  [][\A k \in Keys : offenders[k] > 0 => offenders'[k] = offenders[k]]_vars

\* The step that finds a report bad or wonky leaves it on no core, and a step
\* that finds it good leaves it where it was.
VerdictClearsRho ==
  [][\A r \in Reports :
       /\ verdicts'["bad"][r] + verdicts'["wonky"][r]
            > verdicts["bad"][r] + verdicts["wonky"][r]
          => \A c \in Cores : rho'[c] # r
       /\ verdicts'["good"][r] > verdicts["good"][r]
          => \A c \in Cores : rho[c] = r => rho'[c] = r]_vars

\* src/disputes.rs:230 calls psi' "sets": no element is in one of them twice.
OffendersAreASet == \A k \in Keys : offenders[k] <= 1
=============================================================================
