----------------------------- MODULE Guarantors -----------------------------
(***************************************************************************)
(* Who may guarantee a report (src/reports.rs): the entropy shuffle of the *)
(* validators over the cores, its rotation, the assignment a guarantee of  *)
(* this or of the previous rotation is verified against, and the           *)
(* credentials of a guarantee.  The reports transition runs after safrole, *)
(* on the entropy and the validator sets that Safrole gives the block.     *)
(*                                                                         *)
(* A guarantee is [core, slot, credentials]; a credential is the index it  *)
(* states and the key that signed.  The hash that draws the shuffle is an  *)
(* arbitrary function of the entropy.                                      *)
(***************************************************************************)
EXTENDS Safrole

CONSTANTS
  CoreCount,         \* cores, numbered from 0 (2 in the code)
  GroupSize,         \* validators per core (3)
  MinGuarantees,     \* credentials a guarantee must have (2)
  RotationPeriod,    \* slots of a rotation (4)
  Draws(_),          \* the numbers an entropy draws, one for each validator
  Signers,           \* places of the validators who may sign, as they are listed
  Ages               \* slots since a guarantee offered to a block was made

ASSUME GuarantorConstants ==
  /\ CoreCount \in Nat \ {0} /\ GroupSize \in Nat \ {0}
  /\ RotationPeriod \in Nat \ {0} /\ EpochLength % RotationPeriod = 0
  /\ Signers \subseteq Seq(Nat \ {0})
  /\ MaxSlot \in Nat

\* Six validators in groups of three (reports.rs 131, 133), and a number drawn
\* for each of them (153); an entropy is a slot, or an initial one below 0.
ASSUME DrawConstants ==
  \A v \in ValidatorSets :
    /\ Len(v) % GroupSize = 0
    /\ \A entropy \in (0 - 3)..MaxSlot : \A k \in DOMAIN v : Draws(entropy)[k] \in Nat

\* The sets are of one size, which their type is; that a key is staged once is
\* up to the service that designates.
ASSUME DistinctValidators ==
  \A u, v \in ValidatorSets :
    Len(u) = Len(v) /\ \A i, j \in DOMAIN u : u[i] = u[j] => i = j

VARIABLES            \* history variables, read only by properties
  assigned,          \* [slot, cores, keys] at the blocks of the last two rotations
  signed             \* [rotation, core, key] of the guarantees accepted there

guarantorVars == <<vars, assigned, signed>>

Rotation(slot) == slot \div RotationPeriod

-----------------------------------------------------------------------------
(* The assignment.                                                         *)

\* Bug: what was picked stays in the sequence.
ShuffleKeepsPicked(s, r) ==
  LET n == Len(s) IN [k \in 1..n |-> s[(r[k] % (n - k + 1)) + 1]]

\* Fisher-Yates: draw k takes one of the elements left and puts the last of
\* them in its place.
Shuffle(s, r) ==
  LET n == Len(s)
      pick(k) == (r[k] % (n - k + 1)) + 1
      left[k \in 0..n] ==
        IF k = 0 THEN s ELSE [left[k - 1] EXCEPT ![pick(k)] = left[k - 1][n - k + 1]]
  IN  [k \in 1..n |-> left[k - 1][pick(k)]]

\* The core of each validator at slot t.
Assignment(validators, entropy, t) ==
  LET shuffled == Shuffle([i \in 1..validators |-> (i - 1) \div GroupSize], Draws(entropy))
      rotate == (t % EpochLength) \div RotationPeriod
  IN  [i \in 1..validators |-> (shuffled[i] + rotate) % (validators \div GroupSize)]

\* Bug: a guarantee of the last epoch is verified against the active set.
AssignmentForActiveSet(slot, t) ==
  LET previous == IF slot < RotationPeriod THEN 0 ELSE slot - RotationPeriod
  IN  [cores |-> Assignment(Len(kappa), eta[2],
                            IF Rotation(slot) = Rotation(t) THEN slot ELSE previous),
       keys |-> kappa]

\* The assignment that a guarantee made at slot t is verified against by a
\* block at this slot, and the keys it is verified with.
AssignmentFor(slot, t) ==
  LET previous == IF slot < RotationPeriod THEN 0 ELSE slot - RotationPeriod
  IN  CASE Rotation(slot) = Rotation(t) ->
             [cores |-> Assignment(Len(kappa), eta[2], slot), keys |-> kappa]
        [] Rotation(slot) # Rotation(t) /\ Epoch(previous) = Epoch(slot) ->
             [cores |-> Assignment(Len(kappa), eta[2], previous), keys |-> kappa]
        [] Rotation(slot) # Rotation(t) /\ Epoch(previous) # Epoch(slot) ->
             [cores |-> Assignment(Len(lambda), eta[3], previous), keys |-> lambda]

-----------------------------------------------------------------------------
(* Guarantees.                                                             *)

\* The rotation of the block and the one before it.
InWindow(slot, t) == t <= slot /\ Rotation(t) + 1 >= Rotation(slot)

\* Bug: the core of the guarantor is not checked.
CredentialOKAnyCore(c, core, assignment) ==
  /\ c.index < Len(kappa)
  /\ assignment.keys[c.index + 1] \notin offenders
  /\ c.signer = assignment.keys[c.index + 1]

CredentialOK(c, core, assignment) ==
  /\ c.index < Len(kappa)
  /\ assignment.cores[c.index + 1] = core /\ core < Len(kappa) \div GroupSize
  /\ assignment.keys[c.index + 1] \notin offenders
  /\ c.signer = assignment.keys[c.index + 1]

\* g at a block of this slot, in the state safrole and disputes left.
GuaranteeOK(g, slot) ==
  /\ g.core < CoreCount
  /\ InWindow(slot, g.slot)
  /\ \A i, j \in DOMAIN g.credentials :
       i < j => g.credentials[i].index < g.credentials[j].index
  /\ Len(g.credentials) >= MinGuarantees
  /\ \E assignment \in {AssignmentFor(slot, g.slot)} :
       \A i \in DOMAIN g.credentials : CredentialOK(g.credentials[i], g.core, assignment)

Signatures(g) ==
  {[rotation |-> Rotation(g.slot), core |-> g.core, key |-> g.credentials[i].signer] :
     i \in DOMAIN g.credentials}

\* The guarantees of a block, of which these are accepted, are judged in the
\* state that safrole and disputes leave; refused ones leave no trace.  Those of
\* a block that safrole refuses are judged too, by the sets and the entropy of
\* another slot, but not recorded.
Report(slot, accepted) ==
  LET current == AssignmentFor(slot, slot)'
  IN  /\ assigned' = {a \in assigned : InWindow(tau', a.slot)}
                       \cup {a \in {[slot |-> slot, cores |-> current.cores,
                                     keys |-> current.keys]} : tau' = slot}
      /\ signed' = {s \in signed : s.rotation + 1 >= Rotation(tau')}
                     \cup UNION {Signatures(g) : g \in accepted}

-----------------------------------------------------------------------------
\* The guarantees that validators of a set can make; nobody holds the null key.
Offers(slot, keys) ==
  {[core |-> core, slot |-> t,
    credentials |-> [i \in DOMAIN places |->
                       [index |-> places[i] - 1, signer |-> keys[places[i]]]]] :
     core \in 0..CoreCount - 1, t \in {slot - age : age \in Ages} \cap Nat,
     places \in {p \in Signers : \A i \in DOMAIN p : keys[p[i]] # NullKey}}

GuarantorsInit == Init /\ assigned = {} /\ signed = {}

\* The bound of the model ends the chain, not the program.
AtBound == tau = MaxSlot /\ UNCHANGED guarantorVars

GuarantorsNext ==
  \/ AtBound
  \/ \E slot \in {tau + gap : gap \in Gaps}, ext \in TicketExtrinsics :
     \E convicted \in Convictions, staged \in ValidatorSets :
       /\ slot <= MaxSlot
       /\ Block(slot, ext, convicted, staged)
       /\ \E offers \in {Offers(slot, kappa') \cup Offers(slot, lambda')} :
          \E accepted \in {{}} \cup
             {{g} : g \in {h \in offers : tau' = slot /\ GuaranteeOK(h, slot)'}} :
            Report(slot, accepted)

GuarantorsSpec == GuarantorsInit /\ [][GuarantorsNext]_guarantorVars

-----------------------------------------------------------------------------
(* Properties.                                                             *)

\* A guarantor signs for the core it is on when it signs, and blocks later,
\* over a rotation or an epoch change, is judged by that same assignment: the
\* shifted validator sets and entropies give back what was current then.
JudgedAsAssigned ==
  \A a \in assigned : AssignmentFor(tau, a.slot) = [cores |-> a.cores, keys |-> a.keys]

\* In a rotation a validator guarantees for one core, whichever blocks carry
\* its guarantees, of those that safrole accepts: a block of the next epoch that
\* safrole refuses is judged by the sets of this one (block_import.rs 324-353).
OneCorePerRotation ==
  \A s, t \in signed : s.rotation = t.rotation /\ s.key = t.key => s.core = t.core

\* The shuffle gives every core its GroupSize guarantors, no more and no less;
\* that alone bounds the credentials of a guarantee from above.
EveryCoreStaffed ==
  \A a \in assigned : \A core \in 0..Len(a.keys) \div GroupSize - 1 :
    Cardinality({i \in DOMAIN a.cores : a.cores[i] = core}) = GroupSize
=============================================================================
