------------------------------ MODULE Safrole ------------------------------
(***************************************************************************)
(* The safrole transition (src/safrole.rs) as block import drives it: the  *)
(* clock tau, the entropy eta, the four validator sets, the ticket contest *)
(* gamma_a of the epoch and the keys gamma_s that seal its blocks.         *)
(*                                                                         *)
(* A hash is modelled by its arguments.  eta[0], which folds every block's *)
(* VRF output in, is the slot of the block that folded it; the ring        *)
(* commitment gamma_z is the sequence of keys it commits to; the fallback  *)
(* key sequence is the pair it is computed from.  A ticket of a block is   *)
(* [id, attempt, sound], sound when its ring proof verifies; accepted, it  *)
(* keeps the ring and the entropy that its proof was verified against.     *)
(***************************************************************************)
EXTENDS Integers, Sequences, FiniteSets

CONSTANTS
  Keys,              \* validator keys
  NullKey,           \* the all-zero key that replaces an offender's
  ValidatorSets,     \* key sequences the designate call may stage
  EpochLength,       \* slots of an epoch, and tickets of a full contest (12)
  TailStart,         \* phase at which the contest closes (10)
  MaxAttempts,       \* entries a validator has per epoch (3)
  TicketExtrinsics,  \* tickets a block may carry
  Convictions,       \* keys a block's disputes may convict
  Gaps,              \* slots from the last accepted block to the next
  MaxSlot            \* bound on tau, for model checking

VARIABLES            \* of the program
  tau,               \* slot of the last accepted block
  eta,               \* the entropy now, and at the last three epoch changes
  lambda, kappa,     \* validator keys of the previous and the current epoch
  gamma_k, iota,     \* ... of the next epoch, and those staged after it
  gamma_a,           \* best tickets of this epoch's contest, by id
  gamma_s,           \* what seals this epoch: keys, or the tickets of the last
  gamma_z,           \* the ring that proofs are verified against
  offenders          \* psi.offenders

VARIABLES            \* history variables, read only by properties
  mark,              \* winning tickets published in this epoch, if any
  submitted,         \* ids of all the tickets accepted in this epoch
  barred             \* offenders at the last two epoch changes, latest first

vars == <<tau, eta, lambda, kappa, gamma_k, iota, gamma_a, gamma_s, gamma_z,
          offenders, mark, submitted, barred>>

Envelope == [id : Int, attempt : Nat, sound : BOOLEAN]

ASSUME SafroleConstants ==
  /\ NullKey \notin Keys
  /\ ValidatorSets \subseteq Seq(Keys) /\ ValidatorSets # {}
  /\ EpochLength \in Nat \ {0} /\ TailStart \in 1..EpochLength
  /\ TicketExtrinsics \subseteq Seq(Envelope)
  /\ Convictions \subseteq SUBSET Keys
  /\ Gaps \subseteq Nat

Epoch(slot) == slot \div EpochLength
Phase(slot) == slot % EpochLength

-----------------------------------------------------------------------------
(* Tickets.                                                                *)

Ids(tickets) == {tickets[i].id : i \in DOMAIN tickets}

\* Place of s[i] in the stable sort of s by id.
Rank(s, i) ==
  Cardinality({j \in DOMAIN s : s[j].id < s[i].id \/ (s[j].id = s[i].id /\ j <= i)})

SortById(s) == [k \in DOMAIN s |-> s[CHOOSE i \in DOMAIN s : Rank(s, i) = k]]

Truncate(s) == IF Len(s) <= EpochLength THEN s ELSE SubSeq(s, 1, EpochLength)

\* Bug: a ticket that is in the contest may come again.
TicketsOKRepeated(ext, accumulator) ==
  /\ \A i \in DOMAIN ext : ext[i].attempt < MaxAttempts /\ ext[i].sound
  /\ \A i, j \in DOMAIN ext : i < j => ext[i].id < ext[j].id

TicketsOK(ext, accumulator) ==
  /\ \A i \in DOMAIN ext : ext[i].attempt < MaxAttempts /\ ext[i].sound
  /\ \A i, j \in DOMAIN ext : i < j => ext[i].id < ext[j].id
  /\ Ids(ext) \cap Ids(accumulator) = {}

\* Tickets come before the tail of the epoch, or not at all.
Admitted(slot, ext, accumulator) ==
  \/ ext = <<>>
  \/ Phase(slot) < TailStart /\ TicketsOK(ext, accumulator)

\* The tickets of ext, verified against the ring and the entropy.
Bodies(ext, ring, entropy) ==
  [i \in DOMAIN ext |-> [id |-> ext[i].id, attempt |-> ext[i].attempt,
                         ring |-> ring, entropy |-> entropy]]

\* Bug: the contest is cut before it is sorted.
EnteredUnsorted(accumulator, bodies) == SortById(Truncate(accumulator \o bodies))

Entered(accumulator, bodies) == Truncate(SortById(accumulator \o bodies))

\* Outside-in: first, last, second, last but one, ...
ZSequence(s) ==
  [i \in DOMAIN s |-> IF i % 2 = 1 THEN s[(i + 1) \div 2] ELSE s[Len(s) + 1 - i \div 2]]

Saturated == Len(gamma_a) = EpochLength

-----------------------------------------------------------------------------
(* The validator sets.                                                     *)

\* Bug: offenders stay.
NullifyNobody(keys) == keys

\* Phi: offenders lose their place.
NullifyOffenders(keys) ==
  [i \in DOMAIN keys |-> IF keys[i] \in offenders THEN NullKey ELSE keys[i]]

FallbackKeys(entropy, keys) == [kind |-> "keys", entropy |-> entropy, keys |-> keys]
WinningTickets(tickets) == [kind |-> "tickets", tickets |-> tickets]

NoMark == [kind |-> "none"]

\* Bug: the fallback keys are drawn from the state before the epoch change.
SealingKeysBefore(slot) ==
  IF Epoch(slot) = Epoch(tau) + 1 /\ Phase(tau) >= TailStart /\ Saturated
    THEN WinningTickets(ZSequence(gamma_a)) ELSE FallbackKeys(eta[2], kappa)

\* Bug: a full contest seals although the tail was never reached.
SealingKeysEarly(slot) ==
  IF Epoch(slot) = Epoch(tau) + 1 /\ Saturated
    THEN WinningTickets(ZSequence(gamma_a)) ELSE FallbackKeys(eta[1], gamma_k)

\* gamma_s for the epoch that slot opens: eta[1] and gamma_k are the eta[2] and
\* kappa of that epoch.  A contest seals only the epoch right after its own.
SealingKeys(slot) ==
  IF Epoch(slot) = Epoch(tau) + 1 /\ Phase(tau) >= TailStart /\ Saturated
    THEN WinningTickets(ZSequence(gamma_a)) ELSE FallbackKeys(eta[1], gamma_k)

-----------------------------------------------------------------------------
(* One block: safrole reads the offenders and the staged set of the state  *)
(* before the block; disputes and accumulation change them in the same     *)
(* block.                                                                  *)

SameEpoch(slot) == Epoch(slot) = Epoch(tau)

\* An accepted block of the epoch of its parent.
Advance(slot, ext) ==
  LET entered == IF ext = <<>> THEN gamma_a
                 ELSE Entered(gamma_a, Bodies(ext, gamma_z, eta[2]))
  IN  /\ tau < slot /\ SameEpoch(slot)
      /\ Admitted(slot, ext, gamma_a)
      /\ tau' = slot
      /\ eta' = [eta EXCEPT ![0] = slot]
      /\ gamma_a' = entered
      /\ mark' = IF Phase(tau) < TailStart /\ Phase(slot) >= TailStart
                      /\ Len(entered) = EpochLength
                   THEN WinningTickets(ZSequence(entered)) ELSE mark
      /\ submitted' = submitted \cup Ids(ext)
      /\ UNCHANGED <<lambda, kappa, gamma_k, gamma_s, gamma_z, barred>>

\* An accepted block of a later epoch: the sets rotate once, however many
\* epochs lie between.
EnterEpoch(slot, ext) ==
  LET next == NullifyOffenders(iota)
  IN  /\ tau < slot /\ ~ SameEpoch(slot)
      /\ Admitted(slot, ext, <<>>)
      /\ tau' = slot
      /\ eta' = [i \in 0..3 |-> IF i = 0 THEN slot ELSE eta[i - 1]]
      /\ lambda' = kappa
      /\ kappa' = gamma_k
      /\ gamma_k' = next
      /\ gamma_z' = next
      /\ gamma_s' = SealingKeys(slot)
      /\ gamma_a' = IF ext = <<>> THEN <<>> ELSE Entered(<<>>, Bodies(ext, next, eta[1]))
      /\ mark' = NoMark
      /\ submitted' = Ids(ext)
      /\ barred' = <<offenders, barred[1]>>

\* An error leaves safrole's part of the state as it was.
Refuse(slot, ext) ==
  /\ \/ slot <= tau
     \/ slot > tau /\ SameEpoch(slot) /\ ~ Admitted(slot, ext, gamma_a)
     \/ slot > tau /\ ~ SameEpoch(slot) /\ ~ Admitted(slot, ext, <<>>)
  /\ UNCHANGED <<tau, eta, lambda, kappa, gamma_k, gamma_a, gamma_s, gamma_z,
                 mark, submitted, barred>>

\* convicted: the keys the block's disputes convict; staged: iota after it.
Rest(convicted, staged) ==
  /\ offenders' = offenders \cup convicted
  /\ iota' = staged

Init ==
  /\ tau = 0
  /\ eta = [i \in 0..3 |-> 0 - i]
  /\ kappa \in ValidatorSets
  /\ lambda = kappa /\ gamma_k = kappa /\ gamma_z = kappa /\ iota = kappa
  /\ gamma_a = <<>>
  /\ gamma_s = FallbackKeys(eta[2], kappa)
  /\ offenders = {}
  /\ mark = NoMark /\ submitted = {} /\ barred = <<{}, {}>>

Block(slot, ext, convicted, staged) ==
  /\ \/ Advance(slot, ext)
     \/ EnterEpoch(slot, ext)
     \/ Refuse(slot, ext)
  /\ Rest(convicted, staged)

Next ==
  \E gap \in Gaps, ext \in TicketExtrinsics :
  \E convicted \in Convictions, staged \in {iota} \cup ValidatorSets :
    /\ tau + gap <= MaxSlot
    /\ Block(tau + gap, ext, convicted, staged)

Spec == Init /\ [][Next]_vars

-----------------------------------------------------------------------------
(* Properties.                                                             *)

KeySeqs == Seq(Keys \cup {NullKey})
Ticket == [id : Int, attempt : Nat, ring : KeySeqs, entropy : Int]

\* Types of the safrole state (src/safrole.rs State).
TypeOK ==
  /\ tau \in Nat /\ eta \in [0..3 -> Int]
  /\ lambda \in KeySeqs /\ kappa \in KeySeqs /\ gamma_k \in KeySeqs
  /\ iota \in KeySeqs /\ gamma_z \in KeySeqs
  /\ gamma_a \in Seq(Ticket) /\ Len(gamma_a) <= EpochLength
  /\ offenders \subseteq Keys

\* The contest holds tickets of this epoch only, proven against the ring of
\* the next validators and this epoch's entropy, in strictly ascending order:
\* none survives an epoch change, none is in it twice.
ContestIsCurrent ==
  /\ gamma_z = gamma_k
  /\ \A i \in DOMAIN gamma_a : gamma_a[i].ring = gamma_k /\ gamma_a[i].entropy = eta[2]
  /\ \A i, j \in DOMAIN gamma_a : i < j => gamma_a[i].id < gamma_a[j].id

\* The contest keeps the best: of all the tickets accepted since the epoch
\* began, however spread over its blocks, those with the least ids.
BestTicketsKept ==
  /\ Ids(gamma_a) \subseteq submitted
  /\ \A id \in submitted \ Ids(gamma_a) : Saturated /\ \A i \in DOMAIN gamma_a : gamma_a[i].id < id

\* What seals the epoch is for the validators who are to seal it: tickets were
\* proven, an epoch ago, in the ring that is kappa now and over what is eta[3]
\* now; the fallback keys are drawn from kappa by eta[2].
SealedByActiveSet ==
  \/ gamma_s = FallbackKeys(eta[2], kappa)
  \/ /\ gamma_s.kind = "tickets" /\ Len(gamma_s.tickets) = EpochLength
     /\ \A i \in DOMAIN gamma_s.tickets :
          gamma_s.tickets[i].ring = kappa /\ gamma_s.tickets[i].entropy = eta[3]
     /\ \A i, j \in DOMAIN gamma_s.tickets :
          gamma_s.tickets[i].id = gamma_s.tickets[j].id => i = j

\* A validator convicted before an epoch change is not in the set that becomes
\* active two changes later, whatever was staged in between.
OffendersLeave ==
  /\ \A i \in DOMAIN gamma_k : gamma_k[i] \notin barred[1]
  /\ \A i \in DOMAIN kappa : kappa[i] \notin barred[2]

\* The winning-tickets marker and the sealing keys agree: the next epoch is
\* sealed by tickets exactly if this one published them, and by those.
MarkedTicketsSeal ==
  [][Epoch(tau') = Epoch(tau) + 1 =>
       IF mark = NoMark THEN gamma_s'.kind = "keys" ELSE gamma_s' = mark]_vars
=============================================================================
