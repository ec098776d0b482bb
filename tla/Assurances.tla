----------------------------- MODULE Assurances -----------------------------
(***************************************************************************)
(* The availability-assurances transition (src/assurances.rs) as operators *)
(* on rho: a core's assignment is NoReport or a record with the slot at    *)
(* which it was made, `timeout` in the code.                               *)
(*                                                                         *)
(* An assurance is [index, bits, sound]: the assurer's index, the set bits *)
(* of its bitfield, and whether its anchor is the parent block and its     *)
(* signature the assurer's over that anchor and bitfield.                  *)
(***************************************************************************)
EXTENDS Integers, Sequences, FiniteSets

CONSTANTS
  CoreCount,         \* cores, numbered from 0 (2 in the code)
  NoReport,          \* the assignment of a free core
  Validators,        \* validators in the active set (6)
  AssuranceTimeout   \* slots after which an assignment is stale (5)

ASSUME AssurancesConstants ==
  /\ CoreCount \in Nat \ {0} /\ Validators \in Nat \ {0}
  /\ AssuranceTimeout \in Nat \ {0}

Cores == 0..CoreCount - 1

Engaged(rho) == {c \in Cores : rho[c] # NoReport}

AssurancesOK(rho, ext) ==
  /\ \A i \in DOMAIN ext :
       /\ ext[i].sound
       /\ ext[i].index < Validators
       /\ ext[i].bits \cap Cores \subseteq Engaged(rho)
  /\ \A i, j \in DOMAIN ext : i < j => ext[i].index < ext[j].index

Assurers(ext, c) == {i \in DOMAIN ext : c \in ext[i].bits}

\* A strict two-thirds super-majority of the active set assures the core.
AvailableCores(rho, ext) ==
  {c \in Engaged(rho) : 3 * Cardinality(Assurers(ext, c)) > 2 * Validators}

\* Bug: the last slot of the timeout still counts as in time.
StaleCoresLate(rho, slot) == {c \in Engaged(rho) : slot > rho[c].timeout + AssuranceTimeout}

StaleCores(rho, slot) == {c \in Engaged(rho) : slot >= rho[c].timeout + AssuranceTimeout}

\* The cores whose reports become available: none if the extrinsic has an error.
NowAvailable(rho, ext) == IF AssurancesOK(rho, ext) THEN AvailableCores(rho, ext) ELSE {}

\* Bug: only stale assignments leave their cores.
RhoDoubleDaggerStaleOnly(rho, ext, slot) ==
  IF AssurancesOK(rho, ext)
    THEN [c \in Cores |-> IF c \in StaleCores(rho, slot) THEN NoReport ELSE rho[c]]
    ELSE rho

\* rho after the transition.  An error keeps even the stale assignments.
RhoDoubleDagger(rho, ext, slot) ==
  IF AssurancesOK(rho, ext)
    THEN [c \in Cores |-> IF c \in AvailableCores(rho, ext) \cup StaleCores(rho, slot)
                            THEN NoReport ELSE rho[c]]
    ELSE rho
=============================================================================
