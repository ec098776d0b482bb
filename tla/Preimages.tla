------------------------------ MODULE Preimages ------------------------------
(***************************************************************************)
(* The storage and the preimages of one service account: the host calls    *)
(* write, solicit and forget (src/accumulate_exec.rs), the validity of a   *)
(* block's preimage extrinsic (src/preimages.rs) and its integration at    *)
(* the end of the block (src/block_import.rs).                             *)
(*                                                                         *)
(* A request is a hash and a length; its status is the slots at which the  *)
(* preimage was provided, forgotten and asked for again.  Keys and values  *)
(* are their lengths.  The extrinsic, strictly ordered by the block's      *)
(* check, is a set.  Block import never looks at the verdict of that       *)
(* check, so a block may provide what nobody asked for: the properties say *)
(* what is left then.  A negative footprint is one that wrapped.           *)
(***************************************************************************)
EXTENDS Integers, Sequences, FiniteSetsExt, Functions, Totals

CONSTANTS
  Keys,          \* storage keys of the service: [keys -> length]
  Blobs,         \* the preimages: [hashes -> length]
  Lengths,       \* lengths the service may ask for, or write
  ItemOverhead,  \* octets of a storage item besides key and value (34)
  RequestOverhead, \* octets of a request besides the preimage (81)
  Expunge,       \* slots a forgotten preimage is kept (32)
  Gaps,          \* distances between the slots of consecutive blocks
  MayRefuse,     \* whether blocks come whose preimages the check refuses
  WithdrawsLate, \* whether the service may drop a request the block provides
  MaxSlot        \* bound: last slot

Hashes == DOMAIN Blobs

ASSUME PreimagesConstants ==
  /\ Keys \in [DOMAIN Keys -> Nat]
  /\ Lengths \subseteq Nat /\ Blobs \in [Hashes -> Lengths]
  /\ {ItemOverhead, RequestOverhead, Expunge, MaxSlot} \subseteq Nat
  /\ Gaps \subseteq Nat \ {0}
  /\ {MayRefuse, WithdrawsLate} \subseteq BOOLEAN

VARIABLES
  storage,    \* lengths of the values stored: [keys -> length]
  requests,   \* preimage requests: [<<hash, length>> -> status]
  blobs,      \* hashes of the preimages the account holds
  items,      \* footprint: items
  bytes,      \* footprint: octets
  slot,       \* slot of the last block, or of the one being imported
  extrinsic,  \* preimages the block being imported provides
  importing,  \* whether the block's services are accumulating
  forgotAt,   \* history: slot at which each preimage was last forgotten
  refused     \* history: whether the check refused the preimages of a block

account == <<storage, requests, blobs, items, bytes>>
vars == <<account, slot, extrinsic, importing, forgotAt, refused>>

Empty == [x \in {} |-> 0]
With(f, x, v) == [y \in DOMAIN f \cup {x} |-> IF y = x THEN v ELSE f[y]]
Without(f, x) == Restrict(f, DOMAIN f \ {x})

Init ==
  /\ storage = Empty /\ requests = Empty /\ blobs = {}
  /\ items = 0 /\ bytes = 0 /\ slot = 0
  /\ extrinsic = {} /\ importing = FALSE
  /\ forgotAt = [h \in Hashes |-> 0] /\ refused = FALSE

-----------------------------------------------------------------------------
(* The block.                                                              *)

Requested(h, z) == <<h, z>> \in DOMAIN requests

\* Bug: a preimage already provided may be provided again.
NeededAnyStatus(h) == Requested(h, Blobs[h])

\* A provided preimage must be solicited and not provided yet.
Needed(h) == Requested(h, Blobs[h]) /\ requests[<<h, Blobs[h]>>] = <<>>

\* The extrinsic is judged by the state before the block, and kept anyway.
BeginBlock(provided, gap) ==
  /\ ~importing /\ slot + gap <= MaxSlot
  /\ refused' = (refused \/ \E h \in provided : ~Needed(h))
  /\ refused' => MayRefuse
  /\ slot' = slot + gap /\ extrinsic' = provided /\ importing' = TRUE
  /\ UNCHANGED <<account, forgotAt>>

\* Once the services have accumulated the preimages are stored and their
\* requests stamped, whatever became of them; the footprint stays.
EndBlock ==
  /\ importing
  /\ blobs' = blobs \cup extrinsic
  /\ LET stamped == {<<h, Blobs[h]>> : h \in extrinsic}
     IN  requests' = [r \in DOMAIN requests \cup stamped |->
                        IF r \in stamped THEN <<slot>> ELSE requests[r]]
  /\ importing' = FALSE /\ extrinsic' = {}
  /\ UNCHANGED <<storage, items, bytes, slot, forgotAt, refused>>

-----------------------------------------------------------------------------
(* The host calls.                                                         *)

\* Bug: an overwritten value still counts.
WriteGrowing(k, z) ==
  /\ importing
  /\ IF z = 0
     THEN /\ k \in DOMAIN storage /\ storage' = Without(storage, k)
          /\ items' = items - 1
          /\ bytes' = bytes - (ItemOverhead + Keys[k] + storage[k])
     ELSE /\ storage' = With(storage, k, z)
          /\ IF k \in DOMAIN storage
             THEN items' = items /\ bytes' = bytes + z
             ELSE items' = items + 1 /\ bytes' = bytes + ItemOverhead + Keys[k] + z
  /\ UNCHANGED <<requests, blobs, slot, extrinsic, importing, forgotAt, refused>>

\* write: an empty value deletes the item.
Write(k, z) ==
  /\ importing
  /\ IF z = 0
     THEN /\ k \in DOMAIN storage /\ storage' = Without(storage, k)
          /\ items' = items - 1
          /\ bytes' = bytes - (ItemOverhead + Keys[k] + storage[k])
     ELSE /\ storage' = With(storage, k, z)
          /\ IF k \in DOMAIN storage
             THEN items' = items /\ bytes' = bytes - storage[k] + z
             ELSE items' = items + 1 /\ bytes' = bytes + ItemOverhead + Keys[k] + z
  /\ UNCHANGED <<requests, blobs, slot, extrinsic, importing, forgotAt, refused>>

\* solicit: a new request, or a forgotten preimage wanted again.
Solicit(h, z) ==
  /\ importing
  /\ \/ /\ ~Requested(h, z)
        /\ requests' = With(requests, <<h, z>>, <<>>)
        /\ items' = items + 2 /\ bytes' = bytes + RequestOverhead + z
     \/ /\ Requested(h, z) /\ Len(requests[<<h, z>>]) = 2
        /\ requests' = [requests EXCEPT ![<<h, z>>] = Append(@, slot)]
        /\ UNCHANGED <<items, bytes>>
  /\ UNCHANGED <<storage, blobs, slot, extrinsic, importing, forgotAt, refused>>

\* Bug: the age is counted from the provision.
ExpiredSinceProvided(status) == status[1] < Max({slot - Expunge, 0})

\* Whether the status says that the preimage was forgotten long ago:
\* s[1] < slot.saturating_sub(EXPUNGE).
Expired(status) == status[2] < Max({slot - Expunge, 0})

Drop(h, z) ==
  /\ requests' = Without(requests, <<h, z>>)
  /\ items' = items - 2 /\ bytes' = bytes - (RequestOverhead + z)

\* forget, by status: never provided, forgotten long ago, provided, or
\* provided again after it was forgotten long ago.
Withdraw(h, z) ==
  /\ requests[<<h, z>>] = <<>>
  /\ Drop(h, z) /\ UNCHANGED <<blobs, forgotAt>>

\* Bug: the preimage stays behind.
PurgeRequest(h, z) ==
  /\ Len(requests[<<h, z>>]) = 2 /\ Expired(requests[<<h, z>>])
  /\ Drop(h, z) /\ UNCHANGED <<blobs, forgotAt>>

Purge(h, z) ==
  /\ Len(requests[<<h, z>>]) = 2 /\ Expired(requests[<<h, z>>])
  /\ Drop(h, z) /\ blobs' = blobs \ {h} /\ UNCHANGED forgotAt

Mark(h, z, provided) ==
  /\ requests' = [requests EXCEPT ![<<h, z>>] = <<provided, slot>>]
  /\ forgotAt' = [forgotAt EXCEPT ![h] = slot]
  /\ UNCHANGED <<items, bytes, blobs>>

Retire(h, z) ==
  /\ Len(requests[<<h, z>>]) = 1
  /\ Mark(h, z, requests[<<h, z>>][1])

RetireAgain(h, z) ==
  /\ Len(requests[<<h, z>>]) = 3 /\ Expired(requests[<<h, z>>])
  /\ Mark(h, z, requests[<<h, z>>][3])

Forget(h, z) ==
  /\ importing /\ Requested(h, z)
  /\ Withdraw(h, z) \/ Purge(h, z) \/ Retire(h, z) \/ RetireAgain(h, z)
  /\ UNCHANGED <<storage, slot, extrinsic, importing, refused>>

\* Unless WithdrawsLate, a service leaves alone what the block provides.
MayForget(h, z) == WithdrawsLate \/ h \notin extrinsic \/ z # Blobs[h]

Next ==
  \/ \E provided \in SUBSET Hashes, gap \in Gaps : BeginBlock(provided, gap)
  \/ \E k \in DOMAIN Keys, z \in Lengths \cup {0} : Write(k, z)
  \/ \E h \in Hashes, z \in Lengths : Solicit(h, z)
  \/ \E h \in Hashes, z \in Lengths : MayForget(h, z) /\ Forget(h, z)
  \/ EndBlock

Spec == Init /\ [][Next]_vars

-----------------------------------------------------------------------------
(* What it promises.                                                       *)

\* The variables have their types: a status is at most three slots, none of
\* them in the future.
TypeOK ==
  /\ DOMAIN storage \subseteq DOMAIN Keys
  /\ \A k \in DOMAIN storage : storage[k] \in Lengths \ {0}
  /\ DOMAIN requests \subseteq Hashes \X Lengths
  /\ \A r \in DOMAIN requests :
       requests[r] \in Seq(0..slot) /\ Len(requests[r]) <= 3
  /\ blobs \subseteq Hashes /\ extrinsic \subseteq Hashes
  /\ items \in Int /\ bytes \in Int /\ slot \in 0..MaxSlot
  /\ importing \in BOOLEAN /\ refused \in BOOLEAN /\ forgotAt \in [Hashes -> 0..MaxSlot]

Octets ==
  Total([k \in DOMAIN storage |-> ItemOverhead + Keys[k] + storage[k]])
  + Total([r \in DOMAIN requests |-> RequestOverhead + r[2]])

\* The footprint that fixes an account's minimum balance is that of what the
\* account holds, through every order of writes, requests, provisions and
\* withdrawals: "the footprint counts requests fixed at solicit time, so
\* provision leaves account metadata unchanged" (block_import.rs 422-425).
FootprintMatches ==
  ~refused =>
    /\ items = Cardinality(DOMAIN storage) + 2 * Cardinality(DOMAIN requests)
    /\ bytes = Octets

\* The account holds exactly the preimages whose request, for their true
\* length, says they were provided: nothing is left behind when a request
\* goes, and a request never promises what lookup cannot find, after blocks
\* with preimages that were refused too (preimages.rs 149-175,
\* accumulate_exec.rs 694-732, block_import.rs 426-435).
BlobsHaveRequests ==
  \A h \in Hashes :
    h \in blobs <=> /\ Requested(h, Blobs[h])
                    /\ requests[<<h, Blobs[h]>>] # <<>>

\* A status only ever records its next event: what a block provides was
\* judged before its services ran, yet the stamp that closes the block never
\* wipes a status, and no call goes back on one (preimages.rs 127-147,
\* block_import.rs 426-435, accumulate_exec.rs 666-732).
StatusMovesOn ==
  [][~refused => \A r \in DOMAIN requests \cap DOMAIN requests' :
       LET old == requests[r]
       IN  requests'[r] \in
             {old} \cup (IF Len(old) = 3 THEN {<<old[3], slot'>>}
                                         ELSE {Append(old, slot')})]_vars

\* A preimage leaves only when the last forget, not an earlier one, is more
\* than Expunge slots old, so that a lookup in the past still finds it,
\* whatever blocks provided since
\* (accumulate_exec.rs 178-181, 714-727).
ForgottenIsKept ==
  [][\A h \in blobs \ blobs' : forgotAt[h] + Expunge < slot]_vars
=============================================================================
