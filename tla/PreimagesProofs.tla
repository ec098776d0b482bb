--------------------------- MODULE PreimagesProofs ---------------------------
(***************************************************************************)
(* Proofs about Preimages: blobs and request statuses agree, and statuses  *)
(* only move on, for every set of preimages and lengths, every expunge     *)
(* period and every sequence of blocks and host calls, whether or not a    *)
(* service drops requests that the block provides; and if none does, the   *)
(* account's footprint is that of its requests.  What a refused block      *)
(* leaves is covered where the property covers it.                         *)
(***************************************************************************)
EXTENDS Preimages, FiniteSetTheorems, SequenceTheorems, TLAPS

\* What the proofs need of the types: nothing about the footprint.
Typed ==
  /\ DOMAIN requests \subseteq Hashes \X Lengths
  /\ requests \in [DOMAIN requests -> Seq(Nat)]
  /\ blobs \subseteq Hashes /\ extrinsic \subseteq Hashes
  /\ slot \in Nat /\ refused \in BOOLEAN

\* A request for another length than the preimage's is never provided.
OnlyTrueLength ==
  \A h \in Hashes, z \in Lengths :
    Requested(h, z) /\ z # Blobs[h] => requests[<<h, z>>] = <<>>

\* What the block will stamp is still unprovided, if still requested: as long
\* as every block was judged to be right.
Awaited == ~refused =>
  \A h \in extrinsic : Requested(h, Blobs[h]) => requests[<<h, Blobs[h]>>] = <<>>

IInv == Typed /\ OnlyTrueLength /\ Awaited /\ BlobsHaveRequests

\* The next event of a status.
Moves(old, new, s) ==
  new \in {old} \cup (IF Len(old) = 3 THEN {<<old[3], s>>} ELSE {Append(old, s)})

StepMoves == ~refused =>
  \A r \in DOMAIN requests \cap DOMAIN requests' :
    Moves(requests[r], requests'[r], slot')

\* A status of two slots is the pair of them.
LEMMA PairOf ==
  ASSUME NEW t \in Seq(Nat), Len(t) = 2
  PROVE  t = <<t[1], t[2]>>
  BY SeqEqual

\* The status of a provided preimage with the slot at which it was forgotten.
LEMMA AppendToOne ==
  ASSUME NEW q \in Seq(Nat), NEW s \in Nat
  PROVE  Len(q) = 1 => Append(q, s) = <<q[1], s>>
<1> DEFINE t == Append(q, s)
           n == Len(q)
<1>1. /\ t \in Seq(Nat) /\ Len(t) = n + 1 /\ t[n + 1] = s
      /\ \A i \in 1..n : t[i] = q[i]
  OBVIOUS
<1> HIDE DEF t, n
<1>2. n = 1 => t[1] = q[1] /\ t[2] = s /\ Len(t) = 2
  BY <1>1
<1>3. n = 1 => t = <<q[1], s>>
  BY <1>1, <1>2, PairOf
<1> QED
  BY <1>3 DEF t, n

\* Appending makes a status that is not empty.
LEMMA AppendNotEmpty ==
  ASSUME NEW q \in Seq(Nat), NEW s \in Nat
  PROVE  Append(q, s) # <<>> /\ Append(q, s) \in Seq(Nat)
  OBVIOUS

\* Every preimage has a length that may be asked for.
LEMMA BlobLength == \A h \in Hashes : Blobs[h] \in Lengths
  BY PreimagesConstants DEF Hashes

\* The slots of the blocks are numbers.
LEMMA GapsAreNat == \A g \in Gaps : g \in Nat
  BY PreimagesConstants

LEMMA InitInv == Init => IInv
<1> SUFFICES ASSUME Init PROVE IInv
  OBVIOUS
<1>1. /\ requests = Empty /\ DOMAIN requests = {} /\ refused = FALSE
      /\ blobs = {} /\ extrinsic = {} /\ slot = 0
  BY DEF Init, Empty
<1>2. Typed
  BY <1>1 DEF Typed, Empty
<1>3. OnlyTrueLength /\ Awaited /\ BlobsHaveRequests
  BY <1>1 DEF OnlyTrueLength, Awaited, BlobsHaveRequests, Requested
<1> QED
  BY <1>2, <1>3 DEF IInv

-----------------------------------------------------------------------------
LEMMA BeginBlockStep ==
  ASSUME IInv, NEW provided \in SUBSET Hashes, NEW gap \in Gaps, BeginBlock(provided, gap)
  PROVE  IInv' /\ StepMoves
<1>1. Typed'
  BY GapsAreNat DEF BeginBlock, account, IInv, Typed
<1>2. OnlyTrueLength' /\ BlobsHaveRequests'
  BY DEF BeginBlock, account, IInv, OnlyTrueLength, BlobsHaveRequests, Requested
<1>3. Awaited'
  BY DEF BeginBlock, account, Awaited, Needed, Requested
<1>4. StepMoves
  BY DEF BeginBlock, account, StepMoves, Moves
<1> QED
  BY <1>1, <1>2, <1>3, <1>4 DEF IInv

LEMMA EndBlockStep ==
  ASSUME IInv, EndBlock
  PROVE  IInv' /\ StepMoves
<1> DEFINE stamped == {<<h, Blobs[h]>> : h \in extrinsic}
<1>1. /\ DOMAIN requests' = DOMAIN requests \cup stamped
      /\ \A r \in DOMAIN requests' :
           requests'[r] = IF r \in stamped THEN <<slot>> ELSE requests[r]
  BY DEF EndBlock
<1>2. /\ blobs' = blobs \cup extrinsic /\ extrinsic' = {} /\ slot' = slot
      /\ refused' = refused
  BY DEF EndBlock
<1>3. <<slot>> \in Seq(Nat) /\ <<slot>> # <<>>
  BY DEF IInv, Typed
<1>4. stamped \subseteq Hashes \X Lengths
  BY BlobLength DEF IInv, Typed
<1>5. \A h \in Hashes, z \in Lengths :
        <<h, z>> \in stamped <=> h \in extrinsic /\ z = Blobs[h]
  OBVIOUS
<1>6. Typed'
  <2>1. requests' \in [DOMAIN requests' -> Seq(Nat)]
    <3>1. requests' = [r \in DOMAIN requests \cup stamped |->
                         IF r \in stamped THEN <<slot>> ELSE requests[r]]
      BY DEF EndBlock
    <3> QED
      BY <1>3, <3>1 DEF IInv, Typed
  <2> QED
    BY <1>1, <1>2, <1>4, <2>1 DEF IInv, Typed
<1>7. OnlyTrueLength'
  BY <1>1, <1>5 DEF IInv, OnlyTrueLength, Requested
<1>8. Awaited'
  BY <1>2 DEF Awaited
<1>9. BlobsHaveRequests'
  BY <1>1, <1>2, <1>3, <1>5, BlobLength DEF IInv, Typed, BlobsHaveRequests, Requested
<1>10. StepMoves
  <2> SUFFICES ASSUME ~refused, NEW r \in DOMAIN requests
               PROVE  Moves(requests[r], requests'[r], slot')
    BY DEF StepMoves
  <2>1. CASE r \in stamped
    <3>1. requests[r] = <<>>
      BY <2>1 DEF IInv, Awaited, Requested
    <3>2. requests'[r] = <<slot>>
      BY <1>1, <2>1
    <3>3. Append(<<>>, slot) = <<slot>> /\ Len(<<>>) = 0
      BY DEF IInv, Typed
    <3> QED
      BY <1>2, <3>1, <3>2, <3>3 DEF Moves
  <2>2. CASE r \notin stamped
    BY <1>1, <2>2 DEF Moves
  <2> QED
    BY <2>1, <2>2
<1> QED
  BY <1>6, <1>7, <1>8, <1>9, <1>10 DEF IInv

LEMMA WriteStep ==
  ASSUME IInv, NEW k \in DOMAIN Keys, NEW z \in Lengths \cup {0}, Write(k, z)
  PROVE  IInv' /\ StepMoves
<1>1. UNCHANGED <<requests, blobs, slot, extrinsic, refused>>
  BY DEF Write
<1> QED
  BY <1>1 DEF IInv, Typed, OnlyTrueLength, Awaited, BlobsHaveRequests, Requested,
              StepMoves, Moves

LEMMA SolicitStep ==
  ASSUME IInv, NEW h \in Hashes, NEW z \in Lengths, Solicit(h, z)
  PROVE  IInv' /\ StepMoves
<1>1. UNCHANGED <<blobs, slot, extrinsic, refused>> /\ slot \in Nat
  BY DEF Solicit, IInv, Typed
<1>2. CASE /\ ~Requested(h, z)
           /\ requests' = With(requests, <<h, z>>, <<>>)
  <2>1. /\ DOMAIN requests' = DOMAIN requests \cup {<<h, z>>}
        /\ requests'[<<h, z>>] = <<>>
        /\ \A r \in DOMAIN requests : requests'[r] = requests[r]
        /\ requests' \in [DOMAIN requests' -> Seq(Nat)]
    <3>1. <<>> \in Seq(Nat)
      OBVIOUS
    <3>2. requests' = [r \in DOMAIN requests \cup {<<h, z>>} |->
                         IF r = <<h, z>> THEN <<>> ELSE requests[r]]
      BY <1>2 DEF With
    <3> QED
      BY <1>2, <3>1, <3>2 DEF Requested, IInv, Typed
  <2>2. Typed'
    BY <1>1, <2>1 DEF IInv, Typed
  <2>3. OnlyTrueLength' /\ Awaited'
    BY <1>1, <2>1 DEF IInv, OnlyTrueLength, Awaited, Requested
  <2>4. BlobsHaveRequests'
    BY <1>1, <1>2, <2>1 DEF IInv, BlobsHaveRequests, Requested
  <2>5. StepMoves
    BY <1>1, <2>1 DEF StepMoves, Moves
  <2> QED
    BY <2>2, <2>3, <2>4, <2>5 DEF IInv
<1>3. CASE /\ Requested(h, z) /\ Len(requests[<<h, z>>]) = 2
           /\ requests' = [requests EXCEPT ![<<h, z>>] = Append(@, slot)]
  <2>1. requests[<<h, z>>] \in Seq(Nat) /\ requests[<<h, z>>] # <<>>
    BY <1>3 DEF IInv, Typed, Requested
  <2>2. /\ DOMAIN requests' = DOMAIN requests
        /\ requests'[<<h, z>>] = Append(requests[<<h, z>>], slot)
        /\ \A r \in DOMAIN requests : r # <<h, z>> => requests'[r] = requests[r]
    BY <1>3 DEF Requested, IInv, Typed
  <2>3. Append(requests[<<h, z>>], slot) # <<>> /\ Append(requests[<<h, z>>], slot) \in Seq(Nat)
    BY <1>1, <2>1, AppendNotEmpty
  <2>4. Typed'
    <3>1. requests' \in [DOMAIN requests' -> Seq(Nat)]
      BY <1>3, <2>2, <2>3 DEF IInv, Typed
    <3> QED
      BY <1>1, <2>2, <3>1 DEF IInv, Typed
  <2>5. z = Blobs[h] /\ (~refused => h \notin extrinsic)
    BY <1>3, <2>1 DEF IInv, OnlyTrueLength, Awaited
  <2>6. OnlyTrueLength' /\ Awaited'
    BY <1>1, <2>2, <2>5 DEF IInv, OnlyTrueLength, Awaited, Requested
  <2>7. BlobsHaveRequests'
    BY <1>1, <2>1, <2>2, <2>3, <2>5 DEF IInv, BlobsHaveRequests, Requested
  <2>8. Moves(requests[<<h, z>>], requests'[<<h, z>>], slot')
    BY <1>1, <1>3, <2>2 DEF Moves
  <2>9. StepMoves
    BY <2>2, <2>8 DEF StepMoves, Moves
  <2> QED
    BY <2>4, <2>6, <2>7, <2>9 DEF IInv
<1> QED
  BY <1>2, <1>3 DEF Solicit

-----------------------------------------------------------------------------
(* Forget, status by status.                                               *)

\* Dropping a request that is not provided, or together with the blob.
LEMMA DropStep ==
  ASSUME IInv, NEW h \in Hashes, NEW z \in Lengths, Requested(h, z),
         UNCHANGED <<slot, extrinsic, refused>>, Drop(h, z),
         \/ requests[<<h, z>>] = <<>> /\ blobs' = blobs
         \/ requests[<<h, z>>] # <<>> /\ blobs' = blobs \ {h}
  PROVE  IInv' /\ StepMoves
<1>1. /\ DOMAIN requests' = DOMAIN requests \ {<<h, z>>}
      /\ \A r \in DOMAIN requests' : requests'[r] = requests[r]
      /\ requests' \in [DOMAIN requests' -> Seq(Nat)]
  BY DEF Drop, Without, Restrict, IInv, Typed
<1>2. Typed'
  BY <1>1 DEF IInv, Typed
<1>3. OnlyTrueLength' /\ Awaited'
  BY <1>1 DEF IInv, OnlyTrueLength, Awaited, Requested
<1>4. BlobsHaveRequests'
  <2>1. CASE requests[<<h, z>>] = <<>> /\ blobs' = blobs
    BY <1>1, <2>1 DEF IInv, BlobsHaveRequests, Requested
  <2>2. CASE requests[<<h, z>>] # <<>> /\ blobs' = blobs \ {h}
    <3>1. z = Blobs[h]
      BY <2>2 DEF IInv, OnlyTrueLength
    <3> QED
      BY <1>1, <2>2, <3>1 DEF IInv, BlobsHaveRequests, Requested
  <2> QED
    BY <2>1, <2>2
<1>5. StepMoves
  BY <1>1 DEF StepMoves, Moves
<1> QED
  BY <1>2, <1>3, <1>4, <1>5 DEF IInv

\* Recording that a preimage was forgotten.
LEMMA MarkStep ==
  ASSUME IInv, NEW h \in Hashes, NEW z \in Lengths, Requested(h, z),
         UNCHANGED <<slot, extrinsic, refused>>, NEW provided \in Nat, Mark(h, z, provided),
         requests[<<h, z>>] # <<>>,
         Moves(requests[<<h, z>>], <<provided, slot>>, slot)
  PROVE  IInv' /\ StepMoves
<1>1. <<provided, slot>> \in Seq(Nat) /\ <<provided, slot>> # <<>>
  BY DEF IInv, Typed
<1>2. /\ DOMAIN requests' = DOMAIN requests
      /\ requests'[<<h, z>>] = <<provided, slot>>
      /\ \A r \in DOMAIN requests : r # <<h, z>> => requests'[r] = requests[r]
      /\ requests' \in [DOMAIN requests' -> Seq(Nat)]
      /\ blobs' = blobs
  BY <1>1 DEF Mark, Requested, IInv, Typed
<1>3. Typed'
  BY <1>2 DEF IInv, Typed
<1>4. z = Blobs[h] /\ (~refused => h \notin extrinsic)
  BY DEF IInv, OnlyTrueLength, Awaited
<1>5. OnlyTrueLength' /\ Awaited'
  BY <1>2, <1>4 DEF IInv, OnlyTrueLength, Awaited, Requested
<1>6. BlobsHaveRequests'
  BY <1>1, <1>2, <1>4 DEF IInv, BlobsHaveRequests, Requested
<1>7. StepMoves
  <2> SUFFICES ASSUME NEW r \in DOMAIN requests
               PROVE  Moves(requests[r], requests'[r], slot')
    BY DEF StepMoves
  <2>1. CASE r = <<h, z>>
    BY <1>2, <2>1
  <2>2. CASE r # <<h, z>>
    BY <1>2, <2>2 DEF Moves
  <2> QED
    BY <2>1, <2>2
<1> QED
  BY <1>3, <1>5, <1>6, <1>7 DEF IInv

LEMMA ForgetStep ==
  ASSUME IInv, NEW h \in Hashes, NEW z \in Lengths, Forget(h, z)
  PROVE  IInv' /\ StepMoves
<1> DEFINE status == requests[<<h, z>>]
<1>1. Requested(h, z) /\ UNCHANGED <<slot, extrinsic, refused>>
  BY DEF Forget
<1>2. status \in Seq(Nat) /\ slot \in Nat
  BY <1>1 DEF Requested, IInv, Typed
<1>3. CASE Withdraw(h, z)
  BY <1>1, <1>3, DropStep DEF Withdraw
<1>4. CASE Purge(h, z)
  <2>1. Len(status) = 2 /\ Drop(h, z) /\ blobs' = blobs \ {h}
    BY <1>4 DEF Purge
  <2>2. status # <<>>
    BY <2>1
  <2> HIDE DEF status
  <2> QED
    BY <1>1, <2>1, <2>2, DropStep DEF status
<1>5. CASE Retire(h, z)
  <2>1. Len(status) = 1 /\ Mark(h, z, status[1])
    BY <1>5 DEF Retire
  <2>2. status # <<>> /\ status[1] \in Nat
    BY <1>2, <2>1
  <2>3. Append(status, slot) = <<status[1], slot>>
    BY <1>2, <2>1, AppendToOne
  <2>4. Moves(status, <<status[1], slot>>, slot)
    BY <2>1, <2>3 DEF Moves
  <2> HIDE DEF status
  <2> QED
    BY <1>1, <2>1, <2>2, <2>4, MarkStep DEF status
<1>6. CASE RetireAgain(h, z)
  <2>1. Len(status) = 3 /\ Mark(h, z, status[3])
    BY <1>6 DEF RetireAgain
  <2>2. status # <<>> /\ status[3] \in Nat
    BY <1>2, <2>1
  <2>3. Moves(status, <<status[3], slot>>, slot)
    BY <2>1 DEF Moves
  <2> HIDE DEF status
  <2> QED
    BY <1>1, <2>1, <2>2, <2>3, MarkStep DEF status
<1> QED
  BY <1>3, <1>4, <1>5, <1>6 DEF Forget

-----------------------------------------------------------------------------
LEMMA NextStep ==
  ASSUME IInv, [Next]_vars
  PROVE  IInv' /\ StepMoves
<1>1. CASE \E provided \in SUBSET Hashes, gap \in Gaps : BeginBlock(provided, gap)
  BY <1>1, BeginBlockStep
<1>2. CASE \E k \in DOMAIN Keys, z \in Lengths \cup {0} : Write(k, z)
  BY <1>2, WriteStep
<1>3. CASE \E h \in Hashes, z \in Lengths : Solicit(h, z)
  BY <1>3, SolicitStep
<1>4. CASE \E h \in Hashes, z \in Lengths : MayForget(h, z) /\ Forget(h, z)
  BY <1>4, ForgetStep
<1>5. CASE EndBlock
  BY <1>5, EndBlockStep
<1>6. CASE UNCHANGED vars
  BY <1>6 DEF vars, account, IInv, Typed, OnlyTrueLength, Awaited, BlobsHaveRequests,
              Requested, StepMoves, Moves
<1> QED
  BY <1>1, <1>2, <1>3, <1>4, <1>5, <1>6 DEF Next

LEMMA Invariant == Spec => []IInv
<1>1. IInv /\ [Next]_vars => IInv'
  BY NextStep
<1> QED
  BY InitInv, <1>1, PTL DEF Spec

\* The account holds a preimage exactly if its request says it was provided.
THEOREM BlobsMatchStatuses == Spec => []BlobsHaveRequests
<1>1. IInv => BlobsHaveRequests
  BY DEF IInv
<1> QED
  BY Invariant, <1>1, PTL

\* No block and no host call goes back on a status.
THEOREM StatusesMoveOn == Spec => StatusMovesOn
<1>1. IInv /\ [Next]_vars =>
        [~refused => \A r \in DOMAIN requests \cap DOMAIN requests' :
           LET old == requests[r]
           IN  requests'[r] \in
                 {old} \cup (IF Len(old) = 3 THEN {<<old[3], slot'>>}
                                             ELSE {Append(old, slot')})]_vars
  BY NextStep DEF StepMoves, Moves
<1> QED
  BY Invariant, <1>1, PTL DEF Spec, StatusMovesOn

-----------------------------------------------------------------------------
(* Type correctness.                                                       *)

\* A sequence of slots up to now is one of slots up to a later one.
LEMMA SlotsGrow ==
  ASSUME NEW m \in Nat, NEW n \in Nat, m <= n, NEW q \in Seq(0..m)
  PROVE  q \in Seq(0..n)
  BY SeqDef

\* The status of a request after its next event.
LEMMA StatusGrows ==
  ASSUME NEW s \in Nat, NEW q \in Seq(0..s)
  PROVE  /\ Append(q, s) \in Seq(0..s) /\ Len(Append(q, s)) = Len(q) + 1
         /\ \A i \in 1..Len(q) : <<q[i], s>> \in Seq(0..s) /\ Len(<<q[i], s>>) = 2
         /\ <<>> \in Seq(0..s) /\ <<s>> \in Seq(0..s) /\ Len(<<s>>) = 1
  OBVIOUS

LEMMA InitTypes == Init => TypeOK
<1> SUFFICES ASSUME Init PROVE TypeOK
  OBVIOUS
<1>1. /\ storage = Empty /\ requests = Empty /\ DOMAIN Empty = {}
      /\ blobs = {} /\ extrinsic = {} /\ items = 0 /\ bytes = 0 /\ slot = 0
      /\ forgotAt = [h \in Hashes |-> 0]
  BY DEF Init, Empty
<1>2. slot \in 0..MaxSlot /\ forgotAt \in [Hashes -> 0..MaxSlot]
  BY <1>1, PreimagesConstants
<1>3. DOMAIN storage = {} /\ DOMAIN requests = {} /\ items \in Int /\ bytes \in Int
  BY <1>1
<1>4. importing \in BOOLEAN /\ refused \in BOOLEAN
  BY DEF Init
<1> QED
  BY <1>1, <1>2, <1>3, <1>4 DEF TypeOK

\* Steps that leave the requests alone.
LEMMA BlockTypes ==
  ASSUME TypeOK, NEW provided \in SUBSET Hashes, NEW gap \in Gaps, BeginBlock(provided, gap)
  PROVE  TypeOK'
<1>1. UNCHANGED account /\ slot' = slot + gap /\ slot' <= MaxSlot
  BY DEF BeginBlock
<1>2. slot \in Nat /\ slot' \in Nat /\ slot <= slot' /\ slot' \in 0..MaxSlot
  BY <1>1, GapsAreNat, PreimagesConstants DEF TypeOK
<1>3. \A r \in DOMAIN requests : requests[r] \in Seq(0..slot')
  BY <1>2, SlotsGrow DEF TypeOK
<1>4. /\ UNCHANGED <<storage, requests, blobs, items, bytes, forgotAt>>
      /\ extrinsic' \subseteq Hashes /\ importing' \in BOOLEAN
  BY <1>1 DEF BeginBlock, account
<1>5. refused' \in BOOLEAN
  BY DEF BeginBlock, TypeOK
<1> QED
  BY <1>2, <1>3, <1>4, <1>5 DEF TypeOK

LEMMA WriteTypes ==
  ASSUME TypeOK, NEW k \in DOMAIN Keys, NEW z \in Lengths \cup {0}, Write(k, z)
  PROVE  TypeOK'
<1>1. UNCHANGED <<requests, blobs, slot, extrinsic, importing, forgotAt, refused>>
  BY DEF Write
<1>2. /\ \A x \in DOMAIN storage : storage[x] \in Nat
      /\ Keys[k] \in Nat /\ z \in Nat /\ ItemOverhead \in Nat
  BY PreimagesConstants DEF TypeOK
<1>3. /\ DOMAIN storage' \subseteq DOMAIN Keys
      /\ \A x \in DOMAIN storage' : storage'[x] \in Lengths \ {0}
      /\ items' \in Int /\ bytes' \in Int
  <2>1. CASE z = 0
    BY <1>2, <2>1 DEF Write, Without, Restrict, TypeOK
  <2>2. CASE z # 0
    <3>1. storage' = With(storage, k, z)
      BY <2>2 DEF Write
    <3>2. DOMAIN storage' \subseteq DOMAIN Keys
          /\ \A x \in DOMAIN storage' : storage'[x] \in Lengths \ {0}
      BY <2>2, <3>1 DEF With, TypeOK
    <3>3. items' \in Int /\ bytes' \in Int
      BY <1>2, <2>2 DEF Write, TypeOK
    <3> QED
      BY <3>2, <3>3
  <2> QED
    BY <2>1, <2>2
<1> QED
  BY <1>1, <1>3 DEF TypeOK

\* Steps that change one request: what they have to show.
LEMMA RequestTypes ==
  ASSUME TypeOK, UNCHANGED <<storage, slot, importing, refused>>,
         DOMAIN requests' \subseteq Hashes \X Lengths,
         \A r \in DOMAIN requests' :
           \/ r \in DOMAIN requests /\ requests'[r] = requests[r]
           \/ requests'[r] \in Seq(0..slot) /\ Len(requests'[r]) <= 3,
         blobs' \subseteq Hashes, extrinsic' \subseteq Hashes,
         items' \in Int, bytes' \in Int, forgotAt' \in [Hashes -> 0..MaxSlot]
  PROVE  TypeOK'
  BY DEF TypeOK

LEMMA SolicitTypes ==
  ASSUME TypeOK, NEW h \in Hashes, NEW z \in Lengths, Solicit(h, z)
  PROVE  TypeOK'
<1>1. UNCHANGED <<storage, blobs, slot, extrinsic, importing, forgotAt, refused>>
  BY DEF Solicit
<1>2. slot \in Nat /\ z \in Nat /\ RequestOverhead \in Nat
  BY PreimagesConstants DEF TypeOK
<1>3. items' \in Int /\ bytes' \in Int
  BY <1>2 DEF Solicit, TypeOK
<1>4. CASE ~Requested(h, z) /\ requests' = With(requests, <<h, z>>, <<>>)
  <2>1. /\ DOMAIN requests' = DOMAIN requests \cup {<<h, z>>}
        /\ requests'[<<h, z>>] = <<>>
        /\ \A r \in DOMAIN requests : requests'[r] = requests[r]
    BY <1>4 DEF With, Requested
  <2>2. <<>> \in Seq(0..slot) /\ Len(<<>>) <= 3
    OBVIOUS
  <2>3. DOMAIN requests' \subseteq Hashes \X Lengths
    BY <2>1 DEF TypeOK
  <2>4. /\ blobs' \subseteq Hashes /\ extrinsic' \subseteq Hashes
        /\ forgotAt' \in [Hashes -> 0..MaxSlot]
    BY <1>1 DEF TypeOK
  <2> QED
    BY <1>1, <1>3, <2>1, <2>2, <2>3, <2>4, RequestTypes
<1>5. CASE /\ Requested(h, z) /\ Len(requests[<<h, z>>]) = 2
           /\ requests' = [requests EXCEPT ![<<h, z>>] = Append(@, slot)]
  <2>1. /\ DOMAIN requests' = DOMAIN requests
        /\ requests'[<<h, z>>] = Append(requests[<<h, z>>], slot)
        /\ \A r \in DOMAIN requests : r # <<h, z>> => requests'[r] = requests[r]
    BY <1>5 DEF Requested
  <2>2. requests[<<h, z>>] \in Seq(0..slot)
    BY <1>5 DEF TypeOK, Requested
  <2>3. /\ Append(requests[<<h, z>>], slot) \in Seq(0..slot)
        /\ Len(Append(requests[<<h, z>>], slot)) = Len(requests[<<h, z>>]) + 1
    BY <1>2, <2>2, StatusGrows
  <2>4. requests'[<<h, z>>] \in Seq(0..slot) /\ Len(requests'[<<h, z>>]) <= 3
    <3> DEFINE n == Len(requests[<<h, z>>])
               new == requests'[<<h, z>>]
               m == Len(new)
    <3>1. n = 2 /\ m = n + 1 /\ new \in Seq(0..slot)
      BY <1>5, <2>1, <2>3
    <3> HIDE DEF n, m
    <3>2. m <= 3
      BY <3>1
    <3> QED
      BY <3>1, <3>2 DEF m
  <2>5. /\ blobs' \subseteq Hashes /\ extrinsic' \subseteq Hashes
        /\ forgotAt' \in [Hashes -> 0..MaxSlot] /\ DOMAIN requests' \subseteq Hashes \X Lengths
    BY <1>1, <2>1 DEF TypeOK
  <2> QED
    BY <1>1, <1>3, <2>1, <2>4, <2>5, RequestTypes
<1> QED
  BY <1>4, <1>5 DEF Solicit

LEMMA ForgetTypes ==
  ASSUME TypeOK, NEW h \in Hashes, NEW z \in Lengths, Forget(h, z)
  PROVE  TypeOK'
<1> DEFINE status == requests[<<h, z>>]
<1>1. Requested(h, z) /\ UNCHANGED <<storage, slot, extrinsic, importing, refused>>
  BY DEF Forget
<1>2. /\ slot \in Nat /\ slot \in 0..MaxSlot /\ z \in Nat /\ RequestOverhead \in Nat
      /\ status \in Seq(0..slot)
  BY <1>1, PreimagesConstants DEF TypeOK, Requested
<1>3. CASE Withdraw(h, z) \/ Purge(h, z)
  <2>1. Drop(h, z) /\ blobs' \in {blobs, blobs \ {h}} /\ forgotAt' = forgotAt
    BY <1>3 DEF Withdraw, Purge
  <2>2. /\ DOMAIN requests' = DOMAIN requests \ {<<h, z>>}
        /\ \A r \in DOMAIN requests' : requests'[r] = requests[r]
    BY <2>1 DEF Drop, Without, Restrict
  <2>3. items' \in Int /\ bytes' \in Int
    BY <1>2, <2>1 DEF Drop, TypeOK
  <2>4. /\ blobs' \subseteq Hashes /\ extrinsic' \subseteq Hashes
        /\ forgotAt' \in [Hashes -> 0..MaxSlot] /\ DOMAIN requests' \subseteq Hashes \X Lengths
    BY <1>1, <2>1, <2>2 DEF TypeOK
  <2> QED
    BY <1>1, <2>2, <2>3, <2>4, RequestTypes
<1>4. CASE Retire(h, z) \/ RetireAgain(h, z)
  <2>1. PICK i \in 1..Len(status) : Mark(h, z, status[i])
    BY <1>4 DEF Retire, RetireAgain
  <2>2. <<status[i], slot>> \in Seq(0..slot) /\ Len(<<status[i], slot>>) = 2
    BY <1>2, <2>1, StatusGrows
  <2>3. /\ requests' = [requests EXCEPT ![<<h, z>>] = <<status[i], slot>>]
        /\ forgotAt' = [forgotAt EXCEPT ![h] = slot]
        /\ UNCHANGED <<items, bytes, blobs>>
    BY <2>1 DEF Mark
  <2> HIDE DEF status
  <2>4. /\ DOMAIN requests' = DOMAIN requests
        /\ requests'[<<h, z>>] \in Seq(0..slot) /\ Len(requests'[<<h, z>>]) <= 3
        /\ \A r \in DOMAIN requests : r # <<h, z>> => requests'[r] = requests[r]
    BY <1>1, <2>2, <2>3 DEF Requested
  <2>5. /\ blobs' \subseteq Hashes /\ extrinsic' \subseteq Hashes
        /\ forgotAt' \in [Hashes -> 0..MaxSlot] /\ DOMAIN requests' \subseteq Hashes \X Lengths
        /\ items' \in Int /\ bytes' \in Int
    BY <1>1, <1>2, <2>3, <2>4 DEF TypeOK
  <2> QED
    BY <1>1, <2>4, <2>5, RequestTypes
<1> QED
  BY <1>3, <1>4 DEF Forget

LEMMA EndBlockTypes ==
  ASSUME TypeOK, EndBlock
  PROVE  TypeOK'
<1> DEFINE stamped == {<<h, Blobs[h]>> : h \in extrinsic}
<1>1. /\ DOMAIN requests' = DOMAIN requests \cup stamped
      /\ \A r \in DOMAIN requests' :
           requests'[r] = IF r \in stamped THEN <<slot>> ELSE requests[r]
  BY DEF EndBlock
<1>2. slot \in Nat
  BY PreimagesConstants DEF TypeOK
<1>3. <<slot>> \in Seq(0..slot) /\ Len(<<slot>>) <= 3
  BY <1>2
<1>4. stamped \subseteq Hashes \X Lengths
  BY BlobLength DEF TypeOK
<1> HIDE DEF stamped
<1> QED
  BY <1>1, <1>3, <1>4 DEF EndBlock, TypeOK

\* A status records at most three slots, none of them in the future, and every
\* variable has its type, whatever blocks and host calls come, refused
\* preimages included (accumulate_exec.rs 666-732, block_import.rs 426-435).
THEOREM TypeCorrect == Spec => []TypeOK
<1>1. TypeOK /\ [Next]_vars => TypeOK'
  <2> SUFFICES ASSUME TypeOK, [Next]_vars PROVE TypeOK'
    OBVIOUS
  <2>1. CASE \E provided \in SUBSET Hashes, gap \in Gaps : BeginBlock(provided, gap)
    BY <2>1, BlockTypes
  <2>2. CASE \E k \in DOMAIN Keys, z \in Lengths \cup {0} : Write(k, z)
    BY <2>2, WriteTypes
  <2>3. CASE \E h \in Hashes, z \in Lengths : Solicit(h, z)
    BY <2>3, SolicitTypes
  <2>4. CASE \E h \in Hashes, z \in Lengths : MayForget(h, z) /\ Forget(h, z)
    BY <2>4, ForgetTypes
  <2>5. CASE EndBlock
    BY <2>5, EndBlockTypes
  <2>6. CASE UNCHANGED vars
    BY <2>6 DEF vars, account, TypeOK
  <2> QED
    BY <2>1, <2>2, <2>3, <2>4, <2>5, <2>6 DEF Next
<1> QED
  BY InitTypes, <1>1, PTL DEF Spec

-----------------------------------------------------------------------------
(* The expunge period.                                                     *)

Status(h) == requests[<<h, Blobs[h]>>]

\* A forgotten preimage's status tells when it was forgotten last.
LastForgotten ==
  \A h \in Hashes :
    Requested(h, Blobs[h]) /\ Len(Status(h)) = 2 => Status(h)[2] = forgotAt[h]

PurgedLate == \A h \in blobs \ blobs' : forgotAt[h] + Expunge < slot

\* Steps that forget nothing: what becomes a status of two slots was one.
LEMMA NothingForgotten ==
  ASSUME LastForgotten, UNCHANGED forgotAt,
         \A r \in DOMAIN requests' : Len(requests'[r]) = 2 =>
           r \in DOMAIN requests /\ requests'[r] = requests[r]
  PROVE  LastForgotten'
  BY DEF LastForgotten, Status, Requested

LEMMA EndBlockForgets ==
  ASSUME LastForgotten, EndBlock
  PROVE  LastForgotten' /\ PurgedLate
<1> DEFINE stamped == {<<h, Blobs[h]>> : h \in extrinsic}
<1>1. /\ DOMAIN requests' = DOMAIN requests \cup stamped
      /\ \A r \in DOMAIN requests' :
           requests'[r] = IF r \in stamped THEN <<slot>> ELSE requests[r]
      /\ UNCHANGED forgotAt /\ blobs' = blobs \cup extrinsic
  BY DEF EndBlock
<1> HIDE DEF stamped
<1>2. \A r \in DOMAIN requests' : Len(requests'[r]) = 2 =>
        r \in DOMAIN requests /\ requests'[r] = requests[r]
  BY <1>1
<1> QED
  BY <1>1, <1>2, NothingForgotten DEF PurgedLate

LEMMA SolicitForgets ==
  ASSUME IInv, LastForgotten, NEW h \in Hashes, NEW z \in Lengths, Solicit(h, z)
  PROVE  LastForgotten' /\ PurgedLate
<1>1. UNCHANGED <<blobs, forgotAt>>
  BY DEF Solicit
<1>2. CASE ~Requested(h, z) /\ requests' = With(requests, <<h, z>>, <<>>)
  <2>1. \A r \in DOMAIN requests' : Len(requests'[r]) = 2 =>
          r \in DOMAIN requests /\ requests'[r] = requests[r]
    BY <1>2 DEF With
  <2> QED
    BY <1>1, <2>1, NothingForgotten DEF PurgedLate
<1>3. CASE /\ Requested(h, z) /\ Len(requests[<<h, z>>]) = 2
           /\ requests' = [requests EXCEPT ![<<h, z>>] = Append(@, slot)]
  <2> DEFINE old == requests[<<h, z>>]
             new == Append(old, slot)
  <2>1. old \in Seq(Nat) /\ slot \in Nat
    BY <1>3 DEF Requested, IInv, Typed
  <2>2. Len(new) = Len(old) + 1
    BY <2>1
  <2>3. Len(new) = 3
    BY <1>3, <2>2
  <2>4. /\ DOMAIN requests' = DOMAIN requests /\ requests'[<<h, z>>] = new
        /\ \A r \in DOMAIN requests : r # <<h, z>> => requests'[r] = requests[r]
    BY <1>3 DEF Requested
  <2> HIDE DEF new
  <2>5. \A r \in DOMAIN requests' : Len(requests'[r]) = 2 =>
          r \in DOMAIN requests /\ requests'[r] = requests[r]
    BY <2>3, <2>4
  <2> QED
    BY <1>1, <2>5, NothingForgotten DEF PurgedLate
<1> QED
  BY <1>2, <1>3 DEF Solicit

LEMMA ForgetForgets ==
  ASSUME TypeOK, IInv, LastForgotten, NEW h \in Hashes, NEW z \in Lengths, Forget(h, z)
  PROVE  LastForgotten' /\ PurgedLate
<1> DEFINE status == requests[<<h, z>>]
<1>1. Requested(h, z) /\ status \in Seq(Nat)
  BY DEF Forget, Requested, IInv, Typed
<1>2. status # <<>> => z = Blobs[h]
  BY <1>1 DEF IInv, OnlyTrueLength
<1>3. CASE Withdraw(h, z) \/ Purge(h, z)
  <2>1. UNCHANGED forgotAt
    BY <1>3 DEF Withdraw, Purge
  <2>2. \A r \in DOMAIN requests' : r \in DOMAIN requests /\ requests'[r] = requests[r]
    BY <1>3 DEF Withdraw, Purge, Drop, Without, Restrict
  <2>3. LastForgotten'
    BY <2>1, <2>2, NothingForgotten
  <2>4. CASE Withdraw(h, z)
    BY <2>3, <2>4 DEF Withdraw, PurgedLate
  <2>5. CASE Purge(h, z)
    <3>1. Len(status) = 2 /\ Expired(status) /\ blobs' = blobs \ {h}
      BY <2>5 DEF Purge
    <3>2. status[2] = forgotAt[h] /\ status[2] \in Nat
      BY <1>1, <1>2, <3>1 DEF LastForgotten, Status
    <3>3. slot \in Nat /\ Expunge \in Nat
      BY PreimagesConstants DEF IInv, Typed
    <3>4. status[2] < Max({slot - Expunge, 0})
      BY <3>1 DEF Expired
    <3>5. Max({slot - Expunge, 0}) = IF slot - Expunge > 0 THEN slot - Expunge ELSE 0
      BY <3>3 DEF Max
    <3> HIDE DEF status
    <3>6. forgotAt[h] + Expunge < slot
      BY <3>2, <3>3, <3>4, <3>5
    <3> QED
      BY <2>3, <3>1, <3>6 DEF PurgedLate
  <2> QED
    BY <1>3, <2>4, <2>5
<1>4. CASE Retire(h, z) \/ RetireAgain(h, z)
  <2>1. PICK provided : Mark(h, z, provided)
    BY <1>4 DEF Retire, RetireAgain
  <2>2. z = Blobs[h]
    BY <1>1, <1>2, <1>4 DEF Retire, RetireAgain
  <2>3. /\ DOMAIN requests' = DOMAIN requests
        /\ requests'[<<h, z>>] = <<provided, slot>>
        /\ \A r \in DOMAIN requests : r # <<h, z>> => requests'[r] = requests[r]
        /\ blobs' = blobs
    BY <1>1, <2>1 DEF Mark, Requested
  <2>4. forgotAt' = [forgotAt EXCEPT ![h] = slot] /\ DOMAIN forgotAt = Hashes
    BY <2>1 DEF Mark, TypeOK
  <2>5. ASSUME NEW g \in Hashes, Requested(g, Blobs[g])', Len(Status(g)') = 2
        PROVE  Status(g)'[2] = forgotAt'[g]
    <3>1. CASE g = h
      BY <2>2, <2>3, <2>4, <3>1 DEF Status
    <3>2. CASE g # h
      BY <2>3, <2>4, <2>5, <3>2 DEF Status, LastForgotten, Requested
    <3> QED
      BY <3>1, <3>2
  <2> QED
    BY <2>3, <2>5 DEF LastForgotten, PurgedLate
<1> QED
  BY <1>3, <1>4 DEF Forget

LEMMA NextForgets ==
  ASSUME TypeOK, IInv, LastForgotten, [Next]_vars
  PROVE  LastForgotten' /\ PurgedLate
<1>1. CASE \E provided \in SUBSET Hashes, gap \in Gaps : BeginBlock(provided, gap)
  BY <1>1 DEF BeginBlock, account, LastForgotten, Status, Requested, PurgedLate
<1>2. CASE \E k \in DOMAIN Keys, z \in Lengths \cup {0} : Write(k, z)
  BY <1>2 DEF Write, LastForgotten, Status, Requested, PurgedLate
<1>3. CASE \E h \in Hashes, z \in Lengths : Solicit(h, z)
  BY <1>3, SolicitForgets
<1>4. CASE \E h \in Hashes, z \in Lengths : MayForget(h, z) /\ Forget(h, z)
  BY <1>4, ForgetForgets
<1>5. CASE EndBlock
  BY <1>5, EndBlockForgets
<1>6. CASE UNCHANGED vars
  BY <1>6 DEF vars, account, LastForgotten, Status, Requested, PurgedLate
<1> QED
  BY <1>1, <1>2, <1>3, <1>4, <1>5, <1>6 DEF Next

\* A preimage is purged only when it was last forgotten more than the expunge
\* period ago, for every period and whatever blocks provide or wipe meanwhile,
\* refused preimages included (accumulate_exec.rs 178-181, 714-727).
THEOREM PurgedAfterExpunge == Spec => ForgottenIsKept
<1>1. Init => LastForgotten
  BY DEF Init, Empty, LastForgotten, Requested
<1>2. TypeOK /\ IInv /\ LastForgotten /\ [Next]_vars =>
        LastForgotten' /\ [\A h \in blobs \ blobs' : forgotAt[h] + Expunge < slot]_vars
  BY NextForgets DEF PurgedLate
<1> QED
  BY TypeCorrect, Invariant, <1>1, <1>2, PTL DEF Spec, ForgottenIsKept

-----------------------------------------------------------------------------
(* Totals.                                                                 *)

\* A function of natural numbers with finitely many places.
Counted(f) == IsFiniteSet(DOMAIN f) /\ \A x \in DOMAIN f : f[x] \in Nat

ValueIn(f, x) == IF x \in DOMAIN f THEN f[x] ELSE 0

LEMMA UnitsOf ==
  ASSUME NEW f, NEW u
  PROVE  u \in Units(f) <=> \E x \in DOMAIN f : \E i \in 1..f[x] : u = <<x, i>>
  BY DEF Units

\* The units of one place are as many as its number.
LEMMA OnePlace ==
  ASSUME NEW x, NEW n \in Nat
  PROVE  IsFiniteSet({x} \X (1..n)) /\ Cardinality({x} \X (1..n)) = n
<1>1. IsFiniteSet(1..n) /\ Cardinality(1..n) = n
  BY FS_Interval
<1>2. IsFiniteSet({x}) /\ Cardinality({x}) = 1
  BY FS_Singleton
<1>3. /\ IsFiniteSet({x} \X (1..n))
      /\ Cardinality({x} \X (1..n)) = Cardinality({x}) * Cardinality(1..n)
  BY <1>1, <1>2, FS_Product
<1>4. \A c, d \in Nat : c = 1 => c * d = d
  OBVIOUS
<1> QED
  BY <1>1, <1>2, <1>3, <1>4

LEMMA UnitsFinite ==
  ASSUME NEW f, Counted(f)
  PROVE  IsFiniteSet(Units(f)) /\ Total(f) \in Nat
<1> DEFINE place == [x \in DOMAIN f |-> {x} \X (1..f[x])]
           places == {{x} \X (1..f[x]) : x \in DOMAIN f}
<1>1. place \in Surjection(DOMAIN f, places)
  BY DEF Surjection
<1>2. IsFiniteSet(places)
  <2> HIDE DEF place, places
  <2> QED
    BY <1>1, FS_Surjection DEF Counted
<1>3. \A T \in places : IsFiniteSet(T)
  <2>1. \A x \in DOMAIN f : IsFiniteSet({x} \X (1..f[x]))
    BY OnePlace DEF Counted
  <2> QED
    BY <2>1
<1>4. IsFiniteSet(UNION places)
  <2> HIDE DEF places
  <2> QED
    BY <1>2, <1>3, FS_UNION
<1>5. IsFiniteSet(Units(f))
  BY <1>4 DEF Units
<1> QED
  BY <1>5, FS_CardinalityType DEF Total

\* The total without one place.
LEMMA TotalApart ==
  ASSUME NEW f, Counted(f), NEW x \in DOMAIN f,
         NEW g, DOMAIN g = DOMAIN f \ {x}, \A y \in DOMAIN g : g[y] = f[y]
  PROVE  Counted(g) /\ Total(f) = Total(g) + f[x]
<1> DEFINE here == {x} \X (1..f[x])
<1>1. IsFiniteSet(DOMAIN g)
  BY FS_RemoveElement DEF Counted
<1>2. Counted(g)
  BY <1>1 DEF Counted
<1>3. IsFiniteSet(here) /\ Cardinality(here) = f[x]
  BY OnePlace DEF Counted
<1>4. IsFiniteSet(Units(g))
  BY <1>2, UnitsFinite
<1>5. Units(f) = Units(g) \cup here
  BY UnitsOf
<1>6. Units(g) \cap here = {}
  BY UnitsOf
<1> HIDE DEF here
<1>7. /\ Cardinality(Units(f)) =
           Cardinality(Units(g)) + Cardinality(here) - Cardinality(Units(g) \cap here)
  BY <1>3, <1>4, <1>5, FS_Union
<1>8. Cardinality(Units(g) \cap here) = 0
  BY <1>6, FS_EmptySet
<1>9. Cardinality(Units(g)) \in Nat
  BY <1>4, FS_CardinalityType
<1>10. f[x] \in Nat
  BY DEF Counted
<1>11. \A a, b \in Nat : a + b - 0 = a + b
  OBVIOUS
<1> QED
  BY <1>2, <1>3, <1>7, <1>8, <1>9, <1>10, <1>11 DEF Total

LEMMA TotalSame ==
  ASSUME NEW f, NEW g, DOMAIN g = DOMAIN f, \A y \in DOMAIN f : g[y] = f[y]
  PROVE  Total(g) = Total(f)
<1>1. \A u : u \in Units(g) <=> u \in Units(f)
  BY UnitsOf
<1> QED
  BY <1>1 DEF Total

\* A function that differs from another at one place, or has one more.
LEMMA TotalChanged ==
  ASSUME NEW f, Counted(f), NEW x, NEW g, DOMAIN g = DOMAIN f \cup {x},
         \A y \in DOMAIN f \ {x} : g[y] = f[y], g[x] \in Nat
  PROVE  /\ Counted(g) /\ ValueIn(f, x) \in Nat
         /\ Total(g) + ValueIn(f, x) = Total(f) + g[x]
<1> DEFINE rest == [y \in DOMAIN f \ {x} |-> f[y]]
<1>1. Counted(g)
  <2>1. IsFiniteSet(DOMAIN g)
    BY FS_AddElement DEF Counted
  <2> QED
    BY <2>1 DEF Counted
<1>2. DOMAIN rest = DOMAIN g \ {x} /\ \A y \in DOMAIN rest : rest[y] = g[y]
  OBVIOUS
<1>3. \A y \in DOMAIN rest : rest[y] = f[y]
  OBVIOUS
<1>4. DOMAIN rest = DOMAIN f \ {x}
  OBVIOUS
<1> HIDE DEF rest
<1>5. Counted(rest) /\ Total(g) = Total(rest) + g[x]
  BY <1>1, <1>2, TotalApart
<1>6. Total(rest) \in Nat
  BY <1>5, UnitsFinite
<1>7. CASE x \in DOMAIN f
  <2>1. Total(f) = Total(rest) + f[x]
    BY <1>3, <1>4, <1>7, TotalApart
  <2>2. f[x] \in Nat /\ ValueIn(f, x) = f[x]
    BY <1>7 DEF Counted, ValueIn
  <2> QED
    BY <1>1, <1>5, <1>6, <2>1, <2>2
<1>8. CASE x \notin DOMAIN f
  <2>1. DOMAIN rest = DOMAIN f /\ ValueIn(f, x) = 0
    BY <1>4, <1>8 DEF ValueIn
  <2>2. Total(rest) = Total(f)
    BY <1>3, <2>1, TotalSame
  <2> QED
    BY <1>1, <1>5, <1>6, <2>1, <2>2
<1> QED
  BY <1>7, <1>8

-----------------------------------------------------------------------------
(* The footprint.                                                          *)

StorageOctets(s) == [k \in DOMAIN s |-> ItemOverhead + Keys[k] + s[k]]
RequestOctets(q) == [r \in DOMAIN q |-> RequestOverhead + r[2]]

\* That the footprint of s and q is this many items and octets.
IsFootprint(s, q, n, octets) ==
  /\ IsFiniteSet(DOMAIN s) /\ IsFiniteSet(DOMAIN q)
  /\ n = Cardinality(DOMAIN s) + 2 * Cardinality(DOMAIN q)
  /\ octets = Total(StorageOctets(s)) + Total(RequestOctets(q))

\* What the block provides is still requested, so that its stamps fall on
\* requests that are counted: a service leaves them alone.
FInv == ~refused => /\ IsFootprint(storage, requests, items, bytes)
                    /\ \A h \in extrinsic : Requested(h, Blobs[h])

LEMMA FootprintImplies == FInv => FootprintMatches
  BY DEF FInv, IsFootprint, FootprintMatches, Octets, StorageOctets, RequestOctets

LEMMA OctetsTyped ==
  /\ ItemOverhead \in Nat /\ RequestOverhead \in Nat
  /\ \A k \in DOMAIN Keys : Keys[k] \in Nat
  /\ Lengths \subseteq Nat
  BY PreimagesConstants

LEMMA OctetsCounted ==
  ASSUME TypeOK, IsFiniteSet(DOMAIN storage), IsFiniteSet(DOMAIN requests)
  PROVE  /\ Counted(StorageOctets(storage)) /\ Counted(RequestOctets(requests))
         /\ Total(StorageOctets(storage)) \in Nat /\ Total(RequestOctets(requests)) \in Nat
         /\ Cardinality(DOMAIN storage) \in Nat /\ Cardinality(DOMAIN requests) \in Nat
<1>1. \A k \in DOMAIN storage : ItemOverhead + Keys[k] + storage[k] \in Nat
  <2>1. \A k \in DOMAIN storage : Keys[k] \in Nat /\ storage[k] \in Nat
    BY OctetsTyped DEF TypeOK
  <2> QED
    BY <2>1, OctetsTyped
<1>2. \A r \in DOMAIN requests : RequestOverhead + r[2] \in Nat
  <2>1. \A r \in Hashes \X Lengths : r[2] \in Nat
    BY OctetsTyped
  <2> QED
    BY <2>1, OctetsTyped DEF TypeOK
<1>3. Counted(StorageOctets(storage))
  BY <1>1 DEF Counted, StorageOctets
<1>4. Counted(RequestOctets(requests))
  BY <1>2 DEF Counted, RequestOctets
<1> QED
  BY <1>3, <1>4, UnitsFinite, FS_CardinalityType

LEMMA InitFootprint == Init => FInv
<1> SUFFICES ASSUME Init PROVE FInv
  OBVIOUS
<1>1. /\ DOMAIN storage = {} /\ DOMAIN requests = {} /\ items = 0 /\ bytes = 0
      /\ extrinsic = {}
  BY DEF Init, Empty
<1>2. Units(StorageOctets(storage)) = {} /\ Units(RequestOctets(requests)) = {}
  BY <1>1, UnitsOf DEF StorageOctets, RequestOctets
<1>3. Total(StorageOctets(storage)) = 0 /\ Total(RequestOctets(requests)) = 0
  BY <1>2, FS_EmptySet DEF Total
<1>4. IsFiniteSet({}) /\ Cardinality({}) = 0
  BY FS_EmptySet
<1> QED
  BY <1>1, <1>3, <1>4 DEF FInv, IsFootprint

\* A new status is no other octet.
LEMMA SameRequests ==
  ASSUME IsFootprint(storage, requests, items, bytes),
         UNCHANGED <<storage, items, bytes>>, DOMAIN requests' = DOMAIN requests
  PROVE  IsFootprint(storage, requests, items, bytes)'
<1>1. Total(RequestOctets(requests')) = Total(RequestOctets(requests))
  <2>1. RequestOctets(requests') = RequestOctets(requests)
    BY DEF RequestOctets
  <2> QED
    BY <2>1
<1> QED
  BY <1>1 DEF IsFootprint

LEMMA WriteFootprint ==
  ASSUME TypeOK, FInv, NEW k \in DOMAIN Keys, NEW z \in Lengths \cup {0}, Write(k, z)
  PROVE  FInv'
<1> SUFFICES ASSUME ~refused'
             PROVE  FInv'
  BY DEF FInv
<1>1. UNCHANGED <<requests, blobs, slot, extrinsic, importing, forgotAt, refused>>
  BY DEF Write
<1>2. IsFootprint(storage, requests, items, bytes)
  BY <1>1 DEF FInv
<1> DEFINE before == StorageOctets(storage)
           after == StorageOctets(storage')
           asked == Total(RequestOctets(requests))
           cost == ItemOverhead + Keys[k]
<1>3. /\ Counted(before) /\ Total(before) \in Nat /\ asked \in Nat
      /\ Cardinality(DOMAIN storage) \in Nat /\ Cardinality(DOMAIN requests) \in Nat
      /\ IsFiniteSet(DOMAIN storage)
  BY <1>2, OctetsCounted DEF IsFootprint
<1>4. /\ items = Cardinality(DOMAIN storage) + 2 * Cardinality(DOMAIN requests)
      /\ bytes = Total(before) + asked /\ IsFiniteSet(DOMAIN requests)
  BY <1>2 DEF IsFootprint
<1>5. cost \in Nat /\ z \in Nat /\ cost + z \in Nat
  BY OctetsTyped
<1>6. CASE z = 0
  <2>1. /\ k \in DOMAIN storage /\ storage' = Without(storage, k)
        /\ items' = items - 1 /\ bytes' = bytes - (cost + storage[k])
    BY <1>6 DEF Write
  <2>2. storage[k] \in Nat
    BY <2>1, OctetsTyped DEF TypeOK
  <2>3. /\ DOMAIN after = DOMAIN before \ {k} /\ DOMAIN before = DOMAIN storage
        /\ DOMAIN storage' = DOMAIN storage \ {k}
        /\ \A y \in DOMAIN after : after[y] = before[y]
        /\ before[k] = cost + storage[k]
    BY <2>1 DEF StorageOctets, Without, Restrict
  <2> HIDE DEF before, after, asked, cost
  <2>4. Counted(after) /\ Total(before) = Total(after) + before[k]
    BY <1>3, <2>1, <2>3, TotalApart
  <2>5. /\ IsFiniteSet(DOMAIN storage')
        /\ Cardinality(DOMAIN storage') = Cardinality(DOMAIN storage) - 1
    BY <1>3, <2>1, <2>3, FS_RemoveElement
  <2>6. Total(after) \in Nat
    BY <2>4, UnitsFinite
  <2>7. bytes' = Total(after) + asked
    BY <1>3, <1>4, <1>5, <2>1, <2>2, <2>3, <2>4, <2>6
  <2>8. items' = Cardinality(DOMAIN storage') + 2 * Cardinality(DOMAIN requests)
    BY <1>3, <1>4, <2>1, <2>5
  <2> QED
    BY <1>1, <1>4, <2>5, <2>7, <2>8 DEF FInv, IsFootprint, Requested, after, asked
<1>7. CASE z # 0
  <2>1. storage' = With(storage, k, z)
    BY <1>7 DEF Write
  <2>2. /\ DOMAIN after = DOMAIN before \cup {k} /\ DOMAIN before = DOMAIN storage
        /\ DOMAIN storage' = DOMAIN storage \cup {k}
        /\ \A y \in DOMAIN before \ {k} : after[y] = before[y]
        /\ after[k] = cost + z
        /\ k \in DOMAIN storage => before[k] = cost + storage[k]
    BY <2>1 DEF StorageOctets, With
  <2>3. k \in DOMAIN storage => storage[k] \in Nat
    BY OctetsTyped DEF TypeOK
  <2>4. /\ k \in DOMAIN storage => items' = items /\ bytes' = bytes - storage[k] + z
        /\ k \notin DOMAIN storage => items' = items + 1 /\ bytes' = bytes + cost + z
    BY <1>7, OctetsTyped DEF Write, TypeOK
  <2> HIDE DEF before, after, asked, cost
  <2>5. /\ Counted(after) /\ ValueIn(before, k) \in Nat
        /\ Total(after) + ValueIn(before, k) = Total(before) + after[k]
    BY <1>3, <1>5, <2>2, TotalChanged
  <2>6. Total(after) \in Nat
    BY <2>5, UnitsFinite
  <2>7. bytes' = Total(after) + asked
    <3>1. CASE k \in DOMAIN storage
      <4>1. ValueIn(before, k) = cost + storage[k]
        BY <2>2, <3>1 DEF ValueIn
      <4> QED
        BY <1>3, <1>4, <1>5, <2>2, <2>3, <2>4, <2>5, <2>6, <3>1, <4>1
    <3>2. CASE k \notin DOMAIN storage
      <4>1. ValueIn(before, k) = 0
        BY <2>2, <3>2 DEF ValueIn
      <4> QED
        BY <1>3, <1>4, <1>5, <2>2, <2>4, <2>5, <2>6, <3>2, <4>1
    <3> QED
      BY <3>1, <3>2
  <2>8. /\ IsFiniteSet(DOMAIN storage')
        /\ Cardinality(DOMAIN storage') = IF k \in DOMAIN storage
             THEN Cardinality(DOMAIN storage) ELSE Cardinality(DOMAIN storage) + 1
    BY <1>3, <2>2, FS_AddElement
  <2>9. items' = Cardinality(DOMAIN storage') + 2 * Cardinality(DOMAIN requests)
    BY <1>3, <1>4, <2>4, <2>8
  <2> QED
    BY <1>1, <1>4, <2>7, <2>8, <2>9 DEF FInv, IsFootprint, Requested, after, asked
<1> QED
  BY <1>6, <1>7

LEMMA SolicitFootprint ==
  ASSUME TypeOK, FInv, NEW h \in Hashes, NEW z \in Lengths, Solicit(h, z)
  PROVE  FInv'
<1> SUFFICES ASSUME ~refused'
             PROVE  FInv'
  BY DEF FInv
<1>1. UNCHANGED <<storage, blobs, slot, extrinsic, importing, forgotAt, refused>>
  BY DEF Solicit
<1>2. /\ IsFootprint(storage, requests, items, bytes)
      /\ \A e \in extrinsic : Requested(e, Blobs[e])
  BY <1>1 DEF FInv
<1>3. CASE /\ ~Requested(h, z) /\ requests' = With(requests, <<h, z>>, <<>>)
           /\ items' = items + 2 /\ bytes' = bytes + RequestOverhead + z
  <2> DEFINE before == RequestOctets(requests)
             after == RequestOctets(requests')
             stored == Total(StorageOctets(storage))
             r == <<h, z>>
  <2>1. /\ Counted(before) /\ Total(before) \in Nat /\ stored \in Nat
        /\ Cardinality(DOMAIN storage) \in Nat /\ Cardinality(DOMAIN requests) \in Nat
        /\ IsFiniteSet(DOMAIN requests) /\ IsFiniteSet(DOMAIN storage)
        /\ items = Cardinality(DOMAIN storage) + 2 * Cardinality(DOMAIN requests)
        /\ bytes = Total(before) + stored
    <3>1. stored \in Nat /\ Total(before) \in Nat
      BY <1>2, OctetsCounted DEF IsFootprint
    <3>2. bytes = stored + Total(before)
      BY <1>2 DEF IsFootprint
    <3> HIDE DEF stored, before
    <3>3. bytes = Total(before) + stored
      BY <3>1, <3>2
    <3> QED
      BY <1>2, <3>1, <3>3, OctetsCounted DEF IsFootprint, before
  <2>2. /\ DOMAIN after = DOMAIN before \cup {r} /\ DOMAIN before = DOMAIN requests
        /\ r \notin DOMAIN requests
        /\ DOMAIN requests' = DOMAIN requests \cup {r}
        /\ \A y \in DOMAIN before \ {r} : after[y] = before[y]
        /\ after[r] = RequestOverhead + z
    BY <1>3 DEF RequestOctets, With, Requested
  <2>3. RequestOverhead \in Nat /\ z \in Nat /\ RequestOverhead + z \in Nat
    BY OctetsTyped
  <2> HIDE DEF before, after, stored, r
  <2>4. /\ Counted(after) /\ Total(after) + ValueIn(before, r) = Total(before) + after[r]
    <3>1. after[r] \in Nat
      BY <2>2, <2>3
    <3>2. /\ Counted(before) /\ DOMAIN after = DOMAIN before \cup {r}
          /\ \A y \in DOMAIN before \ {r} : after[y] = before[y]
      BY <2>1, <2>2
    <3> QED
      BY <3>1, <3>2, TotalChanged
  <2>5. ValueIn(before, r) = 0 /\ Total(after) \in Nat
    BY <2>2, <2>4, UnitsFinite DEF ValueIn
  <2>6. bytes' = stored + Total(after)
    <3>1. \A b, s, a, o, l \in Nat : a + 0 = b + (o + l) => (b + s) + o + l = s + a
      OBVIOUS
    <3>2. Total(after) + 0 = Total(before) + (RequestOverhead + z)
      BY <2>2, <2>4, <2>5
    <3>3. bytes' = (Total(before) + stored) + RequestOverhead + z
      BY <1>3, <2>1
    <3> QED
      BY <2>1, <2>3, <2>5, <3>1, <3>2, <3>3
  <2>7. /\ IsFiniteSet(DOMAIN requests')
        /\ Cardinality(DOMAIN requests') = Cardinality(DOMAIN requests) + 1
    BY <2>1, <2>2, FS_AddElement
  <2>8. items' = Cardinality(DOMAIN storage) + 2 * Cardinality(DOMAIN requests')
    BY <1>3, <2>1, <2>7
  <2>9. \A e \in extrinsic' : Requested(e, Blobs[e])'
    BY <1>1, <1>2, <2>2 DEF Requested
  <2> QED
    BY <1>1, <2>1, <2>6, <2>7, <2>8, <2>9 DEF FInv, IsFootprint, after, stored
<1>4. CASE /\ Requested(h, z)
           /\ requests' = [requests EXCEPT ![<<h, z>>] = Append(@, slot)]
           /\ UNCHANGED <<items, bytes>>
  <2>1. DOMAIN requests' = DOMAIN requests
    BY <1>4
  <2>2. IsFootprint(storage, requests, items, bytes)'
    BY <1>1, <1>2, <1>4, <2>1, SameRequests
  <2> QED
    BY <1>1, <1>2, <2>1, <2>2 DEF FInv, Requested
<1> QED
  BY <1>3, <1>4 DEF Solicit

\* A request that is dropped is not one that the block provides.
LEMMA DropFootprint ==
  ASSUME TypeOK, NEW h \in Hashes, NEW z \in Lengths, Drop(h, z), storage' = storage,
         Requested(h, z), IsFootprint(storage, requests, items, bytes)
  PROVE  IsFootprint(storage, requests, items, bytes)'
<1> DEFINE before == RequestOctets(requests)
           after == RequestOctets(requests')
           stored == Total(StorageOctets(storage))
           r == <<h, z>>
<1>1. /\ Counted(before) /\ Total(before) \in Nat /\ stored \in Nat
      /\ Cardinality(DOMAIN storage) \in Nat /\ Cardinality(DOMAIN requests) \in Nat
      /\ IsFiniteSet(DOMAIN requests) /\ IsFiniteSet(DOMAIN storage)
  BY OctetsCounted DEF IsFootprint
<1>2. /\ items = Cardinality(DOMAIN storage) + 2 * Cardinality(DOMAIN requests)
      /\ bytes = stored + Total(before)
  BY DEF IsFootprint
<1>3. /\ DOMAIN after = DOMAIN before \ {r} /\ DOMAIN before = DOMAIN requests
      /\ r \in DOMAIN requests
      /\ DOMAIN requests' = DOMAIN requests \ {r}
      /\ \A y \in DOMAIN after : after[y] = before[y]
      /\ before[r] = RequestOverhead + z
  BY DEF RequestOctets, Drop, Without, Restrict, Requested
<1>4. items' = items - 2 /\ bytes' = bytes - (RequestOverhead + z)
  BY DEF Drop
<1>5. RequestOverhead \in Nat /\ z \in Nat /\ RequestOverhead + z \in Nat
  BY OctetsTyped
<1> HIDE DEF before, after, stored, r
<1>6. Counted(after) /\ Total(before) = Total(after) + before[r]
  BY <1>1, <1>3, TotalApart
<1>7. Total(after) \in Nat
  BY <1>6, UnitsFinite
<1>8. bytes' = stored + Total(after)
  <2>1. \A b, s, a, o \in Nat : b = a + o => (s + b) - o = s + a
    OBVIOUS
  <2>2. Total(before) = Total(after) + (RequestOverhead + z)
    BY <1>3, <1>6
  <2>3. bytes' = (stored + Total(before)) - (RequestOverhead + z)
    BY <1>2, <1>4
  <2> QED
    BY <1>1, <1>5, <1>7, <2>1, <2>2, <2>3
<1>9. /\ IsFiniteSet(DOMAIN requests')
      /\ Cardinality(DOMAIN requests') = Cardinality(DOMAIN requests) - 1
  BY <1>1, <1>3, FS_RemoveElement
<1>10. items' = Cardinality(DOMAIN storage) + 2 * Cardinality(DOMAIN requests')
  BY <1>1, <1>2, <1>4, <1>9
<1> QED
  BY <1>1, <1>8, <1>9, <1>10 DEF IsFootprint, after, stored

LEMMA ForgetFootprint ==
  ASSUME ~WithdrawsLate, TypeOK, FInv, NEW h \in Hashes, NEW z \in Lengths,
         MayForget(h, z), Forget(h, z)
  PROVE  FInv'
<1> SUFFICES ASSUME ~refused'
             PROVE  FInv'
  BY DEF FInv
<1>1. Requested(h, z) /\ UNCHANGED <<storage, slot, extrinsic, importing, refused>>
  BY DEF Forget
<1>2. /\ IsFootprint(storage, requests, items, bytes)
      /\ \A e \in extrinsic : Requested(e, Blobs[e])
  BY <1>1 DEF FInv
<1>3. CASE Withdraw(h, z) \/ Purge(h, z)
  <2>1. Drop(h, z)
    BY <1>3 DEF Withdraw, Purge
  <2>2. IsFootprint(storage, requests, items, bytes)'
    BY <1>1, <1>2, <2>1, DropFootprint
  <2>3. DOMAIN requests' = DOMAIN requests \ {<<h, z>>}
    BY <2>1 DEF Drop, Without, Restrict
  <2>4. \A e \in extrinsic : <<e, Blobs[e]>> # <<h, z>>
    BY DEF MayForget
  <2>5. \A e \in extrinsic' : Requested(e, Blobs[e])'
    BY <1>1, <1>2, <2>3, <2>4 DEF Requested
  <2> QED
    BY <2>2, <2>5 DEF FInv
<1>4. CASE Retire(h, z) \/ RetireAgain(h, z)
  <2>1. PICK provided : Mark(h, z, provided)
    BY <1>4 DEF Retire, RetireAgain
  <2>2. DOMAIN requests' = DOMAIN requests /\ UNCHANGED <<items, bytes>>
    BY <2>1 DEF Mark
  <2>3. IsFootprint(storage, requests, items, bytes)'
    BY <1>1, <1>2, <2>2, SameRequests
  <2> QED
    BY <1>1, <1>2, <2>2, <2>3 DEF FInv, Requested
<1> QED
  BY <1>3, <1>4 DEF Forget

\* The stamps of a block that was right fall on requests that are counted.
LEMMA BlockFootprint ==
  ASSUME TypeOK, FInv,
         \/ EndBlock
         \/ \E provided \in SUBSET Hashes, gap \in Gaps : BeginBlock(provided, gap)
  PROVE  FInv'
<1> SUFFICES ASSUME ~refused'
             PROVE  FInv'
  BY DEF FInv
<1>1. CASE EndBlock
  <2> DEFINE stamped == {<<e, Blobs[e]>> : e \in extrinsic}
  <2>1. /\ DOMAIN requests' = DOMAIN requests \cup stamped
        /\ extrinsic' = {} /\ UNCHANGED <<storage, items, bytes, refused>>
    BY <1>1 DEF EndBlock
  <2>2. /\ IsFootprint(storage, requests, items, bytes)
        /\ \A e \in extrinsic : Requested(e, Blobs[e])
    BY <2>1 DEF FInv
  <2>3. DOMAIN requests' = DOMAIN requests
    BY <2>1, <2>2 DEF Requested
  <2>4. IsFootprint(storage, requests, items, bytes)'
    BY <2>1, <2>2, <2>3, SameRequests
  <2> QED
    BY <2>1, <2>4 DEF FInv
<1>2. ASSUME NEW provided \in SUBSET Hashes, NEW gap \in Gaps, BeginBlock(provided, gap)
      PROVE  FInv'
  <2>1. /\ extrinsic' = provided /\ UNCHANGED account
        /\ ~refused /\ \A e \in provided : Needed(e)
    BY <1>2 DEF BeginBlock
  <2>2. IsFootprint(storage, requests, items, bytes)
    BY <2>1 DEF FInv
  <2>3. IsFootprint(storage, requests, items, bytes)' /\ requests' = requests
    BY <2>1, <2>2, SameRequests DEF account
  <2>4. \A e \in extrinsic' : Requested(e, Blobs[e])'
    BY <2>1, <2>3 DEF Needed, Requested
  <2> QED
    BY <2>3, <2>4 DEF FInv
<1> QED
  BY <1>1, <1>2

\* As long as no block was refused, and unless the service withdraws a request
\* that the block under way provides, items and octets are those of what the
\* account holds, whatever is written, asked for, provided and forgotten in
\* any order (accumulate_exec.rs 610-732, block_import.rs 422-435).
THEOREM FootprintIsKept ==
  ASSUME ~WithdrawsLate
  PROVE  Spec => []FootprintMatches
<1>1. TypeOK /\ FInv /\ [Next]_vars => FInv'
  <2> SUFFICES ASSUME TypeOK, FInv, [Next]_vars PROVE FInv'
    OBVIOUS
  <2>1. CASE \E provided \in SUBSET Hashes, gap \in Gaps : BeginBlock(provided, gap)
    BY <2>1, BlockFootprint
  <2>2. CASE \E k \in DOMAIN Keys, z \in Lengths \cup {0} : Write(k, z)
    BY <2>2, WriteFootprint
  <2>3. CASE \E h \in Hashes, z \in Lengths : Solicit(h, z)
    BY <2>3, SolicitFootprint
  <2>4. CASE \E h \in Hashes, z \in Lengths : MayForget(h, z) /\ Forget(h, z)
    BY <2>4, ForgetFootprint
  <2>5. CASE EndBlock
    BY <2>5, BlockFootprint
  <2>6. CASE UNCHANGED vars
    BY <2>6 DEF vars, account, FInv, IsFootprint, Requested
  <2> QED
    BY <2>1, <2>2, <2>3, <2>4, <2>5, <2>6 DEF Next
<1>2. FInv => FootprintMatches
  BY FootprintImplies
<1> QED
  BY InitFootprint, TypeCorrect, <1>1, <1>2, PTL DEF Spec
=============================================================================
