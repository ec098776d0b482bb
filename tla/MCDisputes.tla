----------------------------- MODULE MCDisputes -----------------------------
(***************************************************************************)
(* Disputes on three validators of four keys, two reports, two cores and   *)
(* epochs of two slots.  With three validators a good verdict takes three  *)
(* positive judgements and a wonky one takes one, the code's 2V/3 + 1 and  *)
(* V/3; two positive ones are a split the code refuses.                    *)
(***************************************************************************)
EXTENDS Disputes

MCReports == 1..2
MCKeys == 1..4
MCValidatorSets == {<<1, 2, 3>>, <<2, 4, 3>>}

\* The judgements of three validators, the first n of them positive.
Votes(keys, n) ==
  [i \in 1..3 |-> [index |-> i - 1, vote |-> i <= n, signer |-> keys[i]]]

On(r, age, keys, n) == [target |-> r, age |-> age, votes |-> Votes(keys, n)]

Against(r, k) == [target |-> r, key |-> k, signer |-> k]
Voted(r, k, vote) == [target |-> r, key |-> k, vote |-> vote, signer |-> k]

Ext(vs, cs, fs) == [verdicts |-> vs, culprits |-> cs, faults |-> fs]

Verdicts(n) == {On(r, age, keys, n) : r \in MCReports, age \in 0..2, keys \in MCValidatorSets}

BadOnes ==
  {Ext(<<v>>, <<Against(v.target, p[1]), Against(v.target, p[2])>>, <<>>) :
     v \in Verdicts(0), p \in {q \in MCKeys \X MCKeys : q[1] <= q[2]}}
GoodOnes ==
  {Ext(<<v>>, <<>>, <<Voted(v.target, k, FALSE)>>) : v \in Verdicts(3), k \in MCKeys}
OtherOnes == {Ext(<<v>>, <<>>, <<>>) : v \in Verdicts(0) \cup Verdicts(1) \cup Verdicts(2)}

\* A bad and a good verdict in one extrinsic; a guarantor of the bad report
\* may also have voted against the good one.
Mixed ==
  {Ext(<<On(1, 0, keys, 0), On(2, 0, keys, 3)>>,
       <<Against(1, p[1]), Against(1, p[2])>>, <<Voted(2, k, FALSE)>>) :
     keys \in MCValidatorSets, p \in {<<1, 2>>, <<2, 3>>}, k \in 1..3}

\* Culprits and faults that come blocks after the verdict they refer to.
Late ==
  {Ext(<<>>, <<Against(r, k)>>, <<>>) : r \in MCReports, k \in MCKeys}
    \cup {Ext(<<>>, <<>>, <<Voted(r, k, b)>>) : r \in MCReports, k \in MCKeys, b \in BOOLEAN}
    \cup {Ext(<<>>, <<Against(1, 2)>>, <<Voted(1, 2, TRUE)>>)}

\* Out of order, repeated, wrongly signed and out of range.
Malformed ==
  LET A == <<1, 2, 3>> IN
  {Ext(<<On(2, 0, A, 1), On(1, 0, A, 1)>>, <<>>, <<>>),
   Ext(<<On(1, 0, A, 1), On(1, 0, A, 1)>>, <<>>, <<>>),
   Ext(<<On(1, 0, A, 0), On(1, 0, A, 1)>>, <<Against(1, 1), Against(1, 2)>>, <<>>),
   Ext(<<[On(1, 0, A, 1) EXCEPT !.votes[3].index = 1]>>, <<>>, <<>>),
   Ext(<<[On(1, 0, A, 1) EXCEPT !.votes[3].index = 3]>>, <<>>, <<>>),
   Ext(<<[On(1, 0, A, 1) EXCEPT !.votes[3].signer = 4]>>, <<>>, <<>>),
   Ext(<<>>, <<[Against(1, 1) EXCEPT !.signer = 2]>>, <<>>)}

MCExtrinsics == BadOnes \cup GoodOnes \cup OtherOnes \cup Mixed \cup Late \cup Malformed
=============================================================================
