--------------------------- MODULE ServicesProofs ---------------------------
(***************************************************************************)
(* Proofs about Services: whatever accounts a block starts from, whatever  *)
(* order its services run in and whatever they call, no service acts that  *)
(* is not there, privileges are used by those who have them, the next id   *)
(* stays free, no balance is negative and the sum of all of them changes   *)
(* by what is accounted for.                                               *)
(***************************************************************************)
EXTENDS Services, FiniteSetTheorems, WellFoundedInduction, TLAPS

IsRecord(c) ==
  c = [balance |-> c.balance, coded |-> c.coded, chi |-> c.chi,
       setBy |-> c.setBy, nextFree |-> c.nextFree,
       transfers |-> c.transfers, minted |-> c.minted, overwritten |-> c.overwritten]

\* Code is only found in accounts.
CodeHasAccount(accounts) == accounts.coded \subseteq DOMAIN accounts.balance

\* The context of a running service holds its account.
Alive(c) == IsRecord(c) /\ CodeHasAccount(c) /\ running \in DOMAIN c.balance

IInv == CodeHasAccount(exec) /\ (running # NoService => Alive(ctx) /\ Alive(cp))

LEMMA InvariantImplies == IInv => TheDeadDoNotAct
  BY DEF IInv, Alive, TheDeadDoNotAct

LEMMA InitInv == Init => IInv
  BY ServicesConstants DEF Init, IInv, CodeHasAccount

\* Crediting an account keeps all the others.
LEMMA CreditDomain ==
  ASSUME NEW f, NEW s, NEW amount
  PROVE  DOMAIN Credit(f, s, amount) = DOMAIN f \cup {s}
  BY DEF Credit

\* An invocation starts with its service in both contexts.
LEMMA InvokeStep ==
  ASSUME NEW s, NEW accounts, CodeHasAccount(accounts),
         running = NoService, Invoke(s, accounts)
  PROVE  IInv'
<1>1. CASE s \notin accounts.coded
  BY <1>1 DEF Invoke, IInv, CodeHasAccount
<1>2. CASE s \in accounts.coded
  <2>1. PICK seed \in Seeds : ctx' = Context(accounts, seed)
    BY <1>2 DEF Invoke
  <2>2. running' = s /\ cp' = ctx' /\ exec' = accounts
    BY <1>2 DEF Invoke
  <2>3. ctx'.balance = accounts.balance /\ ctx'.coded = accounts.coded /\ IsRecord(ctx)'
    BY <2>1 DEF Context, IsRecord
  <2> QED
    BY <1>2, <2>2, <2>3 DEF IInv, Alive, CodeHasAccount, IsRecord
<1> QED
  BY <1>1, <1>2

\* A host call whose context keeps the caller and the rule for code.
LEMMA CallStep ==
  ASSUME IInv, running # NoService, Called,
         Alive(ctx)' , Alive(cp)'
  PROVE  IInv'
  BY DEF IInv, Called, CodeHasAccount

\* A transfer leaves every account where it is.
LEMMA TransferStep ==
  ASSUME IInv, NEW dest \in Ids, NEW amount \in Amounts,
         TransferNow(dest, amount) \/ TransferDeferred(dest, amount)
  PROVE  IInv'
<1>1. /\ running # NoService /\ dest \in DOMAIN ctx.balance
      /\ cp' = cp /\ Called /\ running' = running
  BY DEF TransferNow, TransferDeferred, Calling, Payable, Called
<1>2. Alive(ctx) /\ Alive(cp)
  BY <1>1 DEF IInv
<1>3. DOMAIN ctx'.balance = DOMAIN ctx.balance /\ ctx'.coded = ctx.coded /\ IsRecord(ctx)'
  <2>1. CASE TransferNow(dest, amount)
    <3> DEFINE debited == [ctx.balance EXCEPT ![running] = @ - amount]
    <3>1. ctx' = [ctx EXCEPT !.balance = Credit(debited, dest, amount)]
      BY <2>1 DEF TransferNow
    <3>2. DOMAIN debited = DOMAIN ctx.balance
      OBVIOUS
    <3>3. DOMAIN Credit(debited, dest, amount) = DOMAIN debited \cup {dest}
      BY CreditDomain
    <3> HIDE DEF debited
    <3> QED
      BY <1>1, <1>2, <3>1, <3>2, <3>3 DEF Alive, IsRecord
  <2>2. CASE TransferDeferred(dest, amount)
    BY <1>2, <2>2 DEF TransferDeferred, Alive, IsRecord
  <2> QED
    BY <2>1, <2>2
<1>4. Alive(ctx)' /\ Alive(cp)'
  BY <1>1, <1>2, <1>3 DEF Alive, CodeHasAccount, IsRecord
<1> QED
  BY <1>1, <1>4, CallStep

\* An ejection takes away another account, and its code with it.
LEMMA EjectStep ==
  ASSUME IInv, NEW d \in Ids, Eject(d)
  PROVE  IInv'
<1> DEFINE left == Restrict(ctx.balance, DOMAIN ctx.balance \ {d})
<1>1. /\ running # NoService /\ d # running
      /\ cp' = cp /\ Called /\ running' = running
      /\ ctx' = [ctx EXCEPT !.balance = Credit(left, running, ctx.balance[d]),
                            !.coded = @ \ {d}]
  BY DEF Eject, Calling, Called
<1>2. Alive(ctx) /\ Alive(cp)
  BY <1>1 DEF IInv
<1>3. DOMAIN left = DOMAIN ctx.balance \ {d}
  BY DEF Restrict
<1>4. DOMAIN Credit(left, running, ctx.balance[d]) = DOMAIN left \cup {running}
  BY CreditDomain
<1> HIDE DEF left
<1>5. /\ ctx'.balance = Credit(left, running, ctx.balance[d])
      /\ ctx'.coded = ctx.coded \ {d} /\ IsRecord(ctx)'
  BY <1>1, <1>2 DEF Alive, IsRecord
<1>6. Alive(ctx)' /\ Alive(cp)'
  BY <1>1, <1>2, <1>3, <1>4, <1>5 DEF Alive, CodeHasAccount, IsRecord
<1> QED
  BY <1>1, <1>6, CallStep

\* A new account is one more, or takes the place of one.
LEMMA NewStep ==
  ASSUME IInv, NEW id \in Ids, NEW sameCode \in BOOLEAN, New(id, sameCode)
  PROVE  IInv'
<1> DEFINE inserted == [x \in DOMAIN ctx.balance \cup {id} |->
                          IF x = id THEN NewCost ELSE ctx.balance[x]]
           paid == Min({inserted[running], NewCost})
           balance == [inserted EXCEPT ![running] = @ - paid]
<1>1. /\ running # NoService /\ cp' = cp /\ Called /\ running' = running
      /\ ctx' = [ctx EXCEPT
           !.balance = balance,
           !.coded = IF sameCode THEN @ ELSE @ \ {id},
           !.nextFree = CheckId(OnRing(@, IdStep), DOMAIN ctx.balance),
           !.minted = @ + NewCost - paid,
           !.overwritten = @ + BalanceIn(ctx.balance, id)]
  BY DEF New, Calling, Called
<1>2. Alive(ctx) /\ Alive(cp)
  BY <1>1 DEF IInv
<1>3. DOMAIN balance = DOMAIN ctx.balance \cup {id}
  OBVIOUS
<1> HIDE DEF balance, paid, inserted
<1>4. ctx'.balance = balance /\ ctx'.coded \subseteq ctx.coded /\ IsRecord(ctx)'
  BY <1>1, <1>2 DEF Alive, IsRecord
<1>5. Alive(ctx)' /\ Alive(cp)'
  BY <1>1, <1>2, <1>3, <1>4 DEF Alive, CodeHasAccount, IsRecord
<1> QED
  BY <1>1, <1>5, CallStep

\* Using a privilege leaves the accounts alone.
LEMMA PowerStep ==
  ASSUME IInv,
         \/ \E chi \in Blessings : Bless(chi)
         \/ \E c \in Cores, heir \in Heirs : Assign(c, heir)
         \/ Designate
  PROVE  IInv'
<1>1. running # NoService /\ cp' = cp /\ Called /\ running' = running
  BY DEF Bless, Assign, Designate, Calling, Called
<1>2. Alive(ctx) /\ Alive(cp)
  BY <1>1 DEF IInv
<1>3. ctx'.balance = ctx.balance /\ ctx'.coded = ctx.coded /\ IsRecord(ctx)'
  <2>1. CASE \E chi \in Blessings : Bless(chi)
    BY <1>2, <2>1 DEF Bless, Alive, IsRecord
  <2>2. CASE \E c \in Cores, heir \in Heirs : Assign(c, heir)
    BY <1>2, <2>2 DEF Assign, Alive, IsRecord
  <2>3. CASE Designate
    BY <1>2, <2>3 DEF Designate, Alive, IsRecord
  <2> QED
    BY <2>1, <2>2, <2>3
<1>4. Alive(ctx)' /\ Alive(cp)'
  BY <1>1, <1>2, <1>3 DEF Alive, CodeHasAccount, IsRecord
<1> QED
  BY <1>1, <1>4, CallStep

\* Whatever context an invocation returns leaves accounts for its code.
LEMMA ReturnStep ==
  ASSUME IInv, running # NoService, Halt \/ Trap
  PROVE  IInv'
<1>1. CodeHasAccount(ctx) /\ CodeHasAccount(cp)
  BY DEF IInv, Alive
<1>2. \E out \in {ctx, cp} : exec'.balance = out.balance /\ exec'.coded = out.coded
  BY DEF Halt, Trap, Return
<1>3. running' = NoService
  BY DEF Halt, Trap, Return
<1> QED
  BY <1>1, <1>2, <1>3 DEF IInv, CodeHasAccount

\* The next recipient of a round.
LEMMA DeliverStep ==
  ASSUME IInv, Deliver
  PROVE  IInv'
<1> DEFINE dest == Min(DOMAIN inbox)
           credited == [exec EXCEPT !.balance[dest] = @ + inbox[dest]]
<1>1. running = NoService
  BY DEF Deliver, Idle
<1>2. CASE dest \in DOMAIN exec.balance
  <2>1. Invoke(dest, credited)
    BY <1>2 DEF Deliver
  <2>2. CodeHasAccount(credited)
    BY DEF IInv, CodeHasAccount
  <2> HIDE DEF credited, dest
  <2> QED
    BY <1>1, <2>1, <2>2, InvokeStep
<1>3. CASE dest \notin DOMAIN exec.balance
  <2>1. UNCHANGED <<exec, running, ctx, cp>>
    BY <1>3 DEF Deliver
  <2> QED
    BY <2>1, <1>1 DEF IInv, CodeHasAccount
<1> QED
  BY <1>2, <1>3

LEMMA NextStep == IInv /\ [Next]_vars => IInv'
<1> SUFFICES ASSUME IInv, [Next]_vars
             PROVE  IInv'
  OBVIOUS
<1>1. CASE RunNext
  BY <1>1, InvokeStep DEF RunNext, Idle, IInv
<1>2. CASE StartRound \/ Finish
  <2>1. UNCHANGED <<exec, running, ctx, cp>>
    BY <1>2 DEF StartRound, Finish
  <2> QED
    BY <2>1 DEF IInv, Alive, CodeHasAccount, IsRecord
<1>3. CASE Deliver
  BY <1>3, DeliverStep
<1>4. CASE \E d \in Ids, a \in Amounts : TransferNow(d, a) \/ TransferDeferred(d, a)
  BY <1>4, TransferStep
<1>5. CASE \E d \in Ids : Eject(d)
  BY <1>5, EjectStep
<1>6. CASE \E id \in Ids, same \in BOOLEAN : New(id, same)
  BY <1>6, NewStep
<1>7. CASE Checkpoint
  <2>1. running # NoService /\ cp' = ctx /\ ctx' = ctx /\ Called /\ running' = running
    BY <1>7 DEF Checkpoint, Calling, Called
  <2>2. Alive(ctx)' /\ Alive(cp)'
    BY <2>1 DEF IInv, Alive, CodeHasAccount, IsRecord
  <2> QED
    BY <2>1, <2>2, CallStep
<1>8. CASE Halt \/ Trap
  BY <1>8, ReturnStep DEF Halt, Trap
<1>9. CASE \/ \E chi \in Blessings : Bless(chi)
           \/ \E c \in Cores, heir \in Heirs : Assign(c, heir)
           \/ Designate
  BY <1>9, PowerStep
<1>10. CASE UNCHANGED vars
  BY <1>10 DEF vars, IInv, Alive, CodeHasAccount, IsRecord
<1> QED
  BY <1>1, <1>2, <1>3, <1>4, <1>5, <1>6, <1>7, <1>8, <1>9, <1>10 DEF Next

\* No service that an earlier service of the block ejected, or that was not
\* there at all, ever acts, on its context or on the one it falls back to:
\* for every number of services and calls (accumulate.rs 268-275,
\* accumulate_exec.rs 571-589).
THEOREM NobodyActsAfterEjection == Spec => []TheDeadDoNotAct
<1>1. Init => IInv
  BY InitInv
<1>2. IInv /\ [Next]_vars => IInv'
  BY NextStep
<1>3. IInv => TheDeadDoNotAct
  BY InvariantImplies
<1> QED
  BY <1>1, <1>2, <1>3, PTL DEF Spec

-----------------------------------------------------------------------------
(* Who changes queues, staged validators and privileges.                   *)

HasPowers(c) ==
  /\ c.chi = [manager |-> c.chi.manager, assign |-> [x \in Cores |-> c.chi.assign[x]],
              delegator |-> c.chi.delegator, registrar |-> c.chi.registrar]
  /\ c.setBy = [phi |-> [x \in Cores |-> c.setBy.phi[x]], iota |-> c.setBy.iota]

\* What the running service made of its powers, now and at its checkpoint, it
\* was entitled to when it was invoked.
PInv ==
  /\ exec = [balance |-> exec.balance, coded |-> exec.coded, chi |-> exec.chi,
             setBy |-> exec.setBy]
  /\ HasPowers(exec)
  /\ running # NoService => /\ HasPowers(ctx) /\ Entitled(running, exec, ctx)
                            /\ HasPowers(cp) /\ Entitled(running, exec, cp)

LEMMA InitPowers == Init => PInv
  BY ServicesConstants DEF Init, PInv, HasPowers, Unset, Chis

\* An invocation starts with the powers of the state.
LEMMA InvokePowers ==
  ASSUME NEW s, NEW accounts, running = NoService, Invoke(s, accounts),
         HasPowers(accounts),
         accounts = [balance |-> accounts.balance, coded |-> accounts.coded,
                     chi |-> accounts.chi, setBy |-> accounts.setBy]
  PROVE  PInv'
<1>1. CASE s \notin accounts.coded
  BY <1>1 DEF Invoke, PInv, HasPowers
<1>2. CASE s \in accounts.coded
  <2>1. PICK seed \in Seeds : ctx' = Context(accounts, seed)
    BY <1>2 DEF Invoke
  <2>2. running' = s /\ cp' = ctx' /\ exec' = accounts
    BY <1>2 DEF Invoke
  <2>3. ctx'.chi = accounts.chi /\ ctx'.setBy = accounts.setBy
    BY <2>1 DEF Context
  <2> QED
    BY <2>2, <2>3 DEF PInv, HasPowers, Entitled
<1> QED
  BY <1>1, <1>2

\* A host call that uses no privilege.
LEMMA KeptPowers ==
  ASSUME PInv, running # NoService, Called,
         ctx'.chi = ctx.chi, ctx'.setBy = ctx.setBy, cp' \in {cp, ctx}
  PROVE  PInv'
  BY DEF PInv, Called, HasPowers, Entitled

\* A host call that uses one: the context it leaves.
LEMMA UsedPowers ==
  ASSUME PInv, running # NoService, Called, cp' = cp,
         HasPowers(ctx)', Entitled(running, exec, ctx')
  PROVE  PInv'
  BY DEF PInv, Called, HasPowers, Entitled

LEMMA BlessPowers ==
  ASSUME IInv, PInv, NEW chi \in Blessings, Bless(chi)
  PROVE  PInv'
<1>1. running # NoService /\ cp' = cp /\ Called /\ running = ctx.chi.manager
  BY DEF Bless, Calling
<1>2. ctx'.chi = chi /\ ctx'.setBy = ctx.setBy
  BY <1>1 DEF Bless, IInv, Alive, IsRecord
<1>3. chi = [manager |-> chi.manager, assign |-> [x \in Cores |-> chi.assign[x]],
             delegator |-> chi.delegator, registrar |-> chi.registrar]
  BY ServicesConstants DEF Chis
<1>4. running = exec.chi.manager
  BY <1>1 DEF PInv, Entitled
<1>5. HasPowers(ctx)'
  BY <1>1, <1>2, <1>3 DEF PInv, HasPowers
<1>6. Entitled(running, exec, ctx')
  BY <1>4 DEF Entitled
<1> QED
  BY <1>1, <1>5, <1>6, UsedPowers

LEMMA AssignPowers ==
  ASSUME IInv, PInv, NEW c \in Cores, NEW heir \in Heirs, Assign(c, heir)
  PROVE  PInv'
<1>1. running # NoService /\ cp' = cp /\ Called /\ running = ctx.chi.assign[c]
  BY DEF Assign, Calling
<1>2. /\ HasPowers(ctx) /\ Entitled(running, exec, ctx) /\ IsRecord(ctx)
  BY <1>1 DEF IInv, PInv, Alive
<1>3. /\ ctx'.chi = [ctx.chi EXCEPT !.assign = [@ EXCEPT ![c] = heir]]
      /\ ctx'.setBy = [ctx.setBy EXCEPT !.phi = [@ EXCEPT ![c] = running]]
  BY <1>2 DEF Assign, IsRecord
<1>4. /\ ctx'.chi = [manager |-> ctx.chi.manager,
                     assign |-> [ctx.chi.assign EXCEPT ![c] = heir],
                     delegator |-> ctx.chi.delegator, registrar |-> ctx.chi.registrar]
      /\ ctx'.setBy = [phi |-> [ctx.setBy.phi EXCEPT ![c] = running],
                       iota |-> ctx.setBy.iota]
  BY <1>2, <1>3 DEF HasPowers
<1>5. /\ ctx.chi.assign = [x \in Cores |-> ctx.chi.assign[x]]
      /\ ctx.setBy.phi = [x \in Cores |-> ctx.setBy.phi[x]]
  BY <1>2 DEF HasPowers
<1>6. HasPowers(ctx)'
  BY <1>4, <1>5 DEF HasPowers
<1>7. running \in {exec.chi.manager, exec.chi.assign[c]}
  BY <1>1, <1>2 DEF Entitled
<1>8. \A d \in Cores \ {c} : /\ ctx'.chi.assign[d] = ctx.chi.assign[d]
                             /\ ctx'.setBy.phi[d] = ctx.setBy.phi[d]
  BY <1>4, <1>5
<1>9. Entitled(running, exec, ctx')
  BY <1>2, <1>4, <1>7, <1>8 DEF Entitled
<1> QED
  BY <1>1, <1>6, <1>9, UsedPowers

LEMMA DesignatePowers ==
  ASSUME IInv, PInv, Designate
  PROVE  PInv'
<1>1. running # NoService /\ cp' = cp /\ Called /\ running = ctx.chi.delegator
  BY DEF Designate, Calling
<1>2. HasPowers(ctx) /\ Entitled(running, exec, ctx) /\ IsRecord(ctx)
  BY <1>1 DEF IInv, PInv, Alive
<1>3. /\ ctx'.chi = ctx.chi
      /\ ctx'.setBy = [ctx.setBy EXCEPT !.iota = running]
  BY <1>2 DEF Designate, IsRecord
<1>4. ctx'.setBy = [phi |-> ctx.setBy.phi, iota |-> running]
  BY <1>2, <1>3 DEF HasPowers
<1>5. HasPowers(ctx)'
  BY <1>2, <1>3, <1>4 DEF HasPowers
<1>6. running \in {exec.chi.manager, exec.chi.delegator}
  BY <1>1, <1>2 DEF Entitled
<1>7. Entitled(running, exec, ctx')
  BY <1>2, <1>3, <1>4, <1>6 DEF Entitled
<1> QED
  BY <1>1, <1>5, <1>7, UsedPowers

\* The invocation's end: what it leaves is one of the two contexts.
LEMMA ReturnPowers ==
  ASSUME PInv, running # NoService, Halt \/ Trap
  PROVE  PInv' /\ Entitled(running, exec, exec')
<1>1. PICK out \in {ctx, cp} : Return(out)
  BY DEF Halt, Trap
<1>2. /\ exec' = [balance |-> out.balance, coded |-> out.coded,
                  chi |-> out.chi, setBy |-> out.setBy]
      /\ running' = NoService
  BY <1>1 DEF Return
<1>3. HasPowers(out) /\ Entitled(running, exec, out)
  BY DEF PInv
<1> QED
  BY <1>2, <1>3 DEF PInv, HasPowers, Entitled

LEMMA NextPowers == IInv /\ PInv /\ [Next]_vars => PInv' /\ [Entitled(running, exec, exec')]_vars
<1> SUFFICES ASSUME IInv, PInv, [Next]_vars
             PROVE  PInv' /\ [Entitled(running, exec, exec')]_vars
  OBVIOUS
<1>1. Entitled(running, exec, exec)
  BY DEF Entitled
<1>2. CASE RunNext
  <2>1. running = NoService /\ Invoke(queue[1], exec) /\ exec' = exec
    BY <1>2 DEF RunNext, Idle, Invoke
  <2> QED
    BY <1>1, <2>1, InvokePowers DEF PInv
<1>3. CASE StartRound \/ Finish
  <2>1. UNCHANGED <<exec, running, ctx, cp>>
    BY <1>3 DEF StartRound, Finish
  <2> QED
    BY <1>1, <2>1 DEF PInv, HasPowers, Entitled
<1>4. CASE Deliver
  <2> DEFINE dest == Min(DOMAIN inbox)
             credited == [exec EXCEPT !.balance[dest] = @ + inbox[dest]]
  <2>1. running = NoService
    BY <1>4 DEF Deliver, Idle
  <2>2. CASE dest \in DOMAIN exec.balance
    <3>1. Invoke(dest, credited) /\ exec' = credited
      BY <1>4, <2>2 DEF Deliver, Invoke
    <3>2. credited.chi = exec.chi /\ credited.setBy = exec.setBy
      BY DEF PInv
    <3>3. credited = [balance |-> credited.balance, coded |-> credited.coded,
                      chi |-> credited.chi, setBy |-> credited.setBy]
      BY DEF PInv
    <3> HIDE DEF credited, dest
    <3>4. HasPowers(credited)
      BY <3>2 DEF PInv, HasPowers
    <3>5. Entitled(running, exec, exec')
      BY <3>1, <3>2 DEF Entitled
    <3> QED
      BY <2>1, <3>1, <3>3, <3>4, <3>5, InvokePowers
  <2>3. CASE dest \notin DOMAIN exec.balance
    <3>1. UNCHANGED <<exec, running, ctx, cp>>
      BY <1>4, <2>3 DEF Deliver
    <3> QED
      BY <1>1, <3>1 DEF PInv, HasPowers, Entitled
  <2> QED
    BY <2>2, <2>3
<1>5. CASE \/ \E d \in Ids, a \in Amounts : TransferNow(d, a) \/ TransferDeferred(d, a)
           \/ \E d \in Ids : Eject(d)
           \/ \E id \in Ids, same \in BOOLEAN : New(id, same)
           \/ Checkpoint
  <2>1. running # NoService /\ Called /\ cp' \in {cp, ctx} /\ exec' = exec
    BY <1>5 DEF TransferNow, TransferDeferred, Eject, New, Checkpoint, Calling, Called
  <2>2. IsRecord(ctx)
    BY <2>1 DEF IInv, Alive
  <2>3. ctx'.chi = ctx.chi /\ ctx'.setBy = ctx.setBy
    <3>1. CASE \E d \in Ids, a \in Amounts : TransferNow(d, a)
      BY <2>2, <3>1 DEF TransferNow, IsRecord
    <3>2. CASE \E d \in Ids, a \in Amounts : TransferDeferred(d, a)
      BY <2>2, <3>2 DEF TransferDeferred, IsRecord
    <3>3. CASE \E d \in Ids : Eject(d)
      BY <2>2, <3>3 DEF Eject, IsRecord
    <3>4. CASE \E id \in Ids, same \in BOOLEAN : New(id, same)
      BY <2>2, <3>4 DEF New, IsRecord
    <3>5. CASE Checkpoint
      BY <3>5 DEF Checkpoint
    <3> QED
      BY <1>5, <3>1, <3>2, <3>3, <3>4, <3>5
  <2> QED
    BY <1>1, <2>1, <2>3, KeptPowers
<1>6. CASE \/ \E chi \in Blessings : Bless(chi)
           \/ \E c \in Cores, heir \in Heirs : Assign(c, heir)
           \/ Designate
  <2>1. PInv'
    BY <1>6, BlessPowers, AssignPowers, DesignatePowers
  <2>2. exec' = exec
    BY <1>6 DEF Bless, Assign, Designate, Called
  <2> QED
    BY <1>1, <2>1, <2>2
<1>7. CASE Halt \/ Trap
  <2>1. running # NoService
    BY <1>7 DEF Halt, Trap
  <2> QED
    BY <1>7, <2>1, ReturnPowers
<1>8. CASE UNCHANGED vars
  BY <1>8 DEF vars, PInv, HasPowers, Entitled
<1> QED
  BY <1>2, <1>3, <1>4, <1>5, <1>6, <1>7, <1>8 DEF Next

\* Queues, staged validators and privileges only ever change by the hand of a
\* service that was entitled to it when it was invoked: for any privileges to
\* start with, any number of cores and any use services make of bless and
\* assign (accumulate_exec.rs 733-825).
THEOREM PowersAreEarned == Spec => PowersPassOn
<1>1. Init => IInv /\ PInv
  BY InitInv, InitPowers
<1>2. IInv /\ PInv /\ [Next]_vars => IInv' /\ PInv' /\ [Entitled(running, exec, exec')]_vars
  BY NextStep, NextPowers
<1> QED
  BY <1>1, <1>2, PTL DEF Spec, PowersPassOn

-----------------------------------------------------------------------------
(* The ids of new services.                                                *)

\* A set of numbers has a least one.
LEMMA LeastExists ==
  ASSUME NEW T, T \subseteq Nat, T # {}
  PROVE  Min(T) \in T /\ \A y \in T : Min(T) <= y
<1> DEFINE R == OpToRel(<, Nat)
<1>1. IsWellFoundedOn(R, Nat)
  BY NatLessThanWellFounded
<1>2. \A x, y \in Nat : <<y, x>> \in R <=> y < x
  BY DEF OpToRel
<1> HIDE DEF R
<1>3. PICK x \in T : \A y \in T : ~ (<<y, x>> \in R)
  BY <1>1, WFMin
<1>4. ASSUME NEW y \in T PROVE x <= y
  <2>1. x \in Nat /\ y \in Nat /\ ~ (<<y, x>> \in R)
    BY <1>3
  <2>2. ~ (y < x)
    BY <1>2, <2>1
  <2> QED
    BY <2>1, <2>2
<1> QED
  BY <1>4 DEF Min

\* Less than a round apart, two steps along a ring end at different places.
LEMMA ModInjective ==
  ASSUME NEW n \in Nat \ {0}, NEW a \in Int, NEW j \in Nat, NEW k \in Nat,
         j < n, k < n, (a + j) % n = (a + k) % n
  PROVE  j = k
<1>1. \A x \in Int : /\ x % n \in 0..(n - 1) /\ (x \div n) \in Int
                     /\ x = n * (x \div n) + (x % n)
  OBVIOUS
<1> DEFINE p == (a + j) \div n
           q == (a + k) \div n
           r == (a + j) % n
<1>2. /\ p \in Int /\ q \in Int /\ r \in Int
      /\ a + j = n * p + r /\ a + k = n * q + r
  <2>1. a + j \in Int /\ a + k \in Int
    OBVIOUS
  <2> DEFINE x == a + j
             y == a + k
  <2>2. x % n = y % n
    OBVIOUS
  <2>3. x \in Int /\ y \in Int
    BY <2>1
  <2> HIDE DEF x, y
  <2>4. /\ x = n * (x \div n) + (x % n) /\ (x \div n) \in Int /\ (x % n) \in Int
        /\ y = n * (y \div n) + (y % n) /\ (y \div n) \in Int
    BY <1>1, <2>3
  <2> QED
    BY <2>2, <2>4 DEF x, y
<1> HIDE DEF p, q, r
<1>3. \A x, y \in Int : n * x - n * y = n * (x - y)
  OBVIOUS
<1>4. j - k = n * (p - q)
  <2>1. n * p \in Int /\ n * q \in Int
    BY <1>2
  <2>2. j - k = n * p - n * q
    BY <1>2, <2>1
  <2> QED
    BY <1>2, <1>3, <2>2
<1>5. \A d \in Int : n * d < n /\ -(n * d) < n => d = 0
  OBVIOUS
<1>6. p - q = 0
  BY <1>2, <1>4, <1>5
<1> QED
  BY <1>2, <1>4, <1>6

\* Walking on from where a walk ended is one longer walk.
LEMMA ModPlus ==
  ASSUME NEW n \in Nat \ {0}, NEW a \in Int, NEW k \in Int
  PROVE  ((a % n) + k) % n = (a + k) % n
<1>1. \A x \in Int : /\ x % n \in 0..(n - 1) /\ (x \div n) \in Int
                     /\ x = n * (x \div n) + (x % n)
  OBVIOUS
<1> DEFINE r == a % n
           p == a \div n
           y == r + k
           z == a + k
<1>2. /\ r \in 0..(n - 1) /\ p \in Int /\ a = n * p + r
  BY <1>1
<1>3. y \in Int /\ z \in Int /\ z = n * p + y /\ n * p \in Int
  BY <1>2
<1> HIDE DEF r, p, y, z
<1>4. /\ y % n \in 0..(n - 1) /\ (y \div n) \in Int /\ y = n * (y \div n) + (y % n)
      /\ z % n \in 0..(n - 1) /\ (z \div n) \in Int /\ z = n * (z \div n) + (z % n)
  BY <1>1, <1>3
<1> DEFINE u == y \div n
           v == z \div n
           d == p + u - v
<1>5. n * d = n * p + n * u - n * v
  <2>1. \A b, c, e \in Int : n * (b + c - e) = n * b + n * c - n * e
    OBVIOUS
  <2>2. u \in Int /\ v \in Int
    BY <1>4
  <2> HIDE DEF u, v
  <2> QED
    BY <1>2, <2>1, <2>2
<1>6. d \in Int /\ n * d = (z % n) - (y % n)
  <2> DEFINE np == n * p
             nu == n * u
             nv == n * v
             yr == y % n
             zr == z % n
  <2>1. u \in Int /\ v \in Int
    BY <1>4
  <2>2. /\ np \in Int /\ nu \in Int /\ nv \in Int /\ yr \in Int /\ zr \in Int
        /\ y = nu + yr /\ z = nv + zr /\ z = np + y
    BY <1>2, <1>3, <1>4, <2>1
  <2>3. n * d = np + nu - nv
    BY <1>5
  <2>4. d \in Int
    BY <1>2, <2>1
  <2> HIDE DEF np, nu, nv, yr, zr, d
  <2>5. np + nu - nv = zr - yr
    BY <1>3, <2>2
  <2> QED
    BY <2>3, <2>4, <2>5 DEF yr, zr
<1> HIDE DEF d
<1>7. \A e \in Int : n * e < n /\ -(n * e) < n => e = 0
  OBVIOUS
<1>8. d = 0
  BY <1>4, <1>6, <1>7
<1>9. z % n = y % n
  BY <1>4, <1>6, <1>8
<1> QED
  BY <1>9 DEF y, z, r

\* A place on the ring.
LEMMA RingPlace ==
  ASSUME NEW id \in Int, NEW k \in Int
  PROVE  OnRing(id, k) \in PublicIds
<1>1. MinPublic \in Nat /\ IdRing \in Nat \ {0}
  BY ServicesConstants
<1>2. (id - MinPublic + k) % IdRing \in 0..(IdRing - 1)
  BY <1>1
<1> QED
  BY <1>1, <1>2 DEF OnRing, PublicIds

\* Among more consecutive ids than there are accounts, one is free.
LEMMA FreeNearby ==
  ASSUME NEW id \in PublicIds, NEW live, IsFiniteSet(live),
         Cardinality(live) <= MaxAccounts
  PROVE  \E k \in 0..MaxAccounts : OnRing(id, k) \notin live
<1> SUFFICES ASSUME \A k \in 0..MaxAccounts : OnRing(id, k) \in live
             PROVE  FALSE
  OBVIOUS
<1>1. /\ MaxAccounts \in Nat /\ MinPublic \in Nat /\ IdRing \in Nat \ {0}
      /\ IdStep \in Nat \ {0} /\ IdStep + MaxAccounts < IdRing /\ id - MinPublic \in Int
  BY ServicesConstants DEF PublicIds
<1> DEFINE places == 0..MaxAccounts
           f == [k \in places |-> OnRing(id, k)]
<1>2. IsFiniteSet(places) /\ Cardinality(places) = MaxAccounts + 1
  BY <1>1, FS_Interval
<1>3. f \in [places -> live]
  OBVIOUS
<1>4. Cardinality(live) \in Nat /\ Cardinality(live) < Cardinality(places)
  BY <1>1, <1>2, FS_CardinalityType
<1> HIDE DEF f
<1>5. PICK j, k \in places : j # k /\ f[j] = f[k]
  BY <1>2, <1>3, <1>4, FS_PigeonHole
<1>6. OnRing(id, j) = OnRing(id, k)
  BY <1>5 DEF f
<1>7. (id - MinPublic + j) % IdRing = (id - MinPublic + k) % IdRing
  <2>1. /\ (id - MinPublic + j) % IdRing \in 0..(IdRing - 1)
        /\ (id - MinPublic + k) % IdRing \in 0..(IdRing - 1)
    BY <1>1, <1>5
  <2> QED
    BY <1>1, <1>6, <2>1 DEF OnRing
<1>8. j \in Nat /\ k \in Nat /\ j < IdRing /\ k < IdRing
  BY <1>1, <1>5
<1>9. j = k
  BY <1>1, <1>7, <1>8, ModInjective
<1> QED
  BY <1>5, <1>9

\* check stops at a free id, fewer steps on than there may be accounts.
LEMMA CheckIdIsFree ==
  ASSUME NEW id \in PublicIds, NEW live, IsFiniteSet(live),
         Cardinality(live) <= MaxAccounts
  PROVE  \E k \in 0..MaxAccounts : /\ CheckId(id, live) = OnRing(id, k)
                                   /\ OnRing(id, k) \in PublicIds \ live
<1> DEFINE free == {k \in 0..IdRing - 1 : OnRing(id, k) \notin live}
<1>1. /\ MaxAccounts \in Nat /\ IdRing \in Nat \ {0} /\ IdStep \in Nat \ {0}
      /\ IdStep + MaxAccounts < IdRing /\ MinPublic \in Nat /\ id \in Int
  BY ServicesConstants DEF PublicIds
<1>2. PICK k \in 0..MaxAccounts : OnRing(id, k) \notin live
  BY FreeNearby
<1>3. k \in free /\ free \subseteq Nat
  BY <1>1, <1>2
<1>4. Min(free) \in free /\ Min(free) <= k
  <2> HIDE DEF free
  <2> QED
    BY <1>3, LeastExists
<1>5. Min(free) \in 0..MaxAccounts /\ OnRing(id, Min(free)) \notin live
  BY <1>1, <1>2, <1>4
<1>6. CheckId(id, live) = OnRing(id, Min(free))
  BY DEF CheckId
<1> HIDE DEF free
<1>7. OnRing(id, Min(free)) \in PublicIds
  BY <1>1, <1>5, RingPlace
<1> QED
  BY <1>5, <1>6, <1>7

\* The id after a new account's is not the one the account may have taken.
LEMMA NextIdMovesOn ==
  ASSUME NEW id \in PublicIds, NEW live, IsFiniteSet(live),
         Cardinality(live) <= MaxAccounts
  PROVE  CheckId(OnRing(id, IdStep), live) \in PublicIds \ (live \cup {id})
<1>1. /\ MaxAccounts \in Nat /\ IdRing \in Nat \ {0} /\ IdStep \in Nat \ {0}
      /\ IdStep + MaxAccounts < IdRing /\ MinPublic \in Nat /\ id \in Int
      /\ id - MinPublic \in 0..(IdRing - 1)
  BY ServicesConstants DEF PublicIds
<1>2. OnRing(id, IdStep) \in PublicIds
  BY <1>1, RingPlace
<1>3. PICK k \in 0..MaxAccounts :
        /\ CheckId(OnRing(id, IdStep), live) = OnRing(OnRing(id, IdStep), k)
        /\ OnRing(OnRing(id, IdStep), k) \in PublicIds \ live
  BY <1>2, CheckIdIsFree
<1> DEFINE a == id - MinPublic
           m == a + IdStep
<1>4. OnRing(OnRing(id, IdStep), k) = MinPublic + (((m % IdRing) + k) % IdRing)
  <2>1. m % IdRing \in 0..(IdRing - 1)
    BY <1>1
  <2>2. OnRing(id, IdStep) - MinPublic = m % IdRing
    BY <1>1, <2>1 DEF OnRing
  <2> QED
    BY <2>2 DEF OnRing
<1>5. ((m % IdRing) + k) % IdRing = (m + k) % IdRing
  <2>1. m \in Int /\ k \in Int
    BY <1>1, <1>3
  <2> HIDE DEF m
  <2> QED
    BY <1>1, <2>1, ModPlus
<1>6. (m + k) % IdRing # a
  <2> SUFFICES ASSUME (m + k) % IdRing = a PROVE FALSE
    OBVIOUS
  <2>1. m + k = a + (IdStep + k) /\ a + 0 = a
    BY <1>1, <1>3
  <2>2. a % IdRing = a
    BY <1>1
  <2>3. (a + (IdStep + k)) % IdRing = (a + 0) % IdRing
    BY <2>1, <2>2
  <2>4. IdStep + k \in Nat /\ 0 \in Nat /\ IdStep + k < IdRing /\ 0 < IdRing /\ a \in Int
    BY <1>1, <1>3
  <2> HIDE DEF a
  <2>5. IdStep + k = 0
    BY <1>1, <2>3, <2>4, ModInjective
  <2> QED
    BY <1>1, <1>3, <2>5
<1>7. (m + k) % IdRing \in 0..(IdRing - 1)
  BY <1>1, <1>3
<1>8. CheckId(OnRing(id, IdStep), live) # id
  BY <1>1, <1>3, <1>4, <1>5, <1>6, <1>7
<1> QED
  BY <1>3, <1>8

\* A number of accounts that leaves room on the ring.
Few(accounts) == /\ IsFiniteSet(DOMAIN accounts.balance)
                 /\ Cardinality(DOMAIN accounts.balance) <= MaxAccounts

Fresh(c) == c.nextFree \in PublicIds \ DOMAIN c.balance

FInv == /\ Few(exec)
        /\ running # NoService => Few(ctx) /\ Fresh(ctx) /\ Few(cp) /\ Fresh(cp)

LEMMA InitFresh == Init => FInv
<1> SUFFICES ASSUME Init PROVE FInv
  OBVIOUS
<1>1. exec.balance = Accounts /\ running = NoService
  BY DEF Init
<1>2. IsFiniteSet(DOMAIN Accounts) /\ Cardinality(DOMAIN Accounts) <= MaxAccounts
  <2>1. MinPublic \in Nat /\ IdRing \in Nat
    BY ServicesConstants
  <2>2. IsFiniteSet(Ids)
    BY <2>1, FS_Interval DEF Ids
  <2> QED
    BY <2>2, FS_Subset, ServicesConstants
<1> QED
  BY <1>1, <1>2 DEF FInv, Few

LEMMA InvokeFresh ==
  ASSUME NEW s, NEW accounts, Few(accounts), running = NoService, Invoke(s, accounts)
  PROVE  FInv'
<1>1. CASE s \notin accounts.coded
  BY <1>1 DEF Invoke, FInv, Few
<1>2. CASE s \in accounts.coded
  <2>1. PICK seed \in Seeds : ctx' = Context(accounts, seed)
    BY <1>2 DEF Invoke
  <2>2. cp' = ctx' /\ exec' = accounts
    BY <1>2 DEF Invoke
  <2>3. /\ ctx'.balance = accounts.balance
        /\ ctx'.nextFree = CheckId(seed, DOMAIN accounts.balance)
    BY <2>1 DEF Context
  <2>4. CheckId(seed, DOMAIN accounts.balance) \in PublicIds \ DOMAIN accounts.balance
    <3>1. seed \in PublicIds
      BY ServicesConstants
    <3> QED
      BY <3>1, CheckIdIsFree DEF Few
  <2> QED
    BY <2>2, <2>3, <2>4 DEF FInv, Few, Fresh
<1> QED
  BY <1>1, <1>2

\* A host call after which no account is new and the id is the same.
LEMMA FewerFresh ==
  ASSUME FInv, running # NoService, Called, cp' \in {cp, ctx},
         DOMAIN ctx'.balance \subseteq DOMAIN ctx.balance, ctx'.nextFree = ctx.nextFree
  PROVE  FInv'
<1>1. Few(ctx) /\ Fresh(ctx) /\ Few(cp) /\ Fresh(cp) /\ Few(exec)
  BY DEF FInv
<1>2. /\ IsFiniteSet(DOMAIN ctx'.balance)
      /\ Cardinality(DOMAIN ctx'.balance) <= Cardinality(DOMAIN ctx.balance)
      /\ Cardinality(DOMAIN ctx'.balance) \in Nat /\ Cardinality(DOMAIN ctx.balance) \in Nat
  BY <1>1, FS_Subset, FS_CardinalityType DEF Few
<1>3. Few(ctx)' /\ Fresh(ctx)'
  BY <1>1, <1>2, ServicesConstants DEF Few, Fresh
<1> QED
  BY <1>1, <1>3 DEF FInv, Called, Few, Fresh

\* A new account takes the id kept for it, or one below the ring.
LEMMA NewFresh ==
  ASSUME IInv, FInv, NEW id \in Ids, NEW sameCode \in BOOLEAN, New(id, sameCode)
  PROVE  FInv'
<1> DEFINE live == DOMAIN ctx.balance
           inserted == [x \in live \cup {id} |->
                          IF x = id THEN NewCost ELSE ctx.balance[x]]
           paid == Min({inserted[running], NewCost})
           balance == [inserted EXCEPT ![running] = @ - paid]
           next == CheckId(OnRing(ctx.nextFree, IdStep), live)
<1>1. /\ running # NoService /\ cp' = cp /\ Called /\ Cardinality(live) < MaxAccounts
      /\ ctx' = [ctx EXCEPT
           !.balance = balance,
           !.coded = IF sameCode THEN @ ELSE @ \ {id},
           !.nextFree = next,
           !.minted = @ + NewCost - paid,
           !.overwritten = @ + BalanceIn(ctx.balance, id)]
  BY DEF New, Calling
<1>2. Alive(ctx) /\ Few(ctx) /\ Fresh(ctx) /\ Few(cp) /\ Fresh(cp) /\ Few(exec)
  BY <1>1 DEF IInv, FInv
<1>3. DOMAIN balance = live \cup {id}
  OBVIOUS
<1>4. id = ctx.nextFree \/ id \notin PublicIds
  <2>1. id \in {ctx.nextFree} \/ id \in 0..MinPublic - 1
    BY DEF New, NewIds
  <2> QED
    BY <2>1, ServicesConstants DEF PublicIds
<1> HIDE DEF balance, paid, inserted, next, live
<1>5. ctx'.balance = balance /\ ctx'.nextFree = next
  BY <1>1, <1>2 DEF Alive, IsRecord
<1>6. next \in PublicIds \ (live \cup {id})
  <2>1. next \in PublicIds \ (live \cup {ctx.nextFree})
    BY <1>2, NextIdMovesOn DEF Few, Fresh, live, next
  <2> QED
    BY <1>4, <2>1
<1>7. /\ IsFiniteSet(live \cup {id})
      /\ Cardinality(live \cup {id}) <= MaxAccounts
  <2>1. IsFiniteSet(live) /\ Cardinality(live) \in Nat /\ MaxAccounts \in Nat
    BY <1>2, FS_CardinalityType, ServicesConstants DEF Few, live
  <2>2. /\ IsFiniteSet(live \cup {id})
        /\ Cardinality(live \cup {id}) \in {Cardinality(live), Cardinality(live) + 1}
    BY <2>1, FS_AddElement
  <2> QED
    BY <1>1, <2>1, <2>2
<1>8. Few(ctx)' /\ Fresh(ctx)'
  BY <1>3, <1>5, <1>6, <1>7 DEF Few, Fresh
<1> QED
  BY <1>1, <1>2, <1>8 DEF FInv, Called, Few, Fresh

\* What a call other than new leaves of the accounts.
LEMMA CallFresh ==
  ASSUME IInv, FInv,
         \/ \E d \in Ids, a \in Amounts : TransferNow(d, a) \/ TransferDeferred(d, a)
         \/ \E d \in Ids : Eject(d)
         \/ \E chi \in Blessings : Bless(chi)
         \/ \E c \in Cores, heir \in Heirs : Assign(c, heir)
         \/ Designate
         \/ Checkpoint
  PROVE  FInv'
<1>1. running # NoService /\ Called /\ cp' \in {cp, ctx}
  BY DEF TransferNow, TransferDeferred, Eject, Bless, Assign, Designate, Checkpoint, Calling
<1>2. IsRecord(ctx) /\ running \in DOMAIN ctx.balance
  BY <1>1 DEF IInv, Alive
<1>3. DOMAIN ctx'.balance \subseteq DOMAIN ctx.balance /\ ctx'.nextFree = ctx.nextFree
  <2>1. CASE \E d \in Ids, a \in Amounts : TransferNow(d, a)
    <3>1. PICK d \in Ids, a \in Amounts : TransferNow(d, a)
      BY <2>1
    <3> DEFINE debited == [ctx.balance EXCEPT ![running] = @ - a]
    <3>2. ctx' = [ctx EXCEPT !.balance = Credit(debited, d, a)] /\ d \in DOMAIN ctx.balance
      BY <3>1 DEF TransferNow, Payable
    <3>3. DOMAIN debited = DOMAIN ctx.balance
      OBVIOUS
    <3>4. DOMAIN Credit(debited, d, a) = DOMAIN debited \cup {d}
      BY CreditDomain
    <3> HIDE DEF debited
    <3> QED
      BY <1>2, <3>2, <3>3, <3>4 DEF IsRecord
  <2>2. CASE \E d \in Ids, a \in Amounts : TransferDeferred(d, a)
    BY <1>2, <2>2 DEF TransferDeferred, IsRecord
  <2>3. CASE \E d \in Ids : Eject(d)
    <3>1. PICK d \in Ids : Eject(d)
      BY <2>3
    <3> DEFINE left == Restrict(ctx.balance, DOMAIN ctx.balance \ {d})
    <3>2. ctx' = [ctx EXCEPT !.balance = Credit(left, running, ctx.balance[d]),
                             !.coded = @ \ {d}]
      BY <3>1 DEF Eject
    <3>3. DOMAIN left \subseteq DOMAIN ctx.balance
      BY DEF Restrict
    <3>4. DOMAIN Credit(left, running, ctx.balance[d]) = DOMAIN left \cup {running}
      BY CreditDomain
    <3> HIDE DEF left
    <3> QED
      BY <1>2, <3>2, <3>3, <3>4 DEF IsRecord
  <2>4. CASE \E chi \in Blessings : Bless(chi)
    BY <1>2, <2>4 DEF Bless, IsRecord
  <2>5. CASE \E c \in Cores, heir \in Heirs : Assign(c, heir)
    BY <1>2, <2>5 DEF Assign, IsRecord
  <2>6. CASE Designate
    BY <1>2, <2>6 DEF Designate, IsRecord
  <2>7. CASE Checkpoint
    BY <2>7 DEF Checkpoint
  <2> QED
    BY <2>1, <2>2, <2>3, <2>4, <2>5, <2>6, <2>7
<1> QED
  BY <1>1, <1>3, FewerFresh

LEMMA NextFresh == IInv /\ PInv /\ FInv /\ [Next]_vars => FInv'
<1> SUFFICES ASSUME IInv, PInv, FInv, [Next]_vars
             PROVE  FInv'
  OBVIOUS
<1>1. CASE RunNext
  BY <1>1, InvokeFresh DEF RunNext, Idle, FInv
<1>2. CASE StartRound \/ Finish
  <2>1. UNCHANGED <<exec, running, ctx, cp>>
    BY <1>2 DEF StartRound, Finish
  <2> QED
    BY <2>1 DEF FInv, Few, Fresh
<1>3. CASE Deliver
  <2> DEFINE dest == Min(DOMAIN inbox)
             credited == [exec EXCEPT !.balance[dest] = @ + inbox[dest]]
  <2>1. running = NoService
    BY <1>3 DEF Deliver, Idle
  <2>2. CASE dest \in DOMAIN exec.balance
    <3>1. Invoke(dest, credited)
      BY <1>3, <2>2 DEF Deliver
    <3>2. DOMAIN credited.balance = DOMAIN exec.balance
      BY DEF PInv
    <3> HIDE DEF credited, dest
    <3> QED
      BY <2>1, <3>1, <3>2, InvokeFresh DEF FInv, Few
  <2>3. CASE dest \notin DOMAIN exec.balance
    <3>1. UNCHANGED <<exec, running, ctx, cp>>
      BY <1>3, <2>3 DEF Deliver
    <3> QED
      BY <3>1 DEF FInv, Few, Fresh
  <2> QED
    BY <2>2, <2>3
<1>4. CASE \E id \in Ids, same \in BOOLEAN : New(id, same)
  BY <1>4, NewFresh
<1>5. CASE Halt \/ Trap
  <2>1. PICK out \in {ctx, cp} : Return(out)
    BY <1>5 DEF Halt, Trap
  <2>2. running # NoService /\ Few(out)
    BY <1>5 DEF Halt, Trap, FInv
  <2>3. exec'.balance = out.balance /\ running' = NoService
    BY <2>1 DEF Return
  <2> QED
    BY <2>2, <2>3 DEF FInv, Few
<1>6. CASE UNCHANGED vars
  BY <1>6 DEF vars, FInv, Few, Fresh
<1> QED
  BY <1>1, <1>2, <1>3, <1>4, <1>5, <1>6, CallFresh DEF Next

\* The id kept for the next new account is nobody's, whatever is created,
\* ejected or undone: for every ring that has room for one step of the id more
\* than there may be accounts, as 2^32 has (accumulate_exec.rs 335-353,
\* 831-883).
THEOREM NextIdStaysFree == Spec => []NextIdIsFree
<1>1. Init => IInv /\ PInv /\ FInv
  BY InitInv, InitPowers, InitFresh
<1>2. IInv /\ PInv /\ FInv /\ [Next]_vars => IInv' /\ PInv' /\ FInv'
  BY NextStep, NextPowers, NextFresh
<1>3. FInv => NextIdIsFree
  BY DEF FInv, Fresh, NextIdIsFree
<1> QED
  BY <1>1, <1>2, <1>3, PTL DEF Spec

-----------------------------------------------------------------------------
(* Type correctness: no balance is ever negative.                          *)

LEMMA CreditTyped ==
  ASSUME NEW f, IsLedger(f), NEW s \in Ids, NEW amount \in Nat
  PROVE  IsLedger(Credit(f, s, amount))
  BY DEF IsLedger, Credit, BalanceIn

LEMMA MergeTyped ==
  ASSUME NEW f, IsLedger(f), NEW g, IsLedger(g)
  PROVE  IsLedger(Merge(f, g))
  BY DEF IsLedger, Merge, BalanceIn

LEMMA RestrictTyped ==
  ASSUME NEW f, IsLedger(f), NEW S, S \subseteq DOMAIN f
  PROVE  IsLedger(Restrict(f, S))
  BY DEF IsLedger, Restrict

LEMMA NothingTyped == IsLedger(Nothing)
  BY DEF IsLedger, Nothing

LEMMA ConstantTypes ==
  /\ MinPublic \in Nat /\ NewCost \in Nat /\ MaxCalls \in Nat /\ MaxRounds \in Nat
  /\ NoService \notin Ids /\ Privileges \in Chis /\ Amounts \subseteq Nat
  /\ MinPublic \in PublicIds /\ PublicIds \subseteq Ids
  BY ServicesConstants DEF PublicIds, Ids

LEMMA NoContextTyped == IsContext(NoContext)
  BY NothingTyped, ConstantTypes DEF IsContext, NoContext, Nothing

LEMMA InitTypes == Init => TypeOK
<1> SUFFICES ASSUME Init PROVE TypeOK
  OBVIOUS
<1>1. /\ exec.balance = Accounts /\ exec.coded = Coded /\ exec.chi = Privileges
      /\ running = NoService /\ calls = 0 /\ round = 0
      /\ ctx = NoContext /\ cp = NoContext /\ inbox = Nothing /\ pending = Nothing
      /\ ledger.minted = 0 /\ ledger.overwritten = 0 /\ ledger.burnt = 0
      /\ DOMAIN ledger = {"minted", "overwritten", "burnt", "cut"}
  BY DEF Init
<1>2. IsLedger(Accounts) /\ Coded \subseteq DOMAIN Accounts
  BY ServicesConstants DEF IsLedger
<1>3. done \in BOOLEAN
  BY DEF Init
<1> QED
  BY <1>1, <1>2, <1>3, NothingTyped, NoContextTyped, ConstantTypes DEF TypeOK

\* What a host call has to show.
LEMMA CallTypes ==
  ASSUME TypeOK, Calling, Called, IsContext(ctx'), cp' \in {cp, ctx}
  PROVE  TypeOK'
<1>1. calls' \in 0..MaxCalls
  BY ConstantTypes DEF Calling, Called, TypeOK
<1>2. IsContext(cp')
  BY DEF TypeOK
<1>3. UNCHANGED <<exec, queue, running, inbox, pending, round, ledger, done>>
  BY DEF Called
<1> QED
  BY <1>1, <1>2, <1>3 DEF TypeOK

LEMMA InvokeTypes ==
  ASSUME NEW s, NEW accounts, IsLedger(accounts.balance), accounts.chi \in Chis,
         accounts.coded \subseteq DOMAIN accounts.balance, Few(accounts),
         TypeOK, running = NoService, Invoke(s, accounts)
  PROVE  /\ exec' = accounts /\ calls' \in 0..MaxCalls
         /\ running' \in Ids \cup {NoService} /\ IsContext(ctx') /\ IsContext(cp')
<1>1. exec' = accounts /\ calls' \in 0..MaxCalls
  BY ConstantTypes DEF Invoke
<1>2. CASE s \notin accounts.coded
  BY <1>1, <1>2 DEF Invoke, TypeOK
<1>3. CASE s \in accounts.coded
  <2>1. PICK seed \in Seeds : ctx' = Context(accounts, seed)
    BY <1>3 DEF Invoke
  <2>2. running' = s /\ cp' = ctx' /\ s \in Ids
    BY <1>3 DEF Invoke, IsLedger
  <2>3. CheckId(seed, DOMAIN accounts.balance) \in PublicIds
    <3>1. seed \in PublicIds
      BY ServicesConstants
    <3> QED
      BY <3>1, CheckIdIsFree DEF Few
  <2>4. accounts.coded \subseteq Ids
    BY DEF IsLedger
  <2>5. /\ ctx'.balance = accounts.balance /\ ctx'.coded = accounts.coded
        /\ ctx'.chi = accounts.chi /\ ctx'.transfers = Nothing
        /\ ctx'.nextFree = CheckId(seed, DOMAIN accounts.balance)
        /\ ctx'.minted = 0 /\ ctx'.overwritten = 0
    BY <2>1 DEF Context
  <2>6. IsContext(ctx')
    BY <2>3, <2>4, <2>5, NothingTyped DEF IsContext
  <2> QED
    BY <1>1, <2>2, <2>6
<1> QED
  BY <1>2, <1>3

LEMMA TransferTypes ==
  ASSUME IInv, TypeOK, NEW d \in Ids, NEW a \in Amounts,
         TransferNow(d, a) \/ TransferDeferred(d, a)
  PROVE  TypeOK'
<1> DEFINE debited == [ctx.balance EXCEPT ![running] = @ - a]
<1>1. /\ running # NoService /\ Calling /\ Called /\ cp' = cp
      /\ BalanceIn(ctx.balance, running) >= a
  BY DEF TransferNow, TransferDeferred, Calling, Payable
<1>2. /\ IsRecord(ctx) /\ running \in DOMAIN ctx.balance /\ IsContext(ctx)
      /\ a \in Nat
  BY <1>1, ConstantTypes DEF IInv, Alive, TypeOK
<1>3. IsLedger(debited)
  BY <1>1, <1>2 DEF IsContext, IsLedger, BalanceIn
<1>4. /\ ctx'.coded = ctx.coded /\ ctx'.chi = ctx.chi /\ ctx'.nextFree = ctx.nextFree
      /\ ctx'.minted = ctx.minted /\ ctx'.overwritten = ctx.overwritten
      /\ \/ ctx'.balance = Credit(debited, d, a) /\ ctx'.transfers = ctx.transfers
         \/ ctx'.balance = debited /\ ctx'.transfers = Credit(ctx.transfers, d, a)
  <2>1. CASE TransferNow(d, a)
    <3>1. ctx' = [ctx EXCEPT !.balance = Credit(debited, d, a)]
      BY <2>1 DEF TransferNow
    <3> HIDE DEF debited
    <3> QED
      BY <1>2, <3>1 DEF IsRecord
  <2>2. CASE TransferDeferred(d, a)
    <3>1. ctx' = [ctx EXCEPT !.balance = debited, !.transfers = Credit(@, d, a)]
      BY <2>2 DEF TransferDeferred
    <3> HIDE DEF debited
    <3> QED
      BY <1>2, <3>1 DEF IsRecord
  <2> QED
    BY <2>1, <2>2
<1> HIDE DEF debited
<1>5. IsLedger(ctx'.balance) /\ IsLedger(ctx'.transfers)
  BY <1>2, <1>3, <1>4, CreditTyped DEF IsContext
<1>6. IsContext(ctx')
  BY <1>2, <1>4, <1>5 DEF IsContext
<1> QED
  BY <1>1, <1>6, CallTypes

LEMMA EjectTypes ==
  ASSUME IInv, TypeOK, NEW d \in Ids, Eject(d)
  PROVE  TypeOK'
<1> DEFINE left == Restrict(ctx.balance, DOMAIN ctx.balance \ {d})
<1>1. /\ running # NoService /\ Calling /\ Called /\ cp' = cp /\ d \in DOMAIN ctx.balance
      /\ ctx' = [ctx EXCEPT !.balance = Credit(left, running, ctx.balance[d]),
                            !.coded = @ \ {d}]
  BY DEF Eject, Calling
<1>2. IsRecord(ctx) /\ running \in Ids /\ IsContext(ctx) /\ ctx.balance[d] \in Nat
  BY <1>1 DEF IInv, Alive, TypeOK, IsContext, IsLedger
<1>3. IsLedger(left)
  BY <1>2, RestrictTyped DEF IsContext
<1> HIDE DEF left
<1>4. IsLedger(Credit(left, running, ctx.balance[d]))
  BY <1>2, <1>3, CreditTyped
<1>5. /\ ctx'.balance = Credit(left, running, ctx.balance[d])
      /\ ctx'.coded = ctx.coded \ {d} /\ ctx'.chi = ctx.chi
      /\ ctx'.nextFree = ctx.nextFree /\ ctx'.transfers = ctx.transfers
      /\ ctx'.minted = ctx.minted /\ ctx'.overwritten = ctx.overwritten
  BY <1>1, <1>2 DEF IsRecord
<1>6. IsContext(ctx')
  BY <1>2, <1>4, <1>5 DEF IsContext
<1> QED
  BY <1>1, <1>6, CallTypes

LEMMA NewTypes ==
  ASSUME IInv, FInv', TypeOK, NEW id \in Ids, NEW sameCode \in BOOLEAN, New(id, sameCode)
  PROVE  TypeOK'
<1> DEFINE inserted == [x \in DOMAIN ctx.balance \cup {id} |->
                          IF x = id THEN NewCost ELSE ctx.balance[x]]
           paid == Min({inserted[running], NewCost})
           balance == [inserted EXCEPT ![running] = @ - paid]
           next == CheckId(OnRing(ctx.nextFree, IdStep), DOMAIN ctx.balance)
<1>1. /\ running # NoService /\ Calling /\ Called /\ cp' = cp /\ running' = running
      /\ ctx' = [ctx EXCEPT
           !.balance = balance,
           !.coded = IF sameCode THEN @ ELSE @ \ {id},
           !.nextFree = next,
           !.minted = @ + NewCost - paid,
           !.overwritten = @ + BalanceIn(ctx.balance, id)]
  BY DEF New, Calling, Called
<1>2. /\ IsRecord(ctx) /\ running \in DOMAIN ctx.balance /\ IsContext(ctx)
      /\ NewCost \in Nat
  BY <1>1, ConstantTypes DEF IInv, Alive, TypeOK
<1>3. /\ DOMAIN inserted = DOMAIN ctx.balance \cup {id}
      /\ \A x \in DOMAIN inserted : inserted[x] \in Nat
  BY <1>2 DEF IsContext, IsLedger
<1>4. paid \in Nat /\ paid <= inserted[running] /\ paid <= NewCost
  <2> DEFINE T == {inserted[running], NewCost}
  <2>1. T \subseteq Nat /\ T # {}
    BY <1>2, <1>3
  <2> HIDE DEF T, inserted
  <2>2. Min(T) \in T /\ \A y \in T : Min(T) <= y
    BY <2>1, LeastExists
  <2>3. Min(T) \in Nat
    BY <2>1, <2>2
  <2> QED
    BY <2>2, <2>3 DEF T
<1>5. IsLedger(balance)
  <2> HIDE DEF inserted, paid
  <2>1. \A x \in DOMAIN balance : balance[x] \in Nat
    BY <1>2, <1>3, <1>4
  <2>2. DOMAIN balance \subseteq Ids
    BY <1>2, <1>3 DEF IsContext, IsLedger
  <2> QED
    BY <2>1, <2>2 DEF IsLedger
<1> HIDE DEF balance, paid, inserted, next
<1>6. /\ ctx'.balance = balance /\ ctx'.coded \subseteq ctx.coded /\ ctx'.chi = ctx.chi
      /\ ctx'.nextFree = next /\ ctx'.transfers = ctx.transfers
      /\ ctx'.minted = ctx.minted + NewCost - paid
      /\ ctx'.overwritten = ctx.overwritten + BalanceIn(ctx.balance, id)
  BY <1>1, <1>2 DEF IsRecord
<1>7. ctx'.nextFree \in PublicIds
  BY <1>1 DEF FInv, Fresh
<1>8. ctx'.minted \in Nat /\ ctx'.overwritten \in Nat
  BY <1>2, <1>4, <1>6 DEF IsContext, IsLedger, BalanceIn
<1>9. IsContext(ctx')
  BY <1>2, <1>5, <1>6, <1>7, <1>8 DEF IsContext
<1> QED
  BY <1>1, <1>9, CallTypes

LEMMA PowerTypes ==
  ASSUME IInv, TypeOK,
         \/ \E chi \in Blessings : Bless(chi)
         \/ \E c \in Cores, heir \in Heirs : Assign(c, heir)
         \/ Designate
  PROVE  TypeOK'
<1>1. running # NoService /\ Calling /\ Called /\ cp' = cp
  BY DEF Bless, Assign, Designate, Calling
<1>2. IsRecord(ctx) /\ IsContext(ctx)
  BY <1>1 DEF IInv, Alive, TypeOK
<1>3. /\ ctx'.balance = ctx.balance /\ ctx'.coded = ctx.coded
      /\ ctx'.nextFree = ctx.nextFree /\ ctx'.transfers = ctx.transfers
      /\ ctx'.minted = ctx.minted /\ ctx'.overwritten = ctx.overwritten
      /\ ctx'.chi \in Chis
  <2>1. CASE \E chi \in Blessings : Bless(chi)
    <3>1. PICK chi \in Blessings : Bless(chi)
      BY <2>1
    <3>2. chi \in Chis
      BY ServicesConstants
    <3> QED
      BY <1>2, <3>1, <3>2 DEF Bless, IsRecord
  <2>2. CASE \E c \in Cores, heir \in Heirs : Assign(c, heir)
    <3>1. PICK c \in Cores, heir \in Heirs : Assign(c, heir)
      BY <2>2
    <3>2. /\ ctx'.balance = ctx.balance /\ ctx'.coded = ctx.coded
          /\ ctx'.nextFree = ctx.nextFree /\ ctx'.transfers = ctx.transfers
          /\ ctx'.minted = ctx.minted /\ ctx'.overwritten = ctx.overwritten
          /\ ctx'.chi = [ctx.chi EXCEPT !.assign = [@ EXCEPT ![c] = heir]]
      BY <1>2, <3>1 DEF Assign, IsRecord
    <3>3. heir \in Ids /\ ctx.chi \in Chis
      BY <1>2, ServicesConstants DEF IsContext
    <3>4. [ctx.chi.assign EXCEPT ![c] = heir] \in [Cores -> Ids]
      BY <3>3 DEF Chis
    <3>5. [ctx.chi EXCEPT !.assign = [ctx.chi.assign EXCEPT ![c] = heir]] \in Chis
      BY <3>3, <3>4 DEF Chis
    <3> QED
      BY <3>2, <3>5
  <2>3. CASE Designate
    <3>1. ctx.chi \in Chis
      BY <1>2 DEF IsContext
    <3> QED
      BY <1>2, <2>3, <3>1 DEF Designate, IsRecord
  <2> QED
    BY <2>1, <2>2, <2>3
<1>4. IsContext(ctx')
  BY <1>2, <1>3 DEF IsContext
<1> QED
  BY <1>1, <1>4, CallTypes

LEMMA ReturnTypes ==
  ASSUME IInv, TypeOK, Halt \/ Trap
  PROVE  TypeOK'
<1>1. running # NoService
  BY DEF Halt, Trap
<1>2. PICK out \in {ctx, cp} : Return(out)
  BY DEF Halt, Trap
<1>3. IsContext(out) /\ CodeHasAccount(out)
  BY <1>1 DEF IInv, Alive, TypeOK
<1>4. /\ exec'.balance = out.balance /\ exec'.coded = out.coded /\ exec'.chi = out.chi
      /\ pending' = Merge(pending, out.transfers)
      /\ running' = NoService /\ calls' = 0 /\ ctx' = NoContext /\ cp' = NoContext
      /\ UNCHANGED <<inbox, round>>
  BY <1>2 DEF Return
<1>5. done' \in BOOLEAN
  BY <1>2 DEF Return, TypeOK
<1>6. ledger' = [ledger EXCEPT !.minted = @ + out.minted, !.overwritten = @ + out.overwritten]
  BY <1>2 DEF Return
<1>7. /\ {ledger'.minted, ledger'.overwritten, ledger'.burnt} \subseteq Nat
      /\ DOMAIN ledger' = DOMAIN ledger
  BY <1>3, <1>6 DEF TypeOK, IsContext
<1>8. IsLedger(pending')
  BY <1>3, <1>4, MergeTyped DEF IsContext, TypeOK
<1> QED
  BY <1>3, <1>4, <1>5, <1>7, <1>8, NoContextTyped, ConstantTypes
     DEF TypeOK, CodeHasAccount, IsContext

LEMMA NextTypes == IInv /\ PInv /\ FInv /\ FInv' /\ TypeOK /\ [Next]_vars => TypeOK'
<1> SUFFICES ASSUME IInv, PInv, FInv, FInv', TypeOK, [Next]_vars
             PROVE  TypeOK'
  OBVIOUS
<1>1. CASE RunNext
  <2>1. /\ running = NoService /\ Invoke(queue[1], exec)
        /\ UNCHANGED <<inbox, pending, round, ledger, done>>
    BY <1>1 DEF RunNext, Idle
  <2>2. Few(exec) /\ IsLedger(exec.balance) /\ exec.chi \in Chis
        /\ exec.coded \subseteq DOMAIN exec.balance
    BY DEF FInv, TypeOK
  <2>3. /\ exec' = exec /\ calls' \in 0..MaxCalls
        /\ running' \in Ids \cup {NoService} /\ IsContext(ctx') /\ IsContext(cp')
    BY <2>1, <2>2, InvokeTypes
  <2> QED
    BY <2>1, <2>3 DEF TypeOK
<1>2. CASE StartRound
  <2>1. /\ inbox' = pending /\ pending' = Nothing /\ round < MaxRounds /\ round' = round + 1
        /\ UNCHANGED <<exec, queue, running, calls, ctx, cp, ledger, done>>
    BY <1>2 DEF StartRound
  <2>2. round' \in 0..MaxRounds
    BY <2>1, ConstantTypes DEF TypeOK
  <2> QED
    BY <2>1, <2>2, NothingTyped DEF TypeOK
<1>3. CASE Finish
  <2>1. /\ pending' = Nothing
        /\ UNCHANGED <<exec, queue, running, calls, ctx, cp, inbox, round>>
        /\ ledger' = [ledger EXCEPT !.cut = @ + Total(pending)]
    BY <1>3 DEF Finish
  <2>2. done' \in BOOLEAN
    BY <1>3 DEF Finish
  <2>3. UNCHANGED <<ledger.minted, ledger.overwritten, ledger.burnt, DOMAIN ledger>>
    BY <2>1 DEF TypeOK
  <2> QED
    BY <2>1, <2>2, <2>3, NothingTyped DEF TypeOK
<1>4. CASE Deliver
  <2> DEFINE dest == Min(DOMAIN inbox)
             credited == [exec EXCEPT !.balance[dest] = @ + inbox[dest]]
  <2>1. running = NoService /\ inbox # Nothing /\ inbox' = Restrict(inbox, DOMAIN inbox \ {dest})
        /\ UNCHANGED <<queue, pending, round>>
    BY <1>4 DEF Deliver, Idle
  <2>2. done' \in BOOLEAN
    BY <1>4 DEF Deliver, TypeOK
  <2>3. IsLedger(inbox')
    BY <2>1, RestrictTyped DEF TypeOK
  <2>4. dest \in DOMAIN inbox /\ inbox[dest] \in Nat
    <3>1. IsLedger(inbox)
      BY DEF TypeOK
    <3>2. DOMAIN inbox # {}
      <4>1. inbox \in [{} -> Nat] => inbox = Nothing
        BY DEF Nothing
      <4> QED
        BY <2>1, <3>1, <4>1 DEF IsLedger
    <3>3. DOMAIN inbox \subseteq Nat
      BY <3>1, ServicesConstants DEF IsLedger, Ids
    <3>4. dest \in DOMAIN inbox
      BY <3>2, <3>3, LeastExists
    <3> HIDE DEF dest
    <3> QED
      BY <3>1, <3>4 DEF IsLedger
  <2>5. CASE dest \in DOMAIN exec.balance
    <3>1. Invoke(dest, credited) /\ ledger' = ledger
      BY <1>4, <2>5 DEF Deliver
    <3>2. /\ credited.balance = [exec.balance EXCEPT ![dest] = @ + inbox[dest]]
          /\ credited.coded = exec.coded /\ credited.chi = exec.chi
      BY DEF PInv
    <3> HIDE DEF credited, dest
    <3>3. /\ IsLedger(credited.balance) /\ DOMAIN credited.balance = DOMAIN exec.balance
          /\ credited.coded \subseteq DOMAIN credited.balance /\ credited.chi \in Chis
      BY <2>4, <2>5, <3>2 DEF TypeOK, IsLedger
    <3>4. Few(credited)
      BY <3>3 DEF FInv, Few
    <3>5. /\ exec' = credited /\ calls' \in 0..MaxCalls
          /\ running' \in Ids \cup {NoService} /\ IsContext(ctx') /\ IsContext(cp')
      BY <2>1, <3>1, <3>3, <3>4, InvokeTypes
    <3> QED
      BY <2>1, <2>2, <2>3, <3>1, <3>3, <3>5 DEF TypeOK
  <2>6. CASE dest \notin DOMAIN exec.balance
    <3>1. /\ ledger' = [ledger EXCEPT !.burnt = @ + inbox[dest]]
          /\ UNCHANGED <<exec, running, calls, ctx, cp>>
      BY <1>4, <2>6 DEF Deliver
    <3> HIDE DEF dest
    <3>2. /\ {ledger'.minted, ledger'.overwritten, ledger'.burnt} \subseteq Nat
          /\ DOMAIN ledger' = DOMAIN ledger
      BY <2>4, <3>1 DEF TypeOK
    <3> QED
      BY <2>1, <2>2, <2>3, <3>1, <3>2 DEF TypeOK
  <2> QED
    BY <2>5, <2>6
<1>5. CASE \E d \in Ids, a \in Amounts : TransferNow(d, a) \/ TransferDeferred(d, a)
  BY <1>5, TransferTypes
<1>6. CASE \E d \in Ids : Eject(d)
  BY <1>6, EjectTypes
<1>7. CASE \E id \in Ids, same \in BOOLEAN : New(id, same)
  BY <1>7, NewTypes
<1>8. CASE \/ \E chi \in Blessings : Bless(chi)
           \/ \E c \in Cores, heir \in Heirs : Assign(c, heir)
           \/ Designate
  BY <1>8, PowerTypes
<1>9. CASE Checkpoint
  <2>1. Calling /\ Called /\ cp' = ctx /\ ctx' = ctx /\ IsContext(ctx')
    BY <1>9 DEF Checkpoint, TypeOK
  <2> QED
    BY <2>1, CallTypes
<1>10. CASE Halt \/ Trap
  BY <1>10, ReturnTypes
<1>11. CASE UNCHANGED vars
  BY <1>11 DEF vars, TypeOK
<1> QED
  BY <1>1, <1>2, <1>3, <1>4, <1>5, <1>6, <1>7, <1>8, <1>9, <1>10, <1>11 DEF Next

\* Every variable has its type: no balance, no transfer and no entry of the
\* ledger is ever negative, whatever the services call
\* (accumulate_exec.rs 588-621, 858-883).
THEOREM TypeCorrect == Spec => []TypeOK
<1>1. Init => IInv /\ PInv /\ FInv /\ TypeOK
  BY InitInv, InitPowers, InitFresh, InitTypes
<1>2. IInv /\ PInv /\ FInv /\ [Next]_vars => IInv' /\ PInv' /\ FInv'
  BY NextStep, NextPowers, NextFresh
<1>3. IInv /\ PInv /\ FInv /\ FInv' /\ TypeOK /\ [Next]_vars => TypeOK'
  BY NextTypes
<1> QED
  BY <1>1, <1>2, <1>3, PTL DEF Spec

-----------------------------------------------------------------------------
(* Totals.                                                                 *)

\* A function of natural numbers with finitely many places.
Counted(f) == IsFiniteSet(DOMAIN f) /\ \A x \in DOMAIN f : f[x] \in Nat

LEMMA UnitsOf ==
  ASSUME NEW f, NEW u
  PROVE  u \in Units(f) <=> \E x \in DOMAIN f : \E i \in 1..f[x] : u = <<x, i>>
  BY DEF Units

\* The units of one place are as many as its number.
LEMMA OnePlace ==
  ASSUME NEW x, NEW n \in Nat
  PROVE  IsFiniteSet({x} \X (1..n)) /\ Cardinality({x} \X (1..n)) = n
<1>1. IsFiniteSet(1..n) /\ Cardinality(1..n) = n
  BY FS_Interval
<1>2. IsFiniteSet({x}) /\ Cardinality({x}) = 1
  BY FS_Singleton
<1>3. /\ IsFiniteSet({x} \X (1..n))
      /\ Cardinality({x} \X (1..n)) = Cardinality({x}) * Cardinality(1..n)
  BY <1>1, <1>2, FS_Product
<1>4. \A c, d \in Nat : c = 1 => c * d = d
  OBVIOUS
<1> QED
  BY <1>1, <1>2, <1>3, <1>4

LEMMA UnitsFinite ==
  ASSUME NEW f, Counted(f)
  PROVE  IsFiniteSet(Units(f)) /\ Total(f) \in Nat
<1> DEFINE place == [x \in DOMAIN f |-> {x} \X (1..f[x])]
           places == {{x} \X (1..f[x]) : x \in DOMAIN f}
<1>1. place \in Surjection(DOMAIN f, places)
  BY DEF Surjection
<1>2. IsFiniteSet(places)
  <2> HIDE DEF place, places
  <2> QED
    BY <1>1, FS_Surjection DEF Counted
<1>3. \A T \in places : IsFiniteSet(T)
  <2>1. \A x \in DOMAIN f : IsFiniteSet({x} \X (1..f[x]))
    BY OnePlace DEF Counted
  <2> QED
    BY <2>1
<1>4. IsFiniteSet(UNION places)
  <2> HIDE DEF places
  <2> QED
    BY <1>2, <1>3, FS_UNION
<1>5. IsFiniteSet(Units(f))
  BY <1>4 DEF Units
<1> QED
  BY <1>5, FS_CardinalityType DEF Total

\* The total without one place.
LEMMA TotalApart ==
  ASSUME NEW f, Counted(f), NEW x \in DOMAIN f,
         NEW g, DOMAIN g = DOMAIN f \ {x}, \A y \in DOMAIN g : g[y] = f[y]
  PROVE  Counted(g) /\ Total(f) = Total(g) + f[x]
<1> DEFINE here == {x} \X (1..f[x])
<1>1. IsFiniteSet(DOMAIN g)
  BY FS_RemoveElement DEF Counted
<1>2. Counted(g)
  BY <1>1 DEF Counted
<1>3. IsFiniteSet(here) /\ Cardinality(here) = f[x]
  BY OnePlace DEF Counted
<1>4. IsFiniteSet(Units(g))
  BY <1>2, UnitsFinite
<1>5. Units(f) = Units(g) \cup here
  BY UnitsOf
<1>6. Units(g) \cap here = {}
  BY UnitsOf
<1> HIDE DEF here
<1>7. /\ Cardinality(Units(f)) =
           Cardinality(Units(g)) + Cardinality(here) - Cardinality(Units(g) \cap here)
  BY <1>3, <1>4, <1>5, FS_Union
<1>8. Cardinality(Units(g) \cap here) = 0
  BY <1>6, FS_EmptySet
<1>9. Cardinality(Units(g)) \in Nat
  BY <1>4, FS_CardinalityType
<1>10. f[x] \in Nat
  BY DEF Counted
<1>11. \A a, b \in Nat : a + b - 0 = a + b
  OBVIOUS
<1> QED
  BY <1>2, <1>3, <1>7, <1>8, <1>9, <1>10, <1>11 DEF Total

LEMMA TotalSame ==
  ASSUME NEW f, NEW g, DOMAIN g = DOMAIN f, \A y \in DOMAIN f : g[y] = f[y]
  PROVE  Total(g) = Total(f)
<1>1. \A u : u \in Units(g) <=> u \in Units(f)
  BY UnitsOf
<1> QED
  BY <1>1 DEF Total

\* A function that differs from another at one place, or has one more.
LEMMA TotalChanged ==
  ASSUME NEW f, Counted(f), NEW x, NEW g, DOMAIN g = DOMAIN f \cup {x},
         \A y \in DOMAIN f \ {x} : g[y] = f[y], g[x] \in Nat
  PROVE  /\ Counted(g) /\ BalanceIn(f, x) \in Nat
         /\ Total(g) + BalanceIn(f, x) = Total(f) + g[x]
<1> DEFINE rest == [y \in DOMAIN f \ {x} |-> f[y]]
<1>1. Counted(g)
  <2>1. IsFiniteSet(DOMAIN g)
    BY FS_AddElement DEF Counted
  <2> QED
    BY <2>1 DEF Counted
<1>2. DOMAIN rest = DOMAIN g \ {x} /\ \A y \in DOMAIN rest : rest[y] = g[y]
  OBVIOUS
<1>3. \A y \in DOMAIN rest : rest[y] = f[y]
  OBVIOUS
<1>4. DOMAIN rest = DOMAIN f \ {x}
  OBVIOUS
<1> HIDE DEF rest
<1>5. Counted(rest) /\ Total(g) = Total(rest) + g[x]
  BY <1>1, <1>2, TotalApart
<1>6. Total(rest) \in Nat
  BY <1>5, UnitsFinite
<1>7. CASE x \in DOMAIN f
  <2>1. Total(f) = Total(rest) + f[x]
    BY <1>3, <1>4, <1>7, TotalApart
  <2>2. f[x] \in Nat /\ BalanceIn(f, x) = f[x]
    BY <1>7 DEF Counted, BalanceIn
  <2> QED
    BY <1>1, <1>5, <1>6, <2>1, <2>2
<1>8. CASE x \notin DOMAIN f
  <2>1. DOMAIN rest = DOMAIN f /\ BalanceIn(f, x) = 0
    BY <1>4, <1>8 DEF BalanceIn
  <2>2. Total(rest) = Total(f)
    BY <1>3, <2>1, TotalSame
  <2> QED
    BY <1>1, <1>5, <1>6, <2>1, <2>2
<1> QED
  BY <1>7, <1>8

LEMMA TotalCredit ==
  ASSUME NEW f, Counted(f), NEW s, NEW amount \in Nat
  PROVE  Counted(Credit(f, s, amount)) /\ Total(Credit(f, s, amount)) = Total(f) + amount
<1> DEFINE g == Credit(f, s, amount)
<1>1. BalanceIn(f, s) \in Nat
  BY DEF Counted, BalanceIn
<1>2. /\ DOMAIN g = DOMAIN f \cup {s} /\ g[s] = BalanceIn(f, s) + amount
      /\ \A y \in DOMAIN f \ {s} : g[y] = f[y] + 0
  BY DEF Credit, BalanceIn
<1>3. \A y \in DOMAIN f \ {s} : g[y] = f[y]
  BY <1>2 DEF Counted
<1> HIDE DEF g
<1>4. Counted(g) /\ Total(g) + BalanceIn(f, s) = Total(f) + g[s]
  <2>1. g[s] \in Nat
    BY <1>1, <1>2
  <2> QED
    BY <1>2, <1>3, <2>1, TotalChanged
<1>5. Total(g) \in Nat /\ Total(f) \in Nat
  BY <1>4, UnitsFinite
<1>6. Total(g) = Total(f) + amount
  BY <1>1, <1>2, <1>4, <1>5
<1> QED
  BY <1>4, <1>6 DEF g

LEMMA TotalDebit ==
  ASSUME NEW f, Counted(f), NEW s \in DOMAIN f, NEW amount \in Nat, amount <= f[s]
  PROVE  LET g == [f EXCEPT ![s] = @ - amount]
         IN  /\ Counted(g) /\ DOMAIN g = DOMAIN f
             /\ Total(g) \in Nat /\ Total(f) = Total(g) + amount
<1> DEFINE g == [f EXCEPT ![s] = @ - amount]
<1>1. f[s] \in Nat
  BY DEF Counted
<1>2. /\ DOMAIN g = DOMAIN f /\ \A y \in DOMAIN f \ {s} : g[y] = f[y]
      /\ g[s] = f[s] - amount
  OBVIOUS
<1>3. g[s] \in Nat /\ DOMAIN g = DOMAIN f \cup {s}
  BY <1>1, <1>2
<1> HIDE DEF g
<1>4. Counted(g) /\ Total(g) + BalanceIn(f, s) = Total(f) + g[s]
  BY <1>2, <1>3, TotalChanged
<1>5. Total(g) \in Nat /\ Total(f) \in Nat
  BY <1>4, UnitsFinite
<1>6. BalanceIn(f, s) = f[s]
  BY DEF BalanceIn
<1>7. Total(f) = Total(g) + amount
  BY <1>1, <1>2, <1>4, <1>5, <1>6
<1> QED
  BY <1>2, <1>4, <1>5, <1>7 DEF g

\* The units of a sum are those of the one and, above them, those of the other.
LEMMA TotalMerge ==
  ASSUME NEW f, Counted(f), NEW g, Counted(g)
  PROVE  Counted(Merge(f, g)) /\ Total(Merge(f, g)) = Total(f) + Total(g)
<1> DEFINE m == Merge(f, g)
           raised == [u \in Units(g) |-> <<u[1], BalanceIn(f, u[1]) + u[2]>>]
           upper == {raised[u] : u \in Units(g)}
<1>1. \A x : BalanceIn(f, x) \in Nat /\ BalanceIn(g, x) \in Nat
  BY DEF Counted, BalanceIn
<1>2. /\ DOMAIN m = DOMAIN f \cup DOMAIN g
      /\ \A x \in DOMAIN m : m[x] = BalanceIn(f, x) + BalanceIn(g, x)
  BY DEF Merge
<1>3. Counted(m)
  <2>1. IsFiniteSet(DOMAIN f \cup DOMAIN g)
    BY FS_Union DEF Counted
  <2> QED
    BY <1>1, <1>2, <2>1 DEF Counted
<1>4. \A x, i : <<x, i>> \in Units(f) <=> x \in DOMAIN f /\ i \in 1..f[x]
  BY UnitsOf
<1>5. \A x, i : <<x, i>> \in Units(g) <=> x \in DOMAIN g /\ i \in 1..g[x]
  BY UnitsOf
<1>6. \A x, i : <<x, i>> \in Units(m) <=> x \in DOMAIN m /\ i \in 1..m[x]
  BY UnitsOf
<1>7. \A x, i : <<x, i>> \in upper <=>
        x \in DOMAIN g /\ \E j \in 1..g[x] : i = BalanceIn(f, x) + j
  <2>1. ASSUME NEW x, NEW j, <<x, j>> \in Units(g)
        PROVE  raised[<<x, j>>] = <<x, BalanceIn(f, x) + j>>
    BY <2>1
  <2>2. \A u \in Units(g) : \E x, j : u = <<x, j>>
    BY UnitsOf
  <2> HIDE DEF raised
  <2>3. ASSUME NEW x, NEW i, <<x, i>> \in upper
        PROVE  x \in DOMAIN g /\ \E j \in 1..g[x] : i = BalanceIn(f, x) + j
    <3>1. PICK u \in Units(g) : <<x, i>> = raised[u]
      BY <2>3
    <3>2. PICK y, j : u = <<y, j>>
      BY <2>2
    <3>3. x = y /\ i = BalanceIn(f, y) + j
      BY <2>1, <3>1, <3>2
    <3> QED
      BY <1>5, <3>2, <3>3
  <2>4. ASSUME NEW x \in DOMAIN g, NEW j \in 1..g[x]
        PROVE  <<x, BalanceIn(f, x) + j>> \in upper
    BY <1>5, <2>1
  <2> QED
    BY <2>3, <2>4
<1>8. raised \in Bijection(Units(g), upper)
  <2>1. raised \in Surjection(Units(g), upper)
    BY DEF Surjection
  <2>2. ASSUME NEW u \in Units(g), NEW v \in Units(g), raised[u] = raised[v]
        PROVE  u = v
    <3>1. PICK x \in DOMAIN g : \E i \in 1..g[x] : u = <<x, i>>
      BY UnitsOf
    <3>2. PICK i \in 1..g[x] : u = <<x, i>>
      BY <3>1
    <3>3. PICK y \in DOMAIN g : \E j \in 1..g[y] : v = <<y, j>>
      BY UnitsOf
    <3>4. PICK j \in 1..g[y] : v = <<y, j>>
      BY <3>3
    <3>5. x = y /\ BalanceIn(f, x) + i = BalanceIn(f, y) + j
      BY <2>2, <3>2, <3>4
    <3>6. i = j
      BY <1>1, <3>5
    <3> QED
      BY <3>2, <3>4, <3>5, <3>6
  <2> QED
    BY <2>1, <2>2 DEF Bijection, Injection, IsInjective, Surjection
<1> HIDE DEF m, raised, upper
<1>9. IsFiniteSet(upper) /\ Cardinality(upper) = Total(g)
  BY <1>8, UnitsFinite, FS_Bijection DEF ExistsBijection, Total
<1>10. \A x, i : <<x, i>> \in Units(m) <=> <<x, i>> \in Units(f) \/ <<x, i>> \in upper
  <2> SUFFICES ASSUME NEW x, NEW i
               PROVE  <<x, i>> \in Units(m) <=> <<x, i>> \in Units(f) \/ <<x, i>> \in upper
    OBVIOUS
  <2> DEFINE a == BalanceIn(f, x)
             b == BalanceIn(g, x)
  <2>1. a \in Nat /\ b \in Nat
    BY <1>1
  <2>2. <<x, i>> \in Units(m) <=> i \in 1..(a + b)
    BY <1>1, <1>2, <1>6 DEF BalanceIn
  <2>3. <<x, i>> \in Units(f) <=> i \in 1..a
    BY <1>4 DEF BalanceIn
  <2>4. <<x, i>> \in upper <=> \E j \in 1..b : i = a + j
    BY <1>7 DEF BalanceIn
  <2> HIDE DEF a, b
  <2>5. i \in 1..(a + b) <=> i \in 1..a \/ \E j \in 1..b : i = a + j
    <3>1. ASSUME i \in 1..(a + b), i \notin 1..a
          PROVE  \E j \in 1..b : i = a + j
      <4>1. i - a \in 1..b /\ i = a + (i - a)
        BY <2>1, <3>1
      <4> QED
        BY <4>1
    <3>2. ASSUME i \in 1..a PROVE i \in 1..(a + b)
      BY <2>1, <3>2
    <3>3. ASSUME NEW j \in 1..b, i = a + j PROVE i \in 1..(a + b)
      BY <2>1, <3>3
    <3> QED
      BY <3>1, <3>2, <3>3
  <2> QED
    BY <2>2, <2>3, <2>4, <2>5
<1>11. Units(m) = Units(f) \cup upper
  <2>1. \A u \in Units(m) \cup Units(f) \cup upper : \E x, i : u = <<x, i>>
    BY UnitsOf DEF upper, raised
  <2> QED
    BY <1>10, <2>1
<1>12. Units(f) \cap upper = {}
  <2> SUFFICES ASSUME NEW u \in Units(f), u \in upper
               PROVE  FALSE
    OBVIOUS
  <2>1. PICK x \in DOMAIN f : \E i \in 1..f[x] : u = <<x, i>>
    BY UnitsOf
  <2>2. PICK i \in 1..f[x] : u = <<x, i>>
    BY <2>1
  <2>3. PICK j \in 1..g[x] : i = BalanceIn(f, x) + j
    BY <1>7, <2>2
  <2>4. BalanceIn(f, x) = f[x] /\ f[x] \in Nat
    BY <2>1 DEF BalanceIn, Counted
  <2> QED
    BY <2>2, <2>3, <2>4
<1>13. IsFiniteSet(Units(f)) /\ Total(f) \in Nat /\ Total(g) \in Nat
  BY UnitsFinite
<1>14. Cardinality(Units(f) \cup upper) =
         Cardinality(Units(f)) + Cardinality(upper) - Cardinality(Units(f) \cap upper)
  BY <1>9, <1>13, FS_Union
<1>15. Cardinality(Units(f) \cap upper) = 0
  BY <1>12, FS_EmptySet
<1>16. Total(m) = Total(f) + Total(g)
  BY <1>9, <1>11, <1>13, <1>14, <1>15 DEF Total
<1> QED
  BY <1>3, <1>16 DEF m

-----------------------------------------------------------------------------
(* The supply.                                                             *)

LEMMA LedgerCounted ==
  ASSUME NEW f, IsLedger(f)
  PROVE  Counted(f) /\ Total(f) \in Nat
<1>1. IsFiniteSet(Ids)
  <2>1. MinPublic + IdRing - 1 \in Int
    BY ServicesConstants
  <2> QED
    BY <2>1, FS_Interval DEF Ids
<1>2. IsFiniteSet(DOMAIN f)
  BY <1>1, FS_Subset DEF IsLedger
<1>3. Counted(f)
  BY <1>2 DEF Counted, IsLedger
<1> QED
  BY <1>3, UnitsFinite

LEMMA NothingTotal == Total(Nothing) = 0
<1>1. Units(Nothing) = {}
  BY UnitsOf DEF Nothing
<1> QED
  BY <1>1, FS_EmptySet DEF Total

\* What a context holds, has under way and has overwritten is what the block's
\* state held when the service was invoked, and what new accounts added.
Funded(c) ==
  Total(c.balance) + Total(c.transfers) + c.overwritten = Total(exec.balance) + c.minted

\* Between invocations, and behind the running one.
StateSupply ==
  Total(exec.balance) + Total(inbox) + Total(pending)
    + ledger.burnt + ledger.cut + ledger.overwritten
  = Total(Accounts) + ledger.minted

SInv == /\ ledger.cut \in Nat
        /\ StateSupply
        /\ running # NoService => Funded(ctx) /\ Funded(cp)

\* The totals are numbers.
TotalsTyped ==
  /\ Total(exec.balance) \in Nat /\ Total(inbox) \in Nat /\ Total(pending) \in Nat
  /\ Total(ctx.balance) \in Nat /\ Total(ctx.transfers) \in Nat
  /\ Total(cp.balance) \in Nat /\ Total(cp.transfers) \in Nat
  /\ Total(Accounts) \in Nat
  /\ ctx.minted \in Nat /\ ctx.overwritten \in Nat
  /\ cp.minted \in Nat /\ cp.overwritten \in Nat
  /\ ledger.minted \in Nat /\ ledger.overwritten \in Nat /\ ledger.burnt \in Nat

LEMMA TypesOfTotals == TypeOK => TotalsTyped
<1>1. IsLedger(Accounts)
  BY ServicesConstants DEF IsLedger
<1> QED
  BY <1>1, LedgerCounted DEF TypeOK, IsContext, TotalsTyped

LEMMA SupplyImplies == TypeOK /\ SInv => SupplyAccounted
<1> SUFFICES ASSUME TypeOK, SInv PROVE SupplyAccounted
  OBVIOUS
<1>1. TotalsTyped
  BY TypesOfTotals
<1>2. \A e, i, p, b, c, o, a, m, cb, ct, co, cm \in Nat :
        e + i + p + b + c + o = a + m /\ cb + ct + co = e + cm =>
          (cb + ct) + i + p + b + c + (o + co) = a + (m + cm)
  OBVIOUS
<1>3. \A m \in Nat : m + 0 = m
  OBVIOUS
<1>4. CASE running = NoService
  <2>1. ledger.minted + 0 = ledger.minted /\ ledger.overwritten + 0 = ledger.overwritten
    BY <1>1, <1>3 DEF TotalsTyped
  <2> QED
    BY <1>4, <2>1 DEF SInv, StateSupply, SupplyAccounted, Held, Minted, Overwritten
<1>5. CASE running # NoService
  BY <1>1, <1>2, <1>5 DEF SInv, StateSupply, Funded, TotalsTyped,
                          SupplyAccounted, Held, Minted, Overwritten
<1> QED
  BY <1>4, <1>5

LEMMA InitSupply == Init => SInv
<1> SUFFICES ASSUME Init PROVE SInv
  OBVIOUS
<1>1. /\ exec.balance = Accounts /\ inbox = Nothing /\ pending = Nothing
      /\ ledger.minted = 0 /\ ledger.overwritten = 0
      /\ ledger.burnt = 0 /\ ledger.cut = 0 /\ running = NoService
  BY DEF Init
<1>2. Total(Accounts) \in Nat
  BY ServicesConstants, LedgerCounted DEF IsLedger
<1>3. \A a \in Nat : a + 0 + 0 + 0 + 0 + 0 = a + 0
  OBVIOUS
<1>4. StateSupply
  BY <1>1, <1>2, <1>3, NothingTotal DEF StateSupply
<1> QED
  BY <1>1, <1>4 DEF SInv

\* What a host call has to show.
LEMMA CallSupply ==
  ASSUME SInv, running # NoService, Called, Funded(ctx)', cp' \in {cp, ctx}
  PROVE  SInv'
<1>1. UNCHANGED <<exec, running, inbox, pending, ledger>>
  BY DEF Called
<1>2. Funded(cp)'
  BY <1>1 DEF SInv, Funded
<1> QED
  BY <1>1, <1>2 DEF SInv, StateSupply

\* A transfer moves from the payer to the payee, or on its way to it.
LEMMA TransferSupply ==
  ASSUME IInv, TypeOK, SInv, NEW dest \in Ids, NEW amount \in Amounts,
         TransferNow(dest, amount) \/ TransferDeferred(dest, amount)
  PROVE  SInv'
<1> DEFINE debited == [ctx.balance EXCEPT ![running] = @ - amount]
<1>1. /\ running # NoService /\ Called /\ cp' = cp
      /\ BalanceIn(ctx.balance, running) >= amount
  BY DEF TransferNow, TransferDeferred, Calling, Payable
<1>2. /\ IsRecord(ctx) /\ IsContext(ctx) /\ running \in DOMAIN ctx.balance
      /\ amount \in Nat /\ Funded(ctx) /\ exec' = exec
  BY <1>1, ConstantTypes DEF IInv, Alive, TypeOK, SInv, Called
<1>3. Counted(ctx.balance) /\ Counted(ctx.transfers)
  BY <1>2, LedgerCounted DEF IsContext
<1>4. amount <= ctx.balance[running]
  BY <1>1, <1>2, <1>3 DEF BalanceIn, Counted
<1>5. /\ Counted(debited) /\ Total(debited) \in Nat
      /\ Total(ctx.balance) = Total(debited) + amount
  BY <1>2, <1>3, <1>4, TotalDebit
<1>6. CASE TransferNow(dest, amount)
  <2>1. ctx' = [ctx EXCEPT !.balance = Credit(debited, dest, amount)]
    BY <1>6 DEF TransferNow
  <2> HIDE DEF debited
  <2>2. /\ ctx'.balance = Credit(debited, dest, amount) /\ ctx'.transfers = ctx.transfers
        /\ ctx'.minted = ctx.minted /\ ctx'.overwritten = ctx.overwritten
    BY <1>2, <2>1 DEF IsRecord
  <2>3. Total(ctx'.balance) = Total(ctx.balance)
    BY <1>2, <1>5, <2>2, TotalCredit
  <2>4. Funded(ctx)'
    BY <1>2, <2>2, <2>3 DEF Funded
  <2> QED
    BY <1>1, <2>4, CallSupply
<1>7. CASE TransferDeferred(dest, amount)
  <2>1. ctx' = [ctx EXCEPT !.balance[running] = @ - amount,
                           !.transfers = Credit(@, dest, amount)]
    BY <1>7 DEF TransferDeferred
  <2>2. /\ ctx'.balance = debited /\ ctx'.transfers = Credit(ctx.transfers, dest, amount)
        /\ ctx'.minted = ctx.minted /\ ctx'.overwritten = ctx.overwritten
    BY <1>2, <2>1 DEF IsRecord
  <2> HIDE DEF debited
  <2>3. Total(ctx'.transfers) = Total(ctx.transfers) + amount
    BY <1>2, <1>3, <2>2, TotalCredit
  <2>4. Total(ctx.transfers) \in Nat /\ ctx.overwritten \in Nat
    BY <1>3, <1>2, UnitsFinite DEF IsContext
  <2>5. \A d, t, a, o \in Nat : (d + a) + t + o = d + (t + a) + o
    OBVIOUS
  <2>6. Funded(ctx)'
    BY <1>2, <1>5, <2>2, <2>3, <2>4, <2>5 DEF Funded
  <2> QED
    BY <1>1, <2>6, CallSupply
<1> QED
  BY <1>6, <1>7

\* What the ejected account held goes to the caller.
LEMMA EjectSupply ==
  ASSUME IInv, TypeOK, SInv, NEW d \in Ids, Eject(d)
  PROVE  SInv'
<1> DEFINE left == Restrict(ctx.balance, DOMAIN ctx.balance \ {d})
<1>1. /\ running # NoService /\ Calling /\ Called /\ cp' = cp /\ d \in DOMAIN ctx.balance
      /\ ctx' = [ctx EXCEPT !.balance = Credit(left, running, ctx.balance[d]),
                            !.coded = @ \ {d}]
  BY DEF Eject, Calling
<1>2. IsRecord(ctx) /\ IsContext(ctx) /\ Funded(ctx) /\ exec' = exec
  BY <1>1 DEF IInv, Alive, TypeOK, SInv, Called
<1>3. Counted(ctx.balance) /\ ctx.balance[d] \in Nat
  BY <1>1, <1>2, LedgerCounted DEF IsContext, Counted
<1>4. DOMAIN left = DOMAIN ctx.balance \ {d} /\ \A y \in DOMAIN left : left[y] = ctx.balance[y]
  BY DEF Restrict
<1> HIDE DEF left
<1>5. Counted(left) /\ Total(ctx.balance) = Total(left) + ctx.balance[d]
  BY <1>1, <1>3, <1>4, TotalApart
<1>6. /\ ctx'.balance = Credit(left, running, ctx.balance[d])
      /\ ctx'.transfers = ctx.transfers
      /\ ctx'.minted = ctx.minted /\ ctx'.overwritten = ctx.overwritten
  BY <1>1, <1>2 DEF IsRecord
<1>7. Total(ctx'.balance) = Total(ctx.balance)
  BY <1>3, <1>5, <1>6, TotalCredit
<1>8. Funded(ctx)'
  BY <1>2, <1>6, <1>7 DEF Funded
<1> QED
  BY <1>1, <1>8, CallSupply

\* What the creator cannot pay of a new account is minted, and what was in its
\* place is overwritten.
LEMMA NewSupply ==
  ASSUME IInv, TypeOK, SInv, NEW id \in Ids, NEW sameCode \in BOOLEAN, New(id, sameCode)
  PROVE  SInv'
<1> DEFINE inserted == [x \in DOMAIN ctx.balance \cup {id} |->
                          IF x = id THEN NewCost ELSE ctx.balance[x]]
           paid == Min({inserted[running], NewCost})
           balance == [inserted EXCEPT ![running] = @ - paid]
           lost == BalanceIn(ctx.balance, id)
<1>1. /\ running # NoService /\ Called /\ cp' = cp
      /\ ctx' = [ctx EXCEPT
           !.balance = balance,
           !.coded = IF sameCode THEN @ ELSE @ \ {id},
           !.nextFree = CheckId(OnRing(@, IdStep), DOMAIN ctx.balance),
           !.minted = @ + NewCost - paid,
           !.overwritten = @ + lost]
  BY DEF New, Calling
<1>2. /\ IsRecord(ctx) /\ IsContext(ctx) /\ running \in DOMAIN ctx.balance
      /\ NewCost \in Nat /\ Funded(ctx) /\ exec' = exec
  BY <1>1, ConstantTypes DEF IInv, Alive, TypeOK, SInv, Called
<1>3. Counted(ctx.balance) /\ Total(ctx.balance) \in Nat /\ Total(ctx.transfers) \in Nat
  BY <1>2, LedgerCounted DEF IsContext
<1>4. /\ DOMAIN inserted = DOMAIN ctx.balance \cup {id} /\ inserted[id] = NewCost
      /\ \A y \in DOMAIN ctx.balance \ {id} : inserted[y] = ctx.balance[y]
  OBVIOUS
<1> HIDE DEF inserted
<1>5. /\ Counted(inserted) /\ lost \in Nat
      /\ Total(inserted) + lost = Total(ctx.balance) + NewCost
  BY <1>2, <1>3, <1>4, TotalChanged
<1>6. running \in DOMAIN inserted /\ inserted[running] \in Nat
  BY <1>2, <1>4, <1>5 DEF Counted
<1>7. paid \in Nat /\ paid <= inserted[running] /\ paid <= NewCost
  <2> DEFINE T == {inserted[running], NewCost}
  <2>1. T \subseteq Nat /\ T # {}
    BY <1>2, <1>6
  <2> HIDE DEF T
  <2>2. Min(T) \in T /\ \A y \in T : Min(T) <= y
    BY <2>1, LeastExists
  <2>3. Min(T) \in Nat
    BY <2>1, <2>2
  <2> QED
    BY <2>2, <2>3 DEF T
<1> HIDE DEF paid, lost
<1>8. Total(balance) \in Nat /\ Total(inserted) = Total(balance) + paid
  BY <1>5, <1>6, <1>7, TotalDebit
<1> HIDE DEF balance
<1>9. /\ ctx'.balance = balance /\ ctx'.transfers = ctx.transfers
      /\ ctx'.minted = ctx.minted + NewCost - paid
      /\ ctx'.overwritten = ctx.overwritten + lost
  BY <1>1, <1>2 DEF IsRecord
<1>10. TotalsTyped
  BY TypesOfTotals
<1>11. \A n, b, p, l, c, t, o, e, m \in Nat :
         p <= n /\ (b + p) + l = c + n /\ c + t + o = e + m =>
           b + t + (o + l) = e + (m + n - p)
  OBVIOUS
<1>12. Funded(ctx)'
  BY <1>2, <1>3, <1>5, <1>7, <1>8, <1>9, <1>10, <1>11 DEF Funded, TotalsTyped
<1> QED
  BY <1>1, <1>12, CallSupply

\* Privileges and checkpoints move no balance.
LEMMA PowerSupply ==
  ASSUME IInv, SInv,
         \/ \E chi \in Blessings : Bless(chi)
         \/ \E c \in Cores, heir \in Heirs : Assign(c, heir)
         \/ Designate \/ Checkpoint
  PROVE  SInv'
<1>1. /\ running # NoService /\ Called /\ cp' \in {cp, ctx}
  BY DEF Bless, Assign, Designate, Checkpoint, Calling
<1>2. IsRecord(ctx) /\ Funded(ctx) /\ exec' = exec
  BY <1>1 DEF IInv, Alive, SInv, Called
<1>3. /\ ctx'.balance = ctx.balance /\ ctx'.transfers = ctx.transfers
      /\ ctx'.minted = ctx.minted /\ ctx'.overwritten = ctx.overwritten
  <2>1. CASE \E chi \in Blessings : Bless(chi)
    BY <1>2, <2>1 DEF Bless, IsRecord
  <2>2. CASE \E c \in Cores, heir \in Heirs : Assign(c, heir)
    BY <1>2, <2>2 DEF Assign, IsRecord
  <2>3. CASE Designate
    BY <1>2, <2>3 DEF Designate, IsRecord
  <2>4. CASE Checkpoint
    BY <2>4 DEF Checkpoint
  <2> QED
    BY <2>1, <2>2, <2>3, <2>4
<1>4. Funded(ctx)'
  BY <1>2, <1>3 DEF Funded
<1> QED
  BY <1>1, <1>4, CallSupply

\* An invocation starts with nothing under way, from the state as it is.
LEMMA InvokeSupply ==
  ASSUME NEW s, NEW accounts, IsLedger(accounts.balance), running = NoService,
         Invoke(s, accounts)
  PROVE  exec' = accounts /\ (running' # NoService => Funded(ctx)' /\ Funded(cp)')
<1>1. CASE s \notin accounts.coded
  BY <1>1 DEF Invoke
<1>2. CASE s \in accounts.coded
  <2>1. PICK seed \in Seeds : ctx' = Context(accounts, seed)
    BY <1>2 DEF Invoke
  <2>2. cp' = ctx' /\ exec' = accounts
    BY <1>2 DEF Invoke
  <2>3. /\ ctx'.balance = accounts.balance /\ ctx'.transfers = Nothing
        /\ ctx'.minted = 0 /\ ctx'.overwritten = 0
    BY <2>1 DEF Context
  <2>4. Total(accounts.balance) \in Nat
    BY LedgerCounted
  <2>5. \A a \in Nat : a + 0 + 0 = a + 0
    OBVIOUS
  <2> QED
    BY <2>2, <2>3, <2>4, <2>5, NothingTotal DEF Funded
<1> QED
  BY <1>1, <1>2

\* What a context leaves behind is the new state, its transfers wait.
LEMMA ReturnSupply ==
  ASSUME IInv, PInv, TypeOK, SInv, Halt \/ Trap
  PROVE  SInv'
<1>1. running # NoService
  BY DEF Halt, Trap
<1>2. PICK out \in {ctx, cp} : Return(out)
  BY DEF Halt, Trap
<1>3. IsContext(out) /\ Funded(out)
  BY <1>1 DEF TypeOK, SInv
<1>4. /\ exec'.balance = out.balance /\ pending' = Merge(pending, out.transfers)
      /\ running' = NoService /\ inbox' = inbox
      /\ ledger' = [ledger EXCEPT !.minted = @ + out.minted,
                                  !.overwritten = @ + out.overwritten]
  BY <1>2 DEF Return
<1>5. /\ ledger'.minted = ledger.minted + out.minted
      /\ ledger'.overwritten = ledger.overwritten + out.overwritten
      /\ ledger'.burnt = ledger.burnt /\ ledger'.cut = ledger.cut
  BY <1>4 DEF TypeOK
<1>6. /\ Total(out.balance) \in Nat /\ Counted(out.transfers)
      /\ Total(out.transfers) \in Nat /\ Counted(pending)
      /\ out.minted \in Nat /\ out.overwritten \in Nat
  BY <1>3, LedgerCounted DEF IsContext, TypeOK
<1>7. Total(pending') = Total(pending) + Total(out.transfers)
  BY <1>4, <1>6, TotalMerge
<1>8. TotalsTyped
  BY TypesOfTotals
<1>9. \A e, i, p, b, c, o, a, m, eo, to, oo, mo \in Nat :
        e + i + p + b + c + o = a + m /\ eo + to + oo = e + mo =>
          eo + i + (p + to) + b + c + (o + oo) = a + (m + mo)
  OBVIOUS
<1>10. StateSupply'
  <2>1. Total(exec'.balance) = Total(out.balance) /\ Total(inbox') = Total(inbox)
    BY <1>4
  <2>2. ledger.cut \in Nat /\ StateSupply
    BY DEF SInv
  <2>3. Total(out.balance) + Total(inbox) + (Total(pending) + Total(out.transfers))
          + ledger.burnt + ledger.cut + (ledger.overwritten + out.overwritten)
        = Total(Accounts) + (ledger.minted + out.minted)
    <3>1. Total(exec.balance) + Total(inbox) + Total(pending)
            + ledger.burnt + ledger.cut + ledger.overwritten
          = Total(Accounts) + ledger.minted
      BY <2>2 DEF StateSupply
    <3>2. Total(out.balance) + Total(out.transfers) + out.overwritten
          = Total(exec.balance) + out.minted
      BY <1>3 DEF Funded
    <3>3. /\ Total(exec.balance) \in Nat /\ Total(inbox) \in Nat /\ Total(pending) \in Nat
          /\ ledger.burnt \in Nat /\ ledger.cut \in Nat /\ ledger.overwritten \in Nat
          /\ Total(Accounts) \in Nat /\ ledger.minted \in Nat
      BY <1>8, <2>2 DEF TotalsTyped
    <3>4. /\ Total(out.balance) \in Nat /\ Total(out.transfers) \in Nat
          /\ out.minted \in Nat /\ out.overwritten \in Nat
      BY <1>6
    <3>5. \A e, r, am, eo, to, oo, mo \in Nat :
            e + r = am /\ eo + to + oo = e + mo => eo + r + to + oo = am + mo
      OBVIOUS
    <3> DEFINE others == Total(inbox) + Total(pending)
                           + ledger.burnt + ledger.cut + ledger.overwritten
               sum == Total(Accounts) + ledger.minted
    <3>6. others \in Nat /\ sum \in Nat /\ Total(exec.balance) + others = sum
      BY <3>1, <3>3
    <3> HIDE DEF others, sum
    <3>7. Total(out.balance) + others + Total(out.transfers) + out.overwritten
          = sum + out.minted
      BY <3>2, <3>3, <3>4, <3>5, <3>6
    <3> QED
      BY <3>3, <3>4, <3>7 DEF others, sum
  <2> QED
    BY <1>5, <1>7, <2>1, <2>3 DEF StateSupply
<1> QED
  BY <1>4, <1>5, <1>10 DEF SInv

\* The recipient of a round is credited, or its transfers are burnt.
LEMMA DeliverSupply ==
  ASSUME IInv, PInv, TypeOK, SInv, Deliver
  PROVE  SInv'
<1> DEFINE dest == Min(DOMAIN inbox)
           credited == [exec EXCEPT !.balance[dest] = @ + inbox[dest]]
<1>1. /\ running = NoService /\ inbox # Nothing
      /\ inbox' = Restrict(inbox, DOMAIN inbox \ {dest}) /\ pending' = pending
  BY DEF Deliver, Idle
<1>2. /\ Counted(inbox) /\ IsLedger(exec.balance) /\ Counted(exec.balance)
      /\ IsLedger(inbox)
  BY LedgerCounted DEF TypeOK
<1>3. dest \in DOMAIN inbox /\ inbox[dest] \in Nat
  <2>1. DOMAIN inbox # {}
    <3>1. inbox \in [{} -> Nat] => inbox = Nothing
      BY DEF Nothing
    <3> QED
      BY <1>1, <1>2, <3>1 DEF IsLedger
  <2>2. DOMAIN inbox \subseteq Nat
    BY <1>2, ServicesConstants DEF IsLedger, Ids
  <2>3. dest \in DOMAIN inbox
    BY <2>1, <2>2, LeastExists
  <2> HIDE DEF dest
  <2> QED
    BY <1>2, <2>3 DEF Counted
<1>4. Counted(inbox') /\ Total(inbox) = Total(inbox') + inbox[dest]
  <2> DEFINE rest == Restrict(inbox, DOMAIN inbox \ {dest})
  <2>1. DOMAIN rest = DOMAIN inbox \ {dest} /\ \A y \in DOMAIN rest : rest[y] = inbox[y]
    BY DEF Restrict
  <2> HIDE DEF rest, dest
  <2>2. Counted(rest) /\ Total(inbox) = Total(rest) + inbox[dest]
    BY <1>2, <1>3, <2>1, TotalApart
  <2> QED
    BY <1>1, <2>2 DEF rest
<1>5. Total(inbox') \in Nat
  BY <1>4, UnitsFinite
<1>6. TotalsTyped /\ ledger.cut \in Nat
  BY TypesOfTotals DEF SInv
<1>7. \A e, x, i, p, b, c, o, am \in Nat :
        e + (i + x) + p + b + c + o = am =>
          /\ (e + x) + i + p + b + c + o = am
          /\ e + i + p + (b + x) + c + o = am
  OBVIOUS
<1>8. /\ (Total(exec.balance) + inbox[dest]) + Total(inbox') + Total(pending)
           + ledger.burnt + ledger.cut + ledger.overwritten
         = Total(Accounts) + ledger.minted
      /\ Total(exec.balance) + Total(inbox') + Total(pending)
           + (ledger.burnt + inbox[dest]) + ledger.cut + ledger.overwritten
         = Total(Accounts) + ledger.minted
  <2> DEFINE am == Total(Accounts) + ledger.minted
  <2>1. am \in Nat
    BY <1>6 DEF TotalsTyped
  <2>2. Total(exec.balance) + (Total(inbox') + inbox[dest]) + Total(pending)
           + ledger.burnt + ledger.cut + ledger.overwritten = am
    BY <1>4 DEF SInv, StateSupply
  <2> HIDE DEF am, dest
  <2>3. /\ (Total(exec.balance) + inbox[dest]) + Total(inbox') + Total(pending)
             + ledger.burnt + ledger.cut + ledger.overwritten = am
        /\ Total(exec.balance) + Total(inbox') + Total(pending)
             + (ledger.burnt + inbox[dest]) + ledger.cut + ledger.overwritten = am
    BY <1>3, <1>5, <1>6, <1>7, <2>1, <2>2 DEF TotalsTyped
  <2> QED
    BY <2>3 DEF am
<1>9. CASE dest \in DOMAIN exec.balance
  <2>1. Invoke(dest, credited) /\ ledger' = ledger
    BY <1>9 DEF Deliver
  <2>2. credited.balance = [exec.balance EXCEPT ![dest] = @ + inbox[dest]]
    BY DEF PInv
  <2> HIDE DEF credited, dest
  <2>3. /\ IsLedger(credited.balance)
        /\ DOMAIN credited.balance = DOMAIN exec.balance \cup {dest}
        /\ credited.balance[dest] = exec.balance[dest] + inbox[dest]
        /\ \A y \in DOMAIN exec.balance \ {dest} : credited.balance[y] = exec.balance[y]
    BY <1>2, <1>3, <1>9, <2>2 DEF IsLedger
  <2>4. BalanceIn(exec.balance, dest) = exec.balance[dest] /\ exec.balance[dest] \in Nat
    BY <1>2, <1>9 DEF BalanceIn, Counted
  <2>5. credited.balance[dest] \in Nat
    BY <1>3, <2>3, <2>4
  <2>6. Total(credited.balance) + exec.balance[dest] = Total(exec.balance) + credited.balance[dest]
    BY <1>2, <2>3, <2>4, <2>5, TotalChanged
  <2>7. Total(credited.balance) \in Nat /\ Total(exec.balance) \in Nat
    BY <1>2, <2>3, LedgerCounted
  <2>8. Total(credited.balance) = Total(exec.balance) + inbox[dest]
    <3>1. \A c, b, e, x \in Nat : c + b = e + (b + x) => c = e + x
      OBVIOUS
    <3> QED
      BY <1>3, <2>3, <2>4, <2>6, <2>7, <3>1
  <2>9. exec' = credited /\ (running' # NoService => Funded(ctx)' /\ Funded(cp)')
    BY <1>1, <2>1, <2>3, InvokeSupply
  <2>10. StateSupply'
    BY <1>1, <1>8, <2>1, <2>8, <2>9 DEF StateSupply
  <2> QED
    BY <1>6, <2>1, <2>9, <2>10 DEF SInv
<1>10. CASE dest \notin DOMAIN exec.balance
  <2>1. /\ ledger' = [ledger EXCEPT !.burnt = @ + inbox[dest]]
        /\ UNCHANGED <<exec, running, ctx, cp>>
    BY <1>10 DEF Deliver
  <2> HIDE DEF dest
  <2>2. /\ ledger'.burnt = ledger.burnt + inbox[dest]
        /\ UNCHANGED <<ledger.cut, ledger.minted, ledger.overwritten>>
    BY <2>1 DEF TypeOK
  <2>3. StateSupply'
    BY <1>1, <1>8, <2>1, <2>2 DEF StateSupply
  <2> QED
    BY <1>1, <1>6, <2>1, <2>2, <2>3 DEF SInv
<1> QED
  BY <1>9, <1>10

LEMMA NextSupply == IInv /\ PInv /\ TypeOK /\ SInv /\ [Next]_vars => SInv'
<1> SUFFICES ASSUME IInv, PInv, TypeOK, SInv, [Next]_vars
             PROVE  SInv'
  OBVIOUS
<1>0. TotalsTyped /\ ledger.cut \in Nat
  BY TypesOfTotals DEF SInv
<1>1. CASE RunNext
  <2>1. /\ running = NoService /\ Invoke(queue[1], exec)
        /\ UNCHANGED <<inbox, pending, ledger>>
    BY <1>1 DEF RunNext, Idle
  <2>2. exec' = exec /\ (running' # NoService => Funded(ctx)' /\ Funded(cp)')
    BY <2>1, InvokeSupply DEF TypeOK
  <2> QED
    BY <2>1, <2>2 DEF SInv, StateSupply
<1>2. CASE StartRound
  <2>1. /\ inbox = Nothing /\ inbox' = pending /\ pending' = Nothing
        /\ running = NoService /\ UNCHANGED <<exec, running, ledger>>
    BY <1>2 DEF StartRound, FirstPassOver, Idle
  <2>2. \A e, p \in Nat : e + 0 + p = e + p + 0
    OBVIOUS
  <2>3. Total(exec.balance) + Total(inbox) + Total(pending)
        = Total(exec'.balance) + Total(inbox') + Total(pending')
    BY <1>0, <2>1, <2>2, NothingTotal DEF TotalsTyped
  <2>4. StateSupply'
    BY <2>1, <2>3 DEF SInv, StateSupply
  <2> QED
    BY <1>0, <2>1, <2>4 DEF SInv
<1>3. CASE Finish
  <2>1. /\ inbox' = inbox /\ pending' = Nothing
        /\ running = NoService /\ UNCHANGED <<exec, running>>
        /\ ledger' = [ledger EXCEPT !.cut = @ + Total(pending)]
    BY <1>3 DEF Finish, FirstPassOver, Idle
  <2>2. /\ ledger'.cut = ledger.cut + Total(pending)
        /\ UNCHANGED <<ledger.burnt, ledger.minted, ledger.overwritten>>
    BY <2>1 DEF TypeOK
  <2>3. \A e, i, p, b, c, o, am \in Nat :
          e + i + p + b + c + o = am => e + i + 0 + b + (c + p) + o = am
    OBVIOUS
  <2>4. Total(exec.balance) + Total(inbox) + 0
          + ledger.burnt + (ledger.cut + Total(pending)) + ledger.overwritten
        = Total(Accounts) + ledger.minted
    <3>1. Total(Accounts) + ledger.minted \in Nat
      BY <1>0 DEF TotalsTyped
    <3> QED
      BY <1>0, <2>3, <3>1 DEF SInv, StateSupply, TotalsTyped
  <2>5. StateSupply'
    BY <2>1, <2>2, <2>4, NothingTotal DEF StateSupply
  <2> QED
    BY <1>0, <2>1, <2>2, <2>5 DEF SInv, TotalsTyped
<1>4. CASE Deliver
  BY <1>4, DeliverSupply
<1>5. CASE \E d \in Ids, a \in Amounts : TransferNow(d, a) \/ TransferDeferred(d, a)
  BY <1>5, TransferSupply
<1>6. CASE \E d \in Ids : Eject(d)
  BY <1>6, EjectSupply
<1>7. CASE \E id \in Ids, same \in BOOLEAN : New(id, same)
  BY <1>7, NewSupply
<1>8. CASE \/ \E chi \in Blessings : Bless(chi)
           \/ \E c \in Cores, heir \in Heirs : Assign(c, heir)
           \/ Designate \/ Checkpoint
  BY <1>8, PowerSupply
<1>9. CASE Halt \/ Trap
  BY <1>9, ReturnSupply
<1>10. CASE UNCHANGED vars
  BY <1>10 DEF vars, SInv, StateSupply, Funded
<1> QED
  BY <1>1, <1>2, <1>3, <1>4, <1>5, <1>6, <1>7, <1>8, <1>9, <1>10 DEF Next

\* However transfers, ejections, new accounts, checkpoints and traps follow one
\* another, in any order of services and rounds, every unit of balance is in an
\* account, under way, or in the ledger of what was burnt, cut, overwritten and
\* minted (accumulate_exec.rs 398-446, accumulate.rs 287-335).
THEOREM SupplyIsAccounted == Spec => []SupplyAccounted
<1>1. Init => IInv /\ PInv /\ FInv /\ TypeOK /\ SInv
  BY InitInv, InitPowers, InitFresh, InitTypes, InitSupply
<1>2. IInv /\ PInv /\ FInv /\ [Next]_vars => IInv' /\ PInv' /\ FInv'
  BY NextStep, NextPowers, NextFresh
<1>3. IInv /\ PInv /\ FInv /\ FInv' /\ TypeOK /\ [Next]_vars => TypeOK'
  BY NextTypes
<1>4. IInv /\ PInv /\ TypeOK /\ SInv /\ [Next]_vars => SInv'
  BY NextSupply
<1>5. TypeOK /\ SInv => SupplyAccounted
  BY SupplyImplies
<1> QED
  BY <1>1, <1>2, <1>3, <1>4, <1>5, PTL DEF Spec
=============================================================================
