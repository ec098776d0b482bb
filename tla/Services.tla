------------------------------ MODULE Services ------------------------------
(***************************************************************************)
(* The execution half of the accumulate transition: the services of one    *)
(* block run one after the other (src/accumulate.rs), each with a          *)
(* checkpoint to fall back to (src/accumulate_exec.rs, run_service_raw),   *)
(* then the recipients of their deferred transfers, in rounds.  The host   *)
(* calls modelled are those that move balance, change which services exist *)
(* or use a privilege: who may bless, assign, designate and register is    *)
(* part of the state that goes from service to service.                    *)
(*                                                                         *)
(* A program is any sequence of at most MaxCalls effective host calls: it  *)
(* may halt, trap or run out of gas after each.  The transfers on their    *)
(* way to one service are kept as their sum, which is how it is credited.  *)
(***************************************************************************)
EXTENDS Integers, Sequences, FiniteSetsExt, Functions, Totals

CONSTANTS
  Accounts,     \* the services at the start of the block: [ids -> balance]
  Coded,        \* those among them whose code preimage is in the state
  Cores,        \* cores, each with an authorizer queue
  Privileges,   \* chi at the start: [manager, assign, delegator, registrar]
  Blessings,    \* what bless may set it to
  Heirs,        \* services that assign may hand a core on to
  Queues,       \* orders in which a block may run its services
  Amounts,      \* amounts a transfer may carry
  NewCost,      \* balance of a new account (221 for empty code)
  MinPublic,    \* first id of the public ring (2^16 in the code)
  IdRing,       \* length of the ring (2^32 - 2^16 - 2^8)
  IdStep,       \* step from one new id to the next (42)
  Seeds,        \* what the hash that starts an invocation's ids may be
  MaxRounds,    \* rounds of deferred transfers (16)
  MaxCalls,     \* bound: host calls of one invocation
  MaxAccounts,  \* bound: accounts alive when another is created
  NoService     \* nobody is running

PublicIds == MinPublic..(MinPublic + IdRing - 1)
Ids == 0..(MinPublic + IdRing - 1)

Chis == [manager : Ids, assign : [Cores -> Ids], delegator : Ids, registrar : Ids]

ASSUME ServicesConstants ==
  /\ {MinPublic, NewCost, MaxCalls, MaxRounds} \subseteq Nat
  /\ {IdRing, IdStep} \subseteq Nat \ {0}
  /\ MaxAccounts \in Nat /\ IdStep + MaxAccounts < IdRing
  /\ Cardinality(DOMAIN Accounts) <= MaxAccounts
  /\ Accounts \in [DOMAIN Accounts -> Nat]
  /\ Coded \subseteq DOMAIN Accounts /\ DOMAIN Accounts \subseteq Ids
  /\ Seeds \subseteq PublicIds
  /\ Amounts \subseteq Nat
  /\ NoService \notin Ids
  /\ {Privileges} \cup Blessings \subseteq Chis
  /\ Heirs \subseteq Ids

VARIABLES
  exec,       \* state between invocations: [balance, coded, chi, setBy]
  queue,      \* services of the first pass still to run
  running,    \* the service being run
  calls,      \* host calls it has made
  ctx,        \* the invocation's context: that state, next id, transfers
  cp,         \* the context it falls back to
  inbox,      \* recipients of this round still to be credited: [ids -> sum]
  pending,    \* transfers for the next round: [ids -> sum]
  round,      \* rounds started
  ledger,     \* history: balance that came from nowhere or went nowhere
  done

vars == <<exec, queue, running, calls, ctx, cp, inbox, pending, round, ledger, done>>

Nothing == [s \in {} |-> 0]
BalanceIn(f, s) == IF s \in DOMAIN f THEN f[s] ELSE 0

\* f with the amount added at s, which need not be in f.
Credit(f, s, amount) ==
  [x \in DOMAIN f \cup {s} |-> BalanceIn(f, x) + (IF x = s THEN amount ELSE 0)]

Merge(f, g) == [x \in DOMAIN f \cup DOMAIN g |-> BalanceIn(f, x) + BalanceIn(g, x)]

\* Who set the authorizer queues and the staged validators: nobody yet.
Unset == [phi |-> [c \in Cores |-> NoService], iota |-> NoService]

\* The context outside an invocation: its locals are gone.
NoContext == [balance |-> Nothing, coded |-> {}, chi |-> Privileges, setBy |-> Unset,
              nextFree |-> MinPublic,
              transfers |-> Nothing, minted |-> 0, overwritten |-> 0]

Init ==
  /\ exec = [balance |-> Accounts, coded |-> Coded, chi |-> Privileges, setBy |-> Unset]
  /\ queue \in Queues
  /\ running = NoService /\ calls = 0
  /\ ctx = NoContext /\ cp = NoContext
  /\ inbox = Nothing /\ pending = Nothing /\ round = 0
  /\ ledger = [minted |-> 0, overwritten |-> 0, burnt |-> 0, cut |-> 0]
  /\ done = FALSE

-----------------------------------------------------------------------------
(* The ids of new services.                                                *)

OnRing(id, k) == MinPublic + ((id - MinPublic + k) % IdRing)

\* Bug: the id is taken as it falls.
CheckIdUnchecked(id, live) == id

\* check: the first id of the ring, from this one on, that nobody has.
CheckId(id, live) ==
  OnRing(id, Min({k \in 0..IdRing - 1 : OnRing(id, k) \notin live}))

-----------------------------------------------------------------------------
(* One invocation.                                                         *)

Context(accounts, seed) ==
  [balance |-> accounts.balance, coded |-> accounts.coded,
   chi |-> accounts.chi, setBy |-> accounts.setBy,
   nextFree |-> CheckId(seed, DOMAIN accounts.balance),
   transfers |-> Nothing, minted |-> 0, overwritten |-> 0]

\* A service runs if it is there and its code is: else nothing happens.
Invoke(s, accounts) ==
  /\ exec' = accounts
  /\ calls' = 0
  /\ IF s \in accounts.coded
     THEN /\ running' = s
          /\ \E seed \in Seeds : ctx' = Context(accounts, seed)
          /\ cp' = ctx'
     ELSE UNCHANGED <<running, ctx, cp>>

Calling == running # NoService /\ calls < MaxCalls
Called == /\ calls' = calls + 1
          /\ UNCHANGED <<exec, queue, running, inbox, pending, round, ledger, done>>

Payable(dest, amount) ==
  dest \in DOMAIN ctx.balance /\ BalanceIn(ctx.balance, running) >= amount

\* Without a memo a transfer is immediate.
TransferNow(dest, amount) ==
  /\ Calling /\ Payable(dest, amount)
  /\ LET debited == [ctx.balance EXCEPT ![running] = @ - amount]
     IN  ctx' = [ctx EXCEPT !.balance = Credit(debited, dest, amount)]
  /\ cp' = cp /\ Called

\* With a memo it waits for the round after this one.
TransferDeferred(dest, amount) ==
  /\ Calling /\ Payable(dest, amount)
  /\ ctx' = [ctx EXCEPT !.balance[running] = @ - amount,
                        !.transfers = Credit(@, dest, amount)]
  /\ cp' = cp /\ Called

\* Bug: a service may eject itself.
EjectAnyone(d) ==
  /\ Calling /\ d \in DOMAIN ctx.balance
  /\ LET left == Restrict(ctx.balance, DOMAIN ctx.balance \ {d})
     IN  ctx' = [ctx EXCEPT
           !.balance = IF running \in DOMAIN left
                       THEN Credit(left, running, ctx.balance[d]) ELSE left,
           !.coded = @ \ {d}]
  /\ cp' = cp /\ Called

\* eject: another service and all its state go, its balance to the caller.
Eject(d) ==
  /\ Calling /\ d \in DOMAIN ctx.balance \ {running}
  /\ LET left == Restrict(ctx.balance, DOMAIN ctx.balance \ {d})
     IN  ctx' = [ctx EXCEPT !.balance = Credit(left, running, ctx.balance[d]),
                            !.coded = @ \ {d}]
  /\ cp' = cp /\ Called

\* The registrar may name a low id, of a live service too.
NewIds ==
  {ctx.nextFree} \cup (IF running = ctx.chi.registrar THEN 0..MinPublic - 1 ELSE {})

\* new: the account is inserted over whatever has its id, then paid for with
\* what the creator has.  Its code is there only if it takes the place of a
\* service and names the same code.
New(id, sameCode) ==
  /\ Calling /\ id \in NewIds
  /\ Cardinality(DOMAIN ctx.balance) < MaxAccounts
  /\ sameCode => id \in ctx.coded
  /\ LET inserted == [x \in DOMAIN ctx.balance \cup {id} |->
                        IF x = id THEN NewCost ELSE ctx.balance[x]]
         paid == Min({inserted[running], NewCost})
         afterPaying == [inserted EXCEPT ![running] = @ - paid]
     IN  ctx' = [ctx EXCEPT
           !.balance = afterPaying,
           !.coded = IF sameCode THEN @ ELSE @ \ {id},
           !.nextFree = CheckId(OnRing(@, IdStep), DOMAIN ctx.balance),
           !.minted = @ + NewCost - paid,
           !.overwritten = @ + BalanceIn(ctx.balance, id)]
  /\ cp' = cp /\ Called

\* bless: the manager sets all the privileges, its own included.
Bless(chi) ==
  /\ Calling /\ running = ctx.chi.manager
  /\ ctx' = [ctx EXCEPT !.chi = chi]
  /\ cp' = cp /\ Called

\* Bug: the assigner of any core may set the queue of this one.
AssignForAnyCore(c, heir) ==
  /\ Calling /\ \E d \in Cores : running = ctx.chi.assign[d]
  /\ ctx' = [ctx EXCEPT !.setBy.phi[c] = running, !.chi.assign[c] = heir]
  /\ cp' = cp /\ Called

\* assign: the assigner of a core sets its queue and names who is next.
Assign(c, heir) ==
  /\ Calling /\ running = ctx.chi.assign[c]
  /\ ctx' = [ctx EXCEPT !.setBy.phi[c] = running, !.chi.assign[c] = heir]
  /\ cp' = cp /\ Called

\* designate: the delegator sets the staged validators.
Designate ==
  /\ Calling /\ running = ctx.chi.delegator
  /\ ctx' = [ctx EXCEPT !.setBy.iota = running]
  /\ cp' = cp /\ Called

\* checkpoint: what was done so far stays done.
Checkpoint ==
  /\ Calling
  /\ cp' = ctx
  /\ ctx' = ctx /\ Called

-----------------------------------------------------------------------------
(* The end of an invocation.                                               *)

Return(out) ==
  /\ exec' = [balance |-> out.balance, coded |-> out.coded,
              chi |-> out.chi, setBy |-> out.setBy]
  /\ pending' = Merge(pending, out.transfers)
  /\ ledger' = [ledger EXCEPT !.minted = @ + out.minted,
                              !.overwritten = @ + out.overwritten]
  /\ running' = NoService /\ calls' = 0
  /\ ctx' = NoContext /\ cp' = NoContext
  /\ UNCHANGED <<queue, inbox, round, done>>

Halt == running # NoService /\ Return(ctx)

\* Bug: the transfers outlive the state that paid for them.
TrapKeepsTransfers ==
  running # NoService /\ Return([cp EXCEPT !.transfers = ctx.transfers])

\* A trap, or no gas for the next basic block: back to the checkpoint.
Trap == running # NoService /\ Return(cp)

-----------------------------------------------------------------------------
(* The order of the invocations of a block.                                *)

Idle == running = NoService /\ ~done

RunNext ==
  /\ Idle /\ queue # <<>>
  /\ Invoke(queue[1], exec)
  /\ queue' = [i \in 1..(Len(queue) - 1) |-> queue[i + 1]]
  /\ UNCHANGED <<inbox, pending, round, ledger, done>>

FirstPassOver == Idle /\ queue = <<>> /\ inbox = Nothing

\* Bug: nothing counts the rounds.
StartRoundUncounted ==
  /\ FirstPassOver /\ pending # Nothing
  /\ inbox' = pending /\ pending' = Nothing
  /\ UNCHANGED <<exec, queue, running, calls, ctx, cp, round, ledger, done>>

StartRound ==
  /\ FirstPassOver /\ pending # Nothing /\ round < MaxRounds
  /\ inbox' = pending /\ pending' = Nothing /\ round' = round + 1
  /\ UNCHANGED <<exec, queue, running, calls, ctx, cp, ledger, done>>

\* The recipients of a round in the order of their ids: one that is gone has
\* its transfers burnt, one that is there is credited, then run.
Deliver ==
  /\ Idle /\ inbox # Nothing
  /\ LET dest == Min(DOMAIN inbox)
     IN  /\ inbox' = Restrict(inbox, DOMAIN inbox \ {dest})
         /\ IF dest \in DOMAIN exec.balance
            THEN /\ Invoke(dest, [exec EXCEPT !.balance[dest] = @ + inbox[dest]])
                 /\ UNCHANGED ledger
            ELSE /\ ledger' = [ledger EXCEPT !.burnt = @ + inbox[dest]]
                 /\ UNCHANGED <<exec, running, calls, ctx, cp>>
  /\ UNCHANGED <<queue, pending, round, done>>

\* Transfers still pending when the rounds are used up are dropped.
Finish ==
  /\ FirstPassOver /\ (pending = Nothing \/ round = MaxRounds)
  /\ ledger' = [ledger EXCEPT !.cut = @ + Total(pending)]
  /\ pending' = Nothing /\ done' = TRUE
  /\ UNCHANGED <<exec, queue, running, calls, ctx, cp, inbox, round>>

Next ==
  \/ RunNext \/ StartRound \/ Deliver \/ Finish
  \/ \E d \in Ids, a \in Amounts : TransferNow(d, a) \/ TransferDeferred(d, a)
  \/ \E d \in Ids : Eject(d)
  \/ \E id \in Ids, same \in BOOLEAN : New(id, same)
  \/ \E chi \in Blessings : Bless(chi)
  \/ \E c \in Cores, heir \in Heirs : Assign(c, heir)
  \/ Designate
  \/ Checkpoint \/ Halt \/ Trap

\* The block is processed by one thread that nothing blocks.
Spec == Init /\ [][Next]_vars /\ WF_vars(Next)

-----------------------------------------------------------------------------
(* What it promises.                                                       *)

IsLedger(f) == DOMAIN f \subseteq Ids /\ f \in [DOMAIN f -> Nat]
IsContext(c) ==
  /\ IsLedger(c.balance) /\ IsLedger(c.transfers)
  /\ c.coded \subseteq Ids /\ c.nextFree \in PublicIds
  /\ c.chi \in Chis
  /\ {c.minted, c.overwritten} \subseteq Nat

\* The variables have their types: no balance is ever negative.
TypeOK ==
  /\ IsLedger(exec.balance) /\ exec.coded \subseteq DOMAIN exec.balance
  /\ exec.chi \in Chis
  /\ IsLedger(inbox) /\ IsLedger(pending)
  /\ IsContext(ctx) /\ IsContext(cp)
  /\ running \in Ids \cup {NoService} /\ calls \in 0..MaxCalls
  /\ round \in 0..MaxRounds
  /\ DOMAIN ledger = {"minted", "overwritten", "burnt", "cut"}
  /\ {ledger.minted, ledger.overwritten, ledger.burnt} \subseteq Nat
  /\ done \in BOOLEAN

Held == IF running = NoService
        THEN Total(exec.balance)
        ELSE Total(ctx.balance) + Total(ctx.transfers)

Minted == ledger.minted + (IF running = NoService THEN 0 ELSE ctx.minted)
Overwritten == ledger.overwritten + (IF running = NoService THEN 0 ELSE ctx.overwritten)

\* Every unit of balance is in an account or on its way to one, unless its
\* recipient was gone, its round never came or its account was overwritten,
\* and whatever was added was the unpaid part of a new account: through any
\* order of transfers, ejections, checkpoints and traps
\* (accumulate_exec.rs 398-446, accumulate.rs 287-335).
SupplyAccounted ==
  Held + Total(inbox) + Total(pending)
    + ledger.burnt + ledger.cut + Overwritten
  = Total(Accounts) + Minted

\* Nothing runs on behalf of an account that is not there, before or after the
\* context falls back: a service ejected in this block has no effect in the
\* rest of it, and every host call finds its caller (accumulate.rs 268-275,
\* accumulate_exec.rs 571-589).
TheDeadDoNotAct ==
  running # NoService => running \in DOMAIN ctx.balance \cap DOMAIN cp.balance

\* The id kept for the next new account is nobody's, whatever was created or
\* ejected since it was computed (accumulate_exec.rs 335-341, 853-855).
NextIdIsFree == running # NoService => ctx.nextFree \notin DOMAIN ctx.balance

\* What service s, which runs on chi and setBy, may make of them: all of it if
\* it is the manager, else what is in its own hands.
Entitled(s, old, new) ==
  /\ s # old.chi.manager =>
       /\ new.chi.manager = old.chi.manager
       /\ new.chi.delegator = old.chi.delegator
       /\ new.chi.registrar = old.chi.registrar
  /\ \A c \in Cores : s \notin {old.chi.manager, old.chi.assign[c]} =>
       /\ new.chi.assign[c] = old.chi.assign[c]
       /\ new.setBy.phi[c] = old.setBy.phi[c]
  /\ s \notin {old.chi.manager, old.chi.delegator} =>
       new.setBy.iota = old.setBy.iota

\* Queues, staged validators and privileges change by the hand of a service
\* that was entitled to it when it was invoked, however privileges are passed
\* on within the invocation and whatever of it a trap undoes
\* (accumulate_exec.rs 733-825, block_import.rs 382-411).
PowersPassOn == [][Entitled(running, exec, exec')]_vars

\* The rounds of a block come to an end, whatever the recipients send on
\* (accumulate.rs 296-298).
Terminates == <>done
=============================================================================
