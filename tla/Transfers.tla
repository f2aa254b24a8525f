------------------------------ MODULE Transfers ------------------------------
(***************************************************************************)
(* Direct transfers: controlled_submit_transfer_v1 with its idempotency    *)
(* table, the rolling velocity window and the policy limits.  A denied     *)
(* command raises and is rolled back with its idempotency row, so only     *)
(* posted transfers and insufficient-funds rejections are remembered.      *)
(***************************************************************************)
EXTENDS Balances

CONSTANTS
  Actors,        \* subjects of the tenant
  Operators,     \* actors with role operator or finance
  Finance,       \* actors with role finance
  Keys,          \* idempotency keys chosen by clients
  Amounts,       \* amounts clients ask for
  CanDebit,      \* account_owners with permission debit: actor-account pairs
  CanCredit,     \* account_credit_permissions: actor-account pairs
  MinTransfer,   \* policy minimum_transfer_minor
  MaxTransfer,   \* policy maximum_transfer_minor
  Limit,         \* rolling limits: a record with fields tenant, actor, source
  Window,        \* length of the rolling window (24 hours in the code)
  Skew,          \* how far a replica's clock is from the database clock
  MaxTime,       \* bound: the clock stops here
  MaxTransfers   \* bound: transfers recorded

ASSUME TransfersAssumption ==
  /\ Finance \subseteq Operators /\ Operators \subseteq Actors
  /\ Amounts \subseteq Nat \ {0}
  /\ CanDebit \subseteq Actors \X Accounts
  /\ CanCredit \subseteq Actors \X Accounts
  /\ Limit \in [{"tenant", "actor", "source"} -> Nat]
  /\ {Window, Skew, MaxTime, MaxTransfers, MinTransfer, MaxTransfer} \subseteq Nat

VARIABLES
  now,          \* the database clock
  transfers,    \* the transfers table, in commit order
  idempotency,  \* completed idempotency_requests of transfers.create.v1
  answers,      \* responses handed to clients, replays included
  velocity,     \* transfer_velocity_events: the transfers still counted
  totals,       \* transfer_velocity_totals by dimension
  notices       \* outbox rows that are not balance events

transferVars == <<now, transfers, idempotency, answers, velocity, totals, notices>>

NoKey == <<"none", 0>>
CaptureKey(h) == <<"hold-capture", h>>

Tenant == <<"tenant", "all">>
Dimensions == {Tenant} \cup ({"actor"} \X Actors) \cup ({"source"} \X Accounts)
DimensionsOf(t) == {Tenant, <<"actor", t.actor>>, <<"source", t.debit>>}

TransfersInit ==
  /\ now = 0
  /\ transfers = <<>>
  /\ idempotency = {}
  /\ answers = {}
  /\ velocity = {}
  /\ totals = [d \in Dimensions |-> 0]
  /\ notices = {}

-----------------------------------------------------------------------------
Expires(i) == transfers[i].at + Window

\* Velocity events that a command occurring at time "at" does not prune.
LiveVelocity(at) == {i \in velocity : Expires(i) > at}

\* The amounts of the transfers S in one dimension.
VelocityWeights(S, dim) ==
  [i \in DOMAIN transfers |->
     IF i \in S /\ dim \in DimensionsOf(transfers[i]) THEN transfers[i].amount ELSE 0]
VelocitySum(S, dim) == SumTo(VelocityWeights(S, dim), Len(transfers))

\* The totals after the expired events of the tenant are deducted from them.
PrunedTotals(at) ==
  [dim \in Dimensions |-> totals[dim] - VelocitySum(velocity \ LiveVelocity(at), dim)]

\* Mutant: the transfer itself is left out of the rolling total.
WithinLimitsBefore(t) ==
  \A dim \in DimensionsOf(t) : PrunedTotals(t.at)[dim] <= Limit[dim[1]]

WithinLimits(t) ==
  \A dim \in DimensionsOf(t) : PrunedTotals(t.at)[dim] <= Limit[dim[1]] - t.amount

\* The checks of controlled_submit_transfer_v1 that raise, in any order: they
\* all roll the transaction back.
PolicyAdmits(t) ==
  /\ t.debit # t.credit
  /\ MinTransfer <= t.amount /\ t.amount <= MaxTransfer
  /\ status[t.debit] = "active" /\ status[t.credit] = "active"
  /\ <<t.actor, t.debit>> \in CanDebit
  /\ <<t.actor, t.credit>> \in CanCredit
  /\ WithinLimits(t)

Intent(t) == <<t.debit, t.credit, t.amount>>
Prior(actor, key) == {r \in idempotency : r.actor = actor /\ r.key = key}

\* The idempotency row is completed and the response returned.
Conclude(t) ==
  LET row == [actor |-> t.actor, key |-> t.key, intent |-> Intent(t),
              transfer |-> Len(transfers) + 1]
  IN /\ transfers' = Append(transfers, t)
     /\ idempotency' = idempotency \cup {row}
     /\ answers' = answers \cup {row}

\* Mutant: the postings swap the two accounts.
PostTransferSwapped(t, av) ==
  /\ MoveMoney(<<"transfer", Len(transfers) + 1>>, t.credit, t.debit, t.amount, av)
  /\ velocity' = LiveVelocity(t.at) \cup {Len(transfers) + 1}
  /\ totals' = [dim \in Dimensions |->
                  PrunedTotals(t.at)[dim] + (IF dim \in DimensionsOf(t) THEN t.amount ELSE 0)]
  /\ notices' = notices \cup {<<"transfer.posted", Len(transfers) + 1>>}
  /\ Conclude([t EXCEPT !.status = "posted"])

\* The posted path: journal, projections, velocity, outbox and the result.
\* av is the available column the function sees.
PostTransfer(t, av) ==
  /\ MoveMoney(<<"transfer", Len(transfers) + 1>>, t.debit, t.credit, t.amount, av)
  /\ velocity' = LiveVelocity(t.at) \cup {Len(transfers) + 1}
  /\ totals' = [dim \in Dimensions |->
                  PrunedTotals(t.at)[dim] + (IF dim \in DimensionsOf(t) THEN t.amount ELSE 0)]
  /\ notices' = notices \cup {<<"transfer.posted", Len(transfers) + 1>>}
  /\ Conclude([t EXCEPT !.status = "posted"])

\* Mutant: a rejection deletes expired velocity events but keeps the totals.
RejectTransferKeepingTotals(t) ==
  /\ velocity' = LiveVelocity(t.at)
  /\ Conclude([t EXCEPT !.status = "rejected"])
  /\ UNCHANGED <<ledger, available, version, journal, events, notices, totals>>

\* Insufficient funds: a completed rejection, which keeps the pruning.
RejectTransfer(t) ==
  /\ velocity' = LiveVelocity(t.at)
  /\ totals' = PrunedTotals(t.at)
  /\ Conclude([t EXCEPT !.status = "rejected"])
  /\ UNCHANGED <<ledger, available, version, journal, events, notices>>

Pending(actor, key, debit, credit, amount, at) ==
  [actor |-> actor, key |-> key, debit |-> debit, credit |-> credit,
   amount |-> amount, at |-> at, status |-> "pending", corrects |-> 0]

SubmitTransfer(t) ==
  /\ Len(transfers) < MaxTransfers
  /\ t.actor \in Operators
  /\ Prior(t.actor, t.key) = {}
  /\ PolicyAdmits(t)
  /\ IF Covers(t.debit, t.amount, available) THEN PostTransfer(t, available) ELSE RejectTransfer(t)
  /\ UNCHANGED <<status, now>>

\* Mutant: a replay does not compare the intent with the stored one.
ReplayAnyIntent(t) ==
  /\ t.actor \in Operators
  /\ \E r \in Prior(t.actor, t.key) :
       answers' = answers \cup {[actor |-> t.actor, key |-> t.key, intent |-> Intent(t),
                                 transfer |-> r.transfer]}
  /\ UNCHANGED <<balanceVars, now, transfers, idempotency, velocity, totals, notices>>

\* A known key returns the stored response; another intent raises a conflict.
ReplayTransfer(t) ==
  /\ t.actor \in Operators
  /\ \E r \in Prior(t.actor, t.key) :
       /\ r.intent = Intent(t)
       /\ answers' = answers \cup {[actor |-> t.actor, key |-> t.key, intent |-> Intent(t),
                                     transfer |-> r.transfer]}
  /\ UNCHANGED <<balanceVars, now, transfers, idempotency, velocity, totals, notices>>

\* The API replica stamps occurred_at with its own clock before it waits for
\* the policy sequence lock.
RequestTimes == {at \in 0..MaxTime : now - Skew <= at /\ at <= now + Skew}

Requests ==
  {Pending(actor, key, debit, credit, amount, at) :
     actor \in Actors, key \in Keys, debit \in Accounts, credit \in Accounts,
     amount \in Amounts, at \in RequestTimes}

Tick ==
  /\ now < MaxTime
  /\ now' = now + 1
  /\ UNCHANGED <<balanceVars, transfers, idempotency, answers, velocity, totals, notices>>

-----------------------------------------------------------------------------
Transfer ==
  [actor : Actors, key : Keys \cup {NoKey} \cup ({"hold-capture"} \X Nat),
   debit : Accounts, credit : Accounts, amount : Amounts, at : Nat,
   status : {"posted", "rejected"}, corrects : Nat]

\* The transfer tables have their types, and no transfer credits the account
\* it debits.
TransfersTypeOK ==
  /\ now \in Nat
  /\ transfers \in Seq(Transfer)
  /\ \A i \in DOMAIN transfers : transfers[i].debit # transfers[i].credit
  /\ velocity \subseteq DOMAIN transfers
  /\ totals \in [Dimensions -> Int]

\* A key has one outcome: every response ever given for an actor's key names
\* the same transfer, and that transfer is the one the client asked for.
AnswersAreFaithful ==
  /\ \A r, s \in answers : r.actor = s.actor /\ r.key = s.key => r = s
  /\ \A r \in answers : r.intent = Intent(transfers[r.transfer])

\* The running totals that replace a scan of the window are exact: each one is
\* the sum of the velocity events that have not been pruned.
VelocityTotalsAreExact ==
  \A dim \in Dimensions : totals[dim] = VelocitySum(velocity, dim)

\* Transfers made by clients or captures (corrections are not counted) and
\* posted in the window that ends with transfer i.
WindowOf(i) ==
  {j \in 1..i : /\ transfers[j].status = "posted" /\ transfers[j].corrects = 0
                /\ transfers[i].at - Window < transfers[j].at
                /\ transfers[j].at <= transfers[i].at}

\* No posted transfer takes its actor, source account or tenant over a rolling
\* limit, counting what was posted in the window that ends with it.
RollingLimitsHold ==
  \A i \in DOMAIN transfers :
    transfers[i].status = "posted" /\ transfers[i].corrects = 0 =>
      \A dim \in DimensionsOf(transfers[i]) : VelocitySum(WindowOf(i), dim) <= Limit[dim[1]]

\* The journal and the commands agree (the deferred ledger_semantic checks
\* never fire): posted transfers and transfer journals are in one-to-one
\* correspondence and name the same accounts and amounts.
JournalMatchesTransfers ==
  /\ \A j \in DOMAIN journal : journal[j].source[1] = "transfer" =>
       LET t == transfers[journal[j].source[2]] IN
       /\ t.status = "posted"
       /\ <<journal[j].debit, journal[j].credit, journal[j].amount>> = Intent(t)
  /\ \A i \in DOMAIN transfers : transfers[i].status = "posted" =>
       Cardinality({j \in DOMAIN journal : journal[j].source = <<"transfer", i>>}) = 1

=============================================================================
