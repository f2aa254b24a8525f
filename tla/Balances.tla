------------------------------ MODULE Balances ------------------------------
(***************************************************************************)
(* The accounts of one tenant: lifecycle status, the balance projection    *)
(* (ledger, available, version), the append-only journal and the outbox    *)
(* rows that announce balance changes.  Every command function runs in one *)
(* SERIALIZABLE transaction, so a command is one atomic step and a command *)
(* that raises leaves no trace (it is a stuttering step, not an action).   *)
(***************************************************************************)
EXTENDS Sums, Sequences, FiniteSets

CONSTANTS
  Accounts,  \* customer accounts
  Clearing,  \* the funding clearing account, the only one that may be negative
  Opening    \* account_opening_balances, a natural for every customer account

ASSUME AccountsAssumption ==
  /\ Clearing \notin Accounts
  /\ Opening \in [Accounts -> Nat]

VARIABLES
  status,     \* accounts.status
  ledger,     \* account_balance_projections.ledger_minor
  available,  \* account_balance_projections.available_minor
  version,    \* account_balance_projections.balance_version
  journal,    \* journal transactions, each a debit and a credit posting
  events      \* outbox rows of aggregate_type account_balance

balanceVars == <<status, ledger, available, version, journal, events>>
moneyVars == <<ledger, available, version, journal, events>>

AllAccounts == Accounts \cup {Clearing}

-----------------------------------------------------------------------------
\* Mutant: the insert trigger that promotes events to v2 is missing.
BalanceEventNeverPromoted(a, ver, av, le) ==
  [account |-> a, version |-> ver, available |-> av, type |-> "v1", ledger |-> 0]

\* The v1 payload carries no ledger_minor (0 stands for its absence).  The
\* insert trigger promotes an event to v2 when ledger and available differ.
BalanceEvent(a, ver, av, le) ==
  [account |-> a, version |-> ver, available |-> av,
   type   |-> IF le = av THEN "v1" ELSE "v2",
   ledger |-> IF le = av THEN 0 ELSE le]

\* Accounts as they are provisioned, empty and at version 0, and after the
\* opening import, which announces version 1 of each account it loads.
Imported == {a \in Accounts : Opening[a] > 0}
BalancesInit ==
  /\ status = [a \in Accounts |-> "active"]
  /\ ledger = [a \in AllAccounts |-> IF a = Clearing THEN 0 ELSE Opening[a]]
  /\ available = ledger
  /\ version = [a \in AllAccounts |-> IF a \in Imported THEN 1 ELSE 0]
  /\ journal = <<>>
  /\ events = {BalanceEvent(a, 1, Opening[a], Opening[a]) : a \in Imported}

\* Hold commands write the v2 payload themselves.
HoldBalanceEvent(a, ver, av, le) ==
  [account |-> a, version |-> ver, available |-> av, type |-> "v2", ledger |-> le]

\* How the projector reads a payload back.
DecodeBalance(e) ==
  [available |-> e.available,
   ledger    |-> IF e.type = "v1" THEN e.available ELSE e.ledger]

\* Mutant: the debit is guarded by ledger_minor only.
CoversLedgerOnly(a, amount, av) == a = Clearing \/ ledger[a] >= amount

\* The guard of the debit UPDATE (available_minor and ledger_minor both
\* cover the amount); only the clearing account has allow_negative.
Covers(a, amount, av) ==
  a = Clearing \/ (av[a] >= amount /\ ledger[a] >= amount)

\* Mutant: the credit side of the projection is not updated.
MoveMoneyWithoutCredit(source, debit, credit, amount, av) ==
  /\ ledger' = [ledger EXCEPT ![debit] = @ - amount]
  /\ available' = [av EXCEPT ![debit] = @ - amount]
  /\ version' = [version EXCEPT ![debit] = @ + 1]
  /\ journal' = Append(journal, [source |-> source, debit |-> debit,
                                 credit |-> credit, amount |-> amount])
  /\ UNCHANGED events

\* One journal with its two postings, both projections, and one balance event
\* for each customer account.  av is the available column the command sees.
MoveMoney(source, debit, credit, amount, av) ==
  LET le1 == [ledger EXCEPT ![debit] = @ - amount, ![credit] = @ + amount]
      av1 == [av EXCEPT ![debit] = @ - amount, ![credit] = @ + amount]
      ve1 == [version EXCEPT ![debit] = @ + 1, ![credit] = @ + 1]
  IN /\ ledger' = le1
     /\ available' = av1
     /\ version' = ve1
     /\ journal' = Append(journal, [source |-> source, debit |-> debit,
                                    credit |-> credit, amount |-> amount])
     /\ events' = events \cup {BalanceEvent(a, ve1[a], av1[a], le1[a]) :
                                 a \in {debit, credit} \cap Accounts}

\* Mutants: a hold command sets nothing aside, or keeps the balance version.
ShiftNothing(a, delta) == UNCHANGED <<ledger, available, version, journal, events>>
ShiftWithoutVersion(a, delta) ==
  /\ available' = [available EXCEPT ![a] = @ + delta]
  /\ UNCHANGED <<ledger, version, journal, events>>

\* A hold command changes available only, and says so in a v2 event.
ShiftAvailable(a, delta) ==
  /\ available' = [available EXCEPT ![a] = @ + delta]
  /\ version' = [version EXCEPT ![a] = @ + 1]
  /\ events' = events \cup {HoldBalanceEvent(a, version[a] + 1, available[a] + delta, ledger[a])}
  /\ UNCHANGED <<ledger, journal>>

\* The opening balance plus every posting of the account.
Delta(entry, a) ==
  (IF entry.credit = a THEN entry.amount ELSE 0) - (IF entry.debit = a THEN entry.amount ELSE 0)
Postings(a) == [i \in DOMAIN journal |-> Delta(journal[i], a)]
Authoritative(a) ==
  (IF a = Clearing THEN 0 ELSE Opening[a]) + SumTo(Postings(a), Len(journal))

-----------------------------------------------------------------------------
JournalEntry ==
  [source : {"transfer", "funding"} \X Nat, debit : AllAccounts, credit : AllAccounts,
   amount : Nat \ {0}]
OutboxEvent ==
  [account : Accounts, version : Nat, available : Int, type : {"v1", "v2"}, ledger : Int]

\* The balance columns, the journal and the balance events have their types.
BalancesTypeOK ==
  /\ status \in [Accounts -> {"active", "frozen", "closed"}]
  /\ ledger \in [AllAccounts -> Int]
  /\ available \in [AllAccounts -> Int]
  /\ version \in [AllAccounts -> Nat]
  /\ journal \in Seq(JournalEntry)
  /\ events \subseteq OutboxEvent

\* The mutable projection never drifts from the immutable journal: each
\* account's ledger_minor is its opening balance plus its postings.
ProjectionMatchesJournal ==
  \A a \in AllAccounts : ledger[a] = Authoritative(a)

\* Consumers can rebuild every balance from the outbox alone: the versions of
\* an account are announced exactly once each, without gaps, and the event of
\* the current version decodes to the current balance, reserved funds included.
EventsDescribeBalances ==
  \A a \in Accounts :
    LET mine == {e \in events : e.account = a} IN
    /\ {e.version : e \in mine} = 1..version[a]
    /\ Cardinality(mine) = version[a]
    /\ \A e \in mine : e.version = version[a] =>
         DecodeBalance(e) = [available |-> available[a], ledger |-> ledger[a]]

\* A balance version names one balance: it advances by one exactly when the
\* account's committed balance changes, and by nothing otherwise.
VersionCountsChanges ==
  [][\A a \in AllAccounts :
       version'[a] = version[a] +
         (IF <<ledger'[a], available'[a]>> # <<ledger[a], available[a]>> THEN 1 ELSE 0)]_balanceVars

\* Money moves, it is not made: a step changes the ledger of no account, or of
\* two accounts by opposite amounts, and records the movement in the journal.
StepsConserveMoney ==
  [][\/ ledger' = ledger /\ journal' = journal
     \/ \E a, b \in AllAccounts :
          /\ a # b /\ ledger'[a] < ledger[a]
          /\ ledger' = [ledger EXCEPT ![a] = ledger'[a], ![b] = @ + (ledger[a] - ledger'[a])]
          /\ Len(journal') = Len(journal) + 1]_balanceVars

=============================================================================
