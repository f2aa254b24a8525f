---------------------------- MODULE LedgerRefines ----------------------------
(*****************************************************************************)
(* The financial core implements AbstractLedger, and no step of it makes or  *)
(* destroys money or gives two balances one version.                         *)
(*****************************************************************************)
EXTENDS LedgerProofs

\* What AbstractLedger calls held is what is reserved, so it covers each
\* active hold.
LEMMA HeldCoversHold ==
  ASSUME TypeOK, Solvent, NEW h \in DOMAIN holds, holds[h].state = "active"
  PROVE  ledger[holds[h].debit] - available[holds[h].debit] >= holds[h].amount
<1> DEFINE d == holds[h].debit
           n == holds[h].amount
<1>1. /\ n \in Int /\ d \in Accounts
      /\ Len(holds) \in Nat /\ h \in 1..Len(holds)
      /\ \A g \in 1..Len(holds) : HoldWeights(d)[g] \in Nat
      /\ Reserved(d) \in Nat
  BY ZenonT(60), HoldRowFields, HoldWeightsType DEF TypeOK
<1>2. HoldWeights(d)[h] = n
  BY DEF HoldWeights
<1>3. n <= Reserved(d)
  BY <1>1, <1>2, SumBound DEF Reserved
<1>4. ledger[d] \in Int /\ available[d] = ledger[d] - Reserved(d)
  BY ZenonT(60), <1>1 DEF Solvent, AvailableIsLedgerLessHolds, TypeOK, BalancesTypeOK, AllAccounts
<1> HIDE DEF d, n
<1>5. ledger[d] - available[d] >= n
  BY <1>1, <1>3, <1>4
<1>. QED  BY <1>5 DEF d, n

\* The refinement mapping.
Held == [a \in Accounts |-> ledger[a] - available[a]]

\* Every step of the core is a step of AbstractLedger or leaves it alone.
LEMMA PromiseStep ==
  ASSUME TypeOK, TypeOK', Solvent, [Next]_vars
  PROVE  [Promise!Next]_(Promise!ledgerVars)
<1>1. /\ available \in [AllAccounts -> Int] /\ ledger \in [AllAccounts -> Int]
      /\ BalancesTypeOK /\ ReservationsTypeOK
  BY DEF TypeOK, BalancesTypeOK
<1>2. Promise!Holders = AllAccounts
  BY DEF Promise!Holders, AllAccounts
<1>3. CASE Quiet
  BY <1>3 DEF Quiet, Promise!ledgerVars
<1>4. CASE Moves
  <2>1. PICK d \in AllAccounts, c \in AllAccounts, n \in Amounts, source \in {"transfer", "funding"} \X Nat :
          /\ d # c /\ Covers(d, n, available)
          /\ MoveMoney(source, d, c, n, available)
    BY <1>4 DEF Moves
  <2>2. n \in Int
    BY AmountsArePositive
  <2>3. ledger' = [ledger EXCEPT ![d] = @ - n, ![c] = @ + n]
    BY <2>1 DEF MoveMoney
  <2>4. /\ ledger'[d] = ledger[d] - n /\ ledger'[c] = ledger[c] + n
        /\ available'[d] = available[d] - n /\ available'[c] = available[c] + n
        /\ \A b \in AllAccounts : b # d /\ b # c => ledger'[b] = ledger[b] /\ available'[b] = available[b]
    BY <1>1, <2>1, <2>2, MoveMoneyEffect
  <2>5. \A a \in Accounts : ledger'[a] - available'[a] = ledger[a] - available[a]
    BY <1>1, <2>2, <2>4 DEF AllAccounts
  <2>6. Held' = Held
    BY ZenonT(60), <2>5 DEF Held
  <2>7. d = Clearing \/ ledger[d] - Held[d] >= n
    BY <1>1, <2>1, <2>2 DEF Covers, Held, AllAccounts
  <2>8. Promise!Move(d, c, n)
    BY ZenonT(60), <2>1, <2>3, <2>6, <2>7 DEF Promise!Move, Promise!Spendable, Promise!Moved, Held
  <2>. QED  BY <1>2, <2>8 DEF Promise!Next
<1>5. CASE Reserves
  <2>1. PICK d \in Accounts, n \in Amounts : available[d] >= n /\ ShiftAvailable(d, 0 - n)
    BY <1>5 DEF Reserves
  <2>2. n \in Int /\ 0 - n \in Int /\ d \in AllAccounts
    BY AmountsArePositive DEF AllAccounts
  <2>3. /\ available'[d] = available[d] + (0 - n) /\ ledger' = ledger
        /\ \A b \in AllAccounts \ {d} : available'[b] = available[b]
    BY <1>1, <2>1, <2>2, ShiftEffect
  <2>4. Held' = [Held EXCEPT ![d] = @ + n]
    <3>1. \A a \in Accounts : ledger'[a] - available'[a] =
            IF a = d THEN (ledger[d] - available[d]) + n ELSE ledger[a] - available[a]
      BY <1>1, <2>2, <2>3 DEF AllAccounts
    <3>. QED  BY ZenonT(60), <3>1 DEF Held
  <2>5. ledger[d] - Held[d] >= n
    BY <1>1, <2>1, <2>2 DEF Held
  <2>6. Promise!Hold(d, n)
    BY <2>3, <2>4, <2>5 DEF Promise!Hold, Promise!Spendable, Held
  <2>. QED  BY <2>6 DEF Promise!Next
<1>6. CASE Returns
  <2>1. PICK h \in DOMAIN holds : ShiftAvailable(holds[h].debit, holds[h].amount) /\ Settles(h)
    BY <1>6 DEF Returns
  <2>2. PICK d \in Accounts, n \in Amounts : d = holds[h].debit /\ n = holds[h].amount
    BY <1>1, HoldRowFields
  <2>3. n \in Int /\ d \in AllAccounts /\ ledger[d] - available[d] >= n
    BY <2>1, <2>2, HeldCoversHold, AmountsArePositive DEF Settles, AllAccounts
  <2>4. /\ available'[d] = available[d] + n /\ ledger' = ledger
        /\ \A b \in AllAccounts \ {d} : available'[b] = available[b]
    BY <1>1, <2>1, <2>2, <2>3, ShiftEffect
  <2>5. Held' = [Held EXCEPT ![d] = @ - n]
    <3>1. \A a \in Accounts : ledger'[a] - available'[a] =
            IF a = d THEN (ledger[d] - available[d]) - n ELSE ledger[a] - available[a]
      BY <1>1, <2>3, <2>4 DEF AllAccounts
    <3>. QED  BY ZenonT(60), <3>1 DEF Held
  <2>6. Promise!Return(d, n)
    BY <2>3, <2>4, <2>5 DEF Promise!Return, Held
  <2>. QED  BY <2>6 DEF Promise!Next
<1>7. CASE Captures
  <2>1. PICK h \in DOMAIN holds, source \in {"transfer", "funding"} \X Nat :
          /\ MoveMoney(source, holds[h].debit, holds[h].credit, holds[h].amount, PrivatelyReleased(h))
          /\ Settles(h)
    BY <1>7 DEF Captures
  <2>2. PICK d \in Accounts, c \in Accounts, n \in Amounts :
          d = holds[h].debit /\ c = holds[h].credit /\ n = holds[h].amount /\ d # c
    BY <1>1, HoldRowFields
  <2> DEFINE av == PrivatelyReleased(h)
  <2>3. /\ n \in Int /\ d \in AllAccounts /\ c \in AllAccounts
        /\ ledger[d] - available[d] >= n
    BY <2>1, <2>2, HeldCoversHold, AmountsArePositive DEF Settles, AllAccounts
  <2>4. /\ av \in [AllAccounts -> Int] /\ av[d] = available[d] + n
        /\ \A b \in AllAccounts \ {d} : av[b] = available[b]
    BY <2>2, ReleasedEffect
  <2>5. MoveMoney(source, d, c, n, av)
    BY <2>1, <2>2
  <2> HIDE DEF av
  <2>6. ledger' = [ledger EXCEPT ![d] = @ - n, ![c] = @ + n]
    BY <2>5 DEF MoveMoney
  <2>7. /\ ledger'[d] = ledger[d] - n /\ ledger'[c] = ledger[c] + n
        /\ available'[d] = av[d] - n /\ available'[c] = av[c] + n
        /\ \A b \in AllAccounts : b # d /\ b # c => ledger'[b] = ledger[b] /\ available'[b] = av[b]
    BY <1>1, <2>2, <2>3, <2>4, <2>5, MoveMoneyEffect
  <2>8. Held' = [Held EXCEPT ![d] = @ - n]
    <3>1. \A a \in Accounts : ledger'[a] - available'[a] =
            IF a = d THEN (ledger[d] - available[d]) - n ELSE ledger[a] - available[a]
      BY <1>1, <2>2, <2>3, <2>4, <2>7 DEF AllAccounts
    <3>. QED  BY ZenonT(60), <3>1 DEF Held
  <2>9. Promise!Capture(d, c, n)
    BY <2>2, <2>3, <2>6, <2>8 DEF Promise!Capture, Promise!Moved, Held
  <2>. QED  BY ZenonT(60), <2>9 DEF Promise!Next
<1>. QED  BY <1>3, <1>4, <1>5, <1>6, <1>7, StepEffect

\* The financial core implements AbstractLedger: however its commands and
\* workers interleave, an observer of the two balance columns sees money that
\* only moves, is held, returned or captured as the abstract ledger allows.
THEOREM CoreKeepsItsPromise == Spec => KeepsItsPromise
<1>1. Init => Promise!Init
  <2>1. SUFFICES ASSUME Init PROVE Promise!Init
    OBVIOUS
  <2>2. \A a \in Accounts : ledger[a] = Opening[a] /\ available[a] = Opening[a] /\ Opening[a] \in Nat
    BY <2>1, AccountsAssumption DEF Init, BalancesInit, AllAccounts
  <2>3. [a \in Accounts |-> ledger[a] - available[a]] = [a \in Accounts |-> 0]
    BY <2>2
  <2>. QED  BY <2>1, <2>3 DEF Init, BalancesInit, Promise!Init, Promise!Holders, AllAccounts
<1>2. TypeOK /\ TypeOK' /\ Solvent /\ [Next]_vars => [Promise!Next]_(Promise!ledgerVars)
  BY PromiseStep
<1>. QED  BY <1>1, <1>2, TypeCorrect, AlwaysSolvent, PTL DEF Spec, KeepsItsPromise, Promise!Spec

-----------------------------------------------------------------------------
\* Either the ledger column is untouched, or one account lost what another
\* one gained, and both balances have a new version.
LEMMA MoveAction ==
  ASSUME TypeOK, NEW source, NEW d \in AllAccounts, NEW c \in AllAccounts, d # c, NEW n \in Amounts,
         NEW av \in [AllAccounts -> Int],
         \A a \in AllAccounts : a # d => av[a] = available[a],
         MoveMoney(source, d, c, n, av)
  PROVE  /\ \E a, b \in AllAccounts :
              /\ a # b /\ ledger'[a] < ledger[a]
              /\ ledger' = [ledger EXCEPT ![a] = ledger'[a], ![b] = @ + (ledger[a] - ledger'[a])]
              /\ Len(journal') = Len(journal) + 1
         /\ \A a \in AllAccounts :
              version'[a] = version[a] +
                (IF <<ledger'[a], available'[a]>> # <<ledger[a], available[a]>> THEN 1 ELSE 0)
<1>1. n \in Int /\ n > 0 /\ BalancesTypeOK
  BY AmountsArePositive DEF TypeOK
<1>2. /\ ledger \in [AllAccounts -> Int] /\ available \in [AllAccounts -> Int]
      /\ version \in [AllAccounts -> Nat]
  BY <1>1 DEF BalancesTypeOK
<1>3. /\ ledger'[d] = ledger[d] - n /\ ledger'[c] = ledger[c] + n
      /\ version'[d] = version[d] + 1 /\ version'[c] = version[c] + 1
      /\ \A a \in AllAccounts : a # d /\ a # c =>
           ledger'[a] = ledger[a] /\ available'[a] = av[a] /\ version'[a] = version[a]
  BY <1>1, MoveMoneyEffect
<1>4. ledger' = [ledger EXCEPT ![d] = @ - n, ![c] = @ + n]
  BY DEF MoveMoney
<1>5. ledger[d] - ledger'[d] = n /\ ledger'[d] < ledger[d]
  <2>1. ledger[d] \in Int /\ ledger'[d] = ledger[d] - n
    BY Zenon, <1>2, <1>3
  <2>. QED  BY <1>1, <2>1
<1>6. ledger' = [ledger EXCEPT ![d] = ledger'[d], ![c] = @ + (ledger[d] - ledger'[d])]
  BY ZenonT(60), <1>1, <1>2, <1>3, <1>4, <1>5
<1>7. Len(journal') = Len(journal) + 1
  BY <1>1 DEF MoveMoney, BalancesTypeOK
<1>8. ASSUME NEW a \in AllAccounts
      PROVE  version'[a] = version[a] +
               (IF <<ledger'[a], available'[a]>> # <<ledger[a], available[a]>> THEN 1 ELSE 0)
  <2>1. CASE a = d \/ a = c
    BY <1>1, <1>2, <1>3, <2>1
  <2>2. CASE a # d /\ a # c
    BY <1>2, <1>3, <2>2
  <2>. QED  BY <2>1, <2>2
<1>. QED  BY <1>5, <1>6, <1>7, <1>8

\* A hold command gives one account a new balance and a new version.
LEMMA ShiftAction ==
  ASSUME TypeOK, NEW d \in AllAccounts, NEW n \in Int, n # 0, ShiftAvailable(d, n)
  PROVE  /\ ledger' = ledger /\ journal' = journal
         /\ \A a \in AllAccounts :
              version'[a] = version[a] +
                (IF <<ledger'[a], available'[a]>> # <<ledger[a], available[a]>> THEN 1 ELSE 0)
<1>1. BalancesTypeOK /\ available \in [AllAccounts -> Int] /\ version \in [AllAccounts -> Nat]
  BY DEF TypeOK, BalancesTypeOK
<1>2. /\ available'[d] = available[d] + n /\ version'[d] = version[d] + 1
      /\ \A a \in AllAccounts \ {d} : available'[a] = available[a] /\ version'[a] = version[a]
      /\ ledger' = ledger /\ journal' = journal
  BY <1>1, ShiftEffect
<1>. QED  BY <1>1, <1>2

\* The step shape behind both action properties.
LEMMA StepAction ==
  ASSUME TypeOK, [Next]_vars
  PROVE  /\ \/ ledger' = ledger /\ journal' = journal
            \/ \E a, b \in AllAccounts :
                 /\ a # b /\ ledger'[a] < ledger[a]
                 /\ ledger' = [ledger EXCEPT ![a] = ledger'[a], ![b] = @ + (ledger[a] - ledger'[a])]
                 /\ Len(journal') = Len(journal) + 1
         /\ \A a \in AllAccounts :
              version'[a] = version[a] +
                (IF <<ledger'[a], available'[a]>> # <<ledger[a], available[a]>> THEN 1 ELSE 0)
<1>1. /\ available \in [AllAccounts -> Int] /\ version \in [AllAccounts -> Nat]
      /\ ReservationsTypeOK
  BY DEF TypeOK, BalancesTypeOK
<1>2. CASE Quiet
  BY <1>1, <1>2 DEF Quiet
<1>3. CASE Moves
  <2>1. PICK d \in AllAccounts, c \in AllAccounts, n \in Amounts, source \in {"transfer", "funding"} \X Nat :
          d # c /\ MoveMoney(source, d, c, n, available)
    BY <1>3 DEF Moves
  <2>. QED  BY ZenonT(60), <1>1, <2>1, MoveAction
<1>4. CASE Reserves
  <2>1. PICK d \in Accounts, n \in Amounts : ShiftAvailable(d, 0 - n)
    BY <1>4 DEF Reserves
  <2>2. 0 - n \in Int /\ 0 - n # 0 /\ d \in AllAccounts
    BY AmountsArePositive DEF AllAccounts
  <2>. QED  BY ZenonT(60), <2>1, <2>2, ShiftAction
<1>5. CASE Returns
  <2>1. PICK h \in DOMAIN holds : ShiftAvailable(holds[h].debit, holds[h].amount)
    BY <1>5 DEF Returns
  <2>2. PICK d \in Accounts, n \in Amounts : d = holds[h].debit /\ n = holds[h].amount
    BY <1>1, HoldRowFields
  <2>3. n \in Int /\ n # 0 /\ d \in AllAccounts
    BY AmountsArePositive DEF AllAccounts
  <2>4. ShiftAvailable(d, n)
    BY Zenon, <2>1, <2>2
  <2>. QED  BY ZenonT(60), <2>3, <2>4, ShiftAction
<1>6. CASE Captures
  <2>1. PICK h \in DOMAIN holds, source \in {"transfer", "funding"} \X Nat :
          MoveMoney(source, holds[h].debit, holds[h].credit, holds[h].amount, PrivatelyReleased(h))
    BY Zenon, <1>6 DEF Captures
  <2>2. PICK d \in Accounts, c \in Accounts, n \in Amounts :
          d = holds[h].debit /\ c = holds[h].credit /\ n = holds[h].amount /\ d # c
    BY <1>1, HoldRowFields
  <2>3. d \in AllAccounts /\ c \in AllAccounts
    BY DEF AllAccounts
  <2> DEFINE av == PrivatelyReleased(h)
  <2>4. av \in [AllAccounts -> Int] /\ \A a \in AllAccounts : a # d => av[a] = available[a]
    BY <2>2, ReleasedEffect
  <2>5. MoveMoney(source, d, c, n, av)
    BY <2>1, <2>2
  <2> HIDE DEF av
  <2>. QED  BY ZenonT(60), <2>2, <2>3, <2>4, <2>5, MoveAction
<1>. QED  BY ZenonT(60), <1>2, <1>3, <1>4, <1>5, <1>6, StepEffect

\* No step makes or destroys money: a step moves one amount between two
\* accounts and journals it, or leaves the ledger alone.
THEOREM MoneyIsConserved == Spec => StepsConserveMoney
<1>1. ASSUME TypeOK, [Next]_vars
      PROVE  [\/ ledger' = ledger /\ journal' = journal
              \/ \E a, b \in AllAccounts :
                   /\ a # b /\ ledger'[a] < ledger[a]
                   /\ ledger' = [ledger EXCEPT ![a] = ledger'[a], ![b] = @ + (ledger[a] - ledger'[a])]
                   /\ Len(journal') = Len(journal) + 1]_balanceVars
  BY <1>1, StepAction
<1>. QED  BY <1>1, TypeCorrect, PTL DEF Spec, StepsConserveMoney

\* A balance version names one balance: it advances by one exactly when the
\* committed balance of the account changes.
THEOREM VersionsNameBalances == Spec => VersionCountsChanges
<1>1. ASSUME TypeOK, [Next]_vars
      PROVE  [\A a \in AllAccounts :
                version'[a] = version[a] +
                  (IF <<ledger'[a], available'[a]>> # <<ledger[a], available[a]>>
                   THEN 1 ELSE 0)]_balanceVars
  BY <1>1, StepAction
<1>. QED  BY <1>1, TypeCorrect, PTL DEF Spec, VersionCountsChanges

=============================================================================
