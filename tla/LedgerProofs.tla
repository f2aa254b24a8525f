---------------------------- MODULE LedgerProofs -----------------------------
(*****************************************************************************)
(* The safety of the financial core, for any accounts, actors, amounts,      *)
(* limits and bounds: the books are solvent and the projection never drifts  *)
(* from the journal.                                                         *)
(*****************************************************************************)
EXTENDS LedgerEffects

\* The inductive invariant: reserved money explains the difference between the
\* two balance columns, and nobody spends what is not available.
Solvent ==
  /\ AvailableIsLedgerLessHolds
  /\ \A a \in Accounts : available[a] >= 0

\* The opening balances are solvent: nothing is reserved yet.
LEMMA SolventInit ==
  ASSUME Init
  PROVE  Solvent
<1>1. TypeOK
  BY TypeInit
<1>2. Len(holds) = 0 /\ ReservationsTypeOK
  BY <1>1 DEF Init, ReservationsInit, TypeOK
<1>3. \A a \in Accounts : Reserved(a) = 0
  BY <1>2, HoldWeightsType, SumType DEF Reserved
<1>4. \A a \in Accounts : ledger[a] = Opening[a] /\ available[a] = Opening[a] /\ Opening[a] \in Nat
  BY AccountsAssumption DEF Init, BalancesInit, AllAccounts
<1>. QED  BY <1>3, <1>4 DEF Solvent, AvailableIsLedgerLessHolds

\* Each of the five effects a step can have keeps the books solvent.
LEMMA SolventStep ==
  ASSUME TypeOK, TypeOK', Solvent, [Next]_vars
  PROVE  Solvent'
<1>1. SUFFICES ASSUME NEW a \in Accounts
               PROVE  available'[a] = ledger'[a] - Reserved(a)' /\ available'[a] >= 0
  BY DEF Solvent, AvailableIsLedgerLessHolds
<1>2. /\ available[a] = ledger[a] - Reserved(a) /\ available[a] >= 0
      /\ available[a] \in Int /\ ledger[a] \in Int /\ Reserved(a) \in Nat /\ a \in AllAccounts
      /\ a # Clearing
  BY HoldWeightsType, AccountsAssumption
     DEF Solvent, AvailableIsLedgerLessHolds, TypeOK, BalancesTypeOK, AllAccounts
<1>3. ReservationsTypeOK /\ ReservationsTypeOK' /\ BalancesTypeOK
  BY DEF TypeOK
<1>4. available \in [AllAccounts -> Int] /\ ledger \in [AllAccounts -> Int]
  BY <1>3 DEF BalancesTypeOK
<1>5. CASE Quiet
  BY <1>2, <1>3, <1>5, ReservedSame DEF Quiet
<1>6. CASE Moves
  <2>1. PICK d \in AllAccounts, c \in AllAccounts, n \in Amounts, source \in {"transfer", "funding"} \X Nat :
          /\ d # c /\ Covers(d, n, available)
          /\ MoveMoney(source, d, c, n, available)
          /\ SameHolds
    BY <1>6 DEF Moves
  <2>2. n \in Int /\ n > 0
    BY AmountsArePositive
  <2>3. Reserved(a)' = Reserved(a)
    BY <1>3, <2>1, ReservedSame
  <2>4. /\ ledger'[d] = ledger[d] - n /\ ledger'[c] = ledger[c] + n
        /\ available'[d] = available[d] - n /\ available'[c] = available[c] + n
        /\ \A b \in AllAccounts : b # d /\ b # c => ledger'[b] = ledger[b] /\ available'[b] = available[b]
    BY SMTT(30), <1>3, <1>4, <2>1, <2>2, MoveMoneyEffect
  <2>5. d = a => available[d] >= n
    BY <1>2, <2>1 DEF Covers
  <2>. QED  BY <1>2, <2>2, <2>3, <2>4, <2>5
<1>7. CASE Reserves
  <2>1. PICK d \in Accounts, c \in Accounts, n \in Amounts :
          /\ available[d] >= n
          /\ ShiftAvailable(d, 0 - n)
          /\ holds' = Append(holds, [debit |-> d, credit |-> c, amount |-> n,
                                     state |-> "active", due |-> FALSE, transfer |-> 0])
    BY ZenonT(60), <1>7 DEF Reserves
  <2>2. n \in Int /\ 0 - n \in Int /\ d \in AllAccounts
    BY AmountsArePositive DEF AllAccounts
  <2>3. Reserved(a)' = Reserved(a) + (IF a = d THEN n ELSE 0)
    BY <1>3, <2>1, ReservedByNew
  <2>4. available[d] >= n
    BY Zenon, <2>1
  <2>5. ShiftAvailable(d, 0 - n)
    BY Zenon, <2>1
  <2>6. /\ available'[d] = available[d] + (0 - n) /\ ledger' = ledger
        /\ \A b \in AllAccounts \ {d} : available'[b] = available[b]
    BY Zenon, <1>3, <2>2, <2>5, ShiftEffect
  <2>7. CASE a = d
    <3>1. Reserved(a)' = Reserved(a) + n /\ available'[a] = available[a] - n /\ ledger'[a] = ledger[a]
      BY <1>2, <2>2, <2>3, <2>6, <2>7
    <3>. QED  BY SMTT(30), <1>2, <2>2, <2>4, <2>7, <3>1
  <2>8. CASE a # d
    <3>1. Reserved(a)' = Reserved(a) /\ available'[a] = available[a] /\ ledger'[a] = ledger[a]
      BY <1>2, <2>3, <2>6, <2>8
    <3>. QED  BY <1>2, <3>1
  <2>. QED  BY <2>7, <2>8
<1>8. CASE Returns
  <2>1. PICK h \in DOMAIN holds : ShiftAvailable(holds[h].debit, holds[h].amount) /\ Settles(h)
    BY <1>8 DEF Returns
  <2> DEFINE d == holds[h].debit
             n == holds[h].amount
  <2>2. n \in Int /\ n > 0 /\ d \in AllAccounts
    BY <1>3, HoldRowFields, AmountsArePositive DEF AllAccounts
  <2>3. Reserved(a)' = Reserved(a) - (IF a = d THEN n ELSE 0)
    BY <1>3, <2>1, ReservedBySettled
  <2>4. /\ available'[d] = available[d] + n /\ ledger' = ledger
        /\ \A b \in AllAccounts \ {d} : available'[b] = available[b]
    BY SMTT(30), <1>3, <2>1, <2>2, ShiftEffect
  <2> HIDE DEF d, n
  <2>. QED  BY <1>2, <2>2, <2>3, <2>4
<1>9. CASE Captures
  <2>1. PICK h \in DOMAIN holds, source \in {"transfer", "funding"} \X Nat :
          /\ MoveMoney(source, holds[h].debit, holds[h].credit, holds[h].amount, PrivatelyReleased(h))
          /\ Settles(h)
    BY <1>9 DEF Captures
  <2> DEFINE d == holds[h].debit
             c == holds[h].credit
             n == holds[h].amount
             av == PrivatelyReleased(h)
  <2>2. n \in Int /\ n > 0 /\ d \in AllAccounts /\ c \in AllAccounts /\ d # c
    BY SMTT(30), <1>3, HoldRowFields, AmountsArePositive DEF AllAccounts
  <2>3. Reserved(a)' = Reserved(a) - (IF a = d THEN n ELSE 0)
    BY <1>3, <2>1, ReservedBySettled
  <2>4. /\ av \in [AllAccounts -> Int] /\ av[d] = available[d] + n
        /\ \A b \in AllAccounts \ {d} : av[b] = available[b]
    BY ReleasedEffect
  <2>5. MoveMoney(source, d, c, n, av)
    BY <2>1
  <2> HIDE DEF d, c, n, av
  <2>6. /\ ledger'[d] = ledger[d] - n /\ ledger'[c] = ledger[c] + n
        /\ available'[d] = av[d] - n /\ available'[c] = av[c] + n
        /\ \A b \in AllAccounts : b # d /\ b # c => ledger'[b] = ledger[b] /\ available'[b] = av[b]
    BY <1>3, <2>2, <2>4, <2>5, MoveMoneyEffect
  <2>. QED  BY <1>2, <2>2, <2>3, <2>4, <2>6
<1>. QED  BY <1>5, <1>6, <1>7, <1>8, <1>9, StepEffect

\* In every reachable state, for all constants, available is ledger less the
\* active holds and no customer account is overdrawn.
THEOREM AlwaysSolvent == Spec => []Solvent
<1>1. Init => Solvent
  BY SolventInit
<1>2. TypeOK /\ TypeOK' /\ Solvent /\ [Next]_vars => Solvent'
  BY SolventStep
<1>. QED  BY <1>1, <1>2, TypeCorrect, PTL DEF Spec

\* Reserved money is set aside once and given back once, whatever commands,
\* expiries and retries interleave.
THEOREM ReservationsBalance == Spec => []AvailableIsLedgerLessHolds
<1>1. Solvent => AvailableIsLedgerLessHolds
  BY DEF Solvent
<1>. QED  BY <1>1, AlwaysSolvent, PTL

\* No customer account is ever overdrawn and spending never touches reserved
\* money.
THEOREM NeverOverdrawn == Spec => []NoOverdraft
<1>1. TypeOK /\ Solvent => NoOverdraft
  <2>1. SUFFICES ASSUME TypeOK, Solvent, NEW a \in Accounts
                 PROVE  available[a] >= 0 /\ ledger[a] >= Reserved(a)
    BY DEF NoOverdraft
  <2>2. Reserved(a) \in Nat /\ ledger[a] \in Int /\ available[a] \in Int
    BY <2>1, HoldWeightsType DEF TypeOK, BalancesTypeOK, AllAccounts
  <2>. QED  BY <2>1, <2>2 DEF Solvent, AvailableIsLedgerLessHolds
<1>. QED  BY <1>1, AlwaysSolvent, TypeCorrect, PTL

\* The balance under an active hold covers its capture for as long as the hold
\* is active: no capture fails for want of money.
THEOREM CapturesAreCovered == Spec => []HeldFundsCoverCapture
<1>1. TypeOK /\ Solvent => HeldFundsCoverCapture
  <2>1. SUFFICES ASSUME TypeOK, Solvent, NEW h \in DOMAIN holds, holds[h].state = "active"
                 PROVE  Covers(holds[h].debit, holds[h].amount, PrivatelyReleased(h))
    BY DEF HeldFundsCoverCapture, ActiveHolds
  <2> DEFINE d == holds[h].debit
             n == holds[h].amount
  <2>2. /\ n \in Int /\ n > 0 /\ d \in Accounts
        /\ Len(holds) \in Nat /\ h \in 1..Len(holds)
        /\ \A g \in 1..Len(holds) : HoldWeights(d)[g] \in Nat
        /\ Reserved(d) \in Nat
    BY <2>1, HoldRowFields, HoldWeightsType, AmountsArePositive DEF TypeOK
  <2>3. HoldWeights(d)[h] = n
    BY <2>1 DEF HoldWeights
  <2>4. n <= Reserved(d)
    BY <2>2, <2>3, SumBound DEF Reserved
  <2>5. /\ ledger[d] \in Int /\ available[d] \in Int
        /\ available[d] = ledger[d] - Reserved(d) /\ available[d] >= 0
    BY <2>1, <2>2 DEF Solvent, AvailableIsLedgerLessHolds, TypeOK, BalancesTypeOK, AllAccounts
  <2>6. PrivatelyReleased(h)[d] = available[d] + n
    BY ZenonT(60), <2>1, ReleasedEffect
  <2> HIDE DEF d, n
  <2>7. PrivatelyReleased(h)[d] >= n /\ ledger[d] >= n
    BY <2>2, <2>4, <2>5, <2>6
  <2>. QED  BY Zenon, <2>7 DEF Covers, d, n
<1>. QED  BY <1>1, AlwaysSolvent, TypeCorrect, PTL

-----------------------------------------------------------------------------
\* The postings of an account are integers.
LEMMA PostingsType ==
  ASSUME BalancesTypeOK, NEW a
  PROVE  SumTo(Postings(a), Len(journal)) \in Int
<1>1. Len(journal) \in Nat /\ DOMAIN journal = 1..Len(journal)
  BY DEF BalancesTypeOK
<1>2. \A i \in 1..Len(journal) : journal[i] \in JournalEntry
  BY <1>1 DEF BalancesTypeOK
<1>3. \A x \in JournalEntry : Delta(x, a) \in Int
  BY DEF JournalEntry, Delta
<1>4. \A i \in 1..Len(journal) : Postings(a)[i] \in Int
  BY <1>1, <1>2, <1>3 DEF Postings
<1>. QED  BY <1>1, <1>4, SumType

\* A journal entry adds its two postings to what the journal says.
LEMMA PostingsGrow ==
  ASSUME BalancesTypeOK, NEW e \in JournalEntry, journal' = Append(journal, e), NEW a
  PROVE  SumTo(Postings(a), Len(journal))' = SumTo(Postings(a), Len(journal)) + Delta(e, a)
<1> DEFINE w == Postings(a)
           v == Postings(a)'
           n == Len(journal)
<1>1. n \in Nat /\ DOMAIN journal = 1..n /\ \A i \in 1..n : journal[i] \in JournalEntry
  BY DEF BalancesTypeOK
<1>2. /\ Len(journal') = n + 1 /\ DOMAIN journal' = 1..(n+1)
      /\ \A i \in 1..n : journal'[i] = journal[i]
      /\ journal'[n+1] = e
  BY <1>1 DEF BalancesTypeOK
<1>3. \A x \in JournalEntry : Delta(x, a) \in Int
  BY DEF JournalEntry, Delta
<1>4. (\A i \in 1..n : v[i] = w[i]) /\ v[n+1] = Delta(e, a)
  BY <1>1, <1>2 DEF Postings
<1>5. \A i \in 1..(n+1) : v[i] \in Int
  <2>1. \A i \in 1..(n+1) : journal'[i] \in JournalEntry
    BY <1>1, <1>2
  <2>. QED  BY <1>2, <1>3, <2>1 DEF Postings
<1>6. SumTo(v, n+1) = SumTo(w, n) + v[n+1]
  <2> HIDE DEF w, v, n
  <2>. QED  BY Zenon, <1>1, <1>4, <1>5, SumExtend
<1>. QED  BY <1>2, <1>4, <1>6

\* MoveMoney writes to the projection what it writes to the journal.
LEMMA MoveMatchesJournal ==
  ASSUME TypeOK, ProjectionMatchesJournal,
         NEW source \in {"transfer", "funding"} \X Nat,
         NEW d \in AllAccounts, NEW c \in AllAccounts, d # c, NEW n \in Nat \ {0},
         NEW av \in [AllAccounts -> Int], MoveMoney(source, d, c, n, av)
  PROVE  ProjectionMatchesJournal'
<1> DEFINE e == [source |-> source, debit |-> d, credit |-> c, amount |-> n]
<1>1. SUFFICES ASSUME NEW a \in AllAccounts
               PROVE  ledger'[a] = Authoritative(a)'
  BY DEF ProjectionMatchesJournal
<1>2. e \in JournalEntry /\ e.debit = d /\ e.credit = c /\ e.amount = n
  BY DEF JournalEntry
<1>3. journal' = Append(journal, e)
  BY DEF MoveMoney
<1>4. BalancesTypeOK
  BY DEF TypeOK
<1> HIDE DEF e
<1>5. SumTo(Postings(a), Len(journal))' = SumTo(Postings(a), Len(journal)) + Delta(e, a)
  BY SMTT(30), <1>2, <1>3, <1>4, PostingsGrow
<1>6. ledger[a] = Authoritative(a) /\ ledger[a] \in Int
  BY <1>4 DEF ProjectionMatchesJournal, BalancesTypeOK
<1>7. Delta(e, a) = (IF c = a THEN n ELSE 0) - (IF d = a THEN n ELSE 0)
  BY <1>2 DEF Delta
<1>8. ledger'[a] = ledger[a] + Delta(e, a)
  BY <1>4, <1>6, <1>7, MoveMoneyEffect
<1>9. SumTo(Postings(a), Len(journal)) \in Int
  BY <1>4, PostingsType
<1>10. (IF a = Clearing THEN 0 ELSE Opening[a]) \in Int /\ Delta(e, a) \in Int
  BY <1>7, AccountsAssumption DEF AllAccounts
<1>. QED  BY SMTT(30), <1>5, <1>6, <1>8, <1>9, <1>10 DEF Authoritative

\* The mutable projection never drifts from the immutable journal: every
\* ledger_minor is the opening balance plus the postings of the account.
THEOREM ProjectionNeverDrifts == Spec => []ProjectionMatchesJournal
<1>1. Init => ProjectionMatchesJournal
  <2>1. SUFFICES ASSUME Init, NEW a \in AllAccounts PROVE ledger[a] = Authoritative(a)
    BY DEF ProjectionMatchesJournal
  <2>2. journal = <<>> /\ ledger[a] = (IF a = Clearing THEN 0 ELSE Opening[a])
    BY <2>1 DEF Init, BalancesInit
  <2>3. SumTo(Postings(a), Len(journal)) = 0
    BY <2>2, SumType
  <2>4. (IF a = Clearing THEN 0 ELSE Opening[a]) \in Int
    BY AccountsAssumption DEF AllAccounts
  <2>. QED  BY <2>2, <2>3, <2>4 DEF Authoritative
<1>2. ASSUME TypeOK, ProjectionMatchesJournal, [Next]_vars
      PROVE  ProjectionMatchesJournal'
  <2>1. ASSUME ledger' = ledger, journal' = journal PROVE ProjectionMatchesJournal'
    BY Zenon, <1>2, <2>1 DEF ProjectionMatchesJournal, Authoritative, Postings
  <2>2. CASE Quiet \/ Reserves \/ Returns
    BY ZenonT(60), <2>1, <2>2 DEF Quiet, Reserves, Returns, ShiftAvailable
  <2>3. CASE Moves
    <3>1. PICK d \in AllAccounts, c \in AllAccounts, n \in Amounts, source \in {"transfer", "funding"} \X Nat :
            d # c /\ MoveMoney(source, d, c, n, available)
      BY <2>3 DEF Moves
    <3>2. n \in Nat \ {0} /\ available \in [AllAccounts -> Int]
      BY <1>2, AmountsArePositive DEF TypeOK, BalancesTypeOK
    <3>. QED  BY <1>2, <3>1, <3>2, MoveMatchesJournal
  <2>4. CASE Captures
    <3>1. PICK h \in DOMAIN holds, source \in {"transfer", "funding"} \X Nat :
            MoveMoney(source, holds[h].debit, holds[h].credit, holds[h].amount, PrivatelyReleased(h))
      BY <2>4 DEF Captures
    <3>2. /\ holds[h].debit \in AllAccounts /\ holds[h].credit \in AllAccounts
          /\ holds[h].debit # holds[h].credit /\ holds[h].amount \in Nat \ {0}
          /\ PrivatelyReleased(h) \in [AllAccounts -> Int]
      BY <1>2, HoldRowFields, AmountsArePositive, ReleasedEffect DEF TypeOK, AllAccounts
    <3>. QED  BY <1>2, <3>1, <3>2, MoveMatchesJournal
  <2>. QED  BY <1>2, <2>2, <2>3, <2>4, StepEffect
<1>. QED  BY <1>1, <1>2, TypeCorrect, PTL DEF Spec

=============================================================================
