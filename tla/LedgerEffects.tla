---------------------------- MODULE LedgerEffects ----------------------------
(*****************************************************************************)
(* Every step of Ledger has one of five effects on the balances and the      *)
(* holds (StepEffect), and what each effect does to the balances and to the  *)
(* reserved sums.  Each property of the core is then proved once for each    *)
(* effect instead of once for each command.                                  *)
(*****************************************************************************)
EXTENDS LedgerTypes

\* The holds keep what the balances depend on.
SameHolds ==
  /\ DOMAIN holds' = DOMAIN holds
  /\ \A h \in DOMAIN holds :
       /\ holds'[h].debit = holds[h].debit /\ holds'[h].amount = holds[h].amount
       /\ holds'[h].state = holds[h].state

\* Hold h stops being active, the others keep what the balances depend on.
Settles(h) ==
  /\ holds[h].state = "active"
  /\ DOMAIN holds' = DOMAIN holds
  /\ holds'[h].state # "active"
  /\ \A g \in DOMAIN holds :
       /\ holds'[g].debit = holds[g].debit /\ holds'[g].amount = holds[g].amount
       /\ g # h => holds'[g].state = holds[g].state

\* The five effects.
Quiet == UNCHANGED <<ledger, available, version, journal>> /\ SameHolds
Moves ==
  \E d, c \in AllAccounts, n \in Amounts, source \in {"transfer", "funding"} \X Nat :
    /\ d # c /\ Covers(d, n, available)
    /\ MoveMoney(source, d, c, n, available)
    /\ SameHolds
Reserves ==
  \E d, c \in Accounts, n \in Amounts :
    /\ available[d] >= n
    /\ ShiftAvailable(d, 0 - n)
    /\ holds' = Append(holds, [debit |-> d, credit |-> c, amount |-> n,
                               state |-> "active", due |-> FALSE, transfer |-> 0])
Returns ==
  \E h \in DOMAIN holds : ShiftAvailable(holds[h].debit, holds[h].amount) /\ Settles(h)
Captures ==
  \E h \in DOMAIN holds, source \in {"transfer", "funding"} \X Nat :
    /\ Covers(holds[h].debit, holds[h].amount, PrivatelyReleased(h))
    /\ MoveMoney(source, holds[h].debit, holds[h].credit, holds[h].amount, PrivatelyReleased(h))
    /\ Settles(h)

\* Finish settles an active hold.
LEMMA FinishSettles ==
  ASSUME ReservationsTypeOK, NEW h \in DOMAIN holds, holds[h].state = "active",
         NEW s \in {"released", "captured", "expired"}, NEW k, Finish(h, s, k)
  PROVE  Settles(h)
<1>1. holds \in Seq(HoldRow) /\ holds[h] \in HoldRow
  BY DEF ReservationsTypeOK
<1> DEFINE r == [holds[h] EXCEPT !.state = s, !.transfer = k]
<1>2. r.debit = holds[h].debit /\ r.amount = holds[h].amount /\ r.state = s
  BY <1>1 DEF HoldRow
<1>3. holds' = [holds EXCEPT ![h] = r]
  BY Zenon DEF Finish
<1> HIDE DEF r
<1>4. holds'[h] = r /\ DOMAIN holds' = DOMAIN holds
      /\ \A g \in DOMAIN holds : g # h => holds'[g] = holds[g]
  BY <1>1, <1>3
<1>. QED  BY <1>2, <1>4 DEF Settles

\* A transfer command moves money between two customer accounts that cover
\* it, or leaves all balances and holds alone.
LEMMA TransferEffect ==
  ASSUME TypeOK, TransferStep
  PROVE  Quiet \/ Moves
<1>1. PICK t \in Requests : SubmitTransfer(t) \/ ReplayTransfer(t)
  BY DEF TransferStep
<1>2. SameHolds
  BY DEF TransferStep, holdVars, SameHolds
<1>3. CASE SubmitTransfer(t) /\ PostTransfer(t, available) /\ Covers(t.debit, t.amount, available)
  <2>1. /\ t.debit \in AllAccounts /\ t.credit \in AllAccounts /\ t.amount \in Amounts
        /\ t.debit # t.credit
    BY Zenon, <1>3, RequestsType, SettledTransferType DEF SubmitTransfer, PolicyAdmits, AllAccounts
  <2>2. <<"transfer", Len(transfers) + 1>> \in {"transfer", "funding"} \X Nat
    BY DEF TypeOK, TransfersTypeOK
  <2>3. MoveMoney(<<"transfer", Len(transfers) + 1>>, t.debit, t.credit, t.amount, available)
    BY <1>3 DEF PostTransfer
  <2>. QED  BY <1>2, <1>3, <2>1, <2>2, <2>3 DEF Moves
<1>4. CASE RejectTransfer(t)
  BY <1>2, <1>4 DEF RejectTransfer, Quiet
<1>5. CASE ReplayTransfer(t)
  BY <1>2, <1>5 DEF ReplayTransfer, Quiet, balanceVars
<1>. QED  BY <1>1, <1>3, <1>4, <1>5 DEF SubmitTransfer

\* A hold command reserves, returns or captures the money of one hold, or
\* (a denied capture) leaves all balances and holds alone.
LEMMA HoldEffect ==
  ASSUME TypeOK, HoldStep
  PROVE  Quiet \/ Reserves \/ Returns \/ Captures
<1>1. ASSUME NEW actor \in Actors, NEW key \in HoldKeys,
             NEW d \in Accounts, NEW c \in Accounts, NEW n \in Amounts,
             CreateHold(actor, key, d, c, n)
      PROVE  Reserves
  BY ZenonT(60), <1>1 DEF CreateHold, Reserves
<1>2. ASSUME NEW actor \in Actors, NEW key \in HoldKeys, NEW h \in DOMAIN holds,
             ReleaseHold(actor, key, h)
      PROVE  Returns
  BY <1>2, FinishSettles DEF ReleaseHold, Decidable, Returns, TypeOK
<1>3. ASSUME NEW actor \in Actors, NEW key \in HoldKeys, NEW h \in DOMAIN holds,
             CaptureHold(actor, key, h)
      PROVE  Captures
  <2>1. Settles(h)
    BY <1>3, FinishSettles DEF CaptureHold, Decidable, TypeOK
  <2>2. <<"transfer", Len(transfers) + 1>> \in {"transfer", "funding"} \X Nat
    BY DEF TypeOK, TransfersTypeOK
  <2>3. /\ Covers(holds[h].debit, holds[h].amount, PrivatelyReleased(h))
        /\ MoveMoney(<<"transfer", Len(transfers) + 1>>, holds[h].debit, holds[h].credit,
                     holds[h].amount, PrivatelyReleased(h))
    BY <1>3, CaptureOfType DEF CaptureHold, PostTransfer
  <2>. QED  BY <2>1, <2>2, <2>3 DEF Captures
<1>4. ASSUME NEW actor \in Actors, NEW key \in HoldKeys, NEW h \in DOMAIN holds,
             DenyCapture(actor, key, h)
      PROVE  Quiet
  BY <1>4 DEF DenyCapture, Quiet, SameHolds, balanceVars
<1>. QED  BY <1>1, <1>2, <1>3, <1>4 DEF HoldStep, HoldCommand

\* A step of the expiry queue returns the money of one active hold or leaves
\* all balances and holds alone.
LEMMA ExpiryEffect ==
  ASSUME TypeOK, ExpiryStep
  PROVE  Quiet \/ Returns
<1>1. PICK h \in DOMAIN holds :
        \/ BecomeDue(h)
        \/ LapseLease(h)
        \/ \E w \in Workers :
             \/ ClaimExpiry(w, h)
             \/ \E g \in 1..jobs[h].generation :
                  ExpireHold(w, h, g) \/ SkipExpiry(w, h, g) \/ LoseClaim(w, h, g)
  BY DEF ExpiryStep, HoldExpiry
<1>2. CASE BecomeDue(h)
  <2>1. holds \in Seq(HoldRow) /\ holds[h] \in HoldRow
    BY DEF TypeOK, ReservationsTypeOK
  <2> DEFINE r == [holds[h] EXCEPT !.due = TRUE]
  <2>2. r.debit = holds[h].debit /\ r.amount = holds[h].amount /\ r.state = holds[h].state
    BY <2>1 DEF HoldRow
  <2>3. holds' = [holds EXCEPT ![h] = r]
    BY <1>2 DEF BecomeDue
  <2> HIDE DEF r
  <2>4. SameHolds
    BY <2>1, <2>2, <2>3 DEF SameHolds
  <2>. QED  BY <1>2, <2>4 DEF BecomeDue, Quiet, balanceVars
<1>3. CASE LapseLease(h)
  BY <1>3 DEF LapseLease, Quiet, SameHolds, balanceVars
<1>4. ASSUME NEW w \in Workers, ClaimExpiry(w, h)
      PROVE  Quiet
  BY <1>4 DEF ClaimExpiry, Quiet, SameHolds, balanceVars
<1>5. ASSUME NEW w \in Workers, NEW g \in 1..jobs[h].generation, ExpireHold(w, h, g)
      PROVE  Returns
  BY <1>5, FinishSettles DEF ExpireHold, Returns, TypeOK
<1>6. ASSUME NEW w \in Workers, NEW g \in 1..jobs[h].generation,
             SkipExpiry(w, h, g) \/ LoseClaim(w, h, g)
      PROVE  Quiet
  BY <1>6 DEF SkipExpiry, LoseClaim, Quiet, SameHolds, balanceVars
<1>. QED  BY <1>1, <1>2, <1>3, <1>4, <1>5, <1>6

\* A posted correction moves money, every other correction command is quiet.
LEMMA CorrectionEffect ==
  ASSUME TypeOK, CorrectionStep
  PROVE  Quiet \/ Moves
<1>1. SameHolds
  BY DEF CorrectionStep, holdVars, SameHolds
<1>2. ASSUME UNCHANGED <<balanceVars, transferVars>>
      PROVE  Quiet
  BY <1>1, <1>2 DEF Quiet, balanceVars
<1>3. ASSUME NEW c \in DOMAIN corrections, NEW actor \in Actors, PostCorrection(actor, c)
      PROVE  Moves
  <2> DEFINE o == transfers[corrections[c].original]
             p == Pending(actor, NoKey, o.credit, o.debit, o.amount, now)
             t == [p EXCEPT !.status = "posted", !.corrects = corrections[c].original]
  <2>1. corrections[c].original \in DOMAIN transfers
    BY DEF TypeOK, CorrectionsTypeOK
  <2>2. o \in Transfer /\ o.debit # o.credit
    BY <2>1 DEF TypeOK, TransfersTypeOK
  <2>3. o.debit \in AllAccounts /\ o.credit \in AllAccounts /\ o.amount \in Amounts
    BY <2>2 DEF Transfer, AllAccounts
  <2>4. /\ Covers(t.debit, t.amount, available)
        /\ MoveMoney(<<"transfer", Len(transfers) + 1>>, t.debit, t.credit, t.amount, available)
    BY Zenon, <1>3 DEF PostCorrection
  <2> HIDE DEF o
  <2>5. t.debit = o.credit /\ t.credit = o.debit /\ t.amount = o.amount
    BY DEF Pending
  <2> HIDE DEF t
  <2>6. <<"transfer", Len(transfers) + 1>> \in {"transfer", "funding"} \X Nat
    BY DEF TypeOK, TransfersTypeOK
  <2>. QED  BY <1>1, <2>2, <2>3, <2>4, <2>5, <2>6 DEF Moves
<1>4. ASSUME NEW c \in DOMAIN corrections,
             \/ LapseCorrection(c)
             \/ \E actor \in Actors :
                  \/ CancelCorrection(actor, c) \/ ExpireCorrection(actor, c)
                  \/ \E d \in {"approved", "rejected"} : DecideCorrection(actor, c, d)
      PROVE  Quiet
  BY <1>2, <1>4 DEF LapseCorrection, CancelCorrection, ExpireCorrection, DecideCorrection
<1>5. ASSUME NEW actor \in Actors, NEW key \in RequestKeys, NEW i \in DOMAIN transfers,
             RequestCorrection(actor, key, i)
      PROVE  Quiet
  BY <1>2, <1>5 DEF RequestCorrection
<1>. QED  BY <1>3, <1>4, <1>5 DEF CorrectionStep, CorrectionCommand

\* A posted funding event moves money, every other funding command is quiet.
LEMMA FundingEffect ==
  ASSUME TypeOK, FundingStep
  PROVE  Quiet \/ Moves
<1>1. SameHolds
  BY DEF FundingStep, holdVars, SameHolds
<1>2. ASSUME UNCHANGED <<balanceVars, transferVars>>
      PROVE  Quiet
  BY <1>1, <1>2 DEF Quiet, balanceVars
<1>3. ASSUME NEW f \in DOMAIN fundings, NEW actor \in Actors, NEW at \in RequestTimes,
             PostFunding(actor, f, at)
      PROVE  Moves
  <2> DEFINE new == fundings[f]
             d == IF new.of = 0 THEN Clearing ELSE new.destination
             c == IF new.of = 0 THEN new.destination ELSE Clearing
  <2>1. new \in FundingEvent /\ f \in Nat
    BY DEF TypeOK, FundingTypeOK
  <2>2. new.destination \in Accounts /\ new.amount \in Amounts
    BY <2>1 DEF FundingEvent
  <2>3. d \in AllAccounts /\ c \in AllAccounts /\ d # c
    BY <2>2, AccountsAssumption DEF AllAccounts
  <2>4. /\ Covers(d, new.amount, available)
        /\ MoveMoney(<<"funding", f>>, d, c, new.amount, available)
    BY <1>3 DEF PostFunding
  <2>5. <<"funding", f>> \in {"transfer", "funding"} \X Nat
    BY <2>1
  <2> HIDE DEF d, c, new
  <2>. QED  BY <1>1, <2>2, <2>3, <2>4, <2>5 DEF Moves
<1>4. ASSUME NEW f \in DOMAIN fundings,
             \/ LapseFunding(f)
             \/ \E actor \in Actors :
                  \/ \E key \in RequestKeys : RequestCompensation(actor, key, f)
                  \/ ApproveFunding(actor, f) \/ RejectFunding(actor, f)
      PROVE  Quiet
  BY Zenon, <1>2, <1>4 DEF LapseFunding, RequestCompensation, ApproveFunding, RejectFunding
<1>5. ASSUME NEW actor \in Actors, NEW key \in RequestKeys, NEW x \in References,
             NEW a \in Accounts, NEW n \in Amounts, RequestFunding(actor, key, x, a, n)
      PROVE  Quiet
  BY <1>2, <1>5 DEF RequestFunding
<1>. QED  BY <1>3, <1>4, <1>5 DEF FundingStep, FundingCommand

\* Whatever a step of the core does to the balances is one of five effects.
LEMMA StepEffect ==
  ASSUME TypeOK, [Next]_vars
  PROVE  Quiet \/ Moves \/ Reserves \/ Returns \/ Captures
<1>1. CASE AccountStep
  BY <1>1 DEF AccountStep, UpdateAccount, Quiet, SameHolds, moneyVars, holdVars
<1>2. CASE TickStep
  BY <1>2 DEF TickStep, Tick, Quiet, SameHolds, balanceVars, holdVars
<1>3. CASE UNCHANGED vars
  BY <1>3 DEF vars, Quiet, SameHolds, balanceVars, holdVars
<1>. QED  BY SMTT(30), <1>1, <1>2, <1>3, TransferEffect, HoldEffect, ExpiryEffect, CorrectionEffect,
             FundingEffect DEF Next

-----------------------------------------------------------------------------
\* What the effects do to the columns of one account.
LEMMA MoveMoneyEffect ==
  ASSUME BalancesTypeOK, NEW d \in AllAccounts, NEW c \in AllAccounts, d # c,
         NEW n \in Int, NEW source, NEW av \in [AllAccounts -> Int],
         MoveMoney(source, d, c, n, av)
  PROVE  /\ ledger'[d] = ledger[d] - n /\ ledger'[c] = ledger[c] + n
         /\ available'[d] = av[d] - n /\ available'[c] = av[c] + n
         /\ version'[d] = version[d] + 1 /\ version'[c] = version[c] + 1
         /\ \A a \in AllAccounts : a # d /\ a # c =>
              ledger'[a] = ledger[a] /\ available'[a] = av[a] /\ version'[a] = version[a]
BY DEF BalancesTypeOK, MoveMoney

\* What a hold command does to the columns of one account.
LEMMA ShiftEffect ==
  ASSUME BalancesTypeOK, NEW d \in AllAccounts, NEW n \in Int, ShiftAvailable(d, n)
  PROVE  /\ available'[d] = available[d] + n /\ version'[d] = version[d] + 1
         /\ \A a \in AllAccounts \ {d} : available'[a] = available[a] /\ version'[a] = version[a]
         /\ ledger' = ledger /\ journal' = journal
BY DEF BalancesTypeOK, ShiftAvailable

\* The available column a capture runs on.
LEMMA ReleasedEffect ==
  ASSUME TypeOK, NEW h \in DOMAIN holds
  PROVE  /\ PrivatelyReleased(h) \in [AllAccounts -> Int]
         /\ PrivatelyReleased(h)[holds[h].debit] = available[holds[h].debit] + holds[h].amount
         /\ \A a \in AllAccounts \ {holds[h].debit} : PrivatelyReleased(h)[a] = available[a]
<1>1. holds[h].debit \in AllAccounts /\ holds[h].amount \in Int
  BY HoldRowFields DEF TypeOK, AllAccounts
<1>2. available \in [AllAccounts -> Int]
  BY DEF TypeOK, BalancesTypeOK
<1>3. available[holds[h].debit] + holds[h].amount \in Int
  BY <1>1, <1>2
<1>. QED  BY <1>1, <1>2, <1>3 DEF PrivatelyReleased

-----------------------------------------------------------------------------
\* The amounts that make up what is reserved on an account are naturals.
LEMMA HoldWeightsType ==
  ASSUME ReservationsTypeOK, NEW a
  PROVE  /\ Len(holds) \in Nat /\ DOMAIN holds = 1..Len(holds)
         /\ \A h \in 1..Len(holds) : HoldWeights(a)[h] \in Nat /\ HoldWeights(a)[h] \in Int
         /\ Reserved(a) \in Nat
<1>1. Len(holds) \in Nat /\ DOMAIN holds = 1..Len(holds)
  BY DEF ReservationsTypeOK
<1>2. \A h \in 1..Len(holds) : holds[h].amount \in Nat
  BY SMTT(30), <1>1, HoldRowFields, AmountsArePositive
<1>3. \A h \in 1..Len(holds) : HoldWeights(a)[h] \in Nat
  BY <1>1, <1>2 DEF HoldWeights
<1>. QED  BY <1>1, <1>3, SumNat DEF Reserved

\* Nothing is reserved or given back while the holds keep their states.
LEMMA ReservedSame ==
  ASSUME ReservationsTypeOK, ReservationsTypeOK', SameHolds, NEW a
  PROVE  Reserved(a)' = Reserved(a)
<1> DEFINE w == HoldWeights(a)
           v == HoldWeights(a)'
           n == Len(holds)
<1>1. n \in Nat /\ DOMAIN holds = 1..n /\ \A h \in 1..n : w[h] \in Int
  BY HoldWeightsType
<1>2. Len(holds') = n
  BY <1>1 DEF SameHolds, ReservationsTypeOK
<1>3. \A h \in 1..n : v[h] = w[h]
  BY <1>1 DEF SameHolds, HoldWeights
<1>4. SumTo(v, n) = SumTo(w, n)
  <2> HIDE DEF w, v, n
  <2>. QED  BY <1>1, <1>3, SumSame
<1>. QED  BY <1>2, <1>4 DEF Reserved

\* A new hold reserves its amount on its own account.
LEMMA ReservedByNew ==
  ASSUME ReservationsTypeOK, ReservationsTypeOK', NEW d \in Accounts, NEW k \in Amounts, NEW r,
         holds' = Append(holds, r), r.debit = d, r.amount = k, r.state = "active", NEW a
  PROVE  Reserved(a)' = Reserved(a) + (IF a = d THEN k ELSE 0)
<1> DEFINE w == HoldWeights(a)
           v == HoldWeights(a)'
           n == Len(holds)
<1>1. n \in Nat /\ DOMAIN holds = 1..n /\ \A h \in 1..n : w[h] \in Int
  BY HoldWeightsType
<1>2. /\ Len(holds') = n + 1 /\ DOMAIN holds' = 1..(n+1)
      /\ \A h \in 1..n : holds'[h] = holds[h]
      /\ holds'[n+1] = r
  BY <1>1 DEF ReservationsTypeOK
<1>3. \A h \in 1..n : v[h] = w[h]
  BY <1>1, <1>2 DEF HoldWeights
<1>4. v[n+1] = IF a = d THEN k ELSE 0
  BY <1>1, <1>2 DEF HoldWeights
<1>5. \A h \in 1..(n+1) : v[h] \in Int
  <2>1. k \in Int
    BY AmountsArePositive
  <2>2. v[n+1] \in Int
    BY <1>4, <2>1
  <2>3. \A h \in 1..n : v[h] \in Int
    <3> HIDE DEF w, v
    <3>. QED  BY <1>1, <1>3
  <2>4. \A h \in 1..(n+1) : h \in 1..n \/ h = n+1
    BY <1>1
  <2> HIDE DEF w, v, n
  <2>. QED  BY <2>2, <2>3, <2>4
<1>6. SumTo(v, n+1) = SumTo(w, n) + v[n+1]
  <2> HIDE DEF w, v, n
  <2>. QED  BY <1>1, <1>3, <1>5, SumExtend
<1>. QED  BY <1>2, <1>4, <1>6 DEF Reserved

\* A settled hold gives back its amount on its own account, once.
LEMMA ReservedBySettled ==
  ASSUME ReservationsTypeOK, ReservationsTypeOK', NEW k \in DOMAIN holds, Settles(k), NEW a
  PROVE  Reserved(a)' = Reserved(a) - (IF a = holds[k].debit THEN holds[k].amount ELSE 0)
<1> DEFINE w == HoldWeights(a)
           v == HoldWeights(a)'
           n == Len(holds)
           d == 0 - (IF a = holds[k].debit THEN holds[k].amount ELSE 0)
<1>1. n \in Nat /\ DOMAIN holds = 1..n /\ \A h \in 1..n : w[h] \in Int
  BY HoldWeightsType
<1>2. Len(holds') = n
  BY <1>1 DEF Settles, ReservationsTypeOK
<1>3. \A h \in 1..n : holds[h].amount \in Int
  BY <1>1, HoldRowFields
<1>4. d \in Int /\ k \in 1..n
  BY <1>1, <1>3
<1>5. \A h \in 1..n : v[h] = IF h = k THEN w[h] + d ELSE w[h]
  BY <1>1, <1>3 DEF Settles, HoldWeights
<1>6. SumTo(v, n) = SumTo(w, n) + d
  <2> HIDE DEF w, v, n, d
  <2>. QED  BY ZenonT(60), <1>1, <1>4, <1>5, SumShift
<1>7. Reserved(a) \in Nat
  BY HoldWeightsType
<1>. QED  BY <1>1, <1>2, <1>3, <1>6, <1>7 DEF Reserved

-----------------------------------------------------------------------------

=============================================================================
