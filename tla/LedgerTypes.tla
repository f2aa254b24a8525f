----------------------------- MODULE LedgerTypes -----------------------------
(*****************************************************************************)
(* Type correctness of Ledger, for any accounts, actors, amounts, limits     *)
(* and bounds.  The later proofs use it for every variable they mention.     *)
(*****************************************************************************)
EXTENDS CommandTypes

\* The correction commands keep every type.
LEMMA CorrectionStepType ==
  ASSUME TypeOK, CorrectionStep
  PROVE  TypeOK'
<1> DEFINE Calm == UNCHANGED <<balanceVars, transferVars>>
<1>1. ASSUME Calm
      PROVE  BalancesTypeOK' /\ TransfersTypeOK' /\ transfers' = transfers
  BY <1>1 DEF TypeOK, BalancesTypeOK, TransfersTypeOK, balanceVars, transferVars
<1>2. ASSUME NEW c \in DOMAIN corrections, NEW r \in Correction,
             r.original = corrections[c].original,
             corrections' = [corrections EXCEPT ![c] = r],
             DOMAIN transfers \subseteq DOMAIN transfers'
      PROVE  CorrectionsTypeOK'
  <2>1. corrections' \in Seq(Correction) /\ DOMAIN corrections' = DOMAIN corrections
    BY <1>2, SeqUpdate DEF TypeOK, CorrectionsTypeOK
  <2>. QED  BY <1>2, <2>1 DEF TypeOK, CorrectionsTypeOK
<1>3. \A c \in DOMAIN corrections :
        corrections[c] \in Correction /\ corrections[c].original \in DOMAIN transfers
  BY DEF TypeOK, CorrectionsTypeOK
<1> DEFINE Good == BalancesTypeOK' /\ TransfersTypeOK' /\ CorrectionsTypeOK'
<1>4. ASSUME NEW actor \in Actors, NEW key \in RequestKeys, NEW i \in DOMAIN transfers,
             RequestCorrection(actor, key, i)
      PROVE  Good
  <2> DEFINE r == [original |-> i, requester |-> actor, key |-> key, approver |-> {},
                   status |-> "requested", lapsed |-> FALSE, compensation |-> 0]
  <2>1. i \in Nat
    BY DEF TypeOK, TransfersTypeOK
  <2>2. r \in Correction /\ r.original = i
    BY <2>1 DEF Correction
  <2>3. corrections' = Append(corrections, r) /\ Calm
    BY <1>4 DEF RequestCorrection
  <2> HIDE DEF r
  <2>4. CorrectionsTypeOK'
    BY <1>1, <2>2, <2>3, SeqAppend DEF TypeOK, CorrectionsTypeOK
  <2>. QED  BY <1>1, <2>3, <2>4
<1>5. ASSUME NEW c \in DOMAIN corrections, NEW r, r \in Correction,
             r.original = corrections[c].original,
             corrections' = [corrections EXCEPT ![c] = r], Calm
      PROVE  Good
  BY Zenon, <1>1, <1>2, <1>5
<1>6. ASSUME NEW c \in DOMAIN corrections, LapseCorrection(c)
      PROVE  Good
  <2> DEFINE r == [corrections[c] EXCEPT !.lapsed = TRUE]
  <2>1. r \in Correction /\ r.original = corrections[c].original
    BY Zenon, <1>3 DEF Correction
  <2>2. corrections' = [corrections EXCEPT ![c] = r] /\ Calm
    BY <1>6 DEF LapseCorrection
  <2> HIDE DEF r
  <2>. QED  BY Zenon, <1>5, <2>1, <2>2
<1>7. ASSUME NEW c \in DOMAIN corrections, NEW actor \in Actors,
             CancelCorrection(actor, c) \/ ExpireCorrection(actor, c)
      PROVE  Good
  <2>1. PICK s \in {"cancelled", "expired"} :
          corrections' = [corrections EXCEPT ![c].status = s] /\ Calm
    BY <1>7 DEF CancelCorrection, ExpireCorrection
  <2> DEFINE r == [corrections[c] EXCEPT !.status = s]
  <2>2. r \in Correction /\ r.original = corrections[c].original
    BY <1>3 DEF Correction
  <2>3. corrections' = [corrections EXCEPT ![c] = r]
    BY <2>1
  <2> HIDE DEF r
  <2>. QED  BY Zenon, <1>5, <2>1, <2>2, <2>3
<1>8. ASSUME NEW c \in DOMAIN corrections, NEW actor \in Actors,
             NEW d \in {"approved", "rejected"}, DecideCorrection(actor, c, d)
      PROVE  Good
  <2> DEFINE r == [corrections[c] EXCEPT !.status = "expired"]
             q == [corrections[c] EXCEPT !.status = d, !.approver = {actor}]
  <2>1. r \in Correction /\ r.original = corrections[c].original
    BY <1>3 DEF Correction
  <2>2. q \in Correction /\ q.original = corrections[c].original
    BY Zenon, <1>3 DEF Correction
  <2>3. \/ corrections' = [corrections EXCEPT ![c] = r]
        \/ corrections' = [corrections EXCEPT ![c] = q]
    BY <1>8 DEF DecideCorrection
  <2>4. Calm
    BY <1>8 DEF DecideCorrection
  <2> HIDE DEF r, q
  <2>. QED  BY <1>5, <2>1, <2>2, <2>3, <2>4
<1>9. ASSUME NEW c \in DOMAIN corrections, NEW actor \in Actors, PostCorrection(actor, c)
      PROVE  Good
  <2> DEFINE o == transfers[corrections[c].original]
             p == Pending(actor, NoKey, o.credit, o.debit, o.amount, now)
             t == [p EXCEPT !.status = "posted", !.corrects = corrections[c].original]
             r == [corrections[c] EXCEPT !.status = "posted", !.compensation = Len(transfers) + 1]
  <2>0. Len(transfers) + 1 \in Nat /\ now \in Nat
    BY DEF TypeOK, TransfersTypeOK
  <2>1. r \in Correction /\ r.original = corrections[c].original
    <3>1. corrections[c] \in Correction
      BY <1>3
    <3>. QED  BY ZenonT(60), <2>0, <3>1 DEF Correction
  <2>2. o \in Transfer /\ o.debit # o.credit /\ corrections[c].original \in Nat
    BY <1>3 DEF TypeOK, TransfersTypeOK
  <2>3. p \in PendingTransfer /\ p.debit = o.credit /\ p.credit = o.debit /\ p.amount = o.amount
    <3>1. o.debit \in Accounts /\ o.credit \in Accounts /\ o.amount \in Amounts
      BY <2>2 DEF Transfer
    <3> HIDE DEF o, t, r
    <3>. QED  BY <2>0, <3>1 DEF Pending, PendingTransfer
  <2> HIDE DEF p
  <2>4. t \in Transfer /\ t.debit = o.credit /\ t.credit = o.debit /\ t.amount = o.amount
    BY Zenon, <2>2, <2>3 DEF PendingTransfer, Transfer
  <2>5. /\ MoveMoney(<<"transfer", Len(transfers) + 1>>, t.debit, t.credit, t.amount, available)
        /\ transfers' = Append(transfers, t)
        /\ corrections' = [corrections EXCEPT ![c] = r]
        /\ UNCHANGED <<status, now, velocity, totals>>
    BY ZenonT(60), <1>9 DEF PostCorrection, p
  <2> HIDE DEF o, t, r
  <2>6. BalancesTypeOK'
    <3>1. t.debit \in AllAccounts /\ t.credit \in AllAccounts /\ t.amount \in Nat \ {0}
      BY <2>4, AmountsArePositive DEF Transfer, AllAccounts
    <3>2. <<"transfer", Len(transfers) + 1>> \in {"transfer", "funding"} \X Nat
      BY <2>0
    <3>3. available \in [AllAccounts -> Int] /\ BalancesTypeOK
      BY DEF TypeOK, BalancesTypeOK
    <3>. QED  BY <2>5, <3>1, <3>2, <3>3, MoveMoneyType
  <2>7. /\ transfers' \in Seq(Transfer)
        /\ \A i \in DOMAIN transfers' : transfers'[i].debit # transfers'[i].credit
        /\ DOMAIN transfers' = DOMAIN transfers \cup {Len(transfers) + 1}
    BY <2>2, <2>4, <2>5, RecordTransferType DEF TypeOK
  <2>8. TransfersTypeOK'
    BY <2>5, <2>7 DEF TypeOK, TransfersTypeOK
  <2>9. CorrectionsTypeOK'
    BY ZenonT(60), <1>2, <2>1, <2>5, <2>7
  <2>. QED  BY <2>6, <2>8, <2>9
<1> HIDE DEF Good
<1>10. Good
  BY <1>4, <1>6, <1>7, <1>8, <1>9 DEF CorrectionStep, CorrectionCommand
<1>11. ReservationsTypeOK' /\ FundingTypeOK' /\ lifecycle' \in [Accounts -> Nat]
  BY DEF TypeOK, ReservationsTypeOK, FundingTypeOK, CorrectionStep, holdVars
<1>. QED  BY <1>10, <1>11 DEF Good, TypeOK

\* A decision or a lapse keeps the type of a funding record.
LEMMA FundingEventUpdate ==
  ASSUME NEW e \in FundingEvent
  PROVE  /\ \A actor \in Actors, s \in {"approved", "rejected"} :
              [e EXCEPT !.status = s, !.approver = {actor}] \in FundingEvent
         /\ [e EXCEPT !.lapsed = TRUE] \in FundingEvent
BY Zenon DEF FundingEvent

\* The funding commands keep every type.
LEMMA FundingStepType ==
  ASSUME TypeOK, FundingStep
  PROVE  TypeOK'
<1> DEFINE Calm == UNCHANGED <<balanceVars, transferVars>>
           Good == BalancesTypeOK' /\ TransfersTypeOK' /\ FundingTypeOK' /\ transfers' = transfers
<1>1. ASSUME Calm
      PROVE  BalancesTypeOK' /\ TransfersTypeOK' /\ transfers' = transfers
  BY <1>1 DEF TypeOK, BalancesTypeOK, TransfersTypeOK, balanceVars, transferVars
<1>2. fundings \in Seq(FundingEvent)
  BY DEF TypeOK, FundingTypeOK
<1>3. \A f \in DOMAIN fundings : fundings[f] \in FundingEvent /\ f \in Nat \ {0}
  BY <1>2
<1>4. ASSUME NEW r \in FundingEvent, fundings' = Append(fundings, r), Calm
      PROVE  Good
  BY <1>1, <1>2, <1>4, SeqAppend DEF FundingTypeOK
<1>5. ASSUME NEW f \in DOMAIN fundings, NEW r \in FundingEvent,
             fundings' = [fundings EXCEPT ![f] = r], Calm
      PROVE  Good
  BY <1>1, <1>2, <1>5, SeqUpdate DEF FundingTypeOK
<1>6. ASSUME NEW actor \in Actors, NEW key \in RequestKeys, NEW x \in References,
             NEW a \in Accounts, NEW n \in Amounts, RequestFunding(actor, key, x, a, n)
      PROVE  Good
  <2>1. FundingRecord(actor, key, x, a, n, 0) \in FundingEvent
    BY DEF FundingRecord, FundingEvent
  <2>. QED  BY <1>4, <1>6, <2>1 DEF RequestFunding
<1>7. ASSUME NEW actor \in Actors, NEW key \in RequestKeys, NEW f \in DOMAIN fundings,
             RequestCompensation(actor, key, f)
      PROVE  Good
  <2> DEFINE a == fundings[f].destination
             n == fundings[f].amount
             x == <<"compensation", f>>
  <2>1. a \in Accounts /\ n \in Amounts
    BY <1>3 DEF FundingEvent
  <2>2. x \in References \cup ({"compensation"} \X Nat) /\ f \in Nat
    BY <1>3
  <2>3. fundings' = Append(fundings, FundingRecord(actor, key, x, a, n, f)) /\ Calm
    BY <1>7 DEF RequestCompensation
  <2> HIDE DEF a, n, x
  <2>4. FundingRecord(actor, key, x, a, n, f) \in FundingEvent
    BY <2>1, <2>2 DEF FundingRecord, FundingEvent
  <2>. QED  BY <1>4, <2>3, <2>4
<1>8. ASSUME NEW actor \in Actors, NEW f \in DOMAIN fundings,
             ApproveFunding(actor, f) \/ RejectFunding(actor, f)
      PROVE  Good
  <2>1. PICK s \in {"approved", "rejected"} :
          fundings' = [fundings EXCEPT ![f].status = s, ![f].approver = {actor}] /\ Calm
    BY Zenon, <1>8 DEF ApproveFunding, RejectFunding
  <2> DEFINE r == [fundings[f] EXCEPT !.status = s, !.approver = {actor}]
  <2>2. r \in FundingEvent
    BY Zenon, <1>3, FundingEventUpdate
  <2>3. fundings' = [fundings EXCEPT ![f] = r]
    BY Zenon, <2>1
  <2> HIDE DEF r
  <2>. QED  BY Zenon, <1>5, <2>1, <2>2, <2>3
<1>9. ASSUME NEW f \in DOMAIN fundings, LapseFunding(f)
      PROVE  Good
  <2> DEFINE r == [fundings[f] EXCEPT !.lapsed = TRUE]
  <2>1. r \in FundingEvent
    BY Zenon, <1>3, FundingEventUpdate
  <2>2. fundings' = [fundings EXCEPT ![f] = r] /\ Calm
    BY <1>9 DEF LapseFunding
  <2> HIDE DEF r
  <2>. QED  BY ZenonT(60), <1>5, <2>1, <2>2
<1>10. ASSUME NEW actor \in Actors, NEW f \in DOMAIN fundings, NEW at \in RequestTimes,
              PostFunding(actor, f, at)
       PROVE  Good
  <2> DEFINE new == fundings[f]
             debit == IF new.of = 0 THEN Clearing ELSE new.destination
             credit == IF new.of = 0 THEN new.destination ELSE Clearing
             posted == [new EXCEPT !.status = "posted", !.at = at]
  <2>1. new \in FundingEvent /\ f \in Nat
    BY <1>3
  <2>2. new.destination \in Accounts /\ new.amount \in Amounts
    BY <2>1 DEF FundingEvent
  <2>3. at \in Nat
    <3>1. MaxTime \in Nat
      BY TransfersAssumption
    <3>. QED  BY <3>1 DEF RequestTimes
  <2>4. posted \in FundingEvent
    <3> HIDE DEF new
    <3>. QED  BY ZenonT(60), <2>1, <2>3 DEF FundingEvent
  <2>5. \A g \in DOMAIN fundings : [fundings[g] EXCEPT !.status = "compensated"] \in FundingEvent
    BY <1>3 DEF FundingEvent
  <2>6. fundings' = [g \in DOMAIN fundings |->
           IF g = f THEN posted
           ELSE IF g = new.of THEN [fundings[g] EXCEPT !.status = "compensated"]
           ELSE fundings[g]]
    BY <1>10, Zenon DEF PostFunding
  <2>7. /\ MoveMoney(<<"funding", f>>, debit, credit, new.amount, available)
        /\ UNCHANGED <<status, transferVars>>
    BY <1>10 DEF PostFunding
  <2>8. FundingTypeOK'
    <3> HIDE DEF posted, new
    <3>1. \A g \in DOMAIN fundings : fundings'[g] \in FundingEvent
      BY <1>3, <2>4, <2>5, <2>6
    <3>2. DOMAIN fundings = 1..Len(fundings) /\ Len(fundings) \in Nat
      BY <1>2
    <3>3. fundings' \in [1..Len(fundings) -> FundingEvent]
      BY <2>6, <3>1, <3>2
    <3>. QED  BY <3>2, <3>3 DEF FundingTypeOK
  <2>9. BalancesTypeOK'
    <3>1. debit \in AllAccounts /\ credit \in AllAccounts /\ new.amount \in Nat \ {0}
      BY <2>2, AmountsArePositive DEF AllAccounts
    <3>2. <<"funding", f>> \in {"transfer", "funding"} \X Nat
      BY <2>1
    <3>3. available \in [AllAccounts -> Int] /\ BalancesTypeOK
      BY DEF TypeOK, BalancesTypeOK
    <3> HIDE DEF debit, credit, new
    <3>. QED  BY <2>7, <3>1, <3>2, <3>3, MoveMoneyType
  <2>10. TransfersTypeOK' /\ transfers' = transfers
    BY <2>7 DEF TypeOK, TransfersTypeOK, transferVars
  <2>. QED  BY <2>8, <2>9, <2>10
<1> HIDE DEF Good
<1>11. Good
  BY <1>6, <1>7, <1>8, <1>9, <1>10 DEF FundingStep, FundingCommand
<1>12. ReservationsTypeOK' /\ lifecycle' \in [Accounts -> Nat]
  BY DEF TypeOK, ReservationsTypeOK, FundingStep, holdVars
<1>13. CorrectionsTypeOK'
  BY <1>11 DEF Good, TypeOK, CorrectionsTypeOK, FundingStep
<1>. QED  BY <1>11, <1>12, <1>13 DEF Good, TypeOK

\* Lifecycle commands and the clock keep every type.
LEMMA AccountStepType ==
  ASSUME TypeOK, AccountStep \/ TickStep
  PROVE  TypeOK'
<1>1. CASE AccountStep
  <2>1. PICK a \in Accounts, new \in {"active", "frozen", "closed"} : UpdateAccount(a, new)
    BY <1>1 DEF AccountStep
  <2>2. status' \in [Accounts -> {"active", "frozen", "closed"}]
    BY <2>1 DEF UpdateAccount, TypeOK, BalancesTypeOK
  <2>3. lifecycle' \in [Accounts -> Nat]
    BY <2>1 DEF UpdateAccount, TypeOK
  <2>4. BalancesTypeOK' /\ TransfersTypeOK' /\ transfers' = transfers
    BY ZenonT(60), <2>1, <2>2 DEF UpdateAccount, TypeOK, BalancesTypeOK, TransfersTypeOK, moneyVars
  <2>5. ReservationsTypeOK' /\ CorrectionsTypeOK' /\ FundingTypeOK'
    BY ZenonT(60), <1>1, <2>4 DEF AccountStep, TypeOK, ReservationsTypeOK, CorrectionsTypeOK, FundingTypeOK, holdVars
  <2>. QED  BY <2>3, <2>4, <2>5 DEF TypeOK
<1>2. CASE TickStep
  <2>1. now' \in Nat
    BY <1>2 DEF TickStep, Tick, TypeOK, TransfersTypeOK
  <2>2. BalancesTypeOK' /\ TransfersTypeOK' /\ transfers' = transfers
    BY <1>2, <2>1 DEF TickStep, Tick, TypeOK, BalancesTypeOK, TransfersTypeOK, balanceVars
  <2>3. ReservationsTypeOK' /\ CorrectionsTypeOK' /\ FundingTypeOK' /\ lifecycle' \in [Accounts -> Nat]
    BY ZenonT(60), <1>2, <2>2 DEF TickStep, TypeOK, ReservationsTypeOK, CorrectionsTypeOK, FundingTypeOK, holdVars
  <2>. QED  BY <2>2, <2>3 DEF TypeOK
<1>. QED  BY <1>1, <1>2

\* The tables start with their types.
LEMMA TypeInit ==
  ASSUME Init
  PROVE  TypeOK
<1>1. BalancesTypeOK
  <2>1. \A a \in Accounts : BalanceEvent(a, 1, Opening[a], Opening[a]) \in OutboxEvent
    BY AccountsAssumption DEF BalanceEvent, OutboxEvent
  <2>2. events \subseteq OutboxEvent
    BY <2>1 DEF Init, BalancesInit, Imported
  <2>. QED  BY <2>2, AccountsAssumption DEF Init, BalancesInit, BalancesTypeOK, AllAccounts
<1>2. TransfersTypeOK
  BY DEF Init, TransfersInit, TransfersTypeOK
<1>3. ReservationsTypeOK
  BY DEF Init, ReservationsInit, ReservationsTypeOK
<1>4. CorrectionsTypeOK /\ FundingTypeOK /\ lifecycle \in [Accounts -> Nat]
  BY DEF Init, CorrectionsInit, CorrectionsTypeOK, FundingInit, FundingTypeOK
<1>. QED  BY <1>1, <1>2, <1>3, <1>4 DEF TypeOK

\* Every step keeps every type.
LEMMA TypeStep ==
  ASSUME TypeOK, [Next]_vars
  PROVE  TypeOK'
<1>1. CASE Next
  BY <1>1, TransferStepType, HoldStepType, ExpiryStepType, CorrectionStepType,
     FundingStepType, AccountStepType DEF Next
<1>2. CASE UNCHANGED vars
  <2>1. BalancesTypeOK' /\ TransfersTypeOK'
    BY <1>2 DEF vars, TypeOK, BalancesTypeOK, TransfersTypeOK, balanceVars, transferVars
  <2>2. /\ ReservationsTypeOK' /\ CorrectionsTypeOK' /\ FundingTypeOK'
        /\ lifecycle' \in [Accounts -> Nat]
    BY Zenon, <1>2 DEF vars, TypeOK, ReservationsTypeOK, CorrectionsTypeOK, FundingTypeOK,
                holdVars, transferVars
  <2>. QED  BY <2>1, <2>2 DEF TypeOK
<1>. QED  BY <1>1, <1>2

\* In every reachable state, for all constants, each table of the financial
\* core has its type: hold and transfer accounts exist and differ, amounts
\* are positive, every hold has its expiry job.
THEOREM TypeCorrect == Spec => []TypeOK
<1>1. Init => TypeOK
  BY TypeInit
<1>2. TypeOK /\ [Next]_vars => TypeOK'
  BY TypeStep
<1>. QED  BY <1>1, <1>2, PTL DEF Spec

=============================================================================
