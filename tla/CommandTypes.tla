---------------------------- MODULE CommandTypes -----------------------------
(*****************************************************************************)
(* The transfer and hold commands, and the expiry worker, keep every type,   *)
(* for any accounts, actors, amounts, limits and bounds.                     *)
(*****************************************************************************)
EXTENDS Ledger, SumProofs

\* Replacing an element of a sequence by another of its type.
LEMMA SeqUpdate ==
  ASSUME NEW R, NEW s \in Seq(R), NEW i \in DOMAIN s, NEW r \in R
  PROVE  /\ [s EXCEPT ![i] = r] \in Seq(R)
         /\ Len([s EXCEPT ![i] = r]) = Len(s)
         /\ DOMAIN [s EXCEPT ![i] = r] = DOMAIN s
OBVIOUS

\* Adding an element to a sequence.
LEMMA SeqAppend ==
  ASSUME NEW R, NEW s \in Seq(R), NEW r \in R
  PROVE  /\ Append(s, r) \in Seq(R)
         /\ Len(Append(s, r)) = Len(s) + 1
         /\ DOMAIN Append(s, r) = DOMAIN s \cup {Len(s) + 1}
         /\ \A i \in DOMAIN s : Append(s, r)[i] = s[i]
         /\ Append(s, r)[Len(s) + 1] = r
OBVIOUS

\* Every amount is a positive integer.
LEMMA AmountsArePositive ==
  \A n \in Amounts : n \in Nat \ {0} /\ n \in Int /\ n > 0
<1>1. Amounts \subseteq Nat \ {0}
  BY TransfersAssumption
<1>. QED  BY <1>1

\* MoveMoney keeps the types of the columns it writes.
LEMMA MoveMoneyType ==
  ASSUME BalancesTypeOK,
         NEW source \in {"transfer", "funding"} \X Nat,
         NEW debit \in AllAccounts, NEW credit \in AllAccounts, NEW n \in Nat \ {0},
         NEW av \in [AllAccounts -> Int],
         MoveMoney(source, debit, credit, n, av), status' = status
  PROVE  BalancesTypeOK'
<1> DEFINE le1 == [ledger EXCEPT ![debit] = @ - n, ![credit] = @ + n]
           av1 == [av EXCEPT ![debit] = @ - n, ![credit] = @ + n]
           ve1 == [version EXCEPT ![debit] = @ + 1, ![credit] = @ + 1]
<1>0. /\ ledger \in [AllAccounts -> Int] /\ version \in [AllAccounts -> Nat]
      /\ ledger[debit] \in Int /\ ledger[credit] \in Int
      /\ av[debit] \in Int /\ av[credit] \in Int
      /\ version[debit] \in Nat /\ version[credit] \in Nat /\ n \in Int
  BY DEF BalancesTypeOK
<1>1. le1 \in [AllAccounts -> Int] /\ av1 \in [AllAccounts -> Int]
  BY <1>0
<1>2. ve1 \in [AllAccounts -> Nat]
  BY <1>0
<1>3. [source |-> source, debit |-> debit, credit |-> credit, amount |-> n] \in JournalEntry
  BY DEF JournalEntry
<1>4. journal' \in Seq(JournalEntry)
  BY <1>3, SeqAppend DEF BalancesTypeOK, MoveMoney
<1> HIDE DEF le1, av1, ve1
<1>5. \A a \in Accounts : BalanceEvent(a, ve1[a], av1[a], le1[a]) \in OutboxEvent
  BY <1>1, <1>2 DEF BalanceEvent, OutboxEvent, AllAccounts
<1>6. events' \subseteq OutboxEvent
  BY ZenonT(60), <1>5 DEF BalancesTypeOK, MoveMoney, le1, av1, ve1
<1>. QED  BY Zenon, <1>1, <1>2, <1>4, <1>6 DEF BalancesTypeOK, MoveMoney, le1, av1, ve1

\* ShiftAvailable keeps the types of the columns it writes.
LEMMA ShiftAvailableType ==
  ASSUME BalancesTypeOK, NEW a \in Accounts, NEW delta \in Int,
         ShiftAvailable(a, delta), status' = status
  PROVE  BalancesTypeOK'
<1>1. a \in AllAccounts
  BY DEF AllAccounts
<1>2. HoldBalanceEvent(a, version[a] + 1, available[a] + delta, ledger[a]) \in OutboxEvent
  BY <1>1 DEF BalancesTypeOK, HoldBalanceEvent, OutboxEvent
<1>3. events' \subseteq OutboxEvent
  BY <1>2 DEF BalancesTypeOK, ShiftAvailable
<1>4. available' \in [AllAccounts -> Int] /\ version' \in [AllAccounts -> Nat]
  BY <1>1 DEF BalancesTypeOK, ShiftAvailable
<1>. QED  BY <1>3, <1>4 DEF BalancesTypeOK, ShiftAvailable

\* The velocity sums are integers.
LEMMA VelocitySumType ==
  ASSUME TransfersTypeOK, NEW S, NEW dim
  PROVE  VelocitySum(S, dim) \in Int
<1>1. Len(transfers) \in Nat /\ DOMAIN transfers = 1..Len(transfers)
  BY DEF TransfersTypeOK
<1>2. \A i \in 1..Len(transfers) : transfers[i] \in Transfer
  BY <1>1 DEF TransfersTypeOK
<1>3. \A t \in Transfer : t.amount \in Amounts
  BY DEF Transfer
<1>4. \A i \in 1..Len(transfers) : transfers[i].amount \in Int
  BY <1>2, <1>3, AmountsArePositive
<1>5. \A i \in 1..Len(transfers) : VelocityWeights(S, dim)[i] \in Int
  BY <1>1, <1>4 DEF VelocityWeights
<1>. QED  BY <1>1, <1>5, SumType DEF VelocitySum

\* Pruning expired velocity events leaves an integer total in every dimension.
LEMMA PrunedTotalsType ==
  ASSUME TransfersTypeOK, NEW at
  PROVE  PrunedTotals(at) \in [Dimensions -> Int]
BY VelocitySumType DEF PrunedTotals, TransfersTypeOK

\* A transfer a command has accepted and not yet settled.
PendingTransfer ==
  [actor : Actors, key : Keys \cup {NoKey} \cup ({"hold-capture"} \X Nat),
   debit : Accounts, credit : Accounts, amount : Amounts, at : Nat,
   status : {"pending"}, corrects : Nat]

\* A request whose status becomes posted or rejected is a row of the transfers table.
LEMMA SettledTransferType ==
  ASSUME NEW t \in PendingTransfer, NEW s \in {"posted", "rejected"}
  PROVE  /\ [t EXCEPT !.status = s] \in Transfer
         /\ [t EXCEPT !.status = s].debit = t.debit
         /\ [t EXCEPT !.status = s].credit = t.credit
         /\ t.debit \in Accounts /\ t.credit \in Accounts /\ t.amount \in Amounts
         /\ t.at \in Nat
BY DEF PendingTransfer, Transfer

\* Appending such a row keeps the transfers table typed, and every velocity
\* event that referred to a transfer still does.
LEMMA RecordTransferType ==
  ASSUME TransfersTypeOK, NEW t \in Transfer, t.debit # t.credit,
         transfers' = Append(transfers, t)
  PROVE  /\ transfers' \in Seq(Transfer)
         /\ \A i \in DOMAIN transfers' : transfers'[i].debit # transfers'[i].credit
         /\ DOMAIN transfers' = DOMAIN transfers \cup {Len(transfers) + 1}
         /\ Len(transfers) \in Nat
BY SeqAppend DEF TransfersTypeOK

\* The posted path of a transfer keeps balances and transfer tables typed.
LEMMA PostTransferType ==
  ASSUME BalancesTypeOK, TransfersTypeOK, NEW t \in PendingTransfer, t.debit # t.credit,
         NEW av \in [AllAccounts -> Int],
         PostTransfer(t, av), UNCHANGED <<status, now>>
  PROVE  /\ BalancesTypeOK' /\ TransfersTypeOK'
         /\ DOMAIN transfers' = DOMAIN transfers \cup {Len(transfers) + 1}
<1> DEFINE new == [t EXCEPT !.status = "posted"]
<1>1. new \in Transfer /\ new.debit # new.credit
  BY Zenon, SettledTransferType
<1>2. transfers' = Append(transfers, new)
  BY DEF PostTransfer, Conclude
<1> HIDE DEF new
<1>3. /\ transfers' \in Seq(Transfer)
      /\ \A i \in DOMAIN transfers' : transfers'[i].debit # transfers'[i].credit
      /\ DOMAIN transfers' = DOMAIN transfers \cup {Len(transfers) + 1}
      /\ Len(transfers) \in Nat
  BY <1>1, <1>2, RecordTransferType
<1>4. BalancesTypeOK'
  <2>1. /\ t.debit \in AllAccounts /\ t.credit \in AllAccounts
        /\ t.amount \in Nat \ {0} /\ t.at \in Nat
    BY Zenon, SettledTransferType, AmountsArePositive DEF AllAccounts
  <2>2. MoveMoney(<<"transfer", Len(transfers) + 1>>, t.debit, t.credit, t.amount, av)
    BY DEF PostTransfer
  <2>3. <<"transfer", Len(transfers) + 1>> \in {"transfer", "funding"} \X Nat
    BY <1>3
  <2>. QED  BY <2>1, <2>2, <2>3, MoveMoneyType
<1>5. velocity' \subseteq DOMAIN transfers'
  BY <1>3 DEF PostTransfer, LiveVelocity, TransfersTypeOK
<1>6. totals' \in [Dimensions -> Int]
  <2>1. PrunedTotals(t.at) \in [Dimensions -> Int]
    BY PrunedTotalsType
  <2>2. t.amount \in Int
    BY Zenon, SettledTransferType, AmountsArePositive
  <2>. QED  BY <2>1, <2>2 DEF PostTransfer
<1>. QED  BY <1>3, <1>4, <1>5, <1>6 DEF TransfersTypeOK

\* So does the insufficient-funds path, which moves no money.
LEMMA RejectTransferType ==
  ASSUME TransfersTypeOK, NEW t \in PendingTransfer, t.debit # t.credit,
         RejectTransfer(t), now' = now
  PROVE  /\ TransfersTypeOK'
         /\ DOMAIN transfers' = DOMAIN transfers \cup {Len(transfers) + 1}
<1> DEFINE new == [t EXCEPT !.status = "rejected"]
<1>1. new \in Transfer /\ new.debit # new.credit
  BY Zenon, SettledTransferType
<1>2. transfers' = Append(transfers, new)
  BY DEF RejectTransfer, Conclude
<1> HIDE DEF new
<1>3. /\ transfers' \in Seq(Transfer)
      /\ \A i \in DOMAIN transfers' : transfers'[i].debit # transfers'[i].credit
      /\ DOMAIN transfers' = DOMAIN transfers \cup {Len(transfers) + 1}
  BY <1>1, <1>2, RecordTransferType
<1>4. velocity' \subseteq DOMAIN transfers'
  BY <1>3 DEF RejectTransfer, LiveVelocity, TransfersTypeOK
<1>5. totals' \in [Dimensions -> Int]
  BY PrunedTotalsType DEF RejectTransfer
<1>. QED  BY <1>3, <1>4, <1>5 DEF TransfersTypeOK

\* What a client asks for has the fields of a transfer that is still pending.
LEMMA PendingType ==
  ASSUME NEW actor \in Actors, NEW key \in Keys \cup {NoKey} \cup ({"hold-capture"} \X Nat),
         NEW debit \in Accounts, NEW credit \in Accounts, NEW amount \in Amounts, NEW at \in Nat
  PROVE  /\ Pending(actor, key, debit, credit, amount, at) \in PendingTransfer
         /\ Pending(actor, key, debit, credit, amount, at).debit = debit
         /\ Pending(actor, key, debit, credit, amount, at).credit = credit
         /\ Pending(actor, key, debit, credit, amount, at).amount = amount
BY DEF Pending, PendingTransfer

\* Every request the API can submit is such a pending transfer.
LEMMA RequestsType ==
  \A t \in Requests : t \in PendingTransfer
<1>1. SUFFICES ASSUME NEW t \in Requests PROVE t \in PendingTransfer
  OBVIOUS
<1>2. PICK actor \in Actors, key \in Keys, debit \in Accounts, credit \in Accounts,
           amount \in Amounts, at \in RequestTimes :
             t = Pending(actor, key, debit, credit, amount, at)
  BY <1>1 DEF Requests
<1>3. at \in Nat
  <2>1. MaxTime \in Nat
    BY TransfersAssumption
  <2>. QED  BY <1>2, <2>1 DEF RequestTimes
<1>. QED  BY <1>2, <1>3, PendingType

\* Submitting or replaying a transfer keeps every table typed.
LEMMA TransferStepType ==
  ASSUME TypeOK, TransferStep
  PROVE  TypeOK'
<1>1. PICK t \in Requests : SubmitTransfer(t) \/ ReplayTransfer(t)
  BY DEF TransferStep
<1>2. t \in PendingTransfer
  BY RequestsType
<1>3. BalancesTypeOK' /\ TransfersTypeOK' /\ DOMAIN transfers \subseteq DOMAIN transfers'
  <2>1. CASE SubmitTransfer(t)
    <3>1. t.debit # t.credit
      BY <2>1 DEF SubmitTransfer, PolicyAdmits
    <3>2. CASE PostTransfer(t, available)
      BY <1>2, <2>1, <3>1, <3>2, PostTransferType
         DEF TypeOK, BalancesTypeOK, SubmitTransfer
    <3>3. CASE RejectTransfer(t)
      <4>1. TransfersTypeOK' /\ DOMAIN transfers \subseteq DOMAIN transfers'
        BY <1>2, <2>1, <3>1, <3>3, RejectTransferType DEF TypeOK, SubmitTransfer
      <4>2. BalancesTypeOK'
        BY SMTT(30), <2>1, <3>3 DEF TypeOK, BalancesTypeOK, SubmitTransfer, RejectTransfer
      <4>. QED  BY <4>1, <4>2
    <3>. QED  BY <2>1, <3>2, <3>3 DEF SubmitTransfer
  <2>2. CASE ReplayTransfer(t)
    BY SMTT(30), <2>2 DEF TypeOK, BalancesTypeOK, TransfersTypeOK, ReplayTransfer, balanceVars
  <2>. QED  BY <1>1, <2>1, <2>2
<1>4. ReservationsTypeOK' /\ FundingTypeOK' /\ lifecycle' \in [Accounts -> Nat]
  BY DEF TypeOK, ReservationsTypeOK, FundingTypeOK, TransferStep, holdVars
<1>5. CorrectionsTypeOK'
  BY <1>3 DEF TypeOK, CorrectionsTypeOK, TransferStep
<1>. QED  BY <1>3, <1>4, <1>5 DEF TypeOK

\* The tables a hold or expiry step leaves alone keep their types.
LEMMA RestType ==
  ASSUME TypeOK, UNCHANGED <<corrections, fundings, lifecycle>>,
         DOMAIN transfers \subseteq DOMAIN transfers'
  PROVE  CorrectionsTypeOK' /\ FundingTypeOK' /\ lifecycle' \in [Accounts -> Nat]
BY DEF TypeOK, CorrectionsTypeOK, FundingTypeOK

\* A stored hold and its job, field by field.
LEMMA HoldRowFields ==
  ASSUME ReservationsTypeOK, NEW h \in DOMAIN holds
  PROVE  /\ holds[h] \in HoldRow /\ jobs[h] \in ExpiryJob
         /\ h \in DOMAIN jobs /\ h \in Nat \ {0}
         /\ holds[h].debit \in Accounts /\ holds[h].credit \in Accounts
         /\ holds[h].debit # holds[h].credit
         /\ holds[h].amount \in Amounts /\ holds[h].amount \in Int
<1>1. holds[h] \in HoldRow /\ h \in Nat \ {0} /\ h \in DOMAIN jobs
  BY DEF ReservationsTypeOK
<1>2. jobs[h] \in ExpiryJob
  BY <1>1 DEF ReservationsTypeOK
<1>3. \A r \in HoldRow : r.debit \in Accounts /\ r.credit \in Accounts /\ r.amount \in Amounts
  BY DEF HoldRow
<1>. QED  BY <1>1, <1>2, <1>3, AmountsArePositive DEF ReservationsTypeOK

\* Replacing a hold by one with the same accounts, and a job by another.
LEMMA HoldUpdateType ==
  ASSUME ReservationsTypeOK, NEW h \in DOMAIN holds,
         NEW r \in HoldRow, r.debit = holds[h].debit, r.credit = holds[h].credit,
         NEW j \in ExpiryJob,
         holds' = [holds EXCEPT ![h] = r], jobs' = [jobs EXCEPT ![h] = j]
  PROVE  ReservationsTypeOK'
<1>1. h \in DOMAIN jobs
  BY HoldRowFields
<1>2. holds' \in Seq(HoldRow) /\ Len(holds') = Len(holds) /\ DOMAIN holds' = DOMAIN holds
  BY SeqUpdate DEF ReservationsTypeOK
<1>3. jobs' \in Seq(ExpiryJob) /\ Len(jobs') = Len(jobs)
  BY <1>1, SeqUpdate DEF ReservationsTypeOK
<1>4. \A g \in DOMAIN holds' : holds'[g].debit # holds'[g].credit
  BY <1>2 DEF ReservationsTypeOK
<1>. QED  BY <1>2, <1>3, <1>4 DEF ReservationsTypeOK

\* Ending a hold keeps its row typed and marks its expiry job done.
LEMMA FinishType ==
  ASSUME ReservationsTypeOK, NEW h \in DOMAIN holds,
         NEW s \in {"released", "captured", "expired"}, NEW k \in Nat, Finish(h, s, k)
  PROVE  ReservationsTypeOK'
<1> DEFINE r == [holds[h] EXCEPT !.state = s, !.transfer = k]
           j == [jobs[h] EXCEPT !.done = TRUE]
<1>1. holds[h] \in HoldRow /\ jobs[h] \in ExpiryJob
  BY HoldRowFields
<1>2. r \in HoldRow /\ r.debit = holds[h].debit /\ r.credit = holds[h].credit
  BY Zenon, <1>1 DEF HoldRow
<1>3. j \in ExpiryJob
  BY Zenon, <1>1 DEF ExpiryJob
<1>4. holds' = [holds EXCEPT ![h] = r] /\ jobs' = [jobs EXCEPT ![h] = j]
  BY Zenon DEF Finish
<1> HIDE DEF r, j
<1>. QED  BY Zenon, <1>2, <1>3, <1>4, HoldUpdateType

\* Creating a hold adds one typed hold and one typed expiry job.
LEMMA CreateHoldType ==
  ASSUME TypeOK, NEW actor, NEW key, NEW d \in Accounts, NEW c \in Accounts, NEW n \in Amounts,
         CreateHold(actor, key, d, c, n)
  PROVE  BalancesTypeOK' /\ TransfersTypeOK' /\ ReservationsTypeOK' /\ transfers' = transfers
<1> DEFINE r == [debit |-> d, credit |-> c, amount |-> n,
                 state |-> "active", due |-> FALSE, transfer |-> 0]
           j == [owner |-> "nobody", generation |-> 0, lease |-> "none", done |-> FALSE]
<1>1. r \in HoldRow /\ r.debit # r.credit
  BY DEF HoldRow, CreateHold
<1>2. j \in ExpiryJob
  BY SMTT(30) DEF ExpiryJob
<1>3. holds' = Append(holds, r) /\ jobs' = Append(jobs, j)
  BY DEF CreateHold
<1> HIDE DEF r, j
<1>4. ReservationsTypeOK'
  BY <1>1, <1>2, <1>3, SeqAppend DEF TypeOK, ReservationsTypeOK
<1>5. 0 - n \in Int
  BY AmountsArePositive
<1>6. BalancesTypeOK'
  BY <1>5, ShiftAvailableType DEF TypeOK, CreateHold
<1>7. TransfersTypeOK' /\ transfers' = transfers
  BY DEF TypeOK, TransfersTypeOK, CreateHold, transferVars
<1>. QED  BY <1>4, <1>6, <1>7

\* Giving a hold back (release or expiry) keeps the tables typed.
LEMMA ReturnHoldType ==
  ASSUME TypeOK, NEW h \in DOMAIN holds, NEW s \in {"released", "expired"},
         ShiftAvailable(holds[h].debit, holds[h].amount), Finish(h, s, 0),
         UNCHANGED <<status, transferVars>>
  PROVE  BalancesTypeOK' /\ TransfersTypeOK' /\ ReservationsTypeOK' /\ transfers' = transfers
<1>1. holds[h].debit \in Accounts /\ holds[h].amount \in Int
  BY HoldRowFields DEF TypeOK
<1>2. BalancesTypeOK'
  BY <1>1, ShiftAvailableType DEF TypeOK
<1>3. ReservationsTypeOK'
  BY FinishType DEF TypeOK
<1>4. TransfersTypeOK' /\ transfers' = transfers
  BY DEF TypeOK, TransfersTypeOK, transferVars
<1>. QED  BY <1>2, <1>3, <1>4

\* The transfer of a capture and the column it runs on.
LEMMA CaptureOfType ==
  ASSUME TypeOK, NEW actor \in Actors, NEW h \in DOMAIN holds
  PROVE  /\ CaptureOf(actor, h) \in PendingTransfer
         /\ CaptureOf(actor, h).debit = holds[h].debit
         /\ CaptureOf(actor, h).credit = holds[h].credit
         /\ CaptureOf(actor, h).amount = holds[h].amount
         /\ PrivatelyReleased(h) \in [AllAccounts -> Int]
<1>1. /\ holds[h].debit \in Accounts /\ holds[h].credit \in Accounts
      /\ holds[h].amount \in Amounts /\ holds[h].amount \in Int /\ h \in Nat
  BY HoldRowFields DEF TypeOK
<1>2. CaptureKey(h) \in {"hold-capture"} \X Nat
  BY <1>1 DEF CaptureKey
<1>3. now \in Nat
  BY DEF TypeOK, TransfersTypeOK
<1>4. PrivatelyReleased(h) \in [AllAccounts -> Int]
  BY <1>1 DEF PrivatelyReleased, TypeOK, BalancesTypeOK, AllAccounts
<1>. QED  BY <1>1, <1>2, <1>3, <1>4, PendingType DEF CaptureOf

\* Capturing a hold posts a typed transfer and ends the hold.
LEMMA CaptureHoldType ==
  ASSUME TypeOK, NEW actor \in Actors, NEW key, NEW h \in DOMAIN holds,
         CaptureHold(actor, key, h)
  PROVE  /\ BalancesTypeOK' /\ TransfersTypeOK' /\ ReservationsTypeOK'
         /\ DOMAIN transfers \subseteq DOMAIN transfers'
<1>1. /\ CaptureOf(actor, h) \in PendingTransfer
      /\ CaptureOf(actor, h).debit # CaptureOf(actor, h).credit
      /\ PrivatelyReleased(h) \in [AllAccounts -> Int]
  BY CaptureOfType, HoldRowFields DEF TypeOK
<1>2. /\ BalancesTypeOK' /\ TransfersTypeOK'
      /\ DOMAIN transfers' = DOMAIN transfers \cup {Len(transfers) + 1}
  BY ZenonT(60), <1>1, PostTransferType DEF TypeOK, CaptureHold
<1>3. Len(transfers) + 1 \in Nat
  BY DEF TypeOK, TransfersTypeOK
<1>4. ReservationsTypeOK'
  BY <1>3, FinishType DEF TypeOK, CaptureHold
<1>. QED  BY <1>2, <1>4

\* Every hold command keeps every table typed.
LEMMA HoldStepType ==
  ASSUME TypeOK, HoldStep
  PROVE  TypeOK'
<1> DEFINE Good == /\ BalancesTypeOK' /\ TransfersTypeOK' /\ ReservationsTypeOK'
                   /\ DOMAIN transfers \subseteq DOMAIN transfers'
<1>1. ASSUME NEW actor \in Actors, NEW key \in HoldKeys,
             NEW d \in Accounts, NEW c \in Accounts, NEW n \in Amounts,
             CreateHold(actor, key, d, c, n)
      PROVE  Good
  BY <1>1, CreateHoldType
<1>2. ASSUME NEW actor \in Actors, NEW key \in HoldKeys, NEW h \in DOMAIN holds,
             ReleaseHold(actor, key, h)
      PROVE  Good
  BY SMTT(30), <1>2, ReturnHoldType DEF ReleaseHold
<1>3. ASSUME NEW actor \in Actors, NEW key \in HoldKeys, NEW h \in DOMAIN holds,
             CaptureHold(actor, key, h)
      PROVE  Good
  BY <1>3, CaptureHoldType
<1>4. ASSUME NEW actor \in Actors, NEW key \in HoldKeys, NEW h \in DOMAIN holds,
             DenyCapture(actor, key, h)
      PROVE  Good
  BY ZenonT(60), <1>4 DEF DenyCapture, TypeOK, BalancesTypeOK, TransfersTypeOK, ReservationsTypeOK,
              balanceVars, transferVars
<1> HIDE DEF Good
<1>5. Good
  BY <1>1, <1>2, <1>3, <1>4 DEF HoldStep, HoldCommand
<1>. QED  BY <1>5, RestType DEF Good, TypeOK, HoldStep

\* The expiry queue keeps every type.
LEMMA ExpiryStepType ==
  ASSUME TypeOK, ExpiryStep
  PROVE  TypeOK'
<1> DEFINE Good == BalancesTypeOK' /\ TransfersTypeOK' /\ ReservationsTypeOK' /\ transfers' = transfers
<1>0. ASSUME UNCHANGED <<balanceVars, transferVars>>
      PROVE  BalancesTypeOK' /\ TransfersTypeOK' /\ transfers' = transfers
  BY SMTT(30), <1>0 DEF TypeOK, BalancesTypeOK, TransfersTypeOK, balanceVars, transferVars
<1>1. PICK h \in DOMAIN holds :
        \/ BecomeDue(h)
        \/ LapseLease(h)
        \/ \E w \in Workers :
             \/ ClaimExpiry(w, h)
             \/ \E g \in 1..jobs[h].generation :
                  ExpireHold(w, h, g) \/ SkipExpiry(w, h, g) \/ LoseClaim(w, h, g)
  BY DEF ExpiryStep, HoldExpiry
<1>2. holds[h] \in HoldRow /\ jobs[h] \in ExpiryJob /\ h \in DOMAIN jobs
  BY HoldRowFields DEF TypeOK
<1>3. ASSUME BecomeDue(h)
      PROVE  Good
  <2> DEFINE r == [holds[h] EXCEPT !.due = TRUE]
  <2>1. r \in HoldRow /\ r.debit = holds[h].debit /\ r.credit = holds[h].credit
    BY Zenon, <1>2 DEF HoldRow
  <2>2. holds' = [holds EXCEPT ![h] = r] /\ jobs' = [jobs EXCEPT ![h] = jobs[h]]
    BY <1>2, <1>3 DEF BecomeDue, TypeOK, ReservationsTypeOK
  <2> HIDE DEF r
  <2>3. ReservationsTypeOK'
    BY ZenonT(60), <1>2, <2>1, <2>2, HoldUpdateType DEF TypeOK
  <2>. QED  BY <1>0, <1>3, <2>3 DEF BecomeDue
<1>4. ASSUME NEW j \in ExpiryJob, jobs' = [jobs EXCEPT ![h] = j], holds' = holds,
             UNCHANGED <<balanceVars, transferVars>>
      PROVE  Good
  <2>1. holds' = [holds EXCEPT ![h] = holds[h]]
    BY <1>4 DEF TypeOK, ReservationsTypeOK
  <2>2. ReservationsTypeOK'
    BY Zenon, <1>2, <1>4, <2>1, HoldUpdateType DEF TypeOK
  <2>. QED  BY <1>0, <1>4, <2>2
<1>5. ASSUME LapseLease(h)
      PROVE  Good
  <2> DEFINE j == [jobs[h] EXCEPT !.lease = "lapsed"]
  <2>1. j \in ExpiryJob
    BY <1>2 DEF ExpiryJob
  <2>2. jobs' = [jobs EXCEPT ![h] = j]
    BY <1>5 DEF LapseLease
  <2> HIDE DEF j
  <2>. QED  BY Zenon, <1>4, <1>5, <2>1, <2>2 DEF LapseLease
<1>6. ASSUME NEW w \in Workers, ClaimExpiry(w, h)
      PROVE  Good
  <2> DEFINE j == [jobs[h] EXCEPT !.owner = w, !.generation = @ + 1, !.lease = "live"]
  <2>0. jobs[h].generation + 1 \in Nat /\ w \in Workers \cup {"nobody"}
    <3>1. jobs[h].generation \in Nat
      BY <1>2 DEF ExpiryJob
    <3>. QED  BY <3>1
  <2>1. j \in ExpiryJob
    BY Zenon, <1>2, <2>0 DEF ExpiryJob
  <2>2. jobs' = [jobs EXCEPT ![h] = j]
    BY ZenonT(60), <1>6 DEF ClaimExpiry
  <2> HIDE DEF j
  <2>. QED  BY Zenon, <1>4, <1>6, <2>1, <2>2 DEF ClaimExpiry
<1>7. ASSUME NEW w \in Workers, NEW g \in 1..jobs[h].generation, ExpireHold(w, h, g)
      PROVE  Good
  BY SMTT(30), <1>7, ReturnHoldType DEF ExpireHold
<1>8. ASSUME NEW w \in Workers, NEW g \in 1..jobs[h].generation,
             SkipExpiry(w, h, g) \/ LoseClaim(w, h, g)
      PROVE  Good
  BY <1>0, <1>8 DEF SkipExpiry, LoseClaim, TypeOK, ReservationsTypeOK
<1>9. CASE BecomeDue(h) \/ LapseLease(h)
  BY <1>3, <1>5, <1>9, RestType DEF TypeOK, ExpiryStep
<1> HIDE DEF Good
<1>10. CASE \E w \in Workers :
             \/ ClaimExpiry(w, h)
             \/ \E g \in 1..jobs[h].generation :
                  ExpireHold(w, h, g) \/ SkipExpiry(w, h, g) \/ LoseClaim(w, h, g)
  <2>1. Good
    BY <1>6, <1>7, <1>8, <1>10
  <2>. QED  BY <2>1, RestType DEF Good, TypeOK, ExpiryStep
<1>. QED  BY <1>1, <1>9, <1>10

=============================================================================
