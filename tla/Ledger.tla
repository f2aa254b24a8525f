------------------------------- MODULE Ledger -------------------------------
(***************************************************************************)
(* The financial core of one tenant: transfers, reservations, corrections, *)
(* funding and the account lifecycle over one set of balances.             *)
(***************************************************************************)
EXTENDS Reservations, Funding

CONSTANT
  MaxLifecycle  \* bound: lifecycle commands per account

ASSUME LedgerAssumption == MaxLifecycle \in Nat

VARIABLES
  lifecycle  \* accounts.version less one: lifecycle commands so far

vars == <<balanceVars, transferVars, holdVars, corrections, fundings, lifecycle>>

Init ==
  /\ BalancesInit
  /\ TransfersInit
  /\ ReservationsInit
  /\ CorrectionsInit
  /\ FundingInit
  /\ lifecycle = [a \in Accounts |-> 0]

-----------------------------------------------------------------------------
\* Mutant: only the debit side of a hold keeps an account open.
HasReservationAsDebtor(a) == \E h \in ActiveHolds : a = holds[h].debit

\* Either side of a reservation keeps an account from closing, and so do the
\* other obligations; a pending transfer never outlives its command.
HasReservation(a) == \E h \in ActiveHolds : a \in {holds[h].debit, holds[h].credit}
HasObligations(a) ==
  \/ HasReservation(a)
  \/ \E f \in DOMAIN fundings : fundings[f].status \in Unresolved /\ fundings[f].destination = a
  \/ \E c \in DOMAIN corrections :
       /\ corrections[c].status \in Unresolved
       /\ a \in {transfers[corrections[c].original].debit, transfers[corrections[c].original].credit}

\* Freeze, reactivate, close, or edit the metadata (the status stays).  The
\* expected version is the current one, or the command changes nothing.
UpdateAccount(a, new) ==
  /\ lifecycle[a] < MaxLifecycle
  /\ \E actor \in Operators : <<actor, a>> \in CanDebit
  /\ status[a] # "closed"
  /\ new = "closed" =>
       /\ ~HasObligations(a)
       /\ Authoritative(a) = 0 /\ ledger[a] = 0 /\ available[a] = 0
  /\ status' = [status EXCEPT ![a] = new]
  /\ lifecycle' = [lifecycle EXCEPT ![a] = @ + 1]
  /\ notices' = notices \cup {<<"account", a, lifecycle[a] + 1>>}
  /\ UNCHANGED <<moneyVars, now, transfers, idempotency, answers, velocity, totals>>

TransferStep ==
  /\ \E t \in Requests : SubmitTransfer(t) \/ ReplayTransfer(t)
  /\ UNCHANGED <<holdVars, corrections, fundings, lifecycle>>

TickStep == Tick /\ UNCHANGED <<holdVars, corrections, fundings, lifecycle>>
HoldStep == HoldCommand /\ UNCHANGED <<corrections, fundings, lifecycle>>
ExpiryStep == HoldExpiry /\ UNCHANGED <<corrections, fundings, lifecycle>>
CorrectionStep == CorrectionCommand /\ UNCHANGED <<holdVars, fundings, lifecycle>>
FundingStep == FundingCommand /\ UNCHANGED <<holdVars, corrections, lifecycle>>

AccountStep ==
  /\ \E a \in Accounts, new \in {"active", "frozen", "closed"} : UpdateAccount(a, new)
  /\ UNCHANGED <<holdVars, corrections, fundings>>

Next ==
  \/ TransferStep \/ TickStep \/ HoldStep \/ ExpiryStep
  \/ CorrectionStep \/ FundingStep \/ AccountStep

Spec == Init /\ [][Next]_vars

\* The reservation worker polls for ever and finishes what it claimed, but for
\* the faults the model allows; and leases lapse because time passes.
ServeExpiry(h) ==
  /\ h \in DOMAIN holds
  /\ \E w \in Workers :
       \/ ClaimExpiry(w, h)
       \/ \E g \in 1..jobs[h].generation : ExpireHold(w, h, g) \/ SkipExpiry(w, h, g)
  /\ UNCHANGED <<corrections, fundings, lifecycle>>
LeaseTime(h) ==
  h \in DOMAIN holds /\ LapseLease(h) /\ UNCHANGED <<corrections, fundings, lifecycle>>

LiveSpec == Spec /\ \A h \in 1..MaxHolds : WF_vars(ServeExpiry(h)) /\ WF_vars(LeaseTime(h))

-----------------------------------------------------------------------------
\* Every table has its type.
TypeOK ==
  /\ BalancesTypeOK /\ TransfersTypeOK /\ ReservationsTypeOK
  /\ CorrectionsTypeOK /\ FundingTypeOK
  /\ lifecycle \in [Accounts -> Nat]

\* The amount reserved on an account.
HoldWeights(a) ==
  [h \in DOMAIN holds |->
     IF holds[h].debit = a /\ holds[h].state = "active" THEN holds[h].amount ELSE 0]
Reserved(a) == SumTo(HoldWeights(a), Len(holds))

\* Reserved money is set aside once and given back once: whatever mixture of
\* transfers, captures, releases, expiries, corrections and funding has run,
\* available is the ledger balance less the active holds.
AvailableIsLedgerLessHolds ==
  \A a \in Accounts : available[a] = ledger[a] - Reserved(a)

\* No customer account is overdrawn, and no spending touches reserved money.
NoOverdraft ==
  \A a \in Accounts : available[a] >= 0 /\ ledger[a] >= Reserved(a)

\* A capture never fails for want of money: the balance under an active hold
\* covers it for as long as it is active.
HeldFundsCoverCapture ==
  \A h \in ActiveHolds : Covers(holds[h].debit, holds[h].amount, PrivatelyReleased(h))

\* A captured hold owns the transfer that captured it: it has the hold's
\* accounts and amount, no other hold shares it, and it answers to the
\* capture key of that hold even if a client used that key before.
CapturesOwnTheirTransfers ==
  \A h \in DOMAIN holds :
    IF holds[h].state = "captured"
    THEN LET t == transfers[holds[h].transfer] IN
         /\ t.status = "posted" /\ t.key = CaptureKey(h)
         /\ Intent(t) = <<holds[h].debit, holds[h].credit, holds[h].amount>>
         /\ \A g \in DOMAIN holds : holds[g].transfer = holds[h].transfer => g = h
    ELSE holds[h].transfer = 0

\* What a stored hold command says stays true: a hold is terminal exactly when
\* its queue job is done, a release or capture response names the hold's final
\* state and is the only one that does, and a capture refused for expiry is
\* never followed by a capture.
CommandsTellTheTruth ==
  \A h \in DOMAIN holds :
    LET told == {r \in holdCommands : r.hold = h} IN
    /\ jobs[h].done <=> holds[h].state # "active"
    /\ \A r \in told : r.outcome \in {"released", "captured"} => holds[h].state = r.outcome
    /\ Cardinality({r \in told : r.outcome \in {"released", "captured"}}) =
         (IF holds[h].state \in {"released", "captured"} THEN 1 ELSE 0)
    /\ Cardinality({r \in told : r.op = "create"}) = 1
    /\ \A r \in told : r.outcome = "expired_capture" => holds[h].due /\ holds[h].state # "captured"

Promise == INSTANCE AbstractLedger WITH
  Quantities <- Amounts, posted <- ledger, held <- [a \in Accounts |-> ledger[a] - available[a]]

\* The financial core implements AbstractLedger: posted money is the ledger
\* column and held money is what the ledger column exceeds available by.
KeepsItsPromise == Promise!Spec

\* Reserved money is not locked up for ever: once a hold is due it is released,
\* captured or expired, although workers crash and lose their leases.
DueHoldsSettle ==
  \A h \in 1..MaxHolds :
    (h \in DOMAIN holds /\ holds[h].due) ~> (h \in DOMAIN holds /\ holds[h].state # "active")

\* A closed account is empty and stays so whatever was in flight when it
\* closed: no hold touches it and no funding event can still credit it.  (A
\* compensation of earlier funding may be requested after the closure, but
\* it would debit the empty account and cannot post.)
ClosedAccountsAreEmpty ==
  \A a \in Accounts : status[a] = "closed" =>
    /\ ledger[a] = 0 /\ available[a] = 0
    /\ \A h \in ActiveHolds : a \notin {holds[h].debit, holds[h].credit}
    /\ \A f \in DOMAIN fundings :
         fundings[f].destination = a /\ fundings[f].of = 0 => fundings[f].status \notin Unresolved

\* Closing is for ever and nothing moves money through a closed account.
ClosedAccountsStayQuiet ==
  [][\A a \in Accounts : status[a] = "closed" =>
       /\ status'[a] = "closed"
       /\ <<ledger'[a], available'[a], version'[a]>> = <<ledger[a], available[a], version[a]>>]_vars

\* A correction whose approval window has closed reverses nothing, whoever
\* decides or posts it late: it is neither approved nor posted any more, no
\* compensating transfer of its original appears, and it can only end as
\* expired or cancelled.  What has ended is never reopened.
LateCorrectionsMoveNothing ==
  [][\A c \in DOMAIN corrections :
       LET was == corrections[c] IN
       /\ was.lapsed =>
            /\ corrections'[c].status \in {was.status, "expired", "cancelled"}
            /\ {i \in DOMAIN transfers' : transfers'[i].corrects = was.original}
                 \subseteq DOMAIN transfers
       /\ was.status \notin Unresolved => corrections'[c].status = was.status]_vars

=============================================================================
