----------------------------- MODULE Corrections -----------------------------
(***************************************************************************)
(* Corrections reverse a posted transfer with a compensating transfer,     *)
(* after a request and an independent approval.  The approval window is a  *)
(* flag that time sets.  Step-up authentication is an input check: a       *)
(* command without a recent one is refused and changes nothing.            *)
(***************************************************************************)
EXTENDS Transfers

CONSTANTS
  DualControl,    \* control_mode is production_dual_control
  RequestKeys,    \* idempotency keys of correction and funding requests
  MaxCorrections  \* bound: corrections requested

ASSUME CorrectionsAssumption ==
  /\ DualControl \in BOOLEAN
  /\ MaxCorrections \in Nat

VARIABLES
  corrections  \* transfer_corrections

CorrectionsInit == corrections = <<>>

Unresolved == {"requested", "approved"}

-----------------------------------------------------------------------------
\* Mutant: the original may have a correction already.
RequestCorrectionAgain(actor, key, i) ==
  /\ Len(corrections) < MaxCorrections
  /\ actor \in Operators
  /\ \A c \in DOMAIN corrections :
       <<corrections[c].requester, corrections[c].key>> # <<actor, key>>
  /\ transfers[i].status = "posted" /\ transfers[i].corrects = 0
  /\ corrections' = Append(corrections,
       [original |-> i, requester |-> actor, key |-> key, approver |-> {},
        status |-> "requested", lapsed |-> FALSE, compensation |-> 0])
  /\ UNCHANGED <<balanceVars, transferVars>>

\* A known key returns the earlier request or raises a conflict; an original
\* has one correction for ever (UNIQUE original_transfer_id).
RequestCorrection(actor, key, i) ==
  /\ Len(corrections) < MaxCorrections
  /\ actor \in Operators
  /\ \A c \in DOMAIN corrections :
       /\ <<corrections[c].requester, corrections[c].key>> # <<actor, key>>
       /\ corrections[c].original # i
  /\ transfers[i].status = "posted" /\ transfers[i].corrects = 0
  /\ corrections' = Append(corrections,
       [original |-> i, requester |-> actor, key |-> key, approver |-> {},
        status |-> "requested", lapsed |-> FALSE, compensation |-> 0])
  /\ UNCHANGED <<balanceVars, transferVars>>

CancelCorrection(actor, c) ==
  /\ corrections[c].requester = actor
  /\ corrections[c].status \in Unresolved
  /\ corrections' = [corrections EXCEPT ![c].status = "cancelled"]
  /\ UNCHANGED <<balanceVars, transferVars>>

\* Approval or rejection; either one finds the window closed and expires.
DecideCorrection(actor, c, decision) ==
  /\ actor \in Finance
  /\ corrections[c].status = "requested"
  /\ \/ /\ corrections[c].lapsed
        /\ corrections' = [corrections EXCEPT ![c].status = "expired"]
     \/ /\ ~corrections[c].lapsed
        /\ DualControl => corrections[c].requester # actor
        /\ corrections' = [corrections EXCEPT ![c].status = decision, ![c].approver = {actor}]
  /\ UNCHANGED <<balanceVars, transferVars>>

\* Mutant: the requester may post what somebody else approved.
PostableByRequester(actor, c) ==
  /\ actor \in Finance
  /\ corrections[c].status = "approved" /\ corrections[c].approver # {}
  /\ transfers[corrections[c].original].status = "posted"
  /\ DualControl => corrections[c].requester \notin corrections[c].approver

\* The checks of controlled_post_transfer_correction_v1 up to the window.
Postable(actor, c) ==
  /\ actor \in Finance
  /\ corrections[c].status = "approved" /\ corrections[c].approver # {}
  /\ transfers[corrections[c].original].status = "posted"
  /\ DualControl => corrections[c].requester \notin ({actor} \cup corrections[c].approver)

\* Mutant: a correction reaches into closed accounts.
PostCorrectionIntoClosed(actor, c) ==
  LET original == transfers[corrections[c].original]
      t == [Pending(actor, NoKey, original.credit, original.debit, original.amount, now)
              EXCEPT !.status = "posted", !.corrects = corrections[c].original]
  IN /\ Len(transfers) < MaxTransfers
     /\ Postable(actor, c)
     /\ ~corrections[c].lapsed
     /\ Covers(t.debit, t.amount, available)
     /\ MoveMoney(<<"transfer", Len(transfers) + 1>>, t.debit, t.credit, t.amount, available)
     /\ transfers' = Append(transfers, t)
     /\ corrections' = [corrections EXCEPT ![c].status = "posted",
                                           ![c].compensation = Len(transfers) + 1]
     /\ UNCHANGED <<status, now, idempotency, answers, velocity, totals, notices>>

\* Mutant: an approval is good for ever.
PostCorrectionLate(actor, c) ==
  LET original == transfers[corrections[c].original]
      t == [Pending(actor, NoKey, original.credit, original.debit, original.amount, now)
              EXCEPT !.status = "posted", !.corrects = corrections[c].original]
  IN /\ Len(transfers) < MaxTransfers
     /\ Postable(actor, c)
     /\ status[t.debit] # "closed" /\ status[t.credit] # "closed"
     /\ Covers(t.debit, t.amount, available)
     /\ MoveMoney(<<"transfer", Len(transfers) + 1>>, t.debit, t.credit, t.amount, available)
     /\ transfers' = Append(transfers, t)
     /\ corrections' = [corrections EXCEPT ![c].status = "posted",
                                           ![c].compensation = Len(transfers) + 1]
     /\ UNCHANGED <<status, now, idempotency, answers, velocity, totals, notices>>

\* The compensating transfer: accounts swapped, no velocity, no transfer.posted
\* event, and the guarded debit of the account that received the money.
PostCorrection(actor, c) ==
  LET original == transfers[corrections[c].original]
      t == [Pending(actor, NoKey, original.credit, original.debit, original.amount, now)
              EXCEPT !.status = "posted", !.corrects = corrections[c].original]
  IN /\ Len(transfers) < MaxTransfers
     /\ Postable(actor, c)
     /\ ~corrections[c].lapsed
     /\ status[t.debit] # "closed" /\ status[t.credit] # "closed"
     /\ Covers(t.debit, t.amount, available)
     /\ MoveMoney(<<"transfer", Len(transfers) + 1>>, t.debit, t.credit, t.amount, available)
     /\ transfers' = Append(transfers, t)
     /\ corrections' = [corrections EXCEPT ![c].status = "posted",
                                           ![c].compensation = Len(transfers) + 1]
     /\ UNCHANGED <<status, now, idempotency, answers, velocity, totals, notices>>

\* Posting after the window closed records the expiry and moves no money.
ExpireCorrection(actor, c) ==
  /\ Postable(actor, c)
  /\ corrections[c].lapsed
  /\ corrections' = [corrections EXCEPT ![c].status = "expired"]
  /\ UNCHANGED <<balanceVars, transferVars>>

\* Time passes approval_expires_at.
LapseCorrection(c) ==
  /\ ~corrections[c].lapsed /\ corrections[c].status \in Unresolved
  /\ corrections' = [corrections EXCEPT ![c].lapsed = TRUE]
  /\ UNCHANGED <<balanceVars, transferVars>>

CorrectionCommand ==
  \/ \E actor \in Actors, key \in RequestKeys, i \in DOMAIN transfers :
       RequestCorrection(actor, key, i)
  \/ \E c \in DOMAIN corrections :
       \/ LapseCorrection(c)
       \/ \E actor \in Actors :
            \/ CancelCorrection(actor, c)
            \/ PostCorrection(actor, c)
            \/ ExpireCorrection(actor, c)
            \/ \E d \in {"approved", "rejected"} : DecideCorrection(actor, c, d)

-----------------------------------------------------------------------------
Correction ==
  [original : Nat, requester : Actors, key : RequestKeys, approver : SUBSET Actors,
   status : {"requested", "approved", "rejected", "cancelled", "expired", "posted"},
   lapsed : BOOLEAN, compensation : Nat]

\* Correction records have their types and correct a transfer that exists.
CorrectionsTypeOK ==
  /\ corrections \in Seq(Correction)
  /\ \A c \in DOMAIN corrections : corrections[c].original \in DOMAIN transfers

\* A transfer is reversed at most once, by its own correction, in full and
\* with the accounts swapped; a correction that is not posted moved no money.
CorrectionsReverseOnce ==
  /\ \A i \in DOMAIN transfers : transfers[i].corrects # 0 =>
       LET o == transfers[i].corrects IN
       /\ Cardinality({j \in DOMAIN transfers : transfers[j].corrects = o}) = 1
       /\ Intent(transfers[i]) = <<transfers[o].credit, transfers[o].debit, transfers[o].amount>>
       /\ \E c \in DOMAIN corrections :
            corrections[c].status = "posted" /\ corrections[c].compensation = i
  /\ \A c \in DOMAIN corrections : corrections[c].status = "posted" =>
       transfers[corrections[c].compensation].corrects = corrections[c].original

\* Under dual control money is never reversed by its requester alone: neither
\* the approver nor the actor who posts is the requester.
CorrectionsNeedTwoPeople ==
  \A c \in DOMAIN corrections : DualControl /\ corrections[c].status = "posted" =>
    corrections[c].requester \notin
      (corrections[c].approver \cup {transfers[corrections[c].compensation].actor})

=============================================================================
