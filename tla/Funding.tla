------------------------------- MODULE Funding -------------------------------
(***************************************************************************)
(* Funding records external value: a requested and approved event moves    *)
(* money from the clearing account to a customer account, and one          *)
(* compensation may take it back.  Request and approval windows are one    *)
(* flag that time sets: an approval is only given while it is clear.       *)
(***************************************************************************)
EXTENDS Corrections

CONSTANTS
  References,        \* external references of funding evidence
  FundPerCommand,    \* per_command_minor
  FundActorLimit,    \* operator_rolling_24h_minor
  FundTenantLimit,   \* tenant_rolling_24h_minor
  MaxFundings        \* bound: funding events requested

ASSUME FundingAssumption ==
  {FundPerCommand, FundActorLimit, FundTenantLimit, MaxFundings} \subseteq Nat

VARIABLES
  fundings  \* funding_events with their approval records

FundingInit == fundings = <<>>

Settled == {"posted", "compensated"}

\* A request the requester's key and the external reference do not name yet.
NewFunding(actor, key, reference) ==
  /\ Len(fundings) < MaxFundings
  /\ actor \in Finance
  /\ \A f \in DOMAIN fundings :
       /\ <<fundings[f].requester, fundings[f].key>> # <<actor, key>>
       /\ fundings[f].reference # reference

FundingRecord(actor, key, reference, destination, amount, of) ==
  [requester |-> actor, key |-> key, reference |-> reference, destination |-> destination,
   amount |-> amount, of |-> of, status |-> "requested", approver |-> {}, lapsed |-> FALSE,
   at |-> 0]

RequestFunding(actor, key, reference, destination, amount) ==
  /\ NewFunding(actor, key, reference)
  /\ status[destination] = "active"
  /\ amount <= FundPerCommand
  /\ fundings' = Append(fundings, FundingRecord(actor, key, reference, destination, amount, 0))
  /\ UNCHANGED <<balanceVars, transferVars>>

\* The reference compensation:<id> makes a second compensation of the same
\* event a unique violation.
RequestCompensation(actor, key, f) ==
  /\ NewFunding(actor, key, <<"compensation", f>>)
  /\ fundings[f].of = 0 /\ fundings[f].status = "posted"
  /\ fundings' = Append(fundings, FundingRecord(actor, key, <<"compensation", f>>,
                                    fundings[f].destination, fundings[f].amount, f))
  /\ UNCHANGED <<balanceVars, transferVars>>

\* Mutant: the requester may approve under dual control.
ApproveOwnFunding(actor, f) ==
  /\ actor \in Finance
  /\ fundings[f].status = "requested" /\ ~fundings[f].lapsed
  /\ fundings' = [fundings EXCEPT ![f].status = "approved", ![f].approver = {actor}]
  /\ UNCHANGED <<balanceVars, transferVars>>

\* An expired request cannot receive a fresh approval; it can be rejected.
RequestOpen(f) == ~fundings[f].lapsed

ApproveFunding(actor, f) ==
  /\ actor \in Finance
  /\ DualControl => fundings[f].requester # actor
  /\ fundings[f].status = "requested" /\ RequestOpen(f)
  /\ fundings' = [fundings EXCEPT ![f].status = "approved", ![f].approver = {actor}]
  /\ UNCHANGED <<balanceVars, transferVars>>

RejectFunding(actor, f) ==
  /\ actor \in Finance
  /\ fundings[f].status = "requested"
  /\ fundings' = [fundings EXCEPT ![f].status = "rejected", ![f].approver = {actor}]
  /\ UNCHANGED <<balanceVars, transferVars>>

\* funding_velocity_events whose expires_at is after the posting time; they
\* are never pruned, and compensations have none.
FundingWindow(at) ==
  {f \in DOMAIN fundings : /\ fundings[f].of = 0 /\ fundings[f].status \in Settled
                           /\ fundings[f].at + Window > at}
FundedBy(S) ==
  SumTo([f \in DOMAIN fundings |-> IF f \in S THEN fundings[f].amount ELSE 0], Len(fundings))

FundingWithinLimits(f, at) ==
  LET recent == FundingWindow(at)
      own == {g \in recent : fundings[g].requester = fundings[f].requester}
  IN /\ fundings[f].amount <= FundPerCommand
     /\ FundedBy(own) <= FundActorLimit - fundings[f].amount
     /\ FundedBy(recent) <= FundTenantLimit - fundings[f].amount

\* Mutant: a posted compensation leaves its original posted.
PostFundingAlone(actor, f, at) ==
  LET new == fundings[f]
      debit == IF new.of = 0 THEN Clearing ELSE new.destination
      credit == IF new.of = 0 THEN new.destination ELSE Clearing
  IN /\ actor \in Finance
     /\ new.status = "approved" /\ ~new.lapsed
     /\ new.of = 0 => FundingWithinLimits(f, at)
     /\ Covers(debit, new.amount, available)
     /\ MoveMoney(<<"funding", f>>, debit, credit, new.amount, available)
     /\ fundings' = [fundings EXCEPT ![f].status = "posted", ![f].at = at]
     /\ UNCHANGED <<status, transferVars>>

\* Mutant: a compensation does not look at the balance it takes from.
PostFundingUnguarded(actor, f, at) ==
  LET new == fundings[f]
      original == new.of
      debit == IF original = 0 THEN Clearing ELSE new.destination
      credit == IF original = 0 THEN new.destination ELSE Clearing
  IN /\ actor \in Finance
     /\ new.status = "approved" /\ ~new.lapsed
     /\ original = 0 => FundingWithinLimits(f, at)
     /\ original # 0 => fundings[original].status = "posted"
     /\ MoveMoney(<<"funding", f>>, debit, credit, new.amount, available)
     /\ fundings' = [g \in DOMAIN fundings |->
          IF g = f THEN [new EXCEPT !.status = "posted", !.at = at]
          ELSE IF g = original THEN [fundings[g] EXCEPT !.status = "compensated"]
          ELSE fundings[g]]
     /\ UNCHANGED <<status, transferVars>>

PostFunding(actor, f, at) ==
  LET new == fundings[f]
      original == new.of
      debit == IF original = 0 THEN Clearing ELSE new.destination
      credit == IF original = 0 THEN new.destination ELSE Clearing
  IN /\ actor \in Finance
     /\ new.status = "approved" /\ ~new.lapsed
     /\ original = 0 => FundingWithinLimits(f, at)
     /\ Covers(debit, new.amount, available)
     /\ original # 0 => fundings[original].status = "posted"
     /\ MoveMoney(<<"funding", f>>, debit, credit, new.amount, available)
     /\ fundings' = [g \in DOMAIN fundings |->
          IF g = f THEN [new EXCEPT !.status = "posted", !.at = at]
          ELSE IF g = original THEN [fundings[g] EXCEPT !.status = "compensated"]
          ELSE fundings[g]]
     /\ UNCHANGED <<status, transferVars>>

\* Time passes the expiry of the request or of the approval.
LapseFunding(f) ==
  /\ ~fundings[f].lapsed /\ fundings[f].status \in Unresolved
  /\ fundings' = [fundings EXCEPT ![f].lapsed = TRUE]
  /\ UNCHANGED <<balanceVars, transferVars>>

FundingCommand ==
  \/ \E actor \in Actors, key \in RequestKeys, r \in References, a \in Accounts, n \in Amounts :
       RequestFunding(actor, key, r, a, n)
  \/ \E f \in DOMAIN fundings :
       \/ LapseFunding(f)
       \/ \E actor \in Actors :
            \/ \E key \in RequestKeys : RequestCompensation(actor, key, f)
            \/ ApproveFunding(actor, f)
            \/ RejectFunding(actor, f)
            \/ \E at \in RequestTimes : PostFunding(actor, f, at)

-----------------------------------------------------------------------------
FundingEvent ==
  [requester : Actors, key : RequestKeys, reference : References \cup ({"compensation"} \X Nat),
   destination : Accounts, amount : Amounts, of : Nat,
   status : {"requested", "approved", "posted", "rejected", "compensated"},
   approver : SUBSET Actors, lapsed : BOOLEAN, at : Nat]

\* Funding records have their types.
FundingTypeOK == fundings \in Seq(FundingEvent)

\* The clearing account mirrors the outside world: it owes exactly the
\* external value that was recorded and not compensated.
ClearingMirrorsFunding ==
  ledger[Clearing] =
    0 - FundedBy({f \in DOMAIN fundings : fundings[f].of = 0 /\ fundings[f].status = "posted"})

\* External value is taken back at most once, and only what was recorded: a
\* compensated event has exactly one posted compensation and a posted
\* compensation has a compensated original.
CompensationsPairUp ==
  \A f \in DOMAIN fundings :
    /\ fundings[f].status = "compensated" =>
         Cardinality({g \in DOMAIN fundings :
                        fundings[g].of = f /\ fundings[g].status = "posted"}) = 1
    /\ fundings[f].of # 0 /\ fundings[f].status = "posted" =>
         fundings[fundings[f].of].status = "compensated"

\* Under dual control no funding event that moved money was approved by its
\* own requester.
FundingNeedsTwoPeople ==
  \A f \in DOMAIN fundings : DualControl /\ fundings[f].status \in Settled =>
    fundings[f].approver # {} /\ fundings[f].requester \notin fundings[f].approver

=============================================================================
