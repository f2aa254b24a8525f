---------------------------- MODULE Reservations ----------------------------
(***************************************************************************)
(* Internal reservations (holds): create, release, capture and the leased, *)
(* generation-fenced expiry queue served by the reservation worker.  The   *)
(* database clock enters only through two comparisons, so each is a flag   *)
(* that time sets: a hold becomes due, a lease lapses.                     *)
(***************************************************************************)
EXTENDS Transfers

CONSTANTS
  HoldKeys,        \* idempotency keys of hold commands
  Workers,         \* expiry worker processes
  MaxActiveHolds,  \* capacity of active holds (1000 in the code)
  MaxHolds,        \* bound: holds created
  MaxCommands,     \* bound: hold commands stored
  MaxFaults        \* bound: worker failures and leases lost by a live worker

ASSUME ReservationsAssumption ==
  {MaxActiveHolds, MaxHolds, MaxCommands, MaxFaults} \subseteq Nat

VARIABLES
  holds,         \* account_holds
  holdCommands,  \* hold_commands, append only
  jobs,          \* hold_expiry_jobs, one for each hold
  claims,        \* claims in worker memory: worker, hold, generation
  faults         \* faults so far

holdVars == <<holds, holdCommands, jobs, claims, faults>>

ReservationsInit ==
  /\ holds = <<>>
  /\ holdCommands = {}
  /\ jobs = <<>>
  /\ claims = {}
  /\ faults = 0

ActiveHolds == {h \in DOMAIN holds : holds[h].state = "active"}

-----------------------------------------------------------------------------
\* The command is new for this actor, operation and key (a known one returns
\* the stored response or raises a conflict: no change either way).
NewCommand(actor, op, key) ==
  /\ Cardinality(holdCommands) < MaxCommands
  /\ actor \in Operators
  /\ ~ \E r \in holdCommands : r.actor = actor /\ r.op = op /\ r.key = key

StoreCommand(actor, op, key, h, outcome) ==
  holdCommands' = holdCommands \cup
    {[actor |-> actor, op |-> op, key |-> key, hold |-> h, outcome |-> outcome]}

\* Mutant: a hold may debit and credit the same account.
CreateHoldOnOneAccount(actor, key, debit, credit, amount) ==
  /\ Len(holds) < MaxHolds
  /\ NewCommand(actor, "create", key)
  /\ <<actor, debit>> \in CanDebit /\ <<actor, credit>> \in CanCredit
  /\ status[debit] = "active" /\ status[credit] = "active"
  /\ Cardinality(ActiveHolds) < MaxActiveHolds
  /\ available[debit] >= amount
  /\ holds' = Append(holds, [debit |-> debit, credit |-> credit, amount |-> amount,
                             state |-> "active", due |-> FALSE, transfer |-> 0])
  /\ ShiftAvailable(debit, 0 - amount)
  /\ jobs' = Append(jobs, [owner |-> "nobody", generation |-> 0, lease |-> "none", done |-> FALSE])
  /\ StoreCommand(actor, "create", key, Len(holds) + 1, "active")
  /\ UNCHANGED <<status, transferVars, claims, faults>>

CreateHold(actor, key, debit, credit, amount) ==
  /\ Len(holds) < MaxHolds
  /\ NewCommand(actor, "create", key)
  /\ debit # credit
  /\ <<actor, debit>> \in CanDebit /\ <<actor, credit>> \in CanCredit
  /\ status[debit] = "active" /\ status[credit] = "active"
  /\ Cardinality(ActiveHolds) < MaxActiveHolds
  /\ available[debit] >= amount
  /\ holds' = Append(holds, [debit |-> debit, credit |-> credit, amount |-> amount,
                             state |-> "active", due |-> FALSE, transfer |-> 0])
  /\ ShiftAvailable(debit, 0 - amount)
  /\ jobs' = Append(jobs, [owner |-> "nobody", generation |-> 0, lease |-> "none", done |-> FALSE])
  /\ StoreCommand(actor, "create", key, Len(holds) + 1, "active")
  /\ UNCHANGED <<status, transferVars, claims, faults>>

\* The checks that precede either decision.
Decidable(actor, op, key, h) ==
  /\ NewCommand(actor, op, key)
  /\ <<actor, holds[h].debit>> \in CanDebit
  /\ holds[h].state = "active"

Finish(h, state, transfer) ==
  /\ holds' = [holds EXCEPT ![h].state = state, ![h].transfer = transfer]
  /\ jobs' = [jobs EXCEPT ![h].done = TRUE]

ReleaseHold(actor, key, h) ==
  /\ Decidable(actor, "release", key, h)
  /\ ShiftAvailable(holds[h].debit, holds[h].amount)
  /\ Finish(h, "released", 0)
  /\ StoreCommand(actor, "release", key, h, "released")
  /\ UNCHANGED <<status, transferVars, claims, faults>>

\* The transfer a capture submits, and the available column it runs on: the
\* reserved amount is given back inside the transaction only.
CaptureOf(actor, h) ==
  Pending(actor, CaptureKey(h), holds[h].debit, holds[h].credit, holds[h].amount, now)
\* Mutant: the capture debits money that is still set aside.
NotReleased(h) == available

PrivatelyReleased(h) == [available EXCEPT ![holds[h].debit] = @ + holds[h].amount]

\* Mutant: a capture takes over the transfer an earlier use of its key made.
CaptureAdoptingReplay(actor, key, h) ==
  /\ Decidable(actor, "capture", key, h)
  /\ ~holds[h].due
  /\ \E r \in Prior(actor, CaptureKey(h)) : Finish(h, "captured", r.transfer)
  /\ ShiftAvailable(holds[h].debit, holds[h].amount)
  /\ StoreCommand(actor, "capture", key, h, "captured")
  /\ UNCHANGED <<status, transferVars, claims, faults>>

CaptureHold(actor, key, h) ==
  /\ Decidable(actor, "capture", key, h)
  /\ ~holds[h].due
  /\ Prior(actor, CaptureKey(h)) = {}
  /\ PolicyAdmits(CaptureOf(actor, h))
  /\ Covers(holds[h].debit, holds[h].amount, PrivatelyReleased(h))
  /\ PostTransfer(CaptureOf(actor, h), PrivatelyReleased(h))
  /\ Finish(h, "captured", Len(transfers) + 1)
  /\ StoreCommand(actor, "capture", key, h, "captured")
  /\ UNCHANGED <<status, now, claims, faults>>

\* A capture that comes too late, or whose transfer is denied, rejected or a
\* replay: the subtransaction is undone, the hold stays active and the denial
\* is what the key returns from now on.  A capture key already used for
\* another intent raises, which undoes the command as well.
CaptureDenial(actor, h) ==
  IF holds[h].due THEN {"expired_capture"}
  ELSE IF \E r \in Prior(actor, CaptureKey(h)) : r.intent # Intent(CaptureOf(actor, h)) THEN {}
  ELSE IF \/ Prior(actor, CaptureKey(h)) # {}
          \/ ~PolicyAdmits(CaptureOf(actor, h))
          \/ ~Covers(holds[h].debit, holds[h].amount, PrivatelyReleased(h))
       THEN {"capture_policy_denied"}
  ELSE {}

DenyCapture(actor, key, h) ==
  /\ Decidable(actor, "capture", key, h)
  /\ \E reason \in CaptureDenial(actor, h) : StoreCommand(actor, "capture", key, h, reason)
  /\ UNCHANGED <<balanceVars, transferVars, holds, jobs, claims, faults>>

-----------------------------------------------------------------------------
\* Time passes the expiry of a hold.
BecomeDue(h) ==
  /\ ~holds[h].due
  /\ holds' = [holds EXCEPT ![h].due = TRUE]
  /\ UNCHANGED <<balanceVars, transferVars, holdCommands, jobs, claims, faults>>

\* Mutant: a job that was claimed once is never claimed again.
ClaimExpiryOnce(w, h) ==
  /\ ~jobs[h].done
  /\ holds[h].due
  /\ jobs[h].lease = "none"
  /\ jobs' = [jobs EXCEPT ![h].owner = w, ![h].generation = @ + 1, ![h].lease = "live"]
  /\ claims' = claims \cup {<<w, h, jobs[h].generation + 1>>}
  /\ UNCHANGED <<balanceVars, transferVars, holds, holdCommands, faults>>

\* A worker claims a due job whose lease is free.  A batch is several claims
\* in a row; SKIP LOCKED lets any due job come first.
ClaimExpiry(w, h) ==
  /\ ~jobs[h].done
  /\ holds[h].due
  /\ jobs[h].lease # "live"
  /\ jobs' = [jobs EXCEPT ![h].owner = w, ![h].generation = @ + 1, ![h].lease = "live"]
  /\ claims' = claims \cup {<<w, h, jobs[h].generation + 1>>}
  /\ UNCHANGED <<balanceVars, transferVars, holds, holdCommands, faults>>

\* claim_owner, claim_generation and claimed_until all still match.
ClaimIsCurrent(w, h, g) ==
  jobs[h].owner = w /\ jobs[h].generation = g /\ jobs[h].lease = "live"

\* Mutant: expiry does not look at the state the hold has by now.
ExpireAnyHold(w, h, g) ==
  /\ <<w, h, g>> \in claims
  /\ ClaimIsCurrent(w, h, g)
  /\ ShiftAvailable(holds[h].debit, holds[h].amount)
  /\ Finish(h, "expired", 0)
  /\ claims' = claims \ {<<w, h, g>>}
  /\ UNCHANGED <<status, transferVars, holdCommands, faults>>

ExpireHold(w, h, g) ==
  /\ <<w, h, g>> \in claims
  /\ ClaimIsCurrent(w, h, g)
  /\ ~jobs[h].done /\ holds[h].state = "active" /\ holds[h].due
  /\ ShiftAvailable(holds[h].debit, holds[h].amount)
  /\ Finish(h, "expired", 0)
  /\ claims' = claims \ {<<w, h, g>>}
  /\ UNCHANGED <<status, transferVars, holdCommands, faults>>

\* A stale claim is refused and a finished hold needs nothing; the worker
\* reports either and goes on to its next claim.
SkipExpiry(w, h, g) ==
  /\ <<w, h, g>> \in claims
  /\ ~ClaimIsCurrent(w, h, g) \/ jobs[h].done \/ holds[h].state # "active"
  /\ claims' = claims \ {<<w, h, g>>}
  /\ UNCHANGED <<balanceVars, transferVars, holds, holdCommands, jobs, faults>>

\* The worker dies, or the expiry transaction fails: the claim is forgotten.
LoseClaim(w, h, g) ==
  /\ <<w, h, g>> \in claims
  /\ faults < MaxFaults
  /\ faults' = faults + 1
  /\ claims' = claims \ {<<w, h, g>>}
  /\ UNCHANGED <<balanceVars, transferVars, holds, holdCommands, jobs>>

\* Time passes claimed_until.  That a worker is still busy is a fault.
LapseLease(h) ==
  LET busy == \E w \in Workers : <<w, h, jobs[h].generation>> \in claims IN
  /\ jobs[h].lease = "live" /\ ~jobs[h].done
  /\ busy => faults < MaxFaults
  /\ faults' = IF busy THEN faults + 1 ELSE faults
  /\ jobs' = [jobs EXCEPT ![h].lease = "lapsed"]
  /\ UNCHANGED <<balanceVars, transferVars, holds, holdCommands, claims>>

HoldCommand ==
  \/ \E actor \in Actors, key \in HoldKeys, d, c \in Accounts, n \in Amounts :
       CreateHold(actor, key, d, c, n)
  \/ \E actor \in Actors, key \in HoldKeys, h \in DOMAIN holds :
       ReleaseHold(actor, key, h) \/ CaptureHold(actor, key, h) \/ DenyCapture(actor, key, h)

HoldExpiry ==
  \E h \in DOMAIN holds :
    \/ BecomeDue(h)
    \/ LapseLease(h)
    \/ \E w \in Workers :
         \/ ClaimExpiry(w, h)
         \/ \E g \in 1..jobs[h].generation :
              ExpireHold(w, h, g) \/ SkipExpiry(w, h, g) \/ LoseClaim(w, h, g)

-----------------------------------------------------------------------------
HoldRow ==
  [debit : Accounts, credit : Accounts, amount : Amounts,
   state : {"active", "released", "captured", "expired"}, due : BOOLEAN, transfer : Nat]
ExpiryJob ==
  [owner : Workers \cup {"nobody"}, generation : Nat, lease : {"none", "live", "lapsed"},
   done : BOOLEAN]

\* Every hold has its type, two different accounts and one expiry job.
ReservationsTypeOK ==
  /\ holds \in Seq(HoldRow)
  /\ \A h \in DOMAIN holds : holds[h].debit # holds[h].credit
  /\ jobs \in Seq(ExpiryJob)
  /\ Len(jobs) = Len(holds)

=============================================================================
