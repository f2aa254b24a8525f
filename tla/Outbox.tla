------------------------------- MODULE Outbox -------------------------------
(***************************************************************************)
(* Publication of committed events: the leased, generation-fenced outbox   *)
(* queue, the worker that publishes its batches to a Redis stream, and the *)
(* approved replay of buried events.  A balance is named by its version,   *)
(* so an event is an aggregate with a version.  Comparisons with the       *)
(* database clock are flags that time sets: a claim lapses, a retry falls  *)
(* due, a replay approval lapses.                                          *)
(***************************************************************************)
EXTENDS Integers, Sequences, FiniteSets, Functions

CONSTANTS
  Accounts,      \* aggregates of type account_balance
  Others,        \* other aggregates that share outbox and stream
  FirstVersion,  \* version of every aggregate before the first commit
  Publishers,    \* worker processes
  WorkerID,      \* identity of each: node name and process number, which a
                 \* replacement that keeps both shares with its predecessor
  BatchSize,     \* events in a claim (10 in the code)
  MaxAttempts,   \* claims before a failed publication buries an event (12)
  MaxLength,     \* RedisStreamMaxLength
  MaxRetries,    \* times the Redis client sends a command again (3 by default)
  Operators,     \* subjects who may approve and execute a replay
  MaxCommits,    \* bound: commits per aggregate
  MaxReplays,    \* bound: replay approvals
  MaxFaults      \* bound: crashes, failed calls and claims lost by a live worker

ASSUME OutboxAssumption ==
  /\ Accounts \cap Others = {}
  /\ WorkerID \in [Publishers -> Range(WorkerID)]
  /\ {FirstVersion, MaxRetries, MaxCommits, MaxReplays, MaxFaults} \subseteq Nat
  /\ {BatchSize, MaxAttempts, MaxLength} \subseteq Nat \ {0}

VARIABLES
  version,  \* committed version of each aggregate
  rows,     \* outbox_events, a function on the events committed so far
  trials,   \* outbox_publication_attempts
  batch,    \* claimed events that a worker still has to process
  stage,    \* how far a worker is with the first of them
  resent,   \* times its Redis client has sent the XADD at hand again
  stream,   \* entries ever added to the Redis stream
  trimmed,  \* entries that MAXLEN has removed from its front
  replays,  \* outbox_replay_actions, in order of approval
  mishaps   \* faults so far

queueVars == <<version, rows, trials, batch, stage, resent, replays>>
outboxVars == <<queueVars, stream, trimmed, mishaps>>

Aggregates == Accounts \cup Others

OutboxInit ==
  /\ version = [a \in Aggregates |-> FirstVersion]
  /\ rows = <<>>
  /\ trials = {}
  /\ batch = [w \in Publishers |-> <<>>]
  /\ stage = [w \in Publishers |-> "next"]
  /\ resent = [w \in Publishers |-> 0]
  /\ stream = <<>>
  /\ trimmed = 0
  /\ replays = <<>>
  /\ mishaps = 0

-----------------------------------------------------------------------------
\* A command commits a change of the aggregate together with its event.
Commit(a) ==
  /\ version[a] < FirstVersion + MaxCommits
  /\ version' = [version EXCEPT ![a] = @ + 1]
  /\ rows' = [e \in DOMAIN rows \cup {<<a, version[a] + 1>>} |->
                IF e \in DOMAIN rows THEN rows[e]
                ELSE [state |-> "waiting", due |-> TRUE, owner |-> "nobody",
                      generation |-> 0, lease |-> "none", attempts |-> 0]]
  /\ UNCHANGED <<trials, batch, stage, resent, stream, trimmed, replays, mishaps>>

\* Mutant: only events that were never claimed, or were released, are taken.
ClaimableReleased(e) == rows[e].state = "waiting" /\ rows[e].due /\ rows[e].lease = "none"

Claimable(e) == rows[e].state = "waiting" /\ rows[e].due /\ rows[e].lease # "live"

\* RunOnce claims a batch.  SKIP LOCKED lets it miss rows, and RETURNING gives
\* no order.
Claim(w) ==
  /\ batch[w] = <<>>
  /\ \E S \in SUBSET {e \in DOMAIN rows : Claimable(e)} :
       /\ Cardinality(S) \in 1..BatchSize
       /\ rows' = [e \in DOMAIN rows |->
            IF e \in S THEN [rows[e] EXCEPT !.owner = WorkerID[w], !.lease = "live",
                                            !.generation = @ + 1, !.attempts = @ + 1]
            ELSE rows[e]]
       /\ trials' = trials \cup {[event |-> e, generation |-> rows[e].generation + 1,
                                  status |-> "claimed"] : e \in S}
       /\ \E order \in Injection(1..Cardinality(S), S) :
            batch' = [batch EXCEPT ![w] =
              [i \in DOMAIN order |-> [event |-> order[i],
                                       generation |-> rows[order[i]].generation + 1,
                                       attempt |-> rows[order[i]].attempts + 1]]]
  /\ UNCHANGED <<version, stage, resent, stream, trimmed, replays, mishaps>>

\* Mutant: the generation is not compared.
OwnsAnyGeneration(w, e, g) ==
  rows[e].owner = WorkerID[w] /\ rows[e].lease = "live" /\ rows[e].state = "waiting"

\* controlled_claim_tenant_v1: owner, generation and lease still match.
Owns(w, e, g) ==
  /\ rows[e].owner = WorkerID[w] /\ rows[e].generation = g
  /\ rows[e].lease = "live" /\ rows[e].state = "waiting"

Item(w) == Head(batch[w])
Holds(w) == Owns(w, Item(w).event, Item(w).generation)

\* Mutant: the work at hand is not forgotten with the batch.
GiveUpBatchOnly(w) == batch' = [batch EXCEPT ![w] = <<>>] /\ UNCHANGED <<stage, resent>>

\* RunOnce returns and forgets the rest of its batch, whose claims lapse.
GiveUp(w) ==
  /\ batch' = [batch EXCEPT ![w] = <<>>]
  /\ stage' = [stage EXCEPT ![w] = "next"]
  /\ resent' = [resent EXCEPT ![w] = 0]

\* lease.Run renews the claim before it works.  (A later event of the batch
\* may have been waiting behind a slow one for longer than its lease.)
Renew(w) ==
  /\ batch[w] # <<>> /\ stage[w] = "next"
  /\ \/ Holds(w) /\ stage' = [stage EXCEPT ![w] = "renewed"] /\ UNCHANGED <<batch, resent>>
     \/ ~Holds(w) /\ GiveUp(w)
  /\ UNCHANGED <<version, rows, trials, stream, trimmed, replays, mishaps>>

\* The renewal goroutine finds the claim lost and cancels the work.
LoseLease(w) ==
  /\ stage[w] # "next" /\ ~Holds(w)
  /\ GiveUp(w)
  /\ UNCHANGED <<version, rows, trials, stream, trimmed, replays, mishaps>>

\* controlled_prepare_publication_v1 checks the claim once more, or fails.
Prepare(w) ==
  /\ stage[w] = "renewed"
  /\ \/ Holds(w) /\ stage' = [stage EXCEPT ![w] = "prepared"]
     \/ stage' = [stage EXCEPT ![w] = "failed"]
  /\ UNCHANGED <<version, rows, trials, batch, resent, stream, trimmed, replays, mishaps>>

\* Redis executes an XADD, which may trim to about MaxLength entries.
Add(e) ==
  /\ stream' = Append(stream, e)
  /\ trimmed' \in {trimmed} \cup (trimmed .. (Len(stream) + 1 - MaxLength))

\* The client has the default options of go-redis: after a timeout or a broken
\* connection it sends the command again, on the same claim.
Resend(w) ==
  /\ resent[w] < MaxRetries
  /\ resent' = [resent EXCEPT ![w] = @ + 1]
  /\ UNCHANGED stage

\* Publish returns to the worker.
Answer(w, outcome) ==
  /\ stage' = [stage EXCEPT ![w] = outcome]
  /\ resent' = [resent EXCEPT ![w] = 0]

\* One XADD on the wire.  It is not fenced: the claim may be lost by now, and
\* what Redis added without the client hearing of it is added again.
Send(w) ==
  /\ stage[w] = "prepared"
  /\ \/ Add(Item(w).event) /\ Answer(w, "sent")
     \/ /\ Add(Item(w).event) \/ UNCHANGED <<stream, trimmed>>
        /\ Resend(w) \/ Answer(w, "failed")
  /\ UNCHANGED <<version, rows, trials, batch, replays, mishaps>>

\* controlled_complete_outbox_v1 for the first event of the batch; a stale
\* completion is refused and ends the batch.
Complete(w, status) ==
  LET e == Item(w).event IN
  /\ IF Holds(w)
     THEN /\ rows' = [rows EXCEPT
               ![e].state = CASE status = "published" -> "published"
                              [] status = "dead" -> "dead"
                              [] OTHER -> "waiting",
               ![e].due = status # "retrying",
               ![e].owner = "nobody", ![e].lease = "none"]
          /\ trials' = {t \in trials : t.event # e \/ t.generation # Item(w).generation}
                         \cup {[event |-> e, generation |-> Item(w).generation, status |-> status]}
          /\ batch' = [batch EXCEPT ![w] = Tail(@)]
          /\ stage' = [stage EXCEPT ![w] = "next"] /\ UNCHANGED resent
     ELSE GiveUp(w) /\ UNCHANGED <<rows, trials>>
  /\ UNCHANGED <<version, stream, trimmed, replays, mishaps>>

MarkPublished(w) == stage[w] = "sent" /\ Complete(w, "published")

\* Mutant: a failure is acknowledged like a success.
PublishFailureIgnored(w) == stage[w] = "failed" /\ Complete(w, "published")

\* Mutant: the worker publishes again under the same claim, without a limit.
RetryInPlace(w) ==
  /\ stage[w] = "failed"
  /\ stage' = [stage EXCEPT ![w] = "prepared"]
  /\ UNCHANGED <<version, rows, trials, batch, resent, stream, trimmed, replays, mishaps>>

HandlePublishFailure(w) ==
  /\ stage[w] = "failed"
  /\ Complete(w, IF Item(w).attempt >= MaxAttempts THEN "dead" ELSE "retrying")

\* The process dies, or a call to the database fails.
Crash(w) ==
  /\ batch[w] # <<>> /\ mishaps < MaxFaults
  /\ mishaps' = mishaps + 1
  /\ GiveUp(w)
  /\ UNCHANGED <<version, rows, trials, stream, trimmed, replays>>

-----------------------------------------------------------------------------
\* A worker still has the current claim of the event.
Busy(e) ==
  \E w \in Publishers : \E i \in DOMAIN batch[w] :
    batch[w][i].event = e /\ Owns(w, e, batch[w][i].generation)

\* Time passes claimed_until.  That a worker is still busy is a fault.
LapseClaim(e) ==
  /\ rows[e].lease = "live"
  /\ Busy(e) => mishaps < MaxFaults
  /\ mishaps' = IF Busy(e) THEN mishaps + 1 ELSE mishaps
  /\ rows' = [rows EXCEPT ![e].lease = "lapsed"]
  /\ UNCHANGED <<version, trials, batch, stage, resent, stream, trimmed, replays>>

\* Time passes available_at.
BackoffEnds(e) ==
  /\ ~rows[e].due
  /\ rows' = [rows EXCEPT ![e].due = TRUE]
  /\ UNCHANGED <<version, trials, batch, stage, resent, stream, trimmed, replays, mishaps>>

\* An operator approves the replay of a buried event, under a fresh
\* correlation.
ApproveReplay(actor, e) ==
  /\ Len(replays) < MaxReplays
  /\ rows[e].state = "dead"
  /\ replays' = Append(replays, [event |-> e, approver |-> actor, lapsed |-> FALSE,
                                 executed |-> FALSE])
  /\ UNCHANGED <<version, rows, trials, batch, stage, resent, stream, trimmed, mishaps>>

Replayed(e) == \E r \in DOMAIN replays : replays[r].event = e /\ replays[r].executed

\* Another operator executes it while the event is buried, and once only: the
\* index outbox_replay_executed_once_idx allows one execution for an event.
\* The attempts start again.
ExecuteReplay(actor, r) ==
  LET e == replays[r].event IN
  /\ ~replays[r].lapsed /\ ~Replayed(e)
  /\ replays[r].approver # actor
  /\ rows[e].state = "dead"
  /\ rows' = [rows EXCEPT ![e].state = "waiting", ![e].due = TRUE, ![e].attempts = 0,
                          ![e].owner = "nobody", ![e].lease = "none"]
  /\ replays' = [replays EXCEPT ![r].executed = TRUE]
  /\ UNCHANGED <<version, trials, batch, stage, resent, stream, trimmed, mishaps>>

\* Time passes the 24 hours of an approval.
LapseReplay(r) ==
  /\ ~replays[r].lapsed /\ ~replays[r].executed
  /\ replays' = [replays EXCEPT ![r].lapsed = TRUE]
  /\ UNCHANGED <<version, rows, trials, batch, stage, resent, stream, trimmed, mishaps>>

PublisherStep(w) ==
  Claim(w) \/ Renew(w) \/ LoseLease(w) \/ Prepare(w) \/ Send(w) \/ MarkPublished(w)
    \/ HandlePublishFailure(w)

OutboxNext ==
  \/ \E a \in Aggregates : Commit(a)
  \/ \E w \in Publishers : PublisherStep(w) \/ Crash(w)
  \/ \E e \in DOMAIN rows : LapseClaim(e) \/ BackoffEnds(e)
  \/ \E actor \in Operators :
       \/ \E e \in DOMAIN rows : ApproveReplay(actor, e)
       \/ \E r \in DOMAIN replays : ExecuteReplay(actor, r)
  \/ \E r \in DOMAIN replays : LapseReplay(r)

-----------------------------------------------------------------------------
OutboxSpec == OutboxInit /\ [][OutboxNext]_outboxVars

\* A worker polls for as long as it lives, and time passes.
OutboxLive ==
  /\ OutboxSpec
  /\ \A w \in Publishers : WF_outboxVars(PublisherStep(w))
  /\ \A e \in Aggregates \X (FirstVersion + 1 .. FirstVersion + MaxCommits) :
       WF_outboxVars(e \in DOMAIN rows /\ (LapseClaim(e) \/ BackoffEnds(e)))

-----------------------------------------------------------------------------
Row ==
  [state : {"waiting", "published", "dead"}, due : BOOLEAN, owner : Range(WorkerID) \cup {"nobody"},
   generation : Nat, lease : {"none", "live", "lapsed"}, attempts : Nat]

\* The outbox tables and the worker's memory have their types: one row for each
\* version committed, and an event at hand whenever a worker is at work.
OutboxTypeOK ==
  /\ version \in [Aggregates -> Nat]
  /\ DOMAIN rows = {e \in Aggregates \X (FirstVersion + 1 .. FirstVersion + MaxCommits) :
                      e[2] <= version[e[1]]}
  /\ \A e \in DOMAIN rows : rows[e] \in Row
  /\ \A w \in Publishers :
       /\ stage[w] # "next" => batch[w] # <<>>
       /\ resent[w] \in (IF stage[w] = "prepared" THEN 0..MaxRetries ELSE {0})
  /\ trimmed \in 0..Len(stream)

\* No committed event is lost on the way out: what the outbox calls published
\* has been added to the stream, whichever worker said so.
PublishedWasSent ==
  \A e \in DOMAIN rows : rows[e].state = "published" => \E i \in DOMAIN stream : stream[i] = e

\* The publication attempts tell what happened to an event, however many
\* workers tried: one for each claim, never two that end it, the last one
\* agrees with the row, and earlier ones never published.
TrialsTellTheStory ==
  \A e \in DOMAIN rows :
    LET mine == {t \in trials : t.event = e}
        last == {t.status : t \in {u \in mine : u.generation = rows[e].generation}}
        buried == {t \in mine : t.status = "dead"}
    IN /\ {t.generation : t \in mine} = 1..rows[e].generation
       /\ Cardinality(mine) = rows[e].generation
       /\ rows[e].state = "published" <=> "published" \in {t.status : t \in mine}
       /\ rows[e].state = "published" => last = {"published"}
       /\ rows[e].lease # "none" => last = {"claimed"}
       /\ Cardinality(buried) =
            (IF rows[e].state = "dead" THEN 1 ELSE 0) + (IF Replayed(e) THEN 1 ELSE 0)

\* Duplicates are bounded and evidenced: for each recorded attempt an event is
\* in the stream at most as often as the client sends one command, although
\* workers crash, lose their claims to each other and are replaced meanwhile.
DuplicatesAreEvidenced ==
  \A e \in DOMAIN rows :
    Cardinality({i \in DOMAIN stream : stream[i] = e}) <= rows[e].generation * (1 + MaxRetries)

\* Every committed event gets out or is buried for an operator to see, although
\* workers die, lose claims and fail to publish.
EventsGetOut ==
  \A e \in Aggregates \X (FirstVersion + 1 .. FirstVersion + MaxCommits) :
    e \in DOMAIN rows ~> (e \in DOMAIN rows /\ rows[e].state # "waiting")

\* Buried work can be recovered: a replay of it can still be executed.
DeadWorkIsRecoverable ==
  \A e \in DOMAIN rows : rows[e].state = "dead" => ~Replayed(e)

=============================================================================
