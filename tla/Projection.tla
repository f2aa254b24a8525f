----------------------------- MODULE Projection -----------------------------
(***************************************************************************)
(* The disposable balance cache: projectors of one Redis consumer group    *)
(* apply the stream to it, and balance reads refresh it from PostgreSQL.   *)
(* A cached balance is named by its version.  One process runs a publisher *)
(* and a projector in turn; here they are independent.                     *)
(***************************************************************************)
EXTENDS Outbox, FiniteSetsExt

CONSTANTS
  Projectors,   \* consumers of the group balance-cache-v1
  FetchSize,    \* entries in a read (50 in the code)
  Readers,      \* API requests that read a balance
  MaxReads,     \* bound: balance reads
  MaxEvictions  \* bound: cache entries whose TTL runs out, and losses of Redis

ASSUME ProjectionAssumption ==
  /\ FetchSize \in Nat \ {0}
  /\ {MaxReads, MaxEvictions} \subseteq Nat

VARIABLES
  delivered,  \* last entry delivered to the group
  pending,    \* pending entries of the group: entry -> consumer and idle flag
  fetched,    \* entries in the memory of a projector
  progress,   \* what the projector does next
  cache,      \* cached version of each account, or Absent
  reading,    \* version a read got from PostgreSQL, still to be cached
  reads,      \* balance reads so far
  evictions   \* entries evicted so far

cacheVars == <<delivered, pending, fetched, progress, cache, reading, reads, evictions>>

Absent == 0 - 1
NoRead == <<>>

ProjectionInit ==
  /\ delivered = 0
  /\ pending = <<>>
  /\ fetched = [p \in Projectors |-> <<>>]
  /\ progress = [p \in Projectors |-> "recover"]
  /\ cache = [a \in Accounts |-> Absent]
  /\ reading = [r \in Readers |-> NoRead]
  /\ reads = 0
  /\ evictions = 0

-----------------------------------------------------------------------------
\* Decimal digits of a natural number, the form versions have in Redis.
Digits(n) ==
  LET d[k \in 0..n] == IF k < 10 THEN <<k>> ELSE Append(d[k \div 10], k % 10) IN d[n]

\* Lua's >= on strings of equal length.
NotBefore(s, t) ==
  s = t \/ \E i \in DOMAIN s : s[i] > t[i] /\ \A j \in 1..(i - 1) : s[j] = t[j]

\* Mutant: the comparison ignores the lengths.
KeepsLexically(current, candidate) ==
  \E i \in 1..(Len(Digits(current)) + 1) :
    /\ \A j \in 1..(i - 1) : j <= Len(Digits(candidate)) /\ Digits(current)[j] = Digits(candidate)[j]
    /\ \/ i > Len(Digits(candidate))
       \/ i <= Len(Digits(current)) /\ Digits(current)[i] > Digits(candidate)[i]

\* The script of PutIfNewer leaves the current version alone.
Keeps(current, candidate) ==
  LET s == Digits(current)
      t == Digits(candidate)
  IN Len(s) > Len(t) \/ (Len(s) = Len(t) /\ NotBefore(s, t))

PutIfNewer(a, v) ==
  cache' = [cache EXCEPT ![a] = IF @ # Absent /\ Keeps(@, v) THEN @ ELSE v]

-----------------------------------------------------------------------------
\* The first FetchSize members of a set of entries, in order.
Batch(S) ==
  {i \in S : Cardinality({j \in S : j < i}) < FetchSize}
InOrder(S) ==
  CHOOSE s \in Injection(1..Cardinality(S), S) :
    \A i, j \in DOMAIN s : i < j => s[i] < s[j]

Hand(p, S) ==
  /\ fetched' = [fetched EXCEPT ![p] = InOrder(S)]
  /\ progress' = [progress EXCEPT ![p] = "apply"]

\* Mutant: only new entries are read.
RecoverNothing(p) ==
  /\ progress[p] = "recover"
  /\ progress' = [progress EXCEPT ![p] = "read"]
  /\ UNCHANGED <<outboxVars, delivered, pending, fetched, cache, reading, reads, evictions>>

\* Mutant: entries that were trimmed stay pending.
RecoverKeepingTrimmed(p) ==
  LET idle == {i \in DOMAIN pending : pending[i].idle}
      kept == Batch({i \in idle : i > trimmed})
  IN /\ progress[p] = "recover"
     /\ pending' = [i \in DOMAIN pending |->
          IF i \in kept THEN [consumer |-> p, idle |-> FALSE] ELSE pending[i]]
     /\ IF kept # {} THEN Hand(p, kept)
        ELSE progress' = [progress EXCEPT ![p] = "read"] /\ UNCHANGED fetched
     /\ UNCHANGED <<outboxVars, delivered, cache, reading, reads, evictions>>

\* RunOnce first takes over entries that a consumer left pending for too long.
\* XAUTOCLAIM forgets those that were trimmed from the stream.
RecoverPending(p) ==
  LET idle == {i \in DOMAIN pending : pending[i].idle}
      kept == Batch({i \in idle : i > trimmed})
      rest == {i \in DOMAIN pending : i \notin idle \/ i > trimmed}
  IN /\ progress[p] = "recover"
     /\ pending' = [i \in rest |-> IF i \in kept THEN [consumer |-> p, idle |-> FALSE]
                                   ELSE pending[i]]
     /\ IF kept # {} THEN Hand(p, kept)
        ELSE progress' = [progress EXCEPT ![p] = "read"] /\ UNCHANGED fetched
     /\ UNCHANGED <<outboxVars, delivered, cache, reading, reads, evictions>>

\* Mutant: entries are acknowledged when they are read.
ReadGroupNoAck(p) ==
  LET new == Batch({i \in DOMAIN stream : i > delivered /\ i > trimmed}) IN
  /\ progress[p] = "read"
  /\ IF new = {}
     THEN progress' = [progress EXCEPT ![p] = "recover"] /\ UNCHANGED <<delivered, fetched>>
     ELSE delivered' = Max(new) /\ Hand(p, new)
  /\ UNCHANGED <<outboxVars, pending, cache, reading, reads, evictions>>

\* Then it reads new entries.
ReadGroup(p) ==
  LET new == Batch({i \in DOMAIN stream : i > delivered /\ i > trimmed}) IN
  /\ progress[p] = "read"
  /\ IF new = {}
     THEN /\ progress' = [progress EXCEPT ![p] = "recover"]
          /\ UNCHANGED <<delivered, pending, fetched>>
     ELSE /\ delivered' = Max(new)
          /\ pending' = [i \in DOMAIN pending \cup new |->
               IF i \in new THEN [consumer |-> p, idle |-> FALSE] ELSE pending[i]]
          /\ Hand(p, new)
  /\ UNCHANGED <<outboxVars, cache, reading, reads, evictions>>

\* An event of another aggregate is acknowledged without more ado.
\* What the projector has in memory survives in it when Redis trims the entry.
Apply(p) ==
  LET e == stream[Head(fetched[p])] IN
  /\ progress[p] = "apply"
  /\ IF e[1] \in Accounts THEN PutIfNewer(e[1], e[2]) ELSE UNCHANGED cache
  /\ progress' = [progress EXCEPT ![p] = "ack"]
  /\ UNCHANGED <<outboxVars, delivered, pending, fetched, reading, reads, evictions>>

\* Mutant: the end of the batch is missed.
AckNeverEnds(p) ==
  /\ progress[p] = "ack"
  /\ pending' = [i \in DOMAIN pending \ {Head(fetched[p])} |-> pending[i]]
  /\ fetched' = [fetched EXCEPT ![p] = Tail(@)]
  /\ progress' = [progress EXCEPT ![p] = "apply"]
  /\ UNCHANGED <<outboxVars, delivered, cache, reading, reads, evictions>>

Ack(p) ==
  /\ progress[p] = "ack"
  /\ pending' = [i \in DOMAIN pending \ {Head(fetched[p])} |-> pending[i]]
  /\ fetched' = [fetched EXCEPT ![p] = Tail(@)]
  /\ progress' = [progress EXCEPT ![p] = IF Len(fetched[p]) = 1 THEN "recover" ELSE "apply"]
  /\ UNCHANGED <<outboxVars, delivered, cache, reading, reads, evictions>>

\* The projector dies, or a call to Redis or to the database fails.
Drop(p) ==
  /\ progress[p] \in {"apply", "ack"} /\ mishaps < MaxFaults
  /\ mishaps' = mishaps + 1
  /\ fetched' = [fetched EXCEPT ![p] = <<>>]
  /\ progress' = [progress EXCEPT ![p] = "recover"]
  /\ UNCHANGED <<queueVars, stream, trimmed, delivered, pending, cache, reading, reads, evictions>>

\* Time passes PendingIdle.  That the consumer is still busy is a fault.
BecomeIdle(i) ==
  LET busy == \E k \in DOMAIN fetched[pending[i].consumer] : fetched[pending[i].consumer][k] = i IN
  /\ ~pending[i].idle
  /\ busy => mishaps < MaxFaults
  /\ mishaps' = IF busy THEN mishaps + 1 ELSE mishaps
  /\ pending' = [pending EXCEPT ![i].idle = TRUE]
  /\ UNCHANGED <<queueVars, stream, trimmed, delivered, fetched, progress, cache, reading, reads,
                 evictions>>

\* A balance read: the answer comes from PostgreSQL, and some time later the
\* same balance is offered to the cache.
ReadCurrent(r, a) ==
  /\ reads < MaxReads /\ reading[r] = NoRead
  /\ reads' = reads + 1
  /\ reading' = [reading EXCEPT ![r] = <<a, version[a]>>]
  /\ UNCHANGED <<outboxVars, delivered, pending, fetched, progress, cache, evictions>>

Refresh(r) ==
  /\ reading[r] # NoRead
  /\ PutIfNewer(reading[r][1], reading[r][2]) \/ UNCHANGED cache
  /\ reading' = [reading EXCEPT ![r] = NoRead]
  /\ UNCHANGED <<outboxVars, delivered, pending, fetched, progress, reads, evictions>>

\* Time passes the TTL of a cache entry.
Evict(a) ==
  /\ cache[a] # Absent /\ evictions < MaxEvictions
  /\ evictions' = evictions + 1
  /\ cache' = [cache EXCEPT ![a] = Absent]
  /\ UNCHANGED <<outboxVars, delivered, pending, fetched, progress, reading, reads>>

\* Redis is discarded; EnsureConsumerGroup creates the group again.
LoseRedis ==
  /\ evictions < MaxEvictions
  /\ evictions' = evictions + 1
  /\ trimmed' = Len(stream) /\ delivered' = Len(stream)
  /\ pending' = <<>>
  /\ cache' = [a \in Accounts |-> Absent]
  /\ UNCHANGED <<queueVars, stream, mishaps, fetched, progress, reading, reads>>

ProjectorStep(p) == RecoverPending(p) \/ ReadGroup(p) \/ Apply(p) \/ Ack(p)

ProjectionNext ==
  \/ \E p \in Projectors : ProjectorStep(p) \/ Drop(p)
  \/ \E i \in DOMAIN pending : BecomeIdle(i)
  \/ \E r \in Readers : Refresh(r) \/ \E a \in Accounts : ReadCurrent(r, a)
  \/ \E a \in Accounts : Evict(a)
  \/ LoseRedis

Init == OutboxInit /\ ProjectionInit
Next == (OutboxNext /\ UNCHANGED cacheVars) \/ ProjectionNext
vars == <<outboxVars, cacheVars>>
Spec == Init /\ [][Next]_vars

\* The entries of an event; all of them are gone from Redis; one is pending.
Copies(e) == {i \in DOMAIN stream : stream[i] = e}
TrimmedAway(e) == Copies(e) # {} /\ \A i \in Copies(e) : i <= trimmed
Awaited(e) == Copies(e) \cap DOMAIN pending # {}

Events == Aggregates \X (FirstVersion + 1 .. FirstVersion + MaxCommits)

\* Workers and projectors poll for as long as they live, and time passes.
LiveSpec ==
  /\ Spec
  /\ \A w \in Publishers : WF_vars(PublisherStep(w) /\ UNCHANGED cacheVars)
  /\ \A p \in Projectors : WF_vars(ProjectorStep(p))
  /\ \A e \in Events :
       WF_vars(e \in DOMAIN rows /\ (LapseClaim(e) \/ BackoffEnds(e)) /\ UNCHANGED cacheVars)
  /\ WF_vars(\E i \in DOMAIN pending : BecomeIdle(i))

-----------------------------------------------------------------------------
\* The cache and the consumer group have their types: no cached version is
\* ahead of PostgreSQL, and pending entries were delivered to someone.
ProjectionTypeOK ==
  /\ delivered \in 0..Len(stream)
  /\ DOMAIN pending \subseteq 1..delivered
  /\ \A i \in DOMAIN pending : pending[i] \in [consumer : Projectors, idle : BOOLEAN]
  /\ \A p \in Projectors : progress[p] \in {"apply", "ack"} <=> fetched[p] # <<>>
  /\ \A a \in Accounts : cache[a] \in {Absent} \cup FirstVersion..version[a]

\* A cached balance is never replaced by an older one, although entries are
\* duplicated, delivered out of order and applied again after a crash, and
\* slow reads offer old balances; also when the version gains a digit.
CacheNeverGoesBack ==
  [][\A a \in Accounts : cache[a] # Absent /\ cache'[a] # Absent => cache'[a] >= cache[a]]_vars

\* An update is acknowledged only when the cache shows it or a newer one: a
\* projector that dies in between leaves it to be recovered.
AcknowledgedIsVisible ==
  evictions = 0 =>
    \A i \in DOMAIN stream :
      i > trimmed /\ i <= delivered /\ i \notin DOMAIN pending /\ stream[i][1] \in Accounts =>
        cache[stream[i][1]] >= stream[i][2]

\* From commit to cache: every committed balance, or a newer one, is seen in the
\* cache at last, unless its event is buried or every entry of it was trimmed
\* or lost with Redis.  What MAXLEN or a loss of Redis takes away costs no
\* other update, neither one behind it nor one published later.
CacheCatchesUp ==
  \A e \in {f \in Events : f[1] \in Accounts} :
    (e \in DOMAIN rows /\ Copies(e) = {}) ~>
      \/ cache[e[1]] >= e[2]
      \/ e \in DOMAIN rows /\ rows[e].state = "dead"
      \/ TrimmedAway(e)

\* No update stays pending for ever, whether its projector died before it was
\* acknowledged, or MAXLEN trimmed its entry or Redis was lost while it was
\* pending: it is taken over and applied, or forgotten.
PendingIsSettled ==
  \A e \in Events : Awaited(e) ~> ~Awaited(e)

=============================================================================
