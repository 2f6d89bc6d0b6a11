-------------------------- MODULE TelemetryMetrics --------------------------
(* The metrics poller and the private exposition of the telemetry collector  *)
(* (cloud-mg-telemetry).                                                     *)
(*                                                                           *)
(* An attempt to poll a guardian is reserved, with the time of the next one, *)
(* before anything is sent; what it collected replaces the stored snapshots  *)
(* in one transaction, under the registration the attempt began with and     *)
(* under a cap on everything stored.  A scrape serves one cached body for as *)
(* long as its key stays: a revision which every change to what the body     *)
(* shows must raise, the nearest end of a lease, and the bucket of time      *)
(* within which freshness is not computed again.                             *)
(*                                                                           *)
(* A snapshot is its size and the time it was taken.  Of a registration only *)
(* the row matters that it leaves (TelemetryTargets).  Two fields of it are  *)
(* not stored: "since", the registration that brought the endpoint and the   *)
(* capability now in use, and "late", the revision under which a             *)
(* registration that had read the clock too early moved the lease.           *)
EXTENDS Integers, FiniteSets, Sequences, SequencesExt, FiniteSetsExt

CONSTANTS
    Mgs,              \* Manifold Guardians that may register
    Seats,            \* guardian seats a guardian may list
    Sizes,            \* sizes of a snapshot
    StateCap,         \* MAX_METRIC_STATE_BYTES
    Lease,            \* lease_seconds
    Cadence,          \* the configured cadence
    Bucket,           \* the length of a freshness bucket
    Workers,          \* concurrency
    MaxRegistrations, \* bound: registrations admitted
    MaxPolls,         \* bound: attempts reserved
    MaxStops,         \* bound: crashes and stops
    MaxTime,          \* bound: the clock
    Lines,            \* the lines a guardian process may show
    MaxLines,         \* bound: lines it shows
    MaxSamples, MaxFamilies, MaxOutput,  \* the limits of the policy
    None

VARIABLES
    now,           \* the collector's clock
    target,        \* the rows of targets
    registrations,
    snapshot,      \* metric_snapshots
    listed,        \* metric_listed_seats
    pollState,     \* metric_poll_state
    revision,      \* metric_exposition_revision
    due,           \* the targets of this cycle no task has taken
    task,          \* per target, what its task is doing
    cache,         \* metrics_cache
    scrape,        \* a scrape between its two transactions
    retained,      \* some response still holds the last body
    alive,
    attempts,      \* per target, the times of its attempts under one policy
    stops,
    feed           \* what a guardian process shows on its metrics port

vars == <<now, target, registrations, snapshot, listed, pollState, revision, due,
          task, cache, scrape, retained, alive, attempts, stops, feed>>

NoRows == [s \in Seats |-> None]

Init ==
    /\ now = 0 /\ target = [m \in Mgs |-> None] /\ registrations = 0
    /\ snapshot = [m \in Mgs |-> NoRows] /\ listed = [m \in Mgs |-> {}]
    /\ pollState = [m \in Mgs |-> None] /\ revision = 0
    /\ due = {} /\ task = [m \in Mgs |-> None]
    /\ cache = None /\ scrape = None /\ retained = FALSE
    /\ alive = TRUE /\ attempts = [m \in Mgs |-> <<>>] /\ stops = 0
    /\ feed = <<>>

-----------------------------------------------------------------------------
(* The store.                                                                *)

ActiveAt(m, time) == target[m] # None /\ target[m].lease > time
ActiveTargets(time) == {m \in Mgs : ActiveAt(m, time)}

\* target_is_current, and the guard of begin_collection_work
TargetIsCurrent(m, r) == ActiveAt(m, now) /\ target[m].revision = r

\* DELETE FROM metric_snapshots of targets whose lease has ended
Unexpired(time) ==
    [m \in Mgs |-> IF ActiveAt(m, time) THEN snapshot[m] ELSE NoRows]
Raised(time) == revision + (IF Unexpired(time) # snapshot THEN 1 ELSE 0)

Tick ==
    /\ now < MaxTime /\ now' = now + 1
    /\ UNCHANGED <<target, registrations, snapshot, listed, pollState, revision, due,
                   task, cache, scrape, retained, alive, attempts, stops, feed>>

\* admit: the time was read before the holder's badge was verified.  A lease
\* that ended meanwhile is not seen to have ended, and one that a registration
\* with a later reading has set is cut short.
Register(m) ==
    /\ alive /\ registrations < MaxRegistrations
    /\ registrations' = registrations + 1
    /\ \E read \in {now, now - 1} \intersect Nat, changed \in BOOLEAN :
        LET row == target[m]
            updated == row = None \/ changed
            expired == row # None /\ row.lease <= read
        IN /\ target' = [target EXCEPT ![m] =
                [lease |-> read + Lease,
                 revision |-> IF row = None THEN 1
                              ELSE row.revision + (IF changed THEN 1 ELSE 0),
                 since |-> IF updated THEN registrations + 1 ELSE row.since,
                 late |-> IF updated \/ expired THEN None
                          ELSE IF row.lease <= now \/ read + Lease < row.lease THEN revision
                          ELSE row.late]]
           /\ snapshot' = IF expired THEN [snapshot EXCEPT ![m] = NoRows] ELSE snapshot
           /\ listed' = IF expired THEN [listed EXCEPT ![m] = {}] ELSE listed
           /\ pollState' = IF expired /\ pollState[m] # None
                           THEN [pollState EXCEPT ![m].complete = None] ELSE pollState
           /\ revision' = revision + (IF expired \/ updated THEN 1 ELSE 0)
    /\ UNCHANGED <<now, due, task, cache, scrape, retained, alive, attempts, stops, feed>>

-----------------------------------------------------------------------------
(* poll_once.                                                                *)

IsDue(m) == pollState[m] = None \/ pollState[m].due <= now
Idle(m) == task' = [task EXCEPT ![m] = None]

\* due_metric_targets, once the tasks of the last cycle were joined
DueMetricTargets ==
    /\ alive /\ due = {} /\ \A m \in Mgs : task[m] = None
    /\ snapshot' = Unexpired(now) /\ revision' = Raised(now)
    /\ due' = {[mg |-> m, revision |-> target[m].revision] :
               m \in {m \in ActiveTargets(now) : IsDue(m)}}
    /\ UNCHANGED <<now, target, registrations, listed, pollState, task, cache, scrape,
                   retained, alive, attempts, stops, feed>>

\* A mutant: an attempt is recorded when it was answered only.
ReserveUnrecorded(t) ==
    /\ alive /\ t \in due
    /\ Cardinality({m \in Mgs : task[m] # None}) < Workers
    /\ due' = due \ {t}
    /\ IF TargetIsCurrent(t.mg, t.revision) /\ IsDue(t.mg)
       THEN /\ FoldFunction(LAMBDA a, n : Len(a) + n, 0, attempts) < MaxPolls
            /\ pollState' = [pollState EXCEPT ![t.mg] =
                [due |-> now, complete |-> IF @ = None THEN None ELSE @.complete]]
            /\ attempts' = [attempts EXCEPT ![t.mg] = @ \o <<now>>]
            /\ task' = [task EXCEPT ![t.mg] = [step |-> "resolve", revision |-> t.revision]]
       ELSE UNCHANGED <<pollState, attempts, task>>
    /\ UNCHANGED <<now, target, registrations, snapshot, listed, revision, cache,
                   scrape, retained, alive, stops, feed>>

\* reserve_metric_attempt
ReserveMetricAttempt(t) ==
    /\ alive /\ t \in due
    /\ Cardinality({m \in Mgs : task[m] # None}) < Workers
    /\ due' = due \ {t}
    /\ IF TargetIsCurrent(t.mg, t.revision) /\ IsDue(t.mg)
       THEN /\ FoldFunction(LAMBDA a, n : Len(a) + n, 0, attempts) < MaxPolls
            /\ pollState' = [pollState EXCEPT ![t.mg] =
                [due |-> now + Cadence, complete |-> IF @ = None THEN None ELSE @.complete]]
            /\ attempts' = [attempts EXCEPT ![t.mg] = @ \o <<now>>]
            /\ task' = [task EXCEPT ![t.mg] = [step |-> "resolve", revision |-> t.revision]]
       ELSE UNCHANGED <<pollState, attempts, task>>
    /\ UNCHANGED <<now, target, registrations, snapshot, listed, revision, cache,
                   scrape, retained, alive, stops, feed>>

Working(m, step) == alive /\ task[m] # None /\ task[m].step = step

\* resolve: begin_collection_work, or its deadline
Resolve(m) ==
    /\ Working(m, "resolve")
    /\ \/ Idle(m)
       \/ /\ TargetIsCurrent(m, task[m].revision)
          /\ task' = [task EXCEPT ![m] = [step |-> "collect", revision |-> @.revision,
                                          since |-> target[m].since]]
    /\ UNCHANGED <<now, target, registrations, snapshot, listed, pollState, revision,
                   due, cache, scrape, retained, alive, attempts, stops, feed>>

\* collect_target: failed_commit, or the seats listed and those of them that
\* answered, in the order they were listed
CollectTarget(m) ==
    /\ Working(m, "collect")
    /\ \E seats \in SUBSET Seats \union {None} :
       \E answered \in SetToSeqs(IF seats = None THEN {} ELSE seats) \union
                       (IF seats = None THEN {} ELSE {<<s>> : s \in seats} \union {<<>>}) :
       \E size \in [1..Len(answered) -> Sizes] :
        task' = [task EXCEPT ![m] =
            [step |-> "commit", revision |-> @.revision, since |-> @.since,
             listed |-> seats, at |-> now,
             rows |-> [i \in 1..Len(answered) |->
                        [seat |-> answered[i], size |-> size[i]]],
             complete |-> seats # None /\ ToSet(answered) = seats]]
    /\ UNCHANGED <<now, target, registrations, snapshot, listed, pollState, revision,
                   due, cache, scrape, retained, alive, attempts, stops, feed>>

Stored(rows) ==
    FoldFunction(LAMBDA seats, n : n +
        FoldFunction(LAMBDA r, k : k + (IF r = None THEN 0 ELSE r.size), 0, seats), 0, rows)

\* commit_metrics: next_bytes
Fits(rows, m, row) ==
    Stored([rows EXCEPT ![m][row.seat] = None]) + row.size <= StateCap

\* commit_metrics: a row that does not fit leaves the seat as it was
StoreRow(m, at, acc, row) ==
    IF Fits(acc.rows, m, row)
    THEN [acc EXCEPT !.rows[m][row.seat] = [size |-> row.size, at |-> at]]
    ELSE [acc EXCEPT !.saturated = TRUE]

\* commit_metrics: seats no longer listed go
KeepListed(rows, m, seats) ==
    [rows EXCEPT ![m] = [s \in Seats |-> IF s \in seats THEN @[s] ELSE None]]

\* commit_metrics: the rows of seats that have one come first
ExistingFirst(rows, m, new) ==
    LET Has(row) == rows[m][row.seat] # None
        HasNot(row) == rows[m][row.seat] = None
    IN SelectSeq(new, Has) \o SelectSeq(new, HasNot)

\* commit_metrics: MetricsCommitOutcome::Stale otherwise
MayCommit(m) == TargetIsCurrent(m, task[m].revision)

CommitMetrics(m) ==
    /\ Working(m, "commit")
    /\ Idle(m)
    /\ IF ~MayCommit(m)
       THEN UNCHANGED <<snapshot, listed, pollState, revision>>
       ELSE LET c == task[m]
                rows == IF c.listed = None THEN Unexpired(now)
                        ELSE KeepListed(Unexpired(now), m, c.listed)
                result == FoldLeft(LAMBDA acc, row : StoreRow(m, c.at, acc, row),
                                   [rows |-> rows, saturated |-> FALSE],
                                   ExistingFirst(rows, m, c.rows))
            IN /\ snapshot' = result.rows
               /\ listed' = IF c.listed = None THEN listed
                            ELSE [listed EXCEPT ![m] = c.listed]
               /\ pollState' = IF c.complete /\ ~result.saturated /\ pollState[m] # None
                               THEN [pollState EXCEPT ![m].complete = now] ELSE pollState
               /\ revision' = revision + 1
    /\ UNCHANGED <<now, target, registrations, due, cache, scrape, retained, alive,
                   attempts, stops, feed>>

-----------------------------------------------------------------------------
(* metrics_at.                                                               *)

\* MIN(lease_until) of the active targets
NextLeaseExpiry(time) ==
    IF ActiveTargets(time) = {} THEN None
    ELSE Min({target[m].lease : m \in ActiveTargets(time)})

\* metric_exposition_version, with the bucket metrics_at adds
Key(time) ==
    [revision |-> Raised(time), expiry |-> NextLeaseExpiry(time), bucket |-> time \div Bucket]

\* metric_exposition: of the rows, in one order, those up to which the sizes
\* add up to no more than the cap
Loaded(rows) ==
    LET order == SetToSeq(Mgs \X Seats)
        Row(i) == rows[order[i][1]][order[i][2]]
        Size(i) == IF Row(i) = None THEN 0 ELSE Row(i).size
        accepted == {order[i] : i \in {i \in DOMAIN order :
                                        MapThenSumSet(Size, 1..i) <= StateCap}}
    IN [m \in Mgs |-> [s \in Seats |-> IF <<m, s>> \in accepted THEN rows[m][s] ELSE None]]

\* metric_exposition: MetricsTargetHealth, with the time freshness is read from
TargetHealth(m) ==
    [seats |-> listed[m],
     complete |-> IF pollState[m] = None THEN None ELSE pollState[m].complete]

Exposition(time) ==
    [rows |-> Loaded(Unexpired(time)), targets |-> ActiveTargets(time),
     health |-> [m \in ActiveTargets(time) |-> TargetHealth(m)]]

\* metrics_at up to the cache: a body under the same key is served again
ScrapeBegin ==
    /\ alive /\ scrape = None
    /\ snapshot' = Unexpired(now) /\ revision' = Raised(now)
    /\ IF cache # None /\ cache.key = Key(now)
       THEN retained' \in {retained, TRUE} /\ UNCHANGED <<cache, scrape>>
       ELSE /\ cache' = None
            /\ scrape' = IF retained THEN None ELSE [at |-> now]
            /\ UNCHANGED retained
    /\ UNCHANGED <<now, target, registrations, listed, pollState, due, task, alive,
                   attempts, stops, feed>>

\* metric_exposition and render_metrics, at the time the scrape had read
ScrapeEnd ==
    /\ alive /\ scrape # None
    /\ snapshot' = Unexpired(scrape.at) /\ revision' = Raised(scrape.at)
    /\ cache' = [key |-> Key(scrape.at), body |-> Exposition(scrape.at)]
    /\ scrape' = None /\ retained' \in BOOLEAN
    /\ UNCHANGED <<now, target, registrations, listed, pollState, due, task, alive,
                   attempts, stops, feed>>

\* The slow reader of an old body is gone (MetricsBodyBacking).
ReleaseBody ==
    /\ retained /\ retained' = FALSE
    /\ UNCHANGED <<now, target, registrations, snapshot, listed, pollState, revision,
                   due, task, cache, scrape, alive, attempts, stops, feed>>

-----------------------------------------------------------------------------
(* The policy (guardian-metrics-policy): which samples of a guardian's body  *)
(* are kept.  A family is kept whole or not at all.  The name of a sample is *)
(* its family and its suffix; a label or a value that is not admitted is     *)
(* "other".  One family of each kind stands for the reviewed inventory, and  *)
(* one for the ones denied by name.                                          *)

Inventory ==
    [app_start_ts |-> [kind |-> "gauge", labels |-> {"version"}],
     mint_inout_sats |-> [kind |-> "histogram", labels |-> {"direction"}],
     peer_connect_total |-> [kind |-> "counter", labels |-> {"direction"}]]

\* The order in which a BTreeMap lists the families.
FamilyOrder == <<"app_start_ts", "mint_inout_sats", "peer_connect_total">>

HistogramParts == {"_bucket", "_sum", "_count"}
BucketSet(family) == {"+Inf"}

Shape(name) ==
    IF /\ name.family \in DOMAIN Inventory
       /\ name.suffix \in (IF Inventory[name.family].kind = "histogram"
                           THEN HistogramParts ELSE {""})
    THEN [family |-> name.family,
          labels |-> Inventory[name.family].labels \union
                     (IF name.suffix = "_bucket" THEN {"le"} ELSE {})]
    ELSE None

AllowedValues(family, label) ==
    CASE label = "version" -> {"v1", "v2"}
      [] label = "direction" -> {"incoming", "outgoing"}
      [] label = "le" -> BucketSet(family)
      [] OTHER -> {}

ValidateLabels(shape, labels) ==
    /\ DOMAIN labels = shape.labels
    /\ \A l \in DOMAIN labels : labels[l] \in AllowedValues(shape.family, l)

\* A line that does not parse, or whose value is no finite number from 0.
Parses(line) == line.value # "other"

NoStage == [samples |-> <<>>, series |-> {}, tainted |-> FALSE]

\* The same series twice, a label or a value that is not admitted, or a line
\* that does not parse, taint the family.
StageLine(stage, line) ==
    LET series == [name |-> line.name, labels |-> line.labels] IN
    IF \/ ~ValidateLabels(Shape(line.name), line.labels)
       \/ series \in stage.series
       \/ ~Parses(line)
    THEN [stage EXCEPT !.tainted = TRUE, !.series = @ \union {series}]
    ELSE [stage EXCEPT !.samples = Append(@, line), !.series = @ \union {series}]

AdmitLine(acc, line) ==
    LET families == acc.families \union {line.name.family}
        counted == [acc EXCEPT !.count = @ + 1, !.families = families]
    IN  IF acc.error \/ acc.count >= MaxSamples \/ Cardinality(families) > MaxFamilies
        THEN [acc EXCEPT !.error = TRUE]
        ELSE IF Shape(line.name) = None THEN [counted EXCEPT !.discarded = TRUE]
        ELSE [counted EXCEPT !.stage[Shape(line.name).family] = StageLine(@, line)]

Without(labels, l) == Restrict(labels, DOMAIN labels \ {l})

\* Every histogram of the family has its sum, its count and all of its buckets.
HistogramsComplete(family, stage) ==
    Inventory[family].kind = "histogram" =>
        \A seen \in {Without(s.labels, "le") : s \in stage.series} :
            LET parts == {s \in stage.series : Without(s.labels, "le") = seen} IN
            /\ {s.name.suffix : s \in parts} = HistogramParts
            /\ {s.labels["le"] : s \in {s \in parts : s.name.suffix = "_bucket"}} =
                   BucketSet(family)

FamilyKept(family, stage) ==
    /\ ~stage.tainted
    /\ HistogramsComplete(family, stage)
    /\ family = "app_start_ts" => Cardinality(stage.series) = 1

Rendered(line, identity) == [line |-> line, identity |-> identity]

\* project_with_identity: the identity's labels make a sample longer.
ProjectWithIdentity(body, identity) ==
    LET read == FoldLeft(AdmitLine,
                    [error |-> FALSE, count |-> 0, families |-> {}, discarded |-> FALSE,
                     stage |-> [f \in ToSet(FamilyOrder) |-> NoStage]], body)
        present == SelectSeq(FamilyOrder, LAMBDA f : read.stage[f].series # {})
        kept == SelectSeq(present, LAMBDA f : FamilyKept(f, read.stage[f]))
        samples == FlattenSeq([i \in DOMAIN kept |-> read.stage[kept[i]].samples])
        length == Len(samples) * (IF identity = None THEN 1 ELSE 2)
    IN  IF read.error \/ length > MaxOutput THEN None
        ELSE [samples |-> [i \in DOMAIN samples |-> Rendered(samples[i], identity)],
              invalid |-> kept # present, discarded |-> read.discarded]

\* What a Manifold Guardian answers for a seat.
FetchGuardianMetrics(body) == ProjectWithIdentity(body, None)

\* revalidate_persisted
RevalidatePersisted(samples, identity) ==
    /\ Len(samples) <= MaxSamples
    /\ \A i \in DOMAIN samples : samples[i].identity = identity
    /\ LET again == ProjectWithIdentity([i \in DOMAIN samples |-> samples[i].line], identity)
       IN  again # None /\ again.samples = samples

Expose(line) ==
    /\ Len(feed) < MaxLines
    /\ feed' = Append(feed, line)
    /\ UNCHANGED <<now, target, registrations, snapshot, listed, pollState, revision, due,
                   task, cache, scrape, retained, alive, attempts, stops>>

-----------------------------------------------------------------------------

Crash ==
    /\ alive /\ stops < MaxStops
    /\ stops' = stops + 1 /\ alive' = FALSE
    /\ due' = {} /\ task' = [m \in Mgs |-> None]
    /\ cache' = None /\ scrape' = None /\ retained' = FALSE
    /\ UNCHANGED <<now, target, registrations, snapshot, listed, pollState, revision,
                   attempts, feed>>

\* serve: configure_metrics_policy, with the policy of this release or another
Start ==
    /\ ~alive /\ alive' = TRUE
    /\ \/ UNCHANGED <<snapshot, pollState, revision, attempts>>
       \/ /\ snapshot' = [m \in Mgs |-> NoRows] /\ pollState' = [m \in Mgs |-> None]
          /\ revision' = revision + 1 /\ attempts' = [m \in Mgs |-> <<>>]
    /\ UNCHANGED <<now, target, registrations, listed, due, task, cache, scrape,
                   retained, stops, feed>>

Next ==
    \/ Tick \/ \E m \in Mgs : Register(m)
    \/ DueMetricTargets \/ \E t \in due : ReserveMetricAttempt(t)
    \/ \E m \in Mgs : Resolve(m) \/ CollectTarget(m) \/ CommitMetrics(m)
    \/ ScrapeBegin \/ ScrapeEnd \/ ReleaseBody
    \/ Crash \/ Start

Spec == Init /\ [][Next]_vars

\* A guardian's metrics port by itself: the policy is a function of what it shows.
PolicyNext == \E line \in Lines : Expose(line)

-----------------------------------------------------------------------------

TypeOK ==
    /\ now \in 0..MaxTime /\ revision \in Nat
    /\ \A m \in Mgs : listed[m] \subseteq Seats
    /\ \A m \in Mgs : \A s \in Seats :
        snapshot[m][s] # None => snapshot[m][s].size \in Sizes /\ s \in listed[m]
    /\ {retained, alive} \subseteq BOOLEAN

\* What the cache would serve now shows the targets whose lease runs, and of
\* the stored snapshots, the listed seats and the last complete polls exactly
\* what is stored: every change to them raises the revision (metrics_at,
\* metric_exposition_version, admit, commit_metrics, due_metric_targets).  One
\* change does not: a registration whose reading of the clock was overtaken
\* before its commit may revive a lease that has ended, or cut one short, and
\* leaves the revision as it is.  A body cached under that revision can leave
\* the target out, or show it beyond its lease, until another part of the key
\* changes: the nearest end of another lease, or the bucket.
CacheIsCurrent ==
    cache # None /\ cache.key = Key(now) =>
        LET shown == cache.body  actual == Exposition(now) IN
        /\ shown.rows = actual.rows
        /\ \A m \in Mgs : (m \in shown.targets) # (m \in actual.targets) =>
            target[m].late = cache.key.revision
        /\ \A m \in shown.targets \intersect actual.targets :
            shown.health[m] = actual.health[m]

\* Under one policy two attempts to poll a guardian are a cadence apart, whatever
\* registers or restarts in between (reserve_metric_attempt before any network
\* work).
CadenceIsKept ==
    \A m \in Mgs : \A i \in 1..(Len(attempts[m]) - 1) :
        attempts[m][i] + Cadence <= attempts[m][i + 1]

\* Everything stored stays within the cap (commit_metrics).
StoredIsCapped == Stored(snapshot) <= StateCap

\* The policy keeps exactly the families all of whose samples are admitted,
\* distinct and complete, in one order; a collector takes whatever a Manifold
\* Guardian projected without discarding anything, or refuses it for its length;
\* and what was admitted is admitted again when it is read back from the store,
\* sample by sample (project_with_identity, revalidate_persisted).
PolicyIsExact ==
    LET projected == FetchGuardianMetrics(feed)
        admitted == ProjectWithIdentity(feed, "id")
        LinesOf(p) == [i \in DOMAIN p.samples |-> p.samples[i].line]
        Of(family) == {i \in DOMAIN feed : Shape(feed[i].name) # None /\ feed[i].name.family = family}
        Valid(i) == ValidateLabels(Shape(feed[i].name), feed[i].labels) /\ feed[i].value # "other"
        Whole(family) ==
            /\ \A i \in Of(family) : Valid(i)
            /\ \A i, j \in Of(family) : i # j =>
                    feed[i].name # feed[j].name \/ feed[i].labels # feed[j].labels
            /\ family = "app_start_ts" => Cardinality(Of(family)) <= 1
            /\ family = "mint_inout_sats" => \A i \in Of(family) :
                 LET d == feed[i].labels.direction
                     Has(suffix, labels) == \E j \in Of(family) :
                        feed[j].name.suffix = suffix /\ feed[j].labels = labels
                 IN  /\ Has("_sum", [direction |-> d]) /\ Has("_count", [direction |-> d])
                     /\ \A le \in BucketSet(family) : Has("_bucket", [direction |-> d, le |-> le])
    IN  /\ projected # None =>
            /\ ToSet(LinesOf(projected)) =
                   {feed[i] : i \in UNION {Of(f) : f \in {f \in ToSet(FamilyOrder) : Whole(f)}}}
            /\ LET again == ProjectWithIdentity(LinesOf(projected), "id") IN
               again # None => /\ LinesOf(again) = LinesOf(projected)
                               /\ ~again.invalid /\ ~again.discarded
        /\ admitted # None => RevalidatePersisted(admitted.samples, "id")

\* What a poll collected is stored, its snapshots, the seats it listed and the
\* time it was complete, only if the guardian has kept the endpoint and the
\* capability that the poll used ever since, although a registration may have
\* changed them and changed them back; and only while its lease lasts (admit,
\* begin_collection_work, target_is_current in commit_metrics).
CommitsAreFenced ==
    \A m \in Mgs :
        /\ task[m] # None /\ task[m].step = "commit" /\ task'[m] = None /\ alive'
        /\ <<snapshot'[m], listed'[m], pollState'[m]>> # <<snapshot[m], listed[m], pollState[m]>>
        => task[m].since = target[m].since /\ target[m].lease > now
=============================================================================
