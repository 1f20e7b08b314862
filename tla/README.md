# Verification of the request queue

TLA+ models of the inference queue in `src/`: its Redis scheduler, its worker
pool and recovery loop, its submission and admission paths, the event stream to
the client, sign-in, and the process from start to exit. TLC checks the models
on small instances; TLAPS proves every safety property that the runs check, and
three refinements, for all values of the constants. `PROJECT.json` maps every
definition to the lines it models.

## The system

A Go program serves an HTTP API and runs, in the same process, worker
goroutines and a recovery loop. Several instances may share one Redis and one
PostgreSQL. Between any two calls to these stores, any other request, worker or
loop, of any instance, may act.

| Component | State | Operations |
|---|---|---|
| scheduler | per-user lists, active set scored by a rotation counter, enqueue times, queue-level keys, lease deadlines, completion markers (Redis) | enqueue, fair dequeue, requeue or remove if expired, adopt an orphan, extend, release, mark, unmark |
| job store | job rows with status and retry count (PostgreSQL) | create, mark completed, mark failed, update created, list orphans |
| worker pool | one job per worker, its heartbeat, its job context | claim, run, renew, clean up after success or failure |
| recovery | a list being worked off, the cutoff, the retry count read | sweep leases, reconcile markers, sweep orphans |
| submission | idempotency keys with reverse mapping, coalescing keys (Redis) | claim or get, coalesce, admit, create, bind, enqueue, compensate |
| admission | token bucket per tier, tier cache (Redis), tier of the user (PostgreSQL) | look up the tier, model and token policies, charge the bucket, change the tier |
| event stream | Redis stream per job with its TTL; per connection a reader, a channel, a handler | publish, close, subscribe, deliver |
| inference client, retry helper | attempt and position in the answer | attempt, classify the failure, try again |
| authentication, user accounts | sign-in states (Redis), user rows and linked accounts (PostgreSQL), tokens | log in, call back, exchange the code, register and link in one transaction, appoint an administrator, issue a token |
| lifecycle | position of `main`, started modules, both pools, the server, two deadlines | build, start with rollback, serve, drain, stop in reverse order, close |
| transport, health checks, observability, configuration | none of its own | binding, probes, metrics, settings |

How they meet: `Submit` admits a request, creates a row and enqueues the job; a
worker claims it under a lease, publishes chunks to the stream, writes the row,
the idempotency key and the terminal event, and releases the lease. Recovery
looks for expired leases, markers without a completed row, and rows without a
queue entry. Leases are sorted-set entries by job: they carry no owner.

What makes this hard:

- each terminal transition is four to six calls to two stores, any of which may
  fail, and the process may die between them;
- workers, two recovery loops, heartbeats and late requests meet at one lease;
- lists, retry counts, statuses and tiers are read in one call and used in a
  later one;
- the Redis client repeats a command whose reply was lost;
- keys and streams expire while somebody still counts on them;
- timestamps are taken before the scripts that use them run;
- a shutdown waits for goroutines that wait for others, against two deadlines;
- a callback may be loaded twice, and the reply to its commit may be lost.

`PROJECT.json` lists the hazards one by one, at their lines.

## Modules

| Module | Models | Built on |
|---|---|---|
| `Domain` | jobs, users, the owner of a job | |
| `Leases` | lease deadlines, completion markers, the Redis clock | `Domain` |
| `Scheduler` | `lua_scripts.go` and `repository.go`: one action per script | `Leases` |
| `Overtaking` | `Scheduler` with a history of turns | `Scheduler` |
| `SchedulerRing` | the scores of `Scheduler` read as the ring of `FairQueue` | `Scheduler` |
| `FairQueue` | the abstract scheduler: users in a ring, each turn the oldest job | `Leases` |
| `JobStore` | rows, the idempotency status and the first terminal event of a job | `Domain` |
| `Worker` | `processJob` call by call, and the heartbeat | `FairQueue`, `JobStore` |
| `Recovery` | `Sweep`, `recoverOne`, `ReconcileCompleted`, `SweepOrphans` call by call | `Worker` |
| `Pipeline` | the composition, with crashes, failing calls, stalls and the clock | `Recovery` |
| `Submission` | `Submit` with both kinds of key and its compensations | |
| `Admission` | `Admit`: tier cache, policies, token bucket script | |
| `Streaming` | inference attempts, `Publish`, `Subscribe`, `HandleStream` | |
| `SignIn` | `HandleCallback` call by call, the GitHub client's retries, the unit of work, administrators, tokens | |
| `Directory` | the abstract accounts: join, appoint, issue, change a tier, each in one step | |
| `Lifecycle` | `main`, `Run`, `Registry`, `Start` and `Stop` of the pool and of recovery, the pools | |
| `PipelineProofs`, `PipelineStepProofs`, `SchedulerProofs`, `AdmissionProofs`, `SubmissionProofs`, `StreamingProofs`, `SignInProofs`, `LifecycleProofs` | theorems | their modules |
| `MC...` | the instances for TLC | their modules |

A Lua script or a single command is atomic and is one action. Everything else
is a sequence of such actions: a worker, a recovery loop and a request each have
a stage (`stage`, `rstage`), named for the next call. An error path is the branch
the code takes when that call fails. Definitions that no action uses are mutants:
the code with a plausible mistake, which the property `PROJECT.json` pairs it
with must detect.

`FairQueue` is the hinge. The scripts are proved to implement it with the ring as
the active users in the order of their scores, and the composition, which uses the
ring and is spared scores and counters, is proved to implement it too: workers,
recovery loops and requests call the queue only as `FairQueue` lets its callers.

Data is abstracted to what properties tell apart. Jobs, users, keys and hashes
are model values; payloads and messages are absent; a chunk is its number; a
prompt is its length, because the policies and the cost depend on it. Times
are counted in units of which a lease, a bucket or a cache entry lasts a few.

### Conventions worth knowing

- `phase[j]` in `Scheduler` and `FairQueue` is the request that submits `j`. The
  orphan sweep and the expiry of the queue-level key wait for it to settle: its
  timeout (25 s, `inference/transport/routes.go:12`) is shorter than both.
- In `Pipeline` a *stall* is time passing faster than work: a lease runs out under
  a live worker, or a job outlives the orphan grace period while queued or leased.
  Until the first stall heartbeats and cleanup keep up with the clock. `MaxFaults`
  bounds crashes, failed calls and stalls together.
- A worker whose lease is lost during the run is `gone`, not idle: `DoWithRetry`
  answers the cancelled job context with `context.Canceled` (`retry.go:47`), which
  `runWorker` takes for the end of the pool (`worker_pool.go:195`).
- `Submission` names a job after the request that creates it. It has workers and
  the sweep only as far as submissions notice them.
- `spent[t]` in `Admission` adds up what bucket `t` has granted since the moment `opened`,
  and `slipped[t]` by how much scripts that ran out of order have set its stored time
  back since. `opened` is any of `Openings`, chosen once and for all: with it `Budget`
  speaks of every interval, not only of the time since the start.
- In `Streaming` an entry keeps its index when the stream expires; `dropped` counts
  the entries that are gone. `places` remembers which entries a connection has passed
  on, and only the properties look at it. One worker at a time runs the job, and calls
  on the row and the marker succeed: their failures are the subject of `Pipeline`.
- A user that a callback registers is named after the callback: its UUID is fresh.
  What a transaction has written is in the callback's `step` until it commits; the
  insert of a link waits for another transaction on the same account, as the unique
  index makes it.
- `Lifecycle` knows of a job only that a worker is in it and may query PostgreSQL.
  `faults` records what really went wrong, `errs` what `Run` collects. No module
  fails to start today; `MayFail` lets one, because `Registry.Start` is written for it.

## Runs

### What holds

| Run | Instance | What it shows |
|---|---|---|
| `scheduler` | 2 users, 3 jobs, capacity 1 | the scripts in any order keep list, active set, keys and leases in step; a job is in one place; FIFO per user; only a returning lease exceeds the capacity; nobody is passed twice; refinement of `FairQueue` |
| `faults` | 1 job, 2 workers, 1 loop; two of a crash, a failed call and a stall; fair | a job is never queued while leased; "completed" is reported only for an answer that was produced; until the first stall, one owner at a time; a retry count that never falls; while a worker is left, every job becomes terminal for good and no lease, queue entry or marker stays behind |
| `prompt` | 2 loops, no fault, fair | a terminal status is final; no subscriber and no repeated request is told of an end the row does not say; row, key and stream end up agreeing |
| `submission` | 3 requests, 2 keys, 2 hashes, capacity 1; 1 failed call, 1 delay, 1 expiry, fair | one job per key, one open job per hash, accepted requests are handled, replayed ones name a completed job, rejected ones do not run, no key hangs in flight, every job ends |
| `admission` | 3 requests, 2 tiers, 1 change of tier, 1 failed call | whatever moment one counts from, buckets stay within their budget; no request is judged by a tier long gone |
| `streaming` | 2 chunks, 2 attempts, batch 2, channel of 1, 1 connection; 1 fault, fair | ordered replay from the first event; nothing out of order or twice even when the stream expires under its reader; a completed answer is whole; a connection ends with its stream |
| `signin` | 1 account, 2 logins, 3 callbacks (two of one login), 1 administrator, 2 attempts per call; 2 faults, fair | users and linked accounts are one to one; a token says what the row says; whoever gets in is the account's user; without faults only duplicates are refused; every callback is answered; a returning user gets in, also after a lost commit; refinement of `Directory` |
| `lifecycle` | 2 workers, 2 requests; every step of the build and the start of recovery may fail, fair | the pools close under nobody who was given time; a failed start leaves no worker; a stopped pool claims nothing more; a shutdown ends, though jobs, streams and sweeps hang |

Several properties except what the code does not promise, and say so in their
comments: for example `OneJobPerKey` speaks of executions without expired keys and
with at most one failing call, `RejectedNeverRuns` of those without a failing call
or an overdue compensation. The condition is a bound that has not been used up
yet, so one run covers both the property and the faults it survives.

### What the repository says and the code does not do

| Run | Claim | What happens |
|---|---|---|
| `only_owner_finishes` | `src/README.md:133`: only the lease owner makes terminal changes | a worker stalls after its heartbeat was stopped and fails the job of the next owner |
| `accepted_has_job` | `handler.go:62`: accepted and queued for processing | the shadowed `err` of the cleanup turns a failed creation into 202 without a job |
| `created_is_temporary` | `src/README.md:199`, `:62`: a job is `created` temporarily; recovery makes up for a worker that loses ownership | a failed renewal takes a worker out of the pool for good; after as many as there are workers nobody claims, and the requeued job stays `created` |
| `clean_shutdown` | `http_server.go:56`: server was shut down successfully | `app.go:116` collects an error where there is none: a signal, an orderly shutdown, and `main` panics |

`created_is_temporary` is checked under the fairness below: workers that are left act,
recovery keeps passing, and the job waits for ever. Its counterpart is
`EventuallyTerminal`, which holds as long as one worker is left.

### Bounds

- One job and two workers are enough for `Pipeline`. Jobs meet only in the queue,
  which `scheduler` covers with three; two workers give a stale owner and a new one.
  Two loops are in `prompt` alone: with faults as well the liveness check is out of
  reach. `PipelineProofs` covers any number of both.
- `MaxAttempts = 2`: a job is requeued once and exhausted the next time.
- Capacity 1 makes a full queue, and the return of a lease to it, happen at once.
- `MaxRotation` and `MaxTime` cut `Scheduler` off. The invariants are proved without
  a use of the cut: the proofs hold for every value of both.
- Two requests share a key and two share a hash in `submission`, in different pairs.
- In `admission` the bucket of a tier holds one or two tokens and time runs to 4: long
  enough for a bucket and a cache entry to be forgotten. `MaxLag` is the longest
  request. Tokens are counted from the start or from time 3 (`Openings`), when a bucket
  may have rested: a balance without its cap breaks the budget of the second interval
  only. The proof covers all moments.
- A connection never influences another or the worker, so `streaming` has one. A
  channel of 1 and a batch of 2 make the reader wait in the middle of a batch. `OrderedReplay`
  and `WholeAnswer` also held with two faults (14.4 million states).
- In `signin` one account is enough for the races, which are between callbacks of one
  account; the third callback follows a first sign-in or races with it. Two attempts
  per call let one be lost and the next succeed or fail. Tokens expire at any time.
- In `lifecycle` two workers and two requests let one end in time and one not. The
  deadlines are booleans that become true at any moment after they are set.

Deadlock is checked in the scheduler and pipeline runs, where something can always
happen (a repeated command, a recovery pass), and in `signin`, where administrators
come and tokens expire. Submissions, admissions, streams and processes end, so there
it is not.

### Fairness

Weak fairness only, on the steps of a goroutine as a whole.

- Worker and recovery steps: goroutines the runtime schedules; inference ends by the
  idle timeout of the client, polling and ticks repeat.
- `EnqueueAccepted`, `RequestEnds` and `Submit`: requests end by their timeout.
- `TimePasses`, `GraceEnds`: the clock.
- `Delivery` in `Streaming`: the reader and the handler of a connection.
- `Handle` in `SignIn`: a handler that has begun; Redis, GitHub and PostgreSQL answer or
  the route's timeout ends the call.
- `MainStep`, the two deadlines and `Release` in `Lifecycle`: `main` runs on, timers
  fire, a query that has a connection returns. Workers, handlers and sweeps are not
  fair there: a shutdown has to end without them.

No fault is fair, no heartbeat is (a timely one is what the absence of a stall means),
and neither is a client that leaves. Faults are bounded, so the liveness results say:
once faults stop.

## Proofs

All constants are arbitrary, under the named assumptions of the modules. Type
invariants are proved on the way (`TypeCorrect`, `PipelineTyped`, `AdmissionTypes`,
`SubmissionTyped`, `StreamingTyped`, `SignInTyped`, `LifecycleTyped`). That no two active
users share a score and none is above the counter (`TurnsAreOrdered`), and that only queued
jobs have an enqueue time (`EnqueueTimesKept`), is proved and not a property of a run;
neither are `SubmissionTyped` and `StreamingTyped`.

**Scheduler** (`SchedulerProofs`). `IndInv` is the conjunction of `TypeOK`,
`ActiveIffPending`, `RotationOrder`, `OnePlace`, `KeyGuardsResend` and
`EnqueueTimesQueued`. None is inductive alone. A push looks at the list, not at the
active set, to decide on activation, so it needs `ActiveIffPending`; a repeated
enqueue does not look at leases, so it needs `KeyGuardsResend`; the dequeue of a job
keeps `OnePlace` only if the job was queued once. `PushLemma` and `DequeueLemma` deal
with the two kinds of script that touch lists, `LeaseChangeLemma` with the others.
Results: `TypeCorrect`, `JobInOnePlace`, `NoPendingUserLost`, `TurnsAreOrdered`,
`EnqueueTimesKept`, `ResendIsGuarded`, and, as action properties,
`CapacityAtAdmission` and `OldestJobFirst` (a list loses nothing but its oldest entry,
to a claim that leases it). Assumptions: jobs have owners, the lease and the capacity are
positive.

`RoundRobin`: while a user waits, every other user is served once at most. The
strengthening `Behind` says why: whoever was served during the wait is out of the ring
or has a higher score than the one who waits, because scores come from a counter above
all scores in use.

`ScriptsKeepPromise` is the refinement of `FairQueue`. The ring is defined without
sorting: the place of a user is the number of users with a score as low
(`SchedulerRing`), and `RingIs` shows that any sequence that lists the active users by
rising score, once each, is that ring; it also shows them to be finitely many, which is
not assumed of the users. So it is enough to say what a script does to
such a sequence: a new highest score appends (`RingJoin`), the lowest score is at the
head (`RingFront`), and taking it away leaves the tail (`RingLeave`). `PushJoins` and
`DequeueServes` then turn each script into a step of the promise. The scores need
`RotationOrder` for this: with two equal scores there would be no ring.

**Queue and pipeline** (`PipelineProofs`, `PipelineStepProofs`). `QueueIsSound` is the
invariant of the abstract queue: a job has one place, and the ring holds exactly the
users with jobs, once each. `JoinLemma`, `ServeLemma` and `QuietLemma` say what each
operation does to it; every step of `Pipeline` is one of these operations on the queue
or none, so `OnePlaceAlways` follows for any number of jobs, users, workers, recovery
loops and faults. `CompletedIsEarnedAlways` follows a result on its way to the client:
worker stages after the inference, completion markers, and what a recovery loop has
read of them (`WorkInv`, `ResultInv`, `RecoveryInv`) all concern jobs with a result.
`SoleOwnerAlways` needs `OwnerInv`: before the first stall the lease of whoever holds a
job ends in the future, and no recovery loop has a cutoff in the future, so nothing
takes the lease away and `OnePlace` keeps the job out of the queue.

`RetryNeverFallsAlways` assumes one recovery loop and nothing of stalls or other faults.
Between the read of the count and its write come the requeue script and, possibly, a
worker's whole run; `Counted` says that what the loop has read is still in the row,
because nobody else writes counts.

`TerminalIsFinalAlways` covers any number of loops and speaks of the time before the
first fault. Nothing in the UPDATE protects the status, so the proof has to know where
every job is. `Calm` says it: what the row is at each stage of the worker that holds the
job (`HandsInv`); that a leased or queued job is not terminal unless its worker has just
made it so (`PlacesInv`); that a job a loop is failing is in no other place and no other
loop's hands (`FailingInv`), because only one of the expiry scripts finds the lease;
that no job becomes an orphan (`NoOrphan`, `ListsInv`); and that a marker means a
completed row or a worker about to write it (`MarkedInv`). `Peace` restricts this to
executions without a fault. It was checked by TLC, with one job and two loops and with
two jobs, before it was proved.

`ToldIsRecordedAlways` is about the same executions: what a subscriber hears, and what a
repeated request is answered, is what the row says, whichever of the worker and the
loops tells it. A row is written some calls before the key and the stream, so the proof
follows those who are between the two: whoever is about to tell an end has recorded it
(`TellersInv`). `Agreed` adds it to the property and is inductive on top of `Calm`; a
told end stays right because terminal rows do not change (`StatusesKept`).

`PipelineUsesQueue` is the refinement of `FairQueue` by the composition. The mapping
`Told` leaves out the time in which a request has created its row and not yet called
the queue, since `FairQueue` knows a request only from its first call on. That cutoffs
are not in the future comes from `OwnerInv`.

**Submission** (`SubmissionProofs`). `AcceptedIsHandledAlways` and
`CompletedKeyAlways`. The second rests on how a key changes hands: one request at most
holds it between `ClaimOrGet` and `SetJobID` (`HeldByOne`), during which it has no job
(`Holding`); afterwards key and reverse mapping agree (`Bound`).
`OneJobPerKeyAlways`, `OneOpenJobPerHashAlways`, `RejectedNeverRunsAlways` and
`InFlightIsRealAlways` hold while the faults that their properties name have not
happened. They share `Places` (at which steps of `Submit` the job has a row and may be
in the queue), which holds with all faults, and have a strengthening each in `Calm`: an
open job keeps its key taken and every other request of the key out of the steps that
could create another (`KeyUse`), the same for hashes (`HashUse`), a request turned away
has no job that runs (`TurnedAway`), and a taken key belongs to somebody at work
(`AtWork`). The bounds on faults are natural numbers (`BoundAssumption`).

**Streaming** (`StreamingProofs`). `OrderedReplayAlways` follows each entry: what the
handler has written, what is in the channel and what the reader has fetched are
consecutive pieces of the stream, for any sizes of batch and channel (`Replays`).
`WholeAnswerAlways` needs to know what the stream tells: every chunk continues the
attempt that began at the first event or after the last "retrying", and "completed"
comes only after the last chunk (`Story`). `StreamedAlways` is both with their types.
`NeverOutOfOrderAlways` is what remains when the stream expires: entries may be missing,
but those that arrive are in order, none twice, and a terminal one is the last. The places
of the entries passed on rise up to `lastID`, which only grows, and what is in the channel
continues what was written (`Sequel`).

**Sign-in** (`SignInProofs`). `OneUserPerAccountAlways`, `TokenRoleIsCurrentAlways`,
`SignedInAsOwnerAlways`, and the refinement `SignInRefinesDirectory`. A commit has to
know that its user is new (`Fresh`) and that nobody else can commit for the account
(`SoleWriter`, from the unique index); a response, that the user identified some calls
ago is still the account's (`Owned`). With these, each action is a step of `Directory`
or leaves its variables alone. `OnlyDuplicatesFailAlways` needs the traces that a
callback leaves: the state it took, the code it spent, the link it wrote. Without faults
every refusal has another callback's trace as its cause (`Excused`).

**Lifecycle** (`LifecycleProofs`). `PoolsOutliveWorkAlways`,
`RollbackIsCompleteAlways` and the action property `StopsClaimingAlways`. The first two
say nothing until the pools are closing or `main` has given up, so the invariant
follows `main`: what runs, is started and is cancelled at each of its steps (`Starting`,
`RollingBack`, `Draining`, `Stopping`, `Closing`).
`ShutdownCountsDown` is the part of `ShutdownEnds` that needs no fairness, for any number
of workers and requests: of the at most eight steps from the drain to the end of `Run`
(`StepsLeft`) none is taken back, nobody takes a connection from a closing pool, and
wherever `main` is, its deadline or the return of the connections is all that it waits
for (`NothingToAwait`).

**Token buckets** (`AdmissionProofs`). `WithinBudget`: what a bucket has granted since
any moment is at most its capacity plus its fill over the time since and the slipped time.
The time counts from `Earliest`, the longest request before that moment, because a script
may carry a timestamp that old. The invariant keeps the books per bucket (`Ledger`: granted plus held tokens against the time the
bucket was last given, from the first script of the interval on) and per request
(`OnTime`: its timestamp lies in its life). The first script of an interval finds at most
a full bucket, however long the rest before it: this is where the cap is used.
A forgotten bucket comes back full, which costs nothing by `TTLAssumption`: the TTL,
less the longest request, is enough to fill it. The shipped settings satisfy it
(`configs/admission.yml`: capacity 2000, 10 and 50 tokens per second, TTL 3600 s and
1800 s, requests of 25 s at most). `AdmissionTypes` is its typing part.
`TierRecentAlways`: the cache can be filled with a tier read before a change and
survive the invalidation, but an entry never outlives the last moment its tier was
the user's by more than a request and the TTL of the cache (`Sightings`), and neither
does what a request has read of it (`Judged`).

Only model-checked: the liveness properties (`EventuallyTerminal`, `EventuallyClean`,
`EventuallySettled`, `EveryJobEnds`, `EventuallyOver`, `EveryCallbackAnswered`,
`ReturningGetsIn`, `ShutdownEnds`). They rest on fairness, and fairness on `ENABLED`,
which the prover does not handle; `ShutdownCountsDown` is what is proved
towards `ShutdownEnds`. The four claims that the runs refute are no theorems.

## Observations

Behaviour that the models contain, that no line of the repository contradicts, and
that a maintainer may want to know:

- A requeue does not test the capacity; `OnlyRecoveryExceedsCapacity` says exactly how
  far this goes.
- `MarkCompleted` and `MarkFailed` read the status and update without a condition. With
  a stall a terminal status can be overwritten; `TerminalIsFinal` holds until the first
  fault.
- The orphan list and the retry count are used after the rows may have changed. Of two
  recovery loops the slower one can write an older count, also without a fault, so
  `RetryNeverFalls` is a property of one loop; a job then gets more attempts than its
  policy gives it.
- The sweep runs before the reconciliation and does not look at markers: a job whose
  worker died after setting the marker is requeued and runs again before
  `src/README.md:147` ("recovery uses the Redis completion marker to finish the job
  state") applies to it.
- A process that dies after `MarkFailed` leaves the key in flight and the stream without
  its end: recovery skips rows that are not `created` (`src/README.md:63`: "recovery
  handles incomplete state transitions").
- Scripts that run in another order than their timestamps fill an interval of the bucket
  twice; `Budget` counts that time (`src/README.md:75`: "cannot spend the same available
  balance twice").
- A request turned away by coalescing keeps its idempotency key in flight until the
  TTL. A coalescing key is not released when its job ends.
- The 2 s compensation context may be over before the compensation begins.
- `SetJobID` failing and `MarkFailed` failing after it leave a job that a repetition of
  the request does not know of.
- `NewWorkerPool` checks `MaxRenewalFailures` and does not store it, so the first failed
  renewal counts as the last (see `created_is_temporary`).
- The cleanup context of a worker has no deadline (`worker_pool.go:309`), where
  `src/README.md:172` speaks of bounded ones.
- After the drain timeout the log says "closing remaining connections"; nothing closes
  them (`app.go:110`). `RecoveryService.Stop` does not wait for its goroutine. Both may
  still query when the pools close; `Close` of the PostgreSQL pool waits for them.
- The PostgreSQL pool stays open when Redis cannot be reached (`infra.go:32`), and both
  do when routes or modules fail; the process ends right after.
- A signal that arrives together with a failure of the server can hide the failure.
- The exchange of a code is repeated with the request whose body the first attempt has
  read; what the second one sends is up to `net/http`, and the model allows both.
- A Redis outage while the state is looked up is answered 401, like a state that is
  not there.
- `ReconcileCompleted` publishes a second "completed" for every completed job, because
  only it removes the marker. Subscribers stop at the first one.
- A stream whose only event was added by a process that died before `EXPIRE` has no
  TTL. The 30 minutes of a stream count from its first event, across all attempts.
- The comment at `token_aware.go:43` says nanoseconds; `Allow` passes milliseconds.

## Not modelled

- A second clock. The cutoff of the sweep is the clock of the program, lease deadlines
  come from the clock of Redis. A small skew moves the moment a lease counts as
  expired, and a stall of `Pipeline` stands for an early one; nothing in the code bounds
  or detects a large one.
- The delays of the retry helpers, the polling interval and the heartbeat comment of a
  connection: when something happens, not what.
- The HTTP exchanges with the inference server and with GitHub, down to the idle timer:
  their outcomes are nondeterministic. Signature and encoding of tokens.
- Binding and rendering of HTTP messages, request identifiers; of the error
  resolution only what decides the status of a sign-in.
- Health checks: stateless probes of the two stores.
- Metrics and logs: nothing reads them back.
- Constructors and adapters that only convert: that they may fail is a step of
  `Lifecycle`, their settings are the constants of the modules.
