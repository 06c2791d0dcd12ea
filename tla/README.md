# A verification of gfap

gfap crawls a video site. Its hard part is not fetching pages but never losing
or repeating work while workers die, calls get lost, Redis is restarted from an
old snapshot, and listings must be visited again and again. This directory
holds TLA+ models of that part, the TLC runs that check them and the TLAPS
proofs that carry what the runs show to every size of the system.

Run from this directory:

    tlc -workers 2 -config Frontier_mixed.cfg MCFrontier
    for m in *Proofs.tla; do tlapm $m; done

## The system

| Part | Source | State | Operations |
|---|---|---|---|
| URL frontier | `internal/storage/frontier.go` | Redis keys `crawler:ready`, `processing`, `lease`, `delayed`, `dead`, `attempts`, `strikes`, `listing:next`, `listing:barren`, `bloom`, `job:seq` | `AdmitVideo`, `AdmitListing`, `SeedListing`, `Lease`, `Ack`, `Nack`, `CompleteListing`, `Fail`, `Terminal`, `Promote`, `Reap`, `Sweep`, `RunListingScheduler` |
| Workers | `internal/crawler/worker.go` | the leased job, links not yet admitted, consecutive rate limits | `workerLoop`, `handleOutcome`, `enqueueChildren`, `resolve`, `Run` |
| Reconcilers | `internal/scheduler/scheduler.go` | whether a tick is draining | one ticker loop each around a frontier call, `BGSAVE`, the filter monitor, the heartbeat |
| Process | `cmd/crawler/main.go` | root context, wait group | filter reconciliation, restore, seeding, launch, shutdown |
| Checkpoints | `internal/storage/crawl_state.go`, `internal/scheduler/crawl_state.go` | Mongo `crawler_state_v1`, the recorded `run_id` | `Checkpoint` |
| Restore | `internal/storage/crawl_state_restore.go` | Redis `crawler:state:restore:v1` | `Restore` |
| Redis access | `internal/storage/redis.go` | the Bloom filter | `BloomAddBatch`, `BloomInit`, `BloomVerify`, `Snapshot` |
| Mongo access | `internal/storage/mongo.go` | the stored videos | `Upsert`, `EachVideoURL` |
| Canonicalization | `internal/crawler/crawler.go`, `worker.go` | none | `canonicalize`, `admitURL`, the classifier, `CheckRedirect` |
| Bounded test | `internal/crawler/crawler.go`, `main.go` | observations per worker and URL, the verdict | `InitTest`, `RunTest`, `validateTestWorkers`, `SaveTest` |
| Configuration | `internal/config/config.go`, `main.go` | the environment | `Load`, `LoadTest`, the guards of `main` and `RunTest` |
| Rest | `metrics`, `auth`, `model` | gauges, cookies | `POST /stop`, login, matching of titles |

How they interact. Workers and reconcilers are goroutines of one process and
share nothing but Redis, Mongo and a root context. Each frontier call is one Lua
script, which Redis runs without interleaving; everything in between
interleaves. A URL is a *video* (fetched once, claimed in a Bloom filter), or a
*listing* (visited for ever, claimed by the score `PENDING` in the schedule). A
job is a pair of a fresh id and a URL; the lease set says who may resolve it.
At start-up the process brings the filter up to the videos in Mongo, restores
the schedule from Mongo if Redis is empty, seeds `BaseUrl`, and starts the
goroutines.

What is hard, and which part is correct when:

- *Frontier.* Workers outlive their leases and resolve late; scripts can stop
  half-way (`BF.ADD` on a full filter, a `LEASE` cut short); the same listing is
  found by links and by the scheduler. Correct when a late resolution changes
  nothing, each claimed URL has exactly one job until it is settled, `PENDING`
  is exact, a quarantine ends in a revisit, and counters end with the work.
- *Workers.* Any call can fail before or after it took effect, and the context
  can end anywhere. Correct when nothing is acknowledged before it is stored
  and its links are known, a lease protects its holder, and the process ends.
- *Checkpoints and restore.* The crawler and Redis die independently, Redis
  comes back older. Correct when the crawl runs on facts that the frontier
  could have produced, a partial restore is never taken for a frontier, and the
  crawler never makes its own state unstartable.

- *Reconcilers.* Each call looks at a bounded window, and everything that waits
  depends on one of them. Correct when a tick ends, nothing due is left by a
  drain, every waiting job moves, and a job is not overlooked by torn reads.
- *Filter.* Each start meets a filter that somebody else left, and Redis may lose
  it under a running crawl. Correct when start-up closes the gap to Mongo, is
  refused only for a reason, no claimed video is lost, and a broken filter stops
  the crawl.
- *URLs.* An address is decoded, encoded and compared at admission, at lease time
  and at every redirect. Correct when a video has one URL and its document holds
  its own page.
- *Bounded test.* Its verdict compares what cancelled workers left behind. Correct
  when a pass is never given to a crawl that failed a requirement, and it ends.
- *Configuration.* Production and a test that flushes its Redis run on one host
  with one environment, and overrides are free text. Correct when the two never
  share storage and no override is applied in part.

`PROJECT.json` lists these hazards one by one, at their lines.

## The modules

| Module | Models |
|---|---|
| `Frontier` | `frontier.go`: one action per script, with the most general client |
| `FrontierProofs` | theorems about `Frontier`, and that it implements `Facts` |
| `Facts` | what the frontier promises per URL, without jobs, leases and batches |
| `Crawler` | worker loop, supervisor, reconciler passes, start and end of the process, on top of `Frontier` |
| `FrontierRestart` | `Frontier` over a Redis that restarts from an older snapshot |
| `CrawlState` | checkpoint, restore, snapshots, restarts of Redis and of the crawler, on top of `Facts` |
| `FrontierScripts` | the Lua scripts as sequences of Redis commands that may stop in the middle; refines `Frontier` |
| `Reconcilers` | the ticker loops of `scheduler.go` and the heartbeat, on top of `Frontier` |
| `CrawlerProofs`, `ReconcilersProofs` | theorems about the three modules that build on `Frontier`, on top of `FrontierProofs`; those about `FrontierRestart` are in the first |
| `FrontierScriptsProofs` | theorems about `FrontierScripts` |
| `CrawlStateProofs`, `BoundedTestProofs`, `CanonicalProofs` | theorems about the module of that name |
| `StartupProofs` | theorems about what `main` does before a crawl: `Settings` and `BloomLife` |
| `BloomLife` | the Bloom filter, and what start-up makes of it, over starts, kills, snapshots and Redis restarts |
| `Canonical` | the forms of a URL: canonicalization, class, redirects, document, checkpoint row |
| `BoundedTest` | `crawler -test`: RunTest, its workers and the verdict |
| `Settings` | the environment, what is loaded from it and what is accepted |
| `MC...` | small instances for TLC |

Definitions keep the names of the code where they can. A definition whose name
ends in `_Something` is a changed form of the definition after it; it is used
by nothing, and shows which mistake a property is there to catch.

### Frontier

Variables are the Redis keys. Sorted sets and hashes are functions on the
members they hold; `attempts` and `strikes` are 0 where the hash has no field.
The lists `ready` and `processing` are sets: members enter with ever larger ids
and leave smallest first, so the ids carry the order. `now` is the clock of
every caller. `issued` and `acked` are history.

One action is one script. Ties among equal scores are broken in every way
(`Page`, `Sorted`), where Redis breaks them by the bytes of the member. The two
places where a script can stop with its earlier writes left behind, and which
the code reckons with, are in the model: `AdmitVideo` pushes the job and only
then asks the filter, which may refuse because it is full; `LeaseAborted` is
the interrupted `LEASE` that `Sweep` exists for.

The filter is the set of what was added, a capacity, and a set `Collides` of
false positives. `Excluded` holds listings that an earlier build scheduled and
that `canonicalize` rejects now; an old Redis may contain them from the start.

The client may do what some holder in the program does: any job that was ever
handed out can be resolved at any later time with any resolution that the
worker has for its class of URL.

### Facts

The same facts per URL (`next`, `barren`, `dead`, `bloom`) and the set `work` of
URLs that have a job in any structure. `ImplementsFacts` is the refinement, with
`work <- Live`: leasing, requeueing, promoting, reaping and sweeping are
stuttering steps, and every other script is one of six actions.

### Crawler

Each worker has a program counter (`loop`, `leased`, `fetch`, `store`, `admit`,
`resolve`, `fatal`, `stopped`); one call to Redis, Mongo or the site is one step.
A page is what `process` makes of it: one of the outcome kinds, and for a page
the links `Links[u]`. A call can fail before or after it took effect, and the
process can be killed between any two steps; such faults are counted against
`MaxFaults`. When the context is done, calls made under it fail without being
counted; resolutions run under a context of their own and do not.

`ImplementsFrontier` says that the process uses the frontier only as `Frontier`
allows, so that everything shown of `Frontier` holds of the process.

### CrawlState

Redis (the facts, the restore marker, `runId`), its RDB file, Mongo (`rows`,
`stored`), and the control state of `main` and the checkpoint goroutine. Every look
at the `run_id` is a step apart from the command it protects, so Redis can
restart in between. `Write` converts a row the way `restoreBatch` does: `PENDING`
becomes due now, a quarantine that is over is dropped, a URL that is dead for
good is not scheduled. `Save` may stop after some of its rows. `whole`, `torn`
and `readFrom` are history: whether the restore that Redis stems from was
finished, whether a crawler worked on with another Redis process than it was
started with, and under which `run_id` a batch was read.

The constant `Unlucky` says whether Redis may also restart between the last look
at its `run_id` and the write that follows. The passing run says no, and
`recovery_restart_in_batch` shows what happens otherwise.

### FrontierScripts

The state is the Redis database as the scripts see it: `ready` and `processing`
are lists, counters are hashes without zeros. A script is the sequence of
commands it issues; what it decides before its first write is taken from
`Frontier`. A script that walks a batch is a sequence of turns, each a script of its
own. `Whole` runs all commands, `Aborted` ends after any one of them, since Redis does
not undo the writes of a script whose later command fails. Redis starts empty,
without listings of an earlier build. Up to the first such
failure every step is a step of `Frontier` (`ImplementsFrontier`): this is what
justifies treating the lists as sets ordered by id and the loops over a batch as
one change. After it the refinement is lost, and `DuplicateNotLoss` and
`FenceSurvives` say what is not.

### Reconcilers

`ListingTick`, `ListingPage` and `PageFails` are the drain loop, one call per step,
ended by a short page, an error or the context; `LastPage` is its condition. The
other loops make one call per tick. All other users of the frontier are one
action, `Client`, which need never happen. The heartbeat asks `Idle`, three reads
in a pipeline, and any script of another client may run in between; `excused` is
the history of one beat, kept while its reads have found nothing.

### BloomLife

The filter by its `shape` (missing, reserved by the code or the init container,
made by `BF.ADD` with default parameters, or of an earlier version), its contents
and its capacity; of the frontier which videos have work or are dead, and whether
the schedule is empty. Start-up is `BloomInit`, `BloomVerify`, `Reconcile` batch by
batch, `Restore`, and `Launch`, which seeds the base page; each step may find Redis
restarted since the last. `Restore` is one step here and refuses what the code
refuses, a frontier without a schedule; `CrawlState` takes it apart. A worker leases a
video, stores it (`Upsert`), admits links, and then resolves its job: `Ack`, `Terminal`
or `Return`, which is every way in which the job stays (a Nack, a lease that ran out, a
lost or late answer). It may be killed, or find Redis gone back, between any two.

`Snapshot` may fall at any moment, with the crawler up or down: `make snapshot` and
`make infra-stop` save as well as `runSnapshotter`. So may `Reserve`, which
`make infra-start` runs. `lost` and `everLost` are history: whether Redis restarted
under this process, and under any.

### Canonical

A URL is a record of what `net/url` tells apart: scheme, user, host, decoded path,
trailing slash, the text of `v`, whether it comes first in the query, what else
the query holds, fragment. `canonicalize` and the classifier are operators on such
records; the state machine admits links, fetches through redirects, stores pages
and takes checkpoints. A server may answer anything, but only the page of a video
has a title, a date and a duration. Two details that need not be equal are kept
apart: the path is compared decoded and written encoded, and a query is written
back as it came.

### BoundedTest

The frontier is reduced to the place of each URL (new, ready, processing, delayed,
gone), which is what `Frontier` guarantees of it. Workers run the same loop as in
`Crawler` with the observations that only the test makes; `mpc` is the control
state of `RunTest` and `main`. `Idle` is three reads here too. Faults are failing
calls, lost answers and leases that run out, bounded by `MaxFaults`; that calls
fail once their context is done is no fault. The clock has three values, because
`limiter.Wait` gives up already when the deadline would come before its permit.
Redis is empty at the start (`InitTest`); Mongo may hold `Leftover`, documents of a
killed test, which has no checkpoint to restore.

### Settings

The environment is chosen once; production and test may be started and stopped in
any order. A number is a token that `Atoi` accepts or not. A port is a text: digits
with some leading zeros and perhaps a plus sign before them. The guards of `main`
look at the text (`IsPort`: `TrimLeft` cuts zeros off and leaves a sign), a dial at the
number (`RedisReached`, `MongoReached`), and `net` takes the sign. What comes after the
guard is part of the question too: `url.Parse` wants digits after the last colon
(`UrlParses`), and the Mongo driver decodes a host before it reads its port, which makes
a sign a blank and an error (`MongoOpens`). `Backoff` is how `luaFail` uses a table of
seconds.

## The runs

Passing runs:

| Run | Question | States |
|---|---|---|
| `frontier` | A listing and three videos, one of them a false positive, over a filter with room for two: is `PENDING` exact (`PendingIffLive`), is no URL queued twice (`OneJobPerURL`), lost (`VideoClaimKept`) or quarantined without a revisit (`DeadIsSettled`); is the lease a sound fence (`FencedJobs`, `LeasedAtMostOnce`), do counters end with the work (`FailureCounters`), does work without a claim only come from a full filter (`UnclaimedOnlyWhenFull`), and is `Facts` implemented? | 0.78 M |
| `crawler` | Two workers and one fault anywhere: stored before acknowledged (`StoredBeforeAck`), links known before done (`ChildrenKnown`), two workers on one URL only after a lease expired (`ExclusiveUnlessExpired`), the refinement (`ImplementsFrontier`); and does a process end that was cancelled or has no worker left (`ProcessEnds`)? | 0.19 M |
| `frontier_rollback` | Redis goes back to an older snapshot under running workers: do schedule, jobs and filter still agree (`RollbackSound`)? | 0.4 M |
| `recovery` | Two restarts of Redis and any number of crashes of the crawler, in every order with checkpoints and snapshots: `RecoveredSound`, `NoPartialFrontier`, `RefusesOnlyTorn`, `RowsFromRecordedProcess`. | 4.6 M |
| `scripts` | Do the scripts, command by command on lists and hashes, implement `Frontier`? When two scripts of a history stop after any of their commands, is no claimed URL lost (`DuplicateNotLoss`) and no job resolved twice (`FenceSurvives`)? | 0.43 M |
| `reconcilers` | With windows of one: does every drain end (`DrainEnds`), and only when nothing is due (`DrainIsComplete`), does every waiting job move (`WorkReturns`)? Can `Idle` overlook a job? Only if one entered `ready` during the reads (`IdleUnlessEntered`). | 75 k |
| `bloom` | Three faults anywhere, two videos and a filter with room for one: is every claimed video stored, queued or given up, in Redis and in its file (`ClaimedNotLost`), is no stored video admitted again without a cause (`NotAdmittedAgain`), is a start refused only after a loss or by a full filter (`RefusedOnlyWithCause`), and does no crawl go on with a filter of another shape (`BrokenFilterHalts`)? | 1.1 M |
| `canonical` | Every spelling of a link, raw and encoded bars, the video pattern in a query, every redirect: one URL per video and nothing admitted is dropped (`CanonicalIsStable`), documents hold their own page (`StoredIsItself`), only a raw query fails a checkpoint (`FailsOnlyForQuery`). | 0.32 M |
| `bounded_verdict` | One fault, rate limits, signals, the deadline, a document of an earlier test: is a pass sound and on a corpus of its own (`PassIsSound`), are doubles only due to faults (`DoubledOnlyByFault`), is everything at rest after the join (`RestAfterJoin`)? | 5.2 M |
| `bounded_ends` | Does the test end (`TestEnds`)? | 0.39 M |
| `settings_hosts` | All environments over three tokens and four ports, with up to two Mongo hosts: do production and test share storage only through a port with a sign (`SharedOnlyBySign`), and do the waits of a URL come from one table, whatever is malformed (`WaitsFromOneTable`)? | 0.57 M |

All hold. One run shows a mistake in the code: `recovery_restart_in_batch`. Redis
restarts between `checkRestoreBarrier` and the transaction of `restoreBatch`. The
batch lands in a Redis without marker, this start is aborted, and the next one
preserves the fragment.

### Where comments say something else

Met while modelling; the models take the side of the code, and the properties
above are stated so as to hold of it. No run of its own is about these.

- `frontier.go:47`: `PENDING` "marks a listing as having a live job". A listing of
  an earlier build that is excluded now is acknowledged by `workerLoop`; `luaAck`
  does not touch the schedule, so it stays `PENDING` without a job. Nothing is
  lost, since the URL is excluded; `PendingIffLive` leaves such listings out.
- `frontier.go:30`: a job is "leased at most once". After a rollback `job:seq` repeats
  ids, and the same job can be handed out twice. `RollbackSound` is what survives.
- `scheduler.go:48`: a gap between snapshots costs "duplicate work, not lost data". A
  video stored after the last snapshot is put into the filter again at start-up, so
  it is not fetched again, but its links went back with Redis; a page linked only
  from it is not found again.
- `scheduler.go:50`: "the frontier re-derives itself by crawling", but from something:
  the schedule is seeded at start-up only (`main.go:186`). `make infra-start` reserves the
  filter and `make snapshot` may save it before the first crawl; when Redis later
  restarts from that file under a running crawler, the monitor finds the filter in
  order and the crawl idles until somebody restarts it. `BrokenFilterHalts` is about
  filters of another shape and does not exclude this.
- `src/README.md:47`: "Production startup rejects the reserved test storage ports" and
  "Test and production use separate containers and volumes, not just different Redis
  database indexes". `REDIS_ADDR=localhost:+16379` passes the guard of `main.go:50` and
  dials 16379, the Redis of the test; the two are then told apart by their database
  index alone. `SharedOnlyBySign` says that this is the only way, and that Mongo cannot
  be reached so.
- `frontier.go:430`: "canonical URLs never contain '|'". The query of a listing keeps a
  raw bar. Members are still split rightly, but the checkpoint rejects the row and
  fails every pass from then on; `FailsOnlyForQuery` says that this is the only way.
- `frontier.go:28`: the filter holds "video URLs". A listing whose query holds
  `/watch?v=` is claimed as a video. Nothing is ever stored for it (`StoredIsItself`).
- `redis.go:130` forbids an ungated `BloomAddBatch`; `main` refills the filter on every
  start. `NotAdmittedAgain` rests on the refill, so the comment is what is out of date.
- `redis.go` tells the operator in its errors to run `make reset-bloom`, a target that
  `src/README.md:154` says was removed. A start-up that `BloomVerify` refuses stays
  refused until somebody deletes the key by hand, which is why `BrokenFilterHalts`
  promises a halt and not a recovery.
- `metrics.go:97`: `frontier_idle` is 1 "if the frontier has nothing ready, processing,
  or delayed". It can be 1 although the frontier held a job all the time, in the one
  way that `IdleUnlessEntered` allows.
- `config.go:97` accepts `SCHEDULER_BATCH_LIMIT=0`, with which no page is below its limit
  and a drain never ends; the run has a positive limit. Zero and negative numbers
  are loaded as they are in all settings, `MAX_STRIKES=0` or a negative wait too:
  `getEnvInt` refuses only what is not a number. `Frontier` assumes usable ones.
- `src/README.md:62`: "In-flight writes can overshoot the target". A write that Mongo
  applied while the crawl was being cancelled is stored and not counted; the counts
  differ and a crawl that met its target fails.

### Bounds

- `MaxNow` bounds the clock. With times of 1, `MaxNow = 2` lets a lease, a backoff, a
  revisit interval and a quarantine run out.
- `MaxJob` bounds the ids, so the number of admissions and requeues: five give a
  listing its first job, a retry, a promotion, a reap and a revisit, or two videos
  a job and a retry each. In `Crawler` every worker with a job keeps an id in
  reserve (`Room`), so that the bound never keeps a worker from giving its job back
  and shutdown is not stuck on it; four let a listing complete, a video be stored
  and a filter with room for one refuse another, because the second video is a
  false positive or comes first.
- Batch limits are 1 or 2, so a pass leaves members behind as well as taking
  several.
- `MaxStrikes` is 2, so a strike is remembered once and the next is terminal;
  1 in the runs whose subject is something else.
- `MaxFaults = 1`, `MaxRestart = 2`: one fault, wherever it falls, next to any
  number of expiries and cancellations; a restart of Redis during the recovery
  from another. `MaxBarren` bounds the barren count, which `Facts` leaves
  unrelated to the TTL. In `recovery` a visited listing is due again at once and
  only a quarantine lies in the future, which are the two cases a row can save.
- `PendingScore` only has to be beyond every due time (`PendingAssumption`).
- Symmetry is declared among videos that differ in nothing (`frontier`), and among
  workers (`bounded_verdict`), and never in a run with liveness properties.

- `Exhausted` and `Waits` in `Reconcilers` name what the bounds on ids and time
  cut off: liveness is claimed up to the point where no id is left, and of what
  falls due within `MaxNow`.
- `FrontierScripts` has one video and one listing, and up to four ids, so that
  lists have several members; `MaxAborts = 2` lets one abort fall on what another
  left behind.
- `MaxRedirects = 3` allows two hops and refuses the next. A video, its spellings and another video, a
  listing and a refused address are enough for every pair of ends of a redirect.
- In `BoundedTest` the target is two videos for two workers, so that every worker
  can have its own, one of them a document of an earlier test. `bounded_ends` has
  one video, which bounds how much there is to do before the end and not how the
  end comes about.
- Three faults in `bloom` are a loss, a kill and another loss. Two videos, a filter with
  room for one and batches of one let the filter be full with a video left outside it
  and reconciliation be refused after a batch that was not.
- `settings_hosts` has tokens that are malformed, zero and positive, and the port of the
  test as it stands, with a zero and with a sign before it, next to another. Overrides
  have up to two entries and the defaults three, so `MaxAttempts = 4` runs past the end
  of either.

Deadlock is checked in every run but those of `BoundedTest` and `Settings`: a test
ends, and an environment may start neither program.

### Fairness

`CFairSpec` has weak fairness on each worker's step, on the supervisor and on
the exit of `main`. Goroutines are scheduled, every call a worker makes has a
timeout or ends with the context, and the exit waits for nothing else. There no
fairness is assumed for the environment, the reconcilers or the clock. An idle
worker whose queue is empty is no obstacle: it looks at the context on every
turn.

`RFairSpec` has weak fairness on each loop and on the clock, and none on clients:
tickers fire, a call returns (`crawlState` and go-redis calls have timeouts), time
passes. `FairSpec` of `BloomLife` has weak fairness on the monitor, whose ticker fires; on
the resolution of what a worker holds, since every call has a timeout; on the end of a
stopping process; and on the steps of a start-up, the first of them because the
Deployment starts a container again that has ended. Nothing is assumed of operators,
snapshots, checkpoints or links. `BFairSpec` has weak fairness on workers, on main and on the clock, whose deadline ends the test;
nothing is assumed of the reconcilers.

## The proofs

Every theorem holds for all values of the constants within the named `ASSUME`s,
so for any number of workers, URLs, restarts and faults; the `Max...` bounds are
arbitrary numbers there. Each proof module states an inductive invariant, which
TLC checked on the run's instance before it was proved, and derives the
properties of the runs from it.

| Theorem | States |
|---|---|
| *`FrontierProofs`* | |
| `TypeCorrect` | `TypeOK`; no due time is mistaken for `PENDING` |
| `Fencing`, `LeasedOnce` | the lease set is a sound fence; no job is leased twice |
| `NoDoubleWork` | no listing and no claimed video has two jobs |
| `PendingExact` | `PENDING` is exact |
| `NoVideoLost` | a claimed video is acknowledged, dead or queued |
| `DeadSettled` | dead URLs have no work, a quarantine ends in a revisit |
| `CountersSound` | strikes stay below the limit and end with the work |
| `UnclaimedFull` | a video has work without a claim only when the filter is full |
| `NewOnce` | a listing never leaves the schedule: the `ZREM` of the scheduler is unreachable (`NewAtMostOnce`; the run `frontier` checks it through `ImplementsFacts`) |
| `FrontierRefines` | `Frontier` implements `Facts` |
| *`CrawlerProofs`* | |
| `CrawlerRefines` | the process implements `Frontier` |
| `StoredFirst`, `ChildContract` | stored before acknowledged, links known before done |
| `LeaseExcludes` | two workers on one claimed URL only after a lease expired |
| `RollbackIsSound` | `RollbackSound`, of `FrontierRestart` |
| *`FrontierScriptsProofs`* | |
| `ScriptsLoseNothing` | `DuplicateNotLoss` |
| `ScriptsKeepTheFence` | `FenceSurvives` |
| `ScriptsRefine` | `ImplementsFrontier`: until an error cuts one short, the scripts implement `Frontier` |
| `ScriptsStaySound` | the invariant behind all three: wherever scripts stop, the lists are in the order of their ids |
| *`ReconcilersProofs`* | |
| `DrainComplete` | a drain without error or cancellation leaves nothing due |
| `IdleIsExcused` | `IdleUnlessEntered` |
| *`CrawlStateProofs`* | |
| `RecoveryIsSound`, `RestoreIsWhole`, `RefusalIsJustified` | `RecoveredSound`, `NoPartialFrontier`, `RefusesOnlyTorn`, each unless `Unlucky` |
| `RowsAreOurs` | `RowsFromRecordedProcess` |
| *`BoundedTestProofs`* | |
| `PassMeansPass`, `DoublesNeedFaults`, `NothingRunsAfterJoin` | `PassIsSound`, `DoubledOnlyByFault`, `RestAfterJoin` |
| *`CanonicalProofs`* | |
| `OneSpelling`, `DocumentIsItsOwn`, `CheckpointFailsForQuery` | `CanonicalIsStable`, `StoredIsItself`, `FailsOnlyForQuery` |
| *`StartupProofs`* | |
| `SharesOnlyBySign` | production and test share no Mongo, and a Redis only through a port with a sign |
| `WaitsAreFromOneTable` | every wait comes from the operator's complete table or from the default |
| `NoClaimLost` | a claimed video is stored, queued or given up, in Redis and in its file |
| `NoReadmission` | a stored video is admitted again only after a loss or when the filter is full |
| `RefusalHasCause` | `RefusedOnlyWithCause` |

### Frontier

Assumptions: videos and listings are disjoint, batch limits and times are
natural numbers, the ladders are not empty, and `PENDING` is beyond every due
time. `MaxNow` and `MaxJob` are arbitrary numbers, so nothing depends on them.

The argument. None of these is inductive alone. That a requeue does not
give a URL a second job needs that the old job was in one place only, which is
the fence; that an admission does not needs `PENDING` to be exact; that
`PENDING` is exact after a job is settled needs that it was the only job of its
URL; that a dead video gets no work needs the filter. The inductive invariant
`IndInv` is therefore the conjunction of the types, the fence and all facts per
URL (`UrlInv`), proved in that order: `TypeStep`, `FencedStep` from the types,
`UrlStep` from both. The scripts are first brought into three forms: a requeue
replaces jobs by jobs with new ids and the same URLs (`Replaces`), another
resolution settles its job (`Settles`), an admission makes new jobs for URLs
without work (`NewJobs`).

`FrontierRefines` goes through the scripts once more (`FactsStep`): a requeue is a
stutter because the URL has work before and after, and a settlement ends the
work of its URL only because the job it removes was the only one, which is
`OneJobPerURL`. A video outside the filter may have several jobs and keep one of
them, which `Facts` allows.

### Crawler

`CInv` has, next to `IndInv`, two facts per worker. `Held`: the job it works on was
handed out, and its lease is the one it was given or is gone after its deadline.
`Progress`: what it has stored and made known when it is at its label. A step
of one worker keeps them for the others because what the frontier knows only
grows (`KnownStays`) and because only the holder or the reaper ends a lease
(`LeaseKept`). That the frontier under the process is `Frontier` follows, since
a worker resolves only what it was handed. `ClaimedUnlessFull` is needed for the
start of the process: the refill of the filter from Mongo adds nothing to what
the frontier claimed itself (`StartIsStutter`).

### FrontierRestart

A rollback breaks the fence of `FencedJobs`: ids are minted again. `UrlStep`
turns out to need less, `Fence`, which says nothing about jobs that are out. So
`RInv` states types, `Fence` and `UrlInv` twice, of the live keys and of the
snapshot (`Saved`, an instance of `Frontier` over the file), and a restart
replaces one by the other.

### FrontierScripts

An error may stop a script after any command, so what is invariant must hold in the
middle of every script. `Sound` is therefore stated of the keys alone, with the jobs
that were leased and the URLs that were acknowledged as parameters: types, the order
of the ids (`Order`), the fence, and the claims (`Kept`). Each command keeps it under a
condition of its own. `INCR` gives an id that no job has (`Fresh`), and only then may
`LPUSH` or the `ZADD` to `delayed` use it. `LREM` and the `ZREM` from `delayed` may take a
job that is `Spare`: its URL has another job, is dead or is acknowledged. A lease
may be dropped at any time. A video may be revived only while something else
stands for its claim, and `PENDING` may be written only for a listing with a job. A
script is correct because its order meets these conditions one after the other; this
is what "destination first" comes to. That `LREM` with count 1 removes the job, and not
one of two copies, needs the lists to be in order, which is why `Order` is
needed even for the claims.

A batch may have any length. `After` and `Turns` are recursive functions on numbers; that
they are computed command by command is proved with `CountUp`, an induction on
numbers that the library's well-founded order on finite sets gives without an
operator as parameter. From one turn to the next `Carried` holds: the keys are sound,
no lease was added and no id was taken back since the call began.

`ScriptsRefine` is about the exact keys and not only about soundness. Every command
has its effect on each key (`IncrEffect`, `DropEffect`, ...), and so has a script that
runs to its end; the count of errors is never negative, so a step that leaves it 0
has run its script to the end. There is one lemma per call (`AckRefines`, `ReapRefines`,
...). Two sides must meet there. `Frontier` takes the job with the smallest id, a
script the last of a list, and `LREM` removes one copy where `Frontier` removes a
member: both need `Order`. A loop changes the keys once per turn where `Frontier`
names the result: what a batch of any length leaves is proved key by key with `CountUp`,
by one lemma per kind of change (`LoopJobs` for `seq` and `ready`, `LoopUnhashes`,
`LoopUnlists`, `LoopWalks` for the schedule, `LoopOthers`). `Chosen` is the order in
which the members were given their ids, with those that were skipped left out. The window
of `SWEEP`, the last entries of a list, is a page of the oldest jobs by counting
(`Window`). That a sorted set is a function on its members (`Hash`) is in the invariant
for this: removing nothing must give back the same keys.

### Reconcilers

`DrainComplete`: for every page limit and every finite
set of listings, a drain that ends without an error or a cancellation has left
nothing due. The loop stops on the number of jobs a page made, not on the number
of listings it looked at, so the two must be the same: that is `DeadIsSettled`,
which makes no due listing dead (`DueIsFree`). The loops take only steps of
`Frontier` (`LoopStep`), so `IndInv` holds under them; a page that was not full is
then all that was due, by counting (`LastPageTakesAll`).

`IdleIsExcused` rests on the order of the reads: a job enters `processing` from
nowhere but `ready` (`ProcessingFromReady`), so what was read empty stays empty
unless something enters `ready` (`BeatKnows`).

### CrawlState

`SInv` says what Redis and its file hold at any moment: contents sound for the
frontier (`Content`), and `Recoverable`, which ties the marker to the rest: a partial
restore is marked; data that was not torn has no work and a row to restore while
the marker says "restoring", and otherwise nothing that start-up would refuse. `RestorePhase` and `CrawlPhase` say what the process
knows at each step, and always under `SameProcess`: what it learned of a Redis
that has restarted since is worth nothing. The hypothesis `~Unlucky` cannot be
dropped, as `recovery_restart_in_batch` shows. `RowsAreOurs` does without it. The
assumptions are those of `Frontier`: videos and listings are disjoint, `PENDING` is
beyond every due time.

### BoundedTest

`BInv`: `testActive` counts exactly the workers inside a fetch (`Observed`); the
workers' records, the counter and Mongo agree (`Ledger`); `RunTest` passes a check
only when it holds, and nothing changes it afterwards because all workers have
stopped (`Verdict`); as long as there was no fault each job has one holder, which has
its lease, and a recorded video is not fetched again (`FaultFree`). Workers
and left-over documents are assumed to be finite sets.

### Canonical

Everything rests on `Projection`: what `canonicalize` returns is a fixed point, because
the id of a video survives decoding and encoding (`IdSurvives`) and the query of a
listing is not touched. `CanonInv` says that all the crawler keeps is such a fixed
point (`KnownURLs`) and that a video's request is always a spelling of its own address
(`OnTrack`). `SiteAssumption` makes links URLs and keeps `/watch` out of the channel
paths; `TextAssumption` only says that the texts in `canonicalize` are strings.

### Startup

`Settings`: what runs was made from the environment and passed the guards
(`SettingsInv`). The text of a port without a sign is its number up to zeros, so what the
guards accepted and the driver opened is elsewhere, but for a Redis behind a sign
(`AcceptedElsewhere`). `OneTable` is about `getEnvIntSlice` and `Backoff` together, for
tables of any contents and every count of failures.

`BloomLife`: `FilterInv` says that `BF.ADD` makes a filter of its own only after a loss
(`NeverAuto`), that queued videos are claimed or the filter is full, in Redis and
in its file (`QueuedIsClaimed`), that workers hold only what a crawl leased and have
stored what they say (`Holders`), and that a process which kept its Redis has closed the
gap between Mongo and the filter as far as it has come (`NoGap`). The gap must be closed
for what workers hold as well: an `Upsert` adds to Mongo what was claimed when it was
admitted. `ClaimedNotLost` is inductive next to these: `Ack` takes a job only after
`Upsert`, and what Mongo has it keeps when Redis goes back. `Scheduled` says that without a
loss a frontier has a schedule, which is what `Restore` asks for. That a refused
batch leaves a full filter is counted (`ReconcileFills`).

### Only model-checked

- Liveness, which the prover does not handle: `ProcessEnds`, `BrokenFilterHalts`,
  `DrainEnds`, `WorkReturns`, `TestEnds`.

## What is not modelled

- HTML parsing, titles, headers, `process` beyond the kind of its result; the
  matching of titles and dates (`model`), which is pure text.
- Login and the HTTP client (`auth`): I/O, apart from the redirects it asks about.
- Decoding of BSON rows, which accepts what the crawler writes. Row validation is
  in `Canonical`, for the URL.
- The false-positive rate of the filter: a false positive is a member of
  `Collides`, not a number. The fill alerts of the monitor only log.
- `Resume`, which reloads counters for the log, `Clear`, `FindAll`, `BloomReset` and
  `RequireEmptyMongoForTest`, which nothing calls, `TestWorkerSummary`, counters of
  `metrics` and the HTTP server, of which `POST /stop` is a cause of cancellation.
- A test that is started by hand on the Mongo of a finished one, and so restores
  its checkpoint; `make test` discards both stores first.
- Settings that meet no guard.

## Plan

Done, in this order: `Frontier`, its proofs, `Crawler`, `Facts`, `FrontierRestart`,
`CrawlState`, `Canonical`, `BloomLife`, `FrontierScripts`, `Reconcilers` with its
proof, `BoundedTest`, `Settings`, then the proofs
of every safety property and of every refinement. Left: shorter proofs, where several
modules prove facts alike, as the growth of the filter in `CrawlerProofs` and
`StartupProofs`.
