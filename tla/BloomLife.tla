------------------------------ MODULE BloomLife ------------------------------
(***************************************************************************)
(* The Bloom filter crawler:bloom and what depends on it, over the lives   *)
(* of the processes that need it: reserved and verified at start-up and    *)
(* filled from MongoDB in batches (main.go, redis.go, mongo.go), asked at  *)
(* every admission (frontier.go), watched by runBloomMonitor               *)
(* (scheduler.go), and lost or set back with everything else in Redis when *)
(* Redis restarts.                                                         *)
(*                                                                         *)
(* BF.ADD creates a filter of default size when the key is missing: that   *)
(* is the shape "auto".  "stale" is a filter some earlier version reserved *)
(* with another capacity.  Of the schedule only its being empty matters    *)
(* here.  A restore or a checkpoint is one step; CrawlState takes them     *)
(* apart.                                                                  *)
(***************************************************************************)
EXTENDS Naturals, FiniteSets

CONSTANTS
    Video,
    BloomCapacity,
    BloomReconcileBatch,   \* bloomReconcileBatch, 5000
    MaxFaults              \* bound on restarts of Redis and kills of the process

ASSUME BloomLifeAssumption ==
    BloomCapacity \in Nat /\ BloomReconcileBatch \in Nat \ {0} /\ MaxFaults \in Nat

VARIABLES
    redis,       \* [shape, items: the filter; work: videos with a job;
                 \*  dead: videos given up; scheduled: listing:next is not empty]
    snapshot,    \* the RDB file
    corpus,      \* the videos in MongoDB
    rows,        \* [scheduled, dead] that crawler_state_v1 holds
    phase,       \* of the process
    created,     \* what BloomInit returned
    todo,        \* the documents reconcileBloomFromMongo has still to read
    refused,     \* why the last start-up ended in log.Fatalf
    hands,       \* per video whether a worker has leased it, and stored it
    visiting,    \* a worker has leased a listing
    recorded,    \* Redis is the process whose run_id the crawl state recorded
    lost,        \* history: Redis restarted since this process started
    everLost,    \* history: Redis ever restarted under a process
    faults       \* restarts of Redis and kills so far

startup == <<created, todo, refused>>

workers == <<hands, visiting>>

history == <<recorded, lost, everLost, faults>>

vars == <<redis, snapshot, corpus, rows, phase, startup, workers, history>>

EmptyRedis ==
    [shape |-> "missing", items |-> {}, work |-> {}, dead |-> {}, scheduled |-> FALSE]

\* The filter cannot take another entry; a default filter scales instead.
Full == redis.shape = "reserved" /\ Cardinality(redis.items) >= BloomCapacity

Fault == faults < MaxFaults /\ faults' = faults + 1

\* The shape that BF.ADD leaves.
ShapeAfterAdd == IF redis.shape = "missing" THEN "auto" ELSE redis.shape

IdleHands == [v \in Video |-> "none"]

-----------------------------------------------------------------------------
(* Start-up.                                                               *)

\* The init container of the pod, and make infra-start, which may also be run
\* next to a crawler, reserve a missing filter.
Reserve ==
    /\ redis.shape = "missing"
    /\ redis' = [redis EXCEPT !.shape = "reserved"]
    /\ UNCHANGED <<snapshot, corpus, rows, phase, startup, workers, history>>

\* BF.RESERVE; a filter of any shape that exists already is left alone.
BloomInit_FirstRunOnly ==
    /\ phase = "down"
    /\ created' = (redis.shape = "missing" /\ corpus = {})
    /\ redis' = IF created' THEN [redis EXCEPT !.shape = "reserved"] ELSE redis
    /\ phase' = "verify"
    /\ refused' = "no"
    /\ lost' = FALSE
    /\ UNCHANGED <<snapshot, corpus, rows, todo, workers, recorded, everLost, faults>>

BloomInit ==
    /\ phase = "down"
    /\ created' = (redis.shape = "missing")
    /\ redis' = IF created' THEN [redis EXCEPT !.shape = "reserved"] ELSE redis
    /\ phase' = "verify"
    /\ refused' = "no"
    /\ lost' = FALSE
    /\ UNCHANGED <<snapshot, corpus, rows, todo, workers, recorded, everLost, faults>>

\* BloomVerify: a filter that is missing, or has another capacity, more than
\* one sub-filter or too few bits, is an error.
VerifyFails_MissingOnly == redis.shape = "missing"

VerifyFails == redis.shape # "reserved"

\* log.Fatalf.
Refuse(reason) ==
    /\ phase' = "down"
    /\ refused' = reason
    /\ todo' = {}

\* The documents to read when the filter has passed.
ToReconcile_IfCreated == IF created THEN corpus ELSE {}

ToReconcile == corpus

BloomVerify ==
    /\ phase = "verify"
    /\ \/ VerifyFails /\ Refuse("verify")
       \/ ~VerifyFails /\ phase' = "reconcile" /\ todo' = ToReconcile /\ UNCHANGED refused
    /\ UNCHANGED <<redis, snapshot, corpus, rows, created, workers, history>>

\* The batches of documents EachVideoURL may hand over next: full ones, and at
\* the end what is left.
Batches ==
    {B \in SUBSET todo : Cardinality(B) =
        IF Cardinality(todo) < BloomReconcileBatch THEN Cardinality(todo)
        ELSE BloomReconcileBatch}

\* BloomAddBatch: every command of the pipeline runs, some may be refused.
Reconcile ==
    /\ phase = "reconcile" /\ todo # {}
    /\ \E B \in Batches, A \in SUBSET todo :
          LET new  == B \ redis.items
              room == BloomCapacity - Cardinality(redis.items)
          IN  /\ A \subseteq new
              /\ IF redis.shape # "reserved" \/ Cardinality(new) <= room
                 THEN A = new /\ todo' = todo \ B /\ UNCHANGED <<phase, refused>>
                 ELSE Cardinality(A) = room /\ Refuse("reconcile")
              /\ redis' = [redis EXCEPT !.shape = ShapeAfterAdd, !.items = @ \cup A]
    /\ UNCHANGED <<snapshot, corpus, rows, created, workers, history>>

\* NewCrawlStateStore and Restore: a schedule is preserved, an empty frontier is
\* filled from Mongo, and a frontier without a schedule is refused.
Restore ==
    /\ phase = "reconcile" /\ todo = {}
    /\ recorded' = TRUE
    /\ \/ /\ redis.scheduled
          /\ phase' = "seed"
          /\ UNCHANGED <<redis, refused, todo>>
       \/ /\ ~redis.scheduled /\ (redis.work # {} \/ redis.dead # {})
          /\ Refuse("restore")
          /\ UNCHANGED redis
       \/ /\ ~redis.scheduled /\ redis.work = {} /\ redis.dead = {}
          /\ redis' = [redis EXCEPT !.scheduled = rows.scheduled, !.dead = rows.dead]
          /\ phase' = "seed"
          /\ UNCHANGED <<refused, todo>>
    /\ UNCHANGED <<snapshot, corpus, rows, created, workers, lost, everLost, faults>>

\* SeedListing(BaseUrl), then the goroutines start.
Launch ==
    /\ phase = "seed"
    /\ redis' = [redis EXCEPT !.scheduled = TRUE]
    /\ phase' = "running"
    /\ UNCHANGED <<snapshot, corpus, rows, startup, workers, history>>

-----------------------------------------------------------------------------
(* The workers.                                                            *)

Lease(v) ==
    /\ phase = "running"
    /\ v \in redis.work /\ hands[v] = "none"
    /\ hands' = [hands EXCEPT ![v] = "leased"]
    /\ UNCHANGED <<redis, snapshot, corpus, rows, phase, startup, visiting, history>>

\* The scheduler makes a job of a listing and a worker leases it.
LeaseListing ==
    /\ phase = "running"
    /\ redis.scheduled /\ ~visiting
    /\ visiting' = TRUE
    /\ UNCHANGED <<redis, snapshot, corpus, rows, phase, startup, hands, history>>

\* Mongo.Upsert; one that is under way when the crawl stops may get through.
Upsert(v) ==
    /\ phase \in {"running", "stopping"}
    /\ hands[v] = "leased"
    /\ corpus' = corpus \cup {v}
    /\ hands' = [hands EXCEPT ![v] = "stored"]
    /\ UNCHANGED <<redis, snapshot, rows, phase, startup, visiting, history>>

\* Some worker is at enqueueChildren, of a listing or of a video it has stored.
AtLinks == phase = "running" /\ (visiting \/ \E w \in Video : hands[w] = "stored")

\* AdmitVideo: the job is pushed first.  A full filter is an error that stops
\* the crawl (maybeFatalAdmission) and leaves the job.
Admit(v) ==
    /\ AtLinks
    /\ v \notin redis.dead /\ v \notin redis.items
    /\ IF Full
       THEN /\ redis' = [redis EXCEPT !.work = @ \cup {v}]
            /\ phase' = "stopping"
       ELSE /\ redis' = [redis EXCEPT !.shape = ShapeAfterAdd,
                                      !.items = @ \cup {v}, !.work = @ \cup {v}]
            /\ UNCHANGED phase
    /\ UNCHANGED <<snapshot, corpus, rows, startup, workers, history>>

AdmitListing ==
    /\ AtLinks
    /\ redis' = [redis EXCEPT !.scheduled = TRUE]
    /\ UNCHANGED <<snapshot, corpus, rows, phase, startup, workers, history>>

\* What is queued once a job of v is gone: a video without a claim, which was
\* pushed more than once, may have another.
WorkWithout(v) == {redis.work \ {v}} \cup {w \in {redis.work} : v \notin redis.items}

\* Ack of a video that was stored; it does nothing to a job that is gone.
Ack_OfLeased(v) ==
    /\ hands[v] # "none"
    /\ \E w \in WorkWithout(v) : redis' = [redis EXCEPT !.work = w]
    /\ hands' = [hands EXCEPT ![v] = "none"]
    /\ UNCHANGED <<snapshot, corpus, rows, phase, startup, visiting, history>>

Ack(v) ==
    /\ hands[v] = "stored"
    /\ \E w \in WorkWithout(v) : redis' = [redis EXCEPT !.work = w]
    /\ hands' = [hands EXCEPT ![v] = "none"]
    /\ UNCHANGED <<snapshot, corpus, rows, phase, startup, visiting, history>>

\* Terminal, or the Fail that is one strike too many; a job that is gone is
\* STALE and leaves no dead entry.
Terminal(v) ==
    /\ hands[v] = "leased"
    /\ \E w \in WorkWithout(v) :
          redis' = [redis EXCEPT !.work = w,
                                 !.dead = IF v \in redis.work THEN @ \cup {v} ELSE @]
    /\ hands' = [hands EXCEPT ![v] = "none"]
    /\ UNCHANGED <<snapshot, corpus, rows, phase, startup, visiting, history>>

\* The job stays: Nack, a Fail with a delay, a lease that ran out, or a
\* resolution that was lost or came too late.
Return(v) ==
    /\ hands[v] # "none"
    /\ hands' = [hands EXCEPT ![v] = "none"]
    /\ UNCHANGED <<redis, snapshot, corpus, rows, phase, startup, visiting, history>>

Resolve(v) == Ack(v) \/ Terminal(v) \/ Return(v)

\* Whatever becomes of its job, a listing stays on the schedule.
ResolveListing ==
    /\ visiting
    /\ visiting' = FALSE
    /\ UNCHANGED <<redis, snapshot, corpus, rows, phase, startup, hands, history>>

-----------------------------------------------------------------------------
(* The rest of the process, and its surroundings.                          *)

\* A tick of runBloomMonitor; every error stops the crawl.
Monitor ==
    /\ phase = "running"
    /\ VerifyFails
    /\ phase' = "stopping"
    /\ UNCHANGED <<redis, snapshot, corpus, rows, startup, workers, history>>

\* A pass of Checkpoint that may save only some of the dead entries; a Redis of
\* another run_id is an error that is only logged.
Checkpoint ==
    /\ phase = "running" /\ recorded
    /\ \E D \in SUBSET redis.dead :
          rows' = [scheduled |-> rows.scheduled \/ redis.scheduled,
                   dead |-> rows.dead \cup D]
    /\ UNCHANGED <<redis, snapshot, corpus, phase, startup, workers, history>>

\* runSnapshotter; make snapshot and make infra-stop, whether a crawler runs or not.
Snapshot ==
    /\ snapshot' = redis
    /\ UNCHANGED <<redis, corpus, rows, phase, startup, workers, history>>

\* A signal or POST /stop.
Cancel ==
    /\ phase = "running"
    /\ phase' = "stopping"
    /\ UNCHANGED <<redis, snapshot, corpus, rows, startup, workers, history>>

\* The workers are joined and the process returns from main.
Exit ==
    /\ phase = "stopping"
    /\ hands = IdleHands /\ ~visiting
    /\ phase' = "down"
    /\ UNCHANGED <<redis, snapshot, corpus, rows, startup, workers, history>>

\* The process is killed.
Kill ==
    /\ phase # "down"
    /\ Fault
    /\ phase' = "down" /\ todo' = {} /\ refused' = "no"
    /\ hands' = IdleHands /\ visiting' = FALSE
    /\ UNCHANGED <<redis, snapshot, corpus, rows, created, recorded, lost, everLost>>

\* Redis comes back with what its RDB file holds.
RedisRestart ==
    /\ Fault
    /\ redis' = snapshot
    /\ recorded' = FALSE
    /\ lost' = (phase # "down")
    /\ everLost' = (everLost \/ phase # "down")
    /\ UNCHANGED <<snapshot, corpus, rows, phase, startup, workers>>

-----------------------------------------------------------------------------

Init ==
    /\ redis \in {EmptyRedis, [EmptyRedis EXCEPT !.shape = "stale"]}
    /\ snapshot = redis
    /\ corpus = {} /\ rows = [scheduled |-> FALSE, dead |-> {}]
    /\ phase = "down" /\ created = FALSE /\ todo = {} /\ refused = "no"
    /\ hands = IdleHands /\ visiting = FALSE
    /\ recorded = FALSE /\ lost = FALSE /\ everLost = FALSE /\ faults = 0

Next ==
    \/ Reserve \/ BloomInit \/ BloomVerify \/ Reconcile \/ Restore \/ Launch
    \/ \E v \in Video : Lease(v) \/ Upsert(v) \/ Admit(v) \/ Resolve(v)
    \/ LeaseListing \/ AdmitListing \/ ResolveListing
    \/ Monitor \/ Checkpoint \/ Snapshot \/ Cancel \/ Exit \/ Kill \/ RedisRestart

Spec == Init /\ [][Next]_vars

\* The monitor ticks, workers resolve what they hold, a stopping process ends,
\* the pod is started again and a start-up goes on.
FairSpec ==
    /\ Spec
    /\ WF_vars(Monitor) /\ WF_vars(Exit)
    /\ WF_vars(\E v \in Video : Resolve(v)) /\ WF_vars(ResolveListing)
    /\ WF_vars(BloomInit) /\ WF_vars(BloomVerify)
    /\ WF_vars(Reconcile) /\ WF_vars(Restore) /\ WF_vars(Launch)

-----------------------------------------------------------------------------
(* Properties.                                                             *)

\* AdmitVideo queues a stored video again only when Redis lost its data under
\* this very process or the filter is full: start-up leaves no gap between
\* MongoDB and the filter, however stale the snapshot was and whoever reserved
\* the filter (main.go:239).  A job that a snapshot brings back is not admitted,
\* and is fetched once more.
NotAdmittedAgain == [][\A v \in corpus : Admit(v) => lost \/ Full]_vars

\* "What the gap between snapshots costs is duplicate work, not lost data"
\* (scheduler.go:48): in Redis, and in the file a restart brings back, every video
\* the filter claims, and so keeps out for ever, is stored, queued or given up;
\* whatever lies between Upsert and Ack, and whatever the refill has added.
ClaimedNotLost ==
    \A d \in {redis, snapshot} : d.items \subseteq corpus \cup d.work \cup d.dead

\* Start-up is refused only with a cause: by BloomVerify after Redis was lost
\* under a running process, or on a filter of another version; by
\* reconciliation when the filter is full, for adding what is there already is
\* no error (main.go:242); by Restore (crawl_state_restore.go:117) when jobs
\* entered a Redis that had lost its schedule.  No stop, kill or restart of the
\* crawler alone, and no snapshot taken at any moment, ends in a refusal.
RefusedOnlyWithCause ==
    [][refused' # refused =>
          /\ refused' = "verify" => everLost \/ redis.shape = "stale"
          /\ refused' = "reconcile" => Full'
          /\ refused' = "restore" => everLost]_vars

\* "a broken Bloom halts the crawl rather than silently degrading admission
\* dedup" (scheduler.go:33): a crawl never goes on with a filter of another shape.
\* Either it runs with the reserved one again or a start-up has been refused.
BrokenFilterHalts ==
    (phase = "running" /\ redis.shape # "reserved") ~>
       (phase = "running" /\ redis.shape = "reserved") \/ refused # "no"

=============================================================================
