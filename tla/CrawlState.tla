----------------------------- MODULE CrawlState ------------------------------
(***************************************************************************)
(* Persistence and recovery: the checkpoints of the frontier's facts in    *)
(* Mongo (src/internal/storage/crawl_state.go), the restore at start-up    *)
(* (crawl_state_restore.go), the RDB snapshots, and the reconciliation of  *)
(* the filter with the stored videos (src/cmd/crawler/main.go).            *)
(*                                                                         *)
(* Redis keeps its data in memory and in an RDB file that may be old; each *)
(* of its processes has a run_id.  The crawler can die between any two     *)
(* calls, and Redis can restart between any two calls: go-redis connects   *)
(* again by itself, so that only the run_id tells.                         *)
(***************************************************************************)
EXTENDS Facts

CONSTANTS
    Links,        \* the links on the page of each URL
    BatchSize,    \* crawlStateBatchSize
    MaxRestart,   \* bound on the restarts of Redis
    MaxBarren,    \* bound on the barren counts
    Unlucky       \* Redis may also restart between the last look at its run_id
                  \* and the write of a batch or of the marker

ASSUME RecoveryAssumption ==
    /\ Links \in [Video \cup Listing -> SUBSET (Video \cup Listing)]
    /\ BatchSize \in Nat \ {0}
    /\ MaxRestart \in Nat /\ MaxBarren \in Nat
    /\ Unlucky \in BOOLEAN

ASSUME UrlAssumption ==
    /\ Video \cap Listing = {}
    /\ BaseUrl \in Listing
    /\ Excluded \subseteq Listing

\* A real due time is never PendingScore.
ASSUME PendingAssumption ==
    /\ ListingMaxTTL \in Nat /\ QuarantineListing \in Nat
    /\ MaxNow \in Nat \ {0} /\ PendingScore \in Nat
    /\ PendingScore > MaxNow + ListingMaxTTL
    /\ PendingScore > MaxNow + QuarantineListing

VARIABLES
    marker,     \* crawler:state:restore:v1: "none", "restoring", "complete"
    whole,      \* history: what Redis holds is no cold restore cut short
    torn,       \* history: Redis holds work of a crawler that was started
                \* with an earlier Redis process
    runId,      \* of the Redis process
    rdb,        \* what the next Redis process starts from
    rows,       \* Mongo: crawler_state_v1
    stored,     \* Mongo: the videos
    pc,         \* where main and the checkpoint goroutine are
    mine,       \* redisRunID
    seen,       \* the marker that readStartupState found
    left,       \* the rows the restore cursor has not returned yet
    batch,      \* the rows in hand, to be restored or to be saved
    readFrom    \* history: the run_id that the batch was read under

store == <<pc, mine, seen, left, batch, readFrom>>
svars == <<fvars, marker, whole, torn, runId, rdb, rows, stored, store>>

URL == Video \cup Listing

\* A null field of a row.
None == -1

NoRows == [u \in {} |-> 0]

OrNone(f, u) == IF u \in DOMAIN f THEN f[u] ELSE None

Goto(label) == pc' = label

\* The context of a failed step is gone; main ends in log.Fatalf.
Fatal == /\ pc' = "down"
         /\ mine' = 0 /\ seen' = "none" /\ readFrom' = 0
         /\ left' = {} /\ batch' = NoRows

SameProcess == runId = mine

-----------------------------------------------------------------------------
(* Start-up.                                                               *)

\* The filter takes every stored video; then NewCrawlStateStore.
Open ==
    /\ pc = "down"
    /\ bloom' = bloom \cup stored
    /\ mine' = runId
    /\ Goto("inspect")
    /\ UNCHANGED <<next, barren, dead, work, now, marker, whole, torn, runId,
                   rdb, rows, stored, seen, left, batch, readFrom>>

\* The frontier is not empty, or a complete restore found nothing to schedule.
Preserves_AnyMarker ==
    \/ DOMAIN next # {}
    \/ marker = "complete" /\ work = {} /\ DOMAIN barren \cup DOMAIN dead # {}

Preserves_ScheduleOnly == marker # "restoring" /\ DOMAIN next # {}

Preserves ==
    /\ marker # "restoring"
    /\ \/ DOMAIN next # {}
       \/ marker = "complete" /\ work = {} /\ DOMAIN barren \cup DOMAIN dead # {}

\* Restore has no safe way on from here.
Refuses ==
    IF marker = "restoring" THEN work # {} \/ rows = NoRows
    ELSE ~Preserves /\ (work # {} \/ DOMAIN barren \cup DOMAIN dead # {})

\* readStartupState, and what Restore makes of it.
Inspect ==
    /\ pc = "inspect"
    /\ seen' = marker
    /\ \/ Refuses /\ Goto("refused") /\ UNCHANGED left
       \/ Preserves /\ Goto("preserve") /\ UNCHANGED left
       \/ /\ ~Refuses /\ ~Preserves
          /\ Goto("begin")
          /\ left' = DOMAIN rows
    /\ UNCHANGED <<fvars, marker, whole, torn, runId, rdb, rows, stored, mine, batch,
                   readFrom>>

\* The last look at the run_id before Checkpoint is allowed to write.
Finish ==
    /\ pc \in {"preserve", "finish"} \/ (pc = "begin" /\ left = {})
    /\ \/ SameProcess /\ Goto("seed") /\ UNCHANGED <<mine, seen, left, batch, readFrom>>
       \/ ~SameProcess /\ Fatal
    /\ UNCHANGED <<fvars, marker, whole, torn, runId, rdb, rows, stored>>

\* The cursor has a first row: the identity is checked, then the marker set
\* unless an earlier start left it.
Begin ==
    /\ pc = "begin" /\ left # {}
    /\ \/ /\ SameProcess
          /\ Goto(IF seen = "restoring" THEN "barrier" ELSE "mark")
          /\ UNCHANGED <<mine, seen, left, batch, readFrom>>
       \/ ~SameProcess /\ Fatal
    /\ UNCHANGED <<fvars, marker, whole, torn, runId, rdb, rows, stored>>

\* SETNX for a key that was not there; a start that loses it is fatal.
Mark ==
    /\ pc = "mark"
    /\ seen = "none" => marker = "none"
    /\ marker' = "restoring"
    /\ Goto("barrier")
    /\ UNCHANGED <<fvars, whole, torn, runId, rdb, rows, stored, mine, seen, left,
                   batch, readFrom>>

\* checkRestoreBarrier, before every batch and before the end.
Barrier ==
    /\ pc = "barrier"
    /\ \/ /\ SameProcess /\ marker = "restoring" /\ work = {}
          /\ \/ /\ left # {}
                /\ \E U \in SUBSET left :
                      /\ Cardinality(U) =
                            IF Cardinality(left) < BatchSize THEN Cardinality(left)
                            ELSE BatchSize
                      /\ batch' = Restrict(rows, U)
                      /\ left' = left \ U
                /\ Goto("write")
             \/ /\ left = {}
                /\ Goto("complete")
                /\ UNCHANGED <<left, batch>>
          /\ UNCHANGED <<mine, seen, readFrom>>
       \/ ~(SameProcess /\ marker = "restoring" /\ work = {}) /\ Fatal
    /\ UNCHANGED <<fvars, marker, whole, torn, runId, rdb, rows, stored>>

\* What a row becomes: a listing that had a job is due at once, one that is
\* dead for good is not scheduled, and a quarantine that is over is dropped.
RestoredDead(r) == IF r.dead # None /\ r.dead # 0 /\ r.dead <= now THEN None
                   ELSE r.dead

RestoredNext_KeepsPending(r) ==
    IF r.dead = 0 THEN None
    ELSE IF r.next # None /\ r.next < RestoredDead(r) THEN r.dead ELSE r.next

RestoredNext(r) ==
    LET due == IF r.next = PendingScore THEN 0 ELSE r.next
    IN  IF r.dead = 0 THEN None
        ELSE IF due # None /\ due < RestoredDead(r) THEN r.dead ELSE due

RestoresBarren(r) ==
    RestoredNext(r) # None \/ RestoredDead(r) # None \/ r.barren # 0

\* f with the facts of the URLs in B replaced by those that g has.
Overwrite(f, B, g) ==
    [u \in (DOMAIN f \ B) \cup DOMAIN g |-> IF u \in DOMAIN g THEN g[u] ELSE f[u]]

\* Every row that says anything has its place in the schedule or among the dead.
AllIn(U) == \A u \in DOMAIN rows :
               rows[u].next # None \/ rows[u].dead # None => u \in U

\* restoreBatch: one transaction.  The look at the run_id that follows it is
\* the one of the next barrier.
Write ==
    LET B == DOMAIN batch
    IN  /\ pc = "write"
        /\ next' = Overwrite(next, B, [u \in {v \in B : RestoredNext(batch[v]) # None}
                                         |-> RestoredNext(batch[u])])
        /\ barren' = Overwrite(barren, B, [u \in {v \in B : RestoresBarren(batch[v])}
                                             |-> batch[u].barren])
        /\ dead' = Overwrite(dead, B, [u \in {v \in B : RestoredDead(batch[v]) # None}
                                         |-> RestoredDead(batch[u])])
        /\ whole' = AllIn(DOMAIN next' \cup DOMAIN dead')
        /\ batch' = NoRows
        /\ Goto("barrier")
        /\ UNCHANGED <<bloom, work, now, marker, torn, runId, rdb, rows,
                       stored, mine, seen, left, readFrom>>

Complete ==
    /\ pc = "complete"
    /\ marker' = "complete"
    /\ Goto("finish")
    /\ UNCHANGED <<fvars, whole, torn, runId, rdb, rows, stored, mine, seen,
                   left, batch, readFrom>>

\* BaseUrl is scheduled, and the goroutines start.
Launch ==
    /\ pc = "seed"
    /\ ScheduleSeed(BaseUrl) \/ (BaseUrl \in DOMAIN next /\ UNCHANGED fvars)
    /\ Goto("running")
    /\ UNCHANGED <<marker, whole, torn, runId, rdb, rows, stored, mine, seen, left,
                   batch, readFrom>>

-----------------------------------------------------------------------------
(* The crawl.                                                              *)

Running == pc \in {"running", "checked", "read", "save"}

Known(x) == x \in bloom \cup DOMAIN dead \cup DOMAIN next

\* The workers and reconcilers: a page is finished only when its links are
\* known, and a video only when it is stored.
Crawl ==
    /\ Running
    /\ \/ \E v \in Video : ClaimVideo(v) /\ bloom' # bloom
       \/ \E P \in (SUBSET Listing) \ {{}} : ClaimListings(P)
       \/ \E l \in Listing \ Excluded :
             /\ \A x \in Links[l] : Known(x)
             /\ CompleteVisit(l)
             /\ barren'[l] <= MaxBarren
       \/ \E u \in URL \ Excluded : GiveUp(u)
       \/ \E u \in stored \cup Excluded :
             /\ \A x \in Links[u] : Known(x)
             /\ Acknowledge(u)
    /\ torn' = (torn \/ ~SameProcess)
    /\ UNCHANGED <<marker, whole, runId, rdb, rows, stored, store>>

Upsert ==
    /\ Running
    /\ \E v \in work \cap Video : stored' = stored \cup {v}
    /\ UNCHANGED <<fvars, marker, whole, torn, runId, rdb, rows, store>>

-----------------------------------------------------------------------------
(* Checkpoint.  A pass scans the three keys; each reply of SCAN is cut into *)
(* batches, and each batch is read in one transaction between two looks at  *)
(* the run_id, and then written.                                            *)

\* A reply of SCAN, and the first look: a batch of URLs that had facts.
Scan ==
    /\ pc = "running" /\ SameProcess
    /\ \E U \in SUBSET (DOMAIN next \cup DOMAIN barren \cup DOMAIN dead) :
          /\ Cardinality(U) \in 1..BatchSize
          /\ left' = U
    /\ Goto("checked")
    /\ UNCHANGED <<fvars, marker, whole, torn, runId, rdb, rows, stored, mine, seen,
                   batch, readFrom>>

\* The pass fails: it is over until the next tick.
Abandon == /\ Goto("running")
           /\ left' = {} /\ batch' = NoRows /\ readFrom' = 0
           /\ UNCHANGED <<mine, seen>>

\* The row of u.
RowOf(u) == [next |-> OrNone(next, u),
             barren |-> IF u \in DOMAIN barren THEN barren[u] ELSE 0,
             dead |-> OrNone(dead, u)]

ReadTuples ==
    /\ pc = "checked"
    /\ batch' = [u \in left |-> RowOf(u)]
    /\ readFrom' = runId
    /\ left' = {}
    /\ Goto("read")
    /\ UNCHANGED <<fvars, marker, whole, torn, runId, rdb, rows, stored, mine, seen>>

CheckAfter_Skipped ==
    /\ pc = "read"
    /\ Goto("save")
    /\ UNCHANGED <<fvars, marker, whole, torn, runId, rdb, rows, stored, mine, seen,
                   left, batch, readFrom>>

CheckAfter ==
    /\ pc = "read"
    /\ \/ SameProcess /\ Goto("save") /\ UNCHANGED <<mine, seen, left, batch, readFrom>>
       \/ ~SameProcess /\ Abandon
    /\ UNCHANGED <<fvars, marker, whole, torn, runId, rdb, rows, stored>>

\* BulkWrite, which may stop after some of the rows.
Save ==
    /\ pc = "save"
    /\ \E S \in SUBSET DOMAIN batch :
          rows' = [u \in DOMAIN rows \cup S |->
                      IF u \in S THEN batch[u] ELSE rows[u]]
    /\ Abandon
    /\ UNCHANGED <<fvars, marker, whole, torn, runId, rdb, stored>>

-----------------------------------------------------------------------------
(* The environment.                                                        *)

\* The RDB file is written: by BGSAVE, or by a clean shutdown of Redis.
Snapshot ==
    /\ rdb' = [next |-> next, barren |-> barren, dead |-> dead, bloom |-> bloom,
               work |-> work, marker |-> marker, whole |-> whole,
               torn |-> torn]
    /\ UNCHANGED <<fvars, marker, whole, torn, runId, rows, stored, store>>

\* A new Redis process loads the RDB file.
RedisRestart ==
    /\ runId <= MaxRestart
    /\ Unlucky \/ pc \notin {"write", "complete"}
    /\ runId' = runId + 1
    /\ next' = rdb.next /\ barren' = rdb.barren /\ dead' = rdb.dead
    /\ bloom' = rdb.bloom /\ work' = rdb.work
    /\ marker' = rdb.marker /\ whole' = rdb.whole /\ torn' = rdb.torn
    /\ UNCHANGED <<now, rdb, rows, stored, store>>

\* The crawler stops, is killed, or gives up.
Crash ==
    /\ pc # "down" /\ pc # "refused"
    /\ Fatal
    /\ UNCHANGED <<fvars, marker, whole, torn, runId, rdb, rows, stored>>

Elapse == Pass /\ UNCHANGED <<marker, whole, torn, runId, rdb, rows, stored, store>>

SInit ==
    /\ FInit
    /\ marker = "none" /\ whole = TRUE /\ torn = FALSE
    /\ runId = 1
    /\ rdb = [next |-> next, barren |-> barren, dead |-> dead, bloom |-> bloom,
              work |-> work, marker |-> marker, whole |-> whole,
               torn |-> torn]
    /\ rows = NoRows /\ stored = {}
    /\ pc = "down" /\ mine = 0 /\ seen = "none" /\ readFrom = 0
    /\ left = {} /\ batch = NoRows

SNext ==
    \/ Open \/ Inspect \/ Finish \/ Begin \/ Mark \/ Barrier \/ Write
    \/ Complete \/ Launch
    \/ Crawl \/ Upsert
    \/ Scan \/ ReadTuples \/ CheckAfter \/ Save
    \/ Snapshot \/ RedisRestart \/ Crash \/ Elapse

SSpec == SInit /\ [][SNext]_svars

-----------------------------------------------------------------------------
(* Properties.                                                             *)

\* Whatever was restored, preserved or rolled back, the crawl runs on facts
\* that the frontier itself could have produced: nothing is PENDING without a
\* job, no quarantine lacks its revisit.
RecoveredSound == Running => FactsSound

\* "It preserves a valid nonempty Redis frontier" (crawl_state_restore.go:93):
\* a restore that was cut short is resumed, never taken for a frontier.
NoPartialFrontier == Running /\ SameProcess => whole

\* Start-up refuses (crawl_state_restore.go:106, 118) only a Redis that lost its
\* data under a running crawler: every other state that the crawler leaves,
\* however it and Redis ended, is preserved, resumed or restored.
RefusesOnlyTorn == pc = "refused" /\ SameProcess => torn

\* A checkpoint saves only what the Redis process held that the crawler started
\* with ("Redis process changed", crawl_state.go:112): a rolled back frontier
\* does not get into Mongo behind the crawler's back.
RowsFromRecordedProcess == [][rows' # rows => readFrom = mine]_svars

=============================================================================
