------------------------------ MODULE Frontier ------------------------------
(***************************************************************************)
(* The URL frontier of gfap (src/internal/storage/frontier.go): the Redis  *)
(* keys crawler:* and the Lua scripts that move a URL between them.  Redis *)
(* runs a script without interleaving, so one call is one action; workers, *)
(* reconcilers and callers of the admission API interleave between calls.  *)
(*                                                                         *)
(* The client is the most general one the program has: whoever was ever    *)
(* handed a job may still try to resolve it, however late, with any        *)
(* resolution handleOutcome and workerLoop use for the class of its URL.   *)
(*                                                                         *)
(* Two commands can fail in the middle of a script and leave the script's  *)
(* earlier writes behind: BF.ADD on a full filter (AdmitVideo) and the     *)
(* interrupted LEASE that SWEEP exists for (LeaseAborted).                 *)
(*                                                                         *)
(* The lists ready and processing are sets here.  Members enter ready with *)
(* ever larger ids and leave it smallest first, so both lists are always   *)
(* in the order of their ids and the ids carry the order.                  *)
(***************************************************************************)
EXTENDS Integers, Sequences, FiniteSets, Functions

CONSTANTS
    Video,               \* canonical URLs that contain VideoPattern
    Listing,             \* every other canonical URL
    Seed,                \* the listings the classifier calls ClassSeed
    BaseUrl,             \* the listing that start-up re-seeds
    Excluded,            \* listings scheduled by an earlier build that
                         \* canonicalize now maps to ""
    Collides,            \* videos the Bloom filter reports although they
                         \* were never added (false positives)
    BloomCapacity,       \* entries the NONSCALING filter accepts
    LeaseTimeout,
    MaxStrikes,
    RateLimitBackoff,    \* ladders of seconds, indexed by attempts
    StrikeBackoff,
    ListingBaseTTL,
    SeedTTL,
    ListingMaxTTL,
    QuarantineListing,
    SchedulerBatchLimit,
    PromoteBatchLimit,
    ReapBatchLimit,
    SweepBatchLimit,
    PendingScore,        \* the year 9999
    MaxNow,              \* bound on the clock
    MaxJob               \* bound on the job ids

ASSUME UrlAssumption ==
    /\ Video \cap Listing = {}
    /\ Seed \subseteq Listing
    /\ BaseUrl \in Listing \ Excluded
    /\ Excluded \subseteq Listing
    /\ Collides \subseteq Video

ASSUME ConfigAssumption ==
    /\ BloomCapacity \in Nat
    /\ LeaseTimeout \in Nat
    /\ MaxStrikes \in Nat \ {0}
    /\ RateLimitBackoff \in Seq(Nat) /\ Len(RateLimitBackoff) > 0
    /\ StrikeBackoff \in Seq(Nat) /\ Len(StrikeBackoff) > 0
    /\ ListingBaseTTL \in Nat /\ SeedTTL \in Nat
    /\ ListingMaxTTL \in Nat /\ QuarantineListing \in Nat
    /\ SchedulerBatchLimit \in Nat /\ PromoteBatchLimit \in Nat
    /\ ReapBatchLimit \in Nat /\ SweepBatchLimit \in Nat
    /\ MaxNow \in Nat \ {0} /\ MaxJob \in Nat

\* No clock, TTL or quarantine ever gets near the PENDING mark.
ASSUME PendingAssumption ==
    /\ PendingScore \in Nat
    /\ PendingScore > MaxNow + ListingMaxTTL
    /\ PendingScore > MaxNow + QuarantineListing

VARIABLES
    seq,          \* crawler:job:seq, the last id minted
    ready,        \* crawler:ready, jobs awaiting a lease
    processing,   \* crawler:processing, jobs handed out
    lease,        \* crawler:lease, job -> expiry
    delayed,      \* crawler:delayed, job -> next attempt
    dead,         \* crawler:dead, URL -> until; 0 is forever
    attempts,     \* crawler:attempts, 0 where the hash has no field
    strikes,      \* crawler:strikes, 0 where the hash has no field
    listingNext,  \* crawler:listing:next, listing -> due time or PENDING
    barren,       \* crawler:listing:barren
    bloom,        \* the videos added to crawler:bloom
    now,          \* the clock, in seconds, of every caller
    issued,       \* history: every job that Lease has handed out
    acked         \* history: every URL whose job was acknowledged

vars == <<seq, ready, processing, lease, delayed, dead, attempts, strikes,
          listingNext, barren, bloom, now, issued, acked>>

urlVars == <<dead, attempts, strikes, listingNext, barren, bloom, acked>>

URL == Video \cup Listing

Job == [id : Nat, url : URL]

\* NewURLClassifier, and URLClass of a leased job.
Class(u) == IF u \in Video THEN "video"
            ELSE IF u \in Seed THEN "seed" ELSE "listing"

-----------------------------------------------------------------------------
(* Sorted sets and hashes are functions on the members they hold.          *)

ZAdd(z, m, score) == [x \in DOMAIN z \cup {m} |-> IF x = m THEN score ELSE z[x]]

Remove(z, M) == Restrict(z, DOMAIN z \ M)

\* A key that does not exist.
Empty == [m \in {} |-> 0]

Due(z) == {m \in DOMAIN z : z[m] <= now}

\* The first `limit' members of D in score order; Redis breaks ties by the
\* bytes of the member, the model in every way.
Page(z, D, limit) ==
    {P \in SUBSET D :
        /\ Cardinality(P) =
              IF Cardinality(D) < limit THEN Cardinality(D) ELSE limit
        /\ \A x \in P, y \in D \ P : z[x] <= z[y]}

\* The orders in which a script that walks S by score may meet its n members.
Sorted(z, n, S) ==
    {b \in [1..n -> S] :
        /\ \A x \in S : \E i \in 1..n : b[i] = x
        /\ \A i, j \in 1..n : i < j => b[i] # b[j] /\ z[b[i]] <= z[b[j]]}

\* A new job for url, with the id that the i-th INCR of this call returns.
Mint(i, url) == [id |-> seq + i, url |-> url]

\* One new job per member of the batch b of old jobs.
Reminted(b) == {Mint(i, b[i].url) : i \in DOMAIN b}

-----------------------------------------------------------------------------
(* Admission.                                                              *)

\* The URL is dead for good, or its quarantine still runs.
Blocked(u) == u \in DOMAIN dead /\ (dead[u] = 0 \/ dead[u] > now)

\* What BF.ADD reports as already present.
BloomHas(v) == v \in bloom \/ (v \in Collides /\ bloom # {})

BloomFull == Cardinality(bloom) >= BloomCapacity

\* HDEL of the dead entries that do not block (any more).
Revive_Forgets(U) == dead' = dead

Revive(U) == dead' = Remove(dead, U)

\* What AdmitVideo returns; "error" is BF.ADD refusing an insertion.
AdmitVideoResult(v) ==
    IF Blocked(v) \/ BloomHas(v) THEN "Suppressed"
    ELSE IF BloomFull THEN "error" ELSE "New"

\* The job is pushed first and the filter asked afterwards: a duplicate takes
\* the job back but not its id, and an error leaves the job behind with its
\* URL unclaimed.
AdmitVideo_NoRollback(v) ==
    \/ Blocked(v) /\ UNCHANGED vars
    \/ /\ ~Blocked(v)
       /\ seq < MaxJob
       /\ seq' = seq + 1
       /\ Revive({v})
       /\ ready' = ready \cup {Mint(1, v)}
       /\ bloom' = IF BloomHas(v) \/ BloomFull THEN bloom ELSE bloom \cup {v}
       /\ UNCHANGED <<processing, lease, delayed, attempts, strikes,
                      listingNext, barren, now, issued, acked>>

AdmitVideo(v) ==
    \/ Blocked(v) /\ UNCHANGED vars
    \/ /\ ~Blocked(v)
       /\ seq < MaxJob
       /\ seq' = seq + 1
       /\ Revive({v})
       /\ ready' = IF BloomHas(v) THEN ready ELSE ready \cup {Mint(1, v)}
       /\ bloom' = IF BloomHas(v) \/ BloomFull THEN bloom ELSE bloom \cup {v}
       /\ UNCHANGED <<processing, lease, delayed, attempts, strikes,
                      listingNext, barren, now, issued, acked>>

\* The listing is scheduled for later, or PENDING.
NotDue_IgnoresPending(l) ==
    /\ l \in DOMAIN listingNext
    /\ listingNext[l] > now /\ listingNext[l] # PendingScore

NotDue(l) == l \in DOMAIN listingNext /\ listingNext[l] > now

AdmitListingResult(l) ==
    IF Blocked(l) \/ NotDue(l) THEN "Suppressed"
    ELSE IF l \in DOMAIN listingNext THEN "DueRevisit" ELSE "New"

\* An expired quarantine is dropped even when the schedule then suppresses
\* the admission.
AdmitListing(l) ==
    \/ Blocked(l) /\ UNCHANGED vars
    \/ /\ ~Blocked(l)
       /\ NotDue(l)
       /\ Revive({l})
       /\ UNCHANGED <<seq, ready, processing, lease, delayed, attempts,
                      strikes, listingNext, barren, bloom, now, issued, acked>>
    \/ /\ ~Blocked(l)
       /\ ~NotDue(l)
       /\ seq < MaxJob
       /\ seq' = seq + 1
       /\ Revive({l})
       /\ ready' = ready \cup {Mint(1, l)}
       /\ listingNext' = ZAdd(listingNext, l, PendingScore)
       /\ UNCHANGED <<processing, lease, delayed, attempts, strikes, barren,
                      bloom, now, issued, acked>>

\* ZADD NX with score 0.
SeedListing(l) ==
    /\ listingNext' = IF l \in DOMAIN listingNext THEN listingNext
                      ELSE ZAdd(listingNext, l, 0)
    /\ UNCHANGED <<seq, ready, processing, lease, delayed, dead, attempts,
                   strikes, barren, bloom, now, issued, acked>>

-----------------------------------------------------------------------------
(* Lease.                                                                  *)

\* LMOVE takes the oldest member of ready.
Oldest == {j \in ready : \A k \in ready : j.id <= k.id}

Lease ==
    \/ ready = {} /\ UNCHANGED vars
    \/ \E j \in Oldest :
          /\ ready' = ready \ {j}
          /\ processing' = processing \cup {j}
          /\ lease' = ZAdd(lease, j, now + LeaseTimeout)
          /\ issued' = issued \cup {j}
          /\ UNCHANGED <<seq, delayed, urlVars, now>>

\* The script stops between LMOVE and ZADD: nobody holds the job and no lease
\* will ever expire.
LeaseAborted ==
    \E j \in Oldest :
       /\ ready' = ready \ {j}
       /\ processing' = processing \cup {j}
       /\ UNCHANGED <<seq, lease, delayed, urlVars, now, issued>>

-----------------------------------------------------------------------------
(* Resolution.  Every script starts with ZREM on the lease: 0 means STALE  *)
(* and nothing else happens.                                               *)

Stale(j) == j \notin DOMAIN lease /\ UNCHANGED vars

\* ZREM lease and LREM processing, the first and last thing a script does.
Release_KeepsProcessing(j) ==
    /\ j \in DOMAIN lease
    /\ lease' = Remove(lease, {j})
    /\ UNCHANGED processing

Release(j) ==
    /\ j \in DOMAIN lease
    /\ lease' = Remove(lease, {j})
    /\ processing' = processing \ {j}

\* HDEL of both failure counters.
ClearFailures_AttemptsOnly(u) ==
    /\ attempts' = [attempts EXCEPT ![u] = 0]
    /\ UNCHANGED strikes

ClearFailures(u) ==
    /\ attempts' = [attempts EXCEPT ![u] = 0]
    /\ strikes' = [strikes EXCEPT ![u] = 0]

Ack(j) ==
    \/ Stale(j)
    \/ /\ Release(j)
       /\ ClearFailures(j.url)
       /\ acked' = acked \cup {j.url}
       /\ UNCHANGED <<seq, ready, delayed, dead, listingNext, barren, bloom,
                      now, issued>>

Nack_SameMember(j) ==
    \/ Stale(j)
    \/ /\ Release(j)
       /\ ready' = ready \cup {j}
       /\ UNCHANGED <<seq, delayed, urlVars, now, issued>>

Nack(j) ==
    \/ Stale(j)
    \/ /\ Release(j)
       /\ seq < MaxJob
       /\ seq' = seq + 1
       /\ ready' = ready \cup {Mint(1, j.url)}
       /\ UNCHANGED <<delayed, urlVars, now, issued>>

\* The revisit interval: base doubled per barren visit, at most ListingMaxTTL.
ListingTTL_Unclamped(base, b) == base * 2^b

ListingTTL(base, b) ==
    LET ttl == base * 2^b
    IN  IF ttl \in 0..ListingMaxTTL THEN ttl ELSE ListingMaxTTL

\* The barren count after a visit that found new children, or none.
BarrenAfter(l, found) ==
    IF found THEN 0 ELSE IF l \in DOMAIN barren THEN barren[l] + 1 ELSE 1

\* What the Go side passes: a seed is revisited sooner.
BaseTTL(l) == IF Class(l) = "seed" THEN SeedTTL ELSE ListingBaseTTL

CompleteListing(j, found) ==
    \/ Stale(j)
    \/ LET l == j.url
           b == BarrenAfter(l, found)
       IN  /\ Release(j)
           /\ barren' = ZAdd(barren, l, b)
           /\ listingNext' = ZAdd(listingNext, l, now + ListingTTL(BaseTTL(l), b))
           /\ Revive({l})
           /\ ClearFailures(l)
           /\ UNCHANGED <<seq, ready, delayed, bloom, now, issued, acked>>

\* untilFor and quarantineUntil: 0, forever, for a video.
QuarantineUntil(u) == IF Class(u) = "video" THEN 0 ELSE now + QuarantineListing

\* The terminal transition shared by FAIL and TERMINAL.
Bury_KeepsPending(u, until) ==
    /\ UNCHANGED listingNext
    /\ dead' = ZAdd(dead, u, until)
    /\ ClearFailures(u)

Bury(u, until) ==
    /\ listingNext' = IF until > 0 THEN ZAdd(listingNext, u, until)
                      ELSE listingNext
    /\ dead' = ZAdd(dead, u, until)
    /\ ClearFailures(u)

Terminal(j) ==
    \/ Stale(j)
    \/ /\ Release(j)
       /\ Bury(j.url, QuarantineUntil(j.url))
       /\ UNCHANGED <<seq, ready, delayed, barren, bloom, now, issued, acked>>

\* The i-th rung of a ladder, clamped to its last.
Rung(ladder, i) == IF i > Len(ladder) THEN ladder[Len(ladder)] ELSE ladder[i]

\* What the Go side passes for a FailClass: "rateLimited" or "strikeable".
Ladder(class) == IF class = "strikeable" THEN StrikeBackoff ELSE RateLimitBackoff

Fail(j, class) ==
    \/ Stale(j)
    \/ LET u          == j.url
           strikeable == class = "strikeable"
           a          == attempts[u] + 1
           s          == IF strikeable THEN strikes[u] + 1 ELSE strikes[u]
       IN  /\ Release(j)
           /\ \/ /\ strikeable /\ s >= MaxStrikes
                 /\ Bury(u, QuarantineUntil(u))
                 /\ UNCHANGED <<seq, delayed>>
              \/ /\ ~(strikeable /\ s >= MaxStrikes)
                 /\ seq < MaxJob
                 /\ seq' = seq + 1
                 /\ delayed' = ZAdd(delayed, Mint(1, u), now + Rung(Ladder(class), a))
                 /\ attempts' = [attempts EXCEPT ![u] = a]
                 /\ strikes' = [strikes EXCEPT ![u] = s]
                 /\ UNCHANGED <<listingNext, dead>>
           /\ UNCHANGED <<ready, barren, bloom, now, issued, acked>>

-----------------------------------------------------------------------------
(* Reconcilers.                                                            *)

Promote_DropsRest ==
    \E P \in Page(delayed, Due(delayed), PromoteBatchLimit),
       n \in 0..PromoteBatchLimit :
       \E b \in Sorted(delayed, n, P) :
          /\ seq + n <= MaxJob
          /\ seq' = seq + n
          /\ ready' = ready \cup Reminted(b)
          /\ delayed' = Remove(delayed, Due(delayed))
          /\ UNCHANGED <<processing, lease, urlVars, now, issued>>

Promote ==
    \E P \in Page(delayed, Due(delayed), PromoteBatchLimit),
       n \in 0..PromoteBatchLimit :
       \E b \in Sorted(delayed, n, P) :
          /\ seq + n <= MaxJob
          /\ seq' = seq + n
          /\ ready' = ready \cup Reminted(b)
          /\ delayed' = Remove(delayed, P)
          /\ UNCHANGED <<processing, lease, urlVars, now, issued>>

Reap ==
    \E P \in Page(lease, Due(lease), ReapBatchLimit), n \in 0..ReapBatchLimit :
       \E b \in Sorted(lease, n, P) :
          /\ seq + n <= MaxJob
          /\ seq' = seq + n
          /\ ready' = ready \cup Reminted(b)
          /\ processing' = processing \ P
          /\ lease' = Remove(lease, P)
          /\ UNCHANGED <<delayed, urlVars, now, issued>>

Sweep_IgnoresLease ==
    \E W \in Page([j \in processing |-> j.id], processing, SweepBatchLimit),
       n \in 0..SweepBatchLimit :
       \E b \in Sorted([j \in processing |-> -j.id], n, W) :
          /\ seq + n <= MaxJob
          /\ seq' = seq + n
          /\ ready' = ready \cup Reminted(b)
          /\ processing' = processing \ W
          /\ UNCHANGED <<lease, delayed, urlVars, now, issued>>

\* The window is the oldest end of processing, walked from its newer side;
\* its members without a lease are orphans.
Sweep ==
    \E W \in Page([j \in processing |-> j.id], processing, SweepBatchLimit),
       n \in 0..SweepBatchLimit :
       \E b \in Sorted([j \in processing |-> -j.id], n, W \ DOMAIN lease) :
          /\ seq + n <= MaxJob
          /\ seq' = seq + n
          /\ ready' = ready \cup Reminted(b)
          /\ processing' = processing \ (W \ DOMAIN lease)
          /\ UNCHANGED <<lease, delayed, urlVars, now, issued>>

\* The schedule after the scheduler has walked the page P of due listings, of
\* which it requeues free: a listing that is dead for good leaves it, one in
\* quarantine moves to the end of that.
ScheduleAfter_Pops(P, free) == Remove(listingNext, P)

ScheduleAfter(P, free) ==
    LET forever == {l \in P \ free : dead[l] = 0}
    IN  [l \in DOMAIN listingNext \ forever |->
            IF l \in free THEN PendingScore
            ELSE IF l \in P THEN dead[l] ELSE listingNext[l]]

RunListingScheduler ==
    \E P \in Page(listingNext, Due(listingNext), SchedulerBatchLimit),
       n \in 0..SchedulerBatchLimit :
       LET free == {l \in P : ~Blocked(l)}
       IN  \E b \in Sorted(listingNext, n, free) :
              /\ seq + n <= MaxJob
              /\ seq' = seq + n
              /\ ready' = ready \cup {Mint(i, b[i]) : i \in 1..n}
              /\ Revive(free)
              /\ listingNext' = ScheduleAfter(P, free)
              /\ UNCHANGED <<processing, lease, delayed, attempts, strikes,
                             barren, bloom, now, issued, acked>>

Tick ==
    /\ now < MaxNow
    /\ now' = now + 1
    /\ UNCHANGED <<seq, ready, processing, lease, delayed, urlVars, issued>>

-----------------------------------------------------------------------------
(* The Redis data an earlier build may have left: its listings are due.    *)
Init ==
    /\ seq = 0
    /\ ready = {} /\ processing = {}
    /\ lease = Empty /\ delayed = Empty /\ dead = Empty
    /\ attempts = [u \in URL |-> 0]
    /\ strikes = [u \in URL |-> 0]
    /\ listingNext = [l \in Excluded |-> 0]
    /\ barren = Empty
    /\ bloom = {}
    /\ now = 1
    /\ issued = {} /\ acked = {}

\* What a holder may do with a job: workerLoop acknowledges an excluded URL
\* before it fetches anything; handleOutcome does the rest.
Resolve(j) ==
    \/ j.url \in Video \cup Excluded /\ Ack(j)
    \/ /\ j.url \notin Excluded
       /\ \/ Nack(j)
          \/ Terminal(j)
          \/ \E class \in {"rateLimited", "strikeable"} : Fail(j, class)
          \/ /\ j.url \in Listing
             /\ \E found \in BOOLEAN : CompleteListing(j, found)

Next ==
    \/ \E v \in Video : AdmitVideo(v)
    \/ \E l \in Listing \ Excluded : AdmitListing(l)
    \/ SeedListing(BaseUrl)
    \/ Lease
    \/ LeaseAborted
    \/ \E j \in issued : Resolve(j)
    \/ Promote
    \/ Reap
    \/ Sweep
    \/ RunListingScheduler
    \/ Tick

Spec == Init /\ [][Next]_vars

-----------------------------------------------------------------------------
(* Properties.                                                             *)

Jobs == ready \cup processing \cup DOMAIN delayed

Live == {j.url : j \in Jobs}

\* The URLs the frontier has taken responsibility for: every listing (its
\* schedule entry is the claim) and the videos in the filter.
Claimed == Listing \cup bloom

\* Schedule entries: a time that a TTL or a quarantine can reach, or PENDING.
Score == 0..MaxNow + ListingMaxTTL \cup 0..MaxNow + QuarantineListing
            \cup {PendingScore}

IsMap(z, D, R) == DOMAIN z \subseteq D /\ \A x \in DOMAIN z : z[x] \in R

\* Type invariant.  The clamp of luaCompleteListing is what keeps every due
\* time apart from PENDING.
TypeOK ==
    /\ seq \in Nat
    /\ now \in 1..MaxNow
    /\ ready \subseteq Job /\ processing \subseteq Job /\ issued \subseteq Job
    /\ IsMap(lease, Job, Nat)
    /\ IsMap(delayed, Job, Nat)
    /\ IsMap(dead, URL, 0..MaxNow + QuarantineListing)
    /\ attempts \in [URL -> Nat] /\ strikes \in [URL -> Nat]
    /\ IsMap(listingNext, Listing, Score)
    /\ IsMap(barren, Listing, Nat)
    /\ bloom \subseteq Video /\ acked \subseteq URL

\* The lease set alone is a sound fence (frontier.go:30): ids are never shared,
\* a member lives in one structure at a time, and a job that was once handed
\* out is either still leased or gone, never queued again and never an orphan.
FencedJobs ==
    /\ \A j, k \in Jobs \cup issued : j.id <= seq /\ (j.id = k.id => j = k)
    /\ ready \cap processing = {}
    /\ ready \cap DOMAIN delayed = {}
    /\ processing \cap DOMAIN delayed = {}
    /\ DOMAIN lease = processing \cap issued
    /\ issued \cap (ready \cup DOMAIN delayed) = {}

\* "JobID is minted fresh on every requeue and leased at most once"
\* (frontier.go:30): a job that gets a lease never had one before.
LeasedAtMostOnce ==
    [][\A j \in DOMAIN lease' \ DOMAIN lease : j \notin issued]_vars

\* A listing, and a video in the filter, has at most one job anywhere: no
\* order of admissions, requeues, reaps and sweeps crawls it twice at once.
OneJobPerURL ==
    \A j, k \in Jobs : j.url = k.url /\ j.url \in Claimed => j = k

\* PENDING means exactly that a job exists (frontier.go:47): a listing with a
\* job is never admitted again, and one without is never stuck.  Of the latter
\* Excluded listings are left out: workerLoop acknowledges their jobs unseen
\* (worker.go:433) and luaAck leaves the schedule alone, so they keep PENDING.
PendingIffLive ==
    /\ \A l \in Listing \cap Live :
          l \in DOMAIN listingNext /\ listingNext[l] = PendingScore
    /\ \A l \in DOMAIN listingNext \ Excluded :
          listingNext[l] = PendingScore => l \in Live

\* A video claimed in the filter is never lost: the filter suppresses it for
\* ever, so until it is acknowledged or dead there must be a job for it.
VideoClaimKept == bloom \subseteq acked \cup DOMAIN dead \cup Live

\* A dead entry belongs to a URL without work.  A video is dead for good; a
\* quarantined listing is scheduled for the very moment its quarantine ends.
DeadIsSettled ==
    /\ \A v \in DOMAIN dead \cap Video :
          dead[v] = 0 /\ (v \in bloom => v \notin Live)
    /\ \A l \in DOMAIN dead \cap Listing :
          /\ dead[l] > 0 /\ l \notin Live
          /\ l \in DOMAIN listingNext /\ listingNext[l] = dead[l]

\* A video that has work but no claim can only come from an insertion the full
\* filter refused; so nobody can claim such a video again later.
UnclaimedOnlyWhenFull == ~BloomFull => Live \cap Video \subseteq bloom

\* Failure counters belong to work in progress and stay below the limit: a
\* URL that was settled starts its next visit without strikes.
FailureCounters ==
    \A u \in URL :
       /\ strikes[u] <= attempts[u]
       /\ strikes[u] < MaxStrikes
       /\ attempts[u] > 0 => u \in Live

\* New means "never seen" (frontier.go:59): once scheduled, a listing is never
\* forgotten, so it can be New to the barren count of a parent only once.
NewAtMostOnce ==
    [][DOMAIN listingNext \subseteq DOMAIN listingNext']_vars

\* The facts per URL that the frontier keeps: jobs become the URLs with work.
F == INSTANCE Facts WITH next <- listingNext, work <- Live

\* Frontier implements Facts: no script, no requeue and no late resolution
\* changes the facts of a URL in another way than Facts allows.
ImplementsFacts == F!FSpec

=============================================================================
