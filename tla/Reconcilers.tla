---------------------------- MODULE Reconcilers -----------------------------
(***************************************************************************)
(* The loops of src/internal/scheduler/scheduler.go around the calls of    *)
(* the frontier.  everyTick runs its function at once and then on every    *)
(* tick until the context is done; a tick of the promoter, the reaper and  *)
(* the sweeper is one call, a tick of the listing scheduler drains page    *)
(* after page, and a tick of the heartbeat asks the frontier whether it is *)
(* idle, which is a pipeline of reads that other clients interleave with.  *)
(*                                                                         *)
(* Admissions, leases and resolutions are those of Frontier's most general *)
(* client and need not happen; the reconcilers do.                         *)
(***************************************************************************)
EXTENDS Frontier

CONSTANT MaxErrors   \* bound on the scheduler calls that fail

ASSUME ErrorAssumption == MaxErrors \in Nat

ASSUME FiniteAssumption == IsFiniteSet(Listing)

VARIABLES
    cancelled,   \* the context of the loops is done
    draining,    \* the listing scheduler is inside its tick
    errors,      \* scheduler calls that failed
    beat,        \* the next read of the heartbeat, "rest" between beats
    empty,       \* the reads of this beat found nothing so far
    excused      \* history: at a moment of this beat the frontier was empty
                 \* or a job entered ready

loopVars == <<cancelled, draining, errors>>

beatVars == <<beat, empty>>

rvars == <<vars, loopVars, beatVars, excused>>

-----------------------------------------------------------------------------
(* The loops.                                                              *)

\* The ticker of the listing scheduler fires; the first tick comes at once.
ListingTick ==
    /\ ~cancelled /\ ~draining
    /\ draining' = TRUE
    /\ UNCHANGED <<vars, cancelled, errors, beatVars>>

\* Whether a page of n listings ends the tick.
LastPage_Full(n) == n <= SchedulerBatchLimit

LastPage_OffByOne(n) == n < SchedulerBatchLimit - 1

LastPage(n) == n < SchedulerBatchLimit

\* One call of the drain loop; n counts the jobs it created.
ListingPage ==
    /\ draining /\ ~cancelled
    /\ RunListingScheduler
    /\ draining' = ~LastPage(seq' - seq)
    /\ UNCHANGED <<cancelled, errors, beatVars>>

\* The call fails, as every call does once the context is done.
PageFails ==
    /\ draining
    /\ \/ cancelled /\ UNCHANGED errors
       \/ errors < MaxErrors /\ errors' = errors + 1
    /\ draining' = FALSE
    /\ UNCHANGED <<vars, cancelled, beatVars>>

PromoterTick == ~cancelled /\ Promote /\ UNCHANGED <<loopVars, beatVars>>

ReaperTick == ~cancelled /\ Reap /\ UNCHANGED <<loopVars, beatVars>>

SweeperTick_StartOnly ==
    ~cancelled /\ now = 1 /\ Sweep /\ UNCHANGED <<loopVars, beatVars>>

SweeperTick == ~cancelled /\ Sweep /\ UNCHANGED <<loopVars, beatVars>>

\* A signal, POST /stop, the Bloom monitor or the last worker.
Cancel ==
    /\ ~cancelled
    /\ cancelled' = TRUE
    /\ UNCHANGED <<vars, draining, errors, beatVars>>

-----------------------------------------------------------------------------
(* The heartbeat: Idle is three reads of one pipeline, which Redis may     *)
(* serve with other clients' scripts in between.                           *)

BeatStart ==
    /\ beat = "rest" /\ ~cancelled
    /\ beat' = "ready" /\ empty' = TRUE
    /\ UNCHANGED <<vars, loopVars>>

\* The read that follows the one of this structure.
NextRead_ProcessingLast(b) ==
    CASE b = "ready" -> "delayed" [] b = "delayed" -> "processing"
      [] b = "processing" -> "report"

NextRead(b) ==
    CASE b = "ready" -> "processing" [] b = "processing" -> "delayed"
      [] b = "delayed" -> "report"

BeatRead(b, members) ==
    /\ beat = b
    /\ empty' = (empty /\ members = {})
    /\ beat' = NextRead(b)
    /\ UNCHANGED <<vars, loopVars>>

\* The gauge frontier_idle, which nothing reads back, takes the answer; a
\* pipeline that failed leaves it alone.
BeatReport ==
    /\ beat = "report"
    /\ beat' = "rest" /\ empty' = FALSE
    /\ UNCHANGED <<vars, loopVars>>

Heartbeat ==
    \/ BeatStart
    \/ BeatRead("ready", ready) \/ BeatRead("processing", processing)
    \/ BeatRead("delayed", DOMAIN delayed)
    \/ BeatReport

-----------------------------------------------------------------------------

\* Everybody else who uses the frontier.
Client ==
    /\ \/ \E v \in Video : AdmitVideo(v)
       \/ \E l \in Listing \ Excluded : AdmitListing(l)
       \/ SeedListing(BaseUrl)
       \/ Lease
       \/ LeaseAborted
       \/ \E j \in issued : Resolve(j)
    /\ UNCHANGED <<loopVars, beatVars>>

Clock == Tick /\ UNCHANGED <<loopVars, beatVars>>

Loops ==
    \/ ListingTick \/ ListingPage \/ PageFails
    \/ PromoterTick \/ ReaperTick \/ SweeperTick
    \/ Cancel \/ Client \/ Clock

\* What happened while a beat that may still find nothing was reading.
History ==
    excused' = /\ beat' # "rest" /\ empty'
               /\ \/ Jobs' = {}
                  \/ beat # "rest" /\ (excused \/ ~(ready' \subseteq ready))

RInit ==
    /\ Init
    /\ cancelled = FALSE /\ draining = FALSE /\ errors = 0
    /\ beat = "rest" /\ empty = FALSE
    /\ excused = FALSE

RNext == (Loops \/ Heartbeat) /\ History

RSpec == RInit /\ [][RNext]_rvars

\* Tickers fire, the calls of a tick return, and time passes.
RFairSpec ==
    /\ RSpec
    /\ WF_rvars(ListingTick /\ History)
    /\ WF_rvars((ListingPage \/ PageFails) /\ History)
    /\ WF_rvars(PromoterTick /\ History)
    /\ WF_rvars(ReaperTick /\ History)
    /\ WF_rvars(SweeperTick /\ History)
    /\ WF_rvars(Clock /\ History)

-----------------------------------------------------------------------------
(* Properties.                                                             *)

\* "Drain in full pages" (scheduler.go:106): when the drain stops by itself
\* nothing is due any more.  The count it stops on leaves out the listings a
\* page skipped, so this rests on no due listing being dead.
DrainIsComplete ==
    [][draining /\ ~draining' /\ errors' = errors /\ ~cancelled
         => Due(listingNext)' = {}]_rvars

\* What the bound on job ids cuts off.
Exhausted ==
    \E n \in {SchedulerBatchLimit, PromoteBatchLimit, ReapBatchLimit,
              SweepBatchLimit} : seq + n > MaxJob

\* The tick of the listing scheduler ends, so that the next one comes and
\* shutdown can join the loop.
DrainEnds == draining ~> (~draining \/ Exhausted)

\* A job that waits for a reconciler: backing off, abandoned by its holder,
\* or stranded by an interrupted LEASE behind leases that run out.  What would
\* happen after MaxNow is cut off.
Waits(j) ==
    \/ j \in DOMAIN delayed /\ delayed[j] <= MaxNow
    \/ j \in DOMAIN lease /\ lease[j] <= MaxNow
    \/ /\ j \in processing \ DOMAIN lease
       /\ \A k \in DOMAIN lease : k.id < j.id => lease[k] <= MaxNow

\* No job is stuck: whatever the clients do or fail to do, and although each
\* call looks at a bounded window, each job that waits for a reconciler moves.
WorkReturns ==
    \A i \in 1..MaxJob, u \in URL :
       LET j == [id |-> i, url |-> u]
       IN  Waits(j) ~> (~Waits(j) \/ cancelled \/ Exhausted)

\* The reads follow a job's way forward, so Idle (beat has read all three
\* structures and found nothing) overlooks a job only when one entered ready
\* while it was reading; otherwise the frontier really was empty for a moment.
IdleUnlessEntered == beat = "report" /\ empty => excused

=============================================================================
