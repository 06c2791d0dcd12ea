-------------------------- MODULE ReconcilersProofs --------------------------
(***************************************************************************)
(* Proofs about the reconciler loops, for every set of URLs, every limit   *)
(* and every history of failed calls.  The loops take only steps of        *)
(* Frontier, so its inductive invariant holds here; with it the count the  *)
(* drain stops on is the size of the page.                                 *)
(***************************************************************************)
EXTENDS Reconcilers, FrontierProofs, FiniteSetTheorems

\* A step of the loops is a step of the frontier, or leaves it alone.
LEMMA LoopStep == [RNext]_rvars => [Next]_vars
<1> SUFFICES ASSUME [RNext]_rvars PROVE [Next]_vars
  OBVIOUS
<1>1. CASE ListingTick \/ PageFails \/ Cancel \/ UNCHANGED rvars
  BY <1>1 DEF ListingTick, PageFails, Cancel, rvars
<1>2. CASE ListingPage
  BY <1>2 DEF ListingPage, Next
<1>3. CASE PromoterTick \/ ReaperTick \/ SweeperTick
  BY <1>3 DEF PromoterTick, ReaperTick, SweeperTick, Next
<1>4. CASE Client
  BY <1>4 DEF Client, Next
<1>5. CASE Clock
  BY <1>5 DEF Clock, Next
<1>6. CASE Heartbeat
  BY <1>6 DEF Heartbeat, BeatStart, BeatRead, BeatReport
<1> QED BY <1>1, <1>2, <1>3, <1>4, <1>5, <1>6 DEF RNext, Loops

\* What is proved of the frontier holds under the loops.
LEMMA LoopInv == RSpec => []IndInv
<1>1. RInit => IndInv
  BY IndInvInit DEF RInit
<1>2. IndInv /\ [RNext]_rvars => IndInv'
  BY LoopStep, TypeStep, FencedStep, UrlStep, FencedIsFence DEF IndInv
<1> QED BY <1>1, <1>2, PTL DEF RSpec

\* Failed calls are counted.
ErrorsCounted == errors \in Nat

\* The count of failed pages is a number.
LEMMA LoopErrors == RSpec => []ErrorsCounted
<1>1. RInit => ErrorsCounted
  BY DEF RInit, ErrorsCounted
<1>2. ErrorsCounted /\ [RNext]_rvars => ErrorsCounted'
  BY DEF ErrorsCounted, RNext, Loops, ListingTick, ListingPage, PageFails, PromoterTick, ReaperTick,
         SweeperTick, Cancel, Client, Clock, Heartbeat, BeatStart, BeatRead, BeatReport,
         loopVars, rvars
<1> QED BY <1>1, <1>2, PTL DEF RSpec

\* A script that walks a set in some order meets each of its members once.
LEMMA SortedCount ==
    ASSUME NEW z, NEW n \in Nat, NEW S, NEW b \in Sorted(z, n, S)
    PROVE  IsFiniteSet(S) /\ Cardinality(S) = n
<1>1. /\ b \in [1..n -> S]
      /\ \A x \in S : \E i \in 1..n : b[i] = x
      /\ \A i, j \in 1..n : i < j => b[i] # b[j]
  BY DEF Sorted
<1>2. \A i, j \in 1..n : b[i] = b[j] => i = j
  BY <1>1
<1>3. b \in Bijection(1..n, S)
  BY <1>1, <1>2 DEF Bijection, Injection, Surjection, IsInjective
<1>4. IsFiniteSet(1..n) /\ Cardinality(1..n) = n
  BY FS_Interval
<1> QED BY <1>3, <1>4, FS_Bijection DEF ExistsBijection

\* No due listing is blocked: a quarantine ends when its listing falls due.
LEMMA DueIsFree ==
    ASSUME IndInv, NEW l \in Due(listingNext)
    PROVE  ~Blocked(l)
<1>1. l \in Listing /\ l \in DOMAIN listingNext /\ listingNext[l] <= now
  BY DEF IndInv, TypeOK, IsMap, Due
<1> QED BY <1>1 DEF Blocked, IndInv, UrlInv, DeadIsSettled, TypeOK, IsMap

\* A page with fewer jobs than the limit took every listing that was due.
LEMMA LastPageTakesAll ==
    ASSUME IndInv, RunListingScheduler, LastPage(seq' - seq)
    PROVE  Due(listingNext)' = {}
<1> DEFINE D == Due(listingNext)
           free(P) == {l \in P : ~Blocked(l)}
<1>1. PICK P \in Page(listingNext, D, SchedulerBatchLimit),
           n \in 0..SchedulerBatchLimit :
         /\ \E b \in Sorted(listingNext, n, free(P)) : seq' = seq + n
         /\ listingNext' = ScheduleAfter(P, free(P))
         /\ now' = now
  BY DEF RunListingScheduler
<1>2. PICK b \in Sorted(listingNext, n, free(P)) : seq' = seq + n
  BY <1>1
<1>3. /\ P \subseteq D
      /\ Cardinality(P) = IF Cardinality(D) < SchedulerBatchLimit
                          THEN Cardinality(D) ELSE SchedulerBatchLimit
  BY DEF Page
<1>4. free(P) = P
  BY <1>3, DueIsFree
<1>5. n \in Nat /\ seq \in Nat /\ SchedulerBatchLimit \in Nat
  BY ConfigAssumption DEF IndInv, TypeOK
<1>6. n < SchedulerBatchLimit
  BY <1>2, <1>5 DEF LastPage
<1>7. Cardinality(P) = n
  BY <1>2, <1>4, <1>5, SortedCount
<1>8. D \subseteq Listing
  BY DEF Due, IndInv, TypeOK, IsMap
<1>9. IsFiniteSet(D) /\ Cardinality(D) \in Nat
  BY <1>8, FiniteAssumption, FS_Subset, FS_CardinalityType
<1>10. P = D
  <2>1. Cardinality(P) = Cardinality(D)
    BY <1>3, <1>5, <1>6, <1>7, <1>9
  <2> QED BY <1>3, <1>9, <2>1, FS_Subset
<1>11. listingNext' = [l \in DOMAIN listingNext |->
                          IF l \in D THEN PendingScore ELSE listingNext[l]]
  BY <1>1, <1>4, <1>10 DEF ScheduleAfter
<1>12. now \in Nat /\ now < PendingScore
  BY ConfigAssumption, PendingAssumption DEF IndInv, TypeOK
<1>13. PendingScore \in Nat
  BY PendingAssumption
<1>14. ASSUME NEW l \in Due(listingNext)' PROVE FALSE
  <2>1. l \in DOMAIN listingNext' /\ listingNext'[l] <= now'
    BY <1>14 DEF Due
  <2>2. l \in DOMAIN listingNext
    BY <1>11, <2>1
  <2>3. CASE l \in D
    BY <1>1, <1>11, <1>12, <1>13, <2>1, <2>2, <2>3
  <2>4. CASE l \notin D
    <3>1. listingNext'[l] = listingNext[l]
      BY <1>11, <2>2, <2>4
    <3> QED BY <1>1, <2>1, <2>2, <2>4, <3>1 DEF Due
  <2> QED BY <2>3, <2>4
<1> QED BY <1>14

\* "Drain in full pages" (scheduler.go:106): a drain that ends by itself has
\* left nothing due, for every limit and every number of listings.
THEOREM DrainComplete == RSpec => DrainIsComplete
<1> DEFINE A == draining /\ ~draining' /\ errors' = errors /\ ~cancelled
                   => Due(listingNext)' = {}
<1>1. IndInv /\ ErrorsCounted /\ [RNext]_rvars => [A]_rvars
  <2> SUFFICES ASSUME IndInv, ErrorsCounted, RNext,
                      draining, ~draining', errors' = errors, ~cancelled
               PROVE  Due(listingNext)' = {}
    OBVIOUS
  <2>1. CASE ListingPage
    <3>1. RunListingScheduler /\ LastPage(seq' - seq)
      BY <2>1 DEF ListingPage
    <3> QED BY <3>1, LastPageTakesAll
  <2>2. CASE ListingTick \/ Cancel
    BY <2>2 DEF ListingTick, Cancel
  <2>3. CASE PageFails
    BY <2>3 DEF PageFails, ErrorsCounted
  <2>4. CASE PromoterTick \/ ReaperTick \/ SweeperTick \/ Client \/ Clock
    BY <2>4 DEF PromoterTick, ReaperTick, SweeperTick, Client, Clock, loopVars
  <2>5. CASE Heartbeat
    BY <2>5 DEF Heartbeat, BeatStart, BeatRead, BeatReport, loopVars
  <2> QED BY <2>1, <2>2, <2>3, <2>4, <2>5 DEF RNext, Loops
<1> QED BY <1>1, LoopInv, LoopErrors, PTL DEF RSpec, DrainIsComplete

-----------------------------------------------------------------------------
(* The heartbeat.                                                          *)

\* A job enters processing from nowhere but ready.
LEMMA ProcessingFromReady ==
    ASSUME [Next]_vars
    PROVE  processing' \subseteq processing \cup ready
<1>1. CASE \/ \E v \in Video : AdmitVideo(v)
           \/ \E l \in Listing \ Excluded : AdmitListing(l)
           \/ SeedListing(BaseUrl)
  BY <1>1 DEF AdmitVideo, AdmitListing, SeedListing, vars
<1>2. CASE Lease \/ LeaseAborted
  BY <1>2 DEF Lease, LeaseAborted, Oldest, vars
<1>3. ASSUME NEW j \in issued, Resolve(j) PROVE processing' \subseteq processing
  BY <1>3 DEF Resolve, Ack, Nack, Terminal, Fail, CompleteListing, Stale, Release, vars
<1>4. CASE Promote \/ Reap \/ Sweep
  BY <1>4 DEF Promote, Reap, Sweep
<1>5. CASE RunListingScheduler
  BY <1>5 DEF RunListingScheduler
<1>6. CASE Tick \/ UNCHANGED vars
  BY <1>6 DEF Tick, vars
<1> QED BY <1>1, <1>2, <1>3, <1>4, <1>5, <1>6 DEF Next

\* What a beat that found nothing so far knows of the structures it has read:
\* they are still empty, unless it is excused.
BeatKnows ==
    /\ beat \in {"rest", "ready", "processing", "delayed", "report"}
    /\ empty \in BOOLEAN /\ excused \in BOOLEAN
    /\ beat = "processing" /\ empty => excused \/ ready = {}
    /\ beat = "delayed" /\ empty => excused \/ (ready = {} /\ processing = {})
    /\ beat = "report" /\ empty => excused

\* What a beat knows stays true while others use the frontier.
LEMMA BeatStep ==
    ASSUME BeatKnows, [RNext]_rvars
    PROVE  BeatKnows'
<1>0. CASE UNCHANGED rvars
  BY <1>0 DEF BeatKnows, rvars, vars, beatVars
<1> SUFFICES ASSUME RNext PROVE BeatKnows'
  BY <1>0
<1>1. /\ excused' \in BOOLEAN
      /\ excused' <=> /\ beat' # "rest" /\ empty'
                      /\ \/ Jobs' = {}
                         \/ beat # "rest" /\ (excused \/ ~(ready' \subseteq ready))
  BY DEF RNext, History
<1>2. CASE Loops
  <2>1. UNCHANGED <<beat, empty>>
    BY <1>2 DEF Loops, ListingTick, ListingPage, PageFails, PromoterTick, ReaperTick, SweeperTick,
                Cancel, Client, Clock, beatVars
  <2>2. processing' \subseteq processing \cup ready
    BY LoopStep, ProcessingFromReady
  <2> QED BY <1>1, <2>1, <2>2 DEF BeatKnows
<1>3. CASE Heartbeat
  <2>0. UNCHANGED <<ready, processing, delayed>> /\ Jobs' = Jobs
    BY <1>3 DEF Heartbeat, BeatStart, BeatRead, BeatReport, vars, Jobs
  <2>1. CASE BeatStart \/ BeatReport
    BY <1>1, <2>1 DEF BeatStart, BeatReport, BeatKnows
  <2>2. CASE BeatRead("ready", ready)
    <3>1. beat = "ready" /\ beat' = "processing" /\ empty' = (empty /\ ready = {})
      BY <2>2 DEF BeatRead, NextRead
    <3> QED BY <1>1, <2>0, <3>1 DEF BeatKnows
  <2>3. CASE BeatRead("processing", processing)
    <3>1. beat = "processing" /\ beat' = "delayed" /\ empty' = (empty /\ processing = {})
      BY <2>3 DEF BeatRead, NextRead
    <3> QED BY <1>1, <2>0, <3>1 DEF BeatKnows
  <2>4. CASE BeatRead("delayed", DOMAIN delayed)
    <3>1. beat = "delayed" /\ beat' = "report" /\ empty' = (empty /\ DOMAIN delayed = {})
      BY <2>4 DEF BeatRead, NextRead
    <3>2. empty' /\ ~excused => Jobs = {}
      BY <3>1 DEF BeatKnows, Jobs
    <3> QED BY <1>1, <2>0, <3>1, <3>2 DEF BeatKnows
  <2> QED BY <1>3, <2>1, <2>2, <2>3, <2>4 DEF Heartbeat
<1> QED BY <1>2, <1>3 DEF RNext

\* The order of Idle's reads (frontier.go) follows a job's way forward, so that it
\* reports an idle frontier only if the frontier was empty at a moment, or a job
\* entered ready, while it was reading.
THEOREM IdleIsExcused == RSpec => []IdleUnlessEntered
<1>1. RInit => BeatKnows
  BY DEF RInit, BeatKnows
<1>2. BeatKnows /\ [RNext]_rvars => BeatKnows'
  BY BeatStep
<1>3. BeatKnows => IdleUnlessEntered
  BY DEF BeatKnows, IdleUnlessEntered
<1> QED BY <1>1, <1>2, <1>3, PTL DEF RSpec

=============================================================================
