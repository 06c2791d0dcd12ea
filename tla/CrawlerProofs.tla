---------------------------- MODULE CrawlerProofs ----------------------------
(***************************************************************************)
(* Proofs about the crawler process, for every number of workers and every *)
(* set of URLs and links: it uses the frontier only as Frontier allows, so *)
(* the inductive invariant of FrontierProofs holds under it; nothing is    *)
(* acknowledged before it is stored and its links are known; and a lease   *)
(* protects its holder.                                                    *)
(*                                                                         *)
(* What a worker holds and has done so far (Held, Progress) is stated per  *)
(* worker.  A step of one worker keeps it for the others because facts of  *)
(* the frontier only grow (Grows) and because a lease that is not resolved *)
(* by its holder ends no sooner than its deadline (LeaseKept).             *)
(*                                                                         *)
(* The last part is about the other thing that happens to a frontier in    *)
(* use: its Redis goes back to an older snapshot while jobs are out.       *)
(***************************************************************************)
EXTENDS Crawler, FrontierRestart, FrontierProofs, FiniteSetTheorems

\* The frontier knows the link x, as in ChildrenKnown.
KnownLink(x) == IF x \in Video THEN BloomHas(x) \/ x \in DOMAIN dead
                ELSE x \in DOMAIN listingNext

AllKnown(U) == \A x \in U \ Excluded : KnownLink(x)

Label == {"loop", "leased", "fetch", "store", "admit", "resolve", "fatal", "stopped"}

Operation == {"Ack", "Nack", "Terminal", "FailStrikeable", "FailRateLimited",
              "CompleteListing"}

\* The state of the process and of its workers.
ProcessOK ==
    /\ pc \in [Worker -> Label]
    /\ job \in [Worker -> Job]
    /\ todo \in [Worker -> SUBSET URL]
    /\ found \in [Worker -> BOOLEAN]
    /\ op \in [Worker -> Operation]
    /\ after \in [Worker -> {"loop", "stop", "fatal"}]
    /\ limited \in [Worker -> Nat]
    /\ deadline \in [Worker -> Nat]
    /\ stored \subseteq Video

\* A worker at work was handed its job, and as long as nobody else may resolve
\* it the lease is the one it was given.
Held(w) ==
    /\ job[w] \in issued
    /\ job[w] \in DOMAIN lease => lease[job[w]] = deadline[w]
    /\ job[w] \notin DOMAIN lease => deadline[w] <= now

\* What the worker has done when it is at its label.
Progress(w) ==
    LET u == job[w].url
    IN  /\ pc[w] \in {"fetch", "store", "admit"} => u \notin Excluded
        /\ pc[w] = "store" => u \in Video
        /\ pc[w] = "admit" /\ u \in Video => u \in stored
        /\ pc[w] \in {"store", "admit"} => AllKnown(Links[u] \ todo[w])
        /\ pc[w] = "resolve" =>
              /\ op[w] = "Ack" =>
                    \/ u \in Excluded
                    \/ u \in Video /\ u \in stored /\ AllKnown(Links[u])
              /\ op[w] # "Ack" => u \notin Excluded
              /\ op[w] = "CompleteListing" => u \in Listing /\ AllKnown(Links[u])

WorkersInv ==
    /\ \A w \in Worker : (Working(w) => Held(w)) /\ Progress(w)
    /\ \A w, x \in Worker : w # x /\ Working(w) /\ Working(x) => job[w] # job[x]

\* A video that was ever handed out or stored has its claim, unless the filter
\* was full.
ClaimedUnlessFull ==
    /\ IsFiniteSet(bloom) /\ IsFiniteSet(stored)
    /\ ~BloomFull => stored \subseteq bloom /\ URLs(issued) \cap Video \subseteq bloom

CInv ==
    /\ IndInv
    /\ ProcessOK
    /\ WorkersInv
    /\ ClaimedUnlessFull
    /\ StoredBeforeAck
    /\ ChildrenKnown

-----------------------------------------------------------------------------
(* What no step of the frontier takes back.                                *)

\* The filter only grows, and not at all once it is full.
LEMMA BloomGrows ==
    ASSUME IndInv, [Next]_vars
    PROVE  /\ bloom \subseteq bloom'
           /\ BloomFull => bloom' = bloom
           /\ IsFiniteSet(bloom) => IsFiniteSet(bloom')
<1>1. ASSUME NEW j, Resolve(j) PROVE bloom' = bloom
  BY <1>1 DEF Resolve, Ack, Nack, Terminal, Fail, CompleteListing, Stale, vars, urlVars
<1>2. ASSUME NEW v, AdmitVideo(v)
      PROVE  bloom' = bloom \/ (~BloomFull /\ bloom' = bloom \cup {v})
  <2>1. CASE UNCHANGED vars
    BY <2>1 DEF vars
  <2>2. CASE bloom' = IF BloomHas(v) \/ BloomFull THEN bloom ELSE bloom \cup {v}
    BY <2>2
  <2> QED BY <1>2, <2>1, <2>2 DEF AdmitVideo
<1>3. ASSUME NEW l, AdmitListing(l) \/ SeedListing(l) PROVE bloom' = bloom
  BY <1>3 DEF AdmitListing, SeedListing, vars
<1>4. ASSUME \/ Lease \/ LeaseAborted \/ Promote \/ Reap \/ Sweep \/ RunListingScheduler
             \/ Tick \/ UNCHANGED vars
      PROVE  bloom' = bloom
  BY <1>4 DEF Lease, LeaseAborted, Promote, Reap, Sweep, RunListingScheduler, Tick,
     vars, urlVars
<1>5. bloom' = bloom \/ (~BloomFull /\ \E v : bloom' = bloom \cup {v})
  BY <1>1, <1>2, <1>3, <1>4 DEF Next
<1> QED BY <1>5, FS_AddElement

\* A dead video stays dead, since a video is only ever dead for good.
LEMMA DeadVideosStay ==
    ASSUME IndInv, [Next]_vars
    PROVE  DOMAIN dead \cap Video \subseteq DOMAIN dead'
<1> SUFFICES ASSUME NEW v \in DOMAIN dead \cap Video PROVE v \in DOMAIN dead'
  OBVIOUS
<1>1. Blocked(v) /\ v \notin Listing
  BY UrlAssumption DEF Blocked, IndInv, UrlInv, DeadIsSettled
<1>2. ASSUME NEW u, Revive({u}), u # v PROVE v \in DOMAIN dead'
  BY <1>2, RemoveFacts DEF Revive
<1>3. ASSUME NEW u, AdmitVideo(u) \/ AdmitListing(u) PROVE v \in DOMAIN dead'
  <2>1. UNCHANGED dead \/ (~Blocked(u) /\ Revive({u}))
    BY <1>3 DEF AdmitVideo, AdmitListing, vars
  <2> QED BY <1>1, <1>2, <2>1 DEF Blocked
<1>4. ASSUME NEW j, Resolve(j) PROVE v \in DOMAIN dead'
  <2>1. ASSUME NEW u, NEW until, Bury(u, until) PROVE v \in DOMAIN dead'
    BY <2>1 DEF Bury, ZAdd
  <2>2. CASE \/ UNCHANGED dead
             \/ \E until : Bury(j.url, until)
             \/ j.url \in Listing /\ Revive({j.url})
    BY <1>1, <1>2, <2>1, <2>2
  <2> QED BY <1>4, <2>2 DEF Resolve, Ack, Nack, Terminal, Fail, CompleteListing, Stale,
             vars, urlVars
<1>5. CASE RunListingScheduler
  <2>1. PICK P, free : /\ P \subseteq Due(listingNext) /\ free \subseteq P /\ Revive(free)
    BY <1>5, SchedulerFacts DEF IndInv
  <2>2. v \notin free
    BY <1>1, <2>1 DEF Due, IndInv, TypeOK, IsMap
  <2> QED BY <2>1, <2>2, RemoveFacts DEF Revive
<1>6. CASE \/ SeedListing(BaseUrl) \/ Lease \/ LeaseAborted \/ Promote \/ Reap \/ Sweep
           \/ Tick \/ UNCHANGED vars
  BY <1>6 DEF SeedListing, Lease, LeaseAborted, Promote, Reap, Sweep, Tick, vars, urlVars
<1> QED BY <1>3, <1>4, <1>5, <1>6 DEF Next

\* Jobs are handed out from ready, and time does not go back.
LEMMA IssuedGrows ==
    ASSUME IndInv, [Next]_vars
    PROVE  /\ issued \subseteq issued' /\ issued' \subseteq issued \cup ready
           /\ now \in Nat /\ now' \in Nat /\ now <= now'
<1>1. now \in Nat
  BY ConfigAssumption DEF IndInv, TypeOK
<1>2. ASSUME NEW j, Resolve(j) PROVE UNCHANGED <<issued, now>>
  BY <1>2 DEF Resolve, Ack, Nack, Terminal, Fail, CompleteListing, Stale, vars, urlVars
<1>3. ASSUME NEW u, AdmitVideo(u) \/ AdmitListing(u) \/ SeedListing(u)
      PROVE  UNCHANGED <<issued, now>>
  BY <1>3 DEF AdmitVideo, AdmitListing, SeedListing, vars
<1>4. CASE \/ LeaseAborted \/ Promote \/ Reap \/ Sweep \/ RunListingScheduler
           \/ UNCHANGED vars
  <2>1. UNCHANGED <<issued, now>>
    BY <1>4 DEF LeaseAborted, Promote, Reap, Sweep, RunListingScheduler, vars
  <2> QED BY <1>1, <2>1
<1>5. CASE Lease
  BY <1>1, <1>5 DEF Lease, Oldest, vars
<1>6. CASE Tick
  BY <1>1, <1>6 DEF Tick
<1> QED BY <1>1, <1>2, <1>3, <1>4, <1>5, <1>6 DEF Next

\* A link the frontier knows stays known.
LEMMA KnownStays ==
    ASSUME IndInv, [Next]_vars, NEW x, KnownLink(x)
    PROVE  KnownLink(x)'
BY BloomGrows, DeadVideosStay, ScheduleGrows DEF KnownLink, BloomHas

-----------------------------------------------------------------------------
(* What a step that does not resolve a job leaves alone.                   *)

\* A step of the frontier that resolves no job.
NoResolve ==
    \/ \E v \in Video : AdmitVideo(v)
    \/ \E l \in Listing \ Excluded : AdmitListing(l)
    \/ SeedListing(BaseUrl)
    \/ Lease \/ LeaseAborted
    \/ Promote \/ Reap \/ Sweep \/ RunListingScheduler \/ Tick
    \/ UNCHANGED vars

\* A step that does not resolve j.
StepBut(j) == NoResolve \/ \E k \in issued \ {j} : Resolve(k)

\* Only a resolution acknowledges a URL or counts a visit.
LEMMA NothingFinished ==
    ASSUME NoResolve
    PROVE  UNCHANGED <<acked, barren>> /\ [Next]_vars
<1>1. ASSUME NEW u, AdmitVideo(u) \/ AdmitListing(u) \/ SeedListing(u)
      PROVE  UNCHANGED <<acked, barren>>
  BY <1>1 DEF AdmitVideo, AdmitListing, SeedListing, vars
<1>2. ASSUME \/ Lease \/ LeaseAborted \/ Promote \/ Reap \/ Sweep
             \/ RunListingScheduler \/ Tick \/ UNCHANGED vars
      PROVE  UNCHANGED <<acked, barren>>
  BY <1>2 DEF Lease, LeaseAborted, Promote, Reap, Sweep, RunListingScheduler, Tick,
     vars, urlVars
<1>3. UNCHANGED <<acked, barren>>
  BY <1>1, <1>2 DEF NoResolve
<1> QED BY <1>3 DEF NoResolve, Next

\* A lease that its holder does not resolve stays as it is until it runs out.
LEMMA LeaseKept ==
    ASSUME IndInv, NEW j \in issued, StepBut(j)
    PROVE  /\ j \in DOMAIN lease' => j \in DOMAIN lease /\ lease'[j] = lease[j]
           /\ j \in DOMAIN lease /\ j \notin DOMAIN lease' => lease[j] <= now
<1>1. CASE UNCHANGED lease
  BY <1>1
<1>2. CASE \E k : k # j /\ lease' = Remove(lease, {k})
  <2>1. PICK k : k # j /\ lease' = Remove(lease, {k})
    BY <1>2
  <2>2. DOMAIN lease' = DOMAIN lease \ {k} /\ \A x \in DOMAIN lease \ {k} : lease'[x] = lease[x]
    BY <2>1, RemoveFacts
  <2> QED BY <2>1, <2>2
<1>3. ASSUME NEW k, k # j, Resolve(k)
      PROVE  UNCHANGED lease \/ \E x : x # j /\ lease' = Remove(lease, {x})
  <2>1. UNCHANGED lease \/ lease' = Remove(lease, {k})
    BY <1>3 DEF Resolve, Ack, Nack, Terminal, Fail, CompleteListing, Stale, Release, vars
  <2> QED BY <1>3, <2>1
<1>4. ASSUME NEW u, AdmitVideo(u) \/ AdmitListing(u) \/ SeedListing(u)
      PROVE  UNCHANGED lease
  BY <1>4 DEF AdmitVideo, AdmitListing, SeedListing, vars
<1>5. ASSUME \/ LeaseAborted \/ Promote \/ Sweep \/ RunListingScheduler \/ Tick
             \/ UNCHANGED vars
      PROVE  UNCHANGED lease
  BY <1>5 DEF LeaseAborted, Promote, Sweep, RunListingScheduler, Tick, vars
<1>6. CASE Lease
  <2>1. CASE UNCHANGED vars
    BY <1>1, <2>1 DEF vars
  <2>2. CASE ~UNCHANGED vars
    <3>1. PICK k \in ready : lease' = ZAdd(lease, k, now + LeaseTimeout)
      BY <1>6, <2>2 DEF Lease, Oldest
    <3>2. k # j
      BY DEF IndInv, FencedJobs
    <3>3. /\ DOMAIN lease' = DOMAIN lease \cup {k}
          /\ \A x \in DOMAIN lease : x # k => lease'[x] = lease[x]
      BY <3>1 DEF ZAdd
    <3> QED BY <3>2, <3>3
  <2> QED BY <2>1, <2>2
<1>7. CASE Reap
  <2>1. PICK P : /\ \A k \in P : lease[k] <= now
                 /\ lease' = Remove(lease, P)
    BY <1>7, ReapFacts DEF IndInv
  <2>2. DOMAIN lease' = DOMAIN lease \ P /\ \A x \in DOMAIN lease \ P : lease'[x] = lease[x]
    BY <2>1, RemoveFacts
  <2> QED BY <2>1, <2>2
<1> QED BY <1>1, <1>2, <1>3, <1>4, <1>5, <1>6, <1>7 DEF StepBut, NoResolve

\* A worker still holds its job after a step that does not resolve it.
LEMMA HeldStays ==
    ASSUME CInv, [Next]_vars, NEW w \in Worker, Working(w), StepBut(job[w]),
           UNCHANGED <<job[w], deadline[w]>>
    PROVE  Held(w)'
<1>1. IndInv /\ Held(w) /\ job[w] \in issued
  BY DEF CInv, WorkersInv, Held
<1>2. job[w] \in issued' /\ now \in Nat /\ now' \in Nat /\ now <= now'
  BY <1>1, IssuedGrows
<1>3. /\ job[w] \in DOMAIN lease' => job[w] \in DOMAIN lease /\ lease'[job[w]] = lease[job[w]]
      /\ job[w] \in DOMAIN lease /\ job[w] \notin DOMAIN lease' => lease[job[w]] <= now
  BY <1>1, LeaseKept
<1>4. deadline[w] \in Nat
  BY DEF CInv, ProcessOK
<1> QED BY <1>1, <1>2, <1>3, <1>4 DEF Held

\* A set of links the frontier knows stays known.
LEMMA AllKnownStays ==
    ASSUME IndInv, [Next]_vars, NEW U, AllKnown(U)
    PROVE  AllKnown(U)'
BY KnownStays DEF AllKnown

\* What holds of a worker still holds after a step of somebody else.
LEMMA Bystander ==
    ASSUME CInv, [Next]_vars, NEW w \in Worker,
           Working(w) => StepBut(job[w]),
           UNCHANGED <<pc[w], job[w], todo[w], op[w], deadline[w]>>,
           stored \subseteq stored'
    PROVE  (Working(w) => Held(w))' /\ Progress(w)'
<1>1. IndInv /\ Progress(w)
  BY DEF CInv, WorkersInv
<1>2. Working(w)' => Held(w)'
  BY HeldStays DEF Working
<1>3. Progress(w)'
  <2> DEFINE u == job[w].url
  <2>1. AllKnown(Links[u] \ todo[w]) => AllKnown(Links[u] \ todo[w])'
    BY <1>1, AllKnownStays
  <2>2. AllKnown(Links[u]) => AllKnown(Links[u])'
    BY <1>1, AllKnownStays
  <2> QED BY <1>1, <2>1, <2>2 DEF Progress
<1> QED BY <1>2, <1>3 DEF Working

-----------------------------------------------------------------------------
(* The process uses the frontier as its specification allows.              *)

\* An admission, of a link or of a seed, is one the frontier offers.
LEMMA AdmissionIsOffered ==
    ASSUME NEW x \in URL, Admission(x)
    PROVE  NoResolve
BY DEF Admission, NoResolve, URL

\* A worker resolves only the job it holds, in a way its URL allows.
LEMMA WorkerUses ==
    ASSUME CInv, NEW w \in Worker, WorkerStep(w)
    PROVE  \/ NoResolve
           \/ ResolveJob(w) /\ job[w] \in issued /\ Resolve(job[w])
<1>1. CASE \/ Stop(w) \/ Admitted(w) \/ Fetch(w) \/ Store(w) \/ StoreFails(w)
           \/ AdmitDone(w) \/ StopCrawl(w)
  <2>1. UNCHANGED vars
    BY <1>1 DEF Stop, Admitted, Fetch, Store, StoreFails, AdmitDone, StopCrawl
  <2> QED BY <2>1 DEF NoResolve
<1>2. CASE LeaseJob(w) \/ LeaseLost(w)
  BY <1>2 DEF LeaseJob, LeaseLost, NoResolve
<1>3. CASE Admit(w) \/ AdmitRefused(w) \/ AdmitFails(w)
  <2>1. todo[w] \subseteq URL
    BY DEF CInv, ProcessOK
  <2>2. UNCHANGED vars \/ \E x \in todo[w] : Admission(x)
    BY <1>3 DEF Admit, AdmitRefused, AdmitFails
  <2> QED BY <2>1, <2>2, AdmissionIsOffered DEF NoResolve
<1>4. CASE ResolveJob(w)
  <2>1. CASE UNCHANGED vars
    BY <2>1 DEF NoResolve
  <2>2. CASE Call(op[w], job[w], found[w])
    <3>1. /\ pc[w] = "resolve" /\ Working(w)
          /\ op[w] \in Operation /\ found[w] \in BOOLEAN
      BY <1>4 DEF ResolveJob, Working, CInv, ProcessOK
    <3>2. job[w] \in issued /\ Progress(w)
      BY <3>1 DEF CInv, WorkersInv, Held
    <3>3. CASE op[w] = "Ack"
      BY <1>4, <2>2, <3>1, <3>2, <3>3 DEF Call, Resolve, Progress
    <3>4. CASE op[w] = "Nack"
      BY <1>4, <2>2, <3>1, <3>2, <3>4 DEF Call, Resolve, Progress
    <3>5. CASE op[w] = "Terminal"
      BY <1>4, <2>2, <3>1, <3>2, <3>5 DEF Call, Resolve, Progress
    <3>6. CASE op[w] = "FailStrikeable"
      BY <1>4, <2>2, <3>1, <3>2, <3>6 DEF Call, Resolve, Progress
    <3>7. CASE op[w] = "FailRateLimited"
      BY <1>4, <2>2, <3>1, <3>2, <3>7 DEF Call, Resolve, Progress
    <3>8. CASE op[w] = "CompleteListing"
      BY <1>4, <2>2, <3>1, <3>2, <3>8 DEF Call, Resolve, Progress
    <3> QED BY <3>1, <3>3, <3>4, <3>5, <3>6, <3>7, <3>8 DEF Operation
  <2> QED BY <1>4, <2>1, <2>2 DEF ResolveJob
<1> QED BY <1>1, <1>2, <1>3, <1>4 DEF WorkerStep

\* A step of a worker touches its own state only.
LEMMA WorkerTouches ==
    ASSUME CInv, NEW w \in Worker, WorkerStep(w), NEW x \in Worker, x # w
    PROVE  UNCHANGED <<pc[x], job[x], todo[x], op[x], deadline[x]>>
<1> ProcessOK
  BY DEF CInv
<1>1. CASE Stop(w) \/ LeaseJob(w) \/ LeaseLost(w) \/ Admitted(w) \/ Fetch(w) \/ StopCrawl(w)
  BY <1>1 DEF Stop, LeaseJob, LeaseLost, Admitted, Fetch, StopCrawl, GoTo, ResolveWith,
     ProcessOK
<1>2. CASE Store(w) \/ StoreFails(w) \/ AdmitDone(w)
  BY <1>2 DEF Store, StoreFails, AdmitDone, GoTo, ResolveWith, ProcessOK
<1>3. CASE Admit(w) \/ AdmitRefused(w) \/ AdmitFails(w)
  BY <1>3 DEF Admit, AdmitRefused, AdmitFails, GoTo, ResolveWith, ProcessOK
<1>4. CASE ResolveJob(w)
  BY <1>4 DEF ResolveJob, ProcessOK
<1> QED BY <1>1, <1>2, <1>3, <1>4 DEF WorkerStep

\* Start-up changes nothing in the filter: every stored video was claimed
\* before it was stored, unless the filter was full already.
LEMMA StartIsStutter ==
    ASSUME CInv, Start
    PROVE  UNCHANGED vars
<1>1. Unknown \subseteq stored /\ IsFiniteSet(Unknown)
  <2>1. Unknown \subseteq stored
    BY DEF Unknown
  <2> QED BY <2>1, FS_Subset DEF CInv, ClaimedUnlessFull
<1>2. Unknown = {}
  <2>1. CASE BloomFull
    <3>1. Cardinality(bloom) \in Nat /\ Cardinality(Unknown) \in Nat
      BY <1>1, FS_CardinalityType DEF CInv, ClaimedUnlessFull
    <3>2. Cardinality(Unknown) = 0
      BY <2>1, <3>1, ConfigAssumption DEF Start, BloomFits, BloomFull
    <3> QED BY <1>1, <3>2, FS_EmptySet
  <2>2. CASE ~BloomFull
    <3>1. stored \subseteq bloom
      BY <2>2 DEF CInv, ClaimedUnlessFull
    <3> QED BY <3>1 DEF Unknown, BloomHas
  <2> QED BY <2>1, <2>2
<1> QED BY <1>2 DEF Start, vars

\* The steps of the process that are not a worker's.
ProcessStep ==
    \/ Supervise \/ Reconcile \/ Cancel
    \/ Start \/ StartRefused \/ SeedBase \/ SeedFresh \/ Launch
    \/ Exit \/ Crash
    \/ Clock

\* The steps of the rest of the process resolve nothing, and either leave the
\* workers alone or end them.
LEMMA ProcessUses ==
    ASSUME CInv, ProcessStep
    PROVE  /\ NoResolve
           /\ stored' = stored
           /\ UNCHANGED workerVars \/ FreshWorkers
<1>1. CASE Supervise \/ Cancel \/ StartRefused \/ Launch \/ Exit \/ Crash
  <2>1. UNCHANGED <<vars, stored>> /\ (UNCHANGED workerVars \/ FreshWorkers)
    BY <1>1 DEF Supervise, Cancel, StartRefused, Launch, Exit, Crash, cvars
  <2> QED BY <2>1 DEF NoResolve
<1>2. CASE Reconcile \/ SeedBase \/ Clock
  BY <1>2 DEF Reconcile, SeedBase, Clock, NoResolve
<1>3. CASE SeedFresh
  <2>1. \A x \in Seed : x \in URL
    BY UrlAssumption DEF URL
  <2> QED BY <1>3, <2>1, AdmissionIsOffered DEF SeedFresh
<1>4. CASE Start
  BY <1>4, StartIsStutter DEF Start, NoResolve
<1> QED BY <1>1, <1>2, <1>3, <1>4 DEF ProcessStep

\* Every step of the process is a step of the frontier, or none.
LEMMA ProcessStepsFrontier ==
    ASSUME CInv, [CNext]_cvars
    PROVE  [Next]_vars
<1>1. ASSUME NEW w \in Worker, WorkerStep(w) PROVE [Next]_vars
  <2>1. CASE NoResolve
    BY <2>1, NothingFinished
  <2>2. CASE job[w] \in issued /\ Resolve(job[w])
    BY <2>2 DEF Next
  <2> QED BY <1>1, <2>1, <2>2, WorkerUses
<1>2. CASE ProcessStep
  BY <1>2, ProcessUses, NothingFinished
<1>3. CASE UNCHANGED cvars
  BY <1>3 DEF cvars
<1> QED BY <1>1, <1>2, <1>3 DEF CNext, ProcessStep

-----------------------------------------------------------------------------
(* The parts of the invariant, step by step.                               *)

\* Types of the state of the workers.
LEMMA ProcessOKStep ==
    ASSUME CInv, [CNext]_cvars
    PROVE  ProcessOK'
<1> ProcessOK /\ TypeOK /\ NoJob \in Job
  <2>1. BaseUrl \in URL
    BY UrlAssumption DEF URL
  <2> QED BY <2>1 DEF CInv, IndInv, NoJob, Job
<1>1. ASSUME NEW w \in Worker, WorkerStep(w) PROVE ProcessOK'
  <2> USE DEF ProcessOK, Label, GoTo
  <2>1. ASSUME NEW o \in Operation, NEW a \in {"loop", "stop", "fatal"}, ResolveWith(w, o, a)
        PROVE  /\ pc' \in [Worker -> Label] /\ op' \in [Worker -> Operation]
               /\ after' \in [Worker -> {"loop", "stop", "fatal"}]
    BY <2>1 DEF ResolveWith
  <2>2. CASE Stop(w) \/ StopCrawl(w) \/ LeaseLost(w)
    BY <2>2 DEF Stop, StopCrawl, LeaseLost
  <2>3. CASE LeaseJob(w)
    <3>1. PICK j \in ready : /\ job' = [job EXCEPT ![w] = j]
                             /\ deadline' = [deadline EXCEPT ![w] = now + LeaseTimeout]
      BY <2>3 DEF LeaseJob, Oldest
    <3>2. j \in Job /\ now + LeaseTimeout \in Nat
      BY ConfigAssumption DEF TypeOK
    <3> QED BY <2>3, <3>1, <3>2 DEF LeaseJob
  <2>4. CASE Admitted(w)
    <3>1. /\ pc' \in [Worker -> Label] /\ op' \in [Worker -> Operation]
          /\ after' \in [Worker -> {"loop", "stop", "fatal"}]
      BY <2>1, <2>4 DEF Admitted, Operation
    <3> QED BY <2>4, <3>1 DEF Admitted
  <2>5. CASE Fetch(w)
    <3>1. PICK out \in Outcome :
             /\ Observe(w, out)
             /\ \/ /\ out = "page"
                   /\ GoTo(w, IF job[w].url \in Video THEN "store" ELSE "admit")
                   /\ todo' = [todo EXCEPT ![w] = Links[job[w].url]]
                   /\ found' = [found EXCEPT ![w] = FALSE]
                   /\ UNCHANGED <<op, after>>
                \/ /\ out # "page"
                   /\ \E a \in {"loop", "stop"} : ResolveWith(w, OpFor(out), a)
                   /\ UNCHANGED <<todo, found>>
      BY <2>5 DEF Fetch
    <3>2. UNCHANGED <<job, deadline, stored>>
      BY <2>5 DEF Fetch
    <3>3. limited' \in [Worker -> Nat]
      BY <3>1 DEF Observe
    <3>4. Links[job[w].url] \subseteq URL
      BY CrawlerAssumption DEF Job
    <3>5. out # "page" => OpFor(out) \in Operation
      BY <3>1 DEF Outcome, OpFor, Operation
    <3>6. CASE out = "page"
      BY <3>1, <3>2, <3>3, <3>4, <3>6
    <3>7. CASE out # "page"
      BY <2>1, <3>1, <3>2, <3>3, <3>5, <3>7
    <3> QED BY <3>6, <3>7
  <2>6. CASE Store(w)
    <3>1. job[w].url \in Video
      BY <2>6 DEF Store, CInv, WorkersInv, Progress
    <3> QED BY <2>6, <3>1 DEF Store
  <2>7. CASE StoreFails(w)
    <3>1. job[w].url \in Video
      BY <2>7 DEF StoreFails, CInv, WorkersInv, Progress
    <3>2. ResolveWith(w, "Nack", "loop") /\ "Nack" \in Operation
      BY <2>7 DEF StoreFails, Operation
    <3>3. stored' \subseteq Video
      BY <2>7, <3>1 DEF StoreFails
    <3> QED BY <2>1, <2>7, <3>2, <3>3 DEF StoreFails
  <2>8. CASE Admit(w)
    <3>1. PICK x : /\ todo' = [todo EXCEPT ![w] = @ \ {x}]
                   /\ found' = [found EXCEPT ![w] = @ \/ AdmissionResult(x) = "New"]
      BY <2>8 DEF Admit
    <3>2. (found[w] \/ AdmissionResult(x) = "New") \in BOOLEAN
      OBVIOUS
    <3> QED BY <2>8, <3>1, <3>2 DEF Admit
  <2>9. CASE AdmitRefused(w) \/ AdmitFails(w) \/ AdmitDone(w)
    <3>1. \E o \in Operation, a \in {"loop", "stop", "fatal"} : ResolveWith(w, o, a)
      BY <2>9 DEF AdmitRefused, AdmitFails, AdmitDone, Operation
    <3>2. UNCHANGED <<job, todo, found, limited, deadline, stored>>
      BY <2>9 DEF AdmitRefused, AdmitFails, AdmitDone
    <3> QED BY <2>1, <3>1, <3>2
  <2>10. CASE ResolveJob(w)
    BY <2>10 DEF ResolveJob
  <2> QED BY <1>1, <2>2, <2>3, <2>4, <2>5, <2>6, <2>7, <2>8, <2>9, <2>10 DEF WorkerStep
<1>2. CASE ProcessStep
  <2>1. stored' = stored /\ (UNCHANGED workerVars \/ FreshWorkers)
    BY <1>2, ProcessUses
  <2>2. CASE UNCHANGED workerVars
    BY <2>1, <2>2 DEF ProcessOK, workerVars
  <2>3. CASE FreshWorkers
    BY <2>1, <2>3 DEF ProcessOK, FreshWorkers, Label, Operation
  <2> QED BY <2>1, <2>2, <2>3
<1>3. CASE UNCHANGED cvars
  BY <1>3 DEF cvars, workerVars, ProcessOK
<1> QED BY <1>1, <1>2, <1>3 DEF CNext, ProcessStep

\* An admission that reports no error leaves its link known.
LEMMA AdmissionMakesKnown ==
    ASSUME IndInv, NEW x \in URL \ Excluded, Admission(x), AdmissionResult(x) # "error"
    PROVE  KnownLink(x)'
<1>1. CASE x \in Video
  <2>1. AdmitVideo(x) /\ AdmitVideoResult(x) # "error"
    BY <1>1 DEF Admission, AdmissionResult
  <2>2. CASE Blocked(x) /\ UNCHANGED vars
    BY <1>1, <2>2 DEF Blocked, KnownLink, vars
  <2>3. CASE ~Blocked(x) /\ bloom' = IF BloomHas(x) \/ BloomFull THEN bloom ELSE bloom \cup {x}
    BY <1>1, <2>1, <2>3 DEF AdmitVideoResult, KnownLink, BloomHas
  <2> QED BY <2>1, <2>2, <2>3 DEF AdmitVideo
<1>2. CASE x \notin Video
  <2>1. AdmitListing(x) /\ x \in Listing
    BY <1>2 DEF Admission, URL
  <2>2. CASE Blocked(x) /\ UNCHANGED vars
    BY <1>2, <2>1, <2>2 DEF Blocked, KnownLink, vars, IndInv, UrlInv, DeadIsSettled
  <2>3. CASE NotDue(x) /\ UNCHANGED listingNext
    BY <1>2, <2>3 DEF NotDue, KnownLink
  <2>4. CASE listingNext' = ZAdd(listingNext, x, PendingScore)
    BY <1>2, <2>4 DEF ZAdd, KnownLink
  <2> QED BY <2>1, <2>2, <2>3, <2>4 DEF AdmitListing
<1> QED BY <1>1, <1>2

\* What a worker holds and has done after a step of its own.
LEMMA OwnStep ==
    ASSUME CInv, NEW w \in Worker, WorkerStep(w)
    PROVE  /\ (Working(w) => Held(w))' /\ Progress(w)'
           /\ Working(w)' => (Working(w) /\ job'[w] = job[w]) \/ job'[w] \notin issued
<1> DEFINE u == job[w].url
<1>1. /\ ProcessOK /\ IndInv /\ (Working(w) => Held(w)) /\ Progress(w)
      /\ pc \in [Worker -> Label] /\ job \in [Worker -> Job] /\ u \in URL
      /\ todo \in [Worker -> SUBSET URL] /\ op \in [Worker -> Operation]
      /\ deadline \in [Worker -> Nat]
  BY DEF CInv, WorkersInv, ProcessOK, Job
<1>2. [Next]_vars
  BY ProcessStepsFrontier DEF CNext
<1>3. ASSUME pc'[w] \in {"loop", "stopped", "fatal"}
      PROVE  /\ (Working(w) => Held(w))' /\ Progress(w)'
             /\ Working(w)' => (Working(w) /\ job'[w] = job[w]) \/ job'[w] \notin issued
  BY <1>3 DEF Working, Progress
\* The worker goes on to resolve its job, and is not done with it.
<1>4. ASSUME NEW o \in {"Nack", "Terminal", "FailStrikeable", "FailRateLimited"},
             NEW a, ResolveWith(w, o, a), u \notin Excluded, UNCHANGED job
      PROVE  Progress(w)'
  <2>1. pc'[w] = "resolve" /\ op'[w] = o /\ o # "Ack" /\ o # "CompleteListing"
    BY <1>1, <1>4 DEF ResolveWith, GoTo
  <2> QED BY <1>4, <2>1 DEF Progress
<1>5. ASSUME Working(w), NoResolve, UNCHANGED <<job, deadline>>
      PROVE  /\ (Working(w) => Held(w))'
             /\ Working(w)' => (Working(w) /\ job'[w] = job[w]) \/ job'[w] \notin issued
  BY <1>2, <1>5, HeldStays DEF StepBut
<1>6. CASE Stop(w) \/ StopCrawl(w) \/ LeaseLost(w) \/ ResolveJob(w)
  <2>1. after[w] \in {"loop", "stop", "fatal"}
    BY <1>1 DEF ProcessOK
  <2>2. pc'[w] \in {"loop", "stopped", "fatal"}
    BY <1>1, <1>6, <2>1 DEF Stop, StopCrawl, LeaseLost, ResolveJob, GoTo
  <2> QED BY <1>3, <2>2
<1>7. CASE LeaseJob(w)
  <2>1. PICK j \in Oldest : /\ Lease
                            /\ job' = [job EXCEPT ![w] = j]
                            /\ deadline' = [deadline EXCEPT ![w] = now + LeaseTimeout]
    BY <1>7 DEF LeaseJob
  <2>2. PICK k \in Oldest : /\ lease' = ZAdd(lease, k, now + LeaseTimeout)
                            /\ issued' = issued \cup {k}
    BY <2>1 DEF Lease, Oldest
  <2>3. j \in ready /\ k \in ready /\ j.id <= k.id /\ k.id <= j.id
    BY DEF Oldest
  <2>4. j.id \in Nat /\ k.id \in Nat
    BY <1>1, <2>3 DEF IndInv, TypeOK, Job
  <2>5. j = k /\ j \notin issued
    BY <1>1, <2>3, <2>4 DEF IndInv, FencedJobs, Jobs
  <2>6. job'[w] = j /\ deadline'[w] = now + LeaseTimeout /\ pc'[w] = "leased"
    BY <1>1, <1>7, <2>1 DEF LeaseJob, GoTo
  <2>7. j \in DOMAIN lease' /\ lease'[j] = now + LeaseTimeout
    BY <2>2, <2>5 DEF ZAdd
  <2>8. Held(w)'
    BY <2>2, <2>5, <2>6, <2>7 DEF Held
  <2>9. Progress(w)'
    BY <2>6 DEF Progress
  <2> QED BY <2>5, <2>6, <2>8, <2>9
<1>8. CASE Admitted(w)
  <2>1. Working(w) /\ NoResolve /\ UNCHANGED <<job, deadline>>
    BY <1>8 DEF Admitted, Working, NoResolve
  <2>2. CASE u \in Excluded
    <3>1. pc'[w] = "resolve" /\ op'[w] = "Ack"
      BY <1>1, <1>8, <2>2 DEF Admitted, ResolveWith, GoTo
    <3>2. Progress(w)'
      BY <2>1, <2>2, <3>1 DEF Progress
    <3> QED BY <1>5, <2>1, <3>2
  <2>3. CASE u \notin Excluded /\ ResolveWith(w, "Nack", "stop")
    BY <1>4, <1>5, <2>1, <2>3
  <2>4. CASE u \notin Excluded /\ GoTo(w, "fetch")
    <3>1. pc'[w] = "fetch"
      BY <1>1, <2>4 DEF GoTo
    <3>2. Progress(w)'
      BY <2>1, <2>4, <3>1 DEF Progress
    <3> QED BY <1>5, <2>1, <3>2
  <2> QED BY <1>8, <2>2, <2>3, <2>4 DEF Admitted
<1>9. CASE Fetch(w)
  <2>1. /\ Working(w) /\ NoResolve /\ UNCHANGED <<job, deadline>>
        /\ u \notin Excluded
    BY <1>1, <1>9 DEF Fetch, Working, NoResolve, Progress
  <2>2. PICK out \in Outcome :
             \/ /\ out = "page"
                /\ GoTo(w, IF job[w].url \in Video THEN "store" ELSE "admit")
                /\ todo' = [todo EXCEPT ![w] = Links[job[w].url]]
             \/ /\ out # "page"
                /\ \E a : ResolveWith(w, OpFor(out), a)
    BY <1>9 DEF Fetch
  <2>3. CASE out = "page"
    <3>1. /\ pc'[w] = IF u \in Video THEN "store" ELSE "admit"
          /\ todo'[w] = Links[u]
      BY <1>1, <2>2, <2>3 DEF GoTo
    <3>2. AllKnown(Links[u] \ Links[u])'
      BY DEF AllKnown
    <3>3. Progress(w)'
      BY <2>1, <3>1, <3>2 DEF Progress
    <3> QED BY <1>5, <2>1, <3>3
  <2>4. CASE out # "page"
    <3>1. OpFor(out) \in {"Nack", "Terminal", "FailStrikeable", "FailRateLimited"}
      BY <2>4 DEF Outcome, OpFor
    <3> QED BY <1>4, <1>5, <2>1, <2>2, <2>4, <3>1
  <2> QED BY <2>3, <2>4
<1>10. CASE Store(w)
  <2>1. /\ Working(w) /\ NoResolve /\ UNCHANGED <<vars, job, deadline, todo>>
        /\ u \notin Excluded /\ AllKnown(Links[u] \ todo[w])
        /\ u \in stored'
    BY <1>1, <1>10 DEF Store, Working, NoResolve, Progress
  <2>2. pc'[w] = "admit"
    BY <1>1, <1>10 DEF Store, GoTo
  <2>3. AllKnown(Links[u] \ todo[w])'
    BY <1>1, <1>2, <2>1, AllKnownStays
  <2>4. Progress(w)'
    BY <2>1, <2>2, <2>3 DEF Progress
  <2> QED BY <1>5, <2>1, <2>4
<1>11. CASE StoreFails(w)
  <2>1. /\ Working(w) /\ NoResolve /\ UNCHANGED <<job, deadline>>
        /\ u \notin Excluded /\ ResolveWith(w, "Nack", "loop")
    BY <1>1, <1>11 DEF StoreFails, Working, NoResolve, Progress
  <2> QED BY <1>4, <1>5, <2>1
<1>12. CASE Admit(w)
  <2>1. PICK x \in todo[w] : /\ AdmissionResult(x) # "error"
                             /\ Admission(x)
                             /\ todo' = [todo EXCEPT ![w] = @ \ {x}]
    BY <1>12 DEF Admit
  <2>2. /\ x \in URL /\ NoResolve
    BY <1>1, <2>1, AdmissionIsOffered
  <2>3. /\ Working(w) /\ UNCHANGED <<pc, job, deadline, stored>> /\ pc[w] = "admit"
        /\ u \notin Excluded /\ AllKnown(Links[u] \ todo[w])
        /\ u \in Video => u \in stored
    BY <1>1, <1>12 DEF Admit, Working, Progress
  <2>4. todo'[w] = todo[w] \ {x}
    BY <1>1, <2>1
  <2>5. PICK done : done = Links[u] \ todo[w]
    OBVIOUS
  <2>6. AllKnown(done)' /\ (x \notin Excluded => KnownLink(x)')
    BY <1>1, <1>2, <2>1, <2>2, <2>3, <2>5, AllKnownStays, AdmissionMakesKnown
  <2>7. AllKnown(Links[u] \ todo[w])'
    <3>1. (Links[u] \ todo[w])' \subseteq done \cup {x}
      BY <2>3, <2>4, <2>5
    <3> QED BY <2>6, <3>1 DEF AllKnown
  <2>8. Progress(w)'
    BY <2>3, <2>7 DEF Progress
  <2> QED BY <1>5, <2>2, <2>3, <2>8
<1>13. CASE AdmitRefused(w) \/ AdmitFails(w)
  <2>1. /\ Working(w) /\ UNCHANGED <<job, deadline>> /\ u \notin Excluded
        /\ \E a : ResolveWith(w, "Nack", a)
    BY <1>1, <1>13 DEF AdmitRefused, AdmitFails, Working, Progress
  <2>2. NoResolve
    <3>1. UNCHANGED vars \/ \E x \in todo[w] : Admission(x)
      BY <1>13 DEF AdmitRefused, AdmitFails
    <3> QED BY <1>1, <3>1, AdmissionIsOffered DEF NoResolve
  <2> QED BY <1>4, <1>5, <2>1, <2>2
<1>14. CASE AdmitDone(w)
  <2>1. /\ Working(w) /\ NoResolve /\ UNCHANGED <<job, deadline, stored>>
        /\ u \notin Excluded /\ AllKnown(Links[u] \ {})
        /\ u \in Video => u \in stored
    BY <1>1, <1>14 DEF AdmitDone, Working, NoResolve, Progress
  <2>2. /\ pc'[w] = "resolve"
        /\ op'[w] = IF u \in Video THEN "Ack" ELSE "CompleteListing"
    BY <1>1, <1>14 DEF AdmitDone, ResolveWith, GoTo
  <2>3. AllKnown(Links[u])'
    <3>1. AllKnown(Links[u])
      BY <2>1 DEF AllKnown
    <3> QED BY <1>1, <1>2, <2>1, <3>1, AllKnownStays
  <2>4. Progress(w)'
    BY <1>1, <2>1, <2>2, <2>3 DEF Progress, URL
  <2> QED BY <1>5, <2>1, <2>4
<1> QED BY <1>6, <1>7, <1>8, <1>9, <1>10, <1>11, <1>12, <1>13, <1>14 DEF WorkerStep

\* Workers only add to what is stored, and only the URL they hold.
LEMMA StoredGrows ==
    ASSUME CInv, NEW w \in Worker, WorkerStep(w)
    PROVE  \/ stored' = stored
           \/ stored' = stored \cup {job[w].url} /\ job[w] \in issued
<1>1. CASE Store(w) \/ StoreFails(w)
  <2>1. Working(w)
    BY <1>1 DEF Store, StoreFails, Working
  <2>2. job[w] \in issued
    BY <2>1 DEF CInv, WorkersInv, Held
  <2> QED BY <1>1, <2>2 DEF Store, StoreFails
<1>2. CASE ~(Store(w) \/ StoreFails(w))
  BY <1>2 DEF WorkerStep, Stop, LeaseJob, LeaseLost, Admitted, Fetch, Admit, AdmitRefused,
     AdmitFails, AdmitDone, ResolveJob, StopCrawl
<1> QED BY <1>1, <1>2

\* No step disturbs what a worker holds and has done, and no two workers get
\* the same job.
LEMMA WorkersStep ==
    ASSUME CInv, [CNext]_cvars
    PROVE  WorkersInv'
<1>1. [Next]_vars /\ WorkersInv
  BY ProcessStepsFrontier DEF CInv
<1>2. ASSUME NEW w \in Worker, WorkerStep(w) PROVE WorkersInv'
  <2>1. stored \subseteq stored'
    BY <1>2, StoredGrows
  <2>2. ASSUME NEW x \in Worker, x # w, Working(x) PROVE StepBut(job[x])
    <3>1. CASE NoResolve
      BY <3>1 DEF StepBut
    <3>2. CASE ResolveJob(w) /\ job[w] \in issued /\ Resolve(job[w])
      <4>1. Working(w)
        BY <3>2 DEF ResolveJob, Working
      <4>2. job[w] # job[x]
        BY <1>1, <2>2, <4>1 DEF WorkersInv
      <4> QED BY <3>2, <4>2 DEF StepBut
    <3> QED BY <1>2, <3>1, <3>2, WorkerUses
  <2>3. ASSUME NEW x \in Worker, x # w
        PROVE  /\ (Working(x) => Held(x))' /\ Progress(x)'
               /\ Working(x)' => Working(x) /\ job[x] \in issued /\ job'[x] = job[x]
    <3>1. UNCHANGED <<pc[x], job[x], todo[x], op[x], deadline[x]>>
      BY <1>2, <2>3, WorkerTouches
    <3>2. Working(x)' => Working(x)
      BY <3>1 DEF Working
    <3>3. Working(x) => job[x] \in issued
      BY <1>1 DEF WorkersInv, Held
    <3> QED BY <1>1, <2>1, <2>2, <2>3, <3>1, <3>2, <3>3, Bystander
  <2>4. /\ (Working(w) => Held(w))' /\ Progress(w)'
        /\ Working(w)' => (Working(w) /\ job'[w] = job[w]) \/ job'[w] \notin issued
    BY <1>2, OwnStep
  <2>5. \A x \in Worker : (Working(x) => Held(x))' /\ Progress(x)'
    BY <2>3, <2>4
  <2>6. ASSUME NEW x \in Worker, NEW y \in Worker, x # y, Working(x)', Working(y)'
        PROVE  job'[x] # job'[y]
    <3>1. CASE x # w /\ y # w
      BY <1>1, <2>3, <2>6, <3>1 DEF WorkersInv
    <3>2. CASE x = w \/ y = w
      BY <1>1, <2>3, <2>4, <2>6, <3>2 DEF WorkersInv
    <3> QED BY <3>1, <3>2
  <2> QED BY <2>5, <2>6 DEF WorkersInv
<1>3. CASE ProcessStep
  <2>1. NoResolve /\ stored' = stored /\ (UNCHANGED workerVars \/ FreshWorkers)
    BY <1>3, ProcessUses
  <2>2. CASE UNCHANGED workerVars
    <3>1. UNCHANGED <<pc, job, todo, op, deadline>>
      BY <2>2 DEF workerVars
    <3>2. \A x \in Worker : (Working(x) => Held(x))' /\ Progress(x)'
      BY <1>1, <2>1, <3>1, Bystander DEF StepBut
    <3>3. \A x, y \in Worker : x # y /\ Working(x)' /\ Working(y)' => job'[x] # job'[y]
      BY <1>1, <3>1 DEF WorkersInv, Working
    <3> QED BY <3>2, <3>3 DEF WorkersInv
  <2>3. CASE FreshWorkers
    <3>1. \A x \in Worker : pc'[x] = "loop"
      BY <2>3 DEF FreshWorkers
    <3>2. \A x \in Worker : ~Working(x)' /\ Progress(x)'
      BY <3>1 DEF Working, Progress
    <3> QED BY <3>2 DEF WorkersInv
  <2> QED BY <2>1, <2>2, <2>3
<1>4. CASE UNCHANGED cvars
  <2>1. UNCHANGED <<vars, pc, job, todo, op, deadline, stored>>
    BY <1>4 DEF cvars, workerVars
  <2>2. NoResolve /\ stored \subseteq stored'
    BY <2>1 DEF NoResolve
  <2>3. \A x \in Worker : (Working(x) => Held(x))' /\ Progress(x)'
    BY <1>1, <2>1, <2>2, Bystander DEF StepBut
  <2>4. \A x, y \in Worker : x # y /\ Working(x)' /\ Working(y)' => job'[x] # job'[y]
    BY <1>1, <2>1 DEF WorkersInv, Working
  <2> QED BY <2>3, <2>4 DEF WorkersInv
<1> QED BY <1>2, <1>3, <1>4 DEF CNext, ProcessStep

\* While the filter has room, what is handed out and what is stored is claimed.
LEMMA ClaimedStep ==
    ASSUME CInv, [CNext]_cvars
    PROVE  ClaimedUnlessFull'
<1>1. [Next]_vars /\ IndInv /\ ClaimedUnlessFull
  BY ProcessStepsFrontier DEF CInv
<1>2. bloom \subseteq bloom' /\ IsFiniteSet(bloom') /\ (BloomFull => bloom' = bloom)
  BY <1>1, BloomGrows DEF ClaimedUnlessFull
<1>3. ~BloomFull' => ~BloomFull
  BY <1>2 DEF BloomFull
<1>4. issued' \subseteq issued \cup ready
  BY <1>1, IssuedGrows
<1>5. \/ stored' = stored
      \/ \E j \in issued : stored' = stored \cup {j.url}
  <2>1. ASSUME NEW w \in Worker, WorkerStep(w)
        PROVE  stored' = stored \/ \E j \in issued : stored' = stored \cup {j.url}
    BY <2>1, StoredGrows
  <2>2. CASE ProcessStep
    BY <2>2, ProcessUses
  <2>3. CASE UNCHANGED cvars
    BY <2>3 DEF cvars
  <2> QED BY <2>1, <2>2, <2>3 DEF CNext, ProcessStep
<1>6. IsFiniteSet(stored')
  BY <1>1, <1>5, FS_AddElement DEF ClaimedUnlessFull
<1>7. ASSUME ~BloomFull PROVE URLs(issued') \cap Video \subseteq bloom
  <2>1. URLs(issued) \cap Video \subseteq bloom /\ Live \cap Video \subseteq bloom
    BY <1>1, <1>7 DEF ClaimedUnlessFull, IndInv, UrlInv, UnclaimedOnlyWhenFull
  <2> QED BY <1>4, <2>1 DEF URLs, Live, Jobs
<1>8. ASSUME ~BloomFull PROVE stored' \subseteq bloom
  <2>1. stored \subseteq bloom /\ URLs(issued) \cap Video \subseteq bloom
    BY <1>1, <1>8 DEF ClaimedUnlessFull
  <2>2. stored' \subseteq Video
    BY ProcessOKStep DEF ProcessOK
  <2> QED BY <1>5, <2>1, <2>2 DEF URLs
<1> QED BY <1>2, <1>3, <1>6, <1>7, <1>8 DEF ClaimedUnlessFull, URLs

\* A resolution acknowledges its URL only as Ack, and counts a visit only as
\* CompleteListing.
LEMMA ResolveFinishes ==
    ASSUME CInv, NEW w \in Worker, ResolveJob(w), NEW u, u = job[w].url
    PROVE  /\ acked' \subseteq acked \cup {u}
           /\ u \in acked' \ acked => op[w] = "Ack"
           /\ DOMAIN barren' \subseteq DOMAIN barren \cup {u}
           /\ u \in DOMAIN barren' \ DOMAIN barren => op[w] = "CompleteListing"
<1>1. CASE UNCHANGED vars
  BY <1>1 DEF vars
<1>2. CASE Call(op[w], job[w], found[w])
  <2>1. op[w] \in Operation
    BY DEF CInv, ProcessOK
  <2>2. CASE op[w] = "Ack"
    BY <1>2, <2>2 DEF Call, Ack, Stale, vars
  <2>3. CASE op[w] = "CompleteListing"
    BY <1>2, <2>3 DEF Call, CompleteListing, Stale, ZAdd, vars
  <2>4. CASE op[w] \in Operation \ {"Ack", "CompleteListing"}
    <3>1. \/ Nack(job[w]) \/ Terminal(job[w])
          \/ Fail(job[w], "strikeable") \/ Fail(job[w], "rateLimited")
      BY <1>2, <2>4 DEF Call, Operation
    <3>2. UNCHANGED <<acked, barren>>
      BY <3>1 DEF Nack, Terminal, Fail, Stale, vars, urlVars
    <3> QED BY <3>2
  <2> QED BY <2>1, <2>2, <2>3, <2>4
<1> QED BY <1>1, <1>2 DEF ResolveJob

\* A URL is finished only by a worker that stored it and got its links known.
LEMMA FinishedStep ==
    ASSUME CInv, [CNext]_cvars
    PROVE  StoredBeforeAck' /\ ChildrenKnown'
<1>1. IndInv /\ [Next]_vars /\ StoredBeforeAck /\ ChildrenKnown
  BY ProcessStepsFrontier DEF CInv
<1> DEFINE Finished == (acked \cap Video) \cup DOMAIN barren
<1>2. ASSUME NEW u \in Finished PROVE AllKnown(Links[u])'
  BY <1>1, <1>2, AllKnownStays DEF ChildrenKnown, AllKnown, KnownLink
<1>3. ASSUME \A u \in Finished' : AllKnown(Links[u])'
      PROVE  ChildrenKnown'
  BY <1>3 DEF ChildrenKnown, AllKnown, KnownLink
<1>4. stored \subseteq stored'
  BY StoredGrows, ProcessUses DEF CNext, ProcessStep, cvars
<1>5. ASSUME UNCHANGED <<acked, barren>> PROVE StoredBeforeAck' /\ ChildrenKnown'
  BY <1>1, <1>2, <1>3, <1>4, <1>5 DEF StoredBeforeAck
<1>6. ASSUME NEW w \in Worker, ResolveJob(w) PROVE StoredBeforeAck' /\ ChildrenKnown'
  <2>1. PICK u : u = job[w].url
    OBVIOUS
  <2>2. /\ acked' \subseteq acked \cup {u}
        /\ u \in acked' \ acked => op[w] = "Ack"
        /\ DOMAIN barren' \subseteq DOMAIN barren \cup {u}
        /\ u \in DOMAIN barren' \ DOMAIN barren => op[w] = "CompleteListing"
    BY <1>6, <2>1, ResolveFinishes
  <2>3. pc[w] = "resolve" /\ Progress(w)
    BY <1>6 DEF ResolveJob, CInv, WorkersInv
  <2>4. op[w] = "Ack" => u \notin Video \/ (u \in stored /\ AllKnown(Links[u]))
    BY <2>1, <2>3, UrlAssumption DEF Progress
  <2>5. op[w] = "CompleteListing" => AllKnown(Links[u])
    BY <2>1, <2>3 DEF Progress
  <2>6. StoredBeforeAck'
    BY <1>1, <1>4, <2>2, <2>4 DEF StoredBeforeAck
  <2>7. ASSUME NEW x \in Finished' PROVE AllKnown(Links[x])'
    <3>1. CASE x \in Finished
      BY <1>2, <3>1
    <3>2. CASE x \notin Finished
      <4>1. x = u /\ AllKnown(Links[u])
        BY <2>2, <2>4, <2>5, <2>7, <3>2
      <4> QED BY <1>1, <4>1, AllKnownStays
    <3> QED BY <3>1, <3>2
  <2> QED BY <1>3, <2>6, <2>7
<1>7. CASE \E w \in Worker : WorkerStep(w)
  BY <1>5, <1>6, <1>7, WorkerUses, NothingFinished
<1>8. CASE ProcessStep
  BY <1>5, <1>8, ProcessUses, NothingFinished
<1>9. CASE UNCHANGED cvars
  BY <1>5, <1>9 DEF cvars, vars
<1> QED BY <1>7, <1>8, <1>9 DEF CNext, ProcessStep

-----------------------------------------------------------------------------

\* The invariant holds before the first start.
LEMMA CInvInit == CInit => CInv
<1> SUFFICES ASSUME CInit PROVE CInv
  OBVIOUS
<1>1. IndInv
  BY IndInvInit DEF CInit
<1>2. BaseUrl \in URL /\ NoJob \in Job
  BY UrlAssumption DEF NoJob, Job, URL
<1>3. ProcessOK
  BY <1>2 DEF CInit, ProcessOK, Label, Operation
<1>4. WorkersInv
  BY DEF CInit, WorkersInv, Working, Progress
<1>5. acked = {} /\ bloom = {} /\ stored = {} /\ issued = {} /\ DOMAIN barren = {}
  BY DEF CInit, Init, Empty
<1>6. ClaimedUnlessFull /\ StoredBeforeAck /\ ChildrenKnown
  BY <1>5, FS_EmptySet DEF ClaimedUnlessFull, URLs, StoredBeforeAck, ChildrenKnown
<1> QED BY <1>1, <1>3, <1>4, <1>6 DEF CInv

\* The invariant of the process is inductive.
THEOREM CrawlerInductive == CSpec => []CInv
<1>1. CInv /\ [CNext]_cvars => CInv'
  <2> SUFFICES ASSUME CInv, [CNext]_cvars PROVE CInv'
    OBVIOUS
  <2>1. IndInv'
    BY ProcessStepsFrontier, TypeStep, FencedStep, FencedIsFence, UrlStep DEF CInv, IndInv
  <2> QED BY <2>1, ProcessOKStep, WorkersStep, ClaimedStep, FinishedStep DEF CInv
<1> QED BY CInvInit, <1>1, PTL DEF CSpec

\* The crawler implements the frontier's specification: everything proved in
\* FrontierProofs of its most general client holds of the real process, with
\* its crashes, lost replies and shutdowns.
THEOREM CrawlerRefines == CSpec => ImplementsFrontier
<1>1. CInit => Init
  BY DEF CInit
<1>2. CInv /\ [CNext]_cvars => [Next]_vars
  BY ProcessStepsFrontier
<1> QED BY CrawlerInductive, <1>1, <1>2, PTL DEF CSpec, ImplementsFrontier, Spec

\* No video is acknowledged, and so forgotten, before Mongo has it.
THEOREM StoredFirst == CSpec => []StoredBeforeAck
<1>1. CInv => StoredBeforeAck
  BY DEF CInv
<1> QED BY CrawlerInductive, <1>1, PTL

\* No page is done with before each of its links is known to the frontier.
THEOREM ChildContract == CSpec => []ChildrenKnown
<1>1. CInv => ChildrenKnown
  BY DEF CInv
<1> QED BY CrawlerInductive, <1>1, PTL

\* A lease protects its holder: two workers share a URL only after the deadline
\* of one of them.  Both would otherwise still have their lease, so both jobs
\* would be in processing, and a claimed URL has one job (OneJobPerURL).
THEOREM LeaseExcludes == CSpec => []ExclusiveUnlessExpired
<1>1. CInv => ExclusiveUnlessExpired
  <2> SUFFICES ASSUME CInv, NEW w1 \in Worker, NEW w2 \in Worker,
                      w1 # w2, Working(w1), Working(w2),
                      job[w1].url = job[w2].url, job[w1].url \in Claimed,
                      ~(now >= deadline[w1] \/ now >= deadline[w2])
               PROVE  FALSE
    BY DEF ExclusiveUnlessExpired
  <2>1. now \in Nat /\ deadline[w1] \in Nat /\ deadline[w2] \in Nat
    BY ConfigAssumption DEF CInv, IndInv, TypeOK, ProcessOK
  <2>2. job[w1] # job[w2] /\ Held(w1) /\ Held(w2)
    BY DEF CInv, WorkersInv
  <2>3. job[w1] \in DOMAIN lease /\ job[w2] \in DOMAIN lease
    BY <2>1, <2>2 DEF Held
  <2>4. job[w1] \in Jobs /\ job[w2] \in Jobs
    BY <2>3 DEF CInv, IndInv, FencedJobs, Jobs
  <2> QED BY <2>2, <2>4 DEF CInv, IndInv, UrlInv, OneJobPerURL
<1> QED BY CrawlerInductive, <1>1, PTL

-----------------------------------------------------------------------------
(* Rollbacks (FrontierRestart).                                            *)
(*                                                                         *)
(* FencedJobs is lost with a rollback: a job that was handed out may be    *)
(* queued again, and its id may be minted again for another URL.  What is  *)
(* left is Fence, which says nothing of the jobs that were handed out; it  *)
(* is all that UrlStep needs.  So the invariant of a URL holds of the live *)
(* keys and of the snapshot alike, and a restart swaps one for the other.  *)


\* The frontier as the snapshot has it.  The clock, the jobs that are out and
\* the acknowledgements are not rolled back.
Saved == INSTANCE Frontier
    WITH seq <- rdb.seq, ready <- rdb.ready, processing <- rdb.processing,
         lease <- rdb.lease, delayed <- rdb.delayed, dead <- rdb.dead,
         attempts <- rdb.attempts, strikes <- rdb.strikes,
         listingNext <- rdb.listingNext, barren <- rdb.barren, bloom <- rdb.bloom

\* Fence and UrlInv of the snapshot.
SavedInv ==
    /\ Saved!TypeOK
    /\ WeakFence(rdb.seq, rdb.ready, rdb.processing, DOMAIN rdb.delayed, DOMAIN rdb.lease)
    /\ Saved!OneJobPerURL
    /\ Saved!PendingIffLive
    /\ Saved!VideoClaimKept
    /\ Saved!DeadIsSettled
    /\ Saved!UnclaimedOnlyWhenFull
    /\ Saved!FailureCounters

RInv == TypeOK /\ Fence /\ UrlInv /\ SavedInv

-----------------------------------------------------------------------------
(* The fence, without the jobs that are out.                               *)

\* New ids keep it, whether the new jobs go to ready or to delayed.
LEMMA FenceRequeue ==
    ASSUME NEW s \in Nat, NEW t \in Nat, s <= t,
           NEW R \in SUBSET Job, NEW Q \in SUBSET Job, NEW D \in SUBSET Job, NEW L,
           WeakFence(s, R, Q, D, L),
           NEW N \in SUBSET Job,
           \A k \in N : s < k.id /\ k.id <= t,
           \A k, m \in N : k.id = m.id => k = m,
           NEW Q1 \in SUBSET Q, NEW D1 \in SUBSET D, NEW L1 \in SUBSET Q1
    PROVE  /\ WeakFence(t, R \cup N, Q1, D1, L1)
           /\ WeakFence(t, R, Q1, D1 \cup N, L1)
<1> DEFINE A == R \cup Q \cup D
<1>1. \A j \in A : j \in Job /\ j.id \in Nat /\ j.id <= s
  BY DEF WeakFence, Job
<1>2. \A k \in N : k.id \in Nat /\ k \notin A
  BY <1>1 DEF Job
<1>3. \A j, k \in A \cup N : j.id <= t /\ (j.id = k.id => j = k)
  <2>1. \A j, k \in A : j.id = k.id => j = k
    BY DEF WeakFence
  <2>2. \A j \in A, k \in N : j.id # k.id
    BY <1>1, <1>2
  <2> QED BY <1>1, <1>2, <2>1, <2>2
<1> QED BY <1>2, <1>3 DEF WeakFence

\* Every step of the frontier keeps it, whatever jobs are out.
LEMMA FenceStep ==
    ASSUME TypeOK, Fence, [Next]_vars
    PROVE  Fence'
<1> DEFINE R == ready  Q == processing  D == DOMAIN delayed  L == DOMAIN lease
<1>1. /\ R \in SUBSET Job /\ Q \in SUBSET Job /\ D \in SUBSET Job
      /\ WeakFence(seq, R, Q, D, L)
  BY DEF TypeOK, IsMap, Fence
<1>2. L \subseteq Q
  BY <1>1 DEF WeakFence
<1> HIDE DEF R, Q, D, L
<1>3. ASSUME NEW N, NEW P, Replaces(N, P, seq, seq') \/ NewJobs(N, P, seq, seq'),
             processing' \subseteq Q, DOMAIN lease' \subseteq processing',
             \/ ready' = R \cup N /\ DOMAIN delayed' \subseteq D
             \/ ready' = R /\ DOMAIN delayed' \ N \subseteq D /\ N \subseteq DOMAIN delayed'
      PROVE  Fence'
  <2>1. /\ seq \in Nat /\ seq' \in Nat /\ seq <= seq' /\ N \in SUBSET Job
        /\ \A k \in N : seq < k.id /\ k.id <= seq'
        /\ \A k, m \in N : k.id = m.id => k = m
    BY <1>3 DEF Replaces, NewJobs
  <2>2. CASE ready' = R \cup N /\ DOMAIN delayed' \subseteq D
    <3>1. WeakFence(seq', R \cup N, processing', DOMAIN delayed', DOMAIN lease')
      BY <1>1, <1>3, <2>1, <2>2, FenceRequeue
    <3> QED BY <2>2, <3>1 DEF Fence
  <2>3. CASE ready' = R /\ DOMAIN delayed' \ N \subseteq D /\ N \subseteq DOMAIN delayed'
    <3> DEFINE D1 == DOMAIN delayed' \ N
    <3>1. DOMAIN delayed' = D1 \cup N /\ D1 \in SUBSET D
      BY <2>3
    <3> HIDE DEF D1
    <3>2. WeakFence(seq', R, processing', D1 \cup N, DOMAIN lease')
      BY <1>1, <1>3, <2>1, <3>1, FenceRequeue
    <3> QED BY <2>3, <3>1, <3>2 DEF Fence
  <2> QED BY <1>3, <2>2, <2>3
<1>4. ASSUME NEW j, Settles(j)
      PROVE  Fence'
  BY <1>1, <1>4 DEF Settles, Fence, WeakFence, R, Q, D, L
<1>5. ASSUME UNCHANGED <<seq, ready, processing, lease, delayed>>
      PROVE  Fence'
  BY <1>5 DEF Fence, WeakFence
<1>6. ASSUME NEW v \in Video, AdmitVideo(v)
      PROVE  Fence'
  <2>1. NewJobs({Mint(1, v)}, {v}, seq, seq + 1) /\ NewJobs({}, {}, seq, seq + 1)
    BY NewJob DEF URL, TypeOK, NewJobs
  <2>2. CASE Blocked(v) /\ UNCHANGED vars
    BY <1>5, <2>2 DEF vars
  <2>3. CASE ~Blocked(v) /\ BloomHas(v)
    BY <1>2, <1>3, <1>6, <2>1, <2>3 DEF AdmitVideo, Q, L, R, D
  <2>4. CASE ~Blocked(v) /\ ~BloomHas(v)
    BY <1>2, <1>3, <1>6, <2>1, <2>4 DEF AdmitVideo, Q, L, R, D
  <2> QED BY <1>6, <2>2, <2>3, <2>4 DEF AdmitVideo
<1>7. ASSUME NEW l \in Listing \ Excluded, AdmitListing(l)
      PROVE  Fence'
  <2>1. NewJobs({Mint(1, l)}, {l}, seq, seq + 1)
    BY NewJob DEF URL, TypeOK
  <2> QED BY <1>2, <1>3, <1>5, <1>7, <2>1 DEF AdmitListing, vars, Q, L, R, D
<1>8. CASE SeedListing(BaseUrl)
  BY <1>5, <1>8 DEF SeedListing
<1>9. CASE Lease
  <2>1. CASE UNCHANGED vars
    BY <1>5, <2>1 DEF vars
  <2>2. ASSUME NEW j \in ready, ready' = ready \ {j}, processing' = processing \cup {j},
               lease' = ZAdd(lease, j, now + LeaseTimeout), UNCHANGED <<seq, delayed>>
        PROVE  Fence'
    <3>1. DOMAIN lease' = DOMAIN lease \cup {j}
      BY <2>2, ZAddFacts
    <3>2. (R \ {j}) \cup (Q \cup {j}) \cup D = R \cup Q \cup D
      BY <2>2 DEF R
    <3>3. WeakFence(seq, R \ {j}, Q \cup {j}, D, L \cup {j})
      BY <1>1, <2>2, <3>2 DEF WeakFence, R
    <3> QED BY <2>2, <3>1, <3>3 DEF Fence, R, Q, D, L
  <2> QED BY <1>9, <2>1, <2>2 DEF Lease, Oldest
<1>10. CASE LeaseAborted
  BY <1>1, <1>10 DEF LeaseAborted, Oldest, Fence, WeakFence, R, Q, D, L
<1>11. ASSUME NEW j \in issued, Resolve(j)
       PROVE  Fence'
  <2>1. ASSUME Nack(j)
        PROVE  Fence'
    BY <1>2, <1>3, <1>5, <2>1, NackFacts DEF Stale, vars, R, Q, D, L
  <2>2. ASSUME NEW class, Fail(j, class)
        PROVE  Fence'
    <3>1. CASE UNCHANGED vars
      BY <1>5, <3>1 DEF vars
    <3>2. CASE Settles(j)
      BY <1>4, <3>2
    <3>3. CASE /\ j \in DOMAIN lease
               /\ Replaces({Mint(1, j.url)}, {j}, seq, seq')
               /\ DOMAIN delayed' = DOMAIN delayed \cup {Mint(1, j.url)}
               /\ processing' = processing \ {j}
               /\ DOMAIN lease' = DOMAIN lease \ {j}
               /\ UNCHANGED ready
      <4> DEFINE N == {Mint(1, j.url)}
      <4>1. /\ DOMAIN delayed' \ N \subseteq D /\ N \subseteq DOMAIN delayed'
            /\ processing' \subseteq Q /\ DOMAIN lease' \subseteq processing'
        BY <1>2, <3>3 DEF Q, D, L
      <4> QED BY <1>3, <3>3, <4>1 DEF R
    <3> QED BY <2>2, <3>1, <3>2, <3>3, FailFacts
  <2>3. CASE Ack(j)
    BY <1>4, <1>5, <2>3, AckFacts DEF vars
  <2>4. CASE Terminal(j)
    BY <1>4, <1>5, <2>4, TerminalFacts DEF vars
  <2>5. ASSUME NEW new, CompleteListing(j, new)
        PROVE  Fence'
    BY <1>4, <1>5, <2>5, CompleteListingFacts DEF vars
  <2> QED BY <1>11, <2>1, <2>2, <2>3, <2>4, <2>5 DEF Resolve
<1>12. CASE Promote
  BY <1>2, <1>3, <1>12, PromoteFacts DEF R, Q, D, L
<1>13. CASE Reap
  BY <1>2, <1>3, <1>13, ReapFacts DEF R, Q, D, L
<1>14. CASE Sweep
  <2>1. PICK P, N :
           /\ P \in SUBSET (processing \ DOMAIN lease)
           /\ Replaces(N, P, seq, seq')
           /\ ready' = ready \cup N
           /\ processing' = processing \ P
           /\ UNCHANGED <<lease, delayed, urlVars, now, issued>>
    BY <1>14, SweepFacts
  <2> QED BY <1>2, <1>3, <2>1 DEF R, Q, D, L
<1>15. CASE RunListingScheduler
  BY <1>2, <1>3, <1>15, SchedulerFacts DEF R, Q, D, L
<1>16. CASE Tick
  BY <1>5, <1>16 DEF Tick
<1>17. CASE UNCHANGED vars
  BY <1>5, <1>17 DEF vars
<1> QED BY <1>6, <1>7, <1>8, <1>9, <1>10, <1>11, <1>12, <1>13, <1>14, <1>15,
           <1>16, <1>17 DEF Next

-----------------------------------------------------------------------------
(* The snapshot.                                                           *)

\* The constant operators of the snapshot's frontier are those of the live one.
LEMMA SameConstants ==
    /\ Saved!URL = URL /\ Saved!Job = Job /\ Saved!Score = Score
    /\ \A z, D, R : Saved!IsMap(z, D, R) <=> IsMap(z, D, R)
BY DEF Saved!URL, Saved!Job, Saved!Score, Saved!IsMap, URL, Job, Score, IsMap

\* Its cardinalities are, too.
LEMMA SameCardinality == \A S : Saved!Cardinality(S) = Cardinality(S)
BY DEF Saved!Cardinality, Cardinality

\* The snapshot stays sound while the live frontier goes on.
LEMMA SavedStays ==
    ASSUME SavedInv, TypeOK', rdb' = rdb, acked \subseteq acked'
    PROVE  SavedInv'
<1>1. /\ Saved!Jobs' = Saved!Jobs /\ Saved!Claimed' = Saved!Claimed
      /\ Saved!BloomFull' = Saved!BloomFull
  BY DEF Saved!Jobs, Saved!Claimed, Saved!BloomFull
<1>2. Saved!Live' = Saved!Live
  BY <1>1 DEF Saved!Live
<1>3. Saved!TypeOK'
  BY SameConstants DEF SavedInv, Saved!TypeOK, TypeOK
<1>4. (Saved!OneJobPerURL /\ Saved!PendingIffLive /\ Saved!VideoClaimKept)'
  BY <1>1, <1>2 DEF SavedInv, Saved!OneJobPerURL, Saved!PendingIffLive, Saved!VideoClaimKept
<1>5. (Saved!DeadIsSettled /\ Saved!UnclaimedOnlyWhenFull /\ Saved!FailureCounters)'
  BY <1>1, <1>2 DEF SavedInv, Saved!DeadIsSettled, Saved!UnclaimedOnlyWhenFull,
     Saved!FailureCounters, Saved!URL
<1> QED BY <1>3, <1>4, <1>5 DEF SavedInv

\* A snapshot of a sound frontier is sound.
LEMMA SnapshotSaves ==
    ASSUME TypeOK, Fence, UrlInv, Snapshot
    PROVE  SavedInv'
<1>1. /\ rdb'.seq = seq /\ rdb'.ready = ready /\ rdb'.processing = processing
      /\ rdb'.lease = lease /\ rdb'.delayed = delayed /\ rdb'.dead = dead
      /\ rdb'.attempts = attempts /\ rdb'.strikes = strikes
      /\ rdb'.listingNext = listingNext /\ rdb'.barren = barren /\ rdb'.bloom = bloom
      /\ UNCHANGED <<now, issued, acked>>
  BY DEF Snapshot, vars
<1>2. Saved!Jobs' = Jobs /\ Saved!Claimed' = Claimed /\ Saved!BloomFull' = BloomFull
  BY <1>1, SameCardinality DEF Saved!Jobs, Saved!Claimed, Saved!BloomFull, Jobs, Claimed,
     BloomFull
<1>3. Saved!Live' = Live
  BY <1>2 DEF Saved!Live, Live
<1>4. Saved!TypeOK'
  BY <1>1, SameConstants DEF Saved!TypeOK, TypeOK
<1>5. (Saved!OneJobPerURL /\ Saved!PendingIffLive /\ Saved!VideoClaimKept)'
  BY <1>1, <1>2, <1>3 DEF UrlInv, Saved!OneJobPerURL, Saved!PendingIffLive,
     Saved!VideoClaimKept, OneJobPerURL, PendingIffLive, VideoClaimKept
<1>6. (Saved!DeadIsSettled /\ Saved!UnclaimedOnlyWhenFull /\ Saved!FailureCounters)'
  BY <1>1, <1>2, <1>3, SameConstants DEF UrlInv, Saved!DeadIsSettled,
     Saved!UnclaimedOnlyWhenFull, Saved!FailureCounters, DeadIsSettled,
     UnclaimedOnlyWhenFull, FailureCounters
<1> QED BY <1>1, <1>4, <1>5, <1>6 DEF SavedInv, Fence

\* Loading a sound snapshot gives a sound frontier.
LEMMA RestartLoads ==
    ASSUME SavedInv, Restart
    PROVE  TypeOK' /\ Fence' /\ UrlInv'
<1>1. /\ seq' = rdb.seq /\ ready' = rdb.ready /\ processing' = rdb.processing
      /\ lease' = rdb.lease /\ delayed' = rdb.delayed /\ dead' = rdb.dead
      /\ attempts' = rdb.attempts /\ strikes' = rdb.strikes
      /\ listingNext' = rdb.listingNext /\ barren' = rdb.barren /\ bloom' = rdb.bloom
      /\ UNCHANGED <<now, issued, acked>>
  BY DEF Restart
<1>2. Jobs' = Saved!Jobs /\ Claimed' = Saved!Claimed /\ BloomFull' = Saved!BloomFull
  BY <1>1, SameCardinality DEF Saved!Jobs, Saved!Claimed, Saved!BloomFull, Jobs, Claimed,
     BloomFull
<1>3. Live' = Saved!Live
  BY <1>2 DEF Saved!Live, Live
<1>4. TypeOK'
  BY <1>1, SameConstants DEF SavedInv, Saved!TypeOK, TypeOK
<1>5. (OneJobPerURL /\ PendingIffLive /\ VideoClaimKept)'
  BY <1>1, <1>2, <1>3 DEF SavedInv, Saved!OneJobPerURL, Saved!PendingIffLive,
     Saved!VideoClaimKept, OneJobPerURL, PendingIffLive, VideoClaimKept
<1>6. (DeadIsSettled /\ UnclaimedOnlyWhenFull /\ FailureCounters)'
  BY <1>1, <1>2, <1>3, SameConstants DEF SavedInv, Saved!DeadIsSettled,
     Saved!UnclaimedOnlyWhenFull, Saved!FailureCounters, DeadIsSettled,
     UnclaimedOnlyWhenFull, FailureCounters
<1> QED BY <1>1, <1>4, <1>5, <1>6 DEF SavedInv, Fence, UrlInv

\* An acknowledgement is never taken back.
LEMMA AckedGrows ==
    ASSUME [Next]_vars
    PROVE  acked \subseteq acked'
<1>1. ASSUME NEW j, Resolve(j) PROVE acked \subseteq acked'
  BY <1>1 DEF Resolve, Ack, Nack, Terminal, Fail, CompleteListing, Stale, vars, urlVars
<1>2. ASSUME NEW u, AdmitVideo(u) \/ AdmitListing(u) \/ SeedListing(u)
      PROVE  acked \subseteq acked'
  BY <1>2 DEF AdmitVideo, AdmitListing, SeedListing, vars
<1>3. CASE \/ Lease \/ LeaseAborted \/ Promote \/ Reap \/ Sweep \/ RunListingScheduler
           \/ Tick \/ UNCHANGED vars
  BY <1>3 DEF Lease, LeaseAborted, Promote, Reap, Sweep, RunListingScheduler, Tick,
     vars, urlVars
<1> QED BY <1>1, <1>2, <1>3 DEF Next

-----------------------------------------------------------------------------

\* The invariant holds of an empty Redis and its empty snapshot.
LEMMA RInvInit == RInit => RInv
<1> SUFFICES ASSUME RInit PROVE RInv
  OBVIOUS
<1>1. TypeOK /\ Fence /\ UrlInv
  BY IndInvInit, FencedIsFence DEF RInit, IndInv
<1>2. /\ rdb.seq = seq /\ rdb.ready = ready /\ rdb.processing = processing
      /\ rdb.lease = lease /\ rdb.delayed = delayed /\ rdb.dead = dead
      /\ rdb.attempts = attempts /\ rdb.strikes = strikes
      /\ rdb.listingNext = listingNext /\ rdb.barren = barren /\ rdb.bloom = bloom
  BY DEF RInit
<1>3. Saved!Jobs = Jobs /\ Saved!Claimed = Claimed /\ (Saved!BloomFull <=> BloomFull)
  BY <1>2, SameCardinality DEF Saved!Jobs, Saved!Claimed, Saved!BloomFull, Jobs, Claimed,
     BloomFull
<1>4. Saved!Live = Live
  BY <1>3 DEF Saved!Live, Live
<1>5. Saved!TypeOK
  BY <1>1, <1>2, SameConstants DEF Saved!TypeOK, TypeOK
<1>6. Saved!OneJobPerURL /\ Saved!PendingIffLive /\ Saved!VideoClaimKept
  BY <1>1, <1>2, <1>3, <1>4 DEF UrlInv, Saved!OneJobPerURL, Saved!PendingIffLive,
     Saved!VideoClaimKept, OneJobPerURL, PendingIffLive, VideoClaimKept
<1>7. Saved!DeadIsSettled /\ Saved!UnclaimedOnlyWhenFull /\ Saved!FailureCounters
  BY <1>1, <1>2, <1>3, <1>4, SameConstants DEF UrlInv, Saved!DeadIsSettled,
     Saved!UnclaimedOnlyWhenFull, Saved!FailureCounters, DeadIsSettled,
     UnclaimedOnlyWhenFull, FailureCounters
<1> QED BY <1>1, <1>2, <1>5, <1>6, <1>7 DEF RInv, SavedInv, Fence

\* The invariant of the live keys and of the snapshot is inductive.
THEOREM RestartInductive == RSpec => []RInv
<1>1. RInv /\ [RNext]_rvars => RInv'
  <2> SUFFICES ASSUME RInv, [RNext]_rvars PROVE RInv'
    OBVIOUS
  <2>1. ASSUME [Next]_vars, rdb' = rdb PROVE RInv'
    BY <2>1, TypeStep, FenceStep, UrlStep, AckedGrows, SavedStays DEF RInv
  <2>2. CASE Snapshot
    <3>1. [Next]_vars
      BY <2>2 DEF Snapshot
    <3> QED BY <2>2, <3>1, TypeStep, FenceStep, UrlStep, SnapshotSaves DEF RInv
  <2>3. CASE Restart
    <3>1. TypeOK' /\ Fence' /\ UrlInv' /\ rdb' = rdb /\ acked' = acked
      BY <2>3, RestartLoads DEF RInv, Restart
    <3> QED BY <3>1, SavedStays DEF RInv
  <2> QED BY <2>1, <2>2, <2>3 DEF RNext, rvars
<1> QED BY RInvInit, <1>1, PTL DEF RSpec

\* A Redis that goes back to an older snapshot while jobs are out keeps PENDING
\* exact, gives no URL two jobs and loses no claimed video.
THEOREM RollbackIsSound == RSpec => []RollbackSound
<1>1. RInv => RollbackSound
  BY DEF RInv, UrlInv, RollbackSound
<1> QED BY RestartInductive, <1>1, PTL

=============================================================================
