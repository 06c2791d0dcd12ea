------------------------------- MODULE Crawler -------------------------------
(***************************************************************************)
(* The crawler process around the frontier: the worker loop of             *)
(* src/internal/crawler/worker.go with its supervisor, the reconcilers of  *)
(* src/internal/scheduler/scheduler.go, and the start and end of the       *)
(* process (src/cmd/crawler/main.go).                                      *)
(*                                                                         *)
(* Redis and Mongo outlive the process.  A call to either can fail before  *)
(* or after it took effect; the process can be killed between any two      *)
(* calls; the root context can be cancelled at any time.  Faults that are  *)
(* not consequences of a cancellation are counted against MaxFaults.       *)
(***************************************************************************)
EXTENDS Frontier

CONSTANTS
    Worker,
    Links,            \* the links on the page of each URL
    RateLimitStop,    \* workerRateLimitStop
    MaxFaults         \* bound on lost calls and crashes

ASSUME CrawlerAssumption ==
    /\ Links \in [URL -> SUBSET URL]
    /\ RateLimitStop \in Nat \ {0}
    /\ MaxFaults \in Nat

VARIABLES
    phase,       \* of the process: "down", "starting", "seeding", "running"
    cancelled,   \* its root context is done
    pc,          \* where each worker is in workerLoop and handleOutcome
    job,         \* the job it holds
    todo,        \* the links it still has to admit
    found,       \* it was told New at least once (newCount > 0)
    op,          \* the resolution it is about to call
    after,       \* what it does after that: "loop", "stop" or "fatal"
    limited,     \* consecutiveRateLimited
    stored,      \* the videos in the Mongo corpus
    faults,      \* faults so far
    deadline     \* history: when the lease it was given expires

workerVars == <<pc, job, todo, found, op, after, limited, deadline>>

cvars == <<vars, phase, cancelled, workerVars, stored, faults>>

\* Ids start at 1.
NoJob == [id |-> 0, url |-> BaseUrl]

Fault == faults < MaxFaults /\ faults' = faults + 1

\* The step needs a fault unless the context is done, which fails every call
\* that is made under it.
FaultOrCancelled == \/ cancelled /\ UNCHANGED faults
                    \/ ~cancelled /\ Fault

Working(w) == pc[w] \in {"leased", "fetch", "store", "admit", "resolve"}

\* Bound on the job ids: every job in the hands of a worker keeps one in
\* reserve, so that the bound never stops a worker from giving its job back.
Room == seq + Cardinality({w \in Worker : Working(w)}) <= MaxJob

\* The state of every worker when Run starts it.
FreshWorkers ==
    /\ pc' = [w \in Worker |-> "loop"]
    /\ job' = [w \in Worker |-> NoJob]
    /\ todo' = [w \in Worker |-> {}]
    /\ found' = [w \in Worker |-> FALSE]
    /\ op' = [w \in Worker |-> "Nack"]
    /\ after' = [w \in Worker |-> "loop"]
    /\ limited' = [w \in Worker |-> 0]
    /\ deadline' = [w \in Worker |-> 0]

GoTo(w, label) == pc' = [pc EXCEPT ![w] = label]

\* Next comes c.resolve with the operation o, and after it the label a.
ResolveWith(w, o, a) ==
    /\ GoTo(w, "resolve")
    /\ op' = [op EXCEPT ![w] = o]
    /\ after' = [after EXCEPT ![w] = a]

-----------------------------------------------------------------------------
(* The worker.                                                             *)

\* The top of the loop: the context is looked at before every lease.
Stop(w) ==
    /\ pc[w] = "loop" /\ cancelled
    /\ GoTo(w, "stopped")
    /\ UNCHANGED <<vars, phase, cancelled, job, todo, found, op, after, limited,
                   deadline, stored, faults>>

LeaseJob(w) ==
    /\ pc[w] = "loop" /\ ~cancelled
    /\ \E j \in Oldest :
          /\ Lease
          /\ job' = [job EXCEPT ![w] = j]
          /\ deadline' = [deadline EXCEPT ![w] = now + LeaseTimeout]
    /\ GoTo(w, "leased")
    /\ UNCHANGED <<phase, cancelled, todo, found, op, after, limited, stored, faults>>

\* The script ran, wholly or in part, but its reply did not arrive; with the
\* context done the loop then ends.
LeaseLost(w) ==
    /\ pc[w] = "loop" /\ ready # {}
    /\ \/ ~cancelled /\ Fault /\ (Lease \/ LeaseAborted) /\ UNCHANGED pc
       \/ cancelled /\ Lease /\ GoTo(w, "stopped") /\ UNCHANGED faults
    /\ UNCHANGED <<phase, cancelled, job, todo, found, op, after, limited,
                   deadline, stored>>

\* A URL that canonicalize rejects is acknowledged unseen; then the rate
\* limiter, which only fails when the context is done.
Admitted(w) ==
    /\ pc[w] = "leased"
    /\ \/ /\ job[w].url \in Excluded
          /\ ResolveWith(w, "Ack", "loop")
       \/ /\ job[w].url \notin Excluded /\ cancelled
          /\ ResolveWith(w, "Nack", "stop")
       \/ /\ job[w].url \notin Excluded /\ ~cancelled
          /\ GoTo(w, "fetch")
          /\ UNCHANGED <<op, after>>
    /\ UNCHANGED <<vars, phase, cancelled, job, todo, found, limited, deadline,
                   stored, faults>>

\* What process can return.  "page" is a video or a listing page, by the URL.
Outcome == {"page", "notFound", "rateLimited", "strikeable", "invalid", "ukNotice"}
              \cup IF cancelled THEN {"cancelled"} ELSE {}

\* workerFailures.observe.
Observe(w, out) ==
    limited' = [limited EXCEPT ![w] =
                   IF out = "cancelled" THEN @
                   ELSE IF out = "rateLimited" THEN @ + 1 ELSE 0]

\* The resolution for an outcome without a page.
OpFor(out) ==
    CASE out = "notFound" -> "Terminal"
      [] out = "strikeable" -> "FailStrikeable"
      [] out \in {"rateLimited", "invalid", "ukNotice"} -> "FailRateLimited"
      [] out = "cancelled" -> "Nack"

\* The worker gives up its route after this outcome.
Retires(w, out) == out = "ukNotice" \/ limited'[w] >= RateLimitStop

Fetch(w) ==
    /\ pc[w] = "fetch"
    /\ \E out \in Outcome :
          /\ Observe(w, out)
          /\ \/ /\ out = "page"
                /\ GoTo(w, IF job[w].url \in Video THEN "store" ELSE "admit")
                /\ todo' = [todo EXCEPT ![w] = Links[job[w].url]]
                /\ found' = [found EXCEPT ![w] = FALSE]
                /\ UNCHANGED <<op, after>>
             \/ /\ out # "page"
                /\ ResolveWith(w, OpFor(out),
                               IF Retires(w, out) THEN "stop" ELSE "loop")
                /\ UNCHANGED <<todo, found>>
    /\ UNCHANGED <<vars, phase, cancelled, job, deadline, stored, faults>>

\* Upsert.
Store(w) ==
    /\ pc[w] = "store" /\ ~cancelled
    /\ stored' = stored \cup {job[w].url}
    /\ GoTo(w, "admit")
    /\ UNCHANGED <<vars, phase, cancelled, job, todo, found, op, after, limited,
                   deadline, faults>>

StoreFails_GoesOn(w) ==
    /\ pc[w] = "store"
    /\ FaultOrCancelled
    /\ GoTo(w, "admit")
    /\ UNCHANGED <<vars, phase, cancelled, job, todo, found, op, after, limited,
                   deadline, stored>>

StoreFails(w) ==
    /\ pc[w] = "store"
    /\ FaultOrCancelled
    /\ stored' \in {stored, stored \cup {job[w].url}}
    /\ ResolveWith(w, "Nack", "loop")
    /\ UNCHANGED <<vars, phase, cancelled, job, todo, found, limited, deadline>>

\* One call of admitURL in enqueueChildren.  A link that canonicalizes to
\* nothing is dropped.
Admission(x) ==
    IF x \in Video THEN AdmitVideo(x)
    ELSE IF x \in Excluded THEN UNCHANGED vars ELSE AdmitListing(x)

AdmissionResult(x) ==
    IF x \in Video THEN AdmitVideoResult(x)
    ELSE IF x \in Excluded THEN "Suppressed" ELSE AdmitListingResult(x)

Admit(w) ==
    /\ pc[w] = "admit" /\ ~cancelled
    /\ \E x \in todo[w] :
          /\ AdmissionResult(x) # "error"
          /\ Admission(x)
          /\ todo' = [todo EXCEPT ![w] = @ \ {x}]
          /\ found' = [found EXCEPT ![w] = @ \/ AdmissionResult(x) = "New"]
    /\ UNCHANGED <<phase, cancelled, pc, job, op, after, limited, deadline, stored,
                   faults>>

\* The server reports an error: the job is given back, then the crawl stops.
AdmitRefused(w) ==
    /\ pc[w] = "admit" /\ ~cancelled
    /\ \E x \in todo[w] : AdmissionResult(x) = "error" /\ Admission(x)
    /\ ResolveWith(w, "Nack", "fatal")
    /\ UNCHANGED <<phase, cancelled, job, todo, found, limited, deadline, stored,
                   faults>>

\* The call fails on the way there, or on the way back.
AdmitFails_GoesOn(w) ==
    /\ pc[w] = "admit"
    /\ FaultOrCancelled
    /\ \E x \in todo[w] : todo' = [todo EXCEPT ![w] = @ \ {x}]
    /\ UNCHANGED <<vars, phase, cancelled, pc, job, found, op, after, limited,
                   deadline, stored>>

AdmitFails(w) ==
    /\ pc[w] = "admit"
    /\ FaultOrCancelled
    /\ \E x \in todo[w] : UNCHANGED vars \/ Admission(x)
    /\ ResolveWith(w, "Nack", "loop")
    /\ UNCHANGED <<phase, cancelled, job, todo, found, limited, deadline, stored>>

\* Every link is admitted.
AdmitDone_AcksAll(w) ==
    /\ pc[w] = "admit" /\ todo[w] = {}
    /\ ResolveWith(w, "Ack", "loop")
    /\ UNCHANGED <<vars, phase, cancelled, job, todo, found, limited, deadline,
                   stored, faults>>

AdmitDone(w) ==
    /\ pc[w] = "admit" /\ todo[w] = {}
    /\ ResolveWith(w, IF job[w].url \in Video THEN "Ack" ELSE "CompleteListing",
                   "loop")
    /\ UNCHANGED <<vars, phase, cancelled, job, todo, found, limited, deadline,
                   stored, faults>>

\* The frontier call behind each resolution.
Call(o, j, isNew) ==
    CASE o = "Ack" -> Ack(j)
      [] o = "Nack" -> Nack(j)
      [] o = "Terminal" -> Terminal(j)
      [] o = "FailStrikeable" -> Fail(j, "strikeable")
      [] o = "FailRateLimited" -> Fail(j, "rateLimited")
      [] o = "CompleteListing" -> CompleteListing(j, isNew)

\* c.resolve runs under a context of its own, so a done root context does not
\* stop it.  Errors, ErrStaleLease too, are only logged: the worker goes on.
ResolveJob(w) ==
    /\ pc[w] = "resolve"
    /\ \/ Call(op[w], job[w], found[w]) /\ UNCHANGED faults
       \/ UNCHANGED vars /\ Fault
    /\ pc' = [pc EXCEPT ![w] = IF after[w] = "stop" THEN "stopped" ELSE after[w]]
    /\ job' = [job EXCEPT ![w] = NoJob]
    /\ todo' = [todo EXCEPT ![w] = {}]
    /\ found' = [found EXCEPT ![w] = FALSE]
    /\ deadline' = [deadline EXCEPT ![w] = 0]
    /\ UNCHANGED <<phase, cancelled, op, after, limited, stored>>

\* maybeFatalAdmission.
StopCrawl(w) ==
    /\ pc[w] = "fatal"
    /\ cancelled' = TRUE
    /\ GoTo(w, "loop")
    /\ UNCHANGED <<vars, phase, job, todo, found, op, after, limited, deadline,
                   stored, faults>>

WorkerStep(w) ==
    /\ phase = "running"
    /\ \/ Stop(w) \/ LeaseJob(w) \/ LeaseLost(w) \/ Admitted(w) \/ Fetch(w)
       \/ Store(w) \/ StoreFails(w)
       \/ Admit(w) \/ AdmitRefused(w) \/ AdmitFails(w) \/ AdmitDone(w)
       \/ ResolveJob(w) \/ StopCrawl(w)
    /\ Room'

-----------------------------------------------------------------------------
(* The rest of the process.                                                *)

AllStopped == \A w \in Worker : pc[w] = "stopped"

\* The goroutine of Run that waits for the workers.
Supervise_Forgets ==
    /\ phase = "running" /\ AllStopped /\ cancelled
    /\ UNCHANGED cvars

Supervise ==
    /\ phase = "running" /\ AllStopped
    /\ cancelled' = TRUE
    /\ UNCHANGED <<vars, phase, workerVars, stored, faults>>

\* A pass of one of the reconcilers; none starts once the context is done.
Reconcile ==
    /\ phase = "running" /\ ~cancelled
    /\ Promote \/ Reap \/ Sweep \/ RunListingScheduler
    /\ UNCHANGED <<phase, cancelled, workerVars, stored, faults>>
    /\ Room'

\* A signal, the metrics server failing, or the Bloom monitor.
Cancel ==
    /\ phase = "running" /\ ~cancelled
    /\ cancelled' = TRUE
    /\ UNCHANGED <<vars, phase, workerVars, stored, faults>>

\* The stored videos the filter does not report.
Unknown == {v \in stored : ~BloomHas(v)}

BloomFits == Cardinality(bloom) + Cardinality(Unknown) <= BloomCapacity

\* Start-up, first part: every stored video is added to the filter.
Start ==
    /\ phase = "down"
    /\ BloomFits
    /\ bloom' = bloom \cup Unknown
    /\ phase' = "starting"
    /\ UNCHANGED <<seq, ready, processing, lease, delayed, dead, attempts, strikes,
                   listingNext, barren, now, issued, acked, cancelled,
                   workerVars, stored, faults>>

\* A filter that is full refuses one of them, and main gives up.
StartRefused ==
    /\ phase = "down"
    /\ ~BloomFits
    /\ UNCHANGED cvars

\* Second part: BaseUrl is put on the schedule.
SeedBase ==
    /\ phase = "starting"
    /\ SeedListing(BaseUrl)
    /\ phase' = "seeding"
    /\ UNCHANGED <<cancelled, workerVars, stored, faults>>

\* With -fresh, Seed admits the URLs of seeds.txt and skips those that fail.
SeedFresh ==
    /\ phase = "seeding"
    /\ \E x \in Seed : Admission(x)
    /\ UNCHANGED <<phase, cancelled, workerVars, stored, faults>>
    /\ Room'

\* Third part: the goroutines start.
Launch ==
    /\ phase = "seeding"
    /\ phase' = "running"
    /\ UNCHANGED <<vars, cancelled, workerVars, stored, faults>>

\* main returns once the context is done and every goroutine has.
Exit ==
    /\ phase = "running" /\ cancelled /\ AllStopped
    /\ phase' = "down" /\ cancelled' = FALSE
    /\ FreshWorkers
    /\ UNCHANGED <<vars, stored, faults>>

\* The process is killed, or start-up ends in log.Fatalf.
Crash ==
    /\ phase # "down"
    /\ Fault
    /\ phase' = "down" /\ cancelled' = FALSE
    /\ FreshWorkers
    /\ UNCHANGED <<vars, stored>>

Clock == Tick /\ UNCHANGED <<phase, cancelled, workerVars, stored, faults>>

CInit ==
    /\ Init
    /\ phase = "down" /\ cancelled = FALSE
    /\ pc = [w \in Worker |-> "loop"]
    /\ job = [w \in Worker |-> NoJob]
    /\ todo = [w \in Worker |-> {}]
    /\ found = [w \in Worker |-> FALSE]
    /\ op = [w \in Worker |-> "Nack"]
    /\ after = [w \in Worker |-> "loop"]
    /\ limited = [w \in Worker |-> 0]
    /\ deadline = [w \in Worker |-> 0]
    /\ stored = {}
    /\ faults = 0

CNext ==
    \/ \E w \in Worker : WorkerStep(w)
    \/ Supervise \/ Reconcile \/ Cancel
    \/ Start \/ StartRefused \/ SeedBase \/ SeedFresh \/ Launch
    \/ Exit \/ Crash
    \/ Clock

CSpec == CInit /\ [][CNext]_cvars

\* Goroutines are scheduled and every call is bounded by a timeout, so a worker
\* that can step does; main waits for nothing but them.
CFairSpec ==
    /\ CSpec
    /\ \A w \in Worker : WF_cvars(WorkerStep(w))
    /\ WF_cvars(Supervise) /\ WF_cvars(Exit)

-----------------------------------------------------------------------------
(* Properties.                                                             *)

\* The crawler uses the frontier only in the ways its specification allows:
\* what holds of the frontier with its most general client holds here.
ImplementsFrontier == Spec

\* "video already durably upserted to Mongo" (worker.go:264): a video is
\* acknowledged, and so never fetched again, only when Mongo has it.
StoredBeforeAck == acked \cap Video \subseteq stored

\* The child contract (worker.go:125): a page is done with only when each of
\* its links is known to the frontier, whatever failed on the way.
ChildrenKnown ==
    \A u \in (acked \cap Video) \cup DOMAIN barren :
       \A x \in Links[u] \ Excluded :
          IF x \in Video THEN BloomHas(x) \/ x \in DOMAIN dead
          ELSE x \in DOMAIN listingNext

\* Two workers are on the same listing or claimed video at once only when the
\* lease of one of them has run out.
ExclusiveUnlessExpired ==
    \A w1, w2 \in Worker :
       /\ w1 # w2 /\ Working(w1) /\ Working(w2)
       /\ job[w1].url = job[w2].url /\ job[w1].url \in Claimed
       => now >= deadline[w1] \/ now >= deadline[w2]

\* Shutdown ends, wherever the workers are: once the context is done the
\* process is gone eventually.  "When every worker exits, cancel the root context
\* so reconcilers also stop" (worker.go:488): one without workers ends as well.
ProcessEnds ==
    (cancelled \/ (phase = "running" /\ AllStopped)) ~> phase = "down"

=============================================================================
