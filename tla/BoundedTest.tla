---------------------------- MODULE BoundedTest -----------------------------
(***************************************************************************)
(* The bounded test (crawler -test): RunTest and its observations in       *)
(* src/internal/crawler/crawler.go, the workers it starts, and what main   *)
(* does with its verdict.  The frontier appears as the place of each URL,  *)
(* which is what Frontier shows of it: a claimed URL has one job at most,  *)
(* and a resolution counts only while its lease does.                      *)
(*                                                                         *)
(* Faults are calls to Redis or Mongo that fail, or that take effect       *)
(* although their answer is lost, and leases that run out under a worker.  *)
(* A done context makes calls fail too, and that is no fault.              *)
(***************************************************************************)
EXTENDS Naturals, FiniteSets

CONSTANTS
    Worker,
    Video,
    Listing,
    TestUrl,         \* the listing the crawl starts from
    Links,           \* the links on the page of a URL
    Target,          \* maxTestVideos
    RateLimitStop,   \* consecutive rate limits that retire a worker
    Leftover,        \* videos an earlier, killed test left in Mongo
    None,
    MaxFaults

ASSUME TestAssumption ==
    /\ IsFiniteSet(Worker) /\ Cardinality(Worker) >= 2    \* RunTest refuses fewer
    /\ TestUrl \in Listing /\ Listing \cap Video = {}
    /\ Links \in [Video \cup Listing -> SUBSET (Video \cup Listing)]
    /\ Target \in Nat \ {0} /\ RateLimitStop \in Nat \ {0}
    /\ Leftover \subseteq Video /\ IsFiniteSet(Leftover) /\ MaxFaults \in Nat

URL == Video \cup Listing

VARIABLES
    place,      \* where the frontier has a URL
    pc,         \* the control state of a worker
    url,        \* the URL of the job it holds
    leased,     \* its lease is live
    out,        \* the outcome it resolves the job with
    limited,    \* its consecutive rate limits
    done,       \* testStored: the videos it saw through
    retired,    \* testRetired: the workers that were retired
    active,     \* testActive
    testErr,    \* an overlap was detected
    count,      \* the videos recorded
    corpus,     \* the videos in Mongo
    cancelled,  \* the context of the crawl is done
    parent,     \* the context of the process is done
    clock,      \* "early", "late": within a rate limit of testDeadline, "over"
    mpc,        \* the control state of main and RunTest
    why,        \* the first error of RunTest
    code,       \* the exit status
    faults,
    overlap,    \* history: two workers fetched a URL at the same time
    recorded,   \* history: the videos recorded
    doubled     \* history: the videos recorded twice

workerVars == <<pc, url, leased, out, limited, done, retired>>
testVars == <<active, testErr, overlap>>
storeVars == <<count, corpus, recorded, doubled>>
ctxVars == <<cancelled, parent, clock>>
mainVars == <<mpc, why, code>>

bvars == <<place, workerVars, testVars, storeVars, ctxVars, mainVars, faults>>

Fault == faults < MaxFaults /\ faults' = faults + 1

\* A call fails: its context is done, or something went wrong.
CallFails == (cancelled /\ UNCHANGED faults) \/ Fault

-----------------------------------------------------------------------------
(* The workers.                                                            *)

AllStopped == \A w \in Worker : pc[w] = "stopped"

GoTo(w, label) == pc' = [pc EXCEPT ![w] = label]

\* The staggered start of workerID: an offset, then the loop.
Begin(w) ==
    /\ pc[w] = "offset" /\ mpc # "seed" /\ why # "seed"
    /\ GoTo(w, IF cancelled THEN "stopped" ELSE "loop")
    /\ UNCHANGED <<place, url, leased, out, limited, done, retired, testVars,
                   storeVars, ctxVars, mainVars, faults>>

\* The head of the loop: the context is done or the target is met.
Stop_Lingers(w) ==
    /\ pc[w] = "loop"
    /\ count >= Target
    /\ GoTo(w, "stopped")
    /\ UNCHANGED <<place, url, leased, out, limited, done, retired, testVars,
                   storeVars, ctxVars, mainVars, faults>>

Stop(w) ==
    /\ pc[w] = "loop"
    /\ cancelled \/ count >= Target
    /\ GoTo(w, "stopped")
    /\ UNCHANGED <<place, url, leased, out, limited, done, retired, testVars,
                   storeVars, ctxVars, mainVars, faults>>

\* LEASE hands out a job, or its answer is lost.
Lease(w) ==
    /\ pc[w] = "loop" /\ ~cancelled /\ count < Target
    /\ \E u \in URL :
          /\ place[u] = "ready"
          /\ place' = [place EXCEPT ![u] = "processing"]
          /\ \/ /\ GoTo(w, "wait")
                /\ url' = [url EXCEPT ![w] = u]
                /\ leased' = [leased EXCEPT ![w] = TRUE]
                /\ UNCHANGED faults
             \/ Fault /\ UNCHANGED <<pc, url, leased>>
    /\ UNCHANGED <<out, limited, done, retired, testVars, storeVars, ctxVars,
                   mainVars>>

\* The place a resolution gives the URL; a stale one changes nothing.
Settle(w, p) ==
    place' = IF leased[w] THEN [place EXCEPT ![url[w]] = p] ELSE place

\* limiter.Wait gives up when the context is done, and already when the
\* deadline would come before the next permit.
WaitFails(w) ==
    /\ pc[w] = "wait"
    /\ cancelled \/ clock = "late"
    /\ Settle(w, "ready")
    /\ GoTo(w, "stopped")
    /\ url' = [url EXCEPT ![w] = None]
    /\ leased' = [leased EXCEPT ![w] = FALSE]
    /\ UNCHANGED <<out, limited, done, retired, testVars, storeVars, ctxVars,
                   mainVars, faults>>

\* recordTestStart, just before the page is requested.
FetchStart(w) ==
    /\ pc[w] = "wait" /\ ~cancelled
    /\ testErr' = (testErr \/ active[url[w]] > 0)
    /\ active' = [active EXCEPT ![url[w]] = @ + 1]
    /\ overlap' = (overlap \/ \E x \in Worker \ {w} :
                                 pc[x] = "fetch" /\ url[x] = url[w])
    /\ GoTo(w, "fetch")
    /\ UNCHANGED <<place, url, leased, out, limited, done, retired, storeVars,
                   ctxVars, mainVars, faults>>

Outcome(u) ==
    {"notFound", "retryable", "rateLimited", "invalid", "ukNotice"}
       \cup IF u \in Video THEN {"video"} ELSE {"listing"}

\* recordTestFinish: the observation ends with the fetch, whatever came of it.
recordTestFinish_PagesOnly(w, o) ==
    active' = IF o \in {"video", "listing"}
              THEN [active EXCEPT ![url[w]] = @ - 1] ELSE active

recordTestFinish(w, o) == active' = [active EXCEPT ![url[w]] = @ - 1]

\* process returns; workerFailures.observe counts rate limits in a row.
FetchEnd(w) ==
    /\ pc[w] = "fetch"
    /\ \E o \in Outcome(url[w]) \cup IF cancelled THEN {"cancelled"} ELSE {} :
          /\ recordTestFinish(w, o)
          /\ out' = [out EXCEPT ![w] = o]
          /\ limited' = [limited EXCEPT ![w] =
                            CASE o = "rateLimited" -> @ + 1
                              [] o = "cancelled" -> @
                              [] OTHER -> 0]
          /\ GoTo(w, CASE o = "video" -> "upsert" [] o = "listing" -> "children"
                       [] OTHER -> "resolve")
    /\ UNCHANGED <<place, url, leased, done, retired, testErr, overlap,
                   storeVars, ctxVars, mainVars, faults>>

\* Mongo has the video and recordVideo counts it.
Upsert(w) ==
    LET v == url[w]
    IN  /\ pc[w] = "upsert"
        /\ corpus' = corpus \cup {v}
        /\ count' = count + 1
        /\ recorded' = recorded \cup {v}
        /\ doubled' = IF v \in recorded THEN doubled \cup {v} ELSE doubled
        /\ GoTo(w, "children")
        /\ UNCHANGED <<place, url, leased, out, limited, done, retired,
                       testVars, ctxVars, mainVars, faults>>

\* The write fails; it may have reached Mongo all the same.
UpsertFails(w) ==
    /\ pc[w] = "upsert"
    /\ CallFails
    /\ corpus' \in {corpus, corpus \cup {url[w]}}
    /\ out' = [out EXCEPT ![w] = "nack"]
    /\ GoTo(w, "resolve")
    /\ UNCHANGED <<place, url, leased, limited, done, retired, testVars, count,
                   recorded, doubled, ctxVars, mainVars>>

\* Admission of a set of links; claimed ones are suppressed.
Admitted_Forgets(S) ==
    [u \in URL |-> IF u \in S /\ place[u] \in {"new", "gone"} THEN "ready"
                   ELSE place[u]]

Admitted(S) ==
    [u \in URL |-> IF u \in S /\ place[u] = "new" THEN "ready" ELSE place[u]]

Children(w) ==
    /\ pc[w] = "children"
    /\ place' = Admitted(Links[url[w]])
    /\ GoTo(w, "resolve")
    /\ UNCHANGED <<url, leased, out, limited, done, retired, testVars,
                   storeVars, ctxVars, mainVars, faults>>

\* One admission fails: the rest is left out and the job goes back.  An error
\* of Redis itself also stops the crawl (maybeFatalAdmission).
ChildrenFail(w) ==
    /\ pc[w] = "children"
    /\ CallFails
    /\ \E S \in SUBSET Links[url[w]] : place' = Admitted(S)
    /\ \E o \in {"nack", "fatal"} : out' = [out EXCEPT ![w] = o]
    /\ GoTo(w, "resolve")
    /\ UNCHANGED <<url, leased, limited, done, retired, testVars, storeVars,
                   ctxVars, mainVars>>

\* Where handleOutcome's resolution may take the URL: Ack, CompleteListing
\* and Terminal, Fail, or Nack.
Places(o) ==
    CASE o \in {"video", "listing", "notFound"} -> {"gone"}
      [] o = "retryable" -> {"delayed", "gone"}
      [] o \in {"rateLimited", "invalid", "ukNotice"} -> {"delayed"}
      [] OTHER -> {"ready"}

\* What retires a worker.
Retires(w) == out[w] = "ukNotice" \/ limited[w] >= RateLimitStop

\* The resolution has a context of its own, and its failure is only logged.
Resolve(w) ==
    /\ pc[w] = "resolve"
    /\ \/ UNCHANGED faults /\ \E p \in Places(out[w]) : Settle(w, p)
       \/ Fault /\ UNCHANGED place
    /\ done' = IF out[w] = "video"
               THEN [done EXCEPT ![w] = @ \cup {url[w]}] ELSE done
    /\ cancelled' = (cancelled \/ out[w] = "fatal")
    /\ retired' = IF Retires(w) THEN retired \cup {w} ELSE retired
    /\ GoTo(w, IF Retires(w) THEN "stopped" ELSE "loop")
    /\ url' = [url EXCEPT ![w] = None]
    /\ leased' = [leased EXCEPT ![w] = FALSE]
    /\ out' = [out EXCEPT ![w] = "none"]
    /\ UNCHANGED <<limited, testVars, storeVars, parent, clock, mainVars>>

WorkerStep(w) ==
    \/ Begin(w) \/ Stop(w) \/ Lease(w) \/ WaitFails(w) \/ FetchStart(w)
    \/ FetchEnd(w) \/ Upsert(w) \/ UpsertFails(w) \/ Children(w)
    \/ ChildrenFail(w) \/ Resolve(w)

-----------------------------------------------------------------------------
(* The reconcilers, until they are joined, and the contexts.               *)

Joined == mpc \in {"verify", "checkpoint", "save", "exit"}

Promote ==
    /\ ~Joined
    /\ \E u \in URL : place[u] = "delayed" /\ place' = [place EXCEPT ![u] = "ready"]
    /\ UNCHANGED <<workerVars, testVars, storeVars, ctxVars, mainVars, faults>>

\* A lease nobody answers for runs out; under a worker, that is a fault.
Reap ==
    /\ ~Joined
    /\ \E u \in URL :
          LET holders == {w \in Worker : leased[w] /\ url[w] = u}
          IN  /\ place[u] = "processing"
              /\ place' = [place EXCEPT ![u] = "ready"]
              /\ leased' = [w \in Worker |-> leased[w] /\ w \notin holders]
              /\ IF holders = {} THEN UNCHANGED faults ELSE Fault
    /\ UNCHANGED <<pc, url, out, limited, done, retired, testVars, storeVars,
                   ctxVars, mainVars>>

\* The Bloom monitor stops the crawl.
MonitorStops ==
    /\ ~Joined /\ ~cancelled /\ Fault
    /\ cancelled' = TRUE
    /\ UNCHANGED <<place, workerVars, testVars, storeVars, parent, clock, mainVars>>

\* A signal or POST /stop.
Signal ==
    /\ ~parent /\ mpc # "exit"
    /\ parent' = TRUE /\ cancelled' = TRUE
    /\ UNCHANGED <<place, workerVars, testVars, storeVars, clock, mainVars, faults>>

TimePasses ==
    /\ clock # "over"
    /\ clock' = IF clock = "early" THEN "late" ELSE "over"
    /\ cancelled' = (cancelled \/ clock' = "over")
    /\ UNCHANGED <<place, workerVars, testVars, storeVars, parent, mainVars, faults>>

-----------------------------------------------------------------------------
(* RunTest.                                                                *)

\* The seed is admitted, twice: the second admission is suppressed.
Seed ==
    /\ mpc = "seed"
    /\ \/ /\ ~cancelled
          /\ place' = Admitted({TestUrl})
          /\ mpc' = "poll" /\ UNCHANGED <<why, faults>>
       \/ /\ CallFails
          /\ mpc' = "checkpoint" /\ why' = "seed"
          /\ UNCHANGED place
    /\ UNCHANGED <<workerVars, testVars, storeVars, ctxVars, code>>

\* The loop ends with error e, and what still runs is told to.
Break(e) ==
    /\ why' = IF e = "none" /\ cancelled THEN "context" ELSE e
    /\ cancelled' = TRUE
    /\ mpc' = "join"

\* The checks at the head of the loop, in their order.
Poll ==
    /\ mpc = "poll"
    /\ \/ (count >= Target \/ testErr) /\ Break("none")
       \/ /\ count < Target /\ ~testErr
          /\ \/ AllStopped /\ Break("stopped")
             \/ ~AllStopped /\ cancelled /\ Break("context")
             \/ ~AllStopped /\ ~cancelled /\ mpc' = "ready" /\ UNCHANGED <<why, cancelled>>
    /\ UNCHANGED <<place, workerVars, testVars, storeVars, parent, clock, code, faults>>

Holds(p) == \E u \in URL : place[u] = p

\* Idle reads the length of one structure after the other.
IdleRead ==
    /\ mpc \in {"ready", "processing", "delayed"}
    /\ \/ Holds(mpc) /\ mpc' = "poll" /\ UNCHANGED <<why, cancelled>>
       \/ /\ ~Holds(mpc) /\ mpc # "delayed"
          /\ mpc' = IF mpc = "ready" THEN "processing" ELSE "delayed"
          /\ UNCHANGED <<why, cancelled>>
       \/ /\ ~Holds(mpc) /\ mpc = "delayed"
          /\ Break(IF count < Target THEN "drained" ELSE "none")
    /\ UNCHANGED <<place, workerVars, testVars, storeVars, parent, clock, code, faults>>

IdleFails ==
    /\ mpc \in {"ready", "processing", "delayed"}
    /\ CallFails
    /\ Break("inspection")
    /\ UNCHANGED <<place, workerVars, testVars, storeVars, parent, clock, code>>

\* validateTestWorkers.
WorkersValid_NoCoverage ==
    /\ ~testErr
    /\ \A u \in URL : active[u] = 0
    /\ retired = {}

WorkersValid ==
    /\ ~testErr
    /\ \A u \in URL : active[u] = 0
    /\ \A w \in Worker : w \notin retired /\ done[w] # {}

\* wg.Wait, and the verdict on the workers.
Join ==
    /\ mpc = "join" /\ AllStopped
    /\ IF why = "none" /\ ~parent /\ WorkersValid
       THEN mpc' = "verify" /\ UNCHANGED why
       ELSE mpc' = "checkpoint" /\ why' = IF why = "none" THEN "workers" ELSE why
    /\ UNCHANGED <<place, workerVars, testVars, storeVars, ctxVars, code, faults>>

CountsAgree == Cardinality(corpus) >= Target /\ Cardinality(corpus) = count

\* The count of Mongo against the count of the workers.
Verify ==
    /\ mpc = "verify"
    /\ \/ UNCHANGED faults /\ why' = IF CountsAgree THEN "none" ELSE "mismatch"
       \/ ((parent /\ UNCHANGED faults) \/ Fault) /\ why' = "verification"
    /\ mpc' = "checkpoint"
    /\ UNCHANGED <<place, workerVars, testVars, storeVars, ctxVars, code>>

\* main: the final checkpoint has a context of its own and is taken always.
Checkpoint ==
    /\ mpc = "checkpoint"
    /\ \E failed \in BOOLEAN :
          /\ IF failed THEN Fault ELSE UNCHANGED faults
          /\ IF failed \/ why # "none" \/ parent
             THEN mpc' = "exit" /\ code' = 1
             ELSE mpc' = "save" /\ UNCHANGED code
    /\ UNCHANGED <<place, workerVars, testVars, storeVars, ctxVars, why>>

SaveTest ==
    /\ mpc = "save"
    /\ mpc' = "exit"
    /\ \/ UNCHANGED faults /\ ~parent /\ code' = 0
       \/ ((parent /\ UNCHANGED faults) \/ Fault) /\ code' = 1
    /\ UNCHANGED <<place, workerVars, testVars, storeVars, ctxVars, why>>

Main ==
    \/ Seed \/ Poll \/ IdleRead \/ IdleFails \/ Join \/ Verify
    \/ Checkpoint \/ SaveTest

-----------------------------------------------------------------------------

\* After InitTest and BloomInit Redis is empty; Mongo need not be.
BInit ==
    /\ place = [u \in URL |-> "new"]
    /\ pc = [w \in Worker |-> "offset"]
    /\ url = [w \in Worker |-> None]
    /\ leased = [w \in Worker |-> FALSE]
    /\ out = [w \in Worker |-> "none"]
    /\ limited = [w \in Worker |-> 0]
    /\ done = [w \in Worker |-> {}]
    /\ retired = {}
    /\ active = [u \in URL |-> 0] /\ testErr = FALSE /\ overlap = FALSE
    /\ count = 0 /\ corpus \in {{}, Leftover}
    /\ recorded = {} /\ doubled = {}
    /\ cancelled = FALSE /\ parent = FALSE /\ clock = "early"
    /\ mpc = "seed" /\ why = "none" /\ code = 2
    /\ faults = 0

BNext ==
    \/ \E w \in Worker : WorkerStep(w)
    \/ Promote \/ Reap \/ MonitorStops \/ Signal \/ TimePasses
    \/ Main

BSpec == BInit /\ [][BNext]_bvars

\* Goroutines run, calls and fetches return, and the deadline comes.
BFairSpec ==
    /\ BSpec
    /\ \A w \in Worker : WF_bvars(WorkerStep(w))
    /\ WF_bvars(Main) /\ WF_bvars(TimePasses)

-----------------------------------------------------------------------------
(* Properties.                                                             *)

\* "A full pass requires the video target, coverage of every worker, no
\* retired workers or detected overlap, and a Mongo unique-record count matching
\* recorded writes" (README.md:69): exit status 0 is not given to a crawl in
\* which one of them failed.  Unless a video was recorded twice, matching counts
\* mean that the corpus is the one this run recorded.
PassIsSound ==
    code = 0 =>
       /\ Cardinality(corpus) >= Target
       /\ \A w \in Worker : done[w] # {} /\ done[w] \subseteq corpus
       /\ \A w \in Worker : w \notin retired /\ limited[w] < RateLimitStop
       /\ ~overlap
       /\ doubled = {} => corpus = recorded

\* A job handed back after its video was recorded is fetched and recorded
\* again; that is the only way, and it takes a failed call or a lost lease.
DoubledOnlyByFault == faults = 0 => doubled = {} /\ ~overlap

\* Workers and reconcilers are joined before RunTest returns (crawler.go:174):
\* the checkpoint sees a frontier at rest and no observation is left open.
RestAfterJoin ==
    Joined /\ why # "seed" => AllStopped /\ \A u \in URL : active[u] = 0

\* "whichever stops the crawl first" (README.md:62): the test ends, whatever
\* fails and however the pages answer.
TestEnds == <>(mpc = "exit")

=============================================================================
