-------------------------- MODULE BoundedTestProofs --------------------------
(***************************************************************************)
(* Proofs about the bounded test, for any number of workers, any site, any *)
(* targets and any faults.                                                 *)
(*                                                                         *)
(* The invariant has four parts.  Observed: testActive counts exactly the  *)
(* workers inside a fetch, which is what makes the overlap check and the   *)
(* rest after the join true.  Ledger: what the workers, the counter and    *)
(* Mongo say of the recorded videos.  Verdict: what RunTest knows at each  *)
(* of its steps.  FaultFree: without faults a job has one holder, and a    *)
(* recorded video is not fetched again.                                    *)
(***************************************************************************)
EXTENDS BoundedTest, FiniteSetTheorems, TLAPS

PlaceOf == {"new", "ready", "processing", "delayed", "gone"}

\* The control states of a worker that has a job.
Busy == {"wait", "fetch", "upsert", "children", "resolve"}

Shape ==
    /\ place \in [URL -> PlaceOf]
    /\ pc \in [Worker -> {"offset", "loop", "stopped"} \cup Busy]
    /\ url \in [Worker -> URL \cup {None}]
    /\ leased \in [Worker -> BOOLEAN]
    /\ out \in [Worker -> {"none", "video", "listing", "notFound", "retryable", "rateLimited",
                           "invalid", "ukNotice", "cancelled", "nack", "fatal"}]
    /\ limited \in [Worker -> Nat]
    /\ done \in [Worker -> SUBSET Video]
    /\ retired \subseteq Worker
    /\ active \in [URL -> Int]
    /\ testErr \in BOOLEAN /\ overlap \in BOOLEAN
    /\ cancelled \in BOOLEAN
    /\ count \in Nat /\ faults \in Nat /\ recorded \subseteq Video
    /\ \A w \in Worker : pc[w] \in Busy => url[w] \in URL
    /\ \A w \in Worker : pc[w] = "upsert" => out[w] = "video"
    /\ \A w \in Worker : out[w] = "video" => /\ url[w] \in Video
                                             /\ pc[w] \in {"upsert", "children", "resolve"}

Watchers(u) == {w \in Worker : pc[w] = "fetch" /\ url[w] = u}

\* testActive is exact, and an overlap does not go unnoticed.
Observed ==
    /\ \A u \in URL : active[u] = Cardinality(Watchers(u))
    /\ overlap => testErr

\* What the workers and the counter claim is in Mongo.
Ledger ==
    /\ recorded \subseteq corpus /\ IsFiniteSet(corpus)
    /\ \A w \in Worker : done[w] \subseteq recorded
    /\ \A w \in Worker : pc[w] \in {"children", "resolve"} /\ out[w] = "video"
                            => url[w] \in recorded
    /\ doubled = {} => count = Cardinality(recorded)
    /\ \A w \in Worker : limited[w] >= RateLimitStop => w \in retired \/ pc[w] = "resolve"

\* What RunTest and main have seen to.
Verdict ==
    /\ Joined => why = "seed" \/ AllStopped
    /\ mpc = "verify" => why = "none" /\ WorkersValid
    /\ mpc \in {"checkpoint", "save", "exit"} /\ why = "none" => WorkersValid /\ CountsAgree
    /\ mpc = "save" => why = "none"
    /\ code = 0 => mpc = "exit" /\ why = "none"

\* A worker that has a job has its lease.
KeepsLease ==
    \A w \in Worker : pc[w] \in Busy => leased[w] /\ place[url[w]] = "processing"

SoleHolder ==
    \A w, x \in Worker : pc[w] \in Busy /\ pc[x] \in Busy /\ url[w] = url[x] => w = x

\* A video that is being fetched was not recorded before.
Unrecorded ==
    \A w \in Worker :
       pc[w] \in {"fetch", "upsert"} \/ (pc[w] = "wait" /\ ~cancelled)
          => url[w] \notin recorded

\* A recorded video is done with, or about to be, or the crawl is over.
Settled ==
    \A v \in recorded :
       \/ cancelled
       \/ place[v] = "gone"
       \/ \E w \in Worker : /\ url[w] = v /\ out[w] = "video"
                            /\ pc[w] \in {"children", "resolve"}

FaultFree ==
    faults = 0 =>
       KeepsLease /\ SoleHolder /\ Unrecorded /\ Settled /\ doubled = {} /\ ~overlap

BInv == Shape /\ Observed /\ Ledger /\ Verdict /\ FaultFree

-----------------------------------------------------------------------------
(* The shape of the state.                                                 *)

\* Admitting links leaves every URL in some place.
LEMMA AdmittedShape ==
    ASSUME Shape, NEW S
    PROVE  Admitted(S) \in [URL -> PlaceOf]
BY DEF Shape, Admitted, PlaceOf

\* So does settling a job.
LEMMA SettleShape ==
    ASSUME Shape, NEW w \in Worker, pc[w] \in Busy, NEW p \in PlaceOf, Settle(w, p)
    PROVE  place' \in [URL -> PlaceOf]
BY DEF Shape, Settle

\* A worker keeps the shape of the state; what it records is a video.
LEMMA ShapeWorker ==
    ASSUME Shape, NEW w \in Worker, WorkerStep(w)
    PROVE  Shape'
<1> USE DEF GoTo, Busy, testVars, storeVars, ctxVars, mainVars
<1>0. \A u \in Video : u \in URL
  BY DEF URL
<1>1. ASSUME Begin(w) PROVE Shape'
  BY <1>1 DEF Shape, Begin
<1>2. ASSUME Stop(w) PROVE Shape'
  BY <1>2 DEF Shape, Stop
<1>3. ASSUME Lease(w) PROVE Shape'
  <2>1. PICK u \in URL :
           /\ place' = [place EXCEPT ![u] = "processing"]
           /\ \/ /\ pc' = [pc EXCEPT ![w] = "wait"]
                 /\ url' = [url EXCEPT ![w] = u]
                 /\ leased' = [leased EXCEPT ![w] = TRUE]
                 /\ UNCHANGED faults
              \/ Fault /\ UNCHANGED <<pc, url, leased>>
    BY <1>3 DEF Lease
  <2>2. faults' \in Nat /\ place' \in [URL -> PlaceOf]
    BY <2>1 DEF Shape, Fault, PlaceOf
  <2>3. /\ pc[w] = "loop"
        /\ UNCHANGED <<out, limited, done, retired, active, testErr, overlap, count, recorded,
                       cancelled>>
    BY <1>3 DEF Lease
  <2>4. CASE UNCHANGED <<pc, url, leased>>
    BY <2>2, <2>3, <2>4 DEF Shape
  <2>5. CASE /\ pc' = [pc EXCEPT ![w] = "wait"]
             /\ url' = [url EXCEPT ![w] = u]
             /\ leased' = [leased EXCEPT ![w] = TRUE]
    BY <2>2, <2>3, <2>5 DEF Shape
  <2> QED BY <2>1, <2>4, <2>5
<1>4. ASSUME WaitFails(w) PROVE Shape'
  <2>1. place' \in [URL -> PlaceOf]
    BY <1>4, SettleShape DEF WaitFails, PlaceOf
  <2> QED BY <1>4, <2>1 DEF Shape, WaitFails
<1>5. ASSUME FetchStart(w) PROVE Shape'
  BY <1>5 DEF Shape, FetchStart
<1>6. ASSUME FetchEnd(w) PROVE Shape'
  <2>1. PICK o \in Outcome(url[w]) \cup IF cancelled THEN {"cancelled"} ELSE {} :
          /\ active' = [active EXCEPT ![url[w]] = @ - 1]
          /\ out' = [out EXCEPT ![w] = o]
          /\ limited' = [limited EXCEPT ![w] =
                            CASE o = "rateLimited" -> @ + 1
                              [] o = "cancelled" -> @
                              [] OTHER -> 0]
          /\ pc' = [pc EXCEPT ![w] = CASE o = "video" -> "upsert" [] o = "listing" -> "children"
                       [] OTHER -> "resolve"]
    BY <1>6 DEF FetchEnd, recordTestFinish
  <2>2. /\ o \in {"video", "listing", "notFound", "retryable", "rateLimited",
                  "invalid", "ukNotice", "cancelled"}
        /\ o = "video" => url[w] \in Video
    BY <2>1 DEF Outcome
  <2>3. limited' \in [Worker -> Nat] /\ active' \in [URL -> Int]
    <3> DEFINE k == CASE o = "rateLimited" -> limited[w] + 1
                      [] o = "cancelled" -> limited[w]
                      [] OTHER -> 0
    <3>1. limited' = [limited EXCEPT ![w] = k]
      BY <2>1
    <3>2. k \in Nat
      BY DEF Shape
    <3> HIDE DEF k
    <3>3. limited' \in [Worker -> Nat]
      BY <3>1, <3>2 DEF Shape
    <3>4. url[w] \in URL
      BY <1>6 DEF FetchEnd, Shape
    <3> QED BY <2>1, <3>3, <3>4 DEF Shape
  <2>4. /\ pc' \in [Worker -> {"offset", "loop", "stopped"} \cup Busy]
        /\ pc'[w] = "upsert" <=> o = "video"
        /\ \A x \in Worker \ {w} : pc'[x] = pc[x] /\ out'[x] = out[x]
        /\ out'[w] = o
    BY <2>1, <2>2 DEF Shape
  <2>5. pc[w] = "fetch" /\ UNCHANGED <<place, url, leased, done, retired, testErr, overlap,
                                       count, recorded, cancelled, faults>>
    BY <1>6 DEF FetchEnd
  <2> QED BY <2>1, <2>2, <2>3, <2>4, <2>5 DEF Shape
<1>7. ASSUME Upsert(w) PROVE Shape'
  BY <1>7 DEF Shape, Upsert
<1>8. ASSUME UpsertFails(w) PROVE Shape'
  <2>1. faults' \in Nat
    BY <1>8 DEF Shape, UpsertFails, CallFails, Fault
  <2> QED BY <1>8, <2>1 DEF Shape, UpsertFails
<1>9. ASSUME Children(w) PROVE Shape'
  BY <1>9, AdmittedShape DEF Shape, Children
<1>10. ASSUME ChildrenFail(w) PROVE Shape'
  <2>1. faults' \in Nat /\ place' \in [URL -> PlaceOf]
    BY <1>10, AdmittedShape DEF Shape, ChildrenFail, CallFails, Fault
  <2> QED BY <1>10, <2>1 DEF Shape, ChildrenFail
<1>11. ASSUME Resolve(w) PROVE Shape'
  <2>1. Places(out[w]) \subseteq PlaceOf
    BY DEF Places, PlaceOf
  <2>2. faults' \in Nat /\ place' \in [URL -> PlaceOf]
    BY <1>11, <2>1, SettleShape DEF Shape, Resolve, Fault
  <2> QED BY <1>11, <2>2 DEF Shape, Resolve
<1> QED BY <1>1, <1>2, <1>3, <1>4, <1>5, <1>6, <1>7, <1>8, <1>9, <1>10, <1>11 DEF WorkerStep

\* RunTest, main, the reconcilers and the clock keep it too.
LEMMA ShapeMain ==
    ASSUME Shape, \/ Promote \/ Reap \/ MonitorStops \/ Signal \/ TimePasses \/ Main
                  \/ UNCHANGED bvars
    PROVE  Shape'
<1> USE DEF Busy, workerVars, testVars, storeVars, ctxVars, mainVars
<1>1. ASSUME Promote PROVE Shape'
  BY <1>1 DEF Shape, Promote, PlaceOf
<1>2. ASSUME Reap PROVE Shape'
  <2>1. faults' \in Nat /\ place' \in [URL -> PlaceOf] /\ leased' \in [Worker -> BOOLEAN]
    BY <1>2 DEF Shape, Reap, Fault, PlaceOf
  <2> QED BY <1>2, <2>1 DEF Shape, Reap
<1>3. ASSUME MonitorStops \/ Signal \/ TimePasses PROVE Shape'
  <2>1. faults' \in Nat
    BY <1>3 DEF Shape, MonitorStops, Signal, TimePasses, Fault
  <2>2. cancelled' \in BOOLEAN
    BY <1>3 DEF Shape, MonitorStops, Signal, TimePasses
  <2>3. UNCHANGED <<place, workerVars, testVars, count, recorded>>
    BY <1>3 DEF MonitorStops, Signal, TimePasses
  <2> QED BY <2>1, <2>2, <2>3 DEF Shape
<1>4. ASSUME Seed PROVE Shape'
  BY <1>4, AdmittedShape DEF Shape, Seed, CallFails, Fault
<1>5. ASSUME Poll \/ IdleRead PROVE Shape'
  BY <1>5 DEF Shape, Poll, IdleRead, Break
<1>6. ASSUME IdleFails PROVE Shape'
  BY <1>6 DEF Shape, IdleFails, Break, CallFails, Fault
<1>7. ASSUME Join PROVE Shape'
  BY <1>7 DEF Shape, Join
<1>8. ASSUME Verify \/ Checkpoint \/ SaveTest PROVE Shape'
  BY <1>8 DEF Shape, Verify, Checkpoint, SaveTest, Fault
<1>9. ASSUME UNCHANGED bvars PROVE Shape'
  BY <1>9 DEF Shape, bvars
<1> QED BY <1>1, <1>2, <1>3, <1>4, <1>5, <1>6, <1>7, <1>8, <1>9 DEF Main

-----------------------------------------------------------------------------
(* The observations of recordTestStart and recordTestFinish.               *)

\* A step that moves no worker into or out of a fetch.
LEMMA SameWatchers ==
    ASSUME Shape, Observed, UNCHANGED testVars,
           \A x \in Worker : /\ pc'[x] = "fetch" <=> pc[x] = "fetch"
                             /\ pc[x] = "fetch" => url'[x] = url[x]
    PROVE  Observed'
<1>1. \A u \in URL : {x \in Worker : pc'[x] = "fetch" /\ url'[x] = u} = Watchers(u)
  BY DEF Watchers
<1> QED BY <1>1 DEF Observed, Watchers, testVars

\* Only finitely many workers are inside a fetch.
LEMMA WatchersFinite ==
    ASSUME NEW u
    PROVE  IsFiniteSet(Watchers(u)) /\ Cardinality(Watchers(u)) \in Nat
<1>1. Watchers(u) \in SUBSET Worker
  BY DEF Watchers
<1> QED BY <1>1, TestAssumption, FS_Subset, FS_CardinalityType

\* recordTestStart and recordTestFinish keep testActive exact: a worker enters and leaves the
\* watchers of one URL at a time.
LEMMA ObservedWorker ==
    ASSUME Shape, Observed, NEW w \in Worker, WorkerStep(w)
    PROVE  Observed'
<1>1. CASE FetchStart(w)
  <2> DEFINE u == url[w]
             W(k) == {x \in Worker : pc'[x] = "fetch" /\ url'[x] = k}
  <2>1. /\ pc[w] = "wait" /\ pc' = [pc EXCEPT ![w] = "fetch"] /\ url' = url
        /\ testErr' = (testErr \/ active[u] > 0)
        /\ active' = [active EXCEPT ![u] = @ + 1]
        /\ overlap' = (overlap \/ \E x \in Worker \ {w} : pc[x] = "fetch" /\ url[x] = u)
    BY <1>1 DEF FetchStart, GoTo
  <2>2. u \in URL
    BY <2>1 DEF Shape, Busy
  <2>3. W(u) = Watchers(u) \cup {w} /\ w \notin Watchers(u)
    BY <2>1 DEF Shape, Watchers
  <2>4. \A k \in URL \ {u} : W(k) = Watchers(k)
    BY <2>1 DEF Shape, Watchers
  <2>5. Cardinality(W(u)) = Cardinality(Watchers(u)) + 1
    BY <2>3, WatchersFinite, FS_AddElement
  <2>6. active'[u] = active[u] + 1 /\ \A k \in URL \ {u} : active'[k] = active[k]
    BY <2>1, <2>2 DEF Shape
  <2>7. \A k \in URL : active'[k] = Cardinality(W(k))
    BY <2>4, <2>5, <2>6 DEF Observed
  <2>8. overlap' => testErr'
    <3>1. CASE overlap
      BY <2>1, <3>1 DEF Observed
    <3>2. ASSUME NEW x \in Worker, pc[x] = "fetch", url[x] = u
          PROVE  active[u] > 0
      <4>1. x \in Watchers(u)
        BY <3>2 DEF Watchers
      <4>2. Cardinality(Watchers(u)) # 0
        BY <4>1, WatchersFinite, FS_EmptySet
      <4> QED BY <2>2, <4>2, WatchersFinite DEF Observed
    <3> QED BY <2>1, <3>1, <3>2
  <2> QED BY <2>7, <2>8 DEF Observed, Watchers
<1>2. CASE FetchEnd(w)
  <2> DEFINE u == url[w]
             W(k) == {x \in Worker : pc'[x] = "fetch" /\ url'[x] = k}
  <2>1. /\ pc[w] = "fetch" /\ url' = url
        /\ pc'[w] # "fetch" /\ \A x \in Worker \ {w} : pc'[x] = pc[x]
        /\ active' = [active EXCEPT ![u] = @ - 1]
        /\ UNCHANGED <<testErr, overlap>>
    BY <1>2 DEF FetchEnd, GoTo, recordTestFinish, Shape
  <2>2. u \in URL
    BY <2>1 DEF Shape, Busy
  <2>3. W(u) = Watchers(u) \ {w} /\ w \in Watchers(u)
    BY <2>1 DEF Watchers
  <2>4. \A k \in URL \ {u} : W(k) = Watchers(k)
    BY <2>1 DEF Watchers
  <2>5. Cardinality(W(u)) = Cardinality(Watchers(u)) - 1
    BY <2>3, WatchersFinite, FS_RemoveElement
  <2>6. active'[u] = active[u] - 1 /\ \A k \in URL \ {u} : active'[k] = active[k]
    BY <2>1, <2>2 DEF Shape
  <2>7. \A k \in URL : active'[k] = Cardinality(W(k))
    BY <2>4, <2>5, <2>6 DEF Observed
  <2> QED BY <2>1, <2>7 DEF Observed, Watchers
<1> USE DEF GoTo, testVars
<1>3. CASE Begin(w) \/ Stop(w)
  BY <1>3, SameWatchers DEF Begin, Stop, Shape
<1>4. CASE Lease(w)
  <2>1. \A x \in Worker : /\ pc'[x] = "fetch" <=> pc[x] = "fetch"
                          /\ pc[x] = "fetch" => url'[x] = url[x]
    BY <1>4 DEF Lease, Shape
  <2> QED BY <1>4, <2>1, SameWatchers DEF Lease
<1>5. CASE WaitFails(w) \/ Resolve(w)
  <2>1. \A x \in Worker : /\ pc'[x] = "fetch" <=> pc[x] = "fetch"
                          /\ pc[x] = "fetch" => url'[x] = url[x]
    BY <1>5 DEF WaitFails, Resolve, Shape
  <2> QED BY <1>5, <2>1, SameWatchers DEF WaitFails, Resolve
<1>6. CASE Upsert(w) \/ UpsertFails(w) \/ Children(w) \/ ChildrenFail(w)
  <2>1. \A x \in Worker : /\ pc'[x] = "fetch" <=> pc[x] = "fetch"
                          /\ pc[x] = "fetch" => url'[x] = url[x]
    BY <1>6 DEF Upsert, UpsertFails, Children, ChildrenFail, Shape
  <2> QED BY <1>6, <2>1, SameWatchers DEF Upsert, UpsertFails, Children, ChildrenFail
<1> QED BY <1>1, <1>2, <1>3, <1>4, <1>5, <1>6 DEF WorkerStep

\* The others leave the observations alone.
LEMMA OthersKeep ==
    ASSUME \/ Promote \/ Reap \/ MonitorStops \/ Signal \/ TimePasses \/ Main
           \/ UNCHANGED bvars
    PROVE  UNCHANGED <<pc, url, out, limited, done, retired, testVars, storeVars>>
BY DEF Promote, Reap, MonitorStops, Signal, TimePasses, Main, Seed, Poll, IdleRead, IdleFails,
       Join, Verify, Checkpoint, SaveTest, bvars, workerVars

-----------------------------------------------------------------------------
(* The record of the videos.                                               *)

\* A video is in Mongo before the counter and its worker claim it.
LEMMA LedgerWorker ==
    ASSUME Shape, Ledger, NEW w \in Worker, WorkerStep(w)
    PROVE  Ledger'
<1> USE DEF GoTo, storeVars
<1>1. CASE Begin(w) \/ Stop(w) \/ Lease(w)
  <2>1. /\ UNCHANGED <<out, limited, done, retired, count, corpus, recorded, doubled>>
        /\ \A x \in Worker : /\ pc'[x] \in {"children", "resolve"} <=> pc[x] \in {"children", "resolve"}
                             /\ pc'[x] = "resolve" <=> pc[x] = "resolve"
                             /\ pc[x] \in {"children", "resolve"} => url'[x] = url[x]
    BY <1>1 DEF Begin, Stop, Lease, Shape
  <2> QED BY <2>1 DEF Ledger
<1>2. CASE WaitFails(w) \/ FetchStart(w)
  <2>1. /\ UNCHANGED <<out, limited, done, retired, count, corpus, recorded, doubled>>
        /\ \A x \in Worker : /\ pc'[x] \in {"children", "resolve"} <=> pc[x] \in {"children", "resolve"}
                             /\ pc'[x] = "resolve" <=> pc[x] = "resolve"
                             /\ pc[x] \in {"children", "resolve"} => url'[x] = url[x]
    BY <1>2 DEF WaitFails, FetchStart, Shape
  <2> QED BY <2>1 DEF Ledger
<1>3. CASE FetchEnd(w)
  <2>1. PICK o \in Outcome(url[w]) \cup IF cancelled THEN {"cancelled"} ELSE {} :
          /\ out' = [out EXCEPT ![w] = o]
          /\ limited' = [limited EXCEPT ![w] =
                            CASE o = "rateLimited" -> @ + 1
                              [] o = "cancelled" -> @
                              [] OTHER -> 0]
          /\ pc' = [pc EXCEPT ![w] = CASE o = "video" -> "upsert" [] o = "listing" -> "children"
                       [] OTHER -> "resolve"]
    BY <1>3 DEF FetchEnd
  <2>2. /\ \A x \in Worker \ {w} : pc'[x] = pc[x] /\ out'[x] = out[x] /\ limited'[x] = limited[x]
        /\ out'[w] = o /\ pc[w] = "fetch"
        /\ UNCHANGED <<url, done, retired, count, corpus, recorded, doubled>>
    BY <1>3, <2>1 DEF FetchEnd, Shape, Busy
  <2>3. pc'[w] \in {"children", "resolve"} => out'[w] # "video"
    BY <2>1, <2>2 DEF Shape
  <2>4. pc'[w] # "resolve" => limited'[w] = 0
    <3>1. pc'[w] # "resolve" => o = "video" \/ o = "listing"
      BY <2>1 DEF Shape
    <3>2. o = "video" \/ o = "listing" => limited'[w] = 0
      BY <2>1 DEF Shape
    <3> QED BY <3>1, <3>2
  <2>5. RateLimitStop > 0
    BY TestAssumption
  <2> QED BY <2>2, <2>3, <2>4, <2>5, TestAssumption DEF Ledger
<1>4. CASE Upsert(w)
  <2> DEFINE v == url[w]
  <2>1. /\ pc[w] = "upsert" /\ pc' = [pc EXCEPT ![w] = "children"]
        /\ corpus' = corpus \cup {v} /\ recorded' = recorded \cup {v}
        /\ count' = count + 1
        /\ doubled' = IF v \in recorded THEN doubled \cup {v} ELSE doubled
        /\ UNCHANGED <<url, out, limited, done, retired>>
    BY <1>4 DEF Upsert
  <2>2. IsFiniteSet(corpus')
    BY <2>1, FS_AddElement DEF Ledger
  <2>3. doubled' = {} => v \notin recorded /\ doubled = {}
    BY <2>1
  <2>4. IsFiniteSet(recorded)
    BY FS_Subset DEF Ledger
  <2>5. doubled' = {} => count' = Cardinality(recorded')
    BY <2>1, <2>3, <2>4, FS_AddElement DEF Ledger
  <2>6. \A x \in Worker : pc'[x] \in {"children", "resolve"} /\ out'[x] = "video" => url'[x] \in recorded'
    BY <2>1 DEF Ledger, Shape
  <2>7. \A x \in Worker : pc[x] = "resolve" => pc'[x] = "resolve"
    BY <2>1 DEF Shape
  <2>8. recorded' \subseteq corpus' /\ \A x \in Worker : done'[x] \subseteq recorded'
    BY <2>1 DEF Ledger
  <2>9. \A x \in Worker : limited'[x] >= RateLimitStop => x \in retired' \/ pc'[x] = "resolve"
    BY <2>1, <2>7 DEF Ledger
  <2> QED BY <2>2, <2>5, <2>6, <2>8, <2>9 DEF Ledger
<1>5. CASE UpsertFails(w)
  <2>1. /\ pc[w] = "upsert" /\ pc' = [pc EXCEPT ![w] = "resolve"]
        /\ out' = [out EXCEPT ![w] = "nack"]
        /\ corpus' \in {corpus, corpus \cup {url[w]}}
        /\ UNCHANGED <<url, limited, done, retired, count, recorded, doubled>>
    BY <1>5 DEF UpsertFails
  <2>2. IsFiniteSet(corpus') /\ corpus \subseteq corpus'
    BY <2>1, FS_AddElement DEF Ledger
  <2> QED BY <2>1, <2>2 DEF Ledger, Shape
<1>6. CASE Children(w) \/ ChildrenFail(w)
  <2>1. /\ pc[w] = "children" /\ pc' = [pc EXCEPT ![w] = "resolve"]
        /\ out'[w] \in {out[w], "nack", "fatal"}
        /\ \A x \in Worker \ {w} : out'[x] = out[x]
        /\ UNCHANGED <<url, limited, done, retired, count, corpus, recorded, doubled>>
    BY <1>6 DEF Children, ChildrenFail, Shape
  <2> QED BY <2>1 DEF Ledger, Shape
<1>7. CASE Resolve(w)
  <2>1. /\ pc[w] = "resolve" /\ pc' = [pc EXCEPT ![w] = IF Retires(w) THEN "stopped" ELSE "loop"]
        /\ done' = IF out[w] = "video" THEN [done EXCEPT ![w] = @ \cup {url[w]}] ELSE done
        /\ retired' = IF Retires(w) THEN retired \cup {w} ELSE retired
        /\ url' = [url EXCEPT ![w] = None] /\ out' = [out EXCEPT ![w] = "none"]
        /\ UNCHANGED <<limited, count, corpus, recorded, doubled>>
    BY <1>7 DEF Resolve
  <2>2. \A x \in Worker : done'[x] \subseteq recorded
    BY <2>1 DEF Ledger, Shape
  <2>3. limited[w] >= RateLimitStop => w \in retired'
    BY <2>1 DEF Retires
  <2>4. \A x \in Worker : limited[x] >= RateLimitStop => x \in retired' \/ pc'[x] = "resolve"
    BY <2>1, <2>3 DEF Ledger, Shape
  <2>5. \A x \in Worker : pc'[x] \in {"children", "resolve"} /\ out'[x] = "video" => url'[x] \in recorded
    BY <2>1 DEF Ledger, Shape
  <2> QED BY <2>1, <2>2, <2>4, <2>5 DEF Ledger
<1> QED BY <1>1, <1>2, <1>3, <1>4, <1>5, <1>6, <1>7 DEF WorkerStep

-----------------------------------------------------------------------------
(* What RunTest and main know.                                             *)

\* No worker moves once RunTest has joined them, so no verdict is overtaken.
LEMMA VerdictWorker ==
    ASSUME Shape, Verdict, NEW w \in Worker, WorkerStep(w)
    PROVE  Verdict'
<1>1. pc[w] # "stopped" /\ UNCHANGED mainVars
  BY DEF WorkerStep, Begin, Stop, Lease, WaitFails, FetchStart, FetchEnd, Upsert, UpsertFails,
         Children, ChildrenFail, Resolve
<1>2. ~AllStopped
  BY <1>1 DEF AllStopped
<1> QED BY <1>1, <1>2 DEF Verdict, Joined, mainVars

\* RunTest and main go on only after the check that belongs to the step.
LEMMA VerdictMain ==
    ASSUME Verdict, \/ Promote \/ Reap \/ MonitorStops \/ Signal \/ TimePasses \/ Main
                    \/ UNCHANGED bvars
    PROVE  Verdict'
<1>1. UNCHANGED <<pc, done, retired, active, testErr, count, corpus>>
  BY OthersKeep DEF testVars, storeVars
<1>2. (AllStopped <=> AllStopped') /\ (WorkersValid <=> WorkersValid') /\ (CountsAgree <=> CountsAgree')
  BY <1>1 DEF AllStopped, WorkersValid, CountsAgree
<1> USE DEF Verdict, Joined, mainVars
<1>3. CASE Promote \/ Reap \/ MonitorStops \/ Signal \/ TimePasses \/ UNCHANGED bvars
  BY <1>2, <1>3 DEF Promote, Reap, MonitorStops, Signal, TimePasses, bvars
<1>4. CASE Seed
  BY <1>4 DEF Seed
<1>5. CASE Poll \/ IdleRead \/ IdleFails
  BY <1>5 DEF Poll, IdleRead, IdleFails, Break
<1>6. CASE Join
  <2>1. AllStopped' /\ mpc = "join" /\ UNCHANGED code
    BY <1>2, <1>6 DEF Join
  <2>2. CASE why = "none" /\ WorkersValid /\ mpc' = "verify" /\ UNCHANGED why
    BY <1>2, <2>1, <2>2
  <2>3. CASE mpc' = "checkpoint" /\ why' = IF why = "none" THEN "workers" ELSE why
    BY <1>2, <2>1, <2>3
  <2> QED BY <1>6, <2>2, <2>3 DEF Join
<1>7. CASE Verify
  <2>1. /\ mpc = "verify" /\ mpc' = "checkpoint" /\ UNCHANGED code
        /\ why' = "none" => CountsAgree
        /\ why' # "seed"
    BY <1>7 DEF Verify
  <2> QED BY <1>2, <2>1
<1>8. CASE Checkpoint
  <2>1. /\ mpc = "checkpoint" /\ UNCHANGED why
        /\ \/ mpc' = "exit" /\ code' = 1
           \/ mpc' = "save" /\ why = "none" /\ UNCHANGED code
    BY <1>8 DEF Checkpoint
  <2> QED BY <1>2, <2>1
<1>9. CASE SaveTest
  BY <1>2, <1>9 DEF SaveTest
<1> QED BY <1>3, <1>4, <1>5, <1>6, <1>7, <1>8, <1>9 DEF Main

-----------------------------------------------------------------------------
(* Without faults.                                                         *)

\* Faults are never forgotten.
LEMMA FaultsGrow ==
    ASSUME Shape, BNext \/ UNCHANGED bvars
    PROVE  faults <= faults'
BY DEF Shape, BNext, WorkerStep, Begin, Stop, Lease, WaitFails, FetchStart, FetchEnd, Upsert,
       UpsertFails, Children, ChildrenFail, Resolve, Promote, Reap, MonitorStops, Signal,
       TimePasses, Main, Seed, Poll, IdleRead, IdleFails, Join, Verify, Checkpoint, SaveTest,
       CallFails, Fault, bvars

\* Links are admitted: a URL that has a job or had one is left alone.
LEMMA AdmittedKeeps ==
    ASSUME Shape, NEW S, NEW u \in URL, place[u] # "new"
    PROVE  Admitted(S)[u] = place[u]
BY DEF Shape, Admitted

\* Without faults a worker keeps its lease, shares no job and records a video once.
LEMMA CleanWorker ==
    ASSUME Shape, FaultFree, NEW w \in Worker, WorkerStep(w), faults = 0, faults' = 0
    PROVE  FaultFree'
<1>0. KeepsLease /\ SoleHolder /\ Unrecorded /\ Settled /\ doubled = {} /\ ~overlap
  BY DEF FaultFree
<1> SUFFICES KeepsLease' /\ SoleHolder' /\ Unrecorded' /\ Settled' /\ doubled' = {} /\ ~overlap'
  BY DEF FaultFree
<1> USE DEF GoTo, testVars, storeVars, ctxVars
<1>a. ~Fault
  BY DEF Fault, Shape
<1>b. \A v \in Video : v \in URL
  BY DEF URL
\* Steps of a worker without a job.
<1>1. CASE Begin(w) \/ Stop(w)
  <2>1. /\ UNCHANGED <<place, url, leased, out, recorded, doubled, overlap, cancelled>>
        /\ pc[w] \notin Busy /\ pc'[w] \notin Busy /\ \A x \in Worker \ {w} : pc'[x] = pc[x]
    BY <1>1 DEF Begin, Stop, Shape, Busy
  <2> QED BY <1>0, <2>1 DEF KeepsLease, SoleHolder, Unrecorded, Settled, Busy
<1>2. CASE Lease(w)
  <2>1. PICK u \in URL :
           /\ place[u] = "ready"
           /\ place' = [place EXCEPT ![u] = "processing"]
           /\ pc' = [pc EXCEPT ![w] = "wait"]
           /\ url' = [url EXCEPT ![w] = u]
           /\ leased' = [leased EXCEPT ![w] = TRUE]
    BY <1>2, <1>a DEF Lease
  <2>2. /\ pc[w] = "loop" /\ ~cancelled
        /\ UNCHANGED <<out, recorded, doubled, overlap, cancelled>>
    BY <1>2 DEF Lease
  <2>3. \A x \in Worker : pc[x] \in Busy => url[x] # u
    BY <1>0, <2>1 DEF KeepsLease
  <2>4. u \notin recorded
    BY <1>0, <2>1, <2>2, <2>3 DEF Settled, Busy
  <2>5. /\ pc'[w] = "wait" /\ url'[w] = u /\ leased'[w] /\ place'[u] = "processing"
        /\ \A x \in Worker \ {w} : pc'[x] = pc[x] /\ url'[x] = url[x] /\ leased'[x] = leased[x]
        /\ \A k \in URL \ {u} : place'[k] = place[k]
    BY <2>1 DEF Shape
  <2>6. KeepsLease'
    BY <1>0, <2>3, <2>5 DEF KeepsLease, Shape
  <2>7. SoleHolder'
    BY <1>0, <2>3, <2>5 DEF SoleHolder
  <2>8. Unrecorded'
    BY <1>0, <2>2, <2>4, <2>5 DEF Unrecorded
  <2>9. Settled'
    <3> SUFFICES ASSUME NEW v \in recorded, ~cancelled
                 PROVE  \/ place'[v] = "gone"
                        \/ \E x \in Worker : /\ url'[x] = v /\ out[x] = "video"
                                             /\ pc'[x] \in {"children", "resolve"}
      BY <2>2 DEF Settled
    <3>1. v \in URL /\ v # u
      BY <1>b, <2>4 DEF Shape
    <3>2. CASE place[v] = "gone"
      BY <2>5, <3>1, <3>2
    <3>3. ASSUME NEW x \in Worker, url[x] = v, out[x] = "video", pc[x] \in {"children", "resolve"}
          PROVE  url'[x] = v /\ pc'[x] = pc[x]
      BY <2>2, <2>5, <3>3
    <3> QED BY <1>0, <3>2, <3>3 DEF Settled
  <2> QED BY <1>0, <2>2, <2>6, <2>7, <2>8, <2>9
\* Steps of a worker with its job.
<1>3. CASE WaitFails(w)
  <2>1. /\ pc[w] = "wait" /\ pc' = [pc EXCEPT ![w] = "stopped"] /\ url' = [url EXCEPT ![w] = None]
        /\ leased' = [leased EXCEPT ![w] = FALSE] /\ Settle(w, "ready")
        /\ UNCHANGED <<out, recorded, doubled, overlap, cancelled>>
    BY <1>3 DEF WaitFails
  <2>2. /\ pc[w] \in Busy /\ pc'[w] \notin Busy
        /\ \A x \in Worker \ {w} : pc'[x] = pc[x] /\ url'[x] = url[x] /\ leased'[x] = leased[x]
    BY <2>1 DEF Shape, Busy
  <2>3. \A k \in URL \ {url[w]} : place'[k] = place[k]
    BY <2>1 DEF Shape, Settle
  <2>4. ~cancelled => url[w] \notin recorded
    BY <1>0, <2>1 DEF Unrecorded
  <2>5. KeepsLease' /\ SoleHolder' /\ Unrecorded'
    BY <1>0, <2>1, <2>2, <2>3 DEF KeepsLease, SoleHolder, Unrecorded, Shape, Busy
  <2>6. Settled'
    BY <1>0, <1>b, <2>1, <2>2, <2>3, <2>4 DEF Settled, Shape
  <2> QED BY <1>0, <2>1, <2>5, <2>6
<1>4. CASE FetchStart(w)
  <2>1. /\ pc[w] = "wait" /\ pc' = [pc EXCEPT ![w] = "fetch"] /\ ~cancelled
        /\ overlap' = (overlap \/ \E x \in Worker \ {w} : pc[x] = "fetch" /\ url[x] = url[w])
        /\ UNCHANGED <<place, url, leased, out, recorded, doubled, cancelled>>
    BY <1>4 DEF FetchStart
  <2>2. ~overlap'
    BY <1>0, <2>1 DEF SoleHolder, Busy
  <2>3. /\ pc'[w] = "fetch" /\ \A x \in Worker \ {w} : pc'[x] = pc[x]
    BY <2>1 DEF Shape
  <2>4. KeepsLease' /\ SoleHolder' /\ Unrecorded'
    BY <1>0, <2>1, <2>3 DEF KeepsLease, SoleHolder, Unrecorded, Busy
  <2>5. Settled'
    BY <1>0, <2>1, <2>3 DEF Settled
  <2> QED BY <1>0, <2>1, <2>2, <2>4, <2>5
<1>5. CASE FetchEnd(w)
  <2>1. /\ pc[w] = "fetch" /\ pc'[w] \in {"upsert", "children", "resolve"}
        /\ \A x \in Worker \ {w} : pc'[x] = pc[x] /\ out'[x] = out[x]
        /\ UNCHANGED <<place, url, leased, recorded, doubled, overlap, cancelled>>
    BY <1>5 DEF FetchEnd, Shape
  <2>2. KeepsLease' /\ SoleHolder' /\ Unrecorded'
    BY <1>0, <2>1 DEF KeepsLease, SoleHolder, Unrecorded, Busy
  <2>3. Settled'
    BY <1>0, <2>1 DEF Settled
  <2> QED BY <1>0, <2>1, <2>2, <2>3
<1>6. CASE Upsert(w)
  <2>1. /\ pc[w] = "upsert" /\ pc' = [pc EXCEPT ![w] = "children"]
        /\ recorded' = recorded \cup {url[w]}
        /\ doubled' = IF url[w] \in recorded THEN doubled \cup {url[w]} ELSE doubled
        /\ UNCHANGED <<place, url, leased, out, overlap, cancelled>>
    BY <1>6 DEF Upsert
  <2>2. /\ pc'[w] = "children" /\ \A x \in Worker \ {w} : pc'[x] = pc[x]
    BY <2>1 DEF Shape
  <2>3. url[w] \notin recorded
    BY <1>0, <2>1 DEF Unrecorded
  <2>4. KeepsLease' /\ SoleHolder'
    BY <1>0, <2>1, <2>2 DEF KeepsLease, SoleHolder, Busy
  <2>5. Unrecorded'
    BY <1>0, <2>1, <2>2 DEF Unrecorded, SoleHolder, Busy
  <2>6. out[w] = "video"
    BY <2>1 DEF Shape
  <2>7. Settled'
    BY <1>0, <2>1, <2>2, <2>6 DEF Settled
  <2> QED BY <1>0, <2>1, <2>3, <2>4, <2>5, <2>7
<1>7. CASE UpsertFails(w)
  <2>1. /\ pc[w] = "upsert" /\ pc' = [pc EXCEPT ![w] = "resolve"] /\ cancelled
        /\ UNCHANGED <<place, url, leased, recorded, doubled, overlap, cancelled>>
    BY <1>7, <1>a DEF UpsertFails, CallFails
  <2>2. /\ pc'[w] = "resolve" /\ \A x \in Worker \ {w} : pc'[x] = pc[x]
    BY <2>1 DEF Shape
  <2> QED BY <1>0, <2>1, <2>2 DEF KeepsLease, SoleHolder, Unrecorded, Settled, Busy
<1>8. CASE Children(w) \/ ChildrenFail(w)
  <2>1. /\ pc[w] = "children" /\ pc' = [pc EXCEPT ![w] = "resolve"]
        /\ cancelled \/ UNCHANGED out
        /\ \E S : place' = Admitted(S)
        /\ UNCHANGED <<url, leased, recorded, doubled, overlap, cancelled>>
    BY <1>8, <1>a DEF Children, ChildrenFail, CallFails
  <2>2. /\ pc'[w] = "resolve" /\ \A x \in Worker \ {w} : pc'[x] = pc[x]
    BY <2>1 DEF Shape
  <2>3. \A u \in URL : place[u] # "new" => place'[u] = place[u]
    BY <2>1, AdmittedKeeps
  <2>4. KeepsLease'
    BY <1>0, <2>1, <2>2, <2>3 DEF KeepsLease, Shape, Busy
  <2>5. SoleHolder' /\ Unrecorded'
    BY <1>0, <2>1, <2>2 DEF SoleHolder, Unrecorded, Busy
  <2>6. Settled'
    BY <1>0, <1>b, <2>1, <2>2, <2>3 DEF Settled, Shape
  <2> QED BY <1>0, <2>1, <2>4, <2>5, <2>6
<1>9. CASE Resolve(w)
  <2>1. /\ pc[w] = "resolve" /\ pc'[w] \in {"stopped", "loop"}
        /\ \A x \in Worker \ {w} : /\ pc'[x] = pc[x] /\ url'[x] = url[x]
                                    /\ leased'[x] = leased[x] /\ out'[x] = out[x]
        /\ cancelled' = (cancelled \/ out[w] = "fatal")
        /\ UNCHANGED <<recorded, doubled, overlap>>
    BY <1>9 DEF Resolve, Shape
  <2>2. PICK p \in Places(out[w]) : Settle(w, p)
    BY <1>9, <1>a DEF Resolve
  <2>3. leased[w] /\ url[w] \in URL
    BY <1>0, <2>1 DEF KeepsLease, Shape, Busy
  <2>4. place' = [place EXCEPT ![url[w]] = p]
    BY <2>2, <2>3 DEF Settle
  <2>5. place'[url[w]] = p /\ \A k \in URL \ {url[w]} : place'[k] = place[k]
    BY <2>3, <2>4 DEF Shape
  <2>6. KeepsLease' /\ SoleHolder'
    BY <1>0, <2>1, <2>5 DEF KeepsLease, SoleHolder, Shape, Busy
  <2>7. Unrecorded'
    BY <1>0, <2>1 DEF Unrecorded
  <2>8. out[w] = "video" => p = "gone"
    BY <2>2 DEF Places
  <2>9. Settled'
    <3> SUFFICES ASSUME NEW v \in recorded, ~cancelled
                 PROVE  \/ place'[v] = "gone"
                        \/ \E x \in Worker : /\ url'[x] = v /\ out'[x] = "video"
                                             /\ pc'[x] \in {"children", "resolve"}
      BY <2>1 DEF Settled
    <3>1. v \in URL
      BY <1>b DEF Shape
    <3>2. CASE place[v] = "gone"
      <4>1. v # url[w]
        BY <1>0, <2>1, <3>2 DEF KeepsLease, Busy
      <4> QED BY <2>5, <3>1, <3>2, <4>1
    <3>3. ASSUME NEW x \in Worker, url[x] = v, out[x] = "video", pc[x] \in {"children", "resolve"},
                 x # w
          PROVE  url'[x] = v /\ out'[x] = "video" /\ pc'[x] = pc[x]
      BY <2>1, <3>3
    <3>4. CASE url[w] = v /\ out[w] = "video"
      BY <2>5, <2>8, <3>4
    <3> QED BY <1>0, <3>2, <3>3, <3>4 DEF Settled
  <2> QED BY <1>0, <2>1, <2>6, <2>7, <2>9
<1> QED BY <1>1, <1>2, <1>3, <1>4, <1>5, <1>6, <1>7, <1>8, <1>9 DEF WorkerStep

\* What happens around the workers takes nothing from that.
LEMMA CleanMain ==
    ASSUME Shape, FaultFree, faults = 0, faults' = 0,
           \/ Promote \/ Reap \/ MonitorStops \/ Signal \/ TimePasses \/ Main
           \/ UNCHANGED bvars
    PROVE  FaultFree'
<1>0. KeepsLease /\ SoleHolder /\ Unrecorded /\ Settled /\ doubled = {} /\ ~overlap
  BY DEF FaultFree
<1>1. UNCHANGED <<pc, url, out, recorded, doubled, overlap>>
  BY OthersKeep DEF testVars, storeVars
<1>2. SoleHolder' /\ doubled' = {} /\ ~overlap'
  BY <1>0, <1>1 DEF SoleHolder
<1>3. cancelled => cancelled'
  BY DEF Promote, Reap, MonitorStops, Signal, TimePasses, Main, Seed, Poll, IdleRead, IdleFails,
         Break, Join, Verify, Checkpoint, SaveTest, bvars, ctxVars
<1>4. Unrecorded'
  BY <1>0, <1>1, <1>3 DEF Unrecorded
<1>a. ~Fault
  BY DEF Fault, Shape
<1>b. \A v \in Video : v \in URL
  BY DEF URL
<1> SUFFICES KeepsLease' /\ Settled'
  BY <1>2, <1>4 DEF FaultFree
<1>5. CASE UNCHANGED <<place, leased>>
  <2>1. KeepsLease'
    BY <1>0, <1>1, <1>5 DEF KeepsLease
  <2>2. Settled'
    BY <1>0, <1>1, <1>3, <1>5 DEF Settled
  <2> QED BY <2>1, <2>2
\* A job that a worker holds, or that is done, is not moved.
<1>6. ASSUME UNCHANGED leased,
             \A k \in URL : place[k] \in {"processing", "gone"} => place'[k] = place[k]
      PROVE  KeepsLease' /\ Settled'
  <2>1. KeepsLease'
    BY <1>0, <1>1, <1>6 DEF KeepsLease, Shape
  <2>2. Settled'
    BY <1>0, <1>1, <1>3, <1>6, <1>b DEF Settled, Shape
  <2> QED BY <2>1, <2>2
<1>7. CASE Promote
  <2>1. UNCHANGED leased /\ \A k \in URL : place[k] \in {"processing", "gone"} => place'[k] = place[k]
    BY <1>7 DEF Promote, workerVars, Shape
  <2> QED BY <1>6, <2>1
<1>8. CASE Reap
  <2>1. PICK u \in URL :
           LET holders == {w \in Worker : leased[w] /\ url[w] = u}
           IN  /\ place[u] = "processing"
               /\ place' = [place EXCEPT ![u] = "ready"]
               /\ leased' = [w \in Worker |-> leased[w] /\ w \notin holders]
               /\ holders = {}
    BY <1>8, <1>a DEF Reap
  <2>2. \A w \in Worker : leased'[w] <=> leased[w]
    BY <2>1
  <2>3. \A w \in Worker : pc[w] \in Busy => url[w] # u
    BY <1>0, <2>1 DEF KeepsLease
  <2>4. place[u] # "gone" /\ \A k \in URL \ {u} : place'[k] = place[k]
    BY <2>1 DEF Shape
  <2>5. KeepsLease'
    BY <1>0, <1>1, <2>2, <2>3, <2>4 DEF KeepsLease, Shape
  <2>6. Settled'
    BY <1>0, <1>1, <1>3, <1>b, <2>4 DEF Settled, Shape
  <2> QED BY <2>5, <2>6
<1>9. CASE Seed
  <2>1. UNCHANGED leased /\ (UNCHANGED place \/ place' = Admitted({TestUrl}))
    BY <1>9 DEF Seed, workerVars
  <2>2. \A k \in URL : place[k] \in {"processing", "gone"} => place'[k] = place[k]
    BY <2>1, AdmittedKeeps
  <2> QED BY <1>6, <2>1, <2>2
<1>10. CASE \/ MonitorStops \/ Signal \/ TimePasses \/ UNCHANGED bvars
            \/ Poll \/ IdleRead \/ IdleFails \/ Join \/ Verify \/ Checkpoint \/ SaveTest
  BY <1>5, <1>10 DEF MonitorStops, Signal, TimePasses, Poll, IdleRead, IdleFails, Join, Verify,
                     Checkpoint, SaveTest, bvars, workerVars
<1> QED BY <1>7, <1>8, <1>9, <1>10 DEF Main

-----------------------------------------------------------------------------
(* The theorems.                                                           *)

\* The test starts on an empty Redis, perhaps on documents of an earlier test.
LEMMA TestStarts ==
    BInit => BInv
<1> SUFFICES ASSUME BInit PROVE BInv
  OBVIOUS
<1>1. Shape
  <2>1. /\ place \in [URL -> PlaceOf] /\ active \in [URL -> Int]
        /\ url \in [Worker -> URL \cup {None}] /\ leased \in [Worker -> BOOLEAN]
        /\ limited \in [Worker -> Nat] /\ retired \subseteq Worker
    BY DEF BInit, PlaceOf
  <2>2. done \in [Worker -> SUBSET Video] /\ recorded \subseteq Video
    BY DEF BInit
  <2>3. /\ pc \in [Worker -> {"offset"}] /\ out \in [Worker -> {"none"}]
        /\ \A w \in Worker : pc[w] \notin Busy /\ out[w] # "video"
    BY DEF BInit, Busy
  <2>4. /\ testErr \in BOOLEAN /\ overlap \in BOOLEAN /\ cancelled \in BOOLEAN
        /\ count \in Nat /\ faults \in Nat
    BY DEF BInit
  <2> QED BY <2>1, <2>2, <2>3, <2>4 DEF Shape, Busy
<1>2. Observed
  <2>1. \A u \in URL : Watchers(u) = {}
    BY DEF BInit, Watchers
  <2> QED BY <2>1, FS_EmptySet DEF BInit, Observed
<1>3. Ledger
  <2>1. IsFiniteSet(corpus)
    BY TestAssumption, FS_EmptySet DEF BInit
  <2> QED BY <2>1, TestAssumption, FS_EmptySet DEF BInit, Ledger
<1>4. Verdict
  BY DEF BInit, Verdict, Joined
<1>5. FaultFree
  BY DEF BInit, FaultFree, KeepsLease, SoleHolder, Unrecorded, Settled, Busy
<1> QED BY <1>1, <1>2, <1>3, <1>4, <1>5 DEF BInv

\* Every step of the test keeps the invariant.
LEMMA TestStep ==
    ASSUME BInv, [BNext]_bvars
    PROVE  BInv'
<1>0. Shape /\ Observed /\ Ledger /\ Verdict /\ FaultFree
  BY DEF BInv
<1>1. faults' = 0 => faults = 0
  <2>1. faults <= faults' /\ faults \in Nat
    BY <1>0, FaultsGrow DEF Shape
  <2> QED BY <2>1
<1>2. ASSUME NEW w \in Worker, WorkerStep(w) PROVE BInv'
  <2>1. Shape' /\ Observed' /\ Ledger' /\ Verdict'
    BY <1>0, <1>2, ShapeWorker, ObservedWorker, LedgerWorker, VerdictWorker
  <2>2. FaultFree'
    <3>1. CASE faults' = 0
      BY <1>0, <1>1, <1>2, <3>1, CleanWorker
    <3>2. CASE faults' # 0
      BY <3>2 DEF FaultFree
    <3> QED BY <3>1, <3>2
  <2> QED BY <2>1, <2>2 DEF BInv
<1>3. ASSUME \/ Promote \/ Reap \/ MonitorStops \/ Signal \/ TimePasses \/ Main
             \/ UNCHANGED bvars
      PROVE  BInv'
  <2>1. Shape' /\ Verdict'
    BY <1>0, <1>3, ShapeMain, VerdictMain
  <2>2. UNCHANGED <<pc, url, out, limited, done, retired, testVars, storeVars>>
    BY <1>3, OthersKeep
  <2>3. Observed'
    BY <1>0, <2>2, SameWatchers
  <2>4. Ledger'
    BY <1>0, <2>2 DEF Ledger, storeVars
  <2>5. FaultFree'
    <3>1. CASE faults' = 0
      BY <1>0, <1>1, <1>3, <3>1, CleanMain
    <3>2. CASE faults' # 0
      BY <3>2 DEF FaultFree
    <3> QED BY <3>1, <3>2
  <2> QED BY <2>1, <2>3, <2>4, <2>5 DEF BInv
<1> QED BY <1>2, <1>3 DEF BNext

\* RunTest (crawler.go) keeps its observations, its counter and its verdict in
\* step with the workers, whatever fails.
THEOREM TestInductive == BSpec => []BInv
<1>1. BInit => BInv
  BY TestStarts
<1>2. BInv /\ [BNext]_bvars => BInv'
  BY TestStep
<1> QED BY <1>1, <1>2, PTL DEF BSpec

\* Exit status 0 means the target, coverage of every worker, no retired worker, no
\* overlap and a corpus of exactly the recorded videos (README.md:69).
THEOREM PassMeansPass == BSpec => []PassIsSound
<1>1. BInv => PassIsSound
  <2> SUFFICES ASSUME BInv, code = 0
               PROVE  /\ Cardinality(corpus) >= Target
                      /\ \A w \in Worker : done[w] # {} /\ done[w] \subseteq corpus
                      /\ \A w \in Worker : w \notin retired /\ limited[w] < RateLimitStop
                      /\ ~overlap
                      /\ doubled = {} => corpus = recorded
    BY DEF PassIsSound
  <2>1. AllStopped /\ WorkersValid /\ CountsAgree
    BY DEF BInv, Verdict, Joined
  <2>2. Cardinality(corpus) >= Target /\ Cardinality(corpus) = count
    BY <2>1 DEF CountsAgree
  <2>3. \A w \in Worker : done[w] # {} /\ done[w] \subseteq corpus
    BY <2>1 DEF WorkersValid, BInv, Ledger
  <2>4. ASSUME NEW w \in Worker PROVE w \notin retired /\ limited[w] < RateLimitStop
    <3>1. w \notin retired /\ pc[w] # "resolve"
      BY <2>1 DEF WorkersValid, AllStopped
    <3>2. ~(limited[w] >= RateLimitStop) /\ limited[w] \in Nat /\ RateLimitStop \in Nat
      BY <3>1, TestAssumption DEF BInv, Ledger, Shape
    <3> QED BY <3>1, <3>2
  <2>5. ~overlap
    BY <2>1 DEF WorkersValid, BInv, Observed
  <2>6. doubled = {} => corpus = recorded
    <3>1. recorded \subseteq corpus /\ IsFiniteSet(corpus)
      BY DEF BInv, Ledger
    <3>2. doubled = {} => Cardinality(recorded) = Cardinality(corpus)
      BY <2>2 DEF BInv, Ledger
    <3> QED BY <3>1, <3>2, FS_Subset
  <2> QED BY <2>2, <2>3, <2>4, <2>5, <2>6
<1> QED BY <1>1, TestInductive, PTL

\* Without a failed call or a lost lease no video is recorded twice and no URL is
\* fetched by two workers at once.
THEOREM DoublesNeedFaults == BSpec => []DoubledOnlyByFault
<1>1. BInv => DoubledOnlyByFault
  BY DEF BInv, FaultFree, DoubledOnlyByFault
<1> QED BY <1>1, TestInductive, PTL

\* Workers and reconcilers are joined before RunTest returns (crawler.go:174), and
\* no observation is left open.
THEOREM NothingRunsAfterJoin == BSpec => []RestAfterJoin
<1>1. BInv => RestAfterJoin
  <2> SUFFICES ASSUME BInv, Joined, why # "seed"
               PROVE  AllStopped /\ \A u \in URL : active[u] = 0
    BY DEF RestAfterJoin
  <2>1. AllStopped
    BY DEF BInv, Verdict
  <2>2. \A u \in URL : Watchers(u) = {}
    BY <2>1 DEF Watchers, AllStopped
  <2> QED BY <2>1, <2>2, FS_EmptySet DEF BInv, Observed
<1> QED BY <1>1, TestInductive, PTL

=============================================================================
