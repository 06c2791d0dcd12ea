--------------------------- MODULE FrontierProofs ---------------------------
(***************************************************************************)
(* Proofs about Frontier, for every set of URLs and every configuration.   *)
(*                                                                         *)
(* The inductive invariant is TypeOK, the fence (FencedJobs) and what      *)
(* holds of each URL (UrlInv).  Every script that requeues does the same   *)
(* thing, replacing jobs by jobs with new ids and the same URLs            *)
(* (Replaces); every other resolution settles its job (Settles); every     *)
(* admission makes new jobs for URLs that have none (NewJobs).  The        *)
(* lemmas named ...Facts bring each action into one of these forms.        *)
(***************************************************************************)
EXTENDS Frontier, TLAPS

\* Removing members and adding one, in terms of DOMAIN and application.
LEMMA ZAddFacts ==
    ASSUME NEW z, NEW m, NEW s
    PROVE  /\ DOMAIN ZAdd(z, m, s) = DOMAIN z \cup {m}
           /\ \A x \in DOMAIN z \cup {m} :
                 ZAdd(z, m, s)[x] = IF x = m THEN s ELSE z[x]
BY DEF ZAdd

\* Removing members (ZREM, HDEL) keeps the others and their scores.
LEMMA RemoveFacts ==
    ASSUME NEW z, NEW M
    PROVE  /\ DOMAIN Remove(z, M) = DOMAIN z \ M
           /\ \A x \in DOMAIN z \ M : Remove(z, M)[x] = z[x]
BY DEF Remove, Restrict

\* ZADD and ZREM keep a sorted set within its members and scores.
LEMMA MapFacts ==
    ASSUME NEW D, NEW R, NEW z, IsMap(z, D, R)
    PROVE  /\ \A m \in D, s \in R : IsMap(ZAdd(z, m, s), D, R)
           /\ \A M : IsMap(Remove(z, M), D, R)
BY DEF IsMap, ZAdd, Remove, Restrict

-----------------------------------------------------------------------------
(* Requeueing: a set N of new jobs takes the place of a set P of old ones. *)

\* The URLs of a set of jobs.
URLs(J) == {j.url : j \in J}

\* N has fresh ids above s, up to t, and exactly the URLs of P.
Replaces(N, P, s, t) ==
    /\ s \in Nat /\ t \in Nat /\ s <= t
    /\ N \subseteq Job
    /\ \A k \in N : s < k.id /\ k.id <= t
    /\ \A k, m \in N : k.id = m.id => k = m
    /\ \A k \in N : \E j \in P : j.url = k.url
    /\ \A j \in P : \E k \in N : j.url = k.url
    /\ \A k, m \in N :
          /\ k.url = m.url
          /\ \A x, y \in P : x.url = y.url /\ x.url = k.url => x = y
          => k = m

\* No URL of C has two jobs in J.
Unique(J, C) == \A j, k \in J : j.url = k.url /\ j.url \in C => j = k

\* The loop of a requeueing script replaces a batch: the i-th INCR gives the
\* id of the i-th member.
LEMMA RemintedFacts ==
    ASSUME seq \in Nat, NEW z, NEW n \in Nat, NEW S \in SUBSET Job,
           NEW b \in Sorted(z, n, S)
    PROVE  Replaces(Reminted(b), S, seq, seq + n)
<1> /\ b \in [1..n -> S]
    /\ \A x \in S : \E i \in 1..n : b[i] = x
    /\ \A i, j \in 1..n : i < j => b[i] # b[j]
  BY DEF Sorted
<1>1. \A k : k \in Reminted(b) <=> \E i \in 1..n : k = [id |-> seq + i, url |-> b[i].url]
  BY DEF Reminted, Mint
<1>2. \A i \in 1..n : b[i] \in S /\ b[i] \in Job /\ b[i].url \in URL
  BY DEF Job
<1>3. Reminted(b) \subseteq Job
  BY <1>1, <1>2 DEF Job
<1>4. \A i, j \in 1..n : b[i] = b[j] => i = j
  OBVIOUS
<1>5. \A k \in Reminted(b) : seq < k.id /\ k.id <= seq + n
  BY <1>1
<1>6. \A k, m \in Reminted(b) : k.id = m.id => k = m
  BY <1>1
<1>7. \A k \in Reminted(b) : \E j \in S : j.url = k.url
  BY <1>1, <1>2
<1>8. ASSUME NEW j \in S
      PROVE  \E k \in Reminted(b) : j.url = k.url
  <2>1. PICK i \in 1..n : b[i] = j
    OBVIOUS
  <2>2. Mint(i, j.url) \in Reminted(b)
    BY <1>1, <2>1 DEF Mint
  <2> QED BY <2>2 DEF Mint
<1>9. ASSUME NEW k \in Reminted(b), NEW m \in Reminted(b), k.url = m.url,
             \A x, y \in S : x.url = y.url /\ x.url = k.url => x = y
      PROVE  k = m
  <2>1. PICK i \in 1..n : k = [id |-> seq + i, url |-> b[i].url]
    BY <1>1
  <2>2. PICK j \in 1..n : m = [id |-> seq + j, url |-> b[j].url]
    BY <1>1
  <2>3. b[i] = b[j]
    BY <1>2, <1>9, <2>1, <2>2
  <2> QED BY <1>4, <2>1, <2>2, <2>3
<1> QED BY <1>3, <1>5, <1>6, <1>7, <1>8, <1>9 DEF Replaces

\* A single requeue (NACK, FAIL) replaces its job by one with the next id.
LEMMA ReplaceOne ==
    ASSUME seq \in Nat, NEW j \in Job
    PROVE  Replaces({Mint(1, j.url)}, {j}, seq, seq + 1)
BY DEF Replaces, Mint, Job

(* What each requeueing action does, in these terms.                       *)

\* NACK moves the URL of a leased job to ready under a new id.
LEMMA NackFacts ==
    ASSUME TypeOK, NEW j \in issued, Nack(j), ~Stale(j)
    PROVE  /\ j \in DOMAIN lease
           /\ Replaces({Mint(1, j.url)}, {j}, seq, seq')
           /\ ready' = ready \cup {Mint(1, j.url)}
           /\ processing' = processing \ {j}
           /\ DOMAIN lease' = DOMAIN lease \ {j}
           /\ UNCHANGED <<delayed, urlVars, now, issued>>
BY ReplaceOne, RemoveFacts DEF Nack, Release, TypeOK

\* PROMOTE replaces a page of delayed by jobs in ready.
LEMMA PromoteFacts ==
    ASSUME TypeOK, Promote
    PROVE  \E P, N :
              /\ P \in SUBSET DOMAIN delayed
              /\ Replaces(N, P, seq, seq')
              /\ ready' = ready \cup N
              /\ delayed' = Remove(delayed, P)
              /\ DOMAIN delayed' = DOMAIN delayed \ P
              /\ UNCHANGED <<processing, lease, urlVars, now, issued>>
<1>1. PICK P, n, b : /\ P \in SUBSET DOMAIN delayed /\ n \in Nat
                     /\ b \in Sorted(delayed, n, P)
                     /\ seq' = seq + n
                     /\ ready' = ready \cup Reminted(b)
                     /\ delayed' = Remove(delayed, P)
                     /\ UNCHANGED <<processing, lease, urlVars, now, issued>>
  BY ConfigAssumption DEF Promote, Page, Due
<1>2. P \in SUBSET Job /\ seq \in Nat
  BY <1>1 DEF TypeOK, IsMap
<1>3. Replaces(Reminted(b), P, seq, seq')
  BY <1>1, <1>2, RemintedFacts
<1> QED BY <1>1, <1>3, RemoveFacts

\* REAP replaces a page of jobs whose lease has run out by jobs in ready.
LEMMA ReapFacts ==
    ASSUME TypeOK, Reap
    PROVE  \E P, N :
              /\ P \in SUBSET DOMAIN lease /\ \A j \in P : lease[j] <= now
              /\ Replaces(N, P, seq, seq')
              /\ ready' = ready \cup N
              /\ processing' = processing \ P
              /\ lease' = Remove(lease, P)
              /\ DOMAIN lease' = DOMAIN lease \ P
              /\ UNCHANGED <<delayed, urlVars, now, issued>>
<1>1. PICK P, n, b : /\ P \in SUBSET DOMAIN lease /\ n \in Nat
                     /\ \A j \in P : lease[j] <= now
                     /\ b \in Sorted(lease, n, P)
                     /\ seq' = seq + n
                     /\ ready' = ready \cup Reminted(b)
                     /\ processing' = processing \ P
                     /\ lease' = Remove(lease, P)
                     /\ UNCHANGED <<delayed, urlVars, now, issued>>
  BY ConfigAssumption DEF Reap, Page, Due
<1>2. P \in SUBSET Job /\ seq \in Nat
  BY <1>1 DEF TypeOK, IsMap
<1>3. Replaces(Reminted(b), P, seq, seq')
  BY <1>1, <1>2, RemintedFacts
<1> QED BY <1>1, <1>3, RemoveFacts

\* SWEEP replaces only members of processing that have no lease.
LEMMA SweepFacts ==
    ASSUME TypeOK, Sweep
    PROVE  \E P, N :
              /\ P \in SUBSET (processing \ DOMAIN lease)
              /\ Replaces(N, P, seq, seq')
              /\ ready' = ready \cup N
              /\ processing' = processing \ P
              /\ UNCHANGED <<lease, delayed, urlVars, now, issued>>
<1> DEFINE newest == [j \in processing |-> -j.id]
<1>1. PICK W \in Page([j \in processing |-> j.id], processing, SweepBatchLimit),
           n \in 0..SweepBatchLimit :
         \E b \in Sorted(newest, n, W \ DOMAIN lease) :
            /\ seq + n <= MaxJob
            /\ seq' = seq + n
            /\ ready' = ready \cup Reminted(b)
            /\ processing' = processing \ (W \ DOMAIN lease)
            /\ UNCHANGED <<lease, delayed, urlVars, now, issued>>
  BY DEF Sweep
<1>2. W \in SUBSET processing /\ n \in Nat
  BY ConfigAssumption DEF Page
<1> HIDE DEF newest
<1>3. PICK b : /\ b \in Sorted(newest, n, W \ DOMAIN lease)
               /\ seq' = seq + n
               /\ ready' = ready \cup Reminted(b)
               /\ processing' = processing \ (W \ DOMAIN lease)
               /\ UNCHANGED <<lease, delayed, urlVars, now, issued>>
  BY <1>1
<1> DEFINE P == W \ DOMAIN lease
<1>4. P \in SUBSET Job /\ P \in SUBSET (processing \ DOMAIN lease) /\ seq \in Nat
  BY <1>2 DEF TypeOK
<1> HIDE DEF P
<1>5. Replaces(Reminted(b), P, seq, seq')
  BY <1>2, <1>3, <1>4, RemintedFacts DEF P
<1> QED BY <1>3, <1>4, <1>5 DEF P

\* A resolution that does not requeue: the job is released, nothing is queued.
Settles(j) ==
    /\ j \in DOMAIN lease
    /\ processing' = processing \ {j}
    /\ DOMAIN lease' = DOMAIN lease \ {j}
    /\ ClearFailures(j.url)
    /\ UNCHANGED <<seq, ready, delayed, bloom, now, issued>>

\* ACK does nothing to a stale job and settles a leased one.
LEMMA AckFacts ==
    ASSUME NEW j, Ack(j)
    PROVE  \/ UNCHANGED vars
           \/ /\ Settles(j)
              /\ acked' = acked \cup {j.url}
              /\ UNCHANGED <<dead, listingNext, barren>>
BY RemoveFacts DEF Ack, Stale, Release, Settles

\* TERMINAL does nothing to a stale job; a leased one is settled and dead.
LEMMA TerminalFacts ==
    ASSUME NEW j, Terminal(j)
    PROVE  \/ UNCHANGED vars
           \/ /\ Settles(j)
              /\ Bury(j.url, QuarantineUntil(j.url))
              /\ UNCHANGED <<barren, acked>>
BY RemoveFacts DEF Terminal, Stale, Release, Settles, Bury

\* COMPLETE does nothing to a stale job; a leased one is settled and its listing
\* rescheduled within the TTL.
LEMMA CompleteListingFacts ==
    ASSUME NEW j, NEW found, CompleteListing(j, found)
    PROVE  \/ UNCHANGED vars
           \/ /\ Settles(j)
              /\ \E base, b :
                    listingNext' = ZAdd(listingNext, j.url, now + ListingTTL(base, b))
              /\ Revive({j.url})
              /\ UNCHANGED acked
BY RemoveFacts DEF CompleteListing, Stale, Release, Settles

\* FAIL does nothing to a stale job; otherwise it buries the URL at the limit
\* of strikes, or puts a replacement into delayed and counts the failure.
LEMMA FailFacts ==
    ASSUME TypeOK, NEW j \in issued, NEW class, Fail(j, class)
    PROVE  \/ UNCHANGED vars
           \/ /\ Settles(j)
              /\ Bury(j.url, QuarantineUntil(j.url))
              /\ UNCHANGED <<barren, acked>>
           \/ /\ j \in DOMAIN lease
              /\ Replaces({Mint(1, j.url)}, {j}, seq, seq')
              /\ DOMAIN delayed' = DOMAIN delayed \cup {Mint(1, j.url)}
              /\ processing' = processing \ {j}
              /\ DOMAIN lease' = DOMAIN lease \ {j}
              /\ attempts' = [attempts EXCEPT ![j.url] = attempts[j.url] + 1]
              /\ \/ /\ strikes[j.url] + 1 < MaxStrikes
                    /\ strikes' = [strikes EXCEPT ![j.url] = strikes[j.url] + 1]
                 \/ strikes' = [strikes EXCEPT ![j.url] = strikes[j.url]]
              /\ UNCHANGED <<ready, dead, listingNext, barren, bloom, now, issued, acked>>
<1>1. seq \in Nat /\ j \in Job /\ j.url \in URL /\ strikes[j.url] \in Nat
  BY DEF TypeOK, Job
<1>2. Replaces({Mint(1, j.url)}, {j}, seq, seq + 1)
  BY <1>1, ReplaceOne
<1> DEFINE s == IF class = "strikeable" THEN strikes[j.url] + 1 ELSE strikes[j.url]
           wait == Rung(Ladder(class), attempts[j.url] + 1)
<1>3. CASE Stale(j)
  BY <1>3 DEF Stale
<1>4. CASE /\ Release(j)
           /\ Bury(j.url, QuarantineUntil(j.url))
           /\ UNCHANGED <<seq, delayed, ready, barren, bloom, now, issued, acked>>
  BY <1>4, RemoveFacts DEF Release, Settles, Bury
<1>5. CASE /\ Release(j)
           /\ ~(class = "strikeable" /\ s >= MaxStrikes)
           /\ seq' = seq + 1
           /\ delayed' = ZAdd(delayed, Mint(1, j.url), now + wait)
           /\ attempts' = [attempts EXCEPT ![j.url] = attempts[j.url] + 1]
           /\ strikes' = [strikes EXCEPT ![j.url] = s]
           /\ UNCHANGED <<listingNext, dead, ready, barren, bloom, now, issued, acked>>
  <2>1. \/ s = strikes[j.url]
        \/ s = strikes[j.url] + 1 /\ s < MaxStrikes
    BY <1>1, <1>5, ConfigAssumption
  <2> HIDE DEF s, wait
  <2> QED BY <1>2, <1>5, <2>1, RemoveFacts, ZAddFacts DEF Release
<1> HIDE DEF wait
<1> QED BY <1>3, <1>4, <1>5 DEF Fail, wait

\* N holds one new job for each URL in U.
NewJobs(N, U, s, t) ==
    /\ s \in Nat /\ t \in Nat /\ s <= t
    /\ N \subseteq Job
    /\ \A k \in N : s < k.id /\ k.id <= t /\ k.url \in U
    /\ \A k, m \in N : k.id = m.id \/ k.url = m.url => k = m
    /\ \A u \in U : \E k \in N : k.url = u

\* An admission mints one new job for its URL.
LEMMA NewJob ==
    ASSUME seq \in Nat, NEW u \in URL
    PROVE  NewJobs({Mint(1, u)}, {u}, seq, seq + 1)
BY DEF NewJobs, Mint, Job

\* A pass of the listing scheduler mints one new job for each due listing that
\* is not blocked, and makes those PENDING.
LEMMA SchedulerFacts ==
    ASSUME TypeOK, RunListingScheduler
    PROVE  \E P, free, N :
              /\ P \subseteq Due(listingNext)
              /\ free = {l \in P : ~Blocked(l)}
              /\ NewJobs(N, free, seq, seq')
              /\ ready' = ready \cup N
              /\ Revive(free)
              /\ listingNext' = ScheduleAfter(P, free)
              /\ UNCHANGED <<processing, lease, delayed, attempts, strikes,
                             barren, bloom, now, issued, acked>>
<1> DEFINE free(P) == {l \in P : ~Blocked(l)}
<1>1. PICK P \in Page(listingNext, Due(listingNext), SchedulerBatchLimit),
           n \in 0..SchedulerBatchLimit :
         \E b \in Sorted(listingNext, n, free(P)) :
            /\ seq' = seq + n
            /\ ready' = ready \cup {Mint(i, b[i]) : i \in 1..n}
            /\ Revive(free(P))
            /\ listingNext' = ScheduleAfter(P, free(P))
            /\ UNCHANGED <<processing, lease, delayed, attempts, strikes,
                           barren, bloom, now, issued, acked>>
  BY DEF RunListingScheduler
<1>2. P \in SUBSET Due(listingNext) /\ n \in Nat
  BY ConfigAssumption DEF Page
<1>3. free(P) \subseteq URL
  BY <1>2 DEF Due, TypeOK, IsMap, URL
<1> HIDE DEF free
<1>4. PICK b : /\ b \in Sorted(listingNext, n, free(P))
               /\ seq' = seq + n
               /\ ready' = ready \cup {Mint(i, b[i]) : i \in 1..n}
               /\ Revive(free(P))
               /\ listingNext' = ScheduleAfter(P, free(P))
               /\ UNCHANGED <<processing, lease, delayed, attempts, strikes,
                              barren, bloom, now, issued, acked>>
  BY <1>1
<1> DEFINE N == {Mint(i, b[i]) : i \in 1..n}
<1>5. /\ b \in [1..n -> free(P)]
      /\ \A x \in free(P) : \E i \in 1..n : b[i] = x
      /\ \A i, j \in 1..n : i < j => b[i] # b[j]
  BY <1>4 DEF Sorted
<1>6. \A k : k \in N <=> \E i \in 1..n : k = [id |-> seq + i, url |-> b[i]]
  BY DEF Mint
<1> HIDE DEF N
<1>7. seq \in Nat /\ \A i \in 1..n : b[i] \in free(P) /\ b[i] \in URL
  BY <1>3, <1>5 DEF TypeOK
<1>8. N \subseteq Job /\ \A k \in N : seq < k.id /\ k.id <= seq + n /\ k.url \in free(P)
  BY <1>2, <1>6, <1>7 DEF Job
<1>9. ASSUME NEW k \in N, NEW m \in N, k.id = m.id \/ k.url = m.url
      PROVE  k = m
  <2>1. PICK i \in 1..n : k = [id |-> seq + i, url |-> b[i]]
    BY <1>6
  <2>2. PICK j \in 1..n : m = [id |-> seq + j, url |-> b[j]]
    BY <1>6
  <2>3. i = j
    BY <1>2, <1>5, <1>7, <1>9, <2>1, <2>2
  <2> QED BY <2>1, <2>2, <2>3
<1>10. ASSUME NEW u \in free(P)
       PROVE  \E k \in N : k.url = u
  <2>1. PICK i \in 1..n : b[i] = u
    BY <1>5
  <2>2. [id |-> seq + i, url |-> u] \in N
    BY <1>6, <2>1
  <2> QED BY <2>2
<1>11. NewJobs(N, free(P), seq, seq')
  BY <1>2, <1>4, <1>7, <1>8, <1>9, <1>10 DEF NewJobs
<1> QED BY <1>2, <1>4, <1>11 DEF free, N

-----------------------------------------------------------------------------

\* What a TTL, a quarantine and a rung of a ladder can be.
LEMMA TimeFacts ==
    ASSUME TypeOK
    PROVE  /\ \A base, b : now + ListingTTL(base, b) \in Score
           /\ \A u : QuarantineUntil(u) \in 0..MaxNow + QuarantineListing
           /\ \A u \in Listing : QuarantineUntil(u) > 0
           /\ \A u \in Video : QuarantineUntil(u) = 0
           /\ \A i \in Nat \ {0} : /\ Rung(StrikeBackoff, i) \in Nat
                                   /\ Rung(RateLimitBackoff, i) \in Nat
<1>1. \A base, b : now + ListingTTL(base, b) \in Score
  BY ConfigAssumption DEF ListingTTL, Score, TypeOK
<1>2. \A u : /\ QuarantineUntil(u) \in 0..MaxNow + QuarantineListing
             /\ u \in Listing => QuarantineUntil(u) > 0
             /\ u \in Video => QuarantineUntil(u) = 0
  BY UrlAssumption, ConfigAssumption DEF QuarantineUntil, Class, TypeOK
<1>3. \A i \in Nat \ {0} : /\ Rung(StrikeBackoff, i) \in Nat
                           /\ Rung(RateLimitBackoff, i) \in Nat
  BY ConfigAssumption DEF Rung
<1> QED BY <1>1, <1>2, <1>3

\* What INCR and the URL make is a job.
LEMMA MintType ==
    ASSUME seq \in Nat, NEW i \in Nat, NEW u \in URL
    PROVE  Mint(i, u) \in Job /\ Mint(i, u).id = seq + i /\ Mint(i, u).url = u
BY DEF Mint, Job

\* Every step keeps the types.
LEMMA TypeStep ==
    ASSUME TypeOK, [Next]_vars
    PROVE  TypeOK'
<1>1. ASSUME NEW v \in Video, AdmitVideo(v)
      PROVE  TypeOK'
  <2>1. Mint(1, v) \in Job
    BY MintType DEF TypeOK, URL
  <2>2. IsMap(Remove(dead, {v}), URL, 0..MaxNow + QuarantineListing)
    BY MapFacts DEF TypeOK
  <2> QED BY <1>1, <2>1, <2>2 DEF AdmitVideo, TypeOK, Revive, vars
<1>2. ASSUME NEW l \in Listing \ Excluded, AdmitListing(l)
      PROVE  TypeOK'
  <2>1. PendingScore \in Score
    BY DEF Score
  <2>2. Mint(1, l) \in Job
    BY MintType DEF TypeOK, URL
  <2> QED BY <1>2, <2>1, <2>2, MapFacts DEF AdmitListing, TypeOK, Revive, vars
<1>3. CASE SeedListing(BaseUrl)
  <2>1. 0 \in Score /\ BaseUrl \in Listing
    BY UrlAssumption, ConfigAssumption DEF Score
  <2> QED BY <1>3, <2>1, MapFacts DEF SeedListing, TypeOK
<1>4. CASE Lease
  BY <1>4, MapFacts, ConfigAssumption DEF Lease, Oldest, TypeOK, urlVars, vars
<1>5. CASE LeaseAborted
  BY <1>5 DEF LeaseAborted, Oldest, TypeOK, urlVars
<1>6. ASSUME NEW j \in issued, Ack(j)
      PROVE  TypeOK'
  <2>1. j.url \in URL /\ IsMap(Remove(lease, {j}), Job, Nat)
    BY MapFacts DEF TypeOK, Job
  <2> QED BY <1>6, <2>1 DEF Ack, Stale, Release, ClearFailures, TypeOK, vars
<1>7. ASSUME NEW j \in issued, j.url \notin Excluded, Nack(j)
      PROVE  TypeOK'
  <2>1. j.url \in URL /\ IsMap(Remove(lease, {j}), Job, Nat)
    BY MapFacts DEF TypeOK, Job
  <2>2. Mint(1, j.url) \in Job
    BY <2>1, MintType DEF TypeOK
  <2> QED BY <1>7, <2>1, <2>2 DEF Nack, Stale, Release, TypeOK, vars, urlVars
<1>8. ASSUME NEW u \in URL, Bury(u, QuarantineUntil(u))
      PROVE  /\ IsMap(listingNext', Listing, Score)
             /\ IsMap(dead', URL, 0..MaxNow + QuarantineListing)
             /\ attempts' \in [URL -> Nat] /\ strikes' \in [URL -> Nat]
  <2> DEFINE t == QuarantineUntil(u)
  <2>1. t \in 0..MaxNow + QuarantineListing /\ t \in Score
    BY TimeFacts DEF Score
  <2>2. t > 0 => u \in Listing
    BY TimeFacts DEF URL
  <2>3. IsMap(ZAdd(dead, u, t), URL, 0..MaxNow + QuarantineListing)
    BY <2>1, MapFacts DEF TypeOK
  <2>4. u \in Listing => IsMap(ZAdd(listingNext, u, t), Listing, Score)
    BY <2>1, MapFacts DEF TypeOK
  <2> HIDE DEF t
  <2> QED BY <1>8, <2>2, <2>3, <2>4 DEF Bury, ClearFailures, TypeOK, t
<1>9. ASSUME NEW j \in issued, Terminal(j)
      PROVE  TypeOK'
  BY <1>8, <1>9, MapFacts DEF Terminal, Stale, Release, TypeOK, Job, vars
<1>10. ASSUME NEW j \in issued, NEW class, Fail(j, class)
       PROVE  TypeOK'
  <2> DEFINE u == j.url
             a == attempts[u] + 1
             s == IF class = "strikeable" THEN strikes[u] + 1 ELSE strikes[u]
             ladder == Ladder(class)
  <2>1. u \in URL /\ a \in Nat \ {0} /\ s \in Nat /\ Rung(ladder, a) \in Nat
    <3>1. u \in URL
      BY DEF TypeOK, Job
    <3>2. a \in Nat \ {0} /\ s \in Nat
      BY <3>1 DEF TypeOK
    <3> QED BY <3>1, <3>2, TimeFacts DEF Ladder
  <2>2. CASE Stale(j)
    BY <2>2 DEF Stale, TypeOK, vars
  <2>3. CASE /\ Release(j) /\ Bury(u, QuarantineUntil(u))
             /\ UNCHANGED <<seq, delayed, ready, barren, bloom, now, issued, acked>>
    BY <1>8, <2>1, <2>3, MapFacts DEF Release, TypeOK
  <2>4. CASE /\ Release(j)
             /\ seq' = seq + 1
             /\ delayed' = ZAdd(delayed, Mint(1, u), now + Rung(ladder, a))
             /\ attempts' = [attempts EXCEPT ![u] = a]
             /\ strikes' = [strikes EXCEPT ![u] = s]
             /\ UNCHANGED <<listingNext, dead, ready, barren, bloom, now, issued, acked>>
    <3>1. Mint(1, u) \in Job
      BY <2>1, MintType DEF TypeOK
    <3> HIDE DEF u, a, s, ladder
    <3>2. now + Rung(ladder, a) \in Nat
      BY <2>1 DEF TypeOK
    <3> QED BY <2>1, <2>4, <3>1, <3>2, MapFacts DEF Release, TypeOK
  <2> QED BY <1>10, <2>2, <2>3, <2>4 DEF Fail
<1>11. ASSUME NEW j \in issued, j.url \in Listing, NEW found \in BOOLEAN,
              CompleteListing(j, found)
       PROVE  TypeOK'
  <2> DEFINE l == j.url
             base == BaseTTL(l)
             b == BarrenAfter(l, found)
             t == now + ListingTTL(base, b)
  <2>1. l \in Listing /\ l \in URL /\ t \in Score /\ b \in Nat
    BY <1>11, TimeFacts DEF BarrenAfter, TypeOK, IsMap, URL
  <2>2. CASE Stale(j)
    BY <2>2 DEF Stale, TypeOK, vars
  <2>3. CASE /\ Release(j)
             /\ barren' = ZAdd(barren, l, b)
             /\ listingNext' = ZAdd(listingNext, l, t)
             /\ Revive({l}) /\ ClearFailures(l)
             /\ UNCHANGED <<seq, ready, delayed, bloom, now, issued, acked>>
    <3> HIDE DEF l, t, base, b
    <3> QED BY <2>1, <2>3, MapFacts DEF Release, Revive, ClearFailures, TypeOK
  <2> QED BY <1>11, <2>2, <2>3 DEF CompleteListing
<1>12. CASE Promote
  <2>1. PICK P, N : /\ Replaces(N, P, seq, seq')
                    /\ ready' = ready \cup N
                    /\ delayed' = Remove(delayed, P)
                    /\ UNCHANGED <<processing, lease, urlVars, now, issued>>
    BY <1>12, PromoteFacts
  <2> QED BY <2>1, MapFacts DEF TypeOK, Replaces, urlVars
<1>13. CASE Reap
  <2>1. PICK P, N : /\ Replaces(N, P, seq, seq')
                    /\ ready' = ready \cup N
                    /\ processing' = processing \ P
                    /\ lease' = Remove(lease, P)
                    /\ UNCHANGED <<delayed, urlVars, now, issued>>
    BY <1>13, ReapFacts
  <2> QED BY <2>1, MapFacts DEF TypeOK, Replaces, urlVars
<1>14. CASE Sweep
  <2>1. PICK P, N : /\ Replaces(N, P, seq, seq')
                    /\ ready' = ready \cup N
                    /\ processing' = processing \ P
                    /\ UNCHANGED <<lease, delayed, urlVars, now, issued>>
    BY <1>14, SweepFacts
  <2> QED BY <2>1 DEF TypeOK, Replaces, urlVars
<1>15. CASE RunListingScheduler
  <2>1. PICK P, free, N : /\ P \subseteq Due(listingNext)
                          /\ free = {l \in P : ~Blocked(l)}
                          /\ NewJobs(N, free, seq, seq')
                          /\ ready' = ready \cup N
                          /\ Revive(free)
                          /\ listingNext' = ScheduleAfter(P, free)
                          /\ UNCHANGED <<processing, lease, delayed, attempts, strikes,
                                         barren, bloom, now, issued, acked>>
    BY <1>15, SchedulerFacts
  <2>2. IsMap(listingNext', Listing, Score)
    <3>1. \A l \in DOMAIN dead : dead[l] \in Score
      BY DEF TypeOK, IsMap, Score
    <3> QED BY <2>1, <3>1 DEF TypeOK, IsMap, ScheduleAfter, Blocked, Score
  <2> QED BY <2>1, <2>2, MapFacts DEF TypeOK, NewJobs, Revive
<1>16. CASE Tick
  BY <1>16, ConfigAssumption DEF Tick, TypeOK, urlVars
<1>17. CASE UNCHANGED vars
  BY <1>17 DEF vars, TypeOK
<1> QED BY <1>1, <1>2, <1>3, <1>4, <1>5, <1>6, <1>7, <1>9, <1>10, <1>11,
           <1>12, <1>13, <1>14, <1>15, <1>16, <1>17 DEF Next, Resolve
-----------------------------------------------------------------------------
(* The fence.                                                              *)

\* Requeueing neither loses a URL nor gives one a second job.
LEMMA RequeueURLs ==
    ASSUME NEW J, NEW C, NEW P \in SUBSET J, NEW N, NEW s, NEW t,
           Replaces(N, P, s, t), Unique(J, C)
    PROVE  /\ URLs((J \ P) \cup N) = URLs(J)
           /\ Unique((J \ P) \cup N, C)
<1>1. URLs((J \ P) \cup N) = URLs(J)
  BY DEF URLs, Replaces
<1>2. ASSUME NEW j \in (J \ P) \cup N, NEW k \in (J \ P) \cup N,
             j.url = k.url, j.url \in C
      PROVE  j = k
  <2>1. CASE j \in N /\ k \in N
    BY <1>2, <2>1 DEF Replaces, Unique
  <2>2. CASE j \in J \ P /\ k \in J \ P
    BY <1>2, <2>2 DEF Unique
  <2>3. CASE j \in J \ P /\ k \in N
    BY <1>2, <2>3 DEF Replaces, Unique
  <2>4. CASE j \in N /\ k \in J \ P
    BY <1>2, <2>4 DEF Replaces, Unique
  <2> QED BY <2>1, <2>2, <2>3, <2>4
<1> QED BY <1>1, <1>2 DEF Unique

\* FencedJobs as a statement about the sets of jobs alone: ready, processing,
\* delayed, leased and issued.
Fenced(s, R, Q, D, L, I) ==
    /\ \A j, k \in R \cup Q \cup D \cup I : j.id <= s /\ (j.id = k.id => j = k)
    /\ R \cap Q = {} /\ R \cap D = {} /\ Q \cap D = {}
    /\ L = Q \cap I
    /\ I \cap (R \cup D) = {}

\* FencedJobs, before and after a step, is Fenced of those sets.
LEMMA FencedRestated ==
    /\ FencedJobs <=> Fenced(seq, ready, processing, DOMAIN delayed, DOMAIN lease, issued)
    /\ FencedJobs' <=> Fenced(seq', ready', processing', DOMAIN delayed',
                              DOMAIN lease', issued')
BY DEF FencedJobs, Fenced, Jobs

\* New ids keep the fence, whether the new jobs go to ready or to delayed.
LEMMA FencedRequeue ==
    ASSUME NEW s \in Nat, NEW t \in Nat, s <= t,
           NEW R \in SUBSET Job, NEW Q \in SUBSET Job, NEW D \in SUBSET Job,
           NEW I \in SUBSET Job, NEW L, Fenced(s, R, Q, D, L, I),
           NEW N \in SUBSET Job,
           \A k \in N : s < k.id /\ k.id <= t,
           \A k, m \in N : k.id = m.id => k = m,
           NEW Q1 \in SUBSET Q, NEW D1 \in SUBSET D, NEW L1, L1 = Q1 \cap I
    PROVE  /\ Fenced(t, R \cup N, Q1, D1, L1, I)
           /\ Fenced(t, R, Q1, D1 \cup N, L1, I)
<1> DEFINE A == R \cup Q \cup D \cup I
<1>1. \A j \in A : j \in Job /\ j.id \in Nat /\ j.id <= s
  BY DEF Fenced, Job
<1>2. \A k \in N : k.id \in Nat /\ k \notin A
  BY <1>1 DEF Job
<1>3. \A j, k \in A \cup N : j.id <= t /\ (j.id = k.id => j = k)
  <2>1. \A j, k \in A : j.id = k.id => j = k
    BY DEF Fenced
  <2>2. \A j \in A, k \in N : j.id # k.id
    BY <1>1, <1>2
  <2> QED BY <1>1, <1>2, <2>1, <2>2
<1> QED BY <1>2, <1>3 DEF Fenced

\* The fence is kept by every step.
LEMMA FencedStep ==
    ASSUME TypeOK, FencedJobs, [Next]_vars
    PROVE  FencedJobs'
<1> DEFINE R == ready  Q == processing  D == DOMAIN delayed  L == DOMAIN lease
<1>1. /\ R \in SUBSET Job /\ Q \in SUBSET Job /\ D \in SUBSET Job /\ issued \in SUBSET Job
      /\ Fenced(seq, R, Q, D, L, issued)
  BY FencedRestated DEF TypeOK, IsMap
<1> HIDE DEF R, Q, D, L
<1>2. ASSUME NEW N, NEW P, Replaces(N, P, seq, seq') \/ NewJobs(N, P, seq, seq'),
             issued' = issued,
             processing' \subseteq Q, DOMAIN lease' = processing' \cap issued,
             \/ ready' = R \cup N /\ DOMAIN delayed' \subseteq D
             \/ ready' = R /\ DOMAIN delayed' \ N \subseteq D /\ N \subseteq DOMAIN delayed'
      PROVE  FencedJobs'
  <2>1. /\ seq \in Nat /\ seq' \in Nat /\ seq <= seq' /\ N \in SUBSET Job
        /\ \A k \in N : seq < k.id /\ k.id <= seq'
        /\ \A k, m \in N : k.id = m.id => k = m
    BY <1>2 DEF Replaces, NewJobs
  <2>2. CASE ready' = R \cup N /\ DOMAIN delayed' \subseteq D
    <3>1. Fenced(seq', R \cup N, processing', DOMAIN delayed', DOMAIN lease', issued)
      BY <1>1, <1>2, <2>1, <2>2, FencedRequeue
    <3> QED BY <1>2, <2>2, <3>1, FencedRestated
  <2>3. CASE ready' = R /\ DOMAIN delayed' \ N \subseteq D /\ N \subseteq DOMAIN delayed'
    <3> DEFINE D1 == DOMAIN delayed' \ N
    <3>1. DOMAIN delayed' = D1 \cup N /\ D1 \in SUBSET D
      BY <2>3
    <3> HIDE DEF D1
    <3>2. Fenced(seq', R, processing', D1 \cup N, DOMAIN lease', issued)
      BY <1>1, <1>2, <2>1, <3>1, FencedRequeue
    <3> QED BY <1>2, <2>3, <3>1, <3>2, FencedRestated
  <2> QED BY <1>2, <2>2, <2>3
<1>3. ASSUME NEW j, Settles(j)
      PROVE  FencedJobs'
  BY <1>1, <1>3, FencedRestated DEF Settles, Fenced, R, Q, D, L
<1>4. ASSUME UNCHANGED <<seq, ready, processing, lease, delayed, issued>>
      PROVE  FencedJobs'
  BY <1>4 DEF FencedJobs, Jobs
<1>5. L = Q \cap issued
  BY <1>1 DEF Fenced
<1>6. ASSUME NEW v \in Video, AdmitVideo(v)
      PROVE  FencedJobs'
  <2>1. NewJobs({Mint(1, v)}, {v}, seq, seq + 1) /\ NewJobs({}, {}, seq, seq + 1)
    BY NewJob DEF URL, TypeOK, NewJobs
  <2>2. CASE Blocked(v) /\ UNCHANGED vars
    BY <1>4, <2>2 DEF vars
  <2>3. CASE ~Blocked(v) /\ BloomHas(v)
    BY <1>2, <1>5, <1>6, <2>1, <2>3 DEF AdmitVideo, Q, L, R, D
  <2>4. CASE ~Blocked(v) /\ ~BloomHas(v)
    BY <1>2, <1>5, <1>6, <2>1, <2>4 DEF AdmitVideo, Q, L, R, D
  <2> QED BY <1>6, <2>2, <2>3, <2>4 DEF AdmitVideo
<1>7. ASSUME NEW l \in Listing \ Excluded, AdmitListing(l)
      PROVE  FencedJobs'
  <2>1. NewJobs({Mint(1, l)}, {l}, seq, seq + 1)
    BY NewJob DEF URL, TypeOK
  <2> QED BY <1>2, <1>4, <1>5, <1>7, <2>1 DEF AdmitListing, vars, Q, L, R, D
<1>8. CASE SeedListing(BaseUrl)
  BY <1>4, <1>8 DEF SeedListing
<1>9. CASE Lease
  <2>1. CASE UNCHANGED vars
    BY <1>4, <2>1 DEF vars
  <2>2. ASSUME NEW j \in ready, ready' = ready \ {j}, processing' = processing \cup {j},
               lease' = ZAdd(lease, j, now + LeaseTimeout), issued' = issued \cup {j},
               UNCHANGED <<seq, delayed, urlVars, now>>
        PROVE  FencedJobs'
    <3>1. DOMAIN lease' = DOMAIN lease \cup {j}
      BY <2>2, ZAddFacts
    <3>2. Fenced(seq, R \ {j}, Q \cup {j}, D, L \cup {j}, issued \cup {j})
      <4>1. (R \ {j}) \cup (Q \cup {j}) \cup D \cup (issued \cup {j})
               = R \cup Q \cup D \cup issued
        BY <2>2 DEF R
      <4> QED BY <1>1, <2>2, <4>1 DEF Fenced, R
    <3> QED BY <2>2, <3>1, <3>2, FencedRestated DEF R, Q, D, L
  <2> QED BY <1>9, <2>1, <2>2 DEF Lease, Oldest
<1>10. CASE LeaseAborted
  BY <1>1, <1>10, FencedRestated DEF LeaseAborted, Oldest, Fenced, R, Q, D, L
<1>11. ASSUME NEW j \in issued, Resolve(j)
       PROVE  FencedJobs'
  <2>1. ASSUME Nack(j)
        PROVE  FencedJobs'
    BY <1>2, <1>4, <1>5, <2>1, NackFacts DEF Stale, vars, R, Q, D, L
  <2>2. ASSUME NEW class, Fail(j, class)
        PROVE  FencedJobs'
    <3>1. CASE UNCHANGED vars
      BY <1>4, <3>1 DEF vars
    <3>2. CASE Settles(j)
      BY <1>3, <3>2
    <3>3. CASE /\ j \in DOMAIN lease
               /\ Replaces({Mint(1, j.url)}, {j}, seq, seq')
               /\ DOMAIN delayed' = DOMAIN delayed \cup {Mint(1, j.url)}
               /\ processing' = processing \ {j}
               /\ DOMAIN lease' = DOMAIN lease \ {j}
               /\ UNCHANGED <<ready, issued>>
      <4> DEFINE N == {Mint(1, j.url)}
      <4>1. /\ DOMAIN delayed' \ N \subseteq D /\ N \subseteq DOMAIN delayed'
            /\ processing' \subseteq Q /\ DOMAIN lease' = processing' \cap issued
        BY <1>5, <3>3 DEF Q, D, L
      <4> QED BY <1>2, <3>3, <4>1 DEF R
    <3> QED BY <2>2, <3>1, <3>2, <3>3, FailFacts
  <2>3. CASE Ack(j)
    BY <1>3, <1>4, <2>3, AckFacts DEF vars
  <2>4. CASE Terminal(j)
    BY <1>3, <1>4, <2>4, TerminalFacts DEF vars
  <2>5. ASSUME NEW found, CompleteListing(j, found)
        PROVE  FencedJobs'
    BY <1>3, <1>4, <2>5, CompleteListingFacts DEF vars
  <2> QED BY <1>11, <2>1, <2>2, <2>3, <2>4, <2>5 DEF Resolve
<1>12. CASE Promote
  BY <1>2, <1>5, <1>12, PromoteFacts DEF R, Q, D, L
<1>13. CASE Reap
  BY <1>2, <1>5, <1>13, ReapFacts DEF R, Q, D, L
<1>14. CASE Sweep
  <2>1. PICK P, N :
           /\ P \in SUBSET (processing \ DOMAIN lease)
           /\ Replaces(N, P, seq, seq')
           /\ ready' = ready \cup N
           /\ processing' = processing \ P
           /\ UNCHANGED <<lease, delayed, urlVars, now, issued>>
    BY <1>14, SweepFacts
  <2> QED BY <1>2, <1>5, <2>1 DEF R, Q, D, L
<1>15. CASE RunListingScheduler
  BY <1>2, <1>5, <1>15, SchedulerFacts DEF R, Q, D, L
<1>16. CASE Tick
  BY <1>4, <1>16 DEF Tick
<1>17. CASE UNCHANGED vars
  BY <1>4, <1>17 DEF vars
<1> QED BY <1>6, <1>7, <1>8, <1>9, <1>10, <1>11, <1>12, <1>13, <1>14, <1>15,
           <1>16, <1>17 DEF Next
-----------------------------------------------------------------------------
(* The state of a URL.                                                     *)

\* What the proofs need of every URL at once.
UrlInv ==
    /\ OneJobPerURL
    /\ PendingIffLive
    /\ VideoClaimKept
    /\ DeadIsSettled
    /\ UnclaimedOnlyWhenFull
    /\ FailureCounters

\* Live and OneJobPerURL in terms of the set of all jobs.
LEMMA LiveRestated ==
    /\ Live = URLs(Jobs) /\ Live' = URLs(Jobs')
    /\ OneJobPerURL <=> Unique(Jobs, Claimed)
    /\ OneJobPerURL' <=> Unique(Jobs', Claimed')
BY DEF Live, URLs, OneJobPerURL, Unique

\* Taking out the only job of a claimed URL leaves the URL without work.
LEMMA SettleURLs ==
    ASSUME NEW J, NEW C, NEW j \in J, Unique(J, C)
    PROVE  /\ Unique(J \ {j}, C)
           /\ URLs(J \ {j}) \subseteq URLs(J)
           /\ URLs(J) \subseteq URLs(J \ {j}) \cup {j.url}
           /\ j.url \in C => j.url \notin URLs(J \ {j})
BY DEF Unique, URLs

\* New jobs for URLs without work: each of them now has exactly one.
LEMMA NewURLs ==
    ASSUME NEW J, NEW C, NEW U, NEW N, NEW s, NEW t, NewJobs(N, U, s, t),
           U \cap URLs(J) = {}, Unique(J, C)
    PROVE  /\ URLs(J \cup N) = URLs(J) \cup U
           /\ Unique(J \cup N, C \cup U)
<1>1. URLs(J \cup N) = URLs(J) \cup U
  BY DEF URLs, NewJobs
<1>2. \A j \in J : j.url \notin U
  BY DEF URLs
<1> QED BY <1>1, <1>2 DEF Unique, NewJobs

\* What is left of the fence without the history of handed out jobs: ids of
\* queued jobs are not shared, a job is in one structure at a time, and what is
\* leased is in processing.
WeakFence(s, R, Q, D, L) ==
    /\ \A j, k \in R \cup Q \cup D : j.id <= s /\ (j.id = k.id => j = k)
    /\ R \cap Q = {} /\ R \cap D = {} /\ Q \cap D = {}
    /\ L \subseteq Q

Fence == WeakFence(seq, ready, processing, DOMAIN delayed, DOMAIN lease)

\* The fence implies it.
LEMMA FencedIsFence == FencedJobs => Fence
BY DEF FencedJobs, Fence, WeakFence, Jobs

\* Settling a job removes exactly that job.
LEMMA SettleJobs ==
    ASSUME Fence, NEW j, Settles(j)
    PROVE  j \in Jobs /\ Jobs' = Jobs \ {j}
BY DEF Fence, WeakFence, Settles, Jobs

\* Every step keeps what holds of each URL; the fence is needed to know that a
\* released job was the one in processing.
LEMMA UrlStep ==
    ASSUME TypeOK, Fence, UrlInv, [Next]_vars
    PROVE  UrlInv'
<1> DEFINE J == Jobs
<1>1. /\ Unique(J, Claimed) /\ URLs(J) = Live
      /\ URLs(Jobs') = Live' /\ (Unique(Jobs', Claimed') => OneJobPerURL')
  BY LiveRestated DEF UrlInv
<1>2. now <= MaxNow /\ \A u : QuarantineUntil(u) # PendingScore
  BY TimeFacts, PendingAssumption, ConfigAssumption DEF TypeOK
<1>3. \A base, b : now + ListingTTL(base, b) # PendingScore
  BY PendingAssumption, ConfigAssumption DEF TypeOK, ListingTTL
<1>4. \A l \in DOMAIN listingNext : l \in Listing /\ (listingNext[l] <= now => listingNext[l] # PendingScore)
  BY <1>2, PendingAssumption, ConfigAssumption DEF TypeOK, IsMap, Score
\* Steps that touch neither the jobs nor the facts about URLs.
<1>5. ASSUME UNCHANGED <<ready, processing, delayed, dead, attempts, strikes,
                         listingNext, bloom, acked>>
      PROVE  UrlInv'
  <2>1. Jobs' = Jobs /\ Live' = Live /\ Claimed' = Claimed /\ BloomFull' = BloomFull
    BY <1>5 DEF Jobs, Live, Claimed, BloomFull
  <2> QED BY <1>5, <2>1 DEF UrlInv, OneJobPerURL, PendingIffLive, VideoClaimKept,
             DeadIsSettled, UnclaimedOnlyWhenFull, FailureCounters
\* Requeueing steps.
<1>6. ASSUME NEW P \in SUBSET Jobs, NEW N, Replaces(N, P, seq, seq'),
             Jobs' = (Jobs \ P) \cup N,
             UNCHANGED <<dead, listingNext, bloom, acked>>
      PROVE  /\ Live' = Live
             /\ OneJobPerURL' /\ PendingIffLive' /\ VideoClaimKept'
             /\ DeadIsSettled' /\ UnclaimedOnlyWhenFull'
  <2>1. Claimed' = Claimed /\ BloomFull' = BloomFull
    BY <1>6 DEF Claimed, BloomFull
  <2>2. Live' = Live /\ OneJobPerURL'
    BY <1>1, <1>6, <2>1, RequeueURLs
  <2> QED BY <1>6, <2>1, <2>2 DEF UrlInv, PendingIffLive, VideoClaimKept,
             DeadIsSettled, UnclaimedOnlyWhenFull
<1>7. ASSUME NEW P \in SUBSET Jobs, NEW N, Replaces(N, P, seq, seq'),
             Jobs' = (Jobs \ P) \cup N, UNCHANGED urlVars
      PROVE  UrlInv'
  <2>1. Live' = Live /\ FailureCounters
    BY <1>6, <1>7 DEF urlVars, UrlInv
  <2> QED BY <1>6, <1>7, <2>1 DEF UrlInv, urlVars, FailureCounters
\* Steps that release a job for good.
<1>8. ASSUME NEW j \in issued, Settles(j)
      PROVE  /\ j.url \in URL
             /\ Live' \subseteq Live /\ Live \subseteq Live' \cup {j.url}
             /\ j.url \in Claimed => j.url \notin Live'
             /\ Claimed' = Claimed
             /\ OneJobPerURL' /\ UnclaimedOnlyWhenFull' /\ FailureCounters'
  <2>1. Claimed' = Claimed /\ BloomFull' = BloomFull
    BY <1>8 DEF Settles, Claimed, BloomFull
  <2>2. /\ Live' \subseteq Live /\ Live \subseteq Live' \cup {j.url}
        /\ j.url \in Claimed => j.url \notin Live'
        /\ OneJobPerURL'
    BY <1>1, <1>8, <2>1, SettleJobs, SettleURLs
  <2>3. UnclaimedOnlyWhenFull'
    BY <1>8, <2>1, <2>2 DEF UrlInv, UnclaimedOnlyWhenFull, Settles
  <2>4. j.url \in URL
    BY DEF TypeOK, Job
  <2>5. FailureCounters'
    BY <1>8, <2>2, <2>4, ConfigAssumption DEF UrlInv, FailureCounters, Settles, ClearFailures, TypeOK
  <2> QED BY <2>1, <2>2, <2>3, <2>4, <2>5
<1>9. ASSUME NEW j \in issued, Settles(j), Bury(j.url, QuarantineUntil(j.url)),
             UNCHANGED acked
      PROVE  UrlInv'
  <2> DEFINE u == j.url  t == QuarantineUntil(u)
  <2>1. bloom' = bloom /\ \A x \in DOMAIN dead \cup {u} : dead'[x] = IF x = u THEN t ELSE dead[x]
    BY <1>9 DEF Settles, Bury, ZAdd
  <2>2. DOMAIN dead' = DOMAIN dead \cup {u}
    BY <1>9 DEF Bury, ZAdd
  <2>3. CASE u \in Video
    <3>1. t = 0 /\ listingNext' = listingNext /\ u \notin Listing
      BY <1>9, <2>3, TimeFacts, UrlAssumption DEF Bury
    <3>2. DeadIsSettled'
      <4>1. \A v \in DOMAIN dead' \cap Video :
               dead'[v] = 0 /\ (v \in bloom' => v \notin Live')
        BY <1>8, <1>9, <2>1, <2>2, <2>3, <3>1 DEF UrlInv, DeadIsSettled, Claimed
      <4>2. \A l \in DOMAIN dead' \cap Listing :
               l \in DOMAIN dead /\ dead'[l] = dead[l] /\ l \notin Live'
        BY <1>8, <1>9, <2>1, <2>2, <3>1 DEF UrlInv, DeadIsSettled
      <4> QED BY <3>1, <4>1, <4>2 DEF UrlInv, DeadIsSettled
    <3>3. PendingIffLive'
      BY <1>4, <1>8, <1>9, <3>1 DEF UrlInv, PendingIffLive
    <3>4. VideoClaimKept'
      BY <1>8, <1>9, <2>1, <2>2 DEF UrlInv, VideoClaimKept
    <3> QED BY <1>8, <1>9, <3>2, <3>3, <3>4 DEF UrlInv
  <2>4. CASE u \in Listing
    <3>1. /\ t > 0 /\ t # PendingScore /\ u \notin Video /\ u \notin Live'
          /\ DOMAIN listingNext' = DOMAIN listingNext \cup {u}
          /\ \A x \in DOMAIN listingNext \cup {u} :
                listingNext'[x] = IF x = u THEN t ELSE listingNext[x]
      BY <1>2, <1>8, <1>9, <2>4, TimeFacts, UrlAssumption DEF Bury, ZAdd, Claimed
    <3> HIDE DEF u, t
    <3>2. DeadIsSettled'
      BY <1>8, <1>9, <2>1, <2>2, <2>4, <3>1 DEF UrlInv, DeadIsSettled, u
    <3>3. PendingIffLive'
      BY <1>8, <1>9, <3>1 DEF UrlInv, PendingIffLive, u
    <3>4. VideoClaimKept'
      BY <1>8, <1>9, <2>1, <2>2 DEF UrlInv, VideoClaimKept, u
    <3> QED BY <1>8, <1>9, <3>2, <3>3, <3>4 DEF UrlInv
  <2> QED BY <1>8, <1>9, <2>3, <2>4 DEF URL
<1>10. ASSUME NEW j \in issued, Settles(j), acked' = acked \cup {j.url},
              UNCHANGED <<dead, listingNext>>, j.url \in Video \cup Excluded
       PROVE  UrlInv'
  <2>1. bloom' = bloom
    BY <1>10 DEF Settles
  <2>2. PendingIffLive'
    BY <1>8, <1>10, UrlAssumption DEF UrlInv, PendingIffLive, TypeOK, IsMap
  <2>3. VideoClaimKept'
    BY <1>8, <1>10, <2>1 DEF UrlInv, VideoClaimKept
  <2>4. DeadIsSettled'
    BY <1>8, <1>10, <2>1 DEF UrlInv, DeadIsSettled
  <2> QED BY <1>8, <1>10, <2>2, <2>3, <2>4 DEF UrlInv
<1>11. ASSUME NEW j \in issued, j.url \in Listing, Settles(j), NEW base, NEW b,
              listingNext' = ZAdd(listingNext, j.url, now + ListingTTL(base, b)),
              Revive({j.url}), UNCHANGED acked
       PROVE  UrlInv'
  <2> DEFINE u == j.url  t == now + ListingTTL(base, b)
  <2>1. /\ bloom' = bloom /\ u \notin Live' /\ u \notin Video /\ t # PendingScore
        /\ DOMAIN listingNext' = DOMAIN listingNext \cup {u}
        /\ \A x \in DOMAIN listingNext \cup {u} :
              listingNext'[x] = IF x = u THEN t ELSE listingNext[x]
    BY <1>3, <1>8, <1>11, UrlAssumption DEF Settles, ZAdd, Claimed
  <2>2. /\ DOMAIN dead' = DOMAIN dead \ {u}
        /\ \A x \in DOMAIN dead \ {u} : dead'[x] = dead[x]
    BY <1>11, RemoveFacts DEF Revive
  <2> HIDE DEF t
  <2>3. PendingIffLive'
    BY <1>8, <1>11, <2>1 DEF UrlInv, PendingIffLive
  <2>4. VideoClaimKept'
    BY <1>8, <1>11, <2>1, <2>2 DEF UrlInv, VideoClaimKept, TypeOK
  <2>5. DeadIsSettled'
    BY <1>8, <1>11, <2>1, <2>2 DEF UrlInv, DeadIsSettled
  <2> QED BY <1>8, <1>11, <2>3, <2>4, <2>5 DEF UrlInv
\* Admission.
<1>12. ASSUME NEW v \in Video, AdmitVideo(v)
       PROVE  UrlInv'
  <2>1. CASE Blocked(v) /\ UNCHANGED vars
    BY <1>5, <2>1 DEF vars
  <2>2. CASE ~Blocked(v)
    <3>1. v \notin DOMAIN dead
      BY <2>2 DEF Blocked, UrlInv, DeadIsSettled
    <3>2. DOMAIN dead' = DOMAIN dead /\ \A x \in DOMAIN dead : dead'[x] = dead[x]
      <4>1. dead' = Remove(dead, {v})
        BY <1>12, <2>2 DEF AdmitVideo, Revive
      <4>2. DOMAIN dead \ {v} = DOMAIN dead
        BY <3>1
      <4> QED BY <4>1, <4>2 DEF Remove, Restrict
    <3>3. CASE BloomHas(v)
      <4>1. Jobs' = Jobs /\ Live' = Live /\ Claimed' = Claimed /\ BloomFull' = BloomFull
        BY <1>12, <2>2, <3>3 DEF AdmitVideo, Jobs, Live, Claimed, BloomFull
      <4>2. UNCHANGED <<attempts, strikes, listingNext, bloom, acked>>
        BY <1>12, <2>2, <3>3 DEF AdmitVideo
      <4> QED BY <3>2, <4>1, <4>2 DEF UrlInv, OneJobPerURL, PendingIffLive, VideoClaimKept,
                 DeadIsSettled, UnclaimedOnlyWhenFull, FailureCounters
    <3>4. CASE ~BloomHas(v)
      <4> DEFINE N == {Mint(1, v)}
      <4>1. NewJobs(N, {v}, seq, seq + 1)
        BY NewJob DEF TypeOK, URL
      <4>2. v \notin bloom /\ Jobs' = Jobs \cup N
            /\ UNCHANGED <<attempts, strikes, listingNext, acked>>
        BY <1>12, <2>2, <3>4 DEF AdmitVideo, Jobs, BloomHas
      <4>3. v \notin Listing /\ v \notin Claimed
        BY <4>2, UrlAssumption DEF Claimed
      <4>4. URLs(Jobs \cup N) = Live \cup {v}
        BY <1>1, <4>1 DEF URLs, NewJobs
      <4>5. Live' = Live \cup {v}
        BY <1>1, <4>2, <4>4
      <4>6. CASE BloomFull
        <5>1. bloom' = bloom /\ Claimed' = Claimed /\ BloomFull' = BloomFull
          BY <1>12, <2>2, <4>6 DEF AdmitVideo, Claimed, BloomFull
        <5>2. Unique(Jobs \cup N, Claimed)
          BY <1>1, <4>1, <4>3 DEF Unique, NewJobs
        <5>3. OneJobPerURL'
          BY <1>1, <4>2, <5>1, <5>2
        <5>4. PendingIffLive' /\ VideoClaimKept' /\ UnclaimedOnlyWhenFull' /\ FailureCounters'
          BY <3>2, <4>2, <4>3, <4>5, <4>6, <5>1 DEF UrlInv, PendingIffLive, VideoClaimKept,
             UnclaimedOnlyWhenFull, FailureCounters
        <5>5. DeadIsSettled'
          BY <3>1, <3>2, <4>2, <4>3, <4>5, <5>1 DEF UrlInv, DeadIsSettled
        <5> QED BY <5>3, <5>4, <5>5 DEF UrlInv
      <4>7. CASE ~BloomFull
        <5>1. bloom' = bloom \cup {v} /\ Claimed' = Claimed \cup {v}
          BY <1>12, <2>2, <3>4, <4>7 DEF AdmitVideo, Claimed
        <5>2. v \notin Live
          BY <4>2, <4>7 DEF UrlInv, UnclaimedOnlyWhenFull
        <5>3. Unique(Jobs \cup N, Claimed \cup {v})
          BY <1>1, <4>1, <5>2, NewURLs
        <5>4. OneJobPerURL'
          BY <1>1, <4>2, <5>1, <5>3
        <5>5. PendingIffLive' /\ VideoClaimKept' /\ FailureCounters'
          BY <3>2, <4>2, <4>3, <4>5, <5>1 DEF UrlInv, PendingIffLive, VideoClaimKept,
             FailureCounters
        <5>6. UnclaimedOnlyWhenFull'
          BY <4>5, <4>7, <5>1 DEF UrlInv, UnclaimedOnlyWhenFull
        <5>7. DeadIsSettled'
          BY <3>1, <3>2, <4>2, <4>3, <4>5, <5>1 DEF UrlInv, DeadIsSettled
        <5> QED BY <5>4, <5>5, <5>6, <5>7 DEF UrlInv
      <4> QED BY <4>6, <4>7
    <3> QED BY <3>3, <3>4
  <2> QED BY <1>12, <2>1, <2>2 DEF AdmitVideo
<1>13. ASSUME NEW l \in Listing \ Excluded, AdmitListing(l)
       PROVE  UrlInv'
  <2>1. CASE Blocked(l) /\ UNCHANGED vars
    BY <1>5, <2>1 DEF vars
  <2>2. ASSUME ~Blocked(l), Revive({l})
        PROVE  /\ DOMAIN dead' = DOMAIN dead \ {l}
               /\ \A x \in DOMAIN dead \ {l} : dead'[x] = dead[x]
    BY <2>2, RemoveFacts DEF Revive
  <2>3. CASE ~Blocked(l) /\ NotDue(l)
    <3>1. Jobs' = Jobs /\ Live' = Live /\ Claimed' = Claimed /\ BloomFull' = BloomFull
      BY <1>13, <2>3 DEF AdmitListing, Jobs, Live, Claimed, BloomFull
    <3>2. UNCHANGED <<attempts, strikes, listingNext, bloom, acked>>
      BY <1>13, <2>3 DEF AdmitListing
    <3>3. l \notin Video
      BY UrlAssumption
    <3>4. VideoClaimKept'
      BY <1>13, <2>2, <2>3, <3>1, <3>2, <3>3 DEF AdmitListing, UrlInv, VideoClaimKept, TypeOK
    <3>5. DeadIsSettled'
      BY <1>13, <2>2, <2>3, <3>1, <3>2 DEF AdmitListing, UrlInv, DeadIsSettled
    <3> QED BY <3>1, <3>2, <3>4, <3>5 DEF UrlInv, OneJobPerURL, PendingIffLive,
               UnclaimedOnlyWhenFull, FailureCounters
  <2>4. CASE ~Blocked(l) /\ ~NotDue(l)
    <3> DEFINE N == {Mint(1, l)}
    <3>1. NewJobs(N, {l}, seq, seq + 1) /\ l \notin Video
      BY NewJob, UrlAssumption DEF TypeOK, URL
    <3>2. /\ Jobs' = Jobs \cup N /\ Claimed' = Claimed /\ BloomFull' = BloomFull
          /\ UNCHANGED <<attempts, strikes, bloom, acked>>
          /\ Revive({l})
      BY <1>13, <2>4 DEF AdmitListing, Jobs, Claimed, BloomFull
    <3>3. /\ DOMAIN listingNext' = DOMAIN listingNext \cup {l}
          /\ \A x \in DOMAIN listingNext \cup {l} :
                listingNext'[x] = IF x = l THEN PendingScore ELSE listingNext[x]
      <4>1. listingNext' = ZAdd(listingNext, l, PendingScore)
        BY <1>13, <2>4 DEF AdmitListing
      <4> QED BY <4>1 DEF ZAdd
    <3>4. l \notin Live
      BY <1>4, <2>4, PendingAssumption, <1>2 DEF NotDue, UrlInv, PendingIffLive, TypeOK
    <3>5. Unique(Jobs \cup N, Claimed \cup {l}) /\ Live' = Live \cup {l}
      <4>1. {l} \cap URLs(Jobs) = {} /\ Unique(Jobs, Claimed)
        BY <1>1, <3>4
      <4>2. /\ URLs(Jobs \cup N) = URLs(Jobs) \cup {l}
            /\ Unique(Jobs \cup N, Claimed \cup {l})
        BY <3>1, <4>1, NewURLs
      <4> QED BY <1>1, <3>2, <4>2
    <3>6. OneJobPerURL'
      BY <1>1, <3>2, <3>5 DEF Claimed, Unique
    <3>7. PendingIffLive'
      BY <3>3, <3>5 DEF UrlInv, PendingIffLive
    <3>8. VideoClaimKept' /\ UnclaimedOnlyWhenFull' /\ FailureCounters'
      BY <2>2, <2>4, <3>1, <3>2, <3>5 DEF UrlInv, VideoClaimKept, UnclaimedOnlyWhenFull,
         FailureCounters, TypeOK
    <3>9. DeadIsSettled'
      BY <2>2, <2>4, <3>1, <3>2, <3>3, <3>5 DEF UrlInv, DeadIsSettled
    <3> QED BY <3>6, <3>7, <3>8, <3>9 DEF UrlInv
  <2> QED BY <1>13, <2>1, <2>3, <2>4 DEF AdmitListing
<1>14. CASE SeedListing(BaseUrl)
  <2>1. CASE BaseUrl \in DOMAIN listingNext
    BY <1>5, <1>14, <2>1 DEF SeedListing
  <2>2. CASE BaseUrl \notin DOMAIN listingNext
    <3>1. /\ Jobs' = Jobs /\ Live' = Live /\ Claimed' = Claimed /\ BloomFull' = BloomFull
          /\ UNCHANGED <<dead, attempts, strikes, bloom, acked>>
      BY <1>14 DEF SeedListing, Jobs, Live, Claimed, BloomFull
    <3>2. /\ DOMAIN listingNext' = DOMAIN listingNext \cup {BaseUrl}
          /\ \A x \in DOMAIN listingNext \cup {BaseUrl} :
                listingNext'[x] = IF x = BaseUrl THEN 0 ELSE listingNext[x]
      <4>1. listingNext' = ZAdd(listingNext, BaseUrl, 0)
        BY <1>14, <2>2 DEF SeedListing
      <4> QED BY <4>1 DEF ZAdd
    <3>3. 0 # PendingScore
      BY PendingAssumption, ConfigAssumption
    <3>4. PendingIffLive'
      BY <2>2, <3>1, <3>2, <3>3 DEF UrlInv, PendingIffLive
    <3>5. DeadIsSettled'
      BY <2>2, <3>1, <3>2 DEF UrlInv, DeadIsSettled
    <3> QED BY <3>1, <3>4, <3>5 DEF UrlInv, OneJobPerURL, VideoClaimKept,
               UnclaimedOnlyWhenFull, FailureCounters
  <2> QED BY <2>1, <2>2
<1>15. CASE Lease
  <2>1. CASE UNCHANGED vars
    BY <1>5, <2>1 DEF vars
  <2>2. CASE ~UNCHANGED vars
    <3>1. /\ Jobs' = Jobs /\ Claimed' = Claimed /\ BloomFull' = BloomFull
          /\ UNCHANGED urlVars
      BY <1>15, <2>2 DEF Lease, Oldest, Jobs, urlVars, Claimed, BloomFull
    <3>2. Live' = Live
      BY <3>1 DEF Live
    <3> QED BY <3>1, <3>2 DEF UrlInv, OneJobPerURL, PendingIffLive, VideoClaimKept,
             DeadIsSettled, UnclaimedOnlyWhenFull, FailureCounters, urlVars
  <2> QED BY <2>1, <2>2
<1>16. CASE LeaseAborted
  <2>1. /\ Jobs' = Jobs /\ Claimed' = Claimed /\ BloomFull' = BloomFull
        /\ UNCHANGED urlVars
    BY <1>16 DEF LeaseAborted, Oldest, Jobs, urlVars, Claimed, BloomFull
  <2>2. Live' = Live
    BY <2>1 DEF Live
  <2> QED BY <2>1, <2>2 DEF UrlInv, OneJobPerURL, PendingIffLive, VideoClaimKept,
             DeadIsSettled, UnclaimedOnlyWhenFull, FailureCounters, urlVars
<1>17. ASSUME NEW j \in issued, Nack(j)
       PROVE  UrlInv'
  <2>1. CASE Stale(j)
    BY <1>5, <2>1 DEF Stale, vars
  <2>2. CASE ~Stale(j)
    <3> DEFINE N == {Mint(1, j.url)}
    <3>1. /\ j \in DOMAIN lease /\ ready' = ready \cup N
          /\ processing' = processing \ {j} /\ UNCHANGED <<delayed, urlVars>>
          /\ Replaces(N, {j}, seq, seq')
      BY <1>17, <2>2, NackFacts
    <3> HIDE DEF N
    <3>2. Jobs' = (Jobs \ {j}) \cup N /\ {j} \in SUBSET Jobs
      BY <3>1 DEF Fence, WeakFence, Jobs
    <3> QED BY <1>7, <3>1, <3>2
  <2> QED BY <2>1, <2>2
<1>18. ASSUME NEW j \in issued, NEW class, Fail(j, class)
       PROVE  UrlInv'
  <2>1. CASE UNCHANGED vars
    BY <1>5, <2>1 DEF vars
  <2>2. CASE Settles(j) /\ Bury(j.url, QuarantineUntil(j.url)) /\ UNCHANGED <<barren, acked>>
    BY <1>9, <2>2
  <2>3. CASE /\ j \in DOMAIN lease
             /\ Replaces({Mint(1, j.url)}, {j}, seq, seq')
             /\ DOMAIN delayed' = DOMAIN delayed \cup {Mint(1, j.url)}
             /\ processing' = processing \ {j}
             /\ DOMAIN lease' = DOMAIN lease \ {j}
             /\ attempts' = [attempts EXCEPT ![j.url] = attempts[j.url] + 1]
             /\ \/ /\ strikes[j.url] + 1 < MaxStrikes
                   /\ strikes' = [strikes EXCEPT ![j.url] = strikes[j.url] + 1]
                \/ strikes' = [strikes EXCEPT ![j.url] = strikes[j.url]]
             /\ UNCHANGED <<ready, dead, listingNext, barren, bloom, now, issued, acked>>
    <3>1. /\ Jobs' = (Jobs \ {j}) \cup {Mint(1, j.url)} /\ {j} \in SUBSET Jobs
          /\ j.url \in Live /\ j.url \in URL
      BY <2>3 DEF Fence, WeakFence, Jobs, Live, TypeOK, Job
    <3>2. /\ Live' = Live
          /\ OneJobPerURL' /\ PendingIffLive' /\ VideoClaimKept'
          /\ DeadIsSettled' /\ UnclaimedOnlyWhenFull'
      BY <1>6, <2>3, <3>1
    <3>3. FailureCounters'
      BY <2>3, <3>1, <3>2, ConfigAssumption DEF UrlInv, FailureCounters, TypeOK
    <3> QED BY <3>2, <3>3 DEF UrlInv
  <2> QED BY <1>18, <2>1, <2>2, <2>3, FailFacts
<1>19. ASSUME NEW j \in issued, Resolve(j)
       PROVE  UrlInv'
  <2>1. ASSUME Ack(j), j.url \in Video \cup Excluded
        PROVE  UrlInv'
    BY <1>5, <1>10, <2>1, AckFacts DEF vars
  <2>2. ASSUME Terminal(j)
        PROVE  UrlInv'
    BY <1>5, <1>9, <2>2, TerminalFacts DEF vars
  <2>3. ASSUME NEW found, CompleteListing(j, found), j.url \in Listing
        PROVE  UrlInv'
    BY <1>5, <1>11, <2>3, CompleteListingFacts DEF vars
  <2> QED BY <1>17, <1>18, <1>19, <2>1, <2>2, <2>3 DEF Resolve
\* Reconcilers.
<1>20. CASE Promote
  <2>1. PICK P, N :
              /\ P \in SUBSET DOMAIN delayed
              /\ Replaces(N, P, seq, seq')
              /\ ready' = ready \cup N
              /\ DOMAIN delayed' = DOMAIN delayed \ P
              /\ UNCHANGED <<processing, lease, urlVars, now, issued>>
    BY <1>20, PromoteFacts
  <2>2. Jobs' = (Jobs \ P) \cup N /\ P \in SUBSET Jobs
    BY <2>1 DEF Fence, WeakFence, Jobs
  <2> QED BY <1>7, <2>1, <2>2
<1>21. CASE Reap
  <2>1. PICK P, N :
              /\ P \in SUBSET DOMAIN lease
              /\ Replaces(N, P, seq, seq')
              /\ ready' = ready \cup N
              /\ processing' = processing \ P
              /\ UNCHANGED <<delayed, urlVars, now, issued>>
    BY <1>21, ReapFacts
  <2>2. Jobs' = (Jobs \ P) \cup N /\ P \in SUBSET Jobs
    BY <2>1 DEF Fence, WeakFence, Jobs
  <2> QED BY <1>7, <2>1, <2>2
<1>22. CASE Sweep
  <2>1. PICK P, N :
              /\ P \in SUBSET (processing \ DOMAIN lease)
              /\ Replaces(N, P, seq, seq')
              /\ ready' = ready \cup N
              /\ processing' = processing \ P
              /\ UNCHANGED <<lease, delayed, urlVars, now, issued>>
    BY <1>22, SweepFacts
  <2>2. Jobs' = (Jobs \ P) \cup N /\ P \in SUBSET Jobs
    BY <2>1 DEF Fence, WeakFence, Jobs
  <2> QED BY <1>7, <2>1, <2>2
<1>23. CASE RunListingScheduler
  <2>1. PICK P, free, N : /\ P \subseteq Due(listingNext)
                          /\ free = {l \in P : ~Blocked(l)}
                          /\ NewJobs(N, free, seq, seq')
                          /\ ready' = ready \cup N
                          /\ Revive(free)
                          /\ listingNext' = ScheduleAfter(P, free)
                          /\ UNCHANGED <<processing, lease, delayed, attempts, strikes,
                                         barren, bloom, now, issued, acked>>
    BY <1>23, SchedulerFacts
  <2>2. P \subseteq DOMAIN listingNext /\ \A l \in P : listingNext[l] <= now /\ l \in Listing
    BY <1>4, <2>1 DEF Due
  <2>3. free = P
    BY <2>1, <2>2 DEF Blocked, UrlInv, DeadIsSettled, TypeOK, IsMap
  <2>4. P \cap Live = {}
    BY <1>4, <2>2 DEF UrlInv, PendingIffLive
  <2>5. /\ Jobs' = Jobs \cup N /\ Claimed' = Claimed /\ BloomFull' = BloomFull
    BY <2>1 DEF Jobs, Claimed, BloomFull
  <2>6. Unique(Jobs \cup N, Claimed \cup P) /\ Live' = Live \cup P
    <3>1. P \cap URLs(Jobs) = {} /\ Unique(Jobs, Claimed) /\ NewJobs(N, P, seq, seq')
      BY <1>1, <2>1, <2>3, <2>4
    <3>2. URLs(Jobs \cup N) = URLs(Jobs) \cup P /\ Unique(Jobs \cup N, Claimed \cup P)
      BY <3>1, NewURLs
    <3> QED BY <1>1, <2>5, <3>2
  <2>7. /\ DOMAIN listingNext' = DOMAIN listingNext
        /\ \A l \in DOMAIN listingNext :
              listingNext'[l] = IF l \in P THEN PendingScore ELSE listingNext[l]
    BY <2>1, <2>3 DEF ScheduleAfter
  <2>8. /\ DOMAIN dead' = DOMAIN dead \ P
        /\ \A x \in DOMAIN dead \ P : dead'[x] = dead[x]
    BY <2>1, <2>3, RemoveFacts DEF Revive
  <2>9. \A l \in P : l \notin Video
    BY <2>2, UrlAssumption
  <2>10. OneJobPerURL'
    BY <1>1, <2>5, <2>6 DEF Unique
  <2>11. PendingIffLive'
    BY <2>2, <2>6, <2>7 DEF UrlInv, PendingIffLive
  <2>12. VideoClaimKept' /\ UnclaimedOnlyWhenFull' /\ FailureCounters'
    BY <2>1, <2>5, <2>6, <2>8, <2>9 DEF UrlInv, VideoClaimKept, UnclaimedOnlyWhenFull,
       FailureCounters, TypeOK
  <2>13. DeadIsSettled'
    BY <2>1, <2>6, <2>7, <2>8, <2>9 DEF UrlInv, DeadIsSettled
  <2> QED BY <2>10, <2>11, <2>12, <2>13 DEF UrlInv
<1>24. CASE Tick
  BY <1>5, <1>24 DEF Tick, urlVars
<1>25. CASE UNCHANGED vars
  BY <1>5, <1>25 DEF vars
<1> QED BY <1>12, <1>13, <1>14, <1>15, <1>16, <1>19, <1>20, <1>21, <1>22, <1>23,
           <1>24, <1>25 DEF Next

-----------------------------------------------------------------------------

\* The inductive invariant.
IndInv == TypeOK /\ FencedJobs /\ UrlInv

\* An empty Redis, or one with the listings of an earlier build, satisfies it.
LEMMA IndInvInit == Init => IndInv
<1> SUFFICES ASSUME Init PROVE IndInv
  OBVIOUS
<1>1. /\ DOMAIN lease = {} /\ DOMAIN delayed = {} /\ DOMAIN dead = {} /\ DOMAIN barren = {}
      /\ DOMAIN listingNext = Excluded /\ \A l \in Excluded : listingNext[l] = 0
  BY DEF Init, Empty
<1>2. Jobs = {} /\ Live = {}
  BY <1>1 DEF Init, Jobs, Live
<1>3. 0 \in Score /\ 0 # PendingScore /\ Excluded \subseteq Listing
  BY ConfigAssumption, PendingAssumption, UrlAssumption DEF Score
<1>4. TypeOK
  BY <1>1, <1>3, ConfigAssumption DEF Init, TypeOK, IsMap
<1>5. FencedJobs
  BY <1>1, <1>2 DEF Init, FencedJobs
<1>6. UrlInv
  BY <1>1, <1>2, <1>3, ConfigAssumption DEF Init, UrlInv, OneJobPerURL, PendingIffLive,
     VideoClaimKept, DeadIsSettled, UnclaimedOnlyWhenFull, FailureCounters
<1> QED BY <1>4, <1>5, <1>6 DEF IndInv

\* The type invariant holds for every configuration: in particular no due time
\* is ever taken for PENDING.
THEOREM TypeCorrect == Spec => []TypeOK
<1>1. Init => TypeOK
  BY IndInvInit DEF IndInv
<1>2. TypeOK /\ [Next]_vars => TypeOK'
  BY TypeStep
<1> QED BY <1>1, <1>2, PTL DEF Spec

\* The conjunction is inductive: the fence needs the types, and what holds of a
\* URL needs the fence (a job is in one place) and the other facts about it.
THEOREM Inductive == Spec => []IndInv
<1>1. IndInv /\ [Next]_vars => IndInv'
  BY TypeStep, FencedStep, FencedIsFence, UrlStep DEF IndInv
<1> QED BY IndInvInit, <1>1, PTL DEF Spec

\* The lease set is a sound fence for every number of URLs, holders and jobs.
THEOREM Fencing == Spec => []FencedJobs
<1>1. IndInv => FencedJobs
  BY DEF IndInv
<1> QED BY Inductive, <1>1, PTL

\* "leased at most once" (frontier.go:30).
THEOREM LeasedOnce == Spec => LeasedAtMostOnce
<1>1. IndInv /\ [Next]_vars => [\A j \in DOMAIN lease' \ DOMAIN lease : j \notin issued]_vars
  <2> SUFFICES ASSUME IndInv, [Next]_vars, NEW j \in DOMAIN lease' \ DOMAIN lease
               PROVE  j \notin issued
    OBVIOUS
  <2>1. FencedJobs /\ FencedJobs' /\ TypeOK
    BY TypeStep, FencedStep DEF IndInv
  <2>2. processing' \subseteq processing \cup ready
    <3>1. ASSUME NEW k, Resolve(k) PROVE processing' \subseteq processing
      BY <3>1 DEF Resolve, Ack, Nack, Terminal, Fail, CompleteListing, Stale, Release, vars
    <3>2. ASSUME NEW u, AdmitVideo(u) \/ AdmitListing(u) \/ SeedListing(u)
          PROVE  processing' = processing
      BY <3>2 DEF AdmitVideo, AdmitListing, SeedListing, vars
    <3>3. CASE Promote \/ Reap \/ Sweep \/ RunListingScheduler \/ Tick \/ UNCHANGED vars
      BY <3>3 DEF Promote, Reap, Sweep, RunListingScheduler, Tick, vars
    <3>4. CASE Lease \/ LeaseAborted
      BY <3>4 DEF Lease, LeaseAborted, Oldest, vars
    <3> QED BY <3>1, <3>2, <3>3, <3>4 DEF Next
  <2> QED BY <2>1, <2>2 DEF FencedJobs
<1> QED BY Inductive, <1>1, PTL DEF Spec, LeasedAtMostOnce

\* Whatever order admissions, requeues, reaps and sweeps come in, no listing
\* and no claimed video is ever queued or crawled twice at once.
THEOREM NoDoubleWork == Spec => []OneJobPerURL
<1>1. IndInv => OneJobPerURL
  BY DEF IndInv, UrlInv
<1> QED BY Inductive, <1>1, PTL

\* PENDING is exact for every listing the crawler still accepts: none is queued
\* twice and none is left behind.
THEOREM PendingExact == Spec => []PendingIffLive
<1>1. IndInv => PendingIffLive
  BY DEF IndInv, UrlInv
<1> QED BY Inductive, <1>1, PTL

\* No claimed video is lost, whatever fails between claim and acknowledgement.
THEOREM NoVideoLost == Spec => []VideoClaimKept
<1>1. IndInv => VideoClaimKept
  BY DEF IndInv, UrlInv
<1> QED BY Inductive, <1>1, PTL

\* A video with work and without a claim is always the doing of a full filter.
THEOREM UnclaimedFull == Spec => []UnclaimedOnlyWhenFull
<1>1. IndInv => UnclaimedOnlyWhenFull
  BY DEF IndInv, UrlInv
<1> QED BY Inductive, <1>1, PTL

\* Dead URLs have no work, and a quarantine always ends in a revisit.
THEOREM DeadSettled == Spec => []DeadIsSettled
<1>1. IndInv => DeadIsSettled
  BY DEF IndInv, UrlInv
<1> QED BY Inductive, <1>1, PTL

\* Strikes never reach the limit unnoticed and never outlive the work.
THEOREM CountersSound == Spec => []FailureCounters
<1>1. IndInv => FailureCounters
  BY DEF IndInv, UrlInv
<1> QED BY Inductive, <1>1, PTL

\* No step takes a listing off the schedule.  The ZREM of the scheduler is dead
\* code: no due listing is blocked, since a quarantine ends exactly when its
\* listing falls due.
LEMMA ScheduleGrows ==
    IndInv /\ [Next]_vars => DOMAIN listingNext \subseteq DOMAIN listingNext'
<1> SUFFICES ASSUME IndInv, [Next]_vars
             PROVE  DOMAIN listingNext \subseteq DOMAIN listingNext'
  OBVIOUS
<1>1. ASSUME NEW k, Resolve(k) PROVE DOMAIN listingNext \subseteq DOMAIN listingNext'
  BY <1>1 DEF Resolve, Ack, Nack, Terminal, Fail, CompleteListing, Stale, Bury,
     ZAdd, vars, urlVars
<1>2. ASSUME NEW u, AdmitVideo(u) \/ AdmitListing(u) \/ SeedListing(u)
      PROVE  DOMAIN listingNext \subseteq DOMAIN listingNext'
  BY <1>2 DEF AdmitVideo, AdmitListing, SeedListing, ZAdd, vars
<1>3. CASE Promote \/ Reap \/ Sweep \/ Lease \/ LeaseAborted \/ Tick \/ UNCHANGED vars
  BY <1>3 DEF Promote, Reap, Sweep, Lease, LeaseAborted, Tick, vars, urlVars
<1>4. CASE RunListingScheduler
  <2>1. PICK P, free : /\ P \subseteq Due(listingNext)
                       /\ free = {l \in P : ~Blocked(l)}
                       /\ listingNext' = ScheduleAfter(P, free)
    BY <1>4, SchedulerFacts DEF IndInv
  <2>2. free = P
    <3>1. \A l \in P : l \in Listing /\ l \in DOMAIN listingNext /\ listingNext[l] <= now
      BY <2>1 DEF IndInv, TypeOK, IsMap, Due
    <3> QED BY <2>1, <3>1 DEF Blocked, IndInv, UrlInv, DeadIsSettled, TypeOK, IsMap
  <2> QED BY <2>1, <2>2 DEF ScheduleAfter
<1> QED BY <1>1, <1>2, <1>3, <1>4 DEF Next

\* A listing is New to at most one of its parents.
THEOREM NewOnce == Spec => NewAtMostOnce
<1>1. IndInv /\ [Next]_vars => [DOMAIN listingNext \subseteq DOMAIN listingNext']_vars
  BY ScheduleGrows
<1> QED BY Inductive, <1>1, PTL DEF Spec, NewAtMostOnce

-----------------------------------------------------------------------------
(* Frontier implements Facts.                                              *)

\* z is a function: ZADD and ZREM say all there is to know of it.
IsFun(z) == z = [x \in DOMAIN z |-> z[x]]

\* The schedule and the dead entries, whose values Facts keeps.
Maps == IsFun(dead) /\ IsFun(listingNext)

\* Every step keeps them functions.
LEMMA MapsStep ==
    ASSUME IndInv, Maps, [Next]_vars
    PROVE  Maps'
<1>1. \A z, m, t : IsFun(ZAdd(z, m, t))
  BY DEF IsFun, ZAdd
<1>2. \A z, M : IsFun(Remove(z, M))
  BY DEF IsFun, Remove, Restrict
<1>3. \A P, free : IsFun(ScheduleAfter(P, free))
  BY DEF IsFun, ScheduleAfter
<1>4. ASSUME NEW u, AdmitVideo(u) \/ AdmitListing(u) \/ SeedListing(u)
      PROVE  Maps'
  BY <1>1, <1>2, <1>4 DEF AdmitVideo, AdmitListing, SeedListing, Revive, Maps, vars
<1>5. ASSUME NEW u, NEW until, Bury(u, until)
      PROVE  Maps'
  BY <1>1, <1>5 DEF Bury, Maps
<1>6. ASSUME NEW j, Resolve(j)
      PROVE  Maps'
  <2>1. CASE UNCHANGED <<dead, listingNext>>
    BY <2>1 DEF Maps
  <2>2. ASSUME NEW found, CompleteListing(j, found)
        PROVE  Maps'
    <3>1. \/ UNCHANGED vars
          \/ Revive({j.url}) /\ \E t : listingNext' = ZAdd(listingNext, j.url, t)
      BY <2>2 DEF CompleteListing, Stale
    <3> QED BY <1>1, <1>2, <2>1, <3>1 DEF Revive, Maps, vars
  <2>3. ASSUME NEW class, Fail(j, class)
        PROVE  Maps'
    <3>1. UNCHANGED <<dead, listingNext>> \/ \E until : Bury(j.url, until)
      BY <2>3 DEF Fail, Stale, vars
    <3> QED BY <1>5, <2>1, <3>1
  <2>4. CASE Ack(j) \/ Nack(j)
    BY <2>1, <2>4 DEF Ack, Nack, Stale, vars, urlVars
  <2>5. CASE Terminal(j)
    <3>1. UNCHANGED <<dead, listingNext>> \/ \E until : Bury(j.url, until)
      BY <2>5 DEF Terminal, Stale, vars
    <3> QED BY <1>5, <2>1, <3>1
  <2> QED BY <1>6, <2>2, <2>3, <2>4, <2>5 DEF Resolve
<1>7. CASE \/ Lease \/ LeaseAborted \/ Promote \/ Reap \/ Sweep \/ Tick \/ UNCHANGED vars
  BY <1>7 DEF Lease, LeaseAborted, Promote, Reap, Sweep, Tick, Maps, vars, urlVars
<1>8. CASE RunListingScheduler
  <2>1. PICK P, free : Revive(free) /\ listingNext' = ScheduleAfter(P, free)
    BY <1>8, SchedulerFacts DEF IndInv
  <2> QED BY <1>2, <1>3, <2>1 DEF Revive, Maps
<1> QED BY <1>4, <1>6, <1>7, <1>8 DEF Next

\* HDEL of URLs that are not dead changes nothing.
LEMMA ReviveNobody ==
    ASSUME Maps, NEW U, U \cap DOMAIN dead = {}, Revive(U)
    PROVE  dead' = dead
<1>1. DOMAIN dead \ U = DOMAIN dead
  OBVIOUS
<1> QED BY <1>1 DEF Revive, Remove, Restrict, Maps, IsFun

\* PROMOTE, REAP, SWEEP, NACK and a FAIL that requeues leave every URL its work.
LEMMA RequeueLive ==
    ASSUME IndInv, Promote \/ Reap \/ Sweep
    PROVE  Live' = Live /\ UNCHANGED <<listingNext, barren, dead, bloom, now>>
<1>1. TypeOK /\ Fence /\ Unique(Jobs, {}) /\ Live = URLs(Jobs) /\ Live' = URLs(Jobs')
  BY FencedIsFence, LiveRestated DEF IndInv, Unique
<1>2. ASSUME NEW P \in SUBSET Jobs, NEW N, Replaces(N, P, seq, seq'), Jobs' = (Jobs \ P) \cup N
      PROVE  Live' = Live
  BY <1>1, <1>2, RequeueURLs
<1>3. CASE Promote
  <2>1. PICK P, N :
              /\ P \in SUBSET DOMAIN delayed
              /\ Replaces(N, P, seq, seq')
              /\ ready' = ready \cup N
              /\ DOMAIN delayed' = DOMAIN delayed \ P
              /\ UNCHANGED <<processing, urlVars, now>>
    BY <1>1, <1>3, PromoteFacts
  <2>2. Jobs' = (Jobs \ P) \cup N /\ P \in SUBSET Jobs
    BY <1>1, <2>1 DEF Fence, WeakFence, Jobs
  <2> QED BY <1>2, <2>1, <2>2 DEF urlVars
<1>4. CASE Reap
  <2>1. PICK P, N :
              /\ P \in SUBSET DOMAIN lease
              /\ Replaces(N, P, seq, seq')
              /\ ready' = ready \cup N
              /\ processing' = processing \ P
              /\ UNCHANGED <<delayed, urlVars, now>>
    BY <1>1, <1>4, ReapFacts
  <2>2. Jobs' = (Jobs \ P) \cup N /\ P \in SUBSET Jobs
    BY <1>1, <2>1 DEF Fence, WeakFence, Jobs
  <2> QED BY <1>2, <2>1, <2>2 DEF urlVars
<1>5. CASE Sweep
  <2>1. PICK P, N :
              /\ P \in SUBSET (processing \ DOMAIN lease)
              /\ Replaces(N, P, seq, seq')
              /\ ready' = ready \cup N
              /\ processing' = processing \ P
              /\ UNCHANGED <<delayed, urlVars, now>>
    BY <1>1, <1>5, SweepFacts
  <2>2. Jobs' = (Jobs \ P) \cup N /\ P \in SUBSET Jobs
    BY <1>1, <2>1 DEF Fence, WeakFence, Jobs
  <2> QED BY <1>2, <2>1, <2>2 DEF urlVars
<1> QED BY <1>3, <1>4, <1>5

\* A settled job takes the work of its URL with it, unless the URL is a video
\* outside the filter.
LEMMA SettleLive ==
    ASSUME IndInv, NEW j \in issued, Settles(j)
    PROVE  /\ j.url \in URL /\ j.url \in Live
           /\ \/ Live' = Live \ {j.url}
              \/ j.url \in Video \ bloom /\ Live' = Live
<1>1. j \in Jobs /\ Jobs' = Jobs \ {j} /\ Unique(Jobs, Claimed) /\ j.url \in URL
  BY FencedIsFence, SettleJobs, LiveRestated DEF IndInv, UrlInv, TypeOK, Job
<1>2. /\ Live' \subseteq Live /\ Live \subseteq Live' \cup {j.url} /\ j.url \in Live
      /\ j.url \in Claimed => j.url \notin Live'
  BY <1>1, SettleURLs, LiveRestated DEF URLs
<1> QED BY <1>1, <1>2 DEF Claimed, URL

\* A step that leaves the facts and the clock alone.
LEMMA FactsStutter ==
    ASSUME Live' = Live, UNCHANGED <<listingNext, barren, dead, bloom, now>>
    PROVE  [F!FNext]_(F!fvars)
BY DEF F!fvars, F!facts

\* Giving up a URL (TERMINAL, and FAIL at the limit of strikes).
LEMMA BuryIsGiveUp ==
    ASSUME IndInv, NEW j \in issued, j.url \notin Excluded, Settles(j),
           Bury(j.url, QuarantineUntil(j.url)), UNCHANGED barren
    PROVE  F!FNext
<1> DEFINE u == j.url
<1>1. /\ u \in (Video \cup Listing) \ Excluded /\ u \in Live
      /\ Live' = Live \ {u} \/ (u \in Video \ bloom /\ Live' = Live)
  BY SettleLive DEF URL
<1>2. QuarantineUntil(u) = IF u \in Video THEN 0 ELSE now + QuarantineListing
  BY DEF QuarantineUntil, Class
<1>3. UNCHANGED <<bloom, now>>
  BY DEF Settles
<1>4. F!GiveUp(u)
  BY <1>1, <1>2, <1>3 DEF F!GiveUp, F!Put, Bury, ZAdd
<1> QED BY <1>1, <1>4 DEF F!FNext

\* Every step of the frontier is a step of Facts, or changes no fact.
LEMMA FactsStep ==
    ASSUME IndInv, Maps, [Next]_vars
    PROVE  [F!FNext]_(F!fvars)
<1>1. TypeOK /\ FencedJobs /\ UrlInv /\ Fence
  BY FencedIsFence DEF IndInv
<1>2. \A u : Mint(1, u).url = u
  BY DEF Mint
<1>3. ASSUME UNCHANGED vars PROVE [F!FNext]_(F!fvars)
  <2>1. Live' = Live /\ UNCHANGED <<listingNext, barren, dead, bloom, now>>
    BY <1>3 DEF vars, Live, Jobs
  <2> QED BY <2>1, FactsStutter
<1>4. ASSUME NEW v \in Video, AdmitVideo(v)
      PROVE  [F!FNext]_(F!fvars)
  <2>1. CASE Blocked(v) /\ UNCHANGED vars
    BY <1>3, <2>1
  <2>2. CASE ~Blocked(v)
    <3>1. v \notin DOMAIN dead
      BY <1>1, <2>2 DEF Blocked, UrlInv, DeadIsSettled
    <3>2. Revive({v}) /\ UNCHANGED <<listingNext, barren, now, processing, delayed>>
      BY <1>4, <2>2 DEF AdmitVideo
    <3>3. dead' = dead
      BY <3>1, <3>2, ReviveNobody
    <3>4. CASE BloomHas(v)
      <4>1. Live' = Live /\ bloom' = bloom
        BY <1>4, <2>2, <3>4 DEF AdmitVideo, Live, Jobs
      <4> QED BY <3>2, <3>3, <4>1, FactsStutter
    <3>5. CASE ~BloomHas(v)
      <4>1. /\ bloom' \in {bloom, bloom \cup {v}} /\ v \notin bloom
            /\ Jobs' = Jobs \cup {Mint(1, v)}
        BY <1>4, <2>2, <3>5 DEF AdmitVideo, BloomHas, Jobs
      <4>2. Live' = Live \cup {v}
        BY <1>2, <4>1 DEF Live
      <4>3. F!ClaimVideo(v)
        BY <3>1, <3>2, <3>3, <4>1, <4>2 DEF F!ClaimVideo, F!Quarantined
      <4> QED BY <4>3 DEF F!FNext
    <3> QED BY <3>4, <3>5
  <2> QED BY <1>4, <2>1, <2>2 DEF AdmitVideo
<1>5. ASSUME NEW P \in SUBSET Listing, P # {}, P \cap Live = {},
             \A l \in P : l \in DOMAIN listingNext => listingNext[l] <= now,
             \A l \in P : ~Blocked(l),
             listingNext' = [l \in DOMAIN listingNext \cup P |->
                                IF l \in P THEN PendingScore ELSE listingNext[l]],
             Revive(P), Live' = Live \cup P, UNCHANGED <<barren, bloom, now>>
      PROVE  F!FNext
  <2>1. F!ClaimListings(P)
    BY <1>5 DEF F!ClaimListings, F!Quarantined, F!Without, F!Restrict, Blocked, Revive,
       Remove, Restrict
  <2> QED BY <1>5, <2>1 DEF F!FNext
<1>6. ASSUME NEW l \in Listing \ Excluded, AdmitListing(l)
      PROVE  [F!FNext]_(F!fvars)
  <2>1. CASE Blocked(l) /\ UNCHANGED vars
    BY <1>3, <2>1
  <2>2. CASE ~Blocked(l) /\ NotDue(l)
    <3>1. /\ Revive({l})
          /\ UNCHANGED <<listingNext, barren, bloom, now, ready, processing, delayed>>
      BY <1>6, <2>2 DEF AdmitListing
    <3>2. l \notin DOMAIN dead
      BY <1>1, <2>2 DEF Blocked, NotDue, UrlInv, DeadIsSettled, TypeOK, IsMap
    <3>3. dead' = dead
      BY <3>1, <3>2, ReviveNobody
    <3>4. Live' = Live
      BY <3>1 DEF Live, Jobs
    <3> QED BY <3>1, <3>3, <3>4, FactsStutter
  <2>3. CASE ~Blocked(l) /\ ~NotDue(l)
    <3>1. /\ Revive({l}) /\ ready' = ready \cup {Mint(1, l)}
          /\ listingNext' = ZAdd(listingNext, l, PendingScore)
          /\ UNCHANGED <<barren, bloom, now, processing, delayed>>
      BY <1>6, <2>3 DEF AdmitListing
    <3>2. now \in Nat /\ now <= MaxNow /\ PendingScore > now
      BY <1>1, PendingAssumption, ConfigAssumption DEF TypeOK
    <3>3. l \in DOMAIN listingNext => listingNext[l] <= now
      BY <1>1, <2>3, <3>2, PendingAssumption, ConfigAssumption
         DEF NotDue, TypeOK, IsMap, Score
    <3>4. l \notin Live
      BY <1>1, <3>2, <3>3, PendingAssumption DEF UrlInv, PendingIffLive
    <3>5. Live' = Live \cup {l}
      BY <1>2, <3>1 DEF Live, Jobs
    <3>6. listingNext' = [x \in DOMAIN listingNext \cup {l} |->
                             IF x \in {l} THEN PendingScore ELSE listingNext[x]]
      BY <3>1 DEF ZAdd
    <3> QED BY <1>5, <2>3, <3>1, <3>3, <3>4, <3>5, <3>6
  <2> QED BY <1>6, <2>1, <2>2, <2>3 DEF AdmitListing
<1>7. CASE SeedListing(BaseUrl)
  <2>1. Live' = Live /\ UNCHANGED <<barren, dead, bloom, now>>
    BY <1>7 DEF SeedListing, Live, Jobs
  <2>2. CASE BaseUrl \in DOMAIN listingNext
    <3>1. listingNext' = listingNext
      BY <1>7, <2>2 DEF SeedListing
    <3> QED BY <2>1, <3>1, FactsStutter
  <2>3. CASE BaseUrl \notin DOMAIN listingNext
    <3>1. F!ScheduleSeed(BaseUrl)
      BY <1>7, <2>1, <2>3 DEF SeedListing, F!ScheduleSeed, F!Put, ZAdd
    <3> QED BY <3>1 DEF F!FNext
  <2> QED BY <2>2, <2>3
<1>8. CASE Lease \/ LeaseAborted
  <2>1. Jobs' = Jobs /\ UNCHANGED <<listingNext, barren, dead, bloom, now>>
    BY <1>8 DEF Lease, LeaseAborted, Oldest, Jobs, urlVars, vars
  <2>2. Live' = Live
    BY <2>1 DEF Live
  <2> QED BY <2>1, <2>2, FactsStutter
<1>9. ASSUME NEW j \in issued, j \in DOMAIN lease, processing' = processing \ {j},
             \/ ready' = ready \cup {Mint(1, j.url)} /\ DOMAIN delayed' = DOMAIN delayed
             \/ ready' = ready /\ DOMAIN delayed' = DOMAIN delayed \cup {Mint(1, j.url)},
             UNCHANGED <<listingNext, barren, dead, bloom, now>>
      PROVE  [F!FNext]_(F!fvars)
  <2>1. j \in Jobs /\ Jobs' = (Jobs \ {j}) \cup {Mint(1, j.url)}
    BY <1>1, <1>9 DEF Fence, WeakFence, Jobs
  <2>2. Live' = Live
    BY <1>2, <2>1 DEF Live
  <2> QED BY <1>9, <2>2, FactsStutter
<1>10. ASSUME NEW j \in issued, Resolve(j)
      PROVE  [F!FNext]_(F!fvars)
  <2>1. ASSUME Ack(j), j.url \in Video \cup Excluded
        PROVE  [F!FNext]_(F!fvars)
    <3>1. CASE UNCHANGED vars
      BY <1>3, <3>1
    <3>2. CASE Settles(j) /\ UNCHANGED <<dead, listingNext, barren>>
      <4>1. F!Acknowledge(j.url)
        BY <2>1, <3>2, SettleLive DEF F!Acknowledge, Settles
      <4> QED BY <2>1, <4>1 DEF F!FNext
    <3> QED BY <2>1, <3>1, <3>2, AckFacts
  <2>2. ASSUME Nack(j)
        PROVE  [F!FNext]_(F!fvars)
    <3>1. CASE Stale(j)
      BY <1>3, <3>1 DEF Stale
    <3>2. CASE ~Stale(j)
      BY <1>1, <1>9, <2>2, <3>2, NackFacts DEF urlVars
    <3> QED BY <3>1, <3>2
  <2>3. ASSUME Terminal(j), j.url \notin Excluded
        PROVE  [F!FNext]_(F!fvars)
    BY <1>3, <2>3, TerminalFacts, BuryIsGiveUp
  <2>4. ASSUME NEW class, Fail(j, class), j.url \notin Excluded
        PROVE  [F!FNext]_(F!fvars)
    <3>1. \/ UNCHANGED vars
          \/ Settles(j) /\ Bury(j.url, QuarantineUntil(j.url)) /\ UNCHANGED barren
          \/ /\ j \in DOMAIN lease
             /\ DOMAIN delayed' = DOMAIN delayed \cup {Mint(1, j.url)}
             /\ processing' = processing \ {j}
             /\ UNCHANGED <<ready, dead, listingNext, barren, bloom, now>>
      BY <1>1, <2>4, FailFacts
    <3> QED BY <1>3, <1>9, <2>4, <3>1, BuryIsGiveUp
  <2>5. ASSUME NEW found \in BOOLEAN, CompleteListing(j, found), j.url \in Listing,
               j.url \notin Excluded
        PROVE  [F!FNext]_(F!fvars)
    <3> DEFINE l == j.url
               b == BarrenAfter(l, found)
               ttl == ListingTTL(BaseTTL(l), b)
    <3>1. CASE Stale(j)
      BY <1>3, <3>1 DEF Stale
    <3>2. CASE ~Stale(j)
      <4>1. /\ Settles(j) /\ Revive({l})
            /\ listingNext' = ZAdd(listingNext, l, now + ttl)
            /\ barren' = ZAdd(barren, l, b)
        BY <2>5, <3>2, RemoveFacts DEF CompleteListing, Release, Settles
      <4>2. ttl \in 0..ListingMaxTTL
        BY ConfigAssumption DEF ListingTTL
      <4>3. b \in {0, IF l \in DOMAIN barren THEN barren[l] + 1 ELSE 1}
        BY <2>5 DEF BarrenAfter
      <4>4. l \in Live /\ Live' = Live \ {l} /\ UNCHANGED <<bloom, now>>
        BY <2>5, <4>1, SettleLive, UrlAssumption DEF Settles
      <4>5. {l} \cap DOMAIN dead = {}
        BY <1>1, <2>5, <4>4 DEF UrlInv, DeadIsSettled
      <4>6. dead' = dead
        BY <4>1, <4>5, ReviveNobody
      <4> HIDE DEF b, ttl
      <4>7. F!CompleteVisit(l)
        BY <4>1, <4>2, <4>3, <4>4, <4>6 DEF F!CompleteVisit, F!Put, ZAdd
      <4> QED BY <2>5, <4>7 DEF F!FNext
    <3> QED BY <3>1, <3>2
  <2> QED BY <1>10, <2>1, <2>2, <2>3, <2>4, <2>5 DEF Resolve
<1>11. CASE Promote \/ Reap \/ Sweep
  BY <1>11, RequeueLive, FactsStutter
<1>12. CASE RunListingScheduler
  <2>1. PICK P, free, N : /\ P \subseteq Due(listingNext)
                          /\ free = {l \in P : ~Blocked(l)}
                          /\ NewJobs(N, free, seq, seq')
                          /\ ready' = ready \cup N
                          /\ Revive(free)
                          /\ listingNext' = ScheduleAfter(P, free)
                          /\ UNCHANGED <<processing, delayed, barren, bloom, now>>
    BY <1>1, <1>12, SchedulerFacts
  <2>2. \A l \in P : l \in DOMAIN listingNext /\ listingNext[l] <= now /\ l \in Listing
    BY <1>1, <2>1 DEF Due, TypeOK, IsMap
  <2>3. free = P
    BY <1>1, <2>1, <2>2 DEF Blocked, UrlInv, DeadIsSettled, TypeOK, IsMap
  <2>4. now <= MaxNow /\ now \in Nat /\ PendingScore > now
    BY <1>1, PendingAssumption, ConfigAssumption DEF TypeOK
  <2>5. P \cap Live = {}
    BY <1>1, <2>2, <2>4, PendingAssumption DEF UrlInv, PendingIffLive
  <2>6. Live' = Live \cup P
    <3>1. URLs(N) = P
      BY <2>1, <2>3 DEF NewJobs, URLs
    <3> QED BY <2>1, <3>1 DEF Live, Jobs, URLs
  <2>7. listingNext' = [l \in DOMAIN listingNext \cup P |->
                           IF l \in P THEN PendingScore ELSE listingNext[l]]
    <3>1. DOMAIN listingNext \cup P = DOMAIN listingNext
      BY <2>2
    <3> QED BY <2>1, <2>3, <3>1 DEF ScheduleAfter
  <2>8. CASE P = {}
    <3>1. dead' = dead
      BY <2>1, <2>3, <2>8, ReviveNobody
    <3>2. listingNext' = listingNext
      BY <2>7, <2>8 DEF Maps, IsFun
    <3> QED BY <2>1, <2>6, <2>8, <3>1, <3>2, FactsStutter
  <2>9. CASE P # {}
    BY <1>5, <2>1, <2>2, <2>3, <2>5, <2>6, <2>7, <2>9
  <2> QED BY <2>8, <2>9
<1>13. CASE Tick
  <2>1. Live' = Live /\ UNCHANGED <<listingNext, barren, dead, bloom>>
    BY <1>13 DEF Tick, Live, Jobs, urlVars
  <2>2. F!Pass
    BY <1>13, <2>1 DEF Tick, F!Pass, F!facts
  <2> QED BY <2>2 DEF F!FNext
<1> QED BY <1>3, <1>4, <1>6, <1>7, <1>8, <1>10, <1>11, <1>12, <1>13 DEF Next

\* Frontier implements Facts, for every configuration.
THEOREM FrontierRefines == Spec => ImplementsFacts
<1>1. Init => F!FInit /\ Maps
  BY DEF Init, F!FInit, Live, Jobs, Empty, Maps, IsFun
<1>2. IndInv /\ Maps /\ [Next]_vars => Maps'
  BY MapsStep
<1>3. IndInv /\ Maps /\ [Next]_vars => [F!FNext]_(F!fvars)
  BY FactsStep
<1> QED BY Inductive, <1>1, <1>2, <1>3, PTL DEF Spec, ImplementsFacts, F!FSpec

=============================================================================
