-------------------------------- MODULE Facts --------------------------------
(***************************************************************************)
(* What the frontier promises about the facts it keeps per URL, without    *)
(* jobs, leases, retries and batches: the schedule of the listings, the    *)
(* dead entries, the filter, and which URLs have work.  These are the      *)
(* facts that checkpoints save (src/internal/storage/crawl_state.go).      *)
(* Frontier is shown to implement this specification; CrawlState builds on *)
(* it.                                                                     *)
(***************************************************************************)
EXTENDS Integers, FiniteSets, Functions

CONSTANTS
    Video, Listing, BaseUrl, Excluded,
    ListingMaxTTL, QuarantineListing, PendingScore, MaxNow

VARIABLES
    next,      \* crawler:listing:next
    barren,    \* crawler:listing:barren
    dead,      \* crawler:dead
    bloom,     \* crawler:bloom
    work,      \* the URLs with a job in any structure
    now

facts == <<next, barren, dead, bloom, work>>

fvars == <<facts, now>>

Put(f, x, y) == [z \in DOMAIN f \cup {x} |-> IF z = x THEN y ELSE f[z]]

Without(f, S) == Restrict(f, DOMAIN f \ S)

Quarantined(u) == u \in DOMAIN dead /\ (dead[u] = 0 \/ dead[u] > now)

\* A video gets a job and, unless the filter refuses, its claim.
ClaimVideo(v) ==
    /\ ~Quarantined(v) /\ v \notin bloom
    /\ work' = work \cup {v}
    /\ bloom' \in {bloom, bloom \cup {v}}
    /\ UNCHANGED <<next, barren, dead, now>>

\* Due listings, or one that was never seen, get jobs and become PENDING.
ClaimListings(P) ==
    /\ P \cap work = {}
    /\ \A l \in P : l \in DOMAIN next => next[l] <= now
    /\ \A l \in P : ~Quarantined(l)
    /\ next' = [l \in DOMAIN next \cup P |->
                   IF l \in P THEN PendingScore ELSE next[l]]
    /\ dead' = Without(dead, P)
    /\ work' = work \cup P
    /\ UNCHANGED <<barren, bloom, now>>

ScheduleSeed(l) ==
    /\ l \notin DOMAIN next
    /\ next' = Put(next, l, 0)
    /\ UNCHANGED <<barren, dead, bloom, work, now>>

\* A visited listing is due again within ListingMaxTTL.
CompleteVisit(l) ==
    /\ l \in work
    /\ work' = work \ {l}
    /\ \E ttl \in 0..ListingMaxTTL : next' = Put(next, l, now + ttl)
    /\ \E b \in {0, IF l \in DOMAIN barren THEN barren[l] + 1 ELSE 1} :
          barren' = Put(barren, l, b)
    /\ UNCHANGED <<dead, bloom, now>>

\* A URL is given up: a video for good, a listing for QuarantineListing.  A
\* video outside the filter can have several jobs and keep one of them.
GiveUp(u) ==
    /\ u \in work
    /\ \/ work' = work \ {u}
       \/ u \in Video \ bloom /\ UNCHANGED work
    /\ LET until == IF u \in Video THEN 0 ELSE now + QuarantineListing
       IN  /\ dead' = Put(dead, u, until)
           /\ next' = IF until > 0 THEN Put(next, u, until) ELSE next
    /\ UNCHANGED <<barren, bloom, now>>

\* A video is done, or an excluded listing skipped.
Acknowledge(u) ==
    /\ u \in work \cap (Video \cup Excluded)
    /\ \/ work' = work \ {u}
       \/ u \in Video \ bloom /\ UNCHANGED work
    /\ UNCHANGED <<next, barren, dead, bloom, now>>

Pass ==
    /\ now < MaxNow
    /\ now' = now + 1
    /\ UNCHANGED facts

FInit ==
    /\ next = [l \in Excluded |-> 0]
    /\ barren = [u \in {} |-> 0]
    /\ dead = [u \in {} |-> 0]
    /\ bloom = {} /\ work = {}
    /\ now = 1

FNext ==
    \/ \E v \in Video : ClaimVideo(v)
    \/ \E P \in (SUBSET Listing) \ {{}} : ClaimListings(P)
    \/ ScheduleSeed(BaseUrl)
    \/ \E l \in Listing \ Excluded : CompleteVisit(l)
    \/ \E u \in (Video \cup Listing) \ Excluded : GiveUp(u)
    \/ \E u \in Video \cup Excluded : Acknowledge(u)
    \/ Pass

FSpec == FInit /\ [][FNext]_fvars

-----------------------------------------------------------------------------

\* Every listing with work is PENDING and no other is, except an excluded one;
\* a dead listing is scheduled for the end of its quarantine; a dead video in
\* the filter has no work.
FactsSound ==
    /\ \A l \in Listing \cap work : l \in DOMAIN next /\ next[l] = PendingScore
    /\ \A l \in DOMAIN next \ Excluded : next[l] = PendingScore => l \in work
    /\ \A l \in DOMAIN dead \cap Listing :
          /\ dead[l] > 0 /\ l \notin work
          /\ l \in DOMAIN next /\ next[l] = dead[l]
    /\ \A v \in DOMAIN dead \cap Video : dead[v] = 0 /\ v \notin work \cap bloom

=============================================================================
