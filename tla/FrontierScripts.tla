--------------------------- MODULE FrontierScripts ---------------------------
(***************************************************************************)
(* The Lua scripts of src/internal/storage/frontier.go as the sequences of *)
(* Redis commands they issue, on lists, sorted sets and hashes.  A script  *)
(* runs without interleaving, but nothing undoes its writes when a command *)
(* raises an error: the call then ends with a prefix of its commands.      *)
(*                                                                         *)
(* Without such errors the scripts implement Frontier, where a call is one *)
(* step on sets of jobs.  What a script decides before its first write is  *)
(* taken from there.                                                       *)
(***************************************************************************)
EXTENDS Integers, SequencesExt

CONSTANTS
    Video, Listing, Seed, BaseUrl, Collides, BloomCapacity,
    LeaseTimeout, MaxStrikes, RateLimitBackoff, StrikeBackoff, ListingBaseTTL,
    SeedTTL, ListingMaxTTL, QuarantineListing, SchedulerBatchLimit,
    PromoteBatchLimit, ReapBatchLimit, SweepBatchLimit, PendingScore, MaxNow,
    MaxJob,
    MaxAborts       \* bound on scripts that end with an error in the middle

VARIABLES
    db,        \* the keys crawler:*
    now,
    issued,    \* history: jobs that were given a lease
    acked,     \* history: URLs whose job an Ack removed
    aborts

vars == <<db, now, issued, acked, aborts>>

\* A counter is 0 where the hash has no field.
Counters(hash) ==
    [u \in Video \cup Listing |-> IF u \in DOMAIN hash THEN hash[u] ELSE 0]

\* Redis starts empty, without listings of an earlier build.
F == INSTANCE Frontier WITH
        Excluded <- {}, seq <- db.seq,
        ready <- ToSet(db.ready), processing <- ToSet(db.processing),
        lease <- db.lease, delayed <- db.delayed, dead <- db.dead,
        attempts <- Counters(db.attempts), strikes <- Counters(db.strikes),
        listingNext <- db.listingNext, barren <- db.barren, bloom <- db.bloom

ASSUME FrontierAssumption ==
    F!UrlAssumption /\ F!ConfigAssumption /\ F!PendingAssumption

-----------------------------------------------------------------------------
(* Commands.                                                               *)

\* The new job of a script, with the id that its last INCR returned.
Item(d, url) == [id |-> d.seq, url |-> url]

Without(map, m) == F!Remove(map, {m})

Exec(d, c) ==
    CASE c[1] = "INCR"  -> [d EXCEPT !.seq = @ + 1]
      [] c[1] = "LPUSH" -> [d EXCEPT !.ready = <<Item(d, c[2])>> \o @]
      [] c[1] = "DELAY" -> [d EXCEPT !.delayed = F!ZAdd(@, Item(d, c[2]), c[3])]
      [] c[1] = "LREM"  -> [d EXCEPT ![c[2]] = RemoveFirst(@, c[3])]
      [] c[1] = "LMOVE" -> [d EXCEPT !.ready = Front(@),
                                     !.processing = <<Last(d.ready)>> \o @]
      [] c[1] = "SET"   -> [d EXCEPT ![c[2]] = F!ZAdd(@, c[3], c[4])]
      [] c[1] = "DEL"   -> [d EXCEPT ![c[2]] = Without(@, c[3])]
      [] c[1] = "BFADD" -> [d EXCEPT !.bloom = IF F!BloomFull THEN @
                                               ELSE @ \cup {c[2]}]
      [] c[1] = "NONE"  -> d

Incr == <<"INCR">>

Push(url) == <<"LPUSH", url>>

\* ZADD or HSET, ZREM or HDEL, by the key.
Set(key, field, value) == <<"SET", key, field, value>>

Del(key, field) == <<"DEL", key, field>>

\* HINCRBY.
Bump(key, url) == Set(key, url, Counters(db[key])[url] + 1)

\* LREM with count 1.
Drop(list, j) == <<"LREM", list, j>>

Unprocess(j) == Drop("processing", j)

\* A command that an if of the script may skip.
When(condition, command) == IF condition THEN command ELSE <<"NONE">>

\* Every resolution stops if the ZREM on the lease that it starts with finds
\* nothing.
Fenced(j, script) == IF j \in DOMAIN db.lease THEN script ELSE <<>>

-----------------------------------------------------------------------------
(* Scripts.                                                                *)

luaLease ==
    IF db.ready = <<>> THEN <<>>
    ELSE <<<<"LMOVE">>, Set("lease", Last(db.ready), now + LeaseTimeout)>>

luaAdmitVideo_KeepsDuplicate(v) ==
    IF F!Blocked(v) THEN <<>>
    ELSE <<Del("dead", v), Incr, Push(v), When(~F!BloomHas(v), <<"BFADD", v>>)>>

luaAdmitVideo(v) ==
    IF F!Blocked(v) THEN <<>>
    ELSE <<Del("dead", v), Incr, Push(v),
           IF F!BloomHas(v) THEN Drop("ready", F!Mint(1, v))
           ELSE <<"BFADD", v>>>>

luaAdmitListing(l) ==
    IF F!Blocked(l) THEN <<>>
    ELSE IF F!NotDue(l) THEN <<Del("dead", l)>>
    ELSE <<Del("dead", l), Incr, Push(l), Set("listingNext", l, PendingScore)>>

luaAck(j) ==
    Fenced(j, <<Del("lease", j), Unprocess(j),
                Del("attempts", j.url), Del("strikes", j.url)>>)

luaNack_SourceFirst(j) ==
    Fenced(j, <<Del("lease", j), Unprocess(j), Incr, Push(j.url)>>)

luaNack_NoIncr(j) ==
    Fenced(j, <<Del("lease", j), Push(j.url), Unprocess(j)>>)

luaNack(j) ==
    Fenced(j, <<Del("lease", j), Incr, Push(j.url), Unprocess(j)>>)

luaCompleteListing(j, found) ==
    LET l == j.url
        b == F!BarrenAfter(l, found)
    IN  Fenced(j, <<Del("lease", j), Set("barren", l, b),
                    Set("listingNext", l, now + F!ListingTTL(F!BaseTTL(l), b)),
                    Del("dead", l), Unprocess(j),
                    Del("attempts", l), Del("strikes", l)>>)

\* The schedule entry of a URL that dies, if it has a quarantine.
Quarantine(u) ==
    When(F!QuarantineUntil(u) > 0, Set("listingNext", u, F!QuarantineUntil(u)))

luaTerminal(j) ==
    Fenced(j, <<Del("lease", j), Quarantine(j.url),
                Set("dead", j.url, F!QuarantineUntil(j.url)), Unprocess(j),
                Del("attempts", j.url), Del("strikes", j.url)>>)

luaFail(j, class) ==
    LET u          == j.url
        strikeable == class = "strikeable"
        a          == Counters(db.attempts)[u] + 1
        s          == Counters(db.strikes)[u] + 1
        strike     == When(strikeable, Bump("strikes", u))
    IN  Fenced(j,
          IF strikeable /\ s >= MaxStrikes
          THEN <<Del("lease", j), Bump("attempts", u), strike, Quarantine(u),
                 Set("dead", u, F!QuarantineUntil(u)), Unprocess(j),
                 Del("attempts", u), Del("strikes", u)>>
          ELSE <<Del("lease", j), Bump("attempts", u), strike, Incr,
                 <<"DELAY", u, now + F!Rung(F!Ladder(class), a)>>, Unprocess(j)>>)

\* Loops over a batch: the commands for each member.
luaPromote(b) ==
    [i \in DOMAIN b |-> <<Incr, Push(b[i].url), Del("delayed", b[i])>>]

luaReap(b) ==
    [i \in DOMAIN b |->
        <<Del("lease", b[i]), Incr, Push(b[i].url), Unprocess(b[i])>>]

\* The members without a lease of the last `limit' of the list.
luaSweep ==
    LET n == Len(db.processing)
        w == IF n > SweepBatchLimit THEN SweepBatchLimit ELSE n
    IN  [i \in 1..w |->
            LET j == db.processing[n - w + i]
            IN  IF j \in DOMAIN db.lease THEN <<>>
                ELSE <<Incr, Push(j.url), Unprocess(j)>>]

\* A page of due listings: a dead one is put off, the others get a job.
luaListingScheduler(b) ==
    [i \in DOMAIN b |->
        IF F!Blocked(b[i])
        THEN <<IF db.dead[b[i]] = 0 THEN Del("listingNext", b[i])
               ELSE Set("listingNext", b[i], db.dead[b[i]])>>
        ELSE <<Del("dead", b[i]), Incr, Push(b[i]),
               Set("listingNext", b[i], PendingScore)>>]

-----------------------------------------------------------------------------
(* Calls.                                                                  *)

\* The keys after each number of the commands of a script.
After(d, script) ==
    LET state[k \in 0..Len(script)] ==
            IF k = 0 THEN d ELSE Exec(state[k - 1], script[k])
    IN  state

\* The keys after each number of turns of a loop.
Turns(loop) ==
    LET state[m \in 0..Len(loop)] ==
            IF m = 0 THEN db
            ELSE After(state[m - 1], loop[m])[Len(loop[m])]
    IN  state

Whole(loop) == db' = Turns(loop)[Len(loop)] /\ UNCHANGED aborts

\* The call ends with an error after one of its commands.
Aborted(loop) ==
    /\ aborts < MaxAborts
    /\ aborts' = aborts + 1
    /\ \E m \in DOMAIN loop :
          \E k \in DOMAIN loop[m] : db' = After(Turns(loop)[m - 1], loop[m])[k]

Run(loop) == (Whole(loop) \/ Aborted(loop)) /\ db'.seq <= MaxJob /\ UNCHANGED now

Call(loop) == Run(loop) /\ UNCHANGED <<issued, acked>>

Lease ==
    /\ Run(<<luaLease>>)
    /\ issued' = issued \cup (ToSet(db.ready) \cap DOMAIN db'.lease)
    /\ UNCHANGED acked

\* The LEASE cut short after its LMOVE is a step of Frontier too.
LeaseCut ==
    /\ db.ready # <<>>
    /\ db' = After(db, luaLease)[1]
    /\ UNCHANGED <<now, issued, acked, aborts>>

Ack(j) ==
    /\ Run(<<luaAck(j)>>)
    /\ acked' = IF j \in ToSet(db.processing) \ ToSet(db'.processing)
                THEN acked \cup {j.url} ELSE acked
    /\ UNCHANGED issued

\* The batches of due members of the sorted set z, in the order of a script.
DueBatches(z, limit) ==
    UNION {F!Sorted(z, n, P) : n \in 0..limit, P \in F!Page(z, F!Due(z), limit)}

Resolve(j) ==
    \/ j.url \in Video /\ Ack(j)
    \/ Call(<<luaNack(j)>>) \/ Call(<<luaTerminal(j)>>)
    \/ \E class \in {"rateLimited", "strikeable"} : Call(<<luaFail(j, class)>>)
    \/ j.url \in Listing /\ \E found \in BOOLEAN : Call(<<luaCompleteListing(j, found)>>)

Reconcile ==
    \/ \E b \in DueBatches(db.delayed, PromoteBatchLimit) : Call(luaPromote(b))
    \/ \E b \in DueBatches(db.lease, ReapBatchLimit) : Call(luaReap(b))
    \/ Call(luaSweep)
    \/ \E b \in DueBatches(db.listingNext, SchedulerBatchLimit) :
          Call(luaListingScheduler(b))

Tick == now < MaxNow /\ now' = now + 1 /\ UNCHANGED <<db, issued, acked, aborts>>

Init ==
    /\ db = [seq |-> 0, ready |-> <<>>, processing |-> <<>>, lease |-> F!Empty,
             delayed |-> F!Empty, dead |-> F!Empty, attempts |-> F!Empty,
             strikes |-> F!Empty, listingNext |-> F!Empty, barren |-> F!Empty,
             bloom |-> {}]
    /\ now = 1 /\ issued = {} /\ acked = {} /\ aborts = 0

Next ==
    \/ \E v \in Video : Call(<<luaAdmitVideo(v)>>)
    \/ \E l \in Listing : Call(<<luaAdmitListing(l)>>)
    \/ Lease \/ LeaseCut
    \/ \E j \in issued : Resolve(j)
    \/ Reconcile
    \/ Tick

Spec == Init /\ [][Next]_vars

-----------------------------------------------------------------------------
(* Properties.                                                             *)

\* Run to their end, the scripts implement the steps of Frontier; in
\* particular the two lists are always in the order of their ids, and what a
\* script does in a loop is what Frontier does to a set.  Frontier promises
\* nothing for what follows a script that stopped in the middle.
ImplementsFrontier == F!Init /\ [][aborts' = 0 => F!Next]_(F!vars)

\* "No rollback on mid-script error - destination is always written before
\* source is removed, so failure means duplicate, not loss" (frontier.go:181):
\* wherever scripts are cut short, a claimed video and a PENDING listing still
\* have a job.
DuplicateNotLoss ==
    /\ db.bloom \subseteq acked \cup DOMAIN db.dead \cup F!Live
    /\ \A l \in DOMAIN db.listingNext :
          db.listingNext[l] = PendingScore => l \in F!Live

\* The fence survives too: a job whose resolution was cut short has lost its
\* lease and never gets one again, so it cannot be resolved a second time.
FenceSurvives ==
    /\ DOMAIN db.lease \subseteq ToSet(db.processing) \cap issued
    /\ issued \cap (ToSet(db.ready) \cup DOMAIN db.delayed) = {}

=============================================================================
