--------------------------- MODULE CrawlStateProofs ---------------------------
(***************************************************************************)
(* Proofs about persistence and recovery, for every set of URLs, every     *)
(* batch size and any number of crashes and Redis restarts.                *)
(*                                                                         *)
(* What Redis holds is described alike for the live keys and for the RDB   *)
(* file (Content, Recoverable), so that a restart of Redis swaps one for   *)
(* the other.  What the crawler knows is only as good as the process it    *)
(* knows it of: the facts about its phases hold while runId = mine.  They  *)
(* need that Redis does not restart between the last look at its run_id    *)
(* and the write that follows (~Unlucky).                                  *)
(***************************************************************************)
EXTENDS CrawlState, TLAPS

\* The facts n, b, d, bl, w (next, barren, dead, bloom, work) are what a
\* frontier can hold: FactsSound, and no URL is known for its barren count only.
Content(n, b, d, bl, w) ==
    /\ DOMAIN n \subseteq Listing /\ \A l \in DOMAIN n : n[l] \in Nat
    /\ \A u \in DOMAIN b : b[u] \in Nat
    /\ DOMAIN d \subseteq URL /\ \A u \in DOMAIN d : d[u] \in 0..MaxNow + QuarantineListing
    /\ bl \subseteq Video /\ w \subseteq URL /\ w \cap Video \subseteq bl
    /\ DOMAIN b \subseteq DOMAIN n \cup DOMAIN d
    /\ \A l \in Listing \cap w : l \in DOMAIN n /\ n[l] = PendingScore
    /\ \A l \in DOMAIN n \ Excluded : n[l] = PendingScore => l \in w
    /\ \A l \in DOMAIN d \cap Listing :
          d[l] > 0 /\ l \notin w /\ l \in DOMAIN n /\ n[l] = d[l]
    /\ \A v \in DOMAIN d \cap Video : d[v] = 0 /\ v \notin w

\* A partial restore is marked, and start-up refuses nothing but torn data: R
\* are the URLs with a row.
Recoverable(n, b, d, w, mk, wh, tn, R) ==
    /\ wh \in BOOLEAN /\ tn \in BOOLEAN
    /\ ~wh => mk = "restoring"
    /\ ~tn /\ mk = "restoring" => w = {} /\ R # {}
    /\ ~tn /\ mk # "restoring" =>
          \/ DOMAIN n # {}
          \/ w = {} /\ (mk = "complete" \/ DOMAIN b \cup DOMAIN d = {})

LiveOK ==
    /\ Content(next, barren, dead, bloom, work)
    /\ Recoverable(next, barren, dead, work, marker, whole, torn, DOMAIN rows)

SavedOK ==
    /\ Content(rdb.next, rdb.barren, rdb.dead, rdb.bloom, rdb.work)
    /\ Recoverable(rdb.next, rdb.barren, rdb.dead, rdb.work, rdb.marker, rdb.whole, rdb.torn,
                   DOMAIN rows)
    /\ DOMAIN rdb.next \subseteq DOMAIN next

\* A row of a URL that a sound frontier had a fact about.
RowOK(u, r) ==
    /\ u \in URL /\ r.barren \in Nat
    /\ u \in Video => r.next = None /\ r.dead = 0
    /\ u \in Listing =>
          /\ r.next \in Nat
          /\ \/ r.dead = None
             \/ r.dead \in 1..MaxNow + QuarantineListing /\ r.next = r.dead

MongoOK ==
    /\ stored \subseteq Video
    /\ rows = [u \in DOMAIN rows |-> rows[u]]
    /\ \A u \in DOMAIN rows : RowOK(u, rows[u])

\* The row of u is in Redis.
Restored(u) == u \in DOMAIN next \cup DOMAIN dead

\* The phases of a restore.
RestorePhase ==
    /\ pc \in {"begin", "mark"} => left = DOMAIN rows
    /\ pc = "begin" /\ SameProcess /\ left = {} => marker # "restoring"
    /\ pc = "mark" => left # {}
    /\ (pc = "begin" /\ seen # "restoring") \/ pc = "mark" =>
          (work = {} \/ torn) /\ (rdb.work = {} \/ rdb.torn)
    /\ pc = "barrier" /\ SameProcess =>
          /\ left \subseteq DOMAIN rows
          /\ \A u \in DOMAIN rows \ left : Restored(u)
          /\ left = {} => whole
    /\ pc = "write" =>
          /\ SameProcess /\ marker = "restoring" /\ work = {}
          /\ left \cup DOMAIN batch \subseteq DOMAIN rows
          /\ \A u \in DOMAIN batch : batch[u] = rows[u]
          /\ \A u \in DOMAIN rows \ (left \cup DOMAIN batch) : Restored(u)
    /\ pc = "complete" => SameProcess /\ marker = "restoring" /\ work = {} /\ whole

\* The phases of a crawl and of its checkpoints.
CrawlPhase ==
    /\ pc \in {"preserve", "finish", "seed"} /\ SameProcess => marker # "restoring"
    /\ Running /\ SameProcess => marker # "restoring" /\ DOMAIN next # {}
    /\ pc = "checked" /\ SameProcess =>
          /\ left \cap Listing \subseteq DOMAIN next
          /\ left \cap Video \subseteq DOMAIN dead /\ left \subseteq URL
    /\ pc = "read" =>
          /\ mine <= readFrom /\ readFrom <= runId
          /\ readFrom = mine => \A u \in DOMAIN batch : RowOK(u, batch[u])
    /\ pc = "save" => readFrom = mine /\ \A u \in DOMAIN batch : RowOK(u, batch[u])
    /\ pc = "refused" /\ SameProcess => torn

Numbers ==
    /\ now \in 1..MaxNow
    /\ runId \in Nat /\ mine \in Nat /\ readFrom \in Nat /\ mine <= runId

SInv ==
    /\ LiveOK /\ SavedOK
    /\ MongoOK
    /\ Numbers
    /\ RestorePhase
    /\ CrawlPhase

-----------------------------------------------------------------------------
(* What each writer of the facts keeps.                                    *)

\* What Redis holds is what the frontier could have produced.
LEMMA ContentSound ==
    LiveOK => FactsSound
BY DEF LiveOK, Content, FactsSound

\* The filter takes stored videos.
LEMMA OpenContent ==
    ASSUME NEW n, NEW b, NEW d, NEW w, NEW bl, NEW V \in SUBSET Video,
           Content(n, b, d, bl, w)
    PROVE  Content(n, b, d, bl \cup V, w)
BY DEF Content

\* Scheduling the seed keeps the facts sound, and leaves a schedule.
LEMMA LaunchContent ==
    ASSUME Content(next, barren, dead, bloom, work), ScheduleSeed(BaseUrl)
    PROVE  /\ Content(next', barren', dead', bloom', work')
           /\ DOMAIN next \subseteq DOMAIN next' /\ DOMAIN next' # {}
           /\ dead' = dead /\ work' = work
<1> USE UrlAssumption, PendingAssumption
<1>1. /\ DOMAIN next' = DOMAIN next \cup {BaseUrl} /\ BaseUrl \notin DOMAIN next
      /\ next'[BaseUrl] = 0 /\ \A l \in DOMAIN next : next'[l] = next[l]
      /\ UNCHANGED <<barren, dead, bloom, work>>
  BY DEF ScheduleSeed, Put
<1>2. BaseUrl \notin work /\ BaseUrl \notin DOMAIN dead /\ 0 # PendingScore
  BY <1>1 DEF Content
<1> QED BY <1>1, <1>2 DEF Content

\* The steps of the workers and of the reconcilers: Content is kept, no URL
\* leaves the schedule and no dead video comes back.
LEMMA CrawlContent ==
    ASSUME Content(next, barren, dead, bloom, work), Crawl,
           now \in 1..MaxNow, stored \subseteq Video
    PROVE  /\ Content(next', barren', dead', bloom', work')
           /\ DOMAIN next \subseteq DOMAIN next'
           /\ DOMAIN dead \cap Video \subseteq DOMAIN dead'
<1> USE UrlAssumption, PendingAssumption
<1>1. CASE \E v \in Video : ClaimVideo(v) /\ bloom' # bloom
  <2>1. PICK v \in Video : ClaimVideo(v) /\ bloom' # bloom
    BY <1>1
  <2>2. /\ v \notin DOMAIN dead
        /\ work' = work \cup {v} /\ bloom' = bloom \cup {v}
        /\ UNCHANGED <<next, barren, dead>>
    BY <2>1 DEF ClaimVideo, Quarantined, Content
  <2> QED BY <2>2 DEF Content, URL
<1>2. CASE \E P \in (SUBSET Listing) \ {{}} : ClaimListings(P)
  <2>1. PICK P \in SUBSET Listing : ClaimListings(P)
    BY <1>2
  <2>2. /\ DOMAIN next' = DOMAIN next \cup P
        /\ \A l \in DOMAIN next' : next'[l] = IF l \in P THEN PendingScore ELSE next[l]
        /\ DOMAIN dead' = DOMAIN dead \ P
        /\ \A u \in DOMAIN dead' : dead'[u] = dead[u]
        /\ work' = work \cup P
        /\ UNCHANGED <<barren, bloom>>
    BY <2>1 DEF ClaimListings, Without, Restrict
  <2> QED BY <2>2 DEF Content, URL
<1>3. CASE \E l \in Listing \ Excluded : CompleteVisit(l)
  <2>1. PICK l \in Listing \ Excluded : CompleteVisit(l)
    BY <1>3
  <2>2. /\ l \in work /\ l \notin DOMAIN dead /\ l \in DOMAIN next
    BY <2>1 DEF CompleteVisit, Content
  <2>3. PICK ttl \in 0..ListingMaxTTL : next' = Put(next, l, now + ttl)
    BY <2>1 DEF CompleteVisit
  <2>4. PICK c \in {0, IF l \in DOMAIN barren THEN barren[l] + 1 ELSE 1} :
                barren' = Put(barren, l, c)
    BY <2>1 DEF CompleteVisit
  <2>5. c \in Nat
    BY <2>4 DEF Content
  <2>6. /\ DOMAIN next' = DOMAIN next
        /\ \A k \in DOMAIN next : next'[k] = IF k = l THEN now + ttl ELSE next[k]
    BY <2>2, <2>3 DEF Put
  <2>7. /\ DOMAIN barren' = DOMAIN barren \cup {l}
        /\ \A k \in DOMAIN barren' : barren'[k] = IF k = l THEN c ELSE barren[k]
    BY <2>4 DEF Put
  <2>8. work' = work \ {l} /\ UNCHANGED <<dead, bloom>>
    BY <2>1 DEF CompleteVisit
  <2>9. now + ttl \in Nat /\ now + ttl # PendingScore
    OBVIOUS
  <2> QED BY <2>2, <2>5, <2>6, <2>7, <2>8, <2>9 DEF Content
<1>4. CASE \E u \in URL \ Excluded : GiveUp(u)
  <2>1. PICK u \in URL \ Excluded : GiveUp(u)
    BY <1>4
  <2>2. u \in work /\ work' = work \ {u} /\ UNCHANGED <<barren, bloom>>
    BY <2>1 DEF GiveUp, Content
  <2>3. CASE u \in Video
    <3>1. dead' = Put(dead, u, 0) /\ UNCHANGED next
      BY <2>1, <2>3 DEF GiveUp
    <3>2. /\ DOMAIN dead' = DOMAIN dead \cup {u}
          /\ \A k \in DOMAIN dead' : dead'[k] = IF k = u THEN 0 ELSE dead[k]
      BY <3>1 DEF Put
    <3> QED BY <2>2, <2>3, <3>1, <3>2 DEF Content, URL
  <2>4. CASE u \in Listing
    <3> DEFINE t == now + QuarantineListing
    <3>1. dead' = Put(dead, u, t) /\ next' = Put(next, u, t)
      BY <2>1, <2>4 DEF GiveUp
    <3>2. t \in 1..MaxNow + QuarantineListing /\ t # PendingScore
      OBVIOUS
    <3>3. /\ DOMAIN dead' = DOMAIN dead \cup {u}
          /\ \A k \in DOMAIN dead' : dead'[k] = IF k = u THEN t ELSE dead[k]
          /\ DOMAIN next' = DOMAIN next \cup {u}
          /\ \A k \in DOMAIN next' : next'[k] = IF k = u THEN t ELSE next[k]
      BY <3>1 DEF Put
    <3> HIDE DEF t
    <3> QED BY <2>2, <2>4, <3>2, <3>3 DEF Content, URL
  <2> QED BY <2>1, <2>3, <2>4 DEF URL
<1>5. CASE \E u \in stored \cup Excluded : Acknowledge(u)
  <2>1. PICK u \in stored \cup Excluded : Acknowledge(u)
    BY <1>5
  <2>2. u \in work /\ work' = work \ {u} /\ UNCHANGED <<next, barren, dead, bloom>>
    BY <2>1 DEF Acknowledge, Content
  <2>3. \A l \in DOMAIN next \ Excluded : next[l] = PendingScore => l \in work'
    BY <2>1, <2>2 DEF Content
  <2> QED BY <2>2, <2>3 DEF Content
<1> QED BY <1>1, <1>2, <1>3, <1>4, <1>5 DEF Crawl

\* What a row becomes: a listing is scheduled, and until the end of its
\* quarantine if it has one; a video stays dead.
LEMMA RowRestored ==
    ASSUME NEW u, NEW r, RowOK(u, r), now \in 1..MaxNow
    PROVE  /\ u \in Listing =>
                /\ RestoredNext(r) \in Nat /\ RestoredNext(r) # PendingScore
                /\ RestoredDead(r) # None =>
                      /\ RestoredDead(r) \in 1..MaxNow + QuarantineListing
                      /\ RestoredDead(r) = RestoredNext(r)
           /\ u \in Video => RestoredNext(r) = None /\ RestoredDead(r) = 0
           /\ RestoresBarren(r)
<1> USE UrlAssumption, PendingAssumption DEF None
<1>1. CASE u \in Video
  BY <1>1 DEF RowOK, RestoredNext, RestoredDead, RestoresBarren
<1>2. CASE u \in Listing /\ r.dead = None
  <2>1. RestoredDead(r) = -1
    BY <1>2 DEF RestoredDead
  <2>2. RestoredNext(r) = IF r.next = PendingScore THEN 0 ELSE r.next
    BY <1>2, <2>1 DEF RowOK, RestoredNext
  <2> QED BY <1>1, <1>2, <2>1, <2>2 DEF RowOK, RestoresBarren
<1>3. CASE u \in Listing /\ r.dead # None
  <2>1. r.dead \in 1..MaxNow + QuarantineListing /\ r.next = r.dead
    BY <1>3 DEF RowOK
  <2>2. r.dead \in Nat /\ r.dead # 0 /\ r.dead # PendingScore /\ RestoredDead(r) \in {-1, r.dead}
    BY <2>1 DEF RestoredDead
  <2>3. RestoredNext(r) = r.dead
    BY <2>1, <2>2 DEF RestoredNext
  <2> QED BY <1>3, <2>1, <2>2, <2>3 DEF RestoresBarren
<1> QED BY <1>1, <1>2, <1>3 DEF RowOK, URL

\* A batch of rows is restored: Content is kept, no URL leaves the schedule, and
\* every row of the batch and every row that was in Redis is.
LEMMA WriteContent ==
    ASSUME Content(next, barren, dead, bloom, work), work = {}, now \in 1..MaxNow,
           Write, \A u \in DOMAIN batch : RowOK(u, batch[u])
    PROVE  /\ Content(next', barren', dead', bloom', work')
           /\ DOMAIN next \subseteq DOMAIN next'
           /\ DOMAIN batch \cup DOMAIN next \cup DOMAIN dead
                 \subseteq DOMAIN next' \cup DOMAIN dead'
<1> DEFINE B == DOMAIN batch
           S == B \cap Listing
           Q == {u \in B : RestoredDead(batch[u]) # None}
<1>a. -1 \notin Nat /\ 0 # -1 /\ Video \cap Listing = {} /\ PendingScore \in Nat
  BY UrlAssumption, PendingAssumption
<1>1. /\ \A u \in S : /\ RestoredNext(batch[u]) \in Nat
                        /\ RestoredNext(batch[u]) # PendingScore
      /\ \A u \in S \cap Q : /\ RestoredDead(batch[u]) \in 1..MaxNow + QuarantineListing
                              /\ RestoredDead(batch[u]) = RestoredNext(batch[u])
      /\ \A u \in B \cap Video : RestoredNext(batch[u]) = None /\ RestoredDead(batch[u]) = 0
      /\ \A u \in B : RestoresBarren(batch[u]) /\ u \in URL /\ batch[u].barren \in Nat
  BY RowRestored DEF RowOK
<1>2. /\ {v \in B : RestoredNext(batch[v]) # None} = S
      /\ {v \in B : RestoresBarren(batch[v])} = B
      /\ B \cap Video \subseteq Q
  BY <1>1, <1>a DEF None, URL
<1>3. /\ DOMAIN next' = (DOMAIN next \ B) \cup S
      /\ \A u \in DOMAIN next' : next'[u] = IF u \in S THEN RestoredNext(batch[u]) ELSE next[u]
  BY <1>2 DEF Write, Overwrite
<1>4. /\ DOMAIN barren' = DOMAIN barren \cup B
      /\ \A u \in DOMAIN barren' : barren'[u] = IF u \in B THEN batch[u].barren ELSE barren[u]
  BY <1>2 DEF Write, Overwrite
<1>5. /\ DOMAIN dead' = (DOMAIN dead \ B) \cup Q
      /\ \A u \in DOMAIN dead' : dead'[u] = IF u \in Q THEN RestoredDead(batch[u]) ELSE dead[u]
  BY <1>2 DEF Write, Overwrite
<1>6. UNCHANGED <<bloom, work>>
  BY DEF Write
<1>7. B \subseteq S \cup Q /\ Q \subseteq B
  BY <1>1, <1>2 DEF URL
<1> HIDE DEF B, S, Q
<1>8. DOMAIN next \subseteq Listing /\ B \cap Listing = S /\ S \subseteq B
  BY DEF Content, S
<1>9. /\ DOMAIN next \subseteq DOMAIN next'
      /\ B \cup DOMAIN next \cup DOMAIN dead \subseteq DOMAIN next' \cup DOMAIN dead'
  BY <1>3, <1>5, <1>7, <1>8
<1>10. /\ DOMAIN next' \subseteq Listing /\ \A l \in DOMAIN next' : next'[l] \in Nat
       /\ \A l \in DOMAIN next' \ Excluded : next'[l] # PendingScore
  BY <1>1, <1>3, <1>8 DEF Content
<1>11. /\ \A u \in DOMAIN barren' : barren'[u] \in Nat
       /\ DOMAIN barren' \subseteq DOMAIN next' \cup DOMAIN dead'
  BY <1>1, <1>4, <1>9 DEF Content
<1>12. \A v \in DOMAIN dead' \cap Video : dead'[v] = 0
  BY <1>1, <1>2, <1>5, <1>7 DEF Content
<1>13. \A l \in DOMAIN dead' \cap Listing :
          /\ dead'[l] \in 1..MaxNow + QuarantineListing
          /\ l \in DOMAIN next' /\ next'[l] = dead'[l]
  <2> SUFFICES ASSUME NEW l \in DOMAIN dead' \cap Listing
               PROVE  /\ dead'[l] \in 1..MaxNow + QuarantineListing
                      /\ l \in DOMAIN next' /\ next'[l] = dead'[l]
    OBVIOUS
  <2>1. CASE l \in Q
    BY <1>1, <1>3, <1>5, <1>7, <1>8, <2>1
  <2>2. CASE l \notin Q
    <3>1. l \in DOMAIN dead /\ l \notin B /\ dead'[l] = dead[l]
      BY <1>5, <2>2
    <3>2. l \in DOMAIN next /\ next[l] = dead[l] /\ dead[l] > 0
          /\ dead[l] \in 0..MaxNow + QuarantineListing
      BY <3>1 DEF Content
    <3>3. next'[l] = next[l] /\ l \in DOMAIN next'
      BY <1>3, <1>8, <3>1, <3>2
    <3> QED BY <3>1, <3>2, <3>3, PendingAssumption
  <2> QED BY <2>1, <2>2
<1>14. DOMAIN dead' \subseteq URL
  BY <1>1, <1>5, <1>7 DEF Content
<1>15. \A u \in DOMAIN dead' : dead'[u] \in 0..MaxNow + QuarantineListing
  BY <1>12, <1>13, <1>14, PendingAssumption DEF URL
<1>16. Content(next', barren', dead', bloom', work')
  BY <1>6, <1>10, <1>11, <1>12, <1>13, <1>14, <1>15, PendingAssumption DEF Content
<1> QED BY <1>9, <1>16 DEF B

-----------------------------------------------------------------------------
(* The invariant is inductive.                                             *)

\* Both stores are empty at first, but for the listings of an earlier build.
LEMMA StartsWell ==
    SInit => SInv
<1> SUFFICES ASSUME SInit PROVE SInv
  OBVIOUS
<1> USE UrlAssumption, PendingAssumption
<1>1. /\ DOMAIN next = Excluded /\ \A l \in Excluded : next[l] = 0
      /\ DOMAIN barren = {} /\ DOMAIN dead = {} /\ bloom = {} /\ work = {} /\ now = 1
  BY DEF SInit, FInit
<1>2. Content(next, barren, dead, bloom, work)
  BY <1>1 DEF Content
<1>3. LiveOK
  BY <1>1, <1>2 DEF LiveOK, Recoverable, SInit
<1>4. SavedOK
  BY <1>3 DEF SavedOK, LiveOK, SInit
<1>5. MongoOK /\ Numbers
  BY <1>1 DEF MongoOK, Numbers, SInit, NoRows
<1>6. RestorePhase /\ CrawlPhase
  BY DEF RestorePhase, CrawlPhase, Running, SInit
<1> QED BY <1>3, <1>4, <1>5, <1>6 DEF SInv

\* A step that writes neither to Redis nor rows to Mongo.
LEMMA FactsFrame ==
    ASSUME SInv, UNCHANGED <<fvars, marker, whole, torn, rdb, rows>>
    PROVE  LiveOK' /\ SavedOK'
BY DEF SInv, LiveOK, SavedOK, fvars, facts

\* Steps that touch no row keep what is known of the rows.
LEMMA MongoFrame ==
    ASSUME SInv, UNCHANGED <<rows, stored>>
    PROVE  MongoOK'
BY DEF SInv, MongoOK

\* The crawler ends.
LEMMA FatalStep ==
    ASSUME SInv, Fatal, UNCHANGED <<fvars, marker, whole, torn, runId, rdb, rows, stored>>
    PROVE  SInv'
<1>1. LiveOK' /\ SavedOK' /\ MongoOK'
  BY FactsFrame, MongoFrame
<1>2. Numbers'
  BY DEF SInv, Numbers, Fatal, fvars
<1>3. RestorePhase' /\ CrawlPhase'
  BY DEF RestorePhase, CrawlPhase, Running, Fatal
<1> QED BY <1>1, <1>2, <1>3 DEF SInv

\* Start-up up to the decision whether to restore.
LEMMA StartStep ==
    ASSUME SInv, Open \/ Inspect \/ Finish \/ Begin
    PROVE  SInv'
<1>1. CASE Open
  <2>1. LiveOK' /\ SavedOK'
    BY <1>1, OpenContent DEF SInv, LiveOK, SavedOK, MongoOK, Open
  <2>2. MongoOK' /\ Numbers'
    BY <1>1, MongoFrame DEF SInv, Numbers, Open
  <2>3. RestorePhase' /\ CrawlPhase'
    BY <1>1 DEF RestorePhase, CrawlPhase, Running, Open, Goto
  <2> QED BY <2>1, <2>2, <2>3 DEF SInv
<1>2. CASE Inspect
  <2>1. LiveOK' /\ SavedOK' /\ MongoOK'
    BY <1>2, FactsFrame, MongoFrame DEF Inspect
  <2>2. Numbers'
    BY <1>2 DEF SInv, Numbers, Inspect, fvars
  <2> USE DEF Inspect, Goto, fvars, facts
  <2>3. CASE Refuses /\ Goto("refused") /\ UNCHANGED left
    <3>1. torn
      BY <2>3 DEF Refuses, Preserves, SInv, LiveOK, Recoverable, MongoOK, NoRows
    <3> QED BY <1>2, <2>1, <2>2, <2>3, <3>1 DEF SInv, RestorePhase, CrawlPhase, Running
  <2>4. CASE Preserves /\ Goto("preserve") /\ UNCHANGED left
    <3>1. marker' # "restoring"
      BY <1>2, <2>4 DEF Preserves
    <3> QED BY <2>1, <2>2, <2>4, <3>1 DEF SInv, RestorePhase, CrawlPhase, Running
  <2>5. CASE ~Refuses /\ ~Preserves /\ Goto("begin") /\ left' = DOMAIN rows
    <3>1. marker = "restoring" => left' # {}
      BY <2>5 DEF Refuses, SInv, MongoOK, NoRows
    <3>2. marker # "restoring" =>
            (work = {} \/ torn) /\ (rdb.work = {} \/ rdb.torn)
      BY <2>5 DEF Refuses, Preserves, SInv, SavedOK, Recoverable
    <3>3. RestorePhase' /\ CrawlPhase'
      BY <1>2, <2>5, <3>1, <3>2 DEF RestorePhase, CrawlPhase, Running
    <3> QED BY <2>1, <2>2, <3>3 DEF SInv
  <2> QED BY <1>2, <2>3, <2>4, <2>5
<1>3. CASE Finish
  <2>1. CASE SameProcess /\ Goto("seed")
    <3>1. LiveOK' /\ SavedOK' /\ MongoOK'
      BY <1>3, FactsFrame, MongoFrame DEF Finish
    <3>2. Numbers' /\ marker' # "restoring"
      BY <1>3, <2>1 DEF SInv, Numbers, RestorePhase, CrawlPhase, Finish, fvars, Fatal, Goto
    <3>3. RestorePhase' /\ CrawlPhase'
      BY <2>1, <3>2 DEF RestorePhase, CrawlPhase, Running, Goto
    <3> QED BY <3>1, <3>2, <3>3 DEF SInv
  <2> QED BY <1>3, <2>1, FatalStep DEF Finish
<1>4. CASE Begin
  <2>1. CASE SameProcess /\ Goto(IF seen = "restoring" THEN "barrier" ELSE "mark")
             /\ UNCHANGED <<mine, seen, left, batch, readFrom>>
    <3>1. LiveOK' /\ SavedOK' /\ MongoOK'
      BY <1>4, FactsFrame, MongoFrame DEF Begin
    <3>2. Numbers'
      BY <1>4, <2>1 DEF SInv, Numbers, Begin, fvars
    <3>3. left = DOMAIN rows /\ left # {}
      BY <1>4 DEF SInv, RestorePhase, Begin
    <3>4. RestorePhase' /\ CrawlPhase'
      BY <1>4, <2>1, <3>3 DEF SInv, RestorePhase, CrawlPhase, Running, Goto, Begin, fvars, facts
    <3> QED BY <3>1, <3>2, <3>4 DEF SInv
  <2> QED BY <1>4, <2>1, FatalStep DEF Begin
<1> QED BY <1>1, <1>2, <1>3, <1>4

\* The restore itself: the marker, its barrier, the batches and their end.
LEMMA RestoreStep ==
    ASSUME SInv, Mark \/ Barrier \/ Write \/ Complete \/ Launch
    PROVE  SInv'
<1>1. CASE Mark
  <2>1. LiveOK'
    BY <1>1 DEF SInv, LiveOK, Recoverable, RestorePhase, Mark, fvars, facts
  <2>2. SavedOK' /\ MongoOK' /\ Numbers'
    BY <1>1, MongoFrame DEF SInv, SavedOK, Numbers, Mark, fvars, facts
  <2>3. RestorePhase' /\ CrawlPhase'
    BY <1>1 DEF SInv, RestorePhase, CrawlPhase, Running, Goto, Mark, fvars, facts, SameProcess
  <2> QED BY <2>1, <2>2, <2>3 DEF SInv
<1>2. CASE Barrier
  <2>1. LiveOK' /\ SavedOK' /\ MongoOK'
    BY <1>2, FactsFrame, MongoFrame DEF Barrier
  <2>2. CASE /\ SameProcess /\ marker = "restoring" /\ work = {}
             /\ left # {} /\ Goto("write") /\ UNCHANGED <<mine, seen, readFrom>>
             /\ \E U \in SUBSET left : batch' = Restrict(rows, U) /\ left' = left \ U
    <3>1. PICK U \in SUBSET left : batch' = Restrict(rows, U) /\ left' = left \ U
      BY <2>2
    <3>2. /\ left \subseteq DOMAIN rows /\ \A u \in DOMAIN rows \ left : Restored(u)
      BY <1>2, <2>2 DEF SInv, RestorePhase, Barrier
    <3>3. U \subseteq DOMAIN rows /\ DOMAIN batch' = U /\ \A u \in U : batch'[u] = rows[u]
      BY <3>1, <3>2 DEF Restrict
    <3>4. /\ left' \cup DOMAIN batch' = left /\ UNCHANGED <<next, dead, work, marker, rows, runId>>
      BY <1>2, <3>1, <3>3 DEF Barrier, fvars, facts
    <3>5. RestorePhase'
      BY <2>2, <3>2, <3>3, <3>4 DEF RestorePhase, Goto, SameProcess, Restored
    <3>6. Numbers' /\ CrawlPhase'
      BY <1>2, <2>2 DEF SInv, Numbers, CrawlPhase, Running, Goto, Barrier, fvars
    <3> QED BY <2>1, <3>5, <3>6 DEF SInv
  <2>3. CASE /\ SameProcess /\ marker = "restoring" /\ work = {}
             /\ left = {} /\ Goto("complete") /\ UNCHANGED <<left, batch, mine, seen, readFrom>>
    <3>1. RestorePhase'
      BY <1>2, <2>3 DEF SInv, RestorePhase, Goto, SameProcess, Barrier, fvars, facts
    <3>2. Numbers' /\ CrawlPhase'
      BY <1>2, <2>3 DEF SInv, Numbers, CrawlPhase, Running, Goto, Barrier, fvars
    <3> QED BY <2>1, <3>1, <3>2 DEF SInv
  <2> QED BY <1>2, <2>2, <2>3, FatalStep DEF Barrier
<1>3. CASE Write
  <2>1. /\ SameProcess /\ marker = "restoring" /\ work = {}
        /\ left \cup DOMAIN batch \subseteq DOMAIN rows
        /\ \A u \in DOMAIN batch : batch[u] = rows[u]
        /\ \A u \in DOMAIN rows \ (left \cup DOMAIN batch) : Restored(u)
    BY <1>3 DEF SInv, RestorePhase, Write
  <2>2. /\ Content(next', barren', dead', bloom', work')
        /\ DOMAIN next \subseteq DOMAIN next'
        /\ DOMAIN batch \cup DOMAIN next \cup DOMAIN dead
              \subseteq DOMAIN next' \cup DOMAIN dead'
    BY <1>3, <2>1, WriteContent DEF SInv, MongoOK, LiveOK, Numbers
  <2>3. /\ UNCHANGED <<work, now, marker, torn, runId, rdb, rows, stored, mine, seen, left, readFrom>>
        /\ pc' = "barrier" /\ whole' = AllIn(DOMAIN next' \cup DOMAIN dead')
    BY <1>3 DEF Write, Goto
  <2>4. whole' \in BOOLEAN
    BY <2>3 DEF AllIn
  <2>5. LiveOK' /\ SavedOK'
    BY <2>1, <2>2, <2>3, <2>4 DEF SInv, LiveOK, SavedOK, Recoverable
  <2>6. \A u \in DOMAIN rows \ left : u \in DOMAIN next' \cup DOMAIN dead'
    BY <2>1, <2>2 DEF Restored
  <2>7. left = {} => whole'
    BY <2>3, <2>6 DEF AllIn
  <2>8. RestorePhase' /\ CrawlPhase'
    BY <2>1, <2>3, <2>6, <2>7 DEF RestorePhase, CrawlPhase, Running, Restored
  <2>9. MongoOK' /\ Numbers'
    BY <2>3, MongoFrame DEF SInv, Numbers
  <2> QED BY <2>5, <2>8, <2>9 DEF SInv
<1>4. CASE Complete
  <2>1. SameProcess /\ work = {} /\ whole
    BY <1>4 DEF SInv, RestorePhase, Complete
  <2>2. LiveOK' /\ SavedOK'
    BY <1>4, <2>1 DEF SInv, LiveOK, SavedOK, Recoverable, Complete, fvars, facts
  <2>3. MongoOK' /\ Numbers'
    BY <1>4, MongoFrame DEF SInv, Numbers, Complete, fvars
  <2>4. RestorePhase' /\ CrawlPhase'
    BY <1>4 DEF RestorePhase, CrawlPhase, Running, Goto, Complete
  <2> QED BY <2>2, <2>3, <2>4 DEF SInv
<1>5. CASE Launch
  <2>1. /\ Content(next', barren', dead', bloom', work')
        /\ DOMAIN next \subseteq DOMAIN next' /\ DOMAIN next' # {}
        /\ UNCHANGED <<dead, work, now>>
    BY <1>5, LaunchContent DEF SInv, LiveOK, Launch, ScheduleSeed, fvars, facts
  <2>2. LiveOK' /\ SavedOK'
    BY <1>5, <2>1 DEF SInv, LiveOK, SavedOK, Recoverable, Launch
  <2>3. MongoOK' /\ Numbers'
    BY <1>5, <2>1, MongoFrame DEF SInv, Numbers, Launch
  <2>4. RestorePhase' /\ CrawlPhase'
    BY <1>5, <2>1 DEF SInv, RestorePhase, CrawlPhase, Running, Goto, Launch, SameProcess
  <2> QED BY <2>2, <2>3, <2>4 DEF SInv
<1> QED BY <1>1, <1>2, <1>3, <1>4, <1>5

\* The running crawl.
LEMMA CrawlStep ==
    ASSUME SInv, Crawl \/ Upsert
    PROVE  SInv'
<1>1. CASE Crawl
  <2>1. /\ Running /\ torn' = (torn \/ ~SameProcess)
        /\ UNCHANGED <<marker, whole, runId, rdb, rows, stored, pc, mine, seen, left, batch, readFrom>>
    BY <1>1 DEF Crawl, store
  <2>2. UNCHANGED now
    BY <1>1 DEF Crawl, ClaimVideo, ClaimListings, CompleteVisit, GiveUp, Acknowledge
  <2>3. /\ Content(next', barren', dead', bloom', work')
        /\ DOMAIN next \subseteq DOMAIN next'
        /\ DOMAIN dead \cap Video \subseteq DOMAIN dead'
    BY <1>1, CrawlContent DEF SInv, LiveOK, Numbers, MongoOK
  <2>4. SameProcess => marker # "restoring" /\ DOMAIN next' # {}
    BY <2>1, <2>3 DEF SInv, CrawlPhase
  <2>5. torn' \in BOOLEAN
    BY <2>1 DEF SInv, LiveOK, Recoverable, SameProcess
  <2>6. LiveOK' /\ SavedOK'
    BY <2>1, <2>3, <2>4, <2>5 DEF SInv, LiveOK, SavedOK, Recoverable
  <2>7. MongoOK' /\ Numbers'
    BY <2>1, <2>2, MongoFrame DEF SInv, Numbers
  <2>8. RestorePhase' /\ CrawlPhase'
    BY <2>1, <2>3, <2>4 DEF SInv, RestorePhase, CrawlPhase, Running, SameProcess
  <2> QED BY <2>6, <2>7, <2>8 DEF SInv
<1>2. CASE Upsert
  <2>1. LiveOK' /\ SavedOK'
    BY <1>2, FactsFrame DEF Upsert
  <2>2. MongoOK' /\ Numbers'
    BY <1>2 DEF SInv, MongoOK, Numbers, Upsert, fvars, store
  <2>3. RestorePhase' /\ CrawlPhase'
    BY <1>2 DEF SInv, RestorePhase, CrawlPhase, Running, Upsert, SameProcess, fvars, facts, store
  <2> QED BY <2>1, <2>2, <2>3 DEF SInv
<1> QED BY <1>1, <1>2

\* A checkpoint, from its first look at the run_id to the rows it saves.
LEMMA CheckpointStep ==
    ASSUME SInv, Scan \/ ReadTuples \/ CheckAfter \/ Save
    PROVE  SInv'
<1>1. CASE Scan
  <2>1. LiveOK' /\ SavedOK' /\ MongoOK'
    BY <1>1, FactsFrame, MongoFrame DEF Scan
  <2>2. Numbers'
    BY <1>1 DEF SInv, Numbers, Scan, fvars
  <2>3. left' \subseteq DOMAIN next \cup DOMAIN barren \cup DOMAIN dead
    BY <1>1 DEF Scan
  <2>4. /\ left' \cap Listing \subseteq DOMAIN next
        /\ left' \cap Video \subseteq DOMAIN dead /\ left' \subseteq URL
    BY <2>3, UrlAssumption DEF SInv, LiveOK, Content, URL
  <2>5. RestorePhase' /\ CrawlPhase'
    BY <1>1, <2>4 DEF SInv, RestorePhase, CrawlPhase, Running, Scan, Goto, SameProcess, fvars, facts
  <2> QED BY <2>1, <2>2, <2>5 DEF SInv
<1>2. CASE ReadTuples
  <2>1. LiveOK' /\ SavedOK' /\ MongoOK'
    BY <1>2, FactsFrame, MongoFrame DEF ReadTuples
  <2>2. Numbers'
    BY <1>2 DEF SInv, Numbers, ReadTuples, fvars
  <2>3. SameProcess => \A u \in left : RowOK(u, RowOf(u))
    <3> SUFFICES ASSUME SameProcess, NEW u \in left
                 PROVE  RowOK(u, RowOf(u))
      OBVIOUS
    <3>1. /\ u \in URL /\ (u \in Listing => u \in DOMAIN next)
          /\ (u \in Video => u \in DOMAIN dead /\ u \notin DOMAIN next)
      BY <1>2, UrlAssumption DEF SInv, CrawlPhase, ReadTuples, LiveOK, Content
    <3>2. RowOf(u).barren \in Nat
      BY DEF RowOf, SInv, LiveOK, Content
    <3>3. CASE u \in Video
      BY <3>1, <3>2, <3>3, UrlAssumption DEF RowOK, RowOf, OrNone, SInv, LiveOK, Content
    <3>4. CASE u \in Listing
      <4>1. RowOf(u).next = next[u] /\ next[u] \in Nat
        BY <3>1, <3>4 DEF RowOf, OrNone, SInv, LiveOK, Content
      <4>2. u \in DOMAIN dead =>
               dead[u] = next[u] /\ dead[u] \in 1..MaxNow + QuarantineListing
        BY <3>4, PendingAssumption DEF SInv, LiveOK, Content
      <4> QED BY <3>1, <3>2, <3>4, <4>1, <4>2, UrlAssumption DEF RowOK, RowOf, OrNone
    <3> QED BY <3>1, <3>3, <3>4 DEF URL
  <2>4. RestorePhase'
    BY <1>2 DEF RestorePhase, ReadTuples, Goto
  <2>5. CrawlPhase'
    BY <1>2, <2>3 DEF SInv, Numbers, CrawlPhase, Running, ReadTuples, Goto, SameProcess, fvars, facts
  <2> QED BY <2>1, <2>2, <2>4, <2>5 DEF SInv
<1>3. CASE CheckAfter
  <2>1. LiveOK' /\ SavedOK' /\ MongoOK'
    BY <1>3, FactsFrame, MongoFrame DEF CheckAfter
  <2>2. Numbers'
    BY <1>3 DEF SInv, Numbers, CheckAfter, Abandon, fvars
  <2>3. RestorePhase'
    BY <1>3 DEF RestorePhase, CheckAfter, Abandon, Goto
  <2>4. CrawlPhase'
    BY <1>3 DEF SInv, Numbers, CrawlPhase, Running, CheckAfter, Abandon, Goto, SameProcess,
                fvars, facts
  <2> QED BY <2>1, <2>2, <2>3, <2>4 DEF SInv
<1>4. CASE Save
  <2>1. PICK S \in SUBSET DOMAIN batch :
            rows' = [u \in DOMAIN rows \cup S |-> IF u \in S THEN batch[u] ELSE rows[u]]
    BY <1>4 DEF Save
  <2>2. MongoOK'
    BY <1>4, <2>1 DEF SInv, MongoOK, CrawlPhase, Save
  <2>3. DOMAIN rows \subseteq DOMAIN rows'
    BY <2>1
  <2>4. LiveOK' /\ SavedOK'
    BY <1>4, <2>3 DEF SInv, LiveOK, SavedOK, Recoverable, Save, fvars, facts
  <2>5. Numbers'
    BY <1>4 DEF SInv, Numbers, Save, Abandon, fvars
  <2>6. RestorePhase' /\ CrawlPhase'
    BY <1>4 DEF SInv, RestorePhase, CrawlPhase, Running, Save, Abandon, Goto, SameProcess,
                fvars, facts
  <2> QED BY <2>2, <2>4, <2>5, <2>6 DEF SInv
<1> QED BY <1>1, <1>2, <1>3, <1>4

\* Snapshots, restarts of Redis, crashes of the crawler and the clock.
LEMMA WorldStep ==
    ASSUME SInv, ~Unlucky, Snapshot \/ RedisRestart \/ Crash \/ Elapse
    PROVE  SInv'
<1>1. CASE Snapshot
  <2>1. /\ UNCHANGED <<fvars, marker, whole, torn, runId, rows, stored, store>>
        /\ rdb'.next = next /\ rdb'.barren = barren /\ rdb'.dead = dead
        /\ rdb'.bloom = bloom /\ rdb'.work = work /\ rdb'.marker = marker
        /\ rdb'.whole = whole /\ rdb'.torn = torn
    BY <1>1 DEF Snapshot
  <2>2. LiveOK' /\ SavedOK'
    BY <2>1 DEF SInv, LiveOK, SavedOK, fvars, facts
  <2>3. MongoOK' /\ Numbers'
    BY <2>1, MongoFrame DEF SInv, Numbers, fvars, store
  <2>4. RestorePhase' /\ CrawlPhase'
    BY <2>1 DEF SInv, RestorePhase, CrawlPhase, Running, SameProcess, Restored, fvars, facts, store
  <2> QED BY <2>2, <2>3, <2>4 DEF SInv
<1>2. CASE RedisRestart
  <2>1. LiveOK' /\ SavedOK'
    BY <1>2 DEF SInv, LiveOK, SavedOK, RedisRestart
  <2>2. MongoOK' /\ Numbers'
    BY <1>2, MongoFrame DEF SInv, Numbers, RedisRestart, store
  <2>3. ~SameProcess' /\ pc \notin {"write", "complete"}
    BY <1>2 DEF SInv, Numbers, RedisRestart, SameProcess, store
  <2>4. RestorePhase'
    BY <1>2, <2>3 DEF SInv, RestorePhase, RedisRestart, store
  <2>5. CrawlPhase'
    BY <1>2, <2>3 DEF SInv, Numbers, CrawlPhase, RedisRestart, store
  <2> QED BY <2>1, <2>2, <2>4, <2>5 DEF SInv
<1>3. CASE Crash
  BY <1>3, FatalStep DEF Crash
<1>4. CASE Elapse
  <2>1. /\ UNCHANGED <<next, barren, dead, bloom, work, marker, whole, torn, runId, rdb, rows, stored,
                       pc, mine, seen, left, batch, readFrom>>
        /\ now < MaxNow /\ now' = now + 1
    BY <1>4 DEF Elapse, Pass, facts, store
  <2>2. LiveOK' /\ SavedOK' /\ MongoOK'
    BY <2>1 DEF SInv, LiveOK, SavedOK, MongoOK
  <2>3. Numbers'
    BY <2>1, PendingAssumption DEF SInv, Numbers
  <2>4. RestorePhase' /\ CrawlPhase'
    BY <2>1 DEF SInv, RestorePhase, CrawlPhase, Running, SameProcess, Restored
  <2> QED BY <2>2, <2>3, <2>4 DEF SInv
<1> QED BY <1>1, <1>2, <1>3, <1>4

\* Nothing happens.
LEMMA StutterStep ==
    ASSUME SInv, UNCHANGED svars
    PROVE  SInv'
<1>1. LiveOK' /\ SavedOK' /\ MongoOK'
  BY FactsFrame, MongoFrame DEF svars
<1>2. Numbers'
  BY DEF SInv, Numbers, svars, fvars, store
<1>3. RestorePhase' /\ CrawlPhase'
  BY DEF SInv, RestorePhase, CrawlPhase, Running, SameProcess, Restored, svars, fvars, facts, store
<1> QED BY <1>1, <1>2, <1>3 DEF SInv

-----------------------------------------------------------------------------
(* The theorems.                                                           *)

\* Redis, its RDB file and the rows in Mongo fit each other and the crawler's
\* phase through checkpoints, crashes, restarts and restores of
\* crawl_state.go and crawl_state_restore.go, as long as Redis does not restart
\* between a restore's last look at the run_id and its write.
THEOREM RecoveryInductive == ~Unlucky => (SSpec => []SInv)
<1> SUFFICES ASSUME ~Unlucky PROVE SSpec => []SInv
  OBVIOUS
<1>1. SInit => SInv
  BY StartsWell
<1>2. SInv /\ [SNext]_svars => SInv'
  BY StartStep, RestoreStep, CrawlStep, CheckpointStep, WorldStep, StutterStep DEF SNext
<1> QED BY <1>1, <1>2, PTL DEF SSpec

\* Whatever was restored, preserved or rolled back (crawl_state_restore.go), the
\* crawl runs on facts that the frontier itself could have produced.
THEOREM RecoveryIsSound == ~Unlucky => (SSpec => []RecoveredSound)
<1>1. SInv => RecoveredSound
  BY ContentSound DEF SInv, RecoveredSound
<1> QED BY <1>1, RecoveryInductive, PTL

\* A restore that was cut short is resumed at the next start-up and never taken
\* for a frontier to preserve (crawl_state_restore.go:93).
THEOREM RestoreIsWhole == ~Unlucky => (SSpec => []NoPartialFrontier)
<1>1. SInv => NoPartialFrontier
  BY DEF SInv, NoPartialFrontier, CrawlPhase, LiveOK, Recoverable
<1> QED BY <1>1, RecoveryInductive, PTL

\* Start-up refuses to restore (crawl_state_restore.go:106, 118) only a Redis that
\* lost its data under a running crawler.
THEOREM RefusalIsJustified == ~Unlucky => (SSpec => []RefusesOnlyTorn)
<1>1. SInv => RefusesOnlyTorn
  BY DEF SInv, RefusesOnlyTorn, CrawlPhase
<1> QED BY <1>1, RecoveryInductive, PTL

-----------------------------------------------------------------------------
(* Where the rows come from.  This needs no luck: the look at the run_id    *)
(* after the read bounds the process the batch was read under.             *)

\* The batch was read under a process that is neither older than the crawler nor
\* younger than Redis.
ReadPhase ==
    /\ runId \in Nat /\ mine \in Nat /\ readFrom \in Nat /\ mine <= runId
    /\ pc = "read" => mine <= readFrom /\ readFrom <= runId
    /\ pc = "save" => readFrom = mine

\* The look at the run_id after the reads is what keeps rows and process together.
LEMMA ReadPhaseStep ==
    ASSUME ReadPhase, [SNext]_svars
    PROVE  ReadPhase'
<1> USE DEF ReadPhase, Goto, Fatal, SameProcess
<1>1. ASSUME Open \/ Inspect \/ Finish \/ Begin PROVE ReadPhase'
  BY <1>1 DEF Open, Inspect, Finish, Begin
<1>2. ASSUME Mark \/ Barrier \/ Complete \/ Launch PROVE ReadPhase'
  BY <1>2 DEF Mark, Barrier, Complete, Launch
<1>3. ASSUME Write PROVE ReadPhase'
  BY <1>3 DEF Write
<1>4. ASSUME Crawl \/ Upsert \/ Snapshot \/ RedisRestart \/ Crash \/ Elapse PROVE ReadPhase'
  BY <1>4 DEF Crawl, Upsert, Snapshot, RedisRestart, Crash, Elapse, store
<1>5. ASSUME Scan \/ ReadTuples PROVE ReadPhase'
  BY <1>5 DEF Scan, ReadTuples
<1>6. ASSUME CheckAfter \/ Save PROVE ReadPhase'
  BY <1>6 DEF CheckAfter, Save, Abandon
<1>7. ASSUME UNCHANGED svars PROVE ReadPhase'
  BY <1>7 DEF svars, store
<1> QED BY <1>1, <1>2, <1>3, <1>4, <1>5, <1>6, <1>7 DEF SNext

\* A checkpoint saves only what the Redis process held that the crawler started
\* with (checkIdentity, crawl_state.go:112), whatever restarts meanwhile.
THEOREM RowsAreOurs == SSpec => RowsFromRecordedProcess
<1>1. SInit => ReadPhase
  BY DEF SInit, ReadPhase
<1>2. ReadPhase /\ [SNext]_svars => ReadPhase'
  BY ReadPhaseStep
<1>3. ReadPhase /\ [SNext]_svars => [rows' # rows => readFrom = mine]_svars
  <2> SUFFICES ASSUME ReadPhase, SNext, rows' # rows
               PROVE  readFrom = mine
    OBVIOUS
  <2>1. Save
    BY DEF SNext, Open, Inspect, Finish, Begin, Mark, Barrier, Write, Complete, Launch, Crawl,
           Upsert, Scan, ReadTuples, CheckAfter, Snapshot, RedisRestart, Crash, Elapse
  <2> QED BY <2>1 DEF Save, ReadPhase
<1> QED BY <1>1, <1>2, <1>3, PTL DEF SSpec, RowsFromRecordedProcess

=============================================================================
