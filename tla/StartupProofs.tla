---------------------------- MODULE StartupProofs ----------------------------
(***************************************************************************)
(* Proofs about what main does before a crawl.  First the settings it      *)
(* accepts (Settings), for every set of tokens and ports: when production  *)
(* and test may share storage, and which waits overrides lead to.  Then    *)
(* the filter it brings up to date (BloomLife), for every set of videos,   *)
(* every capacity and every history of faults: no stored video is admitted *)
(* again and no start refused without a cause, and no claimed video is     *)
(* lost.                                                                   *)
(***************************************************************************)
EXTENDS Settings, BloomLife, FiniteSetTheorems, TLAPS

-----------------------------------------------------------------------------
(* Settings.                                                               *)

\* The environment is what the host holds; a running program has the settings
\* that Load or LoadTest makes of it, and production passed the guards of main
\* and of the Mongo driver.
SettingsInv ==
    /\ env \in Environment
    /\ production # <<>> => /\ production = <<Load(env)>>
                            /\ RedisAccepted(Load(env))
                            /\ MongoAccepted(Load(env)) /\ MongoOpens(Load(env))
    /\ test # <<>> => test = <<LoadTest(env)>>

\* The guards run before anything is opened, so the invariant holds throughout.
LEMMA SettingsKept == SSpec => []SettingsInv
<1>1. SInit => SettingsInv
  BY DEF SInit, SettingsInv
<1>2. SettingsInv /\ [SNext]_svars => SettingsInv'
  <2> SUFFICES ASSUME SettingsInv, [SNext]_svars
               PROVE  SettingsInv'
    OBVIOUS
  <2>1. CASE StartProduction
    BY <2>1 DEF StartProduction, SettingsInv
  <2>2. CASE StartTest
    BY <2>2 DEF StartTest, SettingsInv
  <2>3. CASE StopProduction \/ StopTest \/ UNCHANGED svars
    BY <2>3 DEF StopProduction, StopTest, svars, SettingsInv
  <2> QED BY <2>1, <2>2, <2>3 DEF SNext
<1> QED BY <1>1, <1>2, PTL DEF SSpec

\* Of what main accepted, Redis is the test's only behind a sign.  A Mongo host is
\* never the test's: without a sign its text is its number up to zeros, a sign does
\* not get through the driver, and a host without a port gets the default.
LEMMA AcceptedElsewhere ==
    ASSUME NEW e \in Environment, RedisAccepted(Load(e)), MongoAccepted(Load(e)),
           MongoOpens(Load(e))
    PROVE  /\ RedisReached(Load(e)) = TestRedis => Load(e).redis[1].plus
           /\ TestMongo \notin MongoReached(Load(e))
<1> DEFINE c == Load(e)
<1>1. RedisReached(c) = TestRedis => c.redis[1].plus
  BY DEF RedisAccepted, RedisReached, IsPort
<1>2. ASSUME NEW i \in DOMAIN c.mongo
      PROVE  (IF c.mongo[i] = <<>> THEN MongoPort ELSE c.mongo[i][1].n) # TestMongo
  BY SettingsAssumption DEF MongoAccepted, MongoOpens, IsPort
<1> HIDE DEF c
<1>3. TestMongo \notin MongoReached(c)
  BY <1>2 DEF MongoReached
<1> QED BY <1>1, <1>3 DEF c

\* The endpoints of a test are fixed, whatever the environment says.
LEMMA TestReaches ==
    ASSUME NEW e
    PROVE  /\ RedisReached(LoadTest(e)) = TestRedis
           /\ MongoReached(LoadTest(e)) = {TestMongo}
<1>1. /\ LoadTest(e).redis = <<Plain(TestRedis)>>
      /\ LoadTest(e).mongo = <<<<Plain(TestMongo)>>>>
  BY DEF LoadTest, Load
<1> QED BY <1>1 DEF RedisReached, MongoReached, Plain

\* For every environment, production and test share no Mongo, and a Redis only
\* through a port written with a sign, which TrimLeft leaves in place (main.go:50).
THEOREM SharesOnlyBySign == SSpec => []SharedOnlyBySign
<1>1. SettingsInv => SharedOnlyBySign
  <2> SUFFICES ASSUME SettingsInv, production # <<>>, test # <<>>
               PROVE  /\ RedisReached(production[1]) = RedisReached(test[1]) =>
                            production[1].redis[1].plus
                      /\ MongoReached(production[1]) \cap MongoReached(test[1]) = {}
    BY DEF SharedOnlyBySign
  <2>1. production[1] = Load(env) /\ test[1] = LoadTest(env)
    BY DEF SettingsInv
  <2> QED BY <2>1, AcceptedElsewhere, TestReaches DEF SettingsInv
<1> QED BY <1>1, SettingsKept, PTL

\* A variable that is not a complete table of numbers counts for nothing, and every
\* count of failures finds its entry (getEnvIntSlice in config.go, luaFail in
\* frontier.go).
LEMMA OneTable ==
    ASSUME NEW raw \in Raw, NEW def, DOMAIN def = 1..Len(def), Len(def) \in Nat \ {0},
           NEW k \in Nat \ {0}
    PROVE  FromOneTable(getEnvIntSlice(raw, def), raw, def, k)
<1> DEFINE ladder == getEnvIntSlice(raw, def)
           n == IF Complete(raw) THEN Len(raw) ELSE Len(def)
           i == IF k > n THEN n ELSE k
<1>1. DOMAIN raw = 1..Len(raw) /\ Len(raw) \in Nat /\ (raw # <<>> => Len(raw) # 0)
  BY DEF Raw
<1>2. CASE Complete(raw)
  <2>1. ladder = [j \in 1..Len(raw) |-> raw[j].n]
    BY <1>1, <1>2 DEF Complete, getEnvIntSlice
  <2>2. n = Len(raw) /\ n \in Nat \ {0}
    BY <1>1, <1>2 DEF Complete
  <2>3. Len(ladder) = Len(raw)
    <3> HIDE DEF ladder
    <3> QED BY <1>1, <2>1
  <2>4. i \in 1..n
    BY <2>2
  <2> HIDE DEF ladder
  <2>5. Backoff(ladder, k) = raw[i].n
    BY <2>1, <2>2, <2>4, <2>3 DEF Backoff
  <2>6. i \in DOMAIN ladder
    BY <2>1, <2>2, <2>4
  <2> QED BY <1>2, <2>5, <2>6 DEF FromOneTable, ladder
<1>3. CASE ~Complete(raw)
  <2>1. ladder = def
    BY <1>3 DEF Complete, getEnvIntSlice
  <2>2. n = Len(def) /\ i \in 1..n
    BY <1>3
  <2> HIDE DEF ladder
  <2>3. Backoff(ladder, k) = def[i]
    BY <2>1, <2>2 DEF Backoff
  <2> QED BY <1>3, <2>1, <2>2, <2>3 DEF FromOneTable, ladder
<1> QED BY <1>2, <1>3

\* For every environment and every number of failures, production and test wait as
\* one table says, the operator's or the default, and never a mixture
\* ("fall back entirely, don't partially apply", config.go:154).
THEOREM WaitsAreFromOneTable == SSpec => []WaitsFromOneTable
<1>1. SettingsInv => WaitsFromOneTable
  <2> SUFFICES ASSUME SettingsInv, NEW c \in {Load(env), LoadTest(env)},
                      NEW k \in 1..MaxAttempts
               PROVE  /\ FromOneTable(c.limited, env.limited, DefaultLimited, k)
                      /\ FromOneTable(c.strike, env.strike, DefaultStrike, k)
    BY DEF WaitsFromOneTable
  <2>1. /\ c.limited = getEnvIntSlice(env.limited, DefaultLimited)
        /\ c.strike = getEnvIntSlice(env.strike, DefaultStrike)
    <3>1. CASE c = Load(env)
      BY <3>1 DEF Load
    <3>2. CASE c = LoadTest(env)
      <4>1. c.limited = Load(env).limited /\ c.strike = Load(env).strike
        BY <3>2 DEF Load, LoadTest
      <4> QED BY <4>1 DEF Load
    <3> QED BY <3>1, <3>2
  <2>2. env.limited \in Raw /\ env.strike \in Raw
    BY DEF SettingsInv, Environment
  <2>3. /\ DOMAIN DefaultLimited = 1..Len(DefaultLimited) /\ Len(DefaultLimited) \in Nat \ {0}
        /\ DOMAIN DefaultStrike = 1..Len(DefaultStrike) /\ Len(DefaultStrike) \in Nat \ {0}
    BY DEF DefaultLimited, DefaultStrike
  <2>4. k \in Nat \ {0}
    BY SettingsAssumption
  <2> QED BY <2>1, <2>2, <2>3, <2>4, OneTable
<1> QED BY <1>1, SettingsKept, PTL

-----------------------------------------------------------------------------
(* The filter.                                                             *)

\* What Redis, or its RDB file, holds.
Db == [shape : {"missing", "reserved", "auto", "stale"}, items : SUBSET Video,
       work : SUBSET Video, dead : SUBSET Video, scheduled : BOOLEAN]

FullDb(d) == d.shape = "reserved" /\ Cardinality(d.items) >= BloomCapacity

FilterShape ==
    /\ redis \in Db /\ snapshot \in Db
    /\ IsFiniteSet(redis.items) /\ IsFiniteSet(snapshot.items) /\ IsFiniteSet(corpus)
    /\ corpus \subseteq Video /\ todo \subseteq corpus
    /\ rows \in [scheduled : BOOLEAN, dead : SUBSET Video]
    /\ phase \in {"down", "verify", "reconcile", "seed", "running", "stopping"}
    /\ hands \in [Video -> {"none", "leased", "stored"}]
    /\ recorded \in BOOLEAN /\ lost \in BOOLEAN /\ everLost \in BOOLEAN

Crawling == phase \in {"running", "stopping"}

\* BF.ADD makes a filter of its own only under a process that lost Redis.
NeverAuto ==
    ~everLost =>
       /\ redis.shape # "auto" /\ snapshot.shape # "auto"
       /\ phase # "down" => redis.shape # "missing"

\* A queued video has its claim, unless the filter was full.
ClaimsKept(d) ==
    /\ FullDb(d) \/ d.work \subseteq d.items
    /\ d.shape = "missing" => d.items = {}

QueuedIsClaimed == ClaimsKept(redis) /\ ClaimsKept(snapshot)

\* Only a crawl has workers, and they have stored what they say.
Holders ==
    \A v \in Video : /\ hands[v] # "none" => Crawling
                     /\ hands[v] = "stored" => v \in corpus

\* A process that kept its Redis has closed the gap between Mongo and the filter
\* as far as reconciliation has come, and keeps it closed: what its workers hold,
\* and will store, is claimed.
NoGap ==
    ~lost =>
       /\ phase = "reconcile" => corpus \ todo \subseteq redis.items
       /\ phase = "seed" \/ Crawling => Full \/ corpus \subseteq redis.items
       /\ \A v \in Video : hands[v] # "none" => Full \/ v \in redis.items

\* A frontier has a schedule, unless Redis was lost under a process.
Startable(d) == d.scheduled \/ (d.work = {} /\ d.dead = {})

Scheduled ==
    /\ rows.scheduled \/ rows.dead = {}
    /\ recorded /\ Crawling => redis.scheduled
    /\ ~everLost => /\ Startable(redis) /\ Startable(snapshot)
                    /\ Crawling => redis.scheduled

FilterInv ==
    /\ FilterShape /\ NeverAuto /\ QueuedIsClaimed /\ Holders /\ NoGap
    /\ ClaimedNotLost /\ Scheduled

\* A filter that is full stays full while it only grows.
LEMMA FullStays ==
    ASSUME NEW d \in Db, NEW e \in Db, e.shape = d.shape,
           d.items \subseteq e.items, IsFiniteSet(e.items), FullDb(d)
    PROVE  FullDb(e)
<1>1. IsFiniteSet(d.items) /\ Cardinality(d.items) <= Cardinality(e.items)
  BY FS_Subset
<1>2. Cardinality(d.items) \in Nat /\ Cardinality(e.items) \in Nat
  BY <1>1, FS_CardinalityType
<1> QED BY <1>1, <1>2, BloomLifeAssumption DEF FullDb

\* What a batch of BloomAddBatch adds is finite, and disjoint from what is there;
\* a batch that is refused has filled the filter.
LEMMA ReconcileFills ==
    ASSUME FilterInv, Reconcile
    PROVE  /\ redis' \in Db /\ IsFiniteSet(redis'.items)
           /\ redis.items \subseteq redis'.items /\ redis'.items \subseteq redis.items \cup corpus
           /\ redis'.work = redis.work /\ redis'.dead = redis.dead
           /\ redis'.scheduled = redis.scheduled
           /\ redis'.shape = ShapeAfterAdd
           /\ \/ /\ phase' = "reconcile" /\ UNCHANGED refused
                 /\ todo' \subseteq todo /\ todo \ todo' \subseteq redis'.items
              \/ /\ phase' = "down" /\ todo' = {} /\ refused' = "reconcile" /\ Full'
<1>1. PICK B \in Batches, A \in SUBSET todo :
         LET new  == B \ redis.items
             room == BloomCapacity - Cardinality(redis.items)
         IN  /\ A \subseteq new
             /\ IF redis.shape # "reserved" \/ Cardinality(new) <= room
                THEN A = new /\ todo' = todo \ B /\ UNCHANGED <<phase, refused>>
                ELSE Cardinality(A) = room /\ Refuse("reconcile")
             /\ redis' = [redis EXCEPT !.shape = ShapeAfterAdd, !.items = @ \cup A]
  BY DEF Reconcile
<1> DEFINE I == redis.items
           room == BloomCapacity - Cardinality(I)
<1>2. /\ redis \in Db /\ IsFiniteSet(I) /\ todo \subseteq corpus /\ corpus \subseteq Video
      /\ IsFiniteSet(todo) /\ phase = "reconcile" /\ B \subseteq todo
  BY FS_Subset DEF FilterInv, FilterShape, Reconcile, Batches
<1>3. IsFiniteSet(A) /\ IsFiniteSet(I \cup A) /\ I \cap A = {}
  BY <1>1, <1>2, FS_Subset, FS_Union
<1>4. /\ redis' = [redis EXCEPT !.shape = ShapeAfterAdd, !.items = I \cup A]
      /\ redis'.items = I \cup A /\ redis'.shape = ShapeAfterAdd
      /\ redis'.work = redis.work /\ redis'.dead = redis.dead
      /\ redis'.scheduled = redis.scheduled /\ redis' \in Db
  BY <1>1, <1>2 DEF Db, ShapeAfterAdd
<1>5. CASE redis.shape # "reserved" \/ Cardinality(B \ I) <= room
  BY <1>1, <1>2, <1>3, <1>4, <1>5
<1>6. CASE ~(redis.shape # "reserved" \/ Cardinality(B \ I) <= room)
  <2>1. Cardinality(A) = room /\ Refuse("reconcile") /\ redis.shape = "reserved"
    BY <1>1, <1>6
  <2>2. Cardinality(I \cup A) = Cardinality(I) + Cardinality(A) - Cardinality(I \cap A)
    BY <1>2, <1>3, FS_Union
  <2>3. Cardinality(I) \in Nat /\ Cardinality(A) \in Nat /\ Cardinality(I \cap A) = 0
    BY <1>2, <1>3, FS_CardinalityType, FS_EmptySet
  <2>4. Cardinality(I \cup A) = BloomCapacity
    BY <2>1, <2>2, <2>3, BloomLifeAssumption
  <2>5. Full'
    BY <1>4, <2>1, <2>4, BloomLifeAssumption DEF Full, ShapeAfterAdd
  <2> QED BY <1>2, <1>3, <1>4, <2>1, <2>5 DEF Refuse
<1> QED BY <1>5, <1>6

\* A job that enters the queue brings its claim, unless the filter is full.
LEMMA AdmitClaims ==
    ASSUME FilterInv, NEW v \in Video, Admit(v)
    PROVE  /\ redis' \in Db /\ IsFiniteSet(redis'.items)
           /\ redis.items \subseteq redis'.items
           /\ redis'.dead = redis.dead /\ redis'.scheduled = redis.scheduled
           /\ redis'.work = redis.work \cup {v}
           /\ \/ Full /\ redis'.shape = redis.shape /\ redis'.items = redis.items
              \/ /\ ~Full /\ redis'.shape = ShapeAfterAdd
                 /\ redis'.items = redis.items \cup {v}
<1>1. redis \in Db /\ IsFiniteSet(redis.items)
  BY DEF FilterInv, FilterShape
<1>2. IsFiniteSet(redis.items \cup {v})
  BY <1>1, FS_AddElement
<1>3. CASE Full
  BY <1>1, <1>3 DEF Admit, Db
<1>4. CASE ~Full
  <2>1. redis' = [redis EXCEPT !.shape = ShapeAfterAdd, !.items = redis.items \cup {v},
                               !.work = redis.work \cup {v}]
    BY <1>1, <1>4 DEF Admit, Db
  <2>2. ShapeAfterAdd \in {"missing", "reserved", "auto", "stale"}
    BY <1>1 DEF ShapeAfterAdd, Db
  <2> QED BY <1>1, <1>2, <1>4, <2>1, <2>2 DEF Db
<1> QED BY <1>3, <1>4

\* Every step keeps the invariant.  Redis going back to its snapshot is the one
\* that may open a gap, and then the process has lost its data or is down.
LEMMA FilterStep ==
    ASSUME FilterInv, [Next]_vars
    PROVE  FilterInv'
<1> USE DEF FilterInv, FilterShape, NeverAuto, QueuedIsClaimed, ClaimsKept, Holders, NoGap,
            ClaimedNotLost, Scheduled, Startable, Crawling, startup, workers, history
<1>1. CASE Reserve
  BY <1>1 DEF Reserve, Db, FullDb, Full
<1>2. CASE BloomInit
  <2>1. /\ redis' \in Db /\ redis'.items = redis.items /\ redis'.work = redis.work
        /\ redis'.dead = redis.dead /\ redis'.scheduled = redis.scheduled
        /\ IF redis.shape = "missing" THEN redis'.shape = "reserved"
           ELSE redis'.shape = redis.shape
    BY <1>2 DEF BloomInit, Db
  <2>2. UNCHANGED <<snapshot, corpus, rows, todo, workers, recorded, everLost>>
        /\ phase = "down" /\ phase' = "verify" /\ lost' = FALSE
    BY <1>2 DEF BloomInit
  <2> QED BY <2>1, <2>2 DEF FullDb, Full
<1>3. CASE BloomVerify
  BY <1>3 DEF BloomVerify, Refuse, ToReconcile, FullDb, Full
<1>4. CASE Reconcile
  <2>1. UNCHANGED <<snapshot, corpus, rows, created, workers, history>> /\ phase = "reconcile"
    BY <1>4 DEF Reconcile
  <2>2. ClaimsKept(redis) => ClaimsKept(redis')
    BY <1>4, ReconcileFills, FullStays DEF ShapeAfterAdd, FullDb, Db
  <2> QED BY <1>4, <2>1, <2>2, ReconcileFills DEF ShapeAfterAdd
<1>5. CASE Restore
  <2>1. /\ redis' \in Db /\ redis'.shape = redis.shape /\ redis'.items = redis.items
        /\ redis'.work = redis.work
        /\ \/ redis'.dead = redis.dead /\ redis'.scheduled = redis.scheduled
           \/ /\ redis.work = {} /\ redis.dead = {}
              /\ redis'.dead = rows.dead /\ redis'.scheduled = rows.scheduled
    <3>1. CASE UNCHANGED redis
      BY <3>1
    <3>2. CASE ~UNCHANGED redis
      <4>1. /\ redis' = [redis EXCEPT !.scheduled = rows.scheduled, !.dead = rows.dead]
            /\ redis.work = {} /\ redis.dead = {}
        BY <1>5, <3>2 DEF Restore
      <4> QED BY <4>1 DEF Db
    <3> QED BY <3>1, <3>2
  <2>2. /\ UNCHANGED <<snapshot, corpus, rows, workers, lost, everLost>>
        /\ phase = "reconcile" /\ phase' \in {"seed", "down"} /\ todo = {} /\ todo' = {}
        /\ recorded' = TRUE
    BY <1>5 DEF Restore, Refuse
  <2>3. redis.dead \subseteq redis'.dead
    BY <2>1
  <2>4. Startable(redis) => Startable(redis')
    BY <2>1
  <2>5. (FullDb(redis) <=> FullDb(redis')) /\ (Full <=> Full')
    BY <2>1 DEF FullDb, Full
  <2>6. Scheduled' /\ ClaimedNotLost'
    BY <2>1, <2>2, <2>3, <2>4
  <2>7. QueuedIsClaimed' /\ NeverAuto' /\ FilterShape'
    BY <2>1, <2>2, <2>5
  <2>8. NoGap' /\ Holders'
    BY <2>1, <2>2, <2>5
  <2> QED BY <2>6, <2>7, <2>8
<1>6. CASE Launch
  <2>1. /\ redis' \in Db /\ redis'.shape = redis.shape /\ redis'.items = redis.items
        /\ redis'.work = redis.work /\ redis'.dead = redis.dead /\ redis'.scheduled = TRUE
    BY <1>6 DEF Launch, Db
  <2>2. UNCHANGED <<snapshot, corpus, rows, startup, workers, history>>
        /\ phase = "seed" /\ phase' = "running"
    BY <1>6 DEF Launch
  <2> QED BY <2>1, <2>2 DEF FullDb, Full
<1>7. ASSUME NEW v \in Video, Lease(v) PROVE FilterInv'
  BY <1>7 DEF Lease, Full, FullDb
<1>8. ASSUME NEW v \in Video, Upsert(v) PROVE FilterInv'
  <2>1. IsFiniteSet(corpus \cup {v})
    BY FS_AddElement
  <2> QED BY <1>8, <2>1 DEF Upsert, Full
<1>9. ASSUME NEW v \in Video, Admit(v) PROVE FilterInv'
  <2>1. /\ UNCHANGED <<snapshot, corpus, rows, startup, workers, history>>
        /\ phase = "running" /\ phase' \in {"running", "stopping"}
    BY <1>9 DEF Admit, AtLinks
  <2>2. Full => Full' /\ FullDb(redis')
    BY <1>9, AdmitClaims, FullStays DEF Full, FullDb
  <2>3. ClaimsKept(redis) => ClaimsKept(redis')
    BY <1>9, <2>2, AdmitClaims DEF ShapeAfterAdd, FullDb, Full
  <2> QED BY <1>9, <2>1, <2>2, <2>3, AdmitClaims DEF ShapeAfterAdd
<1>10. ASSUME NEW v \in Video, Resolve(v) PROVE FilterInv'
  <2>1. /\ redis' \in Db /\ redis'.shape = redis.shape /\ redis'.items = redis.items
        /\ redis'.scheduled = redis.scheduled
        /\ \/ redis'.work = redis.work /\ redis'.dead = redis.dead
           \/ v \in corpus /\ redis'.work \in WorkWithout(v) /\ redis'.dead = redis.dead
           \/ /\ redis'.work \in WorkWithout(v)
              /\ redis'.dead = IF v \in redis.work THEN redis.dead \cup {v} ELSE redis.dead
    <3>1. CASE Ack(v)
      BY <3>1 DEF Ack, WorkWithout, Db
    <3>2. CASE Terminal(v)
      <4>1. PICK w \in WorkWithout(v) :
               redis' = [redis EXCEPT !.work = w, !.dead = IF v \in redis.work
                                                          THEN redis.dead \cup {v}
                                                          ELSE redis.dead]
        BY <3>2 DEF Terminal
      <4>2. w \in SUBSET Video /\ redis.dead \cup {v} \in SUBSET Video
        BY <4>1 DEF WorkWithout, Db
      <4> QED BY <4>1, <4>2 DEF Db
    <3>3. CASE Return(v)
      BY <3>3 DEF Return
    <3> QED BY <1>10, <3>1, <3>2, <3>3 DEF Resolve
  <2>2. /\ UNCHANGED <<snapshot, corpus, rows, phase, startup, visiting, history>>
        /\ hands[v] # "none" /\ hands' = [hands EXCEPT ![v] = "none"]
    BY <1>10 DEF Resolve, Ack, Terminal, Return
  <2>3. (FullDb(redis) <=> FullDb(redis')) /\ (Full <=> Full')
    BY <2>1 DEF FullDb, Full
  <2>4. FilterShape' /\ NeverAuto' /\ Holders'
    BY <2>1, <2>2
  <2>5. QueuedIsClaimed'
    BY <2>1, <2>2, <2>3 DEF WorkWithout
  <2>6. NoGap'
    BY <2>1, <2>2, <2>3
  <2>7. ClaimedNotLost'
    BY <2>1, <2>2 DEF WorkWithout
  <2>8. Scheduled'
    BY <2>1, <2>2 DEF WorkWithout
  <2> QED BY <2>4, <2>5, <2>6, <2>7, <2>8
<1>11. CASE LeaseListing \/ AdmitListing \/ ResolveListing
  <2>1. /\ redis' \in Db /\ redis'.shape = redis.shape /\ redis'.items = redis.items
        /\ redis'.work = redis.work /\ redis'.dead = redis.dead
        /\ redis.scheduled => redis'.scheduled
    BY <1>11 DEF LeaseListing, AdmitListing, ResolveListing, Db
  <2>2. UNCHANGED <<snapshot, corpus, rows, phase, startup, hands, history>>
    BY <1>11 DEF LeaseListing, AdmitListing, ResolveListing
  <2> QED BY <2>1, <2>2 DEF FullDb, Full
<1>12. CASE Monitor \/ Cancel \/ Exit \/ Kill
  BY <1>12 DEF Monitor, Cancel, Exit, Kill, IdleHands, Fault, Full
<1>13. CASE Checkpoint
  BY <1>13 DEF Checkpoint, Db, Full
<1>14. CASE Snapshot
  BY <1>14 DEF Snapshot, Full
<1>15. CASE RedisRestart
  <2>1. CASE phase = "down"
    BY <1>15, <2>1 DEF RedisRestart, Fault
  <2>2. CASE phase # "down"
    <3>1. lost' = TRUE /\ everLost' = TRUE /\ recorded' = FALSE
      BY <1>15, <2>2 DEF RedisRestart
    <3> QED BY <1>15, <2>2, <3>1 DEF RedisRestart, Fault
  <2> QED BY <2>1, <2>2
<1>16. CASE UNCHANGED vars
  BY <1>16 DEF vars, Full
<1> QED BY <1>1, <1>2, <1>3, <1>4, <1>5, <1>6, <1>7, <1>8, <1>9, <1>10, <1>11, <1>12, <1>13,
           <1>14, <1>15, <1>16 DEF Next

\* The filter, the queue, the schedule and Mongo fit each other over every start,
\* kill and restart of Redis (main.go, redis.go).
THEOREM FilterInductive == Spec => []FilterInv
<1>1. Init => FilterInv
  <2> SUFFICES ASSUME Init PROVE FilterInv
    OBVIOUS
  <2>1. /\ redis \in Db /\ redis.shape \in {"missing", "stale"}
        /\ redis.items = {} /\ redis.work = {} /\ redis.dead = {}
    <3>1. CASE redis = EmptyRedis
      BY <3>1 DEF EmptyRedis, Db
    <3>2. CASE redis = [EmptyRedis EXCEPT !.shape = "stale"]
      <4>1. redis = [shape |-> "stale", items |-> {}, work |-> {}, dead |-> {},
                     scheduled |-> FALSE]
        BY <3>2 DEF EmptyRedis
      <4> QED BY <4>1 DEF Db
    <3> QED BY <3>1, <3>2 DEF Init
  <2> QED BY <2>1, FS_EmptySet DEF Init, FilterInv, FilterShape, NeverAuto, QueuedIsClaimed,
             ClaimsKept, Holders, NoGap, ClaimedNotLost, Scheduled, Startable, Crawling,
             IdleHands
<1>2. FilterInv /\ [Next]_vars => FilterInv'
  BY FilterStep
<1> QED BY <1>1, <1>2, PTL DEF Spec

\* No claimed video is lost, whatever Redis goes back to and wherever a process
\* ends: a gap between snapshots costs "duplicate work, not lost data"
\* (scheduler.go:48).
THEOREM NoClaimLost == Spec => []ClaimedNotLost
<1>1. FilterInv => ClaimedNotLost
  BY DEF FilterInv
<1> QED BY <1>1, FilterInductive, PTL

\* A stored video is admitted again only when Redis lost its data under this very
\* process or the filter is full (reconcileBloomFromMongo, main.go:239).
THEOREM NoReadmission == Spec => NotAdmittedAgain
<1>1. FilterInv /\ [Next]_vars => [\A v \in corpus : Admit(v) => lost \/ Full]_vars
  <2> SUFFICES ASSUME FilterInv, NEW v \in corpus, Admit(v), ~lost
               PROVE  Full
    OBVIOUS
  <2>1. phase = "running" /\ v \notin redis.items
    BY DEF Admit, AtLinks
  <2> QED BY <2>1 DEF FilterInv, NoGap, Crawling
<1> QED BY FilterInductive, <1>1, PTL DEF Spec, NotAdmittedAgain

\* Start-up ends in log.Fatalf only with a cause: after Redis was lost under a
\* process, on a filter of another version, or when the filter is full
\* (BloomVerify, reconcileBloomFromMongo and Restore, main.go).
THEOREM RefusalHasCause == Spec => RefusedOnlyWithCause
<1>1. FilterInv /\ [Next]_vars =>
         [refused' # refused =>
            /\ refused' = "verify" => everLost \/ redis.shape = "stale"
            /\ refused' = "reconcile" => Full'
            /\ refused' = "restore" => everLost]_vars
  <2> SUFFICES ASSUME FilterInv, Next, refused' # refused
               PROVE  /\ refused' = "verify" => everLost \/ redis.shape = "stale"
                      /\ refused' = "reconcile" => Full'
                      /\ refused' = "restore" => everLost
    OBVIOUS
  <2>1. CASE BloomVerify
    BY <2>1 DEF BloomVerify, VerifyFails, Refuse, FilterInv, FilterShape, NeverAuto, Db
  <2>2. CASE Reconcile
    BY <2>2, ReconcileFills
  <2>3. CASE Restore
    BY <2>3 DEF Restore, Refuse, FilterInv, Scheduled, Startable
  <2>4. CASE BloomInit \/ Kill
    BY <2>4 DEF BloomInit, Kill
  <2>5. ~(Reserve \/ Launch \/ LeaseListing \/ AdmitListing \/ ResolveListing)
    BY DEF Reserve, Launch, LeaseListing, AdmitListing, ResolveListing, startup
  <2>6. ~(Monitor \/ Checkpoint \/ Snapshot \/ Cancel \/ Exit \/ RedisRestart)
    BY DEF Monitor, Checkpoint, Snapshot, Cancel, Exit, RedisRestart, startup
  <2>7. ~\E v \in Video : Lease(v) \/ Upsert(v) \/ Admit(v) \/ Resolve(v)
    BY DEF Lease, Upsert, Admit, Resolve, Ack, Terminal, Return, startup
  <2> QED BY <2>1, <2>2, <2>3, <2>4, <2>5, <2>6, <2>7 DEF Next
<1> QED BY FilterInductive, <1>1, PTL DEF Spec, RefusedOnlyWithCause

=============================================================================
