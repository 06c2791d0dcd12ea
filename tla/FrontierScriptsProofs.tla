------------------------ MODULE FrontierScriptsProofs ------------------------
(***************************************************************************)
(* Proofs about the Lua scripts, command by command: wherever scripts are  *)
(* cut short, no claim is lost and no job is resolved twice, and until the *)
(* first error the scripts implement Frontier, for every set of URLs,      *)
(* every size of the batches and any number of errors.                     *)
(*                                                                         *)
(* The invariant (Sound) is about the keys alone, so that it can be        *)
(* claimed of the keys in the middle of a script as well as between calls. *)
(* A command keeps it under a condition of its own (the lemmas named       *)
(* ...Keeps); a script is an order of commands that meets the conditions   *)
(* one after the other (...Script, ...Turn).  What a script or a loop      *)
(* leaves is a recursive function, unfolded with CountUp.                  *)
(*                                                                         *)
(* For the refinement (...Refines), the effect of every command and of     *)
(* every turn on each key is worked out (...Effect), then what a whole     *)
(* loop leaves of one key (Loop...).                                       *)
(***************************************************************************)
EXTENDS FrontierScripts, FiniteSetTheorems, SequenceTheorems, TLAPS

-----------------------------------------------------------------------------
(* Recursion.                                                              *)

\* What holds of 0 and passes from each number below n to the next holds up
\* to n: a smallest counterexample would be a minimal segment.
LEMMA CountUp ==
    ASSUME NEW n \in Nat, NEW S, 0 \in S,
           \A k \in 0..(n - 1) : k \in S => k + 1 \in S
    PROVE  \A k \in 0..n : k \in S
<1> DEFINE N == 0..n
           T == {k \in N : k \notin S}
           below == {0..k : k \in T}
<1> SUFFICES ASSUME T # {} PROVE FALSE
  OBVIOUS
<1>1. \A k \in T : 0..k \in FiniteSubsetsOf(N)
  BY FS_Interval, FS_Subset DEF FiniteSubsetsOf
<1>2. PICK b \in below : \A c \in below : ~(<<c, b>> \in StrictSubsetOrdering(N))
  <2>1. IsWellFoundedOn(StrictSubsetOrdering(N), FiniteSubsetsOf(N))
    BY FS_StrictSubsetOrderingWellFounded
  <2>2. below \subseteq FiniteSubsetsOf(N) /\ below # {}
    BY <1>1
  <2> HIDE DEF below, N
  <2> QED BY <2>1, <2>2, WFMin
<1>3. PICK x \in T : b = 0..x
  OBVIOUS
<1>4. x # 0 /\ x - 1 \in T
  OBVIOUS
<1>5. <<0..(x - 1), 0..x>> \in StrictSubsetOrdering(N)
  <2>1. 0..(x-1) \subseteq 0..x /\ x \in 0..x /\ x \notin 0..(x-1) /\ 0..x \subseteq N
    OBVIOUS
  <2> QED BY <2>1 DEF StrictSubsetOrdering
<1> QED BY <1>2, <1>3, <1>4, <1>5

\* The states of a script are computed command by command.
LEMMA AfterUnfolds ==
    ASSUME NEW d, NEW s, Len(s) \in Nat
    PROVE  /\ After(d, s)[0] = d
           /\ \A k \in 1..Len(s) : After(d, s)[k] = Exec(After(d, s)[k - 1], s[k])
<1> DEFINE n == Len(s)
           Is(f, m) == f = [k \in 0..m |-> IF k = 0 THEN d ELSE Exec(f[k - 1], s[k])]
           S == {m \in 0..n : \E f : Is(f, m)}
<1>1. 0 \in S
  <2>1. \E f : Is(f, 0)
    <3>1. Is([k \in 0..0 |-> d], 0)
      OBVIOUS
    <3> QED BY <3>1
  <2> HIDE DEF Is
  <2> QED BY <2>1
<1>2. \A m \in 0..(n - 1) : m \in S => m + 1 \in S
  <2> SUFFICES ASSUME NEW m \in 0..(n - 1), m \in S PROVE m + 1 \in S
    OBVIOUS
  <2>1. PICK f : Is(f, m)
    OBVIOUS
  <2> DEFINE g == [k \in 0..m + 1 |-> IF k <= m THEN f[k] ELSE Exec(f[m], s[m + 1])]
  <2> HIDE DEF g
  <2>2. \A k \in 0..m + 1 : g[k] = IF k = 0 THEN d ELSE Exec(g[k - 1], s[k])
    BY <2>1 DEF g
  <2>3. g = [k \in 0..m + 1 |-> g[k]]
    BY DEF g
  <2>4. Is(g, m + 1)
    BY <2>2, <2>3
  <2>5. m + 1 \in 0..n
    OBVIOUS
  <2> HIDE DEF Is, n
  <2> QED BY <2>4, <2>5
<1>3. PICK f : Is(f, n)
  <2>1. n \in Nat
    OBVIOUS
  <2> HIDE DEF S, n
  <2>2. \A k \in 0..n : k \in S
    BY <1>1, <1>2, <2>1, CountUp
  <2>3. n \in S
    BY <2>1, <2>2
  <2> HIDE DEF Is
  <2> QED BY <2>3 DEF S
<1>4. After(d, s) = CHOOSE h : Is(h, n)
  BY DEF After
<1>5. Is(After(d, s), n)
  <2> HIDE DEF Is, n
  <2> QED BY <1>3, <1>4
<1> HIDE DEF n
<1> QED BY <1>5 DEF n

\* The states of a loop are computed turn by turn.
LEMMA TurnsUnfold ==
    ASSUME NEW loop, Len(loop) \in Nat
    PROVE  /\ Turns(loop)[0] = db
           /\ \A m \in 1..Len(loop) :
                 Turns(loop)[m] = After(Turns(loop)[m - 1], loop[m])[Len(loop[m])]
<1> DEFINE n == Len(loop)
           turn(d, m) == After(d, loop[m])[Len(loop[m])]
           Is(f, m) == f = [k \in 0..m |-> IF k = 0 THEN db ELSE turn(f[k - 1], k)]
           S == {m \in 0..n : \E f : Is(f, m)}
<1>4. Turns(loop) = CHOOSE h : Is(h, n)
  BY DEF Turns
<1> HIDE DEF turn
<1>1. 0 \in S
  <2>1. \E f : Is(f, 0)
    <3>1. Is([k \in 0..0 |-> db], 0)
      OBVIOUS
    <3> QED BY <3>1
  <2> HIDE DEF Is
  <2> QED BY <2>1
<1>2. \A m \in 0..(n - 1) : m \in S => m + 1 \in S
  <2> SUFFICES ASSUME NEW m \in 0..(n - 1), m \in S PROVE m + 1 \in S
    OBVIOUS
  <2>1. PICK f : Is(f, m)
    OBVIOUS
  <2> DEFINE g == [k \in 0..m + 1 |-> IF k <= m THEN f[k] ELSE turn(f[m], m + 1)]
  <2> HIDE DEF g
  <2>2. \A k \in 0..m + 1 : g[k] = IF k = 0 THEN db ELSE turn(g[k - 1], k)
    BY <2>1 DEF g
  <2>3. g = [k \in 0..m + 1 |-> g[k]]
    BY DEF g
  <2>4. Is(g, m + 1)
    BY <2>2, <2>3
  <2>5. m + 1 \in 0..n
    OBVIOUS
  <2> HIDE DEF Is, n
  <2> QED BY <2>4, <2>5
<1>3. PICK f : Is(f, n)
  <2>1. n \in Nat
    OBVIOUS
  <2> HIDE DEF S, n
  <2>2. \A k \in 0..n : k \in S
    BY <1>1, <1>2, <2>1, CountUp
  <2>3. n \in S
    BY <2>1, <2>2
  <2> HIDE DEF Is
  <2> QED BY <2>3 DEF S
<1>5. Is(Turns(loop), n)
  <2> HIDE DEF Is, n
  <2> QED BY <1>3, <1>4
<1>6. Turns(loop)[0] = db /\ \A m \in 1..n : Turns(loop)[m] = turn(Turns(loop)[m - 1], m)
  <2> HIDE DEF n
  <2> QED BY <1>5 DEF n
<1> QED BY <1>6 DEF turn

-----------------------------------------------------------------------------
(* Lists.  LPUSH puts a member at the head.                                *)

Job == [id : Nat, url : Video \cup Listing]

\* The ids of a list fall from its head to its tail.
Descending(s) == \A i, k \in DOMAIN s : i < k => s[k].id < s[i].id

\* LPUSH of a new id keeps a list in order.
LEMMA Pushed ==
    ASSUME NEW s \in Seq(Job), NEW x \in Job
    PROVE  /\ <<x>> \o s \in Seq(Job)
           /\ ToSet(<<x>> \o s) = {x} \cup ToSet(s)
           /\ Descending(s) /\ (\A j \in ToSet(s) : j.id < x.id)
                 => Descending(<<x>> \o s)
<1> DEFINE t == <<x>> \o s
<1>1. t \in Seq(Job) /\ DOMAIN t = 1..Len(s) + 1 /\ DOMAIN s = 1..Len(s) /\ t[1] = x
      /\ \A i \in 2..Len(s) + 1 : t[i] = s[i - 1]
  OBVIOUS
<1>a. \A i \in 1..Len(s) : t[i + 1] = s[i]
  BY <1>1
<1> HIDE DEF t
<1>b. \A i \in 1..Len(s) : i + 1 \in 1..Len(s) + 1
  OBVIOUS
<1>c. \A i \in 1..Len(s) + 1 : i = 1 \/ (i - 1 \in 1..Len(s) /\ t[i] = s[i - 1])
  BY <1>1
<1>2. ToSet(t) = {x} \cup ToSet(s)
  <2>1. 1 \in DOMAIN t
    BY <1>1
  <2>2. \A i \in 1..Len(s) + 1 : t[i] \in {x} \cup {s[k] : k \in 1..Len(s)}
    BY <1>1, <1>c
  <2>3. \A k \in 1..Len(s) : s[k] \in {t[i] : i \in 1..Len(s) + 1}
    BY <1>a, <1>b
  <2> QED BY <1>1, <2>1, <2>2, <2>3 DEF ToSet
<1>3. Descending(s) /\ (\A j \in ToSet(s) : j.id < x.id) => Descending(t)
  <2> SUFFICES ASSUME Descending(s), \A j \in ToSet(s) : j.id < x.id,
                      NEW i \in 1..Len(s) + 1, NEW k \in 1..Len(s) + 1, i < k
               PROVE  t[k].id < t[i].id
    BY <1>1 DEF Descending
  <2>1. k - 1 \in 1..Len(s) /\ t[k] = s[k - 1]
    BY <1>1
  <2>2. CASE i = 1
    BY <1>1, <2>1, <2>2 DEF ToSet
  <2>3. CASE i # 1
    <3>1. i - 1 \in 1..Len(s) /\ t[i] = s[i - 1] /\ i - 1 < k - 1
      BY <1>1, <2>3
    <3> QED BY <1>1, <2>1, <3>1 DEF Descending
  <2> QED BY <2>2, <2>3
<1> QED BY <1>1, <1>2, <1>3 DEF t

\* LMOVE: the tail of a list that is in the order of its ids is the oldest.
LEMMA Popped ==
    ASSUME NEW s \in Seq(Job), s # <<>>, Descending(s)
    PROVE  /\ Front(s) \in Seq(Job) /\ Last(s) \in Job
           /\ Descending(Front(s))
           /\ ToSet(s) = {Last(s)} \cup ToSet(Front(s))
           /\ \A j \in ToSet(Front(s)) : Last(s).id < j.id
<1> DEFINE n == Len(s)
           t == Front(s)
<1>1. n \in Nat \ {0} /\ DOMAIN s = 1..n
  OBVIOUS
<1>2. t \in Seq(Job) /\ DOMAIN t = 1..(n - 1) /\ \A i \in 1..(n - 1) : t[i] = s[i]
  BY <1>1 DEF Front
<1> HIDE DEF t, n
<1>3. Last(s) = s[n]
  BY DEF Last, n
<1>4. \A i \in 1..n : i = n \/ i \in 1..(n - 1)
  BY <1>1
<1>5. \A i \in 1..(n - 1) : i \in 1..n /\ i < n
  BY <1>1
<1>6. ToSet(s) = {s[n]} \cup ToSet(t)
  <2>1. n \in 1..n
    BY <1>1
  <2> QED BY <1>1, <1>2, <1>4, <1>5, <2>1 DEF ToSet
<1>7. \A j \in ToSet(t) : s[n].id < j.id
  BY <1>1, <1>2, <1>5 DEF ToSet, Descending
<1>8. Descending(t)
  BY <1>1, <1>2, <1>5 DEF Descending
<1>9. s[n] \in Job
  BY <1>1
<1> QED BY <1>2, <1>3, <1>6, <1>7, <1>8, <1>9 DEF t

\* LREM with count 1.
LEMMA Dropped ==
    ASSUME NEW s \in Seq(Job), NEW x, Descending(s)
    PROVE  /\ RemoveFirst(s, x) \in Seq(Job)
           /\ Descending(RemoveFirst(s, x))
           /\ ToSet(RemoveFirst(s, x)) = ToSet(s) \ {x}
<1> DEFINE n == Len(s)
           I == {i \in 1..n : s[i] = x}
<1>0. n \in Nat /\ DOMAIN s = 1..n /\ \A i \in 1..n : s[i] \in Job
  OBVIOUS
<1>1. CASE I = {}
  <2>1. RemoveFirst(s, x) = s
    BY <1>1 DEF RemoveFirst
  <2> QED BY <1>0, <1>1, <2>1 DEF ToSet
<1>2. CASE I # {}
  <2>1. PICK i \in I : TRUE
    BY <1>2
  <2>2. I = {i}
    <3> SUFFICES ASSUME NEW k \in I, k # i PROVE FALSE
      BY <2>1
    <3>1. i \in 1..n /\ k \in 1..n /\ (i < k \/ k < i) /\ s[i] = x /\ s[k] = x /\ x \in Job
      OBVIOUS
    <3> QED BY <1>0, <3>1 DEF Descending, Job
  <2>3. SelectInSeq(s, LAMBDA v : v = x) = i
    <3>1. SelectInSeq(s, LAMBDA v : v = x) = Min(I)
      BY <1>2 DEF SelectInSeq
    <3>2. Min(I) = i
      BY <2>2, <2>1 DEF Min
    <3> QED BY <3>1, <3>2
  <2>4. RemoveFirst(s, x) = SubSeq(s, 1, i - 1) \o SubSeq(s, i + 1, n)
    BY <2>1, <2>3 DEF RemoveFirst, RemoveAt
  <2> DEFINE t == RemoveFirst(s, x)
  <2>5. /\ t \in Seq(Job) /\ DOMAIN t = 1..(n - 1)
        /\ \A k \in 1..(n - 1) : t[k] = IF k < i THEN s[k] ELSE s[k + 1]
    <3> DEFINE a == SubSeq(s, 1, i - 1)
               b == SubSeq(s, i + 1, n)
    <3>1. a \in Seq(Job) /\ Len(a) = i - 1 /\ \A k \in 1..(i - 1) : a[k] = s[k]
      BY <2>1
    <3>2. b \in Seq(Job) /\ Len(b) = n - i /\ \A k \in 1..(n - i) : b[k] = s[k + i]
      BY <2>1
    <3> HIDE DEF a, b
    <3>3. /\ a \o b \in Seq(Job) /\ DOMAIN (a \o b) = 1..(n - 1)
          /\ \A k \in 1..(n - 1) : (a \o b)[k] = IF k < i THEN a[k] ELSE b[k - (i - 1)]
      <4>1. i \in 1..n /\ (i - 1) + (n - i) = n - 1
        BY <2>1
      <4>2. a \o b \in Seq(Job) /\ Len(a \o b) = n - 1
        BY <3>1, <3>2, <4>1, ConcatProperties
      <4>3. DOMAIN (a \o b) = 1..(n - 1)
        BY <4>2
      <4>4. \A k \in 1..(Len(a) + Len(b)) :
               (a \o b)[k] = IF k <= Len(a) THEN a[k] ELSE b[k - Len(a)]
        BY <3>1, <3>2, ConcatProperties
      <4> QED BY <3>1, <3>2, <4>1, <4>2, <4>3, <4>4
    <3>4. ASSUME NEW k \in 1..(n - 1), ~(k < i) PROVE b[k - (i - 1)] = s[k + 1]
      <4>1. k - (i - 1) \in 1..(n - i) /\ k - (i - 1) + i = k + 1
        BY <2>1, <3>4
      <4> QED BY <3>2, <4>1
    <3>5. ASSUME NEW k \in 1..(n - 1), k < i PROVE a[k] = s[k]
      BY <2>1, <3>1, <3>5
    <3>6. t = a \o b
      BY <2>4 DEF a, b
    <3> QED BY <3>3, <3>4, <3>5, <3>6
  <2> HIDE DEF t, n, I
  <2>6. ToSet(t) = ToSet(s) \ {x}
    <3>1. ASSUME NEW k \in 1..(n - 1) PROVE t[k] \in ToSet(s) \ {x}
      <4>1. \E m \in 1..n : m # i /\ t[k] = s[m]
        BY <1>0, <2>1, <2>5, k + 1 \in 1..n, k \in 1..n DEF I
      <4> QED BY <1>0, <2>2, <4>1 DEF ToSet, I
    <3>2. ASSUME NEW m \in 1..n, m # i PROVE s[m] \in ToSet(t)
      <4>1. CASE m < i
        <5>1. m \in 1..(n - 1)
          BY <1>0, <2>1, <4>1 DEF I
        <5> QED BY <4>1, <5>1, <2>5 DEF ToSet
      <4>2. CASE m > i
        <5>1. m - 1 \in 1..(n - 1) /\ ~(m - 1 < i) /\ m - 1 + 1 = m
          BY <1>0, <2>1, <4>2 DEF I
        <5> QED BY <5>1, <2>5 DEF ToSet
      <4> QED BY <1>0, <2>1, <3>2, <4>1, <4>2 DEF I
    <3>3. \A m \in 1..n : s[m] # x => m # i
      BY <2>1 DEF I
    <3> QED BY <1>0, <2>5, <3>1, <3>2, <3>3 DEF ToSet
  <2>7. Descending(t)
    <3> SUFFICES ASSUME NEW a \in 1..(n - 1), NEW b \in 1..(n - 1), a < b
                 PROVE  t[b].id < t[a].id
      BY <2>5 DEF Descending
    <3>1. \E p, q \in 1..n : p < q /\ t[a] = s[p] /\ t[b] = s[q]
      <4>1. a \in 1..n /\ b \in 1..n /\ a + 1 \in 1..n /\ b + 1 \in 1..n /\ i \in 1..n
        BY <1>0, <2>1 DEF I
      <4>2. CASE b < i
        BY <1>0, <2>5, <4>1, <4>2
      <4>3. CASE a < i /\ ~(b < i)
        <5>1. a < b + 1 /\ t[a] = s[a] /\ t[b] = s[b + 1]
          BY <2>5, <4>1, <4>3
        <5> QED BY <4>1, <5>1
      <4>4. CASE ~(a < i)
        <5>1. a + 1 < b + 1 /\ t[a] = s[a + 1] /\ t[b] = s[b + 1]
          BY <2>5, <4>1, <4>4
        <5> QED BY <4>1, <5>1
      <4> QED BY <4>2, <4>3, <4>4
    <3> QED BY <1>0, <3>1 DEF Descending
  <2> QED BY <2>5, <2>6, <2>7 DEF t
<1> QED BY <1>1, <1>2

-----------------------------------------------------------------------------
(* The inductive invariant, of the keys d, the jobs I that were leased and *)
(* the URLs A that were acknowledged.  Every prefix of a script keeps it.  *)

Keys == {"seq", "ready", "processing", "lease", "delayed", "dead", "attempts",
         "strikes", "listingNext", "barren", "bloom"}

Queued(d) == ToSet(d.ready) \cup DOMAIN d.delayed

Jobs(d) == Queued(d) \cup ToSet(d.processing)

Live(d) == {j.url : j \in Jobs(d)}

\* A sorted set or hash is a function on its members.
Hash(z) == z = [m \in DOMAIN z |-> z[m]]

\* A video is dead for good; no quarantine reaches PENDING.
Shape(d) ==
    /\ DOMAIN d = Keys
    /\ d.seq \in Nat
    /\ d.ready \in Seq(Job) /\ d.processing \in Seq(Job)
    /\ Hash(d.lease) /\ Hash(d.delayed) /\ Hash(d.dead) /\ Hash(d.listingNext)
    /\ DOMAIN d.delayed \subseteq Job
    /\ \A u \in DOMAIN d.dead : u \in Video => d.dead[u] = 0
    /\ \A u \in DOMAIN d.dead : d.dead[u] # PendingScore
    /\ DOMAIN d.listingNext \subseteq Listing
    /\ d.bloom \subseteq Video

\* Ids only grow: both lists are in the order of their ids, and what was
\* taken from ready is older than what is there.
Order(d, I) ==
    /\ I \subseteq Job
    /\ \A j \in Jobs(d) \cup I : j.id <= d.seq
    /\ Descending(d.ready) /\ Descending(d.processing)
    /\ \A j \in ToSet(d.processing), k \in ToSet(d.ready) : j.id < k.id
    /\ ToSet(d.ready) \cap DOMAIN d.delayed = {}

Fence(d, I) ==
    /\ DOMAIN d.lease \subseteq ToSet(d.processing) \cap I
    /\ I \cap Queued(d) = {}

Pending(d) == {l \in DOMAIN d.listingNext : d.listingNext[l] = PendingScore}

Kept(d, A) ==
    /\ d.bloom \subseteq A \cup DOMAIN d.dead \cup Live(d)
    /\ Pending(d) \subseteq Live(d)

Sound(d, I, A) == Shape(d) /\ Order(d, I) /\ Fence(d, I) /\ Kept(d, A)

\* The last INCR was not used yet.
Fresh(d, I) == \A j \in Jobs(d) \cup I : j.id < d.seq

\* A command that was skipped does nothing.
LEMMA NoneExec ==
    ASSUME NEW d
    PROVE  Exec(d, <<"NONE">>) = d
BY DEF Exec

\* ZREM and HDEL keep the other members.
LEMMA Removed ==
    ASSUME NEW z, NEW m
    PROVE  /\ DOMAIN Without(z, m) = DOMAIN z \ {m}
           /\ \A k \in DOMAIN z \ {m} : Without(z, m)[k] = z[k]
BY DEF Without, F!Remove, F!Restrict, Restrict

\* Both leave functions.
LEMMA Hashes ==
    ASSUME NEW z, NEW m, NEW x
    PROVE  Hash(Without(z, m)) /\ Hash(F!ZAdd(z, m, x))
BY DEF Hash, Without, F!ZAdd, F!Remove, F!Restrict, Restrict

\* The members of the lists and of the delayed set are jobs.
LEMMA JobsTyped ==
    ASSUME NEW d, NEW I, NEW A, Sound(d, I, A)
    PROVE  /\ ToSet(d.ready) \subseteq Job /\ ToSet(d.processing) \subseteq Job
           /\ Jobs(d) \subseteq Job /\ I \subseteq Job /\ d.seq \in Nat
           /\ \A j \in Jobs(d) \cup I : j.id \in Nat /\ j.url \in Video \cup Listing
<1>1. ToSet(d.ready) \subseteq Job /\ ToSet(d.processing) \subseteq Job
  BY DEF Sound, Shape, ToSet
<1> QED BY <1>1 DEF Sound, Shape, Order, Jobs, Queued, Job

-----------------------------------------------------------------------------
(* Which commands keep Sound, and when.                                    *)

\* INCR gives an id that no job has.
LEMMA IncrKeeps ==
    ASSUME NEW d, NEW I, NEW A, Sound(d, I, A),
           NEW e, e = Exec(d, Incr)
    PROVE  /\ Sound(e, I, A) /\ Fresh(e, I) /\ e.seq = d.seq + 1
           /\ \A key \in Keys \ {"seq"} : e[key] = d[key]
<1>0. DOMAIN d = Keys
  BY DEF Sound, Shape
<1>1. e = [d EXCEPT !.seq = d.seq + 1]
  BY <1>0 DEF Exec, Incr, Keys
<1>2. /\ DOMAIN e = Keys /\ e.seq = d.seq + 1
      /\ e.ready = d.ready /\ e.processing = d.processing /\ e.delayed = d.delayed
      /\ e.lease = d.lease /\ e.dead = d.dead /\ e.listingNext = d.listingNext
      /\ e.bloom = d.bloom
      /\ \A key \in Keys \ {"seq"} : e[key] = d[key]
  BY <1>0, <1>1 DEF Keys
<1>3. Jobs(e) = Jobs(d) /\ Queued(e) = Queued(d) /\ Live(e) = Live(d) /\ Pending(e) = Pending(d)
  BY <1>2 DEF Jobs, Queued, Live, Pending
<1>4. Jobs(d) \cup I \subseteq Job
  BY JobsTyped DEF Sound, Shape, Order, Jobs, Queued
<1>5. Order(e, I) /\ Fresh(e, I)
  BY <1>2, <1>3, <1>4 DEF Sound, Order, Fresh, Job, Shape
<1> QED BY <1>2, <1>3, <1>5 DEF Sound, Shape, Fence, Kept

\* LPUSH of the id that INCR gave.
LEMMA PushKeeps ==
    ASSUME NEW d, NEW I, NEW A, Sound(d, I, A), Fresh(d, I),
           NEW u \in Video \cup Listing,
           NEW e, e = Exec(d, Push(u))
    PROVE  /\ Sound(e, I, A)
           /\ Item(d, u) \in ToSet(e.ready)
           /\ ToSet(e.ready) = {Item(d, u)} \cup ToSet(d.ready)
           /\ \A key \in Keys \ {"ready"} : e[key] = d[key]
<1> DEFINE j == Item(d, u)
<1>0. DOMAIN d = Keys
  BY DEF Sound, Shape
<1>1. e = [d EXCEPT !.ready = <<j>> \o d.ready]
  BY <1>0 DEF Exec, Push, Keys
<1>2. /\ DOMAIN e = Keys /\ e.ready = <<j>> \o d.ready
      /\ e.seq = d.seq /\ e.processing = d.processing /\ e.delayed = d.delayed
      /\ e.lease = d.lease /\ e.dead = d.dead /\ e.listingNext = d.listingNext
      /\ e.bloom = d.bloom
      /\ \A key \in Keys \ {"ready"} : e[key] = d[key]
  BY <1>0, <1>1 DEF Keys
<1>3. j \in Job /\ j.id = d.seq
  BY JobsTyped DEF Item, Job
<1> HIDE DEF j
<1>4. \A k \in Jobs(d) \cup I : k.id < j.id
  BY <1>3 DEF Fresh
<1>5. /\ e.ready \in Seq(Job) /\ Descending(e.ready)
      /\ ToSet(e.ready) = {j} \cup ToSet(d.ready)
  BY <1>2, <1>3, <1>4, Pushed DEF Sound, Shape, Order, Jobs, Queued
<1>6. Queued(e) = {j} \cup Queued(d) /\ Jobs(e) = {j} \cup Jobs(d) /\ Pending(e) = Pending(d)
  BY <1>2, <1>5 DEF Queued, Jobs, Pending
<1>7. Live(d) \subseteq Live(e)
  BY <1>6 DEF Live
<1>8. j \notin Jobs(d) \cup I
  BY <1>3, <1>4, JobsTyped
<1>9. Order(e, I)
  <2>1. \A k \in Jobs(e) \cup I : k.id <= e.seq
    BY <1>2, <1>3, <1>6, JobsTyped DEF Sound, Order
  <2>2. \A k \in ToSet(e.processing), m \in ToSet(e.ready) : k.id < m.id
    BY <1>2, <1>4, <1>5 DEF Sound, Order, Jobs
  <2> QED BY <1>2, <1>5, <1>8, <2>1, <2>2 DEF Sound, Order, Jobs, Queued
<1> QED BY <1>2, <1>5, <1>6, <1>7, <1>8, <1>9 DEF Sound, Shape, Fence, Kept, j

\* ZADD of the id that INCR gave, to the delayed set.
LEMMA DelayKeeps ==
    ASSUME NEW d, NEW I, NEW A, Sound(d, I, A), Fresh(d, I),
           NEW u \in Video \cup Listing, NEW x,
           NEW e, e = Exec(d, <<"DELAY", u, x>>)
    PROVE  /\ Sound(e, I, A)
           /\ e.delayed = F!ZAdd(d.delayed, Item(d, u), x)
           /\ DOMAIN e.delayed = DOMAIN d.delayed \cup {Item(d, u)}
           /\ \A key \in Keys \ {"delayed"} : e[key] = d[key]
<1> DEFINE j == Item(d, u)
<1>0. DOMAIN d = Keys
  BY DEF Sound, Shape
<1>1. e = [d EXCEPT !.delayed = F!ZAdd(d.delayed, j, x)]
  BY <1>0 DEF Exec, Keys
<1>2. /\ DOMAIN e = Keys /\ e.delayed = F!ZAdd(d.delayed, j, x)
      /\ e.seq = d.seq /\ e.processing = d.processing /\ e.ready = d.ready
      /\ e.lease = d.lease /\ e.dead = d.dead /\ e.listingNext = d.listingNext
      /\ e.bloom = d.bloom
      /\ \A key \in Keys \ {"delayed"} : e[key] = d[key]
  BY <1>0, <1>1 DEF Keys
<1>3. j \in Job /\ j.id = d.seq
  BY JobsTyped DEF Item, Job
<1> HIDE DEF j
<1>4. \A k \in Jobs(d) \cup I : k.id < j.id
  BY <1>3 DEF Fresh
<1>5. DOMAIN e.delayed = DOMAIN d.delayed \cup {j}
  BY <1>2 DEF F!ZAdd
<1>6. Queued(e) = {j} \cup Queued(d) /\ Jobs(e) = {j} \cup Jobs(d) /\ Pending(e) = Pending(d)
  BY <1>2, <1>5 DEF Queued, Jobs, Pending
<1>7. Live(d) \subseteq Live(e)
  BY <1>6 DEF Live
<1>8. j \notin Jobs(d) \cup I
  BY <1>3, <1>4, JobsTyped
<1>9. Order(e, I)
  <2>1. \A k \in Jobs(e) \cup I : k.id <= e.seq
    BY <1>2, <1>3, <1>6, JobsTyped DEF Sound, Order
  <2> QED BY <1>2, <1>5, <1>8, <2>1 DEF Sound, Order, Jobs, Queued
<1>10. Hash(e.delayed)
  BY <1>2, Hashes
<1>11. Shape(e)
  BY <1>2, <1>3, <1>5, <1>10 DEF Sound, Shape
<1> QED BY <1>2, <1>5, <1>6, <1>7, <1>8, <1>9, <1>11 DEF Sound, Fence, Kept, j

\* A job may leave a list or the delayed set when its URL has another job, or
\* needs none.
Spare(d, A, j) ==
    /\ j.url \in d.bloom =>
          j.url \in A \cup DOMAIN d.dead \cup {k.url : k \in Jobs(d) \ {j}}
    /\ j.url \in Pending(d) => j.url \in {k.url : k \in Jobs(d) \ {j}}

\* Jobs leave, and nothing else happens.
LEMMA LeavingKeeps ==
    ASSUME NEW d, NEW e, NEW I, NEW A, NEW j, Sound(d, I, A), Spare(d, A, j),
           DOMAIN e = Keys,
           e.ready \in Seq(Job), e.processing \in Seq(Job),
           Descending(e.ready), Descending(e.processing),
           ToSet(e.ready) \subseteq ToSet(d.ready),
           ToSet(e.processing) \subseteq ToSet(d.processing),
           DOMAIN e.delayed \subseteq DOMAIN d.delayed, Hash(e.delayed),
           Jobs(d) \ {j} \subseteq Jobs(e),
           DOMAIN e.lease \subseteq ToSet(e.processing),
           \A key \in Keys \ {"ready", "processing", "delayed"} : e[key] = d[key]
    PROVE  Sound(e, I, A)
<1>1. /\ e.seq = d.seq /\ e.lease = d.lease /\ e.dead = d.dead
      /\ e.listingNext = d.listingNext /\ e.bloom = d.bloom
  BY DEF Keys
<1>2. Queued(e) \subseteq Queued(d) /\ Jobs(e) \subseteq Jobs(d) /\ Pending(e) = Pending(d)
  BY <1>1 DEF Queued, Jobs, Pending
<1>3. Shape(e)
  BY <1>1 DEF Sound, Shape
<1>4. Order(e, I) /\ Fence(e, I)
  BY <1>1, <1>2 DEF Sound, Order, Fence
<1>5. {k.url : k \in Jobs(d) \ {j}} \subseteq Live(e)
  BY DEF Live
<1>6. \A u \in Live(d) : u \notin Live(e) => u = j.url
  BY DEF Live
<1>7. Kept(e, A)
  BY <1>1, <1>2, <1>5, <1>6 DEF Sound, Kept, Spare
<1> QED BY <1>3, <1>4, <1>7 DEF Sound

\* LREM of a spare job that has no lease.
LEMMA DropKeeps ==
    ASSUME NEW d, NEW I, NEW A, NEW j, NEW key \in {"ready", "processing"},
           Sound(d, I, A), Spare(d, A, j), j \notin DOMAIN d.lease,
           NEW e, e = Exec(d, Drop(key, j))
    PROVE  /\ Sound(e, I, A)
           /\ ToSet(e[key]) = ToSet(d[key]) \ {j}
           /\ \A other \in Keys \ {key} : e[other] = d[other]
<1>0. DOMAIN d = Keys
  BY DEF Sound, Shape
<1>1. e = [d EXCEPT ![key] = RemoveFirst(d[key], j)]
  BY <1>0 DEF Exec, Drop, Keys
<1>2. /\ DOMAIN e = Keys /\ e[key] = RemoveFirst(d[key], j)
      /\ \A other \in Keys \ {key} : e[other] = d[other]
  BY <1>0, <1>1 DEF Keys
<1>3. d[key] \in Seq(Job) /\ Descending(d[key])
  BY DEF Sound, Shape, Order
<1>4. e[key] \in Seq(Job) /\ Descending(e[key]) /\ ToSet(e[key]) = ToSet(d[key]) \ {j}
  BY <1>2, <1>3, Dropped
<1>5. e.delayed = d.delayed /\ e.lease = d.lease
  BY <1>2 DEF Keys
<1>6. /\ e.ready \in Seq(Job) /\ e.processing \in Seq(Job)
      /\ Descending(e.ready) /\ Descending(e.processing)
      /\ ToSet(e.ready) \subseteq ToSet(d.ready)
      /\ ToSet(e.processing) \subseteq ToSet(d.processing)
      /\ Jobs(d) \ {j} \subseteq Jobs(e)
      /\ DOMAIN e.lease \subseteq ToSet(e.processing)
  <2>1. CASE key = "ready"
    <3>1. e.processing = d.processing
      BY <1>2, <2>1 DEF Keys
    <3> QED BY <1>4, <1>5, <2>1, <3>1 DEF Jobs, Queued, Sound, Shape, Order, Fence
  <2>2. CASE key = "processing"
    <3>1. e.ready = d.ready
      BY <1>2, <2>2 DEF Keys
    <3> QED BY <1>4, <1>5, <2>2, <3>1 DEF Jobs, Queued, Sound, Shape, Order, Fence
  <2> QED BY <2>1, <2>2
<1>a. Hash(e.delayed)
  BY <1>5 DEF Sound, Shape
<1>7. Sound(e, I, A)
  BY <1>2, <1>5, <1>6, <1>a, LeavingKeeps
<1> QED BY <1>2, <1>4, <1>7

\* ZREM of a spare job from the delayed set.
LEMMA PromoteKeeps ==
    ASSUME NEW d, NEW I, NEW A, NEW j, Sound(d, I, A), Spare(d, A, j),
           NEW e, e = Exec(d, Del("delayed", j))
    PROVE  /\ Sound(e, I, A)
           /\ e.delayed = Without(d.delayed, j)
           /\ \A key \in Keys \ {"delayed"} : e[key] = d[key]
<1>0. DOMAIN d = Keys
  BY DEF Sound, Shape
<1>1. e = [d EXCEPT !.delayed = Without(d.delayed, j)]
  BY <1>0 DEF Exec, Del, Keys
<1>2. /\ DOMAIN e = Keys /\ e.delayed = Without(d.delayed, j)
      /\ e.ready = d.ready /\ e.processing = d.processing /\ e.lease = d.lease
      /\ \A key \in Keys \ {"delayed"} : e[key] = d[key]
  BY <1>0, <1>1 DEF Keys
<1>3. DOMAIN e.delayed = DOMAIN d.delayed \ {j}
  BY <1>2, Removed
<1>4. Jobs(d) \ {j} \subseteq Jobs(e)
  BY <1>2, <1>3 DEF Jobs, Queued
<1>5. /\ e.ready \in Seq(Job) /\ e.processing \in Seq(Job)
      /\ Descending(e.ready) /\ Descending(e.processing)
      /\ DOMAIN e.lease \subseteq ToSet(e.processing)
  BY <1>2 DEF Sound, Shape, Order, Fence
<1>6. \A key \in Keys \ {"ready", "processing", "delayed"} : e[key] = d[key]
  BY <1>2
<1>a. Hash(e.delayed)
  BY <1>2, Hashes
<1>7. Sound(e, I, A)
  BY <1>2, <1>3, <1>4, <1>5, <1>6, <1>a, LeavingKeeps
<1> QED BY <1>2, <1>7

\* ZREM of a lease needs nothing.
LEMMA ReleaseKeeps ==
    ASSUME NEW d, NEW I, NEW A, NEW j, Sound(d, I, A),
           NEW e, e = Exec(d, Del("lease", j))
    PROVE  /\ Sound(e, I, A) /\ j \notin DOMAIN e.lease
           /\ e.lease = Without(d.lease, j)
           /\ DOMAIN e.lease \subseteq DOMAIN d.lease
           /\ \A key \in Keys \ {"lease"} : e[key] = d[key]
<1>0. DOMAIN d = Keys
  BY DEF Sound, Shape
<1>1. e = [d EXCEPT !.lease = Without(d.lease, j)]
  BY <1>0 DEF Exec, Del, Keys
<1>2. /\ DOMAIN e = Keys /\ e.lease = Without(d.lease, j)
      /\ e.seq = d.seq /\ e.ready = d.ready /\ e.processing = d.processing
      /\ e.delayed = d.delayed /\ e.dead = d.dead /\ e.listingNext = d.listingNext
      /\ e.bloom = d.bloom
      /\ \A key \in Keys \ {"lease"} : e[key] = d[key]
  BY <1>0, <1>1 DEF Keys
<1>3. DOMAIN e.lease = DOMAIN d.lease \ {j}
  BY <1>2, Removed
<1>4. Queued(e) = Queued(d) /\ Jobs(e) = Jobs(d) /\ Live(e) = Live(d) /\ Pending(e) = Pending(d)
  BY <1>2 DEF Queued, Jobs, Live, Pending
<1>a. Shape(e)
  BY <1>2, Hashes DEF Sound, Shape
<1>5. Sound(e, I, A)
  BY <1>2, <1>3, <1>4, <1>a DEF Sound, Order, Fence, Kept
<1> QED BY <1>2, <1>3, <1>5

\* LMOVE takes the oldest job of ready, which is younger than all of processing.
LEMMA MoveKeeps ==
    ASSUME NEW d, NEW I, NEW A, Sound(d, I, A), d.ready # <<>>,
           NEW e, e = Exec(d, <<"LMOVE">>)
    PROVE  /\ Sound(e, I, A)
           /\ Last(d.ready) \in Job /\ Last(d.ready) \notin Queued(e)
           /\ ToSet(d.ready) = {Last(d.ready)} \cup ToSet(e.ready)
           /\ ToSet(e.processing) = {Last(d.ready)} \cup ToSet(d.processing)
           /\ \A key \in Keys \ {"ready", "processing"} : e[key] = d[key]
<1> DEFINE j == Last(d.ready)
<1>0. DOMAIN d = Keys
  BY DEF Sound, Shape
<1>1. e = [d EXCEPT !.ready = Front(d.ready), !.processing = <<j>> \o d.processing]
  BY <1>0 DEF Exec, Keys
<1>2. /\ DOMAIN e = Keys /\ e.ready = Front(d.ready)
      /\ e.processing = <<j>> \o d.processing
      /\ e.seq = d.seq /\ e.lease = d.lease
      /\ e.delayed = d.delayed /\ e.dead = d.dead /\ e.listingNext = d.listingNext
      /\ e.bloom = d.bloom
      /\ \A key \in Keys \ {"ready", "processing"} : e[key] = d[key]
  BY <1>0, <1>1 DEF Keys
<1>3. /\ e.ready \in Seq(Job) /\ j \in Job
      /\ Descending(e.ready)
      /\ ToSet(d.ready) = {j} \cup ToSet(e.ready)
      /\ \A k \in ToSet(e.ready) : j.id < k.id
  BY <1>2, Popped DEF Sound, Shape, Order
<1> HIDE DEF j
<1>4. \A k \in ToSet(d.processing) : k.id < j.id
  BY <1>3 DEF Sound, Order
<1>5. /\ e.processing \in Seq(Job) /\ Descending(e.processing)
      /\ ToSet(e.processing) = {j} \cup ToSet(d.processing)
  BY <1>2, <1>3, <1>4, Pushed DEF Sound, Shape, Order
<1>6. j \notin ToSet(e.ready) /\ j \notin DOMAIN d.delayed
  BY <1>3 DEF Job, Sound, Order
<1>7. Jobs(e) = Jobs(d) /\ Queued(d) = {j} \cup Queued(e) /\ j \notin Queued(e)
  BY <1>2, <1>3, <1>5, <1>6 DEF Jobs, Queued
<1>8. Live(e) = Live(d) /\ Pending(e) = Pending(d)
  BY <1>2, <1>7 DEF Live, Pending
<1>9. Order(e, I)
  <2>1. \A k \in ToSet(e.processing), m \in ToSet(e.ready) : k.id < m.id
    BY <1>3, <1>5 DEF Sound, Order
  <2>2. \A k \in Jobs(e) \cup I : k.id <= e.seq
    BY <1>2, <1>7 DEF Sound, Order
  <2>3. ToSet(e.ready) \cap DOMAIN e.delayed = {}
    BY <1>2, <1>3 DEF Sound, Order
  <2> QED BY <1>3, <1>5, <2>1, <2>2, <2>3 DEF Sound, Order
<1>10. Shape(e) /\ Fence(e, I) /\ Kept(e, A)
  BY <1>2, <1>3, <1>5, <1>7, <1>8 DEF Sound, Shape, Fence, Kept
<1> QED BY <1>2, <1>3, <1>5, <1>7, <1>9, <1>10 DEF Sound, j

\* ZADD of a lease issues the job.
LEMMA GrantKeeps ==
    ASSUME NEW d, NEW I, NEW A, NEW j, NEW x, NEW K, K = I \cup {j}, Sound(d, I, A),
           j \in ToSet(d.processing), j \notin Queued(d),
           NEW e, e = Exec(d, Set("lease", j, x))
    PROVE  /\ Sound(e, K, A)
           /\ e.lease = F!ZAdd(d.lease, j, x)
           /\ DOMAIN e.lease = DOMAIN d.lease \cup {j}
           /\ \A key \in Keys \ {"lease"} : e[key] = d[key]
<1>0. DOMAIN d = Keys
  BY DEF Sound, Shape
<1>1. e = [d EXCEPT !.lease = F!ZAdd(d.lease, j, x)]
  BY <1>0 DEF Exec, Set, Keys
<1>2. /\ DOMAIN e = Keys /\ e.lease = F!ZAdd(d.lease, j, x)
      /\ e.seq = d.seq /\ e.ready = d.ready /\ e.processing = d.processing
      /\ e.delayed = d.delayed /\ e.dead = d.dead /\ e.listingNext = d.listingNext
      /\ e.bloom = d.bloom
      /\ \A key \in Keys \ {"lease"} : e[key] = d[key]
  BY <1>0, <1>1 DEF Keys
<1>3. DOMAIN e.lease = DOMAIN d.lease \cup {j}
  BY <1>2 DEF F!ZAdd
<1>4. Queued(e) = Queued(d) /\ Jobs(e) = Jobs(d) /\ Live(e) = Live(d) /\ Pending(e) = Pending(d)
  BY <1>2 DEF Queued, Jobs, Live, Pending
<1>5. j \in Job /\ j \in Jobs(d)
  BY JobsTyped DEF Jobs
<1>6. Order(e, K)
  BY <1>2, <1>4, <1>5 DEF Sound, Order
<1>a. Shape(e)
  BY <1>2, Hashes DEF Sound, Shape
<1>7. Sound(e, K, A)
  BY <1>2, <1>3, <1>4, <1>6, <1>a DEF Sound, Fence, Kept
<1> QED BY <1>2, <1>3, <1>7

\* Commands on the keys that Sound only reads URLs from.
LEMMA UrlKeysKeep ==
    ASSUME NEW d, NEW e, NEW I, NEW A, Sound(d, I, A), DOMAIN e = Keys,
           \A key \in {"seq", "ready", "processing", "delayed", "lease"} : e[key] = d[key],
           \A u \in DOMAIN e.dead : u \in Video => e.dead[u] = 0,
           \A u \in DOMAIN e.dead : e.dead[u] # PendingScore,
           Hash(e.dead), Hash(e.listingNext), DOMAIN e.listingNext \subseteq Listing,
           e.bloom \subseteq Video,
           e.bloom \subseteq A \cup DOMAIN e.dead \cup Live(d),
           Pending(e) \subseteq Live(d)
    PROVE  Sound(e, I, A)
<1>1. /\ e.seq = d.seq /\ e.ready = d.ready /\ e.processing = d.processing
      /\ e.delayed = d.delayed /\ e.lease = d.lease
  OBVIOUS
<1>2. Queued(e) = Queued(d) /\ Jobs(e) = Jobs(d) /\ Live(e) = Live(d)
  BY <1>1 DEF Queued, Jobs, Live
<1>3. Shape(e)
  BY <1>1 DEF Sound, Shape
<1>4. Order(e, I) /\ Fence(e, I)
  BY <1>1, <1>2 DEF Sound, Order, Fence
<1>5. Kept(e, A)
  BY <1>2 DEF Kept
<1> QED BY <1>3, <1>4, <1>5 DEF Sound

\* HSET of a dead entry, for good if it is a video.
LEMMA BuryKeeps ==
    ASSUME NEW d, NEW I, NEW A, NEW u, NEW x, Sound(d, I, A),
           u \in Video => x = 0, x # PendingScore,
           NEW e, e = Exec(d, Set("dead", u, x))
    PROVE  /\ Sound(e, I, A) /\ u \in DOMAIN e.dead
           /\ e.dead = F!ZAdd(d.dead, u, x)
           /\ \A key \in Keys \ {"dead"} : e[key] = d[key]
<1>0. DOMAIN d = Keys
  BY DEF Sound, Shape
<1>1. e = [d EXCEPT !.dead = F!ZAdd(d.dead, u, x)]
  BY <1>0 DEF Exec, Set, Keys
<1>2. /\ DOMAIN e = Keys /\ e.dead = F!ZAdd(d.dead, u, x)
      /\ e.listingNext = d.listingNext /\ e.bloom = d.bloom
      /\ \A key \in Keys \ {"dead"} : e[key] = d[key]
  BY <1>0, <1>1 DEF Keys
<1>3. /\ DOMAIN e.dead = DOMAIN d.dead \cup {u} /\ e.dead[u] = x
      /\ \A k \in DOMAIN d.dead \ {u} : e.dead[k] = d.dead[k]
  BY <1>2 DEF F!ZAdd
<1>4. \A k \in DOMAIN e.dead : (k \in Video => e.dead[k] = 0) /\ e.dead[k] # PendingScore
  BY <1>3 DEF Sound, Shape
<1>5. \A key \in {"seq", "ready", "processing", "delayed", "lease"} : e[key] = d[key]
  BY <1>2 DEF Keys
<1>6. Pending(e) = Pending(d)
  BY <1>2 DEF Pending
<1>7. /\ DOMAIN e.listingNext \subseteq Listing /\ e.bloom \subseteq Video
      /\ e.bloom \subseteq A \cup DOMAIN e.dead \cup Live(d)
      /\ Pending(e) \subseteq Live(d)
  BY <1>2, <1>3, <1>6 DEF Sound, Shape, Kept
<1>a. Hash(e.dead) /\ Hash(e.listingNext)
  BY <1>2, Hashes DEF Sound, Shape
<1>8. Sound(e, I, A)
  BY <1>2, <1>4, <1>5, <1>7, <1>a, UrlKeysKeep
<1> QED BY <1>2, <1>3, <1>8

\* HDEL of a dead entry, unless it is all that is left of a claim.
LEMMA ReviveKeeps ==
    ASSUME NEW d, NEW I, NEW A, NEW u, Sound(d, I, A),
           u \in d.bloom => u \in A \cup Live(d),
           NEW e, e = Exec(d, Del("dead", u))
    PROVE  /\ Sound(e, I, A)
           /\ e.dead = Without(d.dead, u)
           /\ \A key \in Keys \ {"dead"} : e[key] = d[key]
<1>0. DOMAIN d = Keys
  BY DEF Sound, Shape
<1>1. e = [d EXCEPT !.dead = Without(d.dead, u)]
  BY <1>0 DEF Exec, Del, Keys
<1>2. /\ DOMAIN e = Keys /\ e.dead = Without(d.dead, u)
      /\ e.listingNext = d.listingNext /\ e.bloom = d.bloom
      /\ \A key \in Keys \ {"dead"} : e[key] = d[key]
  BY <1>0, <1>1 DEF Keys
<1>3. /\ DOMAIN e.dead = DOMAIN d.dead \ {u}
      /\ \A k \in DOMAIN d.dead \ {u} : e.dead[k] = d.dead[k]
  BY <1>2 DEF Without, F!Remove, F!Restrict, Restrict
<1>4. \A k \in DOMAIN e.dead : (k \in Video => e.dead[k] = 0) /\ e.dead[k] # PendingScore
  BY <1>3 DEF Sound, Shape
<1>5. \A key \in {"seq", "ready", "processing", "delayed", "lease"} : e[key] = d[key]
  BY <1>2 DEF Keys
<1>6. Pending(e) = Pending(d)
  BY <1>2 DEF Pending
<1>7. /\ DOMAIN e.listingNext \subseteq Listing /\ e.bloom \subseteq Video
      /\ e.bloom \subseteq A \cup DOMAIN e.dead \cup Live(d)
      /\ Pending(e) \subseteq Live(d)
  BY <1>2, <1>3, <1>6 DEF Sound, Shape, Kept
<1>a. Hash(e.dead) /\ Hash(e.listingNext)
  BY <1>2, Hashes DEF Sound, Shape
<1>8. Sound(e, I, A)
  BY <1>2, <1>4, <1>5, <1>7, <1>a, UrlKeysKeep
<1> QED BY <1>2, <1>8

\* ZADD to the schedule: PENDING needs a job.
LEMMA ScheduleKeeps ==
    ASSUME NEW d, NEW I, NEW A, NEW l \in Listing, NEW x, Sound(d, I, A),
           x = PendingScore => l \in Live(d),
           NEW e, e = Exec(d, Set("listingNext", l, x))
    PROVE  /\ Sound(e, I, A)
           /\ e.listingNext = F!ZAdd(d.listingNext, l, x)
           /\ \A key \in Keys \ {"listingNext"} : e[key] = d[key]
<1>0. DOMAIN d = Keys
  BY DEF Sound, Shape
<1>1. e = [d EXCEPT !.listingNext = F!ZAdd(d.listingNext, l, x)]
  BY <1>0 DEF Exec, Set, Keys
<1>2. /\ DOMAIN e = Keys /\ e.listingNext = F!ZAdd(d.listingNext, l, x)
      /\ e.dead = d.dead /\ e.bloom = d.bloom
      /\ \A key \in Keys \ {"listingNext"} : e[key] = d[key]
  BY <1>0, <1>1 DEF Keys
<1>3. /\ DOMAIN e.listingNext = DOMAIN d.listingNext \cup {l} /\ e.listingNext[l] = x
      /\ \A k \in DOMAIN d.listingNext \ {l} : e.listingNext[k] = d.listingNext[k]
  BY <1>2 DEF F!ZAdd
<1>4. \A key \in {"seq", "ready", "processing", "delayed", "lease"} : e[key] = d[key]
  BY <1>2 DEF Keys
<1>5. Pending(e) \subseteq Live(d)
  BY <1>3 DEF Pending, Sound, Kept
<1>6. /\ DOMAIN e.listingNext \subseteq Listing /\ e.bloom \subseteq Video
      /\ e.bloom \subseteq A \cup DOMAIN e.dead \cup Live(d)
      /\ \A u \in DOMAIN e.dead : u \in Video => e.dead[u] = 0
      /\ \A u \in DOMAIN e.dead : e.dead[u] # PendingScore
  BY <1>2, <1>3 DEF Sound, Shape, Kept
<1>a. Hash(e.dead) /\ Hash(e.listingNext)
  BY <1>2, Hashes DEF Sound, Shape
<1>7. Sound(e, I, A)
  BY <1>2, <1>4, <1>5, <1>6, <1>a, UrlKeysKeep
<1> QED BY <1>2, <1>7

\* ZREM from the schedule needs nothing.
LEMMA UnscheduleKeeps ==
    ASSUME NEW d, NEW I, NEW A, NEW l, Sound(d, I, A),
           NEW e, e = Exec(d, Del("listingNext", l))
    PROVE  /\ Sound(e, I, A)
           /\ e.listingNext = Without(d.listingNext, l)
           /\ \A key \in Keys \ {"listingNext"} : e[key] = d[key]
<1>0. DOMAIN d = Keys
  BY DEF Sound, Shape
<1>1. e = [d EXCEPT !.listingNext = Without(d.listingNext, l)]
  BY <1>0 DEF Exec, Del, Keys
<1>2. /\ DOMAIN e = Keys /\ e.listingNext = Without(d.listingNext, l)
      /\ e.dead = d.dead /\ e.bloom = d.bloom
      /\ \A key \in Keys \ {"listingNext"} : e[key] = d[key]
  BY <1>0, <1>1 DEF Keys
<1>3. /\ DOMAIN e.listingNext = DOMAIN d.listingNext \ {l}
      /\ \A k \in DOMAIN d.listingNext \ {l} : e.listingNext[k] = d.listingNext[k]
  BY <1>2 DEF Without, F!Remove, F!Restrict, Restrict
<1>4. \A key \in {"seq", "ready", "processing", "delayed", "lease"} : e[key] = d[key]
  BY <1>2 DEF Keys
<1>5. Pending(e) \subseteq Live(d)
  BY <1>3 DEF Pending, Sound, Kept
<1>6. /\ DOMAIN e.listingNext \subseteq Listing /\ e.bloom \subseteq Video
      /\ e.bloom \subseteq A \cup DOMAIN e.dead \cup Live(d)
      /\ \A u \in DOMAIN e.dead : u \in Video => e.dead[u] = 0
      /\ \A u \in DOMAIN e.dead : e.dead[u] # PendingScore
  BY <1>2, <1>3 DEF Sound, Shape, Kept
<1>a. Hash(e.dead) /\ Hash(e.listingNext)
  BY <1>2, Hashes DEF Sound, Shape
<1>7. Sound(e, I, A)
  BY <1>2, <1>4, <1>5, <1>6, <1>a, UrlKeysKeep
<1> QED BY <1>2, <1>7

\* BF.ADD of a video that has a job.
LEMMA ClaimKeeps ==
    ASSUME NEW d, NEW I, NEW A, NEW v \in Video, Sound(d, I, A), v \in Live(d),
           NEW e, e = Exec(d, <<"BFADD", v>>)
    PROVE  /\ Sound(e, I, A)
           /\ e.bloom = IF F!BloomFull THEN d.bloom ELSE d.bloom \cup {v}
           /\ \A key \in Keys \ {"bloom"} : e[key] = d[key]
<1> DEFINE b == IF F!BloomFull THEN d.bloom ELSE d.bloom \cup {v}
<1>0. DOMAIN d = Keys
  BY DEF Sound, Shape
<1>1. e = [d EXCEPT !.bloom = b]
  BY <1>0 DEF Exec, Keys
<1>2. /\ DOMAIN e = Keys /\ e.bloom = b
      /\ e.dead = d.dead /\ e.listingNext = d.listingNext
      /\ \A key \in Keys \ {"bloom"} : e[key] = d[key]
  BY <1>0, <1>1 DEF Keys
<1>3. b \subseteq d.bloom \cup {v}
  OBVIOUS
<1>4. \A key \in {"seq", "ready", "processing", "delayed", "lease"} : e[key] = d[key]
  BY <1>2 DEF Keys
<1>5. Pending(e) = Pending(d)
  BY <1>2 DEF Pending
<1> HIDE DEF b
<1>6. /\ DOMAIN e.listingNext \subseteq Listing /\ e.bloom \subseteq Video
      /\ e.bloom \subseteq A \cup DOMAIN e.dead \cup Live(d)
      /\ Pending(e) \subseteq Live(d)
      /\ \A u \in DOMAIN e.dead : u \in Video => e.dead[u] = 0
      /\ \A u \in DOMAIN e.dead : e.dead[u] # PendingScore
  BY <1>2, <1>3, <1>5 DEF Sound, Shape, Kept
<1>a. Hash(e.dead) /\ Hash(e.listingNext)
  BY <1>2, Hashes DEF Sound, Shape
<1>7. Sound(e, I, A)
  BY <1>2, <1>4, <1>6, <1>a, UrlKeysKeep
<1> QED BY <1>2, <1>7 DEF b

\* HSET and HINCRBY of a counter need nothing.
LEMMA CountKeeps ==
    ASSUME NEW d, NEW I, NEW A, NEW key \in {"attempts", "strikes", "barren"},
           NEW u, NEW x, Sound(d, I, A),
           NEW e, e = Exec(d, Set(key, u, x))
    PROVE  /\ Sound(e, I, A)
           /\ \A other \in Keys \ {key} : e[other] = d[other]
<1>1. DOMAIN d = Keys
  BY DEF Sound, Shape
<1>2. PICK y : e = [d EXCEPT ![key] = y]
  BY <1>1 DEF Exec, Set, Keys
<1>3. /\ DOMAIN e = Keys /\ e[key] = y
      /\ e.dead = d.dead /\ e.listingNext = d.listingNext /\ e.bloom = d.bloom
      /\ \A other \in Keys \ {key} : e[other] = d[other]
  BY <1>1, <1>2 DEF Keys
<1>4. \A k \in {"seq", "ready", "processing", "delayed", "lease"} : e[k] = d[k]
  BY <1>3 DEF Keys
<1>5. Pending(e) = Pending(d)
  BY <1>3 DEF Pending
<1>6. /\ DOMAIN e.listingNext \subseteq Listing /\ e.bloom \subseteq Video
      /\ e.bloom \subseteq A \cup DOMAIN e.dead \cup Live(d)
      /\ Pending(e) \subseteq Live(d)
      /\ \A w \in DOMAIN e.dead : w \in Video => e.dead[w] = 0
      /\ \A w \in DOMAIN e.dead : e.dead[w] # PendingScore
  BY <1>3, <1>5 DEF Sound, Shape, Kept
<1>a. Hash(e.dead) /\ Hash(e.listingNext)
  BY <1>3, Hashes DEF Sound, Shape
<1>7. Sound(e, I, A)
  BY <1>3, <1>4, <1>6, <1>a, UrlKeysKeep
<1> QED BY <1>3, <1>7

\* HDEL of a counter needs nothing.
LEMMA ClearKeeps ==
    ASSUME NEW d, NEW I, NEW A, NEW key \in {"attempts", "strikes"},
           NEW u, Sound(d, I, A), NEW e, e = Exec(d, Del(key, u))
    PROVE  /\ Sound(e, I, A)
           /\ \A other \in Keys \ {key} : e[other] = d[other]
<1>1. DOMAIN d = Keys
  BY DEF Sound, Shape
<1>2. PICK y : e = [d EXCEPT ![key] = y]
  BY <1>1 DEF Exec, Del, Keys
<1>3. /\ DOMAIN e = Keys /\ e[key] = y
      /\ e.dead = d.dead /\ e.listingNext = d.listingNext /\ e.bloom = d.bloom
      /\ \A other \in Keys \ {key} : e[other] = d[other]
  BY <1>1, <1>2 DEF Keys
<1>4. \A k \in {"seq", "ready", "processing", "delayed", "lease"} : e[k] = d[k]
  BY <1>3 DEF Keys
<1>5. Pending(e) = Pending(d)
  BY <1>3 DEF Pending
<1>6. /\ DOMAIN e.listingNext \subseteq Listing /\ e.bloom \subseteq Video
      /\ e.bloom \subseteq A \cup DOMAIN e.dead \cup Live(d)
      /\ Pending(e) \subseteq Live(d)
      /\ \A w \in DOMAIN e.dead : w \in Video => e.dead[w] = 0
      /\ \A w \in DOMAIN e.dead : e.dead[w] # PendingScore
  BY <1>3, <1>5 DEF Sound, Shape, Kept
<1>a. Hash(e.dead) /\ Hash(e.listingNext)
  BY <1>3, Hashes DEF Sound, Shape
<1>7. Sound(e, I, A)
  BY <1>3, <1>4, <1>6, <1>a, UrlKeysKeep
<1> QED BY <1>3, <1>7

-----------------------------------------------------------------------------
(* The states of a script of a given length, one by one.                   *)

\* One command.
LEMMA PrefixesOne ==
    ASSUME NEW d, NEW c1
    PROVE  LET s == <<c1>>
               t == After(d, s)
           IN  /\ Len(s) = 1 /\ DOMAIN s = 1..1 /\ t[0] = d
               /\ t[1] = Exec(t[0], c1)
<1> DEFINE s == <<c1>>
           t == After(d, s)
<1>0. Len(s) \in Nat
  OBVIOUS
<1>1. Len(s) = 1 /\ DOMAIN s = 1..1
  OBVIOUS
<1>2. s[1] = c1
  OBVIOUS
<1> HIDE DEF s
<1>3. t[0] = d /\ \A k \in 1..Len(s) : t[k] = Exec(t[k - 1], s[k])
  BY <1>0, AfterUnfolds
<1> HIDE DEF t
<1>4. /\ t[1] = Exec(t[0], s[1])
  BY <1>1, <1>3
<1> QED BY <1>1, <1>2, <1>3, <1>4 DEF s, t

\* Two commands.
LEMMA PrefixesTwo ==
    ASSUME NEW d, NEW c1, NEW c2
    PROVE  LET s == <<c1, c2>>
               t == After(d, s)
           IN  /\ Len(s) = 2 /\ DOMAIN s = 1..2 /\ t[0] = d
               /\ t[1] = Exec(t[0], c1)
               /\ t[2] = Exec(t[1], c2)
<1> DEFINE s == <<c1, c2>>
           t == After(d, s)
<1>0. Len(s) \in Nat
  OBVIOUS
<1>1. Len(s) = 2 /\ DOMAIN s = 1..2
  OBVIOUS
<1>2. s[1] = c1 /\ s[2] = c2
  OBVIOUS
<1> HIDE DEF s
<1>3. t[0] = d /\ \A k \in 1..Len(s) : t[k] = Exec(t[k - 1], s[k])
  BY <1>0, AfterUnfolds
<1> HIDE DEF t
<1>4. /\ t[1] = Exec(t[0], s[1])
      /\ t[2] = Exec(t[1], s[2])
  BY <1>1, <1>3
<1> QED BY <1>1, <1>2, <1>3, <1>4 DEF s, t

\* Three commands.
LEMMA PrefixesThree ==
    ASSUME NEW d, NEW c1, NEW c2, NEW c3
    PROVE  LET s == <<c1, c2, c3>>
               t == After(d, s)
           IN  /\ Len(s) = 3 /\ DOMAIN s = 1..3 /\ t[0] = d
               /\ t[1] = Exec(t[0], c1)
               /\ t[2] = Exec(t[1], c2)
               /\ t[3] = Exec(t[2], c3)
<1> DEFINE s == <<c1, c2, c3>>
           t == After(d, s)
<1>0. Len(s) \in Nat
  OBVIOUS
<1>1. Len(s) = 3 /\ DOMAIN s = 1..3
  OBVIOUS
<1>2. s[1] = c1 /\ s[2] = c2 /\ s[3] = c3
  OBVIOUS
<1> HIDE DEF s
<1>3. t[0] = d /\ \A k \in 1..Len(s) : t[k] = Exec(t[k - 1], s[k])
  BY <1>0, AfterUnfolds
<1> HIDE DEF t
<1>4. /\ t[1] = Exec(t[0], s[1])
      /\ t[2] = Exec(t[1], s[2])
      /\ t[3] = Exec(t[2], s[3])
  BY <1>1, <1>3
<1> QED BY <1>1, <1>2, <1>3, <1>4 DEF s, t

\* Four commands.
LEMMA PrefixesFour ==
    ASSUME NEW d, NEW c1, NEW c2, NEW c3, NEW c4
    PROVE  LET s == <<c1, c2, c3, c4>>
               t == After(d, s)
           IN  /\ Len(s) = 4 /\ DOMAIN s = 1..4 /\ t[0] = d
               /\ t[1] = Exec(t[0], c1)
               /\ t[2] = Exec(t[1], c2)
               /\ t[3] = Exec(t[2], c3)
               /\ t[4] = Exec(t[3], c4)
<1> DEFINE s == <<c1, c2, c3, c4>>
           t == After(d, s)
<1>0. Len(s) \in Nat
  OBVIOUS
<1>1. Len(s) = 4 /\ DOMAIN s = 1..4
  OBVIOUS
<1>2. s[1] = c1 /\ s[2] = c2 /\ s[3] = c3 /\ s[4] = c4
  OBVIOUS
<1> HIDE DEF s
<1>3. t[0] = d /\ \A k \in 1..Len(s) : t[k] = Exec(t[k - 1], s[k])
  BY <1>0, AfterUnfolds
<1> HIDE DEF t
<1>4. /\ t[1] = Exec(t[0], s[1])
      /\ t[2] = Exec(t[1], s[2])
      /\ t[3] = Exec(t[2], s[3])
      /\ t[4] = Exec(t[3], s[4])
  BY <1>1, <1>3
<1> QED BY <1>1, <1>2, <1>3, <1>4 DEF s, t

\* Six commands.
LEMMA PrefixesSix ==
    ASSUME NEW d, NEW c1, NEW c2, NEW c3, NEW c4, NEW c5, NEW c6
    PROVE  LET s == <<c1, c2, c3, c4, c5, c6>>
               t == After(d, s)
           IN  /\ Len(s) = 6 /\ DOMAIN s = 1..6 /\ t[0] = d
               /\ t[1] = Exec(t[0], c1)
               /\ t[2] = Exec(t[1], c2)
               /\ t[3] = Exec(t[2], c3)
               /\ t[4] = Exec(t[3], c4)
               /\ t[5] = Exec(t[4], c5)
               /\ t[6] = Exec(t[5], c6)
<1> DEFINE s == <<c1, c2, c3, c4, c5, c6>>
           t == After(d, s)
<1>0. Len(s) \in Nat
  OBVIOUS
<1>1. Len(s) = 6 /\ DOMAIN s = 1..6
  OBVIOUS
<1>2. s[1] = c1 /\ s[2] = c2 /\ s[3] = c3 /\ s[4] = c4 /\ s[5] = c5 /\ s[6] = c6
  OBVIOUS
<1> HIDE DEF s
<1>3. t[0] = d /\ \A k \in 1..Len(s) : t[k] = Exec(t[k - 1], s[k])
  BY <1>0, AfterUnfolds
<1> HIDE DEF t
<1>4. /\ t[1] = Exec(t[0], s[1])
      /\ t[2] = Exec(t[1], s[2])
      /\ t[3] = Exec(t[2], s[3])
      /\ t[4] = Exec(t[3], s[4])
      /\ t[5] = Exec(t[4], s[5])
      /\ t[6] = Exec(t[5], s[6])
  BY <1>1, <1>3
<1> QED BY <1>1, <1>2, <1>3, <1>4 DEF s, t

\* Seven commands.
LEMMA PrefixesSeven ==
    ASSUME NEW d, NEW c1, NEW c2, NEW c3, NEW c4, NEW c5, NEW c6, NEW c7
    PROVE  LET s == <<c1, c2, c3, c4, c5, c6, c7>>
               t == After(d, s)
           IN  /\ Len(s) = 7 /\ DOMAIN s = 1..7 /\ t[0] = d
               /\ t[1] = Exec(t[0], c1)
               /\ t[2] = Exec(t[1], c2)
               /\ t[3] = Exec(t[2], c3)
               /\ t[4] = Exec(t[3], c4)
               /\ t[5] = Exec(t[4], c5)
               /\ t[6] = Exec(t[5], c6)
               /\ t[7] = Exec(t[6], c7)
<1> DEFINE s == <<c1, c2, c3, c4, c5, c6, c7>>
           t == After(d, s)
<1>0. Len(s) \in Nat
  OBVIOUS
<1>1. Len(s) = 7 /\ DOMAIN s = 1..7
  OBVIOUS
<1>2. s[1] = c1 /\ s[2] = c2 /\ s[3] = c3 /\ s[4] = c4 /\ s[5] = c5 /\ s[6] = c6 /\ s[7] = c7
  OBVIOUS
<1> HIDE DEF s
<1>3. t[0] = d /\ \A k \in 1..Len(s) : t[k] = Exec(t[k - 1], s[k])
  BY <1>0, AfterUnfolds
<1> HIDE DEF t
<1>4. /\ t[1] = Exec(t[0], s[1])
      /\ t[2] = Exec(t[1], s[2])
      /\ t[3] = Exec(t[2], s[3])
      /\ t[4] = Exec(t[3], s[4])
      /\ t[5] = Exec(t[4], s[5])
      /\ t[6] = Exec(t[5], s[6])
      /\ t[7] = Exec(t[6], s[7])
  BY <1>1, <1>3
<1> QED BY <1>1, <1>2, <1>3, <1>4 DEF s, t

\* Eight commands.
LEMMA PrefixesEight ==
    ASSUME NEW d, NEW c1, NEW c2, NEW c3, NEW c4, NEW c5, NEW c6, NEW c7, NEW c8
    PROVE  LET s == <<c1, c2, c3, c4, c5, c6, c7, c8>>
               t == After(d, s)
           IN  /\ Len(s) = 8 /\ DOMAIN s = 1..8 /\ t[0] = d
               /\ t[1] = Exec(t[0], c1)
               /\ t[2] = Exec(t[1], c2)
               /\ t[3] = Exec(t[2], c3)
               /\ t[4] = Exec(t[3], c4)
               /\ t[5] = Exec(t[4], c5)
               /\ t[6] = Exec(t[5], c6)
               /\ t[7] = Exec(t[6], c7)
               /\ t[8] = Exec(t[7], c8)
<1> DEFINE s == <<c1, c2, c3, c4, c5, c6, c7, c8>>
           t == After(d, s)
<1>0. Len(s) \in Nat
  OBVIOUS
<1>1. Len(s) = 8 /\ DOMAIN s = 1..8
  OBVIOUS
<1>2. s[1] = c1 /\ s[2] = c2 /\ s[3] = c3 /\ s[4] = c4 /\ s[5] = c5 /\ s[6] = c6 /\ s[7] = c7 /\ s[8] = c8
  OBVIOUS
<1> HIDE DEF s
<1>3. t[0] = d /\ \A k \in 1..Len(s) : t[k] = Exec(t[k - 1], s[k])
  BY <1>0, AfterUnfolds
<1> HIDE DEF t
<1>4. /\ t[1] = Exec(t[0], s[1])
      /\ t[2] = Exec(t[1], s[2])
      /\ t[3] = Exec(t[2], s[3])
      /\ t[4] = Exec(t[3], s[4])
      /\ t[5] = Exec(t[4], s[5])
      /\ t[6] = Exec(t[5], s[6])
      /\ t[7] = Exec(t[6], s[7])
      /\ t[8] = Exec(t[7], s[8])
  BY <1>1, <1>3
<1> QED BY <1>1, <1>2, <1>3, <1>4 DEF s, t

-----------------------------------------------------------------------------
(* Pieces of scripts.                                                      *)

\* What the constants are assumed to be, as far as it is needed here.
LEMMA Limits ==
    /\ Video \cap Listing = {}
    /\ MaxNow \in Nat \ {0} /\ ListingMaxTTL \in Nat /\ QuarantineListing \in Nat
    /\ SweepBatchLimit \in Nat /\ PendingScore \in Nat
    /\ PendingScore > MaxNow + ListingMaxTTL
    /\ PendingScore > MaxNow + QuarantineListing
BY FrontierAssumption DEF F!UrlAssumption, F!ConfigAssumption, F!PendingAssumption

\* INCR and LPUSH of a new job.
LEMMA NewJob ==
    ASSUME NEW d, NEW I, NEW A, Sound(d, I, A), NEW u \in Video \cup Listing
    PROVE  LET c == Exec(d, Incr)
               e == Exec(c, Push(u))
           IN  /\ Sound(c, I, A) /\ Sound(e, I, A)
               /\ c.seq = d.seq + 1 /\ e.seq = d.seq + 1
               /\ ToSet(e.ready) = {[id |-> d.seq + 1, url |-> u]} \cup ToSet(d.ready)
               /\ \A key \in Keys \ {"seq"} : c[key] = d[key]
               /\ \A key \in Keys \ {"seq", "ready"} : e[key] = d[key]
               /\ u \in Live(e)
               /\ \A j \in Job : j.id <= d.seq /\ j.url = u => Spare(e, A, j)
<1> DEFINE c == Exec(d, Incr)
           e == Exec(c, Push(u))
           n == [id |-> d.seq + 1, url |-> u]
<1>1. /\ Sound(c, I, A) /\ Fresh(c, I) /\ c.seq = d.seq + 1
      /\ \A key \in Keys \ {"seq"} : c[key] = d[key]
  BY IncrKeeps
<1>2. d.seq \in Nat
  BY DEF Sound, Shape
<1>3. c.seq = d.seq + 1
  BY <1>1
<1> HIDE DEF c
<1>4. /\ Sound(e, I, A)
      /\ ToSet(e.ready) = {Item(c, u)} \cup ToSet(c.ready)
      /\ \A key \in Keys \ {"ready"} : e[key] = c[key]
  BY <1>1, PushKeeps
<1> HIDE DEF e
<1>5. Item(c, u) = n /\ c.ready = d.ready /\ e.seq = c.seq
  BY <1>1, <1>3, <1>4 DEF Item, Keys
<1>6. n \in Jobs(e) /\ n.url = u /\ n.id = d.seq + 1
  BY <1>4, <1>5 DEF Jobs, Queued
<1> HIDE DEF n
<1>7. u \in Live(e)
  BY <1>6 DEF Live
<1>8. ASSUME NEW j \in Job, j.id <= d.seq, j.url = u PROVE Spare(e, A, j)
  <2>1. n # j
    BY <1>2, <1>6, <1>8 DEF Job
  <2>2. u \in {k.url : k \in Jobs(e) \ {j}}
    BY <1>6, <2>1
  <2> QED BY <1>8, <2>2 DEF Spare
<1> QED BY <1>1, <1>3, <1>4, <1>5, <1>7, <1>8 DEF c, e, n

-----------------------------------------------------------------------------
(* Scripts: every prefix keeps Sound.                                      *)

\* LEASE: the job is issued with the second command.
LEMMA LeaseScript ==
    ASSUME NEW I, NEW A, NEW K, Sound(db, I, A), db.ready # <<>>,
           K = I \cup {Last(db.ready)}
    PROVE  LET t == After(db, luaLease)
               j == Last(db.ready)
           IN  /\ Len(luaLease) = 2 /\ DOMAIN luaLease = 1..2 /\ t[0] = db
               /\ Sound(t[1], I, A) /\ t[1].lease = db.lease
               /\ Sound(t[2], K, A)
               /\ DOMAIN t[2].lease = DOMAIN db.lease \cup {j}
               /\ j \in ToSet(db.ready)
<1> DEFINE t == After(db, luaLease)
           d1 == t[1]
           d2 == t[2]
           j == Last(db.ready)
           x == now + LeaseTimeout
<1>1. luaLease = <<<<"LMOVE">>, Set("lease", j, x)>>
  BY DEF luaLease
<1>2. /\ Len(luaLease) = 2 /\ DOMAIN luaLease = 1..2 /\ t[0] = db
      /\ d1 = Exec(t[0], <<"LMOVE">>) /\ d2 = Exec(d1, Set("lease", j, x))
  BY <1>1, PrefixesTwo
<1>3. d1 = Exec(db, <<"LMOVE">>) /\ d2 = Exec(d1, Set("lease", j, x))
  BY <1>2
<1> HIDE DEF t, d1, d2, x
<1>4. /\ Sound(d1, I, A) /\ j \notin Queued(d1)
      /\ ToSet(db.ready) = {j} \cup ToSet(d1.ready)
      /\ ToSet(d1.processing) = {j} \cup ToSet(db.processing)
      /\ \A key \in Keys \ {"ready", "processing"} : d1[key] = db[key]
  BY <1>3, MoveKeeps, Zenon
<1>5. d1.lease = db.lease
  BY <1>4 DEF Keys
<1> HIDE DEF j
<1>6. /\ Sound(d1, I, A) /\ j \in ToSet(d1.processing) /\ j \notin Queued(d1)
      /\ d2 = Exec(d1, Set("lease", j, x)) /\ K = I \cup {j}
  BY <1>3, <1>4 DEF j
<1>7. /\ Sound(d2, K, A) /\ DOMAIN d2.lease = DOMAIN d1.lease \cup {j}
  BY <1>6, GrantKeeps
<1> QED BY <1>2, <1>4, <1>5, <1>7 DEF t, j, d1, d2

\* ADMIT of a video: the rollback of a duplicate takes the new job, not an old one.
LEMMA AdmitVideoScript ==
    ASSUME NEW v \in Video, NEW I, NEW A, Sound(db, I, A), ~F!Blocked(v)
    PROVE  LET t == After(db, luaAdmitVideo(v))
           IN  /\ Len(luaAdmitVideo(v)) = 4 /\ DOMAIN luaAdmitVideo(v) = 1..4
               /\ \A k \in 0..4 : Sound(t[k], I, A)
<1> DEFINE t == After(db, luaAdmitVideo(v))
           d1 == t[1]
           d2 == t[2]
           d3 == t[3]
           d4 == t[4]
           last == IF F!BloomHas(v) THEN Drop("ready", F!Mint(1, v)) ELSE <<"BFADD", v>>
<1>1. luaAdmitVideo(v) = <<Del("dead", v), Incr, Push(v), last>>
  BY DEF luaAdmitVideo
<1>2. /\ Len(luaAdmitVideo(v)) = 4 /\ DOMAIN luaAdmitVideo(v) = 1..4 /\ t[0] = db
      /\ d1 = Exec(db, Del("dead", v)) /\ d2 = Exec(d1, Incr)
      /\ d3 = Exec(d2, Push(v)) /\ d4 = Exec(d3, last)
  BY <1>1, PrefixesFour
<1> HIDE DEF t, d1, d2, d3, d4
<1>3. v \notin DOMAIN db.dead
  BY DEF Sound, Shape, F!Blocked
<1>0. v \in db.bloom => v \in A \cup Live(db)
  BY <1>3 DEF Sound, Kept
<1>4. /\ Sound(d1, I, A)
      /\ \A key \in Keys \ {"dead"} : d1[key] = db[key]
  BY <1>0, <1>2, ReviveKeeps
<1>5. /\ Sound(d2, I, A) /\ Sound(d3, I, A)
      /\ ToSet(d3.ready) = {[id |-> d1.seq + 1, url |-> v]} \cup ToSet(d1.ready)
      /\ \A key \in Keys \ {"seq", "ready"} : d3[key] = d1[key]
      /\ v \in Live(d3)
  BY <1>2, <1>4, NewJob
<1>6. CASE ~F!BloomHas(v)
  <2>1. d4 = Exec(d3, <<"BFADD", v>>)
    BY <1>2, <1>6
  <2> HIDE DEF last
  <2>2. Sound(d4, I, A)
    BY <1>5, <2>1, ClaimKeeps
  <2> QED BY <1>2, <1>4, <1>5, <2>2 DEF t, d1, d2, d3, d4
<1>7. CASE F!BloomHas(v)
  <2> DEFINE j == F!Mint(1, v)
  <2>1. d4 = Exec(d3, Drop("ready", j))
    BY <1>2, <1>7
  <2> HIDE DEF last
  <2>2. j = [id |-> db.seq + 1, url |-> v]
    BY DEF F!Mint
  <2>3. /\ d1.seq = db.seq /\ d1.ready = db.ready /\ d3.processing = db.processing
        /\ d3.delayed = db.delayed /\ d3.lease = db.lease /\ d3.bloom = db.bloom
        /\ d3.listingNext = db.listingNext
    BY <1>4, <1>5 DEF Keys
  <2> HIDE DEF j
  <2>4. ToSet(d3.ready) = {j} \cup ToSet(db.ready)
    BY <1>5, <2>2, <2>3
  <2>5. j.id = db.seq + 1 /\ j.url = v
    BY <2>2
  <2>6. j \notin Jobs(db) /\ j \notin I
    BY <2>5, JobsTyped DEF Sound, Order
  <2>7. Jobs(db) \subseteq Jobs(d3) \ {j}
    BY <2>3, <2>4, <2>6 DEF Jobs, Queued
  <2>8. Spare(d3, A, j)
    <3>2. v \notin Pending(d3)
      BY <2>3, Limits DEF Pending, Sound, Shape
    <3>3. Live(db) \subseteq {k.url : k \in Jobs(d3) \ {j}}
      BY <2>7 DEF Live
    <3> QED BY <1>0, <2>3, <2>5, <3>2, <3>3 DEF Spare
  <2>9. j \notin DOMAIN d3.lease
    BY <2>3, <2>6 DEF Sound, Fence
  <2>10. Sound(d4, I, A)
    BY <1>5, <2>1, <2>8, <2>9, DropKeeps
  <2> QED BY <1>2, <1>4, <1>5, <2>10 DEF t, d1, d2, d3, d4
<1> QED BY <1>6, <1>7

\* ADMIT of a listing: the job is pushed before the schedule says PENDING.
LEMMA AdmitListingScript ==
    ASSUME NEW l \in Listing, NEW I, NEW A, Sound(db, I, A), ~F!Blocked(l)
    PROVE  LET s == luaAdmitListing(l)
           IN  /\ Len(s) \in Nat /\ DOMAIN s = 1..Len(s)
               /\ \A k \in 0..Len(s) : Sound(After(db, s)[k], I, A)
<1> DEFINE s == luaAdmitListing(l)
           t == After(db, s)
           d1 == t[1]
           d2 == t[2]
           d3 == t[3]
           d4 == t[4]
<1>1. l \notin db.bloom
  BY Limits DEF Sound, Shape
<1>2. CASE F!NotDue(l)
  <2>1. s = <<Del("dead", l)>>
    BY <1>2 DEF luaAdmitListing
  <2>2. Len(s) = 1 /\ DOMAIN s = 1..1 /\ t[0] = db /\ d1 = Exec(db, Del("dead", l))
    BY <2>1, PrefixesOne
  <2> HIDE DEF t, s, d1, d2, d3, d4
  <2>3. Sound(d1, I, A)
    BY <1>1, <2>2, ReviveKeeps
  <2> QED BY <2>2, <2>3 DEF t, s, d1, d2, d3, d4
<1>3. CASE ~F!NotDue(l)
  <2>1. s = <<Del("dead", l), Incr, Push(l), Set("listingNext", l, PendingScore)>>
    BY <1>3 DEF luaAdmitListing
  <2>2. /\ Len(s) = 4 /\ DOMAIN s = 1..4 /\ t[0] = db
        /\ d1 = Exec(db, Del("dead", l)) /\ d2 = Exec(d1, Incr)
        /\ d3 = Exec(d2, Push(l))
        /\ d4 = Exec(d3, Set("listingNext", l, PendingScore))
    BY <2>1, PrefixesFour
  <2> HIDE DEF t, s, d1, d2, d3, d4
  <2>3. Sound(d1, I, A)
    BY <1>1, <2>2, ReviveKeeps
  <2>4. Sound(d2, I, A) /\ Sound(d3, I, A) /\ l \in Live(d3)
    BY <2>2, <2>3, NewJob
  <2>5. Sound(d4, I, A)
    BY <2>2, <2>4, ScheduleKeeps
  <2> QED BY <2>2, <2>3, <2>4, <2>5 DEF t, s, d1, d2, d3, d4
<1> QED BY <1>2, <1>3

\* More acknowledgements do no harm.
LEMMA SoundMore ==
    ASSUME NEW d, NEW I, NEW A, NEW B, Sound(d, I, A), A \subseteq B
    PROVE  Sound(d, I, B)
BY DEF Sound, Kept

\* What a leased job is.
LEMMA Leased ==
    ASSUME NEW I, NEW A, NEW j, Sound(db, I, A), j \in DOMAIN db.lease
    PROVE  /\ j \in Job /\ j \in ToSet(db.processing) /\ j \in I
           /\ j.id <= db.seq /\ j.url \in Video \cup Listing
<1>1. j \in ToSet(db.processing) /\ j \in I
  BY DEF Sound, Fence
<1>2. j \in Jobs(db)
  BY <1>1 DEF Jobs
<1> QED BY <1>1, <1>2, JobsTyped DEF Sound, Order

\* LREM of a spare job from processing.
LEMMA UnprocessKeeps ==
    ASSUME NEW d, NEW I, NEW A, NEW j, Sound(d, I, A), Spare(d, A, j),
           j \notin DOMAIN d.lease, NEW e, e = Exec(d, Unprocess(j))
    PROVE  /\ Sound(e, I, A)
           /\ j \notin ToSet(e.processing)
           /\ \A k : k \in ToSet(e.processing) <=> k \in ToSet(d.processing) /\ k # j
           /\ \A key \in Keys \ {"processing"} : e[key] = d[key]
BY DropKeeps DEF Unprocess

\* The URL is acknowledged as soon as its job has left processing.
LEMMA AckScript ==
    ASSUME NEW j, NEW I, NEW A, NEW B, Sound(db, I, A), j \in DOMAIN db.lease,
           j.url \in Video, j.url \in B, A \subseteq B
    PROVE  LET s == luaAck(j)
               t == After(db, s)
           IN  /\ Len(s) = 4 /\ DOMAIN s = 1..4
               /\ \A k \in 0..1 : Sound(t[k], I, A) /\ t[k].processing = db.processing
               /\ \A k \in 2..4 : Sound(t[k], I, B) /\ j \notin ToSet(t[k].processing)
<1> DEFINE s == luaAck(j)
           u == j.url
           t == After(db, s)
           d1 == t[1]
           d2 == t[2]
           d3 == t[3]
           d4 == t[4]
<1>1. s = <<Del("lease", j), Unprocess(j), Del("attempts", u), Del("strikes", u)>>
  BY DEF luaAck, Fenced
<1>2. /\ Len(s) = 4 /\ DOMAIN s = 1..4 /\ t[0] = db
      /\ d1 = Exec(db, Del("lease", j)) /\ d2 = Exec(d1, Unprocess(j))
      /\ d3 = Exec(d2, Del("attempts", u)) /\ d4 = Exec(d3, Del("strikes", u))
  BY <1>1, PrefixesFour
<1> HIDE DEF s, t, d1, d2, d3, d4
<1>3. /\ Sound(d1, I, A) /\ j \notin DOMAIN d1.lease
      /\ \A key \in Keys \ {"lease"} : d1[key] = db[key]
  BY <1>2, ReleaseKeeps
<1>4. d1.processing = db.processing
  BY <1>3 DEF Keys
<1>5. Sound(d1, I, B)
  BY <1>3, SoundMore
<1>6. Spare(d1, B, j)
  BY <1>5, Limits DEF Spare, Pending, Sound, Shape
<1>a. Sound(d1, I, B) /\ Spare(d1, B, j) /\ j \notin DOMAIN d1.lease /\ d2 = Exec(d1, Unprocess(j))
  BY <1>2, <1>3, <1>5, <1>6
<1>b. Sound(d2, I, B)
  BY <1>a, UnprocessKeeps
<1>7. Sound(d2, I, B) /\ j \notin ToSet(d2.processing)
  BY <1>a, <1>b, UnprocessKeeps
<1>8. Sound(d3, I, B) /\ \A key \in Keys \ {"attempts"} : d3[key] = d2[key]
  BY <1>2, <1>7, ClearKeeps
<1>9. Sound(d4, I, B) /\ \A key \in Keys \ {"strikes"} : d4[key] = d3[key]
  BY <1>2, <1>8, ClearKeeps
<1> HIDE DEF u
<1>10. \A k \in 0..1 : Sound(t[k], I, A) /\ t[k].processing = db.processing
  BY <1>2, <1>3, <1>4 DEF d1
<1>11. j \notin ToSet(d2.processing) /\ j \notin ToSet(d3.processing) /\ j \notin ToSet(d4.processing)
  BY <1>7, <1>8, <1>9 DEF Keys
<1>12. \A k \in 2..4 : Sound(t[k], I, B) /\ j \notin ToSet(t[k].processing)
  BY <1>7, <1>8, <1>9, <1>11 DEF d2, d3, d4
<1> QED BY <1>2, <1>10, <1>12 DEF s, t

\* A listing that is put off is not PENDING.
LEMMA PutOffKeeps ==
    ASSUME NEW d, NEW I, NEW A, NEW l \in Listing, NEW x, Sound(d, I, A),
           x # PendingScore, NEW e, e = Exec(d, Set("listingNext", l, x))
    PROVE  /\ Sound(e, I, A) /\ l \notin Pending(e)
           /\ \A key \in Keys \ {"listingNext"} : e[key] = d[key]
<1>1. DOMAIN d = Keys
  BY DEF Sound, Shape
<1>2. e.listingNext = F!ZAdd(d.listingNext, l, x)
  BY <1>1 DEF Exec, Set, Keys
<1>3. l \notin Pending(e)
  BY <1>2 DEF Pending, F!ZAdd
<1>4. \A key \in Keys \ {"listingNext"} : e[key] = d[key]
  BY <1>1 DEF Exec, Set, Keys
<1>5. Sound(e, I, A)
  BY ScheduleKeeps
<1> QED BY <1>3, <1>4, <1>5

\* COMPLETE_LISTING: the schedule releases PENDING before the job goes.
LEMMA CompleteListingScript ==
    ASSUME NEW j, NEW I, NEW A, Sound(db, I, A), j \in DOMAIN db.lease,
           j.url \in Listing, NEW found, now \in 1..MaxNow
    PROVE  LET s == luaCompleteListing(j, found)
           IN  /\ Len(s) = 7 /\ DOMAIN s = 1..7
               /\ \A k \in 0..7 : Sound(After(db, s)[k], I, A)
<1> DEFINE s == luaCompleteListing(j, found)
           l == j.url
           b == F!BarrenAfter(l, found)
           x == now + F!ListingTTL(F!BaseTTL(l), b)
           t == After(db, s)
           d1 == t[1]
           d2 == t[2]
           d3 == t[3]
           d4 == t[4]
           d5 == t[5]
           d6 == t[6]
           d7 == t[7]
<1>1. s = <<Del("lease", j), Set("barren", l, b), Set("listingNext", l, x),
            Del("dead", l), Unprocess(j), Del("attempts", l), Del("strikes", l)>>
  BY DEF luaCompleteListing, Fenced
<1>2. /\ Len(s) = 7 /\ DOMAIN s = 1..7 /\ t[0] = db
      /\ d1 = Exec(db, Del("lease", j)) /\ d2 = Exec(d1, Set("barren", l, b))
      /\ d3 = Exec(d2, Set("listingNext", l, x)) /\ d4 = Exec(d3, Del("dead", l))
      /\ d5 = Exec(d4, Unprocess(j)) /\ d6 = Exec(d5, Del("attempts", l))
      /\ d7 = Exec(d6, Del("strikes", l))
  BY <1>1, PrefixesSeven
<1>3. x # PendingScore
  BY Limits DEF F!ListingTTL
<1> HIDE DEF s, t, b, x, d1, d2, d3, d4, d5, d6, d7
<1>4. /\ Sound(d1, I, A) /\ j \notin DOMAIN d1.lease
  BY <1>2, ReleaseKeeps
<1>5. /\ Sound(d2, I, A) /\ \A key \in Keys \ {"barren"} : d2[key] = d1[key]
  BY <1>2, <1>4, CountKeeps
<1>6. /\ Sound(d3, I, A) /\ l \notin Pending(d3)
      /\ \A key \in Keys \ {"listingNext"} : d3[key] = d2[key]
  BY <1>2, <1>3, <1>5, PutOffKeeps
<1>7. l \notin d3.bloom
  BY <1>6, Limits DEF Sound, Shape
<1>8. Sound(d4, I, A) /\ \A key \in Keys \ {"dead"} : d4[key] = d3[key]
  BY <1>2, <1>6, <1>7, ReviveKeeps
<1>9. /\ d4.lease = d1.lease /\ d4.listingNext = d3.listingNext /\ d4.bloom = d3.bloom
  BY <1>5, <1>6, <1>8 DEF Keys
<1>10. Spare(d4, A, j) /\ j \notin DOMAIN d4.lease
  BY <1>4, <1>6, <1>7, <1>9 DEF Spare, Pending
<1>11. Sound(d5, I, A)
  BY <1>2, <1>8, <1>10, UnprocessKeeps
<1>12. Sound(d6, I, A)
  BY <1>2, <1>11, ClearKeeps
<1>13. Sound(d7, I, A)
  BY <1>2, <1>12, ClearKeeps
<1> QED BY <1>2, <1>4, <1>5, <1>6, <1>8, <1>11, <1>12, <1>13
        DEF s, t, d1, d2, d3, d4, d5, d6, d7

\* The terminal transition of TERMINAL and FAIL.
LEMMA Buried ==
    ASSUME NEW d, NEW j \in Job, NEW I, NEW A, Sound(d, I, A),
           j \notin DOMAIN d.lease, now \in 1..MaxNow,
           NEW e1, e1 = Exec(d, Quarantine(j.url)),
           NEW e2, e2 = Exec(e1, Set("dead", j.url, F!QuarantineUntil(j.url))),
           NEW e3, e3 = Exec(e2, Unprocess(j)),
           NEW e4, e4 = Exec(e3, Del("attempts", j.url)),
           NEW e5, e5 = Exec(e4, Del("strikes", j.url))
    PROVE  /\ Sound(e1, I, A) /\ Sound(e2, I, A) /\ Sound(e3, I, A)
           /\ Sound(e4, I, A) /\ Sound(e5, I, A)
<1> DEFINE u == j.url
           until == F!QuarantineUntil(u)
<1>1. u \in Video \cup Listing
  BY DEF Job
<1>2. /\ until # PendingScore /\ (u \in Video => until = 0)
      /\ (u \in Listing => until > 0)
  BY <1>1, Limits DEF F!QuarantineUntil, F!Class
<1>3. /\ Sound(e1, I, A) /\ u \notin Pending(e1) /\ e1.lease = d.lease
  <2>1. CASE u \in Video
    <3>1. e1 = d
      BY <1>2, <2>1, NoneExec DEF Quarantine, When
    <3>2. u \notin Pending(d)
      BY <2>1, Limits DEF Pending, Sound, Shape
    <3> QED BY <3>1, <3>2
  <2>2. CASE u \in Listing
    <3>1. e1 = Exec(d, Set("listingNext", u, until))
      BY <1>2, <2>2 DEF Quarantine, When
    <3> HIDE DEF u, until
    <3>2. /\ Sound(e1, I, A) /\ u \notin Pending(e1)
          /\ \A key \in Keys \ {"listingNext"} : e1[key] = d[key]
      BY <1>2, <2>2, <3>1, PutOffKeeps
    <3> QED BY <3>2 DEF Keys
  <2> QED BY <1>1, <2>1, <2>2
<1>a. e2 = Exec(e1, Set("dead", u, until)) /\ e4 = Exec(e3, Del("attempts", u))
      /\ e5 = Exec(e4, Del("strikes", u))
  OBVIOUS
<1> HIDE DEF until
<1>4. /\ Sound(e2, I, A) /\ u \in DOMAIN e2.dead
      /\ \A key \in Keys \ {"dead"} : e2[key] = e1[key]
  BY <1>a, <1>2, <1>3, BuryKeeps
<1>5. e2.lease = d.lease /\ e2.listingNext = e1.listingNext
  BY <1>3, <1>4 DEF Keys
<1>6. Spare(e2, A, j) /\ j \notin DOMAIN e2.lease
  BY <1>3, <1>4, <1>5 DEF Spare, Pending
<1>7. Sound(e3, I, A)
  BY <1>4, <1>6, UnprocessKeeps
<1>8. Sound(e4, I, A)
  BY <1>a, <1>7, ClearKeeps
<1>9. Sound(e5, I, A)
  BY <1>a, <1>8, ClearKeeps
<1> QED BY <1>3, <1>4, <1>7, <1>8, <1>9

\* TERMINAL: schedule and dead entry are written before the job goes.
LEMMA TerminalScript ==
    ASSUME NEW j, NEW I, NEW A, Sound(db, I, A), j \in DOMAIN db.lease,
           now \in 1..MaxNow
    PROVE  LET s == luaTerminal(j)
           IN  /\ Len(s) = 6 /\ DOMAIN s = 1..6
               /\ \A k \in 0..6 : Sound(After(db, s)[k], I, A)
<1> DEFINE s == luaTerminal(j)
           u == j.url
           t == After(db, s)
           d1 == t[1]
           d2 == t[2]
           d3 == t[3]
           d4 == t[4]
           d5 == t[5]
           d6 == t[6]
<1>1. s = <<Del("lease", j), Quarantine(u), Set("dead", u, F!QuarantineUntil(u)),
            Unprocess(j), Del("attempts", u), Del("strikes", u)>>
  BY DEF luaTerminal, Fenced
<1>2. /\ Len(s) = 6 /\ DOMAIN s = 1..6 /\ t[0] = db
      /\ d1 = Exec(db, Del("lease", j)) /\ d2 = Exec(d1, Quarantine(u))
      /\ d3 = Exec(d2, Set("dead", u, F!QuarantineUntil(u)))
      /\ d4 = Exec(d3, Unprocess(j)) /\ d5 = Exec(d4, Del("attempts", u))
      /\ d6 = Exec(d5, Del("strikes", u))
  BY <1>1, PrefixesSix
<1> HIDE DEF s, t, d1, d2, d3, d4, d5, d6
<1>3. j \in Job
  BY Leased
<1>4. Sound(d1, I, A) /\ j \notin DOMAIN d1.lease
  BY <1>2, ReleaseKeeps
<1>5. /\ Sound(d2, I, A) /\ Sound(d3, I, A) /\ Sound(d4, I, A)
      /\ Sound(d5, I, A) /\ Sound(d6, I, A)
  BY <1>2, <1>3, <1>4, Buried
<1> QED BY <1>2, <1>4, <1>5 DEF s, t, d1, d2, d3, d4, d5, d6

\* FAIL: the next job, or the dead entry, is written before the job goes.
LEMMA FailScript ==
    ASSUME NEW j, NEW I, NEW A, Sound(db, I, A), j \in DOMAIN db.lease,
           NEW class, now \in 1..MaxNow
    PROVE  LET s == luaFail(j, class)
           IN  /\ Len(s) \in Nat /\ DOMAIN s = 1..Len(s)
               /\ \A k \in 0..Len(s) : Sound(After(db, s)[k], I, A)
<1> DEFINE s == luaFail(j, class)
           u == j.url
           strikeable == class = "strikeable"
           strike == When(strikeable, Bump("strikes", u))
           dies == strikeable /\ Counters(db.strikes)[u] + 1 >= MaxStrikes
           at == now + F!Rung(F!Ladder(class), Counters(db.attempts)[u] + 1)
           t == After(db, s)
           d1 == t[1]
           d2 == t[2]
           d3 == t[3]
           d4 == t[4]
           d5 == t[5]
           d6 == t[6]
           d7 == t[7]
           d8 == t[8]
<1>1. s = IF dies
          THEN <<Del("lease", j), Bump("attempts", u), strike, Quarantine(u),
                 Set("dead", u, F!QuarantineUntil(u)), Unprocess(j),
                 Del("attempts", u), Del("strikes", u)>>
          ELSE <<Del("lease", j), Bump("attempts", u), strike, Incr,
                 <<"DELAY", u, at>>, Unprocess(j)>>
  BY DEF luaFail, Fenced
<1>2. /\ j \in Job /\ j.id <= db.seq /\ u \in Video \cup Listing
  BY Leased
<1>3. ASSUME d1 = Exec(db, Del("lease", j)), d2 = Exec(d1, Bump("attempts", u)),
             d3 = Exec(d2, strike)
      PROVE  /\ Sound(d1, I, A) /\ Sound(d2, I, A) /\ Sound(d3, I, A)
             /\ d3.seq = db.seq /\ j \notin DOMAIN d3.lease
  <2> DEFINE a == Counters(db.attempts)[u] + 1
             b == Counters(db.strikes)[u] + 1
  <2>1. /\ d2 = Exec(d1, Set("attempts", u, a))
        /\ d3 = Exec(d2, Set("strikes", u, b)) \/ d3 = d2
    BY <1>3, NoneExec DEF Bump, When
  <2> HIDE DEF s, t, d1, d2, d3, u, a, b
  <2>2. /\ Sound(d1, I, A) /\ j \notin DOMAIN d1.lease
        /\ \A key \in Keys \ {"lease"} : d1[key] = db[key]
    BY <1>3, ReleaseKeeps
  <2>3. Sound(d2, I, A) /\ \A key \in Keys \ {"attempts"} : d2[key] = d1[key]
    BY <2>1, <2>2, CountKeeps
  <2>4. Sound(d3, I, A) /\ \A key \in Keys \ {"strikes"} : d3[key] = d2[key]
    BY <2>1, <2>3, CountKeeps
  <2> QED BY <2>2, <2>3, <2>4 DEF Keys
<1>4. CASE dies
  <2>1. /\ Len(s) = 8 /\ DOMAIN s = 1..8 /\ t[0] = db
        /\ d1 = Exec(db, Del("lease", j)) /\ d2 = Exec(d1, Bump("attempts", u))
        /\ d3 = Exec(d2, strike) /\ d4 = Exec(d3, Quarantine(u))
        /\ d5 = Exec(d4, Set("dead", u, F!QuarantineUntil(u)))
        /\ d6 = Exec(d5, Unprocess(j)) /\ d7 = Exec(d6, Del("attempts", u))
        /\ d8 = Exec(d7, Del("strikes", u))
    <3> HIDE DEF strike, dies
    <3> QED BY <1>1, <1>4, PrefixesEight
  <2>2. /\ Sound(d1, I, A) /\ Sound(d2, I, A) /\ Sound(d3, I, A)
        /\ j \notin DOMAIN d3.lease
    <3> HIDE DEF s, t, d1, d2, d3, strike
    <3> QED BY <1>3, <2>1
  <2> HIDE DEF s, t, d1, d2, d3, d4, d5, d6, d7, d8
  <2>3. /\ Sound(d4, I, A) /\ Sound(d5, I, A) /\ Sound(d6, I, A)
        /\ Sound(d7, I, A) /\ Sound(d8, I, A)
    BY <1>2, <2>1, <2>2, Buried
  <2> QED BY <2>1, <2>2, <2>3 DEF s, t, d1, d2, d3, d4, d5, d6, d7, d8
<1>5. CASE ~dies
  <2>1. /\ Len(s) = 6 /\ DOMAIN s = 1..6 /\ t[0] = db
        /\ d1 = Exec(db, Del("lease", j)) /\ d2 = Exec(d1, Bump("attempts", u))
        /\ d3 = Exec(d2, strike) /\ d4 = Exec(d3, Incr)
        /\ d5 = Exec(d4, <<"DELAY", u, at>>) /\ d6 = Exec(d5, Unprocess(j))
    <3> HIDE DEF strike, dies, at
    <3> QED BY <1>1, <1>5, PrefixesSix
  <2>2. /\ Sound(d1, I, A) /\ Sound(d2, I, A) /\ Sound(d3, I, A)
        /\ d3.seq = db.seq /\ j \notin DOMAIN d3.lease
    <3> HIDE DEF s, t, d1, d2, d3, strike
    <3> QED BY <1>3, <2>1
  <2> HIDE DEF s, t, d1, d2, d3, d4, d5, d6, at
  <2>3. /\ Sound(d4, I, A) /\ Fresh(d4, I) /\ d4.seq = d3.seq + 1
        /\ \A key \in Keys \ {"seq"} : d4[key] = d3[key]
    BY <2>1, <2>2, IncrKeeps
  <2> DEFINE n == Item(d4, u)
  <2>4. /\ Sound(d5, I, A) /\ n \in DOMAIN d5.delayed
        /\ \A key \in Keys \ {"delayed"} : d5[key] = d4[key]
    BY <1>2, <2>1, <2>3, DelayKeeps
  <2>5. n.id = db.seq + 1 /\ n.url = u
    BY <2>2, <2>3 DEF Item
  <2> HIDE DEF n, u
  <2>6. n \in Jobs(d5) \ {j}
    <3>1. db.seq \in Nat /\ j.id \in Nat
      BY <1>2 DEF Sound, Shape, Job
    <3> QED BY <1>2, <2>4, <2>5, <3>1 DEF Jobs, Queued
  <2>7. Spare(d5, A, j)
    BY <2>5, <2>6 DEF Spare, u
  <2>8. j \notin DOMAIN d5.lease
    BY <2>2, <2>3, <2>4 DEF Keys
  <2>9. Sound(d6, I, A)
    BY <2>1, <2>4, <2>7, <2>8, UnprocessKeeps
  <2> QED BY <2>1, <2>2, <2>3, <2>4, <2>9 DEF s, t, d1, d2, d3, d4, d5, d6
<1> QED BY <1>4, <1>5

-----------------------------------------------------------------------------
(* Calls.                                                                  *)

\* A call of one script leaves the keys after some number of its commands.
LEMMA OneScript ==
    ASSUME NEW s, Len(s) \in Nat, DOMAIN s = 1..Len(s), Run(<<s>>)
    PROVE  \E k \in 0..Len(s) : db' = After(db, s)[k]
<1> DEFINE loop == <<s>>
<1>1. Len(loop) = 1 /\ DOMAIN loop = {1} /\ loop[1] = s
  OBVIOUS
<1> HIDE DEF loop
<1>2. Turns(loop)[0] = db /\ Turns(loop)[1] = After(db, s)[Len(s)]
  <2>1. Len(loop) \in Nat
    BY <1>1
  <2>2. /\ Turns(loop)[0] = db
        /\ \A m \in 1..Len(loop) :
              Turns(loop)[m] = After(Turns(loop)[m - 1], loop[m])[Len(loop[m])]
    BY <2>1, TurnsUnfold
  <2>3. Turns(loop)[1] = After(Turns(loop)[0], loop[1])[Len(loop[1])]
    BY <1>1, <2>2
  <2> QED BY <1>1, <2>2, <2>3
<1>3. CASE Whole(loop)
  BY <1>1, <1>2, <1>3 DEF Whole
<1>4. CASE Aborted(loop)
  BY <1>1, <1>2, <1>4 DEF Aborted
<1> QED BY <1>3, <1>4 DEF Run, loop

\* A call of one script, all of whose prefixes are sound.
LEMMA CallKeeps ==
    ASSUME NEW s, Len(s) \in Nat, DOMAIN s = 1..Len(s), Call(<<s>>),
           \A k \in 0..Len(s) : Sound(After(db, s)[k], issued, acked)
    PROVE  Sound(db', issued', acked')
<1>1. PICK k \in 0..Len(s) : db' = After(db, s)[k]
  BY OneScript DEF Call
<1> QED BY <1>1 DEF Call

\* A script that finds nothing to do.
LEMMA NothingToDo ==
    ASSUME Run(<< <<>> >>)
    PROVE  db' = db
<1> DEFINE s == <<>>
<1>1. Len(s) = 0 /\ DOMAIN s = 1..0
  OBVIOUS
<1>2. Run(<<s>>)
  OBVIOUS
<1> HIDE DEF s
<1>3. \E k \in 0..Len(s) : db' = After(db, s)[k]
  BY <1>1, <1>2, OneScript
<1>4. After(db, s)[0] = db
  BY <1>1, AfterUnfolds
<1> QED BY <1>1, <1>3, <1>4

\* What holds of the keys d all through a call that works off a batch: it
\* takes leases and gives ids, never the other way.
Carried(d) ==
    /\ Sound(d, issued, acked)
    /\ DOMAIN d.lease \subseteq DOMAIN db.lease
    /\ db.seq \in Nat /\ d.seq \in Nat /\ db.seq <= d.seq

\* A script that every prefix of carries on.
Carries(d, s) ==
    /\ Len(s) \in Nat /\ DOMAIN s = 1..Len(s)
    /\ \A k \in 0..Len(s) : Carried(After(d, s)[k])

\* Every turn of a loop starts from keys that the turns before carried on.
LEMMA LoopCarries ==
    ASSUME NEW loop, Len(loop) \in Nat, Sound(db, issued, acked),
           \A d : \A m \in 1..Len(loop) : Carried(d) => Carries(d, loop[m])
    PROVE  \A m \in 0..Len(loop) : Carried(Turns(loop)[m])
<1> DEFINE n == Len(loop)
           S == {m \in 0..n : Carried(Turns(loop)[m])}
<1>1. /\ Turns(loop)[0] = db
      /\ \A m \in 1..n :
            Turns(loop)[m] = After(Turns(loop)[m - 1], loop[m])[Len(loop[m])]
  BY TurnsUnfold
<1>2. Carried(db)
  BY DEF Carried, Sound, Shape
<1>3. \A m \in 0..(n - 1) : m \in S => m + 1 \in S
  <2> SUFFICES ASSUME NEW m \in 0..(n - 1), Carried(Turns(loop)[m])
               PROVE  Carried(Turns(loop)[m + 1]) /\ m + 1 \in 0..n
    OBVIOUS
  <2>1. m + 1 \in 1..n /\ m + 1 - 1 = m
    OBVIOUS
  <2> DEFINE s == loop[m + 1]
             d == Turns(loop)[m]
  <2>2. Turns(loop)[m + 1] = After(d, s)[Len(s)]
    BY <1>1, <2>1
  <2>3. Carries(d, s)
    BY <2>1
  <2> HIDE DEF s, d
  <2>4. Carried(After(d, s)[Len(s)])
    BY <2>3 DEF Carries
  <2> QED BY <2>1, <2>2, <2>4
<1> QED
  <2>1. n \in Nat /\ 0 \in S
    BY <1>1, <1>2
  <2>2. \A m \in 0..n : m \in S
    <3> HIDE DEF n, S
    <3> QED BY <1>3, <2>1, CountUp
  <2> QED BY <2>2

\* A call that works off a batch, each turn of which carries on.
LEMMA LoopKeeps ==
    ASSUME NEW loop, Len(loop) \in Nat, DOMAIN loop = 1..Len(loop), Call(loop),
           Sound(db, issued, acked),
           \A d : \A m \in 1..Len(loop) : Carried(d) => Carries(d, loop[m])
    PROVE  Sound(db', issued', acked')
<1> DEFINE n == Len(loop)
<1>4. \A m \in 0..n : Carried(Turns(loop)[m])
  BY LoopCarries
<1>5. CASE Whole(loop)
  BY <1>4, <1>5 DEF Whole, Call, Carried
<1>6. CASE Aborted(loop)
  <2>1. PICK m \in 1..n : \E k \in DOMAIN loop[m] :
                             db' = After(Turns(loop)[m - 1], loop[m])[k]
    BY <1>6 DEF Aborted
  <2> DEFINE s == loop[m]
             d == Turns(loop)[m - 1]
  <2>2. Carries(d, s)
    BY <1>4, <2>1
  <2>3. PICK k \in DOMAIN s : db' = After(d, s)[k]
    BY <2>1
  <2> HIDE DEF s, d
  <2>4. Carried(After(d, s)[k])
    BY <2>2, <2>3 DEF Carries
  <2> QED BY <2>3, <2>4 DEF Carried, Call
<1> QED BY <1>5, <1>6 DEF Call, Run

\* An old job is given up for a new one: NACK and a turn of REAP.
LEMMA RequeueTurn ==
    ASSUME NEW d, Carried(d), NEW j \in Job, j.id <= db.seq,
           NEW s, s = <<Del("lease", j), Incr, Push(j.url), Unprocess(j)>>
    PROVE  Carries(d, s)
<1> DEFINE t == After(d, s)
           d1 == t[1]
           d2 == t[2]
           d3 == t[3]
           d4 == t[4]
           I == issued
           A == acked
<1>1. /\ Len(s) = 4 /\ DOMAIN s = 1..4 /\ t[0] = d
      /\ d1 = Exec(d, Del("lease", j)) /\ d2 = Exec(d1, Incr)
      /\ d3 = Exec(d2, Push(j.url)) /\ d4 = Exec(d3, Unprocess(j))
  BY PrefixesFour
<1> HIDE DEF t, d1, d2, d3, d4
<1>2. j.url \in Video \cup Listing /\ j.id \in Nat /\ d.seq \in Nat /\ Sound(d, I, A)
  BY DEF Job, Carried
<1>3. /\ Sound(d1, I, A) /\ j \notin DOMAIN d1.lease
      /\ DOMAIN d1.lease \subseteq DOMAIN d.lease
      /\ \A key \in Keys \ {"lease"} : d1[key] = d[key]
  BY <1>1, <1>2, ReleaseKeeps
<1>4. d1.seq = d.seq /\ j.id <= d1.seq
  BY <1>2, <1>3 DEF Keys, Carried
<1>5. /\ Sound(d2, I, A) /\ Sound(d3, I, A) /\ Spare(d3, A, j)
      /\ d2.seq = d1.seq + 1 /\ d3.seq = d1.seq + 1
      /\ \A key \in Keys \ {"seq"} : d2[key] = d1[key]
      /\ \A key \in Keys \ {"seq", "ready"} : d3[key] = d1[key]
  <2>1. /\ Sound(d2, I, A) /\ Sound(d3, I, A) /\ Spare(d3, A, j)
    BY <1>1, <1>2, <1>3, <1>4, NewJob
  <2>2. /\ d2.seq = d1.seq + 1 /\ d3.seq = d1.seq + 1
        /\ \A key \in Keys \ {"seq"} : d2[key] = d1[key]
        /\ \A key \in Keys \ {"seq", "ready"} : d3[key] = d1[key]
    BY <1>1, <1>2, <1>3, NewJob
  <2> QED BY <2>1, <2>2
<1>6. d2.lease = d1.lease /\ d3.lease = d1.lease
  BY <1>5 DEF Keys
<1>7. Sound(d4, I, A) /\ \A key \in Keys \ {"processing"} : d4[key] = d3[key]
  BY <1>1, <1>3, <1>5, <1>6, UnprocessKeeps
<1>8. d4.lease = d1.lease /\ d4.seq = d3.seq
  BY <1>6, <1>7 DEF Keys
<1>9. Carried(d1) /\ Carried(d2) /\ Carried(d3) /\ Carried(d4)
  BY <1>3, <1>4, <1>5, <1>6, <1>7, <1>8 DEF Carried
<1> QED BY <1>1, <1>9 DEF Carries, t, d1, d2, d3, d4

\* The same for a job that has no lease: a turn of SWEEP.
LEMMA SweepTurn ==
    ASSUME NEW d, Carried(d), NEW j \in Job, j.id <= db.seq, j \notin DOMAIN db.lease,
           NEW s, s = <<Incr, Push(j.url), Unprocess(j)>>
    PROVE  Carries(d, s)
<1> DEFINE t == After(d, s)
           d1 == t[1]
           d2 == t[2]
           d3 == t[3]
           I == issued
           A == acked
<1>1. /\ Len(s) = 3 /\ DOMAIN s = 1..3 /\ t[0] = d
      /\ d1 = Exec(d, Incr) /\ d2 = Exec(d1, Push(j.url))
      /\ d3 = Exec(d2, Unprocess(j))
  BY PrefixesThree
<1> HIDE DEF t, d1, d2, d3
<1>2. /\ j.url \in Video \cup Listing /\ j.id \in Nat /\ d.seq \in Nat
      /\ j.id <= d.seq /\ Sound(d, I, A)
  BY DEF Job, Carried
<1>3. /\ Sound(d1, I, A) /\ Sound(d2, I, A) /\ Spare(d2, A, j)
      /\ d1.seq = d.seq + 1 /\ d2.seq = d.seq + 1
      /\ \A key \in Keys \ {"seq"} : d1[key] = d[key]
      /\ \A key \in Keys \ {"seq", "ready"} : d2[key] = d[key]
  BY <1>1, <1>2, NewJob
<1>4. d1.lease = d.lease /\ d2.lease = d.lease /\ j \notin DOMAIN d2.lease
  BY <1>3 DEF Keys, Carried
<1>5. Sound(d3, I, A) /\ \A key \in Keys \ {"processing"} : d3[key] = d2[key]
  BY <1>1, <1>3, <1>4, UnprocessKeeps
<1>6. d3.lease = d.lease /\ d3.seq = d2.seq
  BY <1>4, <1>5 DEF Keys
<1>7. Carried(d1) /\ Carried(d2) /\ Carried(d3)
  BY <1>2, <1>3, <1>4, <1>5, <1>6 DEF Carried
<1> QED BY <1>1, <1>7 DEF Carries, t, d1, d2, d3

\* The same for a job of the delayed set: a turn of PROMOTE.
LEMMA PromoteTurn ==
    ASSUME NEW d, Carried(d), NEW j \in Job, j.id <= db.seq,
           NEW s, s = <<Incr, Push(j.url), Del("delayed", j)>>
    PROVE  Carries(d, s)
<1> DEFINE t == After(d, s)
           d1 == t[1]
           d2 == t[2]
           d3 == t[3]
           I == issued
           A == acked
<1>1. /\ Len(s) = 3 /\ DOMAIN s = 1..3 /\ t[0] = d
      /\ d1 = Exec(d, Incr) /\ d2 = Exec(d1, Push(j.url))
      /\ d3 = Exec(d2, Del("delayed", j))
  BY PrefixesThree
<1> HIDE DEF t, d1, d2, d3
<1>2. /\ j.url \in Video \cup Listing /\ j.id \in Nat /\ d.seq \in Nat
      /\ j.id <= d.seq /\ Sound(d, I, A)
  BY DEF Job, Carried
<1>3. /\ Sound(d1, I, A) /\ Sound(d2, I, A) /\ Spare(d2, A, j)
      /\ d1.seq = d.seq + 1 /\ d2.seq = d.seq + 1
      /\ \A key \in Keys \ {"seq"} : d1[key] = d[key]
      /\ \A key \in Keys \ {"seq", "ready"} : d2[key] = d[key]
  BY <1>1, <1>2, NewJob
<1>4. d1.lease = d.lease /\ d2.lease = d.lease
  BY <1>3 DEF Keys
<1>5. Sound(d3, I, A) /\ \A key \in Keys \ {"delayed"} : d3[key] = d2[key]
  BY <1>1, <1>3, PromoteKeeps
<1>6. d3.lease = d.lease /\ d3.seq = d2.seq
  BY <1>4, <1>5 DEF Keys
<1>7. Carried(d1) /\ Carried(d2) /\ Carried(d3)
  BY <1>2, <1>3, <1>4, <1>5, <1>6 DEF Carried
<1> QED BY <1>1, <1>7 DEF Carries, t, d1, d2, d3

\* A due listing that is still dead is put off to the end of its quarantine.
LEMMA PutOffTurn ==
    ASSUME NEW d, Carried(d), NEW l \in Listing, NEW x, x # PendingScore, NEW s,
           s = <<Del("listingNext", l)>> \/ s = <<Set("listingNext", l, x)>>
    PROVE  Carries(d, s)
<1> DEFINE t == After(d, s)
           d1 == t[1]
           I == issued
           A == acked
<1>1. /\ Len(s) = 1 /\ DOMAIN s = 1..1 /\ t[0] = d
      /\ d1 = Exec(d, Del("listingNext", l)) \/ d1 = Exec(d, Set("listingNext", l, x))
  BY PrefixesOne
<1> HIDE DEF t, d1
<1>2. Sound(d, I, A)
  BY DEF Carried
<1>3. Sound(d1, I, A) /\ \A key \in Keys \ {"listingNext"} : d1[key] = d[key]
  <2>1. CASE d1 = Exec(d, Del("listingNext", l))
    BY <1>2, <2>1, UnscheduleKeeps
  <2>2. CASE d1 = Exec(d, Set("listingNext", l, x))
    BY <1>2, <2>2, PutOffKeeps
  <2> QED BY <1>1, <2>1, <2>2
<1>4. d1.lease = d.lease /\ d1.seq = d.seq
  BY <1>3 DEF Keys
<1>5. Carried(d1)
  BY <1>3, <1>4 DEF Carried
<1> QED BY <1>1, <1>5 DEF Carries, t, d1

\* Any other due listing gets a job and is PENDING.
LEMMA ScheduleTurn ==
    ASSUME NEW d, Carried(d), NEW l \in Listing, NEW s,
           s = <<Del("dead", l), Incr, Push(l), Set("listingNext", l, PendingScore)>>
    PROVE  Carries(d, s)
<1> DEFINE t == After(d, s)
           d1 == t[1]
           d2 == t[2]
           d3 == t[3]
           d4 == t[4]
           I == issued
           A == acked
<1>1. /\ Len(s) = 4 /\ DOMAIN s = 1..4 /\ t[0] = d
      /\ d1 = Exec(d, Del("dead", l)) /\ d2 = Exec(d1, Incr)
      /\ d3 = Exec(d2, Push(l)) /\ d4 = Exec(d3, Set("listingNext", l, PendingScore))
  BY PrefixesFour
<1> HIDE DEF t, d1, d2, d3, d4
<1>2. Sound(d, I, A) /\ d.seq \in Nat
  BY DEF Carried
<1>3. l \notin d.bloom
  BY <1>2, Limits DEF Sound, Shape
<1>4. Sound(d1, I, A) /\ \A key \in Keys \ {"dead"} : d1[key] = d[key]
  BY <1>1, <1>2, <1>3, ReviveKeeps
<1>5. d1.lease = d.lease /\ d1.seq = d.seq
  BY <1>4 DEF Keys
<1>6. /\ Sound(d2, I, A) /\ Sound(d3, I, A) /\ l \in Live(d3)
      /\ d2.seq = d1.seq + 1 /\ d3.seq = d1.seq + 1
      /\ \A key \in Keys \ {"seq"} : d2[key] = d1[key]
      /\ \A key \in Keys \ {"seq", "ready"} : d3[key] = d1[key]
  BY <1>1, <1>4, NewJob
<1>7. d2.lease = d.lease /\ d3.lease = d.lease
  BY <1>5, <1>6 DEF Keys
<1>8. Sound(d4, I, A)
  BY <1>1, <1>6, ScheduleKeeps
<1>9. DOMAIN d3 = Keys
  BY <1>6 DEF Sound, Shape
<1>10. d4.lease = d3.lease /\ d4.seq = d3.seq
  <2>1. d4 = Exec(d3, Set("listingNext", l, PendingScore))
    BY <1>1
  <2>2. \A key \in Keys \ {"listingNext"} : d4[key] = d3[key]
    BY <1>9, <2>1 DEF Exec, Set, Keys
  <2> QED BY <2>2 DEF Keys
<1>11. Carried(d1) /\ Carried(d2) /\ Carried(d3) /\ Carried(d4)
  BY <1>2, <1>4, <1>5, <1>6, <1>7, <1>8, <1>10 DEF Carried
<1> QED BY <1>1, <1>11 DEF Carries, t, d1, d2, d3, d4

-----------------------------------------------------------------------------
(* Batches.                                                                *)

\* A batch holds members of the sorted set it was read from.
LEMMA Batch ==
    ASSUME NEW z, NEW limit, NEW b \in DueBatches(z, limit)
    PROVE  /\ Len(b) \in Nat /\ DOMAIN b = 1..Len(b)
           /\ \A i \in 1..Len(b) : b[i] \in DOMAIN z
<1>1. PICK n \in 0..limit, P \in F!Page(z, F!Due(z), limit) : b \in F!Sorted(z, n, P)
  BY DEF DueBatches
<1>2. P \subseteq DOMAIN z
  BY DEF F!Page, F!Due
<1>3. b \in [1..n -> P]
  BY <1>1 DEF F!Sorted
<1>4. n \in Nat
  OBVIOUS
<1>5. b \in Seq(P) /\ Len(b) = n
  BY <1>3, <1>4
<1> QED BY <1>2, <1>3, <1>4, <1>5

\* PROMOTE, for every batch.
LEMMA PromoteCall ==
    ASSUME Sound(db, issued, acked),
           NEW b \in DueBatches(db.delayed, PromoteBatchLimit), Call(luaPromote(b))
    PROVE  Sound(db', issued', acked')
<1> DEFINE loop == luaPromote(b)
<1>1. /\ Len(b) \in Nat /\ DOMAIN b = 1..Len(b)
      /\ \A i \in 1..Len(b) : b[i] \in DOMAIN db.delayed
  BY Batch
<1>2. /\ Len(loop) = Len(b) /\ DOMAIN loop = 1..Len(b)
      /\ \A i \in 1..Len(b) : loop[i] = <<Incr, Push(b[i].url), Del("delayed", b[i])>>
  BY <1>1 DEF luaPromote
<1> HIDE DEF loop
<1>3. \A d : \A i \in 1..Len(b) : Carried(d) => Carries(d, loop[i])
  <2> SUFFICES ASSUME NEW d, NEW i \in 1..Len(b), Carried(d) PROVE Carries(d, loop[i])
    OBVIOUS
  <2>1. b[i] \in Jobs(db)
    BY <1>1 DEF Jobs, Queued
  <2>2. b[i] \in Job /\ b[i].id <= db.seq
    BY <2>1, JobsTyped DEF Sound, Order
  <2> QED BY <1>2, <2>2, PromoteTurn
<1> QED BY <1>1, <1>2, <1>3, LoopKeeps DEF loop

\* REAP, for every batch.
LEMMA ReapCall ==
    ASSUME Sound(db, issued, acked),
           NEW b \in DueBatches(db.lease, ReapBatchLimit), Call(luaReap(b))
    PROVE  Sound(db', issued', acked')
<1> DEFINE loop == luaReap(b)
<1>1. /\ Len(b) \in Nat /\ DOMAIN b = 1..Len(b)
      /\ \A i \in 1..Len(b) : b[i] \in DOMAIN db.lease
  BY Batch
<1>2. /\ Len(loop) = Len(b) /\ DOMAIN loop = 1..Len(b)
      /\ \A i \in 1..Len(b) :
            loop[i] = <<Del("lease", b[i]), Incr, Push(b[i].url), Unprocess(b[i])>>
  BY <1>1 DEF luaReap
<1> HIDE DEF loop
<1>3. \A d : \A i \in 1..Len(b) : Carried(d) => Carries(d, loop[i])
  <2> SUFFICES ASSUME NEW d, NEW i \in 1..Len(b), Carried(d) PROVE Carries(d, loop[i])
    OBVIOUS
  <2>1. b[i] \in Job /\ b[i].id <= db.seq
    BY <1>1, Leased
  <2> QED BY <1>2, <2>1, RequeueTurn
<1> QED BY <1>1, <1>2, <1>3, LoopKeeps DEF loop

\* A turn that is skipped.
LEMMA NoCommands ==
    ASSUME NEW d, Carried(d), NEW s, s = <<>>
    PROVE  Carries(d, s)
<1>1. Len(s) = 0 /\ DOMAIN s = 1..0
  OBVIOUS
<1> HIDE DEF Carries
<1>2. Len(s) \in Nat
  BY <1>1
<1>3. After(d, s)[0] = d
  BY <1>2, AfterUnfolds
<1> QED BY <1>1, <1>3 DEF Carries

\* SWEEP, for every window.
LEMMA SweepCall ==
    ASSUME Sound(db, issued, acked), Call(luaSweep)
    PROVE  Sound(db', issued', acked')
<1> DEFINE loop == luaSweep
           n == Len(db.processing)
           w == IF n > SweepBatchLimit THEN SweepBatchLimit ELSE n
           j(i) == db.processing[n - w + i]
<1>1. n \in Nat /\ w \in Nat /\ w <= n /\ db.processing \in Seq(Job)
  BY Limits DEF Sound, Shape
<1>2. /\ Len(loop) = w /\ DOMAIN loop = 1..w
      /\ \A i \in 1..w : loop[i] = IF j(i) \in DOMAIN db.lease THEN <<>>
                                   ELSE <<Incr, Push(j(i).url), Unprocess(j(i))>>
  <2>1. loop = [i \in 1..w |-> IF j(i) \in DOMAIN db.lease THEN <<>>
                                ELSE <<Incr, Push(j(i).url), Unprocess(j(i))>>]
    BY DEF luaSweep
  <2> HIDE DEF loop, w, n
  <2> QED BY <1>1, <2>1
<1>3. \A i \in 1..w : j(i) \in ToSet(db.processing)
  <2> SUFFICES ASSUME NEW i \in 1..w PROVE j(i) \in ToSet(db.processing)
    OBVIOUS
  <2>1. n - w + i \in 1..n
    <3> HIDE DEF w, n
    <3> QED BY <1>1
  <2>2. DOMAIN db.processing = 1..n
    BY <1>1
  <2> HIDE DEF w, n
  <2> QED BY <2>1, <2>2 DEF ToSet
<1> HIDE DEF loop, w, n, j
<1>4. \A d : \A i \in 1..w : Carried(d) => Carries(d, loop[i])
  <2> SUFFICES ASSUME NEW d, NEW i \in 1..w, Carried(d) PROVE Carries(d, loop[i])
    OBVIOUS
  <2>1. j(i) \in Jobs(db)
    BY <1>3 DEF Jobs
  <2>2. j(i) \in Job /\ j(i).id <= db.seq
    BY <2>1, JobsTyped DEF Sound, Order
  <2>3. CASE j(i) \in DOMAIN db.lease
    BY <1>2, <2>3, NoCommands
  <2>4. CASE j(i) \notin DOMAIN db.lease
    BY <1>2, <2>2, <2>4, SweepTurn
  <2> QED BY <2>3, <2>4
<1> QED BY <1>1, <1>2, <1>4, LoopKeeps DEF loop

\* The listing scheduler, for every page.
LEMMA SchedulerCall ==
    ASSUME Sound(db, issued, acked),
           NEW b \in DueBatches(db.listingNext, SchedulerBatchLimit),
           Call(luaListingScheduler(b))
    PROVE  Sound(db', issued', acked')
<1> DEFINE loop == luaListingScheduler(b)
           putOff(l) == IF db.dead[l] = 0 THEN Del("listingNext", l)
                        ELSE Set("listingNext", l, db.dead[l])
<1>1. /\ Len(b) \in Nat /\ DOMAIN b = 1..Len(b)
      /\ \A i \in 1..Len(b) : b[i] \in DOMAIN db.listingNext
  BY Batch
<1>2. /\ Len(loop) = Len(b) /\ DOMAIN loop = 1..Len(b)
      /\ \A i \in 1..Len(b) :
            loop[i] = IF F!Blocked(b[i]) THEN <<putOff(b[i])>>
                      ELSE <<Del("dead", b[i]), Incr, Push(b[i]),
                             Set("listingNext", b[i], PendingScore)>>
  BY <1>1 DEF luaListingScheduler
<1> HIDE DEF loop, putOff
<1>3. \A d : \A i \in 1..Len(b) : Carried(d) => Carries(d, loop[i])
  <2> SUFFICES ASSUME NEW d, NEW i \in 1..Len(b), Carried(d) PROVE Carries(d, loop[i])
    OBVIOUS
  <2> DEFINE l == b[i]
  <2>1. l \in Listing
    BY <1>1 DEF Sound, Shape
  <2>2. CASE F!Blocked(l)
    <3> DEFINE x == db.dead[l]
    <3>1. x # PendingScore
      BY <2>2 DEF F!Blocked, Sound, Shape
    <3>2. loop[i] = <<Del("listingNext", l)>> \/ loop[i] = <<Set("listingNext", l, x)>>
      BY <1>2, <2>2 DEF putOff
    <3> HIDE DEF l, x
    <3> QED BY <2>1, <3>1, <3>2, PutOffTurn
  <2>3. CASE ~F!Blocked(l)
    <3>1. loop[i] = <<Del("dead", l), Incr, Push(l), Set("listingNext", l, PendingScore)>>
      BY <1>2, <2>3
    <3> HIDE DEF l
    <3> QED BY <2>1, <3>1, ScheduleTurn
  <2> QED BY <2>2, <2>3
<1> QED BY <1>1, <1>2, <1>3, LoopKeeps DEF loop

-----------------------------------------------------------------------------
(* The invariant of the specification.                                     *)

ScriptInv == Sound(db, issued, acked) /\ now \in 1..MaxNow

\* An empty Redis is sound.
LEMMA InitSound ==
    ASSUME Init
    PROVE  ScriptInv
<1>1. /\ DOMAIN db = Keys
      /\ db.seq = 0 /\ db.ready = <<>> /\ db.processing = <<>>
      /\ db.lease = F!Empty /\ db.delayed = F!Empty /\ db.dead = F!Empty
      /\ db.listingNext = F!Empty /\ db.bloom = {} /\ issued = {} /\ acked = {}
  BY DEF Init, Keys
<1>2. DOMAIN F!Empty = {}
  BY DEF F!Empty
<1>a. Hash(F!Empty)
  BY DEF F!Empty, Hash
<1>3. ToSet(<<>>) = {} /\ Descending(<<>>) /\ <<>> \in Seq(Job)
  BY DEF ToSet, Descending
<1>4. Jobs(db) = {} /\ Queued(db) = {} /\ Pending(db) = {}
  BY <1>1, <1>2, <1>3 DEF Jobs, Queued, Pending
<1>5. Shape(db) /\ Order(db, issued)
  BY <1>1, <1>2, <1>3, <1>4, <1>a DEF Shape, Order
<1>6. Fence(db, issued) /\ Kept(db, acked)
  BY <1>1, <1>2, <1>4 DEF Fence, Kept
<1>7. now \in 1..MaxNow
  BY Limits DEF Init
<1> QED BY <1>5, <1>6, <1>7 DEF ScriptInv, Sound

\* AdmitVideo, whole or cut short.
LEMMA AdmitVideoCall ==
    ASSUME Sound(db, issued, acked), NEW v \in Video, Call(<<luaAdmitVideo(v)>>)
    PROVE  Sound(db', issued', acked')
<1>1. CASE F!Blocked(v)
  <2>1. luaAdmitVideo(v) = <<>>
    BY <1>1 DEF luaAdmitVideo
  <2>2. db' = db
    BY <2>1, NothingToDo DEF Call
  <2> QED BY <2>2 DEF Call
<1>2. CASE ~F!Blocked(v)
  <2> DEFINE s == luaAdmitVideo(v)
  <2>1. /\ Len(s) = 4 /\ DOMAIN s = 1..4
        /\ \A k \in 0..4 : Sound(After(db, s)[k], issued, acked)
    BY <1>2, AdmitVideoScript
  <2>2. Call(<<s>>)
    OBVIOUS
  <2> HIDE DEF s
  <2>3. /\ Len(s) \in Nat /\ DOMAIN s = 1..Len(s)
        /\ \A k \in 0..Len(s) : Sound(After(db, s)[k], issued, acked)
    BY <2>1
  <2> QED BY <2>2, <2>3, CallKeeps
<1> QED BY <1>1, <1>2

\* AdmitListing, whole or cut short.
LEMMA AdmitListingCall ==
    ASSUME Sound(db, issued, acked), NEW l \in Listing, Call(<<luaAdmitListing(l)>>)
    PROVE  Sound(db', issued', acked')
<1>1. CASE F!Blocked(l)
  <2>1. luaAdmitListing(l) = <<>>
    BY <1>1 DEF luaAdmitListing
  <2>2. db' = db
    BY <2>1, NothingToDo DEF Call
  <2> QED BY <2>2 DEF Call
<1>2. CASE ~F!Blocked(l)
  BY <1>2, AdmitListingScript, CallKeeps
<1> QED BY <1>1, <1>2

\* LEASE issues the job as soon as it has a lease, and not before.
LEMMA LeaseCall ==
    ASSUME Sound(db, issued, acked), Lease
    PROVE  Sound(db', issued', acked')
<1> DEFINE s == luaLease
           t == After(db, s)
           j == Last(db.ready)
           K == issued \cup {j}
<1>0. /\ Run(<<s>>)
      /\ issued' = issued \cup (ToSet(db.ready) \cap DOMAIN db'.lease)
      /\ acked' = acked
  BY DEF Lease
<1>1. CASE db.ready = <<>>
  <2>1. s = <<>> /\ ToSet(db.ready) = {}
    BY <1>1 DEF luaLease, ToSet
  <2>2. db' = db
    BY <1>0, <2>1, NothingToDo
  <2>3. issued' = issued
    BY <1>0, <2>1
  <2> QED BY <1>0, <2>2, <2>3
<1>2. CASE db.ready # <<>>
  <2>1. /\ Len(s) = 2 /\ DOMAIN s = 1..2 /\ t[0] = db
        /\ Sound(t[1], issued, acked) /\ t[1].lease = db.lease
        /\ Sound(t[2], K, acked) /\ DOMAIN t[2].lease = DOMAIN db.lease \cup {j}
        /\ j \in ToSet(db.ready)
    BY <1>2, LeaseScript
  <2>2. PICK k \in 0..2 : db' = t[k]
    <3> HIDE DEF s
    <3>1. Len(s) \in Nat /\ DOMAIN s = 1..Len(s)
      BY <2>1
    <3>2. \E k \in 0..Len(s) : db' = t[k]
      BY <1>0, <3>1, OneScript
    <3> QED BY <2>1, <3>2
  <2>3. ToSet(db.ready) \cap DOMAIN db.lease = {}
    BY DEF Sound, Fence, Queued
  <2> HIDE DEF s, t, j, K
  <2>4. CASE k = 0 \/ k = 1
    <3>1. db'.lease = db.lease /\ Sound(db', issued, acked)
      BY <2>1, <2>2, <2>4
    <3>2. issued' = issued
      BY <1>0, <2>3, <3>1
    <3> QED BY <1>0, <3>1, <3>2
  <2>5. CASE k = 2
    <3>1. db' = t[2]
      BY <2>2, <2>5
    <3>2. issued' = K
      BY <1>0, <2>1, <2>3, <3>1 DEF K
    <3> QED BY <1>0, <2>1, <3>1, <3>2
  <2> QED BY <2>4, <2>5
<1> QED BY <1>1, <1>2

\* The interrupted LEASE that SWEEP exists for.
LEMMA LeaseCutStep ==
    ASSUME Sound(db, issued, acked), LeaseCut
    PROVE  Sound(db', issued', acked')
<1> DEFINE K == issued \cup {Last(db.ready)}
<1>1. db.ready # <<>> /\ K = issued \cup {Last(db.ready)}
  BY DEF LeaseCut
<1> HIDE DEF K
<1>2. Sound(After(db, luaLease)[1], issued, acked)
  BY <1>1, LeaseScript
<1> QED BY <1>2 DEF LeaseCut

\* Ack, whole or cut short.
LEMMA AckCall ==
    ASSUME Sound(db, issued, acked), NEW j, j.url \in Video, Ack(j)
    PROVE  Sound(db', issued', acked')
<1> DEFINE s == luaAck(j)
           t == After(db, s)
           B == acked \cup {j.url}
<1>0. /\ Run(<<s>>) /\ issued' = issued
      /\ acked' = IF j \in ToSet(db.processing) \ ToSet(db'.processing)
                  THEN B ELSE acked
  BY DEF Ack
<1>1. CASE j \notin DOMAIN db.lease
  <2>1. s = <<>>
    BY <1>1 DEF luaAck, Fenced
  <2>2. db' = db
    BY <1>0, <2>1, NothingToDo
  <2> QED BY <1>0, <2>2
<1>2. CASE j \in DOMAIN db.lease
  <2>1. j.url \in B /\ acked \subseteq B
    OBVIOUS
  <2>a. j \in ToSet(db.processing)
    BY <1>2, Leased
  <2> HIDE DEF B
  <2>2. /\ Len(s) = 4 /\ DOMAIN s = 1..4
        /\ \A k \in 0..1 : Sound(t[k], issued, acked) /\ t[k].processing = db.processing
        /\ \A k \in 2..4 : Sound(t[k], issued, B) /\ j \notin ToSet(t[k].processing)
    BY <1>2, <2>1, AckScript
  <2>3. PICK k \in 0..4 : db' = t[k]
    <3> HIDE DEF s
    <3>1. Len(s) \in Nat /\ DOMAIN s = 1..Len(s)
      BY <2>2
    <3>2. \E k \in 0..Len(s) : db' = t[k]
      BY <1>0, <3>1, OneScript
    <3> QED BY <2>2, <3>2
  <2> HIDE DEF s, t
  <2>4. CASE k \in 0..1
    BY <1>0, <2>2, <2>3, <2>4
  <2>5. CASE k \in 2..4
    <3>1. Sound(db', issued, B) /\ j \notin ToSet(db'.processing)
      BY <2>2, <2>3, <2>5
    <3> QED BY <1>0, <2>a, <3>1
  <2> QED BY <2>4, <2>5
<1> QED BY <1>1, <1>2

\* A resolution finds its lease or does nothing.
LEMMA FencedCall ==
    ASSUME Sound(db, issued, acked), NEW j, NEW body, NEW s, s = Fenced(j, body),
           Call(<<s>>),
           j \in DOMAIN db.lease =>
              /\ Len(s) \in Nat /\ DOMAIN s = 1..Len(s)
              /\ \A k \in 0..Len(s) : Sound(After(db, s)[k], issued, acked)
    PROVE  Sound(db', issued', acked')
<1>1. CASE j \notin DOMAIN db.lease
  <2>1. s = <<>>
    BY <1>1 DEF Fenced
  <2>2. db' = db
    BY <2>1, NothingToDo DEF Call
  <2> QED BY <2>2 DEF Call
<1>2. CASE j \in DOMAIN db.lease
  BY <1>2, CallKeeps
<1> QED BY <1>1, <1>2

\* Every resolution of every job that was ever issued.
LEMMA ResolveStep ==
    ASSUME Sound(db, issued, acked), now \in 1..MaxNow, NEW j, Resolve(j)
    PROVE  Sound(db', issued', acked')
<1>1. CASE j.url \in Video /\ Ack(j)
  BY <1>1, AckCall
<1>2. CASE Call(<<luaNack(j)>>)
  <2> DEFINE body == <<Del("lease", j), Incr, Push(j.url), Unprocess(j)>>
             s == luaNack(j)
  <2>1. s = Fenced(j, body)
    BY DEF luaNack
  <2> HIDE DEF body, s
  <2>2. ASSUME j \in DOMAIN db.lease
        PROVE  /\ Len(s) \in Nat /\ DOMAIN s = 1..Len(s)
               /\ \A k \in 0..Len(s) : Sound(After(db, s)[k], issued, acked)
    <3>1. s = body
      BY <2>1, <2>2 DEF Fenced
    <3>2. j \in Job /\ j.id <= db.seq
      BY <2>2, Leased
    <3>3. Carried(db)
      BY DEF Carried, Sound, Shape
    <3>4. Carries(db, s)
      BY <3>1, <3>2, <3>3, RequeueTurn DEF body
    <3> QED BY <3>4 DEF Carries, Carried
  <2>3. Call(<<s>>)
    BY <1>2 DEF s
  <2> QED BY <2>1, <2>2, <2>3, FencedCall
<1>3. CASE Call(<<luaTerminal(j)>>)
  <2> DEFINE s == luaTerminal(j)
  <2>1. \E body : s = Fenced(j, body)
    BY DEF luaTerminal
  <2>2. ASSUME j \in DOMAIN db.lease
        PROVE  /\ Len(s) \in Nat /\ DOMAIN s = 1..Len(s)
               /\ \A k \in 0..Len(s) : Sound(After(db, s)[k], issued, acked)
    <3>1. /\ Len(s) = 6 /\ DOMAIN s = 1..6
          /\ \A k \in 0..6 : Sound(After(db, s)[k], issued, acked)
      BY <2>2, TerminalScript
    <3> HIDE DEF s
    <3> QED BY <3>1
  <2>3. Call(<<s>>)
    BY <1>3
  <2> HIDE DEF s
  <2> QED BY <2>1, <2>2, <2>3, FencedCall
<1>4. ASSUME NEW class \in {"rateLimited", "strikeable"}, Call(<<luaFail(j, class)>>)
      PROVE  Sound(db', issued', acked')
  <2> DEFINE s == luaFail(j, class)
  <2>1. \E body : s = Fenced(j, body)
    BY DEF luaFail
  <2>2. ASSUME j \in DOMAIN db.lease
        PROVE  /\ Len(s) \in Nat /\ DOMAIN s = 1..Len(s)
               /\ \A k \in 0..Len(s) : Sound(After(db, s)[k], issued, acked)
    BY <2>2, FailScript
  <2>3. Call(<<s>>)
    BY <1>4
  <2> HIDE DEF s
  <2> QED BY <2>1, <2>2, <2>3, FencedCall
<1>5. ASSUME j.url \in Listing, NEW found \in BOOLEAN,
             Call(<<luaCompleteListing(j, found)>>)
      PROVE  Sound(db', issued', acked')
  <2> DEFINE s == luaCompleteListing(j, found)
  <2>1. \E body : s = Fenced(j, body)
    BY DEF luaCompleteListing
  <2>2. ASSUME j \in DOMAIN db.lease
        PROVE  /\ Len(s) \in Nat /\ DOMAIN s = 1..Len(s)
               /\ \A k \in 0..Len(s) : Sound(After(db, s)[k], issued, acked)
    <3>1. /\ Len(s) = 7 /\ DOMAIN s = 1..7
          /\ \A k \in 0..7 : Sound(After(db, s)[k], issued, acked)
      BY <1>5, <2>2, CompleteListingScript
    <3> HIDE DEF s
    <3> QED BY <3>1
  <2>3. Call(<<s>>)
    BY <1>5
  <2> HIDE DEF s
  <2> QED BY <2>1, <2>2, <2>3, FencedCall
<1> QED BY <1>1, <1>2, <1>3, <1>4, <1>5 DEF Resolve

\* Every step keeps the invariant.
LEMMA StepSound ==
    ASSUME ScriptInv, [Next]_vars
    PROVE  ScriptInv'
<1>0. Sound(db, issued, acked) /\ now \in 1..MaxNow /\ MaxNow \in Nat
  BY Limits DEF ScriptInv
<1>1. now' \in 1..MaxNow
  <2>1. CASE UNCHANGED vars
    BY <1>0, <2>1 DEF vars
  <2>2. CASE Tick
    BY <1>0, <2>2 DEF Tick
  <2>3. CASE Next /\ ~Tick
    BY <1>0, <2>3 DEF Next, Call, Run, Lease, LeaseCut, Resolve, Ack, Reconcile
  <2> QED BY <2>1, <2>2, <2>3
<1>2. Sound(db', issued', acked')
  <2>1. CASE UNCHANGED vars
    BY <1>0, <2>1 DEF vars
  <2>2. ASSUME NEW v \in Video, Call(<<luaAdmitVideo(v)>>)
        PROVE  Sound(db', issued', acked')
    BY <1>0, <2>2, AdmitVideoCall
  <2>3. ASSUME NEW l \in Listing, Call(<<luaAdmitListing(l)>>)
        PROVE  Sound(db', issued', acked')
    BY <1>0, <2>3, AdmitListingCall
  <2>4. CASE Lease
    BY <1>0, <2>4, LeaseCall
  <2>5. CASE LeaseCut
    BY <1>0, <2>5, LeaseCutStep
  <2>6. ASSUME NEW j \in issued, Resolve(j) PROVE Sound(db', issued', acked')
    BY <1>0, <2>6, ResolveStep
  <2>7. CASE Reconcile
    <3>1. ASSUME NEW b \in DueBatches(db.delayed, PromoteBatchLimit), Call(luaPromote(b))
          PROVE  Sound(db', issued', acked')
      BY <1>0, <3>1, PromoteCall
    <3>2. ASSUME NEW b \in DueBatches(db.lease, ReapBatchLimit), Call(luaReap(b))
          PROVE  Sound(db', issued', acked')
      BY <1>0, <3>2, ReapCall
    <3>3. CASE Call(luaSweep)
      BY <1>0, <3>3, SweepCall
    <3>4. ASSUME NEW b \in DueBatches(db.listingNext, SchedulerBatchLimit),
                 Call(luaListingScheduler(b))
          PROVE  Sound(db', issued', acked')
      BY <1>0, <3>4, SchedulerCall
    <3> QED BY <2>7, <3>1, <3>2, <3>3, <3>4 DEF Reconcile
  <2>8. CASE Tick
    BY <1>0, <2>8 DEF Tick
  <2> QED BY <2>1, <2>2, <2>3, <2>4, <2>5, <2>6, <2>7, <2>8 DEF Next
<1>3. Sound(db, issued, acked)' <=> Sound(db', issued', acked')
  OBVIOUS
<1> QED BY <1>1, <1>2, <1>3 DEF ScriptInv

\* Wherever scripts are cut short, the lists stay in the order of their ids,
\* the fence holds and no claim is lost.
THEOREM ScriptsStaySound == Spec => []ScriptInv
<1>1. Init => ScriptInv
  BY InitSound
<1>2. ScriptInv /\ [Next]_vars => ScriptInv'
  BY StepSound
<1> QED BY <1>1, <1>2, PTL DEF Spec

\* "failure means duplicate, not loss" (frontier.go:181), for every
\* interleaving of calls and every place where a script may stop: a claimed
\* video and a PENDING listing always have a job.
THEOREM ScriptsLoseNothing == Spec => []DuplicateNotLoss
<1>1. ScriptInv => DuplicateNotLoss
  <2>1. F!Live = Live(db)
    BY DEF F!Live, F!Jobs, Live, Jobs, Queued
  <2> QED BY <2>1 DEF ScriptInv, Sound, Kept, Pending, DuplicateNotLoss
<1> QED BY <1>1, ScriptsStaySound, PTL

\* A job whose resolution was cut short never gets a lease again: no error in
\* the middle of a script lets a job be resolved twice.
THEOREM ScriptsKeepTheFence == Spec => []FenceSurvives
<1>1. ScriptInv => FenceSurvives
  BY DEF ScriptInv, Sound, Fence, Queued, FenceSurvives
<1> QED BY <1>1, ScriptsStaySound, PTL

-----------------------------------------------------------------------------
(* The refinement.  What each command leaves, key by key.                  *)

\* All keys but one are as before.
Same(d, e, key) == DOMAIN e = Keys /\ \A k \in Keys \ {key} : e[k] = d[k]

\* INCR.
LEMMA IncrEffect ==
    ASSUME NEW d, DOMAIN d = Keys, NEW e, e = Exec(d, Incr)
    PROVE  e.seq = d.seq + 1 /\ Same(d, e, "seq")
<1>1. e = [d EXCEPT !.seq = d.seq + 1]
  BY DEF Exec, Incr, Keys
<1> QED BY <1>1 DEF Keys, Same

\* LPUSH.
LEMMA PushEffect ==
    ASSUME NEW d, DOMAIN d = Keys, NEW u, NEW e, e = Exec(d, Push(u))
    PROVE  e.ready = <<Item(d, u)>> \o d.ready /\ Same(d, e, "ready")
<1>1. e = [d EXCEPT !.ready = <<Item(d, u)>> \o d.ready]
  BY DEF Exec, Push, Keys
<1> QED BY <1>1 DEF Keys, Same

\* ZADD of a new job to the delayed set.
LEMMA DelayEffect ==
    ASSUME NEW d, DOMAIN d = Keys, NEW u, NEW x, NEW e, e = Exec(d, <<"DELAY", u, x>>)
    PROVE  e.delayed = F!ZAdd(d.delayed, Item(d, u), x) /\ Same(d, e, "delayed")
<1>1. e = [d EXCEPT !.delayed = F!ZAdd(d.delayed, Item(d, u), x)]
  BY DEF Exec, Keys
<1> QED BY <1>1 DEF Keys, Same

\* LREM.
LEMMA DropEffect ==
    ASSUME NEW d, DOMAIN d = Keys, NEW key \in Keys, NEW j,
           NEW e, e = Exec(d, Drop(key, j))
    PROVE  e[key] = RemoveFirst(d[key], j) /\ Same(d, e, key)
<1>1. e = [d EXCEPT ![key] = RemoveFirst(d[key], j)]
  BY DEF Exec, Drop, Keys
<1> QED BY <1>1 DEF Keys, Same

\* ZADD and HSET.
LEMMA SetEffect ==
    ASSUME NEW d, DOMAIN d = Keys, NEW key \in Keys, NEW m, NEW x,
           NEW e, e = Exec(d, Set(key, m, x))
    PROVE  e[key] = F!ZAdd(d[key], m, x) /\ Same(d, e, key)
<1>1. e = [d EXCEPT ![key] = F!ZAdd(d[key], m, x)]
  BY DEF Exec, Set, Keys
<1> QED BY <1>1 DEF Keys, Same

\* ZREM and HDEL.
LEMMA DelEffect ==
    ASSUME NEW d, DOMAIN d = Keys, NEW key \in Keys, NEW m,
           NEW e, e = Exec(d, Del(key, m))
    PROVE  e[key] = Without(d[key], m) /\ Same(d, e, key)
<1>1. e = [d EXCEPT ![key] = Without(d[key], m)]
  BY DEF Exec, Del, Keys
<1> QED BY <1>1 DEF Keys, Same

\* BF.ADD, which a full filter refuses.
LEMMA ClaimEffect ==
    ASSUME NEW d, DOMAIN d = Keys, NEW v,
           NEW b, b = IF F!BloomFull THEN d.bloom ELSE d.bloom \cup {v},
           NEW e, e = Exec(d, <<"BFADD", v>>)
    PROVE  e.bloom = b /\ Same(d, e, "bloom")
<1>1. e = [d EXCEPT !.bloom = b]
  BY DEF Exec, Keys
<1> QED BY <1>1 DEF Keys, Same

\* LMOVE.
LEMMA MoveEffect ==
    ASSUME NEW d, DOMAIN d = Keys, NEW e, e = Exec(d, <<"LMOVE">>)
    PROVE  /\ e.ready = Front(d.ready) /\ e.processing = <<Last(d.ready)>> \o d.processing
           /\ DOMAIN e = Keys
           /\ \A k \in Keys \ {"ready", "processing"} : e[k] = d[k]
<1>1. e = [d EXCEPT !.ready = Front(d.ready), !.processing = <<Last(d.ready)>> \o d.processing]
  BY DEF Exec, Keys
<1> QED BY <1>1 DEF Keys

\* The counters are total functions: HSET and HINCRBY change one, HDEL clears
\* it.
LEMMA CountersEffect ==
    ASSUME NEW h, NEW u \in Video \cup Listing, NEW x
    PROVE  /\ Counters(F!ZAdd(h, u, x)) = [Counters(h) EXCEPT ![u] = x]
           /\ Counters(Without(h, u)) = [Counters(h) EXCEPT ![u] = 0]
<1>1. /\ DOMAIN F!ZAdd(h, u, x) = DOMAIN h \cup {u} /\ F!ZAdd(h, u, x)[u] = x
      /\ \A k \in DOMAIN h \ {u} : F!ZAdd(h, u, x)[k] = h[k]
  BY DEF F!ZAdd
<1>2. /\ DOMAIN Without(h, u) = DOMAIN h \ {u}
      /\ \A k \in DOMAIN h \ {u} : Without(h, u)[k] = h[k]
  BY Removed
<1>3. Counters(F!ZAdd(h, u, x)) = [Counters(h) EXCEPT ![u] = x]
  BY <1>1 DEF Counters
<1>4. Counters(Without(h, u)) = [Counters(h) EXCEPT ![u] = 0]
  BY <1>2 DEF Counters
<1> QED BY <1>3, <1>4

\* A call of one script that ran to its end.
LEMMA WholeScript ==
    ASSUME NEW s, Len(s) \in Nat, Run(<<s>>), aborts \in Nat, aborts' = 0
    PROVE  db' = After(db, s)[Len(s)]
<1> DEFINE loop == <<s>>
<1>1. Len(loop) = 1 /\ loop[1] = s
  OBVIOUS
<1>2. Whole(loop)
  BY DEF Run, Aborted
<1> HIDE DEF loop
<1>3. Len(loop) \in Nat
  BY <1>1
<1>4. /\ Turns(loop)[0] = db
      /\ \A m \in 1..Len(loop) :
            Turns(loop)[m] = After(Turns(loop)[m - 1], loop[m])[Len(loop[m])]
  BY <1>3, TurnsUnfold
<1>5. Turns(loop)[1] = After(Turns(loop)[0], loop[1])[Len(loop[1])]
  BY <1>1, <1>4
<1> QED BY <1>1, <1>2, <1>4, <1>5 DEF Whole

-----------------------------------------------------------------------------
(* Every call that ends without an error is a step of Frontier.            *)

\* A call that finds nothing to do.
LEMMA NothingChanges ==
    ASSUME db' = db, UNCHANGED <<now, issued, acked>>
    PROVE  UNCHANGED F!vars
BY DEF F!vars

\* The id that an INCR is about to give, in terms of Frontier.
LEMMA Minted ==
    ASSUME NEW I, NEW A, Sound(db, I, A), NEW u, NEW d, d.seq = db.seq + 1
    PROVE  Item(d, u) = F!Mint(1, u) /\ F!Mint(1, u) \notin Jobs(db)
<1>1. F!Mint(1, u) = [id |-> db.seq + 1, url |-> u]
  BY DEF F!Mint
<1>2. \A j \in Jobs(db) : j.id <= db.seq
  BY DEF Sound, Order
<1>3. db.seq \in Nat
  BY DEF Sound, Shape
<1> QED BY <1>1, <1>2, <1>3 DEF Item

\* AdmitVideo.
LEMMA AdmitVideoRefines ==
    ASSUME Sound(db, issued, acked), NEW v \in Video, Call(<<luaAdmitVideo(v)>>),
           aborts \in Nat, aborts' = 0
    PROVE  F!AdmitVideo(v)
<1> DEFINE s == luaAdmitVideo(v)
           t == After(db, s)
           d1 == t[1]
           d2 == t[2]
           d3 == t[3]
           d4 == t[4]
           j == F!Mint(1, v)
           last == IF F!BloomHas(v) THEN Drop("ready", j) ELSE <<"BFADD", v>>
<1>0. Run(<<s>>) /\ UNCHANGED <<now, issued, acked>> /\ db'.seq <= MaxJob
  BY DEF Call, Run
<1>1. CASE F!Blocked(v)
  <2>1. s = <<>>
    BY <1>1 DEF luaAdmitVideo
  <2>2. db' = db
    BY <1>0, <2>1, NothingToDo
  <2> QED BY <1>0, <1>1, <2>2, NothingChanges DEF F!AdmitVideo
<1>2. CASE ~F!Blocked(v)
  <2>1. s = <<Del("dead", v), Incr, Push(v), last>>
    BY <1>2 DEF luaAdmitVideo
  <2>2. /\ Len(s) = 4 /\ t[0] = db
        /\ d1 = Exec(db, Del("dead", v)) /\ d2 = Exec(d1, Incr)
        /\ d3 = Exec(d2, Push(v)) /\ d4 = Exec(d3, last)
    BY <2>1, PrefixesFour
  <2>3. \A k \in 0..4 : Sound(t[k], issued, acked)
    BY <1>2, AdmitVideoScript
  <2>4. db' = d4
    <3> HIDE DEF s
    <3>1. Len(s) \in Nat
      BY <2>2
    <3>2. db' = t[Len(s)]
      BY <1>0, <3>1, WholeScript
    <3> QED BY <2>2, <3>2
  <2>a. Sound(d3, issued, acked)
    BY <2>3
  <2>b. DOMAIN db = Keys
    BY DEF Sound, Shape
  <2> HIDE DEF s, t, d1, d2, d3, d4, last, j
  <2>5. d1.dead = Without(db.dead, v) /\ Same(db, d1, "dead")
    BY <2>2, <2>b, DelEffect DEF Keys
  <2>6. d2.seq = d1.seq + 1 /\ Same(d1, d2, "seq")
    BY <2>2, <2>5, IncrEffect DEF Same
  <2>7. d3.ready = <<Item(d2, v)>> \o d2.ready /\ Same(d2, d3, "ready")
    BY <2>2, <2>6, PushEffect DEF Same
  <2>8. /\ d3.seq = db.seq + 1 /\ d2.seq = db.seq + 1 /\ d2.ready = db.ready
        /\ d3.dead = Without(db.dead, v)
        /\ \A k \in Keys \ {"seq", "ready", "dead"} : d3[k] = db[k]
    BY <2>5, <2>6, <2>7 DEF Same, Keys
  <2>9. d3.ready = <<j>> \o db.ready /\ j \notin Jobs(db)
    BY <2>7, <2>8, Minted DEF j
  <2>10. ToSet(d3.ready) = {j} \cup ToSet(db.ready) /\ j \notin ToSet(db.ready)
    <3>1. j \in Job
      BY JobsTyped DEF j, F!Mint, Job
    <3> QED BY <2>9, <3>1, Pushed DEF Sound, Shape, Jobs, Queued
  <2> DEFINE b == IF F!BloomFull THEN d3.bloom ELSE d3.bloom \cup {v}
  <2>c. ASSUME ~F!BloomHas(v) PROVE d4.bloom = b /\ Same(d3, d4, "bloom")
    <3>1. /\ d4 = Exec(d3, <<"BFADD", v>>) /\ DOMAIN d3 = Keys
          /\ b = IF F!BloomFull THEN d3.bloom ELSE d3.bloom \cup {v}
      BY <2>2, <2>7, <2>c DEF last, Same
    <3> HIDE DEF b
    <3>2. d4.bloom = b /\ Same(d3, d4, "bloom")
      BY <3>1, ClaimEffect
    <3> QED BY <3>2
  <2>11. db.seq < MaxJob
    <3>1. d4.seq = d3.seq
      <4>1. CASE F!BloomHas(v)
        BY <2>2, <2>7, <4>1, DropEffect DEF last, Same, Keys
      <4>2. CASE ~F!BloomHas(v)
        BY <2>c, <4>2 DEF Same, Keys
      <4> QED BY <4>1, <4>2
    <3>2. db.seq \in Nat /\ MaxJob \in Nat
      BY FrontierAssumption DEF Sound, Shape, F!ConfigAssumption
    <3> QED BY <1>0, <2>4, <2>8, <3>1, <3>2
  <2>12. CASE F!BloomHas(v)
    <3>1. d4.ready = RemoveFirst(d3.ready, j) /\ Same(d3, d4, "ready")
      BY <2>2, <2>7, <2>12, DropEffect DEF last, Same, Keys
    <3>2. ToSet(d4.ready) = ToSet(db.ready)
      <4>1. ToSet(d4.ready) = ToSet(d3.ready) \ {j}
        BY <2>a, <3>1, Dropped DEF Sound, Shape, Order
      <4> QED BY <2>10, <4>1
    <3>3. /\ d4.seq = db.seq + 1 /\ d4.dead = Without(db.dead, v)
          /\ \A k \in Keys \ {"seq", "ready", "dead"} : d4[k] = db[k]
      BY <2>8, <3>1 DEF Same, Keys
    <3>4. /\ d4.processing = db.processing /\ d4.lease = db.lease /\ d4.delayed = db.delayed
          /\ d4.attempts = db.attempts /\ d4.strikes = db.strikes
          /\ d4.listingNext = db.listingNext /\ d4.barren = db.barren
          /\ d4.bloom = db.bloom
      BY <3>3 DEF Keys
    <3> QED BY <1>0, <1>2, <2>4, <2>11, <2>12, <3>2, <3>3, <3>4
            DEF F!AdmitVideo, F!Revive, Without
  <2>13. CASE ~F!BloomHas(v)
    <3>1. /\ d4.bloom = IF F!BloomFull THEN d3.bloom ELSE d3.bloom \cup {v}
          /\ Same(d3, d4, "bloom")
      BY <2>c, <2>13
    <3>2. /\ d4.seq = db.seq + 1 /\ d4.dead = Without(db.dead, v)
          /\ ToSet(d4.ready) = ToSet(db.ready) \cup {j}
          /\ d4.bloom = IF F!BloomFull THEN db.bloom ELSE db.bloom \cup {v}
          /\ \A k \in Keys \ {"seq", "ready", "dead", "bloom"} : d4[k] = db[k]
      BY <2>8, <2>10, <3>1 DEF Same, Keys
    <3>3. /\ d4.processing = db.processing /\ d4.lease = db.lease /\ d4.delayed = db.delayed
          /\ d4.attempts = db.attempts /\ d4.strikes = db.strikes
          /\ d4.listingNext = db.listingNext /\ d4.barren = db.barren
      BY <3>2 DEF Keys
    <3> QED BY <1>0, <1>2, <2>4, <2>11, <2>13, <3>2, <3>3
            DEF F!AdmitVideo, F!Revive, Without, j
  <2> QED BY <2>12, <2>13
<1> QED BY <1>1, <1>2

\* AdmitListing.
LEMMA AdmitListingRefines ==
    ASSUME Sound(db, issued, acked), NEW l \in Listing, Call(<<luaAdmitListing(l)>>),
           aborts \in Nat, aborts' = 0
    PROVE  F!AdmitListing(l)
<1> DEFINE s == luaAdmitListing(l)
           t == After(db, s)
           d1 == t[1]
           d2 == t[2]
           d3 == t[3]
           d4 == t[4]
           j == F!Mint(1, l)
<1>0. Run(<<s>>) /\ UNCHANGED <<now, issued, acked>> /\ db'.seq <= MaxJob
  BY DEF Call, Run
<1>a. DOMAIN db = Keys
  BY DEF Sound, Shape
<1>1. CASE F!Blocked(l)
  <2>1. s = <<>>
    BY <1>1 DEF luaAdmitListing
  <2>2. db' = db
    BY <1>0, <2>1, NothingToDo
  <2> QED BY <1>0, <1>1, <2>2, NothingChanges DEF F!AdmitListing
<1>2. CASE ~F!Blocked(l) /\ F!NotDue(l)
  <2>1. s = <<Del("dead", l)>>
    BY <1>2 DEF luaAdmitListing
  <2>2. Len(s) = 1 /\ t[0] = db /\ d1 = Exec(db, Del("dead", l))
    BY <2>1, PrefixesOne
  <2>3. db' = d1
    <3> HIDE DEF s
    <3>1. Len(s) \in Nat
      BY <2>2
    <3>2. db' = t[Len(s)]
      BY <1>0, <3>1, WholeScript
    <3> QED BY <2>2, <3>2
  <2> HIDE DEF s, t, d1
  <2>4. d1.dead = Without(db.dead, l) /\ Same(db, d1, "dead")
    BY <1>a, <2>2, DelEffect DEF Keys
  <2>5. /\ d1.seq = db.seq /\ d1.ready = db.ready /\ d1.processing = db.processing
        /\ d1.lease = db.lease /\ d1.delayed = db.delayed
        /\ d1.attempts = db.attempts /\ d1.strikes = db.strikes
        /\ d1.listingNext = db.listingNext /\ d1.barren = db.barren
        /\ d1.bloom = db.bloom
    BY <2>4 DEF Same, Keys
  <2> QED BY <1>0, <1>2, <2>3, <2>4, <2>5 DEF F!AdmitListing, F!Revive, Without
<1>3. CASE ~F!Blocked(l) /\ ~F!NotDue(l)
  <2>1. s = <<Del("dead", l), Incr, Push(l), Set("listingNext", l, PendingScore)>>
    BY <1>3 DEF luaAdmitListing
  <2>2. /\ Len(s) = 4 /\ t[0] = db
        /\ d1 = Exec(db, Del("dead", l)) /\ d2 = Exec(d1, Incr)
        /\ d3 = Exec(d2, Push(l)) /\ d4 = Exec(d3, Set("listingNext", l, PendingScore))
    BY <2>1, PrefixesFour
  <2>3. db' = d4
    <3> HIDE DEF s
    <3>1. Len(s) \in Nat
      BY <2>2
    <3>2. db' = t[Len(s)]
      BY <1>0, <3>1, WholeScript
    <3> QED BY <2>2, <3>2
  <2> HIDE DEF s, t, d1, d2, d3, d4, j
  <2>4. d1.dead = Without(db.dead, l) /\ Same(db, d1, "dead")
    BY <1>a, <2>2, DelEffect DEF Keys
  <2>5. d2.seq = d1.seq + 1 /\ Same(d1, d2, "seq")
    BY <2>2, <2>4, IncrEffect DEF Same
  <2>6. d3.ready = <<Item(d2, l)>> \o d2.ready /\ Same(d2, d3, "ready")
    BY <2>2, <2>5, PushEffect DEF Same
  <2>7. /\ d4.listingNext = F!ZAdd(d3.listingNext, l, PendingScore)
        /\ Same(d3, d4, "listingNext")
    BY <2>2, <2>6, SetEffect DEF Same, Keys
  <2>8. /\ d2.seq = db.seq + 1 /\ d2.ready = db.ready /\ d4.seq = db.seq + 1
        /\ d4.ready = d3.ready /\ d3.listingNext = db.listingNext
        /\ d4.dead = Without(db.dead, l)
        /\ d4.processing = db.processing
        /\ d4.lease = db.lease /\ d4.delayed = db.delayed
        /\ d4.attempts = db.attempts /\ d4.strikes = db.strikes
        /\ d4.barren = db.barren /\ d4.bloom = db.bloom
    BY <2>4, <2>5, <2>6, <2>7 DEF Same, Keys
  <2>9. d3.ready = <<j>> \o db.ready
    BY <2>6, <2>8, Minted DEF j
  <2>10. ToSet(d4.ready) = {j} \cup ToSet(db.ready)
    <3>1. j \in Job
      BY JobsTyped DEF j, F!Mint, Job
    <3> QED BY <2>8, <2>9, <3>1, Pushed DEF Sound, Shape
  <2>11. db.seq < MaxJob
    <3>1. db.seq \in Nat /\ MaxJob \in Nat
      BY FrontierAssumption DEF Sound, Shape, F!ConfigAssumption
    <3> QED BY <1>0, <2>3, <2>8, <3>1
  <2> QED BY <1>0, <1>3, <2>3, <2>7, <2>8, <2>10, <2>11
          DEF F!AdmitListing, F!Revive, Without, j
<1> QED BY <1>1, <1>2, <1>3

\* Lease.
LEMMA LeaseRefines ==
    ASSUME Sound(db, issued, acked), Lease, aborts \in Nat, aborts' = 0
    PROVE  F!Lease
<1> DEFINE s == luaLease
           t == After(db, s)
           d1 == t[1]
           d2 == t[2]
           j == Last(db.ready)
           x == now + LeaseTimeout
<1>0. /\ Run(<<s>>) /\ UNCHANGED <<now, acked>>
      /\ issued' = issued \cup (ToSet(db.ready) \cap DOMAIN db'.lease)
  BY DEF Lease, Run
<1>1. CASE db.ready = <<>>
  <2>1. s = <<>> /\ ToSet(db.ready) = {}
    BY <1>1 DEF luaLease, ToSet
  <2>2. db' = db
    BY <1>0, <2>1, NothingToDo
  <2>3. issued' = issued
    BY <1>0, <2>1
  <2> QED BY <1>0, <2>1, <2>2, <2>3, NothingChanges DEF F!Lease
<1>2. CASE db.ready # <<>>
  <2>1. s = <<<<"LMOVE">>, Set("lease", j, x)>>
    BY <1>2 DEF luaLease
  <2>2. /\ Len(s) = 2 /\ t[0] = db
        /\ d1 = Exec(db, <<"LMOVE">>) /\ d2 = Exec(d1, Set("lease", j, x))
    BY <2>1, PrefixesTwo
  <2>3. db' = d2
    <3> HIDE DEF s
    <3>1. Len(s) \in Nat
      BY <2>2
    <3>2. db' = t[Len(s)]
      BY <1>0, <3>1, WholeScript
    <3> QED BY <2>2, <3>2
  <2>4. /\ j \in Job /\ ToSet(db.ready) = {j} \cup ToSet(Front(db.ready))
        /\ \A k \in ToSet(Front(db.ready)) : j.id < k.id
    BY <1>2, Popped DEF Sound, Shape, Order
  <2>5. DOMAIN db = Keys
    BY DEF Sound, Shape
  <2>6. /\ d1.ready = Front(db.ready) /\ d1.processing = <<j>> \o db.processing
        /\ DOMAIN d1 = Keys
        /\ \A k \in Keys \ {"ready", "processing"} : d1[k] = db[k]
    BY <2>2, <2>5, MoveEffect
  <2> HIDE DEF s, t, d1, d2, j, x
  <2>7. d2.lease = F!ZAdd(d1.lease, j, x) /\ Same(d1, d2, "lease")
    BY <2>2, <2>6, SetEffect DEF Keys
  <2>8. /\ d2.ready = Front(db.ready) /\ d2.processing = <<j>> \o db.processing
        /\ d2.lease = F!ZAdd(db.lease, j, x) /\ d2.seq = db.seq
        /\ d2.delayed = db.delayed /\ d2.dead = db.dead
        /\ d2.attempts = db.attempts /\ d2.strikes = db.strikes
        /\ d2.listingNext = db.listingNext /\ d2.barren = db.barren
        /\ d2.bloom = db.bloom
    BY <2>6, <2>7 DEF Same, Keys
  <2>9. j.id \in Nat /\ \A k \in ToSet(db.ready) : j.id <= k.id
    BY <2>4, JobsTyped DEF Job
  <2>10. j \in F!Oldest
    BY <2>4, <2>9 DEF F!Oldest
  <2>11. ToSet(d2.ready) = ToSet(db.ready) \ {j}
    BY <2>4, <2>8, <2>9
  <2>12. ToSet(d2.processing) = ToSet(db.processing) \cup {j}
    BY <2>4, <2>8, Pushed DEF Sound, Shape
  <2>13. issued' = issued \cup {j}
    <3>1. DOMAIN d2.lease = DOMAIN db.lease \cup {j}
      BY <2>8 DEF F!ZAdd
    <3>2. ToSet(db.ready) \cap DOMAIN db.lease = {}
      BY DEF Sound, Fence, Queued
    <3> QED BY <1>0, <2>3, <2>4, <3>1, <3>2
  <2> QED BY <1>0, <2>3, <2>8, <2>10, <2>11, <2>12, <2>13
          DEF F!Lease, F!urlVars, x
<1> QED BY <1>1, <1>2

\* A LEASE that is cut short.
LEMMA LeaseCutRefines ==
    ASSUME Sound(db, issued, acked), LeaseCut
    PROVE  F!LeaseAborted
<1> DEFINE t == After(db, luaLease)
           d1 == t[1]
           j == Last(db.ready)
           x == now + LeaseTimeout
<1>1. luaLease = <<<<"LMOVE">>, Set("lease", j, x)>>
  BY DEF luaLease, LeaseCut
<1>2. t[0] = db /\ d1 = Exec(db, <<"LMOVE">>)
  BY <1>1, PrefixesTwo
<1>3. db' = d1 /\ UNCHANGED <<now, issued, acked>> /\ db.ready # <<>>
  BY DEF LeaseCut
<1>4. /\ j \in Job /\ ToSet(db.ready) = {j} \cup ToSet(Front(db.ready))
      /\ \A k \in ToSet(Front(db.ready)) : j.id < k.id
  BY <1>3, Popped DEF Sound, Shape, Order
<1>5. DOMAIN db = Keys
  BY DEF Sound, Shape
<1>6. /\ d1.ready = Front(db.ready) /\ d1.processing = <<j>> \o db.processing
      /\ \A k \in Keys \ {"ready", "processing"} : d1[k] = db[k]
  BY <1>2, <1>5, MoveEffect
<1> HIDE DEF t, d1, j, x
<1>7. /\ d1.seq = db.seq /\ d1.lease = db.lease
      /\ d1.delayed = db.delayed /\ d1.dead = db.dead
      /\ d1.attempts = db.attempts /\ d1.strikes = db.strikes
      /\ d1.listingNext = db.listingNext /\ d1.barren = db.barren
      /\ d1.bloom = db.bloom
  BY <1>6 DEF Keys
<1>8. j.id \in Nat /\ \A k \in ToSet(db.ready) : j.id <= k.id
  BY <1>4, JobsTyped DEF Job
<1>9. j \in F!Oldest
  BY <1>4, <1>8 DEF F!Oldest
<1>10. ToSet(d1.ready) = ToSet(db.ready) \ {j}
  BY <1>4, <1>6, <1>8
<1>11. ToSet(d1.processing) = ToSet(db.processing) \cup {j}
  BY <1>4, <1>6, Pushed DEF Sound, Shape
<1> QED BY <1>3, <1>7, <1>9, <1>10, <1>11 DEF F!LeaseAborted, F!urlVars

\* What a resolution of a leased job leaves of the two lists: ready either as
\* it was or with one new job, processing without the old one.
LEMMA ListsAfter ==
    ASSUME Sound(db, issued, acked), NEW j, j \in DOMAIN db.lease
    PROVE  /\ ToSet(RemoveFirst(db.processing, j)) = ToSet(db.processing) \ {j}
           /\ ToSet(<<F!Mint(1, j.url)>> \o db.ready)
                 = ToSet(db.ready) \cup {F!Mint(1, j.url)}
<1>1. j.url \in Video \cup Listing
  BY Leased
<1>2. F!Mint(1, j.url) \in Job
  BY <1>1, JobsTyped DEF F!Mint, Job
<1> QED BY <1>2, Dropped, Pushed DEF Sound, Shape, Order

\* Ack.
LEMMA AckRefines ==
    ASSUME Sound(db, issued, acked), NEW j, Ack(j), aborts \in Nat, aborts' = 0
    PROVE  F!Ack(j)
<1> DEFINE s == luaAck(j)
           u == j.url
           t == After(db, s)
           d1 == t[1]
           d2 == t[2]
           d3 == t[3]
           d4 == t[4]
<1>0. /\ Run(<<s>>) /\ UNCHANGED <<now, issued>>
      /\ acked' = IF j \in ToSet(db.processing) \ ToSet(db'.processing)
                  THEN acked \cup {j.url} ELSE acked
  BY DEF Ack, Run
<1>1. CASE j \notin DOMAIN db.lease
  <2>1. s = <<>>
    BY <1>1 DEF luaAck, Fenced
  <2>2. db' = db
    BY <1>0, <2>1, NothingToDo
  <2>3. acked' = acked
    BY <1>0, <2>2
  <2> QED BY <1>0, <1>1, <2>2, <2>3, NothingChanges DEF F!Ack, F!Stale
<1>2. CASE j \in DOMAIN db.lease
  <2>1. s = <<Del("lease", j), Unprocess(j), Del("attempts", u), Del("strikes", u)>>
    BY <1>2 DEF luaAck, Fenced
  <2>2. /\ Len(s) = 4 /\ t[0] = db
        /\ d1 = Exec(db, Del("lease", j)) /\ d2 = Exec(d1, Unprocess(j))
        /\ d3 = Exec(d2, Del("attempts", u)) /\ d4 = Exec(d3, Del("strikes", u))
    BY <2>1, PrefixesFour
  <2>3. db' = d4
    <3> HIDE DEF s
    <3>1. Len(s) \in Nat
      BY <2>2
    <3>2. db' = t[Len(s)]
      BY <1>0, <3>1, WholeScript
    <3> QED BY <2>2, <3>2
  <2>4. DOMAIN db = Keys /\ j \in ToSet(db.processing) /\ u \in Video \cup Listing
    BY <1>2, Leased DEF Sound, Shape
  <2> HIDE DEF s, t, d1, d2, d3, d4
  <2>5. d1.lease = Without(db.lease, j) /\ Same(db, d1, "lease")
    BY <2>2, <2>4, DelEffect DEF Keys
  <2>6. d2.processing = RemoveFirst(d1.processing, j) /\ Same(d1, d2, "processing")
    BY <2>2, <2>5, DropEffect DEF Keys, Same, Unprocess
  <2>7. d3.attempts = Without(d2.attempts, u) /\ Same(d2, d3, "attempts")
    BY <2>2, <2>6, DelEffect DEF Keys, Same
  <2>8. d4.strikes = Without(d3.strikes, u) /\ Same(d3, d4, "strikes")
    BY <2>2, <2>7, DelEffect DEF Keys, Same
  <2>9. /\ d4.lease = Without(db.lease, j) /\ d4.processing = RemoveFirst(db.processing, j)
        /\ d4.attempts = Without(db.attempts, u) /\ d4.strikes = Without(db.strikes, u)
        /\ d4.seq = db.seq /\ d4.ready = db.ready /\ d4.delayed = db.delayed
        /\ d4.dead = db.dead /\ d4.listingNext = db.listingNext
        /\ d4.barren = db.barren /\ d4.bloom = db.bloom
    BY <2>5, <2>6, <2>7, <2>8 DEF Keys, Same
  <2>10. ToSet(d4.processing) = ToSet(db.processing) \ {j}
    BY <1>2, <2>9, ListsAfter
  <2>11. /\ Counters(d4.attempts) = [Counters(db.attempts) EXCEPT ![u] = 0]
         /\ Counters(d4.strikes) = [Counters(db.strikes) EXCEPT ![u] = 0]
    BY <2>4, <2>9, CountersEffect
  <2>12. acked' = acked \cup {u}
    BY <1>0, <2>3, <2>4, <2>10
  <2> QED BY <1>0, <1>2, <2>3, <2>9, <2>10, <2>11, <2>12
          DEF F!Ack, F!Release, F!ClearFailures, Without
<1> QED BY <1>1, <1>2

\* Nack.
LEMMA NackRefines ==
    ASSUME Sound(db, issued, acked), NEW j, Call(<<luaNack(j)>>),
           aborts \in Nat, aborts' = 0
    PROVE  F!Nack(j)
<1> DEFINE s == luaNack(j)
           u == j.url
           t == After(db, s)
           d1 == t[1]
           d2 == t[2]
           d3 == t[3]
           d4 == t[4]
<1>0. Run(<<s>>) /\ UNCHANGED <<now, issued, acked>> /\ db'.seq <= MaxJob
  BY DEF Call, Run
<1>1. CASE j \notin DOMAIN db.lease
  <2>1. s = <<>>
    BY <1>1 DEF luaNack, Fenced
  <2>2. db' = db
    BY <1>0, <2>1, NothingToDo
  <2> QED BY <1>0, <1>1, <2>2, NothingChanges DEF F!Nack, F!Stale
<1>2. CASE j \in DOMAIN db.lease
  <2>1. s = <<Del("lease", j), Incr, Push(u), Unprocess(j)>>
    BY <1>2 DEF luaNack, Fenced
  <2>2. /\ Len(s) = 4 /\ t[0] = db
        /\ d1 = Exec(db, Del("lease", j)) /\ d2 = Exec(d1, Incr)
        /\ d3 = Exec(d2, Push(u)) /\ d4 = Exec(d3, Unprocess(j))
    BY <2>1, PrefixesFour
  <2>3. db' = d4
    <3> HIDE DEF s
    <3>1. Len(s) \in Nat
      BY <2>2
    <3>2. db' = t[Len(s)]
      BY <1>0, <3>1, WholeScript
    <3> QED BY <2>2, <3>2
  <2>4. DOMAIN db = Keys /\ db.seq \in Nat /\ MaxJob \in Nat
    BY FrontierAssumption DEF Sound, Shape, F!ConfigAssumption
  <2> HIDE DEF s, t, d1, d2, d3, d4, u
  <2>5. d1.lease = Without(db.lease, j) /\ Same(db, d1, "lease")
    BY <2>2, <2>4, DelEffect DEF Keys
  <2>6. d2.seq = d1.seq + 1 /\ Same(d1, d2, "seq")
    BY <2>2, <2>5, IncrEffect DEF Same
  <2>7. d3.ready = <<Item(d2, u)>> \o d2.ready /\ Same(d2, d3, "ready")
    BY <2>2, <2>6, PushEffect DEF Same
  <2>8. d4.processing = RemoveFirst(d3.processing, j) /\ Same(d3, d4, "processing")
    BY <2>2, <2>7, DropEffect DEF Keys, Same, Unprocess
  <2>9. /\ d4.lease = Without(db.lease, j) /\ d4.processing = RemoveFirst(db.processing, j)
        /\ d4.seq = db.seq + 1 /\ d4.ready = <<Item(d2, u)>> \o db.ready
        /\ d2.seq = db.seq + 1
        /\ d4.attempts = db.attempts /\ d4.strikes = db.strikes
        /\ d4.delayed = db.delayed
        /\ d4.dead = db.dead /\ d4.listingNext = db.listingNext
        /\ d4.barren = db.barren /\ d4.bloom = db.bloom
    BY <2>5, <2>6, <2>7, <2>8 DEF Keys, Same
  <2>10. Item(d2, u) = F!Mint(1, u)
    BY <2>9, Minted
  <2>11. /\ ToSet(d4.processing) = ToSet(db.processing) \ {j}
         /\ ToSet(d4.ready) = ToSet(db.ready) \cup {F!Mint(1, u)}
    BY <1>2, <2>9, <2>10, ListsAfter DEF u
  <2>12. db.seq < MaxJob
    BY <1>0, <2>3, <2>4, <2>9
  <2> QED BY <1>0, <1>2, <2>3, <2>9, <2>11, <2>12
          DEF F!Nack, F!Release, F!urlVars, Without, u
<1> QED BY <1>1, <1>2

\* What the terminal transition of TERMINAL and FAIL leaves.
LEMMA BuriedEffect ==
    ASSUME NEW d, DOMAIN d = Keys, NEW j, NEW u, NEW until,
           until = F!QuarantineUntil(u),
           NEW next, next = IF until > 0 THEN F!ZAdd(d.listingNext, u, until)
                            ELSE d.listingNext,
           NEW e1, e1 = Exec(d, Quarantine(u)),
           NEW e2, e2 = Exec(e1, Set("dead", u, until)),
           NEW e3, e3 = Exec(e2, Unprocess(j)),
           NEW e4, e4 = Exec(e3, Del("attempts", u)),
           NEW e5, e5 = Exec(e4, Del("strikes", u))
    PROVE  /\ e5.listingNext = next /\ e5.dead = F!ZAdd(d.dead, u, until)
           /\ e5.processing = RemoveFirst(d.processing, j)
           /\ e5.attempts = Without(d.attempts, u)
           /\ e5.strikes = Without(d.strikes, u)
           /\ e5.seq = d.seq /\ e5.ready = d.ready /\ e5.lease = d.lease
           /\ e5.delayed = d.delayed /\ e5.barren = d.barren /\ e5.bloom = d.bloom
<1>1. e1.listingNext = next /\ Same(d, e1, "listingNext")
  <2>1. CASE until > 0
    <3>1. e1 = Exec(d, Set("listingNext", u, until)) /\ next = F!ZAdd(d.listingNext, u, until)
      BY <2>1 DEF Quarantine, When
    <3> QED BY <3>1, SetEffect DEF Keys
  <2>2. CASE ~(until > 0)
    <3>1. e1 = d /\ next = d.listingNext
      BY <2>2, NoneExec DEF Quarantine, When
    <3> QED BY <3>1 DEF Same
  <2> QED BY <2>1, <2>2
<1>2. e2.dead = F!ZAdd(e1.dead, u, until) /\ Same(e1, e2, "dead")
  BY <1>1, SetEffect DEF Keys, Same
<1>3. e3.processing = RemoveFirst(e2.processing, j) /\ Same(e2, e3, "processing")
  BY <1>2, DropEffect DEF Keys, Same, Unprocess
<1>4. e4.attempts = Without(e3.attempts, u) /\ Same(e3, e4, "attempts")
  BY <1>3, DelEffect DEF Keys, Same
<1>5. e5.strikes = Without(e4.strikes, u) /\ Same(e4, e5, "strikes")
  BY <1>4, DelEffect DEF Keys, Same
<1> QED BY <1>1, <1>2, <1>3, <1>4, <1>5 DEF Keys, Same

\* Terminal.
LEMMA TerminalRefines ==
    ASSUME Sound(db, issued, acked), NEW j, Call(<<luaTerminal(j)>>),
           aborts \in Nat, aborts' = 0
    PROVE  F!Terminal(j)
<1> DEFINE s == luaTerminal(j)
           u == j.url
           until == F!QuarantineUntil(u)
           next == IF until > 0 THEN F!ZAdd(db.listingNext, u, until) ELSE db.listingNext
           t == After(db, s)
           d1 == t[1]
           d2 == t[2]
           d3 == t[3]
           d4 == t[4]
           d5 == t[5]
           d6 == t[6]
<1>0. Run(<<s>>) /\ UNCHANGED <<now, issued, acked>>
  BY DEF Call, Run
<1>1. CASE j \notin DOMAIN db.lease
  <2>1. s = <<>>
    BY <1>1 DEF luaTerminal, Fenced
  <2>2. db' = db
    BY <1>0, <2>1, NothingToDo
  <2> QED BY <1>0, <1>1, <2>2, NothingChanges DEF F!Terminal, F!Stale
<1>2. CASE j \in DOMAIN db.lease
  <2>1. s = <<Del("lease", j), Quarantine(u), Set("dead", u, until),
              Unprocess(j), Del("attempts", u), Del("strikes", u)>>
    BY <1>2 DEF luaTerminal, Fenced
  <2>2. /\ Len(s) = 6 /\ t[0] = db
        /\ d1 = Exec(db, Del("lease", j)) /\ d2 = Exec(d1, Quarantine(u))
        /\ d3 = Exec(d2, Set("dead", u, until))
        /\ d4 = Exec(d3, Unprocess(j)) /\ d5 = Exec(d4, Del("attempts", u))
        /\ d6 = Exec(d5, Del("strikes", u))
    <3> HIDE DEF until
    <3> QED BY <2>1, PrefixesSix
  <2>3. db' = d6
    <3> HIDE DEF s
    <3>1. Len(s) \in Nat
      BY <2>2
    <3>2. db' = t[Len(s)]
      BY <1>0, <3>1, WholeScript
    <3> QED BY <2>2, <3>2
  <2>4. DOMAIN db = Keys /\ u \in Video \cup Listing
    BY <1>2, Leased DEF Sound, Shape
  <2> HIDE DEF s, t, d1, d2, d3, d4, d5, d6
  <2>5. d1.lease = Without(db.lease, j) /\ Same(db, d1, "lease")
    BY <2>2, <2>4, DelEffect DEF Keys
  <2>6. /\ d1.listingNext = db.listingNext /\ d1.dead = db.dead
        /\ d1.processing = db.processing /\ d1.attempts = db.attempts
        /\ d1.strikes = db.strikes /\ d1.seq = db.seq /\ d1.ready = db.ready
        /\ d1.delayed = db.delayed /\ d1.barren = db.barren /\ d1.bloom = db.bloom
        /\ DOMAIN d1 = Keys
    BY <2>5 DEF Same, Keys
  <2>a. /\ until = F!QuarantineUntil(u)
        /\ next = IF until > 0 THEN F!ZAdd(d1.listingNext, u, until) ELSE d1.listingNext
    BY <2>6
  <2> HIDE DEF u, until, next
  <2>7. /\ d6.listingNext = next /\ d6.dead = F!ZAdd(d1.dead, u, until)
        /\ d6.processing = RemoveFirst(d1.processing, j)
        /\ d6.attempts = Without(d1.attempts, u)
        /\ d6.strikes = Without(d1.strikes, u)
        /\ d6.seq = d1.seq /\ d6.ready = d1.ready /\ d6.lease = d1.lease
        /\ d6.delayed = d1.delayed /\ d6.barren = d1.barren /\ d6.bloom = d1.bloom
    BY <2>2, <2>6, <2>a, BuriedEffect
  <2>8. ToSet(d6.processing) = ToSet(db.processing) \ {j}
    BY <1>2, <2>6, <2>7, ListsAfter
  <2>9. /\ Counters(d6.attempts) = [Counters(db.attempts) EXCEPT ![u] = 0]
        /\ Counters(d6.strikes) = [Counters(db.strikes) EXCEPT ![u] = 0]
    BY <2>4, <2>6, <2>7, CountersEffect
  <2>10. F!Bury(u, until)
    BY <2>3, <2>6, <2>7, <2>9 DEF F!Bury, F!ClearFailures, next
  <2>11. F!Release(j)
    BY <1>2, <2>3, <2>5, <2>7, <2>8 DEF F!Release, Without
  <2> QED BY <1>0, <2>3, <2>6, <2>7, <2>10, <2>11 DEF F!Terminal, u, until
<1> QED BY <1>1, <1>2

\* CompleteListing.
LEMMA CompleteListingRefines ==
    ASSUME Sound(db, issued, acked), NEW j, NEW found, Call(<<luaCompleteListing(j, found)>>),
           aborts \in Nat, aborts' = 0
    PROVE  F!CompleteListing(j, found)
<1> DEFINE s == luaCompleteListing(j, found)
           l == j.url
           b == F!BarrenAfter(l, found)
           x == now + F!ListingTTL(F!BaseTTL(l), b)
           t == After(db, s)
           d1 == t[1]
           d2 == t[2]
           d3 == t[3]
           d4 == t[4]
           d5 == t[5]
           d6 == t[6]
           d7 == t[7]
<1>0. Run(<<s>>) /\ UNCHANGED <<now, issued, acked>>
  BY DEF Call, Run
<1>1. CASE j \notin DOMAIN db.lease
  <2>1. s = <<>>
    BY <1>1 DEF luaCompleteListing, Fenced
  <2>2. db' = db
    BY <1>0, <2>1, NothingToDo
  <2> QED BY <1>0, <1>1, <2>2, NothingChanges DEF F!CompleteListing, F!Stale
<1>2. CASE j \in DOMAIN db.lease
  <2>1. s = <<Del("lease", j), Set("barren", l, b), Set("listingNext", l, x),
              Del("dead", l), Unprocess(j), Del("attempts", l), Del("strikes", l)>>
    BY <1>2 DEF luaCompleteListing, Fenced
  <2>2. /\ Len(s) = 7 /\ t[0] = db
        /\ d1 = Exec(db, Del("lease", j)) /\ d2 = Exec(d1, Set("barren", l, b))
        /\ d3 = Exec(d2, Set("listingNext", l, x)) /\ d4 = Exec(d3, Del("dead", l))
        /\ d5 = Exec(d4, Unprocess(j)) /\ d6 = Exec(d5, Del("attempts", l))
        /\ d7 = Exec(d6, Del("strikes", l))
    <3> HIDE DEF b, x
    <3> QED BY <2>1, PrefixesSeven
  <2>3. db' = d7
    <3> HIDE DEF s
    <3>1. Len(s) \in Nat
      BY <2>2
    <3>2. db' = t[Len(s)]
      BY <1>0, <3>1, WholeScript
    <3> QED BY <2>2, <3>2
  <2>4. DOMAIN db = Keys /\ l \in Video \cup Listing
    BY <1>2, Leased DEF Sound, Shape
  <2> HIDE DEF s, t, d1, d2, d3, d4, d5, d6, d7, l, b, x
  <2>5. d1.lease = Without(db.lease, j) /\ Same(db, d1, "lease")
    BY <2>2, <2>4, DelEffect DEF Keys
  <2>6. d2.barren = F!ZAdd(d1.barren, l, b) /\ Same(d1, d2, "barren")
    BY <2>2, <2>5, SetEffect DEF Keys, Same
  <2>7. d3.listingNext = F!ZAdd(d2.listingNext, l, x) /\ Same(d2, d3, "listingNext")
    BY <2>2, <2>6, SetEffect DEF Keys, Same
  <2>8. d4.dead = Without(d3.dead, l) /\ Same(d3, d4, "dead")
    <3>1. d4 = Exec(d3, Del("dead", l)) /\ DOMAIN d3 = Keys
      BY <2>2, <2>7 DEF Same
    <3> QED BY <3>1, DelEffect DEF Keys
  <2>9. d5.processing = RemoveFirst(d4.processing, j) /\ Same(d4, d5, "processing")
    BY <2>2, <2>8, DropEffect DEF Keys, Same, Unprocess
  <2>10. d6.attempts = Without(d5.attempts, l) /\ Same(d5, d6, "attempts")
    <3>1. d6 = Exec(d5, Del("attempts", l)) /\ DOMAIN d5 = Keys
      BY <2>2, <2>9 DEF Same
    <3> QED BY <3>1, DelEffect DEF Keys
  <2>11. d7.strikes = Without(d6.strikes, l) /\ Same(d6, d7, "strikes")
    <3>1. d7 = Exec(d6, Del("strikes", l)) /\ DOMAIN d6 = Keys
      BY <2>2, <2>10 DEF Same
    <3> QED BY <3>1, DelEffect DEF Keys
  <2>12. /\ d5.lease = Without(db.lease, j) /\ d5.barren = F!ZAdd(db.barren, l, b)
         /\ d5.listingNext = F!ZAdd(db.listingNext, l, x)
         /\ d5.dead = Without(db.dead, l)
         /\ d5.processing = RemoveFirst(db.processing, j)
         /\ d5.attempts = db.attempts /\ d5.strikes = db.strikes
         /\ d5.seq = db.seq /\ d5.ready = db.ready /\ d5.delayed = db.delayed
         /\ d5.bloom = db.bloom
    BY <2>5, <2>6, <2>7, <2>8, <2>9 DEF Keys, Same
  <2>13. /\ d7.lease = Without(db.lease, j) /\ d7.barren = F!ZAdd(db.barren, l, b)
         /\ d7.listingNext = F!ZAdd(db.listingNext, l, x)
         /\ d7.dead = Without(db.dead, l)
         /\ d7.processing = RemoveFirst(db.processing, j)
         /\ d7.attempts = Without(db.attempts, l) /\ d7.strikes = Without(db.strikes, l)
         /\ d7.seq = db.seq /\ d7.ready = db.ready /\ d7.delayed = db.delayed
         /\ d7.bloom = db.bloom
    BY <2>10, <2>11, <2>12 DEF Keys, Same
  <2>14. ToSet(d7.processing) = ToSet(db.processing) \ {j}
    BY <1>2, <2>13, ListsAfter
  <2>15. /\ Counters(d7.attempts) = [Counters(db.attempts) EXCEPT ![l] = 0]
         /\ Counters(d7.strikes) = [Counters(db.strikes) EXCEPT ![l] = 0]
    BY <2>4, <2>13, CountersEffect
  <2>16. F!Release(j) /\ F!ClearFailures(l) /\ F!Revive({l})
    BY <1>2, <2>3, <2>13, <2>14, <2>15 DEF F!Release, F!ClearFailures, F!Revive, Without
  <2> QED BY <1>0, <2>3, <2>13, <2>16 DEF F!CompleteListing, l, b, x
<1> QED BY <1>1, <1>2

\* Fail.
LEMMA FailRefines ==
    ASSUME Sound(db, issued, acked), NEW j, NEW class, Call(<<luaFail(j, class)>>),
           aborts \in Nat, aborts' = 0
    PROVE  F!Fail(j, class)
<1> DEFINE s == luaFail(j, class)
           u == j.url
           strikeable == class = "strikeable"
           strike == When(strikeable, Bump("strikes", u))
           a == Counters(db.attempts)[u] + 1
           b == Counters(db.strikes)[u] + 1
           dies == strikeable /\ b >= MaxStrikes
           at == now + F!Rung(F!Ladder(class), a)
           until == F!QuarantineUntil(u)
           next == IF until > 0 THEN F!ZAdd(db.listingNext, u, until) ELSE db.listingNext
           struck == IF strikeable THEN F!ZAdd(db.strikes, u, b) ELSE db.strikes
           t == After(db, s)
           d1 == t[1]
           d2 == t[2]
           d3 == t[3]
           d4 == t[4]
           d5 == t[5]
           d6 == t[6]
           d7 == t[7]
           d8 == t[8]
<1>0. Run(<<s>>) /\ UNCHANGED <<now, issued, acked>> /\ db'.seq <= MaxJob
  BY DEF Call, Run
<1>1. CASE j \notin DOMAIN db.lease
  <2>1. s = <<>>
    BY <1>1 DEF luaFail, Fenced
  <2>2. db' = db
    BY <1>0, <2>1, NothingToDo
  <2> QED BY <1>0, <1>1, <2>2, NothingChanges DEF F!Fail, F!Stale
<1> SUFFICES ASSUME j \in DOMAIN db.lease PROVE F!Fail(j, class)
  BY <1>1
<1>2. s = IF dies
          THEN <<Del("lease", j), Bump("attempts", u), strike, Quarantine(u),
                 Set("dead", u, until), Unprocess(j),
                 Del("attempts", u), Del("strikes", u)>>
          ELSE <<Del("lease", j), Bump("attempts", u), strike, Incr,
                 <<"DELAY", u, at>>, Unprocess(j)>>
  BY DEF luaFail, Fenced
<1>3. DOMAIN db = Keys /\ u \in Video \cup Listing /\ db.seq \in Nat /\ MaxJob \in Nat
  BY Leased, FrontierAssumption DEF Sound, Shape, F!ConfigAssumption
<1>4. ASSUME d1 = Exec(db, Del("lease", j)), d2 = Exec(d1, Bump("attempts", u)),
             d3 = Exec(d2, strike)
      PROVE  /\ d3.lease = Without(db.lease, j) /\ d3.attempts = F!ZAdd(db.attempts, u, a)
             /\ d3.strikes = struck /\ DOMAIN d3 = Keys
             /\ d3.listingNext = db.listingNext /\ d3.dead = db.dead
             /\ d3.processing = db.processing /\ d3.seq = db.seq
             /\ d3.ready = db.ready /\ d3.delayed = db.delayed
             /\ d3.barren = db.barren /\ d3.bloom = db.bloom
  <2>1. /\ d2 = Exec(d1, Set("attempts", u, a))
        /\ \/ strikeable /\ d3 = Exec(d2, Set("strikes", u, b))
           \/ ~strikeable /\ d3 = d2
    <3>1. d2 = Exec(d1, Set("attempts", u, a)) /\ Bump("strikes", u) = Set("strikes", u, b)
      BY <1>4 DEF Bump
    <3>2. CASE strikeable
      <4>1. strike = Set("strikes", u, b)
        BY <3>1, <3>2 DEF When
      <4>2. d3 = Exec(d2, Set("strikes", u, b))
        <5> HIDE DEF d2, d3, strike, u, b
        <5> QED BY <1>4, <4>1
      <4> HIDE DEF d2, d3, d1, a, b, u, strikeable
      <4> QED BY <3>1, <3>2, <4>2
    <3>3. CASE ~strikeable
      <4>1. strike = <<"NONE">>
        BY <3>3 DEF When
      <4>2. d3 = Exec(d2, <<"NONE">>)
        <5> HIDE DEF d2, d3, strike
        <5> QED BY <1>4, <4>1
      <4> HIDE DEF d2, d3, d1, a, b, u
      <4> QED BY <3>1, <3>3, <4>2, NoneExec
    <3> QED BY <3>2, <3>3
  <2> HIDE DEF s, t, d1, d2, d3, u, a, b, strikeable
  <2>2. d1.lease = Without(db.lease, j) /\ Same(db, d1, "lease")
    BY <1>3, <1>4, DelEffect DEF Keys
  <2>3. d2.attempts = F!ZAdd(d1.attempts, u, a) /\ Same(d1, d2, "attempts")
    BY <2>1, <2>2, SetEffect DEF Keys, Same
  <2>4. /\ d2.lease = Without(db.lease, j) /\ d2.attempts = F!ZAdd(db.attempts, u, a)
        /\ d2.strikes = db.strikes /\ DOMAIN d2 = Keys
        /\ d2.listingNext = db.listingNext /\ d2.dead = db.dead
        /\ d2.processing = db.processing /\ d2.seq = db.seq
        /\ d2.ready = db.ready /\ d2.delayed = db.delayed
        /\ d2.barren = db.barren /\ d2.bloom = db.bloom
    BY <2>2, <2>3 DEF Same, Keys
  <2>5. CASE strikeable
    <3>1. d3.strikes = F!ZAdd(d2.strikes, u, b) /\ Same(d2, d3, "strikes")
      BY <2>1, <2>4, <2>5, SetEffect DEF Keys
    <3> QED BY <2>4, <2>5, <3>1 DEF Same, Keys
  <2>6. CASE ~strikeable
    BY <2>1, <2>4, <2>6
  <2> QED BY <2>5, <2>6
<1>5. CASE dies
  <2>1. /\ Len(s) = 8 /\ t[0] = db
        /\ d1 = Exec(db, Del("lease", j)) /\ d2 = Exec(d1, Bump("attempts", u))
        /\ d3 = Exec(d2, strike) /\ d4 = Exec(d3, Quarantine(u))
        /\ d5 = Exec(d4, Set("dead", u, until))
        /\ d6 = Exec(d5, Unprocess(j)) /\ d7 = Exec(d6, Del("attempts", u))
        /\ d8 = Exec(d7, Del("strikes", u))
    <3> HIDE DEF strike, dies, until
    <3> QED BY <1>2, <1>5, PrefixesEight
  <2>2. db' = d8
    <3> HIDE DEF s
    <3>1. Len(s) \in Nat
      BY <2>1
    <3>2. db' = t[Len(s)]
      BY <1>0, <3>1, WholeScript
    <3> QED BY <2>1, <3>2
  <2> HIDE DEF s, t, d1, d2, d3, d4, d5, d6, d7, d8, strike, at, a, b, struck
  <2>3. /\ d3.lease = Without(db.lease, j) /\ d3.attempts = F!ZAdd(db.attempts, u, a)
        /\ d3.strikes = struck /\ DOMAIN d3 = Keys
        /\ d3.listingNext = db.listingNext /\ d3.dead = db.dead
        /\ d3.processing = db.processing /\ d3.seq = db.seq
        /\ d3.ready = db.ready /\ d3.delayed = db.delayed
        /\ d3.barren = db.barren /\ d3.bloom = db.bloom
    BY <1>4, <2>1
  <2>4. struck = F!ZAdd(db.strikes, u, b)
    BY <1>5 DEF struck
  <2>5. /\ until = F!QuarantineUntil(u)
        /\ next = IF until > 0 THEN F!ZAdd(d3.listingNext, u, until) ELSE d3.listingNext
    BY <2>3
  <2> HIDE DEF u, until, next
  <2>6. /\ d8.listingNext = next /\ d8.dead = F!ZAdd(d3.dead, u, until)
        /\ d8.processing = RemoveFirst(d3.processing, j)
        /\ d8.attempts = Without(d3.attempts, u)
        /\ d8.strikes = Without(d3.strikes, u)
        /\ d8.seq = d3.seq /\ d8.ready = d3.ready /\ d8.lease = d3.lease
        /\ d8.delayed = d3.delayed /\ d8.barren = d3.barren /\ d8.bloom = d3.bloom
    BY <2>1, <2>3, <2>5, BuriedEffect
  <2>7. ToSet(d8.processing) = ToSet(db.processing) \ {j}
    BY <2>3, <2>6, ListsAfter
  <2>8. /\ Counters(d8.attempts) = [Counters(db.attempts) EXCEPT ![u] = 0]
        /\ Counters(d8.strikes) = [Counters(db.strikes) EXCEPT ![u] = 0]
    <3>1. /\ Counters(d8.attempts) = [Counters(d3.attempts) EXCEPT ![u] = 0]
          /\ Counters(d8.strikes) = [Counters(d3.strikes) EXCEPT ![u] = 0]
      BY <1>3, <2>6, CountersEffect
    <3>2. /\ Counters(d3.attempts) = [Counters(db.attempts) EXCEPT ![u] = a]
          /\ Counters(d3.strikes) = [Counters(db.strikes) EXCEPT ![u] = b]
      BY <1>3, <2>3, <2>4, CountersEffect
    <3>3. ASSUME NEW f, NEW x, NEW y PROVE [[f EXCEPT ![u] = x] EXCEPT ![u] = y] = [f EXCEPT ![u] = y]
      OBVIOUS
    <3> QED BY <3>1, <3>2, <3>3
  <2>9. F!Bury(u, until)
    BY <2>2, <2>3, <2>6, <2>8 DEF F!Bury, F!ClearFailures, next
  <2>10. F!Release(j)
    BY <2>2, <2>3, <2>6, <2>7 DEF F!Release, Without
  <2>11. /\ UNCHANGED <<db.seq, db.delayed>>
         /\ UNCHANGED <<ToSet(db.ready), db.barren, db.bloom, now, issued, acked>>
    BY <1>0, <2>2, <2>3, <2>6
  <2> QED BY <1>5, <2>9, <2>10, <2>11 DEF F!Fail, u, until, b
<1>6. CASE ~dies
  <2>1. /\ Len(s) = 6 /\ t[0] = db
        /\ d1 = Exec(db, Del("lease", j)) /\ d2 = Exec(d1, Bump("attempts", u))
        /\ d3 = Exec(d2, strike) /\ d4 = Exec(d3, Incr)
        /\ d5 = Exec(d4, <<"DELAY", u, at>>) /\ d6 = Exec(d5, Unprocess(j))
    <3> HIDE DEF strike, dies, at
    <3> QED BY <1>2, <1>6, PrefixesSix
  <2>2. db' = d6
    <3> HIDE DEF s
    <3>1. Len(s) \in Nat
      BY <2>1
    <3>2. db' = t[Len(s)]
      BY <1>0, <3>1, WholeScript
    <3> QED BY <2>1, <3>2
  <2> HIDE DEF s, t, d1, d2, d3, d4, d5, d6, strike, at, a, b, struck
  <2>3. /\ d3.lease = Without(db.lease, j) /\ d3.attempts = F!ZAdd(db.attempts, u, a)
        /\ d3.strikes = struck /\ DOMAIN d3 = Keys
        /\ d3.listingNext = db.listingNext /\ d3.dead = db.dead
        /\ d3.processing = db.processing /\ d3.seq = db.seq
        /\ d3.ready = db.ready /\ d3.delayed = db.delayed
        /\ d3.barren = db.barren /\ d3.bloom = db.bloom
    BY <1>4, <2>1
  <2>4. d4.seq = d3.seq + 1 /\ Same(d3, d4, "seq")
    BY <2>1, <2>3, IncrEffect
  <2>5. d5.delayed = F!ZAdd(d4.delayed, Item(d4, u), at) /\ Same(d4, d5, "delayed")
    BY <2>1, <2>4, DelayEffect DEF Same
  <2>6. d6.processing = RemoveFirst(d5.processing, j) /\ Same(d5, d6, "processing")
    BY <2>1, <2>5, DropEffect DEF Same, Keys, Unprocess
  <2>7. /\ d6.lease = Without(db.lease, j) /\ d6.attempts = F!ZAdd(db.attempts, u, a)
        /\ d6.strikes = struck /\ d6.listingNext = db.listingNext /\ d6.dead = db.dead
        /\ d6.processing = RemoveFirst(db.processing, j)
        /\ d4.seq = db.seq + 1 /\ d6.seq = db.seq + 1
        /\ d6.delayed = F!ZAdd(db.delayed, Item(d4, u), at)
        /\ d6.ready = db.ready /\ d6.barren = db.barren /\ d6.bloom = db.bloom
    BY <2>3, <2>4, <2>5, <2>6 DEF Same, Keys
  <2>8. Item(d4, u) = F!Mint(1, u)
    BY <2>7, Minted
  <2>9. ToSet(d6.processing) = ToSet(db.processing) \ {j}
    BY <2>7, ListsAfter
  <2>10. Counters(d6.attempts) = [Counters(db.attempts) EXCEPT ![u] = a]
    BY <1>3, <2>7, CountersEffect
  <2> DEFINE c == IF strikeable THEN b ELSE Counters(db.strikes)[u]
  <2>11. Counters(d6.strikes) = [Counters(db.strikes) EXCEPT ![u] = c]
    <3>1. CASE strikeable
      BY <1>3, <2>7, <3>1, CountersEffect DEF struck
    <3>2. CASE ~strikeable
      <4>1. Counters(d6.strikes) = Counters(db.strikes)
        BY <2>7, <3>2 DEF struck
      <4>2. c = Counters(db.strikes)[u]
        BY <3>2
      <4>3. [Counters(db.strikes) EXCEPT ![u] = Counters(db.strikes)[u]] = Counters(db.strikes)
        BY DEF Counters
      <4> QED BY <4>1, <4>2, <4>3
    <3> QED BY <3>1, <3>2
  <2>12. F!Release(j)
    BY <2>2, <2>7, <2>9 DEF F!Release, Without
  <2>13. db.seq < MaxJob
    BY <1>0, <1>3, <2>2, <2>7
  <2>14. ~(strikeable /\ c >= MaxStrikes)
    BY <1>6
  <2>15. /\ db'.seq = db.seq + 1 /\ db'.delayed = F!ZAdd(db.delayed, F!Mint(1, u), at)
         /\ Counters(db'.attempts) = [Counters(db.attempts) EXCEPT ![u] = a]
         /\ Counters(db'.strikes) = [Counters(db.strikes) EXCEPT ![u] = c]
         /\ UNCHANGED <<db.listingNext, db.dead>>
         /\ UNCHANGED <<ToSet(db.ready), db.barren, db.bloom, now, issued, acked>>
    BY <1>0, <2>2, <2>7, <2>8, <2>10, <2>11
  <2> QED BY <2>12, <2>13, <2>14, <2>15 DEF F!Fail, a, b, at
<1> QED BY <1>5, <1>6

-----------------------------------------------------------------------------
(* Calls that work off a batch.  What a loop leaves of one key is worked   *)
(* out from the function f of that key after each number of turns.         *)

\* A call that works off a batch to its end: every turn starts from sound keys.
LEMMA WholeLoop ==
    ASSUME NEW loop, Len(loop) \in Nat, DOMAIN loop = 1..Len(loop), Run(loop),
           Sound(db, issued, acked), aborts \in Nat, aborts' = 0,
           \A d : \A m \in 1..Len(loop) : Carried(d) => Carries(d, loop[m])
    PROVE  /\ db' = Turns(loop)[Len(loop)] /\ Turns(loop)[0] = db
           /\ \A m \in 1..Len(loop) :
                 /\ Sound(Turns(loop)[m - 1], issued, acked)
                 /\ Turns(loop)[m] = After(Turns(loop)[m - 1], loop[m])[Len(loop[m])]
<1>1. Whole(loop)
  BY DEF Run, Aborted
<1>2. /\ Turns(loop)[0] = db
      /\ \A m \in 1..Len(loop) :
            Turns(loop)[m] = After(Turns(loop)[m - 1], loop[m])[Len(loop[m])]
  BY TurnsUnfold
<1>3. \A m \in 0..Len(loop) : Carried(Turns(loop)[m])
  BY LoopCarries
<1>4. ASSUME NEW m \in 1..Len(loop) PROVE Sound(Turns(loop)[m - 1], issued, acked)
  <2>1. m - 1 \in 0..Len(loop)
    OBVIOUS
  <2> QED BY <1>3, <2>1 DEF Carried
<1> QED BY <1>1, <1>2, <1>4 DEF Whole

\* A key that no turn changes.
LEMMA LoopLeaves ==
    ASSUME NEW n \in Nat, NEW f, \A m \in 1..n : f[m] = f[m - 1]
    PROVE  f[n] = f[0]
<1> DEFINE S == {m \in 0..n : f[m] = f[0]}
<1>1. 0 \in S
  OBVIOUS
<1>2. \A m \in 0..(n - 1) : m \in S => m + 1 \in S
  <2> SUFFICES ASSUME NEW m \in 0..(n - 1), m \in S PROVE m + 1 \in S
    OBVIOUS
  <2>1. m + 1 \in 1..n /\ m + 1 - 1 = m
    OBVIOUS
  <2> QED BY <2>1
<1>3. \A m \in 0..n : m \in S
  <2> HIDE DEF S
  <2> QED BY <1>1, <1>2, CountUp
<1> QED BY <1>3

\* The members of a batch up to the m-th turn.
Past(b, m) == {b[i] : i \in 1..m}

\* One turn more, one member more.
LEMMA PastGrows ==
    ASSUME NEW b, NEW m \in Nat
    PROVE  Past(b, m + 1) = Past(b, m) \cup {b[m + 1]} /\ Past(b, 0) = {}
<1>1. \A i : i \in 1..m + 1 <=> i \in 1..m \/ i = m + 1
  OBVIOUS
<1>2. 1..0 = {}
  OBVIOUS
<1> QED BY <1>1, <1>2 DEF Past

\* A list that loses the members in G of the batch.
Drops(n, f, b, G) == \A m \in 1..n : f[m] = f[m - 1] \ ({b[m]} \cap G)

\* What is left of it.
LEMMA LoopDrops ==
    ASSUME NEW n \in Nat, NEW f, NEW b, NEW G, Drops(n, f, b, G),
           NEW R, R = Past(b, n) \cap G
    PROVE  f[n] = f[0] \ R
<1> DEFINE S == {m \in 0..n : f[m] = f[0] \ (Past(b, m) \cap G)}
<1>1. 0 \in S
  <2>1. 0 \in Nat
    OBVIOUS
  <2>2. Past(b, 0) = {}
    BY <2>1, PastGrows
  <2> QED BY <2>2
<1>2. \A m \in 0..(n - 1) : m \in S => m + 1 \in S
  <2> SUFFICES ASSUME NEW m \in 0..(n - 1), f[m] = f[0] \ (Past(b, m) \cap G)
               PROVE  f[m + 1] = f[0] \ (Past(b, m + 1) \cap G) /\ m + 1 \in 0..n
    OBVIOUS
  <2>1. m + 1 \in 1..n /\ m + 1 - 1 = m /\ m \in Nat
    OBVIOUS
  <2>2. f[m + 1] = f[m] \ ({b[m + 1]} \cap G)
    BY <2>1 DEF Drops
  <2>3. Past(b, m + 1) = Past(b, m) \cup {b[m + 1]}
    BY <2>1, PastGrows
  <2> QED BY <2>1, <2>2, <2>3
<1>3. \A m \in 0..n : m \in S
  <2> HIDE DEF S
  <2> QED BY <1>1, <1>2, CountUp
<1> QED BY <1>3

\* ZREM and HDEL of some members.
LEMMA RemovedAll ==
    ASSUME NEW z, NEW M
    PROVE  F!Remove(z, M) = [k \in DOMAIN z \ M |-> z[k]]
BY DEF F!Remove, F!Restrict, Restrict

\* Some members, then others.
LEMMA RemovedTwice ==
    ASSUME NEW z, NEW M, NEW N
    PROVE  F!Remove(F!Remove(z, M), N) = F!Remove(z, M \cup N)
<1> DEFINE y == F!Remove(z, M)
           K == M \cup N
<1>1. y = [k \in DOMAIN z \ M |-> z[k]]
  BY RemovedAll
<1>2. F!Remove(y, N) = [k \in DOMAIN y \ N |-> y[k]]
  BY RemovedAll
<1>3. F!Remove(z, K) = [k \in DOMAIN z \ K |-> z[k]]
  BY RemovedAll
<1> HIDE DEF y
<1>4. DOMAIN y \ N = DOMAIN z \ K
  BY <1>1
<1> HIDE DEF K
<1>5. F!Remove(y, N) = [k \in DOMAIN z \ K |-> y[k]]
  BY <1>2, <1>4
<1>6. \A k \in DOMAIN z \ K : y[k] = z[k]
  BY <1>1 DEF K
<1>7. F!Remove(y, N) = F!Remove(z, K)
  BY <1>3, <1>5, <1>6
<1> QED BY <1>7 DEF y, K

\* A sorted set or hash that loses the members in G of the batch.
Removes(n, f, b, G) == \A m \in 1..n : f[m] = F!Remove(f[m - 1], {b[m]} \cap G)

\* What is left of it.
LEMMA LoopRemoves ==
    ASSUME NEW n \in Nat, NEW f, NEW b, NEW G, Hash(f[0]), Removes(n, f, b, G),
           NEW R, R = Past(b, n) \cap G
    PROVE  f[n] = F!Remove(f[0], R)
<1> DEFINE S == {m \in 0..n : f[m] = F!Remove(f[0], Past(b, m) \cap G)}
<1>0. \A m \in 1..n : f[m] = F!Remove(f[m - 1], {b[m]} \cap G)
  BY DEF Removes
<1>1. 0 \in S
  <2>1. 0 \in Nat
    OBVIOUS
  <2>2. Past(b, 0) \cap G = {}
    BY <2>1, PastGrows
  <2>3. F!Remove(f[0], {}) = f[0]
    BY DEF Hash, F!Remove, F!Restrict, Restrict
  <2> QED BY <2>2, <2>3
<1>2. \A m \in 0..(n - 1) : m \in S => m + 1 \in S
  <2> SUFFICES ASSUME NEW m \in 0..(n - 1), f[m] = F!Remove(f[0], Past(b, m) \cap G)
               PROVE  f[m + 1] = F!Remove(f[0], Past(b, m + 1) \cap G) /\ m + 1 \in 0..n
    OBVIOUS
  <2>1. m + 1 \in 1..n /\ m + 1 - 1 = m /\ m \in Nat
    OBVIOUS
  <2> DEFINE M == Past(b, m) \cap G
             N == {b[m + 1]} \cap G
  <2>2. f[m + 1] = F!Remove(f[m], N)
    <3>1. PICK o \in 1..n : o = m + 1 /\ o - 1 = m
      BY <2>1
    <3>2. f[o] = F!Remove(f[o - 1], {b[o]} \cap G)
      BY <1>0, <3>1, Zenon
    <3>3. o = m + 1 /\ o - 1 = m
      BY <3>1
    <3> QED BY <3>2, <3>3, Zenon
  <2>3. Past(b, m + 1) = Past(b, m) \cup {b[m + 1]}
    BY <2>1, PastGrows
  <2>4. Past(b, m + 1) \cap G = M \cup N
    BY <2>3
  <2>5. f[m] = F!Remove(f[0], M)
    OBVIOUS
  <2> HIDE DEF M, N
  <2>6. F!Remove(F!Remove(f[0], M), N) = F!Remove(f[0], M \cup N)
    BY RemovedTwice
  <2>7. f[m + 1] = F!Remove(f[0], M \cup N)
    BY <2>2, <2>5, <2>6, Zenon
  <2> DEFINE K == Past(b, m + 1) \cap G
             L == M \cup N
  <2>8. K = L /\ f[m + 1] = F!Remove(f[0], L)
    BY <2>4, <2>7, Zenon
  <2>9. f[m + 1] = F!Remove(f[0], K)
    <3> HIDE DEF K, L
    <3> QED BY <2>8
  <2> QED BY <2>1, <2>9
<1>3. \A m \in 0..n : m \in S
  <2> HIDE DEF S
  <2> QED BY <1>1, <1>2, CountUp
<1> QED BY <1>3

\* The jobs that a call makes of the members c, after the id `last'; U gives
\* the URL of a member.
Made(last, c, U) == {[id |-> last + p, url |-> U[c[p]]] : p \in 1..Len(c)}

\* The order of a batch of n members.
InOrder(b, n, z) == \A i, k \in 1..n : i < k => b[i] # b[k] /\ z[b[i]] <= z[b[k]]

\* The members in G of the first m of a batch, in the order of their scores.
Chosen(b, m, G, z, c) ==
    /\ c \in Seq(G) /\ Len(c) <= m
    /\ \A x \in Past(b, m) \cap G : \E p \in 1..Len(c) : c[p] = x
    /\ \A p \in 1..Len(c) : c[p] \in Past(b, m)
    /\ \A p, q \in 1..Len(c) : p < q => c[p] # c[q] /\ z[c[p]] <= z[c[q]]

\* A turn that skips its member, or chooses it.
LEMMA ChosenGrows ==
    ASSUME NEW n \in Nat, NEW b, NEW z,
           InOrder(b, n, z),
           NEW G, NEW m \in Nat, NEW o \in 1..n, o = m + 1, NEW c, Chosen(b, m, G, z, c),
           NEW x, x = b[o], NEW e, e = Append(c, x)
    PROVE  /\ x \notin G => Chosen(b, o, G, z, c)
           /\ x \in G => Chosen(b, o, G, z, e) /\ Len(e) = Len(c) + 1
<1>0. m \in Nat /\ m + 1 \in 1..n
  OBVIOUS
<1>1. Past(b, m + 1) = Past(b, m) \cup {x}
  BY <1>0, PastGrows
<1>2. c \in Seq(G) /\ Len(c) <= m /\ Len(c) \in Nat
  BY DEF Chosen
<1>3. ASSUME x \notin G PROVE Chosen(b, m + 1, G, z, c)
  <2>1. Past(b, m + 1) \cap G = Past(b, m) \cap G
    BY <1>1, <1>3
  <2>2. Len(c) <= m + 1
    BY <1>0, <1>2
  <2> QED BY <1>1, <2>1, <2>2 DEF Chosen
<1>4. ASSUME x \in G
      PROVE  Chosen(b, m + 1, G, z, e) /\ Len(e) = Len(c) + 1
  <2> DEFINE k == Len(c)
  <2>1. /\ e \in Seq(G) /\ Len(e) = k + 1 /\ e[k + 1] = x
        /\ \A p \in 1..k : e[p] = c[p]
    BY <1>2, <1>4
  <2>2. k \in Nat /\ k + 1 <= m + 1 /\ 1..k \subseteq 1..k + 1 /\ k + 1 \in 1..k + 1
    BY <1>0, <1>2
  <2>3. \A p \in 1..k + 1 : p \in 1..k \/ p = k + 1
    BY <2>2
  <2>4. \A p \in 1..k : c[p] \in Past(b, m)
    BY DEF Chosen
  <2>5. \A y \in Past(b, m) : y # x /\ z[y] <= z[x]
    <3> SUFFICES ASSUME NEW i \in 1..m PROVE b[i] # x /\ z[b[i]] <= z[x]
      BY DEF Past
    <3>1. i \in 1..n /\ i < m + 1
      BY <1>0
    <3> QED BY <1>0, <3>1 DEF InOrder
  <2> HIDE DEF k
  <2>6. \A y \in Past(b, m + 1) \cap G : \E p \in 1..k + 1 : e[p] = y
    <3> SUFFICES ASSUME NEW y \in Past(b, m + 1) \cap G
                 PROVE  \E p \in 1..k + 1 : e[p] = y
      OBVIOUS
    <3>1. CASE y = x
      BY <2>1, <2>2, <3>1
    <3>2. CASE y \in Past(b, m) \cap G
      <4>1. PICK p \in 1..k : c[p] = y
        BY <3>2 DEF Chosen, k
      <4> QED BY <2>1, <2>2, <4>1
    <3> QED BY <1>1, <3>1, <3>2
  <2>7. \A p \in 1..k + 1 : e[p] \in Past(b, m + 1)
    BY <1>1, <2>1, <2>3, <2>4
  <2>8. ASSUME NEW p \in 1..k + 1, NEW q \in 1..k + 1, p < q
        PROVE  e[p] # e[q] /\ z[e[p]] <= z[e[q]]
    <3>1. p \in 1..k
      BY <2>2, <2>8
    <3>2. CASE q \in 1..k
      <4>1. c[p] # c[q] /\ z[c[p]] <= z[c[q]]
        BY <2>8, <3>1, <3>2 DEF Chosen, k
      <4> QED BY <2>1, <3>1, <3>2, <4>1
    <3>3. CASE q = k + 1
      <4>1. e[p] \in Past(b, m) /\ e[q] = x
        BY <2>1, <2>4, <3>1, <3>3
      <4> QED BY <2>5, <4>1
    <3> QED BY <2>3, <3>2, <3>3
  <2>9. Chosen(b, m + 1, G, z, e)
    BY <2>1, <2>2, <2>6, <2>7, <2>8 DEF Chosen
  <2> QED BY <2>1, <2>9 DEF k
<1> QED BY <1>3, <1>4

\* The counter f and the ready list r of a loop that requeues the members in G.
Requeues(n, f, r, b, G, U) ==
    \A m \in 1..n :
       /\ b[m] \in G => /\ f[m] = f[m - 1] + 1
                        /\ r[m] = r[m - 1] \cup {[id |-> f[m], url |-> U[b[m]]]}
       /\ b[m] \notin G => f[m] = f[m - 1] /\ r[m] = r[m - 1]

\* What they are in the end.
Requeued(n, f, r, b, G, U, z) ==
    \E c : /\ Chosen(b, n, G, z, c) /\ f[n] = f[0] + Len(c)
          /\ r[n] = r[0] \cup Made(f[0], c, U)

\* Turn by turn.
LEMMA LoopRequeues ==
    ASSUME NEW n, n \in Nat, NEW b, NEW z, InOrder(b, n, z),
           NEW G, NEW U, NEW f, f[0] \in Nat, NEW r, Requeues(n, f, r, b, G, U)
    PROVE  Requeued(n, f, r, b, G, U, z)
<1> DEFINE Done(m, c) == /\ Chosen(b, m, G, z, c) /\ f[m] = f[0] + Len(c)
                         /\ r[m] = r[0] \cup Made(f[0], c, U)
           S == {m \in 0..n : \E c : Done(m, c)}
<1>1. 0 \in S
  <2> DEFINE c == <<>>
  <2>1. c \in Seq(G) /\ Len(c) = 0 /\ 1..Len(c) = {} /\ 0 \in Nat
    OBVIOUS
  <2>2. Past(b, 0) = {}
    BY <2>1, PastGrows
  <2> HIDE DEF c
  <2>3. Chosen(b, 0, G, z, c)
    BY <2>1, <2>2 DEF Chosen
  <2>4. Made(f[0], c, U) = {}
    BY <2>1 DEF Made
  <2>5. Done(0, c)
    BY <2>1, <2>3, <2>4
  <2> HIDE DEF Done
  <2> QED BY <2>5
<1>2. \A m \in 0..(n - 1) : m \in S => m + 1 \in S
  <2> SUFFICES ASSUME NEW m \in 0..(n - 1), NEW c, Done(m, c)
               PROVE  (\E e : Done(m + 1, e)) /\ m + 1 \in 0..n
    <3> HIDE DEF Done
    <3> QED OBVIOUS
  <2> DEFINE x == b[m + 1]
             e == Append(c, x)
             j == [id |-> f[m + 1], url |-> U[x]]
  <2>1. m + 1 \in 1..n /\ m + 1 - 1 = m
    OBVIOUS
  <2>2. /\ x \in G => f[m + 1] = f[m] + 1 /\ r[m + 1] = r[m] \cup {j}
        /\ x \notin G => f[m + 1] = f[m] /\ r[m + 1] = r[m]
    BY <2>1 DEF Requeues
  <2>3. /\ x \notin G => Chosen(b, m + 1, G, z, c)
        /\ x \in G => Chosen(b, m + 1, G, z, e) /\ Len(e) = Len(c) + 1
    <3>1. PICK o \in 1..n : o = m + 1
      BY <2>1
    <3>2. Chosen(b, m, G, z, c) /\ x = b[o] /\ e = Append(c, x) /\ m \in Nat
      BY <3>1
    <3> HIDE DEF x, e
    <3>a. InOrder(b, n, z) /\ n \in Nat /\ m \in Nat /\ o \in 1..n /\ o = m + 1
      BY <3>1
    <3>b. x \notin G => Chosen(b, o, G, z, c)
      BY <3>a, <3>2, ChosenGrows
    <3>c. x \in G => Chosen(b, o, G, z, e)
      BY <3>a, <3>2, ChosenGrows
    <3>d. x \in G => Len(e) = Len(c) + 1
      BY <3>a, <3>2, ChosenGrows
    <3>3. /\ x \notin G => Chosen(b, o, G, z, c)
          /\ x \in G => Chosen(b, o, G, z, e) /\ Len(e) = Len(c) + 1
      BY <3>b, <3>c, <3>d
    <3> QED BY <3>1, <3>3
  <2>4. CASE x \notin G
    <3>1. Done(m + 1, c)
      BY <2>2, <2>3, <2>4
    <3> HIDE DEF Done
    <3> QED BY <2>1, <3>1
  <2>5. CASE x \in G
    <3> DEFINE k == Len(c)
    <3>1. c \in Seq(G) /\ k \in Nat
      BY DEF Chosen
    <3>2. Len(e) = k + 1 /\ e[k + 1] = x /\ \A p \in 1..k : e[p] = c[p]
      BY <2>5, <3>1
    <3> HIDE DEF e, k, x
    <3>3. f[m + 1] = f[0] + (k + 1)
      BY <2>2, <2>5, <3>1 DEF k
    <3>4. Made(f[0], e, U) = Made(f[0], c, U) \cup {j}
      <4>1. \A p : p \in 1..k + 1 <=> p \in 1..k \/ p = k + 1
        BY <3>1
      <4> DEFINE g(p) == [id |-> f[0] + p, url |-> U[e[p]]]
                 h(p) == [id |-> f[0] + p, url |-> U[c[p]]]
      <4>2. j = g(k + 1) /\ \A p \in 1..k : g(p) = h(p)
        BY <3>2, <3>3
      <4>3. Made(f[0], e, U) = {g(p) : p \in 1..k + 1}
        BY <3>2 DEF Made
      <4>4. Made(f[0], c, U) = {h(p) : p \in 1..k}
        BY DEF Made, k
      <4> HIDE DEF j, g, h
      <4> QED BY <4>1, <4>2, <4>3, <4>4
    <3>5. r[m + 1] = r[0] \cup Made(f[0], e, U)
      BY <2>2, <2>5, <3>4
    <3>6. Done(m + 1, e)
      BY <2>3, <2>5, <3>2, <3>3, <3>5
    <3> HIDE DEF Done
    <3> QED BY <2>1, <3>6
  <2> QED BY <2>4, <2>5
<1>3. n \in S
  <2> HIDE DEF S
  <2>1. \A m \in 0..n : m \in S
    BY <1>1, <1>2, CountUp
  <2> QED BY <2>1
<1> QED BY <1>3 DEF Requeued

\* What was chosen is in an order in which Frontier may meet the members of G.
LEMMA ChosenSorted ==
    ASSUME NEW b, NEW n \in Nat, NEW G, NEW z, NEW c, Chosen(b, n, G, z, c),
           G \subseteq Past(b, n)
    PROVE  Len(c) \in 0..n /\ DOMAIN c = 1..Len(c) /\ c \in F!Sorted(z, Len(c), G)
<1>1. c \in Seq(G) /\ Len(c) <= n
  BY DEF Chosen
<1>2. Len(c) \in 0..n /\ DOMAIN c = 1..Len(c) /\ c \in [1..Len(c) -> G]
  BY <1>1
<1>3. \A x \in G : \E p \in 1..Len(c) : c[p] = x
  BY DEF Chosen
<1>4. \A p, q \in 1..Len(c) : p < q => c[p] # c[q] /\ z[c[p]] <= z[c[q]]
  BY DEF Chosen
<1> HIDE DEF Chosen
<1> QED BY <1>2, <1>3, <1>4 DEF F!Sorted

\* A batch is a page of due members, in order.
LEMMA BatchOrder ==
    ASSUME NEW z, NEW limit \in Nat, NEW b \in DueBatches(z, limit)
    PROVE  \E P \in F!Page(z, F!Due(z), limit) :
              /\ Len(b) \in 0..limit /\ P = Past(b, Len(b)) /\ P \subseteq DOMAIN z
              /\ InOrder(b, Len(b), z)
<1>1. PICK n \in 0..limit, P \in F!Page(z, F!Due(z), limit) : b \in F!Sorted(z, n, P)
  BY DEF DueBatches
<1>2. P \subseteq DOMAIN z
  BY DEF F!Page, F!Due
<1>3. /\ b \in [1..n -> P] /\ \A x \in P : \E i \in 1..n : b[i] = x
      /\ \A i, j \in 1..n : i < j => b[i] # b[j] /\ z[b[i]] <= z[b[j]]
  BY <1>1 DEF F!Sorted
<1>4. Len(b) = n
  BY <1>3
<1>5. P = Past(b, n)
  BY <1>3 DEF Past
<1>6. InOrder(b, n, z)
  BY <1>3 DEF InOrder
<1> QED BY <1>2, <1>4, <1>5, <1>6

\* INCR and LPUSH of a new job, by the URL of an old one.
LEMMA RequeueEffect ==
    ASSUME NEW d, DOMAIN d = Keys, d.ready \in Seq(Job), d.seq \in Nat,
           NEW u \in Video \cup Listing,
           NEW d1, d1 = Exec(d, Incr), NEW d2, d2 = Exec(d1, Push(u))
    PROVE  /\ DOMAIN d2 = Keys /\ d2.seq = d.seq + 1
           /\ ToSet(d2.ready) = ToSet(d.ready) \cup {[id |-> d2.seq, url |-> u]}
           /\ \A k \in Keys \ {"seq", "ready"} : d2[k] = d[k]
<1>1. d1.seq = d.seq + 1 /\ Same(d, d1, "seq")
  BY IncrEffect
<1>2. d2.ready = <<Item(d1, u)>> \o d1.ready /\ Same(d1, d2, "ready")
  BY <1>1, PushEffect DEF Same
<1>3. /\ d1.ready = d.ready /\ d2.seq = d1.seq /\ DOMAIN d2 = Keys
      /\ \A k \in Keys \ {"seq", "ready"} : d2[k] = d[k]
  BY <1>1, <1>2 DEF Same, Keys
<1> DEFINE x == Item(d1, u)
<1>4. x = [id |-> d2.seq, url |-> u] /\ x \in Job
  BY <1>1, <1>3 DEF Item, Job
<1> HIDE DEF x
<1>5. ToSet(<<x>> \o d.ready) = {x} \cup ToSet(d.ready)
  BY <1>4, Pushed
<1>6. ToSet(d2.ready) = ToSet(d.ready) \cup {x}
  BY <1>2, <1>3, <1>5 DEF x
<1> QED BY <1>1, <1>3, <1>4, <1>6

\* The keys e after a turn that starts from sound keys d.
Turn(d, I, A, s, e) == Sound(d, I, A) /\ e = After(d, s)[Len(s)]

\* A turn made a new job for u.
GotJob(d, e, u) ==
    /\ e.seq = d.seq + 1
    /\ ToSet(e.ready) = ToSet(d.ready) \cup {[id |-> e.seq, url |-> u]}

\* It left the other keys alone.
Others(d, e, changed) == \A k \in Keys \ changed : e[k] = d[k]

\* The turns of the four scripts.
PromoteTurnOf(j, s) == j \in Job /\ s = <<Incr, Push(j.url), Del("delayed", j)>>

Promoted(d, e, j) ==
    /\ GotJob(d, e, j.url) /\ e.delayed = Without(d.delayed, j)
    /\ Others(d, e, {"seq", "ready", "delayed"})

ReapTurnOf(j, s) ==
    j \in Job /\ s = <<Del("lease", j), Incr, Push(j.url), Unprocess(j)>>

Reaped(d, e, j) ==
    /\ GotJob(d, e, j.url) /\ e.lease = Without(d.lease, j)
    /\ ToSet(e.processing) = ToSet(d.processing) \ {j}
    /\ Others(d, e, {"seq", "ready", "lease", "processing"})

SweepTurnOf(j, s) == j \in Job /\ s = <<Incr, Push(j.url), Unprocess(j)>>

Swept(d, e, j) ==
    /\ GotJob(d, e, j.url)
    /\ ToSet(e.processing) = ToSet(d.processing) \ {j}
    /\ Others(d, e, {"seq", "ready", "processing"})

ScheduleTurnOf(l, s) ==
    /\ l \in Listing
    /\ s = <<Del("dead", l), Incr, Push(l), Set("listingNext", l, PendingScore)>>

Scheduled(d, e, l) ==
    /\ GotJob(d, e, l) /\ e.dead = Without(d.dead, l)
    /\ e.listingNext = F!ZAdd(d.listingNext, l, PendingScore)
    /\ Others(d, e, {"seq", "ready", "dead", "listingNext"})

\* A turn of PROMOTE.
LEMMA PromoteEffect ==
    ASSUME NEW d, NEW I, NEW A, NEW s, NEW e, Turn(d, I, A, s, e), NEW j, PromoteTurnOf(j, s)
    PROVE  Promoted(d, e, j)
<1> DEFINE t == After(d, s)
           u == j.url
           d1 == t[1]
           d2 == t[2]
           d3 == t[3]
<1>1. /\ Len(s) = 3 /\ t[0] = d
      /\ d1 = Exec(d, Incr) /\ d2 = Exec(d1, Push(u)) /\ d3 = Exec(d2, Del("delayed", j))
  BY PrefixesThree DEF PromoteTurnOf
<1>2. e = d3 /\ u \in Video \cup Listing
  BY <1>1 DEF Job, Turn, PromoteTurnOf
<1>3. DOMAIN d = Keys /\ d.ready \in Seq(Job) /\ d.seq \in Nat
  BY DEF Turn, Sound, Shape
<1> HIDE DEF t, d1, d2, d3, u
<1>4. /\ DOMAIN d2 = Keys /\ d2.seq = d.seq + 1
      /\ ToSet(d2.ready) = ToSet(d.ready) \cup {[id |-> d2.seq, url |-> u]}
      /\ \A k \in Keys \ {"seq", "ready"} : d2[k] = d[k]
  BY <1>1, <1>2, <1>3, RequeueEffect
<1>5. d3.delayed = Without(d2.delayed, j) /\ Same(d2, d3, "delayed")
  BY <1>1, <1>4, DelEffect DEF Keys
<1>6. d2.delayed = d.delayed /\ d3.seq = d2.seq /\ d3.ready = d2.ready
  BY <1>4, <1>5 DEF Same, Keys
<1>7. \A k \in Keys \ {"seq", "ready", "delayed"} : d3[k] = d[k]
  BY <1>4, <1>5 DEF Same
<1> QED BY <1>2, <1>4, <1>5, <1>6, <1>7 DEF Promoted, GotJob, Others, u

\* A turn of REAP.
LEMMA ReapEffect ==
    ASSUME NEW d, NEW I, NEW A, NEW s, NEW e, Turn(d, I, A, s, e), NEW j, ReapTurnOf(j, s)
    PROVE  Reaped(d, e, j)
<1> DEFINE t == After(d, s)
           u == j.url
           d1 == t[1]
           d2 == t[2]
           d3 == t[3]
           d4 == t[4]
<1>1. /\ Len(s) = 4 /\ t[0] = d
      /\ d1 = Exec(d, Del("lease", j)) /\ d2 = Exec(d1, Incr) /\ d3 = Exec(d2, Push(u))
      /\ d4 = Exec(d3, Unprocess(j))
  BY PrefixesFour DEF ReapTurnOf
<1>2. e = d4 /\ u \in Video \cup Listing
  BY <1>1 DEF Job, Turn, ReapTurnOf
<1>3. /\ DOMAIN d = Keys /\ d.ready \in Seq(Job) /\ d.seq \in Nat
      /\ d.processing \in Seq(Job) /\ Descending(d.processing)
  BY DEF Turn, Sound, Shape, Order
<1> HIDE DEF t, d1, d2, d3, d4, u
<1>4. d1.lease = Without(d.lease, j) /\ Same(d, d1, "lease")
  BY <1>1, <1>3, DelEffect DEF Keys
<1>5. DOMAIN d1 = Keys /\ d1.ready = d.ready /\ d1.seq = d.seq
  BY <1>4 DEF Same, Keys
<1>6. /\ DOMAIN d3 = Keys /\ d3.seq = d1.seq + 1
      /\ ToSet(d3.ready) = ToSet(d1.ready) \cup {[id |-> d3.seq, url |-> u]}
      /\ \A k \in Keys \ {"seq", "ready"} : d3[k] = d1[k]
  <2>1. /\ DOMAIN d1 = Keys /\ d1.ready \in Seq(Job) /\ d1.seq \in Nat
        /\ u \in Video \cup Listing /\ d2 = Exec(d1, Incr) /\ d3 = Exec(d2, Push(u))
    BY <1>1, <1>2, <1>3, <1>5
  <2> QED BY <2>1, RequeueEffect
<1>7. d4.processing = RemoveFirst(d3.processing, j) /\ Same(d3, d4, "processing")
  BY <1>1, <1>6, DropEffect DEF Keys, Unprocess
<1>8. /\ d3.processing = d.processing /\ d4.lease = d1.lease
      /\ d4.seq = d3.seq /\ d4.ready = d3.ready
  BY <1>4, <1>6, <1>7 DEF Same, Keys
<1>9. ToSet(d4.processing) = ToSet(d.processing) \ {j}
  BY <1>3, <1>7, <1>8, Dropped
<1>10. \A k \in Keys \ {"seq", "ready", "lease", "processing"} : d4[k] = d[k]
  BY <1>4, <1>6, <1>7 DEF Same
<1> QED BY <1>2, <1>4, <1>5, <1>6, <1>8, <1>9, <1>10 DEF Reaped, GotJob, Others, u

\* A turn of SWEEP on an orphan.
LEMMA SweepEffect ==
    ASSUME NEW d, NEW I, NEW A, NEW s, NEW e, Turn(d, I, A, s, e), NEW j, SweepTurnOf(j, s)
    PROVE  Swept(d, e, j)
<1> DEFINE t == After(d, s)
           u == j.url
           d1 == t[1]
           d2 == t[2]
           d3 == t[3]
<1>1. /\ Len(s) = 3 /\ t[0] = d
      /\ d1 = Exec(d, Incr) /\ d2 = Exec(d1, Push(u)) /\ d3 = Exec(d2, Unprocess(j))
  BY PrefixesThree DEF SweepTurnOf
<1>2. e = d3 /\ u \in Video \cup Listing
  BY <1>1 DEF Job, Turn, SweepTurnOf
<1>3. /\ DOMAIN d = Keys /\ d.ready \in Seq(Job) /\ d.seq \in Nat
      /\ d.processing \in Seq(Job) /\ Descending(d.processing)
  BY DEF Turn, Sound, Shape, Order
<1> HIDE DEF t, d1, d2, d3, u
<1>4. /\ DOMAIN d2 = Keys /\ d2.seq = d.seq + 1
      /\ ToSet(d2.ready) = ToSet(d.ready) \cup {[id |-> d2.seq, url |-> u]}
      /\ \A k \in Keys \ {"seq", "ready"} : d2[k] = d[k]
  BY <1>1, <1>2, <1>3, RequeueEffect
<1>5. d3.processing = RemoveFirst(d2.processing, j) /\ Same(d2, d3, "processing")
  BY <1>1, <1>4, DropEffect DEF Keys, Unprocess
<1>6. d2.processing = d.processing /\ d3.seq = d2.seq /\ d3.ready = d2.ready
  BY <1>4, <1>5 DEF Same, Keys
<1>7. ToSet(d3.processing) = ToSet(d.processing) \ {j}
  BY <1>3, <1>5, <1>6, Dropped
<1>8. \A k \in Keys \ {"seq", "ready", "processing"} : d3[k] = d[k]
  BY <1>4, <1>5 DEF Same
<1> QED BY <1>2, <1>4, <1>6, <1>7, <1>8 DEF Swept, GotJob, Others, u

\* A turn of the listing scheduler on a listing that gets a job.
LEMMA ScheduleEffect ==
    ASSUME NEW d, NEW I, NEW A, NEW s, NEW e, Turn(d, I, A, s, e), NEW l, ScheduleTurnOf(l, s)
    PROVE  Scheduled(d, e, l)
<1> DEFINE t == After(d, s)
           d1 == t[1]
           d2 == t[2]
           d3 == t[3]
           d4 == t[4]
<1>1. /\ Len(s) = 4 /\ t[0] = d
      /\ d1 = Exec(d, Del("dead", l)) /\ d2 = Exec(d1, Incr) /\ d3 = Exec(d2, Push(l))
      /\ d4 = Exec(d3, Set("listingNext", l, PendingScore))
  BY PrefixesFour DEF ScheduleTurnOf
<1>2. e = d4 /\ l \in Video \cup Listing
  BY <1>1 DEF Turn, ScheduleTurnOf
<1>3. DOMAIN d = Keys /\ d.ready \in Seq(Job) /\ d.seq \in Nat
  BY DEF Turn, Sound, Shape
<1> HIDE DEF t, d1, d2, d3, d4
<1>4. d1.dead = Without(d.dead, l) /\ Same(d, d1, "dead")
  BY <1>1, <1>3, DelEffect DEF Keys
<1>5. DOMAIN d1 = Keys /\ d1.ready = d.ready /\ d1.seq = d.seq
  BY <1>4 DEF Same, Keys
<1>6. /\ DOMAIN d3 = Keys /\ d3.seq = d1.seq + 1
      /\ ToSet(d3.ready) = ToSet(d1.ready) \cup {[id |-> d3.seq, url |-> l]}
      /\ \A k \in Keys \ {"seq", "ready"} : d3[k] = d1[k]
  BY <1>1, <1>2, <1>3, <1>5, RequeueEffect
<1>7. /\ d4.listingNext = F!ZAdd(d3.listingNext, l, PendingScore)
      /\ Same(d3, d4, "listingNext")
  BY <1>1, <1>6, SetEffect DEF Keys
<1>8. /\ d3.listingNext = d.listingNext /\ d4.dead = d1.dead
      /\ d4.seq = d3.seq /\ d4.ready = d3.ready
  BY <1>4, <1>6, <1>7 DEF Same, Keys
<1>9. \A k \in Keys \ {"seq", "ready", "dead", "listingNext"} : d4[k] = d[k]
  BY <1>4, <1>6, <1>7 DEF Same
<1> QED BY <1>2, <1>4, <1>5, <1>6, <1>7, <1>8, <1>9 DEF Scheduled, GotJob, Others

\* Every turn makes a new job for its member if that is in G.
MakesJobs(n, t, b, G, U) ==
    \A m \in 1..n :
       /\ b[m] \in G => GotJob(t[m - 1], t[m], U[b[m]])
       /\ b[m] \notin G => t[m].seq = t[m - 1].seq /\ t[m].ready = t[m - 1].ready

\* The jobs of a loop, in the order of a sequence c of the members in G.
JobsMade(n, t, b, G, U, z) ==
    \E c : /\ Chosen(b, n, G, z, c) /\ t[n].seq = t[0].seq + Len(c)
           /\ ToSet(t[n].ready) = ToSet(t[0].ready) \cup Made(t[0].seq, c, U)

\* Turn by turn.
LEMMA LoopJobs ==
    ASSUME NEW n, n \in Nat, NEW b, NEW z, InOrder(b, n, z), NEW G, NEW U,
           NEW t, t[0].seq \in Nat, MakesJobs(n, t, b, G, U)
    PROVE  JobsMade(n, t, b, G, U, z)
<1> DEFINE f == [m \in 0..n |-> t[m].seq]
           r == [m \in 0..n |-> ToSet(t[m].ready)]
<1>1. \A m \in 1..n : m \in 0..n /\ m - 1 \in 0..n
  OBVIOUS
<1>2. 0 \in 0..n /\ n \in 0..n
  OBVIOUS
<1>3. Requeues(n, f, r, b, G, U)
  <2> SUFFICES ASSUME NEW m \in 1..n
               PROVE  /\ b[m] \in G => /\ f[m] = f[m - 1] + 1
                                       /\ r[m] = r[m - 1] \cup {[id |-> f[m], url |-> U[b[m]]]}
                      /\ b[m] \notin G => f[m] = f[m - 1] /\ r[m] = r[m - 1]
    BY DEF Requeues
  <2>1. /\ f[m] = t[m].seq /\ f[m - 1] = t[m - 1].seq
        /\ r[m] = ToSet(t[m].ready) /\ r[m - 1] = ToSet(t[m - 1].ready)
    BY <1>1
  <2> HIDE DEF f, r
  <2> QED BY <2>1 DEF MakesJobs, GotJob
<1>4. /\ f[0] = t[0].seq /\ r[0] = ToSet(t[0].ready)
      /\ f[n] = t[n].seq /\ r[n] = ToSet(t[n].ready)
  BY <1>2
<1> HIDE DEF f, r
<1>5. Requeued(n, f, r, b, G, U, z)
  BY <1>3, <1>4, LoopRequeues
<1> QED BY <1>4, <1>5 DEF Requeued, JobsMade

\* The keys that no turn changes.
LEMMA LoopOthers ==
    ASSUME NEW n, n \in Nat, NEW t, NEW changed,
           \A m \in 1..n : Others(t[m - 1], t[m], changed)
    PROVE  Others(t[0], t[n], changed)
<1> SUFFICES ASSUME NEW k \in Keys \ changed PROVE t[n][k] = t[0][k]
  BY DEF Others
<1> DEFINE h == [m \in 0..n |-> t[m][k]]
<1>1. \A m \in 1..n : h[m] = h[m - 1]
  BY DEF Others
<1>2. h[0] = t[0][k] /\ h[n] = t[n][k]
  OBVIOUS
<1> HIDE DEF h
<1> QED BY <1>1, <1>2, LoopLeaves

\* The key is a sorted set or hash before every turn.
Hashed(n, t, key) == Hash(t[0][key]) /\ \A m \in 1..n : Hash(t[m - 1][key])

\* It loses the members in G.
Unhashes(n, t, key, b, G) ==
    \A m \in 1..n : /\ b[m] \in G => t[m][key] = Without(t[m - 1][key], b[m])
                    /\ b[m] \notin G => t[m][key] = t[m - 1][key]

\* The members in G are gone from it.
Unhashed(n, t, key, G) == t[n][key] = F!Remove(t[0][key], G)

\* The batch b of n members holds all of G.
Covers(b, n, G) == G \subseteq Past(b, n)

\* Turn by turn.
LEMMA LoopUnhashes ==
    ASSUME NEW n, n \in Nat, NEW t, NEW key, Hashed(n, t, key), NEW b, NEW G,
           Unhashes(n, t, key, b, G), Covers(b, n, G)
    PROVE  Unhashed(n, t, key, G)
<1> DEFINE g == [m \in 0..n |-> t[m][key]]
<1>1. \A m \in 1..n : g[m] = t[m][key] /\ g[m - 1] = t[m - 1][key]
  OBVIOUS
<1>2. g[0] = t[0][key] /\ g[n] = t[n][key]
  OBVIOUS
<1> HIDE DEF g
<1>3. ASSUME NEW m \in 1..n PROVE g[m] = F!Remove(g[m - 1], {b[m]} \cap G)
  <2>1. CASE b[m] \in G
    <3>1. {b[m]} \cap G = {b[m]}
      BY <2>1
    <3>2. g[m] = F!Remove(g[m - 1], {b[m]})
      BY <1>1, <2>1 DEF Unhashes, Without
    <3> QED BY <3>1, <3>2
  <2>2. CASE b[m] \notin G
    <3>1. {b[m]} \cap G = {}
      BY <2>2
    <3>2. g[m] = g[m - 1] /\ Hash(g[m - 1])
      BY <1>1, <2>2 DEF Unhashes, Hashed
    <3>3. F!Remove(g[m - 1], {}) = g[m - 1]
      BY <3>2 DEF Hash, F!Remove, F!Restrict, Restrict
    <3> QED BY <3>1, <3>2, <3>3
  <2> QED BY <2>1, <2>2
<1>4. Removes(n, g, b, G)
  BY <1>3 DEF Removes
<1>5. G = Past(b, n) \cap G
  BY DEF Covers
<1>6. Hash(g[0])
  BY <1>2 DEF Hashed
<1>7. g[n] = F!Remove(g[0], G)
  BY <1>4, <1>5, <1>6, LoopRemoves
<1> QED BY <1>2, <1>7 DEF Unhashed

\* The processing list, when it loses the members in G.
Unlists(n, t, b, G) ==
    \A m \in 1..n :
       /\ b[m] \in G => ToSet(t[m].processing) = ToSet(t[m - 1].processing) \ {b[m]}
       /\ b[m] \notin G => t[m].processing = t[m - 1].processing

\* They are gone from it.
Unlisted(n, t, G) == ToSet(t[n].processing) = ToSet(t[0].processing) \ G

\* Turn by turn.
LEMMA LoopUnlists ==
    ASSUME NEW n, n \in Nat, NEW t, NEW b, NEW G, Unlists(n, t, b, G),
           Covers(b, n, G)
    PROVE  Unlisted(n, t, G)
<1> DEFINE g == [m \in 0..n |-> ToSet(t[m].processing)]
<1>1. \A m \in 1..n : g[m] = ToSet(t[m].processing) /\ g[m - 1] = ToSet(t[m - 1].processing)
  OBVIOUS
<1>2. g[0] = ToSet(t[0].processing) /\ g[n] = ToSet(t[n].processing)
  OBVIOUS
<1> HIDE DEF g
<1>3. ASSUME NEW m \in 1..n PROVE g[m] = g[m - 1] \ ({b[m]} \cap G)
  <2>1. CASE b[m] \in G
    <3>1. {b[m]} \cap G = {b[m]}
      BY <2>1
    <3>2. g[m] = g[m - 1] \ {b[m]}
      BY <1>1, <2>1 DEF Unlists
    <3> QED BY <3>1, <3>2
  <2>2. CASE b[m] \notin G
    <3>1. {b[m]} \cap G = {}
      BY <2>2
    <3>2. g[m] = g[m - 1]
      BY <1>1, <2>2 DEF Unlists
    <3> QED BY <3>1, <3>2
  <2> QED BY <2>1, <2>2
<1>4. Drops(n, g, b, G)
  BY <1>3 DEF Drops
<1>5. G = Past(b, n) \cap G
  BY DEF Covers
<1>6. g[n] = g[0] \ G
  BY <1>4, <1>5, LoopDrops
<1> QED BY <1>2, <1>6 DEF Unlisted

\* PROMOTE.
LEMMA PromoteRefines ==
    ASSUME Sound(db, issued, acked), aborts \in Nat, aborts' = 0,
           NEW b \in DueBatches(db.delayed, PromoteBatchLimit), Call(luaPromote(b))
    PROVE  F!Promote
<1> DEFINE loop == luaPromote(b)
           n == Len(b)
           t == Turns(loop)
           z == db.delayed
<1>0. /\ Run(loop) /\ UNCHANGED <<now, issued, acked>> /\ db'.seq <= MaxJob
      /\ PromoteBatchLimit \in Nat
  BY FrontierAssumption DEF Call, Run, F!ConfigAssumption
<1>1. /\ n \in Nat /\ DOMAIN b = 1..n /\ \A i \in 1..n : b[i] \in DOMAIN z
  BY Batch
<1>2. PICK P \in F!Page(z, F!Due(z), PromoteBatchLimit) :
         /\ n \in 0..PromoteBatchLimit /\ P = Past(b, n) /\ P \subseteq DOMAIN z
         /\ InOrder(b, n, z)
  BY <1>0, BatchOrder
<1>3. /\ Len(loop) = n /\ DOMAIN loop = 1..n
      /\ \A i \in 1..n : loop[i] = <<Incr, Push(b[i].url), Del("delayed", b[i])>>
  BY <1>1 DEF luaPromote
<1> HIDE DEF loop, n
<1>4. \A i \in 1..n : b[i] \in Job /\ b[i].id <= db.seq /\ b[i] \in P
  <2> SUFFICES ASSUME NEW i \in 1..n PROVE b[i] \in Job /\ b[i].id <= db.seq /\ b[i] \in P
    OBVIOUS
  <2>1. b[i] \in Jobs(db)
    BY <1>1 DEF Jobs, Queued
  <2>2. b[i] \in P
    BY <1>2 DEF Past
  <2> QED BY <2>1, <2>2, JobsTyped DEF Sound, Order
<1>5. \A d : \A i \in 1..n : Carried(d) => Carries(d, loop[i])
  <2> SUFFICES ASSUME NEW d, NEW i \in 1..n, Carried(d) PROVE Carries(d, loop[i])
    OBVIOUS
  <2> QED BY <1>3, <1>4, PromoteTurn
<1>6. /\ db' = t[n] /\ t[0] = db
      /\ \A m \in 1..n : /\ Sound(t[m - 1], issued, acked)
                         /\ t[m] = After(t[m - 1], loop[m])[Len(loop[m])]
  BY <1>0, <1>1, <1>3, <1>5, WholeLoop
<1> HIDE DEF t, z
<1>7. ASSUME NEW m \in 1..n PROVE Promoted(t[m - 1], t[m], b[m])
  <2>1. Turn(t[m - 1], issued, acked, loop[m], t[m])
    BY <1>6 DEF Turn
  <2>2. PromoteTurnOf(b[m], loop[m])
    BY <1>3, <1>4 DEF PromoteTurnOf
  <2> QED BY <2>1, <2>2, PromoteEffect
<1> DEFINE U == [x \in P |-> x.url]
<1>8. PICK c : /\ Chosen(b, n, P, z, c) /\ t[n].seq = db.seq + Len(c)
               /\ ToSet(t[n].ready) = ToSet(db.ready) \cup Made(db.seq, c, U)
  <2>1. MakesJobs(n, t, b, P, U)
    BY <1>4, <1>7 DEF MakesJobs, Promoted
  <2>2. t[0].seq \in Nat
    BY <1>6 DEF Sound, Shape
  <2> HIDE DEF U
  <2>3. JobsMade(n, t, b, P, U, z)
    BY <1>1, <1>2, <2>1, <2>2, LoopJobs
  <2> QED BY <1>6, <2>3 DEF JobsMade
<1>9. t[n].delayed = F!Remove(db.delayed, P)
  <2> DEFINE key == "delayed"
  <2>1. Unhashes(n, t, key, b, P)
    BY <1>4, <1>7 DEF Unhashes, Promoted
  <2>2. Hashed(n, t, key) /\ Covers(b, n, P)
    BY <1>2, <1>6 DEF Sound, Shape, Hashed, Covers
  <2> HIDE DEF key
  <2>3. Unhashed(n, t, key, P)
    BY <1>1, <2>1, <2>2, LoopUnhashes
  <2> QED BY <1>6, <2>3 DEF key, Unhashed
<1>10. Others(db, t[n], {"seq", "ready", "delayed"})
  <2> DEFINE changed == {"seq", "ready", "delayed"}
  <2>1. \A m \in 1..n : Others(t[m - 1], t[m], changed)
    BY <1>7 DEF Promoted
  <2> HIDE DEF changed
  <2>2. Others(t[0], t[n], changed)
    BY <1>1, <2>1, LoopOthers
  <2> QED BY <1>6, <2>2 DEF changed
<1>11. /\ t[n].processing = db.processing /\ t[n].lease = db.lease /\ t[n].dead = db.dead
       /\ t[n].attempts = db.attempts /\ t[n].strikes = db.strikes
       /\ t[n].listingNext = db.listingNext /\ t[n].barren = db.barren
       /\ t[n].bloom = db.bloom
  BY <1>10 DEF Others, Keys
<1>12. Len(c) \in 0..n /\ DOMAIN c = 1..Len(c) /\ c \in F!Sorted(z, Len(c), P)
  BY <1>1, <1>2, <1>8, ChosenSorted
<1>13. Made(db.seq, c, U) = F!Reminted(c)
  BY <1>12 DEF Made, F!Reminted, F!Mint, F!Sorted
<1>14. Len(c) \in 0..PromoteBatchLimit
  BY <1>0, <1>1, <1>2, <1>12
<1>15. /\ db.seq + Len(c) <= MaxJob /\ db'.seq = db.seq + Len(c)
       /\ ToSet(db'.ready) = ToSet(db.ready) \cup F!Reminted(c)
       /\ db'.delayed = F!Remove(db.delayed, P)
  BY <1>0, <1>6, <1>8, <1>9, <1>13
<1> HIDE DEF U
<1> QED BY <1>0, <1>2, <1>6, <1>11, <1>12, <1>14, <1>15 DEF F!Promote, F!urlVars, z

\* REAP.
LEMMA ReapRefines ==
    ASSUME Sound(db, issued, acked), aborts \in Nat, aborts' = 0,
           NEW b \in DueBatches(db.lease, ReapBatchLimit), Call(luaReap(b))
    PROVE  F!Reap
<1> DEFINE loop == luaReap(b)
           n == Len(b)
           t == Turns(loop)
           z == db.lease
<1>0. /\ Run(loop) /\ UNCHANGED <<now, issued, acked>> /\ db'.seq <= MaxJob
      /\ ReapBatchLimit \in Nat
  BY FrontierAssumption DEF Call, Run, F!ConfigAssumption
<1>1. /\ n \in Nat /\ DOMAIN b = 1..n /\ \A i \in 1..n : b[i] \in DOMAIN z
  BY Batch
<1>2. PICK P \in F!Page(z, F!Due(z), ReapBatchLimit) :
         /\ n \in 0..ReapBatchLimit /\ P = Past(b, n) /\ P \subseteq DOMAIN z
         /\ InOrder(b, n, z)
  BY <1>0, BatchOrder
<1>3. /\ Len(loop) = n /\ DOMAIN loop = 1..n
      /\ \A i \in 1..n :
            loop[i] = <<Del("lease", b[i]), Incr, Push(b[i].url), Unprocess(b[i])>>
  BY <1>1 DEF luaReap
<1> HIDE DEF loop, n
<1>4. \A i \in 1..n : b[i] \in Job /\ b[i].id <= db.seq /\ b[i] \in P
  <2> SUFFICES ASSUME NEW i \in 1..n PROVE b[i] \in Job /\ b[i].id <= db.seq /\ b[i] \in P
    OBVIOUS
  <2>1. b[i] \in Job /\ b[i].id <= db.seq
    BY <1>1, Leased
  <2>2. b[i] \in P
    BY <1>2 DEF Past
  <2> QED BY <2>1, <2>2
<1>5. \A d : \A i \in 1..n : Carried(d) => Carries(d, loop[i])
  <2> SUFFICES ASSUME NEW d, NEW i \in 1..n, Carried(d) PROVE Carries(d, loop[i])
    OBVIOUS
  <2> QED BY <1>3, <1>4, RequeueTurn
<1>6. /\ db' = t[n] /\ t[0] = db
      /\ \A m \in 1..n : /\ Sound(t[m - 1], issued, acked)
                         /\ t[m] = After(t[m - 1], loop[m])[Len(loop[m])]
  BY <1>0, <1>1, <1>3, <1>5, WholeLoop
<1> HIDE DEF t, z
<1>7. ASSUME NEW m \in 1..n PROVE Reaped(t[m - 1], t[m], b[m])
  <2>1. Turn(t[m - 1], issued, acked, loop[m], t[m])
    BY <1>6 DEF Turn
  <2>2. ReapTurnOf(b[m], loop[m])
    BY <1>3, <1>4 DEF ReapTurnOf
  <2> QED BY <2>1, <2>2, ReapEffect
<1> DEFINE U == [x \in P |-> x.url]
<1>8. PICK c : /\ Chosen(b, n, P, z, c) /\ t[n].seq = db.seq + Len(c)
               /\ ToSet(t[n].ready) = ToSet(db.ready) \cup Made(db.seq, c, U)
  <2>1. MakesJobs(n, t, b, P, U)
    BY <1>4, <1>7 DEF MakesJobs, Reaped
  <2>2. t[0].seq \in Nat
    BY <1>6 DEF Sound, Shape
  <2> HIDE DEF U
  <2>3. JobsMade(n, t, b, P, U, z)
    BY <1>1, <1>2, <2>1, <2>2, LoopJobs
  <2> QED BY <1>6, <2>3 DEF JobsMade
<1>9. t[n].lease = F!Remove(db.lease, P) /\ ToSet(t[n].processing) = ToSet(db.processing) \ P
  <2> DEFINE key == "lease"
  <2>1. Unhashes(n, t, key, b, P) /\ Unlists(n, t, b, P)
    BY <1>4, <1>7 DEF Unhashes, Unlists, Reaped
  <2>2. Hashed(n, t, key) /\ Covers(b, n, P)
    BY <1>2, <1>6 DEF Sound, Shape, Hashed, Covers
  <2> HIDE DEF key
  <2>3. Unhashed(n, t, key, P)
    BY <1>1, <2>1, <2>2, LoopUnhashes
  <2>4. Unlisted(n, t, P)
    BY <1>1, <2>1, <2>2, LoopUnlists
  <2> QED BY <1>6, <2>3, <2>4 DEF key, Unhashed, Unlisted
<1>10. Others(db, t[n], {"seq", "ready", "lease", "processing"})
  <2> DEFINE changed == {"seq", "ready", "lease", "processing"}
  <2>1. \A m \in 1..n : Others(t[m - 1], t[m], changed)
    BY <1>7 DEF Reaped
  <2> HIDE DEF changed
  <2>2. Others(t[0], t[n], changed)
    BY <1>1, <2>1, LoopOthers
  <2> QED BY <1>6, <2>2 DEF changed
<1>11. /\ t[n].delayed = db.delayed /\ t[n].dead = db.dead
       /\ t[n].attempts = db.attempts /\ t[n].strikes = db.strikes
       /\ t[n].listingNext = db.listingNext /\ t[n].barren = db.barren
       /\ t[n].bloom = db.bloom
  BY <1>10 DEF Others, Keys
<1>12. Len(c) \in 0..n /\ DOMAIN c = 1..Len(c) /\ c \in F!Sorted(z, Len(c), P)
  BY <1>1, <1>2, <1>8, ChosenSorted
<1>13. Made(db.seq, c, U) = F!Reminted(c)
  BY <1>12 DEF Made, F!Reminted, F!Mint, F!Sorted
<1>14. Len(c) \in 0..ReapBatchLimit
  BY <1>0, <1>1, <1>2, <1>12
<1>15. /\ db.seq + Len(c) <= MaxJob /\ db'.seq = db.seq + Len(c)
       /\ ToSet(db'.ready) = ToSet(db.ready) \cup F!Reminted(c)
       /\ ToSet(db'.processing) = ToSet(db.processing) \ P
       /\ db'.lease = F!Remove(db.lease, P)
  BY <1>0, <1>6, <1>8, <1>9, <1>13
<1> HIDE DEF U
<1> QED BY <1>0, <1>2, <1>6, <1>11, <1>12, <1>14, <1>15 DEF F!Reap, F!urlVars, z

\* Frontier counts as this module does.
LEMMA SameCardinality ==
    ASSUME NEW S
    PROVE  F!Cardinality(S) = Cardinality(S)
BY DEF F!Cardinality, Cardinality

\* A batch without repetition has as many members as turns.
LEMMA BatchSize ==
    ASSUME NEW n \in Nat, NEW f, \A i, k \in 1..n : i < k => f[i] # f[k]
    PROVE  F!Cardinality(Past(f, n)) = n
<1> DEFINE g == [i \in 1..n |-> f[i]]
           S == Past(f, n)
<1>1. \A i, k \in 1..n : f[i] = f[k] => i = k
  <2> SUFFICES ASSUME NEW i \in 1..n, NEW k \in 1..n, i # k PROVE f[i] # f[k]
    OBVIOUS
  <2>1. i < k \/ k < i
    OBVIOUS
  <2> QED BY <2>1
<1>2. g \in Bijection(1..n, S)
  BY <1>1 DEF Bijection, Injection, IsInjective, Surjection, Past
<1>3. ExistsBijection(1..n, S)
  BY <1>2 DEF ExistsBijection
<1>4. IsFiniteSet(1..n) /\ Cardinality(1..n) = n
  BY FS_Interval
<1> HIDE DEF S
<1>5. Cardinality(S) = n
  BY <1>3, <1>4, FS_Bijection
<1> QED BY <1>5, SameCardinality DEF S

\* The positions of a window of w at the end of a list of n.
LEMMA Positions ==
    ASSUME NEW n \in Nat, NEW w \in Nat, w <= n
    PROVE  /\ \A i \in 1..w : n - w + i \in 1..n
           /\ \A i, k \in 1..w : i < k => n - w + i < n - w + k
           /\ \A k \in 1..n : \/ \E i \in 1..w : n - w + i = k
                             \/ \A i \in 1..w : k < n - w + i
<1>1. ASSUME NEW k \in 1..n, ~(\A i \in 1..w : k < n - w + i)
      PROVE  \E i \in 1..w : n - w + i = k
  <2>1. PICK i \in 1..w : ~(k < n - w + i)
    BY <1>1
  <2> DEFINE p == k - (n - w)
  <2>2. p \in 1..w /\ n - w + p = k
    BY <2>1
  <2> HIDE DEF p
  <2> QED BY <2>2
<1> QED BY <1>1

\* The window of SWEEP: the last `limit' of the list q.
WindowOf(q, limit, w, b) ==
    /\ q \in Seq(Job) /\ Descending(q) /\ limit \in Nat
    /\ w \in Nat /\ w = IF Len(q) > limit THEN limit ELSE Len(q)
    /\ \A i \in 1..w : b[i] = q[Len(q) - w + i]

\* The members of q, from the oldest and from the newest.
Oldest(q) == [j \in ToSet(q) |-> j.id]

Newest(q) == [j \in ToSet(q) |-> -j.id]

\* A page of the oldest, met from the newest.
OldestPage(q, limit, w, b) ==
    /\ Past(b, w) \in F!Page(Oldest(q), ToSet(q), limit) /\ InOrder(b, w, Newest(q))
    /\ w <= limit /\ Past(b, w) \subseteq ToSet(q)
    /\ \A i \in 1..w : b[i] \in ToSet(q)

\* That is what the window is.
LEMMA Window ==
    ASSUME NEW q, NEW limit, NEW w, NEW b, WindowOf(q, limit, w, b)
    PROVE  OldestPage(q, limit, w, b)
<1> DEFINE n == Len(q)
           S == ToSet(q)
           W == Past(b, w)
           old == Oldest(q)
           new == Newest(q)
<1>0. /\ n \in Nat /\ DOMAIN q = 1..n /\ \A i \in 1..n : q[i] \in Job
      /\ w \in Nat /\ limit \in Nat
  BY DEF WindowOf
<1>a. \A i \in 1..w : b[i] = q[n - w + i]
  BY DEF WindowOf
<1>b. w = IF n > limit THEN limit ELSE n
  BY DEF WindowOf
<1> HIDE DEF n
<1>1. n \in Nat /\ w <= n /\ w <= limit /\ DOMAIN q = 1..n
  BY <1>0, <1>b
<1>2. w = IF n < limit THEN n ELSE limit
  BY <1>0, <1>b
<1>3. S = {q[i] : i \in 1..n}
  BY <1>1 DEF ToSet
<1>4. \A i \in 1..n : q[i] \in S /\ q[i].id \in Nat
  BY <1>0, <1>3 DEF Job
<1>5. \A i, k \in 1..n : i < k => q[k].id < q[i].id
  BY <1>1 DEF Descending, WindowOf
<1>6. \A i \in 1..w : n - w + i \in 1..n /\ b[i] = q[n - w + i]
  BY <1>0, <1>1, <1>a, Positions
<1>7. \A i \in 1..w : b[i] \in S
  BY <1>4, <1>6
<1>8. W \subseteq S
  BY <1>7 DEF Past
<1>9. \A x \in S : old[x] = x.id /\ new[x] = -x.id
  BY DEF Oldest, Newest
<1> HIDE DEF S, W, old, new
<1>10. ASSUME NEW i \in 1..w, NEW k \in 1..w, i < k
       PROVE  b[k].id < b[i].id /\ b[i].id \in Nat /\ b[k].id \in Nat
  <2> DEFINE x == n - w + i
             y == n - w + k
  <2>1. x \in 1..n /\ y \in 1..n /\ x < y
    BY <1>0, <1>1, <1>10, Positions
  <2>2. b[i] = q[x] /\ b[k] = q[y]
    BY <1>6
  <2> HIDE DEF x, y
  <2> QED BY <1>4, <1>5, <2>1, <2>2
<1>11. InOrder(b, w, new)
  <2> SUFFICES ASSUME NEW i \in 1..w, NEW k \in 1..w, i < k
               PROVE  b[i] # b[k] /\ new[b[i]] <= new[b[k]]
    BY DEF InOrder
  <2>1. b[k].id < b[i].id /\ b[i].id \in Nat /\ b[k].id \in Nat
    BY <1>10
  <2>2. new[b[i]] = -b[i].id /\ new[b[k]] = -b[k].id
    BY <1>7, <1>9
  <2>3. b[i].id # b[k].id
    BY <2>1
  <2>4. b[i] # b[k]
    BY <2>3
  <2> QED BY <2>1, <2>2, <2>4
<1>12. F!Cardinality(W) = w
  <2>1. \A i, k \in 1..w : i < k => b[i] # b[k]
    BY <1>11 DEF InOrder
  <2> QED BY <1>0, <2>1, BatchSize DEF W
<1>13. F!Cardinality(S) = n
  <2>1. \A i, k \in 1..n : i < k => q[i] # q[k]
    <3> SUFFICES ASSUME NEW i \in 1..n, NEW k \in 1..n, i < k PROVE q[i] # q[k]
      OBVIOUS
    <3>1. q[k].id < q[i].id /\ q[i].id \in Nat /\ q[k].id \in Nat
      BY <1>4, <1>5
    <3>2. q[k].id # q[i].id
      BY <3>1
    <3> QED BY <3>2
  <2>2. S = Past(q, n)
    BY <1>3 DEF Past
  <2> QED BY <1>1, <2>1, <2>2, BatchSize
<1>14. ASSUME NEW x \in W, NEW y \in S \ W PROVE old[x] <= old[y]
  <2>1. PICK i \in 1..w : x = b[i]
    BY DEF Past, W
  <2>2. PICK k \in 1..n : y = q[k]
    BY <1>3
  <2>3. ASSUME NEW p \in 1..w PROVE n - w + p # k
    <3>1. b[p] \in W /\ b[p] = q[n - w + p]
      BY <1>6 DEF Past, W
    <3> QED BY <2>2, <3>1
  <2> DEFINE o == n - w + i
  <2>4. o \in 1..n /\ k < o /\ x = q[o]
    <3>1. k < o
      BY <1>0, <1>1, <2>3, Positions
    <3> QED BY <1>6, <2>1, <3>1
  <2> HIDE DEF o
  <2>5. x.id < y.id /\ x.id \in Nat /\ y.id \in Nat
    BY <1>4, <1>5, <2>2, <2>4
  <2>6. x \in S
    BY <1>8
  <2> QED BY <1>9, <2>5, <2>6
<1>15. W \in F!Page(old, S, limit)
  BY <1>2, <1>8, <1>12, <1>13, <1>14 DEF F!Page
<1> QED BY <1>1, <1>7, <1>8, <1>11, <1>15 DEF OldestPage, S, W, old, new

\* A turn that is skipped changes nothing.
LEMMA SkippedEffect ==
    ASSUME NEW d, NEW I, NEW A, NEW s, NEW e, Turn(d, I, A, s, e), s = <<>>
    PROVE  e = d
<1>1. Len(s) = 0 /\ Len(s) \in Nat
  OBVIOUS
<1>2. After(d, s)[0] = d
  BY <1>1, AfterUnfolds
<1> QED BY <1>1, <1>2 DEF Turn

\* SWEEP.
LEMMA SweepRefines ==
    ASSUME Sound(db, issued, acked), aborts \in Nat, aborts' = 0, Call(luaSweep)
    PROVE  F!Sweep
<1> DEFINE loop == luaSweep
           q == db.processing
           S == ToSet(q)
           w == IF Len(q) > SweepBatchLimit THEN SweepBatchLimit ELSE Len(q)
           b == [i \in 1..w |-> q[Len(q) - w + i]]
           t == Turns(loop)
           z == Newest(q)
           W == Past(b, w)
           G == W \ DOMAIN db.lease
<1>0. /\ Run(loop) /\ UNCHANGED <<now, issued, acked>> /\ db'.seq <= MaxJob
      /\ SweepBatchLimit \in Nat
  BY FrontierAssumption DEF Call, Run, F!ConfigAssumption
<1>1. w \in Nat /\ q \in Seq(Job) /\ Descending(q)
  BY <1>0 DEF Sound, Shape, Order
<1>2. \A i \in 1..w : b[i] = q[Len(q) - w + i]
  OBVIOUS
<1>3. /\ Len(loop) = w /\ DOMAIN loop = 1..w
      /\ \A i \in 1..w : loop[i] = IF b[i] \in DOMAIN db.lease THEN <<>>
                                   ELSE <<Incr, Push(b[i].url), Unprocess(b[i])>>
  <2>1. loop = [i \in 1..w |-> IF b[i] \in DOMAIN db.lease THEN <<>>
                               ELSE <<Incr, Push(b[i].url), Unprocess(b[i])>>]
    BY <1>2 DEF luaSweep
  <2> HIDE DEF loop, w, b
  <2> QED BY <1>1, <2>1
<1>4. w = (IF Len(q) > SweepBatchLimit THEN SweepBatchLimit ELSE Len(q))
  OBVIOUS
<1> HIDE DEF loop, w, b
<1>5. /\ W \in F!Page(Oldest(q), S, SweepBatchLimit) /\ InOrder(b, w, z)
      /\ w <= SweepBatchLimit /\ W \subseteq S /\ \A i \in 1..w : b[i] \in S
  <2>1. WindowOf(q, SweepBatchLimit, w, b)
    BY <1>0, <1>1, <1>2, <1>4 DEF WindowOf
  <2>2. OldestPage(q, SweepBatchLimit, w, b)
    BY <2>1, Window
  <2> QED BY <2>2 DEF OldestPage
<1>6. ASSUME NEW i \in 1..w PROVE b[i] \in Job /\ b[i].id <= db.seq /\ b[i] \in W
  <2>1. b[i] \in Jobs(db)
    BY <1>5 DEF Jobs
  <2>2. b[i] \in W
    BY DEF Past
  <2> QED BY <2>1, <2>2, JobsTyped DEF Sound, Order
<1>7. \A d : \A i \in 1..w : Carried(d) => Carries(d, loop[i])
  <2> SUFFICES ASSUME NEW d, NEW i \in 1..w, Carried(d) PROVE Carries(d, loop[i])
    OBVIOUS
  <2>1. CASE b[i] \in DOMAIN db.lease
    BY <1>3, <2>1, NoCommands
  <2>2. CASE b[i] \notin DOMAIN db.lease
    BY <1>3, <1>6, <2>2, SweepTurn
  <2> QED BY <2>1, <2>2
<1>8. /\ db' = t[w] /\ t[0] = db
      /\ \A m \in 1..w : /\ Sound(t[m - 1], issued, acked)
                         /\ t[m] = After(t[m - 1], loop[m])[Len(loop[m])]
  BY <1>0, <1>1, <1>3, <1>7, WholeLoop
<1>9. \A m \in 1..w : b[m] \in G <=> b[m] \notin DOMAIN db.lease
  BY <1>6
<1> HIDE DEF t, z, W, G, S, q
<1>10. ASSUME NEW m \in 1..w
       PROVE  /\ b[m] \in G => Swept(t[m - 1], t[m], b[m])
              /\ b[m] \notin G => t[m] = t[m - 1]
  <2>1. Turn(t[m - 1], issued, acked, loop[m], t[m])
    BY <1>8 DEF Turn
  <2>2. CASE b[m] \in G
    <3>1. SweepTurnOf(b[m], loop[m])
      BY <1>3, <1>6, <1>9, <2>2 DEF SweepTurnOf
    <3> QED BY <2>1, <2>2, <3>1, SweepEffect
  <2>3. CASE b[m] \notin G
    <3>1. loop[m] = <<>>
      BY <1>3, <1>9, <2>3
    <3> QED BY <2>1, <2>3, <3>1, SkippedEffect
  <2> QED BY <2>2, <2>3
<1> DEFINE U == [x \in S |-> x.url]
<1>11. PICK c : /\ Chosen(b, w, G, z, c) /\ t[w].seq = db.seq + Len(c)
                /\ ToSet(t[w].ready) = ToSet(db.ready) \cup Made(db.seq, c, U)
  <2>1. MakesJobs(w, t, b, G, U)
    BY <1>5, <1>10 DEF MakesJobs, Swept
  <2>2. t[0].seq \in Nat
    BY <1>8 DEF Sound, Shape
  <2> HIDE DEF U
  <2>3. JobsMade(w, t, b, G, U, z)
    BY <1>1, <1>5, <2>1, <2>2, LoopJobs
  <2> QED BY <1>8, <2>3 DEF JobsMade
<1>12. ToSet(t[w].processing) = S \ G
  <2>1. Unlists(w, t, b, G)
    BY <1>10 DEF Unlists, Swept
  <2>2. Covers(b, w, G)
    BY DEF Covers, G, W
  <2>3. Unlisted(w, t, G)
    BY <1>1, <2>1, <2>2, LoopUnlists
  <2> QED BY <1>8, <2>3 DEF Unlisted, S, q
<1>13. Others(db, t[w], {"seq", "ready", "processing"})
  <2> DEFINE changed == {"seq", "ready", "processing"}
  <2>1. \A m \in 1..w : Others(t[m - 1], t[m], changed)
    BY <1>10 DEF Swept, Others
  <2> HIDE DEF changed
  <2>2. Others(t[0], t[w], changed)
    BY <1>1, <2>1, LoopOthers
  <2> QED BY <1>8, <2>2 DEF changed
<1>14. /\ t[w].delayed = db.delayed /\ t[w].dead = db.dead /\ t[w].lease = db.lease
       /\ t[w].attempts = db.attempts /\ t[w].strikes = db.strikes
       /\ t[w].listingNext = db.listingNext /\ t[w].barren = db.barren
       /\ t[w].bloom = db.bloom
  BY <1>13 DEF Others, Keys
<1>15. Len(c) \in 0..w /\ DOMAIN c = 1..Len(c) /\ c \in F!Sorted(z, Len(c), G)
  <2>1. G \subseteq Past(b, w)
    BY DEF G, W
  <2> QED BY <1>1, <1>11, <2>1, ChosenSorted
<1>16. Made(db.seq, c, U) = F!Reminted(c)
  <2>1. \A p \in 1..Len(c) : U[c[p]] = c[p].url
    BY <1>5, <1>15 DEF F!Sorted, G
  <2> HIDE DEF U
  <2> QED BY <1>15, <2>1 DEF Made, F!Reminted, F!Mint
<1>17. Len(c) \in 0..SweepBatchLimit
  BY <1>0, <1>1, <1>5, <1>15
<1>18. /\ db.seq + Len(c) <= MaxJob /\ db'.seq = db.seq + Len(c)
       /\ ToSet(db'.ready) = ToSet(db.ready) \cup F!Reminted(c)
       /\ ToSet(db'.processing) = S \ G
  BY <1>0, <1>8, <1>11, <1>12, <1>16
<1> HIDE DEF U
<1>19. \E x \in F!Page(Oldest(q), S, SweepBatchLimit), k \in 0..SweepBatchLimit :
          \E y \in F!Sorted(Newest(q), k, x \ DOMAIN db.lease) :
             /\ db.seq + k <= MaxJob
             /\ db'.seq = db.seq + k
             /\ ToSet(db'.ready) = ToSet(db.ready) \cup F!Reminted(y)
             /\ ToSet(db'.processing) = S \ (x \ DOMAIN db.lease)
             /\ UNCHANGED <<db.lease, db.delayed, F!urlVars, now, issued>>
  <2>1. UNCHANGED <<db.lease, db.delayed, F!urlVars, now, issued>>
    BY <1>0, <1>8, <1>14 DEF F!urlVars
  <2> QED BY <1>5, <1>15, <1>17, <1>18, <2>1 DEF G, z
<1> QED BY <1>19, Zenon DEF F!Sweep, Oldest, Newest, S, q

\* The schedule z after the scheduler has met the listings Q, of which it
\* requeues those in free; D are the dead.
Walk(z, D, Q, free) ==
    [l \in DOMAIN z \ {x \in Q \ free : D[x] = 0} |->
        IF l \in Q \cap free THEN PendingScore ELSE IF l \in Q THEN D[l] ELSE z[l]]

\* The effect of one turn on it.
Stepped(g, h, D, x, free) ==
    /\ x \in free => h = F!ZAdd(g, x, PendingScore)
    /\ x \notin free /\ D[x] = 0 => h = Without(g, x)
    /\ x \notin free /\ D[x] # 0 => h = F!ZAdd(g, x, D[x])

\* One listing more.
LEMMA WalkGrows ==
    ASSUME NEW z, NEW D, NEW Q, NEW free, NEW x, x \in DOMAIN z,
           NEW g, g = Walk(z, D, Q, free), NEW K, K = Q \cup {x},
           NEW h, Stepped(g, h, D, x, free)
    PROVE  h = Walk(z, D, K, free)
<1> DEFINE gone == {y \in Q \ free : D[y] = 0}
           went == {y \in K \ free : D[y] = 0}
           u == Walk(z, D, K, free)
<1>1. /\ DOMAIN g = DOMAIN z \ gone
      /\ \A l \in DOMAIN z \ gone :
            g[l] = IF l \in Q \cap free THEN PendingScore ELSE IF l \in Q THEN D[l] ELSE z[l]
  BY DEF Walk
<1>2. /\ DOMAIN u = DOMAIN z \ went
      /\ \A l \in DOMAIN z \ went :
            u[l] = IF l \in K \cap free THEN PendingScore ELSE IF l \in K THEN D[l] ELSE z[l]
  BY DEF Walk
<1>3. u = [l \in DOMAIN u |-> u[l]]
  BY DEF Walk
<1>4. \A l : l \in gone <=> l \in Q /\ l \notin free /\ D[l] = 0
  OBVIOUS
<1>5. \A l : l \in went <=> (l \in Q \/ l = x) /\ l \notin free /\ D[l] = 0
  OBVIOUS
<1> HIDE DEF gone, went, u
<1>6. ASSUME NEW score, x \notin went, h = F!ZAdd(g, x, score),
             score = (IF x \in free THEN PendingScore ELSE D[x])
      PROVE  h = u
  <2>1. h = [l \in DOMAIN g \cup {x} |-> IF l = x THEN score ELSE g[l]]
    BY <1>6 DEF F!ZAdd
  <2>2. DOMAIN g \cup {x} = DOMAIN u
    BY <1>1, <1>2, <1>4, <1>5, <1>6
  <2>3. \A l \in DOMAIN u : (IF l = x THEN score ELSE g[l]) = u[l]
    <3> SUFFICES ASSUME NEW l \in DOMAIN u PROVE (IF l = x THEN score ELSE g[l]) = u[l]
      OBVIOUS
    <3>1. l \in DOMAIN z \ went
      BY <1>2
    <3>2. CASE l = x
      <4>1. l \in K
        BY <3>2
      <4> QED BY <1>2, <1>6, <3>1, <3>2, <4>1
    <3>3. CASE l # x
      <4>1. l \in DOMAIN z \ gone /\ (l \in K <=> l \in Q)
        BY <1>4, <1>5, <3>1, <3>3
      <4> QED BY <1>1, <1>2, <3>1, <3>3, <4>1
    <3> QED BY <3>2, <3>3
  <2>4. h = [l \in DOMAIN u |-> IF l = x THEN score ELSE g[l]]
    BY <2>1, <2>2
  <2> QED BY <1>3, <2>3, <2>4
<1>7. ASSUME x \in went, h = Without(g, x) PROVE h = u
  <2>1. h = [l \in DOMAIN g \ {x} |-> g[l]]
    BY <1>7, RemovedAll DEF Without
  <2>2. DOMAIN g \ {x} = DOMAIN u
    BY <1>1, <1>2, <1>4, <1>5, <1>7
  <2>3. \A l \in DOMAIN u : g[l] = u[l]
    <3> SUFFICES ASSUME NEW l \in DOMAIN u PROVE g[l] = u[l]
      OBVIOUS
    <3>1. l \in DOMAIN z \ went /\ l # x
      BY <1>2, <1>7
    <3>2. l \in DOMAIN z \ gone /\ (l \in K <=> l \in Q)
      BY <1>4, <1>5, <3>1
    <3> QED BY <1>1, <1>2, <3>1, <3>2
  <2>4. h = [l \in DOMAIN u |-> g[l]]
    BY <2>1, <2>2
  <2> QED BY <1>3, <2>3, <2>4
<1>8. CASE x \in free
  <2>1. x \notin went /\ h = F!ZAdd(g, x, PendingScore)
    BY <1>5, <1>8 DEF Stepped
  <2> QED BY <1>6, <1>8, <2>1 DEF u
<1>9. CASE x \notin free /\ D[x] = 0
  <2>1. x \in went /\ h = Without(g, x)
    BY <1>5, <1>9 DEF Stepped
  <2> QED BY <1>7, <2>1 DEF u
<1>10. CASE x \notin free /\ D[x] # 0
  <2>1. x \notin went /\ h = F!ZAdd(g, x, D[x])
    BY <1>5, <1>10 DEF Stepped
  <2> QED BY <1>6, <1>10, <2>1 DEF u
<1> QED BY <1>8, <1>9, <1>10

\* A loop over the schedule.
Walks(n, t, b, D, free) ==
    \A m \in 1..n : /\ b[m] \in DOMAIN t[0].listingNext
                    /\ Stepped(t[m - 1].listingNext, t[m].listingNext, D, b[m], free)

\* What it leaves.
Walked(n, t, b, D, free) ==
    t[n].listingNext = Walk(t[0].listingNext, D, Past(b, n), free)

\* Turn by turn.
LEMMA LoopWalks ==
    ASSUME NEW n, n \in Nat, NEW t, Hash(t[0].listingNext), NEW b, NEW D, NEW free,
           Walks(n, t, b, D, free)
    PROVE  Walked(n, t, b, D, free)
<1> DEFINE z == t[0].listingNext
           S == {m \in 0..n : t[m].listingNext = Walk(z, D, Past(b, m), free)}
<1>1. 0 \in S
  <2>1. 0 \in Nat
    OBVIOUS
  <2>2. Past(b, 0) = {}
    BY <2>1, PastGrows
  <2>3. Walk(z, D, {}, free) = z
    <3>1. z = [l \in DOMAIN z |-> z[l]]
      BY DEF Hash
    <3> HIDE DEF z
    <3>2. Walk(z, D, {}, free) = [l \in DOMAIN z |-> z[l]]
      BY DEF Walk
    <3> QED BY <3>1, <3>2
  <2> QED BY <2>2, <2>3
<1>2. \A m \in 0..(n - 1) : m \in S => m + 1 \in S
  <2> SUFFICES ASSUME NEW m \in 0..(n - 1),
                      t[m].listingNext = Walk(z, D, Past(b, m), free)
               PROVE  t[m + 1].listingNext = Walk(z, D, Past(b, m + 1), free) /\ m + 1 \in 0..n
    OBVIOUS
  <2>1. m + 1 \in 1..n /\ m + 1 - 1 = m /\ m \in Nat
    OBVIOUS
  <2>2. b[m + 1] \in DOMAIN z /\ Stepped(t[m].listingNext, t[m + 1].listingNext, D, b[m + 1], free)
    BY <2>1 DEF Walks
  <2>3. Past(b, m + 1) = Past(b, m) \cup {b[m + 1]}
    BY <2>1, PastGrows
  <2> DEFINE x == b[m + 1]
             g == t[m].listingNext
             h == t[m + 1].listingNext
             K == Past(b, m + 1)
             Q == Past(b, m)
  <2>4. g = Walk(z, D, Q, free) /\ K = Q \cup {x} /\ x \in DOMAIN z /\ Stepped(g, h, D, x, free)
    BY <2>2, <2>3
  <2>5. h = Walk(z, D, K, free)
    <3> HIDE DEF x, g, h, K, Q, z
    <3> QED BY <2>4, WalkGrows
  <2> QED BY <2>1, <2>5
<1>3. \A m \in 0..n : m \in S
  <2> HIDE DEF S
  <2> QED BY <1>1, <1>2, CountUp
<1> QED BY <1>3 DEF Walked

\* A turn of the listing scheduler on a dead listing.
PutOffTurnOf(l, D, s) ==
    s = <<IF D[l] = 0 THEN Del("listingNext", l) ELSE Set("listingNext", l, D[l])>>

PutOff(d, e, l, D) ==
    /\ D[l] = 0 => e.listingNext = Without(d.listingNext, l)
    /\ D[l] # 0 => e.listingNext = F!ZAdd(d.listingNext, l, D[l])
    /\ Others(d, e, {"listingNext"})

\* Its effect.
LEMMA PutOffEffect ==
    ASSUME NEW d, NEW I, NEW A, NEW s, NEW e, Turn(d, I, A, s, e),
           NEW l, NEW D, PutOffTurnOf(l, D, s)
    PROVE  PutOff(d, e, l, D)
<1> DEFINE c == IF D[l] = 0 THEN Del("listingNext", l) ELSE Set("listingNext", l, D[l])
           t == After(d, s)
<1>1. Len(s) = 1 /\ t[0] = d /\ t[1] = Exec(d, c)
  BY PrefixesOne DEF PutOffTurnOf
<1>2. DOMAIN d = Keys /\ e = Exec(d, c)
  BY <1>1 DEF Turn, Sound, Shape
<1> HIDE DEF t
<1>3. CASE D[l] = 0
  <2>1. e = Exec(d, Del("listingNext", l))
    BY <1>2, <1>3
  <2>2. e.listingNext = Without(d.listingNext, l) /\ Same(d, e, "listingNext")
    BY <1>2, <2>1, DelEffect DEF Keys
  <2> QED BY <1>3, <2>2 DEF PutOff, Others, Same
<1>4. CASE D[l] # 0
  <2>1. e = Exec(d, Set("listingNext", l, D[l]))
    BY <1>2, <1>4
  <2>2. e.listingNext = F!ZAdd(d.listingNext, l, D[l]) /\ Same(d, e, "listingNext")
    BY <1>2, <2>1, SetEffect DEF Keys
  <2> QED BY <1>4, <2>2 DEF PutOff, Others, Same
<1> QED BY <1>3, <1>4

\* The listing scheduler.
LEMMA SchedulerRefines ==
    ASSUME Sound(db, issued, acked), aborts \in Nat, aborts' = 0,
           NEW b \in DueBatches(db.listingNext, SchedulerBatchLimit),
           Call(luaListingScheduler(b))
    PROVE  F!RunListingScheduler
<1> DEFINE loop == luaListingScheduler(b)
           n == Len(b)
           t == Turns(loop)
           z == db.listingNext
           D == db.dead
<1>0. /\ Run(loop) /\ UNCHANGED <<now, issued, acked>> /\ db'.seq <= MaxJob
      /\ SchedulerBatchLimit \in Nat
  BY FrontierAssumption DEF Call, Run, F!ConfigAssumption
<1>1. /\ n \in Nat /\ DOMAIN b = 1..n /\ \A i \in 1..n : b[i] \in DOMAIN z
  BY Batch
<1>2. PICK P \in F!Page(z, F!Due(z), SchedulerBatchLimit) :
         /\ n \in 0..SchedulerBatchLimit /\ P = Past(b, n) /\ P \subseteq DOMAIN z
         /\ InOrder(b, n, z)
  BY <1>0, BatchOrder
<1> DEFINE putOff(l) == IF D[l] = 0 THEN Del("listingNext", l) ELSE Set("listingNext", l, D[l])
           free == {l \in P : ~F!Blocked(l)}
<1>3. /\ Len(loop) = n /\ DOMAIN loop = 1..n
      /\ \A i \in 1..n :
            loop[i] = IF F!Blocked(b[i]) THEN <<putOff(b[i])>>
                      ELSE <<Del("dead", b[i]), Incr, Push(b[i]),
                             Set("listingNext", b[i], PendingScore)>>
  BY <1>1 DEF luaListingScheduler
<1> HIDE DEF loop, n, putOff
<1>4. \A i \in 1..n : b[i] \in Listing /\ b[i] \in P
  BY <1>1, <1>2 DEF Past, Sound, Shape
<1>5. \A d : \A i \in 1..n : Carried(d) => Carries(d, loop[i])
  <2> SUFFICES ASSUME NEW d, NEW i \in 1..n, Carried(d) PROVE Carries(d, loop[i])
    OBVIOUS
  <2> DEFINE l == b[i]
  <2>1. l \in Listing
    BY <1>4
  <2>2. CASE F!Blocked(l)
    <3> DEFINE x == D[l]
    <3>1. x # PendingScore
      BY <2>2 DEF F!Blocked, Sound, Shape
    <3>2. loop[i] = <<Del("listingNext", l)>> \/ loop[i] = <<Set("listingNext", l, x)>>
      BY <1>3, <2>2 DEF putOff
    <3> HIDE DEF l, x
    <3> QED BY <2>1, <3>1, <3>2, PutOffTurn
  <2>3. CASE ~F!Blocked(l)
    <3>1. loop[i] = <<Del("dead", l), Incr, Push(l), Set("listingNext", l, PendingScore)>>
      BY <1>3, <2>3
    <3> HIDE DEF l
    <3> QED BY <2>1, <3>1, ScheduleTurn
  <2> QED BY <2>2, <2>3
<1>6. /\ db' = t[n] /\ t[0] = db
      /\ \A m \in 1..n : /\ Sound(t[m - 1], issued, acked)
                         /\ t[m] = After(t[m - 1], loop[m])[Len(loop[m])]
  BY <1>0, <1>1, <1>3, <1>5, WholeLoop
<1>7. \A m \in 1..n : b[m] \in free <=> ~F!Blocked(b[m])
  BY <1>4
<1>a. free \subseteq P
  OBVIOUS
<1>b. t[0].listingNext = z /\ t[0].dead = D
  BY <1>6
<1> HIDE DEF t, z, D, free
<1>8. ASSUME NEW m \in 1..n
      PROVE  /\ b[m] \in free => Scheduled(t[m - 1], t[m], b[m])
             /\ b[m] \notin free => PutOff(t[m - 1], t[m], b[m], D)
  <2>1. Turn(t[m - 1], issued, acked, loop[m], t[m])
    BY <1>6 DEF Turn
  <2>2. CASE b[m] \in free
    <3>1. ScheduleTurnOf(b[m], loop[m])
      BY <1>3, <1>4, <1>7, <2>2 DEF ScheduleTurnOf
    <3> QED BY <2>1, <2>2, <3>1, ScheduleEffect
  <2>3. CASE b[m] \notin free
    <3>1. PutOffTurnOf(b[m], D, loop[m])
      BY <1>3, <1>7, <2>3 DEF PutOffTurnOf, putOff
    <3> QED BY <2>1, <2>3, <3>1, PutOffEffect
  <2> QED BY <2>2, <2>3
<1> DEFINE U == [x \in P |-> x]
<1>9. PICK c : /\ Chosen(b, n, free, z, c) /\ t[n].seq = db.seq + Len(c)
               /\ ToSet(t[n].ready) = ToSet(db.ready) \cup Made(db.seq, c, U)
  <2>1. MakesJobs(n, t, b, free, U)
    <3> SUFFICES ASSUME NEW m \in 1..n
                 PROVE  /\ b[m] \in free => GotJob(t[m - 1], t[m], U[b[m]])
                        /\ b[m] \notin free => /\ t[m].seq = t[m - 1].seq
                                               /\ t[m].ready = t[m - 1].ready
      BY DEF MakesJobs
    <3>1. U[b[m]] = b[m]
      BY <1>4
    <3> HIDE DEF U
    <3> QED BY <1>8, <3>1 DEF Scheduled, PutOff, Others, Keys
  <2>2. t[0].seq \in Nat
    BY <1>6 DEF Sound, Shape
  <2> HIDE DEF U
  <2>3. JobsMade(n, t, b, free, U, z)
    BY <1>1, <1>2, <2>1, <2>2, LoopJobs
  <2> QED BY <1>6, <2>3 DEF JobsMade
<1>10. t[n].dead = F!Remove(D, free)
  <2> DEFINE key == "dead"
  <2>1. Unhashes(n, t, key, b, free)
    BY <1>8 DEF Unhashes, Scheduled, PutOff, Others, Keys
  <2>2. Hashed(n, t, key) /\ Covers(b, n, free)
    BY <1>2, <1>6, <1>a DEF Sound, Shape, Hashed, Covers
  <2> HIDE DEF key
  <2>3. Unhashed(n, t, key, free)
    BY <1>1, <2>1, <2>2, LoopUnhashes
  <2> QED BY <1>b, <2>3 DEF key, Unhashed
<1>11. t[n].listingNext = Walk(z, D, P, free)
  <2>1. Walks(n, t, b, D, free)
    BY <1>1, <1>8, <1>b DEF Walks, Stepped, Scheduled, PutOff
  <2>2. Hash(t[0].listingNext)
    BY <1>6 DEF Sound, Shape
  <2>3. Walked(n, t, b, D, free)
    BY <1>1, <2>1, <2>2, LoopWalks
  <2> QED BY <1>2, <1>b, <2>3 DEF Walked
<1>12. Others(db, t[n], {"seq", "ready", "dead", "listingNext"})
  <2> DEFINE changed == {"seq", "ready", "dead", "listingNext"}
  <2>1. \A m \in 1..n : Others(t[m - 1], t[m], changed)
    BY <1>8 DEF Scheduled, PutOff, Others
  <2> HIDE DEF changed
  <2>2. Others(t[0], t[n], changed)
    BY <1>1, <2>1, LoopOthers
  <2> QED BY <1>6, <2>2 DEF changed
<1>13. /\ t[n].processing = db.processing /\ t[n].lease = db.lease
       /\ t[n].delayed = db.delayed
       /\ t[n].attempts = db.attempts /\ t[n].strikes = db.strikes
       /\ t[n].barren = db.barren /\ t[n].bloom = db.bloom
  BY <1>12 DEF Others, Keys
<1>14. Len(c) \in 0..n /\ DOMAIN c = 1..Len(c) /\ c \in F!Sorted(z, Len(c), free)
  <2>1. free \subseteq Past(b, n)
    BY <1>2, <1>a
  <2> QED BY <1>1, <1>9, <2>1, ChosenSorted
<1>15. Made(db.seq, c, U) = {F!Mint(i, c[i]) : i \in 1..Len(c)}
  <2>1. \A p \in 1..Len(c) : U[c[p]] = c[p]
    BY <1>14, <1>a DEF F!Sorted
  <2> HIDE DEF U
  <2> QED BY <2>1 DEF Made, F!Mint
<1>16. Len(c) \in 0..SchedulerBatchLimit
  BY <1>0, <1>1, <1>2, <1>14
<1>17. Walk(z, D, P, free) = F!ScheduleAfter(P, free)
  <2>1. P \cap free = free
    BY <1>a
  <2> QED BY <2>1 DEF Walk, F!ScheduleAfter, z, D
<1>18. /\ db.seq + Len(c) <= MaxJob /\ db'.seq = db.seq + Len(c)
       /\ ToSet(db'.ready) = ToSet(db.ready) \cup {F!Mint(i, c[i]) : i \in 1..Len(c)}
       /\ db'.dead = F!Remove(db.dead, free)
       /\ db'.listingNext = F!ScheduleAfter(P, free)
  BY <1>0, <1>6, <1>9, <1>10, <1>11, <1>15, <1>17 DEF D
<1> HIDE DEF U
<1>19. /\ db'.processing = db.processing /\ db'.lease = db.lease
       /\ db'.delayed = db.delayed /\ Counters(db'.attempts) = Counters(db.attempts)
       /\ Counters(db'.strikes) = Counters(db.strikes)
       /\ db'.barren = db.barren /\ db'.bloom = db.bloom
  BY <1>6, <1>13
<1>20. /\ c \in F!Sorted(db.listingNext, Len(c), free)
       /\ P \in F!Page(db.listingNext, F!Due(db.listingNext), SchedulerBatchLimit)
  BY <1>2, <1>14 DEF z
<1> QED BY <1>0, <1>16, <1>18, <1>19, <1>20 DEF F!RunListingScheduler, F!Revive, free

-----------------------------------------------------------------------------
(* The refinement.                                                         *)

\* An empty Redis, in the terms of Frontier.
LEMMA InitRefines ==
    ASSUME Init
    PROVE  F!Init
<1>1. /\ db.seq = 0 /\ db.ready = <<>> /\ db.processing = <<>>
      /\ db.lease = F!Empty /\ db.delayed = F!Empty /\ db.dead = F!Empty
      /\ db.attempts = F!Empty /\ db.strikes = F!Empty
      /\ db.listingNext = F!Empty /\ db.barren = F!Empty /\ db.bloom = {}
      /\ now = 1 /\ issued = {} /\ acked = {}
  BY DEF Init
<1>2. ToSet(<<>>) = {}
  BY DEF ToSet
<1>3. Counters(F!Empty) = [u \in F!URL |-> 0]
  BY DEF Counters, F!Empty, F!URL
<1>4. F!Empty = [l \in {} |-> 0]
  BY DEF F!Empty
<1> QED BY <1>1, <1>2, <1>3, <1>4 DEF F!Init

\* No error takes the count of errors below the last one.
LEMMA AbortsGrow ==
    ASSUME aborts \in Nat, [Next]_vars
    PROVE  aborts' \in Nat
<1>1. CASE UNCHANGED vars
  BY <1>1 DEF vars
<1>2. CASE Next
  <2>1. \/ aborts' = aborts \/ aborts' = aborts + 1
    BY <1>2 DEF Next, Call, Run, Whole, Aborted, Lease, LeaseCut, Resolve, Ack, Reconcile, Tick
  <2> QED BY <2>1
<1> QED BY <1>1, <1>2

\* What a holder does with a job.
LEMMA ResolveRefines ==
    ASSUME Sound(db, issued, acked), aborts \in Nat, aborts' = 0, NEW j, Resolve(j)
    PROVE  F!Resolve(j)
<1>1. CASE j.url \in Video /\ Ack(j)
  <2>1. F!Ack(j)
    BY <1>1, AckRefines
  <2> QED BY <1>1, <2>1 DEF F!Resolve
<1>2. CASE Call(<<luaNack(j)>>)
  <2>1. F!Nack(j)
    BY <1>2, NackRefines
  <2> QED BY <2>1 DEF F!Resolve
<1>3. CASE Call(<<luaTerminal(j)>>)
  <2>1. F!Terminal(j)
    BY <1>3, TerminalRefines
  <2> QED BY <2>1 DEF F!Resolve
<1>4. ASSUME NEW class \in {"rateLimited", "strikeable"}, Call(<<luaFail(j, class)>>)
      PROVE  F!Resolve(j)
  <2>1. F!Fail(j, class)
    BY <1>4, FailRefines
  <2> QED BY <2>1 DEF F!Resolve
<1>5. ASSUME j.url \in Listing, NEW found \in BOOLEAN, Call(<<luaCompleteListing(j, found)>>)
      PROVE  F!Resolve(j)
  <2>1. F!CompleteListing(j, found)
    BY <1>5, CompleteListingRefines
  <2> QED BY <1>5, <2>1 DEF F!Resolve
<1> QED BY <1>1, <1>2, <1>3, <1>4, <1>5 DEF Resolve

\* Every step until the first error is a step of Frontier.
LEMMA StepRefines ==
    ASSUME ScriptInv, aborts \in Nat, Next, aborts' = 0
    PROVE  F!Next
<1>0. Sound(db, issued, acked)
  BY DEF ScriptInv
<1>1. ASSUME NEW v \in Video, Call(<<luaAdmitVideo(v)>>) PROVE F!Next
  <2>1. F!AdmitVideo(v)
    BY <1>0, <1>1, AdmitVideoRefines
  <2> QED BY <2>1 DEF F!Next
<1>2. ASSUME NEW l \in Listing, Call(<<luaAdmitListing(l)>>) PROVE F!Next
  <2>1. F!AdmitListing(l)
    BY <1>0, <1>2, AdmitListingRefines
  <2> QED BY <2>1 DEF F!Next
<1>3. CASE Lease
  <2>1. F!Lease
    BY <1>0, <1>3, LeaseRefines
  <2> QED BY <2>1 DEF F!Next
<1>4. CASE LeaseCut
  <2>1. F!LeaseAborted
    BY <1>0, <1>4, LeaseCutRefines
  <2> QED BY <2>1 DEF F!Next
<1>5. ASSUME NEW j \in issued, Resolve(j) PROVE F!Next
  <2>1. F!Resolve(j)
    BY <1>0, <1>5, ResolveRefines
  <2> QED BY <2>1 DEF F!Next
<1>6. ASSUME NEW b \in DueBatches(db.delayed, PromoteBatchLimit), Call(luaPromote(b))
      PROVE  F!Next
  <2>1. F!Promote
    BY <1>0, <1>6, PromoteRefines
  <2> QED BY <2>1 DEF F!Next
<1>7. ASSUME NEW b \in DueBatches(db.lease, ReapBatchLimit), Call(luaReap(b))
      PROVE  F!Next
  <2>1. F!Reap
    BY <1>0, <1>7, ReapRefines
  <2> QED BY <2>1 DEF F!Next
<1>8. CASE Call(luaSweep)
  <2>1. F!Sweep
    BY <1>0, <1>8, SweepRefines
  <2> QED BY <2>1 DEF F!Next
<1>9. ASSUME NEW b \in DueBatches(db.listingNext, SchedulerBatchLimit),
             Call(luaListingScheduler(b))
      PROVE  F!Next
  <2>1. F!RunListingScheduler
    BY <1>0, <1>9, SchedulerRefines
  <2> QED BY <2>1 DEF F!Next
<1>10. CASE Tick
  <2>1. F!Tick
    BY <1>10 DEF Tick, F!Tick, F!urlVars
  <2> QED BY <2>1 DEF F!Next
<1>11. CASE Reconcile
  BY <1>6, <1>7, <1>8, <1>9, <1>11 DEF Reconcile
<1> QED BY <1>1, <1>2, <1>3, <1>4, <1>5, <1>10, <1>11 DEF Next

\* Until an error cuts one short, the scripts implement Frontier: what they do
\* command by command on lists, sorted sets and hashes, and turn by turn over
\* a batch, is what Frontier does in one step on sets of jobs.
THEOREM ScriptsRefine == Spec => ImplementsFrontier
<1>1. Init => F!Init /\ aborts \in Nat
  BY InitRefines DEF Init
<1>2. aborts \in Nat /\ [Next]_vars => (aborts \in Nat)'
  BY AbortsGrow
<1>3. ScriptInv /\ aborts \in Nat /\ [Next]_vars => [aborts' = 0 => F!Next]_(F!vars)
  <2> SUFFICES ASSUME ScriptInv, aborts \in Nat, [Next]_vars, aborts' = 0
               PROVE  F!Next \/ UNCHANGED F!vars
    OBVIOUS
  <2>1. CASE UNCHANGED vars
    BY <2>1 DEF vars, F!vars
  <2>2. CASE Next
    BY <2>2, StepRefines
  <2> QED BY <2>1, <2>2
<1> QED BY <1>1, <1>2, <1>3, ScriptsStaySound, PTL DEF Spec, ImplementsFrontier
=============================================================================
