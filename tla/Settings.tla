------------------------------ MODULE Settings ------------------------------
(***************************************************************************)
(* What the environment makes of the settings                              *)
(* (src/internal/config/config.go) and what main accepts of them before it *)
(* touches any storage (src/cmd/crawler/main.go).  One environment, the    *)
(* .env file of the host, serves production and the bounded test; either   *)
(* may be started, in any order.                                           *)
(*                                                                         *)
(* An integer variable holds a list of tokens, as Split and Atoi see them; *)
(* an unset or empty one holds none.  A port is a text: digits, with any   *)
(* number of leading zeros, and before them perhaps a plus sign.           *)
(***************************************************************************)
EXTENDS Integers, Sequences

CONSTANTS
    Token,        \* [ok : BOOLEAN, n : Int]: what Atoi says of a token
    Port,         \* [plus : BOOLEAN, zeros : Nat, n : Nat]
    TestRedis,    \* 16379
    TestMongo,    \* 37017
    RedisPort,    \* the ports in effect when nothing is set
    MongoPort,
    TestWorkers,  \* 100
    TestRate,     \* 30 seconds
    MaxProxies,   \* bound on the proxies listed
    MaxAttempts   \* bound on the failures of a URL

ASSUME SettingsAssumption ==
    /\ Token \subseteq [ok : BOOLEAN, n : Int]
    /\ Port \subseteq [plus : BOOLEAN, zeros : Nat, n : Nat]
    /\ TestRedis # RedisPort /\ TestMongo # MongoPort
    /\ MaxAttempts \in Nat

VARIABLES
    env,          \* the environment of the host
    production,   \* the settings of a running production crawler, or none
    test          \* those of a bounded test whose crawl has started

svars == <<env, production, test>>

\* An absent value is the empty sequence, a present one a singleton.
Optional(S) == {<<>>} \cup {<<x>> : x \in S}

Raw == {<<>>} \cup {<<t>> : t \in Token} \cup {<<s, t>> : s, t \in Token}

\* A host of an address comes without a port, or with one.  The other
\* variables are read like these and meet no guard.
Environment ==
    [rate : Optional(Token), limited : Raw, strike : Raw,
     redis : Optional(Optional(Port)),
     mongo : Optional({<<>>} \cup {<<h>> : h \in Optional(Port)}
                         \cup {<<g, h>> : g, h \in Optional(Port)}),
     proxies : 0..MaxProxies]

\* A port as the code writes it.
Plain(n) == [plus |-> FALSE, zeros |-> 0, n |-> n]

-----------------------------------------------------------------------------
(* config.go.                                                              *)

getEnvInt(raw, def) == IF raw # <<>> /\ raw[1].ok THEN raw[1].n ELSE def

\* A malformed token makes the whole override fall back.
getEnvIntSlice_Skips(raw, def) ==
    IF raw = <<>> THEN def
    ELSE LET good == SelectSeq(raw, LAMBDA t : t.ok)
         IN  [i \in DOMAIN good |-> good[i].n]

getEnvIntSlice(raw, def) ==
    IF raw # <<>> /\ \A i \in DOMAIN raw : raw[i].ok
    THEN [i \in DOMAIN raw |-> raw[i].n] ELSE def

DefaultLimited == <<300, 900, 2700>>

DefaultStrike == <<60, 300, 1500>>

Load(e) ==
    [rate    |-> getEnvInt(e.rate, 15),
     limited |-> getEnvIntSlice(e.limited, DefaultLimited),
     strike  |-> getEnvIntSlice(e.strike, DefaultStrike),
     redis   |-> IF e.redis = <<>> THEN <<Plain(RedisPort)>> ELSE e.redis[1],
     mongo   |-> IF e.mongo = <<>> THEN <<<<Plain(MongoPort)>>>> ELSE e.mongo[1],
     db      |-> "vidlii",
     proxies |-> e.proxies]

\* Fixed endpoints, and no fewer seconds between requests than RunTest wants.
\* Workers, which only a test's guards look at, is TestWorkers there.
LoadTest(e) ==
    [Load(e) EXCEPT !.redis = <<Plain(TestRedis)>>,
                    !.mongo = <<<<Plain(TestMongo)>>>>,
                    !.db = "gfap_test",
                    !.rate = IF @ < TestRate THEN TestRate ELSE @]

\* The seconds that luaFail lets a URL wait after so many failures: it counts on
\* to the last entry of the ladder it was given, and there must be one.
Backoff(ladder, attempts) ==
    ladder[IF attempts > Len(ladder) THEN Len(ladder) ELSE attempts]

-----------------------------------------------------------------------------
(* main.go.                                                                *)

\* TrimLeft(port, "0") is the text of the reserved number: zeros in front of it
\* are cut off, a sign is not.
IsPort_Untrimmed(p, reserved) == ~p.plus /\ p.zeros = 0 /\ p.n = reserved

IsPort(p, reserved) == ~p.plus /\ p.n = reserved

\* The address has a port, and it is not the one of the test Redis.
RedisAccepted(c) == c.redis # <<>> /\ ~IsPort(c.redis[1], TestRedis)

\* url.Parse wants nothing but digits after the last colon of the hosts, so a port
\* of the last host, or no port at all.
UrlParses(hosts) ==
    /\ hosts # <<>>
    /\ \/ \A i \in DOMAIN hosts : hosts[i] = <<>>
       \/ LET last == hosts[Len(hosts)] IN last # <<>> /\ ~last[1].plus

\* The URI has a host, and no host has the port of the test Mongo; a host
\* without a port is not looked at.
MongoAccepted(c) ==
    /\ UrlParses(c.mongo)
    /\ \A i \in DOMAIN c.mongo :
          c.mongo[i] # <<>> => ~IsPort(c.mongo[i][1], TestMongo)

\* ApplyURI reads a sign in a host as a blank and wants a number for a port.
MongoOpens(c) == \A i \in DOMAIN c.mongo : c.mongo[i] # <<>> => ~c.mongo[i][1].plus

\* Production starts, or ends in log.Fatal before it writes anything.
StartProduction ==
    LET c == Load(env)
    IN  /\ production = <<>>
        /\ RedisAccepted(c) /\ c.db # "gfap_test"
        /\ MongoAccepted(c) /\ MongoOpens(c)
        /\ production' = <<c>>
        /\ UNCHANGED <<env, test>>

\* The test starts; RunTest has guards of its own.
StartTest ==
    LET c == LoadTest(env)
    IN  /\ test = <<>>
        /\ TestWorkers >= 2 /\ c.rate >= TestRate /\ c.proxies >= TestWorkers
        /\ test' = <<c>>
        /\ UNCHANGED <<env, production>>

StopProduction ==
    production # <<>> /\ production' = <<>> /\ UNCHANGED <<env, test>>

StopTest == test # <<>> /\ test' = <<>> /\ UNCHANGED <<env, production>>

SInit == env \in Environment /\ production = <<>> /\ test = <<>>

SNext == StartProduction \/ StartTest \/ StopProduction \/ StopTest

SSpec == SInit /\ [][SNext]_svars

-----------------------------------------------------------------------------
(* Properties.                                                             *)

\* Where a dial of Redis or of a Mongo host ends up: net reads a port as a
\* number and takes a plus sign before it.
RedisReached(c) == c.redis[1].n

MongoReached(c) ==
    {IF c.mongo[i] = <<>> THEN MongoPort ELSE c.mongo[i][1].n : i \in DOMAIN c.mongo}

\* "Test and production use separate containers" (README.md:47 of the repository)
\* as far as it holds of a production crawler and a test on one host: they share no
\* Mongo, and a Redis only when production's address has a port with a sign, which
\* TrimLeft (main.go:50) leaves and a dial ignores; zeros and lists of hosts do not
\* get past the guards.
SharedOnlyBySign ==
    production # <<>> /\ test # <<>> =>
       /\ RedisReached(production[1]) = RedisReached(test[1]) =>
             production[1].redis[1].plus
       /\ MongoReached(production[1]) \cap MongoReached(test[1]) = {}

\* A table of seconds that the operator wrote in full.
Complete(raw) == raw # <<>> /\ \A i \in DOMAIN raw : raw[i].ok

\* The waits of a URL come from one table: the operator's when every token of it is
\* a number, else the default, and never a mixture ("malformed override - fall back
\* entirely, don't partially apply", config.go:154).  Each failure finds an entry in
\* it (frontier.go:332), in production and in the test, for both kinds of failure.
FromOneTable(ladder, raw, def, attempts) ==
    LET n == IF Complete(raw) THEN Len(raw) ELSE Len(def)
        i == IF attempts > n THEN n ELSE attempts
    IN  /\ i \in DOMAIN ladder
        /\ Backoff(ladder, attempts) = IF Complete(raw) THEN raw[i].n ELSE def[i]

WaitsFromOneTable ==
    \A c \in {Load(env), LoadTest(env)}, k \in 1..MaxAttempts :
       /\ FromOneTable(c.limited, env.limited, DefaultLimited, k)
       /\ FromOneTable(c.strike, env.strike, DefaultStrike, k)

=============================================================================
