SPECIFICATION SSpec
CONSTANTS
    Token <- MCToken
    Port <- MCPort
    TestRedis = 1
    TestMongo = 1
    RedisPort = 2
    MongoPort = 2
    TestWorkers = 2
    TestRate = 2
    MaxProxies = 2
    MaxAttempts = 4
CHECK_DEADLOCK FALSE
INVARIANTS
    SharedOnlyBySign
    WaitsFromOneTable
