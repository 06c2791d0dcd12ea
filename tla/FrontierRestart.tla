--------------------------- MODULE FrontierRestart ---------------------------
(***************************************************************************)
(* The frontier over a Redis that restarts from an older RDB file while    *)
(* workers are at work (the snapshots of src/internal/scheduler and        *)
(* src/internal/storage/redis.go).  Every key goes back together, the id   *)
(* counter too; what the workers hold does not.                            *)
(***************************************************************************)
EXTENDS Frontier

CONSTANT MaxRestart    \* bound on the restarts

VARIABLES
    rdb,         \* the keys as of the last snapshot
    restarts

rvars == <<vars, rdb, restarts>>

\* BGSAVE.
Snapshot ==
    /\ rdb' = [seq |-> seq, ready |-> ready, processing |-> processing,
               lease |-> lease, delayed |-> delayed, dead |-> dead,
               attempts |-> attempts, strikes |-> strikes,
               listingNext |-> listingNext, barren |-> barren, bloom |-> bloom]
    /\ UNCHANGED <<vars, restarts>>

\* The process ends, and the next one loads the file.
Restart ==
    /\ restarts < MaxRestart
    /\ restarts' = restarts + 1
    /\ seq' = rdb.seq /\ ready' = rdb.ready /\ processing' = rdb.processing
    /\ lease' = rdb.lease /\ delayed' = rdb.delayed /\ dead' = rdb.dead
    /\ attempts' = rdb.attempts /\ strikes' = rdb.strikes
    /\ listingNext' = rdb.listingNext /\ barren' = rdb.barren
    /\ bloom' = rdb.bloom
    /\ UNCHANGED <<now, issued, acked, rdb>>

RInit ==
    /\ Init
    /\ rdb = [seq |-> seq, ready |-> ready, processing |-> processing,
              lease |-> lease, delayed |-> delayed, dead |-> dead,
              attempts |-> attempts, strikes |-> strikes,
              listingNext |-> listingNext, barren |-> barren, bloom |-> bloom]
    /\ restarts = 0

RNext ==
    \/ Next /\ UNCHANGED <<rdb, restarts>>
    \/ Snapshot
    \/ Restart

RSpec == RInit /\ [][RNext]_rvars

-----------------------------------------------------------------------------

\* A rollback under running workers costs work, not consistency: a listing is
\* still PENDING exactly while it has a job, no URL gets two jobs, and a video
\* in the filter is never without a job before it is acknowledged or dead, even
\* when a worker resolves a job whose id the new Redis process has reissued.
RollbackSound == PendingIffLive /\ OneJobPerURL /\ VideoClaimKept

=============================================================================
