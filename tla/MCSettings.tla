----------------------------- MODULE MCSettings -----------------------------
(***************************************************************************)
(* A small instance of Settings for TLC: tokens that are malformed, zero   *)
(* and positive; the port of the test as the code writes it, with a        *)
(* leading zero and with a sign, and another one.  The two servers of a    *)
(* test have the same number, since no address of one kind is compared     *)
(* with one of the other.                                                  *)
(***************************************************************************)
EXTENDS Settings

MCToken == {[ok |-> FALSE, n |-> 0], [ok |-> TRUE, n |-> 0], [ok |-> TRUE, n |-> 3]}

MCPort ==
    {Plain(TestRedis), Plain(RedisPort),
     [Plain(TestRedis) EXCEPT !.zeros = 1], [Plain(TestRedis) EXCEPT !.plus = TRUE]}

=============================================================================
