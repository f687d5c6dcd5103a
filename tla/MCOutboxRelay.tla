---------------------------- MODULE MCOutboxRelay ----------------------------
(***************************************************************************)
(* A small instance of OutboxRelay: two messages, of which one can be      *)
(* withdrawn; two sweeps of one worker and one of another.                 *)
(***************************************************************************)
EXTENDS OutboxRelay, TLC

CONSTANTS m1, m2, s1, s2, s3, w1, w2

MCMessage == {m1, m2}
MCWithdrawable == {m1}
MCSweep == {s1, s2, s3}
MCOwnerOf == (s1 :> w1) @@ (s2 :> w1) @@ (s3 :> w2)
=============================================================================
