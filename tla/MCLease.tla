------------------------------- MODULE MCLease -------------------------------
(* Five ticks to the second; the largest duration, 63 ticks, is rounded up  *)
(* and so overflows, as 9223372036.85 seconds does.                         *)
EXTENDS Lease

MCZeroTime == -1000
=============================================================================
