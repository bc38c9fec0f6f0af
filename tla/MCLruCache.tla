----------------------------- MODULE MCLruCache -----------------------------
(* Constants of the TLC run of LruCache.                                   *)
EXTENDS LruCache

CONSTANTS k1, k2, k3, k4, v1, v2

Keys == {k1, k2, k3, k4}
Values == {v1, v2}
=============================================================================
