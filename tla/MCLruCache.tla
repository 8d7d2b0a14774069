----------------------------- MODULE MCLruCache -----------------------------
(* Three keys in a cache of two entries, so that hits, expiry, overwriting  *)
(* and eviction interfere.                                                  *)
EXTENDS LruCache

CONSTANTS k1, k2, k3, v1, v2

MCKey == {k1, k2, k3}
MCValue == {v1, v2}
=============================================================================
