--------------------------- MODULE MCCachingStore ---------------------------
(* Two threads that race to fetch and fill while the documents change.      *)
EXTENDS CachingStore

CONSTANTS t1, t2, k1, v1, v2

MCThread == {t1, t2}
MCKey == {k1}
MCValue == {v1, v2}
=============================================================================
