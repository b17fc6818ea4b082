------------------------- MODULE MCStorageLifetime -------------------------
(* Bounded instance of StorageLifetime for TLC.                            *)
EXTENDS StorageLifetime

OneFacility == {[principal |-> 3, term_months |-> 2, rate_bps |-> 2]}
=============================================================================
