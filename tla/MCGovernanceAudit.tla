------------------------- MODULE MCGovernanceAudit -------------------------
(* Bounded instance of GovernanceAudit for TLC.                            *)
EXTENDS GovernanceAudit
=============================================================================
