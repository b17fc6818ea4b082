-------------------------- MODULE StorageLifetime --------------------------
(***************************************************************************)
(* StellarHomes on a ledger that archives: every entry in storage has a    *)
(* lifetime, an operation extends some of the entries it uses, and one     *)
(* whose lifetime has run out cannot be used until somebody has paid for   *)
(* its restoration.                                                        *)
(*                                                                         *)
(* Left out are the entries that only their holder's own calls use (an     *)
(* investor's Position, the three role flags), the getters, which only     *)
(* extend, and the contracts' instance storage: some call is assumed to    *)
(* keep each contract alive.                                               *)
(***************************************************************************)
EXTENDS StellarHomes

CONSTANTS
  THRESHOLD,     \* 90 days in the code
  EXTEND_TO,     \* 120 days in the code
  RestoredFor    \* the lifetime the network gives a restored entry

ASSUME StorageLifetimeAssumption ==
  /\ EXTEND_TO \in Nat
  /\ THRESHOLD \in 0..EXTEND_TO
  /\ RestoredFor \in Nat

VARIABLE live_until   \* of every entry in storage, the last time it can be used

storageVars == <<vars, live_until>>

\* Persistent entries.
PropertyEntry(p)     == <<"Property", p>>
MilestoneEntry(p, s) == <<"Milestone", p, s>>
MortgageEntry(id)    == <<"Mortgage", id>>
IndexEntry(p)        == <<"PropertyMortgage", p>>

Stored ==
  {PropertyEntry(p) : p \in Registry!PropertyIds}
    \cup {MilestoneEntry(p, s) : p \in Registry!PropertyIds, s \in Registry!Stages}
    \cup {MortgageEntry(id) : id \in MortgageIds}
    \cup {IndexEntry(p) : p \in DOMAIN property_mortgage}

Archived(e) == e \in Stored /\ live_until[e] < now

\* extend_ttl(THRESHOLD, EXTEND_TO)
Extended(e) ==
  IF live_until[e] - now <= THRESHOLD THEN now + EXTEND_TO ELSE live_until[e]

\* A transaction uses the entries in used, and extends those in extended too:
\* none may be archived.  What it creates, it creates through a helper that
\* extends; what it removes has no lifetime any more.
Access(used, extended) ==
  /\ \A e \in used \cup extended : ~Archived(e)
  /\ live_until' = [e \in Stored' |->
       IF e \notin Stored THEN now + EXTEND_TO
       ELSE IF e \in extended THEN Extended(e)
       ELSE live_until[e]]

NoAccess == Access({}, {})

StorageInit ==
  /\ Init
  /\ live_until = [e \in Stored |-> now + EXTEND_TO]

-----------------------------------------------------------------------------
(* The transactions.                                                       *)

InstanceTx ==
  /\ \/ DepositTx \/ WithdrawTx \/ ClaimTx
     \/ SubmitTx \/ RolesTx
     \/ GovernanceTx
  /\ NoAccess

StoredEvidence == \E trustee \in trustees, p \in Registry!PropertyIds, s \in Registry!Stages,
                     evidence_hash \in Evidence \cup {NoEvidence} :
  /\ Registry!SubmitMilestoneEvidence(trustee, p, s, evidence_hash)
  /\ UNCHANGED <<mortgageVars, poolVars>>
  /\ Access({}, {PropertyEntry(p), MilestoneEntry(p, s)})

\* verify_title and set_valuation
StoredTerms == \E oracle \in oracles, p \in Registry!PropertyIds :
  /\ \/ Registry!VerifyTitle(oracle, p)
     \/ \E usdc_value \in Valuations : Registry!SetValuation(oracle, p, usdc_value)
  /\ UNCHANGED <<mortgageVars, poolVars>>
  /\ Access({}, {PropertyEntry(p)})

\* A signature reads the stage before as well.
StoredSignature == \E oracle \in oracles, p \in Registry!PropertyIds, s \in Registry!Stages :
  /\ Registry!VerifyMilestone(oracle, p, s)
  /\ UNCHANGED <<mortgageVars, poolVars>>
  /\ Access({}, {PropertyEntry(p)}
                  \cup {MilestoneEntry(p, t) : t \in {s - 1, s} \cap Registry!Stages})

StoredApply ==
  /\ ApplyTx
  /\ Access({}, {PropertyEntry(mortgages'[next_id].property_id)})

StoredApprove == \E underwriter \in underwriters, id \in MortgageIds :
  /\ Approve(underwriter, id)
  /\ UNCHANGED <<adminVars, now, registryVars, positions, total_capital, total_lent,
                 total_interest, total_written_off, total_shares, acc, carry, usdc>>
  /\ Access({}, {MortgageEntry(id), PropertyEntry(mortgages[id].property_id)})

StoredDecline == \E underwriter \in underwriters, id \in MortgageIds :
  /\ Decline(underwriter, id)
  /\ UNCHANGED <<adminVars, now, poolVars, registryVars>>
  /\ Access({MortgageEntry(id), IndexEntry(mortgages[id].property_id)}, {})

StoredDisburse(id) == \E stage \in Registry!Stages :
  /\ Disburse(id, stage)
  /\ UNCHANGED <<adminVars, now, trustees, oracles, positions, total_interest,
                 total_written_off, total_shares, acc, carry>>
  /\ LET p == mortgages[id].property_id
     IN  Access({}, {MortgageEntry(id), PropertyEntry(p), MilestoneEntry(p, stage)})

\* Closing a loan removes the index entry and writes the property's record.
StoredRepay_ForgetsTheProperty(id) ==
  /\ RepayLoan(id)
  /\ LET p == mortgages[id].property_id
     IN  Access(IF mortgages'[id].status = "PaidOff" THEN {IndexEntry(p)} ELSE {},
                {MortgageEntry(id)})

StoredRepay(id) ==
  /\ RepayLoan(id)
  /\ LET p == mortgages[id].property_id
     IN  IF mortgages'[id].status = "PaidOff"
         THEN Access({IndexEntry(p)}, {MortgageEntry(id), PropertyEntry(p)})
         ELSE Access({}, {MortgageEntry(id)})

StoredMarkDefault(id) ==
  /\ MarkDefaultLoan(id)
  /\ LET p == mortgages[id].property_id
     IN  Access({IndexEntry(p)}, {MortgageEntry(id), PropertyEntry(p)})

StoredTick ==
  /\ now < MaxTime
  /\ now' = now + 1
  /\ UNCHANGED <<loanVars, adminVars, poolVars, registryVars>>
  /\ NoAccess

\* Anybody may pay for the restoration of an archived entry.
Restore(e) ==
  /\ Archived(e)
  /\ live_until' = [live_until EXCEPT ![e] = now + RestoredFor]
  /\ UNCHANGED vars

Entries ==
  {PropertyEntry(p) : p \in 1..MaxProperties}
    \cup {MilestoneEntry(p, s) : p \in 1..MaxProperties, s \in Registry!Stages}
    \cup {MortgageEntry(id) : id \in 1..MaxLoans}
    \cup {IndexEntry(p) : p \in 1..MaxProperties}

StorageNext ==
  \/ InstanceTx
  \/ StoredEvidence
  \/ StoredTerms
  \/ StoredSignature
  \/ StoredApply
  \/ StoredApprove
  \/ StoredDecline
  \/ \E id \in MortgageIds : StoredDisburse(id) \/ StoredRepay(id) \/ StoredMarkDefault(id)
  \/ StoredTick
  \/ \E e \in Entries : Restore(e)

StorageSpec == StorageInit /\ [][StorageNext]_storageVars

\* Time passes, somebody eventually makes the permissionless calls (a trustee
\* draws a signed-off stage, an investor writes a bad loan off), and what is
\* archived is eventually restored.
FairStorageSpec ==
  /\ StorageSpec
  /\ WF_storageVars(StoredTick)
  /\ \A id \in 1..MaxLoans :
       WF_storageVars(StoredDisburse(id)) /\ WF_storageVars(StoredMarkDefault(id))
  /\ \A e \in Entries : WF_storageVars(Restore(e))

-----------------------------------------------------------------------------
(* Properties.                                                             *)

\* "There is no path that writes a persistent entry without extending it":
\* whatever record a transaction changes, its own or another contract's, is
\* good for another THRESHOLD when it ends.
WritesExtend ==
  [][LET renewed(e) == e \in Stored' => live_until'[e] >= now + THRESHOLD
     IN  /\ \A p \in Registry!PropertyIds :
              /\ properties'[p] # properties[p] => renewed(PropertyEntry(p))
              /\ \A s \in Registry!Stages :
                   milestones'[p][s] # milestones[p][s] => renewed(MilestoneEntry(p, s))
         /\ \A id \in MortgageIds \cap DOMAIN mortgages' :
              mortgages'[id] # mortgages[id] => renewed(MortgageEntry(id))
         /\ \A e \in Stored' \ Stored : renewed(e)]_storageVars

=============================================================================
