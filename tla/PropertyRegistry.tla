------------------------- MODULE PropertyRegistry --------------------------
(***************************************************************************)
(* Properties and construction evidence:                                   *)
(* contracts/property_registry/src/lib.rs.                                 *)
(*                                                                         *)
(* Trustees submit properties and evidence, oracles verify the title, set  *)
(* the valuation and sign construction stages off, and the wired           *)
(* MortgagePool records releases and the outcome of the loan.  Deed and    *)
(* survey digests are stored and never read, so they are left out; an      *)
(* evidence digest is a model value, and NoEvidence is the all-zero one.   *)
(*                                                                         *)
(* The MortgagePool's calls constrain only the variable they write: a      *)
(* MortgagePool handler makes two of them in one transaction.              *)
(***************************************************************************)
EXTENDS Integers, Sequences

CONSTANTS
  MILESTONE_COUNT,   \* construction stages of a property (5 in the code)
  FirstTrustees,     \* trustees the admin authorizes at deployment
  FirstOracles,      \* oracles the admin authorizes at deployment
  TrusteeChanges,    \* addresses the admin grants or revokes the role later
  OracleChanges,     \* likewise
  Evidence,          \* digests of evidence bundles
  NoEvidence,        \* the all-zero digest
  Nobody,            \* Option::None of verified_by and valued_by
  Valuations,        \* the values oracles publish
  MaxProperties      \* bound on the number of properties, for model checking

ASSUME PropertyRegistryAssumption ==
  /\ MILESTONE_COUNT \in Nat \ {0}
  /\ NoEvidence \notin Evidence
  /\ Nobody \notin FirstTrustees \cup FirstOracles \cup TrusteeChanges \cup OracleChanges
  /\ Valuations \subseteq Int
  /\ MaxProperties \in Nat

VARIABLES
  trustees,      \* DataKey::Trustee
  oracles,       \* DataKey::Oracle
  properties,    \* DataKey::Property: ids are handed out from 1, so a sequence
  milestones     \* DataKey::Milestone(property, stage)

registryVars == <<trustees, oracles, properties, milestones>>

Addresses == FirstTrustees \cup FirstOracles \cup TrusteeChanges \cup OracleChanges

Stages == 0..(MILESTONE_COUNT - 1)

PropertyIds == 1..Len(properties)

PropertyStatus == {"Pending", "Verified", "Mortgaged", "Repaid", "Defaulted"}

Property == [trustee     : Addresses,
             usdc_value  : Nat,
             status      : PropertyStatus,
             verified_by : Addresses \cup {Nobody},
             valued_by   : Addresses \cup {Nobody}]

Milestone == [evidence_hash : Evidence \cup {NoEvidence},
              verified      : BOOLEAN,
              released      : BOOLEAN,
              verified_by   : Addresses \cup {Nobody}]

EmptyMilestone == [evidence_hash |-> NoEvidence, verified |-> FALSE,
                   released |-> FALSE, verified_by |-> Nobody]

RegistryInit ==
  /\ trustees = FirstTrustees
  /\ oracles = FirstOracles
  /\ properties = <<>>
  /\ milestones = <<>>

-----------------------------------------------------------------------------
(* Administration.  An operator named Op_Mistake is a slip, as in          *)
(* LendingPool.                                                            *)

SetRole(role, address, authorized) ==
  IF authorized THEN role \cup {address} ELSE role \ {address}

SetTrustee(address, authorized) ==
  /\ trustees' = SetRole(trustees, address, authorized)
  /\ UNCHANGED <<oracles, properties, milestones>>

SetOracle(address, authorized) ==
  /\ oracles' = SetRole(oracles, address, authorized)
  /\ UNCHANGED <<trustees, properties, milestones>>

-----------------------------------------------------------------------------
(* Trustee operations.                                                     *)

SubmitProperty_WithoutStages(trustee) ==
  /\ trustee \in trustees
  /\ properties' = Append(properties,
       [trustee |-> trustee, usdc_value |-> 0, status |-> "Pending",
        verified_by |-> Nobody, valued_by |-> Nobody])
  /\ UNCHANGED <<trustees, oracles, milestones>>

SubmitProperty(trustee) ==
  /\ trustee \in trustees
  /\ properties' = Append(properties,
       [trustee |-> trustee, usdc_value |-> 0, status |-> "Pending",
        verified_by |-> Nobody, valued_by |-> Nobody])
  /\ milestones' = Append(milestones, [s \in Stages |-> EmptyMilestone])
  /\ UNCHANGED <<trustees, oracles>>

SubmitMilestoneEvidence_AnyTime(trustee, p, stage, evidence_hash) ==
  /\ trustee \in trustees
  /\ properties[p].trustee = trustee
  /\ milestones' = [milestones EXCEPT ![p][stage].evidence_hash = evidence_hash]
  /\ UNCHANGED <<trustees, oracles, properties>>

SubmitMilestoneEvidence(trustee, p, stage, evidence_hash) ==
  /\ trustee \in trustees
  /\ properties[p].trustee = trustee
  /\ ~milestones[p][stage].verified
  /\ milestones' = [milestones EXCEPT ![p][stage].evidence_hash = evidence_hash]
  /\ UNCHANGED <<trustees, oracles, properties>>

-----------------------------------------------------------------------------
(* Oracle operations.                                                      *)

IndependentOracle_AnyOracle(oracle, p) == oracle \in oracles

\* An authorized oracle that is not the property's own trustee.
IndependentOracle(oracle, p) ==
  /\ oracle \in oracles
  /\ properties[p].trustee # oracle

VerifyTitle(oracle, p) ==
  /\ IndependentOracle(oracle, p)
  /\ properties[p].status = "Pending"
  /\ properties' = [properties EXCEPT ![p].status = "Verified",
                                      ![p].verified_by = oracle]
  /\ UNCHANGED <<trustees, oracles, milestones>>

SetValuation(oracle, p, usdc_value) ==
  /\ IndependentOracle(oracle, p)
  /\ usdc_value > 0
  /\ properties[p].status # "Pending"
  /\ properties' = [properties EXCEPT ![p].usdc_value = usdc_value,
                                      ![p].valued_by = oracle]
  /\ UNCHANGED <<trustees, oracles, milestones>>

PreviousStageVerified_OffByOne(p, stage) == stage > 1 => milestones[p][stage - 1].verified

PreviousStageVerified(p, stage) == stage > 0 => milestones[p][stage - 1].verified

VerifyMilestone(oracle, p, stage) ==
  /\ IndependentOracle(oracle, p)
  /\ ~milestones[p][stage].verified
  /\ milestones[p][stage].evidence_hash # NoEvidence
  /\ PreviousStageVerified(p, stage)
  /\ milestones' = [milestones EXCEPT ![p][stage].verified = TRUE,
                                      ![p][stage].verified_by = oracle]
  /\ UNCHANGED <<trustees, oracles, properties>>

-----------------------------------------------------------------------------
(* MortgagePool callbacks and the two views it reads.                      *)

IsVerified(p) == properties[p].status = "Verified"

IsReleasable(p, stage) ==
  milestones[p][stage].verified /\ ~milestones[p][stage].released

MarkReleased_Unchecked(p, stage) ==
  milestones' = [milestones EXCEPT ![p][stage].released = TRUE]

MarkReleased_Forgotten(p, stage) ==
  /\ IsReleasable(p, stage)
  /\ UNCHANGED milestones

\* writes milestones
MarkReleased(p, stage) ==
  /\ milestones[p][stage].verified
  /\ ~milestones[p][stage].released
  /\ milestones' = [milestones EXCEPT ![p][stage].released = TRUE]

\* transition: writes properties
Transition(p, status) ==
  /\ \/ status = "Mortgaged" /\ properties[p].status = "Verified"
     \/ status \in {"Repaid", "Defaulted"} /\ properties[p].status = "Mortgaged"
  /\ properties' = [properties EXCEPT ![p].status = status]

MarkMortgaged(p) == Transition(p, "Mortgaged")
MarkRepaid(p)    == Transition(p, "Repaid")
MarkDefaulted(p) == Transition(p, "Defaulted")

-----------------------------------------------------------------------------
(* The registry on its own, driven by any admin, trustees and oracles, and *)
(* by any MortgagePool.                                                    *)

AdminTx == \E authorized \in BOOLEAN :
  \/ \E address \in TrusteeChanges : SetTrustee(address, authorized)
  \/ \E address \in OracleChanges : SetOracle(address, authorized)

SubmitPropertyTx ==
  /\ Len(properties) < MaxProperties
  /\ \E trustee \in trustees : SubmitProperty(trustee)

EvidenceTx == \E trustee \in trustees, p \in PropertyIds, stage \in Stages,
                 evidence_hash \in Evidence \cup {NoEvidence} :
  SubmitMilestoneEvidence(trustee, p, stage, evidence_hash)

OracleTx == \E oracle \in oracles, p \in PropertyIds :
  \/ VerifyTitle(oracle, p)
  \/ \E usdc_value \in Valuations : SetValuation(oracle, p, usdc_value)
  \/ \E stage \in Stages : VerifyMilestone(oracle, p, stage)

ReleaseTx == \E p \in PropertyIds, stage \in Stages :
  MarkReleased(p, stage) /\ UNCHANGED <<trustees, oracles, properties>>

OutcomeTx == \E p \in PropertyIds :
  /\ MarkMortgaged(p) \/ MarkRepaid(p) \/ MarkDefaulted(p)
  /\ UNCHANGED <<trustees, oracles, milestones>>

RegistryNext ==
  \/ AdminTx
  \/ SubmitPropertyTx
  \/ EvidenceTx
  \/ OracleTx
  \/ ReleaseTx
  \/ OutcomeTx

RegistrySpec == RegistryInit /\ [][RegistryNext]_registryVars

-----------------------------------------------------------------------------
(* Properties.                                                             *)

\* The registry's storage holds what its types say, one set of stages for
\* every property.
RegistryTypeOK ==
  /\ trustees \subseteq Addresses
  /\ oracles \subseteq Addresses
  /\ properties \in Seq(Property)
  /\ milestones \in Seq([Stages -> Milestone])
  /\ Len(milestones) = Len(properties)

\* "Skipping one would let a builder draw the roofing tranche on an unfinished
\* foundation": the stages signed off are always a prefix of the build, whoever
\* signs them and however roles change in between.
SignedOffInBuildOrder ==
  \A p \in PropertyIds : \A stage \in Stages :
    milestones[p][stage].verified =>
      \A earlier \in 0..stage : milestones[p][earlier].verified

\* A tranche can only have been released on a stage that an oracle other than
\* the property's own trustee signed off, on evidence that is still recorded:
\* no order of grants, revocations and replacements of evidence leaves a
\* release without its justification.
ReleasesAreJustified ==
  \A p \in PropertyIds : \A stage \in Stages :
    LET m == milestones[p][stage]
    IN  /\ m.released => m.verified
        /\ m.verified => /\ m.evidence_hash # NoEvidence
                         /\ m.verified_by \notin {Nobody, properties[p].trustee}

\* A trustee cannot wave a title or a valuation through, even holding both
\* roles at some time: what lending relies on was signed by somebody else, and
\* no value is recorded before the title is confirmed.
LendingTermsAreIndependent ==
  \A p \in PropertyIds :
    LET property == properties[p]
    IN  /\ property.status # "Pending" =>
             property.verified_by \notin {Nobody, property.trustee}
        /\ property.usdc_value > 0 =>
             /\ property.status # "Pending"
             /\ property.valued_by \notin {Nobody, property.trustee}

\* What an inspector signed off is what stays on record: no later step of
\* anybody changes the evidence, the signature or takes back a release.
SignOffIsFinal ==
  [][\A p \in PropertyIds : \A stage \in Stages :
       LET before == milestones[p][stage]
           after  == milestones'[p][stage]
       IN  before.verified =>
             /\ after.verified
             /\ after.evidence_hash = before.evidence_hash
             /\ after.verified_by = before.verified_by
             /\ before.released => after.released]_registryVars

=============================================================================
