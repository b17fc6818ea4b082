---------------------- MODULE PropertyRegistryProofs -----------------------
(***************************************************************************)
(* Theorems of PropertyRegistry, for any number of properties and stages   *)
(* and any set of addresses that gain and lose the roles.                  *)
(*                                                                         *)
(* A step changes the roles, submits a property, rewrites one stage or     *)
(* rewrites one property.  The invariant is the conjunction of the four    *)
(* invariants; each is kept by what its steps do to the one record they    *)
(* rewrite.                                                                *)
(***************************************************************************)
EXTENDS PropertyRegistry, SequenceTheorems, TLAPS

RegistryInv ==
  /\ RegistryTypeOK
  /\ SignedOffInBuildOrder
  /\ ReleasesAreJustified
  /\ LendingTermsAreIndependent

-----------------------------------------------------------------------------
(* Records in sequences.                                                   *)

\* The sequence of stages with one stage of one property rewritten.
WithStage(ms, p, stage, m) == [ms EXCEPT ![p] = [ms[p] EXCEPT ![stage] = m]]

\* Rewriting a stage rewrites that one alone.
LEMMA StageRewritten ==
  ASSUME NEW ms \in Seq([Stages -> Milestone]), NEW p \in 1..Len(ms), NEW stage \in Stages,
         NEW m \in Milestone
  PROVE  /\ WithStage(ms, p, stage, m) \in Seq([Stages -> Milestone])
         /\ Len(WithStage(ms, p, stage, m)) = Len(ms)
         /\ \A q \in 1..Len(ms) : \A s \in Stages :
              WithStage(ms, p, stage, m)[q][s] = IF q = p /\ s = stage THEN m ELSE ms[q][s]
<1>1. ms[p] \in [Stages -> Milestone]
  OBVIOUS
<1>2. [ms[p] EXCEPT ![stage] = m] \in [Stages -> Milestone]
  BY <1>1
<1>3. /\ WithStage(ms, p, stage, m) \in Seq([Stages -> Milestone])
      /\ Len(WithStage(ms, p, stage, m)) = Len(ms)
      /\ \A q \in 1..Len(ms) :
           WithStage(ms, p, stage, m)[q] = IF q = p THEN [ms[p] EXCEPT ![stage] = m] ELSE ms[q]
  BY <1>2 DEF WithStage
<1>4. \A s \in Stages :
        [ms[p] EXCEPT ![stage] = m][s] = IF s = stage THEN m ELSE ms[p][s]
  BY <1>1
<1> QED
  BY <1>3, <1>4

\* A stage of a property and the property itself have their types.
LEMMA RecordTypes ==
  ASSUME RegistryTypeOK, NEW p \in PropertyIds
  PROVE  /\ properties[p] \in Property
         /\ p \in 1..Len(milestones)
         /\ \A s \in Stages : milestones[p][s] \in Milestone
BY DEF RegistryTypeOK, PropertyIds

-----------------------------------------------------------------------------
(* Steps that rewrite one stage.                                           *)

\* What a step may do to a stage of a property: nothing to a signed-off one but
\* release it, and sign it off only on evidence, after the stage before and
\* by somebody other than the trustee.
LegalStage(p, stage, m) ==
  LET old == milestones[p][stage]
  IN  /\ m \in Milestone
      /\ old.verified => /\ m.verified
                         /\ m.evidence_hash = old.evidence_hash
                         /\ m.verified_by = old.verified_by
                         /\ old.released => m.released
      /\ m.released => m.verified
      /\ m.verified /\ ~old.verified =>
           /\ m.evidence_hash # NoEvidence
           /\ m.verified_by \notin {Nobody, properties[p].trustee}
           /\ PreviousStageVerified(p, stage)

\* A step rewrites one stage, legally, and nothing else.
StageStep ==
  \E p \in PropertyIds, stage \in Stages, m \in Milestone :
    /\ LegalStage(p, stage, m)
    /\ milestones' = WithStage(milestones, p, stage, m)
    /\ UNCHANGED <<trustees, oracles, properties>>

\* New evidence is a legal change of a stage.
LEMMA EvidenceIsLegal ==
  ASSUME RegistryInv, EvidenceTx
  PROVE  StageStep
<1>1. PICK trustee \in trustees, p \in PropertyIds, stage \in Stages,
           evidence_hash \in Evidence \cup {NoEvidence} :
        SubmitMilestoneEvidence(trustee, p, stage, evidence_hash)
  BY DEF EvidenceTx
<1> DEFINE old == milestones[p][stage]
           m == [old EXCEPT !.evidence_hash = evidence_hash]
<1>2. old \in Milestone /\ p \in 1..Len(milestones)
  BY RecordTypes DEF RegistryInv
<1>3. m \in Milestone /\ m.verified = old.verified /\ m.released = old.released
  BY <1>2 DEF Milestone
<1>4. ~old.verified /\ ~old.released
  BY <1>1 DEF SubmitMilestoneEvidence, RegistryInv, ReleasesAreJustified
<1>5. LegalStage(p, stage, m)
  BY <1>3, <1>4 DEF LegalStage
<1>6. milestones' = WithStage(milestones, p, stage, m)
  BY <1>1, <1>2 DEF SubmitMilestoneEvidence, WithStage
<1> HIDE DEF m
<1> QED
  BY <1>1, <1>3, <1>5, <1>6 DEF StageStep, SubmitMilestoneEvidence

\* So is a signature.
LEMMA SignatureIsLegal ==
  ASSUME RegistryInv, NEW oracle \in oracles, NEW p \in PropertyIds, NEW stage \in Stages,
         VerifyMilestone(oracle, p, stage)
  PROVE  StageStep
<1> DEFINE old == milestones[p][stage]
           m == [old EXCEPT !.verified = TRUE, !.verified_by = oracle]
<1>1. old \in Milestone /\ p \in 1..Len(milestones) /\ oracle \in Addresses
  BY RecordTypes DEF RegistryInv, RegistryTypeOK
<1>2. m \in Milestone /\ m.verified = TRUE /\ m.verified_by = oracle
      /\ m.evidence_hash = old.evidence_hash /\ m.released = old.released
  BY <1>1 DEF Milestone
<1>3. /\ ~old.verified /\ old.evidence_hash # NoEvidence
      /\ PreviousStageVerified(p, stage) /\ properties[p].trustee # oracle
  BY DEF VerifyMilestone, IndependentOracle
<1>4. oracle # Nobody
  BY <1>1, PropertyRegistryAssumption DEF Addresses
<1>5. LegalStage(p, stage, m)
  BY <1>2, <1>3, <1>4 DEF LegalStage
<1>6. milestones' = WithStage(milestones, p, stage, m)
  BY <1>1 DEF VerifyMilestone, WithStage
<1> HIDE DEF m
<1> QED
  BY <1>2, <1>5, <1>6 DEF StageStep, VerifyMilestone

\* A release is a legal change of a stage.
LEMMA ReleaseWrites ==
  ASSUME RegistryInv, NEW p \in PropertyIds, NEW stage \in Stages, MarkReleased(p, stage)
  PROVE  \E m \in Milestone : /\ LegalStage(p, stage, m)
                              /\ milestones' = WithStage(milestones, p, stage, m)
<1> DEFINE old == milestones[p][stage]
           m == [old EXCEPT !.released = TRUE]
<1>1. old \in Milestone /\ p \in 1..Len(milestones)
  BY RecordTypes DEF RegistryInv
<1>2. m \in Milestone /\ m.released = TRUE /\ m.verified = old.verified
      /\ m.evidence_hash = old.evidence_hash /\ m.verified_by = old.verified_by
  BY <1>1 DEF Milestone
<1>3. LegalStage(p, stage, m)
  BY <1>2 DEF LegalStage, MarkReleased
<1>4. milestones' = WithStage(milestones, p, stage, m)
  BY <1>1 DEF MarkReleased, WithStage
<1> HIDE DEF m
<1> QED
  BY <1>2, <1>3, <1>4

\* So a release on its own is a legal step.
LEMMA ReleaseIsLegal ==
  ASSUME RegistryInv, ReleaseTx
  PROVE  StageStep
BY ReleaseWrites DEF ReleaseTx, StageStep

\* What a step that rewrites a stage may do to the properties: keep each with
\* its trustee.
SameTrustees ==
  /\ properties' \in Seq(Property) /\ Len(properties') = Len(properties)
  /\ \A p \in PropertyIds : properties'[p].trustee = properties[p].trustee

\* A stage is rewritten legally, and the roles stay.
StageRewrite(p, stage, m) ==
  /\ LegalStage(p, stage, m)
  /\ milestones' = WithStage(milestones, p, stage, m)
  /\ UNCHANGED <<trustees, oracles>>
  /\ SameTrustees

\* That keeps the stages signed off a prefix of the build, and to each release
\* its justification.
LEMMA StageRewriteKeeps ==
  ASSUME RegistryInv, NEW p \in PropertyIds, NEW stage \in Stages, NEW m \in Milestone,
         StageRewrite(p, stage, m)
  PROVE  /\ RegistryTypeOK' /\ SignedOffInBuildOrder' /\ ReleasesAreJustified'
         /\ PropertyIds' = PropertyIds
<1>1. /\ LegalStage(p, stage, m)
      /\ milestones' = WithStage(milestones, p, stage, m)
      /\ UNCHANGED <<trustees, oracles>>
      /\ SameTrustees
  BY DEF StageRewrite
<1>2. /\ milestones \in Seq([Stages -> Milestone]) /\ Len(milestones) = Len(properties)
      /\ p \in 1..Len(milestones)
  BY DEF RegistryInv, RegistryTypeOK, PropertyIds
<1>3. /\ milestones' \in Seq([Stages -> Milestone])
      /\ Len(milestones') = Len(milestones)
      /\ \A q \in 1..Len(milestones) : \A s \in Stages :
           milestones'[q][s] = IF q = p /\ s = stage THEN m ELSE milestones[q][s]
  <2> DEFINE new == WithStage(milestones, p, stage, m)
  <2>1. /\ new \in Seq([Stages -> Milestone])
        /\ Len(new) = Len(milestones)
        /\ \A q \in 1..Len(milestones) : \A s \in Stages :
             new[q][s] = IF q = p /\ s = stage THEN m ELSE milestones[q][s]
    BY <1>2, StageRewritten
  <2> HIDE DEF new
  <2>2. milestones' = new
    BY <1>1 DEF new
  <2> QED
    BY <2>1, <2>2, Zenon
<1>4. RegistryTypeOK'
  BY <1>1, <1>2, <1>3 DEF RegistryInv, RegistryTypeOK, SameTrustees
<1>5. PropertyIds' = PropertyIds /\ PropertyIds = 1..Len(milestones)
  BY <1>1, <1>2 DEF PropertyIds, SameTrustees
<1>6. m.verified \in BOOLEAN /\ milestones[p][stage].verified \in BOOLEAN
  BY <1>2, RecordTypes DEF RegistryInv, Milestone
<1>7. SignedOffInBuildOrder'
  <2> SUFFICES ASSUME NEW q \in PropertyIds, NEW s \in Stages, milestones'[q][s].verified,
                      NEW earlier \in 0..s
               PROVE  milestones'[q][earlier].verified
    BY <1>5 DEF SignedOffInBuildOrder
  <2>1. earlier \in Stages /\ stage \in Nat /\ s \in Nat /\ earlier \in Nat
    BY PropertyRegistryAssumption DEF Stages
  <2>2. CASE milestones[q][s].verified
    <3>1. milestones[q][earlier].verified
      BY <2>2 DEF RegistryInv, SignedOffInBuildOrder
    <3> QED
      BY <1>1, <1>3, <1>5, <2>1, <3>1 DEF LegalStage
  <2>3. CASE ~milestones[q][s].verified
    <3>1. q = p /\ s = stage /\ m.verified /\ PreviousStageVerified(p, stage)
      BY <1>1, <1>3, <1>5, <2>3 DEF LegalStage
    <3>2. CASE earlier = s
      BY <1>3, <1>5, <3>1, <3>2
    <3>3. CASE earlier # s
      <4>1. stage > 0 /\ (stage - 1) \in Stages /\ earlier \in 0..(stage - 1)
        BY <2>1, <3>1, <3>3, PropertyRegistryAssumption DEF Stages
      <4>2. milestones[p][stage - 1].verified
        BY <3>1, <4>1 DEF PreviousStageVerified
      <4>3. milestones[p][earlier].verified
        BY <4>1, <4>2 DEF RegistryInv, SignedOffInBuildOrder
      <4> QED
        BY <1>3, <1>5, <2>1, <3>1, <3>3, <4>3
    <3> QED
      BY <3>2, <3>3
  <2> QED
    BY <2>2, <2>3
<1>8. ReleasesAreJustified'
  <2> SUFFICES ASSUME NEW q \in PropertyIds, NEW s \in Stages
               PROVE  LET k == milestones'[q][s]
                      IN  /\ k.released => k.verified
                          /\ k.verified => /\ k.evidence_hash # NoEvidence
                                           /\ k.verified_by \notin {Nobody, properties'[q].trustee}
    BY <1>5 DEF ReleasesAreJustified
  <2>1. /\ milestones[q][s].released => milestones[q][s].verified
        /\ milestones[q][s].verified =>
             /\ milestones[q][s].evidence_hash # NoEvidence
             /\ milestones[q][s].verified_by \notin {Nobody, properties[q].trustee}
    BY DEF RegistryInv, ReleasesAreJustified
  <2>2. CASE q = p /\ s = stage
    BY <1>1, <1>3, <1>5, <2>1, <2>2 DEF LegalStage, SameTrustees
  <2>3. CASE ~(q = p /\ s = stage)
    BY <1>1, <1>3, <1>5, <2>1, <2>3 DEF SameTrustees
  <2> QED
    BY <2>2, <2>3
<1> QED
  BY <1>4, <1>5, <1>7, <1>8

\* A legal change of one stage keeps the invariant.
LEMMA StageStepKeepsInv ==
  ASSUME RegistryInv, StageStep
  PROVE  RegistryInv'
<1>1. PICK p \in PropertyIds, stage \in Stages, m \in Milestone :
        /\ LegalStage(p, stage, m)
        /\ milestones' = WithStage(milestones, p, stage, m)
        /\ UNCHANGED <<trustees, oracles, properties>>
  BY DEF StageStep
<1>2. SameTrustees
  BY <1>1 DEF SameTrustees, RegistryInv, RegistryTypeOK
<1>3. /\ RegistryTypeOK' /\ SignedOffInBuildOrder' /\ ReleasesAreJustified'
      /\ PropertyIds' = PropertyIds
  BY <1>1, <1>2, StageRewriteKeeps DEF StageRewrite
<1>4. LendingTermsAreIndependent'
  BY <1>1, <1>3 DEF RegistryInv, LendingTermsAreIndependent
<1> QED
  BY <1>3, <1>4 DEF RegistryInv

-----------------------------------------------------------------------------
(* Steps that rewrite one property.                                        *)

\* What a step may do to a property: never change its trustee or withdraw its
\* value, and confirm the title or publish a value only by somebody else, in
\* that order.
LegalProperty(p, new) ==
  /\ new.trustee = properties[p].trustee
  /\ properties[p].usdc_value > 0 => new.usdc_value > 0
  /\ new.status # "Pending" => new.verified_by \notin {Nobody, new.trustee}
  /\ new.usdc_value > 0 => /\ new.status # "Pending"
                           /\ new.valued_by \notin {Nobody, new.trustee}

\* A step rewrites one property, legally, and nothing else.
PropertyStep ==
  \E p \in PropertyIds, new \in Property :
    /\ LegalProperty(p, new)
    /\ properties' = [properties EXCEPT ![p] = new]
    /\ UNCHANGED <<trustees, oracles, milestones>>

\* Confirming a title is a legal change.
LEMMA TitleIsLegal ==
  ASSUME RegistryInv, NEW oracle \in oracles, NEW p \in PropertyIds, VerifyTitle(oracle, p)
  PROVE  PropertyStep
<1> DEFINE old == properties[p]
           new == [old EXCEPT !.status = "Verified", !.verified_by = oracle]
<1>1. old \in Property /\ oracle \in Addresses /\ oracle # Nobody
  BY RecordTypes, PropertyRegistryAssumption DEF RegistryInv, RegistryTypeOK, Addresses
<1>2. /\ new \in Property /\ new.status = "Verified" /\ new.verified_by = oracle
      /\ new.trustee = old.trustee /\ new.usdc_value = old.usdc_value
      /\ new.valued_by = old.valued_by
  BY <1>1 DEF Property, PropertyStatus
<1>3. old.trustee # oracle /\ old.status = "Pending"
  BY DEF VerifyTitle, IndependentOracle
<1>4. ~(old.usdc_value > 0)
  BY <1>3 DEF RegistryInv, LendingTermsAreIndependent
<1>5. LegalProperty(p, new)
  BY <1>1, <1>2, <1>3, <1>4 DEF LegalProperty
<1>6. properties' = [properties EXCEPT ![p] = new]
  BY DEF VerifyTitle
<1> HIDE DEF new
<1> QED
  BY <1>2, <1>5, <1>6 DEF PropertyStep, VerifyTitle

\* So is publishing a value.
LEMMA ValuationIsLegal ==
  ASSUME RegistryInv, NEW oracle \in oracles, NEW p \in PropertyIds,
         NEW usdc_value \in Valuations, SetValuation(oracle, p, usdc_value)
  PROVE  PropertyStep
<1> DEFINE old == properties[p]
           new == [old EXCEPT !.usdc_value = usdc_value, !.valued_by = oracle]
<1>1. /\ old \in Property /\ oracle \in Addresses /\ oracle # Nobody
      /\ usdc_value \in Nat
  BY RecordTypes, PropertyRegistryAssumption
     DEF RegistryInv, RegistryTypeOK, Addresses, SetValuation
<1>2. /\ new \in Property /\ new.usdc_value = usdc_value /\ new.valued_by = oracle
      /\ new.trustee = old.trustee /\ new.status = old.status
      /\ new.verified_by = old.verified_by
  BY <1>1 DEF Property, PropertyStatus
<1>3. old.trustee # oracle /\ old.status # "Pending" /\ usdc_value > 0
  BY DEF SetValuation, IndependentOracle
<1>4. old.verified_by \notin {Nobody, old.trustee}
  BY <1>3 DEF RegistryInv, LendingTermsAreIndependent
<1>5. LegalProperty(p, new)
  BY <1>1, <1>2, <1>3, <1>4 DEF LegalProperty
<1>6. properties' = [properties EXCEPT ![p] = new]
  BY DEF SetValuation
<1> HIDE DEF new
<1> QED
  BY <1>2, <1>5, <1>6 DEF PropertyStep, SetValuation

\* Recording what becomes of a loan is a legal change of the property.
LEMMA TransitionWrites ==
  ASSUME RegistryInv, NEW p \in PropertyIds, NEW status \in {"Mortgaged", "Repaid", "Defaulted"},
         Transition(p, status)
  PROVE  \E new \in Property : /\ LegalProperty(p, new)
                               /\ properties' = [properties EXCEPT ![p] = new]
<1> DEFINE old == properties[p]
           new == [old EXCEPT !.status = status]
<1>1. old \in Property
  BY RecordTypes DEF RegistryInv
<1>2. /\ new \in Property /\ new.status = status /\ new.usdc_value = old.usdc_value
      /\ new.trustee = old.trustee /\ new.verified_by = old.verified_by
      /\ new.valued_by = old.valued_by
  BY <1>1 DEF Property, PropertyStatus
<1>3. old.status # "Pending"
  BY DEF Transition
<1>4. /\ old.verified_by \notin {Nobody, old.trustee}
      /\ old.usdc_value > 0 => old.valued_by \notin {Nobody, old.trustee}
  BY <1>3 DEF RegistryInv, LendingTermsAreIndependent
<1>5. LegalProperty(p, new)
  BY <1>2, <1>4 DEF LegalProperty
<1>6. properties' = [properties EXCEPT ![p] = new]
  BY DEF Transition
<1> HIDE DEF new
<1> QED
  BY <1>2, <1>5, <1>6

\* So recording it on its own is a legal step.
LEMMA OutcomeIsLegal ==
  ASSUME RegistryInv, OutcomeTx
  PROVE  PropertyStep
BY TransitionWrites DEF OutcomeTx, MarkMortgaged, MarkRepaid, MarkDefaulted, PropertyStep

\* No property is removed, and none that has a value loses it.
ValuesStay ==
  \A p \in PropertyIds :
    /\ p \in PropertyIds'
    /\ properties[p].usdc_value > 0 => properties'[p].usdc_value > 0

\* A legal change of one property keeps every trustee and who may vouch for
\* what.
LEMMA PropertyRewriteKeeps ==
  ASSUME RegistryInv, NEW p \in PropertyIds, NEW new \in Property, LegalProperty(p, new),
         properties' = [properties EXCEPT ![p] = new]
  PROVE  /\ SameTrustees /\ PropertyIds' = PropertyIds
         /\ LendingTermsAreIndependent' /\ ValuesStay
<1>1. properties \in Seq(Property) /\ p \in 1..Len(properties)
  BY DEF RegistryInv, RegistryTypeOK, PropertyIds
<1>2. /\ properties' \in Seq(Property) /\ Len(properties') = Len(properties)
      /\ \A q \in 1..Len(properties) :
           properties'[q] = IF q = p THEN new ELSE properties[q]
  BY <1>1
<1>3. PropertyIds' = PropertyIds /\ PropertyIds = 1..Len(properties)
  BY <1>2 DEF PropertyIds
<1>4. \A q \in PropertyIds : properties'[q].trustee = properties[q].trustee
  BY <1>2, <1>3 DEF LegalProperty
<1>5. LendingTermsAreIndependent'
  <2>1. \A q \in PropertyIds :
          /\ properties'[q].status # "Pending" =>
               properties'[q].verified_by \notin {Nobody, properties'[q].trustee}
          /\ properties'[q].usdc_value > 0 =>
               /\ properties'[q].status # "Pending"
               /\ properties'[q].valued_by \notin {Nobody, properties'[q].trustee}
    BY <1>2, <1>3 DEF RegistryInv, LendingTermsAreIndependent, LegalProperty
  <2> QED
    BY <1>3, <2>1 DEF LendingTermsAreIndependent
<1>6. ValuesStay
  BY <1>2, <1>3 DEF ValuesStay, LegalProperty
<1> QED
  BY <1>2, <1>3, <1>4, <1>5, <1>6 DEF SameTrustees

\* A legal change of one property keeps the invariant.
LEMMA PropertyStepKeepsInv ==
  ASSUME RegistryInv, PropertyStep
  PROVE  RegistryInv'
<1>1. PICK p \in PropertyIds, new \in Property :
        /\ LegalProperty(p, new)
        /\ properties' = [properties EXCEPT ![p] = new]
        /\ UNCHANGED <<trustees, oracles, milestones>>
  BY DEF PropertyStep
<1>2. SameTrustees /\ PropertyIds' = PropertyIds /\ LendingTermsAreIndependent'
  BY <1>1, PropertyRewriteKeeps
<1>3. RegistryTypeOK'
  BY <1>1, <1>2 DEF RegistryInv, RegistryTypeOK, SameTrustees
<1>4. SignedOffInBuildOrder'
  BY <1>1, <1>2 DEF RegistryInv, SignedOffInBuildOrder
<1>5. ReleasesAreJustified'
  BY <1>1, <1>2 DEF RegistryInv, ReleasesAreJustified, SameTrustees
<1> QED
  BY <1>2, <1>3, <1>4, <1>5 DEF RegistryInv

-----------------------------------------------------------------------------
(* Every step.                                                             *)

\* A new property comes with its own stages, none of them signed off.
LEMMA SubmissionKeepsInv ==
  ASSUME RegistryInv, SubmitPropertyTx
  PROVE  RegistryInv'
<1>1. PICK trustee \in trustees : SubmitProperty(trustee)
  BY DEF SubmitPropertyTx
<1> DEFINE new == [trustee |-> trustee, usdc_value |-> 0, status |-> "Pending",
                   verified_by |-> Nobody, valued_by |-> Nobody]
           stages == [s \in Stages |-> EmptyMilestone]
           n == Len(properties)
<1>2. new \in Property /\ new.status = "Pending" /\ new.usdc_value = 0
  BY DEF RegistryInv, RegistryTypeOK, Property, PropertyStatus
<1>3. /\ stages \in [Stages -> Milestone]
      /\ \A s \in Stages : ~stages[s].verified /\ ~stages[s].released
  BY DEF EmptyMilestone, Milestone
<1>4. /\ properties \in Seq(Property) /\ milestones \in Seq([Stages -> Milestone])
      /\ Len(milestones) = n /\ n \in Nat
  BY DEF RegistryInv, RegistryTypeOK
<1>5. /\ properties' = Append(properties, new) /\ milestones' = Append(milestones, stages)
      /\ UNCHANGED <<trustees, oracles>>
  BY <1>1 DEF SubmitProperty
<1> HIDE DEF new, stages
<1>6. /\ properties' \in Seq(Property) /\ Len(properties') = n + 1
      /\ properties'[n + 1] = new /\ \A p \in 1..n : properties'[p] = properties[p]
  BY <1>2, <1>4, <1>5
<1>7. /\ milestones' \in Seq([Stages -> Milestone]) /\ Len(milestones') = n + 1
      /\ milestones'[n + 1] = stages /\ \A p \in 1..n : milestones'[p] = milestones[p]
  BY <1>3, <1>4, <1>5
<1>8. RegistryTypeOK'
  BY <1>5, <1>6, <1>7 DEF RegistryInv, RegistryTypeOK
<1>9. \A p \in PropertyIds' : p \in PropertyIds \/ p = n + 1
  BY <1>4, <1>6 DEF PropertyIds
<1>10. SignedOffInBuildOrder'
  <2> SUFFICES ASSUME NEW p \in PropertyIds', NEW stage \in Stages,
                      milestones'[p][stage].verified, NEW earlier \in 0..stage
               PROVE  milestones'[p][earlier].verified
    BY DEF SignedOffInBuildOrder
  <2>1. p # n + 1
    BY <1>3, <1>7
  <2> QED
    BY <1>7, <1>9, <2>1 DEF RegistryInv, SignedOffInBuildOrder, PropertyIds
<1>11. ReleasesAreJustified'
  <2> SUFFICES ASSUME NEW p \in PropertyIds', NEW stage \in Stages
               PROVE  LET m == milestones'[p][stage]
                      IN  /\ m.released => m.verified
                          /\ m.verified => /\ m.evidence_hash # NoEvidence
                                           /\ m.verified_by \notin {Nobody, properties'[p].trustee}
    BY DEF ReleasesAreJustified
  <2>1. CASE p = n + 1
    BY <1>3, <1>7, <2>1
  <2>2. CASE p # n + 1
    BY <1>6, <1>7, <1>9, <2>2 DEF RegistryInv, ReleasesAreJustified, PropertyIds
  <2> QED
    BY <2>1, <2>2
<1>12. LendingTermsAreIndependent'
  <2> SUFFICES ASSUME NEW p \in PropertyIds'
               PROVE  LET property == properties'[p]
                      IN  /\ property.status # "Pending" =>
                               property.verified_by \notin {Nobody, property.trustee}
                          /\ property.usdc_value > 0 =>
                               /\ property.status # "Pending"
                               /\ property.valued_by \notin {Nobody, property.trustee}
    BY DEF LendingTermsAreIndependent
  <2>1. CASE p = n + 1
    BY <1>2, <1>6, <2>1
  <2>2. CASE p # n + 1
    BY <1>6, <1>9, <2>2 DEF RegistryInv, LendingTermsAreIndependent, PropertyIds
  <2> QED
    BY <2>1, <2>2
<1> QED
  BY <1>8, <1>10, <1>11, <1>12 DEF RegistryInv

\* Roles that come and go change nothing that is on record.
LEMMA RolesKeepInv ==
  ASSUME RegistryInv, AdminTx
  PROVE  RegistryInv'
<1>1. /\ trustees' \subseteq Addresses /\ oracles' \subseteq Addresses
      /\ properties' = properties /\ milestones' = milestones
  BY DEF AdminTx, SetTrustee, SetOracle, SetRole, RegistryInv, RegistryTypeOK, Addresses
<1> QED
  BY <1>1 DEF RegistryInv, RegistryTypeOK, SignedOffInBuildOrder, ReleasesAreJustified,
              LendingTermsAreIndependent, PropertyIds

\* An oracle's call rewrites a stage or a property, legally.
LEMMA OracleIsLegal ==
  ASSUME RegistryInv, OracleTx
  PROVE  StageStep \/ PropertyStep
BY TitleIsLegal, ValuationIsLegal, SignatureIsLegal DEF OracleTx

\* A registry just deployed is empty.
LEMMA RegistryInvInit == RegistryInit => RegistryInv
<1> SUFFICES ASSUME RegistryInit
             PROVE  RegistryInv
  OBVIOUS
<1>1. properties = <<>> /\ milestones = <<>> /\ PropertyIds = {}
  BY DEF RegistryInit, PropertyIds
<1>2. RegistryTypeOK
  BY <1>1 DEF RegistryInit, RegistryTypeOK, Addresses
<1> QED
  BY <1>1, <1>2 DEF RegistryInv, SignedOffInBuildOrder, ReleasesAreJustified,
                    LendingTermsAreIndependent

\* Each of its transactions keeps the invariant.
LEMMA RegistryInvNext ==
  ASSUME RegistryInv, [RegistryNext]_registryVars
  PROVE  RegistryInv'
<1>1. CASE AdminTx
  BY <1>1, RolesKeepInv
<1>2. CASE SubmitPropertyTx
  BY <1>2, SubmissionKeepsInv
<1>3. CASE EvidenceTx
  BY <1>3, EvidenceIsLegal, StageStepKeepsInv
<1>4. CASE OracleTx
  BY <1>4, OracleIsLegal, StageStepKeepsInv, PropertyStepKeepsInv
<1>5. CASE ReleaseTx
  BY <1>5, ReleaseIsLegal, StageStepKeepsInv
<1>6. CASE OutcomeTx
  BY <1>6, OutcomeIsLegal, PropertyStepKeepsInv
<1>7. CASE UNCHANGED registryVars
  BY <1>7 DEF registryVars, RegistryInv, RegistryTypeOK, SignedOffInBuildOrder,
              ReleasesAreJustified, LendingTermsAreIndependent, PropertyIds
<1> QED
  BY <1>1, <1>2, <1>3, <1>4, <1>5, <1>6, <1>7 DEF RegistryNext

\* The inductive invariant of the registry.
THEOREM RegistryInvariant == RegistrySpec => []RegistryInv
BY RegistryInvInit, RegistryInvNext, PTL DEF RegistrySpec

\* Every record in the registry's storage has its type.
THEOREM RegistryTypeCorrect == RegistrySpec => []RegistryTypeOK
BY RegistryInvariant, PTL DEF RegistryInv

\* No stage is ever signed off before the ones below it.
THEOREM StagesFollowTheBuild == RegistrySpec => []SignedOffInBuildOrder
BY RegistryInvariant, PTL DEF RegistryInv

\* No tranche is released without an independent signature on evidence.
THEOREM EveryReleaseIsJustified == RegistrySpec => []ReleasesAreJustified
BY RegistryInvariant, PTL DEF RegistryInv

\* No trustee confirms its own title or value.
THEOREM TermsAreIndependent == RegistrySpec => []LendingTermsAreIndependent
BY RegistryInvariant, PTL DEF RegistryInv

-----------------------------------------------------------------------------
(* What is signed stays signed.                                            *)

\* What SignOffIsFinal says of one step.
Kept(p, stage) ==
  LET before == milestones[p][stage]
      after  == milestones'[p][stage]
  IN  before.verified =>
        /\ after.verified
        /\ after.evidence_hash = before.evidence_hash
        /\ after.verified_by = before.verified_by
        /\ before.released => after.released

\* A stage is rewritten legally.
StageWritten(p, stage, m) ==
  LegalStage(p, stage, m) /\ milestones' = WithStage(milestones, p, stage, m)

\* That keeps every signed-off one.
LEMMA StageWrittenKeepsSignatures ==
  ASSUME RegistryInv, NEW p \in PropertyIds, NEW stage \in Stages, NEW m \in Milestone,
         StageWritten(p, stage, m), NEW q \in PropertyIds, NEW s \in Stages
  PROVE  Kept(q, s)
<1>1. LegalStage(p, stage, m) /\ milestones' = WithStage(milestones, p, stage, m)
  BY DEF StageWritten
<1>2. /\ milestones \in Seq([Stages -> Milestone])
      /\ p \in 1..Len(milestones) /\ q \in 1..Len(milestones)
  BY DEF RegistryInv, RegistryTypeOK, PropertyIds
<1> DEFINE new == WithStage(milestones, p, stage, m)
<1>3. \A r \in 1..Len(milestones) : \A t \in Stages :
        new[r][t] = IF r = p /\ t = stage THEN m ELSE milestones[r][t]
  <2> SUFFICES ASSUME NEW r \in 1..Len(milestones), NEW t \in Stages
               PROVE  new[r][t] = IF r = p /\ t = stage THEN m ELSE milestones[r][t]
    OBVIOUS
  <2> DEFINE old == milestones[p]
             rewritten == [old EXCEPT ![stage] = m]
  <2>1. DOMAIN milestones = 1..Len(milestones) /\ old \in [Stages -> Milestone]
    BY <1>2
  <2>2. new[r] = IF r = p THEN rewritten ELSE milestones[r]
    BY <2>1 DEF WithStage
  <2> HIDE DEF old
  <2>3. rewritten[t] = IF t = stage THEN m ELSE old[t]
    BY <2>1
  <2> HIDE DEF new, rewritten
  <2> QED
    BY <2>2, <2>3 DEF old
<1> HIDE DEF new
<1>4. milestones' = new
  BY <1>1 DEF new
<1>5. milestones'[q][s] = IF q = p /\ s = stage THEN m ELSE milestones[q][s]
  BY <1>2, <1>3, <1>4
<1>6. CASE q = p /\ s = stage
  BY <1>1, <1>5, <1>6 DEF LegalStage, Kept
<1>7. CASE ~(q = p /\ s = stage)
  BY <1>5, <1>7 DEF Kept
<1> QED
  BY <1>6, <1>7

\* Every transaction of the registry keeps every signed-off stage.
LEMMA SignaturesKept ==
  ASSUME RegistryInv, [RegistryNext]_registryVars
  PROVE  \A p \in PropertyIds : \A stage \in Stages : Kept(p, stage)
<1>1. CASE milestones' = milestones
  BY <1>1 DEF Kept
<1>2. CASE StageStep
  BY <1>2, StageWrittenKeepsSignatures DEF StageStep, StageWritten
<1>3. CASE SubmitPropertyTx
  <2>1. PICK trustee \in trustees : SubmitProperty(trustee)
    BY <1>3 DEF SubmitPropertyTx
  <2>2. milestones \in Seq([Stages -> Milestone]) /\ PropertyIds = 1..Len(milestones)
    BY DEF RegistryInv, RegistryTypeOK, PropertyIds
  <2>3. \A p \in PropertyIds : milestones'[p] = milestones[p]
    BY <2>1, <2>2 DEF SubmitProperty
  <2> QED
    BY <2>3 DEF Kept
<1>4. CASE PropertyStep
  BY <1>1, <1>4 DEF PropertyStep
<1>5. AdminTx \/ UNCHANGED registryVars => milestones' = milestones
  BY DEF AdminTx, SetTrustee, SetOracle, registryVars
<1> QED
  BY <1>1, <1>2, <1>3, <1>4, <1>5, EvidenceIsLegal, OracleIsLegal, ReleaseIsLegal,
     OutcomeIsLegal DEF RegistryNext

\* Nothing anybody does takes a signature, its evidence or a release back.
THEOREM SignaturesAreFinal == RegistrySpec => SignOffIsFinal
<1>1. RegistryInv /\ [RegistryNext]_registryVars =>
        [\A p \in PropertyIds : \A stage \in Stages :
           LET before == milestones[p][stage]
               after  == milestones'[p][stage]
           IN  before.verified =>
                 /\ after.verified
                 /\ after.evidence_hash = before.evidence_hash
                 /\ after.verified_by = before.verified_by
                 /\ before.released => after.released]_registryVars
  BY SignaturesKept DEF Kept
<1> QED
  BY <1>1, RegistryInvariant, PTL DEF RegistrySpec, SignOffIsFinal

\* No transaction of the registry withdraws a value.
LEMMA ValuesKept ==
  ASSUME RegistryInv, [RegistryNext]_registryVars
  PROVE  ValuesStay
<1>1. CASE UNCHANGED properties
  BY <1>1 DEF ValuesStay, PropertyIds
<1>2. CASE PropertyStep
  BY <1>2, PropertyRewriteKeeps DEF PropertyStep
<1>3. CASE SubmitPropertyTx
  <2>1. PICK trustee \in trustees : SubmitProperty(trustee)
    BY <1>3 DEF SubmitPropertyTx
  <2>2. properties \in Seq(Property)
    BY DEF RegistryInv, RegistryTypeOK
  <2>3. /\ Len(properties') = Len(properties) + 1
        /\ \A p \in PropertyIds : properties'[p] = properties[p]
    BY <2>1, <2>2 DEF SubmitProperty, PropertyIds
  <2> QED
    BY <2>2, <2>3 DEF ValuesStay, PropertyIds
<1>4. StageStep \/ AdminTx \/ UNCHANGED registryVars => UNCHANGED properties
  BY DEF StageStep, AdminTx, SetTrustee, SetOracle, registryVars
<1> QED
  BY <1>1, <1>2, <1>3, <1>4, EvidenceIsLegal, OracleIsLegal, ReleaseIsLegal,
     OutcomeIsLegal DEF RegistryNext

-----------------------------------------------------------------------------
(* Two calls in one transaction.                                           *)

\* On the first draw of a loan, disburse calls the registry twice: it releases
\* the stage and marks the property mortgaged.
FirstDrawTx == \E p \in PropertyIds, stage \in Stages :
  /\ MarkReleased(p, stage)
  /\ MarkMortgaged(p)
  /\ UNCHANGED <<trustees, oracles>>

\* Both calls together keep what each of them keeps.
LEMMA FirstDrawKeeps ==
  ASSUME RegistryInv, FirstDrawTx
  PROVE  /\ RegistryInv' /\ ValuesStay
         /\ \A p \in PropertyIds : \A stage \in Stages : Kept(p, stage)
<1>1. PICK p \in PropertyIds, stage \in Stages :
        /\ MarkReleased(p, stage)
        /\ Transition(p, "Mortgaged")
        /\ UNCHANGED <<trustees, oracles>>
  BY DEF FirstDrawTx, MarkMortgaged
<1>2. PICK m \in Milestone : LegalStage(p, stage, m)
                             /\ milestones' = WithStage(milestones, p, stage, m)
  BY <1>1, ReleaseWrites
<1>3. PICK new \in Property : LegalProperty(p, new)
                              /\ properties' = [properties EXCEPT ![p] = new]
  BY <1>1, TransitionWrites
<1>4. SameTrustees /\ LendingTermsAreIndependent' /\ ValuesStay
  BY <1>3, PropertyRewriteKeeps
<1>5. RegistryTypeOK' /\ SignedOffInBuildOrder' /\ ReleasesAreJustified'
  BY <1>1, <1>2, <1>4, StageRewriteKeeps DEF StageRewrite
<1>6. \A q \in PropertyIds : \A s \in Stages : Kept(q, s)
  BY <1>2, StageWrittenKeepsSignatures DEF StageWritten
<1> QED
  BY <1>4, <1>5, <1>6 DEF RegistryInv

=============================================================================
