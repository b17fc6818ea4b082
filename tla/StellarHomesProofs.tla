------------------------ MODULE StellarHomesProofs -------------------------
(***************************************************************************)
(* Proofs about the three contracts together, for every set of facilities, *)
(* payments, roles and valuations and any number of loans and properties.  *)
(*                                                                         *)
(* The invariant has three parts.  LoansInv says, loan by loan, what its   *)
(* status means for its balances, for the stages and the status of its     *)
(* property and for the index of open loans.  BooksInv says what the loans *)
(* add up to on the pool's side.  HomesTypeOK types both.  A transaction   *)
(* rewrites one loan, so LoansInv is kept by what it does to that loan and *)
(* its property, and BooksInv by the numbers it passes to the pool.        *)
(*                                                                         *)
(* With BooksInv the pool is called as LendingPool assumes it is, so its   *)
(* invariants hold here too, and so do the registry's, whose steps the     *)
(* transactions are.  From all of them together follow the life of a loan, *)
(* what every draw stands on, what becomes of a signed-off stage, that no  *)
(* guard stands in the way of settling, writing off or drawing a loan, and *)
(* what rounding can cost.                                                 *)
(***************************************************************************)
EXTENDS StellarHomes, MortgageLoanProofs

Signing == {"Applied", "Approved"}
Running == {"Funded", "Repaying"}
Open    == Signing \cup Running
Drawing == {"Approved", "Funded", "Repaying"}

SliceOf(m) == m.principal \div m.term_months

\* What the status of a loan says of its balances, given the status of its
\* property and the stages released on it.
LoanOK(m, standing, released) ==
  /\ m.status \in Signing =>
       /\ m.disbursed = 0 /\ m.outstanding = 0
       /\ m.interest_paid = 0 /\ m.payments_made = 0
       /\ standing = "Verified" /\ released = {}
  /\ m.status \in Running =>
       m.disbursed > 0 /\ m.outstanding > 0 /\ standing = "Mortgaged"
  /\ m.status = "Funded"    => m.payments_made = 0
  /\ m.status = "PaidOff"   => m.outstanding = 0 /\ standing = "Repaid"
  /\ m.status = "Defaulted" => standing = "Defaulted"
  /\ m.disbursed = TranchesOf(m.principal, released)
  /\ m.outstanding = 0 \/ m.outstanding <= m.disbursed - m.payments_made * SliceOf(m)

HomesTypeOK ==
  /\ MortgageTypeOK
  /\ Registry!RegistryTypeOK
  /\ next_id \in Nat \ {0}
  /\ next_id <= MaxLoans + 1
  /\ now \in Nat \ {0}

LoansInv ==
  /\ \A id \in MortgageIds :
       LET m == mortgages[id]
           p == m.property_id
       IN  /\ p \in Registry!PropertyIds
           /\ LoanOK(m, properties[p].status, StagesReleased(p))
           /\ m.status \in Open =>
                p \in DOMAIN property_mortgage /\ property_mortgage[p] = id
  /\ \A id, other \in MortgageIds :
       mortgages[id].property_id = mortgages[other].property_id => id = other
  /\ \A p \in DOMAIN property_mortgage :
       /\ mortgages[property_mortgage[p]].property_id = p
       /\ mortgages[property_mortgage[p]].status \in Open
  /\ \A p \in Registry!PropertyIds :
       (\A id \in MortgageIds : mortgages[id].property_id # p) =>
         properties[p].status \in {"Pending", "Verified"} /\ StagesReleased(p) = {}

\* The sums of the books, over any table of loans.
LentIn(table) ==
  Total([id \in {i \in DOMAIN table : table[i].status \in Running} |-> table[id].outstanding])
LostIn(table) ==
  Total([id \in {i \in DOMAIN table : table[i].status \in {"Defaulted"}} |->
           table[id].outstanding])
PaidIn(table) == Total([id \in DOMAIN table |-> table[id].interest_paid])
UndrawnIn(table) ==
  Total([id \in {i \in DOMAIN table : table[i].status \in Drawing} |-> Undrawn(table[id])])

BooksInv ==
  /\ total_capital \in Nat /\ total_reserved \in Nat /\ total_lent \in Nat
  /\ total_interest \in Nat /\ total_written_off \in Nat /\ total_shares \in Nat
  /\ total_lent = LentIn(mortgages)
  /\ total_written_off = LostIn(mortgages)
  /\ total_interest = PaidIn(mortgages)
  /\ total_reserved = UndrawnIn(mortgages)
  /\ total_reserved <= total_capital
  /\ total_shares = total_capital + total_lent + total_written_off

HomesInv == HomesTypeOK /\ LoansInv /\ BooksInv

-----------------------------------------------------------------------------
(* The books.                                                              *)

\* A table of loans, each within its facility.
IsTable(table) ==
  /\ IsFiniteSet(DOMAIN table)
  /\ \A id \in DOMAIN table : table[id] \in Mortgage /\ table[id].disbursed <= table[id].principal

\* What one loan adds to each sum.
Lent(m)      == IF m.status \in Running THEN m.outstanding ELSE 0
Lost(m)      == IF m.status \in {"Defaulted"} THEN m.outstanding ELSE 0
SetAside(m)  == IF m.status \in Drawing THEN Undrawn(m) ELSE 0

\* The sums differ by what the one loan that differs adds.  Nothing stands for
\* a loan that is not in the table: it adds to none of them.
Nothing == [status |-> "Applied", outstanding |-> 0, interest_paid |-> 0]

In(table, id) == IF id \in DOMAIN table THEN table[id] ELSE Nothing

\* When one entry of the table changes, each sum changes by that loan's part,
\* which is no more than the sum.
LEMMA BooksOfOne ==
  ASSUME NEW old, NEW new, NEW id, IsTable(old), IsTable(new),
         DOMAIN old \ {id} = DOMAIN new \ {id},
         \A j \in DOMAIN old \ {id} : new[j] = old[j]
  PROVE  /\ LentIn(new) = LentIn(old) - Lent(In(old, id)) + Lent(In(new, id))
         /\ LostIn(new) = LostIn(old) - Lost(In(old, id)) + Lost(In(new, id))
         /\ PaidIn(new) = PaidIn(old) - In(old, id).interest_paid + In(new, id).interest_paid
         /\ UndrawnIn(new) = UndrawnIn(old) - SetAside(In(old, id)) + SetAside(In(new, id))
         /\ Lent(In(old, id)) \in Nat /\ Lost(In(old, id)) \in Nat
         /\ In(old, id).interest_paid \in Nat /\ SetAside(In(old, id)) \in Nat
         /\ Lent(In(new, id)) \in Nat /\ Lost(In(new, id)) \in Nat
         /\ In(new, id).interest_paid \in Nat /\ SetAside(In(new, id)) \in Nat
         /\ Lent(In(old, id)) <= LentIn(old) /\ SetAside(In(old, id)) <= UndrawnIn(old)
<1> DEFINE with(table, statuses) == {i \in DOMAIN table : table[i].status \in statuses}
           lent(table) == [i \in with(table, Running) |-> table[i].outstanding]
           lost(table) == [i \in with(table, {"Defaulted"}) |-> table[i].outstanding]
           paid(table) == [i \in DOMAIN table |-> table[i].interest_paid]
           kept(table) == [i \in with(table, Drawing) |-> Undrawn(table[i])]
<1>1. ASSUME NEW table, IsTable(table)
      PROVE  Summable(lent(table)) /\ Summable(lost(table)) /\ Summable(paid(table))
             /\ Summable(kept(table))
  <2>1. ASSUME NEW statuses PROVE IsFiniteSet(with(table, statuses))
    BY <1>1, FS_Subset DEF IsTable
  <2>2. \A i \in DOMAIN table : /\ table[i].outstanding \in Nat
                                /\ table[i].interest_paid \in Nat
                                /\ Undrawn(table[i]) \in Nat
    BY <1>1 DEF IsTable, Mortgage, Undrawn
  <2>3. IsFiniteSet(DOMAIN table)
    BY <1>1 DEF IsTable
  <2> QED
    BY <2>1, <2>2, <2>3 DEF Summable
<1>2. ASSUME NEW statuses
      PROVE  /\ with(old, statuses) \ {id} = with(new, statuses) \ {id}
             /\ \A j \in with(old, statuses) \ {id} : new[j] = old[j]
  OBVIOUS
<1>3. /\ LentIn(old) = Total(lent(old)) /\ LentIn(new) = Total(lent(new))
      /\ LostIn(old) = Total(lost(old)) /\ LostIn(new) = Total(lost(new))
      /\ PaidIn(old) = Total(paid(old)) /\ PaidIn(new) = Total(paid(new))
      /\ UndrawnIn(old) = Total(kept(old)) /\ UndrawnIn(new) = Total(kept(new))
  BY DEF LentIn, LostIn, PaidIn, UndrawnIn
<1>4. ASSUME NEW table
      PROVE  /\ At(lent(table), id) = Lent(In(table, id))
             /\ At(lost(table), id) = Lost(In(table, id))
             /\ At(paid(table), id) = In(table, id).interest_paid
             /\ At(kept(table), id) = SetAside(In(table, id))
  BY DEF At, In, Lent, Lost, SetAside, Nothing, Running, Drawing
<1>5. /\ DOMAIN lent(old) \ {id} = DOMAIN lent(new) \ {id}
      /\ DOMAIN lost(old) \ {id} = DOMAIN lost(new) \ {id}
      /\ DOMAIN paid(old) \ {id} = DOMAIN paid(new) \ {id}
      /\ DOMAIN kept(old) \ {id} = DOMAIN kept(new) \ {id}
  BY <1>2
<1>6. /\ \A j \in DOMAIN lent(old) \ {id} : lent(new)[j] = lent(old)[j]
      /\ \A j \in DOMAIN lost(old) \ {id} : lost(new)[j] = lost(old)[j]
      /\ \A j \in DOMAIN paid(old) \ {id} : paid(new)[j] = paid(old)[j]
      /\ \A j \in DOMAIN kept(old) \ {id} : kept(new)[j] = kept(old)[j]
  BY <1>2
<1>7. Summable(lent(old)) /\ Summable(lost(old)) /\ Summable(paid(old)) /\ Summable(kept(old))
  BY <1>1
<1>8. Summable(lent(new)) /\ Summable(lost(new)) /\ Summable(paid(new)) /\ Summable(kept(new))
  BY <1>1
<1> HIDE DEF lent, lost, paid, kept, with
<1>9. /\ Total(lent(new)) = Total(lent(old)) - At(lent(old), id) + At(lent(new), id)
      /\ At(lent(old), id) \in Nat /\ At(lent(new), id) \in Nat
      /\ At(lent(old), id) <= Total(lent(old))
  BY <1>5, <1>6, <1>7, <1>8, TotalOfOne
<1>10. /\ Total(lost(new)) = Total(lost(old)) - At(lost(old), id) + At(lost(new), id)
       /\ At(lost(old), id) \in Nat /\ At(lost(new), id) \in Nat
  BY <1>5, <1>6, <1>7, <1>8, TotalOfOne
<1>11. /\ Total(paid(new)) = Total(paid(old)) - At(paid(old), id) + At(paid(new), id)
       /\ At(paid(old), id) \in Nat /\ At(paid(new), id) \in Nat
  BY <1>5, <1>6, <1>7, <1>8, TotalOfOne
<1>12. /\ Total(kept(new)) = Total(kept(old)) - At(kept(old), id) + At(kept(new), id)
       /\ At(kept(old), id) \in Nat /\ At(kept(new), id) \in Nat
       /\ At(kept(old), id) <= Total(kept(old))
  BY <1>5, <1>6, <1>7, <1>8, TotalOfOne
<1> QED
  BY <1>3, <1>4, <1>9, <1>10, <1>11, <1>12

-----------------------------------------------------------------------------
(* The registry.                                                           *)

\* An entry of a sequence is rewritten.
LEMMA Rewritten ==
  ASSUME NEW S, NEW seq \in Seq(S), NEW k \in 1..Len(seq), NEW x \in S
  PROVE  /\ [seq EXCEPT ![k] = x] \in Seq(S)
         /\ Len([seq EXCEPT ![k] = x]) = Len(seq)
         /\ \A q \in 1..Len(seq) : [seq EXCEPT ![k] = x][q] = IF q = k THEN x ELSE seq[q]
  OBVIOUS

\* A property and its stages have their types.
LEMMA RegistryRecords ==
  ASSUME Registry!RegistryTypeOK, NEW p \in Registry!PropertyIds
  PROVE  /\ p \in 1..Len(properties) /\ p \in 1..Len(milestones)
         /\ properties \in Seq(Registry!Property)
         /\ milestones \in Seq([Registry!Stages -> Registry!Milestone])
         /\ properties[p] \in Registry!Property
         /\ milestones[p] \in [Registry!Stages -> Registry!Milestone]
  BY DEF Registry!RegistryTypeOK, Registry!PropertyIds

\* The status of one property changes.
LEMMA PropertyRewritten ==
  ASSUME Registry!RegistryTypeOK, NEW p \in Registry!PropertyIds, NEW x \in Registry!Property,
         properties' = [properties EXCEPT ![p] = x],
         UNCHANGED <<trustees, oracles, milestones>>
  PROVE  /\ Registry!RegistryTypeOK'
         /\ Registry!PropertyIds' = Registry!PropertyIds
         /\ properties'[p] = x
         /\ \A q \in Registry!PropertyIds \ {p} : properties'[q] = properties[q]
         /\ \A q : StagesReleased(q)' = StagesReleased(q)
<1>1. /\ properties' \in Seq(Registry!Property) /\ Len(properties') = Len(properties)
      /\ \A q \in 1..Len(properties) : properties'[q] = IF q = p THEN x ELSE properties[q]
  BY RegistryRecords, Rewritten
<1>2. \A q : StagesReleased(q)' = StagesReleased(q)
  BY DEF StagesReleased, Registry!Stages
<1>3. Registry!RegistryTypeOK'
  BY <1>1 DEF Registry!RegistryTypeOK, Registry!Stages
<1>4. Registry!PropertyIds' = Registry!PropertyIds
  BY <1>1 DEF Registry!PropertyIds
<1> QED
  BY <1>1, <1>2, <1>3, <1>4 DEF Registry!PropertyIds

\* One stage of one property changes.
LEMMA StageRewritten ==
  ASSUME Registry!RegistryTypeOK, NEW p \in Registry!PropertyIds, NEW stage \in Registry!Stages,
         NEW x \in Registry!Milestone,
         milestones' = [milestones EXCEPT ![p] = [milestones[p] EXCEPT ![stage] = x]],
         UNCHANGED <<trustees, oracles>>,
         properties' \in Seq(Registry!Property), Len(properties') = Len(properties)
  PROVE  /\ Registry!RegistryTypeOK'
         /\ Registry!PropertyIds' = Registry!PropertyIds
         /\ \A q \in Registry!PropertyIds \ {p} : StagesReleased(q)' = StagesReleased(q)
         /\ StagesReleased(p)' = (StagesReleased(p) \ {stage})
                                   \cup IF x.released THEN {stage} ELSE {}
<1> DEFINE y == [milestones[p] EXCEPT ![stage] = x]
<1>1. milestones[p] \in [Registry!Stages -> Registry!Milestone]
  BY RegistryRecords
<1>2. y \in [Registry!Stages -> Registry!Milestone]
  BY <1>1
<1>3. \A s \in Registry!Stages : y[s] = IF s = stage THEN x ELSE milestones[p][s]
  BY <1>1
<1>4. milestones' = [milestones EXCEPT ![p] = y]
  OBVIOUS
<1> HIDE DEF y
<1>5. /\ milestones' \in Seq([Registry!Stages -> Registry!Milestone])
      /\ Len(milestones') = Len(milestones)
      /\ \A q \in 1..Len(milestones) : milestones'[q] = IF q = p THEN y ELSE milestones[q]
  <2> DEFINE S == [Registry!Stages -> Registry!Milestone]
             old == milestones
             new == [old EXCEPT ![p] = y]
  <2>1. p \in 1..Len(old) /\ old \in Seq(S) /\ y \in S
    BY <1>2, RegistryRecords
  <2> HIDE DEF S, old
  <2>2. /\ new \in Seq(S) /\ Len(new) = Len(old)
        /\ \A q \in 1..Len(old) : new[q] = IF q = p THEN y ELSE old[q]
    BY <2>1, Rewritten
  <2>3. milestones' = new
    BY <1>4 DEF old
  <2> HIDE DEF new
  <2> QED
    BY <2>2, <2>3 DEF S, old
<1>6. Registry!RegistryTypeOK'
  <2>1. Len(milestones) = Len(properties)
    BY DEF Registry!RegistryTypeOK
  <2>2. (milestones \in Seq([Registry!Stages -> Registry!Milestone]))'
    BY <1>5 DEF Registry!Stages
  <2> QED
    BY <1>5, <2>1, <2>2 DEF Registry!RegistryTypeOK
<1>7. Registry!PropertyIds' = Registry!PropertyIds /\ p \in 1..Len(milestones)
  BY RegistryRecords DEF Registry!PropertyIds
<1>8. \A q \in Registry!PropertyIds \ {p} : StagesReleased(q)' = StagesReleased(q)
  BY <1>5 DEF StagesReleased, Registry!Stages, Registry!PropertyIds, Registry!RegistryTypeOK
<1>9. StagesReleased(p)' = {s \in Registry!Stages : y[s].released}
  BY <1>5, <1>7 DEF StagesReleased, Registry!Stages
<1>10. StagesReleased(p)' = (StagesReleased(p) \ {stage})
                              \cup IF x.released THEN {stage} ELSE {}
  BY <1>3, <1>9 DEF StagesReleased
<1> QED
  BY <1>6, <1>7, <1>8, <1>10

\* What the registry's own transactions do to what loans depend on: a title is
\* verified or a property is new, and no stage is released.
QuietRegistry ==
  /\ Registry!RegistryTypeOK'
  /\ Registry!PropertyIds \subseteq Registry!PropertyIds'
  /\ \A p \in Registry!PropertyIds :
       /\ \/ properties'[p].status = properties[p].status
          \/ properties[p].status = "Pending" /\ properties'[p].status = "Verified"
       /\ StagesReleased(p)' = StagesReleased(p)
  /\ \A p \in Registry!PropertyIds' \ Registry!PropertyIds :
       properties'[p].status = "Pending" /\ StagesReleased(p)' = {}

\* Granting and revoking roles touches no property.
LEMMA RolesAreQuiet ==
  ASSUME Registry!RegistryTypeOK, Registry!AdminTx
  PROVE  QuietRegistry
<1>1. /\ properties' = properties /\ milestones' = milestones
      /\ trustees' \subseteq Registry!Addresses /\ oracles' \subseteq Registry!Addresses
  BY DEF Registry!AdminTx, Registry!SetTrustee, Registry!SetOracle, Registry!SetRole,
         Registry!RegistryTypeOK, Registry!Addresses
<1> QED
  BY <1>1 DEF QuietRegistry, Registry!RegistryTypeOK, Registry!PropertyIds, StagesReleased,
              Registry!Stages

\* A new property is pending and none of its stages is released.
LEMMA SubmissionIsQuiet ==
  ASSUME Registry!RegistryTypeOK, Registry!SubmitPropertyTx
  PROVE  QuietRegistry
<1>1. PICK trustee \in trustees : Registry!SubmitProperty(trustee)
  BY DEF Registry!SubmitPropertyTx
<1> DEFINE x == [trustee |-> trustee, usdc_value |-> 0, status |-> "Pending",
                 verified_by |-> Nobody, valued_by |-> Nobody]
           y == [s \in Registry!Stages |-> Registry!EmptyMilestone]
<1>2. /\ properties' = Append(properties, x) /\ milestones' = Append(milestones, y)
      /\ UNCHANGED <<trustees, oracles>>
  BY <1>1 DEF Registry!SubmitProperty
<1>3. /\ x \in Registry!Property /\ x.status = "Pending"
      /\ y \in [Registry!Stages -> Registry!Milestone]
      /\ \A s \in Registry!Stages : ~y[s].released
  BY DEF Registry!Property, Registry!PropertyStatus, Registry!Milestone, Registry!EmptyMilestone,
         Registry!RegistryTypeOK
<1> HIDE DEF x, y
<1>4. /\ properties \in Seq(Registry!Property) /\ Len(milestones) = Len(properties)
      /\ milestones \in Seq([Registry!Stages -> Registry!Milestone])
  BY DEF Registry!RegistryTypeOK
<1>5. /\ properties' \in Seq(Registry!Property) /\ Len(properties') = Len(properties) + 1
      /\ \A q \in 1..Len(properties) : properties'[q] = properties[q]
      /\ properties'[Len(properties) + 1] = x
  BY <1>2, <1>3, <1>4
<1>6. /\ milestones' \in Seq([Registry!Stages -> Registry!Milestone])
      /\ Len(milestones') = Len(milestones) + 1
      /\ \A q \in 1..Len(milestones) : milestones'[q] = milestones[q]
      /\ milestones'[Len(milestones) + 1] = y
  BY <1>2, <1>3, <1>4
<1>7. Len(properties) \in Nat
  BY <1>4
<1>8. Registry!RegistryTypeOK'
  BY <1>2, <1>4, <1>5, <1>6, <1>7 DEF Registry!RegistryTypeOK, Registry!Stages
<1>9. /\ Registry!PropertyIds \subseteq Registry!PropertyIds'
      /\ Registry!PropertyIds' \ Registry!PropertyIds = {Len(properties) + 1}
  BY <1>5, <1>7 DEF Registry!PropertyIds
<1>10. \A q \in Registry!PropertyIds :
         properties'[q] = properties[q] /\ StagesReleased(q)' = StagesReleased(q)
  BY <1>4, <1>5, <1>6 DEF Registry!PropertyIds, StagesReleased, Registry!Stages
<1>11. ASSUME NEW q, q = Len(properties) + 1
       PROVE  StagesReleased(q)' = {}
  <2>1. StagesReleased(q)' = {s \in Registry!Stages : y[s].released}
    BY <1>4, <1>6, <1>11 DEF StagesReleased, Registry!Stages
  <2> QED
    BY <1>3, <2>1
<1> QED
  BY <1>3, <1>5, <1>8, <1>9, <1>10, <1>11 DEF QuietRegistry

\* New evidence releases nothing.
LEMMA EvidenceIsQuiet ==
  ASSUME Registry!RegistryTypeOK, Registry!EvidenceTx
  PROVE  QuietRegistry
<1>1. PICK trustee \in trustees, p \in Registry!PropertyIds, stage \in Registry!Stages,
           evidence_hash \in Evidence \cup {NoEvidence} :
        Registry!SubmitMilestoneEvidence(trustee, p, stage, evidence_hash)
  BY DEF Registry!EvidenceTx
<1> DEFINE old == milestones[p][stage]
           x == [old EXCEPT !.evidence_hash = evidence_hash]
<1>2. old \in Registry!Milestone
  BY RegistryRecords
<1>3. x \in Registry!Milestone /\ x.released = old.released
  BY <1>2 DEF Registry!Milestone
<1>4. /\ milestones' = [milestones EXCEPT ![p] = [milestones[p] EXCEPT ![stage] = x]]
      /\ UNCHANGED <<trustees, oracles, properties>>
  BY <1>1 DEF Registry!SubmitMilestoneEvidence
<1>5. properties' \in Seq(Registry!Property) /\ Len(properties') = Len(properties)
  BY <1>4 DEF Registry!RegistryTypeOK
<1> HIDE DEF x
<1>6. /\ Registry!RegistryTypeOK' /\ Registry!PropertyIds' = Registry!PropertyIds
      /\ \A q \in Registry!PropertyIds \ {p} : StagesReleased(q)' = StagesReleased(q)
      /\ StagesReleased(p)' = (StagesReleased(p) \ {stage})
                                \cup IF x.released THEN {stage} ELSE {}
  BY <1>3, <1>4, <1>5, StageRewritten
<1>7. StagesReleased(p)' = StagesReleased(p)
  BY <1>3, <1>6 DEF StagesReleased
<1> QED
  BY <1>4, <1>6, <1>7 DEF QuietRegistry

\* Neither does an oracle's signature on a stage.
LEMMA SignatureIsQuiet ==
  ASSUME Registry!RegistryTypeOK, NEW oracle \in oracles, NEW p \in Registry!PropertyIds,
         NEW stage \in Registry!Stages, Registry!VerifyMilestone(oracle, p, stage)
  PROVE  QuietRegistry
<1> DEFINE old == milestones[p][stage]
           x == [old EXCEPT !.verified = TRUE, !.verified_by = oracle]
<1>1. old \in Registry!Milestone /\ oracle \in Registry!Addresses
  BY RegistryRecords DEF Registry!RegistryTypeOK
<1>2. x \in Registry!Milestone /\ x.released = old.released
  BY <1>1 DEF Registry!Milestone
<1>3. /\ milestones' = [milestones EXCEPT ![p] = [milestones[p] EXCEPT ![stage] = x]]
      /\ UNCHANGED <<trustees, oracles, properties>>
  BY DEF Registry!VerifyMilestone
<1>4. properties' \in Seq(Registry!Property) /\ Len(properties') = Len(properties)
  BY <1>3 DEF Registry!RegistryTypeOK
<1> HIDE DEF x
<1>5. /\ Registry!RegistryTypeOK' /\ Registry!PropertyIds' = Registry!PropertyIds
      /\ \A q \in Registry!PropertyIds \ {p} : StagesReleased(q)' = StagesReleased(q)
      /\ StagesReleased(p)' = (StagesReleased(p) \ {stage})
                                \cup IF x.released THEN {stage} ELSE {}
  BY <1>2, <1>3, <1>4, StageRewritten
<1>6. StagesReleased(p)' = StagesReleased(p)
  BY <1>2, <1>5 DEF StagesReleased
<1> QED
  BY <1>3, <1>5, <1>6 DEF QuietRegistry

\* Confirming a title makes a pending property verified.
LEMMA TitleIsQuiet ==
  ASSUME Registry!RegistryTypeOK, NEW oracle \in oracles, NEW p \in Registry!PropertyIds,
         Registry!VerifyTitle(oracle, p)
  PROVE  QuietRegistry
<1> DEFINE old == properties[p]
           x == [old EXCEPT !.status = "Verified", !.verified_by = oracle]
<1>1. old \in Registry!Property /\ oracle \in Registry!Addresses
  BY RegistryRecords DEF Registry!RegistryTypeOK
<1>2. x \in Registry!Property /\ x.status = "Verified"
  BY <1>1 DEF Registry!Property, Registry!PropertyStatus
<1>3. /\ properties' = [properties EXCEPT ![p] = x]
      /\ UNCHANGED <<trustees, oracles, milestones>> /\ old.status = "Pending"
  BY DEF Registry!VerifyTitle
<1> HIDE DEF x
<1> QED
  BY <1>2, <1>3, PropertyRewritten DEF QuietRegistry

\* A valuation changes no status.
LEMMA ValuationIsQuiet ==
  ASSUME Registry!RegistryTypeOK, NEW oracle \in oracles, NEW p \in Registry!PropertyIds,
         NEW usdc_value \in Valuations, Registry!SetValuation(oracle, p, usdc_value)
  PROVE  QuietRegistry
<1> DEFINE old == properties[p]
           x == [old EXCEPT !.usdc_value = usdc_value, !.valued_by = oracle]
<1>1. old \in Registry!Property /\ oracle \in Registry!Addresses /\ usdc_value \in Nat
  BY RegistryRecords, MortgagePoolAssumption DEF Registry!RegistryTypeOK, Registry!SetValuation
<1>2. x \in Registry!Property /\ x.status = old.status
  BY <1>1 DEF Registry!Property, Registry!PropertyStatus
<1>3. /\ properties' = [properties EXCEPT ![p] = x]
      /\ UNCHANGED <<trustees, oracles, milestones>>
  BY DEF Registry!SetValuation
<1> HIDE DEF x
<1> QED
  BY <1>2, <1>3, PropertyRewritten DEF QuietRegistry

\* The registry's own transactions are quiet, whoever makes them.
LEMMA RegistryIsQuiet ==
  ASSUME Registry!RegistryTypeOK,
         \/ Registry!AdminTx \/ Registry!SubmitPropertyTx
         \/ Registry!EvidenceTx \/ Registry!OracleTx
  PROVE  QuietRegistry
<1>1. CASE Registry!OracleTx
  <2>1. PICK oracle \in oracles, p \in Registry!PropertyIds :
          \/ Registry!VerifyTitle(oracle, p)
          \/ \E usdc_value \in Valuations : Registry!SetValuation(oracle, p, usdc_value)
          \/ \E stage \in Registry!Stages : Registry!VerifyMilestone(oracle, p, stage)
    BY <1>1 DEF Registry!OracleTx
  <2> QED
    BY <2>1, TitleIsQuiet, ValuationIsQuiet, SignatureIsQuiet
<1> QED
  BY <1>1, RolesAreQuiet, SubmissionIsQuiet, EvidenceIsQuiet

\* What mark_released does: the stage joins those released, where it was not.
LEMMA ReleaseResult ==
  ASSUME Registry!RegistryTypeOK, NEW p \in Registry!PropertyIds, NEW stage \in Registry!Stages,
         Registry!MarkReleased(p, stage), UNCHANGED <<trustees, oracles>>,
         properties' \in Seq(Registry!Property), Len(properties') = Len(properties)
  PROVE  /\ Registry!RegistryTypeOK' /\ Registry!PropertyIds' = Registry!PropertyIds
         /\ \A q \in Registry!PropertyIds \ {p} : StagesReleased(q)' = StagesReleased(q)
         /\ stage \notin StagesReleased(p)
         /\ StagesReleased(p)' = StagesReleased(p) \cup {stage}
<1> DEFINE old == milestones[p][stage]
           x == [old EXCEPT !.released = TRUE]
<1>1. old \in Registry!Milestone
  BY RegistryRecords
<1>2. x \in Registry!Milestone /\ x.released = TRUE
  BY <1>1 DEF Registry!Milestone
<1>3. milestones' = [milestones EXCEPT ![p] = [milestones[p] EXCEPT ![stage] = x]]
  BY DEF Registry!MarkReleased
<1>4. stage \notin StagesReleased(p)
  BY DEF Registry!MarkReleased, StagesReleased
<1> HIDE DEF x
<1>5. /\ Registry!RegistryTypeOK' /\ Registry!PropertyIds' = Registry!PropertyIds
      /\ \A q \in Registry!PropertyIds \ {p} : StagesReleased(q)' = StagesReleased(q)
      /\ StagesReleased(p)' = (StagesReleased(p) \ {stage})
                                \cup IF x.released THEN {stage} ELSE {}
  BY <1>2, <1>3, StageRewritten
<1> QED
  BY <1>2, <1>4, <1>5

\* What the outcome callbacks do: they change one property's status.
LEMMA TransitionResult ==
  ASSUME Registry!RegistryTypeOK, NEW p \in Registry!PropertyIds,
         NEW status \in Registry!PropertyStatus, Registry!Transition(p, status)
  PROVE  /\ properties' \in Seq(Registry!Property) /\ Len(properties') = Len(properties)
         /\ properties'[p].status = status
         /\ \A q \in Registry!PropertyIds \ {p} : properties'[q] = properties[q]
<1> DEFINE old == properties[p]
           x == [old EXCEPT !.status = status]
<1>1. old \in Registry!Property
  BY RegistryRecords
<1>2. x \in Registry!Property /\ x.status = status
  BY <1>1 DEF Registry!Property, Registry!PropertyStatus
<1>3. properties' = [properties EXCEPT ![p] = x]
  BY DEF Registry!Transition
<1> HIDE DEF x
<1>4. p \in 1..Len(properties) /\ properties \in Seq(Registry!Property)
  BY RegistryRecords
<1>5. /\ properties' \in Seq(Registry!Property) /\ Len(properties') = Len(properties)
      /\ \A q \in 1..Len(properties) : properties'[q] = IF q = p THEN x ELSE properties[q]
  BY <1>2, <1>3, <1>4, Rewritten
<1> QED
  BY <1>2, <1>4, <1>5 DEF Registry!PropertyIds

-----------------------------------------------------------------------------
(* The loans.                                                              *)

\* A loan and its property have their types.
LEMMA LoanTypes ==
  ASSUME HomesTypeOK, LoansInv, NEW id \in MortgageIds
  PROVE  /\ mortgages[id] \in Mortgage
         /\ mortgages[id].property_id \in Registry!PropertyIds
         /\ LoanOK(mortgages[id], properties[mortgages[id].property_id].status,
                   StagesReleased(mortgages[id].property_id))
  BY DEF HomesTypeOK, MortgageTypeOK, LoansInv

\* What the registry does on its own disturbs no loan: the property of a loan
\* is past the only status that such a transaction changes.
LEMMA QuietKeepsLoans ==
  ASSUME HomesTypeOK, LoansInv, QuietRegistry, UNCHANGED <<mortgages, property_mortgage>>
  PROVE  LoansInv'
<1>1. ASSUME NEW id \in MortgageIds, NEW p, p = mortgages[id].property_id
      PROVE  /\ p \in Registry!PropertyIds'
             /\ properties'[p].status = properties[p].status
             /\ StagesReleased(p)' = StagesReleased(p)
  <2>1. p \in Registry!PropertyIds /\ LoanOK(mortgages[id], properties[p].status, StagesReleased(p))
    BY <1>1, LoanTypes
  <2>2. mortgages[id].status \in MortgageStatus
    BY LoanTypes DEF Mortgage
  <2>3. properties[p].status # "Pending"
    BY <2>1, <2>2 DEF LoanOK, MortgageStatus, Signing, Running
  <2> QED
    BY <2>1, <2>3 DEF QuietRegistry
<1>2. ASSUME NEW id \in MortgageIds, NEW p, p = mortgages[id].property_id
      PROVE  /\ p \in Registry!PropertyIds'
             /\ LoanOK(mortgages[id], properties'[p].status, StagesReleased(p)')
             /\ mortgages[id].status \in Open =>
                  p \in DOMAIN property_mortgage /\ property_mortgage[p] = id
  BY <1>1, <1>2, LoanTypes DEF LoansInv
<1>3. ASSUME NEW p \in Registry!PropertyIds',
             \A id \in MortgageIds : mortgages[id].property_id # p
      PROVE  properties'[p].status \in {"Pending", "Verified"} /\ StagesReleased(p)' = {}
  BY <1>3 DEF QuietRegistry, LoansInv
<1> QED
  BY <1>2, <1>3 DEF LoansInv, MortgageIds

\* What a transaction moves, seen from the pool's free capital and from the
\* one loan it is about: no other loan changes.
Free == total_capital - total_reserved

MovedFor(id) ==
  /\ MortgageIds' = MortgageIds
  /\ \A j \in MortgageIds \ {id} : mortgages'[j] = mortgages[j]

Drawn(old, new) ==
  /\ old.status \in {"Approved", "Funded"} /\ new.status = "Funded"
  /\ Free' = Free
  /\ \E tranche \in 1..Undrawn(old) :
       Undrawn(new) = Undrawn(old) - tranche /\ new.outstanding = old.outstanding + tranche

Paid(old, new) ==
  /\ old.status \in Running /\ old.outstanding > 0
  /\ \/ /\ new.status = "Repaying" /\ Undrawn(new) = Undrawn(old)
        /\ \E amount \in 0..(old.outstanding - 1) :
             new.outstanding = old.outstanding - amount /\ Free' = Free + amount
     \/ /\ new.status = "PaidOff"
        /\ Free' = Free + old.outstanding + Undrawn(old)

Forfeited(old, new) ==
  /\ old.status \in Running /\ old.outstanding > 0
  /\ new.status = "Defaulted" /\ new.outstanding = old.outstanding
  /\ Free' = Free + Undrawn(old)

\* A transaction that rewrites one open loan, and touches no other property,
\* keeps the invariant if it leaves that loan as its new status requires.
LEMMA LoanRewritten ==
  ASSUME HomesTypeOK, LoansInv, NEW id \in MortgageIds, NEW m \in Mortgage, NEW p,
         p = mortgages[id].property_id, m.property_id = p, mortgages[id].status \in Open,
         mortgages' = Put(mortgages, id, m),
         Registry!PropertyIds' = Registry!PropertyIds,
         \A q \in Registry!PropertyIds \ {p} :
           properties'[q].status = properties[q].status /\ StagesReleased(q)' = StagesReleased(q),
         LoanOK(m, properties'[p].status, StagesReleased(p)'),
         property_mortgage' = IF m.status \in Open THEN property_mortgage
                                                   ELSE Remove(property_mortgage, p)
  PROVE  /\ LoansInv'
         /\ MortgageIds' = MortgageIds /\ MovedFor(id) /\ mortgages'[id] = m
         /\ \A j \in MortgageIds : mortgages'[j] \in Mortgage
         /\ DOMAIN property_mortgage' \subseteq DOMAIN property_mortgage
         /\ \A q \in DOMAIN property_mortgage' : property_mortgage'[q] = property_mortgage[q]
<1>1. /\ MortgageIds' = MortgageIds
      /\ mortgages'[id] = m
      /\ \A j \in MortgageIds \ {id} : mortgages'[j] = mortgages[j]
  <2> DEFINE table == Put(mortgages, id, m)
  <2>1. /\ DOMAIN table = DOMAIN mortgages \cup {id} /\ table[id] = m
        /\ \A j \in DOMAIN mortgages \ {id} : table[j] = mortgages[j]
    BY DEF Put
  <2>2. mortgages' = table
    OBVIOUS
  <2> HIDE DEF table
  <2> QED
    BY <2>1, <2>2 DEF MortgageIds
<1>2. \A j \in MortgageIds : mortgages'[j].property_id = mortgages[j].property_id
  BY <1>1
<1>3. \A j \in MortgageIds \ {id} : mortgages[j].property_id # p
  BY DEF LoansInv
<1>4. /\ DOMAIN property_mortgage' \subseteq DOMAIN property_mortgage
      /\ DOMAIN property_mortgage \ {p} \subseteq DOMAIN property_mortgage'
      /\ \A q \in DOMAIN property_mortgage' : property_mortgage'[q] = property_mortgage[q]
      /\ m.status \in Open => p \in DOMAIN property_mortgage'
      /\ m.status \notin Open => p \notin DOMAIN property_mortgage'
  <2>1. p \in DOMAIN property_mortgage
    BY DEF LoansInv
  <2> QED
    BY <2>1 DEF Remove
<1>5. property_mortgage[p] = id
  BY DEF LoansInv
<1>6. ASSUME NEW j \in MortgageIds, NEW q, q = mortgages'[j].property_id
      PROVE  /\ q \in Registry!PropertyIds'
             /\ LoanOK(mortgages'[j], properties'[q].status, StagesReleased(q)')
             /\ mortgages'[j].status \in Open =>
                  q \in DOMAIN property_mortgage' /\ property_mortgage'[q] = j
  <2>1. CASE j = id
    BY <1>1, <1>4, <1>5, <1>6, <2>1, LoanTypes
  <2>2. CASE j # id
    <3>1. q = mortgages[j].property_id /\ q # p /\ mortgages'[j] = mortgages[j]
      BY <1>1, <1>3, <1>6, <2>2
    <3>2. q \in Registry!PropertyIds /\ LoanOK(mortgages[j], properties[q].status, StagesReleased(q))
      BY <3>1, LoanTypes
    <3>3. mortgages[j].status \in Open => q \in DOMAIN property_mortgage /\ property_mortgage[q] = j
      BY <3>1 DEF LoansInv
    <3> QED
      BY <1>4, <3>1, <3>2, <3>3
  <2> QED
    BY <2>1, <2>2
<1>7. \A j, other \in MortgageIds :
        mortgages'[j].property_id = mortgages'[other].property_id => j = other
  BY <1>2 DEF LoansInv
<1>8. ASSUME NEW q \in DOMAIN property_mortgage'
      PROVE  /\ mortgages'[property_mortgage'[q]].property_id = q
             /\ mortgages'[property_mortgage'[q]].status \in Open
  <2>1. /\ property_mortgage'[q] = property_mortgage[q] /\ q \in DOMAIN property_mortgage
        /\ property_mortgage[q] \in MortgageIds
    BY <1>4, <1>8 DEF HomesTypeOK, MortgageTypeOK
  <2>2. /\ mortgages[property_mortgage[q]].property_id = q
        /\ mortgages[property_mortgage[q]].status \in Open
    BY <2>1 DEF LoansInv
  <2>3. CASE property_mortgage[q] = id
    BY <1>1, <1>4, <2>1, <2>2, <2>3
  <2>4. CASE property_mortgage[q] # id
    BY <1>1, <2>1, <2>2, <2>4
  <2> QED
    BY <2>3, <2>4
<1>9. ASSUME NEW q \in Registry!PropertyIds,
             \A j \in MortgageIds : mortgages'[j].property_id # q
      PROVE  properties'[q].status \in {"Pending", "Verified"} /\ StagesReleased(q)' = {}
  <2>1. q # p /\ \A j \in MortgageIds : mortgages[j].property_id # q
    BY <1>2, <1>9
  <2> QED
    BY <2>1 DEF LoansInv
<1>10. LoansInv'
  BY <1>1, <1>6, <1>7, <1>8, <1>9 DEF LoansInv
<1>11. \A j \in MortgageIds : mortgages'[j] \in Mortgage
  BY <1>1, LoanTypes
<1> QED
  BY <1>1, <1>4, <1>10, <1>11 DEF MovedFor

\* No loan has drawn more than its facility.
LEMMA WithinFacility ==
  ASSUME NEW m \in Mortgage, NEW standing, NEW released \in SUBSET (0..LastStage),
         LoanOK(m, standing, released)
  PROVE  m.disbursed <= m.principal
<1>1. m.principal \in Nat /\ m.disbursed = TranchesOf(m.principal, released)
  BY DEF Mortgage, LoanOK
<1> QED
  BY <1>1, TranchesAreBounded

\* The stages released are stages.
LEMMA ReleasedAreStages ==
  /\ \A p : StagesReleased(p) \in SUBSET (0..LastStage)
  /\ \A p : StagesReleased(p)' \in SUBSET (0..LastStage)
  BY DEF StagesReleased, Registry!Stages, LastStage

\* The loans in storage are a table whose sums can be taken.
LEMMA LoansAreATable ==
  ASSUME HomesTypeOK, LoansInv
  PROVE  IsTable(mortgages)
<1>1. next_id \in Nat /\ MortgageIds \subseteq 1..(next_id - 1)
  BY DEF HomesTypeOK, MortgageTypeOK
<1>2. IsFiniteSet(1..(next_id - 1))
  BY <1>1, FS_Interval
<1>3. IsFiniteSet(DOMAIN mortgages)
  BY <1>1, <1>2, FS_Subset DEF MortgageIds
<1>4. ASSUME NEW id \in MortgageIds
      PROVE  mortgages[id] \in Mortgage /\ mortgages[id].disbursed <= mortgages[id].principal
  <2> DEFINE m == mortgages[id]
             p == m.property_id
             standing == properties[p].status
             released == StagesReleased(p)
  <2>1. m \in Mortgage /\ LoanOK(m, standing, released)
    BY LoanTypes
  <2>2. released \in SUBSET (0..LastStage)
    BY ReleasedAreStages
  <2> HIDE DEF m, standing, released
  <2>3. m.disbursed <= m.principal
    BY <2>1, <2>2, WithinFacility
  <2> QED
    BY <2>1, <2>3 DEF m
<1> QED
  BY <1>3, <1>4 DEF IsTable, MortgageIds

\* The sums when one loan is rewritten.
LEMMA SumsRewritten ==
  ASSUME HomesTypeOK, LoansInv, NEW id \in MortgageIds, NEW m \in Mortgage,
         m.disbursed <= m.principal, mortgages' = Put(mortgages, id, m)
  PROVE  /\ LentIn(mortgages') = LentIn(mortgages) - Lent(mortgages[id]) + Lent(m)
         /\ LostIn(mortgages') = LostIn(mortgages) - Lost(mortgages[id]) + Lost(m)
         /\ PaidIn(mortgages') =
              PaidIn(mortgages) - mortgages[id].interest_paid + m.interest_paid
         /\ UndrawnIn(mortgages') =
              UndrawnIn(mortgages) - SetAside(mortgages[id]) + SetAside(m)
         /\ Lent(mortgages[id]) <= LentIn(mortgages)
         /\ SetAside(mortgages[id]) <= UndrawnIn(mortgages)
<1> DEFINE new == Put(mortgages, id, m)
           old == mortgages
<1>1. /\ DOMAIN new = DOMAIN old /\ new[id] = m /\ id \in DOMAIN old
      /\ \A j \in DOMAIN old \ {id} : new[j] = old[j]
  BY DEF Put, MortgageIds
<1>2. IsTable(old)
  BY LoansAreATable
<1>3. mortgages' = new
  OBVIOUS
<1> HIDE DEF new, old
<1>4. IsTable(new)
  BY <1>1, <1>2 DEF IsTable
<1>5. In(old, id) = old[id] /\ In(new, id) = m
  BY <1>1 DEF In
<1>6. DOMAIN old \ {id} = DOMAIN new \ {id}
  BY <1>1
<1>7. /\ LentIn(new) = LentIn(old) - Lent(In(old, id)) + Lent(In(new, id))
      /\ LostIn(new) = LostIn(old) - Lost(In(old, id)) + Lost(In(new, id))
      /\ PaidIn(new) = PaidIn(old) - In(old, id).interest_paid + In(new, id).interest_paid
      /\ UndrawnIn(new) = UndrawnIn(old) - SetAside(In(old, id)) + SetAside(In(new, id))
      /\ Lent(In(old, id)) <= LentIn(old) /\ SetAside(In(old, id)) <= UndrawnIn(old)
  BY <1>1, <1>2, <1>4, <1>6, BooksOfOne
<1>8. /\ LentIn(new) = LentIn(old) - Lent(old[id]) + Lent(m)
      /\ LostIn(new) = LostIn(old) - Lost(old[id]) + Lost(m)
      /\ PaidIn(new) = PaidIn(old) - old[id].interest_paid + m.interest_paid
      /\ UndrawnIn(new) = UndrawnIn(old) - SetAside(old[id]) + SetAside(m)
      /\ Lent(old[id]) <= LentIn(old) /\ SetAside(old[id]) <= UndrawnIn(old)
  BY <1>5, <1>7, Zenon
<1> QED
  BY <1>3, <1>8 DEF old

-----------------------------------------------------------------------------
(* The transactions.                                                       *)

\* The registry as it was.
LEMMA RegistryUntouched ==
  ASSUME Registry!RegistryTypeOK, UNCHANGED registryVars
  PROVE  /\ Registry!RegistryTypeOK' /\ Registry!PropertyIds' = Registry!PropertyIds
         /\ properties' = properties
         /\ \A q : StagesReleased(q)' = StagesReleased(q)
  BY DEF registryVars, Registry!RegistryTypeOK, Registry!PropertyIds, StagesReleased,
         Registry!Stages

\* Types survive when the ids in storage stay and no entry of the index is new.
LEMMA TypesKept ==
  ASSUME HomesTypeOK, Registry!RegistryTypeOK', Registry!PropertyIds' = Registry!PropertyIds,
         MortgageIds' = MortgageIds, \A j \in MortgageIds : mortgages'[j] \in Mortgage,
         DOMAIN property_mortgage' \subseteq DOMAIN property_mortgage,
         \A q \in DOMAIN property_mortgage' : property_mortgage'[q] = property_mortgage[q],
         UNCHANGED <<next_id, adminVars, now>>
  PROVE  HomesTypeOK'
  BY DEF HomesTypeOK, MortgageTypeOK, adminVars

\* approve sets the principal aside and nothing else.
LEMMA ApproveInv ==
  ASSUME HomesInv, NEW id \in MortgageIds, NEW underwriter, Approve(underwriter, id),
         UNCHANGED <<adminVars, now, registryVars, total_capital, total_lent,
                     total_interest, total_written_off, total_shares>>
  PROVE  HomesInv'
<1> DEFINE old == mortgages[id]
           m == [old EXCEPT !.status = "Approved"]
<1>1. /\ HomesTypeOK /\ LoansInv /\ BooksInv /\ Registry!RegistryTypeOK
  BY DEF HomesInv, HomesTypeOK
<1>2. /\ old.status = "Applied" /\ total_reserved' = total_reserved + old.principal
      /\ old.principal <= total_capital - total_reserved
      /\ mortgages' = Put(mortgages, id, m)
      /\ UNCHANGED <<property_mortgage, next_id>>
  BY DEF Approve, HasStatus, Pool!Reserve, Pool!Available, Save
<1>3. PICK p : p = old.property_id
  OBVIOUS
<1>4. /\ old \in Mortgage /\ p \in Registry!PropertyIds
      /\ LoanOK(old, properties[p].status, StagesReleased(p))
  BY <1>1, <1>3, LoanTypes
<1>5. /\ m \in Mortgage /\ m.status = "Approved" /\ m.property_id = p
      /\ m.disbursed = old.disbursed /\ m.principal = old.principal
      /\ m.outstanding = old.outstanding /\ m.interest_paid = old.interest_paid
      /\ m.payments_made = old.payments_made /\ m.term_months = old.term_months
  BY <1>3, <1>4 DEF Mortgage, MortgageStatus
<1>6. /\ Registry!RegistryTypeOK' /\ Registry!PropertyIds' = Registry!PropertyIds
      /\ properties' = properties /\ \A q : StagesReleased(q)' = StagesReleased(q)
  BY <1>1, RegistryUntouched
<1>7. LoanOK(m, properties'[p].status, StagesReleased(p)')
  BY <1>2, <1>4, <1>5, <1>6 DEF LoanOK, Signing, Running, SliceOf
<1>8. old.status \in Open /\ m.status \in Open
  BY <1>2, <1>5 DEF Open, Signing
<1>9. m.disbursed <= m.principal /\ m.disbursed = 0 /\ m.principal \in Nat
  BY <1>2, <1>4, <1>5 DEF LoanOK, Signing, Mortgage
<1> HIDE DEF m
<1>10. /\ LoansInv' /\ MortgageIds' = MortgageIds
       /\ \A j \in MortgageIds : mortgages'[j] \in Mortgage
       /\ DOMAIN property_mortgage' \subseteq DOMAIN property_mortgage
       /\ \A q \in DOMAIN property_mortgage' : property_mortgage'[q] = property_mortgage[q]
  BY <1>1, <1>2, <1>3, <1>5, <1>6, <1>7, <1>8, LoanRewritten
<1>11. HomesTypeOK'
  BY <1>1, <1>2, <1>6, <1>10, TypesKept
<1>12. /\ LentIn(mortgages') = LentIn(mortgages) - Lent(old) + Lent(m)
       /\ LostIn(mortgages') = LostIn(mortgages) - Lost(old) + Lost(m)
       /\ PaidIn(mortgages') = PaidIn(mortgages) - old.interest_paid + m.interest_paid
       /\ UndrawnIn(mortgages') = UndrawnIn(mortgages) - SetAside(old) + SetAside(m)
  BY <1>1, <1>2, <1>5, <1>9, SumsRewritten
<1>13. /\ Lent(old) = 0 /\ Lent(m) = 0 /\ Lost(old) = 0 /\ Lost(m) = 0
       /\ SetAside(old) = 0 /\ SetAside(m) = old.principal
       /\ m.interest_paid = 0 /\ old.interest_paid = 0 /\ old.principal \in Nat
  BY <1>2, <1>4, <1>5, <1>9
     DEF Lent, Lost, SetAside, Running, Drawing, Undrawn, LoanOK, Signing
<1>14. BooksInv'
  BY <1>1, <1>2, <1>12, <1>13 DEF BooksInv
<1> QED
  BY <1>10, <1>11, <1>14 DEF HomesInv

\* What a payment leaves of a running loan.
LEMMA RepaidLoan ==
  ASSUME NEW old \in Mortgage, NEW t \in Nat, NEW amount \in Nat, amount > 0,
         IsEnough(Accrue(old, t), amount), old.status \in Running,
         NEW standing, NEW released, LoanOK(old, standing, released),
         NEW m, m = Accrue(old, t),
         NEW pay, pay = Smaller(amount, Payoff(m)),
         NEW after, after = AfterPayment(m, pay),
         NEW closed, closed = [after EXCEPT !.status = "PaidOff"]
  PROVE  /\ after \in Mortgage /\ closed \in Mortgage
         /\ after.status = "Repaying" /\ closed.status = "PaidOff"
         /\ after.property_id = old.property_id /\ closed.property_id = old.property_id
         /\ after.principal = old.principal /\ closed.principal = old.principal
         /\ after.disbursed = old.disbursed /\ closed.disbursed = old.disbursed
         /\ closed.outstanding = after.outstanding /\ closed.interest_paid = after.interest_paid
         /\ after.outstanding \in Nat /\ after.outstanding <= old.outstanding
         /\ InterestPart(m, pay) \in Nat
         /\ after.interest_paid = old.interest_paid + InterestPart(m, pay)
         /\ PrincipalPart(m, pay) = old.outstanding - after.outstanding
         /\ IsCleared(after) <=> after.outstanding = 0
         /\ after.outstanding > 0 => LoanOK(after, standing, released)
         /\ after.outstanding = 0 => LoanOK(closed, "Repaid", released)
<1>1. /\ m \in Mortgage /\ m.principal = old.principal /\ m.disbursed = old.disbursed
      /\ m.outstanding = old.outstanding /\ m.interest_paid = old.interest_paid
      /\ m.property_id = old.property_id /\ m.term_months = old.term_months
      /\ m.payments_made = old.payments_made
  BY AccrueKeeps
<1>2. /\ PaidFrom(after, m)
      /\ InterestPart(m, pay) = m.interest_accrued
      /\ PrincipalPart(m, pay) = m.outstanding - after.outstanding
  BY <1>1, PaymentResult
<1>3. /\ after \in Mortgage /\ after.status = "Repaying"
      /\ after.interest_paid = m.interest_paid + m.interest_accrued
      /\ after.outstanding <= m.outstanding
      /\ \/ after.outstanding = 0
         \/ m.outstanding - after.outstanding >= m.principal \div m.term_months
      /\ after.payments_made = m.payments_made + 1
      /\ after.disbursed = m.disbursed /\ after.principal = m.principal
      /\ after.property_id = m.property_id /\ after.term_months = m.term_months
      /\ IsCleared(after) <=> after.outstanding = 0
  BY <1>2 DEF PaidFrom
<1>4. /\ closed \in Mortgage /\ closed.status = "PaidOff"
      /\ closed.property_id = after.property_id /\ closed.principal = after.principal
      /\ closed.disbursed = after.disbursed /\ closed.outstanding = after.outstanding
      /\ closed.interest_paid = after.interest_paid
      /\ closed.payments_made = after.payments_made /\ closed.term_months = after.term_months
  BY <1>3 DEF Mortgage, MortgageStatus
<1>5. /\ m.interest_accrued \in Nat /\ after.outstanding \in Nat /\ old.outstanding \in Nat
      /\ old.payments_made \in Nat /\ old.disbursed \in Nat
      /\ old.principal \in Nat /\ old.term_months \in Nat \ {0}
  BY <1>1, <1>3 DEF Mortgage
<1> DEFINE slice == SliceOf(old)
           n == old.payments_made
<1>6. slice \in Nat
  BY <1>5 DEF SliceOf
<1>7. SliceOf(m) = slice /\ SliceOf(after) = slice /\ SliceOf(closed) = slice
  BY <1>1, <1>3, <1>4 DEF SliceOf
<1>8. old.outstanding <= old.disbursed - n * slice
  BY DEF LoanOK, Running
<1>9. m.principal \div m.term_months = slice
  BY <1>1 DEF SliceOf
<1> HIDE DEF slice, n
<1>10. n \in Nat
  BY <1>5 DEF n
<1>11. (n + 1) * slice = n * slice + slice /\ n * slice \in Int
  BY <1>6, <1>10
<1>12. after.outstanding = 0 \/ after.outstanding <= after.disbursed - (n + 1) * slice
  BY <1>1, <1>3, <1>5, <1>6, <1>8, <1>9, <1>11
<1>13. after.payments_made = n + 1 /\ closed.payments_made = n + 1
  BY <1>1, <1>3, <1>4 DEF n
<1>14. /\ old.disbursed > 0 /\ standing = "Mortgaged"
       /\ old.disbursed = TranchesOf(old.principal, released)
  BY DEF LoanOK, Running
<1>15. after.outstanding > 0 => LoanOK(after, standing, released)
  BY <1>1, <1>3, <1>7, <1>12, <1>13, <1>14 DEF LoanOK, Signing
<1>16. after.outstanding = 0 => LoanOK(closed, "Repaid", released)
  BY <1>1, <1>3, <1>4, <1>14 DEF LoanOK, Signing, Running
<1> QED
  BY <1>1, <1>2, <1>3, <1>4, <1>5, <1>15, <1>16

\* repay returns principal and pays interest; the last payment also frees what
\* was never drawn.
LEMMA RepayInv ==
  ASSUME HomesInv, NEW id \in MortgageIds, NEW amount \in Payments, Repay(id, amount),
         UNCHANGED <<adminVars, now, trustees, oracles, milestones,
                     total_written_off, total_shares>>
  PROVE  /\ HomesInv' /\ total_reserved' <= total_reserved
         /\ MovedFor(id)
         /\ Paid(mortgages[id], mortgages'[id])
<1> DEFINE old == mortgages[id]
           m == Accrue(old, now)
           pay == Smaller(amount, Payoff(m))
           after == AfterPayment(m, pay)
           closed == [after EXCEPT !.status = "PaidOff"]
<1>1. /\ HomesTypeOK /\ LoansInv /\ BooksInv /\ Registry!RegistryTypeOK /\ now \in Nat
  BY DEF HomesInv, HomesTypeOK
<1>2. /\ old.status \in Running /\ amount > 0 /\ IsEnough(m, amount)
      /\ Pool!Repay(PrincipalPart(m, pay), InterestPart(m, pay))
      /\ IF IsCleared(after)
         THEN /\ ReleaseUndrawn(after)
              /\ property_mortgage' = Remove(property_mortgage, m.property_id)
              /\ Registry!Transition(m.property_id, "Repaid")
              /\ mortgages' = Put(mortgages, id, closed)
         ELSE /\ mortgages' = Put(mortgages, id, after)
              /\ UNCHANGED <<total_reserved, property_mortgage, properties>>
      /\ UNCHANGED next_id
  BY DEF Repay, HasStatus, Running, Registry!MarkRepaid, Save, ClearPropertyMortgage
<1>3. PICK p : p = old.property_id
  OBVIOUS
<1>4. /\ old \in Mortgage /\ p \in Registry!PropertyIds
      /\ LoanOK(old, properties[p].status, StagesReleased(p))
  BY <1>1, <1>3, LoanTypes
<1>5. amount \in Nat /\ m.property_id = p
  <2>1. amount \in Int /\ amount > 0
    BY <1>2, StellarHomesAssumption
  <2> HIDE DEF old
  <2>2. m.property_id = old.property_id
    BY <1>1, <1>4, AccrueKeeps
  <2> QED
    BY <1>3, <2>1, <2>2
<1>6. /\ after \in Mortgage /\ closed \in Mortgage
      /\ after.status = "Repaying" /\ closed.status = "PaidOff"
      /\ after.property_id = p /\ closed.property_id = p
      /\ after.principal = old.principal /\ closed.principal = old.principal
      /\ after.disbursed = old.disbursed /\ closed.disbursed = old.disbursed
      /\ closed.outstanding = after.outstanding /\ closed.interest_paid = after.interest_paid
      /\ after.outstanding \in Nat /\ after.outstanding <= old.outstanding
      /\ InterestPart(m, pay) \in Nat
      /\ after.interest_paid = old.interest_paid + InterestPart(m, pay)
      /\ PrincipalPart(m, pay) = old.outstanding - after.outstanding
      /\ IsCleared(after) <=> after.outstanding = 0
      /\ after.outstanding > 0 => LoanOK(after, properties[p].status, StagesReleased(p))
      /\ after.outstanding = 0 => LoanOK(closed, "Repaid", StagesReleased(p))
  <2> DEFINE standing == properties[p].status
             released == StagesReleased(p)
  <2>1. LoanOK(old, standing, released)
    BY <1>4
  <2> HIDE DEF standing, released
  <2>2. /\ after \in Mortgage /\ closed \in Mortgage
        /\ after.status = "Repaying" /\ closed.status = "PaidOff"
        /\ after.property_id = old.property_id /\ closed.property_id = old.property_id
        /\ after.principal = old.principal /\ closed.principal = old.principal
        /\ after.disbursed = old.disbursed /\ closed.disbursed = old.disbursed
        /\ closed.outstanding = after.outstanding /\ closed.interest_paid = after.interest_paid
        /\ after.outstanding \in Nat /\ after.outstanding <= old.outstanding
        /\ InterestPart(m, pay) \in Nat
        /\ after.interest_paid = old.interest_paid + InterestPart(m, pay)
        /\ PrincipalPart(m, pay) = old.outstanding - after.outstanding
        /\ IsCleared(after) <=> after.outstanding = 0
        /\ after.outstanding > 0 => LoanOK(after, standing, released)
        /\ after.outstanding = 0 => LoanOK(closed, "Repaid", released)
    BY <1>1, <1>2, <1>4, <1>5, <2>1, RepaidLoan
  <2> QED
    BY <1>3, <2>2 DEF standing, released
<1> DEFINE principal == PrincipalPart(m, pay)
           interest == InterestPart(m, pay)
<1>7. /\ old.outstanding \in Nat /\ old.outstanding > 0 /\ old.interest_paid \in Nat
      /\ Undrawn(old) \in Nat /\ old.disbursed <= old.principal
  <2>1. old.disbursed <= old.principal
    <3> DEFINE standing == properties[p].status
               released == StagesReleased(p)
    <3>1. released \in SUBSET (0..LastStage) /\ LoanOK(old, standing, released)
      BY <1>4, ReleasedAreStages
    <3> HIDE DEF standing, released, old
    <3> QED
      BY <1>4, <3>1, WithinFacility
  <2> QED
    BY <1>2, <1>4, <2>1 DEF LoanOK, Mortgage, Undrawn, Running
<1>8. /\ total_capital' = total_capital + principal + Pool!BankedAsCapital(interest)
      /\ total_lent' = total_lent - principal
      /\ total_interest' = total_interest + interest
  BY <1>2 DEF Pool!Repay
<1> HIDE DEF old, m, pay, after, closed, principal, interest
<1>9. Pool!BankedAsCapital(interest) = 0
  <2>1. Lent(old) <= LentIn(mortgages) /\ Lent(old) = old.outstanding
    <3>1. LentIn(mortgages) = total_lent /\ total_lent \in Nat
      BY <1>1 DEF BooksInv
    <3>2. mortgages' = Put(mortgages, id, closed) \/ mortgages' = Put(mortgages, id, after)
      BY <1>2
    <3>3. Lent(mortgages[id]) <= LentIn(mortgages)
      BY <1>1, <1>6, <1>7, <3>2, SumsRewritten
    <3> QED
      BY <1>2, <3>3 DEF Lent, old
  <2>2. total_shares > 0
    BY <1>1, <1>7, <2>1 DEF BooksInv
  <2> QED
    BY <2>2 DEF Pool!BankedAsCapital
<1>10. /\ principal = old.outstanding - after.outstanding
       /\ interest = after.interest_paid - old.interest_paid /\ interest \in Nat
  BY <1>6, <1>7 DEF principal, interest
<1>11. old.status \in Open
  BY <1>2 DEF Open
<1>12. CASE IsCleared(after)
  <2>1. /\ ReleaseUndrawn(after) /\ property_mortgage' = Remove(property_mortgage, p)
        /\ Registry!Transition(p, "Repaid") /\ mortgages' = Put(mortgages, id, closed)
        /\ UNCHANGED next_id
    BY <1>2, <1>5, <1>12
  <2>2. /\ properties' \in Seq(Registry!Property) /\ Len(properties') = Len(properties)
        /\ properties'[p].status = "Repaid"
        /\ \A q \in Registry!PropertyIds \ {p} : properties'[q] = properties[q]
    <3>1. "Repaid" \in Registry!PropertyStatus
      BY DEF Registry!PropertyStatus
    <3> QED
      BY <1>1, <1>4, <2>1, <3>1, TransitionResult
  <2>3. /\ Registry!RegistryTypeOK' /\ Registry!PropertyIds' = Registry!PropertyIds
        /\ \A q : StagesReleased(q)' = StagesReleased(q)
    BY <1>1, <2>2 DEF Registry!RegistryTypeOK, Registry!PropertyIds, StagesReleased,
                      Registry!Stages
  <2>4. LoanOK(closed, properties'[p].status, StagesReleased(p)') /\ after.outstanding = 0
    BY <1>6, <1>12, <2>2, <2>3
  <2>5. closed.status \notin Open
    BY <1>6 DEF Open, Signing, Running
  <2>6. /\ LoansInv' /\ MortgageIds' = MortgageIds /\ MovedFor(id) /\ mortgages'[id] = closed
        /\ \A j \in MortgageIds : mortgages'[j] \in Mortgage
        /\ DOMAIN property_mortgage' \subseteq DOMAIN property_mortgage
        /\ \A q \in DOMAIN property_mortgage' : property_mortgage'[q] = property_mortgage[q]
    BY <1>1, <1>3, <1>6, <1>11, <2>1, <2>2, <2>3, <2>4, <2>5, LoanRewritten DEF old
  <2>7. HomesTypeOK'
    BY <1>1, <2>1, <2>3, <2>6, TypesKept
  <2>8. /\ LentIn(mortgages') = LentIn(mortgages) - Lent(old) + Lent(closed)
        /\ LostIn(mortgages') = LostIn(mortgages) - Lost(old) + Lost(closed)
        /\ PaidIn(mortgages') = PaidIn(mortgages) - old.interest_paid + closed.interest_paid
        /\ UndrawnIn(mortgages') = UndrawnIn(mortgages) - SetAside(old) + SetAside(closed)
        /\ Lent(old) <= LentIn(mortgages) /\ SetAside(old) <= UndrawnIn(mortgages)
    BY <1>1, <1>6, <1>7, <2>1, SumsRewritten DEF old
  <2>9. /\ Lent(old) = old.outstanding /\ Lent(closed) = 0
        /\ Lost(old) = 0 /\ Lost(closed) = 0
        /\ SetAside(old) = Undrawn(old) /\ SetAside(closed) = 0
    BY <1>2, <1>6 DEF Lent, Lost, SetAside, Running, Drawing
  <2>10. total_reserved' = total_reserved - Undrawn(old)
    <3>1. Undrawn(after) = Undrawn(old)
      BY <1>6 DEF Undrawn
    <3> QED
      BY <1>1, <1>7, <2>1, <3>1 DEF ReleaseUndrawn, Pool!Unreserve, BooksInv
  <2>11. BooksInv'
    BY <1>1, <1>6, <1>7, <1>8, <1>9, <1>10, <2>4, <2>8, <2>9, <2>10 DEF BooksInv
  <2>12. Paid(old, mortgages'[id])
    BY <1>1, <1>2, <1>6, <1>7, <1>8, <1>9, <1>10, <2>4, <2>6, <2>10 DEF Paid, Free, BooksInv
  <2> QED
    BY <1>1, <1>7, <2>6, <2>7, <2>10, <2>11, <2>12 DEF HomesInv, BooksInv, old
<1>13. CASE ~IsCleared(after)
  <2>1. /\ mortgages' = Put(mortgages, id, after)
        /\ UNCHANGED <<total_reserved, property_mortgage, properties, next_id>>
    BY <1>2, <1>13
  <2>2. UNCHANGED registryVars
    BY <2>1 DEF registryVars
  <2>3. /\ Registry!RegistryTypeOK' /\ Registry!PropertyIds' = Registry!PropertyIds
        /\ properties' = properties /\ \A q : StagesReleased(q)' = StagesReleased(q)
    BY <1>1, <2>2, RegistryUntouched
  <2>4. LoanOK(after, properties'[p].status, StagesReleased(p)')
    BY <1>6, <1>13, <2>3
  <2>5. after.status \in Open
    BY <1>6 DEF Open, Running
  <2>6. /\ LoansInv' /\ MortgageIds' = MortgageIds /\ MovedFor(id) /\ mortgages'[id] = after
        /\ \A j \in MortgageIds : mortgages'[j] \in Mortgage
        /\ DOMAIN property_mortgage' \subseteq DOMAIN property_mortgage
        /\ \A q \in DOMAIN property_mortgage' : property_mortgage'[q] = property_mortgage[q]
    BY <1>1, <1>3, <1>6, <1>11, <2>1, <2>3, <2>4, <2>5, LoanRewritten DEF old
  <2>7. HomesTypeOK'
    BY <1>1, <2>1, <2>3, <2>6, TypesKept
  <2>8. /\ LentIn(mortgages') = LentIn(mortgages) - Lent(old) + Lent(after)
        /\ LostIn(mortgages') = LostIn(mortgages) - Lost(old) + Lost(after)
        /\ PaidIn(mortgages') = PaidIn(mortgages) - old.interest_paid + after.interest_paid
        /\ UndrawnIn(mortgages') = UndrawnIn(mortgages) - SetAside(old) + SetAside(after)
        /\ Lent(old) <= LentIn(mortgages)
    BY <1>1, <1>6, <1>7, <2>1, SumsRewritten DEF old
  <2>9. /\ Lent(old) = old.outstanding /\ Lent(after) = after.outstanding
        /\ Lost(old) = 0 /\ Lost(after) = 0 /\ SetAside(after) = SetAside(old)
    BY <1>2, <1>6 DEF Lent, Lost, SetAside, Running, Drawing, Undrawn
  <2>10. SetAside(old) = Undrawn(old)
    BY <1>2 DEF SetAside, Running, Drawing
  <2>11. BooksInv'
    BY <1>1, <1>6, <1>7, <1>8, <1>9, <1>10, <2>1, <2>8, <2>9, <2>10 DEF BooksInv
  <2>12. Paid(old, mortgages'[id])
    <3>1. Undrawn(after) = Undrawn(old)
      BY <1>6 DEF Undrawn
    <3>2. Free' = Free + principal
      BY <1>1, <1>6, <1>7, <1>8, <1>9, <1>10, <2>1 DEF Free, BooksInv
    <3>3. principal \in 0..(old.outstanding - 1) /\ after.outstanding = old.outstanding - principal
      BY <1>6, <1>7, <1>10, <1>13
    <3> QED
      BY <1>2, <1>6, <1>7, <2>6, <3>1, <3>2, <3>3 DEF Paid
  <2> QED
    BY <1>1, <2>1, <2>6, <2>7, <2>11, <2>12 DEF HomesInv, BooksInv, old
<1> QED
  BY <1>12, <1>13

\* mark_default writes off what is out and frees what was never drawn.
LEMMA MarkDefaultInv ==
  ASSUME HomesInv, NEW id \in MortgageIds, MarkDefaultLoan(id)
  PROVE  /\ HomesInv' /\ total_reserved' <= total_reserved
         /\ MovedFor(id)
         /\ Forfeited(mortgages[id], mortgages'[id])
<1> DEFINE old == mortgages[id]
           m == Accrue(old, now)
           bad == [m EXCEPT !.status = "Defaulted"]
<1>1. /\ HomesTypeOK /\ LoansInv /\ BooksInv /\ Registry!RegistryTypeOK /\ now \in Nat
  BY DEF HomesInv, HomesTypeOK
<1>2. /\ old.status \in Running /\ ReleaseUndrawn(m)
      /\ IF m.outstanding > 0 THEN Pool!WriteOff(m.outstanding)
                              ELSE UNCHANGED <<total_lent, total_written_off>>
      /\ property_mortgage' = Remove(property_mortgage, m.property_id)
      /\ Registry!Transition(m.property_id, "Defaulted")
      /\ mortgages' = Put(mortgages, id, bad)
      /\ UNCHANGED <<next_id, adminVars, now, trustees, oracles, milestones,
                     total_capital, total_interest, total_shares>>
  BY DEF MarkDefaultLoan, MarkDefault, HasStatus, Running, Registry!MarkDefaulted, Save,
         ClearPropertyMortgage
<1>3. PICK p : p = old.property_id
  OBVIOUS
<1>4. /\ old \in Mortgage /\ p \in Registry!PropertyIds
      /\ LoanOK(old, properties[p].status, StagesReleased(p))
  BY <1>1, <1>3, LoanTypes
<1> HIDE DEF old
<1>5. /\ m \in Mortgage /\ m.principal = old.principal /\ m.disbursed = old.disbursed
      /\ m.outstanding = old.outstanding /\ m.interest_paid = old.interest_paid
      /\ m.property_id = p /\ m.term_months = old.term_months
      /\ m.payments_made = old.payments_made
  BY <1>1, <1>3, <1>4, AccrueKeeps
<1> HIDE DEF m
<1>6. /\ bad \in Mortgage /\ bad.status = "Defaulted" /\ bad.property_id = p
      /\ bad.principal = old.principal /\ bad.disbursed = old.disbursed
      /\ bad.outstanding = old.outstanding /\ bad.interest_paid = old.interest_paid
      /\ bad.payments_made = old.payments_made /\ bad.term_months = old.term_months
  BY <1>5 DEF Mortgage, MortgageStatus
<1> HIDE DEF bad
<1>7. /\ old.outstanding \in Nat /\ old.outstanding > 0 /\ old.interest_paid \in Nat
      /\ Undrawn(old) \in Nat /\ old.disbursed <= old.principal
  <2>1. old.disbursed <= old.principal
    <3> DEFINE standing == properties[p].status
               released == StagesReleased(p)
    <3>1. released \in SUBSET (0..LastStage) /\ LoanOK(old, standing, released)
      BY <1>4, ReleasedAreStages
    <3> HIDE DEF standing, released
    <3> QED
      BY <1>4, <3>1, WithinFacility
  <2> QED
    BY <1>2, <1>4, <2>1 DEF LoanOK, Mortgage, Undrawn, Running
<1>8. /\ properties' \in Seq(Registry!Property) /\ Len(properties') = Len(properties)
      /\ properties'[p].status = "Defaulted"
      /\ \A q \in Registry!PropertyIds \ {p} : properties'[q] = properties[q]
  <2>1. "Defaulted" \in Registry!PropertyStatus /\ Registry!Transition(p, "Defaulted")
    BY <1>2, <1>5 DEF Registry!PropertyStatus
  <2> QED
    BY <1>1, <1>4, <2>1, TransitionResult
<1>9. /\ Registry!RegistryTypeOK' /\ Registry!PropertyIds' = Registry!PropertyIds
      /\ \A q : StagesReleased(q)' = StagesReleased(q)
  BY <1>1, <1>2, <1>8 DEF Registry!RegistryTypeOK, Registry!PropertyIds, StagesReleased,
                          Registry!Stages
<1>10. LoanOK(bad, properties'[p].status, StagesReleased(p)')
  BY <1>4, <1>6, <1>8, <1>9 DEF LoanOK, Signing, Running, SliceOf
<1>11. old.status \in Open /\ bad.status \notin Open
  BY <1>2, <1>6 DEF Open, Signing, Running
<1>12. /\ LoansInv' /\ MortgageIds' = MortgageIds /\ MovedFor(id) /\ mortgages'[id] = bad
       /\ \A j \in MortgageIds : mortgages'[j] \in Mortgage
       /\ DOMAIN property_mortgage' \subseteq DOMAIN property_mortgage
       /\ \A q \in DOMAIN property_mortgage' : property_mortgage'[q] = property_mortgage[q]
  BY <1>1, <1>2, <1>3, <1>5, <1>6, <1>8, <1>9, <1>10, <1>11, LoanRewritten DEF old
<1>13. HomesTypeOK'
  BY <1>1, <1>2, <1>9, <1>12, TypesKept
<1>14. /\ LentIn(mortgages') = LentIn(mortgages) - Lent(old) + Lent(bad)
       /\ LostIn(mortgages') = LostIn(mortgages) - Lost(old) + Lost(bad)
       /\ PaidIn(mortgages') = PaidIn(mortgages) - old.interest_paid + bad.interest_paid
       /\ UndrawnIn(mortgages') = UndrawnIn(mortgages) - SetAside(old) + SetAside(bad)
       /\ Lent(old) <= LentIn(mortgages) /\ SetAside(old) <= UndrawnIn(mortgages)
  BY <1>1, <1>2, <1>6, <1>7, SumsRewritten DEF old
<1>15. /\ Lent(old) = old.outstanding /\ Lent(bad) = 0
       /\ Lost(old) = 0 /\ Lost(bad) = old.outstanding
       /\ SetAside(old) = Undrawn(old) /\ SetAside(bad) = 0
  BY <1>2, <1>6 DEF Lent, Lost, SetAside, Running, Drawing
<1>16. total_reserved' = total_reserved - Undrawn(old)
  <2>1. Undrawn(m) = Undrawn(old)
    BY <1>5 DEF Undrawn
  <2> QED
    BY <1>1, <1>2, <1>7, <2>1 DEF ReleaseUndrawn, Pool!Unreserve, BooksInv
<1>17. /\ total_lent' = total_lent - old.outstanding
       /\ total_written_off' = total_written_off + old.outstanding
  BY <1>2, <1>5, <1>7 DEF Pool!WriteOff
<1>18. BooksInv'
  BY <1>1, <1>2, <1>6, <1>7, <1>14, <1>15, <1>16, <1>17 DEF BooksInv
<1>19. Forfeited(old, mortgages'[id])
  BY <1>1, <1>2, <1>6, <1>7, <1>12, <1>16 DEF Forfeited, Free, BooksInv
<1> QED
  BY <1>1, <1>7, <1>12, <1>13, <1>16, <1>18, <1>19 DEF HomesInv, BooksInv, old

\* A draw of a loan, for a stage not released yet: m is the loan with its
\* interest brought up to t, new the loan after the draw.
IsDraw(old, t, standing, released, stage, m, tranche, new) ==
  /\ old \in Mortgage /\ t \in Nat /\ old.status \in {"Approved", "Funded"}
  /\ released \in SUBSET (0..LastStage) /\ LoanOK(old, standing, released)
  /\ stage \in (0..LastStage) \ released
  /\ tranche = TrancheFor(old, stage) /\ tranche > 0
  /\ m = Accrue(old, t) /\ new = AfterDraw(m, tranche, t)

\* What it leaves: one more stage released, one more tranche out.
HasDrawn(old, standing, released, stage, m, tranche, new) ==
  /\ new \in Mortgage /\ new.status = "Funded" /\ new.property_id = old.property_id
  /\ tranche \in Nat
  /\ new.principal = old.principal /\ new.disbursed = old.disbursed + tranche
  /\ new.outstanding = old.outstanding + tranche
  /\ new.interest_paid = old.interest_paid
  /\ IsFirstDraw(m) <=> old.status = "Approved"
  /\ standing = IF old.status = "Approved" THEN "Verified" ELSE "Mortgaged"
  /\ LoanOK(new, "Mortgaged", released \cup {stage})

\* A draw leaves the loan as its new status requires.
LEMMA DrawnLoan ==
  ASSUME NEW old, NEW t, NEW standing, NEW released, NEW stage, NEW m, NEW tranche, NEW new,
         IsDraw(old, t, standing, released, stage, m, tranche, new)
  PROVE  HasDrawn(old, standing, released, stage, m, tranche, new)
<1>0. /\ old \in Mortgage /\ t \in Nat /\ old.status \in {"Approved", "Funded"}
      /\ released \in SUBSET (0..LastStage) /\ LoanOK(old, standing, released)
      /\ stage \in (0..LastStage) \ released
      /\ tranche = TrancheFor(old, stage) /\ tranche > 0
      /\ m = Accrue(old, t) /\ new = AfterDraw(m, tranche, t)
  BY DEF IsDraw
<1>1. /\ m \in Mortgage /\ m.principal = old.principal /\ m.disbursed = old.disbursed
      /\ m.outstanding = old.outstanding /\ m.interest_paid = old.interest_paid
      /\ m.property_id = old.property_id /\ m.term_months = old.term_months
      /\ m.payments_made = old.payments_made /\ m.status = old.status
  BY <1>0, AccrueKeeps
<1>2. tranche \in Nat
  BY <1>0, TrancheIsInt
<1>4. DrawnFrom(new, m, tranche, t)
  BY <1>0, <1>1, <1>2, DrawResult
<1>5. /\ old.disbursed \in Nat /\ old.outstanding \in Nat /\ old.principal \in Nat
      /\ old.term_months \in Nat \ {0} /\ old.payments_made \in Nat
  BY <1>0 DEF Mortgage
<1>6. /\ old.status = "Approved" => old.disbursed = 0 /\ old.outstanding = 0
                                    /\ old.payments_made = 0 /\ standing = "Verified"
      /\ old.status = "Funded" => old.disbursed > 0 /\ old.outstanding > 0
                                  /\ old.payments_made = 0 /\ standing = "Mortgaged"
      /\ old.disbursed = TranchesOf(old.principal, released)
      /\ old.outstanding = 0
         \/ old.outstanding <= old.disbursed - old.payments_made * SliceOf(old)
  BY <1>0 DEF LoanOK, Signing, Running
<1>7. IsFirstDraw(m) <=> old.status = "Approved"
  BY <1>0, <1>1, <1>6 DEF IsFirstDraw
<1>8. /\ new \in Mortgage /\ new.status = "Funded" /\ new.property_id = old.property_id
      /\ new.principal = old.principal /\ new.disbursed = old.disbursed + tranche
      /\ new.outstanding = old.outstanding + tranche
      /\ new.interest_paid = old.interest_paid
      /\ new.term_months = old.term_months /\ new.payments_made = old.payments_made
  BY <1>0, <1>1, <1>4, <1>7 DEF DrawnFrom
<1>9. new.disbursed = TranchesOf(new.principal, released \cup {stage})
  <2>1. TranchesOf(old.principal, released \cup {stage}) =
          TranchesOf(old.principal, released) + TrancheFor(old, stage)
    BY <1>0, TranchesGrow
  <2> QED
    BY <1>0, <1>6, <1>8, <2>1
<1>10. new.outstanding <= new.disbursed - new.payments_made * SliceOf(new)
  <2>1. old.payments_made = 0
    BY <1>0, <1>6
  <2>2. SliceOf(new) \in Int /\ SliceOf(old) \in Int
    BY <1>5, <1>8 DEF SliceOf
  <2>3. new.payments_made * SliceOf(new) = 0 /\ old.payments_made * SliceOf(old) = 0
    BY <1>8, <2>1, <2>2
  <2>4. old.outstanding <= old.disbursed
    BY <1>5, <1>6, <2>3
  <2> QED
    BY <1>0, <1>2, <1>5, <1>8, <2>3, <2>4
<1>11. LoanOK(new, "Mortgaged", released \cup {stage})
  <2>1. new.disbursed > 0 /\ new.outstanding > 0 /\ new.payments_made = 0
    BY <1>0, <1>2, <1>5, <1>6, <1>8
  <2> QED
    BY <1>8, <1>9, <1>10, <2>1 DEF LoanOK, Signing, Running
<1> QED
  BY <1>0, <1>2, <1>6, <1>7, <1>8, <1>11 DEF HasDrawn

\* disburse moves one tranche from what was set aside to what is lent, against
\* one stage.
LEMMA DisburseInv ==
  ASSUME HomesInv, NEW id \in MortgageIds, DisburseLoan(id)
  PROVE  /\ HomesInv' /\ total_reserved' <= total_reserved
         /\ MovedFor(id)
         /\ Drawn(mortgages[id], mortgages'[id])
<1>1. /\ HomesTypeOK /\ LoansInv /\ BooksInv /\ Registry!RegistryTypeOK /\ now \in Nat
  BY DEF HomesInv, HomesTypeOK
<1> DEFINE old == mortgages[id]
<1>2. PICK stage \in Registry!Stages : Disburse(id, stage)
  BY DEF DisburseLoan
<1> DEFINE tranche == TrancheFor(old, stage)
           m == Accrue(old, now)
           new == AfterDraw(m, tranche, now)
<1>3. PICK p : p = old.property_id
  OBVIOUS
<1>4. /\ old.status \in {"Approved", "Funded"} /\ tranche > 0
      /\ Registry!MarkReleased(p, stage)
      /\ tranche <= total_reserved /\ total_reserved' = total_reserved - tranche
      /\ total_capital' = total_capital - tranche /\ total_lent' = total_lent + tranche
      /\ IF IsFirstDraw(m) THEN Registry!Transition(p, "Mortgaged") ELSE UNCHANGED properties
      /\ mortgages' = Put(mortgages, id, new)
      /\ UNCHANGED <<property_mortgage, next_id>>
  BY <1>2, <1>3 DEF Disburse, HasStatus, Pool!Disburse, Registry!MarkMortgaged, Save
<1>5. UNCHANGED <<adminVars, now, trustees, oracles, total_interest, total_written_off,
                  total_shares>>
  BY DEF DisburseLoan
<1>6. /\ old \in Mortgage /\ p \in Registry!PropertyIds
      /\ LoanOK(old, properties[p].status, StagesReleased(p))
  BY <1>1, <1>3, LoanTypes
<1> HIDE DEF old
<1> DEFINE standing == properties[p].status
           released == StagesReleased(p)
<1>7. /\ properties' \in Seq(Registry!Property) /\ Len(properties') = Len(properties)
      /\ IsFirstDraw(m) => properties'[p].status = "Mortgaged"
      /\ ~IsFirstDraw(m) => properties' = properties
      /\ \A q \in Registry!PropertyIds \ {p} : properties'[q] = properties[q]
  <2>1. CASE IsFirstDraw(m)
    <3>1. "Mortgaged" \in Registry!PropertyStatus /\ Registry!Transition(p, "Mortgaged")
      BY <1>4, <2>1 DEF Registry!PropertyStatus
    <3> QED
      BY <1>1, <1>6, <2>1, <3>1, TransitionResult
  <2>2. CASE ~IsFirstDraw(m)
    BY <1>1, <1>4, <2>2 DEF Registry!RegistryTypeOK
  <2> QED
    BY <2>1, <2>2
<1>8. /\ Registry!RegistryTypeOK' /\ Registry!PropertyIds' = Registry!PropertyIds
      /\ \A q \in Registry!PropertyIds \ {p} : StagesReleased(q)' = StagesReleased(q)
      /\ stage \notin released /\ StagesReleased(p)' = released \cup {stage}
  BY <1>1, <1>4, <1>5, <1>6, <1>7, ReleaseResult
<1>9. released \in SUBSET (0..LastStage) /\ stage \in (0..LastStage) \ released
  BY <1>8, ReleasedAreStages DEF Registry!Stages, LastStage
<1>10. LoanOK(old, standing, released)
  BY <1>6
<1> HIDE DEF standing, released
<1>11. /\ new \in Mortgage /\ new.status = "Funded" /\ new.property_id = p /\ tranche \in Nat
       /\ new.principal = old.principal /\ new.disbursed = old.disbursed + tranche
       /\ new.outstanding = old.outstanding + tranche
       /\ new.interest_paid = old.interest_paid
       /\ IsFirstDraw(m) <=> old.status = "Approved"
       /\ standing = IF old.status = "Approved" THEN "Verified" ELSE "Mortgaged"
       /\ LoanOK(new, "Mortgaged", released \cup {stage})
  <2>1. /\ tranche = TrancheFor(old, stage) /\ new = AfterDraw(m, tranche, now)
        /\ m = Accrue(old, now)
    OBVIOUS
  <2> HIDE DEF tranche, new, m
  <2>2. /\ new \in Mortgage /\ new.status = "Funded" /\ new.property_id = old.property_id
        /\ tranche \in Nat
        /\ new.principal = old.principal /\ new.disbursed = old.disbursed + tranche
        /\ new.outstanding = old.outstanding + tranche
        /\ new.interest_paid = old.interest_paid
        /\ IsFirstDraw(m) <=> old.status = "Approved"
        /\ standing = IF old.status = "Approved" THEN "Verified" ELSE "Mortgaged"
        /\ LoanOK(new, "Mortgaged", released \cup {stage})
    <3>1. IsDraw(old, now, standing, released, stage, m, tranche, new)
      BY <1>1, <1>4, <1>6, <1>9, <1>10, <2>1 DEF IsDraw
    <3> QED
      BY <3>1, DrawnLoan DEF HasDrawn
  <2> QED
    BY <1>3, <2>1, <2>2
<1> HIDE DEF new, m, tranche
<1>12. properties'[p].status = "Mortgaged"
  BY <1>4, <1>7, <1>11 DEF standing
<1>13. LoanOK(new, properties'[p].status, StagesReleased(p)')
  BY <1>8, <1>11, <1>12
<1>14. old.status \in Open /\ new.status \in Open
  BY <1>4, <1>11 DEF Open, Signing, Running
<1>15. /\ LoansInv' /\ MortgageIds' = MortgageIds /\ MovedFor(id) /\ mortgages'[id] = new
       /\ \A j \in MortgageIds : mortgages'[j] \in Mortgage
       /\ DOMAIN property_mortgage' \subseteq DOMAIN property_mortgage
       /\ \A q \in DOMAIN property_mortgage' : property_mortgage'[q] = property_mortgage[q]
  BY <1>1, <1>3, <1>4, <1>7, <1>8, <1>11, <1>13, <1>14, LoanRewritten DEF old
<1>16. HomesTypeOK'
  BY <1>1, <1>4, <1>5, <1>8, <1>15, TypesKept
<1>17. new.disbursed <= new.principal
  <2>1. released \cup {stage} \in SUBSET (0..LastStage)
    BY <1>9
  <2> QED
    BY <1>11, <2>1, WithinFacility
<1>18. /\ LentIn(mortgages') = LentIn(mortgages) - Lent(old) + Lent(new)
       /\ LostIn(mortgages') = LostIn(mortgages) - Lost(old) + Lost(new)
       /\ PaidIn(mortgages') = PaidIn(mortgages) - old.interest_paid + new.interest_paid
       /\ UndrawnIn(mortgages') = UndrawnIn(mortgages) - SetAside(old) + SetAside(new)
  BY <1>1, <1>4, <1>11, <1>17, SumsRewritten DEF old
<1>19. /\ old.outstanding \in Nat /\ old.disbursed \in Nat /\ old.principal \in Nat
       /\ old.interest_paid \in Nat
       /\ old.status = "Approved" => old.outstanding = 0
  BY <1>6, <1>10 DEF Mortgage, LoanOK, Signing
<1>20. /\ Lent(old) = old.outstanding /\ Lent(new) = old.outstanding + tranche
       /\ Lost(old) = 0 /\ Lost(new) = 0
       /\ SetAside(old) = old.principal - old.disbursed
       /\ SetAside(new) = old.principal - (old.disbursed + tranche)
  BY <1>4, <1>11, <1>19 DEF Lent, Lost, SetAside, Running, Drawing, Undrawn
<1>21. BooksInv'
  BY <1>1, <1>4, <1>5, <1>11, <1>18, <1>19, <1>20 DEF BooksInv
<1>22. Drawn(old, mortgages'[id])
  <2>1. Undrawn(new) = Undrawn(old) - tranche /\ tranche \in 1..Undrawn(old)
    BY <1>4, <1>11, <1>17, <1>19 DEF Undrawn
  <2>2. Free' = Free
    BY <1>1, <1>4, <1>11 DEF Free, BooksInv
  <2> QED
    BY <1>4, <1>11, <1>15, <2>1, <2>2 DEF Drawn
<1> QED
  BY <1>1, <1>4, <1>11, <1>15, <1>16, <1>21, <1>22 DEF HomesInv, BooksInv, old

\* An application: a loan of its own on a property that has none.
LEMMA ApplyInv ==
  ASSUME HomesInv, ApplyTx
  PROVE  HomesInv'
<1>1. /\ HomesTypeOK /\ LoansInv /\ BooksInv /\ Registry!RegistryTypeOK
  BY DEF HomesInv, HomesTypeOK
<1>2. PICK p \in Registry!PropertyIds, f \in Facilities :
        Apply(p, f.principal, f.term_months, f.rate_bps)
  BY DEF ApplyTx
<1> DEFINE m == Application(p, f.principal, f.term_months, f.rate_bps)
<1>3. /\ f.principal > 0 /\ f.term_months > 0 /\ p \notin DOMAIN property_mortgage
      /\ properties[p].status = "Verified"
      /\ next_id' = next_id + 1 /\ mortgages' = Put(mortgages, next_id, m)
      /\ property_mortgage' = Put(property_mortgage, p, next_id)
  BY <1>2 DEF Apply, Registry!IsVerified, Save, SetPropertyMortgage
<1>4. UNCHANGED <<adminVars, now, poolVars, registryVars>>
  BY DEF ApplyTx
<1>5. /\ Registry!RegistryTypeOK' /\ Registry!PropertyIds' = Registry!PropertyIds
      /\ properties' = properties /\ \A q : StagesReleased(q)' = StagesReleased(q)
  BY <1>1, <1>4, RegistryUntouched
<1>6. p \in Nat
  BY DEF Registry!PropertyIds
<1>7. /\ m \in Mortgage /\ m.status = "Applied" /\ m.property_id = p /\ m.disbursed = 0
      /\ m.outstanding = 0 /\ m.interest_paid = 0 /\ m.payments_made = 0
      /\ m.principal \in Nat
  <2>1. f.principal \in Nat /\ f.term_months \in Nat \ {0} /\ f.rate_bps \in Nat
    BY <1>3, StellarHomesAssumption
  <2> QED
    BY <1>6, <2>1 DEF Application, Mortgage, MortgageStatus
<1> HIDE DEF m
<1>8. /\ next_id \notin MortgageIds /\ next_id \in Nat \ {0}
      /\ MortgageIds \subseteq 1..(next_id - 1)
  BY <1>1 DEF HomesTypeOK, MortgageTypeOK
<1>9. /\ MortgageIds' = MortgageIds \cup {next_id} /\ mortgages'[next_id] = m
      /\ \A j \in MortgageIds : mortgages'[j] = mortgages[j]
  BY <1>3, <1>8 DEF Put, MortgageIds
<1>10. /\ DOMAIN property_mortgage' = DOMAIN property_mortgage \cup {p}
       /\ property_mortgage'[p] = next_id
       /\ \A q \in DOMAIN property_mortgage \ {p} : property_mortgage'[q] = property_mortgage[q]
  BY <1>3 DEF Put
<1>11. \A j \in MortgageIds : mortgages[j].property_id # p
  <2> SUFFICES ASSUME NEW j \in MortgageIds, mortgages[j].property_id = p PROVE FALSE
    OBVIOUS
  <2>1. LoanOK(mortgages[j], properties[p].status, StagesReleased(p)) /\ mortgages[j] \in Mortgage
    BY <1>1, LoanTypes
  <2>2. mortgages[j].status \notin Open
    BY <1>1, <1>3 DEF LoansInv
  <2>3. mortgages[j].status \in {"PaidOff", "Defaulted"}
    BY <2>1, <2>2 DEF Mortgage, MortgageStatus, Open, Signing, Running
  <2> QED
    BY <1>3, <2>1, <2>3 DEF LoanOK
<1>12. LoanOK(m, properties'[p].status, StagesReleased(p)')
  <2>1. StagesReleased(p) = {}
    BY <1>1, <1>11 DEF LoansInv
  <2>2. TranchesOf(m.principal, {}) = 0
    <3>1. m.principal \div MILESTONE_COUNT \in Int
      BY <1>7, MortgageLoanAssumption
    <3> DEFINE each == m.principal \div MILESTONE_COUNT
    <3>2. Cardinality({} \ {LastStage}) = 0 /\ LastStage \notin {}
      BY FS_EmptySet
    <3> HIDE DEF each
    <3>3. TranchesOf(m.principal, {}) = each * 0 + 0
      BY <3>2, Zenon DEF TranchesOf, each
    <3> QED
      BY <3>1, <3>3 DEF each
  <2> QED
    BY <1>3, <1>5, <1>7, <2>1, <2>2 DEF LoanOK, Signing, Running
<1>13. LoansInv'
  <2>1. ASSUME NEW j \in MortgageIds', NEW q, q = mortgages'[j].property_id
        PROVE  /\ q \in Registry!PropertyIds'
               /\ LoanOK(mortgages'[j], properties'[q].status, StagesReleased(q)')
               /\ mortgages'[j].status \in Open =>
                    q \in DOMAIN property_mortgage' /\ property_mortgage'[q] = j
    <3>1. CASE j = next_id
      BY <1>5, <1>7, <1>9, <1>10, <1>12, <2>1, <3>1
    <3>2. CASE j # next_id
      <4>1. j \in MortgageIds /\ mortgages'[j] = mortgages[j] /\ q = mortgages[j].property_id
        BY <1>9, <2>1, <3>2
      <4>2. /\ q \in Registry!PropertyIds /\ q # p
            /\ LoanOK(mortgages[j], properties[q].status, StagesReleased(q))
            /\ mortgages[j].status \in Open =>
                 q \in DOMAIN property_mortgage /\ property_mortgage[q] = j
        BY <1>1, <1>11, <4>1, LoanTypes DEF LoansInv
      <4> QED
        BY <1>5, <1>10, <4>1, <4>2
    <3> QED
      BY <3>1, <3>2
  <2>2. \A j, other \in MortgageIds' :
          mortgages'[j].property_id = mortgages'[other].property_id => j = other
    BY <1>1, <1>7, <1>9, <1>11 DEF LoansInv
  <2>3. ASSUME NEW q \in DOMAIN property_mortgage'
        PROVE  /\ mortgages'[property_mortgage'[q]].property_id = q
               /\ mortgages'[property_mortgage'[q]].status \in Open
    <3>1. CASE q = p
      BY <1>7, <1>9, <1>10, <3>1 DEF Open, Signing
    <3>2. CASE q # p
      <4>1. /\ q \in DOMAIN property_mortgage /\ property_mortgage'[q] = property_mortgage[q]
            /\ property_mortgage[q] \in MortgageIds
        BY <1>1, <1>10, <2>3, <3>2 DEF HomesTypeOK, MortgageTypeOK
      <4> QED
        BY <1>1, <1>9, <4>1 DEF LoansInv
    <3> QED
      BY <3>1, <3>2
  <2>4. ASSUME NEW q \in Registry!PropertyIds',
               \A j \in MortgageIds' : mortgages'[j].property_id # q
        PROVE  properties'[q].status \in {"Pending", "Verified"} /\ StagesReleased(q)' = {}
    <3>1. \A j \in MortgageIds : mortgages[j].property_id # q
      BY <1>9, <2>4
    <3> QED
      BY <1>1, <1>5, <2>4, <3>1 DEF LoansInv
  <2> QED
    BY <2>1, <2>2, <2>3, <2>4 DEF LoansInv
<1>14. HomesTypeOK'
  <2>0. next_id' <= MaxLoans + 1
    BY <1>3, <1>8, StellarHomesAssumption DEF ApplyTx
  <2>1. next_id' \in Nat \ {0} /\ MortgageIds' \subseteq 1..(next_id' - 1)
    <3>1. next_id' = next_id + 1 /\ next_id' \in Nat \ {0} /\ next_id' - 1 = next_id
      BY <1>3, <1>8
    <3>2. ASSUME NEW j \in MortgageIds' PROVE j \in 1..next_id
      <4> DEFINE n == next_id
      <4>1. n \in Nat \ {0} /\ (j = n \/ j \in 1..(n - 1))
        BY <1>8, <1>9, <3>2
      <4> HIDE DEF n
      <4>2. j \in 1..n
        BY <4>1
      <4> QED
        BY <4>2 DEF n
    <3>3. MortgageIds' \subseteq 1..next_id
      BY <3>2
    <3>4. 1..(next_id' - 1) = 1..next_id
      BY <3>1
    <3> QED
      BY <3>1, <3>3, <3>4, Zenon
  <2>2. \A j \in MortgageIds' : mortgages'[j] \in Mortgage
    BY <1>1, <1>7, <1>9, LoanTypes
  <2>3. /\ DOMAIN property_mortgage' \subseteq Registry!PropertyIds'
        /\ \A q \in DOMAIN property_mortgage' : property_mortgage'[q] \in MortgageIds'
    BY <1>1, <1>5, <1>9, <1>10 DEF HomesTypeOK, MortgageTypeOK
  <2> QED
    BY <1>1, <1>4, <1>5, <2>0, <2>1, <2>2, <2>3 DEF HomesTypeOK, MortgageTypeOK, adminVars
<1>15. BooksInv'
  <2> DEFINE new == Put(mortgages, next_id, m)
  <2>1. mortgages' = new
    BY <1>3
  <2>2. /\ DOMAIN new = DOMAIN mortgages \cup {next_id} /\ new[next_id] = m
        /\ \A j \in DOMAIN mortgages : new[j] = mortgages[j]
        /\ next_id \notin DOMAIN mortgages
    BY <1>8 DEF Put, MortgageIds
  <2>3. IsTable(mortgages)
    BY <1>1, LoansAreATable
  <2> HIDE DEF new
  <2>4. IsTable(new)
    <3>1. IsFiniteSet(DOMAIN new)
      BY <2>2, <2>3, FS_AddElement DEF IsTable
    <3>2. m.disbursed <= m.principal
      BY <1>7
    <3> QED
      BY <1>7, <2>2, <2>3, <3>1, <3>2 DEF IsTable
  <2>5. In(mortgages, next_id) = Nothing /\ In(new, next_id) = m
    BY <2>2 DEF In
  <2>6. /\ Lent(Nothing) = 0 /\ Lost(Nothing) = 0 /\ Nothing.interest_paid = 0
        /\ SetAside(Nothing) = 0
        /\ Lent(m) = 0 /\ Lost(m) = 0 /\ m.interest_paid = 0 /\ SetAside(m) = 0
    BY <1>7 DEF Lent, Lost, SetAside, Nothing, Running, Drawing
  <2>7. /\ LentIn(new) = LentIn(mortgages) - 0 + 0 /\ LostIn(new) = LostIn(mortgages) - 0 + 0
        /\ PaidIn(new) = PaidIn(mortgages) - 0 + 0
        /\ UndrawnIn(new) = UndrawnIn(mortgages) - 0 + 0
    <3> DEFINE k == next_id
               old == mortgages
    <3>1. /\ DOMAIN old \ {k} = DOMAIN new \ {k}
          /\ \A j \in DOMAIN old \ {k} : new[j] = old[j]
      BY <2>2
    <3>2. IsTable(old) /\ In(old, k) = Nothing /\ In(new, k) = m
      BY <2>3, <2>5
    <3> HIDE DEF k, old, new, m
    <3>3. /\ LentIn(new) = LentIn(old) - Lent(In(old, k)) + Lent(In(new, k))
          /\ LostIn(new) = LostIn(old) - Lost(In(old, k)) + Lost(In(new, k))
          /\ PaidIn(new) = PaidIn(old) - In(old, k).interest_paid + In(new, k).interest_paid
          /\ UndrawnIn(new) = UndrawnIn(old) - SetAside(In(old, k)) + SetAside(In(new, k))
      <4>1. IsTable(old) /\ IsTable(new)
        BY <2>4, <3>2
      <4> QED
        BY <3>1, <4>1, BooksOfOne
    <3>4. /\ Lent(In(old, k)) = 0 /\ Lost(In(old, k)) = 0 /\ In(old, k).interest_paid = 0
          /\ SetAside(In(old, k)) = 0
          /\ Lent(In(new, k)) = 0 /\ Lost(In(new, k)) = 0 /\ In(new, k).interest_paid = 0
          /\ SetAside(In(new, k)) = 0
      BY <2>6, <3>2, Zenon
    <3> QED
      BY <3>3, <3>4, Zenon DEF old
  <2> QED
    BY <1>1, <1>4, <2>1, <2>7 DEF BooksInv, poolVars
<1> QED
  BY <1>13, <1>14, <1>15 DEF HomesInv

\* decline strikes an application: its property is as if it had never been.
LEMMA DeclineInv ==
  ASSUME HomesInv, DeclineTx
  PROVE  HomesInv'
<1>1. /\ HomesTypeOK /\ LoansInv /\ BooksInv /\ Registry!RegistryTypeOK
  BY DEF HomesInv, HomesTypeOK
<1>2. PICK underwriter \in underwriters, id \in MortgageIds : Decline(underwriter, id)
  BY DEF DeclineTx
<1> DEFINE old == mortgages[id]
<1>3. PICK p : p = old.property_id
  OBVIOUS
<1>4. /\ old.status = "Applied" /\ next_id' = next_id
      /\ mortgages' = Remove(mortgages, id)
      /\ property_mortgage' = Remove(property_mortgage, p)
  BY <1>2, <1>3 DEF Decline, HasStatus, ClearPropertyMortgage
<1>5. UNCHANGED <<adminVars, now, poolVars, registryVars>>
  BY DEF DeclineTx
<1>6. /\ Registry!RegistryTypeOK' /\ Registry!PropertyIds' = Registry!PropertyIds
      /\ properties' = properties /\ \A q : StagesReleased(q)' = StagesReleased(q)
  BY <1>1, <1>5, RegistryUntouched
<1>7. /\ old \in Mortgage /\ p \in Registry!PropertyIds
      /\ LoanOK(old, properties[p].status, StagesReleased(p))
  BY <1>1, <1>3, LoanTypes
<1>8. /\ properties[p].status = "Verified" /\ StagesReleased(p) = {}
      /\ old.outstanding = 0 /\ old.interest_paid = 0
  BY <1>4, <1>7 DEF LoanOK, Signing
<1>9. /\ MortgageIds' = MortgageIds \ {id}
      /\ \A j \in MortgageIds \ {id} : mortgages'[j] = mortgages[j]
  BY <1>4 DEF Remove, MortgageIds
<1>10. /\ DOMAIN property_mortgage' = DOMAIN property_mortgage \ {p}
       /\ \A q \in DOMAIN property_mortgage \ {p} : property_mortgage'[q] = property_mortgage[q]
  BY <1>4 DEF Remove
<1>11. \A j \in MortgageIds \ {id} : mortgages[j].property_id # p
  BY <1>1, <1>3 DEF LoansInv
<1>12. \A q \in DOMAIN property_mortgage \ {p} : property_mortgage[q] \in MortgageIds \ {id}
  BY <1>1, <1>3 DEF HomesTypeOK, MortgageTypeOK, LoansInv
<1>13. LoansInv'
  <2>1. ASSUME NEW j \in MortgageIds', NEW q, q = mortgages'[j].property_id
        PROVE  /\ q \in Registry!PropertyIds'
               /\ LoanOK(mortgages'[j], properties'[q].status, StagesReleased(q)')
               /\ mortgages'[j].status \in Open =>
                    q \in DOMAIN property_mortgage' /\ property_mortgage'[q] = j
    <3>1. j \in MortgageIds /\ mortgages'[j] = mortgages[j] /\ q = mortgages[j].property_id
      BY <1>9, <2>1
    <3>2. /\ q \in Registry!PropertyIds /\ q # p
          /\ LoanOK(mortgages[j], properties[q].status, StagesReleased(q))
          /\ mortgages[j].status \in Open =>
               q \in DOMAIN property_mortgage /\ property_mortgage[q] = j
      BY <1>1, <1>9, <1>11, <3>1, LoanTypes DEF LoansInv
    <3> QED
      BY <1>6, <1>10, <3>1, <3>2
  <2>2. \A j, other \in MortgageIds' :
          mortgages'[j].property_id = mortgages'[other].property_id => j = other
    BY <1>1, <1>9 DEF LoansInv
  <2>3. ASSUME NEW q \in DOMAIN property_mortgage'
        PROVE  /\ mortgages'[property_mortgage'[q]].property_id = q
               /\ mortgages'[property_mortgage'[q]].status \in Open
    <3>1. q \in DOMAIN property_mortgage \ {p} /\ property_mortgage'[q] = property_mortgage[q]
      BY <1>10, <2>3
    <3> QED
      BY <1>1, <1>9, <1>12, <3>1 DEF LoansInv
  <2>4. ASSUME NEW q \in Registry!PropertyIds',
               \A j \in MortgageIds' : mortgages'[j].property_id # q
        PROVE  properties'[q].status \in {"Pending", "Verified"} /\ StagesReleased(q)' = {}
    <3>1. CASE q = p
      BY <1>6, <1>8, <3>1
    <3>2. CASE q # p
      <4>1. \A j \in MortgageIds : mortgages[j].property_id # q
        BY <1>3, <1>9, <2>4, <3>2
      <4> QED
        BY <1>1, <1>6, <2>4, <4>1 DEF LoansInv
    <3> QED
      BY <3>1, <3>2
  <2> QED
    BY <2>1, <2>2, <2>3, <2>4 DEF LoansInv
<1>14. HomesTypeOK'
  <2>1. \A j \in MortgageIds' : mortgages'[j] \in Mortgage
    BY <1>1, <1>9, LoanTypes
  <2>2. /\ DOMAIN property_mortgage' \subseteq Registry!PropertyIds'
        /\ \A q \in DOMAIN property_mortgage' : property_mortgage'[q] \in MortgageIds'
    BY <1>1, <1>6, <1>9, <1>10, <1>12 DEF HomesTypeOK, MortgageTypeOK
  <2> QED
    BY <1>1, <1>4, <1>5, <1>6, <1>9, <2>1, <2>2 DEF HomesTypeOK, MortgageTypeOK, adminVars
<1>15. BooksInv'
  <2> DEFINE new == Remove(mortgages, id)
             table == mortgages
  <2>1. mortgages' = new /\ In(table, id) = old
    BY <1>4 DEF In, MortgageIds
  <2>2. /\ DOMAIN new = DOMAIN table \ {id}
        /\ \A j \in DOMAIN table \ {id} : new[j] = table[j]
    BY DEF Remove
  <2>3. IsTable(table)
    BY <1>1, LoansAreATable
  <2>4. table = mortgages
    OBVIOUS
  <2> HIDE DEF new, table
  <2>5. IsTable(new)
    <3>1. IsFiniteSet(DOMAIN new)
      BY <2>2, <2>3, FS_RemoveElement DEF IsTable
    <3> QED
      BY <2>2, <2>3, <3>1 DEF IsTable
  <2>6. In(new, id) = Nothing
    BY <2>2 DEF In
  <2>7. /\ Lent(Nothing) = 0 /\ Lost(Nothing) = 0 /\ Nothing.interest_paid = 0
        /\ SetAside(Nothing) = 0
        /\ Lent(old) = 0 /\ Lost(old) = 0 /\ SetAside(old) = 0
    BY <1>4 DEF Lent, Lost, SetAside, Nothing, Running, Drawing
  <2>8. DOMAIN table \ {id} = DOMAIN new \ {id}
    BY <2>2
  <2>9. /\ LentIn(new) = LentIn(table) - Lent(In(table, id)) + Lent(In(new, id))
        /\ LostIn(new) = LostIn(table) - Lost(In(table, id)) + Lost(In(new, id))
        /\ PaidIn(new) = PaidIn(table) - In(table, id).interest_paid + In(new, id).interest_paid
        /\ UndrawnIn(new) = UndrawnIn(table) - SetAside(In(table, id)) + SetAside(In(new, id))
    BY <2>2, <2>3, <2>5, <2>8, BooksOfOne
  <2>10. /\ LentIn(new) = LentIn(table) - 0 + 0 /\ LostIn(new) = LostIn(table) - 0 + 0
         /\ PaidIn(new) = PaidIn(table) - 0 + 0
         /\ UndrawnIn(new) = UndrawnIn(table) - 0 + 0
    BY <1>8, <2>1, <2>6, <2>7, <2>9, Zenon
  <2> QED
    BY <1>1, <1>5, <2>1, <2>4, <2>10 DEF BooksInv, poolVars
<1> QED
  BY <1>13, <1>14, <1>15 DEF HomesInv

\* While the loans stay as they are, quiet steps of the registry keep their
\* invariant and their sums.
LEMMA LoansUntouched ==
  ASSUME HomesTypeOK, LoansInv, QuietRegistry, UNCHANGED <<loanVars, adminVars>>,
         now' \in Nat \ {0}
  PROVE  HomesTypeOK' /\ LoansInv'
<1>1. UNCHANGED <<mortgages, property_mortgage, next_id, underwriters, grace_secs, scheduled>>
  BY DEF loanVars, adminVars
<1>2. LoansInv'
  BY <1>1, QuietKeepsLoans
<1>3. Registry!RegistryTypeOK' /\ Registry!PropertyIds \subseteq Registry!PropertyIds'
  BY DEF QuietRegistry
<1>4. MortgageIds' = MortgageIds
  BY <1>1 DEF MortgageIds
<1> QED
  BY <1>1, <1>2, <1>3, <1>4 DEF HomesTypeOK, MortgageTypeOK

\* A registry left alone is quiet.
LEMMA UntouchedIsQuiet ==
  ASSUME Registry!RegistryTypeOK, UNCHANGED registryVars
  PROVE  QuietRegistry
  BY RegistryUntouched DEF QuietRegistry

\* Deposits and withdrawals move capital and shares alike, and withdrawals
\* leave what is set aside.
LEMMA InvestorInv ==
  ASSUME HomesInv, DepositTx \/ WithdrawTx \/ ClaimTx
  PROVE  HomesInv'
<1>1. /\ HomesTypeOK /\ LoansInv /\ BooksInv /\ Registry!RegistryTypeOK
      /\ now \in Nat \ {0}
  BY DEF HomesInv, HomesTypeOK
<1>2. UNCHANGED <<mortgageVars, registryVars>>
  BY DEF DepositTx, WithdrawTx, ClaimTx
<1>3. UNCHANGED <<loanVars, adminVars, mortgages, now>>
  BY <1>2 DEF mortgageVars, loanVars
<1>4. HomesTypeOK' /\ LoansInv'
  <2>1. QuietRegistry
    BY <1>1, <1>2, UntouchedIsQuiet
  <2> QED
    BY <1>1, <1>3, <2>1, LoansUntouched
<1>5. PICK amount \in Int :
        /\ total_capital' = total_capital + amount /\ total_shares' = total_shares + amount
        /\ amount >= 0 \/ -amount <= total_capital - total_reserved
        /\ UNCHANGED <<total_reserved, total_lent, total_interest, total_written_off>>
  <2>1. CASE DepositTx
    <3>1. PICK i \in Investors, amount \in Amounts : Pool!Deposit(i, amount)
      BY <2>1 DEF DepositTx, Pool!DepositTx
    <3> QED
      BY <3>1, MortgagePoolAssumption DEF Pool!Deposit
  <2>2. CASE WithdrawTx
    <3>1. PICK i \in Investors, amount \in Amounts : Pool!Withdraw(i, amount)
      BY <2>2 DEF WithdrawTx, Pool!WithdrawTx
    <3>2. amount \in Int /\ -amount \in Int /\ -(-amount) = amount
      BY MortgagePoolAssumption
    <3>3. /\ total_capital' = total_capital + (-amount) /\ total_shares' = total_shares + (-amount)
          /\ -(-amount) <= total_capital - total_reserved
          /\ UNCHANGED <<total_reserved, total_lent, total_interest, total_written_off>>
      BY <1>1, <3>1, <3>2 DEF Pool!Withdraw, Pool!Available, BooksInv
    <3> QED
      BY <3>2, <3>3
  <2>3. CASE ClaimTx
    <3>1. /\ UNCHANGED <<total_capital, total_shares, total_reserved, total_lent,
                         total_interest, total_written_off>>
      BY <2>3 DEF ClaimTx, Pool!ClaimInterestTx, Pool!ClaimInterest
    <3>2. total_capital' = total_capital + 0 /\ total_shares' = total_shares + 0
      BY <1>1, <3>1 DEF BooksInv
    <3> QED
      BY <3>1, <3>2
  <2> QED
    BY <2>1, <2>2, <2>3
<1>6. BooksInv'
  BY <1>1, <1>3, <1>5 DEF BooksInv
<1> QED
  BY <1>4, <1>6 DEF HomesInv

\* The registry's own transactions touch neither loans nor books.
LEMMA RegistryInv ==
  ASSUME HomesInv, SubmitTx \/ EvidenceTx \/ OracleTx \/ RolesTx
  PROVE  HomesInv'
<1>1. /\ HomesTypeOK /\ LoansInv /\ BooksInv /\ Registry!RegistryTypeOK
      /\ now \in Nat \ {0}
  BY DEF HomesInv, HomesTypeOK
<1>2. UNCHANGED <<mortgageVars, poolVars>>
  BY DEF SubmitTx, EvidenceTx, OracleTx, RolesTx
<1>3. UNCHANGED <<loanVars, adminVars, mortgages, now>>
  BY <1>2 DEF mortgageVars, loanVars
<1>4. QuietRegistry
  BY <1>1, RegistryIsQuiet DEF SubmitTx, EvidenceTx, OracleTx, RolesTx
<1>5. HomesTypeOK' /\ LoansInv'
  BY <1>1, <1>3, <1>4, LoansUntouched
<1>6. BooksInv'
  BY <1>1, <1>2, <1>3 DEF BooksInv, poolVars
<1> QED
  BY <1>5, <1>6 DEF HomesInv

\* Administration changes no loan, and a grace period in force is a number.
LEMMA GovernanceInv ==
  ASSUME HomesInv, GovernanceTx
  PROVE  HomesInv'
<1>1. /\ HomesTypeOK /\ LoansInv /\ BooksInv /\ Registry!RegistryTypeOK
      /\ now \in Nat \ {0}
  BY DEF HomesInv, HomesTypeOK
<1>2. UNCHANGED <<loanVars, now, poolVars, registryVars>>
  BY DEF GovernanceTx
<1>3. UNCHANGED <<mortgages, property_mortgage, next_id>>
  BY <1>2 DEF loanVars
<1>4. QuietRegistry
  BY <1>1, <1>2, UntouchedIsQuiet
<1>5. LoansInv'
  BY <1>1, <1>3, <1>4, QuietKeepsLoans
<1>6. /\ underwriters' \subseteq FirstUnderwriters \cup UnderwriterChanges
      /\ grace_secs' \in Nat
      /\ scheduled' \in [secs : Nat \ {0}, eta : Nat] \cup {NoAction}
  <2>1. /\ underwriters \subseteq FirstUnderwriters \cup UnderwriterChanges
        /\ grace_secs \in Nat
        /\ scheduled \in [secs : Nat \ {0}, eta : Nat] \cup {NoAction}
    BY <1>1 DEF HomesTypeOK, MortgageTypeOK
  <2>2. ASSUME NEW address \in UnderwriterChanges, NEW authorized \in BOOLEAN,
               SetUnderwriter(address, authorized)
        PROVE  <1>6!:
    BY <2>1, <2>2 DEF SetUnderwriter, Registry!SetRole
  <2>3. ASSUME NEW secs \in GraceChoices, ScheduleGrace(secs)
        PROVE  <1>6!:
    <3>1. /\ secs \in Nat \ {0} /\ now + TIMELOCK_SECS \in Nat
          /\ scheduled' = [secs |-> secs, eta |-> now + TIMELOCK_SECS]
          /\ UNCHANGED <<underwriters, grace_secs>>
      BY <1>1, <2>3, MortgagePoolAssumption DEF ScheduleGrace
    <3> QED
      BY <2>1, <3>1
  <2>4. ASSUME ExecuteAction PROVE <1>6!:
    BY <2>1, <2>4 DEF ExecuteAction
  <2>5. ASSUME CancelAction PROVE <1>6!:
    BY <2>1, <2>5 DEF CancelAction
  <2> QED
    BY <2>2, <2>3, <2>4, <2>5 DEF GovernanceTx
<1>7. HomesTypeOK'
  <2>1. Registry!RegistryTypeOK' /\ Registry!PropertyIds \subseteq Registry!PropertyIds'
    BY <1>4 DEF QuietRegistry
  <2>2. MortgageIds' = MortgageIds
    BY <1>3 DEF MortgageIds
  <2> QED
    BY <1>1, <1>2, <1>3, <1>6, <2>1, <2>2 DEF HomesTypeOK, MortgageTypeOK
<1>8. BooksInv'
  BY <1>1, <1>2, <1>3 DEF BooksInv, poolVars
<1> QED
  BY <1>5, <1>7, <1>8 DEF HomesInv

\* Time passes.
LEMMA TickInv ==
  ASSUME HomesInv, Tick
  PROVE  HomesInv'
<1>1. /\ HomesTypeOK /\ LoansInv /\ BooksInv /\ Registry!RegistryTypeOK
      /\ now \in Nat \ {0}
  BY DEF HomesInv, HomesTypeOK
<1>2. UNCHANGED <<loanVars, adminVars, poolVars, registryVars>> /\ now' \in Nat \ {0}
  BY <1>1 DEF Tick
<1>3. HomesTypeOK' /\ LoansInv'
  BY <1>1, <1>2, UntouchedIsQuiet, LoansUntouched
<1>4. BooksInv'
  BY <1>1, <1>2 DEF BooksInv, poolVars, loanVars
<1> QED
  BY <1>3, <1>4 DEF HomesInv

\* Nothing happens.
LEMMA StutterInv ==
  ASSUME HomesInv, UNCHANGED vars
  PROVE  HomesInv'
<1>1. /\ HomesTypeOK /\ LoansInv /\ BooksInv /\ Registry!RegistryTypeOK
      /\ now \in Nat \ {0}
  BY DEF HomesInv, HomesTypeOK
<1>2. UNCHANGED <<loanVars, adminVars, poolVars, registryVars, now>>
  BY DEF vars, mortgageVars
<1>3. HomesTypeOK' /\ LoansInv'
  BY <1>1, <1>2, UntouchedIsQuiet, LoansUntouched
<1>4. BooksInv'
  BY <1>1, <1>2 DEF BooksInv, poolVars, loanVars
<1> QED
  BY <1>3, <1>4 DEF HomesInv

\* A system just deployed has no loans, and sums of nothing.
LEMMA HomesInit ==
  ASSUME Init
  PROVE  HomesInv
<1>1. /\ mortgages = <<>> /\ property_mortgage = <<>> /\ next_id = 1
      /\ underwriters = FirstUnderwriters /\ grace_secs = FirstGrace
      /\ scheduled = NoAction /\ now = 1
      /\ total_capital = 0 /\ total_reserved = 0 /\ total_lent = 0 /\ total_interest = 0
      /\ total_written_off = 0 /\ total_shares = 0
      /\ trustees = FirstTrustees /\ oracles = FirstOracles
      /\ properties = <<>> /\ milestones = <<>>
  BY DEF Init, MortgageInit, Pool!PoolInit, Registry!RegistryInit
<1>2. /\ MortgageIds = {} /\ DOMAIN property_mortgage = {} /\ DOMAIN mortgages = {}
      /\ Registry!PropertyIds = {}
  BY <1>1 DEF MortgageIds, Registry!PropertyIds
<1>3. HomesTypeOK
  <2>1. Registry!RegistryTypeOK
    BY <1>1 DEF Registry!RegistryTypeOK, Registry!Addresses
  <2>2. MortgageTypeOK
    BY <1>1, <1>2, MortgagePoolAssumption DEF MortgageTypeOK
  <2> QED
    BY <1>1, <2>1, <2>2, StellarHomesAssumption DEF HomesTypeOK
<1>4. LoansInv
  BY <1>2 DEF LoansInv
<1>5. LentIn(mortgages) = 0 /\ LostIn(mortgages) = 0 /\ PaidIn(mortgages) = 0
      /\ UndrawnIn(mortgages) = 0
  <2>1. ASSUME NEW f, DOMAIN f = {} PROVE Total(f) = 0
    <3>1. Units(f) = {}
      BY <2>1 DEF Units
    <3> QED
      BY <3>1, FS_EmptySet DEF Total
  <2> DEFINE table == mortgages
             with(statuses) == {i \in DOMAIN table : table[i].status \in statuses}
             lent == [i \in with(Running) |-> table[i].outstanding]
             lost == [i \in with({"Defaulted"}) |-> table[i].outstanding]
             paid == [i \in DOMAIN table |-> table[i].interest_paid]
             kept == [i \in with(Drawing) |-> Undrawn(table[i])]
  <2>2. /\ LentIn(table) = Total(lent) /\ LostIn(table) = Total(lost)
        /\ PaidIn(table) = Total(paid) /\ UndrawnIn(table) = Total(kept)
    BY DEF LentIn, LostIn, PaidIn, UndrawnIn
  <2>3. DOMAIN lent = {} /\ DOMAIN lost = {} /\ DOMAIN paid = {} /\ DOMAIN kept = {}
    BY <1>2
  <2> HIDE DEF lent, lost, paid, kept
  <2> QED
    BY <2>1, <2>2, <2>3
<1>6. BooksInv
  BY <1>1, <1>5 DEF BooksInv
<1> QED
  BY <1>3, <1>4, <1>6 DEF HomesInv

-----------------------------------------------------------------------------
(* The theorems.                                                           *)

\* Every transaction keeps the invariant.
LEMMA HomesNext ==
  ASSUME HomesInv, [Next]_vars
  PROVE  HomesInv'
<1>1. CASE ApproveTx
  <2>1. PICK underwriter \in underwriters, id \in MortgageIds : Approve(underwriter, id)
    BY <1>1 DEF ApproveTx
  <2> QED
    BY <1>1, <2>1, ApproveInv DEF ApproveTx
<1>2. CASE DisburseTx
  BY <1>2, DisburseInv DEF DisburseTx
<1>3. CASE RepayTx
  <2>1. PICK id \in MortgageIds : RepayLoan(id)
    BY <1>3 DEF RepayTx
  <2>2. PICK amount \in Payments : Repay(id, amount)
    BY <2>1 DEF RepayLoan
  <2> QED
    BY <2>1, <2>2, RepayInv DEF RepayLoan
<1>4. CASE MarkDefaultTx
  BY <1>4, MarkDefaultInv DEF MarkDefaultTx
<1>5. CASE ApplyTx \/ DeclineTx \/ GovernanceTx \/ Tick \/ UNCHANGED vars
  BY <1>5, ApplyInv, DeclineInv, GovernanceInv, TickInv, StutterInv
<1>6. CASE DepositTx \/ WithdrawTx \/ ClaimTx
  BY <1>6, InvestorInv
<1>7. CASE SubmitTx \/ EvidenceTx \/ OracleTx \/ RolesTx
  BY <1>7, RegistryInv
<1> QED
  BY <1>1, <1>2, <1>3, <1>4, <1>5, <1>6, <1>7 DEF Next

\* The invariant holds in every state the three contracts can reach.
THEOREM HomesInvariant == Spec => []HomesInv
<1>1. Init => HomesInv
  BY HomesInit
<1>2. HomesInv /\ [Next]_vars => HomesInv'
  BY HomesNext
<1> QED
  BY <1>1, <1>2, PTL DEF Spec

\* The records of the MortgagePool have their types: no id is handed out twice
\* and the index of open loans names loans in storage.
THEOREM MortgageTypes == Spec => []MortgageTypeOK
<1>1. HomesInv => MortgageTypeOK
  BY DEF HomesInv, HomesTypeOK
<1> QED
  BY <1>1, HomesInvariant, PTL

\* What the pool counts as lent, lost and earned is what the loans say.
THEOREM LentIsOutstandingAlways == Spec => []LentIsOutstanding
<1>1. HomesInv => LentIsOutstanding
  BY DEF HomesInv, BooksInv, LentIsOutstanding, LentIn, LostIn, PaidIn, Live, LoansWith,
         MortgageIds, Running
<1> QED
  BY <1>1, HomesInvariant, PTL

\* What the pool sets aside is what the loans may still draw.
THEOREM ReservedIsUndrawnAlways == Spec => []ReservedIsUndrawn
<1>1. HomesInv => ReservedIsUndrawn
  BY DEF HomesInv, BooksInv, ReservedIsUndrawn, UndrawnIn, LoansWith, MortgageIds, Drawing
<1> QED
  BY <1>1, HomesInvariant, PTL

\* Interest never arrives when nobody holds a share.
THEOREM InterestHasOwnersAlways == Spec => []InterestHasOwners
<1>1. HomesInv => InterestHasOwners
  BY DEF HomesInv, BooksInv, InterestHasOwners
<1> QED
  BY <1>1, HomesInvariant, PTL

\* Every payment repays its slice, so a loan amortises.
THEOREM PaymentsAmortiseAlways == Spec => []PaymentsAmortise
<1>1. ASSUME HomesInv, NEW id \in MortgageIds
      PROVE  LET m     == mortgages[id]
                 slice == m.principal \div m.term_months
             IN  m.outstanding = 0 \/ m.outstanding <= m.disbursed - m.payments_made * slice
  <2>1. LoanOK(mortgages[id], properties[mortgages[id].property_id].status,
               StagesReleased(mortgages[id].property_id))
    BY <1>1, LoanTypes DEF HomesInv
  <2> QED
    BY <2>1 DEF LoanOK, SliceOf
<1>2. HomesInv => PaymentsAmortise
  BY <1>1 DEF PaymentsAmortise
<1> QED
  BY <1>2, HomesInvariant, PTL

\* A property carries one loan at a time, and its status is that loan's.
THEOREM OneLoanPerPropertyAlways == Spec => []OneLoanPerProperty
<1>1. ASSUME HomesInv, NEW p \in Registry!PropertyIds
      PROVE  LET on(statuses) ==
                   {id \in LoansWith(statuses) : mortgages[id].property_id = p}
                 open == on({"Applied", "Approved", "Funded", "Repaying"})
                 became(loanStatuses, propertyStatus) ==
                   (on(loanStatuses) # {}) <=> (properties[p].status = propertyStatus)
             IN  /\ open = {property_mortgage[q] : q \in DOMAIN property_mortgage \cap {p}}
                 /\ \A id, other \in on(MortgageStatus) : id = other
                 /\ became({"Funded", "Repaying"}, "Mortgaged")
                 /\ became({"PaidOff"}, "Repaid")
                 /\ became({"Defaulted"}, "Defaulted")
  <2> DEFINE on(statuses) == {id \in LoansWith(statuses) : mortgages[id].property_id = p}
             open == on({"Applied", "Approved", "Funded", "Repaying"})
             standing == properties[p].status
  <2>1. HomesTypeOK /\ LoansInv
    BY <1>1 DEF HomesInv
  <2>2. ASSUME NEW id \in MortgageIds, mortgages[id].property_id = p
        PROVE  /\ LoanOK(mortgages[id], standing, StagesReleased(p))
               /\ mortgages[id].status \in MortgageStatus
               /\ mortgages[id].status \in Open =>
                    p \in DOMAIN property_mortgage /\ property_mortgage[p] = id
    BY <2>1, <2>2, LoanTypes DEF LoansInv, Mortgage
  <2>3. \A id, other \in on(MortgageStatus) : id = other
    BY <2>1 DEF LoansInv, LoansWith
  <2>4. p \in DOMAIN property_mortgage =>
          /\ property_mortgage[p] \in MortgageIds
          /\ mortgages[property_mortgage[p]].property_id = p
          /\ mortgages[property_mortgage[p]].status \in Open
    BY <2>1 DEF LoansInv, HomesTypeOK, MortgageTypeOK
  <2>5. open = {id \in MortgageIds : mortgages[id].property_id = p /\ mortgages[id].status \in Open}
    BY DEF LoansWith, Open, Signing, Running
  <2>6. open = {property_mortgage[q] : q \in DOMAIN property_mortgage \cap {p}}
    BY <2>2, <2>4, <2>5
  <2>7. (\A id \in MortgageIds : mortgages[id].property_id # p) =>
          standing \in {"Pending", "Verified"}
    BY <2>1 DEF LoansInv
  <2>8. (on({"Funded", "Repaying"}) # {}) <=> (standing = "Mortgaged")
    BY <2>2, <2>7 DEF LoansWith, LoanOK, Signing, Running, MortgageStatus
  <2>9. (on({"PaidOff"}) # {}) <=> (standing = "Repaid")
    BY <2>2, <2>7 DEF LoansWith, LoanOK, Signing, Running, MortgageStatus
  <2>10. (on({"Defaulted"}) # {}) <=> (standing = "Defaulted")
    BY <2>2, <2>7 DEF LoansWith, LoanOK, Signing, Running, MortgageStatus
  <2> QED
    BY <2>3, <2>6, <2>8, <2>9, <2>10
<1>2. HomesInv => OneLoanPerProperty
  BY <1>1 DEF OneLoanPerProperty
<1> QED
  BY <1>2, HomesInvariant, PTL

\* A loan has drawn one tranche for every stage released on its property.
THEOREM DrawnByStageAlways == Spec => []DrawnByStage
<1>1. ASSUME HomesInv, NEW id \in MortgageIds
      PROVE  mortgages[id].disbursed =
               IF id \in Opened
               THEN Total([s \in StagesReleased(mortgages[id].property_id) |->
                             TrancheFor(mortgages[id], s)])
               ELSE 0
  <2> DEFINE m == mortgages[id]
             standing == properties[m.property_id].status
             released == StagesReleased(m.property_id)
  <2>1. m \in Mortgage /\ LoanOK(m, standing, released)
    BY <1>1, LoanTypes DEF HomesInv
  <2>2. released \in SUBSET (0..LastStage)
    BY ReleasedAreStages
  <2>3. id \notin Opened => m.status \in Signing
    BY <2>1 DEF Opened, LoansWith, Mortgage, MortgageStatus, Signing
  <2> HIDE DEF m, standing, released
  <2>4. Total([s \in released |-> TrancheFor(m, s)]) = TranchesOf(m.principal, released)
    BY <2>1, <2>2, TranchesTotal
  <2>5. /\ m.disbursed = TranchesOf(m.principal, released)
        /\ m.status \in Signing => m.disbursed = 0
    BY <2>1 DEF LoanOK
  <2>6. m.disbursed = IF id \in Opened THEN Total([s \in released |-> TrancheFor(m, s)]) ELSE 0
    BY <2>3, <2>4, <2>5
  <2> QED
    BY <2>6 DEF m, released
<1>2. ASSUME HomesInv, NEW p \in Registry!PropertyIds,
             \A id \in Opened : mortgages[id].property_id # p
      PROVE  StagesReleased(p) = {}
  <2>1. CASE \E id \in MortgageIds : mortgages[id].property_id = p
    <3>1. PICK id \in MortgageIds : mortgages[id].property_id = p
      BY <2>1
    <3>2. LoanOK(mortgages[id], properties[p].status, StagesReleased(p))
          /\ mortgages[id] \in Mortgage
      BY <1>2, <3>1, LoanTypes DEF HomesInv
    <3>3. mortgages[id].status \in Signing
      BY <1>2, <3>1, <3>2 DEF Opened, LoansWith, Mortgage, MortgageStatus, Signing
    <3> QED
      BY <3>2, <3>3 DEF LoanOK
  <2>2. CASE \A id \in MortgageIds : mortgages[id].property_id # p
    BY <1>2, <2>2 DEF HomesInv, LoansInv
  <2> QED
    BY <2>1, <2>2
<1>3. HomesInv => DrawnByStage
  BY <1>1, <1>2 DEF DrawnByStage
<1> QED
  BY <1>3, HomesInvariant, PTL

\* Only an approval sets capital aside, and it does so within the ceiling of
\* the day.
THEOREM CommitmentsAreWithinLtvAlways == Spec => CommitmentsAreWithinLtv
<1> DEFINE Within ==
      total_reserved' > total_reserved =>
       \E id \in MortgageIds :
         LET m == mortgages[id]
         IN  /\ total_reserved' = total_reserved + m.principal
             /\ properties[m.property_id].status = "Verified"
             /\ m.principal * BPS_DENOMINATOR
                  <= properties[m.property_id].usdc_value * MAX_LTV_BPS
<1>1. ASSUME HomesInv, [Next]_vars PROVE [Within]_vars
  <2>1. total_reserved \in Nat
    BY <1>1 DEF HomesInv, BooksInv
  <2>2. CASE ApproveTx
    <3>1. PICK underwriter \in underwriters, id \in MortgageIds : Approve(underwriter, id)
      BY <2>2 DEF ApproveTx
    <3> QED
      BY <3>1 DEF Approve, Pool!Reserve, Registry!IsVerified, WithinLtv
  <2>3. CASE DisburseTx
    <3>1. total_reserved' <= total_reserved /\ total_reserved' \in Nat
      BY <1>1, <2>3, DisburseInv DEF DisburseTx, HomesInv, BooksInv
    <3> QED
      BY <2>1, <3>1
  <2>4. CASE RepayTx
    <3>1. PICK id \in MortgageIds : RepayLoan(id)
      BY <2>4 DEF RepayTx
    <3>2. PICK amount \in Payments : Repay(id, amount)
      BY <3>1 DEF RepayLoan
    <3>3. HomesInv' /\ total_reserved' <= total_reserved
      BY <1>1, <3>1, <3>2, RepayInv DEF RepayLoan
    <3>4. total_reserved' \in Nat
      BY <3>3 DEF HomesInv, BooksInv
    <3> QED
      BY <2>1, <3>3, <3>4
  <2>5. CASE MarkDefaultTx
    <3>1. total_reserved' <= total_reserved /\ total_reserved' \in Nat
      BY <1>1, <2>5, MarkDefaultInv DEF MarkDefaultTx, HomesInv, BooksInv
    <3> QED
      BY <2>1, <3>1
  <2>6. CASE \/ DepositTx \/ WithdrawTx \/ ClaimTx
             \/ SubmitTx \/ EvidenceTx \/ OracleTx \/ RolesTx
             \/ ApplyTx \/ DeclineTx \/ GovernanceTx \/ Tick \/ UNCHANGED vars
    <3>1. total_reserved' = total_reserved
      BY <2>6 DEF DepositTx, WithdrawTx, ClaimTx, Pool!DepositTx, Pool!WithdrawTx,
                  Pool!ClaimInterestTx, Pool!Deposit, Pool!Withdraw, Pool!ClaimInterest,
                  SubmitTx, EvidenceTx, OracleTx, RolesTx, ApplyTx, DeclineTx, GovernanceTx,
                  Tick, poolVars, vars
    <3> QED
      BY <2>1, <3>1
  <2> QED
    BY <1>1, <2>2, <2>3, <2>4, <2>5, <2>6 DEF Next
<1>2. Spec => [][Within]_vars
  BY <1>1, HomesInvariant, PTL DEF Spec
<1> QED
  BY <1>2 DEF CommitmentsAreWithinLtv

-----------------------------------------------------------------------------
(* The pool within the system.                                             *)
(*                                                                         *)
(* A MortgagePool handler makes several calls on the pool in one step, so  *)
(* the system's steps are not LendingPool's; but what LendingPoolProofs    *)
(* shows of single operations, with the history variables and their bound  *)
(* out of the way, carries its results over.                               *)

ThePool == INSTANCE LendingPoolProofs
  WITH MaxAnchors <- 0, earned <- 0, paid <- 0, anchors <- 0, distributed <- 0

\* LendingPool's assumption about its constants is part of the system's.
LEMMA ThePoolIsAssumed ==
  /\ ThePool!IsFiniteSet(Investors) /\ SCALE \in Nat \ {0} /\ Amounts \subseteq Int
  /\ MaxShares \in Nat /\ MaxInterest \in Nat /\ 0 \in Nat
<1>1. IsFiniteSet(Investors) => ThePool!IsFiniteSet(Investors)
  BY DEF IsFiniteSet, ThePool!IsFiniteSet
<1> QED
  BY <1>1, MortgagePoolAssumption

\* The invariant of the pool, in the system's words.
LEMMA SamePool ==
  ThePool!PoolInv <=> /\ Pool!PoolTypeOK
                      /\ Pool!CommitmentsAreCovered
                      /\ Pool!SharesAddUp
                      /\ Pool!SharesAreBacked
                      /\ Pool!SettleNeverDebits
<1>1. Pool!PoolTypeOK <=> ThePool!PoolTypeOK
  BY DEF Pool!PoolTypeOK, Pool!Position, ThePool!PoolTypeOK, ThePool!Position
<1>2. /\ Pool!CommitmentsAreCovered <=> ThePool!CommitmentsAreCovered
      /\ Pool!SharesAreBacked <=> ThePool!SharesAreBacked
  BY DEF Pool!CommitmentsAreCovered, Pool!SharesAreBacked, ThePool!CommitmentsAreCovered,
         ThePool!SharesAreBacked
<1>3. Pool!SharesAddUp <=> ThePool!SharesAddUp
  BY DEF Pool!SharesAddUp, Pool!Shares, Pool!Total, Pool!Units, Pool!Cardinality,
         ThePool!SharesAddUp, ThePool!Shares, ThePool!Total, ThePool!Units,
         ThePool!Cardinality
<1>4. Pool!SettleNeverDebits <=> ThePool!SettleNeverDebits
  BY DEF Pool!SettleNeverDebits, Pool!Entitled, ThePool!SettleNeverDebits, ThePool!Entitled
<1> QED
  BY <1>1, <1>2, <1>3, <1>4 DEF ThePool!PoolInv

\* An investor's transaction is a step of the pool.
LEMMA SameInvestorSteps ==
  ASSUME Pool!DepositTx \/ Pool!WithdrawTx \/ Pool!ClaimInterestTx
  PROVE  ThePool!PoolNext
<1>1. Pool!DepositTx => ThePool!DepositTx
  BY DEF Pool!DepositTx, Pool!Deposit, Pool!ChangeShares, Pool!Settle, Pool!ResetDebt,
         Pool!Entitled, ThePool!DepositTx, ThePool!Deposit, ThePool!ChangeShares,
         ThePool!Settle, ThePool!ResetDebt, ThePool!Entitled
<1>2. Pool!WithdrawTx => ThePool!WithdrawTx
  BY DEF Pool!WithdrawTx, Pool!Withdraw, Pool!ChangeShares, Pool!Settle, Pool!ResetDebt,
         Pool!Entitled, Pool!Available, ThePool!WithdrawTx, ThePool!Withdraw,
         ThePool!ChangeShares, ThePool!Settle, ThePool!ResetDebt, ThePool!Entitled,
         ThePool!Available
<1>3. Pool!ClaimInterestTx => ThePool!ClaimInterestTx
  BY DEF Pool!ClaimInterestTx, Pool!ClaimInterest, Pool!Settle, Pool!Entitled,
         ThePool!ClaimInterestTx, ThePool!ClaimInterest, ThePool!Settle, ThePool!Entitled
<1> QED
  BY <1>1, <1>2, <1>3 DEF ThePool!PoolNext

\* What any other transaction does to the pool: it leaves the positions alone,
\* keeps the tokens it moves a natural number and never lowers the accumulator.
MovesNoPosition ==
  /\ UNCHANGED <<positions, total_shares>>
  /\ usdc' \in Nat /\ acc' \in Nat /\ acc <= acc' /\ carry' \in Nat

\* disburse, repay and mark_default are such transactions, and so are those
\* that leave the pool's tokens and its accumulator alone.
LEMMA OthersMoveNoPosition ==
  ASSUME HomesInv, Pool!PoolTypeOK, [Next]_vars, ~(DepositTx \/ WithdrawTx \/ ClaimTx)
  PROVE  MovesNoPosition
<1>1. /\ usdc \in Nat /\ acc \in Nat /\ carry \in Nat /\ now \in Nat
      /\ HomesTypeOK /\ LoansInv
  BY DEF Pool!PoolTypeOK, HomesInv, HomesTypeOK
<1>2. ASSUME NEW id \in MortgageIds, DisburseLoan(id)
      PROVE  MovesNoPosition
  <2>1. PICK stage \in Registry!Stages : Disburse(id, stage)
    BY <1>2 DEF DisburseLoan
  <2> DEFINE tranche == TrancheFor(mortgages[id], stage)
  <2>2. tranche \in Int
    BY <1>1, LoanTypes, TrancheIsInt
  <2>3. tranche > 0 /\ tranche <= usdc /\ usdc' = usdc - tranche
    BY <2>1 DEF Disburse, Pool!Disburse
  <2>4. UNCHANGED <<positions, total_shares, acc, carry>>
    BY <1>2 DEF DisburseLoan
  <2> HIDE DEF tranche
  <2> QED
    BY <1>1, <2>2, <2>3, <2>4 DEF MovesNoPosition
<1>3. ASSUME NEW id \in MortgageIds, RepayLoan(id)
      PROVE  MovesNoPosition
  <2>1. PICK amount \in Payments : Repay(id, amount)
    BY <1>3 DEF RepayLoan
  <2> DEFINE old == mortgages[id]
             m == Accrue(old, now)
             pay == Smaller(amount, Payoff(m))
             principal == PrincipalPart(m, pay)
             interest == InterestPart(m, pay)
  <2>2. amount \in Nat /\ amount > 0 /\ IsEnough(m, amount) /\ Pool!Repay(principal, interest)
    BY <2>1, StellarHomesAssumption DEF Repay
  <2>3. m \in Mortgage
    BY <1>1, LoanTypes, AccrueKeeps
  <2> HIDE DEF m
  <2>4. PaidFrom(AfterPayment(m, pay), m) /\ interest = m.interest_accrued
        /\ principal = m.outstanding - AfterPayment(m, pay).outstanding
    BY <2>2, <2>3, PaymentResult
  <2>5. principal \in Nat /\ interest \in Nat
    BY <2>3, <2>4 DEF PaidFrom, Mortgage
  <2> HIDE DEF pay, principal, interest
  <2>6. usdc' \in Nat
    BY <1>1, <2>2, <2>5 DEF Pool!Repay
  <2>7. acc' \in Nat /\ acc <= acc' /\ carry' \in Nat
    <3>1. ThePool!PoolTypeOK
      BY DEF Pool!PoolTypeOK, Pool!Position, ThePool!PoolTypeOK, ThePool!Position
    <3>2. ThePool!AccrueInterest(interest)
      BY <2>2 DEF Pool!Repay, Pool!AccrueInterest, ThePool!AccrueInterest
    <3> QED
      BY <2>5, <3>1, <3>2, ThePoolIsAssumed, ThePool!AccrueMonotone
  <2>8. UNCHANGED <<positions, total_shares>>
    BY <1>3 DEF RepayLoan
  <2> QED
    BY <2>6, <2>7, <2>8 DEF MovesNoPosition
<1>4. ASSUME UNCHANGED <<positions, total_shares, usdc, acc, carry>>
      PROVE  MovesNoPosition
  BY <1>1, <1>4 DEF MovesNoPosition
<1>5. CASE MarkDefaultTx \/ ApproveTx
  BY <1>4, <1>5 DEF MarkDefaultTx, MarkDefaultLoan, ApproveTx
<1>6. CASE \/ SubmitTx \/ EvidenceTx \/ OracleTx \/ RolesTx \/ ApplyTx \/ DeclineTx
           \/ GovernanceTx \/ Tick \/ UNCHANGED vars
  BY <1>4, <1>6 DEF SubmitTx, EvidenceTx, OracleTx, RolesTx, ApplyTx, DeclineTx, GovernanceTx,
                    Tick, poolVars, vars
<1> QED
  BY <1>2, <1>3, <1>5, <1>6 DEF Next, DisburseTx, RepayTx

\* Every transaction of the system keeps the pool's invariant: with the books
\* balanced by the loans (BooksInv), the pool is called as it trusts it is.
LEMMA PoolKept ==
  ASSUME HomesInv, ThePool!PoolInv, [Next]_vars
  PROVE  ThePool!PoolInv'
<1>1. CASE DepositTx \/ WithdrawTx \/ ClaimTx
  <2>1. ThePool!PoolNext
    BY <1>1, SameInvestorSteps DEF DepositTx, WithdrawTx, ClaimTx
  <2> QED
    BY <2>1, ThePoolIsAssumed, ThePool!PoolInvNext
<1>2. CASE ~(DepositTx \/ WithdrawTx \/ ClaimTx)
  <2>1. MovesNoPosition
    BY <1>2, SamePool, OthersMoveNoPosition
  <2>2. BooksInv'
    BY HomesNext DEF HomesInv
  <2>3. positions \in [Investors -> ThePool!Position]
    BY DEF ThePool!PoolInv, ThePool!PoolTypeOK
  <2>4. ThePool!PoolTypeOK'
    BY <2>1, <2>2, <2>3 DEF MovesNoPosition, BooksInv, ThePool!PoolTypeOK
  <2>5. ThePool!CommitmentsAreCovered' /\ ThePool!SharesAreBacked'
    BY <2>2 DEF BooksInv, ThePool!CommitmentsAreCovered, ThePool!SharesAreBacked
  <2> QED
    BY <2>1, <2>4, <2>5, ThePoolIsAssumed, ThePool!SamePositionsStep DEF MovesNoPosition
<1> QED
  BY <1>1, <1>2

\* A system just deployed has an empty pool.
LEMMA PoolBegins == Init => ThePool!PoolInv
<1>1. Init => ThePool!PoolInit
  BY DEF Init, Pool!PoolInit, Pool!NoPosition, ThePool!PoolInit, ThePool!NoPosition
<1> QED
  BY <1>1, ThePoolIsAssumed, ThePool!PoolInvInit

\* What LendingPool promises on its own holds among the loans: the totals and
\* positions are natural numbers, what is set aside is covered, the shares add
\* up, are backed, and settling a position never takes from it.
THEOREM PoolHoldsAmongLoans ==
  Spec => [](/\ Pool!PoolTypeOK
             /\ Pool!CommitmentsAreCovered
             /\ Pool!SharesAddUp
             /\ Pool!SharesAreBacked
             /\ Pool!SettleNeverDebits)
<1>1. Init => ThePool!PoolInv
  BY PoolBegins
<1>2. HomesInv /\ ThePool!PoolInv /\ [Next]_vars => ThePool!PoolInv'
  BY PoolKept
<1> QED
  BY <1>1, <1>2, SamePool, HomesInvariant, PTL DEF Spec

\* Moving capital moves no interest in the system either: what an investor can
\* claim changes by payments of the borrowers and by being claimed, and by no
\* draw, default, deposit, withdrawal or approval.
THEOREM OnlyBorrowersPayInterest == Spec => Pool!OnlyPaymentsEarnInterest
<1> DEFINE Claims == \A i \in Investors :
             \/ Pool!ClaimableInterest(i)' = Pool!ClaimableInterest(i)
             \/ acc' > acc /\ Pool!ClaimableInterest(i)' > Pool!ClaimableInterest(i)
             \/ /\ acc' = acc
                /\ Pool!ClaimableInterest(i)' = 0
                /\ usdc - usdc' = Pool!ClaimableInterest(i)
<1>1. ASSUME HomesInv, ThePool!PoolInv, ThePool!PoolInv', [Next]_vars
      PROVE  [Claims]_(Pool!poolVars)
  <2>1. ASSUME NEW i \in Investors, ThePool!ClaimMovesOnlyByPayment(i)
        PROVE  \/ Pool!ClaimableInterest(i)' = Pool!ClaimableInterest(i)
               \/ acc' > acc /\ Pool!ClaimableInterest(i)' > Pool!ClaimableInterest(i)
               \/ /\ acc' = acc
                  /\ Pool!ClaimableInterest(i)' = 0
                  /\ usdc - usdc' = Pool!ClaimableInterest(i)
    BY <2>1 DEF ThePool!ClaimMovesOnlyByPayment, ThePool!ClaimableInterest, ThePool!Settle,
                ThePool!Entitled, Pool!ClaimableInterest, Pool!Settle, Pool!Entitled
  <2>2. ASSUME NEW i \in Investors PROVE ThePool!ClaimMovesOnlyByPayment(i)
    <3>1. CASE DepositTx \/ WithdrawTx \/ ClaimTx
      <4>1. ThePool!PoolNext
        BY <3>1, SameInvestorSteps DEF DepositTx, WithdrawTx, ClaimTx
      <4> QED
        BY <1>1, <4>1, ThePoolIsAssumed, ThePool!ClaimStep
    <3>2. CASE ~(DepositTx \/ WithdrawTx \/ ClaimTx)
      <4>1. MovesNoPosition /\ ThePool!PoolTypeOK
        BY <1>1, <3>2, SamePool, OthersMoveNoPosition DEF ThePool!PoolInv
      <4> QED
        BY <4>1, ThePoolIsAssumed, ThePool!SamePositionsClaim DEF MovesNoPosition
    <3> QED
      BY <3>1, <3>2
  <2> QED
    BY <2>1, <2>2
<1>2. HomesInv /\ ThePool!PoolInv /\ [Next]_vars => ThePool!PoolInv'
  BY PoolKept
<1> QED
  BY <1>1, <1>2, PoolBegins, HomesInvariant, PTL DEF Spec, Pool!OnlyPaymentsEarnInterest

-----------------------------------------------------------------------------
(* The life of a loan.                                                     *)

\* The steps of a status: none leads out of PaidOff or Defaulted.
StatusSteps ==
  {<<"Applied", "Approved">>, <<"Approved", "Funded">>, <<"Funded", "Funded">>,
   <<"Funded", "Repaying">>, <<"Repaying", "Repaying">>, <<"Funded", "PaidOff">>,
   <<"Repaying", "PaidOff">>, <<"Funded", "Defaulted">>, <<"Repaying", "Defaulted">>}

\* What a loan has had less what it has given: 0 for a loan whose books balance.
Balance(m) == m.disbursed + m.interest_paid - (m.outstanding + m.total_repaid)

\* What a transaction at time t may make of a loan it rewrites.
Advanced(old, new, t) ==
  /\ <<old.status, new.status>> \in StatusSteps
  /\ new.property_id = old.property_id /\ new.principal = old.principal
  /\ new.term_months = old.term_months /\ new.rate_bps = old.rate_bps
  /\ new.disbursed >= old.disbursed
  /\ new.disbursed > old.disbursed <=> new.status = "Funded"
  /\ new.total_repaid >= old.total_repaid
  /\ new.interest_paid >= old.interest_paid
  /\ new.payments_made =
       old.payments_made + IF new.status \in {"Repaying", "PaidOff"} THEN 1 ELSE 0
  /\ new.next_payment_due =
       IF old.status = "Approved"
       THEN t + SECONDS_PER_MONTH
       ELSE old.next_payment_due
              + SECONDS_PER_MONTH * (new.payments_made - old.payments_made)
  /\ new.status = "PaidOff" => new.outstanding = 0 /\ new.interest_accrued = 0
  /\ Balance(new) = Balance(old)

\* What a transaction may do to the loans.
AllAdvance ==
  /\ \A id \in MortgageIds \cap MortgageIds' :
       \/ mortgages'[id] = mortgages[id]
       \/ Advanced(mortgages[id], mortgages'[id], now)
  /\ \A id \in MortgageIds \ MortgageIds' : mortgages[id].status = "Applied"
  /\ \A id \in MortgageIds' \ MortgageIds :
       id = next_id /\ next_id' > id /\ mortgages'[id].status = "Applied"
  /\ next_id' >= next_id

\* "Applied -> Approved -> Funded -> Repaying -> PaidOff" (MortgageStatus): a
\* loan only goes forward, under the terms it was approved on.  No transaction
\* of anybody reopens a loan that is closed, changes its terms, takes back a
\* draw or a payment, skips or repeats an instalment, moves a due date but by
\* a payment, or gives an id to a second loan; and only an application that was
\* declined is ever removed.
LoansOnlyAdvance == [][AllAdvance]_vars

\* The books of every loan balance: it owes what it has drawn and been charged
\* less what was paid, and a loan is closed as paid off only when everything
\* it drew, and every unit of interest charged, has come back.
EveryLoanBalances ==
  \A id \in MortgageIds :
    LET m == mortgages[id]
    IN  /\ m.outstanding + m.total_repaid = m.disbursed + m.interest_paid
        /\ m.status = "PaidOff" =>
             m.interest_accrued = 0 /\ m.total_repaid = m.disbursed + m.interest_paid

\* An entry of the table is written.
LEMMA EntryWritten ==
  ASSUME NEW id \in MortgageIds, NEW m, mortgages' = Put(mortgages, id, m)
  PROVE  MovedFor(id) /\ mortgages'[id] = m
<1> DEFINE table == Put(mortgages, id, m)
<1>1. /\ DOMAIN table = MortgageIds /\ table[id] = m
      /\ \A j \in MortgageIds \ {id} : table[j] = mortgages[j]
  BY DEF Put, MortgageIds
<1>2. mortgages' = table
  OBVIOUS
<1> HIDE DEF table
<1> QED
  BY <1>1, <1>2 DEF MovedFor, MortgageIds

\* Changing the status of a loan, its interest brought up to date or not, moves
\* no money.
LEMMA StatusAdvances ==
  ASSUME NEW old \in Mortgage, NEW t \in Nat, NEW m, m = old \/ m = Accrue(old, t),
         NEW status, <<old.status, status>> \in {<<"Applied", "Approved">>,
                       <<"Funded", "Defaulted">>, <<"Repaying", "Defaulted">>}
  PROVE  Advanced(old, [m EXCEPT !.status = status], t)
<1>1. /\ m \in Mortgage /\ m.principal = old.principal /\ m.disbursed = old.disbursed
      /\ m.outstanding = old.outstanding /\ m.interest_paid = old.interest_paid
      /\ m.total_repaid = old.total_repaid /\ m.rate_bps = old.rate_bps
      /\ m.property_id = old.property_id /\ m.term_months = old.term_months
      /\ m.payments_made = old.payments_made /\ m.next_payment_due = old.next_payment_due
  BY AccrueKeeps
<1> DEFINE new == [m EXCEPT !.status = status]
<1>2. /\ new.principal = m.principal /\ new.disbursed = m.disbursed /\ new.status = status
      /\ new.outstanding = m.outstanding /\ new.interest_paid = m.interest_paid
      /\ new.total_repaid = m.total_repaid /\ new.rate_bps = m.rate_bps
      /\ new.property_id = m.property_id /\ new.term_months = m.term_months
      /\ new.payments_made = m.payments_made /\ new.next_payment_due = m.next_payment_due
  BY <1>1 DEF Mortgage
<1> HIDE DEF new
<1>3. /\ old.disbursed \in Nat /\ old.payments_made \in Nat /\ old.next_payment_due \in Nat
      /\ old.total_repaid \in Nat /\ old.interest_paid \in Nat
  BY DEF Mortgage
<1>4. SECONDS_PER_MONTH * (new.payments_made - old.payments_made) = 0
  BY <1>1, <1>2, <1>3, DivisorPositive
<1>5. /\ status \in {"Approved", "Defaulted"} /\ old.status # "Approved"
      /\ <<old.status, status>> \in StatusSteps
  BY DEF StatusSteps
<1>6. Balance(new) = Balance(old)
  BY <1>1, <1>2 DEF Balance
<1> QED
  BY <1>1, <1>2, <1>3, <1>4, <1>5, <1>6 DEF Advanced, new

\* A payment is counted, moves the due date by a month, and comes off what is
\* owed; only one that leaves nothing owed closes the loan.
LEMMA PaymentAdvances ==
  ASSUME NEW old \in Mortgage, old.status \in Running, NEW t \in Nat,
         NEW amount \in Nat, amount > 0, IsEnough(Accrue(old, t), amount),
         NEW after, after = AfterPayment(Accrue(old, t), Smaller(amount, Payoff(Accrue(old, t))))
  PROVE  /\ Advanced(old, after, t)
         /\ IsCleared(after) => Advanced(old, [after EXCEPT !.status = "PaidOff"], t)
<1> DEFINE m == Accrue(old, t)
<1>1. /\ m \in Mortgage /\ m.principal = old.principal /\ m.disbursed = old.disbursed
      /\ m.outstanding = old.outstanding /\ m.interest_paid = old.interest_paid
      /\ m.total_repaid = old.total_repaid /\ m.rate_bps = old.rate_bps
      /\ m.property_id = old.property_id /\ m.term_months = old.term_months
      /\ m.payments_made = old.payments_made /\ m.next_payment_due = old.next_payment_due
  BY AccrueKeeps
<1>2. PaidFrom(after, m)
  BY <1>1, PaymentResult
<1> HIDE DEF m
<1>3. /\ after \in Mortgage
      /\ after.total_repaid - after.interest_paid =
           old.total_repaid - old.interest_paid + (old.outstanding - after.outstanding)
      /\ after.outstanding <= old.outstanding
      /\ after.interest_paid = old.interest_paid + m.interest_accrued
      /\ after.payments_made = old.payments_made + 1
      /\ after.next_payment_due = old.next_payment_due + SECONDS_PER_MONTH
      /\ after.disbursed = old.disbursed /\ after.principal = old.principal
      /\ after.rate_bps = old.rate_bps /\ after.property_id = old.property_id
      /\ after.term_months = old.term_months /\ after.status = "Repaying"
  BY <1>1, <1>2 DEF PaidFrom
<1>4. /\ old.disbursed \in Nat /\ old.outstanding \in Nat /\ old.interest_paid \in Nat
      /\ old.total_repaid \in Nat /\ old.payments_made \in Nat /\ m.interest_accrued \in Nat
      /\ old.next_payment_due \in Nat /\ after.outstanding \in Nat
      /\ after.total_repaid \in Nat /\ after.interest_paid \in Nat
  BY <1>1, <1>3 DEF Mortgage
<1>5. /\ after.total_repaid >= old.total_repaid /\ after.interest_paid >= old.interest_paid
      /\ Balance(after) = Balance(old)
  BY <1>3, <1>4 DEF Balance
<1>6. SECONDS_PER_MONTH * (after.payments_made - old.payments_made) = SECONDS_PER_MONTH
  BY <1>3, <1>4, DivisorPositive
<1>7. /\ old.status # "Approved" /\ <<old.status, "Repaying">> \in StatusSteps
      /\ <<old.status, "PaidOff">> \in StatusSteps
  BY DEF Running, StatusSteps
<1>8. Advanced(old, after, t)
  BY <1>3, <1>4, <1>5, <1>6, <1>7 DEF Advanced
<1> DEFINE closed == [after EXCEPT !.status = "PaidOff"]
<1>9. /\ closed.status = "PaidOff" /\ closed.interest_accrued = after.interest_accrued
      /\ closed.principal = after.principal /\ closed.disbursed = after.disbursed
      /\ closed.outstanding = after.outstanding /\ closed.interest_paid = after.interest_paid
      /\ closed.total_repaid = after.total_repaid /\ closed.rate_bps = after.rate_bps
      /\ closed.property_id = after.property_id /\ closed.term_months = after.term_months
      /\ closed.payments_made = after.payments_made
      /\ closed.next_payment_due = after.next_payment_due
  BY <1>3 DEF Mortgage
<1> HIDE DEF closed
<1>10. Balance(closed) = Balance(old)
  BY <1>5, <1>9 DEF Balance
<1>11. IsCleared(after) => Advanced(old, closed, t)
  BY <1>3, <1>4, <1>5, <1>6, <1>7, <1>9, <1>10 DEF Advanced, IsCleared
<1> QED
  BY <1>8, <1>11 DEF closed

\* A draw adds to what is owed; the first one sets the first due date.
LEMMA DrawAdvances ==
  ASSUME NEW old \in Mortgage, old.status \in {"Approved", "Funded"}, NEW t \in Nat,
         NEW tranche \in Nat, tranche > 0,
         old.disbursed = 0 <=> old.status = "Approved", NEW new,
         new = AfterDraw(Accrue(old, t), tranche, t)
  PROVE  Advanced(old, new, t)
<1> DEFINE m == Accrue(old, t)
<1>1. /\ m \in Mortgage /\ m.principal = old.principal /\ m.disbursed = old.disbursed
      /\ m.outstanding = old.outstanding /\ m.interest_paid = old.interest_paid
      /\ m.total_repaid = old.total_repaid /\ m.rate_bps = old.rate_bps
      /\ m.property_id = old.property_id /\ m.term_months = old.term_months
      /\ m.payments_made = old.payments_made /\ m.next_payment_due = old.next_payment_due
      /\ m.status = old.status
  BY AccrueKeeps
<1>2. DrawnFrom(new, m, tranche, t)
  BY <1>1, DrawResult
<1> HIDE DEF m
<1>3. IsFirstDraw(m) <=> old.status = "Approved"
  BY <1>1 DEF IsFirstDraw
<1>4. /\ new.disbursed = old.disbursed + tranche
      /\ new.outstanding = old.outstanding + tranche
      /\ new.interest_paid = old.interest_paid /\ new.total_repaid = old.total_repaid
      /\ new.payments_made = old.payments_made
      /\ new.principal = old.principal /\ new.rate_bps = old.rate_bps
      /\ new.property_id = old.property_id /\ new.term_months = old.term_months
      /\ new.status = "Funded"
      /\ new.next_payment_due = IF old.status = "Approved" THEN t + SECONDS_PER_MONTH
                                                           ELSE old.next_payment_due
  BY <1>1, <1>2, <1>3 DEF DrawnFrom
<1>5. /\ old.disbursed \in Nat /\ old.outstanding \in Nat /\ old.interest_paid \in Nat
      /\ old.total_repaid \in Nat /\ old.payments_made \in Nat /\ old.next_payment_due \in Nat
  BY DEF Mortgage
<1>6. SECONDS_PER_MONTH * (new.payments_made - old.payments_made) = 0
  BY <1>4, <1>5, DivisorPositive
<1>7. <<old.status, "Funded">> \in StatusSteps
  BY DEF StatusSteps
<1>8. Balance(new) = Balance(old)
  BY <1>4, <1>5 DEF Balance
<1> QED
  BY <1>4, <1>5, <1>6, <1>7, <1>8 DEF Advanced

\* A transaction that rewrites the loan id alone advances it.
AdvancesOne(id) ==
  /\ MovedFor(id) /\ next_id' = next_id
  /\ Advanced(mortgages[id], mortgages'[id], now)

\* approve, disburse, repay and mark_default do.
LEMMA LoanAdvances ==
  ASSUME HomesInv, NEW id \in MortgageIds,
         \/ \E underwriter \in underwriters : Approve(underwriter, id)
         \/ DisburseLoan(id) \/ RepayLoan(id) \/ MarkDefaultLoan(id)
  PROVE  AdvancesOne(id)
<1> DEFINE old == mortgages[id]
<1>1. /\ HomesTypeOK /\ LoansInv /\ now \in Nat
  BY DEF HomesInv, HomesTypeOK
<1>2. /\ old \in Mortgage
      /\ LoanOK(old, properties[old.property_id].status, StagesReleased(old.property_id))
  BY <1>1, LoanTypes
<1>3. ASSUME NEW underwriter \in underwriters, Approve(underwriter, id)
      PROVE  AdvancesOne(id)
  <2> DEFINE m == [old EXCEPT !.status = "Approved"]
  <2>1. old.status = "Applied" /\ mortgages' = Put(mortgages, id, m) /\ next_id' = next_id
    BY <1>3 DEF Approve, HasStatus, Save
  <2>2. Advanced(old, m, now)
    BY <1>1, <1>2, <2>1, StatusAdvances
  <2> HIDE DEF m
  <2> QED
    BY <2>1, <2>2, EntryWritten DEF AdvancesOne
<1>4. ASSUME DisburseLoan(id)
      PROVE  AdvancesOne(id)
  <2>1. PICK stage \in Registry!Stages : Disburse(id, stage)
    BY <1>4 DEF DisburseLoan
  <2> DEFINE tranche == TrancheFor(old, stage)
             new == AfterDraw(Accrue(old, now), tranche, now)
  <2>2. /\ old.status \in {"Approved", "Funded"} /\ tranche > 0
        /\ mortgages' = Put(mortgages, id, new) /\ next_id' = next_id
    BY <2>1 DEF Disburse, HasStatus, Save
  <2>3. tranche \in Nat
    BY <1>2, <2>2, TrancheIsInt
  <2>4. old.disbursed = 0 <=> old.status = "Approved"
    BY <1>2, <2>2 DEF LoanOK, Signing, Running
  <2> HIDE DEF tranche
  <2>5. Advanced(old, new, now)
    BY <1>1, <1>2, <2>2, <2>3, <2>4, DrawAdvances
  <2> HIDE DEF new
  <2> QED
    BY <2>2, <2>5, EntryWritten DEF AdvancesOne
<1>5. ASSUME RepayLoan(id)
      PROVE  AdvancesOne(id)
  <2>1. PICK amount \in Payments : Repay(id, amount)
    BY <1>5 DEF RepayLoan
  <2> DEFINE m == Accrue(old, now)
             after == AfterPayment(m, Smaller(amount, Payoff(m)))
             closed == [after EXCEPT !.status = "PaidOff"]
  <2>2. /\ old.status \in Running /\ amount > 0 /\ IsEnough(m, amount) /\ next_id' = next_id
        /\ mortgages' = IF IsCleared(after) THEN Put(mortgages, id, closed)
                                            ELSE Put(mortgages, id, after)
    BY <2>1 DEF Repay, HasStatus, Running, Save
  <2>3. amount \in Nat
    BY <2>2, StellarHomesAssumption
  <2>4. /\ Advanced(old, after, now)
        /\ IsCleared(after) => Advanced(old, closed, now)
    BY <1>1, <1>2, <2>2, <2>3, PaymentAdvances
  <2> HIDE DEF after, closed
  <2> QED
    BY <2>2, <2>4, EntryWritten DEF AdvancesOne
<1>6. ASSUME MarkDefaultLoan(id)
      PROVE  AdvancesOne(id)
  <2> DEFINE m == Accrue(old, now)
             bad == [m EXCEPT !.status = "Defaulted"]
  <2>1. old.status \in Running /\ mortgages' = Put(mortgages, id, bad) /\ next_id' = next_id
    BY <1>6 DEF MarkDefaultLoan, MarkDefault, HasStatus, Running, Save
  <2>2. Advanced(old, bad, now)
    BY <1>1, <1>2, <2>1, StatusAdvances DEF Running
  <2> HIDE DEF bad
  <2> QED
    BY <2>1, <2>2, EntryWritten DEF AdvancesOne
<1> QED
  BY <1>3, <1>4, <1>5, <1>6

\* What any transaction does to the table of loans.
LoansStep ==
  \/ \E id \in MortgageIds : AdvancesOne(id)
  \/ UNCHANGED <<mortgages, next_id>>
  \/ \E p \in Registry!PropertyIds, f \in Facilities :
       /\ f.principal > 0 /\ WithinLtv(f.principal, p)
       /\ mortgages' = Put(mortgages, next_id,
                           Application(p, f.principal, f.term_months, f.rate_bps))
       /\ next_id' = next_id + 1
  \/ \E id \in MortgageIds :
       /\ mortgages[id].status = "Applied"
       /\ mortgages' = Remove(mortgages, id) /\ next_id' = next_id

\* It advances one loan, leaves them alone, files an application or declines one.
LEMMA LoansSteps ==
  ASSUME HomesInv, [Next]_vars
  PROVE  LoansStep
<1>1. CASE ApproveTx \/ DisburseTx \/ RepayTx \/ MarkDefaultTx
  BY <1>1, LoanAdvances DEF ApproveTx, DisburseTx, RepayTx, MarkDefaultTx, LoansStep
<1>2. CASE ApplyTx
  BY <1>2 DEF ApplyTx, Apply, Save, LoansStep
<1>3. CASE DeclineTx
  BY <1>3 DEF DeclineTx, Decline, HasStatus, LoansStep
<1>4. CASE \/ DepositTx \/ WithdrawTx \/ ClaimTx \/ SubmitTx \/ EvidenceTx \/ OracleTx
           \/ RolesTx \/ GovernanceTx \/ Tick \/ UNCHANGED vars
  BY <1>4 DEF DepositTx, WithdrawTx, ClaimTx, SubmitTx, EvidenceTx, OracleTx, RolesTx,
              GovernanceTx, Tick, vars, mortgageVars, loanVars, LoansStep
<1> QED
  BY <1>1, <1>2, <1>3, <1>4 DEF Next

\* The table when an application is filed under the next id.
LEMMA ApplicationFiled ==
  ASSUME HomesInv, NEW p, NEW f,
         mortgages' = Put(mortgages, next_id,
                          Application(p, f.principal, f.term_months, f.rate_bps))
  PROVE  /\ MortgageIds' = MortgageIds \cup {next_id} /\ next_id \notin MortgageIds
         /\ \A j \in MortgageIds : mortgages'[j] = mortgages[j]
         /\ mortgages'[next_id] = Application(p, f.principal, f.term_months, f.rate_bps)
<1>1. next_id \notin MortgageIds
  BY DEF HomesInv, HomesTypeOK, MortgageTypeOK
<1> DEFINE m == Application(p, f.principal, f.term_months, f.rate_bps)
           table == Put(mortgages, next_id, m)
<1> HIDE DEF m
<1>2. /\ DOMAIN table = MortgageIds \cup {next_id} /\ table[next_id] = m
      /\ \A j \in MortgageIds \ {next_id} : table[j] = mortgages[j]
  BY DEF Put, MortgageIds
<1>3. mortgages' = table
  BY DEF m
<1> HIDE DEF table
<1> QED
  BY <1>1, <1>2, <1>3 DEF MortgageIds, m

\* The table when one is declined.
LEMMA ApplicationDeclined ==
  ASSUME NEW id \in MortgageIds, mortgages' = Remove(mortgages, id)
  PROVE  /\ MortgageIds' = MortgageIds \ {id}
         /\ \A j \in MortgageIds' : mortgages'[j] = mortgages[j]
<1> DEFINE table == Remove(mortgages, id)
<1>1. /\ DOMAIN table = MortgageIds \ {id}
      /\ \A j \in MortgageIds \ {id} : table[j] = mortgages[j]
  BY DEF Remove, MortgageIds
<1>2. mortgages' = table
  OBVIOUS
<1> HIDE DEF table
<1> QED
  BY <1>1, <1>2 DEF MortgageIds

\* The transactions do what LoansOnlyAdvance says.
LEMMA LoansForward ==
  ASSUME HomesInv, [Next]_vars
  PROVE  AllAdvance
<1>1. next_id \in Nat
  BY DEF HomesInv, HomesTypeOK
<1>2. CASE \E id \in MortgageIds : AdvancesOne(id)
  BY <1>1, <1>2 DEF AdvancesOne, MovedFor, AllAdvance
<1>3. CASE UNCHANGED <<mortgages, next_id>>
  BY <1>1, <1>3 DEF MortgageIds, AllAdvance
<1>4. ASSUME NEW p \in Registry!PropertyIds, NEW f \in Facilities,
             mortgages' = Put(mortgages, next_id,
                              Application(p, f.principal, f.term_months, f.rate_bps)),
             next_id' = next_id + 1
      PROVE  AllAdvance
  <2> DEFINE m == Application(p, f.principal, f.term_months, f.rate_bps)
  <2>1. m.status = "Applied"
    BY DEF Application
  <2>2. /\ MortgageIds' = MortgageIds \cup {next_id}
        /\ \A j \in MortgageIds : mortgages'[j] = mortgages[j]
        /\ mortgages'[next_id] = m
    BY <1>4, ApplicationFiled
  <2> HIDE DEF m
  <2> QED
    BY <1>1, <1>4, <2>1, <2>2 DEF AllAdvance
<1>5. ASSUME NEW id \in MortgageIds, mortgages[id].status = "Applied",
             mortgages' = Remove(mortgages, id), next_id' = next_id
      PROVE  AllAdvance
  BY <1>1, <1>5, ApplicationDeclined DEF AllAdvance
<1> QED
  BY <1>2, <1>3, <1>4, <1>5, LoansSteps DEF LoansStep

\* Loans only go forward, among any number of them.
THEOREM LoansOnlyAdvanceAlways == Spec => LoansOnlyAdvance
<1>1. HomesInv /\ [Next]_vars => AllAdvance
  BY LoansForward
<1> QED
  BY <1>1, HomesInvariant, PTL DEF Spec, LoansOnlyAdvance

\* Every loan's books balance, and a loan paid off has nothing left to pay.
THEOREM LoansBalance == Spec => []EveryLoanBalances
<1> DEFINE Even(m) == Balance(m) = 0 /\ (m.status = "PaidOff" => m.outstanding = 0
                                                                 /\ m.interest_accrued = 0)
           Inv == \A id \in MortgageIds : Even(mortgages[id])
<1>1. Init => Inv
  BY DEF Init, MortgageInit, MortgageIds
<1>2. ASSUME HomesInv, Inv, [Next]_vars PROVE Inv'
  <2>1. CASE \E id \in MortgageIds : AdvancesOne(id)
    <3>1. PICK id \in MortgageIds : AdvancesOne(id)
      BY <2>1
    <3>2. Even(mortgages'[id])
      BY <1>2, <3>1 DEF AdvancesOne, Advanced
    <3> QED
      BY <1>2, <3>1, <3>2 DEF AdvancesOne, MovedFor
  <2>2. CASE UNCHANGED <<mortgages, next_id>>
    BY <1>2, <2>2 DEF MortgageIds
  <2>3. ASSUME NEW p \in Registry!PropertyIds, NEW f \in Facilities,
               mortgages' = Put(mortgages, next_id,
                                Application(p, f.principal, f.term_months, f.rate_bps))
        PROVE  Inv'
    <3> DEFINE m == Application(p, f.principal, f.term_months, f.rate_bps)
    <3>1. Even(m)
      BY DEF Application, Balance
    <3>2. /\ MortgageIds' = MortgageIds \cup {next_id}
          /\ \A j \in MortgageIds : mortgages'[j] = mortgages[j]
          /\ mortgages'[next_id] = m
      BY <1>2, <2>3, ApplicationFiled
    <3> HIDE DEF m
    <3> QED
      BY <1>2, <3>1, <3>2
  <2>4. ASSUME NEW id \in MortgageIds, mortgages' = Remove(mortgages, id)
        PROVE  Inv'
    BY <1>2, <2>4, ApplicationDeclined
  <2> QED
    BY <1>2, <2>1, <2>2, <2>3, <2>4, LoansSteps DEF LoansStep
<1>3. ASSUME HomesInv, Inv PROVE EveryLoanBalances
  <2>1. SUFFICES ASSUME NEW id \in MortgageIds
                 PROVE  LET m == mortgages[id]
                        IN  /\ m.outstanding + m.total_repaid = m.disbursed + m.interest_paid
                            /\ m.status = "PaidOff" =>
                                 /\ m.interest_accrued = 0
                                 /\ m.total_repaid = m.disbursed + m.interest_paid
    BY DEF EveryLoanBalances
  <2>2. mortgages[id] \in Mortgage /\ Even(mortgages[id])
    BY <1>3, LoanTypes DEF HomesInv
  <2> QED
    BY <2>2 DEF Balance, Mortgage
<1> QED
  BY <1>1, <1>2, <1>3, HomesInvariant, PTL DEF Spec

-----------------------------------------------------------------------------
(* The registry within the system.                                         *)
(*                                                                         *)
(* The first draw of a loan makes two calls on the registry in one step,   *)
(* which PropertyRegistryProofs shows to keep what each of them keeps; any *)
(* other transaction makes at most one.                                    *)

TheRegistry == INSTANCE PropertyRegistryProofs

\* PropertyRegistry's assumption about its constants is part of the system's.
LEMMA TheRegistryIsAssumed ==
  /\ MILESTONE_COUNT \in Nat \ {0}
  /\ NoEvidence \notin Evidence
  /\ Nobody \notin FirstTrustees \cup FirstOracles \cup TrusteeChanges \cup OracleChanges
  /\ Valuations \subseteq Int
  /\ MaxProperties \in Nat
BY MortgageLoanAssumption, MortgagePoolAssumption

\* The invariant of the registry, in the system's words.
LEMMA SameRegistry ==
  TheRegistry!RegistryInv <=> /\ Registry!RegistryTypeOK
                              /\ Registry!SignedOffInBuildOrder
                              /\ Registry!ReleasesAreJustified
                              /\ Registry!LendingTermsAreIndependent
<1>1. Registry!RegistryTypeOK <=> TheRegistry!RegistryTypeOK
  BY DEF Registry!RegistryTypeOK, Registry!Addresses, Registry!Property,
         Registry!PropertyStatus, Registry!Stages, Registry!Milestone,
         TheRegistry!RegistryTypeOK, TheRegistry!Addresses, TheRegistry!Property,
         TheRegistry!PropertyStatus, TheRegistry!Stages, TheRegistry!Milestone
<1>2. /\ Registry!SignedOffInBuildOrder <=> TheRegistry!SignedOffInBuildOrder
      /\ Registry!ReleasesAreJustified <=> TheRegistry!ReleasesAreJustified
      /\ Registry!LendingTermsAreIndependent <=> TheRegistry!LendingTermsAreIndependent
  BY DEF Registry!SignedOffInBuildOrder, Registry!ReleasesAreJustified,
         Registry!LendingTermsAreIndependent, Registry!PropertyIds, Registry!Stages,
         TheRegistry!SignedOffInBuildOrder, TheRegistry!ReleasesAreJustified,
         TheRegistry!LendingTermsAreIndependent, TheRegistry!PropertyIds, TheRegistry!Stages
<1> QED
  BY <1>1, <1>2 DEF TheRegistry!RegistryInv

\* What a transaction of the system does to the registry: one of the registry's
\* own steps, the two calls of a first draw, or nothing.
RegistryStep ==
  \/ TheRegistry!RegistryNext
  \/ TheRegistry!FirstDrawTx
  \/ UNCHANGED registryVars

\* The registry's own transactions are steps of PropertyRegistry.
LEMMA SameRegistrySteps ==
  ASSUME \/ Registry!SubmitPropertyTx \/ Registry!EvidenceTx
         \/ Registry!OracleTx \/ Registry!AdminTx
  PROVE  RegistryStep
<1>1. Registry!SubmitPropertyTx => TheRegistry!SubmitPropertyTx
  BY DEF Registry!SubmitPropertyTx, Registry!SubmitProperty, Registry!Stages,
         Registry!EmptyMilestone, TheRegistry!SubmitPropertyTx, TheRegistry!SubmitProperty,
         TheRegistry!Stages, TheRegistry!EmptyMilestone
<1>2. Registry!EvidenceTx => TheRegistry!EvidenceTx
  BY DEF Registry!EvidenceTx, Registry!SubmitMilestoneEvidence, Registry!PropertyIds,
         Registry!Stages, TheRegistry!EvidenceTx, TheRegistry!SubmitMilestoneEvidence,
         TheRegistry!PropertyIds, TheRegistry!Stages
<1>3. Registry!OracleTx => TheRegistry!OracleTx
  BY DEF Registry!OracleTx, Registry!VerifyTitle, Registry!SetValuation,
         Registry!VerifyMilestone, Registry!IndependentOracle, Registry!PreviousStageVerified,
         Registry!PropertyIds, Registry!Stages, TheRegistry!OracleTx, TheRegistry!VerifyTitle,
         TheRegistry!SetValuation, TheRegistry!VerifyMilestone, TheRegistry!IndependentOracle,
         TheRegistry!PreviousStageVerified, TheRegistry!PropertyIds, TheRegistry!Stages
<1>4. Registry!AdminTx => TheRegistry!AdminTx
  BY DEF Registry!AdminTx, Registry!SetTrustee, Registry!SetOracle, Registry!SetRole,
         TheRegistry!AdminTx, TheRegistry!SetTrustee, TheRegistry!SetOracle,
         TheRegistry!SetRole
<1> QED
  BY <1>1, <1>2, <1>3, <1>4 DEF RegistryStep, TheRegistry!RegistryNext

\* The property of a loan is one of the registry's.
LEMMA LoanProperty ==
  ASSUME HomesInv, NEW id \in MortgageIds
  PROVE  mortgages[id].property_id \in TheRegistry!PropertyIds
BY DEF HomesInv, LoansInv, Registry!PropertyIds, TheRegistry!PropertyIds

\* A draw releases one stage, and marks the property if it is the first.
LEMMA DrawRegistryStep ==
  ASSUME HomesInv, NEW id \in MortgageIds, NEW stage \in Registry!Stages, Disburse(id, stage),
         UNCHANGED <<trustees, oracles>>
  PROVE  RegistryStep
<1> DEFINE p == mortgages[id].property_id
<1>1. p \in TheRegistry!PropertyIds /\ stage \in TheRegistry!Stages
  BY LoanProperty DEF Registry!Stages, TheRegistry!Stages
<1>2. TheRegistry!MarkReleased(p, stage)
  BY DEF Disburse, Registry!MarkReleased, TheRegistry!MarkReleased
<1>3. TheRegistry!MarkMortgaged(p) \/ UNCHANGED properties
  BY DEF Disburse, Registry!MarkMortgaged, Registry!Transition, TheRegistry!MarkMortgaged,
         TheRegistry!Transition
<1> HIDE DEF p
<1>4. TheRegistry!FirstDrawTx \/ TheRegistry!ReleaseTx
  BY <1>1, <1>2, <1>3 DEF TheRegistry!FirstDrawTx, TheRegistry!ReleaseTx
<1> QED
  BY <1>4 DEF RegistryStep, TheRegistry!RegistryNext

\* The last payment and the default of a loan record its outcome; any other
\* payment leaves the registry alone.
LEMMA OutcomeRegistryStep ==
  ASSUME HomesInv, NEW id \in MortgageIds, UNCHANGED <<trustees, oracles, milestones>>,
         \/ MarkDefault(id)
         \/ \E amount \in Payments : Repay(id, amount)
  PROVE  RegistryStep
<1> DEFINE p == mortgages[id].property_id
<1>1. p \in TheRegistry!PropertyIds
  BY LoanProperty
<1>2. Accrue(mortgages[id], now).property_id = p
  <2>1. mortgages[id] \in Mortgage /\ now \in Nat
    BY LoanTypes DEF HomesInv, HomesTypeOK
  <2> QED
    BY <2>1, AccrueKeeps
<1>3. MarkDefault(id) => Registry!MarkDefaulted(p)
  BY <1>2 DEF MarkDefault
<1>4. ASSUME NEW amount \in Payments, Repay(id, amount)
      PROVE  Registry!MarkRepaid(p) \/ UNCHANGED properties
  BY <1>2, <1>4 DEF Repay
<1> HIDE DEF p
<1>5. \/ TheRegistry!MarkDefaulted(p) \/ TheRegistry!MarkRepaid(p)
      \/ UNCHANGED properties
  BY <1>3, <1>4 DEF Registry!MarkDefaulted, Registry!MarkRepaid, Registry!Transition,
                    TheRegistry!MarkDefaulted, TheRegistry!MarkRepaid, TheRegistry!Transition
<1> QED
  BY <1>1, <1>5 DEF RegistryStep, TheRegistry!RegistryNext, TheRegistry!OutcomeTx, registryVars

\* Every transaction of the system is such a step.
LEMMA RegistrySteps ==
  ASSUME HomesInv, [Next]_vars
  PROVE  RegistryStep
<1>1. CASE SubmitTx \/ EvidenceTx \/ OracleTx \/ RolesTx
  BY <1>1, SameRegistrySteps DEF SubmitTx, EvidenceTx, OracleTx, RolesTx
<1>2. CASE DisburseTx
  BY <1>2, DrawRegistryStep DEF DisburseTx, DisburseLoan
<1>3. CASE RepayTx
  BY <1>3, OutcomeRegistryStep DEF RepayTx, RepayLoan
<1>4. CASE MarkDefaultTx
  BY <1>4, OutcomeRegistryStep DEF MarkDefaultTx, MarkDefaultLoan
<1>5. CASE \/ DepositTx \/ WithdrawTx \/ ClaimTx \/ ApplyTx \/ ApproveTx \/ DeclineTx
           \/ GovernanceTx \/ Tick \/ UNCHANGED vars
  BY <1>5 DEF DepositTx, WithdrawTx, ClaimTx, ApplyTx, ApproveTx, DeclineTx, GovernanceTx,
              Tick, vars, RegistryStep, registryVars
<1> QED
  BY <1>1, <1>2, <1>3, <1>4, <1>5 DEF Next

\* So the registry's invariant is kept, and so are every signed-off stage and
\* every value.
LEMMA RegistryKept ==
  ASSUME HomesInv, TheRegistry!RegistryInv, [Next]_vars
  PROVE  /\ TheRegistry!RegistryInv' /\ TheRegistry!ValuesStay
         /\ \A p \in TheRegistry!PropertyIds : \A stage \in TheRegistry!Stages :
              TheRegistry!Kept(p, stage)
<1>1. CASE TheRegistry!FirstDrawTx
  BY <1>1, TheRegistryIsAssumed, TheRegistry!FirstDrawKeeps
<1>2. CASE TheRegistry!RegistryNext \/ UNCHANGED registryVars
  <2>1. [TheRegistry!RegistryNext]_(TheRegistry!registryVars)
    BY <1>2 DEF registryVars, TheRegistry!registryVars
  <2> QED
    BY <2>1, TheRegistryIsAssumed, TheRegistry!RegistryInvNext, TheRegistry!SignaturesKept,
       TheRegistry!ValuesKept
<1> QED
  BY <1>1, <1>2, RegistrySteps DEF RegistryStep

\* A system just deployed has an empty registry.
LEMMA RegistryBegins == Init => TheRegistry!RegistryInv
<1>1. Init => TheRegistry!RegistryInit
  BY DEF Init, Registry!RegistryInit, TheRegistry!RegistryInit
<1> QED
  BY <1>1, TheRegistryIsAssumed, TheRegistry!RegistryInvInit

\* What PropertyRegistry promises on its own holds among the loans, where a draw
\* makes two calls at once: stages are signed off in the order of the build,
\* every release stands on an independent signature on evidence, and no
\* trustee vouches for its own title or value.
THEOREM RegistryHoldsAmongLoans ==
  Spec => [](/\ Registry!RegistryTypeOK
             /\ Registry!SignedOffInBuildOrder
             /\ Registry!ReleasesAreJustified
             /\ Registry!LendingTermsAreIndependent)
<1>1. HomesInv /\ TheRegistry!RegistryInv /\ [Next]_vars => TheRegistry!RegistryInv'
  BY RegistryKept
<1> QED
  BY <1>1, RegistryBegins, SameRegistry, HomesInvariant, PTL DEF Spec

\* No transaction of any of the three contracts takes back a signature, the
\* evidence under it, or a release.
THEOREM SignOffsAreFinalAmongLoans == Spec => Registry!SignOffIsFinal
<1> DEFINE Kept == \A p \in Registry!PropertyIds : \A stage \in Registry!Stages :
             LET before == milestones[p][stage]
                 after  == milestones'[p][stage]
             IN  before.verified =>
                   /\ after.verified
                   /\ after.evidence_hash = before.evidence_hash
                   /\ after.verified_by = before.verified_by
                   /\ before.released => after.released
<1>1. HomesInv /\ TheRegistry!RegistryInv /\ [Next]_vars => [Kept]_(Registry!registryVars)
  BY RegistryKept DEF TheRegistry!Kept, TheRegistry!PropertyIds, TheRegistry!Stages,
                      Registry!PropertyIds, Registry!Stages
<1>2. HomesInv /\ TheRegistry!RegistryInv /\ [Next]_vars => TheRegistry!RegistryInv'
  BY RegistryKept
<1> QED
  BY <1>1, <1>2, RegistryBegins, HomesInvariant, PTL DEF Spec, Registry!SignOffIsFinal

-----------------------------------------------------------------------------
(* What a draw stands on.                                                  *)

\* Every house that somebody applied for a loan on has a value.
Valued == \A id \in MortgageIds : properties[mortgages[id].property_id].usdc_value > 0

\* Across the three contracts, no money leaves the pool for a house but on
\* what somebody other than its trustee vouched for: what a loan has drawn is
\* the tranches of the stages released on its own property, each of these, and
\* each stage below it, is signed off by an inspector on recorded evidence, and
\* both the title and the value that the loan was granted on were confirmed,
\* however roles, evidence, valuations and loans came and went in between.
EveryDrawIsJustified ==
  \A id \in MortgageIds :
    LET m     == mortgages[id]
        house == properties[m.property_id]
        drawn == StagesReleased(m.property_id)
    IN  /\ id \in Opened => m.disbursed = Total([s \in drawn |-> TrancheFor(m, s)])
        /\ id \notin Opened => m.disbursed = 0 /\ drawn = {}
        /\ \A stage \in drawn : \A below \in 0..stage :
             LET signed == milestones[m.property_id][below]
             IN  /\ signed.verified /\ signed.evidence_hash # NoEvidence
                 /\ signed.verified_by \notin {Nobody, house.trustee}
        /\ house.verified_by \notin {Nobody, house.trustee}
        /\ house.usdc_value > 0
        /\ house.valued_by \notin {Nobody, house.trustee}

\* An application is filed only within the ceiling of a positive value, and no
\* value is withdrawn.
LEMMA ValuedKept ==
  ASSUME HomesInv, TheRegistry!RegistryInv, Valued, [Next]_vars
  PROVE  Valued'
<1>1. /\ \A p \in Registry!PropertyIds :
           properties[p].usdc_value > 0 => properties'[p].usdc_value > 0
  BY RegistryKept DEF TheRegistry!ValuesStay, TheRegistry!PropertyIds, Registry!PropertyIds
<1>2. \A id \in MortgageIds :
        /\ mortgages[id].property_id \in Registry!PropertyIds
        /\ properties'[mortgages[id].property_id].usdc_value > 0
  BY <1>1, LoanTypes DEF HomesInv, Valued
<1>3. CASE \E id \in MortgageIds : AdvancesOne(id)
  BY <1>2, <1>3 DEF AdvancesOne, Advanced, MovedFor, Valued
<1>4. CASE UNCHANGED <<mortgages, next_id>>
  BY <1>2, <1>4 DEF Valued, MortgageIds
<1>5. ASSUME NEW p \in Registry!PropertyIds, NEW f \in Facilities,
             f.principal > 0, WithinLtv(f.principal, p),
             mortgages' = Put(mortgages, next_id,
                              Application(p, f.principal, f.term_months, f.rate_bps))
      PROVE  Valued'
  <2> DEFINE m == Application(p, f.principal, f.term_months, f.rate_bps)
             value == properties[p].usdc_value
  <2>1. value > 0
    <3>1. value \in Nat
      BY RegistryRecords DEF HomesInv, HomesTypeOK, Registry!Property
    <3>2. f.principal \in Int /\ MAX_LTV_BPS \in Nat /\ BPS_DENOMINATOR \in Nat \ {0}
      BY StellarHomesAssumption, MortgagePoolAssumption, MortgageLoanAssumption
    <3>3. f.principal * BPS_DENOMINATOR <= value * MAX_LTV_BPS
      BY <1>5 DEF WithinLtv
    <3>4. f.principal * BPS_DENOMINATOR > 0
      BY <1>5, <3>2
    <3>5. value = 0 => value * MAX_LTV_BPS = 0
      BY <3>2
    <3> HIDE DEF value
    <3> QED
      BY <3>1, <3>2, <3>3, <3>4, <3>5
  <2>2. properties'[p].usdc_value > 0
    BY <1>1, <2>1
  <2>3. m.property_id = p
    BY DEF Application
  <2>4. /\ MortgageIds' = MortgageIds \cup {next_id}
        /\ \A j \in MortgageIds : mortgages'[j] = mortgages[j]
        /\ mortgages'[next_id] = m
    BY <1>5, ApplicationFiled
  <2> HIDE DEF m
  <2> QED
    BY <1>2, <2>2, <2>3, <2>4 DEF Valued
<1>6. ASSUME NEW id \in MortgageIds, mortgages' = Remove(mortgages, id)
      PROVE  Valued'
  BY <1>2, <1>6, ApplicationDeclined DEF Valued
<1> QED
  BY <1>3, <1>4, <1>5, <1>6, LoansSteps DEF LoansStep

\* The invariants of the loans and of the registry, taken together, justify
\* every draw.
LEMMA DrawsAreJustified ==
  ASSUME HomesInv, TheRegistry!RegistryInv, Valued, DrawnByStage
  PROVE  EveryDrawIsJustified
<1>1. SUFFICES ASSUME NEW id \in MortgageIds, NEW m, m = mortgages[id], NEW house,
                      house = properties[m.property_id],
                      NEW drawn, drawn = StagesReleased(m.property_id)
               PROVE  /\ id \in Opened => m.disbursed = Total([s \in drawn |-> TrancheFor(m, s)])
                      /\ id \notin Opened => m.disbursed = 0 /\ drawn = {}
                      /\ \A stage \in drawn : \A below \in 0..stage :
                           LET signed == milestones[m.property_id][below]
                           IN  /\ signed.verified /\ signed.evidence_hash # NoEvidence
                               /\ signed.verified_by \notin {Nobody, house.trustee}
                      /\ house.verified_by \notin {Nobody, house.trustee}
                      /\ house.usdc_value > 0
                      /\ house.valued_by \notin {Nobody, house.trustee}
  BY DEF EveryDrawIsJustified
<1>2. /\ m.property_id \in Registry!PropertyIds /\ m \in Mortgage
      /\ LoanOK(m, house.status, drawn)
  BY <1>1, LoanTypes DEF HomesInv
<1>3. /\ Registry!SignedOffInBuildOrder /\ Registry!ReleasesAreJustified
      /\ Registry!LendingTermsAreIndependent
  BY SameRegistry
<1>4. /\ house.usdc_value > 0
      /\ house.verified_by \notin {Nobody, house.trustee}
      /\ house.valued_by \notin {Nobody, house.trustee}
  BY <1>1, <1>2, <1>3 DEF Valued, Registry!LendingTermsAreIndependent
<1>5. ASSUME NEW stage \in drawn, NEW below \in 0..stage
      PROVE  LET signed == milestones[m.property_id][below]
             IN  /\ signed.verified /\ signed.evidence_hash # NoEvidence
                 /\ signed.verified_by \notin {Nobody, house.trustee}
  <2>1. stage \in Registry!Stages /\ milestones[m.property_id][stage].verified
    BY <1>1, <1>2, <1>3, <1>5 DEF StagesReleased, Registry!ReleasesAreJustified
  <2>2. below \in Registry!Stages
    BY <2>1, MortgageLoanAssumption DEF Registry!Stages
  <2>3. milestones[m.property_id][below].verified
    BY <1>2, <1>3, <2>1 DEF Registry!SignedOffInBuildOrder
  <2> QED
    BY <1>1, <1>2, <1>3, <2>2, <2>3 DEF Registry!ReleasesAreJustified
<1>6. id \in Opened => m.disbursed = Total([s \in drawn |-> TrancheFor(m, s)])
  BY <1>1 DEF DrawnByStage
<1>7. id \notin Opened => m.disbursed = 0 /\ drawn = {}
  <2>1. id \notin Opened => m.status \in Signing
    BY <1>1, <1>2 DEF Opened, LoansWith, Signing, Mortgage, MortgageStatus
  <2> QED
    BY <1>2, <2>1 DEF LoanOK
<1> QED
  BY <1>4, <1>5, <1>6, <1>7

\* No money leaves the pool for a house but on what others vouched for.
THEOREM EveryDrawIsJustifiedAlways == Spec => []EveryDrawIsJustified
<1>1. Init => Valued
  BY DEF Init, MortgageInit, MortgageIds, Valued
<1>2. HomesInv /\ TheRegistry!RegistryInv /\ Valued /\ [Next]_vars =>
        TheRegistry!RegistryInv' /\ Valued'
  BY RegistryKept, ValuedKept
<1>3. HomesInv /\ TheRegistry!RegistryInv /\ Valued /\ DrawnByStage => EveryDrawIsJustified
  BY DrawsAreJustified
<1> QED
  BY <1>1, <1>2, <1>3, RegistryBegins, HomesInvariant, DrawnByStageAlways, PTL DEF Spec

-----------------------------------------------------------------------------
(* What becomes of a signed-off stage.                                     *)

\* A stage of a loan is signed off and not paid for yet.
Waiting(id, stage) ==
  /\ HasStatus(id, {"Approved", "Funded"})
  /\ Registry!IsReleasable(mortgages[id].property_id, stage)
  /\ TrancheFor(mortgages[id], stage) > 0

\* Its whole tranche is paid out to the loan against it.
PaidFor(id, stage) ==
  /\ milestones'[mortgages[id].property_id][stage].released
  /\ HasStatus(id, {"Funded"})'
  /\ mortgages'[id].disbursed = mortgages[id].disbursed + TrancheFor(mortgages[id], stage)

\* A builder whose stage is signed off does not lose the claim on its tranche:
\* nobody, by whatever mix of withdrawals, role changes, new evidence, other
\* loans or other draws, takes the signature back, releases the stage for less
\* than its tranche or to another loan, or withdraws the facility.  Only the
\* draw itself, the borrower's own payments and a default end the wait.
SignedStagesWait ==
  [][\A id \in MortgageIds : \A stage \in Registry!Stages :
       Waiting(id, stage) =>
         \/ Waiting(id, stage)'
         \/ PaidFor(id, stage)
         \/ HasStatus(id, {"Repaying", "PaidOff", "Defaulted"})']_vars

\* A draw releases its own stage alone, for the whole tranche.
LEMMA DrawReleases ==
  ASSUME HomesInv, NEW id \in MortgageIds, NEW stage \in Registry!Stages, Disburse(id, stage),
         UNCHANGED <<trustees, oracles>>
  PROVE  /\ PaidFor(id, stage)
         /\ \A p \in Registry!PropertyIds : \A other \in StagesReleased(p)' \ StagesReleased(p) :
              p = mortgages[id].property_id /\ other = stage
<1> PICK p : p = mortgages[id].property_id
  OBVIOUS
<1> DEFINE old == mortgages[id]
           m == Accrue(old, now)
           tranche == TrancheFor(old, stage)
           new == AfterDraw(m, tranche, now)
<1>1. /\ old \in Mortgage /\ p \in Registry!PropertyIds /\ now \in Nat
      /\ LoanOK(old, properties[p].status, StagesReleased(p)) /\ Registry!RegistryTypeOK
  BY LoanTypes DEF HomesInv, HomesTypeOK
<1>2. /\ old.status \in {"Approved", "Funded"} /\ tranche > 0
      /\ Registry!MarkReleased(p, stage) /\ mortgages' = Put(mortgages, id, new)
      /\ Registry!Transition(p, "Mortgaged") \/ UNCHANGED properties
  BY DEF Disburse, HasStatus, Registry!MarkMortgaged, Save
<1>3. tranche \in Nat
  BY <1>1, <1>2, TrancheIsInt
<1>4. /\ m \in Mortgage /\ m.disbursed = old.disbursed /\ m.status = old.status
  BY <1>1, AccrueKeeps
<1> HIDE DEF tranche, m
<1>5. new.status = "Funded" /\ new.disbursed = old.disbursed + tranche
  <2>1. DrawnFrom(new, m, tranche, now)
    BY <1>1, <1>3, <1>4, DrawResult
  <2>2. old.status = "Approved" => old.disbursed = 0
    BY <1>1 DEF LoanOK, Signing
  <2> HIDE DEF new
  <2> QED
    BY <1>2, <1>4, <2>1, <2>2 DEF DrawnFrom, IsFirstDraw
<1> HIDE DEF new
<1>6. MovedFor(id) /\ mortgages'[id] = new
  BY <1>2, EntryWritten
<1>7. properties' \in Seq(Registry!Property) /\ Len(properties') = Len(properties)
  <2>1. CASE Registry!Transition(p, "Mortgaged")
    BY <1>1, <2>1, TransitionResult DEF Registry!PropertyStatus
  <2>2. CASE UNCHANGED properties
    BY <1>1, <2>2 DEF Registry!RegistryTypeOK
  <2> QED
    BY <1>2, <2>1, <2>2
<1>8. /\ \A q \in Registry!PropertyIds \ {p} : StagesReleased(q)' = StagesReleased(q)
      /\ StagesReleased(p)' = StagesReleased(p) \cup {stage}
  BY <1>1, <1>2, <1>7, ReleaseResult
<1>9. PaidFor(id, stage)
  BY <1>5, <1>6, <1>8 DEF PaidFor, HasStatus, MovedFor, tranche, StagesReleased
<1> QED
  BY <1>8, <1>9

\* Nothing but a draw releases a stage.
LEMMA OnlyDrawsRelease ==
  ASSUME HomesInv, [Next]_vars, ~DisburseTx, NEW p \in Registry!PropertyIds
  PROVE  StagesReleased(p)' = StagesReleased(p)
<1>1. Registry!RegistryTypeOK
  BY DEF HomesInv, HomesTypeOK
<1>2. CASE UNCHANGED milestones
  BY <1>2 DEF StagesReleased, Registry!Stages
<1>3. CASE SubmitTx \/ EvidenceTx \/ OracleTx \/ RolesTx
  BY <1>1, <1>3, RegistryIsQuiet DEF SubmitTx, EvidenceTx, OracleTx, RolesTx, QuietRegistry
<1>4. CASE \/ DepositTx \/ WithdrawTx \/ ClaimTx \/ ApplyTx \/ ApproveTx \/ DeclineTx
           \/ RepayTx \/ MarkDefaultTx \/ GovernanceTx \/ Tick \/ UNCHANGED vars
  BY <1>2, <1>4 DEF DepositTx, WithdrawTx, ClaimTx, ApplyTx, ApproveTx, DeclineTx, RepayTx,
                    RepayLoan, MarkDefaultTx, MarkDefaultLoan, GovernanceTx, Tick, vars,
                    registryVars
<1> QED
  BY <1>3, <1>4 DEF Next

\* The wait of one stage through one transaction.
LEMMA StageWaits ==
  ASSUME HomesInv, TheRegistry!RegistryInv, [Next]_vars,
         NEW id \in MortgageIds, NEW stage \in Registry!Stages, Waiting(id, stage)
  PROVE  \/ Waiting(id, stage)'
         \/ PaidFor(id, stage)
         \/ HasStatus(id, {"Repaying", "PaidOff", "Defaulted"})'
<1> DEFINE old == mortgages[id]
<1> PICK p : p = old.property_id
  OBVIOUS
<1>1. /\ old.status \in {"Approved", "Funded"} /\ TrancheFor(old, stage) > 0
      /\ milestones[p][stage].verified /\ stage \notin StagesReleased(p)
  BY DEF Waiting, HasStatus, Registry!IsReleasable, StagesReleased
<1>2. p \in Registry!PropertyIds
  BY LoanTypes DEF HomesInv
<1>3. milestones'[p][stage].verified
  <2>1. TheRegistry!Kept(p, stage)
    BY <1>2, RegistryKept DEF TheRegistry!PropertyIds, Registry!PropertyIds,
                              TheRegistry!Stages, Registry!Stages
  <2> QED
    BY <1>1, <2>1 DEF TheRegistry!Kept
<1>4. /\ id \in MortgageIds'
      /\ mortgages'[id] = old \/ Advanced(old, mortgages'[id], now)
  BY <1>1, LoansForward DEF AllAdvance
<1>5. /\ mortgages'[id].property_id = p
      /\ TrancheFor(mortgages'[id], stage) = TrancheFor(old, stage)
      /\ mortgages'[id].status \in {"Approved", "Funded", "Repaying", "PaidOff", "Defaulted"}
  <2>1. mortgages'[id].property_id = p /\ mortgages'[id].principal = old.principal
    BY <1>4 DEF Advanced
  <2>2. mortgages'[id].status \in {"Approved", "Funded", "Repaying", "PaidOff", "Defaulted"}
    BY <1>1, <1>4 DEF Advanced, StatusSteps
  <2> QED
    BY <2>1, <2>2 DEF TrancheFor
<1>6. stage \notin StagesReleased(p)' \/ PaidFor(id, stage)
  <2>1. CASE ~DisburseTx
    BY <1>1, <1>2, <2>1, OnlyDrawsRelease
  <2>2. CASE DisburseTx
    <3>1. PICK drawn \in MortgageIds, released \in Registry!Stages :
                 Disburse(drawn, released) /\ UNCHANGED <<trustees, oracles>>
      BY <2>2 DEF DisburseTx, DisburseLoan
    <3>2. /\ PaidFor(drawn, released)
          /\ stage \in StagesReleased(p)' =>
               p = mortgages[drawn].property_id /\ stage = released
      BY <1>1, <1>2, <3>1, DrawReleases
    <3>3. p = mortgages[drawn].property_id => drawn = id
      BY DEF HomesInv, LoansInv
    <3> QED
      BY <3>2, <3>3
  <2> QED
    BY <2>1, <2>2
<1>7. stage \notin StagesReleased(p)' => ~milestones'[p][stage].released
  BY DEF StagesReleased, Registry!Stages
<1> QED
  BY <1>1, <1>3, <1>4, <1>5, <1>6, <1>7 DEF Waiting, HasStatus, Registry!IsReleasable

\* A signed-off stage waits for its draw.
THEOREM SignedStagesWaitAlways == Spec => SignedStagesWait
<1> DEFINE Waits ==
      \A id \in MortgageIds : \A stage \in Registry!Stages :
        Waiting(id, stage) =>
          \/ Waiting(id, stage)'
          \/ PaidFor(id, stage)
          \/ HasStatus(id, {"Repaying", "PaidOff", "Defaulted"})'
<1>1. HomesInv /\ TheRegistry!RegistryInv /\ [Next]_vars => Waits
  BY StageWaits
<1>2. HomesInv /\ TheRegistry!RegistryInv /\ [Next]_vars => TheRegistry!RegistryInv'
  BY RegistryKept
<1>3. Spec => [][Waits]_vars
  BY <1>1, <1>2, RegistryBegins, HomesInvariant, PTL DEF Spec
<1> QED
  BY <1>3 DEF SignedStagesWait

-----------------------------------------------------------------------------
(* What can be done.                                                       *)
(*                                                                         *)
(* That an action is ENABLED is out of the provers' reach.  What is proved *)
(* instead, of every state that satisfies the invariants, is that the      *)
(* action comes down to an assignment of a value to each variable it       *)
(* writes: every guard on its way, in all three contracts, holds.          *)

\* What settling a loan in full writes.
Settled(id) ==
  LET m == Accrue(mortgages[id], now)
      p == m.property_id
  IN  /\ mortgages' = Put(mortgages, id, [AfterPayment(m, Payoff(m)) EXCEPT !.status = "PaidOff"])
      /\ property_mortgage' = Remove(property_mortgage, p)
      /\ next_id' = next_id
      /\ properties' = [properties EXCEPT ![p].status = "Repaid"]
      /\ total_reserved' = total_reserved - Undrawn(m)
      /\ usdc' = usdc + (m.outstanding + m.interest_accrued)
      /\ total_capital' = total_capital + m.outstanding
      /\ total_lent' = total_lent - m.outstanding
      /\ total_interest' = total_interest + m.interest_accrued
      /\ Pool!AccrueInterest(m.interest_accrued)

\* What writing a loan off writes.
WrittenOff(id) ==
  LET m == Accrue(mortgages[id], now)
      p == m.property_id
  IN  /\ mortgages' = Put(mortgages, id, [m EXCEPT !.status = "Defaulted"])
      /\ property_mortgage' = Remove(property_mortgage, p)
      /\ next_id' = next_id
      /\ properties' = [properties EXCEPT ![p].status = "Defaulted"]
      /\ total_reserved' = total_reserved - Undrawn(m)
      /\ total_lent' = total_lent - m.outstanding
      /\ total_written_off' = total_written_off + m.outstanding

\* What drawing the tranche of a stage writes.
DrawnFor(id, stage) ==
  LET p       == mortgages[id].property_id
      tranche == TrancheFor(mortgages[id], stage)
      m       == Accrue(mortgages[id], now)
  IN  /\ mortgages' = Put(mortgages, id, AfterDraw(m, tranche, now))
      /\ property_mortgage' = property_mortgage
      /\ next_id' = next_id
      /\ milestones' = [milestones EXCEPT ![p][stage].released = TRUE]
      /\ properties' = IF IsFirstDraw(m) THEN [properties EXCEPT ![p].status = "Mortgaged"]
                                         ELSE properties
      /\ total_reserved' = total_reserved - tranche
      /\ total_capital' = total_capital - tranche
      /\ total_lent' = total_lent + tranche
      /\ usdc' = usdc - tranche

\* A live loan owes principal, its property is financed, and what it has not
\* drawn is among what the pool has set aside.
LEMMA LiveLoan ==
  ASSUME HomesInv, NEW id \in Live, NEW old, old = mortgages[id], NEW m, m = Accrue(old, now)
  PROVE  /\ id \in MortgageIds /\ old \in Mortgage /\ m \in Mortgage
         /\ HasStatus(id, {"Funded", "Repaying"})
         /\ properties[m.property_id].status = "Mortgaged"
         /\ m.outstanding \in Nat /\ m.outstanding > 0 /\ m.interest_accrued \in Nat
         /\ Undrawn(m) \in Nat /\ Undrawn(m) <= total_reserved
         /\ total_shares > 0
         /\ total_capital \in Nat /\ total_reserved \in Nat /\ total_lent \in Nat
         /\ total_written_off \in Nat
<1>1. /\ HomesTypeOK /\ LoansInv /\ BooksInv /\ now \in Nat
  BY DEF HomesInv, HomesTypeOK
<1>2. id \in MortgageIds /\ old.status \in Running
  BY DEF Live, LoansWith, Running
<1>3. /\ old \in Mortgage
      /\ LoanOK(old, properties[old.property_id].status, StagesReleased(old.property_id))
  BY <1>1, <1>2, LoanTypes
<1>4. /\ m \in Mortgage /\ m.property_id = old.property_id /\ m.outstanding = old.outstanding
      /\ m.principal = old.principal /\ m.disbursed = old.disbursed
  BY <1>1, <1>3, AccrueKeeps
<1>5. /\ properties[m.property_id].status = "Mortgaged" /\ m.outstanding > 0
  BY <1>2, <1>3, <1>4 DEF LoanOK
<1>6. IsTable(mortgages)
  BY <1>1, LoansAreATable
<1>7. /\ In(mortgages, id) = old
      /\ Lent(In(mortgages, id)) <= LentIn(mortgages)
      /\ SetAside(In(mortgages, id)) <= UndrawnIn(mortgages)
  BY <1>2, <1>6, BooksOfOne DEF In, MortgageIds
<1>8. Lent(old) = old.outstanding /\ SetAside(old) = Undrawn(old)
  BY <1>2 DEF Lent, SetAside, Running, Drawing
<1>9. Undrawn(m) = Undrawn(old) /\ Undrawn(old) \in Nat
  <2>1. old.disbursed <= old.principal
    BY <1>2, <1>6 DEF IsTable, MortgageIds
  <2> QED
    BY <1>3, <1>4, <2>1 DEF Undrawn, Mortgage
<1>10. m.outstanding \in Nat /\ m.interest_accrued \in Nat
  BY <1>4 DEF Mortgage
<1>11. total_shares > 0
  BY <1>1, <1>4, <1>5, <1>7, <1>8, <1>10 DEF BooksInv
<1> QED
  BY <1>1, <1>2, <1>3, <1>4, <1>5, <1>7, <1>8, <1>9, <1>10, <1>11
     DEF BooksInv, HasStatus, Running

\* A borrower who owes money can settle: repay with the payoff is accepted, by
\* the pool and by the registry, in every reachable state.
THEOREM LoansCanBeSettled ==
  ASSUME HomesInv, NEW id \in Live
  PROVE  Repay(id, Payoff(Accrue(mortgages[id], now))) <=> Settled(id)
<1> DEFINE m == Accrue(mortgages[id], now)
           after == AfterPayment(m, Payoff(m))
<1>1. /\ m \in Mortgage /\ HasStatus(id, {"Funded", "Repaying"})
      /\ properties[m.property_id].status = "Mortgaged"
      /\ m.outstanding \in Nat /\ m.outstanding > 0 /\ m.interest_accrued \in Nat
      /\ Undrawn(m) \in Nat /\ Undrawn(m) <= total_reserved
      /\ total_shares > 0 /\ total_capital \in Nat /\ total_reserved \in Nat
  BY LiveLoan
<1> HIDE DEF m
<1>2. Payoff(m) = m.outstanding + m.interest_accrued /\ Payoff(m) \in Nat /\ Payoff(m) > 0
  BY <1>1 DEF Payoff
<1>3. /\ Smaller(Payoff(m), Payoff(m)) = Payoff(m)
      /\ IsEnough(m, Payoff(m))
      /\ InterestPart(m, Payoff(m)) = m.interest_accrued
      /\ PrincipalPart(m, Payoff(m)) = m.outstanding
  BY <1>1, <1>2 DEF Smaller, IsEnough, InterestPart, PrincipalPart
<1>4. /\ after.outstanding = 0 /\ after.interest_accrued = 0
      /\ after.principal = m.principal /\ after.disbursed = m.disbursed
  BY <1>1, <1>3 DEF AfterPayment, Mortgage
<1>5. IsCleared(after) /\ Undrawn(after) = Undrawn(m)
  BY <1>4 DEF IsCleared, Undrawn
<1> HIDE DEF after
<1>6. Pool!Repay(m.outstanding, m.interest_accrued) <=>
        /\ usdc' = usdc + (m.outstanding + m.interest_accrued)
        /\ total_capital' = total_capital + m.outstanding
        /\ total_lent' = total_lent - m.outstanding
        /\ total_interest' = total_interest + m.interest_accrued
        /\ Pool!AccrueInterest(m.interest_accrued)
  <2>1. Pool!BankedAsCapital(m.interest_accrued) = 0
    BY <1>1 DEF Pool!BankedAsCapital
  <2>2. total_capital + m.outstanding + 0 = total_capital + m.outstanding
    BY <1>1
  <2> QED
    BY <1>1, <2>1, <2>2 DEF Pool!Repay
<1>7. ReleaseUndrawn(after) <=> total_reserved' = total_reserved - Undrawn(m)
  BY <1>1, <1>5 DEF ReleaseUndrawn, Pool!Unreserve
<1>8. Registry!MarkRepaid(m.property_id) <=>
        properties' = [properties EXCEPT ![m.property_id].status = "Repaid"]
  BY <1>1 DEF Registry!MarkRepaid, Registry!Transition
<1>9. Repay(id, Payoff(m)) <=>
        /\ Pool!Repay(m.outstanding, m.interest_accrued)
        /\ ReleaseUndrawn(after)
        /\ ClearPropertyMortgage(m.property_id)
        /\ Registry!MarkRepaid(m.property_id)
        /\ Save(id, [after EXCEPT !.status = "PaidOff"])
        /\ UNCHANGED next_id
  BY <1>1, <1>2, <1>3, <1>5 DEF Repay, m, after
<1> QED
  BY <1>6, <1>7, <1>8, <1>9 DEF Settled, ClearPropertyMortgage, Save, m, after

\* Whoever finds a loan that is_defaultable reports can write it off.
THEOREM DefaultsCanBeMarked ==
  ASSUME HomesInv, NEW id \in Live, IsDefaultable(id)
  PROVE  MarkDefault(id) <=> WrittenOff(id)
<1> DEFINE m == Accrue(mortgages[id], now)
<1>1. /\ m \in Mortgage /\ HasStatus(id, {"Funded", "Repaying"})
      /\ properties[m.property_id].status = "Mortgaged"
      /\ m.outstanding \in Nat /\ m.outstanding > 0
      /\ Undrawn(m) \in Nat /\ Undrawn(m) <= total_reserved /\ total_reserved \in Nat
  BY LiveLoan
<1>2. IsInDefault(mortgages[id], now, grace_secs)
  BY DEF IsDefaultable
<1> HIDE DEF m
<1>3. ReleaseUndrawn(m) <=> total_reserved' = total_reserved - Undrawn(m)
  BY <1>1 DEF ReleaseUndrawn, Pool!Unreserve
<1>4. Pool!WriteOff(m.outstanding) <=>
        /\ total_lent' = total_lent - m.outstanding
        /\ total_written_off' = total_written_off + m.outstanding
  BY <1>1 DEF Pool!WriteOff
<1>5. Registry!MarkDefaulted(m.property_id) <=>
        properties' = [properties EXCEPT ![m.property_id].status = "Defaulted"]
  BY <1>1 DEF Registry!MarkDefaulted, Registry!Transition
<1>6. MarkDefault(id) <=>
        /\ ReleaseUndrawn(m)
        /\ Pool!WriteOff(m.outstanding)
        /\ ClearPropertyMortgage(m.property_id)
        /\ Registry!MarkDefaulted(m.property_id)
        /\ Save(id, [m EXCEPT !.status = "Defaulted"])
        /\ UNCHANGED next_id
  BY <1>1, <1>2 DEF MarkDefault, m
<1> QED
  BY <1>3, <1>4, <1>5, <1>6 DEF WrittenOff, ClearPropertyMortgage, Save, m

\* A stage signed off on a loan whose repayment has not begun can be drawn,
\* while the tokens cover what is set aside, as they do when they cover the
\* capital: its tranche is within what the loan has not drawn, which the pool
\* has set aside.
THEOREM SignedStagesCanBePaid ==
  ASSUME HomesInv, Pool!PoolTypeOK, total_reserved <= usdc,
         NEW id \in LoansWith({"Approved", "Funded"}), NEW stage \in Registry!Stages,
         Registry!IsReleasable(mortgages[id].property_id, stage),
         TrancheFor(mortgages[id], stage) > 0
  PROVE  Disburse(id, stage) <=> DrawnFor(id, stage)
<1> DEFINE old == mortgages[id]
           p == old.property_id
           tranche == TrancheFor(old, stage)
           m == Accrue(old, now)
           standing == properties[p].status
           released == StagesReleased(p)
<1>1. /\ HomesTypeOK /\ LoansInv /\ BooksInv /\ now \in Nat /\ usdc \in Nat
  BY DEF HomesInv, HomesTypeOK, Pool!PoolTypeOK
<1>2. id \in MortgageIds /\ old.status \in {"Approved", "Funded"}
      /\ HasStatus(id, {"Approved", "Funded"})
  BY DEF LoansWith, HasStatus
<1>3. old \in Mortgage /\ LoanOK(old, standing, released)
  BY <1>1, <1>2, LoanTypes
<1>4. stage \in (0..LastStage) \ released /\ released \in SUBSET (0..LastStage)
  BY ReleasedAreStages DEF Registry!IsReleasable, StagesReleased, Registry!Stages, LastStage
<1>5. milestones[p][stage].verified /\ ~milestones[p][stage].released /\ tranche > 0
  BY DEF Registry!IsReleasable
<1>6. IsTable(mortgages)
  BY <1>1, LoansAreATable
<1>7. In(mortgages, id) = old /\ SetAside(old) <= UndrawnIn(mortgages)
  BY <1>2, <1>6, BooksOfOne DEF In, MortgageIds
<1> HIDE DEF old, p, tranche, standing, released
<1>8. /\ HasDrawn(old, standing, released, stage, m, tranche, AfterDraw(m, tranche, now))
  <2>1. IsDraw(old, now, standing, released, stage, m, tranche, AfterDraw(m, tranche, now))
    BY <1>1, <1>2, <1>3, <1>4, <1>5 DEF IsDraw, tranche
  <2> HIDE DEF m
  <2> QED
    BY <2>1, DrawnLoan
<1> DEFINE new == AfterDraw(m, tranche, now)
<1> HIDE DEF m, new
<1>9. /\ tranche \in Nat /\ new \in Mortgage
      /\ new.principal = old.principal /\ new.disbursed = old.disbursed + tranche
      /\ IsFirstDraw(m) => standing = "Verified"
      /\ LoanOK(new, "Mortgaged", released \cup {stage})
  BY <1>2, <1>8 DEF HasDrawn, new
<1>10. new.disbursed <= new.principal
  <2>1. released \cup {stage} \in SUBSET (0..LastStage)
    BY <1>4
  <2> QED
    BY <1>9, <2>1, WithinFacility
<1>11. tranche <= Undrawn(old) /\ Undrawn(old) \in Int
  BY <1>3, <1>9, <1>10 DEF Undrawn, Mortgage
<1>12. tranche <= total_reserved /\ tranche <= usdc
  <2>1. SetAside(old) = Undrawn(old)
    BY <1>2 DEF SetAside, Drawing
  <2>2. total_reserved = UndrawnIn(mortgages) /\ total_reserved \in Nat
    BY <1>1 DEF BooksInv
  <2> QED
    BY <1>1, <1>7, <1>9, <1>11, <2>1, <2>2
<1>13. Pool!Disburse(tranche) <=>
        /\ total_reserved' = total_reserved - tranche
        /\ total_capital' = total_capital - tranche
        /\ total_lent' = total_lent + tranche
        /\ usdc' = usdc - tranche
  BY <1>5, <1>12 DEF Pool!Disburse
<1>14. Registry!MarkReleased(p, stage) <=>
         milestones' = [milestones EXCEPT ![p][stage].released = TRUE]
  BY <1>5 DEF Registry!MarkReleased
<1>15. IsFirstDraw(m) => (Registry!MarkMortgaged(p) <=>
         properties' = [properties EXCEPT ![p].status = "Mortgaged"])
  BY <1>9 DEF Registry!MarkMortgaged, Registry!Transition, standing
<1>16. Disburse(id, stage) <=>
         /\ Registry!MarkReleased(p, stage)
         /\ Pool!Disburse(tranche)
         /\ IF IsFirstDraw(m) THEN Registry!MarkMortgaged(p) ELSE UNCHANGED properties
         /\ Save(id, new)
         /\ UNCHANGED <<property_mortgage, next_id>>
  BY <1>2, <1>5 DEF Disburse, p, tranche, m, new, old
<1> QED
  BY <1>13, <1>14, <1>15, <1>16 DEF DrawnFor, Save, p, tranche, m, new, old

-----------------------------------------------------------------------------
(* What rounding costs among the loans.                                    *)
(*                                                                         *)
(* LendingPoolProofs defines Surplus: what the investors' positions and    *)
(* the carried remainder stand for, in units of 1/SCALE, beyond the tokens *)
(* that are not capital.                                                   *)

\* No transaction but an investor's deposit or withdrawal moves the surplus:
\* what a draw takes from the capital it takes from the tokens, and a payment
\* is shared out to the last unit, its remainder carried.
LEMMA OthersRoundNothing ==
  ASSUME HomesInv, ThePool!PoolInv, [Next]_vars, ~(DepositTx \/ WithdrawTx \/ ClaimTx)
  PROVE  ThePool!Surplus' = ThePool!Surplus /\ total_shares' = total_shares
<1>1. /\ HomesTypeOK /\ LoansInv /\ now \in Nat /\ usdc \in Nat /\ total_capital \in Nat
  BY DEF HomesInv, HomesTypeOK, ThePool!PoolInv, ThePool!PoolTypeOK
<1>2. UNCHANGED <<positions, total_shares>>
  BY SamePool, OthersMoveNoPosition DEF MovesNoPosition
<1>3. ASSUME NEW id \in MortgageIds, DisburseLoan(id)
      PROVE  ThePool!Surplus' = ThePool!Surplus
  <2>1. PICK stage \in Registry!Stages : Disburse(id, stage)
    BY <1>3 DEF DisburseLoan
  <2> DEFINE tranche == TrancheFor(mortgages[id], stage)
  <2>2. tranche \in Int
    BY <1>1, LoanTypes, TrancheIsInt
  <2>3. usdc' = usdc - tranche /\ total_capital' = total_capital - tranche
    BY <2>1 DEF Disburse, Pool!Disburse
  <2>4. UNCHANGED <<acc, carry>>
    BY <1>3 DEF DisburseLoan
  <2> HIDE DEF tranche
  <2>5. usdc' - total_capital' = usdc - total_capital
    BY <1>1, <2>2, <2>3
  <2> QED
    BY <1>2, <2>4, <2>5, ThePoolIsAssumed, ThePool!PrincipalRoundsNothing
<1>4. ASSUME NEW id \in MortgageIds, RepayLoan(id)
      PROVE  ThePool!Surplus' = ThePool!Surplus
  <2>1. PICK amount \in Payments : Repay(id, amount)
    BY <1>4 DEF RepayLoan
  <2> DEFINE m == Accrue(mortgages[id], now)
             pay == Smaller(amount, Payoff(m))
             principal == PrincipalPart(m, pay)
             interest == InterestPart(m, pay)
  <2>2. amount \in Nat /\ amount > 0 /\ IsEnough(m, amount) /\ Pool!Repay(principal, interest)
    BY <2>1, StellarHomesAssumption DEF Repay
  <2>3. m \in Mortgage
    BY <1>1, LoanTypes, AccrueKeeps
  <2> HIDE DEF m
  <2>4. PaidFrom(AfterPayment(m, pay), m) /\ interest = m.interest_accrued
        /\ principal = m.outstanding - AfterPayment(m, pay).outstanding
    BY <2>2, <2>3, PaymentResult
  <2>5. principal \in Nat /\ interest \in Nat
    BY <2>3, <2>4 DEF PaidFrom, Mortgage
  <2> HIDE DEF pay, principal, interest
  <2>6. ThePool!Repay(principal, interest)
    BY <2>2 DEF Pool!Repay, Pool!AccrueInterest, Pool!BankedAsCapital, ThePool!Repay,
                ThePool!AccrueInterest, ThePool!BankedAsCapital
  <2> QED
    BY <1>2, <2>5, <2>6, ThePoolIsAssumed, ThePool!RepayRoundsNothing
<1>5. ASSUME UNCHANGED <<positions, total_capital, usdc, acc, carry>>
      PROVE  ThePool!Surplus' = ThePool!Surplus
  BY <1>5, ThePoolIsAssumed, ThePool!PrincipalRoundsNothing
<1>6. CASE MarkDefaultTx \/ ApproveTx
  BY <1>2, <1>5, <1>6 DEF MarkDefaultTx, MarkDefaultLoan, ApproveTx
<1>7. CASE \/ SubmitTx \/ EvidenceTx \/ OracleTx \/ RolesTx \/ ApplyTx \/ DeclineTx
           \/ GovernanceTx \/ Tick \/ UNCHANGED vars
  BY <1>2, <1>5, <1>7 DEF SubmitTx, EvidenceTx, OracleTx, RolesTx, ApplyTx, DeclineTx,
                          GovernanceTx, Tick, poolVars, vars
<1> QED
  BY <1>2, <1>3, <1>4, <1>6, <1>7 DEF Next, DisburseTx, RepayTx

\* Every transaction rounds nothing, or changes the shares and rounds by less
\* than a unit.
LEMMA SystemRounding ==
  ASSUME HomesInv, ThePool!PoolInv, [Next]_vars
  PROVE  ThePool!RoundsOnShareChange
<1>1. CASE DepositTx \/ WithdrawTx \/ ClaimTx
  <2>1. ThePool!PoolNext
    BY <1>1, SameInvestorSteps DEF DepositTx, WithdrawTx, ClaimTx
  <2> QED
    BY <2>1, PoolKept, ThePoolIsAssumed, ThePool!RoundingStep
<1>2. CASE ~(DepositTx \/ WithdrawTx \/ ClaimTx)
  BY <1>2, OthersRoundNothing DEF ThePool!RoundsOnShareChange
<1> QED
  BY <1>1, <1>2

\* The books of interest are exact but for deposits and withdrawals: approvals,
\* draws, payments, payoffs, defaults and claims, in any number, move the sum
\* of what investors stand to get and the tokens behind it alike, and a change
\* of shares moves them apart by less than one unit (settle and reset_debt).
THEOREM OnlyShareChangesRound ==
  Spec => [][\/ ThePool!Surplus' = ThePool!Surplus
             \/ /\ total_shares' # total_shares
                /\ ThePool!Surplus' - ThePool!Surplus <= SCALE - 1
                /\ -(SCALE - 1) <= ThePool!Surplus' - ThePool!Surplus]_vars
<1> DEFINE Rounds == \/ ThePool!Surplus' = ThePool!Surplus
                     \/ /\ total_shares' # total_shares
                        /\ ThePool!Surplus' - ThePool!Surplus <= SCALE - 1
                        /\ -(SCALE - 1) <= ThePool!Surplus' - ThePool!Surplus
<1>1. HomesInv /\ ThePool!PoolInv /\ [Next]_vars => Rounds
  BY SystemRounding DEF ThePool!RoundsOnShareChange
<1>2. HomesInv /\ ThePool!PoolInv /\ [Next]_vars => ThePool!PoolInv'
  BY PoolKept
<1>3. Spec => [][Rounds]_vars
  BY <1>1, <1>2, PoolBegins, HomesInvariant, PTL DEF Spec
<1> QED
  BY <1>3

\* How often some investor's shares changed, for an observer of the system.
VARIABLE share_changes

WatchedSpec ==
  /\ Init /\ share_changes = 0
  /\ [][/\ [Next]_vars
        /\ share_changes' = IF total_shares' = total_shares THEN share_changes
                                                            ELSE share_changes + 1]_<<vars, share_changes>>

\* "so truncation never compounds" (accrue_interest): whatever the three
\* contracts do, the tokens the pool holds fall short of its capital and of all
\* that investors could claim by no more than one unit for every deposit and
\* withdrawal there ever was, however many loans, payments, claims and
\* defaults went through it.  So a pool with that many units of uncommitted
\* capital has the tokens for every draw still to come.
THEOREM ShortfallIsBoundedAmongLoans ==
  WatchedSpec => [](/\ total_capital + Pool!TotalClaimable <= usdc + share_changes
                    /\ total_reserved + share_changes <= total_capital => total_reserved <= usdc)
<1> DEFINE Bound == share_changes \in Nat /\ ThePool!Surplus <= share_changes * (SCALE - 1)
           Step == /\ [Next]_vars
                   /\ share_changes' = IF total_shares' = total_shares THEN share_changes
                                                                       ELSE share_changes + 1
           Inv == HomesInv /\ ThePool!PoolInv
           Whole == ThePool!Surplus \in Int
           Short == /\ total_capital + Pool!TotalClaimable <= usdc + share_changes
                    /\ total_reserved + share_changes <= total_capital => total_reserved <= usdc
<1>1. SCALE \in Nat \ {0}
  BY ThePoolIsAssumed
<1>2. Init /\ share_changes = 0 => Inv /\ Bound
  <2>1. Init => ThePool!PoolInit
    BY DEF Init, Pool!PoolInit, Pool!NoPosition, ThePool!PoolInit, ThePool!NoPosition
  <2>2. Init => ThePool!Surplus = 0
    BY <2>1, ThePoolIsAssumed, ThePool!SurplusInit
  <2> QED
    BY <1>1, <2>2, HomesInit, PoolBegins
<1>3. Inv => Whole
  BY ThePoolIsAssumed, ThePool!SurplusIsInt
<1>4. Inv /\ [Next]_vars => Inv'
  BY HomesNext, PoolKept
<1>5. ASSUME Inv, Whole, Bound, Step, Whole' PROVE Bound'
  <2>1. ThePool!RoundsOnShareChange
    BY <1>5, SystemRounding
  <2> DEFINE s == ThePool!Surplus
             t == ThePool!Surplus'
             n == share_changes * (SCALE - 1)
  <2>2. /\ share_changes \in Nat /\ s \in Int /\ t \in Int /\ s <= n /\ n \in Int
    BY <1>1, <1>5
  <2>3. (share_changes + 1) * (SCALE - 1) = n + (SCALE - 1)
    BY <1>1, <2>2
  <2>4. CASE total_shares' = total_shares
    BY <1>5, <2>1, <2>4 DEF ThePool!RoundsOnShareChange
  <2>5. CASE total_shares' # total_shares
    <3>1. share_changes' = share_changes + 1
      BY <1>5, <2>5
    <3>2. t = s \/ t - s <= SCALE - 1
      BY <2>1 DEF ThePool!RoundsOnShareChange
    <3> HIDE DEF s, t, n
    <3>3. t <= n + (SCALE - 1)
      BY <1>1, <2>2, <3>2
    <3>4. share_changes' * (SCALE - 1) = n + (SCALE - 1) /\ share_changes' \in Nat
      BY <2>2, <2>3, <3>1
    <3> QED
      BY <3>3, <3>4 DEF t
  <2> QED
    BY <2>4, <2>5
<1>6. Inv /\ Bound /\ UNCHANGED <<vars, share_changes>> => Step
  BY DEF vars, poolVars
<1>7. Inv /\ Bound => Short
  <2>1. Pool!TotalClaimable = ThePool!TotalClaimable
    BY DEF Pool!TotalClaimable, Pool!ClaimableInterest, Pool!Settle, Pool!Entitled,
           Pool!Total, Pool!Units, Pool!Cardinality, ThePool!TotalClaimable,
           ThePool!ClaimableInterest, ThePool!Settle, ThePool!Entitled, ThePool!Total,
           ThePool!Units, ThePool!Cardinality
  <2>2. Inv /\ Bound => /\ ThePool!TotalClaimable \in Nat
                         /\ total_capital + ThePool!TotalClaimable <= usdc + share_changes
    BY ThePoolIsAssumed, ThePool!SurplusCoversShortfall
  <2>3. Inv => total_capital \in Nat /\ total_reserved \in Nat /\ usdc \in Nat
    BY DEF HomesInv, BooksInv, ThePool!PoolInv, ThePool!PoolTypeOK
  <2> QED
    BY <2>1, <2>2, <2>3
<1>8. Inv /\ Whole /\ Bound /\ Whole' /\ [Step]_<<vars, share_changes>> => Bound'
  BY <1>5, <1>6
<1>9. Inv /\ [Step]_<<vars, share_changes>> => Inv'
  BY <1>4 DEF vars
<1> QED
  BY <1>2, <1>3, <1>7, <1>8, <1>9, PTL DEF WatchedSpec

=============================================================================
