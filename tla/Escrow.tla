------------------------------ MODULE Escrow -------------------------------
(***************************************************************************)
(* What the LendingPool and the MortgagePool promise together about        *)
(* principal, with nothing of how they keep it.                            *)
(*                                                                         *)
(* Capital is free until it is committed to a facility.  From then on it   *)
(* belongs to that facility alone: it is undrawn or out with the borrower, *)
(* until the borrower has returned everything, which frees whatever was    *)
(* not drawn, or the loan is lost.  Interest is no part of it: what is     *)
(* free is never made of it.                                               *)
(***************************************************************************)
EXTENDS Integers

CONSTANT Loans   \* names of facilities, each used once

VARIABLES
  free,       \* capital nobody has been promised
  facility    \* [undrawn, out, lost] of each loan

escrowVars == <<free, facility>>

NoFacility == [undrawn |-> 0, out |-> 0, lost |-> 0]

EscrowInit ==
  /\ free = 0
  /\ facility = [id \in Loans |-> NoFacility]

\* An investor brings capital.
Fund ==
  /\ free' > free
  /\ UNCHANGED facility

\* An investor takes out what is free, at most.
TakeOut ==
  /\ free' \in 0..(free - 1)
  /\ UNCHANGED facility

\* Capital that is free, and some of it, is set aside for a loan.
Commit(id) ==
  /\ facility[id] = NoFacility
  /\ free' \in 0..(free - 1)
  /\ facility' = [facility EXCEPT ![id].undrawn = free - free']

\* A tranche leaves for the site, out of the loan's own facility.
DrawDown(id) ==
  \E amount \in 1..facility[id].undrawn :
    /\ facility' = [facility EXCEPT ![id].undrawn = @ - amount, ![id].out = @ + amount]
    /\ UNCHANGED free

\* Principal comes back and is free; a payment may also be interest only.
PayBack(id) ==
  \E amount \in 0..(facility[id].out - 1) :
    /\ facility' = [facility EXCEPT ![id].out = @ - amount]
    /\ free' = free + amount

\* The last of the principal comes back, and with it what was never drawn.
Close(id) ==
  /\ facility[id].out > 0
  /\ facility' = [facility EXCEPT ![id] = NoFacility]
  /\ free' = free + facility[id].out + facility[id].undrawn

\* The loan goes bad: what is out is lost, the rest is free again.
Lose(id) ==
  /\ facility[id].out > 0
  /\ facility' = [facility EXCEPT ![id] = [NoFacility EXCEPT !.lost = facility[id].out]]
  /\ free' = free + facility[id].undrawn

EscrowNext ==
  \/ Fund
  \/ TakeOut
  \/ \E id \in Loans : Commit(id) \/ DrawDown(id) \/ PayBack(id) \/ Close(id) \/ Lose(id)

EscrowSpec == EscrowInit /\ [][EscrowNext]_escrowVars

=============================================================================
