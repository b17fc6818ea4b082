# Stellar Homes: the verification project

TLA+ models of the three Soroban contracts under `contracts/`, the TLC runs that
check them on small instances, and the theorems about them that TLAPS proves for
every instance. Every definition is translated from the Rust source; where a
document or a comment says something else, a run shows the difference.

## 1. The system

Three contracts call each other in one direction only, so nothing re-enters:

    investor ──▶ LendingPool ◀── MortgagePool ──▶ PropertyRegistry ◀── trustee, oracle
                                     ▲
                     borrower, underwriter, anybody

| Component | State it keeps | Operations | What makes it correct |
|---|---|---|---|
| `lending_pool` | one `Position` (shares, reward debt, credited) per investor; capital, reserved, lent, interest, written off, shares; the accumulator `Acc` and `Carry`; the settlement tokens | `deposit`, `withdraw`, `claim_interest`; for the MortgagePool `reserve`, `unreserve`, `disburse`, `repay`, `write_off` | committed capital cannot be withdrawn; interest is shared pro rata among the shares at the time of a payment, whatever the order of deposits, withdrawals and claims; the books match the tokens |
| `mortgage_pool` | one `Mortgage` per id, the index property → mortgage, `NextId`, underwriters, the grace period and one scheduled action | `apply`, `approve`, `decline`, `disburse`, `repay`, `mark_default`; `set_underwriter`, `schedule_action`, `execute_action`, `cancel_action` | a loan owes what was drawn and not repaid, and exact interest on it; its numbers and the pool's agree; one loan per property; every loan can be closed |
| `property_registry` | one `Property` per id with five `Milestone`s; trustees and oracles | `submit_property`, `submit_milestone_evidence`, `verify_title`, `set_valuation`, `verify_milestone`; for the MortgagePool `mark_released`, `mark_mortgaged`, `mark_repaid`, `mark_defaulted`; `set_trustee`, `set_oracle` | stages are signed off in order, by an oracle other than the trustee, for good; a release has a sign-off behind it |
| governance (in all three) | admin, pending admin, one scheduled action, the wired address, the code | `propose_admin`, `accept_admin`, `schedule_action`, `execute_action`, `cancel_action`, `set_mortgage_pool` | the admin is always somebody who can sign; a proposal in waiting is the present admin's; whatever changes has been announced for the whole timelock |
| storage lifetime (in all three) | the TTL of every entry | an extension at some accesses, archival when it runs out, restoration by anybody | what a transaction writes it renews; archival delays the calls that close a loan and blocks none for ever |

How they interact. `apply` and `approve` read the registry's `lending_terms`;
`approve` reserves the whole facility in the pool; `disburse` asks
`is_releasable`, marks the stage released, has the pool pay the trustee, and at
the first draw marks the property mortgaged; `repay` tells the pool how much of
a payment is interest and at the end releases what was never drawn and marks the
property repaid; `mark_default` releases, writes off and marks the property
defaulted. Each is one transaction: a panic in any call rolls all of it back.

What is hard. There are no threads; the ledger runs one transaction at a time.
The difficulty is the number of independent actors whose transactions come in
any order, on state split over three contracts that trust each other's numbers:
commitments against withdrawals, sign-offs against role changes, valuations that
move between application and approval, payments against defaults at the due
date, draws between accruals, and integer arithmetic that rounds at every
settlement, accrual, slice and tranche. Around them stand the administration,
whose calls cross with each other and with the clock, and a ledger that archives
whatever is not touched. `PROJECT.json` lists these hazards at
the lines where they bite, with the properties that would catch them.

### Not modelled

- Events, which the contracts publish and never read, and the token contract beyond
  the LendingPool's own balance.
- Helper files that no `lib.rs` declares (`batch.rs`, `circuit_breaker.rs`,
  `reserve.rs`, `grace.rs`, `partial_repay.rs`, `rebate.rs`, `consensus.rs`,
  `events.rs`, `geo.rs`): they are not compiled into a contract.
- Tests, recorded snapshots, scripts and CI; they are read for what they claim.
- In `StorageLifetime`: the entries that only their holder's own calls use
  (`Position` and the three role flags), the instances, and the getters, which
  extend and do nothing else. An instance stays alive by the traffic of all users
  together, which no bounded instance shows. Getters were tried as a step of their
  own: every entry then has a lifetime of its own at every instant and the state
  space is out of reach; without them entries lapse more often, not less.
- What an upgrade installs: the new code is taken to carry the same handlers. Code
  that has been uploaded is taken to stay on the ledger; that it can be archived and
  restored like any entry is left out.

## 2. The modules

| Module | Models | Extends |
|---|---|---|
| `LendingPool` | the treasury, alone with investors and a lending contract | `Totals` |
| `LendingPoolAudit` | the same steps with history variables: what each investor's shares exactly earned | `LendingPool` |
| `PropertyRegistry` | properties, stages and roles, alone with any admin and MortgagePool | – |
| `MortgageLoan` | the arithmetic of one loan, as operators on a `Mortgage` record | – |
| `LoanLedger` | one loan under any draws, payments and defaults, against an ideal interest ledger | `MortgageLoan`, `Totals` |
| `MortgagePool` | the handlers of the MortgagePool with the calls they make | `MortgageLoan`, instances of the pool and the registry |
| `StellarHomes` | the three contracts, all actors and the clock; system properties | `MortgagePool`, `Totals` |
| `Totals` | sums of natural numbers, in a form the prover can reason about | – |
| `Escrow` | abstract: principal is free, or set aside for one loan, or out with it, or lost | – |
| `Governance` | the administration one contract carries | – |
| `GovernanceAudit` | the same steps with a record of who proposed and what was announced when | `Governance` |
| `HomesRefinement` | the mappings from `StellarHomes` to `LoanLedger`, `Escrow` and `Governance` | `StellarHomes`, instances of the three |
| `StorageLifetime` | every transaction of `StellarHomes` on a ledger that archives; fairness | `StellarHomes` |
| `DocumentedClaims` | what documents and comments say and the code does not do | `StellarHomes` |
| `*Proofs` | theorems and proofs (section 6) | the module named |
| `MC*` | constants and symmetry for TLC | the module named |

### From code to model

- **One entry point, one action.** The action's conjuncts are the code's checks
  in their order; a call that panics is an action that is not enabled, because a
  panic rolls the transaction back. Guards of the calls a handler makes are
  therefore guards of the handler. `require_auth` is the parameter: an action
  with an `investor` or `oracle` is that address's own transaction.
- **Calls between contracts.** The operators of `LendingPool` and
  `PropertyRegistry` that the MortgagePool calls constrain only the variables
  they write, and a comment names them, so that `MortgagePool` can conjoin
  several of them as one transaction. `repay`, for example, is
  `Pool!Repay /\ ReleaseUndrawn /\ ClearPropertyMortgage /\ Registry!MarkRepaid
  /\ Save` on a loan that is cleared.
- **Storage.** A persistent map is a function whose domain is the entries
  present: `Remove` on `property_mortgage` is the removal of the entry. Ids are
  handed out from 1, so the registry's properties are sequences.
- **Numbers.** Balances are i128 in 10^-7 USDC and stay far below its range; they
  are integers here. Division truncates in Rust and floors in TLA+: the two agree
  because no operand is negative, which the type invariants say. The order of
  multiplication, division and remainder is the code's.
- **The record.** `Mortgage` drops `id`, `borrower` and `created_at`, which no
  operation reads except to authorize or to publish; `Property` drops the deed
  and survey digests. The trustee's and the borrower's own token balances are
  outside: `usdc` is what the token records for the LendingPool.
- **Time.** `now` is the ledger timestamp. It starts at 1: `last_accrued_at = 0`
  and `next_payment_due = 0` mean "not drawn" in the code. Times are u64 and the
  release profile checks overflow: `next_payment_due + grace_secs` and
  `timestamp + timelock_secs` are guarded by `MAX_U64`, because a call that
  overflows panics. `IsInDefault_Wraps` and `ScheduleAction_Wraps` are the same
  calls in a build without the checks.
- **Uploaded code.** `schedule_action` takes any hash. `execute_action` frees the slot
  and then calls `update_current_contract_wasm`, which traps on a hash nobody has
  uploaded: the call is rolled back and the announcement stays in the slot. In
  `Governance` the code on the ledger is `uploaded`, `Upload` is anybody's and may
  never happen, and `ExecuteAction` of an upgrade wants its hash to be there. In the
  view `HomesRefinement` has of `Governance` no upgrade is announced and nothing
  uploaded.
- **Lifetimes.** `live_until` is the last instant at which an entry in storage can
  be used. `Access(used, extended)` is added to each transaction of `StellarHomes`:
  no entry it touches may be archived, those in `extended` are extended as
  `extend_ttl(THRESHOLD, EXTEND_TO)` does, a new entry begins at `EXTEND_TO`, a
  removed one has no lifetime. `Restore` is anybody's; it brings an entry back
  with its contents and a short lifetime.
- **Abstract specifications.** `Escrow` and `LoanLedger` know nothing of three
  contracts. The mappings are in `HomesRefinement`: a loan's first draw is read off
  its due date, its drawn tranches off the stages released on its property, what it
  has been charged off the record brought up to date; the escrow's free capital is
  `total_capital - total_reserved`.
- **Initial state.** Deployed and wired (`set_mortgage_pool` done on both sides)
  with the first roles granted; `scripts/deploy.sh` leaves the contracts there.

### Mistakes

A definition named `Op_Mistake` is `Op` with a plausible slip: a dropped guard, an
off-by-one, a forgotten write. No specification uses one. Each property of a
passing run has one that breaks it, listed under `mutants` in `PROJECT.json`, so
that no property is true merely because of how the model is built.

## 3. The runs

`tlc -workers 2 -config X.cfg M` in this directory.

| Run | Module, config | What it checks |
|---|---|---|
| audit | `MCLendingPoolAudit` | the pool: types; `CommitmentsAreCovered`; `SharesAddUp`; `SettleNeverDebits`; `OnlyPaymentsEarnInterest`; against exact earnings: `InterestIsFullyDistributed`; `RoundingDriftIsBounded`; `ShortfallIsBounded`; `CashMatchesTheBooks` |
| registry | `MCPropertyRegistry` | types; `SignedOffInBuildOrder`; `ReleasesAreJustified`; `LendingTermsAreIndependent`; `SignOffIsFinal` |
| loan_ledger | `MCLoanLedger` | types; `InterestIsExact`; `AccrualsCompose`; `PaidUpIsSafe`; `InterestNeverBecomesPrincipal` |
| homes | `MCStellarHomes` | one loan at length: `InterestHasOwners`; `PaymentsAmortise`; `LoansCanBeClosed`; `CommitmentsAreWithinLtv`; refinement: `LoansFollowTheLedger`, `GraceIsGoverned` |
| two_loans | `MCStellarHomes`, `MCTwoLoans.cfg` | two loans in one pool: types; `LentIsOutstanding`; `ReservedIsUndrawn`; `DrawnByStage`; `OneLoanPerProperty`; `SignedStagesCanBeDrawn`; refinement: `PrincipalIsInEscrow` |
| governance | `MCGovernanceAudit` | types; `AdminCanSign`; `QueuedActionsCanRun`; `ProposalsAreTheAdmins`; `ChangesWaitOutTheTimelock` |
| storage | `MCStorageLifetime` | archival and liveness: `WritesExtend`; `EveryInstalmentIsSettled`; `SignedStagesArePaid` |
| pool_solvency, claim_* | `MCLendingPool`, `MCDocumentedClaims` | one documented statement each, found violated (section 5) |

### Bounds, and why they are enough

- **audit.** Two investors are the fewest whose shares can be confused, and
  payments over 2, 3 or 4 shares with a scale of 5 leave remainders of every
  size. `MaxShares`, `MaxInterest` and `MaxAnchors` bound the deposits, payments
  and share changes; withdrawing makes room for new deposits, so histories are
  long although the totals are small. Investors are symmetric.
- **registry.** Two addresses that may hold neither, either or both roles, three
  stages (a first, a middle and a last), two digests and the empty one.
  `Valuations` includes 0, which the code refuses.
- **loan_ledger.** 27 facilities: principals above, at and below the number of
  stages, terms that divide them and not, rates that leave a remainder each month
  and none. `MaxTime = 12` is six months; `Horizon = 5` compares two months ahead.
  One of the two grace periods is so long that a due date plus grace passes
  `MAX_U64`.
- **homes, two_loans, storage.** Two stages and few months keep all actors in one
  state space. In `homes` one facility of 3 is drawn as 1 and 2 and has a slice of
  1, the valuation moves between one that allows it and one that does not, the
  trustee's and the underwriter's roles come and go, and a longer grace period can
  be scheduled, cancelled and executed while the loan runs. In `two_loans` two
  properties compete for 3 shares, and one loan is smaller than the number of
  stages; time units are months, so two loans run a course of three months.
- **storage.** Time units are months, an entry lives for two after it is extended
  and is extended again when one is left: a loan that is paid every month is
  renewed, the property's record and the index entry lapse and are restored, and a
  due date, its grace and the write-off fit below `MaxTime = 5`. The roles and the
  grace period stay as they are here, since varying them makes the liveness checks far
  longer. That a role revoked or a longer grace period blocks neither a payment that
  clears a loan nor a write-off is `LoansCanBeClosed` in `homes`; that neither blocks a
  draw, a payoff or a write-off, for any roles and grace periods, is
  `SignedStagesCanBePaid`, `LoansCanBeSettled` and `DefaultsCanBeMarked` (section 6).
- **governance.** Two addresses with keys and one without, two upgrades whose code is
  uploaded at any time or never, three grace periods of which 0 is refused, a timelock
  of 2 and `MaxTime = MAX_U64 = 7`, so that a schedule near the end of time overflows.
- `CHECK_DEADLOCK FALSE` everywhere: the bounds stop the system when they are
  reached, and a pool without investors may do nothing for ever.

### Fairness

`FairStorageSpec` assumes that time passes (`WF(StoredTick)`), that a draw or a
write-off of a particular loan that stays possible is eventually made by somebody
(`WF(StoredDisburse(id))`, `WF(StoredMarkDefault(id))`), and that an archived entry
is eventually restored (`WF(Restore(e))`). The code justifies no more than this:
the two calls and a restoration are permissionless, and the trustee who is paid by
the first and every investor who wants the second off the books can make them
(`docs/THREAT_MODEL.md`, "The platform stalling a legitimate build", "The platform
hiding a bad loan"; `docs/STORAGE_TTL_POLICY.md`, "What archival would mean").
Nothing is assumed of borrowers, oracles, underwriters or the admin. The clock
stops at `MaxTime`: `EveryInstalmentIsSettled` leaves out due dates so near it that
grace cannot end before. No other specification states fairness.

## 4. What the runs show

- **Commitments.** Capital reserved by `approve` is there when a stage is signed
  off: `available_of` subtracts it, and no order of withdrawals, draws, releases
  and write-offs gets round it (`CommitmentsAreCovered`, and in the whole system
  `SignedStagesCanBeDrawn`). The books promise it; the tokens keep the promise while
  they cover the capital on the books (`TokensCoverCapital`, section 5).
- **Interest among investors.** Settling before and re-anchoring after every
  change of shares makes claims independent of the order of events
  (`OnlyPaymentsEarnInterest`); nothing of a payment is lost to the carry
  (`InterestIsFullyDistributed`); the rounding error of an investor stays below
  one unit per change of shares and one more (`RoundingDriftIsBounded`), and what
  the pool can lack for all claims together below one unit per change of shares,
  however much interest passes through it (`ShortfallIsBounded`; of the three
  contracts together it is proved, section 6).
- **Interest of a loan.** The lazily charged record agrees with a ledger that
  charges each month exactly, to the last remainder (`InterestIsExact`), and when
  it is brought up to date does not matter (`AccrualsCompose`).
- **Principal of a loan.** What a loan has drawn is the tranches of the stages
  released, in whatever order they were drawn and whatever was paid in between; all
  stages together come to the facility, with nothing left over; a loan owes what it
  drew and has not repaid; and one that is paid off has brought back all that was
  drawn and charged, but for the carried fraction (`InterestNeverBecomesPrincipal`).
- **Between the contracts.** The pool's `lent`, `written_off` and `interest` are
  the sums of the loans' own figures, `reserved` the sum of their undrawn
  facilities (`LentIsOutstanding`, `ReservedIsUndrawn`): neither contract checks
  the other, and none of the handlers books on one side only. The branch of
  `accrue_interest` for a payment with no shares outstanding is never taken
  (`InterestHasOwners`).
- **Refinement.** Among everything else that happens, each loan is a loan of
  `LoanLedger` (`LoansFollowTheLedger`), so what is proved of that module (exact
  interest, safety of a paid-up borrower) holds of each; principal moves as `Escrow`
  says, so nothing set aside for one loan is ever touched for another and no
  interest becomes capital (`PrincipalIsInEscrow`); and the grace period loans are
  judged by changes only behind the timelock (`GraceIsGoverned`).
- **Governance.** No sequence of proposals gives the role to an address nobody holds
  the keys of; accepting clears the proposal, so an admin who has handed over cannot
  come back by an old one; an upgrade or a grace period takes effect only after
  waiting, unaltered, for the whole timelock, although the admin who executes it
  need not be the one who scheduled it. Whatever is in the queue can be cancelled, and
  from its eta on it can be executed, with one exception `schedule_action` does not rule
  out: an upgrade to code nobody has uploaded waits, in the only slot there is, for the
  upload or for `cancel_action` (`QueuedActionsCanRun`).
- **Archival.** Every record a transaction changes, its own or another contract's,
  is good for another `THRESHOLD` (`WritesExtend`), and archived entries delay the
  closing of a loan without preventing it (`EveryInstalmentIsSettled`,
  `SignedStagesArePaid`).
- **Closing.** Every live loan can be settled and every overdue one written off:
  no guard of the other two contracts stands in the way (`LoansCanBeClosed`).

## 5. Where documents and code disagree

| Run | Statement | What happens |
|---|---|---|
| pool_solvency | `lending_pool/src/lib.rs:531` "the pool can always cover what it owes" | A position anchored at `shares * acc / SCALE` rounded down earns the fraction again when it is next settled. After a payment that leaves a fraction, a deposit and a further payment, the claims exceed the tokens by one unit. `ShortfallIsBounded` bounds the excess by one unit per change of shares, for every pool (section 6). |
| claim_repaying_draw | `docs/THREAT_MODEL.md:102` and the worked example of `docs/INTEREST_AND_REPAYMENT.md` | Draw stage 0, pay one instalment: the loan is `Repaying` and `disburse` refuses stage 1 for good. The undrawn part stays reserved until the loan ends. |
| claim_refinance | `mortgage_pool/src/lib.rs:885`, `docs/STORAGE_TTL_POLICY.md:79` | Pay a loan off: the index entry is gone, the registry says `Repaid`, and `apply` wants `Verified`. |
| claim_late_tranche | `mortgage_pool/src/lib.rs:596` | Draw stage 0, let half a month pass, draw stage 1: at the end of the month `accrue` charges the month on both. |
| claim_schedule | `mortgage_pool/src/lib.rs:815`, `docs/INTEREST_AND_REPAYMENT.md:89` | 3 over 2 months has a slice of 1: after two instalments 1 is still owed. |

Seen while modelling, without a run of their own: stages are signed off in build
order but two that are signed off can be drawn in either order (`README.md:97`,
"money moves only in the order the build is supposed to happen"), and a trustee
whose role is revoked is still paid for stages signed off before
(`docs/AUTHORIZATION.md:18`, "cannot submit or draw anything new").
`docs/STORAGE_TTL_POLICY.md:66` has persistent entries extended "on every read and
every write, so a record in use renews itself": the index entry
`PropertyMortgage` is extended when `apply` writes it and by nothing after, `apply`
and `mortgage_for_property` read it without extending, so it lapses under a loan
that is paid every month and the payment that closes the loan may need its
restoration first. Its line 98 lists `current_balance` among the getters that do not
extend persistent entries, and `current_balance` reads through `mortgage_of`, which
does; its rule 2 (line 105) has every public entry point extend the instance, and
getters such as `lending_terms` and `is_releasable` do not.

The passing properties are stated so as not to hide these: `SignedStagesCanBeDrawn`
and `SignedStagesArePaid` speak of `Approved` and `Funded` loans only, and only while
`TokensCoverCapital`: the units credited too much are paid out of tokens that stand
for capital, so a pool drained to its last commitment could be short by as many, and
the token transfer of the last draw would fail until the next deposit or payment.
`ShortfallIsBoundedAmongLoans` says by how little: a pool that has uncommitted capital
of one unit (10^-7 USDC) for each deposit and withdrawal it ever saw has the tokens
for every draw. No state of the runs of `StellarHomes` is that far; the hypothesis is
there because the proof for every pool needs it.

## 6. The proofs

`tlapm X.tla` for each module `X` below. The assumptions are the named `ASSUME`s of
the modules, evaluated in every run: the scale, the month, the divisor and the
number of stages are positive, the investors are finitely many, amounts are
integers, the clock has at least the instant of deployment (`MaxTime`), entries are
extended when what they have left is below `THRESHOLD`, to no less than that
(`THRESHOLD <= EXTEND_TO`: 90 and 120 days in the code), and the values that stand
for "nothing" are none of the records they stand beside. `MortgagePoolAssumption`
repeats what `LendingPool` and `PropertyRegistry` assume of their constants, so that
their theorems can be used in the modules that hold the two as instances.

**`LendingPoolProofs`**: for all investors, scales and amounts, `PoolTypeCorrect`,
`CommittedCapitalStays`, `SharesSum`, `PrincipalIsConserved` (of `SharesAreBacked`,
which no run checks: it is proved), `NoDebit` and `InterestIsPathIndependent`.
`PoolTypeOK` is not inductive: that a claim is a natural
number needs that no position's debt exceeds what its shares have earned, which
needs the accumulator to grow only; that `total_capital` stays natural under
`disburse` needs it to cover `total_reserved`; that `total_shares` stays natural
under `withdraw` needs it to be the sum of the shares. The invariant conjoins these.

The second half is about the pool with its history (`AuditIsOfThePool`: the history
constrains nothing): `InterestAccounted`, `CashAccounted`, `RoundingBounded` and
`ShortfallBounded`. None of the four is inductive. `AuditInv` adds what a
position's rounding amounts to since its shares last changed (`RoundingIsAnchored`):
scaled by `SCALE`, what was paid and credited less the debt, plus what the shares
stand for at the present accumulator, differs from what they earned by at most
`SCALE - 1` for each change of the shares. A payment moves both sides by the same
amount, a claim neither; only a change of shares truncates again. The investors'
bounds are then added up. Multiplication and division by `SCALE` are kept in lemmas of
their own, where the quotient and the remainder are bounded variables.

The last section bounds the shortfall a second time, without a history. `Surplus` is
what the positions and the carried remainder stand for, exactly and in units of
1/`SCALE`, beyond the tokens that are not capital. `ClaimRoundsNothing`,
`PaymentRoundsNothing` and `PrincipalRoundsNothing` show that only a change of shares
moves it, `ShareChangeRounds` by how much, `SurplusCoversShortfall` that it bounds what
the pool lacks. These are lemmas on single operations, so a caller that makes several
of them in one transaction can use them; the audit's history cannot follow it there.

**`MortgageLoanProofs`**: lemmas on the arithmetic of a loan, and `AccrueComposes`.
They rest on the uniqueness of quotient and remainder (`DivisionUnique`): what
`accrue` charges is determined by interest times the divisor plus the carry.

**`LoanLedgerProofs`**: for all facilities, payments, months and horizons,
`NoInterestIsLost`, `AccrualsAlwaysCompose`, `PaidUpBorrowersAreSafe`,
`PrincipalIsDrawnNotCharged` and `LedgerTypeCorrect`. The principal drawn is a sum over
stages; `TranchesTotal` and `TranchesOfAll` in `MortgageLoanProofs` say what the tranches
of a set of stages, and of all, add up to. Exactness is not inductive: the
invariant `LedgerInv` adds that a live loan's clock stands a whole number of months
after its first draw (`Running`), so that `accrue` and the ledger see a month end at
the same tick, and that the next due date counts the payments made; and that a loan
not yet drawn is untouched (`NotYetDrawn`).

**`PropertyRegistryProofs`**: `RegistryTypeCorrect`, `StagesFollowTheBuild`,
`EveryReleaseIsJustified`, `TermsAreIndependent` and `SignaturesAreFinal`, for any
number of properties and stages and any changes of roles. A step rewrites one stage
or one property; `LegalStage` says what it may do to a stage, each handler is shown
to do only that, and the invariants follow from it rather than from the handlers.
`FirstDrawTx` is the one step the module does not have by itself, the release of a
stage and the marking of its property in one transaction; it keeps them too.

**`GovernanceProofs`**: `GovernanceTypeCorrect`, `AdminAlwaysSigns`,
`NoStaleProposals` and `ChangesAreSeenComing`; `AuditImplementsGovernance` shows that
the recorded steps are `Governance`'s. The timelock needs that the one entry of
`announced` is the action in the queue and that its `eta` is the time of the
announcement plus the timelock. `QueueStaysSound` and `QueueCanBeEmptied` are the
provable form of `QueuedActionsCanRun` (see below): what waits can be cancelled by the
admin of the moment, can be executed from its eta on when the code it names has been
uploaded, and while it has not, no call of anybody executes it and anybody's upload
makes it executable.

**`StellarHomesProofs`**: for any number of loans, properties, stages and investors
and any amounts, `LentIsOutstandingAlways`, `ReservedIsUndrawnAlways`,
`InterestHasOwnersAlways`, `PaymentsAmortiseAlways`, `OneLoanPerPropertyAlways`,
`DrawnByStageAlways`, `MortgageTypes` and `CommitmentsAreWithinLtvAlways`. None of
these is inductive alone. The invariant `HomesInv` has three parts:

- `HomesTypeOK` types both contracts' records, so that quotients and differences are
  numbers.
- `LoansInv` says loan by loan what its status means for its balances, for the
  stages and the status of its property, and for the index. It is what makes a first
  draw start from no released stages, a payment meet a property marked mortgaged,
  and `apply` find no other loan on the property: these are in three contracts, and
  a loan's own guards read only some of them.
- `BooksInv` says what the loans add up to. With it a payment's principal is at most
  `total_lent` and a draw at most `total_reserved`, so the pool's totals stay natural.

A sum is the number of elements of a set of units (`Totals`), and `TotalsProofs`
shows that changing one entry changes the sum by the difference: a union or a
difference of disjoint finite sets. Every transaction rewrites one loan, so the books
need no induction over the loans (`BooksOfOne`). That the tranches of distinct stages
add up to no more than the facility is `TranchesTotal` of `MortgageLoanProofs`; the last
stage takes the remainder of the division.

The pool within the system. `StellarHomes` holds `LendingPool` as an instance that
only the MortgagePool's handlers lend from. `ThePool` is the same instance of
`LendingPoolProofs`; every transaction of `StellarHomes` is a step of the pool with
the arguments the handler gives it, or leaves the pool alone, so the pool's lemmas
carry over: `PoolHoldsAmongLoans` has its invariants, `OnlyBorrowersPayInterest` its
action property, of the three contracts together. The pool's own specification draws
amounts from `Amounts`, and a handler computes its own, so the steps are matched
operation by operation rather than by `PoolNext`.

The registry within the system. `TheRegistry` is the instance of
`PropertyRegistryProofs` in the same way: `RegistrySteps` shows that each transaction is
a step of the registry, the two calls of a first draw, or nothing, so
`RegistryHoldsAmongLoans` and `SignOffsAreFinalAmongLoans` have the registry's
properties of the three contracts together.

The life of a loan. `LoansOnlyAdvanceAlways`: what any transaction can make of any
loan, with `Advanced` for the loan it rewrites. Terms never change; the status moves
along `StatusSteps` only, out of `PaidOff` and `Defaulted` never; a due date moves by the
first draw and by payments; ids are not reused; only a declined application is
removed. From it follows `LoansBalance`: what a loan has been given and charged equals
what it has given back and still owes.

What a draw stands on. `EveryDrawIsJustifiedAlways` combines the loans' invariant, the
registry's and `Valued` (a house somebody applied for a loan on has a positive value,
since `apply` wants the principal within its ceiling and `set_valuation` refuses 0):
each unit drawn belongs to a stage that, with all stages below it, was signed off on
evidence by somebody other than the trustee, on a house whose title and value were
confirmed by somebody other than the trustee.

What becomes of a signed-off stage. `SignedStagesWaitAlways` is the safety half of
`SignedStagesArePaid`: a stage that is signed off and not paid stays so, with its
tranche and its loan, through every transaction but the draw of that very stage for
its whole tranche, a payment of the borrower, or a default. What liveness adds is only
that somebody calls.

What can be done. `ENABLED` is out of the prover's reach, so the properties that say a
call is possible are proved in another form: a call is possible when its action
comes down to assignments, one value for each primed variable and no condition left.
`LoansCanBeSettled`, `DefaultsCanBeMarked` and `SignedStagesCanBePaid` state this of
`Repay` with the whole debt, `MarkDefault` and `Disburse` in every state of `HomesInv`
(the last while the tokens cover what is set aside), as an equivalence between the action
and its assignments: every guard of three contracts is discharged by the
invariant. `LoansCanBeClosed` and `SignedStagesCanBeDrawn` are what TLC checks of it.

What rounding costs among the loans. `OnlyShareChangesRound` carries `Surplus` through
the transactions of the system: a draw takes the same from capital and tokens, a
payment is shared out to the last unit, and deposits and withdrawals are the only
steps that round, by less than one unit each. `WatchedSpec` is the system with an
observer that counts them, and `ShortfallIsBoundedAmongLoans` bounds by its count what
the tokens lack of the capital and of all claims.

**`HomesRefinementProofs`**: `HomesImplementLoanLedger`, `HomesImplementEscrow`,
`HomesImplementGovernance`, `PaidUpLoansAreSafe`, `StorageImplementsHomes` and `WritesExtendAlways`.

*The ledger of each loan.* `HomesInv` says nothing of the clock, and `LoanLedger` reads
the first draw off the due date. `ClockInv` (`LoansAreOnSchedule`) adds that a loan's
due date counts its payments from the first draw, and that interest is written up to
a whole number of months after it; without the latter a second accrual in the same
month could charge what the ledger does not. With it, bringing a record up to date
twice changes nothing (`Current`), a transaction on the loan is `Draw`, `Pay` or
`Default` of its ledger, one on another loan, the registry or the pool is a stutter, and
the clock ticks in both. The mapping reads `charged` off the record brought up to
date, so that the ledger is exact is not a theorem about the mapped state but what the
refinement itself says: the record's charge moves at the end of each month, by that
month's interest, and at no other step. `LoanLedger`'s own theorems ask for a facility
with a natural principal and rate and a term of at least one month, and `apply`
accepts no other. `PaidUpLoansAreSafe` states the one that matters most to a borrower
for every loan of the three contracts: whoever has paid once for every month since
the first draw is not in default, under any grace period the admin puts in force.

*The escrow.* Each transaction that moves principal is one step of the escrow on the facility of the
loan it is about (a draw is `DrawDown`, a payment `PayBack` or `Close`, a default
`Lose`); the others leave what the escrow sees alone. `HomesInv` supplies what the
handlers do not check: a tranche is at most what the facility has left, a payment
that does not close the loan leaves principal owing, and a loan that is approved has
held nothing before.

*Storage.* Each transaction of `StorageLifetime` contains the transaction of
`StellarHomes` it is named after, and a restoration changes no contract's state
(`StorageImplementsHomes`): archival delays and never adds a behaviour, so all the
theorems above hold on a ledger that archives. `WritesExtendAlways` goes through the
handlers once more, for what each of them can change at most (`LifetimesOK` types
the lifetimes): everything it changes is among what it extends.

### Model-checked only

- Liveness under fairness: `EveryInstalmentIsSettled` and `SignedStagesArePaid`.
- The literal `ENABLED` in `LoansCanBeClosed`, `SignedStagesCanBeDrawn` and
  `QueuedActionsCanRun`; what makes them true is proved, as said above.

Every other property of a passing run is a theorem.

## 7. Plan

Done: all operations that change state, the administration, the storage entries of
loans and properties; the escrow, ledger, governance and storage refinements; a proof
of every property of a passing run that is within the prover's reach; and in the whole
system the pool's and the registry's promises, the life of a loan and the rounding
bound. What is left: positions and role flags in `StorageLifetime`, in an instance
without loans.
