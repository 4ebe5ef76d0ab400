-------------------------------- MODULE Escrow --------------------------------
(***************************************************************************)
(* The time-locked escrow contract, escrow_contract/src/lib.rs.            *)
(*                                                                         *)
(* A contract call runs alone and either commits all its writes or, when   *)
(* it returns an error or panics, none of them: one call is one action,    *)
(* its early returns are the conjuncts of the guard, and a refused call    *)
(* is a step that does not happen.  `caller' is the address whose          *)
(* signature require_auth() asks for.                                      *)
(*                                                                         *)
(* The contract moves no tokens: the amounts it returns and publishes are  *)
(* what the caller transfers.  The variables paid and collected record     *)
(* them; no action reads them.                                             *)
(*                                                                         *)
(* Left out: metadata, references, reasons and events.  Addresses, routes  *)
(* (a bridge id with an asset type) and lists of approvers are values of   *)
(* constant sets.                                                          *)
(***************************************************************************)
EXTENDS Integers, Sequences, FiniteSets, Functions

CONSTANTS
    Address,            \* every account and contract that may call
    Admin,              \* the administrator passed to initialize
    Route,              \* pairs of a bridge id and an asset type
    Parties,            \* who deposits, who receives, who verifies
    MaxEscrows,         \* bound: escrows created
    Amounts,            \* amounts passed to create_escrow
    Payments,           \* amounts passed to release, batch_release and recover
    Collections,        \* amounts passed to collect_fees
    BpsChoices,         \* fee rates passed to initialize and set_fee_config
    Collectors,         \* fee collectors passed to them
    ApproverLists,      \* lists passed to initialize and set_approvers
    Guardians,          \* addresses passed to set_breaker_guardian
    LockChoices,        \* seconds passed to set_lock_period and extend_lock
    DefaultLockSecs,    \* DEFAULT_LOCK_SECS
    MaxBatch,           \* bound: ids passed to one batch_release
    U64Max,             \* the largest u64: seconds saturate there
    I128Max             \* the largest i128: fee arithmetic is checked there

BpsDenominator == 10000
MaxFeeBps == 2000
EscrowId == 0 .. (MaxEscrows - 1)
Seconds == 0 .. U64Max

ASSUME EscrowAssumption ==
    /\ Admin \in Address
    /\ Parties \subseteq [depositor : Address, recipient : Address,
                          verification_contract : Address]
    /\ MaxEscrows \in Nat /\ U64Max \in Nat /\ I128Max \in Nat
    /\ Amounts \subseteq Int /\ Payments \subseteq Int
    /\ Collections \subseteq Int /\ BpsChoices \subseteq Nat
    /\ Collectors \subseteq Address /\ Guardians \subseteq Address
    /\ ApproverLists \subseteq Seq(Address)
    /\ LockChoices \subseteq Seconds
    /\ DefaultLockSecs \in Seconds
    /\ MaxBatch \in Nat

VARIABLES
    now,                                  \* ledger timestamp
    fee_collector, fee_bps,
    approvers, approval_threshold,
    escrow_seq,                           \* the next id
    emergency_pause,
    accrued_fees,
    breaker_guardian, breaker_tripped,
    lock_period,                          \* seconds for each route
    escrows,                              \* EscrowDeposit of each id
    challenged,                           \* ids with a ChallengeInfo
    disputes,                             \* DisputeResolution of each id
    paid,                                 \* payouts of each id
    collected                             \* fees paid to the collector

fees == <<fee_collector, fee_bps>>
panel == <<approvers, approval_threshold>>
breaker == <<breaker_guardian, breaker_tripped>>
config == <<fees, panel, lock_period, breaker_guardian>>
ledger == <<paid, collected>>
vars == <<now, fee_collector, fee_bps, approvers, approval_threshold, escrow_seq,
          emergency_pause, accrued_fees, breaker_guardian, breaker_tripped,
          lock_period, escrows, challenged, disputes, paid, collected>>

Open == {"Pending", "Challenged"}
Terminal == {"Released", "Refunded"}

\* An id with no record has status "None"; its other fields mean nothing.
EscrowDeposit ==
    [depositor : Address, recipient : Address, verification_contract : Address,
     amount : Nat, fee_total : Nat, released_amount : Nat, lock_until : Seconds,
     status : Open \cup Terminal \cup {"None"}, verified : BOOLEAN]

NoEscrow ==
    [depositor |-> Admin, recipient |-> Admin, verification_contract |-> Admin,
     amount |-> 0, fee_total |-> 0, released_amount |-> 0, lock_until |-> 0,
     status |-> "None", verified |-> FALSE]

\* required_approvals is 0 while there is no dispute; the code stores at least 1.
DisputeResolution ==
    [decision_release : BOOLEAN, approvals : SUBSET Address,
     required_approvals : Nat, resolved : BOOLEAN]

NoDispute == [decision_release |-> FALSE, approvals |-> {},
              required_approvals |-> 0, resolved |-> FALSE]

Payouts == [released : Nat, refunded : Nat, recovered : Nat]
NoPayouts == [released |-> 0, refunded |-> 0, recovered |-> 0]

Exists(id) == escrows[id].status # "None"
HasDispute(id) == disputes[id].required_approvals > 0

\* Mutant: seconds are added without saturating.
SaturatingAdd_Plain(a, b) == a + b

SaturatingAdd(a, b) == IF a + b > U64Max THEN U64Max ELSE a + b

\* What release and refund pay at most: the deposit less the fee.
Releasable(e) == e.amount - e.fee_total

\* fee_total of a new escrow, rounded down.
FeeOf(amount, bps) == (amount * bps) \div BpsDenominator

ValidPanel(list, threshold) == threshold \in 1 .. Len(list)

IsGuardian(caller) == caller \in {Admin, breaker_guardian}

\* Mutant: the breaker is not looked at.
SettlementLive_PauseOnly == ~emergency_pause

SettlementLive == ~emergency_pause /\ ~breaker_tripped
-----------------------------------------------------------------------------
\* initialize: the state right after deployment and set-up.  An unset guardian
\* reads as the admin, an unset lock period as the default.
Init ==
    /\ now = 0
    /\ fee_collector \in Collectors
    /\ fee_bps \in {bps \in BpsChoices : bps <= MaxFeeBps}
    /\ approvers \in ApproverLists
    /\ approval_threshold \in 1 .. Len(approvers)
    /\ escrow_seq = 0
    /\ emergency_pause = FALSE
    /\ accrued_fees = 0
    /\ breaker_guardian = Admin
    /\ breaker_tripped = FALSE
    /\ lock_period = [r \in Route |-> DefaultLockSecs]
    /\ escrows = [id \in EscrowId |-> NoEscrow]
    /\ challenged = {}
    /\ disputes = [id \in EscrowId |-> NoDispute]
    /\ paid = [id \in EscrowId |-> NoPayouts]
    /\ collected = 0

SetLockPeriod(caller, route, secs) ==
    /\ caller = Admin
    /\ secs # 0
    /\ lock_period' = [lock_period EXCEPT ![route] = secs]
    /\ UNCHANGED <<now, fees, panel, breaker, escrow_seq, emergency_pause,
                   accrued_fees, escrows, challenged, disputes, ledger>>

SetFeeConfig(caller, collector, bps) ==
    /\ caller = Admin
    /\ bps <= MaxFeeBps
    /\ fee_collector' = collector
    /\ fee_bps' = bps
    /\ UNCHANGED <<now, panel, breaker, lock_period, escrow_seq, emergency_pause,
                   accrued_fees, escrows, challenged, disputes, ledger>>

SetApprovers(caller, list, threshold) ==
    /\ caller = Admin
    /\ ValidPanel(list, threshold)
    /\ approvers' = list
    /\ approval_threshold' = threshold
    /\ UNCHANGED <<now, fees, breaker, lock_period, escrow_seq, emergency_pause,
                   accrued_fees, escrows, challenged, disputes, ledger>>

SetEmergencyPause(caller, paused) ==
    /\ caller = Admin
    /\ emergency_pause' = paused
    /\ UNCHANGED <<now, config, breaker_tripped, escrow_seq, accrued_fees,
                   escrows, challenged, disputes, ledger>>

SetBreakerGuardian(caller, guardian) ==
    /\ caller = Admin
    /\ breaker_guardian' = guardian
    /\ UNCHANGED <<now, fees, panel, lock_period, breaker_tripped, escrow_seq,
                   emergency_pause, accrued_fees, escrows, challenged, disputes,
                   ledger>>

TripCircuitBreaker(caller) ==
    /\ IsGuardian(caller)
    /\ breaker_tripped' = TRUE
    /\ UNCHANGED <<now, config, escrow_seq, emergency_pause, accrued_fees,
                   escrows, challenged, disputes, ledger>>

ResetCircuitBreaker(caller) ==
    /\ IsGuardian(caller)
    /\ breaker_tripped' = FALSE
    /\ UNCHANGED <<now, config, escrow_seq, emergency_pause, accrued_fees,
                   escrows, challenged, disputes, ledger>>
-----------------------------------------------------------------------------
\* The record create_escrow stores.
NewEscrow(parties, route, amount) ==
    [depositor |-> parties.depositor, recipient |-> parties.recipient,
     verification_contract |-> parties.verification_contract,
     amount |-> amount, fee_total |-> FeeOf(amount, fee_bps),
     released_amount |-> 0,
     lock_until |-> SaturatingAdd(now, lock_period[route]),
     status |-> "Pending", verified |-> FALSE]

CreateEscrow(parties, route, amount) ==
    /\ escrow_seq < MaxEscrows
    /\ ~emergency_pause
    /\ amount > 0
    /\ amount * fee_bps <= I128Max
    /\ accrued_fees + FeeOf(amount, fee_bps) <= I128Max
    /\ escrow_seq' = escrow_seq + 1
    /\ accrued_fees' = accrued_fees + FeeOf(amount, fee_bps)
    /\ escrows' = [escrows EXCEPT ![escrow_seq] = NewEscrow(parties, route, amount)]
    /\ UNCHANGED <<now, config, breaker_tripped, emergency_pause, challenged,
                   disputes, ledger>>

\* The verification contract reports, or takes back, its verdict; it may do so
\* during a challenge and while the contract is paused.
SyncVerification(caller, id, verified) ==
    /\ Exists(id)
    /\ caller = escrows[id].verification_contract
    /\ escrows[id].status \notin Terminal
    /\ escrows' = [escrows EXCEPT ![id].verified = verified]
    /\ UNCHANGED <<now, config, breaker_tripped, escrow_seq, emergency_pause,
                   accrued_fees, challenged, disputes, ledger>>

\* Mutant: a cleared escrow may be challenged again.
ChallengeEscrow_Again(id) ==
    /\ ~emergency_pause
    /\ escrows[id].status = "Pending"
    /\ now < escrows[id].lock_until
    /\ escrows' = [escrows EXCEPT ![id].status = "Challenged"]
    /\ challenged' = challenged \cup {id}
    /\ UNCHANGED <<now, config, breaker_tripped, escrow_seq, emergency_pause,
                   accrued_fees, disputes, ledger>>

\* Anyone may challenge a pending escrow, once, before its lock ends.
ChallengeEscrow(id) ==
    /\ ~emergency_pause
    /\ escrows[id].status = "Pending"
    /\ now < escrows[id].lock_until
    /\ id \notin challenged
    /\ escrows' = [escrows EXCEPT ![id].status = "Challenged"]
    /\ challenged' = challenged \cup {id}
    /\ UNCHANGED <<now, config, breaker_tripped, escrow_seq, emergency_pause,
                   accrued_fees, disputes, ledger>>

\* Mutant: every vote states the decision and the threshold anew.
OpenDispute_Latest(id, release_allowed) ==
    [decision_release |-> release_allowed, approvals |-> disputes[id].approvals,
     required_approvals |-> approval_threshold, resolved |-> disputes[id].resolved]

\* The first vote opens the dispute: it fixes the decision and takes the
\* threshold of that moment.
OpenDispute(id, release_allowed) ==
    IF HasDispute(id) THEN disputes[id]
    ELSE [decision_release |-> release_allowed, approvals |-> {},
          required_approvals |-> approval_threshold, resolved |-> FALSE]

\* Mutant: the threshold of this moment decides, not the dispute's.
Approve_CurrentThreshold(dispute, caller) ==
    LET votes == dispute.approvals \cup {caller}
    IN  [dispute EXCEPT !.approvals = votes,
                        !.resolved = Cardinality(votes) >= approval_threshold]

\* The dispute once caller's approval is pushed.
Approve(dispute, caller) ==
    LET votes == dispute.approvals \cup {caller}
    IN  [dispute EXCEPT !.approvals = votes,
                        !.resolved = Cardinality(votes) >= dispute.required_approvals]

\* A vote on a dispute that is already resolved returns before any write.
ResolveChallenge(caller, id, release_allowed) ==
    LET dispute == OpenDispute(id, release_allowed)
        decided == Approve(dispute, caller)
    IN  /\ ~emergency_pause
        /\ caller \in Range(approvers)
        /\ escrows[id].status = "Challenged"
        /\ ~dispute.resolved
        /\ dispute.decision_release = release_allowed
        /\ caller \notin dispute.approvals
        /\ disputes' = [disputes EXCEPT ![id] = decided]
        /\ escrows' = [escrows EXCEPT ![id].status =
                         IF decided.resolved /\ release_allowed THEN "Pending" ELSE @]
        /\ UNCHANGED <<now, config, breaker_tripped, escrow_seq, emergency_pause,
                       accrued_fees, challenged, ledger>>
-----------------------------------------------------------------------------
\* The checks of release_escrow_internal on the record.
CanRelease(e, caller, amount) ==
    /\ e.status = "Pending"
    /\ caller \in {e.recipient, Admin}
    /\ e.verified
    /\ now >= e.lock_until
    /\ amount > 0
    /\ amount <= Releasable(e) - e.released_amount

\* Mutant: the escrow closes only once more than the releasable amount left it.
PayOut_Beyond(e, amount) ==
    LET total == e.released_amount + amount
    IN  [e EXCEPT !.released_amount = total,
                  !.status = IF total > Releasable(e) THEN "Released" ELSE @]

\* The record after a payment out of the lock, by release_escrow_internal and by
\* emergency_recover alike.
PayOut(e, amount) ==
    LET total == e.released_amount + amount
    IN  [e EXCEPT !.released_amount = total,
                  !.status = IF total >= Releasable(e) THEN "Released" ELSE @]

ReleaseEscrow(caller, id, amount) ==
    /\ SettlementLive
    /\ CanRelease(escrows[id], caller, amount)
    /\ escrows' = [escrows EXCEPT ![id] = PayOut(@, amount)]
    /\ paid' = [paid EXCEPT ![id].released = @ + amount]
    /\ UNCHANGED <<now, config, breaker_tripped, escrow_seq, emergency_pause,
                   accrued_fees, challenged, disputes, collected>>

\* Mutant: an id listed twice is paid once.
Occurrences_Once(ids, id) == IF id \in Range(ids) THEN 1 ELSE 0

\* batch_release pays the same amount for each listed id, one after the other;
\* an id may be listed more than once.  One refusal undoes the whole call, so
\* the batch happens when each id can pay all its occurrences.
Occurrences(ids, id) == Cardinality({k \in DOMAIN ids : ids[k] = id})

BatchRelease(caller, ids, amount) ==
    LET due(id) == Occurrences(ids, id) * amount
    IN  /\ SettlementLive
        /\ ids # <<>>
        /\ amount > 0
        /\ \A id \in Range(ids) : CanRelease(escrows[id], caller, due(id))
        /\ escrows' = [id \in EscrowId |->
                         IF id \in Range(ids) THEN PayOut(escrows[id], due(id))
                                              ELSE escrows[id]]
        /\ paid' = [id \in EscrowId |->
                      IF id \in Range(ids)
                      THEN [paid[id] EXCEPT !.released = @ + due(id)]
                      ELSE paid[id]]
        /\ UNCHANGED <<now, config, breaker_tripped, escrow_seq, emergency_pause,
                       accrued_fees, challenged, disputes, collected>>

\* Mutant: only a challenge stands in the way of a refund.
RefundAllowed_Verified(id) ==
    escrows[id].status = "Challenged" =>
        HasDispute(id) /\ disputes[id].resolved /\ ~disputes[id].decision_release

\* A challenged escrow is refunded once the dispute is rejected, any other one
\* as long as it is not verified, whatever its lock.
RefundAllowed(id) ==
    IF escrows[id].status = "Challenged"
    THEN HasDispute(id) /\ disputes[id].resolved /\ ~disputes[id].decision_release
    ELSE ~escrows[id].verified

RefundEscrow(caller, id) ==
    LET e == escrows[id]
        refund == e.amount - e.released_amount - e.fee_total
    IN  /\ SettlementLive
        /\ e.status \in Open
        /\ caller \in {e.depositor, Admin}
        /\ RefundAllowed(id)
        /\ refund > 0
        /\ escrows' = [escrows EXCEPT ![id].status = "Refunded"]
        /\ paid' = [paid EXCEPT ![id].refunded = @ + refund]
        /\ UNCHANGED <<now, config, breaker_tripped, escrow_seq, emergency_pause,
                       accrued_fees, challenged, disputes, collected>>

ExtendLock(caller, id, secs) ==
    /\ caller = Admin
    /\ secs # 0
    /\ escrows[id].status \in Open
    /\ escrows' = [escrows EXCEPT ![id].lock_until = SaturatingAdd(@, secs)]
    /\ UNCHANGED <<now, config, breaker_tripped, escrow_seq, emergency_pause,
                   accrued_fees, challenged, disputes, ledger>>

\* Mutant: what was paid before is not subtracted.
EmergencyRecover_Whole(caller, id, amount) ==
    /\ caller = Admin
    /\ emergency_pause
    /\ Exists(id)
    /\ amount > 0
    /\ amount <= escrows[id].amount
    /\ escrows' = [escrows EXCEPT ![id] = PayOut(@, amount)]
    /\ paid' = [paid EXCEPT ![id].recovered = @ + amount]
    /\ UNCHANGED <<now, config, breaker_tripped, escrow_seq, emergency_pause,
                   accrued_fees, challenged, disputes, collected>>

\* emergency_recover looks at neither the status nor the fee nor the breaker.
EmergencyRecover(caller, id, amount) ==
    /\ caller = Admin
    /\ emergency_pause
    /\ Exists(id)
    /\ amount > 0
    /\ amount <= escrows[id].amount - escrows[id].released_amount
    /\ escrows' = [escrows EXCEPT ![id] = PayOut(@, amount)]
    /\ paid' = [paid EXCEPT ![id].recovered = @ + amount]
    /\ UNCHANGED <<now, config, breaker_tripped, escrow_seq, emergency_pause,
                   accrued_fees, challenged, disputes, collected>>

\* Mutant: a partial collection clears all that accrued.
CollectFees_Reset(caller, amount) ==
    /\ caller = fee_collector
    /\ amount > 0
    /\ amount <= accrued_fees
    /\ accrued_fees' = 0
    /\ collected' = collected + amount
    /\ UNCHANGED <<now, config, breaker_tripped, escrow_seq, emergency_pause,
                   escrows, challenged, disputes, paid>>

CollectFees(caller, amount) ==
    /\ caller = fee_collector
    /\ amount > 0
    /\ amount <= accrued_fees
    /\ accrued_fees' = accrued_fees - amount
    /\ collected' = collected + amount
    /\ UNCHANGED <<now, config, breaker_tripped, escrow_seq, emergency_pause,
                   escrows, challenged, disputes, paid>>

\* The ledger closes: its timestamp moves on.
Tick ==
    /\ now < U64Max
    /\ now' = now + 1
    /\ UNCHANGED <<config, breaker_tripped, escrow_seq, emergency_pause,
                   accrued_fees, escrows, challenged, disputes, ledger>>
-----------------------------------------------------------------------------
Configure(caller) ==
    \/ \E route \in Route, secs \in LockChoices : SetLockPeriod(caller, route, secs)
    \/ \E collector \in Collectors, bps \in BpsChoices :
          SetFeeConfig(caller, collector, bps)
    \/ \E list \in ApproverLists :
          \E threshold \in 0 .. Len(list) : SetApprovers(caller, list, threshold)
    \/ \E guardian \in Guardians : SetBreakerGuardian(caller, guardian)

Guard(caller) ==
    \/ \E paused \in BOOLEAN : SetEmergencyPause(caller, paused)
    \/ TripCircuitBreaker(caller)
    \/ ResetCircuitBreaker(caller)

Dispute(caller, id) ==
    \/ \E verified \in BOOLEAN : SyncVerification(caller, id, verified)
    \/ ChallengeEscrow(id)
    \/ \E release_allowed \in BOOLEAN : ResolveChallenge(caller, id, release_allowed)

Settle(caller, id) ==
    \/ \E amount \in Payments : ReleaseEscrow(caller, id, amount)
    \/ RefundEscrow(caller, id)
    \/ \E secs \in LockChoices : ExtendLock(caller, id, secs)
    \/ \E amount \in Payments : EmergencyRecover(caller, id, amount)

Batches == UNION {[1 .. n -> EscrowId] : n \in 2 .. MaxBatch}

Next ==
    \/ \E parties \in Parties, route \in Route, amount \in Amounts :
          CreateEscrow(parties, route, amount)
    \/ \E caller \in Address :
          \/ Configure(caller)
          \/ Guard(caller)
          \/ \E id \in EscrowId : Dispute(caller, id) \/ Settle(caller, id)
          \/ \E ids \in Batches, amount \in Payments :
                BatchRelease(caller, ids, amount)
          \/ \E amount \in Collections : CollectFees(caller, amount)
    \/ Tick

Spec == Init /\ [][Next]_vars
-----------------------------------------------------------------------------
\* Each variable holds values of its type; ids past the counter have no record.
TypeOK ==
    /\ now \in Seconds
    /\ fee_collector \in Address /\ fee_bps \in 0 .. MaxFeeBps
    /\ approvers \in Seq(Address) /\ ValidPanel(approvers, approval_threshold)
    /\ escrow_seq \in 0 .. MaxEscrows
    /\ emergency_pause \in BOOLEAN
    /\ accrued_fees \in Nat
    /\ breaker_guardian \in Address /\ breaker_tripped \in BOOLEAN
    /\ lock_period \in [Route -> Seconds]
    /\ escrows \in [EscrowId -> EscrowDeposit]
    /\ \A id \in EscrowId : Exists(id) <=> id < escrow_seq
    /\ challenged \subseteq EscrowId
    /\ disputes \in [EscrowId -> DisputeResolution]
    /\ paid \in [EscrowId -> Payouts]
    /\ collected \in Nat

\* However releases, batches, refunds and emergency recoveries interleave, an
\* open escrow still owes something and has refunded nothing; releases and refunds
\* together pay at most the deposit less the fee, and exactly that once the escrow
\* closed without an emergency recovery.  released_amount counts what left the
\* escrow other than as a refund, and that is never more than the deposit.
ExactSettlement ==
    \A id \in EscrowId :
        LET e == escrows[id]
            settled == paid[id].released + paid[id].refunded
        IN  /\ e.released_amount = paid[id].released + paid[id].recovered
            /\ e.released_amount <= e.amount
            /\ settled <= Releasable(e)
            /\ e.status \in Open =>
                  e.released_amount < Releasable(e) /\ paid[id].refunded = 0
            /\ e.status = "Released" /\ paid[id].recovered = 0 =>
                  settled = Releasable(e) /\ paid[id].refunded = 0
            /\ e.status = "Refunded" /\ paid[id].recovered = 0 =>
                  settled = Releasable(e)

\* Whatever set_approvers does meanwhile, a dispute is resolved exactly when as
\* many distinct approvers agreed as the panel asked for at its first vote; and a
\* challenged escrow is pending again, or released without an emergency recovery,
\* only after a dispute resolved in favour of release.
DisputeQuorum ==
    /\ \A id \in EscrowId :
          HasDispute(id) =>
              /\ id \in challenged
              /\ disputes[id].approvals # {}
              /\ disputes[id].resolved <=>
                    Cardinality(disputes[id].approvals) >= disputes[id].required_approvals
    /\ \A id \in challenged :
          \/ escrows[id].status = "Pending"
          \/ escrows[id].status = "Released" /\ paid[id].recovered = 0
          => disputes[id].resolved /\ disputes[id].decision_release

\* A refund has a reason that still shows: the escrow is not verified, or the
\* panel upheld its challenge.
RefundJustified ==
    \A id \in EscrowId :
        paid[id].refunded > 0 =>
            \/ ~escrows[id].verified
            \/ id \in challenged /\ disputes[id].resolved /\ ~disputes[id].decision_release

Total(amount(_)) == SumFunction([id \in EscrowId |-> amount(id)])

\* Fees accrued and collected are the fees of the escrows created, under every
\* change of the rate; and all that is released, refunded or set aside as a fee is
\* within all that was deposited, and so is all that is released or recovered.  The
\* three together are not: a recovery looks at neither refunds nor fees.
FundsConserved ==
    LET settled(id) == paid[id].released + paid[id].refunded
        taken(id) == paid[id].released + paid[id].recovered
        fee(id) == escrows[id].fee_total
        deposit(id) == escrows[id].amount
    IN  /\ accrued_fees + collected = Total(fee)
        /\ Total(settled) + accrued_fees + collected <= Total(deposit)
        /\ Total(taken) <= Total(deposit)

\* No call, single or batch, releases or refunds while the contract is paused or
\* its breaker tripped; what it releases is verified and out of its lock, with the
\* extensions, and not under challenge; a recovery pays only under the pause.
SettlementGated ==
    [][\A id \in EscrowId :
          /\ paid'[id].released + paid'[id].refunded > paid[id].released + paid[id].refunded
                => ~emergency_pause /\ ~breaker_tripped
          /\ paid'[id].released > paid[id].released =>
                /\ escrows[id].verified
                /\ escrows[id].lock_until <= now
                /\ escrows[id].status = "Pending"
          /\ paid'[id].recovered > paid[id].recovered => emergency_pause]_vars

\* The first vote of a dispute settles what is decided and how many must agree:
\* later votes only add approvers, and a resolved dispute is never touched.
DecisionStable ==
    [][\A id \in EscrowId :
          HasDispute(id) =>
              /\ disputes'[id].decision_release = disputes[id].decision_release
              /\ disputes'[id].required_approvals = disputes[id].required_approvals
              /\ disputes[id].approvals \subseteq disputes'[id].approvals
              /\ disputes[id].resolved => disputes'[id] = disputes[id]]_vars

\* The records after the single releases of a batch, one after the other, as the
\* loop of batch_release makes them.
OneByOne(ids, amount) ==
    LET after[k \in 0 .. Len(ids)] ==
            IF k = 0 THEN escrows
            ELSE [after[k - 1] EXCEPT ![ids[k]] = PayOut(@, amount)]
    IN  after

\* A batch has the effect of its releases made one by one, each one allowed when
\* its turn comes.
BatchIsSequence ==
    [][\A caller \in Address, ids \in Batches, amount \in Payments :
          BatchRelease(caller, ids, amount) =>
              LET after == OneByOne(ids, amount)
              IN  /\ escrows' = after[Len(ids)]
                  /\ \A k \in DOMAIN ids : CanRelease(after[k - 1][ids[k]], caller, amount)]_vars
-----------------------------------------------------------------------------
\* The promise of the contract, Settlement, with the mapping of its variables.
Stage(id) ==
    IF escrows[id].status = "None" THEN "none"
    ELSE IF escrows[id].status = "Challenged" THEN "frozen"
    ELSE IF escrows[id].status \in Terminal THEN "closed"
    ELSE IF id \in challenged THEN "cleared" ELSE "fresh"

Owed(id) ==
    IF escrows[id].status \in Open
    THEN Releasable(escrows[id]) - escrows[id].released_amount ELSE 0

Promise == INSTANCE Settlement WITH
    Id <- EscrowId,
    stage <- [id \in EscrowId |-> Stage(id)],
    owed <- [id \in EscrowId |-> Owed(id)],
    received <- [id \in EscrowId |-> paid[id].released],
    returned <- [id \in EscrowId |-> paid[id].refunded]

\* The escrow contract implements the settlement promise.
KeepsPromise == Promise!Spec

\* What escrow_contract_fuzz.rs asserts after every call: an escrow never shows
\* both a completed release and a refund.
NeverBothReleasedAndRefunded ==
    \A id \in EscrowId : ~(escrows[id].status = "Released" /\ paid[id].refunded > 0)

=============================================================================
