------------------------- MODULE TransferStateMachine -------------------------
(***************************************************************************)
(* The cross-chain transfer state machine, transfer_state_machine/src/     *)
(* lib.rs.                                                                 *)
(*                                                                         *)
(* A call is one action: it panics, and then writes nothing, when a        *)
(* conjunct of its guard is false.  Ledger timestamps are 64 bits wide and *)
(* their addition is checked: a call that would compute a deadline past    *)
(* U64Max panics.                                                          *)
(*                                                                         *)
(* Left out: bridge type, asset, amount, destination, the time stamps      *)
(* nothing reads (created_at, updated_at) and, of a history row, the time, *)
(* the actor and the note.  The variable overridden records the transfers  *)
(* an administrator moved by admin_override_state; no action reads it.     *)
(***************************************************************************)
EXTENDS Integers, Sequences

CONSTANTS
    Address,            \* every account and contract that may call
    Admin,              \* the administrator passed to initialize
    Initiators,         \* who starts transfers
    Contracts,          \* addresses passed to set_integration_contracts
    MaxTransfers,       \* bound: transfers started
    MaxHistory,         \* MAX_HISTORY_PER_TRANSFER
    SeededTimeouts,     \* seed_default_timeouts: seconds for each live state
    Retimed,            \* bound: the states set_state_timeout is called for
    TimeoutChoices,     \* seconds passed to the two timeout setters
    DefaultTimeout,     \* the default initialize stores
    U64Max              \* the largest u64

Mode == {"Standard", "FastTrack", "Insured"}

\* The states a transfer passes through on its way.
InFlight == {"Initiated", "AwaitingSource", "EscrowPending", "EscrowLocked",
             "VerificationPending", "OraclePending", "ReleasePending"}
Live == InFlight \cup {"RollingBack"}
Terminal == {"Completed", "Failed", "RolledBack", "TimedOut"}
TransferState == Live \cup Terminal

TransferId == 1 .. MaxTransfers
Seconds == 0 .. U64Max

ASSUME TransferAssumption ==
    /\ Admin \in Address
    /\ Initiators \subseteq Address /\ Contracts \subseteq Address
    /\ MaxTransfers \in Nat /\ MaxHistory \in Nat /\ U64Max \in Nat
    /\ SeededTimeouts \in [Live -> Seconds]
    /\ Retimed \subseteq Live
    /\ TimeoutChoices \subseteq Seconds
    /\ DefaultTimeout \in Seconds

VARIABLES
    now,                        \* ledger timestamp
    transfer_seq,               \* the id of the last transfer
    transfers,                  \* BridgeTransfer of each id
    history,                    \* rows of each id, oldest first
    timeouts,                   \* Timeout(state); every live state has one
    default_timeout,            \* for the states without: no live one
    escrow_contract, verifier_contract, oracle_contract,
    overridden

integration == <<escrow_contract, verifier_contract, oracle_contract>>
settings == <<timeouts, default_timeout, integration>>
vars == <<now, transfer_seq, transfers, history, timeouts, default_timeout,
          escrow_contract, verifier_contract, oracle_contract, overridden>>

\* A transfer not started yet has state "None".
BridgeTransfer ==
    [initiator : Address, mode : Mode, state : TransferState \cup {"None"},
     state_deadline : Seconds, verification_ok : BOOLEAN, oracle_ok : BOOLEAN]

NoTransfer == [initiator |-> Admin, mode |-> "Standard", state |-> "None",
               state_deadline |-> 0, verification_ok |-> FALSE, oracle_ok |-> FALSE]

Row == [from_state : TransferState, to_state : TransferState]
RowOf(from, to) == [from_state |-> from, to_state |-> to]

State(id) == transfers[id].state
-----------------------------------------------------------------------------
\* The edges of the happy path that need nothing but the caller's right.
FreeEdges ==
    {<<"Initiated", "AwaitingSource">>, <<"AwaitingSource", "EscrowPending">>,
     <<"EscrowPending", "EscrowLocked">>, <<"EscrowLocked", "VerificationPending">>,
     <<"ReleasePending", "Completed">>, <<"RollingBack", "RolledBack">>}

\* Mutant: the oracle's answer is not asked for.
TransitionAllowed_NoOracle(t, to) ==
    \/ <<t.state, to>> \in FreeEdges \cup {<<"OraclePending", "ReleasePending">>}
    \/ t.state = "Initiated" /\ to = "EscrowPending" /\ t.mode = "FastTrack"
    \/ t.state = "VerificationPending" /\ to = "OraclePending" /\ t.verification_ok
    \/ t.state \in InFlight /\ to \in {"Failed", "TimedOut", "RollingBack"}

TransitionAllowed(t, to) ==
    \/ <<t.state, to>> \in FreeEdges
    \/ t.state = "Initiated" /\ to = "EscrowPending" /\ t.mode = "FastTrack"
    \/ t.state = "VerificationPending" /\ to = "OraclePending" /\ t.verification_ok
    \/ t.state = "OraclePending" /\ to = "ReleasePending" /\ t.oracle_ok
    \/ t.state \in InFlight /\ to \in {"Failed", "TimedOut", "RollingBack"}

OverrideEdges ==
    {<<"TimedOut", "Failed">>, <<"TimedOut", "RolledBack">>,
     <<"TimedOut", "EscrowLocked">>, <<"TimedOut", "ReleasePending">>,
     <<"Failed", "RollingBack">>, <<"OraclePending", "ReleasePending">>,
     <<"VerificationPending", "OraclePending">>}

\* Who may make an edge by advance_state.
AdvanceAuth(t, caller, to) ==
    \/ caller = Admin
    \/ IF t.state = "EscrowPending" /\ to = "EscrowLocked"
       THEN caller = escrow_contract ELSE caller = t.initiator

\* Mutant: no room is checked for the deadline.
CanEnter_Unchecked(to) == TRUE

\* A deadline is computed, and can overflow, on entering a live state.
CanEnter(to) == to \in Live => now + timeouts[to] <= U64Max

\* The record once apply_transition moved it to state `to'.
Entered(t, to) ==
    [t EXCEPT !.state = to,
              !.state_deadline = IF to \in Live THEN now + timeouts[to] ELSE @]

\* apply_transition: move and log, unless the log is full.
ApplyTransition(id, to) ==
    /\ CanEnter(to)
    /\ Len(history[id]) < MaxHistory
    /\ transfers' = [transfers EXCEPT ![id] = Entered(@, to)]
    /\ history' = [history EXCEPT ![id] = Append(@, RowOf(State(id), to))]
-----------------------------------------------------------------------------
\* initialize: until set_integration_contracts the administrator stands for the
\* three contracts.
Init ==
    /\ now = 0
    /\ transfer_seq = 0
    /\ transfers = [id \in TransferId |-> NoTransfer]
    /\ history = [id \in TransferId |-> <<>>]
    /\ timeouts = SeededTimeouts
    /\ default_timeout = DefaultTimeout
    /\ escrow_contract = Admin
    /\ verifier_contract = Admin
    /\ oracle_contract = Admin
    /\ overridden = {}

SetIntegrationContracts(caller, escrow, verifier, oracle) ==
    /\ caller = Admin
    /\ escrow_contract' = escrow
    /\ verifier_contract' = verifier
    /\ oracle_contract' = oracle
    /\ UNCHANGED <<now, transfer_seq, transfers, history, timeouts, default_timeout,
                   overridden>>

\* The default is for states without a timeout of their own; after initialize
\* only terminal states are, and their timeout is never used.
SetDefaultTimeout(caller, secs) ==
    /\ caller = Admin
    /\ secs # 0
    /\ default_timeout' = secs
    /\ UNCHANGED <<now, transfer_seq, transfers, history, timeouts, integration,
                   overridden>>

SetStateTimeout(caller, state, secs) ==
    /\ caller = Admin
    /\ secs # 0
    /\ timeouts' = [timeouts EXCEPT ![state] = secs]
    /\ UNCHANGED <<now, transfer_seq, transfers, history, default_timeout, integration,
                   overridden>>

InitiateTransfer(initiator, mode) ==
    LET id == transfer_seq + 1
    IN  /\ transfer_seq < MaxTransfers
        /\ CanEnter("Initiated")
        /\ transfer_seq' = id
        /\ transfers' = [transfers EXCEPT ![id] =
              [initiator |-> initiator, mode |-> mode, state |-> "Initiated",
               state_deadline |-> now + timeouts["Initiated"],
               verification_ok |-> FALSE, oracle_ok |-> FALSE]]
        /\ UNCHANGED <<now, history, settings, overridden>>

AdvanceState(caller, id, next) ==
    /\ TransitionAllowed(transfers[id], next)
    /\ AdvanceAuth(transfers[id], caller, next)
    /\ ApplyTransition(id, next)
    /\ UNCHANGED <<now, transfer_seq, settings, overridden>>

\* Mutant: the release stage is not timed.
HandleTimeout_NotRelease(id) ==
    /\ State(id) \in Live \ {"ReleasePending"}
    /\ now > transfers[id].state_deadline
    /\ TransitionAllowed(transfers[id], "TimedOut")
    /\ ApplyTransition(id, "TimedOut")
    /\ UNCHANGED <<now, transfer_seq, settings, overridden>>

\* Anyone records a timeout; on a terminal transfer the call does nothing.
HandleTimeout(id) ==
    /\ State(id) \in Live
    /\ now > transfers[id].state_deadline
    /\ TransitionAllowed(transfers[id], "TimedOut")
    /\ ApplyTransition(id, "TimedOut")
    /\ UNCHANGED <<now, transfer_seq, settings, overridden>>

\* Mutant: the second row repeats the state the rollback started from.
RollbackTransfer_SameFrom(caller, id) ==
    LET from == State(id)
    IN  /\ caller \in {transfers[id].initiator, Admin}
        /\ from \in InFlight
        /\ CanEnter("RollingBack")
        /\ Len(history[id]) + 2 <= MaxHistory
        /\ transfers' = [transfers EXCEPT ![id] =
                           Entered(Entered(@, "RollingBack"), "RolledBack")]
        /\ history' = [history EXCEPT ![id] =
                         Append(Append(@, RowOf(from, "RollingBack")),
                                RowOf(from, "RolledBack"))]
        /\ UNCHANGED <<now, transfer_seq, settings, overridden>>

\* Two transitions in one call: when the log has no room for both, neither is made.
RollbackTransfer(caller, id) ==
    LET from == State(id)
    IN  /\ caller \in {transfers[id].initiator, Admin}
        /\ from \in InFlight
        /\ CanEnter("RollingBack")
        /\ Len(history[id]) + 2 <= MaxHistory
        /\ transfers' = [transfers EXCEPT ![id] =
                           Entered(Entered(@, "RollingBack"), "RolledBack")]
        /\ history' = [history EXCEPT ![id] =
                         Append(Append(@, RowOf(from, "RollingBack")),
                                RowOf("RollingBack", "RolledBack"))]
        /\ UNCHANGED <<now, transfer_seq, settings, overridden>>

\* Mutant: a failed transfer is open to the override, which has an edge for it.
Overridable_Failed(state) == state \notin {"Completed", "RolledBack"}

\* admin_override_state refuses the true finals, though its table names Failed.
Overridable(state) == state \notin {"Completed", "Failed", "RolledBack"}

AdminOverrideState(caller, id, next) ==
    /\ caller = Admin
    /\ Overridable(State(id))
    /\ <<State(id), next>> \in OverrideEdges
    /\ ApplyTransition(id, next)
    /\ overridden' = overridden \cup {id}
    /\ UNCHANGED <<now, transfer_seq, settings>>

SubmitVerificationResult(caller, id, ok) ==
    /\ caller = verifier_contract
    /\ State(id) = "VerificationPending"
    /\ transfers' = [transfers EXCEPT ![id].verification_ok = ok]
    /\ UNCHANGED <<now, transfer_seq, history, settings, overridden>>

SubmitOracleResult(caller, id, ok) ==
    /\ caller = oracle_contract
    /\ State(id) = "OraclePending"
    /\ transfers' = [transfers EXCEPT ![id].oracle_ok = ok]
    /\ UNCHANGED <<now, transfer_seq, history, settings, overridden>>

\* Anyone moves a verified transfer on to the oracle, or one the oracle accepted
\* on to release; in every other state the call does nothing.
TryAutoProgress(id) ==
    \E edge \in {<<"VerificationPending", "OraclePending">>,
                 <<"OraclePending", "ReleasePending">>} :
        /\ State(id) = edge[1]
        /\ TransitionAllowed(transfers[id], edge[2])
        /\ ApplyTransition(id, edge[2])
        /\ UNCHANGED <<now, transfer_seq, settings, overridden>>

Tick ==
    /\ now < U64Max
    /\ now' = now + 1
    /\ UNCHANGED <<transfer_seq, transfers, history, settings, overridden>>
-----------------------------------------------------------------------------
Configure(caller) ==
    \/ \E escrow, verifier, oracle \in Contracts :
          SetIntegrationContracts(caller, escrow, verifier, oracle)
    \/ \E secs \in TimeoutChoices : SetDefaultTimeout(caller, secs)
    \/ \E state \in Retimed, secs \in TimeoutChoices : SetStateTimeout(caller, state, secs)

Drive(caller, id) ==
    \/ \E next \in TransferState : AdvanceState(caller, id, next)
    \/ RollbackTransfer(caller, id)
    \/ \E next \in TransferState : AdminOverrideState(caller, id, next)
    \/ \E ok \in BOOLEAN : SubmitVerificationResult(caller, id, ok)
    \/ \E ok \in BOOLEAN : SubmitOracleResult(caller, id, ok)

Next ==
    \/ \E initiator \in Initiators, mode \in Mode : InitiateTransfer(initiator, mode)
    \/ \E caller \in Address :
          Configure(caller) \/ \E id \in TransferId : Drive(caller, id)
    \/ \E id \in TransferId : HandleTimeout(id) \/ TryAutoProgress(id)
    \/ Tick

Spec == Init /\ [][Next]_vars

\* Time passes, and since anyone may record a timeout someone does.
Fairness == WF_vars(Tick) /\ \A id \in TransferId : WF_vars(HandleTimeout(id))

FairSpec == Spec /\ Fairness
-----------------------------------------------------------------------------
\* Each variable holds values of its type, deadlines included, and ids are handed
\* out in order.
TypeOK ==
    /\ now \in Seconds
    /\ transfer_seq \in 0 .. MaxTransfers
    /\ transfers \in [TransferId -> BridgeTransfer]
    /\ \A id \in TransferId : State(id) = "None" <=> id > transfer_seq
    /\ history \in [TransferId -> Seq(Row)]
    /\ \A id \in TransferId : Len(history[id]) <= MaxHistory
    /\ timeouts \in [Live -> Seconds]
    /\ default_timeout \in Seconds
    /\ escrow_contract \in Address
    /\ verifier_contract \in Address
    /\ oracle_contract \in Address
    /\ overridden \subseteq TransferId

\* The log tells a transfer's whole life: it begins at Initiated, each row starts
\* where the one before ended, and the last one ends in the present state, also
\* across rollbacks, which log two rows at once, and overrides of a timeout.
AuditTrail ==
    \A id \in TransferId :
        LET rows == history[id]
        IN  /\ \A k \in 2 .. Len(rows) : rows[k].from_state = rows[k - 1].to_state
            /\ rows # <<>> => /\ rows[1].from_state = "Initiated"
                              /\ rows[Len(rows)].to_state = State(id)
            /\ State(id) # "None" /\ rows = <<>> => State(id) = "Initiated"

Visited(id, state) == \E k \in DOMAIN history[id] : history[id][k].to_state = state

\* A transfer ready for release, or completed, without the administrator's override
\* was locked in escrow, verified and accepted by the oracle, and the last verdict
\* of each was positive.
ReleaseCleared ==
    \A id \in TransferId :
        State(id) \in {"ReleasePending", "Completed"} /\ id \notin overridden =>
            /\ Visited(id, "EscrowLocked")
            /\ Visited(id, "VerificationPending") /\ transfers[id].verification_ok
            /\ Visited(id, "OraclePending") /\ transfers[id].oracle_ok

\* A transfer that completed, failed or was rolled back never changes again,
\* whoever calls; nor does its log.
FinalForever ==
    [][\A id \in TransferId :
          State(id) \in {"Completed", "Failed", "RolledBack"} =>
              transfers'[id] = transfers[id] /\ history'[id] = history[id]]_vars

\* No transfer is stranded in a stage: it moves on or is timed out, unless its log
\* is full or its deadline the end of time.  A rollback in progress is not timed.
NeverStranded ==
    \A id \in TransferId, n \in 0 .. MaxHistory - 1 :
        /\ State(id) \in TransferState \ (Terminal \cup {"RollingBack"})
        /\ Len(history[id]) = n
        /\ transfers[id].state_deadline < U64Max
        ~> Len(history[id]) > n
=============================================================================
