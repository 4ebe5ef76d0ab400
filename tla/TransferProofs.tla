---------------------------- MODULE TransferProofs ----------------------------
(***************************************************************************)
(* Proofs about the transfers, for every value of the constants: about     *)
(* module TransferStateMachine, and about the RateLimiter that says how    *)
(* much of them a user may make.  The two contracts call nothing of each   *)
(* other and share no state; they only read the same clock.                *)
(***************************************************************************)
EXTENDS TransferStateMachine, FiniteSets, FiniteSetTheorems, SumTheorems, TLAPS

CONSTANTS
    User, Length, DefaultLimits, DefaultGlobal, DefaultCooldown, LimitChoices,
    GlobalChoices, CooldownChoices, RiskChoices, AnomalyChoices, ReductionChoices, Tenure,
    MaxDays, Amounts, MaxUses, MaxChanges, MaxBreaches, MaxTrips, MaxNow

VARIABLES
    default_limits, global_limits, cooldown_duration, emergency_mode, anomaly_score,
    tripped, trip_count, user_limits, whitelisted, risk, usage, global_usage, use_history,
    spent, limiter_changes

Limiter == INSTANCE RateLimiter WITH MaxHistory <- MaxDays, history <- use_history
-----------------------------------------------------------------------------
(***************************************************************************)
(* Transfer state machine.                                                 *)
(***************************************************************************)

\* The invariants, of one transfer.
TrailOK(id) ==
    LET rows == history[id]
    IN  /\ \A k \in 2 .. Len(rows) : rows[k].from_state = rows[k - 1].to_state
        /\ rows # <<>> => /\ rows[1].from_state = "Initiated"
                          /\ rows[Len(rows)].to_state = State(id)
        /\ State(id) # "None" /\ rows = <<>> => State(id) = "Initiated"

\* What a transfer has behind it in each stage after the lock, when nobody
\* overrode it: the strengthening ReleaseCleared needs.
Progress(id) ==
    id \notin overridden =>
        /\ State(id) \in {"EscrowLocked", "VerificationPending", "OraclePending",
                          "ReleasePending", "Completed"} => Visited(id, "EscrowLocked")
        /\ State(id) \in {"VerificationPending", "OraclePending", "ReleasePending",
                          "Completed"} => Visited(id, "VerificationPending")
        /\ State(id) \in {"OraclePending", "ReleasePending", "Completed"} =>
              Visited(id, "OraclePending") /\ transfers[id].verification_ok
        /\ State(id) \in {"ReleasePending", "Completed"} => transfers[id].oracle_ok

NotStarted(id) == State(id) = "None" => history[id] = <<>>

TransferOK(id) == TrailOK(id) /\ Progress(id) /\ NotStarted(id)

\* The inductive invariant.
IInv == TypeOK /\ \A id \in TransferId : TransferOK(id)

\* What a step that leaves one transfer alone keeps of it.
Same(id) ==
    /\ transfers'[id] = transfers[id]
    /\ history'[id] = history[id]
    /\ id \in overridden => id \in overridden'

\* The invariant implies what the run checks.
LEMMA IInvImplies == IInv => TypeOK /\ AuditTrail /\ ReleaseCleared
<1>1. IInv => AuditTrail
  BY DEF IInv, TransferOK, TrailOK, AuditTrail
<1>2. IInv => ReleaseCleared
  BY DEF IInv, TransferOK, Progress, ReleaseCleared
<1>3. QED
  BY <1>1, <1>2 DEF IInv

\* A step that leaves the transfers alone keeps the invariant.
LEMMA SameKeeps ==
    ASSUME NEW id \in TransferId, TransferOK(id), Same(id)
    PROVE  TransferOK(id)'
BY DEF TransferOK, Same, TrailOK, Progress, NotStarted, State, Visited

\* With no transfer the invariant holds.
LEMMA InitIInv == Init => IInv
<1> SUFFICES ASSUME Init PROVE IInv
  OBVIOUS
<1> USE TransferAssumption
<1>1. NoTransfer \in BridgeTransfer /\ NoTransfer.state = "None"
  BY DEF NoTransfer, BridgeTransfer, Mode, Seconds
<1>2. TypeOK
  BY <1>1 DEF Init, TypeOK, State, TransferId, Seconds
<1>3. ASSUME NEW id \in TransferId PROVE TransferOK(id)
  <2>1. State(id) = "None" /\ history[id] = <<>>
    BY <1>1 DEF Init, State
  <2>2. QED
    BY <2>1 DEF TransferOK, TrailOK, Progress, NotStarted
<1>4. QED
  BY <1>2, <1>3 DEF IInv

-----------------------------------------------------------------------------
\* One more row, which starts in the present state, keeps the trail and whatever
\* was visited.
LEMMA OneMoreRow ==
    ASSUME NEW rows \in Seq(Row), NEW from \in TransferState, NEW to \in TransferState,
           \A k \in 2 .. Len(rows) : rows[k].from_state = rows[k - 1].to_state,
           rows # <<>> => rows[1].from_state = "Initiated" /\ rows[Len(rows)].to_state = from,
           rows = <<>> => from = "Initiated",
           NEW longer, longer = Append(rows, RowOf(from, to))
    PROVE  /\ longer \in Seq(Row) /\ longer # <<>>
           /\ Len(longer) = Len(rows) + 1
           /\ \A k \in 2 .. Len(longer) : longer[k].from_state = longer[k - 1].to_state
           /\ longer[1].from_state = "Initiated" /\ longer[Len(longer)].to_state = to
           /\ \A k \in DOMAIN rows : k \in DOMAIN longer /\ longer[k] = rows[k]
           /\ Len(longer) \in DOMAIN longer
<1>1. RowOf(from, to) \in Row /\ RowOf(from, to).from_state = from
      /\ RowOf(from, to).to_state = to
  BY DEF RowOf, Row
<1>2. /\ longer \in Seq(Row) /\ Len(longer) = Len(rows) + 1 /\ Len(rows) \in Nat
      /\ \A k \in 1 .. Len(rows) : longer[k] = rows[k]
      /\ longer[Len(rows) + 1] = RowOf(from, to)
      /\ DOMAIN longer = 1 .. Len(rows) + 1 /\ DOMAIN rows = 1 .. Len(rows)
      /\ rows = <<>> <=> Len(rows) = 0
  BY <1>1
<1> HIDE DEF Row, RowOf
<1>3. ASSUME NEW k \in 2 .. Len(longer) PROVE longer[k].from_state = longer[k - 1].to_state
  <2>1. CASE k = Len(rows) + 1
    <3>1. rows # <<>> /\ k - 1 = Len(rows) /\ k - 1 \in 1 .. Len(rows)
      BY <1>2, <2>1
    <3>2. QED
      BY <1>1, <1>2, <2>1, <3>1
  <2>2. CASE k # Len(rows) + 1
    <3>1. k \in 2 .. Len(rows) /\ k \in 1 .. Len(rows) /\ k - 1 \in 1 .. Len(rows)
      BY <1>2, <2>2
    <3>2. QED
      BY <1>2, <3>1
  <2>3. QED
    BY <2>1, <2>2
<1>4. longer[1].from_state = "Initiated"
  <2>1. CASE rows = <<>>
    BY <1>1, <1>2, <2>1
  <2>2. CASE rows # <<>>
    BY <1>2, <2>2
  <2>3. QED
    BY <2>1, <2>2
<1>5. QED
  BY <1>1, <1>2, <1>3, <1>4

\* To keep the invariant, a call on one started transfer keeps the types of its
\* record and log, and the facts about it.
LEMMA OneTransfer ==
    ASSUME IInv, NEW id \in TransferId, NEW t \in BridgeTransfer, NEW rows \in Seq(Row),
           State(id) # "None", t.state # "None", Len(rows) <= MaxHistory,
           transfers' = [transfers EXCEPT ![id] = t],
           history' = [history EXCEPT ![id] = rows],
           overridden \subseteq overridden', overridden' \subseteq TransferId,
           UNCHANGED <<now, transfer_seq, settings>>, TransferOK(id)'
    PROVE  IInv'
<1>1. TypeOK /\ \A i \in TransferId : TransferOK(i)
  BY DEF IInv
<1>2. transfers'[id] = t /\ history'[id] = rows
  BY <1>1 DEF TypeOK
<1>3. \A i \in TransferId : i # id => transfers'[i] = transfers[i] /\ history'[i] = history[i]
  BY <1>1 DEF TypeOK
<1>4. TypeOK'
  <2>1. \A i \in TransferId : State(i)' = "None" <=> i > transfer_seq
    <3>1. State(id)' # "None" /\ ~(id > transfer_seq)
      BY <1>1, <1>2 DEF TypeOK, State
    <3>2. \A i \in TransferId : i # id => State(i)' = State(i)
      BY <1>3 DEF State
    <3>3. QED
      BY <1>1, <3>1, <3>2 DEF TypeOK
  <2>2. \A i \in TransferId : Len(history'[i]) <= MaxHistory
    BY <1>1, <1>2, <1>3 DEF TypeOK
  <2>3. transfers' \in [TransferId -> BridgeTransfer] /\ history' \in [TransferId -> Seq(Row)]
    BY <1>1 DEF TypeOK
  <2>4. QED
    BY <1>1, <2>1, <2>2, <2>3 DEF TypeOK, settings, integration
<1>5. ASSUME NEW i \in TransferId PROVE TransferOK(i)'
  <2>1. CASE i = id
    BY <2>1
  <2>2. CASE i # id
    BY <1>1, <1>3, <2>2, SameKeeps DEF Same
  <2>3. QED
    BY <2>1, <2>2
<1>6. QED
  BY <1>4, <1>5 DEF IInv

\* A deadline entering computes fits its 64 bits.
LEMMA EnteredType ==
    ASSUME TypeOK, NEW t \in BridgeTransfer, NEW to \in TransferState, CanEnter(to)
    PROVE  /\ Entered(t, to) \in BridgeTransfer
           /\ Entered(t, to).state = to
           /\ Entered(t, to).verification_ok = t.verification_ok
           /\ Entered(t, to).oracle_ok = t.oracle_ok
<1> DEFINE deadline == IF to \in Live THEN now + timeouts[to] ELSE t.state_deadline
           f == [t EXCEPT !.state = to, !.state_deadline = deadline]
<1>1. Entered(t, to) = f
  BY DEF Entered
<1>2. deadline \in Seconds
  BY TransferAssumption DEF TypeOK, CanEnter, Seconds, BridgeTransfer
<1> HIDE DEF deadline
<1>3. f \in BridgeTransfer /\ f.state = to /\ f.verification_ok = t.verification_ok
      /\ f.oracle_ok = t.oracle_ok
  BY <1>2 DEF BridgeTransfer
<1>4. QED
  BY <1>1, <1>3

\* A transition, by the table or by the administrator, keeps the invariant.
LEMMA MoveKeeps ==
    ASSUME IInv, NEW id \in TransferId, NEW to \in TransferState,
           State(id) \in TransferState, ApplyTransition(id, to),
           id \notin overridden' => TransitionAllowed(transfers[id], to),
           overridden \subseteq overridden', overridden' \subseteq TransferId,
           UNCHANGED <<now, transfer_seq, settings>>
    PROVE  IInv'
<1> DEFINE t == Entered(transfers[id], to)
           rows == Append(history[id], RowOf(State(id), to))
<1>1. /\ TypeOK /\ TransferOK(id) /\ transfers[id] \in BridgeTransfer
      /\ history[id] \in Seq(Row)
  BY DEF IInv, TypeOK
<1>2. /\ t \in BridgeTransfer /\ t.state = to
      /\ t.verification_ok = transfers[id].verification_ok
      /\ t.oracle_ok = transfers[id].oracle_ok
  BY <1>1, EnteredType DEF ApplyTransition
<1>3. /\ transfers' = [transfers EXCEPT ![id] = t] /\ history' = [history EXCEPT ![id] = rows]
      /\ Len(history[id]) < MaxHistory
  BY DEF ApplyTransition
<1>4. /\ rows \in Seq(Row) /\ rows # <<>> /\ Len(rows) = Len(history[id]) + 1
      /\ \A k \in 2 .. Len(rows) : rows[k].from_state = rows[k - 1].to_state
      /\ rows[1].from_state = "Initiated" /\ rows[Len(rows)].to_state = to
      /\ \A k \in DOMAIN history[id] : k \in DOMAIN rows /\ rows[k] = history[id][k]
      /\ Len(rows) \in DOMAIN rows
  <2>1. State(id) # "None"
    BY DEF TransferState, Live, InFlight, Terminal
  <2> DEFINE old == history[id]
             from == State(id)
  <2>2. /\ \A k \in 2 .. Len(old) : old[k].from_state = old[k - 1].to_state
        /\ old # <<>> => old[1].from_state = "Initiated" /\ old[Len(old)].to_state = from
        /\ old = <<>> => from = "Initiated"
    BY <1>1, <2>1 DEF TransferOK, TrailOK
  <2>3. old \in Seq(Row) /\ from \in TransferState
    BY <1>1
  <2>4. rows = Append(old, RowOf(from, to))
    OBVIOUS
  <2> HIDE DEF old, from, rows
  <2>5. /\ rows \in Seq(Row) /\ rows # <<>> /\ Len(rows) = Len(old) + 1
        /\ \A k \in 2 .. Len(rows) : rows[k].from_state = rows[k - 1].to_state
        /\ rows[1].from_state = "Initiated" /\ rows[Len(rows)].to_state = to
        /\ \A k \in DOMAIN old : k \in DOMAIN rows /\ rows[k] = old[k]
        /\ Len(rows) \in DOMAIN rows
    BY <2>2, <2>3, <2>4, OneMoreRow
  <2>6. QED
    BY <2>5 DEF old
<1> HIDE DEF t, rows
<1>5. transfers'[id] = t /\ history'[id] = rows
  BY <1>1, <1>3 DEF TypeOK
<1>6. TrailOK(id)' /\ NotStarted(id)'
  BY <1>2, <1>4, <1>5 DEF TrailOK, NotStarted, State, TransferState, Live, InFlight, Terminal
<1>7. Progress(id)'
  <2>1. \A state : Visited(id, state) => Visited(id, state)'
    BY <1>4, <1>5 DEF Visited
  <2>2. Visited(id, to)'
    BY <1>4, <1>5 DEF Visited
  <2>3. SUFFICES ASSUME id \notin overridden' PROVE Progress(id)'
    BY DEF Progress
  <2>4. Progress(id) /\ TransitionAllowed(transfers[id], to) /\ id \notin overridden
    BY <1>1, <2>3 DEF TransferOK
  <2>5. State(id)' = to
    BY <1>2, <1>5 DEF State
  <2>6. QED
    BY <1>2, <1>5, <2>1, <2>2, <2>4, <2>5
       DEF Progress, TransitionAllowed, FreeEdges, State, InFlight
<1>8. QED
  <2>1. State(id) # "None" /\ t.state # "None"
    BY <1>2 DEF TransferState, Live, InFlight, Terminal
  <2>2. Len(rows) <= MaxHistory
    BY <1>1, <1>3, <1>4, TransferAssumption
  <2>3. TransferOK(id)'
    BY <1>6, <1>7 DEF TransferOK
  <2>4. QED
    BY <1>2, <1>3, <1>4, <2>1, <2>2, <2>3, OneTransfer

-----------------------------------------------------------------------------
\* Initiating a transfer keeps the invariant.
LEMMA InitiateStep ==
    ASSUME IInv, NEW initiator \in Initiators, NEW mode \in Mode,
           InitiateTransfer(initiator, mode)
    PROVE  IInv'
<1>1. TypeOK /\ \A i \in TransferId : TransferOK(i)
  BY DEF IInv
<1>2. PICK id \in TransferId : id = transfer_seq + 1
  BY <1>1, TransferAssumption DEF TypeOK, InitiateTransfer, TransferId
<1> DEFINE t == [initiator |-> initiator, mode |-> mode, state |-> "Initiated",
                 state_deadline |-> now + timeouts["Initiated"],
                 verification_ok |-> FALSE, oracle_ok |-> FALSE]
<1>3. State(id) = "None" /\ history[id] = <<>>
  BY <1>1, <1>2 DEF TypeOK, TransferOK, NotStarted
<1>4. /\ transfers' = [transfers EXCEPT ![id] = t] /\ history' = history
      /\ transfer_seq' = id /\ transfer_seq < MaxTransfers
      /\ UNCHANGED <<now, timeouts, default_timeout, integration, overridden>>
  BY <1>2 DEF InitiateTransfer, settings
<1>5. t \in BridgeTransfer
  <2>1. now + timeouts["Initiated"] \in Seconds
    <3>1. "Initiated" \in Live
      BY DEF Live, InFlight
    <3>2. timeouts["Initiated"] \in 0 .. U64Max /\ now \in 0 .. U64Max
      BY <1>1, <3>1 DEF TypeOK, Seconds
    <3>3. now + timeouts["Initiated"] <= U64Max
      BY <3>1 DEF InitiateTransfer, CanEnter
    <3>4. QED
      BY <3>2, <3>3, TransferAssumption DEF Seconds
  <2>2. QED
    BY <2>1, TransferAssumption DEF BridgeTransfer, TransferState, Live, InFlight
<1>6. t.state = "Initiated"
  OBVIOUS
<1> HIDE DEF t
<1>7. transfers'[id] = t /\ State(id)' = "Initiated"
  BY <1>1, <1>4, <1>6 DEF TypeOK, State
<1>8. \A i \in TransferId : i # id => State(i)' = State(i) /\ transfers'[i] = transfers[i]
  BY <1>1, <1>4 DEF TypeOK, State
<1>9. TypeOK'
  <2>1. \A i \in TransferId : State(i)' = "None" <=> i > transfer_seq'
    BY <1>1, <1>2, <1>4, <1>7, <1>8, TransferAssumption DEF TypeOK, TransferId
  <2>2. transfer_seq' \in 0 .. MaxTransfers
    BY <1>1, <1>2, <1>4, TransferAssumption DEF TypeOK
  <2>3. transfers' \in [TransferId -> BridgeTransfer]
    BY <1>1, <1>4, <1>5 DEF TypeOK
  <2>4. QED
    BY <1>1, <1>4, <2>1, <2>2, <2>3 DEF TypeOK, integration
<1>10. TransferOK(id)'
  BY <1>3, <1>4, <1>7 DEF TransferOK, TrailOK, Progress, NotStarted
<1>11. ASSUME NEW i \in TransferId, i # id PROVE TransferOK(i)'
  BY <1>1, <1>4, <1>8, <1>11, SameKeeps DEF Same
<1>12. QED
  BY <1>9, <1>10, <1>11 DEF IInv

\* An operator advancing a transfer keeps the invariant.
LEMMA AdvanceStep ==
    ASSUME IInv, NEW caller \in Address, NEW id \in TransferId, NEW next \in TransferState,
           AdvanceState(caller, id, next)
    PROVE  IInv'
<1>1. State(id) \in TransferState
  BY DEF AdvanceState, TransitionAllowed, FreeEdges, State, TransferState, Live, InFlight
<1>2. overridden' = overridden /\ overridden \subseteq TransferId
  BY DEF AdvanceState, IInv, TypeOK
<1>3. QED
  BY <1>1, <1>2, MoveKeeps DEF AdvanceState

\* Declaring a timeout keeps the invariant.
LEMMA TimeoutStep ==
    ASSUME IInv, NEW id \in TransferId, HandleTimeout(id)
    PROVE  IInv'
<1>1. State(id) \in TransferState /\ "TimedOut" \in TransferState
  BY DEF HandleTimeout, TransferState, Terminal
<1>2. overridden' = overridden /\ overridden \subseteq TransferId
  BY DEF HandleTimeout, IInv, TypeOK
<1>3. QED
  BY <1>1, <1>2, MoveKeeps DEF HandleTimeout

\* An automatic advance keeps the invariant.
LEMMA AutoStep ==
    ASSUME IInv, NEW id \in TransferId, TryAutoProgress(id)
    PROVE  IInv'
<1>1. PICK next \in TransferState :
         /\ State(id) \in TransferState
         /\ TransitionAllowed(transfers[id], next) /\ ApplyTransition(id, next)
         /\ UNCHANGED <<now, transfer_seq, settings, overridden>>
  BY DEF TryAutoProgress, TransferState, Live, InFlight
<1>2. overridden \subseteq TransferId
  BY DEF IInv, TypeOK
<1>3. QED
  BY <1>1, <1>2, MoveKeeps

\* An override by the admin keeps the invariant.
LEMMA OverrideStep ==
    ASSUME IInv, NEW caller \in Address, NEW id \in TransferId, NEW next \in TransferState,
           AdminOverrideState(caller, id, next)
    PROVE  IInv'
<1>1. State(id) \in TransferState
  BY DEF AdminOverrideState, OverrideEdges, TransferState, Live, InFlight, Terminal
<1>2. overridden' = overridden \cup {id} /\ overridden \subseteq TransferId
  BY DEF AdminOverrideState, IInv, TypeOK
<1>3. QED
  BY <1>1, <1>2, MoveKeeps DEF AdminOverrideState

\* A rollback keeps the invariant.
LEMMA RollbackStep ==
    ASSUME IInv, NEW caller \in Address, NEW id \in TransferId, RollbackTransfer(caller, id)
    PROVE  IInv'
<1> DEFINE from == State(id)
           t1 == Entered(transfers[id], "RollingBack")
           t2 == Entered(t1, "RolledBack")
           old == history[id]
           rows1 == Append(old, RowOf(from, "RollingBack"))
           rows2 == Append(rows1, RowOf("RollingBack", "RolledBack"))
<1>1. /\ TypeOK /\ TransferOK(id) /\ transfers[id] \in BridgeTransfer /\ old \in Seq(Row)
      /\ from \in TransferState /\ from # "None"
      /\ "RollingBack" \in TransferState /\ "RolledBack" \in TransferState
  BY DEF IInv, TypeOK, RollbackTransfer, TransferState, Live, InFlight, Terminal
<1>2. /\ transfers' = [transfers EXCEPT ![id] = t2] /\ history' = [history EXCEPT ![id] = rows2]
      /\ Len(old) + 2 <= MaxHistory
      /\ UNCHANGED <<now, transfer_seq, settings, overridden>>
  BY DEF RollbackTransfer
<1>3. t1 \in BridgeTransfer
  <2>1. CanEnter("RollingBack")
    BY DEF RollbackTransfer
  <2>2. QED
    BY <1>1, <2>1, EnteredType
<1>4. CanEnter("RolledBack")
  BY DEF CanEnter, Live, InFlight
<1> HIDE DEF t1
<1>5. t2 \in BridgeTransfer /\ t2.state = "RolledBack"
  BY <1>1, <1>3, <1>4, EnteredType
<1> HIDE DEF t2
<1>6. /\ \A k \in 2 .. Len(old) : old[k].from_state = old[k - 1].to_state
      /\ old # <<>> => old[1].from_state = "Initiated" /\ old[Len(old)].to_state = from
      /\ old = <<>> => from = "Initiated"
  BY <1>1 DEF TransferOK, TrailOK
<1> HIDE DEF from, old, rows1, rows2
<1>7. /\ rows1 \in Seq(Row) /\ rows1 # <<>> /\ Len(rows1) = Len(old) + 1
      /\ \A k \in 2 .. Len(rows1) : rows1[k].from_state = rows1[k - 1].to_state
      /\ rows1[1].from_state = "Initiated" /\ rows1[Len(rows1)].to_state = "RollingBack"
  <2>1. rows1 = Append(old, RowOf(from, "RollingBack"))
    BY DEF rows1
  <2>2. QED
    BY <1>1, <1>6, <2>1, OneMoreRow
<1>8. /\ rows2 \in Seq(Row) /\ rows2 # <<>> /\ Len(rows2) = Len(rows1) + 1
      /\ \A k \in 2 .. Len(rows2) : rows2[k].from_state = rows2[k - 1].to_state
      /\ rows2[1].from_state = "Initiated" /\ rows2[Len(rows2)].to_state = "RolledBack"
  <2>1. rows2 = Append(rows1, RowOf("RollingBack", "RolledBack"))
    BY DEF rows2
  <2> DEFINE mid == "RollingBack"
             last == "RolledBack"
  <2>2. /\ rows1 # <<>> => rows1[1].from_state = "Initiated" /\ rows1[Len(rows1)].to_state = mid
        /\ rows1 = <<>> => mid = "Initiated"
        /\ mid \in TransferState /\ last \in TransferState
        /\ rows2 = Append(rows1, RowOf(mid, last))
    BY <1>1, <1>7, <2>1
  <2> HIDE DEF mid, last
  <2>3. /\ rows2 \in Seq(Row) /\ rows2 # <<>> /\ Len(rows2) = Len(rows1) + 1
        /\ \A k \in 2 .. Len(rows2) : rows2[k].from_state = rows2[k - 1].to_state
        /\ rows2[1].from_state = "Initiated" /\ rows2[Len(rows2)].to_state = last
    BY <1>7, <2>2, OneMoreRow, SMTT(30)
  <2>4. QED
    BY <2>3 DEF last
<1>9. transfers'[id] = t2 /\ history'[id] = rows2
  BY <1>1, <1>2 DEF TypeOK
<1>10. TransferOK(id)'
  BY <1>5, <1>8, <1>9 DEF TransferOK, TrailOK, Progress, NotStarted, State
<1>11. Len(rows2) <= MaxHistory
  <2>1. Len(old) \in Nat
    BY <1>1
  <2>2. QED
    BY <1>2, <1>7, <1>8, <2>1, TransferAssumption
<1>12. State(id) # "None" /\ overridden' = overridden /\ overridden \subseteq TransferId
  BY <1>1, <1>2 DEF TypeOK, from
<1>13. QED
  BY <1>2, <1>5, <1>8, <1>10, <1>11, <1>12, OneTransfer

\* A verdict keeps the invariant.
LEMMA VerdictStep ==
    ASSUME IInv, NEW caller \in Address, NEW id \in TransferId, NEW ok \in BOOLEAN,
           SubmitVerificationResult(caller, id, ok) \/ SubmitOracleResult(caller, id, ok)
    PROVE  IInv'
<1>1. /\ TypeOK /\ TransferOK(id) /\ transfers[id] \in BridgeTransfer
      /\ history[id] \in Seq(Row) /\ Len(history[id]) <= MaxHistory
  BY DEF IInv, TypeOK
<1>2. PICK t \in BridgeTransfer :
         /\ transfers' = [transfers EXCEPT ![id] = t] /\ t.state = State(id)
         /\ State(id) \in {"VerificationPending", "OraclePending"}
         /\ State(id) = "OraclePending" => t.verification_ok = transfers[id].verification_ok
  <2>1. CASE SubmitVerificationResult(caller, id, ok)
    <3> DEFINE t == [transfers[id] EXCEPT !.verification_ok = ok]
    <3>1. /\ t \in BridgeTransfer /\ t.state = State(id)
          /\ transfers' = [transfers EXCEPT ![id] = t] /\ State(id) = "VerificationPending"
      BY <1>1, <2>1 DEF SubmitVerificationResult, BridgeTransfer, State, TypeOK
    <3>2. QED
      BY <3>1
  <2>2. CASE SubmitOracleResult(caller, id, ok)
    <3> DEFINE t == [transfers[id] EXCEPT !.oracle_ok = ok]
    <3>1. /\ t \in BridgeTransfer /\ t.state = State(id)
          /\ transfers' = [transfers EXCEPT ![id] = t] /\ State(id) = "OraclePending"
          /\ t.verification_ok = transfers[id].verification_ok
      BY <1>1, <2>2 DEF SubmitOracleResult, BridgeTransfer, State, TypeOK
    <3>2. QED
      BY <3>1
  <2>3. QED
    BY <2>1, <2>2
<1>3. /\ history' = history /\ overridden' = overridden /\ overridden \subseteq TransferId
      /\ UNCHANGED <<now, transfer_seq, settings>>
  BY <1>1 DEF SubmitVerificationResult, SubmitOracleResult, TypeOK
<1>4. transfers'[id] = t /\ State(id)' = State(id) /\ State(id) # "None"
  BY <1>1, <1>2 DEF TypeOK, State
<1>5. history' = [history EXCEPT ![id] = history[id]]
  BY <1>1, <1>3 DEF TypeOK
<1>6. TransferOK(id)'
  BY <1>1, <1>2, <1>3, <1>4 DEF TransferOK, TrailOK, Progress, NotStarted, Visited
<1>7. QED
  BY <1>1, <1>2, <1>3, <1>4, <1>5, <1>6, OneTransfer

\* The setters and the clock write nothing the facts about a transfer read.
LEMMA SettingStep ==
    ASSUME IInv, NEW caller \in Address, Configure(caller) \/ Tick \/ UNCHANGED vars
    PROVE  IInv'
<1>1. TypeOK /\ \A i \in TransferId : TransferOK(i)
  BY DEF IInv
<1>2. UNCHANGED <<transfer_seq, transfers, history, overridden>>
  BY DEF Configure, SetIntegrationContracts, SetDefaultTimeout, SetStateTimeout, Tick, vars
<1>3. TypeOK'
  <2>1. CASE Configure(caller)
    BY <1>1, <1>2, <2>1, TransferAssumption DEF Configure, SetIntegrationContracts,
       SetDefaultTimeout, SetStateTimeout, integration, TypeOK, State
  <2>2. CASE Tick
    BY <1>1, <1>2, <2>2, TransferAssumption DEF Tick, settings, integration, TypeOK, State,
       Seconds
  <2>3. CASE UNCHANGED vars
    BY <1>1, <2>3 DEF vars, TypeOK, State
  <2>4. QED
    BY <2>1, <2>2, <2>3
<1>4. ASSUME NEW i \in TransferId PROVE TransferOK(i)'
  BY <1>1, <1>2, SameKeeps DEF Same
<1>5. QED
  BY <1>3, <1>4 DEF IInv

\* Every step keeps the invariant.
LEMMA NextIInv == IInv /\ [Next]_vars => IInv'
<1> SUFFICES ASSUME IInv, [Next]_vars PROVE IInv'
  OBVIOUS
<1>1. ASSUME NEW initiator \in Initiators, NEW mode \in Mode,
             InitiateTransfer(initiator, mode)
      PROVE  IInv'
  BY <1>1, InitiateStep
<1>2. ASSUME NEW caller \in Address, Configure(caller) PROVE IInv'
  BY <1>2, SettingStep
<1>3. ASSUME NEW caller \in Address, NEW id \in TransferId, Drive(caller, id) PROVE IInv'
  BY <1>3, AdvanceStep, RollbackStep, OverrideStep, VerdictStep DEF Drive
<1>4. ASSUME NEW id \in TransferId, HandleTimeout(id) \/ TryAutoProgress(id) PROVE IInv'
  BY <1>4, TimeoutStep, AutoStep
<1>5. CASE Tick \/ UNCHANGED vars
  BY <1>5, SettingStep, TransferAssumption
<1>6. QED
  BY <1>1, <1>2, <1>3, <1>4, <1>5 DEF Next

\* The invariant holds in every reachable state.
LEMMA SpecIInv == Spec => []IInv
BY InitIInv, NextIInv, PTL DEF Spec

\* Every variable keeps its type: no deadline overflows, no log outgrows its bound.
THEOREM TypeCorrect == Spec => []TypeOK
BY IInvImplies, SpecIInv, PTL

\* The log of every transfer is the unbroken chain of its states.
THEOREM TrailUnbroken == Spec => []AuditTrail
BY IInvImplies, SpecIInv, PTL

\* Without an override nothing reaches release but through escrow, verification
\* and oracle.
THEOREM ReleasesCleared == Spec => []ReleaseCleared
BY IInvImplies, SpecIInv, PTL

-----------------------------------------------------------------------------
Finished(id) == State(id) \in {"Completed", "Failed", "RolledBack"}
Untouched(id) == transfers'[id] = transfers[id] /\ history'[id] = history[id]

\* A transition starts in a state that is not final and touches one transfer.
LEMMA MoveTouches ==
    ASSUME TypeOK, NEW id \in TransferId, NEW to, ApplyTransition(id, to), ~Finished(id),
           NEW i \in TransferId, Finished(i)
    PROVE  Untouched(i)
BY DEF ApplyTransition, TypeOK, Untouched

\* No step leaves a final state.
LEMMA FinalStep ==
    ASSUME IInv, Next, NEW i \in TransferId, Finished(i)
    PROVE  Untouched(i)
<1>1. TypeOK /\ transfers = [id \in TransferId |-> transfers[id]]
  BY DEF IInv, TypeOK
<1>2. ASSUME NEW initiator \in Initiators, NEW mode \in Mode, InitiateTransfer(initiator, mode)
      PROVE  Untouched(i)
  <2>1. i # transfer_seq + 1
    <3>1. ~(i > transfer_seq)
      BY <1>1 DEF TypeOK, Finished
    <3>2. i \in Int /\ transfer_seq \in Int
      BY <1>1, TransferAssumption DEF TypeOK, TransferId
    <3>3. QED
      BY <3>1, <3>2
  <2>2. QED
    BY <1>1, <1>2, <2>1 DEF InitiateTransfer, Untouched
<1>3. ASSUME NEW caller \in Address, NEW id \in TransferId, Drive(caller, id)
      PROVE  Untouched(i)
  <2>1. ASSUME NEW next \in TransferState, AdvanceState(caller, id, next) PROVE Untouched(i)
    <3>1. ~Finished(id)
      BY <2>1 DEF AdvanceState, TransitionAllowed, FreeEdges, InFlight, Finished, State
    <3>2. QED
      BY <1>1, <2>1, <3>1, MoveTouches DEF AdvanceState
  <2>2. ASSUME RollbackTransfer(caller, id) PROVE Untouched(i)
    <3>1. i # id
      BY <2>2 DEF RollbackTransfer, InFlight, Finished
    <3>2. QED
      BY <1>1, <2>2, <3>1 DEF RollbackTransfer, Untouched, TypeOK
  <2>3. ASSUME NEW next \in TransferState, AdminOverrideState(caller, id, next)
        PROVE  Untouched(i)
    <3>1. ~Finished(id)
      BY <2>3 DEF AdminOverrideState, Overridable, Finished
    <3>2. QED
      BY <1>1, <2>3, <3>1, MoveTouches DEF AdminOverrideState
  <2>4. ASSUME NEW ok \in BOOLEAN,
               \/ SubmitVerificationResult(caller, id, ok)
               \/ SubmitOracleResult(caller, id, ok)
        PROVE  Untouched(i)
    <3>1. i # id
      BY <2>4 DEF SubmitVerificationResult, SubmitOracleResult, Finished
    <3>2. QED
      BY <1>1, <2>4, <3>1 DEF SubmitVerificationResult, SubmitOracleResult, Untouched
  <2>5. QED
    BY <1>3, <2>1, <2>2, <2>3, <2>4 DEF Drive
<1>4. ASSUME NEW id \in TransferId, HandleTimeout(id) \/ TryAutoProgress(id)
      PROVE  Untouched(i)
  <2>1. ~Finished(id) /\ \E to : ApplyTransition(id, to)
    BY <1>4 DEF HandleTimeout, TryAutoProgress, Live, InFlight, Finished
  <2>2. QED
    BY <1>1, <2>1, MoveTouches
<1>5. ASSUME NEW caller \in Address, Configure(caller) PROVE Untouched(i)
  BY <1>5 DEF Configure, SetIntegrationContracts, SetDefaultTimeout, SetStateTimeout, Untouched
<1>6. CASE Tick
  BY <1>6 DEF Tick, Untouched
<1>7. QED
  BY <1>2, <1>3, <1>4, <1>5, <1>6 DEF Next

\* Nobody moves a finished transfer, and the log of its life is closed.
THEOREM FinishedForever == Spec => FinalForever
<1> DEFINE A == \A id \in TransferId :
                   State(id) \in {"Completed", "Failed", "RolledBack"} =>
                       transfers'[id] = transfers[id] /\ history'[id] = history[id]
<1>1. IInv /\ [Next]_vars => [A]_vars
  BY FinalStep DEF Finished, Untouched
<1>2. QED
  BY <1>1, SpecIInv, PTL DEF Spec, FinalForever
-----------------------------------------------------------------------------
(***************************************************************************)
(* Rate limiter.                                                           *)
(***************************************************************************)

\* The records of the limiter.
Counter == [value : Int, count : Int, start : Nat]
Usage ==
    [windows : [Limiter!Window -> Counter], cooldown_until : Nat, lifetime_value : Int,
     lifetime_count : Nat, first_activity : Nat]
Use == [user : User, at : Nat, amount : Nat, limits : [Limiter!Window -> Int]]

\* The settings have their types.
LimiterSet ==
    /\ default_limits \in Limiter!Limits
    /\ \A w \in Limiter!Window : default_limits.value[w] > 0
    /\ global_limits \in [Limiter!GlobalWindow -> Int]
    /\ cooldown_duration \in Nat
    /\ trip_count \in 0 .. MaxTrips
    /\ user_limits \in [User -> Limiter!Limits \cup {Limiter!NoLimits}]
    /\ whitelisted \in SUBSET User

\* What was allowed is recorded in its order, up to now.
SpentInOrder ==
    /\ now \in 0 .. MaxNow
    /\ spent \in Seq(Use)
    /\ \A k \in DOMAIN spent : spent[k].at <= now

\* All that a user was allowed in a set of uses is bounded by one of the limits in force at
\* one of them, no earlier than the others.
Covered(u, w, from, to, value) ==
    \A k \in Limiter!UsesIn(u, from, to) :
        \E j \in Limiter!UsesIn(u, from, to) :
            spent[j].at >= spent[k].at /\ value <= spent[j].limits[w]

\* A window of a user: it started, holds what was spent since, within a limit in force at
\* its last use, and its uses are not older than its length.  What was spent in a shorter
\* span that ends where the window starts was within a limit as well.
WindowOK(u, w, c) ==
    /\ c \in Counter
    /\ c.start <= now
    /\ c.value = Limiter!SpentIn(u, c.start, now)
    /\ Covered(u, w, c.start, now, c.value)
    /\ \A k \in Limiter!UsesIn(u, 0, now) : spent[k].at < c.start + Length[w]
    /\ \A from \in Nat :
          c.start < from + Length[w] =>
              Covered(u, w, from, c.start - 1, Limiter!SpentIn(u, from, c.start - 1))

\* The windows of a user that has any, and no use of one that has none.
UserOK(u, r) ==
    /\ r \in Usage
    /\ r.first_activity <= now
    /\ \A w \in Limiter!Window : WindowOK(u, w, r.windows[w])
    /\ r.lifetime_value = Limiter!SpentIn(u, 0, now)

\* In a span as long as a window a user spent no more than two limits in force at uses in it.
TwoLimits(u, w, from, to) ==
    Limiter!UsesIn(u, from, to) # {} =>
        \E j, k \in Limiter!UsesIn(u, from, to) :
            Limiter!SpentIn(u, from, to) <= spent[j].limits[w] + spent[k].limits[w]
-----------------------------------------------------------------------------
\* What is recorded of a use.
LEMMA UseRead ==
    ASSUME SpentInOrder
    PROVE  /\ Len(spent) \in Nat /\ DOMAIN spent = 1 .. Len(spent) /\ now \in Nat
           /\ \A k \in 1 .. Len(spent) :
                 /\ spent[k] \in Use /\ spent[k].user \in User /\ spent[k].at \in Nat
                 /\ spent[k].at <= now /\ spent[k].amount \in Nat
                 /\ \A w \in Limiter!Window : spent[k].limits[w] \in Int
<1>1. Len(spent) \in Nat /\ DOMAIN spent = 1 .. Len(spent) /\ now \in Nat
  BY DEF SpentInOrder
<1>2. \A k \in 1 .. Len(spent) : spent[k] \in Use /\ spent[k].at <= now
  BY <1>1 DEF SpentInOrder
<1> QED
  BY <1>1, <1>2 DEF Use

\* The uses of a span are finitely many, and their sum is a number that grows with them.
LEMMA UsesFinite ==
    ASSUME SpentInOrder, NEW u, NEW from \in Int, NEW to \in Int
    PROVE  /\ IsFiniteSet(Limiter!UsesIn(u, from, to))
           /\ Limiter!UsesIn(u, from, to) \subseteq 1 .. Len(spent)
           /\ \A k \in Limiter!UsesIn(u, from, to) :
                 /\ spent[k] \in Use /\ spent[k].user = u
                 /\ from <= spent[k].at /\ spent[k].at <= to
           /\ \A k \in 1 .. Len(spent) :
                 /\ spent[k] \in Use
                 /\ spent[k].user = u /\ from <= spent[k].at /\ spent[k].at <= to
                       => k \in Limiter!UsesIn(u, from, to)
<1>1. Len(spent) \in Nat /\ DOMAIN spent = 1 .. Len(spent)
  BY DEF SpentInOrder
<1>2. \A k \in 1 .. Len(spent) : spent[k] \in Use
  BY DEF SpentInOrder
<1>3. Limiter!UsesIn(u, from, to) \subseteq 1 .. Len(spent)
  BY <1>1 DEF Limiter!UsesIn
<1>4. IsFiniteSet(1 .. Len(spent))
  BY <1>1, FS_Interval
<1>5. IsFiniteSet(Limiter!UsesIn(u, from, to))
  BY <1>3, <1>4, FS_Subset
<1>6. \A k \in 1 .. Len(spent) : spent[k].at \in Nat
  BY <1>2 DEF Use
<1>7. \A k \in 1 .. Len(spent) : k \in Limiter!UsesIn(u, from, to) <=>
         (spent[k].user = u /\ from <= spent[k].at /\ spent[k].at <= to)
  BY <1>1, <1>6 DEF Limiter!UsesIn
<1> QED
  BY <1>2, <1>3, <1>5, <1>7

\* The amounts of the uses.
AmountOf == [k \in DOMAIN spent |-> spent[k].amount]
AllSpent(S) == SumFunctionOnSet(AmountOf, S)

\* What a user spent in a span is the sum over its uses in it.
LEMMA SpentSums ==
    ASSUME NEW u, NEW from, NEW to
    PROVE  Limiter!SpentIn(u, from, to) = AllSpent(Limiter!UsesIn(u, from, to))
BY DEF Limiter!SpentIn, AllSpent, AmountOf, Limiter!SumFunctionOnSet, SumFunctionOnSet,
       Limiter!FoldFunctionOnSet, FoldFunctionOnSet, Limiter!MapThenFoldSet, MapThenFoldSet

\* What is spent in some uses is a number, and no more than in these and others.
LEMMA SpentGrows ==
    ASSUME SpentInOrder, NEW T, T \subseteq 1 .. Len(spent), NEW S \in SUBSET T
    PROVE  /\ AllSpent(S) \in Nat /\ AllSpent(T) \in Nat /\ AllSpent(S) <= AllSpent(T)
           /\ AllSpent(T) = AllSpent(S) + AllSpent(T \ S)
           /\ AllSpent({}) = 0
<1>1. Len(spent) \in Nat /\ DOMAIN spent = 1 .. Len(spent)
  BY DEF SpentInOrder
<1>2. \A k \in 1 .. Len(spent) : spent[k] \in Use
  BY DEF SpentInOrder
<1>3. \A k \in 1 .. Len(spent) : AmountOf[k] \in Nat
  BY <1>1, <1>2 DEF AmountOf, Use
<1> DEFINE R == T \ S
<1>4. IsFiniteSet(T) /\ IsFiniteSet(S) /\ IsFiniteSet(R)
  <2>1. IsFiniteSet(1 .. Len(spent))
    BY <1>1, FS_Interval
  <2>2. IsFiniteSet(T)
    BY <2>1, FS_Subset
  <2> QED
    BY <2>2, FS_Subset
<1>5. /\ \A k \in T : AmountOf[k] \in Nat
      /\ \A k \in S : AmountOf[k] \in Nat
      /\ \A k \in R : AmountOf[k] \in Nat
  BY <1>3
<1>6. AllSpent(T) \in Nat /\ AllSpent(S) \in Nat /\ AllSpent(R) \in Nat
  <2> HIDE DEF R
  <2> QED
    BY <1>4, <1>5, SumNatural DEF AllSpent
<1>7. AllSpent(T) = AllSpent(S) + AllSpent(R)
  <2> PICK f : f = AmountOf
    OBVIOUS
  <2>1. \A k \in T : f[k] \in Int
    BY <1>5
  <2>2. SumFunctionOnSet(f, T) = SumFunctionOnSet(f, S) + SumFunctionOnSet(f, T \ S)
    <3>1. IsFiniteSet(T)
      BY <1>4
    <3> HIDE DEF R
    <3> QED
      BY ONLY <2>1, <3>1, SumSplit
  <2> QED
    BY <2>2 DEF AllSpent
<1>8. AllSpent({}) = 0
  BY SumEmpty DEF AllSpent
<1> HIDE DEF R
<1> QED
  BY <1>6, <1>7, <1>8 DEF R

\* One more use, now: it is in the spans of its user that contain now, and its amount is
\* added to what was spent in them.
LEMMA UseAdded ==
    ASSUME SpentInOrder, NEW r \in Use, r.at = now, spent' = Append(spent, r), now' = now,
           NEW n, n = Len(spent)
    PROVE  /\ SpentInOrder'
           /\ n \in Nat /\ Len(spent') = n + 1 /\ n + 1 \notin 1 .. n
           /\ \A k \in 1 .. n : spent'[k] = spent[k]
           /\ spent'[n + 1] = r
           /\ \A S \in SUBSET (1 .. n) :
                 /\ AllSpent(S)' = AllSpent(S)
                 /\ AllSpent(S \cup {n + 1})' = AllSpent(S) + r.amount
<1>1. n \in Nat /\ DOMAIN spent = 1 .. n /\ spent \in Seq(Use) /\ now \in Nat
  BY DEF SpentInOrder
<1>2. /\ spent' \in Seq(Use) /\ Len(spent') = n + 1 /\ DOMAIN spent' = 1 .. n + 1
      /\ \A k \in 1 .. n : spent'[k] = spent[k]
      /\ spent'[n + 1] = r
  BY <1>1
<1>3. n + 1 \notin 1 .. n /\ 1 .. n + 1 = (1 .. n) \cup {n + 1}
  BY <1>1
<1>4. SpentInOrder'
  <2>1. \A k \in 1 .. n : spent[k].at <= now
    BY <1>1 DEF SpentInOrder
  <2>2. \A k \in 1 .. n + 1 : spent'[k].at <= now
    <3>1. r.at <= now
      BY <1>1
    <3> QED
      BY <1>2, <1>3, <2>1, <3>1
  <2>3. now' \in 0 .. MaxNow
    BY DEF SpentInOrder
  <2> QED
    BY <1>2, <2>2, <2>3 DEF SpentInOrder
<1>6. ASSUME NEW S \in SUBSET (1 .. n)
      PROVE  AllSpent(S)' = AllSpent(S) /\ AllSpent(S \cup {n + 1})' = AllSpent(S) + r.amount
  <2>1. \A k \in S : AmountOf'[k] = AmountOf[k] /\ AmountOf[k] \in Nat
    <3>1. \A k \in S : /\ AmountOf[k] = spent[k].amount /\ spent[k] \in Use
                        /\ AmountOf'[k] = spent'[k].amount
      <4>1. ASSUME NEW k \in S
            PROVE  AmountOf[k] = spent[k].amount /\ AmountOf'[k] = spent'[k].amount
        <5>1. k \in 1 .. n /\ k \in 1 .. n + 1
          BY <1>1
        <5> QED
          BY <1>1, <1>2, <5>1 DEF AmountOf
      <4>2. \A k \in S : spent[k] \in Use
        <5>1. \A k \in 1 .. n : spent[k] \in Use
          BY <1>1
        <5> QED
          BY <5>1
      <4> QED
        BY <4>1, <4>2
    <3> QED
      BY <1>2, <3>1 DEF Use
  <2>2. AmountOf'[n + 1] = r.amount /\ r.amount \in Nat
    BY <1>1, <1>2 DEF AmountOf, Use
  <2>3. IsFiniteSet(S)
    <3>1. IsFiniteSet(1 .. n)
      BY <1>1, FS_Interval
    <3> QED
      BY <3>1, FS_Subset
  <2> PICK f : f = AmountOf'
    OBVIOUS
  <2> PICK g : g = AmountOf
    OBVIOUS
  <2>4. AllSpent(S)' = SumFunctionOnSet(f, S) /\ AllSpent(S) = SumFunctionOnSet(g, S)
    BY DEF AllSpent
  <2>5. AllSpent(S \cup {n + 1})' = SumFunctionOnSet(f, S \cup {n + 1})
    BY DEF AllSpent
  <2>6. SumFunctionOnSet(f, S) = SumFunctionOnSet(g, S)
    BY <2>1, <2>3, SumEqual
  <2>7. SumFunctionOnSet(g, S) \in Int
    <3>1. \A k \in S : g[k] \in Int
      BY <2>1
    <3> QED
      BY <2>3, <3>1, SumType
  <2>8. SumFunctionOnSet(f, S \cup {n + 1}) = f[n + 1] + SumFunctionOnSet(f, S)
    <3>1. n + 1 \notin S
      BY <1>3
    <3>2. \A k \in S \cup {n + 1} : f[k] \in Int
      BY <2>1, <2>2
    <3> QED
      BY <2>3, <3>1, <3>2, SumAdd
  <2> QED
    BY <2>2, <2>4, <2>5, <2>6, <2>7, <2>8
<1> QED
  BY <1>1, <1>2, <1>3, <1>4, <1>6

\* What was spent in a span is a number; a wider span has the uses of a narrower one, and
\* what was spent in it is no less.
LEMMA SpanWider ==
    ASSUME SpentInOrder, NEW u, NEW a \in Int, NEW b \in Int, NEW c \in Int, NEW d \in Int,
           \A k \in Limiter!UsesIn(u, c, d) : a <= spent[k].at /\ spent[k].at <= b
    PROVE  /\ Limiter!SpentIn(u, a, b) \in Nat /\ Limiter!SpentIn(u, c, d) \in Nat
           /\ Limiter!UsesIn(u, c, d) \subseteq Limiter!UsesIn(u, a, b)
           /\ Limiter!SpentIn(u, c, d) <= Limiter!SpentIn(u, a, b)
<1>1. Limiter!UsesIn(u, a, b) \subseteq 1 .. Len(spent)
  BY UsesFinite
<1>2. Limiter!UsesIn(u, c, d) \subseteq Limiter!UsesIn(u, a, b)
  BY UsesFinite
<1>3. /\ Limiter!SpentIn(u, a, b) = AllSpent(Limiter!UsesIn(u, a, b))
      /\ Limiter!SpentIn(u, c, d) = AllSpent(Limiter!UsesIn(u, c, d))
  BY SpentSums
<1> QED
  BY <1>1, <1>2, <1>3, SpentGrows

\* What was spent in a span is a number, and nothing without a use.
LEMMA SpentNumber ==
    ASSUME SpentInOrder, NEW u, NEW from \in Int, NEW to \in Int
    PROVE  /\ Limiter!SpentIn(u, from, to) \in Nat
           /\ Limiter!UsesIn(u, from, to) = {} => Limiter!SpentIn(u, from, to) = 0
<1> PICK T : T = Limiter!UsesIn(u, from, to)
  OBVIOUS
<1>1. T \subseteq 1 .. Len(spent)
  BY UsesFinite
<1>2. Limiter!SpentIn(u, from, to) = AllSpent(T)
  BY SpentSums
<1>3. AllSpent(T) \in Nat /\ AllSpent({}) = 0
  BY <1>1, SpentGrows
<1> QED
  BY <1>2, <1>3

\* The uses of a span are those up to a time and those from then on.
LEMMA SpanSplit ==
    ASSUME SpentInOrder, NEW u, NEW a \in Int, NEW m \in Int, NEW b \in Int, a <= m, m <= b + 1
    PROVE  Limiter!SpentIn(u, a, b) = Limiter!SpentIn(u, a, m - 1) + Limiter!SpentIn(u, m, b)
<1> DEFINE T == Limiter!UsesIn(u, a, b)
           S == Limiter!UsesIn(u, a, m - 1)
           R == Limiter!UsesIn(u, m, b)
<1>1. m - 1 \in Int
  OBVIOUS
<1>2. T \subseteq 1 .. Len(spent) /\ S \subseteq 1 .. Len(spent) /\ R \subseteq 1 .. Len(spent)
  BY <1>1, UsesFinite
<1>3. /\ \A k \in 1 .. Len(spent) : spent[k].at \in Int
      /\ \A k \in 1 .. Len(spent) :
            /\ k \in T <=> (spent[k].user = u /\ a <= spent[k].at /\ spent[k].at <= b)
            /\ k \in S <=> (spent[k].user = u /\ a <= spent[k].at /\ spent[k].at <= m - 1)
            /\ k \in R <=> (spent[k].user = u /\ m <= spent[k].at /\ spent[k].at <= b)
  BY <1>1, UsesFinite, SMTT(30) DEF Use
<1>4. S \subseteq T /\ R = T \ S
  <2> HIDE DEF T, S, R
  <2>1. \A k \in 1 .. Len(spent) : (k \in S => k \in T) /\ (k \in R <=> (k \in T /\ k \notin S))
    BY <1>3
  <2> QED
    BY <1>2, <2>1
<1>5. AllSpent(T) = AllSpent(S) + AllSpent(T \ S)
  <2> HIDE DEF T, S, R
  <2> QED
    BY <1>2, <1>4, SpentGrows
<1>6. /\ Limiter!SpentIn(u, a, b) = AllSpent(T) /\ Limiter!SpentIn(u, a, m - 1) = AllSpent(S)
      /\ Limiter!SpentIn(u, m, b) = AllSpent(R)
  BY SpentSums
<1> HIDE DEF T, S, R
<1> QED
  BY <1>4, <1>5, <1>6

\* The sum of the next state.
LEMMA SpentSumsNext ==
    ASSUME NEW u, NEW from, NEW to
    PROVE  Limiter!SpentIn(u, from, to)' = AllSpent(Limiter!UsesIn(u, from, to))'
BY DEF Limiter!SpentIn, AllSpent, AmountOf, Limiter!SumFunctionOnSet, SumFunctionOnSet,
       Limiter!FoldFunctionOnSet, FoldFunctionOnSet, Limiter!MapThenFoldSet, MapThenFoldSet

\* What one more use, now, adds to the uses of a user and to what they sum up to.
LEMMA UseSeen ==
    ASSUME SpentInOrder, NEW r \in Use, r.at = now, spent' = Append(spent, r), now' = now,
           NEW n, n = Len(spent), NEW u, NEW from \in Int, NEW to \in Int
    PROVE  IF r.user = u /\ from <= now /\ now <= to
           THEN /\ Limiter!UsesIn(u, from, to)' = Limiter!UsesIn(u, from, to) \cup {n + 1}
                /\ Limiter!SpentIn(u, from, to)' = Limiter!SpentIn(u, from, to) + r.amount
           ELSE /\ Limiter!UsesIn(u, from, to)' = Limiter!UsesIn(u, from, to)
                /\ Limiter!SpentIn(u, from, to)' = Limiter!SpentIn(u, from, to)
<1> PICK S : S = Limiter!UsesIn(u, from, to)
  OBVIOUS
<1>1. S \in SUBSET (1 .. n)
  BY UsesFinite
<1>2. AllSpent(S)' = AllSpent(S) /\ AllSpent(S \cup {n + 1})' = AllSpent(S) + r.amount
  BY <1>1, UseAdded
<1>3. Limiter!SpentIn(u, from, to) = AllSpent(S)
  BY SpentSums
<1>4. /\ r.user = u /\ from <= now /\ now <= to =>
            Limiter!UsesIn(u, from, to)' = Limiter!UsesIn(u, from, to) \cup {n + 1}
      /\ ~(r.user = u /\ from <= now /\ now <= to) =>
            Limiter!UsesIn(u, from, to)' = Limiter!UsesIn(u, from, to)
  <2>1. n \in Nat /\ DOMAIN spent = 1 .. n /\ spent \in Seq(Use) /\ now \in Nat
    BY DEF SpentInOrder
  <2>2. /\ DOMAIN spent' = 1 .. n + 1
        /\ \A k \in 1 .. n : spent'[k] = spent[k]
        /\ spent'[n + 1] = r
    BY <2>1
  <2>3. n + 1 \notin 1 .. n /\ 1 .. n + 1 = (1 .. n) \cup {n + 1}
    BY <2>1
  <2>4. Limiter!UsesIn(u, from, to)' =
           {k \in 1 .. n + 1 : spent'[k].user = u /\ spent'[k].at \in from .. to}
    BY <2>2 DEF Limiter!UsesIn
  <2>5. Limiter!UsesIn(u, from, to) =
           {k \in 1 .. n : spent[k].user = u /\ spent[k].at \in from .. to}
    BY <2>1 DEF Limiter!UsesIn
  <2>6. r.at \in from .. to <=> (from <= now /\ now <= to)
    BY <2>1
  <2> QED
    BY <2>2, <2>3, <2>4, <2>5, <2>6
<1>5. CASE r.user = u /\ from <= now /\ now <= to
  <2>1. Limiter!UsesIn(u, from, to)' = S \cup {n + 1}
    BY <1>4, <1>5
  <2>2. Limiter!SpentIn(u, from, to)' = AllSpent(S \cup {n + 1})'
    BY <2>1, SpentSumsNext DEF AllSpent
  <2> QED
    BY <1>2, <1>3, <1>5, <2>1, <2>2
<1>6. CASE ~(r.user = u /\ from <= now /\ now <= to)
  <2>1. Limiter!UsesIn(u, from, to)' = S
    BY <1>4, <1>6
  <2>2. Limiter!SpentIn(u, from, to)' = AllSpent(S)'
    BY <2>1, SpentSumsNext DEF AllSpent
  <2> QED
    BY <1>2, <1>3, <1>6, <2>1, <2>2
<1> QED
  BY <1>5, <1>6

\* A window that is over starts again; no use is in the new one yet.
LEMMA DecayedOK ==
    ASSUME Limiter!LimiterConstants, SpentInOrder, NEW u \in User,
           NEW w \in Limiter!Window, NEW c, WindowOK(u, w, c)
    PROVE  /\ WindowOK(u, w, Limiter!Decayed(c, w))
           /\ now < Limiter!Decayed(c, w).start + Length[w]
<1>1. /\ Length[w] \in Nat \ {0} /\ now \in Nat
      /\ c \in Counter /\ c.start \in Nat /\ c.start <= now
  BY DEF Limiter!LimiterConstants, SpentInOrder, WindowOK, Counter
<1>2. CASE ~(now >= c.start + Length[w])
  BY <1>1, <1>2 DEF Limiter!Decayed
<1>3. CASE now >= c.start + Length[w]
  <2> PICK L \in Nat \ {0} : L = Length[w]
    BY <1>1
  <2> PICK t \in Nat : t = now
    BY <1>1
  <2> PICK s \in Nat : s = c.start
    BY <1>1
  <2>1. s + L <= t /\ \A k \in Limiter!UsesIn(u, 0, t) : spent[k].at < s + L
    BY <1>3 DEF WindowOK
  <2> PICK d : d = Limiter!Decayed(c, w)
    OBVIOUS
  <2>2. d = [value |-> 0, count |-> 0, start |-> t]
    BY <1>3 DEF Limiter!Decayed, Limiter!EmptyWindow
  <2>3. \A k \in 1 .. Len(spent) :
           spent[k] \in Use /\ spent[k].at \in Nat /\ spent[k].at <= t
    BY UseRead
  <2>4. Limiter!UsesIn(u, t, t) = {}
    <3>1. ASSUME NEW k \in Limiter!UsesIn(u, t, t) PROVE FALSE
      <4>1. k \in 1 .. Len(spent) /\ spent[k].user = u /\ spent[k].at >= t
        <5>1. k \in 1 .. Len(spent) /\ spent[k].user = u /\ t <= spent[k].at
          BY UsesFinite
        <5> QED
          BY <2>3, <5>1
      <4>2. k \in Limiter!UsesIn(u, 0, t)
        BY <2>3, <4>1, UsesFinite
      <4> QED
        BY <2>1, <2>3, <4>1, <4>2
    <3> QED
      BY <3>1
  <2>5. Limiter!SpentIn(u, t, t) = 0
    <3>1. {} \subseteq 1 .. Len(spent)
      OBVIOUS
    <3> QED
      BY <2>4, <3>1, SpentSums, SpentGrows
  <2>6. \A k \in Limiter!UsesIn(u, 0, t) : spent[k].at < t + L
    <3>1. \A k \in Limiter!UsesIn(u, 0, t) : k \in 1 .. Len(spent)
      BY UseRead DEF Limiter!UsesIn
    <3>2. \A k \in Limiter!UsesIn(u, 0, t) : spent[k].at \in Nat /\ spent[k].at <= t
      BY <2>3, <3>1
    <3> QED
      BY <3>2
  <2>7. ASSUME NEW from \in Nat, t < from + L
        PROVE  Covered(u, w, from, t - 1, Limiter!SpentIn(u, from, t - 1))
    <3>1. ASSUME NEW k \in Limiter!UsesIn(u, from, t - 1)
          PROVE  \E j \in Limiter!UsesIn(u, from, t - 1) :
                    /\ spent[j].at >= spent[k].at
                    /\ Limiter!SpentIn(u, from, t - 1) <= spent[j].limits[w]
      <4>1. s < from /\ t - 1 \in Int
        BY <2>1, <2>7
      <4>2. k \in 1 .. Len(spent) /\ spent[k].user = u /\ from <= spent[k].at
        BY <4>1, UsesFinite
      <4>3. k \in Limiter!UsesIn(u, s, t)
        BY <2>3, <4>1, <4>2, UsesFinite
      <4>4. PICK j \in Limiter!UsesIn(u, s, t) :
               spent[j].at >= spent[k].at /\ c.value <= spent[j].limits[w]
        BY <4>3 DEF WindowOK, Covered
      <4>5. j \in 1 .. Len(spent) /\ spent[j].user = u
        BY UsesFinite
      <4>6. j \in Limiter!UsesIn(u, 0, t)
        BY <2>3, <4>5, UsesFinite, SMTT(30)
      <4>7. spent[j].at >= from /\ spent[j].at <= t - 1
        <5> PICK a \in Int : a = spent[k].at
          BY <2>3, <4>2
        <5> PICK b \in Int : b = spent[j].at
          BY <2>3, <4>5
        <5>1. b >= a /\ from <= a /\ b < s + L /\ s + L <= t
          BY <2>1, <4>2, <4>4, <4>6
        <5>2. b >= from /\ b <= t - 1
          BY ONLY <5>1, a \in Int, b \in Int, s \in Nat, L \in Nat, t \in Nat, from \in Nat
        <5> QED
          BY <5>2
      <4>8. j \in Limiter!UsesIn(u, from, t - 1)
        BY <4>1, <4>5, <4>7, UsesFinite
      <4>9. /\ Limiter!SpentIn(u, from, t - 1) \in Nat /\ Limiter!SpentIn(u, s, t) \in Nat
            /\ Limiter!SpentIn(u, from, t - 1) <= Limiter!SpentIn(u, s, t)
        <5> PICK e \in Int : e = t - 1
          OBVIOUS
        <5>1. \A i \in Limiter!UsesIn(u, from, e) : s <= spent[i].at /\ spent[i].at <= t
          BY <2>3, <4>1, UsesFinite
        <5>2. from \in Int /\ s \in Int /\ t \in Int
          OBVIOUS
        <5>3. /\ Limiter!SpentIn(u, from, e) \in Nat /\ Limiter!SpentIn(u, s, t) \in Nat
              /\ Limiter!SpentIn(u, from, e) <= Limiter!SpentIn(u, s, t)
          BY ONLY <5>1, <5>2, e \in Int, SpentInOrder, SpanWider
        <5> QED
          BY <5>3
      <4>10. c.value = Limiter!SpentIn(u, s, t)
        BY DEF WindowOK
      <4>11. spent[j].limits[w] \in Int
        BY <2>3, <4>5 DEF Use
      <4>12. Limiter!SpentIn(u, from, t - 1) <= spent[j].limits[w]
        BY <4>4, <4>9, <4>10, <4>11
      <4> QED
        BY <4>4, <4>8, <4>12
    <3> QED
      BY <3>1 DEF Covered
  <2>8. d \in Counter /\ d.start = t /\ d.value = 0
    BY <2>2 DEF Counter
  <2>9. Covered(u, w, t, t, 0)
    BY <2>4 DEF Covered
  <2>10. WindowOK(u, w, d)
    BY <2>5, <2>6, <2>7, <2>8, <2>9 DEF WindowOK
  <2>11. t < d.start + L
    BY <2>8
  <2> QED
    BY <2>10, <2>11
<1> QED
  BY <1>2, <1>3

\* What is covered stays so while its uses stay.
LEMMA CoveredSame ==
    ASSUME NEW u, NEW w, NEW from, NEW to, NEW value, Covered(u, w, from, to, value),
           Limiter!UsesIn(u, from, to)' = Limiter!UsesIn(u, from, to),
           \A k \in Limiter!UsesIn(u, from, to) : spent'[k] = spent[k]
    PROVE  Covered(u, w, from, to, value)'
BY DEF Covered

\* A use within the limit of a window that is not over.
LEMMA UsedOK ==
    ASSUME SpentInOrder, NEW u \in User, NEW w \in Limiter!Window, NEW c, WindowOK(u, w, c),
           Length[w] \in Nat \ {0}, now < c.start + Length[w],
           NEW r \in Use, r.at = now, r.user = u, c.value + r.amount <= r.limits[w],
           spent' = Append(spent, r), now' = now
    PROVE  WindowOK(u, w, Limiter!Used(c, r.amount))'
<1> PICK n : n = Len(spent)
  OBVIOUS
<1> PICK L \in Nat \ {0} : L = Length[w]
  OBVIOUS
<1> PICK t \in Nat : t = now
  BY UseRead
<1> PICK s \in Nat : s = c.start
  BY DEF WindowOK, Counter
<1> PICK d : d = Limiter!Used(c, r.amount)
  OBVIOUS
<1>1. /\ c \in Counter /\ s <= t /\ c.value = Limiter!SpentIn(u, s, t)
      /\ r.amount \in Nat /\ r.limits[w] \in Int /\ t < s + L
  BY DEF WindowOK, Use
<1>2. d \in Counter /\ d.start = s /\ d.value = c.value + r.amount /\ c.value \in Int
  <2>1. c.value \in Int /\ c.count \in Int /\ c.start \in Nat
    BY <1>1 DEF Counter
  <2>2. d = [c EXCEPT !.value = c.value + r.amount, !.count = c.count + 1]
    BY DEF Limiter!Used
  <2>3. c.value + r.amount \in Int /\ c.count + 1 \in Int
    <3>1. r.amount \in Nat
      BY <1>1
    <3> QED
      BY ONLY <2>1, <3>1
  <2> QED
    BY <1>1, <2>1, <2>2, <2>3 DEF Counter
<1>3. /\ SpentInOrder'
      /\ n \in Nat /\ Len(spent') = n + 1 /\ n + 1 \notin 1 .. n
      /\ \A k \in 1 .. n : spent'[k] = spent[k]
      /\ spent'[n + 1] = r
      /\ \A from \in Int, to \in Int :
            IF from <= t /\ t <= to
            THEN /\ Limiter!UsesIn(u, from, to)' = Limiter!UsesIn(u, from, to) \cup {n + 1}
                 /\ Limiter!SpentIn(u, from, to)' = Limiter!SpentIn(u, from, to) + r.amount
            ELSE /\ Limiter!UsesIn(u, from, to)' = Limiter!UsesIn(u, from, to)
                 /\ Limiter!SpentIn(u, from, to)' = Limiter!SpentIn(u, from, to)
  <2>1. /\ SpentInOrder'
        /\ n \in Nat /\ Len(spent') = n + 1 /\ n + 1 \notin 1 .. n
        /\ \A k \in 1 .. n : spent'[k] = spent[k]
        /\ spent'[n + 1] = r
    BY UseAdded
  <2> QED
    BY <2>1, UseSeen, SMTT(30)
<1>4. \A from \in Int, to \in Int : Limiter!UsesIn(u, from, to) \subseteq 1 .. n
  BY UsesFinite
<1>5. Limiter!UsesIn(u, s, t)' = Limiter!UsesIn(u, s, t) \cup {n + 1}
  BY <1>1, <1>3
<1>6. d.value = Limiter!SpentIn(u, s, t)'
  BY <1>1, <1>2, <1>3
<1>7. Covered(u, w, s, t, d.value)'
  <2>1. n + 1 \in Limiter!UsesIn(u, s, t)' /\ d.value <= spent'[n + 1].limits[w]
    BY <1>2, <1>3, <1>5
  <2>2. \A k \in Limiter!UsesIn(u, s, t)' : spent'[n + 1].at >= spent'[k].at
    <3>1. /\ \A k \in Limiter!UsesIn(u, s, t)' : k \in 1 .. n \cup {n + 1}
          /\ spent'[n + 1].at = t
      BY <1>3, <1>4, <1>5
    <3>2. \A k \in 1 .. n : spent'[k].at \in Nat /\ spent'[k].at <= t
      BY <1>3, UseRead
    <3> QED
      BY <3>1, <3>2
  <2> QED
    BY <2>1, <2>2 DEF Covered
<1>8. \A k \in Limiter!UsesIn(u, 0, t)' : spent'[k].at < s + L
  <2>1. \A k \in Limiter!UsesIn(u, 0, t) : k \in 1 .. n /\ spent[k].at < s + L
    BY <1>4 DEF WindowOK
  <2>2. Limiter!UsesIn(u, 0, t)' = Limiter!UsesIn(u, 0, t) \cup {n + 1}
    BY <1>3
  <2> QED
    BY <1>1, <1>3, <2>1, <2>2
<1>9. ASSUME NEW from \in Nat, s < from + L
      PROVE  Covered(u, w, from, s - 1, Limiter!SpentIn(u, from, s - 1))'
  <2>1. s - 1 \in Int /\ ~(t <= s - 1)
    BY <1>1
  <2> PICK e \in Int : e = s - 1
    BY <2>1
  <2>2. Limiter!UsesIn(u, from, e)' = Limiter!UsesIn(u, from, e)
    BY <1>3, <2>1
  <2>5. Limiter!SpentIn(u, from, e)' = Limiter!SpentIn(u, from, e)
    BY <1>3, <2>1
  <2>3. \A k \in Limiter!UsesIn(u, from, e) : spent'[k] = spent[k]
    BY <1>3, <1>4
  <2> PICK x : x = Limiter!SpentIn(u, from, e)
    OBVIOUS
  <2>6. Covered(u, w, from, e, x)
    BY <1>9 DEF WindowOK
  <2>7. Covered(u, w, from, e, x)'
    BY <2>2, <2>3, <2>6, CoveredSame
  <2> QED
    BY <2>5, <2>7
<1>10. WindowOK(u, w, d)'
  <2>1. now' = t /\ s <= t
    BY <1>1
  <2> QED
    BY <1>2, <1>6, <1>7, <1>8, <1>9, <2>1 DEF WindowOK
<1> QED
  BY <1>10

\* Nothing was spent by v since, and it is no earlier.
NoneSince(v) ==
    /\ now <= now'
    /\ \A from \in Int, to \in Int :
          /\ Limiter!UsesIn(v, from, to)' = Limiter!UsesIn(v, from, to)
          /\ Limiter!SpentIn(v, from, to)' = Limiter!SpentIn(v, from, to)
          /\ \A k \in Limiter!UsesIn(v, from, to) : spent'[k] = spent[k]

\* The uses up to now are the uses up to any later time.
LEMMA LaterSame ==
    ASSUME SpentInOrder, NEW v, NEW from \in Int, NEW to \in Int, now <= to
    PROVE  /\ Limiter!UsesIn(v, from, to) = Limiter!UsesIn(v, from, now)
           /\ Limiter!SpentIn(v, from, to) = Limiter!SpentIn(v, from, now)
<1> PICK t \in Nat : t = now
  BY UseRead
<1>1. \A k \in 1 .. Len(spent) : spent[k].at \in Nat /\ spent[k].at <= t
  BY UseRead
<1>2. /\ Limiter!UsesIn(v, from, to) \subseteq 1 .. Len(spent)
      /\ Limiter!UsesIn(v, from, t) \subseteq 1 .. Len(spent)
  BY UseRead DEF Limiter!UsesIn
<1>3. \A k \in 1 .. Len(spent) :
         k \in Limiter!UsesIn(v, from, to) <=> k \in Limiter!UsesIn(v, from, t)
  <2>1. /\ \A k \in 1 .. Len(spent) : k \in Limiter!UsesIn(v, from, to) <=>
              (spent[k].user = v /\ from <= spent[k].at /\ spent[k].at <= to)
        /\ \A k \in 1 .. Len(spent) : k \in Limiter!UsesIn(v, from, t) <=>
              (spent[k].user = v /\ from <= spent[k].at /\ spent[k].at <= t)
    BY UsesFinite
  <2> QED
    BY <1>1, <2>1
<1>4. Limiter!UsesIn(v, from, to) = Limiter!UsesIn(v, from, t)
  BY <1>2, <1>3
<1> QED
  BY <1>4, SpentSums

\* A window without a new use.
LEMMA WindowKept ==
    ASSUME SpentInOrder, SpentInOrder', NEW v \in User, NEW w \in Limiter!Window, NEW c,
           WindowOK(v, w, c), NoneSince(v)
    PROVE  WindowOK(v, w, c)'
<1> PICK t \in Nat : t = now
  BY UseRead
<1> PICK t2 \in Nat : t2 = now'
  <2>1. now' \in Nat
    BY DEF SpentInOrder
  <2> QED
    BY <2>1
<1> PICK s \in Nat : s = c.start
  BY DEF WindowOK, Counter
<1>1. c \in Counter /\ s <= t /\ t <= t2
  BY DEF WindowOK, NoneSince
<1>2. /\ Limiter!UsesIn(v, s, t2) = Limiter!UsesIn(v, s, t)
      /\ Limiter!SpentIn(v, s, t2) = Limiter!SpentIn(v, s, t)
      /\ Limiter!UsesIn(v, 0, t2) = Limiter!UsesIn(v, 0, t)
  BY <1>1, LaterSame
<1>3. \A from \in Int, to \in Int :
          /\ Limiter!UsesIn(v, from, to)' = Limiter!UsesIn(v, from, to)
          /\ Limiter!SpentIn(v, from, to)' = Limiter!SpentIn(v, from, to)
          /\ \A k \in Limiter!UsesIn(v, from, to) : spent'[k] = spent[k]
  BY DEF NoneSince
<1>4. \A from \in Int, to \in Int : \A value :
          Covered(v, w, from, to, value) => Covered(v, w, from, to, value)'
  <2> SUFFICES ASSUME NEW from \in Int, NEW to \in Int, NEW value,
                      Covered(v, w, from, to, value)
               PROVE  Covered(v, w, from, to, value)'
    OBVIOUS
  <2> QED
    BY <1>3 DEF Covered
<1>5. c.value = Limiter!SpentIn(v, s, t2)'
  BY <1>2, <1>3 DEF WindowOK
<1>6. Covered(v, w, s, t2, c.value)'
  <2>1. Covered(v, w, s, t2, c.value)
    BY <1>2 DEF WindowOK, Covered
  <2> QED
    BY <1>4, <2>1
<1>7. \A k \in Limiter!UsesIn(v, 0, t2)' : spent'[k].at < s + Length[w]
  BY <1>2, <1>3 DEF WindowOK
<1>8. ASSUME NEW from \in Nat, s < from + Length[w]
      PROVE  Covered(v, w, from, s - 1, Limiter!SpentIn(v, from, s - 1))'
  <2> PICK x : x = Limiter!SpentIn(v, from, s - 1)
    OBVIOUS
  <2>1. Covered(v, w, from, s - 1, x)
    BY <1>8 DEF WindowOK
  <2>2. Limiter!SpentIn(v, from, s - 1)' = x
    BY <1>3
  <2>3. Covered(v, w, from, s - 1, x)'
    BY <1>4, <2>1
  <2> QED
    BY <2>2, <2>3
<1> QED
  BY <1>1, <1>5, <1>6, <1>7, <1>8 DEF WindowOK

\* A span without a new use.
LEMMA TwoLimitsKept ==
    ASSUME NEW u, NEW w, NEW from \in Int, NEW to \in Int,
           Limiter!UsesIn(u, from, to)' = Limiter!UsesIn(u, from, to),
           Limiter!SpentIn(u, from, to)' = Limiter!SpentIn(u, from, to),
           \A k \in Limiter!UsesIn(u, from, to) : spent'[k] = spent[k],
           TwoLimits(u, w, from, to)
    PROVE  TwoLimits(u, w, from, to)'
BY DEF TwoLimits


\* In a span that ends no later than the window of a user is over, what was spent before the
\* window is within a limit, and the window holds the rest.
LEMMA SpanCovered ==
    ASSUME SpentInOrder, NEW u \in User, NEW w \in Limiter!Window, NEW c, WindowOK(u, w, c),
           NEW from \in Nat, NEW t \in Nat, t = now, t < from + Length[w],
           Length[w] \in Nat \ {0}
    PROVE  \/ Limiter!SpentIn(u, from, t) <= c.value
           \/ \E j \in Limiter!UsesIn(u, from, t) :
                 Limiter!SpentIn(u, from, t) <= spent[j].limits[w] + c.value
<1> PICK s \in Nat : s = c.start
  BY DEF WindowOK, Counter
<1>1. s <= t /\ c.value = Limiter!SpentIn(u, s, t)
  BY DEF WindowOK
<1>2. Limiter!SpentIn(u, s, t) \in Nat /\ Limiter!SpentIn(u, from, t) \in Nat
  BY SpentNumber
<1> PICK since \in Nat : since = Limiter!SpentIn(u, s, t)
  BY <1>2
<1> PICK whole \in Nat : whole = Limiter!SpentIn(u, from, t)
  BY <1>2
<1>3. CASE s <= from
  <2>1. \A k \in Limiter!UsesIn(u, from, t) : s <= spent[k].at /\ spent[k].at <= t
    <3>1. \A k \in Limiter!UsesIn(u, from, t) :
             k \in 1 .. Len(spent) /\ from <= spent[k].at /\ spent[k].at <= t
      BY UsesFinite
    <3>2. \A k \in 1 .. Len(spent) : spent[k].at \in Nat
      BY UseRead
    <3> QED
      BY <1>3, <3>1, <3>2, SMTT(30)
  <2>2. Limiter!SpentIn(u, from, t) <= Limiter!SpentIn(u, s, t)
    BY <2>1, SpanWider
  <2> QED
    BY <1>1, <2>2
<1>4. CASE from < s
  <2> PICK e \in Int : e = s - 1
    OBVIOUS
  <2>1. Limiter!SpentIn(u, from, t) = Limiter!SpentIn(u, from, e) + Limiter!SpentIn(u, s, t)
    <3>1. from <= s /\ s <= t + 1
      BY <1>1, <1>4
    <3> QED
      BY <3>1, SpanSplit
  <2> PICK before \in Nat : before = Limiter!SpentIn(u, from, e)
    BY SpentNumber
  <2>2. whole = before + since
    BY <2>1
  <2>3. Covered(u, w, from, e, before)
    <3>1. s < from + Length[w]
      BY <1>1
    <3> QED
      BY <3>1 DEF WindowOK
  <2>4. CASE Limiter!UsesIn(u, from, e) = {}
    <3>1. before = 0
      BY <2>4, SpentNumber
    <3>2. whole <= since
      BY ONLY <2>2, <3>1, since \in Nat
    <3> QED
      BY <1>1, <3>2
  <2>5. CASE Limiter!UsesIn(u, from, e) # {}
    <3>1. PICK j \in Limiter!UsesIn(u, from, e) : before <= spent[j].limits[w]
      BY <2>3, <2>5 DEF Covered
    <3>2. j \in 1 .. Len(spent) /\ spent[j].user = u /\ from <= spent[j].at
      BY UsesFinite
    <3>3. spent[j].at <= t /\ spent[j].limits[w] \in Int
      BY <3>2, UseRead
    <3>4. j \in Limiter!UsesIn(u, from, t)
      BY <3>2, <3>3, UsesFinite
    <3> PICK other \in Int : other = spent[j].limits[w]
      BY <3>3
    <3>5. whole <= other + since
      <4>1. before <= other
        BY <3>1
      <4> QED
        BY ONLY <2>2, <4>1, before \in Nat, other \in Int, since \in Nat
    <3> QED
      BY <1>1, <3>4, <3>5
  <2> QED
    BY <2>4, <2>5
<1> QED
  BY <1>3, <1>4

\* A span with a new use: since the window of the use started no more than one limit was
\* spent, and no more than one in what the span has of the time before.
LEMMA TwoLimitsUsed ==
    ASSUME SpentInOrder, NEW u \in User, NEW w \in Limiter!Window, NEW c, WindowOK(u, w, c),
           NEW r \in Use, r.at = now, r.user = u, c.value + r.amount <= r.limits[w],
           spent' = Append(spent, r), now' = now,
           Length[w] \in Nat \ {0}, NEW from \in Nat, NEW to \in Int, to < from + Length[w],
           TwoLimits(u, w, from, to)
    PROVE  TwoLimits(u, w, from, to)'
<1> PICK n : n = Len(spent)
  OBVIOUS
<1> PICK t \in Nat : t = now
  BY UseRead
<1>1. /\ n \in Nat /\ \A k \in 1 .. n : spent'[k] = spent[k]
      /\ spent'[n + 1] = r
  BY UseAdded
<1>2. \A k \in Limiter!UsesIn(u, from, to) : spent'[k] = spent[k]
  <2>1. Limiter!UsesIn(u, from, to) \subseteq 1 .. n
    BY UseRead DEF Limiter!UsesIn
  <2> QED
    BY <1>1, <2>1
<1>3. IF from <= t /\ t <= to
      THEN /\ Limiter!UsesIn(u, from, to)' = Limiter!UsesIn(u, from, to) \cup {n + 1}
           /\ Limiter!SpentIn(u, from, to)' = Limiter!SpentIn(u, from, to) + r.amount
      ELSE /\ Limiter!UsesIn(u, from, to)' = Limiter!UsesIn(u, from, to)
           /\ Limiter!SpentIn(u, from, to)' = Limiter!SpentIn(u, from, to)
  BY UseSeen
<1>4. CASE ~(from <= t /\ t <= to)
  <2>1. /\ Limiter!UsesIn(u, from, to)' = Limiter!UsesIn(u, from, to)
        /\ Limiter!SpentIn(u, from, to)' = Limiter!SpentIn(u, from, to)
    BY <1>3, <1>4
  <2>2. TwoLimits(u, w, from, to)
    OBVIOUS
  <2> QED
    BY ONLY <1>2, <2>1, <2>2 DEF TwoLimits
<1>5. CASE from <= t /\ t <= to
  <2>1. /\ Limiter!UsesIn(u, from, to)' = Limiter!UsesIn(u, from, to) \cup {n + 1}
        /\ Limiter!SpentIn(u, from, to)' = Limiter!SpentIn(u, from, to) + r.amount
    BY <1>3, <1>5
  <2>2. /\ Limiter!UsesIn(u, from, to) = Limiter!UsesIn(u, from, t)
        /\ Limiter!SpentIn(u, from, to) = Limiter!SpentIn(u, from, t)
    BY <1>5, LaterSame
  <2> PICK S : S = Limiter!UsesIn(u, from, t)
    OBVIOUS
  <2> PICK limit \in Int : limit = r.limits[w]
    BY DEF Use
  <2> PICK amount \in Nat : amount = r.amount
    BY DEF Use
  <2> PICK since \in Nat : since = c.value
    <3>1. c.start \in Nat /\ c.value = Limiter!SpentIn(u, c.start, t)
      BY DEF WindowOK, Counter
    <3> QED
      BY <3>1, SpentNumber
  <2> PICK whole \in Nat : whole = Limiter!SpentIn(u, from, t)
    BY SpentNumber, SMTT(30)
  <2>3. whole <= since \/ \E j \in S : whole <= spent[j].limits[w] + since
    <3>1. t < from + Length[w]
      BY <1>5, SMTT(30)
    <3> QED
      BY <3>1, SpanCovered
  <2>4. since + amount <= limit
    OBVIOUS
  <2>5. \A j \in S : spent'[j] = spent[j] /\ spent[j].limits[w] \in Int
    BY <1>2, <2>2, UsesFinite, UseRead, SMTT(30)
  <2>6. \E j \in S \cup {n + 1} : whole + amount <= spent'[j].limits[w] + limit
    <3>1. CASE whole <= since
      <4>1. whole + amount <= limit + limit
        BY ONLY <2>4, <3>1, whole \in Nat, since \in Nat, amount \in Nat, limit \in Int
      <4> QED
        BY <1>1, <4>1
    <3>2. ASSUME NEW j \in S, whole <= spent[j].limits[w] + since
          PROVE  whole + amount <= spent'[j].limits[w] + limit
      <4> PICK other \in Int : other = spent[j].limits[w]
        BY <2>5
      <4>1. whole <= other + since
        BY <3>2
      <4>2. whole + amount <= other + limit
        BY ONLY <2>4, <4>1, whole \in Nat, since \in Nat, amount \in Nat, limit \in Int,
                other \in Int
      <4> QED
        BY <2>5, <4>2
    <3> QED
      BY <2>3, <3>1, <3>2
  <2>7. Limiter!SpentIn(u, from, to)' = whole + amount
    BY <2>1, <2>2
  <2>8. Limiter!UsesIn(u, from, to)' = S \cup {n + 1} /\ spent'[n + 1].limits[w] = limit
    BY <1>1, <2>1, <2>2
  <2>9. \E j, k \in S \cup {n + 1} :
           whole + amount <= spent'[j].limits[w] + spent'[k].limits[w]
    <3>1. spent'[n + 1].limits[w] = limit
      BY <2>8
    <3> QED
      BY ONLY <2>6, <3>1
  <2> QED
    BY ONLY <2>7, <2>8, <2>9 DEF TwoLimits
<1> QED
  BY <1>4, <1>5

\* Nothing is spent, or another user spends.
LEMMA NothingSpent ==
    ASSUME SpentInOrder, spent' = spent, now' \in 0 .. MaxNow, now <= now'
    PROVE  SpentInOrder' /\ \A v : NoneSince(v)
<1>1. SpentInOrder'
  <2>1. \A k \in DOMAIN spent : spent[k].at <= now'
    <3>1. now \in Nat /\ now' \in Nat
      BY DEF SpentInOrder
    <3>2. \A k \in DOMAIN spent : spent[k].at \in Nat /\ spent[k].at <= now
      BY UseRead
    <3> QED
      BY <3>1, <3>2
  <2> QED
    BY <2>1 DEF SpentInOrder
<1>2. ASSUME NEW v, NEW from \in Int, NEW to \in Int
      PROVE  /\ Limiter!UsesIn(v, from, to)' = Limiter!UsesIn(v, from, to)
             /\ Limiter!SpentIn(v, from, to)' = Limiter!SpentIn(v, from, to)
  <2>1. Limiter!UsesIn(v, from, to)' = Limiter!UsesIn(v, from, to)
    BY DEF Limiter!UsesIn
  <2> QED
    BY <2>1 DEF Limiter!SpentIn
<1> QED
  BY <1>1, <1>2 DEF NoneSince

\* A use of one user is none of another.
LEMMA OtherSpent ==
    ASSUME SpentInOrder, NEW r \in Use, r.at = now, spent' = Append(spent, r), now' = now,
           NEW v, r.user # v
    PROVE  NoneSince(v)
<1> PICK n : n = Len(spent)
  OBVIOUS
<1>1. ASSUME NEW from \in Int, NEW to \in Int
      PROVE  /\ Limiter!UsesIn(v, from, to)' = Limiter!UsesIn(v, from, to)
             /\ Limiter!SpentIn(v, from, to)' = Limiter!SpentIn(v, from, to)
             /\ \A k \in Limiter!UsesIn(v, from, to) : spent'[k] = spent[k]
  <2>1. /\ Limiter!UsesIn(v, from, to)' = Limiter!UsesIn(v, from, to)
        /\ Limiter!SpentIn(v, from, to)' = Limiter!SpentIn(v, from, to)
    BY UseSeen
  <2>2. \A k \in 1 .. n : spent'[k] = spent[k]
    BY UseAdded
  <2>3. Limiter!UsesIn(v, from, to) \subseteq 1 .. n
    BY UsesFinite
  <2> QED
    BY <2>1, <2>2, <2>3
<1>2. now <= now'
  BY UseRead
<1> QED
  BY <1>1, <1>2 DEF NoneSince

\* The records of a user without a new use.
LEMMA UserKept ==
    ASSUME SpentInOrder, SpentInOrder', NEW v \in User, NEW r, UserOK(v, r), NoneSince(v)
    PROVE  UserOK(v, r)'
<1>1. \A w \in Limiter!Window : WindowOK(v, w, r.windows[w])'
  <2> SUFFICES ASSUME NEW w \in Limiter!Window PROVE WindowOK(v, w, r.windows[w])'
    OBVIOUS
  <2> PICK c : c = r.windows[w]
    OBVIOUS
  <2>1. WindowOK(v, w, c)
    BY DEF UserOK
  <2>2. WindowOK(v, w, c)'
    BY <2>1, WindowKept
  <2> QED
    BY <2>2
<1> PICK t \in Nat : t = now
  BY UseRead
<1> PICK t2 \in Nat : t2 = now'
  <2>1. now' \in Nat
    BY DEF SpentInOrder
  <2> QED
    BY <2>1
<1>2. t <= t2
  BY DEF NoneSince
<1>3. r.first_activity <= t2
  <2>1. r.first_activity \in Nat /\ r.first_activity <= t
    BY DEF UserOK, Usage
  <2> QED
    BY <1>2, <2>1
<1>4. r.lifetime_value = Limiter!SpentIn(v, 0, t2)'
  <2>1. Limiter!SpentIn(v, 0, t2) = Limiter!SpentIn(v, 0, t)
    BY <1>2, LaterSame
  <2>2. Limiter!SpentIn(v, 0, t2)' = Limiter!SpentIn(v, 0, t2)
    BY DEF NoneSince
  <2>3. r.lifetime_value = Limiter!SpentIn(v, 0, t)
    BY DEF UserOK
  <2> QED
    BY <2>1, <2>2, <2>3
<1> QED
  BY <1>1, <1>3, <1>4 DEF UserOK

\* The windows of a user that used nothing.
LEMMA FreshOK ==
    ASSUME Limiter!LimiterConstants, SpentInOrder, NEW u \in User,
           Limiter!UsesIn(u, 0, now) = {}
    PROVE  UserOK(u, Limiter!FreshUsage)
<1> PICK t \in Nat : t = now
  BY UseRead
<1>1. ASSUME NEW from \in Int, NEW to \in Int
      PROVE  Limiter!UsesIn(u, from, to) = {} /\ Limiter!SpentIn(u, from, to) = 0
  <2>1. ASSUME NEW k \in Limiter!UsesIn(u, from, to) PROVE FALSE
    <3>1. k \in 1 .. Len(spent) /\ spent[k].user = u
      BY UseRead DEF Limiter!UsesIn
    <3>2. spent[k].at \in Nat /\ spent[k].at <= t
      BY <3>1, UseRead
    <3>3. k \in Limiter!UsesIn(u, 0, t)
      BY <3>1, <3>2, UsesFinite
    <3> QED
      BY <3>3
  <2>2. Limiter!UsesIn(u, from, to) = {}
    BY <2>1
  <2> QED
    BY <2>2, SpentNumber
<1> PICK c : c = Limiter!EmptyWindow
  OBVIOUS
<1>2. c = [value |-> 0, count |-> 0, start |-> t]
  BY DEF Limiter!EmptyWindow
<1>3. c \in Counter /\ c.start = t /\ c.value = 0
  BY <1>2 DEF Counter
<1>4. \A from \in Int, to \in Int : \A w, value : Covered(u, w, from, to, value)
  BY <1>1 DEF Covered
<1>5. ASSUME NEW w \in Limiter!Window PROVE WindowOK(u, w, c)
  <2>1. c.value = Limiter!SpentIn(u, c.start, t) /\ c.start <= t
    BY <1>1, <1>3
  <2>2. Covered(u, w, c.start, t, c.value)
    BY <1>3, <1>4
  <2>3. \A from \in Nat : Covered(u, w, from, c.start - 1, Limiter!SpentIn(u, from, c.start - 1))
    <3>1. c.start - 1 \in Int
      BY <1>3
    <3> QED
      BY <1>4, <3>1
  <2> QED
    BY <1>1, <1>3, <2>1, <2>2, <2>3 DEF WindowOK
<1> PICK r : r = Limiter!FreshUsage
  OBVIOUS
<1>6. r = [windows |-> [w \in Limiter!Window |-> c], cooldown_until |-> 0,
           lifetime_value |-> 0, lifetime_count |-> 0, first_activity |-> t]
  BY DEF Limiter!FreshUsage
<1>7. r \in Usage
  BY <1>3, <1>6 DEF Usage
<1>8. r.lifetime_value = Limiter!SpentIn(u, 0, t)
  BY <1>1, <1>6
<1>9. \A w \in Limiter!Window : WindowOK(u, w, r.windows[w])
  BY <1>5, <1>6
<1> QED
  BY <1>6, <1>7, <1>8, <1>9 DEF UserOK

\* The windows that are over start again.
DecayedWindows(r) ==
    [r EXCEPT !.windows = [w \in Limiter!Window |-> Limiter!Decayed(r.windows[w], w)]]

\* The windows of a user stay true when those that are over start again.
LEMMA DecayedUser ==
    ASSUME Limiter!LimiterConstants, SpentInOrder, NEW u \in User, NEW r, UserOK(u, r)
    PROVE  /\ UserOK(u, DecayedWindows(r))
           /\ \A w \in Limiter!Window : now < DecayedWindows(r).windows[w].start + Length[w]
<1> DEFINE ws == [w \in Limiter!Window |-> Limiter!Decayed(r.windows[w], w)]
<1>1. \A w \in Limiter!Window : WindowOK(u, w, ws[w]) /\ now < ws[w].start + Length[w]
  <2> SUFFICES ASSUME NEW w \in Limiter!Window
               PROVE  WindowOK(u, w, ws[w]) /\ now < ws[w].start + Length[w]
    OBVIOUS
  <2> PICK c : c = r.windows[w]
    OBVIOUS
  <2>1. WindowOK(u, w, c)
    BY DEF UserOK
  <2>2. ws[w] = Limiter!Decayed(c, w)
    OBVIOUS
  <2> HIDE DEF ws
  <2> QED
    BY <2>1, <2>2, DecayedOK
<1>2. r \in Usage
  BY DEF UserOK
<1>3. ws \in [Limiter!Window -> Counter]
  BY <1>1 DEF WindowOK
<1> HIDE DEF ws
<1>4. DecayedWindows(r) = [r EXCEPT !.windows = ws]
  BY DEF DecayedWindows, ws
<1>5. /\ DecayedWindows(r) \in Usage /\ DecayedWindows(r).windows = ws
      /\ DecayedWindows(r).first_activity = r.first_activity
      /\ DecayedWindows(r).lifetime_value = r.lifetime_value
  BY <1>2, <1>3, <1>4 DEF Usage
<1> QED
  BY <1>1, <1>5 DEF UserOK

\* The records of a user with a new use within its limits.
RecordedUse(r, amount) ==
    [r EXCEPT !.windows = [w \in Limiter!Window |-> Limiter!Used(r.windows[w], amount)],
              !.lifetime_value = @ + amount, !.lifetime_count = @ + 1]

\* The windows of a user stay true when they take a use within their limits.
LEMMA RecordedUser ==
    ASSUME Limiter!LimiterConstants, SpentInOrder, NEW u \in User, NEW r, UserOK(u, r),
           \A w \in Limiter!Window : now < r.windows[w].start + Length[w],
           NEW p \in Use, p.at = now, p.user = u,
           \A w \in Limiter!Window : r.windows[w].value + p.amount <= p.limits[w],
           spent' = Append(spent, p), now' = now
    PROVE  UserOK(u, RecordedUse(r, p.amount))'
<1> PICK amount \in Nat : amount = p.amount
  BY DEF Use
<1> PICK t \in Nat : t = now
  BY UseRead
<1> DEFINE ws == [w \in Limiter!Window |-> Limiter!Used(r.windows[w], amount)]
<1>1. \A w \in Limiter!Window : WindowOK(u, w, ws[w])'
  <2> SUFFICES ASSUME NEW w \in Limiter!Window PROVE WindowOK(u, w, ws[w])'
    OBVIOUS
  <2> PICK c : c = r.windows[w]
    OBVIOUS
  <2>1. WindowOK(u, w, c) /\ now < c.start + Length[w] /\ c.value + p.amount <= p.limits[w]
    BY DEF UserOK
  <2>2. Length[w] \in Nat \ {0}
    BY DEF Limiter!LimiterConstants
  <2> PICK d : d = Limiter!Used(c, p.amount)
    OBVIOUS
  <2>3. WindowOK(u, w, Limiter!Used(c, p.amount))'
    BY <2>1, <2>2, UsedOK
  <2>4. Limiter!Used(c, p.amount)' = Limiter!Used(c, p.amount)
    BY DEF Limiter!Used
  <2>5. ws[w] = d
    OBVIOUS
  <2>6. WindowOK(u, w, d)'
    BY <2>3, <2>4
  <2> QED
    BY <2>5, <2>6
<1>2. ws \in [Limiter!Window -> Counter]
  <2>1. \A w \in Limiter!Window : ws[w] \in Counter
    BY <1>1 DEF WindowOK
  <2> QED
    BY <2>1
<1> PICK wins : wins = ws
  OBVIOUS
<1> HIDE DEF ws
<1>3. r \in Usage /\ r.first_activity <= t /\ r.lifetime_value = Limiter!SpentIn(u, 0, t)
  BY DEF UserOK
<1>4. r.lifetime_value + amount \in Int /\ r.lifetime_count + 1 \in Nat
  BY <1>3 DEF Usage
<1> PICK x \in Int, y \in Nat : x = r.lifetime_value + amount /\ y = r.lifetime_count + 1
  BY <1>4
<1> PICK q : q = RecordedUse(r, p.amount)
  OBVIOUS
<1>5. q = [r EXCEPT !.windows = wins, !.lifetime_value = x, !.lifetime_count = y]
  BY DEF RecordedUse, ws
<1>6. /\ q \in Usage /\ q.windows = wins /\ q.first_activity = r.first_activity
      /\ q.lifetime_value = x
  BY <1>2, <1>3, <1>5 DEF Usage
<1>7. q.lifetime_value = Limiter!SpentIn(u, 0, t)'
  <2>1. Limiter!SpentIn(u, 0, t)' = Limiter!SpentIn(u, 0, t) + p.amount
    BY UseSeen
  <2> QED
    BY <1>3, <1>6, <2>1
<1>8. \A w \in Limiter!Window : WindowOK(u, w, q.windows[w])'
  BY <1>1, <1>6
<1>9. UserOK(u, q)'
  BY <1>3, <1>6, <1>7, <1>8 DEF UserOK
<1> QED
  BY <1>9

\* The limits in force are numbers.
LEMMA AtLeastOneNumber ==
    ASSUME NEW v \in Int
    PROVE  Limiter!AtLeastOne(v) \in Int /\ Limiter!AtLeastOne(v) > 0
<1>1. \E x \in {v, 1} : \A y \in {v, 1} : x >= y
  <2>1. v >= 1 \/ 1 >= v
    OBVIOUS
  <2> QED
    BY <2>1
<1>2. Limiter!Max({v, 1}) \in {v, 1} /\ \A y \in {v, 1} : Limiter!Max({v, 1}) >= y
  BY <1>1 DEF Limiter!Max
<1> PICK m : m = Limiter!Max({v, 1})
  OBVIOUS
<1>3. m \in Int /\ m >= 1
  BY <1>2
<1> QED
  BY <1>3 DEF Limiter!AtLeastOne

\* The bonus for tenure is a number.
LEMMA TenureNumber ==
    ASSUME Limiter!LimiterConstants, SpentInOrder, NEW u \in User,
           usage[u] # Limiter!NoUsage => UserOK(u, usage[u])
    PROVE  Limiter!TenureBonus(u) \in Int
<1>1. CASE usage[u] = Limiter!NoUsage \/ now - usage[u].first_activity < Tenure
  BY <1>1 DEF Limiter!TenureBonus
<1>2. CASE ~(usage[u] = Limiter!NoUsage \/ now - usage[u].first_activity < Tenure)
  <2>1. usage[u].first_activity \in Nat /\ now \in Nat /\ Tenure \in Nat \ {0}
    <3>1. usage[u] \in Usage
      BY <1>2 DEF UserOK
    <3> QED
      BY <3>1, UseRead DEF Usage, Limiter!LimiterConstants
  <2> PICK f \in Nat, t \in Nat, T \in Nat \ {0} :
               f = usage[u].first_activity /\ t = now /\ T = Tenure
    BY <2>1
  <2>2. ((t - f) \div T) * 500 \in Int
    OBVIOUS
  <2> PICK x \in Int : x = ((t - f) \div T) * 500
    BY <2>2
  <2>3. \E m \in {x, 5000} : \A y \in {x, 5000} : m <= y
    <3>1. x <= 5000 \/ 5000 <= x
      OBVIOUS
    <3> QED
      BY <3>1
  <2>4. Limiter!Min({x, 5000}) \in {x, 5000}
    BY <2>3 DEF Limiter!Min
  <2>5. Limiter!TenureBonus(u) = Limiter!Min({x, 5000})
    BY <1>2 DEF Limiter!TenureBonus
  <2> QED
    BY <2>4, <2>5
<1> QED
  BY <1>1, <1>2

\* The limits in force for a user are numbers.
LEMMA LimitsNumbers ==
    ASSUME Limiter!LimiterConstants, LimiterSet, SpentInOrder, NEW u \in User,
           usage[u] # Limiter!NoUsage => UserOK(u, usage[u]), risk[u].factor \in Int
    PROVE  Limiter!EffectiveLimits(u).value \in [Limiter!Window -> Int]
<1> PICK base : base = IF user_limits[u] = Limiter!NoLimits THEN default_limits ELSE user_limits[u]
  OBVIOUS
<1> PICK times : times = IF u \in whitelisted THEN 2 ELSE 1
  OBVIOUS
<1>1. base \in Limiter!Limits /\ times \in Int
  BY DEF LimiterSet
<1>2. Limiter!TenureBonus(u) \in Int
  BY TenureNumber
<1> PICK bonus \in Int : bonus = Limiter!TenureBonus(u)
  BY <1>2
<1> PICK factor \in Int : factor = risk[u].factor
  OBVIOUS
<1>3. Limiter!EffectiveLimits(u).value =
         [w \in Limiter!Window |->
            Limiter!AtLeastOne((((base.value[w] * times * factor) \div 10000)
                                 * (10000 + bonus)) \div 10000)]
  BY DEF Limiter!EffectiveLimits, Limiter!Bps
<1>4. ASSUME NEW w \in Limiter!Window
      PROVE  Limiter!AtLeastOne((((base.value[w] * times * factor) \div 10000)
                                  * (10000 + bonus)) \div 10000) \in Int
  <2> PICK v \in Int : v = base.value[w]
    BY <1>1 DEF Limiter!Limits
  <2> PICK m \in Int : m = times
    BY <1>1
  <2>1. v * m * factor \in Int
    BY ONLY v \in Int, m \in Int, factor \in Int
  <2> PICK a \in Int : a = v * m * factor
    BY <2>1
  <2>2. a \div 10000 \in Int
    BY ONLY a \in Int
  <2> PICK b \in Int : b = a \div 10000
    BY <2>2
  <2>3. b * (10000 + bonus) \in Int
    BY ONLY b \in Int, bonus \in Int
  <2> PICK d \in Int : d = b * (10000 + bonus)
    BY <2>3
  <2>4. d \div 10000 \in Int
    BY ONLY d \in Int
  <2>5. Limiter!AtLeastOne(d \div 10000) \in Int
    BY <2>4, AtLeastOneNumber
  <2> QED
    BY <2>5
<1> QED
  BY <1>3, <1>4

\* The multiples of a length up to a time of the last of them.
LEMMA EarlierMultiple ==
    ASSUME NEW L \in Nat \ {0}, NEW m \in Nat, NEW q \in Nat, NEW t \in Nat,
           m * L <= t, t < q * L + L, m * L # q * L
    PROVE  m * L + L <= q * L
<1>1. ASSUME NEW a \in Nat, NEW b \in Nat, a < b PROVE a * L + L <= b * L
  <2> PICK d \in Nat : d = b - (a + 1)
    BY <1>1
  <2>1. b = a + 1 + d
    OBVIOUS
  <2>2. (a + 1 + d) * L = a * L + L + d * L /\ d * L \in Nat /\ a * L \in Nat
    BY ONLY a \in Nat, d \in Nat, L \in Nat
  <2> QED
    BY <2>1, <2>2
<1>2. m # q
  OBVIOUS
<1>3. CASE q < m
  <2>1. q * L + L <= m * L
    BY <1>1, <1>3
  <2>2. m * L \in Nat /\ q * L \in Nat
    BY ONLY m \in Nat, q \in Nat, L \in Nat
  <2> PICK x \in Nat, y \in Nat : x = m * L /\ y = q * L
    BY <2>2
  <2> QED
    BY <2>1
<1>4. CASE m < q
  BY <1>1, <1>4
<1> QED
  BY <1>2, <1>3, <1>4

\* The rows of a user's history: one for each day, in their order, each holding what was
\* spent that day, and none but the last for the latest use.
DayRow == [day : Nat, value : Int, count : Int]
StartsDay(day) == \E m \in Nat : day = m * Length["daily"]
RowsOK(u, rows) ==
    /\ rows \in Seq(DayRow) /\ Len(rows) <= MaxDays
    /\ \A k \in 1 .. Len(rows) :
          /\ rows[k].value =
                Limiter!SpentIn(u, rows[k].day, rows[k].day + Length["daily"] - 1)
          /\ rows[k].day <= now
          /\ StartsDay(rows[k].day)
    /\ \A j, k \in 1 .. Len(rows) : j < k => rows[j].day + Length["daily"] <= rows[k].day
    /\ \A i \in Limiter!UsesIn(u, 0, now) :
          rows # <<>> /\ spent[i].at < rows[Len(rows)].day + Length["daily"]

\* A row of an earlier day without a new use.
LEMMA RowKept ==
    ASSUME SpentInOrder, NEW u, NEW p \in Use, p.at = now, spent' = Append(spent, p),
           now' = now, NEW a \in Nat, NEW L \in Nat \ {0}, a + L <= now
    PROVE  Limiter!SpentIn(u, a, a + L - 1)' = Limiter!SpentIn(u, a, a + L - 1)
<1> PICK e \in Int : e = a + L - 1
  OBVIOUS
<1>1. ~(now <= e)
  BY UseRead
<1>2. Limiter!SpentIn(u, a, e)' = Limiter!SpentIn(u, a, e)
  BY <1>1, UseSeen
<1> QED
  BY <1>2

\* The row of the day with a new use.
LEMMA RowUsed ==
    ASSUME SpentInOrder, NEW u, NEW p \in Use, p.at = now, p.user = u,
           spent' = Append(spent, p), now' = now, NEW a \in Nat, NEW L \in Nat \ {0},
           a <= now, now < a + L
    PROVE  Limiter!SpentIn(u, a, a + L - 1)' = Limiter!SpentIn(u, a, a + L - 1) + p.amount
<1> PICK e \in Int : e = a + L - 1
  OBVIOUS
<1>1. now <= e
  BY UseRead
<1>2. Limiter!SpentIn(u, a, e)' = Limiter!SpentIn(u, a, e) + p.amount
  BY <1>1, UseSeen
<1> QED
  BY <1>2

\* Rows that stay as they were, all of earlier days, and a row of a day after them.
EndsWith(new, rows, n, off, day, value) ==
    /\ n + off <= Len(rows) /\ n + 1 <= MaxDays
    /\ \A k \in 1 .. n : rows[k + off].day + Length["daily"] <= day
    /\ new \in Seq(DayRow) /\ Len(new) = n + 1
    /\ \A k \in 1 .. n : new[k] = rows[k + off]
    /\ new[n + 1].day = day /\ new[n + 1].value = value

\* The rows of a user end with that of the day of its new use.
LEMMA RowsEnd ==
    ASSUME Limiter!LimiterConstants, SpentInOrder, NEW u, NEW rows, RowsOK(u, rows),
           NEW p \in Use, p.at = now, p.user = u, spent' = Append(spent, p), now' = now,
           NEW day \in Nat, StartsDay(day), day <= now, now < day + Length["daily"],
           NEW off \in Nat, NEW n \in Nat, NEW new,
           EndsWith(new, rows, n, off, day,
                    Limiter!SpentIn(u, day, day + Length["daily"] - 1) + p.amount)
    PROVE  RowsOK(u, new)'
<1> PICK L : L = Length["daily"]
  OBVIOUS
<1>   /\ n + off <= Len(rows) /\ n + 1 <= MaxDays
      /\ \A k \in 1 .. n : rows[k + off].day + L <= day
      /\ new \in Seq(DayRow) /\ Len(new) = n + 1
      /\ \A k \in 1 .. n : new[k] = rows[k + off]
      /\ new[n + 1].day = day
      /\ new[n + 1].value = Limiter!SpentIn(u, day, day + L - 1) + p.amount
      /\ now < day + L
  BY DEF EndsWith
<1>1. /\ L \in Nat \ {0} /\ Len(rows) \in Nat /\ MaxDays \in Nat
      /\ \A k \in 1 .. Len(rows) : rows[k] \in DayRow /\ rows[k].day \in Nat
  <2>1. Len(rows) \in Nat /\ \A k \in 1 .. Len(rows) : rows[k] \in DayRow
    BY DEF RowsOK
  <2>2. L \in Nat \ {0} /\ MaxDays \in Nat
    BY DEF Limiter!LimiterConstants, Limiter!Window
  <2> QED
    BY <2>1, <2>2 DEF DayRow
<1> PICK t \in Nat : t = now
  BY UseRead
<1>2. \A k \in 1 .. n + 1 : k \in 1 .. n \/ k = n + 1
  OBVIOUS
<1>3. \A k \in 1 .. n : k + off \in 1 .. Len(rows)
  BY <1>1
<1>4. ASSUME NEW k \in 1 .. n + 1
      PROVE  /\ new[k].value = Limiter!SpentIn(u, new[k].day, new[k].day + L - 1)'
             /\ new[k].day <= t
             /\ StartsDay(new[k].day)
  <2>1. CASE k \in 1 .. n
    <3> PICK i \in 1 .. Len(rows) : i = k + off
      BY <1>3, <2>1
    <3> PICK a \in Nat : a = rows[i].day
      BY <1>1
    <3>1. new[k] = rows[i] /\ a + L <= day
      BY <2>1
    <3>2. Limiter!SpentIn(u, a, a + L - 1)' = Limiter!SpentIn(u, a, a + L - 1)
      <4>1. a + L <= t
        BY ONLY <1>1, <3>1, day <= now, t = now, a \in Nat, day \in Nat, t \in Nat
      <4>2. L \in Nat \ {0} /\ a + L <= now
        BY ONLY <1>1, <4>1, t = now
      <4> QED
        BY ONLY <4>2, a \in Nat, SpentInOrder, p \in Use, p.at = now,
                spent' = Append(spent, p), now' = now, RowKept
    <3>3. /\ rows[i].value = Limiter!SpentIn(u, a, a + L - 1)
          /\ rows[i].day <= t /\ StartsDay(rows[i].day)
      BY DEF RowsOK
    <3> QED
      BY <3>1, <3>2, <3>3
  <2>2. CASE k = n + 1
    <3>1. Limiter!SpentIn(u, day, day + L - 1)' = Limiter!SpentIn(u, day, day + L - 1) + p.amount
      <4>1. L \in Nat \ {0} /\ day <= now /\ now < day + L
        BY <1>1
      <4> QED
        BY ONLY <4>1, SpentInOrder, p \in Use, p.at = now, p.user = u,
                spent' = Append(spent, p), now' = now, day \in Nat, RowUsed
    <3> QED
      BY <2>2, <3>1
  <2> QED
    BY <1>2, <2>1, <2>2
<1>5. ASSUME NEW j \in 1 .. n + 1, NEW k \in 1 .. n + 1, j < k
      PROVE  new[j].day + L <= new[k].day
  <2>1. j \in 1 .. n
    BY <1>5
  <2>2. CASE k \in 1 .. n
    <3>1. /\ j + off \in 1 .. Len(rows) /\ k + off \in 1 .. Len(rows) /\ j + off < k + off
      BY <1>3, <1>5, <2>1, <2>2
    <3>2. rows[j + off].day + L <= rows[k + off].day
      BY <3>1 DEF RowsOK
    <3> QED
      BY <2>1, <2>2, <3>2
  <2>3. CASE k = n + 1
    BY <2>1, <2>3
  <2> QED
    BY <1>2, <2>2, <2>3
<1>6. ASSUME NEW i \in Limiter!UsesIn(u, 0, t)'
      PROVE  new # <<>> /\ spent'[i].at < new[n + 1].day + L
  <2> PICK m : m = Len(spent)
    OBVIOUS
  <2>1. Limiter!UsesIn(u, 0, t)' = Limiter!UsesIn(u, 0, t) \cup {m + 1}
    BY UseSeen
  <2>2. /\ \A k \in 1 .. m : spent'[k] = spent[k]
        /\ spent'[m + 1] = p
    BY UseAdded
  <2>3. spent'[i].at \in Nat /\ spent'[i].at <= t
    <3>1. i \in 1 .. m \/ i = m + 1
      <4>1. Limiter!UsesIn(u, 0, t) \subseteq 1 .. m
        BY UsesFinite
      <4> QED
        BY <2>1, <4>1
    <3>2. \A k \in 1 .. m : spent[k].at \in Nat /\ spent[k].at <= t
      BY UseRead
    <3> QED
      BY <2>2, <3>1, <3>2
  <2>4. new # <<>>
    OBVIOUS
  <2>5. spent'[i].at < day + L
    BY ONLY <1>1, <2>3, now < day + L, t = now, t \in Nat, day \in Nat
  <2> QED
    BY <2>4, <2>5
<1>7. now' = t /\ Len(new) <= MaxDays
  OBVIOUS
<1> QED
  BY <1>4, <1>5, <1>6, <1>7 DEF RowsOK

\* The oldest row is dropped where there are too many.
LEMMA RowsCut ==
    ASSUME NEW rows \in Seq(DayRow), Len(rows) <= MaxDays, MaxDays \in Nat \ {0},
           NEW kept, kept = IF Len(rows) >= MaxDays THEN Tail(rows) ELSE rows
    PROVE  /\ kept \in Seq(DayRow) /\ Len(kept) \in Nat /\ Len(kept) + 1 <= MaxDays
           /\ \E off \in Nat : /\ Len(kept) + off <= Len(rows)
                               /\ \A k \in 1 .. Len(kept) : kept[k] = rows[k + off]
<1>1. Len(rows) \in Nat
  OBVIOUS
<1>2. CASE Len(rows) >= MaxDays
  <2>1. rows # <<>> /\ Len(rows) = MaxDays
    BY <1>1, <1>2
  <2>2. /\ Tail(rows) \in Seq(DayRow) /\ Len(Tail(rows)) = Len(rows) - 1
        /\ \A k \in 1 .. Len(rows) - 1 : Tail(rows)[k] = rows[k + 1]
    BY <2>1
  <2> QED
    BY <1>1, <1>2, <2>1, <2>2
<1>3. CASE ~(Len(rows) >= MaxDays)
  <2>1. kept = rows
    BY <1>3
  <2>2. \A k \in 1 .. Len(rows) : rows[k] = rows[k + 0]
    BY <1>1
  <2> QED
    BY <1>1, <1>3, <2>1, <2>2
<1> QED
  BY <1>2, <1>3

\* A new use is written to the row of its day.
LEMMA RowsRecorded ==
    ASSUME Limiter!LimiterConstants, SpentInOrder, NEW u, NEW rows, RowsOK(u, rows),
           NEW p \in Use, p.at = now, p.user = u, spent' = Append(spent, p), now' = now,
           NEW new, new = Limiter!Recorded(rows, p.amount)
    PROVE  RowsOK(u, new)'
<1> PICK L \in Nat \ {0} : L = Length["daily"]
  BY DEF Limiter!LimiterConstants, Limiter!Window
<1> PICK t \in Nat : t = now
  BY UseRead
<1> PICK amount \in Nat : amount = p.amount
  BY DEF Use
<1>1. PICK q \in Nat : L * q <= t /\ t < L * q + L /\ q = t \div L
  BY DivisionBounds
<1>2. q * L \in Nat /\ q * L = L * q
  BY ONLY q \in Nat, L \in Nat
<1>3. PICK day \in Nat : day = q * L
  BY <1>2
<1>4. day <= t /\ t < day + L /\ StartsDay(day)
  BY <1>1, <1>2, <1>3 DEF StartsDay
<1> PICK kept : kept = IF Len(rows) >= MaxDays THEN Tail(rows) ELSE rows
  OBVIOUS
<1>5. new = IF rows # <<>> /\ Limiter!Last(rows).day = day
            THEN [rows EXCEPT ![Len(rows)] =
                     [day |-> day, value |-> rows[Len(rows)].value + amount,
                      count |-> rows[Len(rows)].count + 1]]
            ELSE Append(kept, [day |-> day, value |-> amount, count |-> 1])
  BY <1>1, <1>3 DEF Limiter!Recorded
<1>6. /\ rows \in Seq(DayRow) /\ Len(rows) \in Nat /\ Len(rows) <= MaxDays
      /\ MaxDays \in Nat \ {0}
      /\ \A k \in 1 .. Len(rows) : rows[k] \in DayRow
  <2>1. rows \in Seq(DayRow) /\ Len(rows) <= MaxDays
    BY DEF RowsOK
  <2>2. Len(rows) \in Nat /\ \A k \in 1 .. Len(rows) : rows[k] \in DayRow
    BY ONLY <2>1
  <2>3. MaxDays \in Nat \ {0}
    BY DEF Limiter!LimiterConstants
  <2> QED
    BY ONLY <2>1, <2>2, <2>3
<1>7. \A k \in 1 .. Len(rows) :
         rows[k].day \in Nat /\ rows[k].value \in Int /\ rows[k].count \in Int
  BY <1>6 DEF DayRow
<1>8. CASE rows # <<>> /\ Limiter!Last(rows).day = day
  <2>1. Len(rows) > 0 /\ Limiter!Last(rows) = rows[Len(rows)]
    BY <1>6, <1>8 DEF Limiter!Last
  <2> PICK n \in Nat : n + 1 = Len(rows)
    <3>1. Len(rows) - 1 \in Nat /\ (Len(rows) - 1) + 1 = Len(rows)
      BY <1>6, <2>1
    <3> QED
      BY <3>1
  <2>2. n + 1 \in 1 .. Len(rows) /\ rows[n + 1].day = day
    BY <1>8, <2>1
  <2> PICK x \in Int, y \in Int : x = rows[n + 1].value /\ y = rows[n + 1].count
    BY <1>7, <2>2
  <2> PICK r : r = [day |-> day, value |-> x + amount, count |-> y + 1]
    OBVIOUS
  <2>3. r \in DayRow /\ r.day = day /\ r.value = x + amount
    BY SMTT(30) DEF DayRow
  <2>4. new = [rows EXCEPT ![n + 1] = r]
    BY <1>5, <1>8
  <2> PICK off \in Nat : off = 0
    OBVIOUS
  <2>5. /\ new \in Seq(DayRow) /\ Len(new) = n + 1 /\ new[n + 1] = r
        /\ \A k \in 1 .. n : new[k] = rows[k + off]
    BY <1>6, <2>2, <2>3, <2>4
  <2>6. \A k \in 1 .. n : rows[k + off].day + L <= day
    <3>1. \A k \in 1 .. n : k + off = k /\ k \in 1 .. Len(rows) /\ k < n + 1
      BY ONLY off = 0, n \in Nat, n + 1 = Len(rows)
    <3>2. \A j, k \in 1 .. Len(rows) : j < k => rows[j].day + L <= rows[k].day
      BY DEF RowsOK
    <3> QED
      BY <2>2, <3>1, <3>2
  <2>7. x = Limiter!SpentIn(u, day, day + L - 1)
    BY <2>2 DEF RowsOK
  <2>8. n + off <= Len(rows) /\ n + 1 <= MaxDays
    BY <1>6
  <2>9. new[n + 1].day = day
        /\ new[n + 1].value = Limiter!SpentIn(u, day, day + L - 1) + p.amount
    BY <2>3, <2>5, <2>7
  <2> QED
    <3>1. EndsWith(new, rows, n, off, day,
                   Limiter!SpentIn(u, day, day + Length["daily"] - 1) + p.amount)
      BY ONLY <2>5, <2>6, <2>8, <2>9, L = Length["daily"] DEF EndsWith
    <3> QED
      BY <1>4, <3>1, RowsEnd
<1>9. CASE ~(rows # <<>> /\ Limiter!Last(rows).day = day)
  <2>1. \A k \in 1 .. Len(rows) : rows[k].day + L <= day
    <3>1. SUFFICES ASSUME NEW k \in 1 .. Len(rows) PROVE rows[k].day + L <= day
      OBVIOUS
    <3> PICK l \in 1 .. Len(rows) : l = Len(rows)
      BY <1>6
    <3> PICK a \in Nat, b \in Nat : a = rows[k].day /\ b = rows[l].day
      BY <1>7
    <3>2. b # day
      BY <1>6, <1>9 DEF Limiter!Last
    <3>3. b <= t /\ \E m \in Nat : b = m * L
      BY DEF RowsOK, StartsDay
    <3>4. b + L <= day
      <4> PICK m \in Nat : b = m * L
        BY <3>3
      <4>1. m * L <= t /\ t < q * L + L /\ m * L # q * L
        BY <1>3, <1>4, <3>2, <3>3
      <4>2. m * L + L <= q * L
        BY ONLY <4>1, m \in Nat, q \in Nat, t \in Nat, L \in Nat \ {0}, EarlierMultiple
      <4> QED
        BY ONLY <1>3, <4>2, b = m * L
    <3>5. CASE k = l
      BY <3>4, <3>5
    <3>6. CASE k < l
      <4>1. a + L <= b
        BY <3>6 DEF RowsOK
      <4> QED
        BY ONLY <3>4, <4>1, a \in Nat, b \in Nat, day \in Nat, L \in Nat \ {0},
                a = rows[k].day
    <3> QED
      BY <3>5, <3>6
  <2>2. PICK off \in Nat : Len(kept) + off <= Len(rows)
                           /\ \A k \in 1 .. Len(kept) : kept[k] = rows[k + off]
    BY ONLY <1>6, kept = (IF Len(rows) >= MaxDays THEN Tail(rows) ELSE rows), RowsCut
  <2>3. kept \in Seq(DayRow) /\ Len(kept) \in Nat /\ Len(kept) + 1 <= MaxDays
    BY ONLY <1>6, kept = (IF Len(rows) >= MaxDays THEN Tail(rows) ELSE rows), RowsCut
  <2> PICK n \in Nat : n = Len(kept)
    BY <2>3
  <2> PICK r : r = [day |-> day, value |-> amount, count |-> 1]
    OBVIOUS
  <2>4. r \in DayRow /\ r.day = day /\ r.value = amount
    BY DEF DayRow
  <2>5. new = Append(kept, r)
    BY <1>5, <1>9
  <2>6. /\ new \in Seq(DayRow) /\ Len(new) = n + 1 /\ new[n + 1] = r
        /\ \A k \in 1 .. n : new[k] = rows[k + off]
    BY ONLY <2>2, <2>3, <2>4, <2>5, n = Len(kept)
  <2>7. \A k \in 1 .. n : rows[k + off].day + L <= day
    <3>1. \A k \in 1 .. n : k + off \in 1 .. Len(rows)
      BY ONLY <1>6, <2>2, n = Len(kept), n \in Nat, off \in Nat
    <3> QED
      BY ONLY <2>1, <3>1
  <2>8. Limiter!SpentIn(u, day, day + L - 1) = 0
    <3> PICK e \in Int : e = day + L - 1
      OBVIOUS
    <3>1. ASSUME NEW i \in Limiter!UsesIn(u, day, e) PROVE FALSE
      <4>1. i \in 1 .. Len(spent) /\ spent[i].user = u /\ day <= spent[i].at
        BY ONLY UsesFinite, SpentInOrder, day \in Int, e \in Int
      <4>2. spent[i].at \in Nat /\ spent[i].at <= t
        BY <4>1, UseRead
      <4>3. i \in Limiter!UsesIn(u, 0, t)
        BY <4>1, <4>2, UsesFinite
      <4>4. rows # <<>> /\ spent[i].at < rows[Len(rows)].day + L
        BY <4>3 DEF RowsOK
      <4>5. Len(rows) \in 1 .. Len(rows)
        BY <1>6, <4>4
      <4> PICK a \in Nat, b \in Nat : a = spent[i].at /\ b = rows[Len(rows)].day
        BY <1>7, <4>2, <4>5
      <4>6. day <= a /\ a < b + L /\ b + L <= day
        BY ONLY <2>1, <4>1, <4>4, <4>5, a = spent[i].at, b = rows[Len(rows)].day
      <4> QED
        BY ONLY <4>6, a \in Nat, b \in Nat, L \in Nat, day \in Nat
    <3>2. Limiter!UsesIn(u, day, e) = {}
      BY <3>1
    <3> QED
      BY <3>2, SpentNumber
  <2>9. new[n + 1].day = day
        /\ new[n + 1].value = Limiter!SpentIn(u, day, day + L - 1) + p.amount
    BY <2>4, <2>6, <2>8, SMTT(30)
  <2> QED
    <3>1. EndsWith(new, rows, n, off, day,
                   Limiter!SpentIn(u, day, day + Length["daily"] - 1) + p.amount)
      BY ONLY <2>2, <2>3, <2>6, <2>7, <2>9, L = Length["daily"], n = Len(kept) DEF EndsWith
    <3> QED
      BY <1>4, <3>1, RowsEnd
<1> QED
  BY <1>8, <1>9

\* The rows of a user without a new use.
LEMMA RowsKept ==
    ASSUME Limiter!LimiterConstants, SpentInOrder, SpentInOrder', NEW v, NEW rows,
           RowsOK(v, rows), NoneSince(v)
    PROVE  RowsOK(v, rows)'
<1> PICK L \in Nat \ {0} : L = Length["daily"]
  BY DEF Limiter!LimiterConstants, Limiter!Window
<1> PICK t \in Nat : t = now
  BY UseRead
<1> PICK t2 \in Nat : t2 = now'
  <2>1. now' \in Nat
    BY DEF SpentInOrder
  <2> QED
    BY <2>1
<1>1. t <= t2
  BY DEF NoneSince
<1>2. /\ rows \in Seq(DayRow) /\ Len(rows) <= MaxDays
      /\ \A k \in 1 .. Len(rows) :
            /\ rows[k].value = Limiter!SpentIn(v, rows[k].day, rows[k].day + L - 1)
            /\ rows[k].day <= t
            /\ StartsDay(rows[k].day)
      /\ \A j, k \in 1 .. Len(rows) : j < k => rows[j].day + L <= rows[k].day
      /\ \A i \in Limiter!UsesIn(v, 0, t) :
            rows # <<>> /\ spent[i].at < rows[Len(rows)].day + L
  BY DEF RowsOK
<1>3. ASSUME NEW k \in 1 .. Len(rows)
      PROVE  /\ rows[k].value = Limiter!SpentIn(v, rows[k].day, rows[k].day + L - 1)'
             /\ rows[k].day <= t2
  <2> PICK a \in Nat : a = rows[k].day
    <3>1. rows[k] \in DayRow
      BY <1>2
    <3> QED
      BY <3>1 DEF DayRow
  <2> PICK e \in Int : e = a + L - 1
    OBVIOUS
  <2>1. Limiter!SpentIn(v, a, e)' = Limiter!SpentIn(v, a, e)
    BY DEF NoneSince
  <2>2. a <= t2
    BY <1>1, <1>2
  <2> QED
    BY <1>2, <2>1, <2>2
<1>4. ASSUME NEW i \in Limiter!UsesIn(v, 0, t2)'
      PROVE  rows # <<>> /\ spent'[i].at < rows[Len(rows)].day + L
  <2>1. Limiter!UsesIn(v, 0, t2)' = Limiter!UsesIn(v, 0, t2)
        /\ \A k \in Limiter!UsesIn(v, 0, t2) : spent'[k] = spent[k]
    <3>1. 0 \in Int /\ t2 \in Int
      OBVIOUS
    <3> QED
      BY ONLY <3>1, NoneSince(v) DEF NoneSince
  <2>2. Limiter!UsesIn(v, 0, t2) = Limiter!UsesIn(v, 0, t)
    BY <1>1, LaterSame
  <2> QED
    BY <1>2, <2>1, <2>2
<1> QED
  BY <1>2, <1>3, <1>4 DEF RowsOK

\* What all users were allowed in a span.
SpentBy(from, to) == [v \in User |-> Limiter!SpentIn(v, from, to)]
AllIn(from, to) == SumFunctionOnSet(SpentBy(from, to), User)

\* A global window holds what was spent since it started, and no use is younger than its end.
GlobalOK(w, c) ==
    /\ c \in Counter /\ c.start <= now
    /\ c.value = AllIn(c.start, now)
    /\ \A k \in 1 .. Len(spent) : spent[k].at < c.start + Length[w]

\* A global window stays true while nothing is spent.
LEMMA GlobalKept ==
    ASSUME SpentInOrder, SpentInOrder', spent' = spent, now <= now',
           NEW w, NEW c, GlobalOK(w, c)
    PROVE  GlobalOK(w, c)'
<1> PICK t \in Nat : t = now
  BY UseRead
<1> PICK t2 \in Nat : t2 = now'
  <2>1. now' \in Nat
    BY DEF SpentInOrder
  <2> QED
    BY <2>1
<1> PICK s \in Nat : s = c.start
  BY DEF GlobalOK, Counter
<1>1. c \in Counter /\ s <= t /\ t <= t2
  BY DEF GlobalOK
<1>2. \A v \in User : Limiter!SpentIn(v, s, t2)' = Limiter!SpentIn(v, s, t)
  <2> SUFFICES ASSUME NEW v \in User
               PROVE  Limiter!SpentIn(v, s, t2)' = Limiter!SpentIn(v, s, t)
    OBVIOUS
  <2>1. Limiter!SpentIn(v, s, t2) = Limiter!SpentIn(v, s, t)
    BY <1>1, LaterSame
  <2>2. Limiter!SpentIn(v, s, t2)' = Limiter!SpentIn(v, s, t2)
    BY DEF Limiter!SpentIn, Limiter!UsesIn
  <2> QED
    BY <2>1, <2>2
<1>3. SpentBy(s, t2)' = SpentBy(s, t)
  BY <1>2 DEF SpentBy
<1>4. AllIn(s, t2)' = AllIn(s, t)
  BY <1>3 DEF AllIn
<1>5. c.value = AllIn(s, t2)'
  BY <1>4 DEF GlobalOK
<1> QED
  BY <1>1, <1>5 DEF GlobalOK

\* A global window that is over starts again with nothing spent in it.
LEMMA GlobalDecayed ==
    ASSUME Limiter!LimiterConstants, SpentInOrder, NEW w \in Limiter!GlobalWindow, NEW c,
           GlobalOK(w, c)
    PROVE  /\ GlobalOK(w, Limiter!Decayed(c, w))
           /\ now < Limiter!Decayed(c, w).start + Length[w]
<1>1. w \in Limiter!Window
  BY DEF Limiter!Window, Limiter!GlobalWindow
<1> PICK L \in Nat \ {0} : L = Length[w]
  BY <1>1 DEF Limiter!LimiterConstants
<1> PICK t \in Nat : t = now
  BY UseRead
<1> PICK s \in Nat : s = c.start
  BY DEF GlobalOK, Counter
<1>2. CASE ~(t >= s + L)
  <2>1. Limiter!Decayed(c, w) = c
    BY <1>2 DEF Limiter!Decayed
  <2> QED
    BY <1>2, <2>1
<1>3. CASE t >= s + L
  <2> PICK d : d = Limiter!Decayed(c, w)
    OBVIOUS
  <2>1. d = [value |-> 0, count |-> 0, start |-> t]
    BY <1>3 DEF Limiter!Decayed, Limiter!EmptyWindow
  <2>2. d \in Counter /\ d.start = t /\ d.value = 0
    BY <2>1 DEF Counter
  <2>3. \A k \in 1 .. Len(spent) : spent[k].at \in Nat /\ spent[k].at < s + L
    BY UseRead DEF GlobalOK
  <2>4. ASSUME NEW v \in User PROVE Limiter!SpentIn(v, t, t) = 0
    <3>1. ASSUME NEW i \in Limiter!UsesIn(v, t, t) PROVE FALSE
      <4>1. i \in 1 .. Len(spent) /\ t <= spent[i].at
        BY UsesFinite
      <4> QED
        BY <1>3, <2>3, <4>1
    <3>2. Limiter!UsesIn(v, t, t) = {}
      BY <3>1
    <3> QED
      BY <3>2, SpentNumber
  <2>5. AllIn(t, t) = 0
    <3> PICK f : f = SpentBy(t, t)
      OBVIOUS
    <3>1. IsFiniteSet(User) /\ \A v \in User : f[v] = 0
      BY <2>4 DEF SpentBy, Limiter!LimiterConstants, Limiter!IsFiniteSet, IsFiniteSet
    <3>2. SumFunctionOnSet(f, User) = 0
      BY <3>1, SumConstantZero
    <3> QED
      BY <3>2 DEF AllIn
  <2>6. \A k \in 1 .. Len(spent) : spent[k].at < t + L
    BY <1>3, <2>3, SMTT(30)
  <2>7. GlobalOK(w, d)
    BY <2>2, <2>5, <2>6 DEF GlobalOK
  <2> QED
    BY <2>2, <2>7
<1> QED
  BY <1>2, <1>3

\* A global window takes the use of any user.
LEMMA GlobalUsed ==
    ASSUME Limiter!LimiterConstants, SpentInOrder, NEW w \in Limiter!GlobalWindow, NEW c,
           GlobalOK(w, c), now < c.start + Length[w],
           NEW p \in Use, p.at = now, spent' = Append(spent, p), now' = now
    PROVE  GlobalOK(w, Limiter!Used(c, p.amount))'
<1>1. w \in Limiter!Window
  BY DEF Limiter!Window, Limiter!GlobalWindow
<1> PICK L \in Nat \ {0} : L = Length[w]
  BY <1>1 DEF Limiter!LimiterConstants
<1> PICK t \in Nat : t = now
  BY UseRead
<1> PICK s \in Nat : s = c.start
  BY DEF GlobalOK, Counter
<1> PICK amount \in Nat, u \in User : amount = p.amount /\ u = p.user
  BY DEF Use
<1> PICK n : n = Len(spent)
  OBVIOUS
<1> PICK d : d = Limiter!Used(c, p.amount)
  OBVIOUS
<1>2. c \in Counter /\ s <= t /\ c.value \in Int /\ c.count \in Int
  BY DEF GlobalOK, Counter
<1>3. d \in Counter /\ d.start = s /\ d.value = c.value + amount
  <2>1. d = [c EXCEPT !.value = c.value + amount, !.count = c.count + 1]
    BY DEF Limiter!Used
  <2>2. c.value + amount \in Int /\ c.count + 1 \in Int
    BY <1>2, SMTT(30)
  <2> QED
    BY <1>2, <2>1, <2>2 DEF Counter
<1> PICK f : f = SpentBy(s, t)
  OBVIOUS
<1> PICK g : g = SpentBy(s, t)'
  OBVIOUS
<1>4. \A v \in User : f[v] \in Int /\ g[v] \in Int
  <2>1. ASSUME NEW v \in User PROVE f[v] \in Int /\ g[v] \in Int
    <3>1. f[v] = Limiter!SpentIn(v, s, t) /\ g[v] = Limiter!SpentIn(v, s, t)'
      BY DEF SpentBy
    <3>2. Limiter!SpentIn(v, s, t) \in Nat
      BY SpentNumber
    <3>3. Limiter!SpentIn(v, s, t)' \in {Limiter!SpentIn(v, s, t), Limiter!SpentIn(v, s, t) + amount}
      BY UseSeen, SMTT(30)
    <3> QED
      BY <3>1, <3>2, <3>3
  <2> QED
    BY <2>1
<1>5. g[u] = f[u] + amount
  <2>1. Limiter!SpentIn(u, s, t)' = Limiter!SpentIn(u, s, t) + amount
    BY <1>2, UseSeen, SMTT(30)
  <2> QED
    BY <2>1 DEF SpentBy
<1>6. \A v \in User \ {u} : g[v] = f[v]
  <2>1. ASSUME NEW v \in User, v # u PROVE g[v] = f[v]
    <3>1. Limiter!SpentIn(v, s, t)' = Limiter!SpentIn(v, s, t)
      BY <2>1, UseSeen, SMTT(30)
    <3> QED
      BY <3>1 DEF SpentBy
  <2> QED
    BY <2>1
<1>7. SumFunctionOnSet(g, User) = SumFunctionOnSet(f, User) + g[u] - f[u]
      /\ SumFunctionOnSet(f, User) \in Int
  <2>1. IsFiniteSet(User)
    BY DEF Limiter!LimiterConstants, Limiter!IsFiniteSet, IsFiniteSet
  <2>2. SumFunctionOnSet(g, User) = SumFunctionOnSet(f, User) + g[u] - f[u]
    BY ONLY <1>4, <1>6, <2>1, u \in User, SumChange
  <2>3. SumFunctionOnSet(f, User) \in Int
    BY ONLY <1>4, <2>1, SumType
  <2> QED
    BY ONLY <2>2, <2>3
<1>8. d.value = AllIn(s, t)'
  <2>1. AllIn(s, t)' = SumFunctionOnSet(g, User) /\ AllIn(s, t) = SumFunctionOnSet(f, User)
    BY DEF AllIn
  <2>2. c.value = SumFunctionOnSet(f, User)
    BY <2>1 DEF GlobalOK
  <2>3. f[u] \in Int /\ g[u] \in Int
    BY <1>4
  <2>4. SumFunctionOnSet(g, User) = SumFunctionOnSet(f, User) + amount
    BY ONLY <1>5, <1>7, <2>3, amount \in Nat
  <2> QED
    BY ONLY <1>3, <2>1, <2>2, <2>4
<1>9. \A k \in 1 .. Len(spent') : spent'[k].at < s + L
  <2>1. /\ n \in Nat /\ Len(spent') = n + 1 /\ spent'[n + 1] = p
        /\ \A k \in 1 .. n : spent'[k] = spent[k]
    BY UseAdded
  <2>2. \A k \in 1 .. n : spent[k].at < s + L
    BY DEF GlobalOK
  <2>3. \A k \in 1 .. n + 1 : k \in 1 .. n \/ k = n + 1
    BY <2>1
  <2> QED
    BY <2>1, <2>2, <2>3
<1>10. GlobalOK(w, d)'
  <2>1. now' = t
    OBVIOUS
  <2> QED
    BY <1>2, <1>3, <1>8, <1>9, <2>1 DEF GlobalOK
<1> QED
  BY <1>10

\* What holds of the records of a user.
Sound(u) ==
    /\ usage[u] = Limiter!NoUsage => Limiter!UsesIn(u, 0, now) = {}
    /\ usage[u] # Limiter!NoUsage => UserOK(u, usage[u])
    /\ RowsOK(u, use_history[u])
    /\ \A w \in Limiter!Window : \A from \in Nat : TwoLimits(u, w, from, from + Length[w] - 1)

\* A usage that has windows is not the mark of none.
LEMMA UsageExists ==
    ASSUME NEW r \in Usage
    PROVE  r # Limiter!NoUsage
<1>1. "daily" \in DOMAIN r.windows
  BY DEF Usage, Limiter!Window
<1>2. Limiter!NoUsage.windows = <<>>
  BY DEF Limiter!NoUsage
<1>3. DOMAIN <<>> = {}
  OBVIOUS
<1> QED
  BY <1>1, <1>2, <1>3

\* What the limiter reads of a user.
LEMMA UsageRead ==
    ASSUME Limiter!LimiterConstants, SpentInOrder, NEW u \in User, Sound(u)
    PROVE  UserOK(u, Limiter!UsageOf(u))
<1>1. CASE usage[u] = Limiter!NoUsage
  BY <1>1, FreshOK DEF Sound, Limiter!UsageOf
<1>2. CASE usage[u] # Limiter!NoUsage
  BY <1>2 DEF Sound, Limiter!UsageOf
<1> QED
  BY <1>1, <1>2

\* A cooldown is no part of what the windows hold.
LEMMA CooldownSet ==
    ASSUME NEW u, NEW r, UserOK(u, r), NEW x \in Nat
    PROVE  UserOK(u, [r EXCEPT !.cooldown_until = x])
<1> PICK q : q = [r EXCEPT !.cooldown_until = x]
  OBVIOUS
<1>1. r \in Usage
  BY DEF UserOK
<1>2. /\ q \in Usage /\ q.windows = r.windows /\ q.first_activity = r.first_activity
      /\ q.lifetime_value = r.lifetime_value
  BY <1>1 DEF Usage
<1>3. UserOK(u, q)
  BY <1>2 DEF UserOK
<1> QED
  BY <1>3

\* The spans of a user without a new use.
LEMMA SpansKept ==
    ASSUME Limiter!LimiterConstants, NEW v, NoneSince(v), NEW w \in Limiter!Window,
           NEW from \in Nat, TwoLimits(v, w, from, from + Length[w] - 1)
    PROVE  TwoLimits(v, w, from, from + Length[w] - 1)'
<1> PICK to \in Int : to = from + Length[w] - 1
  BY DEF Limiter!LimiterConstants
<1>1. /\ Limiter!UsesIn(v, from, to)' = Limiter!UsesIn(v, from, to)
      /\ Limiter!SpentIn(v, from, to)' = Limiter!SpentIn(v, from, to)
      /\ \A k \in Limiter!UsesIn(v, from, to) : spent'[k] = spent[k]
  BY DEF NoneSince
<1>2. TwoLimits(v, w, from, to)
  OBVIOUS
<1>3. TwoLimits(v, w, from, to)'
  BY ONLY <1>1, <1>2 DEF TwoLimits
<1> QED
  BY <1>3

\* A user without a new use may have the windows it had renewed.
LEMMA SoundRenewed ==
    ASSUME Limiter!LimiterConstants, SpentInOrder, SpentInOrder', NEW v \in User, Sound(v),
           NoneSince(v), NEW r, UserOK(v, r), usage'[v] = r, use_history'[v] = use_history[v]
    PROVE  Sound(v)'
<1>1. UserOK(v, r)'
  BY UserKept
<1>2. r # Limiter!NoUsage
  BY UsageExists DEF UserOK
<1>3. RowsOK(v, use_history[v])'
  <2> PICK rows : rows = use_history[v]
    OBVIOUS
  <2>1. RowsOK(v, rows)
    BY DEF Sound
  <2>2. RowsOK(v, rows)'
    BY <2>1, RowsKept
  <2> QED
    BY <2>2
<1>4. \A w \in Limiter!Window : \A from \in Nat :
         TwoLimits(v, w, from, from + Length[w] - 1)'
  BY SpansKept DEF Sound
<1> QED
  BY <1>1, <1>2, <1>3, <1>4 DEF Sound

\* A user without a new use keeps its records.
LEMMA SoundKept ==
    ASSUME Limiter!LimiterConstants, SpentInOrder, SpentInOrder', NEW v \in User, Sound(v),
           NoneSince(v), usage'[v] = usage[v], use_history'[v] = use_history[v]
    PROVE  Sound(v)'
<1>1. CASE usage[v] # Limiter!NoUsage
  <2>1. UserOK(v, usage[v])
    BY <1>1 DEF Sound
  <2> PICK r : r = usage[v]
    OBVIOUS
  <2> QED
    BY <2>1, SoundRenewed
<1>2. CASE usage[v] = Limiter!NoUsage
  <2> PICK t \in Nat : t = now
    BY UseRead
  <2> PICK t2 \in Nat : t2 = now'
    <3>1. now' \in Nat
      BY DEF SpentInOrder
    <3> QED
      BY <3>1
  <2>1. t <= t2
    BY DEF NoneSince
  <2>2. Limiter!UsesIn(v, 0, t2)' = {}
    <3>1. Limiter!UsesIn(v, 0, t) = {}
      BY <1>2 DEF Sound
    <3>2. Limiter!UsesIn(v, 0, t2) = Limiter!UsesIn(v, 0, t)
      BY <2>1, LaterSame
    <3>3. Limiter!UsesIn(v, 0, t2)' = Limiter!UsesIn(v, 0, t2)
      <4>1. 0 \in Int /\ t2 \in Int
        OBVIOUS
      <4> QED
        BY ONLY <4>1, NoneSince(v) DEF NoneSince
    <3> QED
      BY <3>1, <3>2, <3>3
  <2>3. RowsOK(v, use_history[v])'
    <3> PICK rows : rows = use_history[v]
      OBVIOUS
    <3>1. RowsOK(v, rows)
      BY DEF Sound
    <3>2. RowsOK(v, rows)'
      BY <3>1, RowsKept
    <3> QED
      BY <3>2
  <2>4. \A w \in Limiter!Window : \A from \in Nat :
           TwoLimits(v, w, from, from + Length[w] - 1)'
    BY SpansKept DEF Sound
  <2> QED
    BY <1>2, <2>2, <2>3, <2>4 DEF Sound
<1> QED
  BY <1>1, <1>2

\* A user with a new use.
LEMMA SoundRecorded ==
    ASSUME Limiter!LimiterConstants, SpentInOrder, NEW u \in User, Sound(u),
           NEW r, UserOK(u, r),
           \A w \in Limiter!Window : now < r.windows[w].start + Length[w],
           NEW p \in Use, p.at = now, p.user = u,
           \A w \in Limiter!Window : r.windows[w].value + p.amount <= p.limits[w],
           spent' = Append(spent, p), now' = now,
           usage'[u] = RecordedUse(r, p.amount),
           use_history'[u] = Limiter!Recorded(use_history[u], p.amount)
    PROVE  Sound(u)'
<1> PICK q : q = RecordedUse(r, p.amount)
  OBVIOUS
<1>1. UserOK(u, q)'
  <2>1. UserOK(u, RecordedUse(r, p.amount))'
    BY RecordedUser
  <2>2. RecordedUse(r, p.amount)' = RecordedUse(r, p.amount)
    BY DEF RecordedUse, Limiter!Used
  <2> QED
    BY <2>1, <2>2
<1>2. q # Limiter!NoUsage
  BY <1>1, UsageExists DEF UserOK
<1>3. RowsOK(u, use_history[u])'
  <2> PICK rows : rows = use_history[u]
    OBVIOUS
  <2> PICK new : new = Limiter!Recorded(rows, p.amount)
    OBVIOUS
  <2>1. RowsOK(u, rows)
    BY DEF Sound
  <2>2. RowsOK(u, new)'
    BY <2>1, RowsRecorded
  <2> QED
    BY <2>2
<1>4. ASSUME NEW w \in Limiter!Window, NEW from \in Nat
      PROVE  TwoLimits(u, w, from, from + Length[w] - 1)'
  <2> PICK c : c = r.windows[w]
    OBVIOUS
  <2>1. WindowOK(u, w, c) /\ c.value + p.amount <= p.limits[w]
    BY DEF UserOK
  <2>2. Length[w] \in Nat \ {0}
    BY DEF Limiter!LimiterConstants
  <2> PICK to \in Int : to = from + Length[w] - 1
    BY <2>2
  <2>3. TwoLimits(u, w, from, to) /\ to < from + Length[w]
    BY <2>2 DEF Sound
  <2>4. TwoLimits(u, w, from, to)'
    BY <2>1, <2>2, <2>3, TwoLimitsUsed
  <2> QED
    BY <2>4
<1>5. usage'[u] = q
  OBVIOUS
<1> QED
  BY <1>1, <1>2, <1>3, <1>4, <1>5 DEF Sound

\* The inductive invariant of the limiter.
LimiterInv ==
    /\ LimiterSet /\ SpentInOrder
    /\ risk \in [User -> [breach_count : Nat, factor : Int]]
    /\ usage \in [User -> Usage \cup {Limiter!NoUsage}]
    /\ use_history \in [User -> Seq(DayRow)]
    /\ \A u \in User : Sound(u)
    /\ global_usage \in [Limiter!GlobalWindow -> Counter]
    /\ \A w \in Limiter!GlobalWindow : GlobalOK(w, global_usage[w])

\* It holds when the limiter is deployed.
LEMMA InitLimiter ==
    ASSUME Limiter!LimiterConstants, Limiter!Init
    PROVE  LimiterInv
<1> USE DEF Limiter!Init
<1>1. LimiterSet
  BY SMTT(30) DEF LimiterSet, Limiter!LimiterConstants
<1>2. SpentInOrder
  BY DEF SpentInOrder, Limiter!LimiterConstants
<1>3. \A u, from, to : Limiter!UsesIn(u, from, to) = {}
  BY DEF Limiter!UsesIn
<1>4. ASSUME NEW u \in User PROVE Sound(u)
  <2>1. usage[u] = Limiter!NoUsage /\ use_history[u] = <<>>
    OBVIOUS
  <2>2. RowsOK(u, use_history[u])
    BY <1>3, <2>1 DEF RowsOK, Limiter!LimiterConstants
  <2>3. \A w, from, to : TwoLimits(u, w, from, to)
    BY <1>3 DEF TwoLimits
  <2> QED
    BY <1>3, <2>1, <2>2, <2>3 DEF Sound
<1>5. ASSUME NEW w \in Limiter!GlobalWindow
      PROVE  global_usage[w] \in Counter /\ GlobalOK(w, global_usage[w])
  <2> PICK c : c = global_usage[w]
    OBVIOUS
  <2>1. c = [value |-> 0, count |-> 0, start |-> 0]
    OBVIOUS
  <2>2. c \in Counter /\ c.start = 0 /\ c.value = 0
    BY <2>1 DEF Counter
  <2>3. AllIn(0, 0) = 0
    <3> PICK f : f = SpentBy(0, 0)
      OBVIOUS
    <3>1. IsFiniteSet(User) /\ \A v \in User : f[v] = 0
      <4>1. ASSUME NEW v \in User PROVE Limiter!SpentIn(v, 0, 0) = 0
        BY <1>2, <1>3, SpentNumber
      <4> QED
        BY <4>1 DEF SpentBy, Limiter!LimiterConstants, Limiter!IsFiniteSet, IsFiniteSet
    <3>2. SumFunctionOnSet(f, User) = 0
      BY <3>1, SumConstantZero
    <3> QED
      BY <3>2 DEF AllIn
  <2>4. now = 0 /\ spent = <<>>
    OBVIOUS
  <2>5. GlobalOK(w, c)
    BY <2>2, <2>3, <2>4 DEF GlobalOK
  <2> QED
    BY <2>2, <2>5
<1>6. risk \in [User -> [breach_count : Nat, factor : Int]]
  BY DEF Limiter!Bps
<1>7. global_usage \in [Limiter!GlobalWindow -> Counter]
  BY <1>5
<1> QED
  BY <1>1, <1>2, <1>4, <1>5, <1>6, <1>7 DEF LimiterInv

\* The global windows that are over start again.
DecayedGlobally == [w \in Limiter!GlobalWindow |-> Limiter!Decayed(global_usage[w], w)]

\* A call of consume_limit records the use or a breach.
LEMMA ConsumeCases ==
    ASSUME NEW u \in User, NEW amount, Limiter!ConsumeLimit(u, amount)
    PROVE  /\ \/ /\ Limiter!WithinLimits(DecayedWindows(Limiter!UsageOf(u)).windows,
                                         Limiter!EffectiveLimits(u), amount)
                 /\ Limiter!Record(u, DecayedWindows(Limiter!UsageOf(u)), DecayedGlobally,
                                   amount)
              \/ Limiter!Breach(u, DecayedWindows(Limiter!UsageOf(u)))
           /\ UNCHANGED <<now, Limiter!adminVars>>
<1>1. DecayedWindows(Limiter!UsageOf(u)) =
         [Limiter!UsageOf(u) EXCEPT !.windows =
             [w \in Limiter!Window |-> Limiter!Decayed(Limiter!UsageOf(u).windows[w], w)]]
  BY DEF DecayedWindows
<1> QED
  BY <1>1 DEF Limiter!ConsumeLimit, DecayedGlobally

\* The settings keep their types when nobody changes them.
LEMMA SettingsSame ==
    ASSUME LimiterSet, UNCHANGED Limiter!adminVars
    PROVE  LimiterSet'
BY DEF LimiterSet, Limiter!adminVars

\* One more use, now, is recorded in its order.
LEMMA StillInOrder ==
    ASSUME SpentInOrder, NEW p \in Use, p.at = now, spent' = Append(spent, p), now' = now
    PROVE  SpentInOrder'
<1> PICK n : n = Len(spent)
  OBVIOUS
<1> QED
  BY UseAdded

\* An allowed use keeps the invariant.
LEMMA RecordKeeps ==
    ASSUME Limiter!LimiterConstants, LimiterInv, NEW u \in User, NEW amount \in Amounts,
           UNCHANGED <<now, Limiter!adminVars>>,
           Limiter!WithinLimits(DecayedWindows(Limiter!UsageOf(u)).windows,
                                Limiter!EffectiveLimits(u), amount),
           Limiter!Record(u, DecayedWindows(Limiter!UsageOf(u)), DecayedGlobally, amount)
    PROVE  LimiterInv'
<1> PICK r : r = DecayedWindows(Limiter!UsageOf(u))
  OBVIOUS
<1> PICK limits : limits = Limiter!EffectiveLimits(u).value
  OBVIOUS
<1> PICK p : p = [user |-> u, at |-> now, amount |-> amount, limits |-> limits]
  OBVIOUS
<1>1. LimiterSet /\ SpentInOrder /\ Sound(u)
  BY DEF LimiterInv
<1>2. LimiterSet'
  BY <1>1, SettingsSame
<1>3. UserOK(u, r) /\ \A w \in Limiter!Window : now < r.windows[w].start + Length[w]
  <2> PICK q : q = Limiter!UsageOf(u)
    OBVIOUS
  <2>1. UserOK(u, q)
    BY <1>1, UsageRead
  <2>2. r = DecayedWindows(q)
    OBVIOUS
  <2> QED
    BY <1>1, <2>1, <2>2, DecayedUser
<1>4. limits \in [Limiter!Window -> Int]
  <2>1. risk[u].factor \in Int
    BY DEF LimiterInv
  <2>2. usage[u] # Limiter!NoUsage => UserOK(u, usage[u])
    BY <1>1 DEF Sound
  <2> QED
    BY <1>1, <2>1, <2>2, LimitsNumbers
<1>5. amount \in Nat
  BY DEF Limiter!LimiterConstants
<1>6. p \in Use /\ p.user = u /\ p.at = now /\ p.amount = amount /\ p.limits = limits
  BY <1>1, <1>4, <1>5, UseRead DEF Use
<1>7. \A w \in Limiter!Window : r.windows[w].value + p.amount <= p.limits[w]
  BY <1>6 DEF Limiter!WithinLimits
<1>8. /\ spent' = Append(spent, p) /\ now' = now /\ risk' = risk
      /\ usage' = [usage EXCEPT ![u] = RecordedUse(r, amount)]
      /\ global_usage' = [w \in Limiter!GlobalWindow |->
                             Limiter!Used(DecayedGlobally[w], amount)]
      /\ use_history' = [use_history EXCEPT ![u] = Limiter!Recorded(use_history[u], amount)]
  BY DEF Limiter!Record, RecordedUse
<1>9. SpentInOrder'
  <2>1. spent' = Append(spent, p) /\ now' = now /\ p \in Use /\ p.at = now
    BY <1>6, <1>8
  <2> QED
    BY ONLY <1>1, <2>1, StillInOrder
<1>10. usage \in [User -> Usage \cup {Limiter!NoUsage}] /\ use_history \in [User -> Seq(DayRow)]
  BY DEF LimiterInv
<1>11. usage'[u] = RecordedUse(r, p.amount)
       /\ use_history'[u] = Limiter!Recorded(use_history[u], p.amount)
  BY <1>6, <1>8, <1>10
<1>12. Sound(u)'
  <2>1. p \in Use /\ p.at = now /\ p.user = u /\ spent' = Append(spent, p) /\ now' = now
    BY <1>6, <1>8
  <2> QED
    BY ONLY Limiter!LimiterConstants, u \in User, <1>1, <1>3, <1>7, <1>11, <2>1,
            SoundRecorded
<1>13. ASSUME NEW v \in User, v # u
       PROVE  Sound(v)'
  <2>1. NoneSince(v)
    BY <1>1, <1>6, <1>8, <1>13, OtherSpent
  <2>2. usage'[v] = usage[v] /\ use_history'[v] = use_history[v] /\ Sound(v)
    BY <1>8, <1>10, <1>13 DEF LimiterInv
  <2> QED
    BY <1>1, <1>9, <2>1, <2>2, SoundKept
<1>14. \A v \in User : Sound(v)'
  BY <1>12, <1>13
<1>15. usage' \in [User -> Usage \cup {Limiter!NoUsage}]
  <2>1. RecordedUse(r, amount) \in Usage
    <3> PICK ws : ws = [w \in Limiter!Window |-> Limiter!Used(r.windows[w], amount)]
      OBVIOUS
    <3>1. r \in Usage /\ \A w \in Limiter!Window : r.windows[w] \in Counter
      BY <1>3 DEF UserOK, WindowOK
    <3>2. ASSUME NEW w \in Limiter!Window
          PROVE  Limiter!Used(r.windows[w], amount) \in Counter
      <4> PICK c \in Counter : c = r.windows[w]
        BY <3>1
      <4>1. c.value + amount \in Int /\ c.count + 1 \in Int
        BY <1>5 DEF Counter
      <4>2. Limiter!Used(c, amount) =
               [c EXCEPT !.value = c.value + amount, !.count = c.count + 1]
        BY DEF Limiter!Used
      <4>3. Limiter!Used(c, amount) \in Counter
        BY <4>1, <4>2 DEF Counter
      <4> QED
        BY <4>3
    <3>20. ws \in [Limiter!Window -> Counter]
      BY <3>2
    <3>3. RecordedUse(r, amount) =
             [r EXCEPT !.windows = ws, !.lifetime_value = r.lifetime_value + amount,
                       !.lifetime_count = r.lifetime_count + 1]
      BY DEF RecordedUse
    <3>4. r.lifetime_value + amount \in Int /\ r.lifetime_count + 1 \in Nat
      BY <1>5, <3>1 DEF Usage
    <3> QED
      BY <3>1, <3>20, <3>3, <3>4 DEF Usage
  <2> QED
    BY <1>8, <1>10, <2>1
<1>16. use_history' \in [User -> Seq(DayRow)]
  <2>1. RowsOK(u, use_history[u])'
    BY <1>12 DEF Sound
  <2>2. use_history'[u] \in Seq(DayRow)
    BY <2>1 DEF RowsOK
  <2> QED
    BY <1>8, <1>10, <2>2
<1>17. ASSUME NEW w \in Limiter!GlobalWindow
       PROVE  global_usage'[w] \in Counter /\ GlobalOK(w, global_usage[w])'
  <2> PICK c : c = global_usage[w]
    OBVIOUS
  <2> PICK d : d = Limiter!Decayed(c, w)
    OBVIOUS
  <2> PICK e : e = Limiter!Used(d, p.amount)
    OBVIOUS
  <2>1. GlobalOK(w, c)
    BY DEF LimiterInv
  <2>2. GlobalOK(w, d) /\ now < d.start + Length[w]
    BY <1>1, <2>1, GlobalDecayed
  <2>3. GlobalOK(w, Limiter!Used(d, p.amount))'
    BY <1>1, <1>6, <1>8, <2>2, GlobalUsed
  <2>4. Limiter!Used(d, p.amount)' = e
    BY DEF Limiter!Used
  <2>5. GlobalOK(w, e)'
    BY <2>3, <2>4
  <2>6. e \in Counter
    BY <2>5 DEF GlobalOK
  <2>7. global_usage'[w] = e
    BY <1>6, <1>8 DEF DecayedGlobally
  <2> QED
    BY <2>5, <2>6, <2>7 DEF GlobalOK
<1>18. global_usage' \in [Limiter!GlobalWindow -> Counter]
  BY <1>8, <1>17
<1>20. \A w \in Limiter!GlobalWindow : GlobalOK(w, global_usage[w])'
  BY <1>17
<1>19. risk' \in [User -> [breach_count : Nat, factor : Int]]
  BY <1>8 DEF LimiterInv
<1> QED
  BY <1>2, <1>9, <1>14, <1>15, <1>16, <1>18, <1>19, <1>20 DEF LimiterInv

\* A step that allows nothing and leaves the histories and the global windows keeps the
\* invariant, if it keeps the settings and gives each user the windows it had or some that
\* count the same uses.
LEMMA QuietKeeps ==
    ASSUME Limiter!LimiterConstants, LimiterInv, LimiterSet', now' \in 0 .. MaxNow,
           now <= now', UNCHANGED <<global_usage, use_history, spent>>,
           risk' \in [User -> [breach_count : Nat, factor : Int]],
           usage' \in [User -> Usage \cup {Limiter!NoUsage}],
           \A v \in User : usage'[v] = usage[v] \/ UserOK(v, usage'[v])
    PROVE  LimiterInv'
<1>1. SpentInOrder
  BY DEF LimiterInv
<1>2. SpentInOrder' /\ \A v : NoneSince(v)
  BY <1>1, NothingSpent
<1>3. ASSUME NEW v \in User
      PROVE  Sound(v)'
  <2>1. Sound(v) /\ NoneSince(v) /\ use_history'[v] = use_history[v]
    BY <1>2 DEF LimiterInv
  <2>2. CASE usage'[v] = usage[v]
    BY <1>1, <1>2, <2>1, <2>2, SoundKept
  <2>3. CASE UserOK(v, usage'[v])
    <3> PICK r : r = usage'[v]
      OBVIOUS
    <3>1. UserOK(v, r)
      BY <2>3
    <3> QED
      BY <1>1, <1>2, <2>1, <3>1, SoundRenewed
  <2> QED
    BY <2>2, <2>3
<1>4. ASSUME NEW w \in Limiter!GlobalWindow
      PROVE  GlobalOK(w, global_usage[w])'
  <2> PICK c : c = global_usage[w]
    OBVIOUS
  <2>1. GlobalOK(w, c)
    BY DEF LimiterInv
  <2>2. GlobalOK(w, c)'
    BY <1>1, <1>2, <2>1, GlobalKept
  <2> QED
    BY <2>2
<1>5. use_history' \in [User -> Seq(DayRow)] /\ global_usage' \in [Limiter!GlobalWindow -> Counter]
  BY DEF LimiterInv
<1> QED
  BY <1>2, <1>3, <1>4, <1>5 DEF LimiterInv

\* A user that is given other windows, all others keep theirs.
LEMMA OneRenewed ==
    ASSUME LimiterInv, NEW u \in User, NEW r, UserOK(u, r), usage' = [usage EXCEPT ![u] = r]
    PROVE  /\ usage' \in [User -> Usage \cup {Limiter!NoUsage}]
           /\ \A v \in User : usage'[v] = usage[v] \/ UserOK(v, usage'[v])
<1>1. usage \in [User -> Usage \cup {Limiter!NoUsage}]
  BY DEF LimiterInv
<1>2. r \in Usage
  BY DEF UserOK
<1>3. usage'[u] = r /\ \A v \in User \ {u} : usage'[v] = usage[v]
  BY <1>1
<1>4. usage' \in [User -> Usage \cup {Limiter!NoUsage}]
  BY <1>1, <1>2
<1> QED
  BY <1>3, <1>4

\* A refused use keeps the invariant.
LEMMA BreachKeeps ==
    ASSUME Limiter!LimiterConstants, LimiterInv, NEW u \in User,
           UNCHANGED <<now, Limiter!adminVars>>,
           Limiter!Breach(u, DecayedWindows(Limiter!UsageOf(u)))
    PROVE  LimiterInv'
<1>1. LimiterSet /\ SpentInOrder /\ Sound(u)
  BY DEF LimiterInv
<1>2. LimiterSet'
  BY <1>1, SettingsSame
<1> PICK d : d = DecayedWindows(Limiter!UsageOf(u))
  OBVIOUS
<1>3. UserOK(u, d)
  <2> PICK q : q = Limiter!UsageOf(u)
    OBVIOUS
  <2>1. UserOK(u, q)
    BY <1>1, UsageRead
  <2> QED
    BY <1>1, <2>1, DecayedUser
<1>4. now \in 0 .. MaxNow /\ now \in Nat /\ cooldown_duration \in Nat
  BY <1>1, UseRead DEF LimiterSet, SpentInOrder
<1> PICK x : x = now + cooldown_duration
  OBVIOUS
<1>5. x \in Nat
  BY <1>4
<1>6. UserOK(u, [d EXCEPT !.cooldown_until = x])
  BY <1>3, <1>5, CooldownSet
<1>7. /\ usage' = [usage EXCEPT ![u] = [d EXCEPT !.cooldown_until = x]]
      /\ risk' = [risk EXCEPT ![u].breach_count = @ + 1]
      /\ UNCHANGED <<global_usage, use_history, spent>>
  BY DEF Limiter!Breach
<1>8. /\ usage' \in [User -> Usage \cup {Limiter!NoUsage}]
      /\ \A v \in User : usage'[v] = usage[v] \/ UserOK(v, usage'[v])
  BY <1>6, <1>7, OneRenewed
<1>9. risk' \in [User -> [breach_count : Nat, factor : Int]]
  <2>1. risk \in [User -> [breach_count : Nat, factor : Int]]
    BY DEF LimiterInv
  <2>2. risk[u].breach_count + 1 \in Nat
    BY <2>1
  <2> QED
    BY <1>7, <2>1, <2>2
<1> QED
  BY <1>2, <1>4, <1>7, <1>8, <1>9, QuietKeeps

\* The factor of a risk score is a number.
LEMMA FactorNumber ==
    ASSUME NEW score \in Int
    PROVE  Limiter!AdjustmentFactor(score) \in Int
<1> PICK x \in Int : x = (score - 2000) * 7000
  OBVIOUS
<1>1. x \div 5000 \in Int
  OBVIOUS
<1>2. CASE score <= 2000
  BY <1>2 DEF Limiter!AdjustmentFactor
<1>3. CASE score >= 7000
  BY <1>3 DEF Limiter!AdjustmentFactor
<1>4. CASE ~(score <= 2000) /\ ~(score >= 7000)
  <2>1. Limiter!AdjustmentFactor(score) = 12000 - (x \div 5000)
    BY <1>4 DEF Limiter!AdjustmentFactor
  <2> QED
    BY <1>1, <2>1
<1> QED
  BY <1>2, <1>3, <1>4

\* An emergency reduction leaves limits above zero.
LEMMA ReductionKeeps ==
    ASSUME LimiterSet, NEW bps \in Nat, Limiter!EmergencyReduceLimits(bps)
    PROVE  LimiterSet'
<1>1. ASSUME NEW w \in Limiter!Window
      PROVE  /\ default_limits.value[w] \in Int
             /\ Limiter!AtLeastOne((default_limits.value[w] * (Limiter!Bps - bps))
                                      \div Limiter!Bps) \in Int
             /\ Limiter!AtLeastOne((default_limits.value[w] * (Limiter!Bps - bps))
                                      \div Limiter!Bps) > 0
  <2> PICK v \in Int : v = default_limits.value[w]
    BY DEF LimiterSet, Limiter!Limits
  <2> PICK y \in Int : y = v * (Limiter!Bps - bps)
    BY DEF Limiter!Bps
  <2>1. y \div Limiter!Bps \in Int
    BY DEF Limiter!Bps
  <2> QED
    BY <2>1, AtLeastOneNumber
<1> PICK l : l = [w \in Limiter!Window |->
                     Limiter!AtLeastOne((default_limits.value[w] * (Limiter!Bps - bps))
                                           \div Limiter!Bps)]
  OBVIOUS
<1>2. l \in [Limiter!Window -> Int] /\ \A w \in Limiter!Window : l[w] > 0
  BY <1>1
<1>3. default_limits' = [default_limits EXCEPT !.value = l]
  BY DEF Limiter!EmergencyReduceLimits
<1>4. default_limits' \in Limiter!Limits /\ default_limits'.value = l
  <2>1. default_limits \in Limiter!Limits
    BY DEF LimiterSet
  <2> QED
    BY <1>2, <1>3, <2>1 DEF Limiter!Limits
<1>5. \A w \in Limiter!Window : default_limits'.value[w] > 0
  BY <1>2, <1>4
<1> QED
  BY <1>4, <1>5 DEF LimiterSet, Limiter!EmergencyReduceLimits

\* A step that changes the settings only keeps the invariant.
LEMMA SettingKeeps ==
    ASSUME Limiter!LimiterConstants, LimiterInv, LimiterSet',
           UNCHANGED <<now, usage, global_usage, use_history, spent>>,
           risk' \in [User -> [breach_count : Nat, factor : Int]]
    PROVE  LimiterInv'
<1>1. now' \in 0 .. MaxNow /\ now <= now'
  BY UseRead DEF LimiterInv, SpentInOrder
<1>2. usage' \in [User -> Usage \cup {Limiter!NoUsage}]
  BY DEF LimiterInv
<1>3. \A v \in User : usage'[v] = usage[v]
  OBVIOUS
<1> QED
  BY <1>1, <1>2, <1>3, QuietKeeps

\* The administrator's calls keep the invariant.
LEMMA AdministerKeeps ==
    ASSUME Limiter!LimiterConstants, LimiterInv, Limiter!Administer
    PROVE  LimiterInv'
<1>1. LimiterSet /\ SpentInOrder /\ risk \in [User -> [breach_count : Nat, factor : Int]]
  BY DEF LimiterInv
<1>2. ASSUME NEW u \in User, NEW listed \in BOOLEAN, Limiter!SetWhitelist(u, listed)
      PROVE  LimiterInv'
  <2>1. LimiterSet'
    BY <1>1, <1>2 DEF Limiter!SetWhitelist, LimiterSet
  <2>2. UNCHANGED <<now, risk, usage, global_usage, use_history, spent>>
    BY <1>2 DEF Limiter!SetWhitelist
  <2> QED
    BY <1>1, <2>1, <2>2, SettingKeeps
<1>3. ASSUME NEW u \in User, NEW score \in RiskChoices, Limiter!UpdateRiskScore(u, score)
      PROVE  LimiterInv'
  <2>1. score \in Int
    BY DEF Limiter!LimiterConstants
  <2> PICK f \in Int : f = Limiter!AdjustmentFactor(score)
    BY <2>1, FactorNumber
  <2>2. risk' \in [User -> [breach_count : Nat, factor : Int]]
    <3>1. risk' = [risk EXCEPT ![u].factor = f]
      BY <1>3 DEF Limiter!UpdateRiskScore
    <3> QED
      BY <1>1, <3>1
  <2>3. UNCHANGED <<now, Limiter!adminVars, usage, global_usage, use_history, spent>>
    BY <1>3 DEF Limiter!UpdateRiskScore
  <2>4. LimiterSet'
    BY <1>1, <2>3, SettingsSame
  <2> QED
    BY <2>2, <2>3, <2>4, SettingKeeps
<1>4. ASSUME NEW u \in User, Limiter!ClearCooldown(u)
      PROVE  LimiterInv'
  <2> PICK q : q = Limiter!UsageOf(u)
    OBVIOUS
  <2>1. UserOK(u, q)
    <3>1. Sound(u)
      BY DEF LimiterInv
    <3> QED
      BY <1>1, <3>1, UsageRead
  <2>2. UserOK(u, [q EXCEPT !.cooldown_until = 0])
    BY <2>1, CooldownSet
  <2>3. /\ usage' = [usage EXCEPT ![u] = [q EXCEPT !.cooldown_until = 0]]
        /\ UNCHANGED <<now, Limiter!adminVars, risk, global_usage, use_history, spent>>
    BY <1>4 DEF Limiter!ClearCooldown
  <2>4. /\ usage' \in [User -> Usage \cup {Limiter!NoUsage}]
        /\ \A v \in User : usage'[v] = usage[v] \/ UserOK(v, usage'[v])
    BY <2>2, <2>3, OneRenewed
  <2>5. LimiterSet'
    BY <1>1, <2>3, SettingsSame
  <2>6. now' \in 0 .. MaxNow /\ now <= now'
    BY <1>1, <2>3, UseRead DEF SpentInOrder
  <2> QED
    BY <1>1, <2>3, <2>4, <2>5, <2>6, QuietKeeps
<1>5. ASSUME Limiter!SetLimits
      PROVE  LimiterInv'
  <2>1. LimiterSet'
    <3>1. LimitChoices \subseteq Limiter!Limits
          /\ GlobalChoices \subseteq [Limiter!GlobalWindow -> Int]
      BY DEF Limiter!LimiterConstants
    <3>2. UNCHANGED <<cooldown_duration, trip_count, whitelisted>>
      BY <1>5 DEF Limiter!SetLimits
    <3>3. CASE /\ \E u \in User, limits \in LimitChoices :
                     user_limits' = [user_limits EXCEPT ![u] = limits]
               /\ UNCHANGED <<default_limits, global_limits>>
      BY <1>1, <3>1, <3>2, <3>3 DEF LimiterSet
    <3>4. CASE /\ \E limits \in LimitChoices :
                     Limiter!Positive(limits) /\ default_limits' = limits
               /\ UNCHANGED <<user_limits, global_limits>>
      <4> PICK limits \in LimitChoices :
                     Limiter!Positive(limits) /\ default_limits' = limits
        BY <3>4
      <4>1. limits \in Limiter!Limits /\ DOMAIN limits.value = Limiter!Window
        BY <3>1 DEF Limiter!Limits
      <4>2. \A w \in Limiter!Window : default_limits'.value[w] > 0
        BY <4>1 DEF Limiter!Positive
      <4> QED
        BY <1>1, <3>2, <3>4, <4>1, <4>2 DEF LimiterSet
    <3>5. CASE /\ \E limits \in GlobalChoices : global_limits' = limits
               /\ UNCHANGED <<user_limits, default_limits>>
      BY <1>1, <3>1, <3>2, <3>5 DEF LimiterSet
    <3> QED
      BY <1>5, <3>3, <3>4, <3>5 DEF Limiter!SetLimits
  <2>2. UNCHANGED <<now, risk, usage, global_usage, use_history, spent>>
    BY <1>5 DEF Limiter!SetLimits
  <2> QED
    BY <1>1, <2>1, <2>2, SettingKeeps
<1>6. ASSUME NEW bps \in ReductionChoices, Limiter!EmergencyReduceLimits(bps)
      PROVE  LimiterInv'
  <2>1. bps \in Nat
    BY DEF Limiter!LimiterConstants
  <2>2. LimiterSet'
    BY <1>1, <1>6, <2>1, ReductionKeeps
  <2>3. UNCHANGED <<now, risk, usage, global_usage, use_history, spent>>
    BY <1>6 DEF Limiter!EmergencyReduceLimits
  <2> QED
    BY <1>1, <2>2, <2>3, SettingKeeps
<1>7. ASSUME NEW score \in AnomalyChoices, Limiter!UpdateAnomalyScore(score)
      PROVE  LimiterInv'
  <2>1. trip_count' \in 0 .. MaxTrips
    <3>1. trip_count \in 0 .. MaxTrips /\ MaxTrips \in Nat
      BY <1>1 DEF LimiterSet, Limiter!LimiterConstants
    <3>2. trip_count' = trip_count \/ (trip_count < MaxTrips /\ trip_count' = trip_count + 1)
      BY <1>7 DEF Limiter!UpdateAnomalyScore
    <3> QED
      BY <3>1, <3>2
  <2>2. UNCHANGED <<now, default_limits, global_limits, cooldown_duration, user_limits,
                    whitelisted, risk, usage, global_usage, use_history, spent>>
    BY <1>7 DEF Limiter!UpdateAnomalyScore
  <2>3. LimiterSet'
    BY <1>1, <2>1, <2>2 DEF LimiterSet
  <2> QED
    BY <1>1, <2>2, <2>3, SettingKeeps
<1>8. ASSUME Limiter!ResetCircuitBreaker
      PROVE  LimiterInv'
  <2>1. UNCHANGED <<now, default_limits, global_limits, cooldown_duration, trip_count,
                    user_limits, whitelisted, risk, usage, global_usage, use_history, spent>>
    BY <1>8 DEF Limiter!ResetCircuitBreaker
  <2>2. LimiterSet'
    BY <1>1, <2>1 DEF LimiterSet
  <2> QED
    BY <1>1, <2>1, <2>2, SettingKeeps
<1>9. ASSUME Limiter!SetMode
      PROVE  LimiterInv'
  <2>1. UNCHANGED <<now, default_limits, global_limits, trip_count, user_limits,
                    whitelisted, risk, usage, global_usage, use_history, spent>>
    BY <1>9 DEF Limiter!SetMode
  <2>2. cooldown_duration' \in Nat
    <3>1. cooldown_duration' = cooldown_duration \/ cooldown_duration' \in CooldownChoices
      BY <1>9 DEF Limiter!SetMode
    <3> QED
      BY <1>1, <3>1 DEF LimiterSet, Limiter!LimiterConstants
  <2>3. LimiterSet'
    BY <1>1, <2>1, <2>2 DEF LimiterSet
  <2> QED
    BY <1>1, <2>1, <2>3, SettingKeeps
<1> QED
  BY <1>2, <1>3, <1>4, <1>5, <1>6, <1>7, <1>8, <1>9 DEF Limiter!Administer

\* Every step keeps the invariant.
LEMMA LimiterStep ==
    ASSUME Limiter!LimiterConstants, LimiterInv, [Limiter!Next]_Limiter!vars
    PROVE  LimiterInv'
<1>1. LimiterSet /\ SpentInOrder /\ risk \in [User -> [breach_count : Nat, factor : Int]]
  BY DEF LimiterInv
<1>2. ASSUME NEW u \in User, NEW amount \in Amounts, Limiter!ConsumeLimit(u, amount)
      PROVE  LimiterInv'
  <2>1. UNCHANGED <<now, Limiter!adminVars>>
    BY <1>2, ConsumeCases
  <2>2. CASE /\ Limiter!WithinLimits(DecayedWindows(Limiter!UsageOf(u)).windows,
                                     Limiter!EffectiveLimits(u), amount)
             /\ Limiter!Record(u, DecayedWindows(Limiter!UsageOf(u)), DecayedGlobally,
                               amount)
    BY <2>1, <2>2, RecordKeeps
  <2>3. CASE Limiter!Breach(u, DecayedWindows(Limiter!UsageOf(u)))
    BY <2>1, <2>3, BreachKeeps
  <2> QED
    BY <1>2, <2>2, <2>3, ConsumeCases
<1>3. ASSUME Limiter!Tick
      PROVE  LimiterInv'
  <2>1. now < MaxNow /\ now' = now + 1 /\ UNCHANGED Limiter!limiterVars
    BY <1>3 DEF Limiter!Tick
  <2>2. now' \in 0 .. MaxNow /\ now <= now'
    <3>1. MaxNow \in Nat /\ now \in 0 .. MaxNow
      BY <1>1 DEF Limiter!LimiterConstants, SpentInOrder
    <3> QED
      BY <2>1, <3>1
  <2>3. UNCHANGED <<Limiter!adminVars, risk, usage, global_usage, use_history, spent>>
    BY <2>1 DEF Limiter!limiterVars, Limiter!adminVars
  <2>4. LimiterSet'
    BY <1>1, <2>3, SettingsSame
  <2>5. /\ usage' \in [User -> Usage \cup {Limiter!NoUsage}]
        /\ \A v \in User : usage'[v] = usage[v]
    BY <2>3 DEF LimiterInv
  <2> QED
    BY <1>1, <2>2, <2>3, <2>4, <2>5, QuietKeeps
<1>4. ASSUME UNCHANGED Limiter!vars
      PROVE  LimiterInv'
  <2>1. UNCHANGED <<now, Limiter!adminVars, risk, usage, global_usage, use_history, spent>>
    BY <1>4 DEF Limiter!vars, Limiter!limiterVars, Limiter!adminVars
  <2>2. LimiterSet'
    BY <1>1, <2>1, SettingsSame
  <2> QED
    BY <1>1, <2>1, <2>2, SettingKeeps
<1>5. ASSUME Limiter!Administer
      PROVE  LimiterInv'
  BY <1>5, AdministerKeeps
<1> QED
  BY <1>2, <1>3, <1>4, <1>5 DEF Limiter!Next

\* The largest limit in force at some uses is a number no lower than any of them.
LEMMA LargestLimit ==
    ASSUME SpentInOrder, NEW w \in Limiter!Window, NEW uses, uses \subseteq 1 .. Len(spent),
           uses # {}
    PROVE  /\ Limiter!Max({spent[k].limits[w] : k \in uses}) \in Int
           /\ \A k \in uses :
                 spent[k].limits[w] <= Limiter!Max({spent[i].limits[w] : i \in uses})
<1> PICK n \in Nat : n = Len(spent)
  BY UseRead
<1> PICK f : f = [k \in 1 .. n |-> spent[k].limits[w]]
  OBVIOUS
<1>1. \A k \in 1 .. n : f[k] \in Int
  BY UseRead
<1>2. PICK m \in uses : \A k \in uses : f[m] >= f[k]
  BY <1>1, LargestValue
<1> PICK L : L = {spent[k].limits[w] : k \in uses}
  OBVIOUS
<1>3. \A k \in uses : f[k] = spent[k].limits[w]
  OBVIOUS
<1>4. L = {f[k] : k \in uses}
  BY <1>3
<1>5. \E x \in L : \A y \in L : x >= y
  BY <1>2, <1>4, ZenonT(40)
<1>6. Limiter!Max(L) \in L /\ \A y \in L : Limiter!Max(L) >= y
  BY <1>5 DEF Limiter!Max
<1>7. L \subseteq Int
  BY <1>1, <1>4
<1> PICK x : x = Limiter!Max(L)
  OBVIOUS
<1>8. x \in Int /\ \A k \in uses : f[k] <= x
  BY <1>1, <1>4, <1>6, <1>7
<1> QED
  BY <1>3, <1>8

\* The invariant implies the types.
LEMMA LimiterChecked ==
    ASSUME Limiter!LimiterConstants, LimiterInv
    PROVE  Limiter!TypeOK
<1>1. now \in 0 .. MaxNow /\ now \in Nat
  BY UseRead DEF LimiterInv, SpentInOrder
<1>2. ASSUME NEW u \in User, usage[u] # Limiter!NoUsage
      PROVE  usage[u].first_activity \in 0 .. now
  <2> PICK r : r = usage[u]
    OBVIOUS
  <2>1. UserOK(u, r)
    BY <1>2 DEF LimiterInv, Sound
  <2>2. r.first_activity \in Nat /\ r.first_activity <= now
    BY <2>1 DEF UserOK, Usage
  <2> QED
    BY <1>1, <2>2
<1>3. \A u \in User : Len(use_history[u]) <= MaxDays
  BY DEF LimiterInv, Sound, RowsOK
<1>4. Limiter!Positive(default_limits)
  <2>1. DOMAIN default_limits.value = Limiter!Window
    BY DEF LimiterInv, LimiterSet, Limiter!Limits
  <2> QED
    BY <2>1 DEF LimiterInv, LimiterSet, Limiter!Positive
<1>5. whitelisted \subseteq User /\ trip_count \in 0 .. MaxTrips
  BY DEF LimiterInv, LimiterSet
<1> QED
  BY <1>1, <1>2, <1>3, <1>4, <1>5 DEF Limiter!TypeOK

\* What all users together spent, as the model sums it.
LEMMA AllSums ==
    ASSUME NEW from, NEW to
    PROVE  Limiter!SumFunctionOnSet([u \in User |-> Limiter!SpentIn(u, from, to)], User)
              = AllIn(from, to)
BY DEF AllIn, SpentBy, Limiter!SumFunctionOnSet, SumFunctionOnSet,
       Limiter!FoldFunctionOnSet, FoldFunctionOnSet, Limiter!MapThenFoldSet, MapThenFoldSet

\* The invariant implies that every counter holds what was spent.
LEMMA WindowsCount ==
    ASSUME Limiter!LimiterConstants, LimiterInv
    PROVE  Limiter!WindowsTrue
<1>1. ASSUME NEW u \in User, usage[u] # Limiter!NoUsage
      PROVE  /\ \A w \in Limiter!Window :
                   usage[u].windows[w].value =
                      Limiter!SpentIn(u, usage[u].windows[w].start, now)
             /\ usage[u].lifetime_value = Limiter!SpentIn(u, 0, now)
  BY <1>1 DEF LimiterInv, Sound, UserOK, WindowOK
<1>2. ASSUME NEW u \in User, NEW k \in DOMAIN use_history[u]
      PROVE  use_history[u][k].value =
                Limiter!SpentIn(u, use_history[u][k].day,
                                use_history[u][k].day + Length["daily"] - 1)
  <2>1. RowsOK(u, use_history[u]) /\ DOMAIN use_history[u] = 1 .. Len(use_history[u])
    BY DEF LimiterInv, Sound, RowsOK
  <2> QED
    BY <2>1 DEF RowsOK
<1>3. ASSUME NEW w \in Limiter!GlobalWindow
      PROVE  global_usage[w].value =
                Limiter!SumFunctionOnSet(
                   [u \in User |-> Limiter!SpentIn(u, global_usage[w].start, now)], User)
  <2>1. global_usage[w].value = AllIn(global_usage[w].start, now)
    BY DEF LimiterInv, GlobalOK
  <2> QED
    BY <2>1, AllSums
<1> QED
  BY <1>1, <1>2, <1>3 DEF Limiter!WindowsTrue

\* The invariant implies that nobody spends more than two limits in a span.
LEMMA TwiceAtMost ==
    ASSUME Limiter!LimiterConstants, LimiterInv
    PROVE  Limiter!AtMostTwice
<1>1. SpentInOrder
  BY DEF LimiterInv
<1>2. ASSUME NEW u \in User, NEW w \in Limiter!Window, NEW from \in 0 .. now, NEW to,
             to = from + Length[w] - 1, NEW uses, uses = Limiter!UsesIn(u, from, to),
             uses # {}
      PROVE  Limiter!SpentIn(u, from, to) <= 2 * Limiter!Max({spent[k].limits[w] : k \in uses})
  <2>1. from \in Nat
    BY <1>1, UseRead
  <2>2. to \in Int
    BY <1>2, <2>1 DEF Limiter!LimiterConstants
  <2>3. TwoLimits(u, w, from, to)
    BY <1>2, <2>1 DEF LimiterInv, Sound
  <2>4. PICK j \in uses, k \in uses :
            Limiter!SpentIn(u, from, to) <= spent[j].limits[w] + spent[k].limits[w]
    BY <1>2, <2>3 DEF TwoLimits
  <2>5. uses \subseteq 1 .. Len(spent)
    BY <1>1, <1>2, UseRead DEF Limiter!UsesIn
  <2> PICK x : x = Limiter!Max({spent[i].limits[w] : i \in uses})
    OBVIOUS
  <2>6. x \in Int /\ spent[j].limits[w] <= x /\ spent[k].limits[w] <= x
    BY <1>1, <1>2, <2>5, LargestLimit
  <2>7. spent[j].limits[w] \in Int /\ spent[k].limits[w] \in Int
    BY <1>1, <2>5, UseRead
  <2>8. Limiter!SpentIn(u, from, to) \in Int
    BY <1>1, <2>1, <2>2, SpentNumber
  <2>9. Limiter!SpentIn(u, from, to) <= 2 * x
    <3> PICK a \in Int : a = spent[j].limits[w]
      BY <2>7
    <3> PICK b \in Int : b = spent[k].limits[w]
      BY <2>7
    <3> PICK v \in Int : v = Limiter!SpentIn(u, from, to)
      BY <2>8
    <3>1. v <= a + b /\ a <= x /\ b <= x /\ x \in Int
      BY <2>4, <2>6
    <3>2. v <= 2 * x
      BY ONLY <3>1, v \in Int, a \in Int, b \in Int
    <3> QED
      BY <3>2
  <2> QED
    BY <2>9
<1> QED
  BY <1>2 DEF Limiter!AtMostTwice

\* It is an invariant.
LEMMA LimiterInvariant ==
    ASSUME Limiter!LimiterConstants
    PROVE  Limiter!Spec => []LimiterInv
<1>1. Limiter!Init => LimiterInv
  BY InitLimiter
<1>2. LimiterInv /\ [Limiter!Next]_Limiter!vars => LimiterInv'
  BY LimiterStep
<1> QED
  BY <1>1, <1>2, PTL DEF Limiter!Spec

\* Rate limiter: the variables keep their types; no default limit falls to zero.
THEOREM LimiterTyped ==
    ASSUME Limiter!LimiterConstants
    PROVE  Limiter!Spec => []Limiter!TypeOK
<1>1. LimiterInv => Limiter!TypeOK
  BY LimiterChecked
<1> QED
  BY <1>1, LimiterInvariant, PTL

\* Every window holds what its user was allowed since it started, the global windows the use
\* of everybody, the rows of the history the use of their days.
THEOREM WindowsStayTrue ==
    ASSUME Limiter!LimiterConstants
    PROVE  Limiter!Spec => []Limiter!WindowsTrue
<1>1. LimiterInv => Limiter!WindowsTrue
  BY WindowsCount
<1> QED
  BY <1>1, LimiterInvariant, PTL

\* In no span as long as a window is a user allowed more than twice the highest limit that
\* was in force at one of its uses there.
THEOREM NeverMoreThanTwice ==
    ASSUME Limiter!LimiterConstants
    PROVE  Limiter!Spec => []Limiter!AtMostTwice
<1>1. LimiterInv => Limiter!AtMostTwice
  BY TwiceAtMost
<1> QED
  BY <1>1, LimiterInvariant, PTL
=============================================================================
