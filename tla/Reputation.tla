------------------------------ MODULE Reputation ------------------------------
(***************************************************************************)
(* The reputation system, soroban/src/reputation_system.rs: scores of      *)
(* bridge operators, oracles and relay operators, their records of         *)
(* performance, and a leaderboard for each type.                           *)
(*                                                                         *)
(* A call is one action, a panic undoes it.  What is stored under          *)
(* Reputation(entity) is a record with a "kind": apply_penalty and         *)
(* grant_reward write the history of the entity there, and the code reads  *)
(* the key as a ReputationData right afterwards, which does not decode.    *)
(* initialize may be called again: it empties the leaderboards, not the    *)
(* reputations.                                                            *)
(*                                                                         *)
(* Left out: counts of operations, total penalties and rewards, the        *)
(* minimum stake, reasons; the disputes of a record are its outcome.       *)
(***************************************************************************)
EXTENDS Integers, Sequences, FiniteSets, Functions, SequencesExt

CONSTANTS
    Entity,
    EntityType,         \* bound: types used, of the three
    Weights,            \* bound: weights given to initialize and update_config, in percent:
                        \* of accuracy, uptime, response time and disputes
    Readings,           \* bound: readings reported (accuracy, uptime, response time)
    Won,                \* bound: dispute scores, 0 .. Scale, or 7500 without disputes
    Amounts,            \* bound: penalties and rewards
    HalfLife,           \* TIME_DECAY_HALFLIFE
    YearLong,           \* how long records are kept once there are too many
    MaxHistory,         \* MAX_HISTORY_RECORDS
    MaxRecords,         \* bound: records of an entity
    MaxNow              \* bound: the clock

\* Numbers, a finite number of entities, weights of the four factors.
ReputationConstants ==
    /\ IsFiniteSet(Entity)
    /\ Weights \subseteq [1 .. 4 -> Nat] /\ Readings \subseteq Nat /\ Won \subseteq Nat
    /\ Amounts \subseteq Nat /\ HalfLife \in Nat \ {0} /\ MaxNow \in Nat

Scale == 10000
Alpha == 20

VARIABLES now, reputation, history, leaderboard, total_entities, config

reputationVars == <<reputation, history, leaderboard, total_entities, config>>
vars == <<now, reputationVars>>

Nothing == [kind |-> "nothing"]
Factor == 1 .. 4
InitialScore == 7500

Init ==
    /\ now = 0
    /\ reputation = [e \in Entity |-> Nothing]
    /\ history = [e \in Entity |-> <<>>]
    /\ leaderboard = [t \in EntityType |-> <<>>]
    /\ total_entities = [t \in EntityType |-> 0]
    /\ config \in [weights : Weights, slashing : {10}, reward : {5}, decay : BOOLEAN]
-----------------------------------------------------------------------------
\* calculate_badge_level.
BadgeLevel(score) ==
    CASE score < 2500 -> "None"
      [] score \in 2500 .. 4999 -> "Bronze"
      [] score \in 5000 .. 7499 -> "Silver"
      [] score \in 7500 .. 8999 -> "Gold"
      [] score \in 9000 .. 9499 -> "Platinum"
      [] score \in 9500 .. Scale -> "Diamond"
      [] OTHER -> "None"

\* ema_update.
EmaUpdate(current, new) == (current * (100 - Alpha) + new * Alpha) \div 100

\* calculate_decay_factor: one halving for each half-life that passed.
DecayFactor(elapsed) ==
    LET lives == elapsed \div HalfLife
        factor[i \in 0 .. lives] == IF i = 0 THEN Scale ELSE factor[i - 1] \div 2
    IN  factor[lives]

\* The weighted score of the four factors.
Overall(factors) ==
    (factors[1] * config.weights[1] + factors[2] * config.weights[2]
       + factors[3] * config.weights[3] + factors[4] * config.weights[4]) \div 100

\* update_leaderboard_internal: the first entry of e, or a new one.
Listed(board, e, score, badge) ==
    LET entry == [entity_address |-> e, score |-> score, badge_level |-> badge]
        mine == {k \in DOMAIN board : board[k].entity_address = e}
    IN  IF mine = {} THEN Append(board, entry)
        ELSE [board EXCEPT ![CHOOSE k \in mine : \A j \in mine : k <= j] = entry]
-----------------------------------------------------------------------------
\* initialize, again: every board and counter starts anew.
Initialize(settings) ==
    /\ config' = settings
    /\ leaderboard' = [t \in EntityType |-> <<>>]
    /\ total_entities' = [t \in EntityType |-> 0]
    /\ UNCHANGED <<now, reputation, history>>

RegisterEntity(e, t) ==
    /\ reputation[e] = Nothing
    /\ reputation' = [reputation EXCEPT ![e] =
         [kind |-> "data", entity_type |-> t, overall_score |-> InitialScore,
          factors |-> [f \in Factor |-> InitialScore], is_slashed |-> FALSE,
          badge_level |-> "None", last_update_time |-> now]]
    /\ history' = [history EXCEPT ![e] = <<>>]
    /\ total_entities' = [total_entities EXCEPT ![t] = @ + 1]
    /\ leaderboard' = [leaderboard EXCEPT ![t] = Listed(@, e, InitialScore, "None")]
    /\ UNCHANGED <<now, config>>

\* The records kept: those of the last year once there are too many.
Cleaned(rows) ==
    IF Len(rows) > MaxHistory
    THEN SelectSeq(rows, LAMBDA r : r.timestamp >= now - YearLong)
    ELSE rows

\* The leaderboard keeps the score of the entity's last decay or registration.
RecordPerformance(e, reading, won) ==
    /\ reputation[e].kind = "data"
    /\ Len(history[e]) < MaxRecords
    /\ history' = [history EXCEPT ![e] = Cleaned(Append(@, [timestamp |-> now]))]
    /\ LET scores == <<reading, reading, reading, won>>
           factors == [f \in Factor |-> EmaUpdate(reputation[e].factors[f],
                                         IF scores[f] > Scale THEN Scale ELSE scores[f])]
       IN  reputation' = [reputation EXCEPT ![e] =
              [@ EXCEPT !.factors = factors, !.overall_score = Overall(factors),
                        !.badge_level = BadgeLevel(Overall(factors)),
                        !.last_update_time = now]]
    /\ UNCHANGED <<now, leaderboard, total_entities, config>>

\* What apply_penalty and grant_reward share: the new record is stored, the history of
\* the entity is stored over it, and the leaderboard's update reads the record back.
Rewritten(e, data) ==
    LET stored == [reputation EXCEPT ![e] = data]
        over == [stored EXCEPT ![e] = [kind |-> "history",
                                       rows |-> Append(history[e], [timestamp |-> now])]]
    IN  /\ over[e].kind = "data"
        /\ reputation' = over
        /\ leaderboard' = [leaderboard EXCEPT ![data.entity_type] =
                             Listed(@, e, data.overall_score, data.badge_level)]
        /\ UNCHANGED <<now, history, total_entities, config>>

ApplyPenalty(e, amount) ==
    /\ reputation[e].kind = "data"
    /\ LET impact == (amount * config.slashing) \div 100
           score == reputation[e].overall_score
       IN  Rewritten(e, [reputation[e] EXCEPT
              !.overall_score = IF impact > score THEN 0 ELSE score - impact,
              !.is_slashed = TRUE, !.badge_level = "None", !.last_update_time = now])

GrantReward(e, amount) ==
    /\ reputation[e].kind = "data"
    /\ LET raised == reputation[e].overall_score + (amount * config.reward) \div 100
           score == IF raised > Scale THEN Scale ELSE raised
           recovers == reputation[e].is_slashed /\ score >= 5000
       IN  Rewritten(e, [reputation[e] EXCEPT
              !.overall_score = score,
              !.is_slashed = @ /\ ~recovers,
              !.badge_level = IF recovers THEN BadgeLevel(score) ELSE @,
              !.last_update_time = now])

\* Mutant: the badge is not set again.
Decayed_Badge(data) ==
    [data EXCEPT !.overall_score = (@ * DecayFactor(now - data.last_update_time)) \div Scale,
                 !.last_update_time = now]

Decayed(data) ==
    LET score == (data.overall_score * DecayFactor(now - data.last_update_time)) \div Scale
    IN  IF score = data.overall_score THEN data
        ELSE [data EXCEPT !.overall_score = score, !.badge_level = BadgeLevel(score),
                          !.last_update_time = now]

\* Mutant: the boards keep the scores from before.
ApplyTimeDecay_BoardLeft ==
    LET listed == {e \in Entity : \E t \in EntityType : \E k \in DOMAIN leaderboard[t] :
                                     leaderboard[t][k].entity_address = e}
    IN  /\ config.decay
        /\ reputation' = [e \in Entity |-> IF e \in listed THEN Decayed(reputation[e])
                                           ELSE reputation[e]]
        /\ UNCHANGED <<now, history, leaderboard, total_entities, config>>

\* Each entry of each leaderboard is brought up to date, unless its score is unchanged.
ApplyTimeDecay ==
    LET listed == {e \in Entity : \E t \in EntityType : \E k \in DOMAIN leaderboard[t] :
                                     leaderboard[t][k].entity_address = e}
        data == [e \in listed |-> Decayed(reputation[e])]
        Changed(e) == data[e] # reputation[e]
        OnBoard(row) ==
            LET e == row.entity_address IN
            IF Changed(e)
            THEN [row EXCEPT !.score = data[e].overall_score, !.badge_level = data[e].badge_level]
            ELSE row
    IN  /\ config.decay
        /\ reputation' = [e \in Entity |-> IF e \in listed THEN data[e] ELSE reputation[e]]
        /\ leaderboard' = [t \in EntityType |->
              [k \in 1 .. Len(leaderboard[t]) |-> OnBoard(leaderboard[t][k])]]
        /\ UNCHANGED <<now, history, total_entities, config>>

UpdateConfig(settings) ==
    /\ settings.weights[1] + settings.weights[2] + settings.weights[3]
         + settings.weights[4] = 100
    /\ config' = settings
    /\ UNCHANGED <<now, reputation, history, leaderboard, total_entities>>

Tick ==
    /\ now < MaxNow
    /\ now' = now + 1
    /\ UNCHANGED reputationVars

Settings == [weights : Weights, slashing : {10}, reward : {5}, decay : BOOLEAN]

Next ==
    \/ \E e \in Entity :
          \/ \E t \in EntityType : RegisterEntity(e, t)
          \/ \E reading \in Readings, won \in Won : RecordPerformance(e, reading, won)
          \/ \E amount \in Amounts : ApplyPenalty(e, amount) \/ GrantReward(e, amount)
    \/ ApplyTimeDecay
    \/ \E settings \in Settings : Initialize(settings) \/ UpdateConfig(settings)
    \/ Tick

Spec == Init /\ [][Next]_vars
-----------------------------------------------------------------------------
\* get_leaderboard: highest score first, entries of equal score in their order.
TopOf(board) == SortSeq(board, LAMBDA x, y : x.score > y.score)

\* check_access_control.
Admitted(e, threshold) ==
    /\ reputation[e].kind = "data"
    /\ ~reputation[e].is_slashed
    /\ reputation[e].overall_score >= threshold

\* Each variable holds values of its type.
TypeOK ==
    /\ now \in 0 .. MaxNow
    /\ \A e \in Entity : reputation[e].kind = "data" =>
          /\ reputation[e].overall_score \in Nat
          /\ \A f \in Factor : reputation[e].factors[f] \in 0 .. Scale
    /\ \A t \in EntityType : total_entities[t] \in 0 .. Cardinality(Entity)
    /\ config \in Settings

\* A leaderboard lists entities of its type, each once, as many as its counter says, and
\* decay, which walks the boards while it writes them, adds and loses none.
BoardCounted ==
    \A t \in EntityType :
        /\ Len(leaderboard[t]) = total_entities[t]
        /\ \A j, k \in DOMAIN leaderboard[t] :
              leaderboard[t][j].entity_address = leaderboard[t][k].entity_address => j = k
        /\ \A k \in DOMAIN leaderboard[t] :
              reputation[leaderboard[t][k].entity_address].entity_type = t

\* A board shows the score and the badge of each entity it lists that no performance was
\* reported of, whatever decayed or was initialized again; a report itself changes the
\* score and leaves the board behind.
RowsTrue ==
    \A t \in EntityType : \A k \in DOMAIN leaderboard[t] :
        LET row == leaderboard[t][k]
            data == reputation[row.entity_address]
        IN  history[row.entity_address] = <<>> =>
               row.score = data.overall_score /\ row.badge_level = data.badge_level

\* The badge is the one of the score after reports, decay and changed weights, in any
\* order, or none where the entity was only registered.
BadgeOfScore ==
    \A e \in Entity : reputation[e].kind = "data" =>
        \/ reputation[e].badge_level = BadgeLevel(reputation[e].overall_score)
        \/ /\ reputation[e].badge_level = "None"
           /\ reputation[e].overall_score = InitialScore /\ history[e] = <<>>
=============================================================================
